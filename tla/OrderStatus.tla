---------------------------- MODULE OrderStatus ----------------------------
(***************************************************************************)
(* The order status endpoint over the flash sale of Seckill. A client that   *)
(* was told its purchase is accepted asks for the order; the answer comes    *)
(* from the MySQL row if there is one, else from the Redis status. The two   *)
(* reads are two steps, and the consumers, or a restart of Redis, may come   *)
(* between them.                                                            *)
(***************************************************************************)
EXTENDS Seckill

VARIABLES
    asking,   \* the order a client asks about, None between two questions
    source,   \* what GetOrderStatus reads next
    told      \* the last answer about each order

statusVars == <<asking, source, told>>
allVars == <<redis, saved, crashes, dbStock, orders, req, inflight, late,
             pc, turn, batch, cur, cause, existing, asking, source, told>>

Answers == {"nothing", "pending", "created", "failed", "notfound"}

StatusTypeOK ==
    /\ asking \in OrderIds \cup {None}
    /\ source \in {"mysql", "redis"}
    /\ told \in [OrderIds -> Answers]

Tell(answer) ==
    /\ told' = [told EXCEPT ![asking] = answer]
    /\ asking' = None /\ source' = "mysql"

\* The request: the client has the id from the answer to its purchase.
Ask(o) ==
    /\ asking = None /\ req[o] = "ok"
    /\ asking' = o
    /\ UNCHANGED <<vars, source, told>>

\* Mutant of ReadMySQL: the row is not looked for.
SkipMySQL ==
    /\ asking # None /\ source = "mysql"
    /\ source' = "redis"
    /\ UNCHANGED <<vars, asking, told>>

\* OrderGet: a row is the answer, no row sends the call on to Redis.
ReadMySQL ==
    /\ asking # None /\ source = "mysql"
    /\ IF asking \in orders THEN Tell("created")
       ELSE source' = "redis" /\ UNCHANGED <<asking, told>>
    /\ UNCHANGED vars

\* HGETALL of the status hash, whose userId is the client's when it exists.
ReadRedis ==
    /\ asking # None /\ source = "redis"
    /\ Tell(IF redis.status[asking] = "none" THEN "notfound" ELSE redis.status[asking])
    /\ UNCHANGED vars

\* MySQL or Redis fails: the client is told nothing new.
AskFails ==
    /\ asking # None
    /\ Tell(told[asking])
    /\ UNCHANGED vars

StatusInit == Init /\ asking = None /\ source = "mysql" /\ told = [o \in OrderIds |-> "nothing"]

StatusNext ==
    \/ Next /\ UNCHANGED statusVars
    \/ \E o \in OrderIds : Ask(o)
    \/ ReadMySQL \/ ReadRedis \/ AskFails

StatusSpec == StatusInit /\ [][StatusNext]_allVars

-----------------------------------------------------------------------------
(* Properties *)

\* What a client was told stays true. "created" is said of a committed row and
\* repeated ever after, although Redis may forget the order; an order that was
\* called failed is never called created; and as long as Redis loses nothing
\* no accepted order is unknown or goes back to pending.
StatusIsFinal ==
    [][\A o \in OrderIds :
          /\ told'[o] = "created" => o \in orders
          /\ told[o] = "created" => told'[o] = "created"
          /\ told[o] = "failed" => told'[o] # "created"
          /\ crashes' = 0 => /\ told'[o] # "notfound"
                             /\ told[o] = "failed" => told'[o] = "failed"]_allVars

=============================================================================
