------------------------------ MODULE Seckill ------------------------------
(***************************************************************************)
(* The flash-sale path of go-dianping: POST /voucher-order/seckill reserves *)
(* stock in Redis with seckill.lua and answers at once; the consumers of    *)
(* OrderWorker read the accepted orders from a Redis stream, write them to  *)
(* MySQL with OrderCreate and settle the reservation with finish.lua or     *)
(* reject.lua.  Delivery is at least once: XAUTOCLAIM hands a pending       *)
(* message to any consumer while its first reader may still be at work.     *)
(*                                                                         *)
(* One Lua script is one atomic step of Redis.  A MySQL statement is a step *)
(* of its own, except that UPDATE, INSERT and COMMIT are one step: UPDATE   *)
(* takes the lock of the campaign's stock row and COMMIT releases it.       *)
(*                                                                         *)
(* An operator marked "Mutant" is used by no other definition: it is a bug  *)
(* the code might have, kept to show which property would notice it.        *)
(***************************************************************************)
EXTENDS Integers, FiniteSets

CONSTANTS
    OrderIds,       \* ids NextOrderID hands out, one per purchase attempt
    Users,
    Vouchers,       \* initialised seckill campaigns
    UserOf,         \* the user who makes the attempt
    VoucherOf,      \* the campaign the attempt is for
    InitialStock,   \* stock of each campaign when Redis was warmed
    Garbage,        \* stream messages without valid order fields
    Consumers,      \* goroutines of every running OrderWorker
    Batch,          \* messages one XAUTOCLAIM or XREADGROUP returns (16)
    MaxRedisCrash,  \* how often Redis may restart from its append-only file
    None            \* no order

ASSUME ConstantsAssumption ==
    /\ IsFiniteSet(OrderIds)
    /\ UserOf \in [OrderIds -> Users]
    /\ VoucherOf \in [OrderIds -> Vouchers]
    /\ InitialStock \in [Vouchers -> Nat]
    /\ Garbage \cap OrderIds = {}
    /\ Batch \in Nat
    /\ MaxRedisCrash \in Nat
    /\ None \notin OrderIds \cup Garbage

VARIABLES
    redis,      \* the Redis data set, see RedisState
    saved,      \* the prefix of it the append-only file has on disk
    crashes,    \* restarts of Redis so far
    dbStock,    \* tb_seckill_voucher.stock
    orders,     \* committed rows of tb_voucher_order, by id
    req,        \* the client's view of its purchase request
    inflight,   \* requests whose seckill.lua call may still reach Redis
    late,       \* script calls a consumer gave up on and Redis may still run
    pc,         \* where each consumer is
    turn,       \* whether it polls with XAUTOCLAIM or XREADGROUP next
    batch,      \* messages it received and has not picked yet
    cur,        \* message it is processing
    cause,      \* what OrderCreate's transaction was refused for
    existing    \* OrderRejection.ExistingOrderID

redisVars == <<redis, saved, crashes>>
dbVars == <<dbStock, orders>>
clientVars == <<req, inflight>>
workerVars == <<pc, turn, batch, cur, cause, existing>>
vars == <<redis, saved, crashes, dbStock, orders, req, inflight, late,
          pc, turn, batch, cur, cause, existing>>

-----------------------------------------------------------------------------
(* Types *)

Messages == OrderIds \cup Garbage
Slots == Vouchers \X Users
OrderStates == {"none", "pending", "created", "failed"}
ScriptOps == {"finish", "reject", "ack", "quarantine"}
Locations == {"next", "create", "write", "recheckId", "recheckPair"} \cup ScriptOps

\* One order per user and campaign: the field of the buyers hash, and the
\* UNIQUE(user_id, voucher_id) key of tb_voucher_order.
Slot(o) == <<VoucherOf[o], UserOf[o]>>

RedisState ==
    [stock  : [Vouchers -> Nat],
     buyers : [Slots -> OrderIds \cup {None}],
     status : [OrderIds -> OrderStates],
     stream : SUBSET Messages,      \* every entry ever added, never trimmed
     fresh  : SUBSET Messages,      \* entries the group has not delivered yet
     pel    : SUBSET Messages,      \* delivered, not acknowledged
     dead   : [Messages -> Nat]]    \* entries about it in the dead stream

Calls == [op : ScriptOps, msg : Messages, existing : OrderIds \cup {None}]

-----------------------------------------------------------------------------
(* The Lua scripts, as functions of the Redis data set *)

Windows == {"before", "open", "after"}

\* Mutant of Admits: HEXISTS on the buyers hash is forgotten.
AdmitsTwice(r, o, now) ==
    r.status[o] = "none" /\ now = "open" /\ r.stock[VoucherOf[o]] > 0

\* seckill.lua after its key checks: the campaign is open, the user has no
\* reservation and there is stock.
Admits(r, o, now) ==
    /\ r.status[o] = "none"
    /\ now = "open"
    /\ r.buyers[Slot(o)] = None
    /\ r.stock[VoucherOf[o]] > 0

Reserved(r, o) ==
    [r EXCEPT !.stream = @ \cup {o},
              !.fresh = @ \cup {o},
              !.stock[VoucherOf[o]] = @ - 1,
              !.buyers[Slot(o)] = o,
              !.status[o] = "pending"]

\* What the client is told: 0, one of 1..4, or -2 when the status key exists.
Answer(r, o, now) ==
    IF r.status[o] # "none" THEN "error"
    ELSE IF Admits(r, o, now) THEN "ok" ELSE "refused"

\* Mutant of Delivered: XREADGROUP with NOACK.
DeliveredNoAck(r, S) == [r EXCEPT !.fresh = @ \ S]

\* XREADGROUP moves entries to the pending list, XACK takes one off it.
Delivered(r, S) == [r EXCEPT !.fresh = @ \ S, !.pel = @ \cup S]

Acked(r, m) == [r EXCEPT !.pel = @ \ {m}]

\* Mutant of Finished: the script acknowledges and forgets the status.
FinishedAckOnly(r, o) == Acked(r, o)

Finished(r, o) == Acked([r EXCEPT !.status[o] = "created"], o)

\* reject.lua gives the reservation back only while it is pending and owned
\* by this order; a persisted purchase of the same user keeps the slot.
Compensates(r, o) == r.status[o] = "pending" /\ r.buyers[Slot(o)] = o

Compensated(r, o, other) ==
    Acked([r EXCEPT !.dead[o] = @ + 1,
                    !.stock[VoucherOf[o]] = @ + 1,
                    !.buyers[Slot(o)] = other,
                    !.status[o] = "failed"], o)

\* Mutant of Rejected: no check of the state the reservation is in.
RejectedBlindly(r, o, other) == Compensated(r, o, other)

Rejected(r, o, other) ==
    IF r.status[o] \in {"failed", "created"} THEN Acked(r, o)
    ELSE IF Compensates(r, o) THEN Compensated(r, o, other)
    ELSE r

\* Mutant of Quarantined: the message is dropped instead.
QuarantinedNowhere(r, g) == Acked(r, g)

Quarantined(r, g) ==
    IF g \in r.pel THEN Acked([r EXCEPT !.dead[g] = @ + 1], g) ELSE r

RunScript(r, call) ==
    CASE call.op = "finish"     -> Finished(r, call.msg)
      [] call.op = "reject"     -> Rejected(r, call.msg, call.existing)
      [] call.op = "ack"        -> Acked(r, call.msg)
      [] call.op = "quarantine" -> Quarantined(r, call.msg)

-----------------------------------------------------------------------------
(* Purchase requests: VoucherService.Seckill *)

Request(o) ==
    /\ req[o] = "idle"
    /\ req' = [req EXCEPT ![o] = "sent"]
    /\ inflight' = inflight \cup {o}
    /\ UNCHANGED <<redisVars, dbVars, late, workerVars>>

\* Redis runs the script.  Either the reply reaches the handler, or it is
\* lost and the client library sends the same call again.
Reserve(o) ==
    /\ o \in inflight
    /\ \E now \in Windows :
          /\ redis' = IF Admits(redis, o, now) THEN Reserved(redis, o) ELSE redis
          /\ \/ /\ req[o] = "sent"
                /\ req' = [req EXCEPT ![o] = Answer(redis, o, now)]
                /\ inflight' = inflight \ {o}
             \/ UNCHANGED clientVars
    /\ UNCHANGED <<saved, crashes, dbVars, late, workerVars>>

\* The request fails at the client; the call may still be on its way.
GiveUp(o) ==
    /\ req[o] = "sent"
    /\ req' = [req EXCEPT ![o] = "error"]
    /\ UNCHANGED <<redisVars, dbVars, inflight, late, workerVars>>

-----------------------------------------------------------------------------
(* Consumers: OrderWorker.consume and process *)

\* The consumer turns to the next message of its batch.
Done(c) ==
    /\ pc' = [pc EXCEPT ![c] = "next"]
    /\ cur' = [cur EXCEPT ![c] = None]
    /\ cause' = [cause EXCEPT ![c] = "none"]
    /\ existing' = [existing EXCEPT ![c] = None]

Polls(c, which) == pc[c] = "next" /\ batch[c] = {} /\ turn[c] = which

\* XAUTOCLAIM returns pending messages that have been idle long enough, of
\* any consumer, this one included; which ones have been is left open.
Claim(c) ==
    /\ Polls(c, "claim")
    /\ \E S \in SUBSET redis.pel :
          /\ Cardinality(S) <= Batch
          /\ batch' = [batch EXCEPT ![c] = S]
    /\ turn' = [turn EXCEPT ![c] = "read"]
    /\ UNCHANGED <<redisVars, dbVars, clientVars, late, pc, cur, cause, existing>>

\* XREADGROUP moves new messages to the pending list; when the reply is lost
\* they are there although no consumer has them.
Read(c) ==
    /\ Polls(c, "read")
    /\ \E S \in SUBSET redis.fresh :
          /\ Cardinality(S) <= Batch
          /\ redis' = Delivered(redis, S)
          /\ \E received \in {S, {}} : batch' = [batch EXCEPT ![c] = received]
    /\ turn' = [turn EXCEPT ![c] = "claim"]
    /\ UNCHANGED <<saved, crashes, dbVars, clientVars, late, pc, cur, cause, existing>>

\* parseOrder, then the HGET of the order's state.
Route(m) ==
    IF m \in Garbage THEN "quarantine"
    ELSE IF redis.status[m] = "failed" THEN "ack" ELSE "create"

Pick(c) ==
    /\ pc[c] = "next"
    /\ \E m \in batch[c] :
          /\ cur' = [cur EXCEPT ![c] = m]
          /\ batch' = [batch EXCEPT ![c] = @ \ {m}]
          /\ pc' = [pc EXCEPT ![c] = Route(m)]
    /\ UNCHANGED <<redisVars, dbVars, clientVars, late, turn, cause, existing>>

-----------------------------------------------------------------------------
(* Repository.OrderCreate *)

OthersOfPair(o) == {p \in orders : p # o /\ Slot(p) = Slot(o)}

\* An OrderRejection that names the order holding the user's slot, if any.
RejectFor(c, other) ==
    /\ pc' = [pc EXCEPT ![c] = "reject"]
    /\ existing' = [existing EXCEPT ![c] = other]

\* The two SELECTs of the transaction read one snapshot.
Create(c) ==
    /\ pc[c] = "create"
    /\ \/ /\ cur[c] \in orders
          /\ pc' = [pc EXCEPT ![c] = "finish"]
          /\ UNCHANGED existing
       \/ /\ cur[c] \notin orders
          /\ \E other \in OthersOfPair(cur[c]) : RejectFor(c, other)
       \/ /\ cur[c] \notin orders
          /\ OthersOfPair(cur[c]) = {}
          /\ pc' = [pc EXCEPT ![c] = "write"]
          /\ UNCHANGED existing
    /\ UNCHANGED <<redisVars, dbVars, clientVars, late, turn, batch, cur, cause>>

Insertable(o) ==
    /\ dbStock[VoucherOf[o]] > 0
    /\ o \notin orders
    /\ OthersOfPair(o) = {}

Insert(o) ==
    /\ Insertable(o)
    /\ orders' = orders \cup {o}
    /\ dbStock' = [dbStock EXCEPT ![VoucherOf[o]] = @ - 1]

\* UPDATE ... stock > 0, INSERT and COMMIT.
Write(c) ==
    /\ pc[c] = "write"
    /\ Insert(cur[c])
    /\ pc' = [pc EXCEPT ![c] = "finish"]
    /\ UNCHANGED <<redisVars, clientVars, late, turn, batch, cur, cause, existing>>

\* Mutant of WriteUnknown: UPDATE and INSERT outside of one transaction.
WriteUnknownHalf(c) ==
    /\ pc[c] = "write"
    /\ Insertable(cur[c])
    /\ dbStock' = [dbStock EXCEPT ![VoucherOf[cur[c]]] = @ - 1]
    /\ Done(c)
    /\ UNCHANGED <<redisVars, orders, clientVars, late, turn, batch>>

\* The commit takes effect but the consumer sees an error: the message stays
\* pending and its retry finds the order.
WriteUnknown(c) ==
    /\ pc[c] = "write"
    /\ Insert(cur[c])
    /\ Done(c)
    /\ UNCHANGED <<redisVars, clientVars, late, turn, batch>>

\* No row updated, or a duplicate key: the transaction rolls back.
WriteRefused(c) ==
    /\ pc[c] = "write"
    /\ ~Insertable(cur[c])
    /\ cause' = [cause EXCEPT
                   ![c] = IF dbStock[VoucherOf[cur[c]]] = 0 THEN "stock" ELSE "dup"]
    /\ pc' = [pc EXCEPT ![c] = "recheckId"]
    /\ UNCHANGED <<redisVars, dbVars, clientVars, late, turn, batch, cur, existing>>

\* Mutant of RecheckId: a refusal is final although the same order may have
\* been committed by another consumer since.
RecheckIdSkipped(c) ==
    /\ pc[c] = "recheckId"
    /\ pc' = [pc EXCEPT ![c] = "recheckPair"]
    /\ UNCHANGED <<redisVars, dbVars, clientVars, late, turn, batch, cur, cause, existing>>

\* After a refusal the order is looked up again, in a new snapshot.
RecheckId(c) ==
    /\ pc[c] = "recheckId"
    /\ pc' = [pc EXCEPT ![c] = IF cur[c] \in orders THEN "finish" ELSE "recheckPair"]
    /\ UNCHANGED <<redisVars, dbVars, clientVars, late, turn, batch, cur, cause, existing>>

\* Then its pair.  A duplicate without a row is an error (see Abandon).
RecheckPair(c) ==
    /\ pc[c] = "recheckPair"
    /\ \/ \E other \in OthersOfPair(cur[c]) : RejectFor(c, other)
       \/ /\ OthersOfPair(cur[c]) = {}
          /\ cause[c] = "stock"
          /\ RejectFor(c, None)
    /\ UNCHANGED <<redisVars, dbVars, clientVars, late, turn, batch, cur, cause>>

-----------------------------------------------------------------------------
(* Settling a message, and everything that goes wrong *)

CallOf(c) == [op |-> pc[c], msg |-> cur[c], existing |-> existing[c]]

CallScript(c) ==
    /\ pc[c] \in ScriptOps
    /\ redis' = RunScript(redis, CallOf(c))
    /\ Done(c)
    /\ UNCHANGED <<saved, crashes, dbVars, clientVars, late, turn, batch>>

\* A call the consumer no longer waits for may still reach Redis.
LeaveBehind(c) ==
    late' = IF pc[c] \in ScriptOps THEN late \cup {CallOf(c)} ELSE late

\* Mutant of Abandon: any database error is taken for a rejection.
AbandonRejects(c) ==
    /\ pc[c] \in {"create", "write", "recheckId", "recheckPair"}
    /\ RejectFor(c, None)
    /\ UNCHANGED <<redisVars, dbVars, clientVars, late, turn, batch, cur, cause>>

\* process returns an error (timeout, deadlock, lost connection, panic): the
\* message stays in the pending list.
Abandon(c) ==
    /\ pc[c] # "next"
    /\ LeaveBehind(c)
    /\ Done(c)
    /\ UNCHANGED <<redisVars, dbVars, clientVars, turn, batch>>

\* The process of the consumer dies and is started again.
Restart(c) ==
    /\ LeaveBehind(c)
    /\ Done(c)
    /\ batch' = [batch EXCEPT ![c] = {}]
    /\ turn' = [turn EXCEPT ![c] = "claim"]
    /\ UNCHANGED <<redisVars, dbVars, clientVars>>

\* The delayed call runs; the client library may have sent it more than once.
LateCall ==
    /\ \E call \in late : redis' = RunScript(redis, call)
    /\ UNCHANGED <<saved, crashes, dbVars, clientVars, late, workerVars>>

\* appendfsync everysec.
Persist ==
    /\ crashes < MaxRedisCrash
    /\ saved' = redis
    /\ UNCHANGED <<redis, crashes, dbVars, clientVars, late, workerVars>>

\* Redis restarts from the append-only file.  Every connection breaks, and
\* the restart outlasts the retries of the client library.
RedisCrash ==
    /\ crashes < MaxRedisCrash
    /\ crashes' = crashes + 1
    /\ redis' = saved
    /\ late' = {}
    /\ inflight' = {}
    /\ req' = [o \in OrderIds |-> IF req[o] = "sent" THEN "error" ELSE req[o]]
    /\ UNCHANGED <<saved, dbVars, workerVars>>

-----------------------------------------------------------------------------
(* Specification *)

\* VoucherService.Warm has initialised every campaign, nothing is sold yet.
EmptyRedis ==
    [stock  |-> InitialStock,
     buyers |-> [s \in Slots |-> None],
     status |-> [o \in OrderIds |-> "none"],
     stream |-> Garbage,
     fresh  |-> Garbage,
     pel    |-> {},
     dead   |-> [m \in Messages |-> 0]]

Init ==
    /\ redis = EmptyRedis
    /\ saved = EmptyRedis
    /\ crashes = 0
    /\ dbStock = InitialStock
    /\ orders = {}
    /\ req = [o \in OrderIds |-> "idle"]
    /\ inflight = {}
    /\ late = {}
    /\ pc = [c \in Consumers |-> "next"]
    /\ turn = [c \in Consumers |-> "claim"]
    /\ batch = [c \in Consumers |-> {}]
    /\ cur = [c \in Consumers |-> None]
    /\ cause = [c \in Consumers |-> "none"]
    /\ existing = [c \in Consumers |-> None]

Consume(c) ==
    \/ Claim(c) \/ Read(c) \/ Pick(c)
    \/ Create(c) \/ Write(c) \/ WriteUnknown(c) \/ WriteRefused(c)
    \/ RecheckId(c) \/ RecheckPair(c)
    \/ CallScript(c)

Next ==
    \/ \E o \in OrderIds : Request(o) \/ Reserve(o) \/ GiveUp(o)
    \/ \E c \in Consumers : Consume(c) \/ Abandon(c) \/ Restart(c)
    \/ LateCall
    \/ Persist
    \/ RedisCrash

Spec == Init /\ [][Next]_vars

\* Faults are transient: a consumer does not stop for good, and a step on a
\* message that is attempted again and again succeeds in the end.
Fairness ==
    /\ \A c \in Consumers : WF_vars(Consume(c))
    /\ \A m \in Messages :
          /\ SF_vars(\E c \in Consumers : (Claim(c) \/ Read(c)) /\ m \in batch'[c])
          /\ SF_vars(\E c \in Consumers : Pick(c) /\ cur'[c] = m)
          /\ SF_vars(\E c \in Consumers : cur[c] = m /\ Create(c))
          /\ SF_vars(\E c \in Consumers : cur[c] = m /\ Write(c))
          /\ SF_vars(\E c \in Consumers : cur[c] = m /\ CallScript(c))

FairSpec == Spec /\ Fairness

-----------------------------------------------------------------------------
(* Properties *)

\* Every variable has its type.
TypeOK ==
    /\ redis \in RedisState
    /\ saved \in RedisState
    /\ crashes \in 0..MaxRedisCrash
    /\ dbStock \in [Vouchers -> Nat]
    /\ orders \subseteq OrderIds
    /\ req \in [OrderIds -> {"idle", "sent", "ok", "refused", "error"}]
    /\ inflight \subseteq OrderIds
    /\ late \subseteq Calls
    /\ pc \in [Consumers -> Locations]
    /\ turn \in [Consumers -> {"claim", "read"}]
    /\ batch \in [Consumers -> SUBSET Messages]
    /\ cur \in [Consumers -> Messages \cup {None}]
    /\ cause \in [Consumers -> {"none", "stock", "dup"}]
    /\ existing \in [Consumers -> OrderIds \cup {None}]

Accepted(r) == r.stream \cap OrderIds
Failed(r) == {o \in OrderIds : r.status[o] = "failed"}
Live(r) == Accepted(r) \ Failed(r)
OfVoucher(S, v) == {o \in S : VoucherOf[o] = v}

\* A unit of stock is either on sale in Redis or held by one live order:
\* seckill.lua takes it and reject.lua returns it exactly once, whatever is
\* delivered twice, called late or lost with the tail of the append-only file.
ReservationLedger ==
    \A r \in {redis, saved} : \A v \in Vouchers :
        r.stock[v] + Cardinality(OfVoucher(Live(r), v)) = InitialStock[v]

\* MySQL never sells more than the campaign had, and every unit taken from
\* the stock row belongs to one committed order (OrderCreate's transaction).
SalesLedger ==
    \A v \in Vouchers :
        dbStock[v] + Cardinality(OfVoucher(orders, v)) = InitialStock[v]

\* A user owns at most one live reservation of a campaign in Redis and at
\* most one order of it in MySQL, although attempts run concurrently.
OnePerUser ==
    \A S \in {Live(redis), Live(saved), orders} : \A o, p \in S :
        Slot(o) = Slot(p) => o = p

\* No row can ever be written for the order: its campaign is sold out in
\* MySQL, or another order of the same user is there.
Refutable(o) == o \notin orders /\ (dbStock[VoucherOf[o]] = 0 \/ OthersOfPair(o) # {})

\* What Redis tells the client about an order agrees with MySQL: "created" is
\* said only of a committed row, and a reservation is compensated only when
\* no consumer, however late, can still commit the order.
VerdictMatchesSales ==
    \A r \in {redis, saved} : \A o \in OrderIds :
        /\ r.status[o] = "created" => o \in orders
        /\ r.status[o] = "failed" => Refutable(o)

\* An accepted order leaves the pending list only when it is settled, and a
\* malformed message only when the dead stream has it.  This survives one
\* loss of Redis writes.  A second one can break it: process reads "failed",
\* Redis falls back to a prefix in which the order is pending, and the XACK
\* that follows drops the order with its reservation still held.
AckedIsSettled ==
    crashes <= 1 =>
        \A m \in redis.stream \ (redis.fresh \cup redis.pel) :
            IF m \in OrderIds THEN redis.status[m] \in {"created", "failed"}
                              ELSE redis.dead[m] = 1

\* The dead stream has one entry of a failed order or malformed message and
\* none of any other, although reject.lua and quarantine.lua may run twice.
DeadLetterOnce ==
    \A r \in {redis, saved} : \A m \in Messages :
        r.dead[m] <= IF m \in OrderIds /\ r.status[m] # "failed" THEN 0 ELSE 1

\* While Redis loses nothing, an order the client was told is accepted is in
\* the stream, and no accepted order is ever rejected by MySQL.
AcceptedIsHonoured ==
    crashes = 0 =>
        /\ Failed(redis) = {}
        /\ \A o \in OrderIds : req[o] = "ok" => o \in Live(redis)

\* The state the status endpoint reads only moves forward, unless Redis
\* restarts: a settled order never changes its verdict, and no record
\* disappears.
StatusMovesForward ==
    [][crashes' = crashes =>
         \A o \in OrderIds :
            /\ redis.status[o] = "pending" => redis'.status[o] # "none"
            /\ redis.status[o] \in {"created", "failed"} =>
                   redis'.status[o] = redis.status[o]]_vars

\* Every malformed message reaches the dead stream and leaves the list.
Quarantines ==
    \A g \in Garbage : <>[](redis.dead[g] = 1 /\ g \notin redis.fresh \cup redis.pel)

=============================================================================
