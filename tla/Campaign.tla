------------------------------ MODULE Campaign ------------------------------
(***************************************************************************)
(* How a flash-sale campaign comes into Redis and stays there: Create       *)
(* commits it to MySQL and initialises its Redis keys; every start of a     *)
(* process warms Redis from MySQL before it serves.  Meanwhile orders are   *)
(* reserved and persisted, and Redis comes back empty or loses keys of a     *)
(* campaign.                                                               *)
(*                                                                         *)
(* Reservations and consumers are here as far as they touch what            *)
(* initialize.lua reads and writes; Seckill has them in full.  An operator   *)
(* marked "Mutant" is used by no other definition.                          *)
(***************************************************************************)
EXTENDS Integers, FiniteSets

CONSTANTS
    Vouchers,      \* ids of the campaigns that Create may make
    OrderIds,      \* purchase attempts
    UserOf, VoucherOf,
    InitialStock,
    Processes,
    MaxLoss        \* bound on losses in Redis

ASSUME ConstantsAssumption ==
    /\ IsFiniteSet(OrderIds)
    /\ DOMAIN UserOf = OrderIds
    /\ VoucherOf \in [OrderIds -> Vouchers]
    /\ InitialStock \in [Vouchers -> Nat \ {0}]
    /\ Processes \cap Vouchers = {}
    /\ MaxLoss \in Nat

VARIABLES
    campaigns,  \* rows of tb_seckill_voucher
    dbStock,    \* the stock in them
    orders,     \* rows of tb_voucher_order
    redis,      \* see RedisState
    losses,     \* losses in Redis so far
    asked,      \* attempts that were accepted, whatever became of them
    create,     \* where the Create call of each voucher is
    pc,         \* where each process is
    plan,       \* the stock its Warm read, of each campaign it found
    todo,       \* campaigns it has not warmed yet
    seed,       \* what initialize, of a start or a Create, is about to write
    hand,       \* orders that consumers work on
    refused,    \* history: accepted orders MySQL had no room for
    torn        \* history: campaigns Redis lost with something mid-air

dbVars == <<campaigns, dbStock, orders>>
redisVars == <<redis, losses>>
startVars == <<pc, plan, todo>>
buyVars == <<asked, hand, refused>>
vars == <<dbVars, redisVars, create, startVars, seed, buyVars, torn>>

Set(f, x, v) == [f EXCEPT ![x] = v]
Slot(o) == <<VoucherOf[o], UserOf[o]>>
OfVoucher(S, v) == {o \in S : VoucherOf[o] = v}

KeyNames == {"stock", "meta", "buyers"}
Seeds == [voucher : Vouchers, holders : SUBSET OrderIds]

RedisState ==
    [keys    : [Vouchers -> SUBSET KeyNames],   \* which keys exist
     stock   : [Vouchers -> Nat],
     holders : SUBSET OrderIds,     \* the orders in the buyers hashes
     stream  : BOOLEAN,
     group   : BOOLEAN,
     pending : SUBSET OrderIds]     \* in the stream and not acknowledged

EmptyRedis ==
    [keys |-> [v \in Vouchers |-> {}], stock |-> [v \in Vouchers |-> 0],
     holders |-> {}, stream |-> FALSE, group |-> FALSE, pending |-> {}]

Complete(v) == redis.keys[v] = KeyNames

-----------------------------------------------------------------------------
(* initialize.lua *)

\* Mutant of MayInitialize: a lost campaign is set up again beside its stream.
MayInitializeBesideStream(v, mode) == redis.keys[v] = {} /\ mode \in {"new", "warm"}

\* No key is there, and no stream either unless the campaign is new.
MayInitialize(v, mode) ==
    /\ redis.keys[v] = {}
    /\ mode = "new" \/ ~redis.stream

\* Mutant of Seeded: the persisted buyers are left out.
SeededWithoutBuyers(s, stock) ==
    [redis EXCEPT !.keys[s.voucher] = KeyNames,
                  !.stock[s.voucher] = stock]

Seeded(s, stock) ==
    [redis EXCEPT !.keys[s.voucher] = KeyNames,
                  !.stock[s.voucher] = stock,
                  !.holders = @ \cup s.holders]

Initialized(s, stock, mode) ==
    IF MayInitialize(s.voucher, mode) THEN Seeded(s, stock) ELSE redis

\* Mutant of Accepts: the script's negative answers are not looked at.
AcceptsAny(v, mode) == v \in Vouchers /\ mode \in {"new", "warm"}

\* Mutant of Accepts: "n <= 0" in the place of "n < 0".
AcceptsNewOnly(v, mode) == MayInitialize(v, mode)

\* Its answer is not negative.
Accepts(v, mode) == Complete(v) \/ MayInitialize(v, mode)

\* VoucherOrders
SeedFor(v) == {[voucher |-> v, holders |-> OfVoucher(orders, v)]}

-----------------------------------------------------------------------------
(* The start of a process: Warm, then serving and the order worker *)

NoPlan == [v \in {} |-> 0]

Serving == \E p \in Processes : pc[p] \in {"up", "working"}

Down(p) ==
    /\ pc' = Set(pc, p, "down")
    /\ plan' = Set(plan, p, NoPlan)
    /\ todo' = Set(todo, p, {})
    /\ seed' = Set(seed, p, {})

\* SeckillVouchers, once for the whole Warm.
Begin(p) ==
    /\ pc[p] = "down"
    /\ pc' = Set(pc, p, "warm")
    /\ plan' = Set(plan, p, [v \in campaigns |-> dbStock[v]])
    /\ todo' = Set(todo, p, campaigns)
    /\ UNCHANGED <<dbVars, redisVars, create, seed, buyVars, torn>>

ReadOrders(p) ==
    /\ pc[p] = "warm"
    /\ seed[p] = {}
    /\ \E v \in todo[p] : seed' = Set(seed, p, SeedFor(v))
    /\ UNCHANGED <<dbVars, redisVars, create, startVars, buyVars, torn>>

Warm(p) ==
    /\ \E s \in seed[p] :
          /\ redis' = Initialized(s, plan[p][s.voucher], "warm")
          /\ IF Accepts(s.voucher, "warm")
             THEN /\ todo' = Set(todo, p, todo[p] \ {s.voucher})
                  /\ seed' = Set(seed, p, {})
                  /\ UNCHANGED <<pc, plan>>
             ELSE Down(p)
    /\ UNCHANGED <<dbVars, losses, create, buyVars, torn>>

\* A query or a call fails, or 30 s are over; the script may have run.
StartFails(p) ==
    /\ pc[p] = "warm"
    /\ redis' \in {redis} \cup {Initialized(s, plan[p][s.voucher], "warm") : s \in seed[p]}
    /\ Down(p)
    /\ UNCHANGED <<dbVars, losses, create, buyVars, torn>>

\* The HTTP server and the workers start side by side.
Serve(p) ==
    /\ pc[p] = "warm"
    /\ todo[p] = {}
    /\ pc' = Set(pc, p, "up")
    /\ UNCHANGED <<dbVars, redisVars, create, plan, todo, seed, buyVars, torn>>

\* OrderWorker.Run: XGROUP CREATE ... MKSTREAM, or BUSYGROUP.
Group(p) ==
    /\ pc[p] = "up"
    /\ redis' = [redis EXCEPT !.stream = TRUE, !.group = TRUE]
    /\ pc' = Set(pc, p, "working")
    /\ UNCHANGED <<dbVars, losses, create, plan, todo, seed, buyVars, torn>>

Stop(p) ==
    /\ pc[p] \in {"up", "working"}
    /\ Down(p)
    /\ UNCHANGED <<dbVars, redisVars, create, buyVars, torn>>

-----------------------------------------------------------------------------
(* VoucherService.Create *)

\* The transaction, whose COMMIT may take effect although Create sees an error.
Create(v) ==
    /\ Serving
    /\ create[v] = "none"
    /\ campaigns' = campaigns \cup {v}
    /\ dbStock' = Set(dbStock, v, InitialStock[v])
    /\ \E l \in {"committed", "error"} : create' = Set(create, v, l)
    /\ UNCHANGED <<orders, redisVars, startVars, seed, buyVars, torn>>

CreateReads(v) ==
    /\ create[v] = "committed"
    /\ seed' = Set(seed, v, SeedFor(v))
    /\ create' = Set(create, v, "initialize")
    /\ UNCHANGED <<dbVars, redisVars, startVars, buyVars, torn>>

CreateEnds(v, end) ==
    /\ create' = Set(create, v, end)
    /\ seed' = Set(seed, v, {})

CreateInitializes(v) ==
    /\ \E s \in seed[v] :
          /\ redis' = Initialized(s, InitialStock[v], "new")
          /\ CreateEnds(v, IF Accepts(v, "new") THEN "ok" ELSE "error")
    /\ UNCHANGED <<dbVars, losses, startVars, buyVars, torn>>

\* A call fails, or the process dies: the campaign stays in MySQL.
CreateFails(v) ==
    /\ create[v] \in {"committed", "initialize"}
    /\ redis' \in {redis} \cup {Initialized(s, InitialStock[v], "new") : s \in seed[v]}
    /\ CreateEnds(v, "error")
    /\ UNCHANGED <<dbVars, losses, startVars, buyVars, torn>>

-----------------------------------------------------------------------------
(* Reservations and consumers *)

\* seckill.lua: XADD, DECR and HSET.  A refused attempt changes nothing.
Reserve(o) ==
    /\ Serving
    /\ o \notin asked
    /\ Complete(VoucherOf[o])
    /\ redis.stock[VoucherOf[o]] > 0
    /\ \A h \in redis.holders : Slot(h) # Slot(o)
    /\ asked' = asked \cup {o}
    /\ redis' = [redis EXCEPT !.stock[VoucherOf[o]] = @ - 1, !.holders = @ \cup {o},
                              !.pending = @ \cup {o}, !.stream = TRUE]
    /\ UNCHANGED <<dbVars, losses, create, startVars, seed, hand, refused, torn>>

\* XREADGROUP or XAUTOCLAIM, by any worker that has started.
Deliver(o) ==
    /\ o \in redis.pending \ hand
    /\ redis.group
    /\ \E p \in Processes : pc[p] = "working"
    /\ hand' = hand \cup {o}
    /\ UNCHANGED <<dbVars, redisVars, create, startVars, seed, asked, refused, torn>>

Others(o) == {q \in orders : q # o /\ Slot(q) = Slot(o)}

\* OrderCreate: an order, or a rejection.
Persist(o) ==
    /\ o \in hand \ (orders \cup refused)
    /\ IF dbStock[VoucherOf[o]] > 0 /\ Others(o) = {}
       THEN /\ orders' = orders \cup {o}
            /\ dbStock' = Set(dbStock, VoucherOf[o], dbStock[VoucherOf[o]] - 1)
            /\ UNCHANGED refused
       ELSE refused' = refused \cup {o} /\ UNCHANGED <<orders, dbStock>>
    /\ UNCHANGED <<campaigns, redisVars, create, startVars, seed, asked, hand, torn>>

\* reject.lua refuses an order without its keys or its buyers entry.
Rejectable(o) ==
    /\ {"stock", "buyers"} \subseteq redis.keys[VoucherOf[o]]
    /\ o \in redis.holders

\* finish.lua or reject.lua, of an order Redis still knows.
Settle(o) ==
    /\ o \in hand \cap (orders \cup refused)
    /\ hand' = hand \ {o}
    /\ redis' =
         IF o \in redis.pending \cap orders
         THEN [redis EXCEPT !.pending = @ \ {o}]
         ELSE IF o \in redis.pending /\ Rejectable(o)
         THEN [redis EXCEPT !.pending = @ \ {o}, !.stock[VoucherOf[o]] = @ + 1,
                            !.holders = (@ \ {o}) \cup Others(o)]
         ELSE redis
    /\ UNCHANGED <<dbVars, losses, create, startVars, seed, asked, refused, torn>>

\* The consumer fails or dies; what it has committed stays.
Drop(o) ==
    /\ o \in hand
    /\ hand' = hand \ {o}
    /\ UNCHANGED <<dbVars, redisVars, create, startVars, seed, asked, refused, torn>>

-----------------------------------------------------------------------------
(* Losses in Redis *)

\* What MySQL says of v is not what somebody is about to rely on: a consumer
\* has an order of v in hand that MySQL does not show yet, a start has read a
\* stock of v that is no longer so, or Create will set up the first stock of v
\* although some of it is sold.
MidAir(v) ==
    \/ OfVoucher(hand \ (orders \cup refused), v) # {}
    \/ \E p \in Processes : v \in todo[p] /\ plan[p][v] # dbStock[v]
    \/ create[v] \in {"committed", "initialize"} /\ dbStock[v] # InitialStock[v]

\* Redis comes back empty; the processes run on.
Flush ==
    /\ losses < MaxLoss
    /\ losses' = losses + 1
    /\ redis' = EmptyRedis
    /\ torn' = torn \cup {v \in Vouchers : MidAir(v)}
    /\ UNCHANGED <<dbVars, create, startVars, seed, buyVars>>

\* Keys of a campaign are deleted, not while it is being created.
Lose(v, K) ==
    /\ losses < MaxLoss
    /\ K # {}
    /\ create[v] \notin {"committed", "initialize"}
    /\ losses' = losses + 1
    /\ redis' = [redis EXCEPT
                   !.keys[v] = @ \ K,
                   !.stock[v] = IF "stock" \in K THEN 0 ELSE @,
                   !.holders = IF "buyers" \in K THEN @ \ OfVoucher(@, v) ELSE @]
    /\ UNCHANGED <<dbVars, create, startVars, seed, buyVars, torn>>

-----------------------------------------------------------------------------
(* Specification *)

Init ==
    /\ campaigns = {}
    /\ dbStock = [v \in Vouchers |-> 0]
    /\ orders = {}
    /\ redis = EmptyRedis
    /\ losses = 0
    /\ asked = {}
    /\ create = [v \in Vouchers |-> "none"]
    /\ pc = [p \in Processes |-> "down"]
    /\ plan = [p \in Processes |-> NoPlan]
    /\ todo = [p \in Processes |-> {}]
    /\ seed = [x \in Processes \cup Vouchers |-> {}]
    /\ hand = {}
    /\ refused = {}
    /\ torn = {}

Start(p) == Begin(p) \/ ReadOrders(p) \/ Warm(p) \/ Serve(p) \/ Group(p)

Next ==
    \/ \E p \in Processes : Start(p) \/ StartFails(p) \/ Stop(p)
    \/ \E v \in Vouchers :
          \/ Create(v) \/ CreateReads(v) \/ CreateInitializes(v) \/ CreateFails(v)
          \/ \E K \in SUBSET redis.keys[v] : Lose(v, K)
    \/ \E o \in OrderIds : Reserve(o) \/ Deliver(o) \/ Persist(o) \/ Settle(o) \/ Drop(o)
    \/ Flush

Spec == Init /\ [][Next]_vars

\* A process that does not come up is started again, each call it makes
\* succeeds now and then, and a Create ends.
Fairness ==
    /\ \A p \in Processes :
          /\ WF_vars(Begin(p))
          /\ SF_vars(ReadOrders(p)) /\ SF_vars(Warm(p)) /\ SF_vars(Serve(p))
    /\ \A v \in Vouchers : WF_vars(CreateReads(v)) /\ WF_vars(CreateInitializes(v))

FairSpec == Spec /\ Fairness

-----------------------------------------------------------------------------
(* Properties *)

\* Every variable has its type.
TypeOK ==
    /\ campaigns \subseteq Vouchers
    /\ dbStock \in [Vouchers -> Nat]
    /\ orders \subseteq OrderIds
    /\ redis \in RedisState
    /\ losses \in 0..MaxLoss
    /\ asked \subseteq OrderIds
    /\ create \in [Vouchers -> {"none", "committed", "initialize", "ok", "error"}]
    /\ pc \in [Processes -> {"down", "warm", "up", "working"}]
    /\ plan = [p \in Processes |-> plan[p]]
    /\ \A p \in Processes :
          plan[p] \in [DOMAIN plan[p] -> Nat] /\ DOMAIN plan[p] \subseteq Vouchers
    /\ todo \in [Processes -> SUBSET Vouchers]
    /\ seed \in [Processes \cup Vouchers -> SUBSET Seeds]
    /\ hand \subseteq OrderIds
    /\ refused \subseteq OrderIds
    /\ torn \subseteq Vouchers

Owed(v) == OfVoucher(redis.pending \ orders, v)

\* A campaign on sale offers what MySQL has left once the accepted orders are
\* persisted, and knows everyone who holds an order, however often processes
\* start, Creates fail, keys are lost, or Redis is emptied and refilled; unless
\* it was emptied with something of this campaign mid-air.
Backed ==
    \A v \in Vouchers \ torn : Complete(v) =>
        /\ redis.stock[v] + Cardinality(Owed(v)) = dbStock[v]
        /\ \A o \in OfVoucher(redis.pending \cup orders, v) :
              \E h \in redis.holders : Slot(h) = Slot(o)

\* An accepted order is never rejected by MySQL, unless Redis was emptied with
\* something of its campaign mid-air.
RefusedOnlyIfTorn == \A o \in refused : VoucherOf[o] \in torn

\* While nothing is lost, a campaign is wholly on sale or nobody has bought of
\* it: a failed Create leaves no part of it in Redis.  It is on sale if its
\* Create succeeded or a serving process found it when it started.
OnSale ==
    losses = 0 =>
        /\ \A v \in Vouchers :
              Complete(v) \/ (redis.keys[v] = {} /\ OfVoucher(asked, v) = {})
        /\ \A v \in Vouchers : create[v] = "ok" => Complete(v)
        /\ \A p \in Processes : pc[p] \in {"up", "working"} =>
              \A v \in DOMAIN plan[p] : Complete(v)

\* The campaign is in MySQL and cannot be warmed: its Create ended in an
\* error or its keys are lost, and an operator has to repair it.
Broken(v) ==
    /\ v \in campaigns
    /\ create[v] \notin {"committed", "initialize"}
    /\ ~Complete(v)
    /\ redis.keys[v] # {} \/ redis.stream

\* A process that is started again and again comes up, whatever Creates and
\* other starts run beside it, unless a campaign is broken.
ComesUp ==
    \A p \in Processes :
        pc[p] = "down" ~> (pc[p] = "up" \/ \E v \in Vouchers : Broken(v))

\* What the comment of Warm says: a cold campaign is initialised from committed
\* data, so that the stock and the buyers of it belong together.
SeedIsCommitted ==
    [][\A v \in Vouchers :
          redis.keys[v] = {} /\ redis'.keys[v] = KeyNames =>
              redis'.stock[v] + Cardinality(OfVoucher(redis'.holders, v)) = InitialStock[v]]_vars

=============================================================================
