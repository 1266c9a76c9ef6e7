--------------------------- MODULE CampaignProofs ---------------------------
(***************************************************************************)
(* Theorems about Campaign, for any campaigns, buyers, processes and losses. *)
(***************************************************************************)
EXTENDS Campaign, FiniteSetTheorems, TLAPS

-----------------------------------------------------------------------------
(* The strengthening *)

\* Where everybody is: which campaigns exist, who has read what, and that
\* nothing happens to a campaign before its Create.
Known ==
    /\ campaigns = {v \in Vouchers : create[v] # "none"}
    /\ \A v \in Vouchers : redis.keys[v] # {} => v \in campaigns
    /\ \A o \in asked : VoucherOf[o] \in campaigns
    /\ orders \cup redis.pending \cup hand \cup refused \subseteq asked
    /\ \A p \in Processes :
          /\ DOMAIN plan[p] \subseteq campaigns
          /\ todo[p] \subseteq DOMAIN plan[p]
          /\ pc[p] \in {"up", "working"} => todo[p] = {}
          /\ seed[p] # {} => pc[p] = "warm"
          /\ \A s \in seed[p] : s.voucher \in todo[p]
    /\ \A v \in Vouchers :
          /\ seed[v] # {} => create[v] = "initialize"
          /\ \A s \in seed[v] : s.voucher = v /\ s.holders \subseteq orders
    /\ ~redis.stream => redis.pending = {}

\* The accepted orders of a campaign have room in MySQL, each for its own
\* user, and while the campaign is on sale Redis offers what is left.
Room(v) ==
    /\ Cardinality(Owed(v)) <= dbStock[v]
    /\ \A o \in OfVoucher(redis.pending \ orders, v), q \in redis.pending \cup orders :
          Slot(q) = Slot(o) => q = o
    /\ Complete(v) =>
          /\ redis.stock[v] + Cardinality(Owed(v)) = dbStock[v]
          /\ \A o \in OfVoucher(redis.pending \cup orders, v) :
                \E h \in redis.holders : Slot(h) = Slot(o)

\* What Create relies on: nobody bought before the keys were there.
Untouched(v) ==
    create[v] \in {"committed", "initialize"} /\ redis.keys[v] = {} =>
        OfVoucher(redis.pending \cup orders, v) = {} /\ dbStock[v] = InitialStock[v]

\* The stock in MySQL only falls, by an order each time: who has read an
\* older stock can tell, and buyers read since then are too few only if it fell.
Spent ==
    /\ \A v \in campaigns :
          /\ dbStock[v] <= InitialStock[v]
          /\ OfVoucher(orders, v) # {} => dbStock[v] < InitialStock[v]
    /\ \A p \in Processes :
          /\ \A v \in DOMAIN plan[p] : dbStock[v] <= plan[p][v]
          /\ \A s \in seed[p] :
                s.holders # OfVoucher(orders, s.voucher) => dbStock[s.voucher] < plan[p][s.voucher]

\* What a cold start relies on: without a stream nothing is on its way to
\* MySQL, so that what it read is still there.
ReadIsTrue(p) ==
    pc[p] = "warm" /\ ~redis.stream =>
        \A v \in todo[p] \ torn : plan[p][v] = dbStock[v]

Whole ==
    /\ \A o \in refused : VoucherOf[o] \in torn
    /\ \A o \in hand : VoucherOf[o] \in torn \/ o \in redis.pending \cup orders
    /\ \A v \in Vouchers \ torn : Room(v) /\ Untouched(v)
    /\ \A p \in Processes : ReadIsTrue(p)

IInv == TypeOK /\ Known /\ Spent /\ Whole

\* Campaigns stay on sale as long as Redis loses nothing.
Kept ==
    losses = 0 =>
        /\ \A v \in Vouchers : create[v] = "ok" => Complete(v)
        /\ \A v \in Vouchers : Complete(v) \/ (redis.keys[v] = {} /\ OfVoucher(asked, v) = {})
        /\ \A p \in Processes : pc[p] # "down" => \A v \in DOMAIN plan[p] \ todo[p] : Complete(v)

-----------------------------------------------------------------------------
(* Types *)

Steps == {"down", "warm", "up", "working"}
CreateSteps == {"none", "committed", "initialize", "ok", "error"}

LEMMA Constants ==
    /\ \A o \in OrderIds : VoucherOf[o] \in Vouchers
    /\ \A v \in Vouchers : InitialStock[v] \in Nat
    /\ Processes \cap Vouchers = {} /\ MaxLoss \in Nat /\ IsFiniteSet(OrderIds)
BY ConstantsAssumption DEF ConstantsAssumption

\* What initialize.lua writes, field by field.
LEMMA SeededFields ==
    ASSUME TypeOK, NEW s \in Seeds, NEW n \in Nat
    PROVE  /\ Seeded(s, n) \in RedisState
           /\ Seeded(s, n).keys = [redis.keys EXCEPT ![s.voucher] = KeyNames]
           /\ Seeded(s, n).stock = [redis.stock EXCEPT ![s.voucher] = n]
           /\ Seeded(s, n).holders = redis.holders \cup s.holders
           /\ Seeded(s, n).stream = redis.stream
           /\ Seeded(s, n).group = redis.group
           /\ Seeded(s, n).pending = redis.pending
<1>1. s.voucher \in Vouchers /\ s.holders \subseteq OrderIds
  BY DEF Seeds
<1> QED
  BY <1>1 DEF Seeded, RedisState, TypeOK, KeyNames

LEMMA InitializedType ==
    ASSUME TypeOK, NEW s \in Seeds, NEW n \in Nat, NEW mode
    PROVE  Initialized(s, n, mode) \in RedisState
BY SeededFields DEF Initialized, TypeOK

\* What a process has read is of the type of what it writes.
LEMMA ReadType ==
    ASSUME TypeOK, Known, NEW p \in Processes, NEW s \in seed[p]
    PROVE  s \in Seeds /\ s.voucher \in DOMAIN plan[p] /\ plan[p][s.voucher] \in Nat
BY DEF TypeOK, Known

LEMMA CreateReadType ==
    ASSUME TypeOK, Known, NEW v \in Vouchers, NEW s \in seed[v]
    PROVE  s \in Seeds /\ s.voucher = v /\ InitialStock[v] \in Nat
BY Constants DEF TypeOK, Known

LEMMA SeedForType ==
    ASSUME TypeOK, NEW v \in Vouchers
    PROVE  SeedFor(v) \in SUBSET Seeds
BY DEF SeedFor, Seeds, OfVoucher, TypeOK

LEMMA DownType ==
    ASSUME TypeOK, NEW p \in Processes, Down(p)
    PROVE  /\ pc' \in [Processes -> Steps]
           /\ plan' = [q \in Processes |-> plan'[q]]
           /\ \A q \in Processes : plan'[q] \in [DOMAIN plan'[q] -> Nat] /\ DOMAIN plan'[q] \subseteq Vouchers
           /\ todo' \in [Processes -> SUBSET Vouchers]
           /\ seed' \in [Processes \cup Vouchers -> SUBSET Seeds]
           /\ DOMAIN plan'[p] = {}
BY DEF Down, Set, TypeOK, NoPlan, Steps

LEMMA InitType == Init => TypeOK
<1> SUFFICES ASSUME Init PROVE TypeOK
  OBVIOUS
<1>1. redis \in RedisState
  BY DEF Init, EmptyRedis, RedisState
<1>2. NoPlan \in [DOMAIN NoPlan -> Nat] /\ DOMAIN NoPlan \subseteq Vouchers
  BY DEF NoPlan
<1>3. plan = [p \in Processes |-> plan[p]] /\ \A p \in Processes : plan[p] = NoPlan
  BY DEF Init
<1>4. losses \in 0..MaxLoss
  BY Constants DEF Init
<1> QED
  BY <1>1, <1>2, <1>3, <1>4 DEF Init, TypeOK

LEMMA StartType ==
    ASSUME TypeOK, Known, NEW p \in Processes, Start(p) \/ StartFails(p) \/ Stop(p)
    PROVE  TypeOK'
<1>1. CASE Begin(p)
  <2>1. [v \in campaigns |-> dbStock[v]] \in [campaigns -> Nat] /\ campaigns \subseteq Vouchers
    BY DEF TypeOK
  <2> QED
    BY <1>1, <2>1 DEF Begin, Set, TypeOK, dbVars, redisVars, buyVars
<1>2. CASE ReadOrders(p)
  <2>1. PICK v \in todo[p] : seed' = Set(seed, p, SeedFor(v))
    BY <1>2 DEF ReadOrders
  <2>2. SeedFor(v) \in SUBSET Seeds
    BY SeedForType DEF TypeOK
  <2> QED
    BY <1>2, <2>1, <2>2 DEF ReadOrders, Set, TypeOK, dbVars, redisVars, startVars, buyVars
<1>3. CASE Warm(p)
  <2>0. UNCHANGED <<dbVars, losses, create, buyVars, torn>>
    BY <1>3 DEF Warm
  <2>1. PICK s \in seed[p] :
          /\ redis' = Initialized(s, plan[p][s.voucher], "warm")
          /\ \/ /\ todo' = Set(todo, p, todo[p] \ {s.voucher})
                /\ seed' = Set(seed, p, {})
                /\ UNCHANGED <<pc, plan>>
             \/ Down(p)
    BY <1>3 DEF Warm
  <2>2. redis' \in RedisState
    BY <2>1, ReadType, InitializedType
  <2>3. CASE Down(p)
    BY <2>0, <2>2, <2>3, DownType DEF TypeOK, dbVars, buyVars, Steps
  <2>4. CASE ~Down(p)
    <3>1. /\ todo' \in [Processes -> SUBSET Vouchers]
          /\ seed' \in [Processes \cup Vouchers -> SUBSET Seeds]
      BY <2>1, <2>4 DEF Set, TypeOK
    <3> QED
      BY <2>0, <2>1, <2>2, <2>4, <3>1 DEF TypeOK, dbVars, buyVars
  <2> QED
    BY <2>3, <2>4
<1>4. CASE StartFails(p)
  <2>1. redis' \in RedisState
    <3>1. CASE redis' = redis
      BY <3>1 DEF TypeOK
    <3>2. CASE redis' # redis
      BY <1>4, <3>2, ReadType, InitializedType DEF StartFails
    <3> QED
      BY <3>1, <3>2
  <2> QED
    BY <1>4, <2>1, DownType DEF StartFails, TypeOK, dbVars, buyVars, Steps
<1>5. CASE Serve(p)
  BY <1>5 DEF Serve, Set, TypeOK, dbVars, redisVars, buyVars
<1>6. CASE Group(p)
  <2>1. redis' \in RedisState
    BY <1>6 DEF Group, TypeOK, RedisState
  <2> QED
    BY <1>6, <2>1 DEF Group, Set, TypeOK, dbVars, buyVars
<1>7. CASE Stop(p)
  BY <1>7, DownType DEF Stop, TypeOK, dbVars, redisVars, buyVars, Steps
<1> QED
  BY <1>1, <1>2, <1>3, <1>4, <1>5, <1>6, <1>7 DEF Start

LEMMA CreateType ==
    ASSUME TypeOK, Known, NEW v \in Vouchers,
           Create(v) \/ CreateReads(v) \/ CreateInitializes(v) \/ CreateFails(v)
    PROVE  TypeOK'
<1>1. CASE Create(v)
  BY <1>1, Constants DEF Create, Set, TypeOK, redisVars, startVars, buyVars
<1>2. CASE CreateReads(v)
  BY <1>2, SeedForType DEF CreateReads, Set, TypeOK, dbVars, redisVars, startVars, buyVars
<1>3. CASE CreateInitializes(v)
  <2>1. redis' \in RedisState
    BY <1>3, CreateReadType, InitializedType DEF CreateInitializes
  <2> QED
    BY <1>3, <2>1 DEF CreateInitializes, CreateEnds, Set, TypeOK, dbVars, startVars, buyVars
<1>4. CASE CreateFails(v)
  <2>1. redis' \in RedisState
    <3>1. CASE redis' = redis
      BY <3>1 DEF TypeOK
    <3>2. CASE redis' # redis
      BY <1>4, <3>2, CreateReadType, InitializedType DEF CreateFails
    <3> QED
      BY <3>1, <3>2
  <2> QED
    BY <1>4, <2>1 DEF CreateFails, CreateEnds, Set, TypeOK, dbVars, startVars, buyVars
<1> QED
  BY <1>1, <1>2, <1>3, <1>4

LEMMA LossType ==
    ASSUME TypeOK, Flush \/ \E v \in Vouchers : \E K \in SUBSET redis.keys[v] : Lose(v, K)
    PROVE  TypeOK'
<1>1. losses < MaxLoss /\ losses' = losses + 1
  BY DEF Flush, Lose
<1>0. losses' \in 0..MaxLoss
  BY <1>1, Constants DEF TypeOK
<1>2. CASE Flush
  <2>1. redis' \in RedisState
    BY <1>2 DEF Flush, EmptyRedis, RedisState
  <2> QED
    BY <1>0, <1>2, <2>1 DEF Flush, TypeOK, dbVars, startVars, buyVars
<1>3. ASSUME NEW v \in Vouchers, NEW K \in SUBSET redis.keys[v], Lose(v, K) PROVE TypeOK'
  <2>1. redis' \in RedisState
    BY <1>3 DEF Lose, TypeOK, RedisState, OfVoucher
  <2> QED
    BY <1>0, <1>3, <2>1 DEF Lose, TypeOK, dbVars, startVars, buyVars
<1> QED
  BY <1>2, <1>3

\* What a reservation and a rejection write, field by field.
LEMMA ReservedFields ==
    ASSUME TypeOK, NEW o \in OrderIds, Reserve(o)
    PROVE  /\ redis' \in RedisState
           /\ redis'.keys = redis.keys
           /\ redis'.stock = [redis.stock EXCEPT ![VoucherOf[o]] = redis.stock[VoucherOf[o]] - 1]
           /\ redis'.holders = redis.holders \cup {o}
           /\ redis'.stream = TRUE
           /\ redis'.pending = redis.pending \cup {o}
<1>1. VoucherOf[o] \in Vouchers /\ redis.stock \in [Vouchers -> Nat]
  BY Constants DEF TypeOK, RedisState
<1>2. redis.stock[VoucherOf[o]] - 1 \in Nat
  BY <1>1 DEF Reserve
<1>3. redis' = [redis EXCEPT !.stock = [redis.stock EXCEPT ![VoucherOf[o]] = redis.stock[VoucherOf[o]] - 1],
                             !.holders = redis.holders \cup {o},
                             !.pending = redis.pending \cup {o}, !.stream = TRUE]
  BY DEF Reserve, TypeOK, RedisState
<1> QED
  BY <1>1, <1>2, <1>3 DEF TypeOK, RedisState

Rejected(o) ==
    [redis EXCEPT !.pending = @ \ {o}, !.stock[VoucherOf[o]] = @ + 1,
                  !.holders = (@ \ {o}) \cup Others(o)]

LEMMA RejectedFields ==
    ASSUME TypeOK, NEW o \in OrderIds
    PROVE  /\ Rejected(o) \in RedisState
           /\ Rejected(o).keys = redis.keys
           /\ Rejected(o).stream = redis.stream
           /\ Rejected(o).pending = redis.pending \ {o}
           /\ Rejected(o).holders = (redis.holders \ {o}) \cup Others(o)
           /\ \A v \in Vouchers \ {VoucherOf[o]} : Rejected(o).stock[v] = redis.stock[v]
<1>1. VoucherOf[o] \in Vouchers /\ redis.stock \in [Vouchers -> Nat] /\ Others(o) \subseteq OrderIds
  BY Constants DEF TypeOK, RedisState, Others
<1>2. redis.stock[VoucherOf[o]] + 1 \in Nat
  BY <1>1
<1> DEFINE st == [redis.stock EXCEPT ![VoucherOf[o]] = redis.stock[VoucherOf[o]] + 1]
           ho == (redis.holders \ {o}) \cup Others(o)
           pe == redis.pending \ {o}
<1>3. Rejected(o) = [redis EXCEPT !.stock = st, !.holders = ho, !.pending = pe]
  BY DEF Rejected, TypeOK, RedisState
<1>4. st \in [Vouchers -> Nat] /\ ho \subseteq OrderIds /\ pe \subseteq OrderIds
  BY <1>1, <1>2 DEF TypeOK, RedisState
<1> HIDE DEF st, ho, pe
<1>5. Rejected(o) \in RedisState
  <2>1. redis \in RedisState
    BY DEF TypeOK
  <2> QED
    BY <1>3, <1>4, <2>1 DEF RedisState
<1>6. Rejected(o).keys = redis.keys /\ Rejected(o).stream = redis.stream
  BY <1>3 DEF TypeOK, RedisState
<1>7. Rejected(o).pending = pe /\ Rejected(o).holders = ho /\ Rejected(o).stock = st
  BY <1>3 DEF TypeOK, RedisState
<1>8. \A v \in Vouchers \ {VoucherOf[o]} : st[v] = redis.stock[v]
  BY <1>1 DEF st
<1> QED
  BY <1>5, <1>6, <1>7, <1>8 DEF pe, ho

LEMMA OrderType ==
    ASSUME TypeOK, NEW o \in OrderIds,
           Reserve(o) \/ Deliver(o) \/ Persist(o) \/ Settle(o) \/ Drop(o)
    PROVE  TypeOK'
<1>0. VoucherOf[o] \in Vouchers
  BY Constants
<1>1. CASE Reserve(o)
  <2>1. redis' \in RedisState
    BY <1>1, ReservedFields
  <2> QED
    BY <1>1, <2>1 DEF Reserve, TypeOK, dbVars, startVars
<1>2. CASE Deliver(o)
  BY <1>2 DEF Deliver, TypeOK, dbVars, redisVars, startVars
<1>3. CASE Persist(o)
  BY <1>0, <1>3 DEF Persist, Set, TypeOK, redisVars, startVars
<1>4. CASE Settle(o)
  <2>1. redis' \in {redis, [redis EXCEPT !.pending = @ \ {o}], Rejected(o)}
    BY <1>4 DEF Settle, Rejected
  <2>2. redis' \in RedisState
    BY <2>1, RejectedFields DEF TypeOK, RedisState
  <2> QED
    BY <1>4, <2>2 DEF Settle, TypeOK, dbVars, startVars
<1>5. CASE Drop(o)
  BY <1>5 DEF Drop, TypeOK, dbVars, redisVars, startVars
<1> QED
  BY <1>1, <1>2, <1>3, <1>4, <1>5

LEMMA NextType == ASSUME TypeOK, Known, Next PROVE TypeOK'
BY StartType, CreateType, LossType, OrderType DEF Next

-----------------------------------------------------------------------------
(* Who knows what *)

LEMMA InitKnown == Init => Known
<1> SUFFICES ASSUME Init PROVE Known
  OBVIOUS
<1>1. \A p \in Processes : DOMAIN plan[p] = {} /\ seed[p] = {} /\ todo[p] = {} /\ pc[p] = "down"
  BY DEF Init, NoPlan
<1>2. \A v \in Vouchers : redis.keys[v] = {} /\ seed[v] = {} /\ create[v] = "none"
  BY DEF Init, EmptyRedis
<1> QED
  BY <1>1, <1>2 DEF Init, Known, EmptyRedis

\* What initialize.lua does to everything but the campaign it is called for.
LEMMA InitializedKeeps ==
    ASSUME TypeOK, NEW s \in Seeds, NEW n \in Nat, NEW mode
    PROVE  /\ \A v \in Vouchers \ {s.voucher} :
                 Initialized(s, n, mode).keys[v] = redis.keys[v]
           /\ Initialized(s, n, mode).stream = redis.stream
           /\ Initialized(s, n, mode).pending = redis.pending
           /\ Initialized(s, n, mode) = redis
              \/ /\ MayInitialize(s.voucher, mode)
                 /\ Initialized(s, n, mode) = Seeded(s, n)
                 /\ Initialized(s, n, mode).keys[s.voucher] = KeyNames
<1>1. s.voucher \in Vouchers
  BY DEF Seeds
<1>2. redis.keys \in [Vouchers -> SUBSET KeyNames]
  BY DEF TypeOK, RedisState
<1>3. CASE MayInitialize(s.voucher, mode)
  <2>1. Initialized(s, n, mode) = Seeded(s, n)
    BY <1>3 DEF Initialized
  <2>2. /\ Seeded(s, n).keys = [redis.keys EXCEPT ![s.voucher] = KeyNames]
        /\ Seeded(s, n).stream = redis.stream /\ Seeded(s, n).pending = redis.pending
    BY SeededFields
  <2> QED
    BY <1>1, <1>2, <1>3, <2>1, <2>2
<1>4. CASE ~MayInitialize(s.voucher, mode)
  BY <1>4 DEF Initialized
<1> QED
  BY <1>3, <1>4

LEMMA DownKnown ==
    ASSUME TypeOK, Known, NEW p \in Processes, Down(p)
    PROVE  /\ \A q \in Processes :
                 /\ DOMAIN plan'[q] \subseteq campaigns
                 /\ todo'[q] \subseteq DOMAIN plan'[q]
                 /\ pc'[q] \in {"up", "working"} => todo'[q] = {}
                 /\ seed'[q] # {} => pc'[q] = "warm"
                 /\ \A s \in seed'[q] : s.voucher \in todo'[q]
           /\ \A v \in Vouchers : seed'[v] = seed[v]
<1>1. /\ pc' = [pc EXCEPT ![p] = "down"] /\ plan' = [plan EXCEPT ![p] = NoPlan]
      /\ todo' = [todo EXCEPT ![p] = {}] /\ seed' = [seed EXCEPT ![p] = {}]
      /\ DOMAIN NoPlan = {} /\ p \notin Vouchers
  BY Constants DEF Down, Set, NoPlan
<1>2. \A q \in Processes \ {p} :
        pc'[q] = pc[q] /\ plan'[q] = plan[q] /\ todo'[q] = todo[q] /\ seed'[q] = seed[q]
  BY <1>1 DEF TypeOK
<1>3. pc'[p] = "down" /\ DOMAIN plan'[p] = {} /\ todo'[p] = {} /\ seed'[p] = {}
  BY <1>1 DEF TypeOK
<1>4. \A v \in Vouchers : seed'[v] = seed[v]
  BY <1>1 DEF TypeOK
<1> QED
  BY <1>2, <1>3, <1>4 DEF Known

\* A call of initialize.lua leaves what is known of Redis.
LEMMA InitializedKnown ==
    ASSUME TypeOK, Known, NEW s \in Seeds, NEW n \in Nat, NEW mode,
           redis' \in {redis, Initialized(s, n, mode)}, s.voucher \in campaigns
    PROVE  /\ \A v \in Vouchers : redis'.keys[v] # {} => v \in campaigns
           /\ redis'.pending = redis.pending
           /\ ~redis'.stream => redis'.pending = {}
<1>1. CASE redis' = redis
  BY <1>1 DEF Known
<1>2. CASE redis' = Initialized(s, n, mode)
  BY <1>2, InitializedKeeps DEF Known
<1> QED
  BY <1>1, <1>2

LEMMA StartKnown ==
    ASSUME TypeOK, Known, NEW p \in Processes, Start(p) \/ StartFails(p) \/ Stop(p)
    PROVE  Known'
<1>0. p \notin Vouchers
  BY Constants
<1>1. CASE Begin(p)
  <2>1. /\ pc' = [pc EXCEPT ![p] = "warm"] /\ todo' = [todo EXCEPT ![p] = campaigns]
        /\ plan' = [plan EXCEPT ![p] = [v \in campaigns |-> dbStock[v]]]
        /\ UNCHANGED <<campaigns, orders, redis, create, seed, asked, hand, refused>>
        /\ pc[p] = "down"
    BY <1>1 DEF Begin, Set, dbVars, redisVars, buyVars
  <2>2. seed[p] = {} /\ DOMAIN [v \in campaigns |-> dbStock[v]] = campaigns
    BY <2>1 DEF Known
  <2>3. /\ pc'[p] = "warm" /\ DOMAIN plan'[p] = campaigns /\ todo'[p] = campaigns /\ seed'[p] = {}
        /\ \A q \in Processes \ {p} : pc'[q] = pc[q] /\ plan'[q] = plan[q] /\ todo'[q] = todo[q]
    BY <2>1, <2>2 DEF TypeOK
  <2> QED
    BY <2>1, <2>3 DEF Known
<1>2. CASE ReadOrders(p)
  <2>1. PICK v \in todo[p] : seed' = Set(seed, p, SeedFor(v))
    BY <1>2 DEF ReadOrders
  <2>2. /\ pc[p] = "warm"
        /\ UNCHANGED <<campaigns, orders, redis, create, pc, plan, todo, asked, hand, refused>>
    BY <1>2 DEF ReadOrders, dbVars, redisVars, startVars, buyVars
  <2>3. /\ \A s \in seed'[p] : s.voucher = v
        /\ \A q \in Processes \ {p} : seed'[q] = seed[q]
        /\ \A w \in Vouchers : seed'[w] = seed[w]
    BY <1>0, <2>1 DEF Set, SeedFor, TypeOK
  <2> QED
    BY <2>1, <2>2, <2>3 DEF Known
<1>3. CASE Warm(p)
  <2>1. PICK s \in seed[p] :
          /\ redis' = Initialized(s, plan[p][s.voucher], "warm")
          /\ \/ /\ todo' = Set(todo, p, todo[p] \ {s.voucher})
                /\ seed' = Set(seed, p, {})
                /\ UNCHANGED <<pc, plan>>
             \/ Down(p)
    BY <1>3 DEF Warm
  <2>2. UNCHANGED <<campaigns, orders, create, asked, hand, refused>>
    BY <1>3 DEF Warm, dbVars, buyVars
  <2>3. /\ \A v \in Vouchers : redis'.keys[v] # {} => v \in campaigns
        /\ redis'.pending = redis.pending
        /\ ~redis'.stream => redis'.pending = {}
    BY <2>1, ReadType, InitializedKnown DEF Known
  <2>4. CASE Down(p)
    BY <2>2, <2>3, <2>4, DownKnown DEF Known
  <2>5. CASE ~Down(p)
    <3>1. /\ todo'[p] \subseteq todo[p] /\ seed'[p] = {} /\ pc' = pc /\ plan' = plan
          /\ \A q \in Processes \ {p} : seed'[q] = seed[q] /\ todo'[q] = todo[q]
          /\ \A w \in Vouchers : seed'[w] = seed[w]
      BY <1>0, <2>1, <2>5 DEF Set, TypeOK
    <3> QED
      BY <2>2, <2>3, <3>1 DEF Known
  <2> QED
    BY <2>4, <2>5
<1>4. CASE StartFails(p)
  <2>1. /\ \A v \in Vouchers : redis'.keys[v] # {} => v \in campaigns
        /\ redis'.pending = redis.pending
        /\ ~redis'.stream => redis'.pending = {}
    <3>1. CASE redis' = redis
      BY <3>1 DEF Known
    <3>2. CASE redis' # redis
      BY <1>4, <3>2, ReadType, InitializedKnown DEF StartFails, Known
    <3> QED
      BY <3>1, <3>2
  <2>2. Down(p) /\ UNCHANGED <<campaigns, orders, create, asked, hand, refused>>
    BY <1>4 DEF StartFails, dbVars, buyVars
  <2> QED
    BY <2>1, <2>2, DownKnown DEF Known
<1>5. CASE Serve(p)
  <2>1. /\ pc' = [pc EXCEPT ![p] = "up"] /\ pc[p] = "warm" /\ todo[p] = {}
        /\ UNCHANGED <<campaigns, orders, redis, create, plan, todo, seed, asked, hand, refused>>
    BY <1>5 DEF Serve, Set, dbVars, redisVars, buyVars
  <2>2. \A q \in Processes \ {p} : pc'[q] = pc[q]
    BY <2>1 DEF TypeOK
  <2>3. seed[p] = {}
    BY <2>1 DEF Known
  <2> QED
    BY <2>1, <2>2, <2>3 DEF Known
<1>6. CASE Group(p)
  <2>1. /\ pc' = [pc EXCEPT ![p] = "working"] /\ pc[p] = "up"
        /\ redis'.keys = redis.keys /\ redis'.pending = redis.pending /\ redis'.stream
        /\ UNCHANGED <<campaigns, orders, create, plan, todo, seed, asked, hand, refused>>
    BY <1>6 DEF Group, Set, TypeOK, RedisState, dbVars, buyVars
  <2>2. \A q \in Processes \ {p} : pc'[q] = pc[q]
    BY <2>1 DEF TypeOK
  <2>3. seed[p] = {} /\ todo[p] = {}
    BY <2>1 DEF Known
  <2> QED
    BY <2>1, <2>2, <2>3 DEF Known
<1>7. CASE Stop(p)
  <2>1. Down(p) /\ UNCHANGED <<campaigns, orders, redis, create, asked, hand, refused>>
    BY <1>7 DEF Stop, dbVars, redisVars, buyVars
  <2> QED
    BY <2>1, DownKnown DEF Known
<1> QED
  BY <1>1, <1>2, <1>3, <1>4, <1>5, <1>6, <1>7 DEF Start

LEMMA EndKnown ==
    ASSUME TypeOK, Known, NEW v \in Vouchers, NEW end, CreateEnds(v, end)
    PROVE  /\ create' = [create EXCEPT ![v] = end]
           /\ \A p \in Processes : seed'[p] = seed[p]
           /\ seed'[v] = {} /\ \A w \in Vouchers \ {v} : seed'[w] = seed[w]
BY Constants DEF CreateEnds, Set, TypeOK

LEMMA CreateKnown ==
    ASSUME TypeOK, Known, NEW v \in Vouchers,
           Create(v) \/ CreateReads(v) \/ CreateInitializes(v) \/ CreateFails(v)
    PROVE  Known'
<1>0. v \notin Processes
  BY Constants
<1>1. CASE Create(v)
  <2>1. PICK l \in {"committed", "error"} : create' = [create EXCEPT ![v] = l]
    BY <1>1 DEF Create, Set
  <2>2. /\ campaigns' = campaigns \cup {v} /\ create[v] = "none"
        /\ UNCHANGED <<orders, redis, pc, plan, todo, seed, asked, hand, refused>>
    BY <1>1 DEF Create, redisVars, startVars, buyVars
  <2>3. create'[v] # "none" /\ \A w \in Vouchers \ {v} : create'[w] = create[w]
    BY <2>1 DEF TypeOK
  <2>4. campaigns' = {w \in Vouchers : create'[w] # "none"}
    BY <2>2, <2>3 DEF Known
  <2>5. seed[v] = {}
    BY <2>2 DEF Known
  <2> QED
    BY <2>2, <2>3, <2>4, <2>5 DEF Known
<1>2. CASE CreateReads(v)
  <2>1. /\ create' = [create EXCEPT ![v] = "initialize"] /\ create[v] = "committed"
        /\ UNCHANGED <<campaigns, orders, redis, pc, plan, todo, asked, hand, refused>>
        /\ seed' = [seed EXCEPT ![v] = SeedFor(v)]
    BY <1>2 DEF CreateReads, Set, dbVars, redisVars, startVars, buyVars
  <2>2. create'[v] = "initialize" /\ \A w \in Vouchers \ {v} : create'[w] = create[w]
    BY <2>1 DEF TypeOK
  <2>3. /\ \A s \in seed'[v] : s.voucher = v /\ s.holders \subseteq orders
        /\ \A w \in Vouchers \ {v} : seed'[w] = seed[w]
        /\ \A p \in Processes : seed'[p] = seed[p]
    BY <1>0, <2>1 DEF SeedFor, OfVoucher, TypeOK
  <2>4. campaigns' = {w \in Vouchers : create'[w] # "none"}
    BY <2>1, <2>2 DEF Known
  <2> QED
    BY <2>1, <2>2, <2>3, <2>4 DEF Known
<1>3. CASE CreateInitializes(v) \/ CreateFails(v)
  <2>1. PICK end \in {"ok", "error"} : CreateEnds(v, end)
    BY <1>3 DEF CreateInitializes, CreateFails
  <2>2. UNCHANGED <<campaigns, orders, pc, plan, todo, asked, hand, refused>>
    BY <1>3 DEF CreateInitializes, CreateFails, dbVars, startVars, buyVars
  <2>3. create[v] \in {"committed", "initialize"}
    BY <1>3 DEF CreateInitializes, CreateFails, Known
  <2>4. v \in campaigns
    BY <2>3 DEF Known
  <2>5. /\ \A w \in Vouchers : redis'.keys[w] # {} => w \in campaigns
        /\ redis'.pending = redis.pending
        /\ ~redis'.stream => redis'.pending = {}
    <3>1. CASE redis' = redis
      BY <3>1 DEF Known
    <3>2. CASE redis' # redis
      BY <1>3, <2>4, <3>2, CreateReadType, InitializedKnown DEF CreateInitializes, CreateFails
    <3> QED
      BY <3>1, <3>2
  <2>6. create'[v] = end /\ \A w \in Vouchers \ {v} : create'[w] = create[w]
    BY <2>1, EndKnown DEF TypeOK
  <2>7. campaigns' = {w \in Vouchers : create'[w] # "none"}
    BY <2>2, <2>3, <2>6 DEF Known
  <2> QED
    BY <2>1, <2>2, <2>5, <2>6, <2>7, EndKnown DEF Known
<1> QED
  BY <1>1, <1>2, <1>3

LEMMA LossKnown ==
    ASSUME TypeOK, Known, Flush \/ \E v \in Vouchers : \E K \in SUBSET redis.keys[v] : Lose(v, K)
    PROVE  Known'
<1>1. UNCHANGED <<campaigns, orders, pc, plan, todo, create, seed, asked, hand, refused>>
  BY DEF Flush, Lose, dbVars, startVars, buyVars
<1>2. CASE Flush
  <2>1. /\ \A w \in Vouchers : redis'.keys[w] = {}
        /\ redis'.pending = {}
    BY <1>2 DEF Flush, EmptyRedis
  <2> QED
    BY <1>1, <2>1 DEF Known
<1>3. ASSUME NEW v \in Vouchers, NEW K \in SUBSET redis.keys[v], Lose(v, K) PROVE Known'
  <2>1. /\ \A w \in Vouchers : redis'.keys[w] \subseteq redis.keys[w]
        /\ redis'.pending = redis.pending /\ redis'.stream = redis.stream
    BY <1>3 DEF Lose, TypeOK, RedisState
  <2> QED
    BY <1>1, <2>1 DEF Known
<1> QED
  BY <1>2, <1>3

LEMMA OrderKnown ==
    ASSUME TypeOK, Known, NEW o \in OrderIds,
           Reserve(o) \/ Deliver(o) \/ Persist(o) \/ Settle(o) \/ Drop(o)
    PROVE  Known'
<1>0. VoucherOf[o] \in Vouchers
  BY Constants
<1>1. UNCHANGED <<campaigns, pc, plan, todo, create, seed>>
  BY DEF Reserve, Deliver, Persist, Settle, Drop, dbVars, startVars
<1>2. /\ redis'.keys = redis.keys
      /\ ~redis'.stream => redis'.pending = {}
      /\ redis'.pending \subseteq redis.pending \cup (asked' \ asked)
  <2>1. CASE Reserve(o)
    BY <2>1, ReservedFields DEF Reserve
  <2>2. CASE Settle(o)
    <3>1. redis' \in {redis, [redis EXCEPT !.pending = @ \ {o}], Rejected(o)}
      BY <2>2 DEF Settle, Rejected
    <3> QED
      BY <3>1, RejectedFields DEF Known, TypeOK, RedisState
  <2>3. CASE Deliver(o) \/ Persist(o) \/ Drop(o)
    BY <2>3 DEF Deliver, Persist, Drop, redisVars, Known
  <2> QED
    BY <2>1, <2>2, <2>3
<1>3. /\ asked \subseteq asked' /\ \A q \in asked' \ asked : VoucherOf[q] \in campaigns
      /\ orders \subseteq orders' /\ orders' \cup hand' \cup refused' \subseteq asked
  <2>1. CASE Reserve(o)
    <3>1. KeyNames # {}
      BY DEF KeyNames
    <3> QED
      BY <1>0, <2>1, <3>1 DEF Reserve, Complete, Known, dbVars
  <2>2. CASE ~Reserve(o)
    BY <2>2 DEF Deliver, Persist, Settle, Drop, Known, dbVars
  <2> QED
    BY <2>1, <2>2
<1> QED
  BY <1>1, <1>2, <1>3 DEF Known

LEMMA NextKnown == ASSUME TypeOK, Known, Next PROVE Known'
BY StartKnown, CreateKnown, LossKnown, OrderKnown DEF Next

-----------------------------------------------------------------------------
(* The stock in MySQL *)

\* A start reads what MySQL says at that moment, and forgets it at the end.
LEMMA StartSpent ==
    ASSUME TypeOK, Known, Spent, NEW p \in Processes, Start(p) \/ StartFails(p) \/ Stop(p)
    PROVE  Spent'
<1> USE DEF dbVars, redisVars, buyVars, startVars
<1>1. UNCHANGED dbVars
  BY DEF Start, Begin, ReadOrders, Warm, Serve, Group, StartFails, Stop
<1>2. \A q \in Processes \ {p} : plan'[q] = plan[q] /\ seed'[q] = seed[q]
  BY DEF Start, Begin, ReadOrders, Warm, Serve, Group, StartFails, Stop, Down, Set, TypeOK
<1>3. \A v \in DOMAIN plan'[p] : dbStock[v] <= plan'[p][v]
  <2>1. CASE Begin(p)
    <3>1. plan'[p] = [v \in campaigns |-> dbStock[v]]
      BY <2>1 DEF Begin, Set, TypeOK
    <3>2. \A v \in campaigns : dbStock[v] \in Nat
      BY DEF TypeOK
    <3> QED
      BY <3>1, <3>2
  <2>2. CASE DOMAIN plan'[p] = {}
    BY <2>2
  <2>3. CASE plan'[p] = plan[p]
    BY <2>3 DEF Spent
  <2>4. Begin(p) \/ plan'[p] = plan[p] \/ DOMAIN plan'[p] = {}
    <3>1. DOMAIN NoPlan = {}
      BY DEF NoPlan
    <3> QED
      BY <3>1 DEF Start, ReadOrders, Warm, Serve, Group, StartFails, Stop, Down, Set, TypeOK
  <2> QED
    BY <2>1, <2>2, <2>3, <2>4
<1>4. \A s \in seed'[p] : s.holders # OfVoucher(orders, s.voucher) => dbStock[s.voucher] < plan'[p][s.voucher]
  <2>1. CASE Begin(p)
    BY <2>1 DEF Begin, Known
  <2>2. CASE ReadOrders(p)
    <3>1. PICK v \in todo[p] : seed'[p] = SeedFor(v)
      BY <2>2 DEF ReadOrders, Set, TypeOK
    <3> QED
      BY <3>1 DEF SeedFor
  <2>3. CASE seed'[p] = {}
    BY <2>3
  <2>4. CASE Serve(p) \/ Group(p)
    BY <2>4 DEF Serve, Group, Spent
  <2>5. Begin(p) \/ ReadOrders(p) \/ seed'[p] = {} \/ Serve(p) \/ Group(p)
    BY DEF Start, Warm, StartFails, Stop, Down, Set, TypeOK
  <2> QED
    BY <2>1, <2>2, <2>3, <2>4, <2>5
<1> QED
  BY <1>1, <1>2, <1>3, <1>4 DEF Spent, OfVoucher

\* A new campaign has sold nothing and nobody has read of it.
LEMMA CreateSpent ==
    ASSUME TypeOK, Known, Spent, NEW v \in Vouchers,
           Create(v) \/ CreateReads(v) \/ CreateInitializes(v) \/ CreateFails(v)
    PROVE  Spent'
<1> USE DEF dbVars, redisVars, buyVars, startVars
<1>1. UNCHANGED <<orders, plan>> /\ \A p \in Processes : seed'[p] = seed[p]
  <2>1. UNCHANGED <<orders, plan>>
    BY DEF Create, CreateReads, CreateInitializes, CreateFails
  <2> QED
    BY <2>1, Constants DEF Create, CreateReads, CreateInitializes, CreateFails, CreateEnds, Set, TypeOK
<1>2. CASE Create(v)
  <2>1. /\ campaigns' = campaigns \cup {v} /\ v \notin campaigns
        /\ dbStock'[v] = InitialStock[v] /\ InitialStock[v] \in Nat
        /\ \A w \in Vouchers \ {v} : dbStock'[w] = dbStock[w]
    BY <1>2, Constants DEF Create, Set, TypeOK, Known
  <2>2. OfVoucher(orders, v) = {}
    BY <2>1 DEF Known, OfVoucher
  <2>3. \A w \in campaigns : w \in Vouchers \ {v}
    BY <2>1 DEF TypeOK
  <2>4. \A p \in Processes : \A w \in DOMAIN plan[p] : w \in campaigns
    BY DEF Known
  <2>5. \A p \in Processes : \A s \in seed[p] : s.voucher \in campaigns
    BY <2>4 DEF Known
  <2> QED
    BY <1>1, <2>1, <2>2, <2>3, <2>4, <2>5 DEF Spent, OfVoucher
<1>3. CASE ~Create(v)
  <2>1. UNCHANGED dbVars
    BY <1>3 DEF CreateReads, CreateInitializes, CreateFails
  <2> QED
    BY <1>1, <2>1 DEF Spent, OfVoucher
<1> QED
  BY <1>2, <1>3

\* An order that is persisted takes a unit of the stock.
LEMMA OrderSpent ==
    ASSUME TypeOK, Known, Spent, NEW o \in OrderIds, Persist(o)
    PROVE  Spent'
<1> DEFINE v == VoucherOf[o]
<1>1. UNCHANGED <<campaigns, plan, seed>>
  BY DEF Persist, startVars
<1>2. v \in Vouchers /\ v \in campaigns
  BY Constants DEF Persist, Known
<1>3. CASE UNCHANGED <<orders, dbStock>>
  BY <1>1, <1>3 DEF Spent, OfVoucher
<1>4. CASE orders' = orders \cup {o} /\ dbStock' = [dbStock EXCEPT ![v] = dbStock[v] - 1]
  <2>1. /\ dbStock'[v] = dbStock[v] - 1 /\ dbStock[v] \in Nat
        /\ \A w \in Vouchers \ {v} : dbStock'[w] = dbStock[w]
    BY <1>2, <1>4 DEF TypeOK
  <2>2. \A w \in Vouchers \ {v} : OfVoucher(orders, w)' = OfVoucher(orders, w)
    BY <1>4 DEF OfVoucher
  <2>3. ASSUME NEW w \in campaigns
        PROVE  dbStock'[w] <= InitialStock[w] /\ (OfVoucher(orders, w)' # {} => dbStock'[w] < InitialStock[w])
    <3>1. w \in Vouchers /\ InitialStock[w] \in Nat
      BY Constants DEF TypeOK
    <3>2. CASE w = v
      BY <2>1, <3>1, <3>2 DEF Spent
    <3>3. CASE w # v
      BY <2>1, <2>2, <3>1, <3>3 DEF Spent
    <3> QED
      BY <3>2, <3>3
  <2>4. ASSUME NEW p \in Processes
        PROVE  /\ \A w \in DOMAIN plan[p] : dbStock'[w] <= plan[p][w]
               /\ \A s \in seed[p] :
                     s.holders # OfVoucher(orders, s.voucher)' => dbStock'[s.voucher] < plan[p][s.voucher]
    <3>1. \A w \in DOMAIN plan[p] : w \in Vouchers /\ plan[p][w] \in Nat /\ dbStock[w] <= plan[p][w]
      BY DEF TypeOK, Spent
    <3>2. \A s \in seed[p] : s.voucher \in DOMAIN plan[p]
      BY DEF Known
    <3>3. ASSUME NEW s \in seed[p], s.holders # OfVoucher(orders, s.voucher)'
          PROVE  dbStock'[s.voucher] < plan[p][s.voucher]
      <4>1. CASE s.voucher = v
        BY <2>1, <3>1, <3>2, <4>1
      <4>2. CASE s.voucher # v
        BY <2>1, <2>2, <3>1, <3>2, <3>3, <4>2 DEF Spent
      <4> QED
        BY <4>1, <4>2
    <3>4. ASSUME NEW w \in DOMAIN plan[p] PROVE dbStock'[w] <= plan[p][w]
      BY <2>1, <3>1
    <3> QED
      BY <3>3, <3>4
  <2> HIDE DEF v
  <2> QED
    BY <1>1, <2>3, <2>4 DEF Spent
<1> QED
  BY <1>3, <1>4 DEF Persist, Set

LEMMA NextSpent ==
    ASSUME TypeOK, Known, Spent, Next
    PROVE  Spent'
<1>1. CASE UNCHANGED <<dbVars, plan, seed>>
  BY <1>1 DEF Spent, OfVoucher, dbVars
<1> QED
  BY <1>1, StartSpent, CreateSpent, OrderSpent
     DEF Next, Reserve, Deliver, Settle, Drop, Flush, Lose, startVars

-----------------------------------------------------------------------------
(* The books *)

LEMMA OwedFinite ==
    ASSUME TypeOK, NEW v \in Vouchers
    PROVE  IsFiniteSet(Owed(v)) /\ Cardinality(Owed(v)) \in Nat
<1>1. Owed(v) \subseteq OrderIds
  BY DEF Owed, OfVoucher, TypeOK, RedisState
<1> QED
  BY <1>1, Constants, FS_Subset, FS_CardinalityType

\* Nothing in the books is touched.
LEMMA RoomKept ==
    ASSUME NEW v \in Vouchers, Room(v), UNCHANGED <<dbStock, orders>>,
           redis'.keys[v] = redis.keys[v], redis'.stock[v] = redis.stock[v],
           redis'.holders = redis.holders, redis'.pending = redis.pending
    PROVE  Room(v)'
BY DEF Room, Owed, OfVoucher, Complete, Slot

\* A campaign that is set up with what MySQL has left and with its buyers,
\* while none of its orders is on its way, balances; the others are as before.
LEMMA SeededRoom ==
    ASSUME TypeOK, NEW s \in Seeds, NEW n \in Nat, redis' = Seeded(s, n),
           UNCHANGED <<dbStock, orders>>, NEW v \in Vouchers, Room(v),
           v = s.voucher => /\ OfVoucher(redis.pending, v) = {} /\ n = dbStock[v]
                            /\ OfVoucher(orders, v) \subseteq s.holders
    PROVE  Room(v)'
<1>1. /\ redis'.keys = [redis.keys EXCEPT ![s.voucher] = KeyNames]
      /\ redis'.stock = [redis.stock EXCEPT ![s.voucher] = n]
      /\ redis'.holders = redis.holders \cup s.holders
      /\ redis'.pending = redis.pending
  BY SeededFields
<1>2. /\ s.voucher \in Vouchers /\ redis.keys \in [Vouchers -> SUBSET KeyNames]
      /\ redis.stock \in [Vouchers -> Nat] /\ dbStock \in [Vouchers -> Nat]
  BY DEF Seeds, TypeOK, RedisState
<1>3. CASE v # s.voucher
  <2>1. redis'.keys[v] = redis.keys[v] /\ redis'.stock[v] = redis.stock[v]
    BY <1>1, <1>2, <1>3
  <2>2. /\ Owed(v)' = Owed(v) /\ (Complete(v)' <=> Complete(v)) /\ redis.holders \subseteq redis'.holders
        /\ OfVoucher(redis.pending \ orders, v)' = OfVoucher(redis.pending \ orders, v)
        /\ OfVoucher(redis.pending \cup orders, v)' = OfVoucher(redis.pending \cup orders, v)
    BY <1>1, <2>1 DEF Owed, OfVoucher, Complete
  <2> QED
    BY <1>1, <2>1, <2>2 DEF Room, Slot
<1>4. CASE v = s.voucher
  <2>1. Owed(v) = {} /\ Owed(v)' = {}
    BY <1>1, <1>4 DEF Owed, OfVoucher
  <2>2. Cardinality(Owed(v)') = 0
    BY <2>1, FS_EmptySet
  <2>3. redis'.stock[v] = dbStock[v] /\ dbStock[v] \in Nat
    BY <1>1, <1>2, <1>4
  <2>4. OfVoucher(redis.pending \cup orders, v) \subseteq redis'.holders
    BY <1>1, <1>4 DEF OfVoucher
  <2>5. OfVoucher(redis.pending \ orders, v)' = {}
    BY <2>1 DEF Owed
  <2> QED
    BY <1>1, <2>2, <2>3, <2>4, <2>5 DEF Room, Slot, OfVoucher
<1> QED
  BY <1>3, <1>4

\* A start sets up a campaign only while what it has read is still true.
LEMMA WarmRoom ==
    ASSUME TypeOK, Known, Spent, Whole, NEW p \in Processes, NEW s \in seed[p],
           redis' \in {redis, Initialized(s, plan[p][s.voucher], "warm")},
           UNCHANGED <<dbStock, orders, create>>, NEW v \in Vouchers \ torn
    PROVE  Room(v)' /\ Untouched(v)'
<1>0. Room(v) /\ Untouched(v)
  BY DEF Whole
<1>1. s \in Seeds /\ plan[p][s.voucher] \in Nat /\ s.voucher \in DOMAIN plan[p]
  BY ReadType
<1>2. CASE redis' = redis
  BY <1>0, <1>2 DEF Room, Owed, OfVoucher, Complete, Slot, Untouched
<1>3. CASE /\ MayInitialize(s.voucher, "warm")
           /\ redis' = Seeded(s, plan[p][s.voucher])
           /\ redis'.keys[s.voucher] = KeyNames /\ redis'.pending = redis.pending
           /\ \A w \in Vouchers \ {s.voucher} : redis'.keys[w] = redis.keys[w]
  <2>1. ~redis.stream /\ redis.pending = {} /\ pc[p] = "warm" /\ s.voucher \in todo[p]
    BY <1>3 DEF MayInitialize, Known
  <2>2. v = s.voucher => plan[p][v] = dbStock[v] /\ s.holders = OfVoucher(orders, v)
    <3>1. v = s.voucher => plan[p][v] = dbStock[v]
      BY <2>1 DEF Whole, ReadIsTrue
    <3>2. dbStock[v] \in Nat
      BY DEF TypeOK
    <3> QED
      BY <3>1, <3>2 DEF Spent
  <2>3. Room(v)'
    BY <1>0, <1>1, <1>3, <2>1, <2>2, SeededRoom DEF OfVoucher
  <2>4. KeyNames # {}
    BY DEF KeyNames
  <2> QED
    BY <1>0, <1>3, <2>3, <2>4 DEF Untouched, OfVoucher
<1> QED
  BY <1>1, <1>2, <1>3, InitializedKeeps

\* So does a Create, since nobody has bought yet.
LEMMA CreateRoom ==
    ASSUME TypeOK, Known, Whole, NEW v \in Vouchers, NEW s \in seed[v],
           redis' \in {redis, Initialized(s, InitialStock[v], "new")},
           UNCHANGED <<dbStock, orders>>, NEW w \in Vouchers \ torn
    PROVE  Room(w)'
<1>0. Room(w) /\ Untouched(w)
  BY DEF Whole
<1>1. s \in Seeds /\ InitialStock[v] \in Nat /\ s.voucher = v /\ create[v] = "initialize"
  BY CreateReadType DEF Known
<1>2. CASE redis' = redis
  BY <1>0, <1>2 DEF Room, Owed, OfVoucher, Complete, Slot
<1>3. CASE MayInitialize(v, "new") /\ redis' = Seeded(s, InitialStock[v])
  <2>1. w = v => OfVoucher(redis.pending \cup orders, w) = {} /\ dbStock[w] = InitialStock[w]
    BY <1>0, <1>1, <1>3 DEF MayInitialize, Untouched
  <2>2. w = v => OfVoucher(redis.pending, w) = {} /\ OfVoucher(orders, w) = {}
    BY <2>1 DEF OfVoucher
  <2> QED
    BY <1>0, <1>1, <1>3, <2>1, <2>2, SeededRoom
<1> QED
  BY <1>1, <1>2, <1>3, InitializedKeeps

LEMMA RoomStays ==
    ASSUME NEW w, Room(w), redis' = redis, orders' = orders, dbStock'[w] = dbStock[w]
    PROVE  Room(w)'
<1>1. /\ Owed(w)' = Owed(w) /\ (Complete(w)' <=> Complete(w))
      /\ OfVoucher(redis.pending \ orders, w)' = OfVoucher(redis.pending \ orders, w)
      /\ OfVoucher(redis.pending \cup orders, w)' = OfVoucher(redis.pending \cup orders, w)
      /\ (redis.pending \cup orders)' = redis.pending \cup orders
      /\ redis'.stock[w] = redis.stock[w] /\ redis'.holders = redis.holders
  BY DEF Owed, OfVoucher, Complete
<1> QED
  BY <1>1 DEF Room, Slot

LEMMA StartWhole ==
    ASSUME TypeOK, Known, Spent, Whole, NEW p \in Processes, Start(p) \/ StartFails(p) \/ Stop(p)
    PROVE  Whole'
<1> USE DEF dbVars, redisVars, buyVars, startVars
<1>1. /\ UNCHANGED <<torn, dbStock, orders, create, hand, refused>>
      /\ \A o \in refused : VoucherOf[o] \in torn
      /\ \A o \in hand : VoucherOf[o] \in torn \/ o \in redis.pending \cup orders
      /\ \A v \in Vouchers \ torn : Room(v) /\ Untouched(v)
      /\ \A q \in Processes : ReadIsTrue(q)
  BY DEF Start, Begin, ReadOrders, Warm, Serve, Group, StartFails, Stop, Down, Whole
<1>2. CASE Begin(p)
  <2>1. /\ UNCHANGED redis
        /\ plan'[p] = [v \in campaigns |-> dbStock[v]] /\ todo'[p] = campaigns
        /\ \A q \in Processes \ {p} : plan'[q] = plan[q] /\ pc'[q] = pc[q] /\ todo'[q] = todo[q]
    BY <1>2 DEF Begin, Set, TypeOK
  <2>2. \A q \in Processes : ReadIsTrue(q)'
    BY <1>1, <2>1 DEF ReadIsTrue
  <2>3. \A v \in Vouchers \ torn : Room(v)' /\ Untouched(v)'
    BY <1>1, <2>1, RoomStays DEF OfVoucher, Untouched
  <2> QED
    BY <1>1, <2>1, <2>2, <2>3 DEF Whole
<1>3. CASE ReadOrders(p)
  <2>1. UNCHANGED <<redis, pc, plan, todo>>
    BY <1>3 DEF ReadOrders
  <2>2. \A q \in Processes : ReadIsTrue(q)'
    BY <1>1, <2>1 DEF ReadIsTrue
  <2>3. \A v \in Vouchers \ torn : Room(v)' /\ Untouched(v)'
    BY <1>1, <2>1 DEF Room, Owed, OfVoucher, Complete, Slot, Untouched
  <2> QED
    BY <1>1, <2>1, <2>2, <2>3 DEF Whole
<1>4. CASE Warm(p) \/ StartFails(p) \/ Stop(p)
  <2>1. redis' = redis \/ \E s \in seed[p] : redis' = Initialized(s, plan[p][s.voucher], "warm")
    BY <1>4 DEF Warm, StartFails, Stop
  <2>2. redis'.pending = redis.pending /\ redis'.stream = redis.stream
    BY <2>1, ReadType, InitializedKeeps
  <2>3. ASSUME NEW v \in Vouchers \ torn PROVE Room(v)' /\ Untouched(v)'
    <3>1. CASE redis' = redis
      BY <1>1, <3>1 DEF Room, Owed, OfVoucher, Complete, Slot, Untouched
    <3>2. CASE redis' # redis
      BY <1>1, <2>1, <3>2, WarmRoom
    <3> QED
      BY <3>1, <3>2
  <2>4. /\ \/ pc'[p] = "down"
           \/ todo'[p] \subseteq todo[p] /\ plan'[p] = plan[p] /\ pc'[p] = pc[p]
        /\ \A q \in Processes \ {p} : plan'[q] = plan[q] /\ pc'[q] = pc[q] /\ todo'[q] = todo[q]
    BY <1>4 DEF Warm, StartFails, Stop, Down, Set, TypeOK
  <2>5. \A q \in Processes : ReadIsTrue(q)'
    BY <1>1, <2>2, <2>4 DEF ReadIsTrue
  <2> QED
    BY <1>1, <2>2, <2>3, <2>5 DEF Whole
<1>5. CASE Serve(p) \/ Group(p)
  <2>1. /\ pc' \in {[pc EXCEPT ![p] = "up"], [pc EXCEPT ![p] = "working"]}
        /\ UNCHANGED <<plan, todo>>
        /\ redis'.keys = redis.keys /\ redis'.stock = redis.stock
        /\ redis'.holders = redis.holders /\ redis'.pending = redis.pending
        /\ redis'.stream \/ redis'.stream = redis.stream
    BY <1>5 DEF Serve, Group, Set, TypeOK, RedisState
  <2>2. pc'[p] # "warm" /\ \A q \in Processes \ {p} : pc'[q] = pc[q]
    BY <2>1 DEF TypeOK
  <2>3. \A q \in Processes : ReadIsTrue(q)'
    BY <1>1, <2>1, <2>2 DEF ReadIsTrue
  <2>4. \A v \in Vouchers \ torn : Room(v)' /\ Untouched(v)'
    BY <1>1, <2>1 DEF Room, Owed, OfVoucher, Complete, Slot, Untouched
  <2> QED
    BY <1>1, <2>1, <2>3, <2>4 DEF Whole
<1> QED
  BY <1>2, <1>3, <1>4, <1>5 DEF Start

LEMMA CreateWhole ==
    ASSUME TypeOK, Known, Whole, NEW v \in Vouchers,
           Create(v) \/ CreateReads(v) \/ CreateInitializes(v) \/ CreateFails(v)
    PROVE  Whole'
<1> USE DEF dbVars, redisVars, buyVars, startVars
<1>1. /\ UNCHANGED <<torn, orders, hand, refused, pc, plan, todo>>
      /\ \A o \in refused : VoucherOf[o] \in torn
      /\ \A o \in hand : VoucherOf[o] \in torn \/ o \in redis.pending \cup orders
      /\ \A w \in Vouchers \ torn : Room(w) /\ Untouched(w)
      /\ \A q \in Processes : ReadIsTrue(q)
  BY DEF Create, CreateReads, CreateInitializes, CreateFails, Whole
<1>2. CASE Create(v)
  <2>1. /\ create[v] = "none" /\ UNCHANGED redis
        /\ dbStock' = [dbStock EXCEPT ![v] = InitialStock[v]]
        /\ create' \in {[create EXCEPT ![v] = "committed"], [create EXCEPT ![v] = "error"]}
    BY <1>2 DEF Create, Set
  <2>2. /\ dbStock'[v] = InitialStock[v]
        /\ \A w \in Vouchers \ {v} : dbStock'[w] = dbStock[w] /\ create'[w] = create[w]
    BY <2>1 DEF TypeOK
  <2>3. v \notin campaigns
    BY <2>1 DEF Known
  <2>4. OfVoucher(redis.pending \cup orders, v) = {} /\ redis.keys[v] = {}
    BY <2>3 DEF Known, OfVoucher
  <2>5. Owed(v) = {} /\ OfVoucher(redis.pending \ orders, v) = {}
    BY <2>4 DEF Owed, OfVoucher
  <2>6. Room(v)'
    <3>1. ~Complete(v)' /\ Owed(v)' = {} /\ OfVoucher(redis.pending \ orders, v)' = {}
      BY <1>1, <2>1, <2>4, <2>5 DEF Complete, KeyNames, Owed, OfVoucher
    <3>2. Cardinality(Owed(v)') = 0 /\ dbStock'[v] \in Nat
      BY <2>2, <3>1, FS_EmptySet, Constants
    <3> QED
      BY <3>1, <3>2 DEF Room
  <2>7. \A w \in Vouchers \ torn : Room(w)'
    BY <1>1, <2>1, <2>2, <2>6, RoomStays
  <2>8. \A w \in Vouchers \ torn : Untouched(w)'
    BY <1>1, <2>1, <2>2, <2>4 DEF Untouched, OfVoucher
  <2>9. \A q \in Processes : ReadIsTrue(q)'
    <3>1. \A q \in Processes : v \notin todo[q]
      BY <2>3 DEF Known
    <3>2. \A q \in Processes : todo[q] \subseteq Vouchers
      BY DEF TypeOK
    <3> QED
      BY <1>1, <2>1, <2>2, <3>1, <3>2 DEF ReadIsTrue
  <2> QED
    BY <1>1, <2>1, <2>7, <2>8, <2>9 DEF Whole
<1>3. CASE CreateReads(v)
  <2>1. /\ create[v] = "committed" /\ UNCHANGED <<redis, dbStock>>
        /\ create' = [create EXCEPT ![v] = "initialize"]
    BY <1>3 DEF CreateReads, Set
  <2>2. \A q \in Processes : ReadIsTrue(q)'
    BY <1>1, <2>1 DEF ReadIsTrue
  <2>3. \A w \in Vouchers : create'[w] \in {"committed", "initialize"} => create[w] \in {"committed", "initialize"}
    BY <2>1 DEF TypeOK
  <2>4. \A w \in Vouchers \ torn : Room(w)' /\ Untouched(w)'
    BY <1>1, <2>1, <2>3 DEF Room, Owed, OfVoucher, Complete, Slot, Untouched
  <2> QED
    BY <1>1, <2>1, <2>2, <2>4 DEF Whole
<1>4. CASE CreateInitializes(v) \/ CreateFails(v)
  <2>1. PICK end \in {"ok", "error"} : CreateEnds(v, end)
    BY <1>4 DEF CreateInitializes, CreateFails
  <2>2. UNCHANGED dbStock
    BY <1>4 DEF CreateInitializes, CreateFails
  <2>3. redis' = redis \/ \E s \in seed[v] : redis' = Initialized(s, InitialStock[v], "new")
    BY <1>4 DEF CreateInitializes, CreateFails
  <2>4. ASSUME NEW w \in Vouchers \ torn PROVE Room(w)'
    <3>1. CASE redis' = redis
      BY <1>1, <2>2, <3>1, RoomStays
    <3>2. CASE redis' # redis
      BY <1>1, <2>2, <2>3, <3>2, CreateRoom
    <3> QED
      BY <3>1, <3>2
  <2>5. /\ redis'.pending = redis.pending /\ redis'.stream = redis.stream
        /\ \A w \in Vouchers \ {v} : redis'.keys[w] = redis.keys[w]
    BY <2>3, CreateReadType, InitializedKeeps
  <2>6. create'[v] = end /\ \A w \in Vouchers \ {v} : create'[w] = create[w]
    BY <2>1, EndKnown DEF TypeOK
  <2>7. \A w \in Vouchers \ torn : Untouched(w)'
    BY <1>1, <2>2, <2>5, <2>6 DEF Untouched, OfVoucher
  <2>8. \A q \in Processes : ReadIsTrue(q)'
    BY <1>1, <2>2, <2>5 DEF ReadIsTrue
  <2> QED
    BY <1>1, <2>4, <2>5, <2>7, <2>8 DEF Whole
<1> QED
  BY <1>2, <1>3, <1>4

\* What Redis loses with nothing mid-air is what MySQL still says.
LEMMA FlushWhole ==
    ASSUME TypeOK, Known, Spent, Whole, Flush
    PROVE  Whole'
<1> USE DEF dbVars, buyVars, startVars
<1>1. /\ UNCHANGED <<dbStock, orders, create, pc, plan, todo, hand, refused>>
      /\ redis'.pending = {} /\ \A v \in Vouchers : redis'.keys[v] = {}
      /\ torn' = torn \cup {v \in Vouchers : MidAir(v)}
  BY DEF Flush, EmptyRedis
<1>2. ASSUME NEW o \in hand, VoucherOf[o] \notin torn' PROVE o \in orders
  <2>1. VoucherOf[o] \in Vouchers /\ VoucherOf[o] \notin torn
    BY <1>1, <1>2, Constants DEF TypeOK
  <2>2. OfVoucher(hand \ (orders \cup refused), VoucherOf[o]) = {}
    BY <1>1, <1>2, <2>1 DEF MidAir
  <2>3. o \in orders \cup refused
    BY <2>2 DEF OfVoucher
  <2> QED
    BY <2>1, <2>3 DEF Whole
<1>3. ASSUME NEW v \in Vouchers \ torn' PROVE Room(v)' /\ Untouched(v)'
  <2>1. v \notin torn /\ ~MidAir(v)
    BY <1>1
  <2>2. Room(v)'
    <3>1. Owed(v)' = {} /\ OfVoucher(redis.pending \ orders, v)' = {} /\ ~Complete(v)'
      BY <1>1 DEF Owed, OfVoucher, Complete, KeyNames
    <3>2. Cardinality(Owed(v)') = 0 /\ dbStock'[v] \in Nat
      BY <1>1, <3>1, FS_EmptySet DEF TypeOK
    <3> QED
      BY <3>1, <3>2 DEF Room
  <2>3. ASSUME create[v] \in {"committed", "initialize"}
        PROVE  OfVoucher(redis'.pending \cup orders, v) = {} /\ dbStock[v] = InitialStock[v]
    <3>1. v \in campaigns
      BY <2>3 DEF Known
    <3>2. dbStock[v] = InitialStock[v] /\ InitialStock[v] \in Nat
      BY <2>1, <2>3, Constants DEF MidAir
    <3>3. OfVoucher(orders, v) = {}
      BY <3>1, <3>2 DEF Spent
    <3> QED
      BY <1>1, <3>2, <3>3 DEF OfVoucher
  <2>4. Untouched(v)'
    BY <1>1, <2>3 DEF Untouched, OfVoucher
  <2> QED
    BY <2>2, <2>4
<1>4. \A q \in Processes : ReadIsTrue(q)'
  <2>1. \A q \in Processes : todo[q] \subseteq Vouchers
    BY DEF TypeOK
  <2>2. \A q \in Processes : \A v \in todo[q] \ torn' : plan[q][v] = dbStock[v]
    BY <1>1, <2>1 DEF MidAir
  <2> QED
    BY <1>1, <2>2 DEF ReadIsTrue
<1>5. \A o \in refused : VoucherOf[o] \in torn'
  BY <1>1 DEF Whole
<1> QED
  BY <1>1, <1>2, <1>3, <1>4, <1>5 DEF Whole

\* A campaign that lost keys is off sale, the others are as before.
LEMMA LoseWhole ==
    ASSUME TypeOK, Known, Whole, NEW v \in Vouchers, NEW K \in SUBSET redis.keys[v], Lose(v, K)
    PROVE  Whole'
<1> USE DEF dbVars, buyVars, startVars
<1>1. /\ UNCHANGED <<torn, dbStock, orders, create, asked, pc, plan, todo, hand, refused>>
      /\ K # {} /\ create[v] \notin {"committed", "initialize"}
  BY DEF Lose
<1>2. /\ redis'.keys = [redis.keys EXCEPT ![v] = redis.keys[v] \ K]
      /\ redis'.stock = [redis.stock EXCEPT ![v] = IF "stock" \in K THEN 0 ELSE redis.stock[v]]
      /\ redis'.holders = IF "buyers" \in K THEN redis.holders \ OfVoucher(redis.holders, v)
                          ELSE redis.holders
      /\ redis'.pending = redis.pending /\ redis'.stream = redis.stream
  BY DEF Lose, TypeOK, RedisState
<1>3. /\ redis'.keys[v] # KeyNames
      /\ \A w \in Vouchers \ {v} : redis'.keys[w] = redis.keys[w] /\ redis'.stock[w] = redis.stock[w]
  BY <1>1, <1>2 DEF TypeOK, RedisState
<1>4. ASSUME NEW w \in Vouchers \ torn PROVE Room(w)'
  <2>1. Room(w)
    BY DEF Whole
  <2>2. /\ Owed(w)' = Owed(w)
        /\ OfVoucher(redis.pending \ orders, w)' = OfVoucher(redis.pending \ orders, w)
        /\ OfVoucher(redis.pending \cup orders, w)' = OfVoucher(redis.pending \cup orders, w)
    BY <1>1, <1>2 DEF Owed, OfVoucher
  <2>3. CASE w = v
    BY <1>1, <1>2, <1>3, <2>1, <2>2, <2>3 DEF Room, Complete, Slot
  <2>4. CASE w # v
    <3>1. /\ redis'.stock[w] = redis.stock[w] /\ (Complete(w)' <=> Complete(w))
      BY <1>3, <2>4 DEF Complete
    <3>2. \A o \in OfVoucher(redis.pending \cup orders, w), h \in redis.holders :
            Slot(h) = Slot(o) => h \in redis'.holders
      BY <1>2, <2>4 DEF OfVoucher, Slot
    <3> QED
      BY <1>1, <1>2, <2>1, <2>2, <3>1, <3>2 DEF Room, Slot
  <2> QED
    BY <2>3, <2>4
<1>5. \A w \in Vouchers \ torn : Untouched(w)'
  BY <1>1, <1>2, <1>3 DEF Whole, Untouched, OfVoucher
<1>6. \A q \in Processes : ReadIsTrue(q)'
  BY <1>1, <1>2 DEF Whole, ReadIsTrue
<1> QED
  BY <1>1, <1>2, <1>4, <1>5, <1>6 DEF Whole

\* A reservation takes a unit of the campaign for a user who has none.
LEMMA ReserveWhole ==
    ASSUME TypeOK, Known, Whole, NEW o \in OrderIds, Reserve(o)
    PROVE  Whole'
<1> USE DEF dbVars, startVars
<1> DEFINE v == VoucherOf[o]
<1>1. /\ UNCHANGED <<torn, dbStock, orders, create, pc, plan, todo, hand, refused>>
      /\ o \notin asked /\ asked' = asked \cup {o} /\ Complete(v) /\ redis.stock[v] > 0
      /\ \A h \in redis.holders : Slot(h) # Slot(o)
      /\ v \in Vouchers
  BY Constants DEF Reserve
<1>2. /\ redis'.keys = redis.keys
      /\ redis'.stock = [redis.stock EXCEPT ![v] = redis.stock[v] - 1]
      /\ redis'.holders = redis.holders \cup {o}
      /\ redis'.stream = TRUE
      /\ redis'.pending = redis.pending \cup {o}
  BY ReservedFields
<1>3. o \notin redis.pending \cup orders
  BY <1>1 DEF Known
<1>4. \A w \in Vouchers \ torn : Room(w) /\ Untouched(w)
  BY DEF Whole
<1>5. v \notin torn => \A q \in redis.pending \cup orders : Slot(q) # Slot(o)
  <2> SUFFICES ASSUME v \notin torn, NEW q \in redis.pending \cup orders, Slot(q) = Slot(o) PROVE FALSE
    OBVIOUS
  <2>1. VoucherOf[q] = v
    BY DEF Slot
  <2>2. q \in OfVoucher(redis.pending \cup orders, v)
    BY <2>1 DEF OfVoucher
  <2> QED
    BY <1>1, <1>4, <2>2 DEF Room
<1>6. ASSUME NEW w \in Vouchers \ torn PROVE Room(w)'
  <2>1. \A a \in OfVoucher(redis.pending \ orders, w)', q \in (redis.pending \cup orders)' :
          Slot(q) = Slot(a) => q = a
    <3> SUFFICES ASSUME NEW a \in OfVoucher(redis'.pending \ orders, w),
                        NEW q \in redis'.pending \cup orders, Slot(q) = Slot(a)
                 PROVE  q = a
      BY <1>1 DEF OfVoucher
    <3>1. CASE a = o \/ q = o
      <4>1. w = v
        BY <3>1 DEF OfVoucher, Slot
      <4> QED
        BY <1>2, <1>5, <3>1, <4>1 DEF OfVoucher
    <3>2. CASE a # o /\ q # o
      <4>1. a \in OfVoucher(redis.pending \ orders, w) /\ q \in redis.pending \cup orders
        BY <1>2, <3>2 DEF OfVoucher
      <4> QED
        BY <1>4, <4>1 DEF Room
    <3> QED
      BY <3>1, <3>2
  <2>2. Complete(w)' => \A a \in OfVoucher(redis.pending \cup orders, w)' :
                           \E h \in redis'.holders : Slot(h) = Slot(a)
    <3> SUFFICES ASSUME Complete(w), NEW a \in OfVoucher(redis'.pending \cup orders, w)
                 PROVE  \E h \in redis'.holders : Slot(h) = Slot(a)
      BY <1>1, <1>2 DEF OfVoucher, Complete
    <3>1. CASE a = o
      BY <1>2, <3>1
    <3>2. CASE a # o
      <4>1. a \in OfVoucher(redis.pending \cup orders, w)
        BY <1>2, <3>2 DEF OfVoucher
      <4> QED
        BY <1>2, <1>4, <4>1 DEF Room
    <3> QED
      BY <3>1, <3>2
  <2>3. /\ Cardinality(Owed(w)') <= dbStock'[w]
        /\ Complete(w)' => redis'.stock[w] + Cardinality(Owed(w)') = dbStock'[w]
    <3>0. IsFiniteSet(Owed(w)) /\ Cardinality(Owed(w)) \in Nat /\ dbStock[w] \in Nat
          /\ redis.stock \in [Vouchers -> Nat] /\ redis.stock[w] \in Nat
      BY OwedFinite DEF TypeOK, RedisState
    <3>1. CASE w = v
      <4>1. Owed(w)' = Owed(w) \cup {o} /\ o \notin Owed(w)
        BY <1>1, <1>2, <1>3, <3>1 DEF Owed, OfVoucher
      <4>2. Cardinality(Owed(w)') = Cardinality(Owed(w)) + 1
        BY <3>0, <4>1, FS_AddElement
      <4>3. redis.stock[w] + Cardinality(Owed(w)) = dbStock[w]
        BY <1>1, <1>4, <3>1 DEF Room
      <4>4. redis'.stock[w] = redis.stock[w] - 1
        BY <1>2, <3>0, <3>1
      <4>5. redis.stock[w] > 0
        BY <1>1, <3>1
      <4> QED
        BY <1>1, <3>0, <4>2, <4>3, <4>4, <4>5
    <3>2. CASE w # v
      <4>1. Owed(w)' = Owed(w)
        BY <1>1, <1>2, <3>2 DEF Owed, OfVoucher
      <4>2. redis'.stock[w] = redis.stock[w] /\ (Complete(w)' <=> Complete(w))
        BY <1>2, <3>0, <3>2 DEF Complete
      <4> QED
        BY <1>1, <1>4, <4>1, <4>2 DEF Room
    <3> QED
      BY <3>1, <3>2
  <2> QED
    BY <2>1, <2>2, <2>3 DEF Room, Slot
<1>7. \A w \in Vouchers \ torn : Untouched(w)'
  <2>1. KeyNames # {}
    BY DEF KeyNames
  <2> QED
    BY <1>1, <1>2, <1>4, <2>1 DEF Untouched, OfVoucher, Complete
<1>8. \A q \in Processes : ReadIsTrue(q)'
  BY <1>2 DEF ReadIsTrue
<1> QED
  BY <1>1, <1>2, <1>6, <1>7, <1>8 DEF Whole

\* MySQL has room for what Redis accepted, so a consumer is never refused.
LEMMA PersistRoom ==
    ASSUME TypeOK, Known, Whole, NEW o \in OrderIds, Persist(o), VoucherOf[o] \notin torn
    PROVE  Whole'
<1> USE DEF redisVars, startVars
<1> DEFINE v == VoucherOf[o]
<1>1. /\ UNCHANGED <<torn, redis, create, asked, pc, plan, todo, hand>>
      /\ o \in hand /\ o \notin orders /\ v \in Vouchers
  BY Constants DEF Persist
<1>2. /\ o \in redis.pending
      /\ \A a \in refused : VoucherOf[a] \in torn
      /\ \A a \in hand : VoucherOf[a] \in torn \/ a \in redis.pending \cup orders
      /\ \A w \in Vouchers \ torn : Room(w) /\ Untouched(w)
  BY <1>1 DEF Whole
<1>3. o \in OfVoucher(redis.pending \ orders, v) /\ o \in Owed(v)
  BY <1>1, <1>2 DEF OfVoucher, Owed
<1>4. IsFiniteSet(Owed(v)) /\ Cardinality(Owed(v)) \in Nat /\ dbStock[v] \in Nat
  BY <1>1, OwedFinite DEF TypeOK
<1>5. Cardinality(Owed(v) \ {o}) = Cardinality(Owed(v)) - 1 /\ Cardinality(Owed(v) \ {o}) \in Nat
  BY <1>3, <1>4, FS_RemoveElement, FS_CardinalityType
<1>6. dbStock[v] > 0
  BY <1>1, <1>2, <1>4, <1>5 DEF Room
<1>7. Others(o) = {}
  BY <1>1, <1>2, <1>3 DEF Others, Room
<1>8. /\ orders' = orders \cup {o} /\ refused' = refused
      /\ dbStock' = [dbStock EXCEPT ![v] = dbStock[v] - 1]
  BY <1>6, <1>7 DEF Persist, Set
<1>9. ASSUME NEW w \in Vouchers \ torn PROVE Room(w)'
  <2>0. dbStock[w] \in Nat /\ redis.stock[w] \in Nat
    BY DEF TypeOK, RedisState
  <2>1. /\ Cardinality(Owed(w)') <= dbStock'[w]
        /\ Complete(w)' => redis'.stock[w] + Cardinality(Owed(w)') = dbStock'[w]
    <3>1. CASE w = v
      <4>1. Owed(w)' = Owed(w) \ {o}
        BY <1>1, <1>8 DEF Owed, OfVoucher
      <4>2. dbStock'[w] = dbStock[w] - 1
        BY <1>8, <3>1 DEF TypeOK
      <4> QED
        BY <1>1, <1>2, <1>4, <1>5, <2>0, <3>1, <4>1, <4>2 DEF Room, Complete
    <3>2. CASE w # v
      <4>1. Owed(w)' = Owed(w)
        BY <1>1, <1>8, <3>2 DEF Owed, OfVoucher
      <4>2. dbStock'[w] = dbStock[w]
        BY <1>8, <3>2 DEF TypeOK
      <4> QED
        BY <1>1, <1>2, <4>1, <4>2 DEF Room, Complete
    <3> QED
      BY <3>1, <3>2
  <2>2. /\ OfVoucher(redis.pending \ orders, w)' \subseteq OfVoucher(redis.pending \ orders, w)
        /\ (redis.pending \cup orders)' = redis.pending \cup orders
        /\ OfVoucher(redis.pending \cup orders, w)' = OfVoucher(redis.pending \cup orders, w)
    BY <1>1, <1>2, <1>8 DEF OfVoucher
  <2> QED
    BY <1>1, <1>2, <2>1, <2>2 DEF Room, Slot, Complete
<1>10. ASSUME NEW w \in Vouchers \ torn PROVE Untouched(w)'
  <2>1. CASE w = v
    <3>1. OfVoucher(redis.pending \cup orders, w) # {}
      BY <1>2, <2>1 DEF OfVoucher
    <3> QED
      BY <1>1, <1>2, <3>1 DEF Untouched
  <2>2. CASE w # v
    <3>1. dbStock'[w] = dbStock[w] /\ OfVoucher(redis.pending \cup orders, w)' = OfVoucher(redis.pending \cup orders, w)
      BY <1>1, <1>8, <2>2 DEF TypeOK, OfVoucher
    <3> QED
      BY <1>1, <1>2, <3>1 DEF Untouched
  <2> QED
    BY <2>1, <2>2
<1>11. redis.stream
  BY <1>1, <1>2 DEF Known
<1>12. \A q \in Processes : ReadIsTrue(q)'
  BY <1>1, <1>11 DEF ReadIsTrue
<1> HIDE DEF v
<1> QED
  BY <1>1, <1>2, <1>8, <1>9, <1>10, <1>12 DEF Whole

\* What becomes of an order of a torn campaign touches no other campaign.
LEMMA PersistWhole ==
    ASSUME TypeOK, Known, Whole, NEW o \in OrderIds, Persist(o)
    PROVE  Whole'
<1> USE DEF redisVars, startVars
<1> SUFFICES ASSUME VoucherOf[o] \in torn PROVE Whole'
  BY PersistRoom
<1>1. /\ UNCHANGED <<torn, redis, create, pc, plan, todo, hand>>
      /\ orders \subseteq orders' /\ orders' \subseteq orders \cup {o}
      /\ refused' \subseteq refused \cup {o}
  BY DEF Persist
<1>2. \A w \in Vouchers \ torn : dbStock'[w] = dbStock[w]
  BY DEF Persist, Set, TypeOK
<1>3. ASSUME NEW w \in Vouchers \ torn PROVE Room(w)' /\ Untouched(w)'
  <2>1. /\ Owed(w)' = Owed(w)
        /\ OfVoucher(redis.pending \ orders, w)' = OfVoucher(redis.pending \ orders, w)
        /\ OfVoucher(redis.pending \cup orders, w)' = OfVoucher(redis.pending \cup orders, w)
    BY <1>1 DEF Owed, OfVoucher
  <2>2. Room(w) /\ Untouched(w)
    BY DEF Whole
  <2>3. \A a \in OfVoucher(redis.pending \ orders, w), q \in redis.pending \cup orders' :
          Slot(q) = Slot(a) => q = a
    <3> SUFFICES ASSUME NEW a \in OfVoucher(redis.pending \ orders, w),
                        NEW q \in redis.pending \cup orders', Slot(q) = Slot(a)
                 PROVE  q = a
      OBVIOUS
    <3>1. q # o
      BY DEF OfVoucher, Slot
    <3> QED
      BY <1>1, <2>2, <3>1 DEF Room
  <2> QED
    BY <1>1, <1>2, <2>1, <2>2, <2>3 DEF Room, Complete, Untouched, Slot
<1>4. \A q \in Processes : ReadIsTrue(q)'
  <2>1. \A q \in Processes : todo[q] \subseteq Vouchers
    BY DEF TypeOK
  <2> QED
    BY <1>1, <1>2, <2>1 DEF Whole, ReadIsTrue
<1> QED
  BY <1>1, <1>3, <1>4 DEF Whole

LEMMA OrderWhole ==
    ASSUME TypeOK, Known, Whole, NEW o \in OrderIds, Deliver(o) \/ Settle(o) \/ Drop(o)
    PROVE  Whole'
<1> USE DEF dbVars, redisVars, startVars
<1>1. /\ UNCHANGED <<torn, dbStock, orders, create, pc, plan, todo, refused>>
      /\ \A a \in refused : VoucherOf[a] \in torn
      /\ \A a \in hand : VoucherOf[a] \in torn \/ a \in redis.pending \cup orders
      /\ \A w \in Vouchers \ torn : Room(w) /\ Untouched(w)
      /\ \A q \in Processes : ReadIsTrue(q)
  BY DEF Deliver, Settle, Drop, Whole
<1>2. /\ redis'.keys = redis.keys /\ redis'.stream = redis.stream
      /\ redis'.pending \in {redis.pending, redis.pending \ {o}}
      /\ \/ redis'.stock = redis.stock /\ redis'.holders = redis.holders
            /\ (redis'.pending = redis.pending \/ o \in orders)
         \/ redis' = Rejected(o) /\ o \in refused
  <2>1. CASE Deliver(o) \/ Drop(o)
    BY <2>1 DEF Deliver, Drop
  <2>2. CASE Settle(o) /\ redis' = [redis EXCEPT !.pending = @ \ {o}] /\ o \in orders
    BY <2>2 DEF TypeOK, RedisState
  <2>3. CASE Settle(o) /\ redis' = Rejected(o) /\ o \in refused
    BY <2>3, RejectedFields
  <2>4. CASE Settle(o) /\ redis' = redis
    BY <2>4
  <2>5. Settle(o) => \/ redis' = [redis EXCEPT !.pending = @ \ {o}] /\ o \in orders
                     \/ redis' = Rejected(o) /\ o \in refused
                     \/ redis' = redis
    BY DEF Settle, Rejected
  <2> QED
    BY <2>1, <2>2, <2>3, <2>4, <2>5
<1>3. \A a \in hand' : VoucherOf[a] \in torn \/ a \in redis'.pending \cup orders
  <2>1. CASE Deliver(o) \/ Drop(o)
    BY <1>1, <2>1 DEF Deliver, Drop
  <2>2. CASE Settle(o)
    BY <1>1, <1>2, <2>2 DEF Settle
  <2> QED
    BY <2>1, <2>2
<1>4. ASSUME NEW w \in Vouchers \ torn PROVE Room(w)' /\ Untouched(w)'
  <2>1. Room(w) /\ Untouched(w)
    BY <1>1
  <2>2. CASE /\ redis'.stock = redis.stock /\ redis'.holders = redis.holders
             /\ (redis'.pending = redis.pending \/ o \in orders)
    <3>1. /\ Owed(w)' = Owed(w)
          /\ OfVoucher(redis.pending \ orders, w)' = OfVoucher(redis.pending \ orders, w)
          /\ OfVoucher(redis.pending \cup orders, w)' = OfVoucher(redis.pending \cup orders, w)
          /\ (redis.pending \cup orders)' = redis.pending \cup orders
      BY <1>1, <1>2, <2>2 DEF Owed, OfVoucher
    <3> QED
      BY <1>1, <1>2, <2>1, <2>2, <3>1 DEF Room, Complete, Slot, Untouched
  <2>3. CASE redis' = Rejected(o) /\ o \in refused
    <3>1. w # VoucherOf[o]
      BY <1>1, <2>3
    <3>2. redis'.stock[w] = redis.stock[w] /\ redis'.holders = (redis.holders \ {o}) \cup Others(o)
      BY <2>3, <3>1, RejectedFields
    <3>3. /\ Owed(w)' = Owed(w)
          /\ OfVoucher(redis.pending \ orders, w)' = OfVoucher(redis.pending \ orders, w)
          /\ OfVoucher(redis.pending \cup orders, w)' = OfVoucher(redis.pending \cup orders, w)
          /\ (redis.pending \cup orders)' \subseteq redis.pending \cup orders
      BY <1>1, <1>2, <3>1 DEF Owed, OfVoucher
    <3>4. \A a \in OfVoucher(redis.pending \cup orders, w), h \in redis.holders :
            Slot(h) = Slot(a) => h \in redis'.holders
      BY <3>1, <3>2 DEF OfVoucher, Slot
    <3> QED
      BY <1>1, <1>2, <2>1, <3>2, <3>3, <3>4 DEF Room, Complete, Slot, Untouched
  <2> QED
    BY <1>2, <2>2, <2>3
<1>5. \A q \in Processes : ReadIsTrue(q)'
  BY <1>1, <1>2 DEF ReadIsTrue
<1> QED
  BY <1>1, <1>3, <1>4, <1>5 DEF Whole

LEMMA NextWhole == ASSUME TypeOK, Known, Spent, Whole, Next PROVE Whole'
BY StartWhole, CreateWhole, FlushWhole, LoseWhole, ReserveWhole, PersistWhole, OrderWhole DEF Next

-----------------------------------------------------------------------------
(* Campaigns stay on sale *)

\* While nothing is lost a campaign that is on sale stays there.
LEMMA StaysComplete ==
    ASSUME TypeOK, Known, Next, losses' = 0
    PROVE  losses = 0 /\ \A v \in Vouchers : Complete(v) => Complete(v)'
<1>1. ASSUME NEW p \in Processes, Start(p) \/ StartFails(p) \/ Stop(p)
      PROVE  losses = 0 /\ \A v \in Vouchers : Complete(v) => Complete(v)'
  <2>1. losses = 0
    BY <1>1 DEF Start, Begin, ReadOrders, Warm, Serve, Group, StartFails, Stop, redisVars
  <2>2. \/ redis'.keys = redis.keys
        \/ \E s \in seed[p] : redis' = Initialized(s, plan[p][s.voucher], "warm")
    BY <1>1 DEF Start, Begin, ReadOrders, Warm, Serve, Group, StartFails, Stop, redisVars, TypeOK, RedisState
  <2> QED
    BY <2>1, <2>2, ReadType, InitializedKeeps DEF Complete
<1>2. ASSUME NEW v \in Vouchers,
             Create(v) \/ CreateReads(v) \/ CreateInitializes(v) \/ CreateFails(v)
      PROVE  losses = 0 /\ \A w \in Vouchers : Complete(w) => Complete(w)'
  <2>1. losses = 0
    BY <1>2 DEF Create, CreateReads, CreateInitializes, CreateFails, redisVars
  <2>2. redis' = redis \/ \E s \in seed[v] : redis' = Initialized(s, InitialStock[v], "new")
    BY <1>2 DEF Create, CreateReads, CreateInitializes, CreateFails, redisVars
  <2> QED
    BY <2>1, <2>2, CreateReadType, InitializedKeeps DEF Complete
<1>3. ASSUME Flush \/ \E v \in Vouchers : \E K \in SUBSET redis.keys[v] : Lose(v, K) PROVE FALSE
  <2>1. losses' = losses + 1
    BY <1>3 DEF Flush, Lose
  <2>2. losses \in 0..MaxLoss /\ MaxLoss \in Nat
    BY Constants DEF TypeOK
  <2> QED
    BY <2>1, <2>2
<1>4. ASSUME NEW o \in OrderIds, Reserve(o) \/ Deliver(o) \/ Persist(o) \/ Settle(o) \/ Drop(o)
      PROVE  losses = 0 /\ \A v \in Vouchers : Complete(v) => Complete(v)'
  <2>1. losses = 0
    BY <1>4 DEF Reserve, Deliver, Persist, Settle, Drop, redisVars
  <2>2. CASE Reserve(o)
    BY <2>1, <2>2, ReservedFields DEF Complete
  <2>3. CASE Settle(o)
    <3>1. redis' \in {redis, [redis EXCEPT !.pending = @ \ {o}], Rejected(o)}
      BY <2>3 DEF Settle, Rejected
    <3> QED
      BY <2>1, <3>1, RejectedFields DEF Complete, TypeOK, RedisState
  <2>4. CASE Deliver(o) \/ Persist(o) \/ Drop(o)
    BY <2>1, <2>4 DEF Deliver, Persist, Drop, redisVars, Complete
  <2> QED
    BY <1>4, <2>2, <2>3, <2>4
<1> QED
  BY <1>1, <1>2, <1>3, <1>4 DEF Next

\* After a call of initialize.lua that is not refused the campaign is on sale.
LEMMA AcceptedIsComplete ==
    ASSUME TypeOK, NEW s \in Seeds, NEW n \in Nat, NEW mode,
           redis' = Initialized(s, n, mode), Accepts(s.voucher, mode)
    PROVE  Complete(s.voucher)'
<1>1. CASE MayInitialize(s.voucher, mode)
  <2>1. redis' = Seeded(s, n) /\ s.voucher \in Vouchers
    BY <1>1 DEF Initialized, Seeds
  <2>2. Seeded(s, n).keys = [redis.keys EXCEPT ![s.voucher] = KeyNames]
    BY SeededFields
  <2>3. redis.keys \in [Vouchers -> SUBSET KeyNames]
    BY DEF TypeOK, RedisState
  <2> QED
    BY <1>1, <2>1, <2>2, <2>3 DEF Complete
<1>2. CASE ~MayInitialize(s.voucher, mode)
  BY <1>2 DEF Initialized, Accepts, Complete
<1> QED
  BY <1>1, <1>2

\* While nothing is lost a campaign is wholly in Redis or nobody bought of it.
LEMMA StaysWhole ==
    ASSUME TypeOK, Known, Kept, Next, losses' = 0, NEW v \in Vouchers
    PROVE  Complete(v)' \/ (redis'.keys[v] = {} /\ OfVoucher(asked', v) = {})
<1>0. losses = 0 /\ (Complete(v) => Complete(v)')
  BY StaysComplete
<1>1. CASE Complete(v)
  BY <1>0, <1>1
<1>2. CASE ~Complete(v)
  <2>0. redis.keys[v] = {} /\ OfVoucher(asked, v) = {}
    BY <1>0, <1>2 DEF Kept
  <2>1. SUFFICES ASSUME ~Complete(v)' PROVE redis'.keys[v] = {} /\ OfVoucher(asked', v) = {}
    OBVIOUS
  <2>2. ASSUME NEW p \in Processes, Start(p) \/ StartFails(p) \/ Stop(p)
        PROVE  redis'.keys[v] = redis.keys[v] /\ asked' = asked
    <3>1. asked' = asked
      BY <2>2 DEF Start, Begin, ReadOrders, Warm, Serve, Group, StartFails, Stop, buyVars
    <3>2. \/ redis'.keys = redis.keys
          \/ \E s \in seed[p] : redis' = Initialized(s, plan[p][s.voucher], "warm")
      BY <2>2 DEF Start, Begin, ReadOrders, Warm, Serve, Group, StartFails, Stop, redisVars, TypeOK, RedisState
    <3> QED
      BY <2>1, <3>1, <3>2, ReadType, InitializedKeeps DEF Complete
  <2>3. ASSUME NEW w \in Vouchers,
               Create(w) \/ CreateReads(w) \/ CreateInitializes(w) \/ CreateFails(w)
        PROVE  redis'.keys[v] = redis.keys[v] /\ asked' = asked
    <3>1. asked' = asked
      BY <2>3 DEF Create, CreateReads, CreateInitializes, CreateFails, buyVars
    <3>2. redis' = redis \/ \E s \in seed[w] : redis' = Initialized(s, InitialStock[w], "new")
      BY <2>3 DEF Create, CreateReads, CreateInitializes, CreateFails, redisVars
    <3> QED
      BY <2>1, <3>1, <3>2, CreateReadType, InitializedKeeps DEF Complete
  <2>4. ~Flush /\ ~\E w \in Vouchers : \E K \in SUBSET redis.keys[w] : Lose(w, K)
    <3>1. losses \in 0..MaxLoss /\ MaxLoss \in Nat
      BY Constants DEF TypeOK
    <3>2. Flush \/ (\E w \in Vouchers : \E K \in SUBSET redis.keys[w] : Lose(w, K))
            => losses' = losses + 1
      BY DEF Flush, Lose
    <3> QED
      BY <3>1, <3>2
  <2>5. ASSUME NEW o \in OrderIds, Reserve(o) \/ Deliver(o) \/ Persist(o) \/ Settle(o) \/ Drop(o)
        PROVE  redis'.keys[v] = redis.keys[v] /\ OfVoucher(asked', v) = {}
    <3>1. CASE Reserve(o)
      <4>1. VoucherOf[o] # v /\ asked' = asked \cup {o}
        BY <1>2, <3>1 DEF Reserve
      <4> QED
        BY <2>0, <3>1, <4>1, ReservedFields DEF OfVoucher
    <3>2. CASE Settle(o)
      <4>1. redis' \in {redis, [redis EXCEPT !.pending = @ \ {o}], Rejected(o)} /\ asked' = asked
        BY <3>2 DEF Settle, Rejected
      <4> QED
        BY <2>0, <4>1, RejectedFields DEF TypeOK, RedisState
    <3>3. CASE Deliver(o) \/ Persist(o) \/ Drop(o)
      BY <2>0, <3>3 DEF Deliver, Persist, Drop, redisVars
    <3> QED
      BY <2>5, <3>1, <3>2, <3>3
  <2> QED
    BY <2>0, <2>2, <2>3, <2>4, <2>5 DEF Next
<1> QED
  BY <1>1, <1>2

LEMMA NextKept ==
    ASSUME TypeOK, Known, Kept, Next
    PROVE  Kept'
<1> SUFFICES ASSUME losses' = 0 PROVE Kept'
  BY DEF Kept
<1>0. losses = 0 /\ \A v \in Vouchers : Complete(v) => Complete(v)'
  BY StaysComplete
<1>1. /\ \A v \in Vouchers : create[v] = "ok" => Complete(v)
      /\ \A p \in Processes : pc[p] # "down" => \A v \in DOMAIN plan[p] \ todo[p] : Complete(v)
      /\ \A p \in Processes : DOMAIN plan[p] \subseteq Vouchers
  BY <1>0 DEF Kept, TypeOK
<1>5. \A v \in Vouchers : Complete(v)' \/ (redis'.keys[v] = {} /\ OfVoucher(asked, v)' = {})
  BY StaysWhole DEF OfVoucher
<1>2. ASSUME NEW v \in Vouchers,
             Create(v) \/ CreateReads(v) \/ CreateInitializes(v) \/ CreateFails(v)
      PROVE  Kept'
  <2>1. UNCHANGED <<pc, plan, todo>>
    BY <1>2 DEF Create, CreateReads, CreateInitializes, CreateFails, startVars
  <2>2. \A w \in Vouchers \ {v} : create'[w] = create[w]
    BY <1>2 DEF Create, CreateReads, CreateInitializes, CreateFails, CreateEnds, Set, TypeOK
  <2>3. create'[v] = "ok" => Complete(v)'
    <3>1. CASE CreateInitializes(v)
      <4>1. PICK s \in seed[v] :
              /\ redis' = Initialized(s, InitialStock[v], "new")
              /\ CreateEnds(v, IF Accepts(v, "new") THEN "ok" ELSE "error")
        BY <3>1 DEF CreateInitializes
      <4>2. s \in Seeds /\ InitialStock[v] \in Nat /\ s.voucher = v
        BY CreateReadType
      <4>3. create'[v] = "ok" => Accepts(v, "new")
        BY <4>1 DEF CreateEnds, Set, TypeOK
      <4> QED
        BY <4>1, <4>2, <4>3, AcceptedIsComplete
    <3>2. CASE ~CreateInitializes(v)
      BY <1>2, <3>2 DEF Create, CreateReads, CreateFails, CreateEnds, Set, TypeOK
    <3> QED
      BY <3>1, <3>2
  <2> QED
    BY <1>0, <1>1, <1>5, <2>1, <2>2, <2>3 DEF Kept
<1>3. ASSUME NEW p \in Processes, Start(p) \/ StartFails(p) \/ Stop(p) PROVE Kept'
  <2>1. UNCHANGED create
    BY <1>3 DEF Start, Begin, ReadOrders, Warm, Serve, Group, StartFails, Stop
  <2>2. \A q \in Processes \ {p} : pc'[q] = pc[q] /\ plan'[q] = plan[q] /\ todo'[q] = todo[q]
    BY <1>3 DEF Start, Begin, ReadOrders, Warm, Serve, Group, StartFails, Stop, startVars, Down, Set, TypeOK
  <2>3. pc'[p] # "down" => \A v \in DOMAIN plan'[p] \ todo'[p] : Complete(v)'
    <3>1. CASE Begin(p)
      <4>1. todo' = [todo EXCEPT ![p] = campaigns]
            /\ plan' = [plan EXCEPT ![p] = [v \in campaigns |-> dbStock[v]]]
        BY <3>1 DEF Begin, Set
      <4>2. todo'[p] = campaigns /\ plan'[p] = [v \in campaigns |-> dbStock[v]]
        BY <4>1 DEF TypeOK
      <4> QED
        BY <4>2
    <3>2. CASE Warm(p)
      <4>1. PICK s \in seed[p] :
              /\ redis' = Initialized(s, plan[p][s.voucher], "warm")
              /\ IF Accepts(s.voucher, "warm")
                 THEN todo' = Set(todo, p, todo[p] \ {s.voucher}) /\ UNCHANGED <<pc, plan>>
                 ELSE Down(p)
        BY <3>2 DEF Warm
      <4>2. s \in Seeds /\ plan[p][s.voucher] \in Nat /\ pc[p] = "warm"
        BY ReadType DEF Known
      <4>3. CASE Accepts(s.voucher, "warm")
        <5>1. Complete(s.voucher)'
          BY <4>1, <4>2, <4>3, AcceptedIsComplete
        <5>2. plan'[p] = plan[p] /\ todo'[p] = todo[p] \ {s.voucher}
          BY <4>1, <4>3 DEF Set, TypeOK
        <5>3. \A v \in DOMAIN plan[p] \ todo[p] : Complete(v)'
          BY <1>0, <1>1, <4>2
        <5> QED
          BY <5>1, <5>2, <5>3
      <4>4. CASE ~Accepts(s.voucher, "warm")
        BY <4>1, <4>4 DEF Down, Set, TypeOK
      <4> QED
        BY <4>3, <4>4
    <3>3. CASE ReadOrders(p) \/ Serve(p) \/ Group(p)
      <4>1. pc[p] # "down" /\ plan' = plan /\ todo' = todo
        BY <3>3 DEF ReadOrders, Serve, Group, startVars
      <4> QED
        BY <1>0, <1>1, <4>1
    <3>4. CASE StartFails(p) \/ Stop(p)
      BY <3>4 DEF StartFails, Stop, Down, Set, TypeOK
    <3> QED
      BY <1>3, <3>1, <3>2, <3>3, <3>4 DEF Start
  <2> QED
    BY <1>0, <1>1, <1>5, <2>1, <2>2, <2>3 DEF Kept
<1>4. ASSUME \/ \E o \in OrderIds : Reserve(o) \/ Deliver(o) \/ Persist(o) \/ Settle(o) \/ Drop(o)
             \/ Flush \/ \E v \in Vouchers : \E K \in SUBSET redis.keys[v] : Lose(v, K)
      PROVE  Kept'
  <2>1. UNCHANGED <<create, pc, plan, todo>>
    BY <1>4 DEF Reserve, Deliver, Persist, Settle, Drop, Flush, Lose, startVars
  <2> QED
    BY <1>0, <1>1, <1>5, <2>1 DEF Kept
<1> QED
  BY <1>2, <1>3, <1>4 DEF Next

-----------------------------------------------------------------------------
(* Theorems *)

LEMMA InitInv == Init => IInv /\ Kept
<1> SUFFICES ASSUME Init PROVE IInv /\ Kept
  OBVIOUS
<1>1. TypeOK /\ Known
  BY InitType, InitKnown
<1>2. /\ redis.pending = {} /\ orders = {} /\ hand = {} /\ refused = {} /\ asked = {}
      /\ campaigns = {} /\ \A p \in Processes : seed[p] = {} /\ DOMAIN plan[p] = {}
      /\ \A v \in Vouchers : redis.keys[v] = {} /\ dbStock[v] = 0 /\ create[v] = "none"
      /\ \A p \in Processes : pc[p] = "down"
  BY DEF Init, EmptyRedis, NoPlan
<1>3. ASSUME NEW v \in Vouchers PROVE Room(v) /\ Untouched(v)
  <2>1. Owed(v) = {} /\ OfVoucher(redis.pending \ orders, v) = {} /\ ~Complete(v)
    BY <1>2 DEF Owed, OfVoucher, Complete, KeyNames
  <2>2. Cardinality(Owed(v)) = 0
    BY <2>1, FS_EmptySet
  <2> QED
    BY <1>2, <2>1, <2>2 DEF Room, Untouched
<1>4. Whole
  BY <1>2, <1>3 DEF Whole, ReadIsTrue
<1>5. Kept
  BY <1>2 DEF Kept, OfVoucher
<1>6. Spent
  BY <1>2 DEF Spent
<1> QED
  BY <1>1, <1>4, <1>5, <1>6 DEF IInv

LEMMA NextInv == IInv /\ Kept /\ [Next]_vars => (IInv /\ Kept)'
<1> SUFFICES ASSUME IInv, Kept, [Next]_vars PROVE (IInv /\ Kept)'
  OBVIOUS
<1>1. CASE Next
  BY <1>1, NextType, NextKnown, NextSpent, NextWhole, NextKept DEF IInv
<1>2. CASE UNCHANGED vars
  <2> USE DEF vars, dbVars, redisVars, startVars, buyVars
  <2>0. TypeOK'
    BY <1>2 DEF IInv, TypeOK
  <2>1. Known'
    <3>1. UNCHANGED <<campaigns, orders, redis, create, pc, plan, todo, seed, asked, hand, refused>>
      BY <1>2
    <3>2. Known
      BY DEF IInv
    <3> QED
      BY <3>1, <3>2 DEF Known
  <2>2. Whole'
    <3>1. UNCHANGED <<torn, dbStock, orders, redis, create, pc, plan, todo, hand, refused>>
      BY <1>2
    <3>2. \A v \in Vouchers : Room(v) /\ Untouched(v) => Room(v)' /\ Untouched(v)'
      BY <3>1 DEF Room, Owed, OfVoucher, Complete, Slot, Untouched
    <3>3. \A p \in Processes : ReadIsTrue(p) => ReadIsTrue(p)'
      BY <3>1 DEF ReadIsTrue
    <3> QED
      BY <3>1, <3>2, <3>3 DEF IInv, Whole
  <2>3. Kept'
    BY <1>2 DEF Kept, Complete, OfVoucher
  <2>4. Spent'
    <3>1. UNCHANGED <<campaigns, dbStock, orders, plan, seed>> /\ Spent
      BY <1>2 DEF IInv
    <3> QED
      BY <3>1 DEF Spent, OfVoucher
  <2> QED
    BY <2>0, <2>1, <2>2, <2>3, <2>4 DEF IInv
<1> QED
  BY <1>1, <1>2

\* The strengthening holds in every reachable state.
THEOREM BooksAreWhole == Spec => [](IInv /\ Kept)
BY InitInv, NextInv, PTL DEF Spec

\* Every variable has its type, for any instance.
THEOREM TypeCorrect == Spec => []TypeOK
<1>1. IInv /\ Kept => TypeOK
  BY DEF IInv
<1> QED
  BY <1>1, BooksAreWhole, PTL

\* What is on sale is what MySQL has left, and who has an order cannot buy
\* again (Create, Warm, initialize.lua), of every campaign but those that
\* Redis was emptied of with something of them mid-air.
THEOREM OnSaleIsBacked == Spec => []Backed
<1>1. IInv /\ Kept => Backed
  BY DEF IInv, Whole, Room, Backed
<1> QED
  BY <1>1, BooksAreWhole, PTL

\* MySQL refuses no order that Redis accepted, but of those same campaigns.
THEOREM AcceptedHasRoom == Spec => []RefusedOnlyIfTorn
<1>1. IInv /\ Kept => RefusedOnlyIfTorn
  BY DEF IInv, Whole, RefusedOnlyIfTorn
<1> QED
  BY <1>1, BooksAreWhole, PTL

\* While nothing is lost, a campaign is wholly on sale or not at all, and it is
\* what Create reported or a start found (CreateInitializes, Warm).
THEOREM CreatedIsOnSale == Spec => []OnSale
<1>1. ASSUME IInv, Kept PROVE OnSale
  <2>1. \A p \in Processes : pc[p] \in {"up", "working"} => todo[p] = {} /\ pc[p] # "down"
    BY <1>1 DEF IInv, Known
  <2> QED
    BY <1>1, <2>1 DEF Kept, OnSale
<1> QED
  BY <1>1, BooksAreWhole, PTL

=============================================================================
