--------------------------- MODULE SeckillProofs ---------------------------
(***************************************************************************)
(* Theorems about Seckill, for every number of users, campaigns, attempts,  *)
(* consumers, malformed messages and restarts of Redis that lose writes:    *)
(* types, both ledgers balance, Redis never contradicts MySQL,              *)
(* compensations and dead letters happen once.                             *)
(*                                                                         *)
(* The argument: the set S of committed orders only grows and the stock d   *)
(* of MySQL only falls, so "this order can never be committed" (Beaten)     *)
(* stays true once it is true.  reject.lua is only ever called for beaten   *)
(* orders and finish.lua for committed ones, therefore a script that runs   *)
(* late, twice or on an older Redis data set still tells the truth.         *)
(***************************************************************************)
EXTENDS Seckill, FiniteSetTheorems, TLAPS

-----------------------------------------------------------------------------
(* Type correctness *)

\* An attempt is for a campaign and has a slot.
LEMMA SlotType ==
    ASSUME NEW o \in OrderIds
    PROVE  VoucherOf[o] \in Vouchers /\ Slot(o) \in Slots
BY ConstantsAssumption DEF ConstantsAssumption, Slot, Slots

\* seckill.lua changes each part of the Redis data set as its writes say.
LEMMA ReservedFields ==
    ASSUME NEW r \in RedisState, NEW o \in OrderIds
    PROVE  /\ Reserved(r, o).stock = [r.stock EXCEPT ![VoucherOf[o]] = @ - 1]
           /\ Reserved(r, o).buyers = [r.buyers EXCEPT ![Slot(o)] = o]
           /\ Reserved(r, o).status = [r.status EXCEPT ![o] = "pending"]
           /\ Reserved(r, o).stream = r.stream \cup {o}
           /\ Reserved(r, o).fresh = r.fresh \cup {o}
           /\ Reserved(r, o).pel = r.pel
           /\ Reserved(r, o).dead = r.dead
BY DEF Reserved, RedisState

\* The parts of a well-formed Redis data set.
LEMMA RedisFields ==
    ASSUME NEW r \in RedisState
    PROVE  /\ r.stock \in [Vouchers -> Nat]
           /\ r.buyers \in [Slots -> OrderIds \cup {None}]
           /\ r.status \in [OrderIds -> OrderStates]
           /\ r.stream \subseteq Messages
           /\ r.fresh \subseteq Messages
           /\ r.pel \subseteq Messages
           /\ r.dead \in [Messages -> Nat]
BY DEF RedisState

\* A reservation keeps the Redis data set well formed.
LEMMA ReservedType ==
    ASSUME NEW r \in RedisState, NEW o \in OrderIds, r.stock[VoucherOf[o]] > 0
    PROVE  Reserved(r, o) \in RedisState
<1>1. [r.stock EXCEPT ![VoucherOf[o]] = @ - 1] \in [Vouchers -> Nat]
  BY RedisFields, SlotType
<1>2. [r.buyers EXCEPT ![Slot(o)] = o] \in [Slots -> OrderIds \cup {None}]
  BY RedisFields, SlotType
<1>3. [r.status EXCEPT ![o] = "pending"] \in [OrderIds -> OrderStates]
  BY RedisFields DEF OrderStates
<1>4. r.stream \cup {o} \subseteq Messages /\ r.fresh \cup {o} \subseteq Messages
  BY RedisFields DEF Messages
<1> QED
  BY <1>1, <1>2, <1>3, <1>4 DEF Reserved, RedisState

\* An acknowledgement keeps the Redis data set well formed.
LEMMA AckedType ==
    ASSUME NEW r \in RedisState, NEW m
    PROVE  Acked(r, m) \in RedisState
BY DEF Acked, RedisState

\* A delivery keeps the Redis data set well formed.
LEMMA DeliveredType ==
    ASSUME NEW r \in RedisState, NEW S \in SUBSET r.fresh
    PROVE  Delivered(r, S) \in RedisState
<1>1. r.fresh \ S \subseteq Messages /\ r.pel \cup S \subseteq Messages
  BY RedisFields
<1> QED
  BY <1>1 DEF Delivered, RedisState

\* finish.lua keeps the Redis data set well formed.
LEMMA FinishedType ==
    ASSUME NEW r \in RedisState, NEW o
    PROVE  Finished(r, o) \in RedisState
BY DEF Finished, Acked, RedisState, OrderStates

\* A compensation keeps the Redis data set well formed.
LEMMA CompensatedType ==
    ASSUME NEW r \in RedisState, NEW o \in OrderIds,
           NEW other \in OrderIds \cup {None}
    PROVE  Compensated(r, o, other) \in RedisState
<1>1. [r.stock EXCEPT ![VoucherOf[o]] = @ + 1] \in [Vouchers -> Nat]
  BY RedisFields, SlotType
<1>2. [r.buyers EXCEPT ![Slot(o)] = other] \in [Slots -> OrderIds \cup {None}]
  BY RedisFields, SlotType
<1>3. [r.status EXCEPT ![o] = "failed"] \in [OrderIds -> OrderStates]
  BY RedisFields DEF OrderStates
<1>4. [r.dead EXCEPT ![o] = @ + 1] \in [Messages -> Nat] /\ r.pel \ {o} \subseteq Messages
  BY RedisFields DEF Messages
<1> QED
  BY <1>1, <1>2, <1>3, <1>4 DEF Compensated, Acked, RedisState

\* quarantine.lua keeps the Redis data set well formed.
LEMMA QuarantinedType ==
    ASSUME NEW r \in RedisState, NEW g \in Messages
    PROVE  Quarantined(r, g) \in RedisState
<1>1. [r.dead EXCEPT ![g] = @ + 1] \in [Messages -> Nat] /\ r.pel \ {g} \subseteq Messages
  BY RedisFields
<1> QED
  BY <1>1 DEF Quarantined, Acked, RedisState

\* What a consumer, or a call it left behind, is about: scripts for orders
\* are called with orders, quarantine.lua with malformed messages.
OrderOps == {"finish", "reject", "ack"}

RoutedCall(call) ==
    /\ call.op \in OrderOps => call.msg \in OrderIds
    /\ call.op = "quarantine" => call.msg \in Garbage

Routed ==
    /\ \A c \in Consumers :
          /\ pc[c] \in {"create", "write", "recheckId", "recheckPair"} => cur[c] \in OrderIds
          /\ pc[c] \in ScriptOps => RoutedCall(CallOf(c))
    /\ \A call \in late : RoutedCall(call)

\* Every script keeps the Redis data set well formed.
LEMMA ScriptType ==
    ASSUME NEW r \in RedisState, NEW call \in Calls, RoutedCall(call)
    PROVE  RunScript(r, call) \in RedisState
<1>0. call.op \in ScriptOps /\ call.msg \in Messages /\ call.existing \in OrderIds \cup {None}
  BY DEF Calls
<1>1. CASE call.op = "finish"
  BY <1>1, FinishedType DEF RunScript
<1>2. CASE call.op = "reject"
  <2>1. call.msg \in OrderIds
    BY <1>2 DEF RoutedCall, OrderOps
  <2>2. Compensated(r, call.msg, call.existing) \in RedisState
    BY <1>0, <2>1, CompensatedType
  <2>3. Acked(r, call.msg) \in RedisState
    BY AckedType
  <2>4. Rejected(r, call.msg, call.existing) \in RedisState
    BY <2>2, <2>3 DEF Rejected
  <2> QED
    BY <1>2, <2>4 DEF RunScript
<1>3. CASE call.op = "ack"
  BY <1>3, AckedType DEF RunScript
<1>4. CASE call.op = "quarantine"
  BY <1>0, <1>4, QuarantinedType DEF RunScript
<1> QED
  BY <1>0, <1>1, <1>2, <1>3, <1>4 DEF ScriptOps

\* Warmed campaigns are well formed.
LEMMA EmptyType == EmptyRedis \in RedisState
BY ConstantsAssumption
   DEF ConstantsAssumption, EmptyRedis, RedisState, Messages, OrderStates

\* The initial state has the types of TypeOK, and no consumer is at work.
LEMMA TypedInit == Init => TypeOK /\ Routed
BY EmptyType, ConstantsAssumption
   DEF Init, TypeOK, Routed, ConstantsAssumption, Locations, ScriptOps, Messages

\* A consumer that turns to its next message forgets the last one.
LEMMA DoneTyped ==
    ASSUME TypeOK, Routed, NEW c \in Consumers, Done(c)
    PROVE  /\ pc' \in [Consumers -> Locations]
           /\ cur' \in [Consumers -> Messages \cup {None}]
           /\ cause' \in [Consumers -> {"none", "stock", "dup"}]
           /\ existing' \in [Consumers -> OrderIds \cup {None}]
           /\ \A d \in Consumers :
                 /\ pc'[d] \in {"create", "write", "recheckId", "recheckPair"} => cur'[d] \in OrderIds
                 /\ pc'[d] \in ScriptOps => RoutedCall(CallOf(d))'
<1>1. /\ pc' \in [Consumers -> Locations]
      /\ cur' \in [Consumers -> Messages \cup {None}]
      /\ cause' \in [Consumers -> {"none", "stock", "dup"}]
      /\ existing' \in [Consumers -> OrderIds \cup {None}]
  BY DEF TypeOK, Done, Locations
<1>2. ASSUME NEW d \in Consumers
      PROVE  /\ pc'[d] \in {"create", "write", "recheckId", "recheckPair"} => cur'[d] \in OrderIds
             /\ pc'[d] \in ScriptOps => RoutedCall(CallOf(d))'
  <2>1. CASE d = c
    BY <2>1 DEF TypeOK, Done, ScriptOps
  <2>2. CASE d # c
    BY <2>2 DEF TypeOK, Routed, Done, RoutedCall, CallOf
  <2> QED
    BY <2>1, <2>2
<1> QED
  BY <1>1, <1>2

\* A call left behind is about what the consumer was working on.
LEMMA LeftBehindTyped ==
    ASSUME TypeOK, Routed, NEW c \in Consumers, LeaveBehind(c)
    PROVE  late' \subseteq Calls /\ \A call \in late' : RoutedCall(call)
<1>1. CASE pc[c] \in ScriptOps
  <2>1. RoutedCall(CallOf(c))
    BY <1>1 DEF Routed
  <2>2. cur[c] \in Messages
    BY <1>1, <2>1 DEF RoutedCall, CallOf, ScriptOps, OrderOps, Messages
  <2>3. CallOf(c) \in Calls
    BY <1>1, <2>2 DEF CallOf, Calls, TypeOK
  <2> QED
    BY <1>1, <2>1, <2>3 DEF LeaveBehind, TypeOK, Routed
<1>2. CASE pc[c] \notin ScriptOps
  BY <1>2 DEF LeaveBehind, TypeOK, Routed
<1> QED
  BY <1>1, <1>2

\* The call a consumer is about to make is well formed.
LEMMA CallTyped ==
    ASSUME TypeOK, Routed, NEW c \in Consumers, pc[c] \in ScriptOps
    PROVE  CallOf(c) \in Calls /\ RoutedCall(CallOf(c))
<1>1. RoutedCall(CallOf(c))
  BY DEF Routed
<1>2. cur[c] \in Messages
  BY <1>1 DEF RoutedCall, CallOf, ScriptOps, OrderOps, Messages
<1> QED
  BY <1>1, <1>2 DEF CallOf, Calls, TypeOK

\* Every step keeps the types, and keeps scripts and messages matched.
LEMMA TypedStep == TypeOK /\ Routed /\ [Next]_vars => TypeOK' /\ Routed'
<1> SUFFICES ASSUME TypeOK, Routed, [Next]_vars
             PROVE  TypeOK' /\ Routed'
  OBVIOUS
<1>1. CASE UNCHANGED vars
  BY <1>1 DEF vars, TypeOK, Routed, RoutedCall, CallOf
<1>2. ASSUME NEW o \in OrderIds, Request(o) \/ GiveUp(o)
      PROVE  TypeOK' /\ Routed'
  BY <1>2 DEF Request, GiveUp, TypeOK, Routed, RoutedCall, CallOf,
              redisVars, dbVars, workerVars
<1>3. ASSUME NEW o \in OrderIds, Reserve(o) PROVE TypeOK' /\ Routed'
  <2>1. redis' \in RedisState
    BY <1>3, ReservedType DEF Reserve, Admits, TypeOK
  <2>2. PICK now \in Windows :
           \/ /\ req' = [req EXCEPT ![o] = Answer(redis, o, now)]
              /\ inflight' = inflight \ {o}
           \/ UNCHANGED clientVars
    BY <1>3 DEF Reserve
  <2>3. Answer(redis, o, now) \in {"ok", "refused", "error"}
    BY DEF Answer
  <2>4. req' \in [OrderIds -> {"idle", "sent", "ok", "refused", "error"}] /\ inflight' \subseteq OrderIds
    <3>1. CASE UNCHANGED clientVars
      BY <3>1 DEF TypeOK, clientVars
    <3>2. CASE req' = [req EXCEPT ![o] = Answer(redis, o, now)] /\ inflight' = inflight \ {o}
      BY <2>3, <3>2 DEF TypeOK
    <3> QED
      BY <2>2, <3>1, <3>2
  <2> QED
    BY <1>3, <2>1, <2>4 DEF Reserve, TypeOK, Routed, RoutedCall, CallOf, dbVars, workerVars
<1>4. ASSUME NEW c \in Consumers, Claim(c) PROVE TypeOK' /\ Routed'
  <2>1. redis.pel \subseteq Messages
    BY RedisFields DEF TypeOK
  <2> QED
    BY <1>4, <2>1 DEF Claim, TypeOK, Routed, RoutedCall, CallOf, redisVars, dbVars, clientVars
<1>5. ASSUME NEW c \in Consumers, Read(c) PROVE TypeOK' /\ Routed'
  <2>1. redis.fresh \subseteq Messages
    BY RedisFields DEF TypeOK
  <2>2. redis' \in RedisState
    BY <1>5, DeliveredType DEF Read, TypeOK
  <2>3. batch' \in [Consumers -> SUBSET Messages] /\ turn' \in [Consumers -> {"claim", "read"}]
    BY <1>5, <2>1 DEF Read, TypeOK
  <2> QED
    BY <1>5, <2>2, <2>3 DEF Read, TypeOK, Routed, RoutedCall, CallOf, dbVars, clientVars
<1>6. ASSUME NEW c \in Consumers, Pick(c) PROVE TypeOK' /\ Routed'
  <2>1. PICK m \in batch[c] :
           /\ cur' = [cur EXCEPT ![c] = m]
           /\ batch' = [batch EXCEPT ![c] = @ \ {m}]
           /\ pc' = [pc EXCEPT ![c] = Route(m)]
    BY <1>6 DEF Pick
  <2>2. m \in Messages
    BY DEF TypeOK
  <2>3. Route(m) \in {"quarantine", "ack", "create"}
    BY DEF Route
  <2>4. /\ Route(m) = "quarantine" => m \in Garbage
        /\ Route(m) # "quarantine" => m \in OrderIds
    BY <2>2 DEF Route, Messages
  <2>5. TypeOK'
    BY <1>6, <2>1, <2>2, <2>3 DEF Pick, TypeOK, redisVars, dbVars, clientVars, Locations, ScriptOps
  <2>6. ASSUME NEW d \in Consumers
        PROVE  /\ pc'[d] \in {"create", "write", "recheckId", "recheckPair"} => cur'[d] \in OrderIds
               /\ pc'[d] \in ScriptOps => RoutedCall(CallOf(d))'
    <3>1. CASE d = c
      BY <2>1, <2>3, <2>4, <3>1 DEF TypeOK, RoutedCall, CallOf, OrderOps
    <3>2. CASE d # c
      BY <1>6, <2>1, <3>2 DEF Pick, TypeOK, Routed, RoutedCall, CallOf
    <3> QED
      BY <3>1, <3>2
  <2>7. \A call \in late' : RoutedCall(call)
    BY <1>6 DEF Pick, Routed
  <2> QED
    BY <2>5, <2>6, <2>7 DEF Routed
<1>7. ASSUME NEW c \in Consumers, Create(c) PROVE TypeOK' /\ Routed'
  <2>1. cur[c] \in OrderIds
    BY <1>7 DEF Create, Routed
  <2>2. TypeOK'
    BY <1>7 DEF Create, RejectFor, OthersOfPair, TypeOK, redisVars, dbVars, clientVars, Locations, ScriptOps
  <2>3. pc'[c] \in {"finish", "reject", "write"} /\ cur' = cur
    BY <1>7 DEF Create, RejectFor, TypeOK
  <2>4. ASSUME NEW d \in Consumers
        PROVE  /\ pc'[d] \in {"create", "write", "recheckId", "recheckPair"} => cur'[d] \in OrderIds
               /\ pc'[d] \in ScriptOps => RoutedCall(CallOf(d))'
    <3>1. CASE d = c
      BY <2>1, <2>3, <3>1 DEF RoutedCall, CallOf
    <3>2. CASE d # c
      BY <1>7, <3>2 DEF Create, RejectFor, TypeOK, Routed, RoutedCall, CallOf
    <3> QED
      BY <3>1, <3>2
  <2> QED
    BY <1>7, <2>2, <2>4 DEF Create, Routed
<1>8. ASSUME NEW c \in Consumers,
             Write(c) \/ WriteUnknown(c) \/ WriteRefused(c) \/ RecheckId(c) \/ RecheckPair(c)
      PROVE  TypeOK' /\ Routed'
  <2>1. cur[c] \in OrderIds
    BY <1>8 DEF Write, WriteUnknown, WriteRefused, RecheckId, RecheckPair, Routed
  <2>2. ASSUME Insert(cur[c])
        PROVE  dbStock' \in [Vouchers -> Nat] /\ orders' \subseteq OrderIds
    BY <2>1, <2>2, SlotType DEF Insert, Insertable, TypeOK
  <2>3. CASE WriteUnknown(c)
    <3>1. TypeOK'
      BY <2>2, <2>3, DoneTyped DEF WriteUnknown, TypeOK, redisVars, clientVars
    <3> QED
      BY <2>3, <3>1, DoneTyped DEF WriteUnknown, Routed
  <2>4. CASE Write(c) \/ WriteRefused(c) \/ RecheckId(c) \/ RecheckPair(c)
    <3>1. /\ redisVars' = redisVars /\ clientVars' = clientVars /\ late' = late
          /\ turn' = turn /\ batch' = batch /\ cur' = cur
      BY <2>4 DEF Write, WriteRefused, RecheckId, RecheckPair
    <3>2. dbStock' \in [Vouchers -> Nat] /\ orders' \subseteq OrderIds
      BY <2>2, <2>4 DEF Write, WriteRefused, RecheckId, RecheckPair, TypeOK, dbVars
    <3>3. /\ cause' \in [Consumers -> {"none", "stock", "dup"}]
          /\ existing' \in [Consumers -> OrderIds \cup {None}]
      BY <2>4 DEF Write, WriteRefused, RecheckId, RecheckPair, RejectFor, OthersOfPair, TypeOK
    <3>4. PICK l \in {"finish", "recheckId", "recheckPair", "reject"} : pc' = [pc EXCEPT ![c] = l]
      BY <2>4 DEF Write, WriteRefused, RecheckId, RecheckPair, RejectFor
    <3>5. TypeOK'
      BY <3>1, <3>2, <3>3, <3>4 DEF TypeOK, redisVars, clientVars, Locations, ScriptOps
    <3>6. ASSUME NEW d \in Consumers
          PROVE  /\ pc'[d] \in {"create", "write", "recheckId", "recheckPair"} => cur'[d] \in OrderIds
                 /\ pc'[d] \in ScriptOps => RoutedCall(CallOf(d))'
      <4>1. CASE d = c
        BY <2>1, <3>1, <3>4, <4>1 DEF TypeOK, RoutedCall, CallOf
      <4>2. CASE d # c
        BY <3>1, <3>4, <4>2 DEF TypeOK, Routed, RoutedCall, CallOf
      <4> QED
        BY <4>1, <4>2
    <3> QED
      BY <3>1, <3>5, <3>6 DEF Routed
  <2> QED
    BY <1>8, <2>3, <2>4
<1>9. ASSUME NEW c \in Consumers, CallScript(c) PROVE TypeOK' /\ Routed'
  <2>1. redis' \in RedisState
    BY <1>9, CallTyped, ScriptType DEF CallScript, TypeOK
  <2>2. TypeOK'
    BY <1>9, <2>1, DoneTyped DEF CallScript, TypeOK, dbVars, clientVars
  <2> QED
    BY <1>9, <2>2, DoneTyped DEF CallScript, Routed
<1>10. ASSUME NEW c \in Consumers, Abandon(c) \/ Restart(c) PROVE TypeOK' /\ Routed'
  <2>1. Done(c) /\ LeaveBehind(c)
    BY <1>10 DEF Abandon, Restart
  <2>2. /\ batch' \in [Consumers -> SUBSET Messages] /\ turn' \in [Consumers -> {"claim", "read"}]
        /\ redisVars' = redisVars /\ dbVars' = dbVars /\ clientVars' = clientVars
    BY <1>10 DEF Abandon, Restart, TypeOK
  <2>3. TypeOK'
    BY <2>1, <2>2, DoneTyped, LeftBehindTyped DEF TypeOK, redisVars, dbVars, clientVars
  <2> QED
    BY <2>1, <2>3, DoneTyped, LeftBehindTyped DEF Routed
<1>11. CASE LateCall
  <2>1. redis' \in RedisState
    BY <1>11, ScriptType DEF LateCall, TypeOK, Routed
  <2> QED
    BY <1>11, <2>1 DEF LateCall, TypeOK, Routed, RoutedCall, CallOf, dbVars, clientVars, workerVars
<1>12. CASE Persist
  BY <1>12 DEF Persist, TypeOK, Routed, RoutedCall, CallOf, dbVars, clientVars, workerVars
<1>13. CASE RedisCrash
  <2>1. crashes' \in 0..MaxRedisCrash
    BY <1>13, ConstantsAssumption DEF RedisCrash, TypeOK, ConstantsAssumption
  <2>2. req' \in [OrderIds -> {"idle", "sent", "ok", "refused", "error"}]
    BY <1>13 DEF RedisCrash, TypeOK
  <2> QED
    BY <1>13, <2>1, <2>2 DEF RedisCrash, TypeOK, Routed, RoutedCall, CallOf, dbVars, workerVars
<1> QED
  BY <1>1, <1>2, <1>3, <1>4, <1>5, <1>6, <1>7, <1>8, <1>9, <1>10, <1>11, <1>12, <1>13
  DEF Next, Consume

\* TypeOK is an invariant of the flash sale.
THEOREM TypeCorrect == Spec => [](TypeOK /\ Routed)
<1> QED
  BY TypedInit, TypedStep, PTL DEF Spec

-----------------------------------------------------------------------------
(* The inductive invariant, stated over the committed orders S, the MySQL   *)
(* stock d and a Redis data set r.                                          *)

Beaten(o, S, d) ==
    /\ o \notin S
    /\ d[VoucherOf[o]] = 0 \/ \E p \in S : p # o /\ Slot(p) = Slot(o)

SalesOK(S, d) ==
    /\ \A o, p \in S : Slot(o) = Slot(p) => o = p
    /\ \A v \in Vouchers : d[v] + Cardinality(OfVoucher(S, v)) = InitialStock[v]

VerdictsOK(r, S, d) ==
    \A o \in OrderIds :
        /\ r.status[o] = "created" => o \in S
        /\ r.status[o] = "failed" => Beaten(o, S, d)

ReservationsOK(r) ==
    /\ \A o \in Accepted(r) : r.status[o] # "none"
    /\ \A o \in OrderIds : r.status[o] = "pending" => o \in r.stream
    /\ \A o \in Live(r) : r.buyers[Slot(o)] = o
    /\ \A v \in Vouchers :
          r.stock[v] + Cardinality(OfVoucher(Live(r), v)) = InitialStock[v]

QueueOK(r) ==
    /\ r.fresh \subseteq r.stream
    /\ r.pel \subseteq r.stream
    /\ r.fresh \cap r.pel = {}
    /\ \A o \in OrderIds : r.dead[o] = IF r.status[o] = "failed" THEN 1 ELSE 0
    /\ \A g \in Garbage :
          r.dead[g] \in {0, 1} /\ (g \in r.fresh \cup r.pel => r.dead[g] = 0)

RedisOK(r, S, d) == VerdictsOK(r, S, d) /\ ReservationsOK(r) /\ QueueOK(r)

CallOK(call, S, d) ==
    /\ call.op = "finish" => call.msg \in S
    /\ call.op = "reject" => Beaten(call.msg, S, d)

\* A consumer at location l with message m and refusal w.
ConsumerOK(l, m, w, S, d) ==
    /\ l \in {"recheckId", "recheckPair"} /\ w = "stock" => d[VoucherOf[m]] = 0
    /\ l = "recheckPair" /\ w = "stock" => m \notin S

\* What the consumers and the calls left behind know.
Knowledge ==
    /\ \A call \in late : CallOK(call, orders, dbStock)
    /\ \A c \in Consumers :
          /\ pc[c] \in ScriptOps => CallOK(CallOf(c), orders, dbStock)
          /\ ConsumerOK(pc[c], cur[c], cause[c], orders, dbStock)

IInv ==
    /\ SalesOK(orders, dbStock)
    /\ RedisOK(redis, orders, dbStock)
    /\ RedisOK(saved, orders, dbStock)
    /\ Knowledge

-----------------------------------------------------------------------------
(* A commit *)

\* What OrderCreate's UPDATE and INSERT require, over S and d.
Fits(o, S, d) ==
    /\ d[VoucherOf[o]] > 0
    /\ o \notin S
    /\ \A p \in S : Slot(p) # Slot(o)

\* Adding one element of a campaign to a finite set of orders adds one to
\* what that campaign counts and leaves the other campaigns alone.
LEMMA CountAdd ==
    ASSUME NEW S \in SUBSET OrderIds, NEW o \in OrderIds, o \notin S, NEW v \in Vouchers
    PROVE  /\ Cardinality(OfVoucher(S, v)) \in Nat
           /\ Cardinality(OfVoucher(S \cup {o}, v)) =
                 Cardinality(OfVoucher(S, v)) + (IF VoucherOf[o] = v THEN 1 ELSE 0)
<1>1. IsFiniteSet(OfVoucher(S, v))
  BY ConstantsAssumption, FS_Subset DEF ConstantsAssumption, OfVoucher
<1>2. CASE VoucherOf[o] = v
  <2>1. OfVoucher(S \cup {o}, v) = OfVoucher(S, v) \cup {o} /\ o \notin OfVoucher(S, v)
    BY <1>2 DEF OfVoucher
  <2> QED
    BY <1>1, <1>2, <2>1, FS_AddElement, FS_CardinalityType
<1>3. CASE VoucherOf[o] # v
  <2>1. OfVoucher(S \cup {o}, v) = OfVoucher(S, v)
    BY <1>3 DEF OfVoucher
  <2> QED
    BY <1>1, <1>3, <2>1, FS_CardinalityType
<1> QED
  BY <1>2, <1>3

\* The commit of a fitting order keeps the books of MySQL.
LEMMA CommitSales ==
    ASSUME NEW S \in SUBSET OrderIds, NEW d \in [Vouchers -> Nat],
           NEW o \in OrderIds, Fits(o, S, d), SalesOK(S, d)
    PROVE  SalesOK(S \cup {o}, [d EXCEPT ![VoucherOf[o]] = @ - 1])
<1> DEFINE T == S \cup {o}
           e == [d EXCEPT ![VoucherOf[o]] = @ - 1]
<1>1. \A p, q \in T : Slot(p) = Slot(q) => p = q
  BY DEF Fits, SalesOK
<1>2. ASSUME NEW v \in Vouchers
      PROVE  e[v] + Cardinality(OfVoucher(T, v)) = InitialStock[v]
  <2>1. d[v] + Cardinality(OfVoucher(S, v)) = InitialStock[v] /\ d[v] \in Nat
    BY DEF SalesOK
  <2>2. /\ Cardinality(OfVoucher(S, v)) \in Nat
        /\ Cardinality(OfVoucher(T, v)) =
              Cardinality(OfVoucher(S, v)) + (IF VoucherOf[o] = v THEN 1 ELSE 0)
    BY CountAdd DEF Fits
  <2>3. e[v] = d[v] - (IF VoucherOf[o] = v THEN 1 ELSE 0)
    OBVIOUS
  <2> QED
    BY <2>1, <2>2, <2>3
<1> QED
  BY <1>1, <1>2 DEF SalesOK

\* A beaten order stays beaten when another order commits.
LEMMA CommitBeaten ==
    ASSUME NEW S \in SUBSET OrderIds, NEW d \in [Vouchers -> Nat],
           NEW o \in OrderIds, Fits(o, S, d), NEW p \in OrderIds, Beaten(p, S, d)
    PROVE  Beaten(p, S \cup {o}, [d EXCEPT ![VoucherOf[o]] = @ - 1])
<1>1. p # o
  BY DEF Fits, Beaten
<1>2. CASE d[VoucherOf[p]] = 0
  <2>1. VoucherOf[p] # VoucherOf[o] /\ VoucherOf[p] \in Vouchers
    BY <1>2, SlotType DEF Fits
  <2> QED
    BY <1>1, <1>2, <2>1 DEF Beaten
<1>3. CASE \E q \in S : q # p /\ Slot(q) = Slot(p)
  BY <1>1, <1>3 DEF Beaten
<1> QED
  BY <1>2, <1>3 DEF Beaten

\* What Redis says stays true when another order commits.
LEMMA CommitRedis ==
    ASSUME NEW S \in SUBSET OrderIds, NEW d \in [Vouchers -> Nat],
           NEW o \in OrderIds, Fits(o, S, d), NEW r, RedisOK(r, S, d)
    PROVE  RedisOK(r, S \cup {o}, [d EXCEPT ![VoucherOf[o]] = @ - 1])
BY CommitBeaten DEF RedisOK, VerdictsOK

-----------------------------------------------------------------------------
(* The scripts *)

\* Taking one element of a campaign out of a finite set of orders takes one
\* off what that campaign counts.
LEMMA CountRemove ==
    ASSUME NEW S \in SUBSET OrderIds, NEW o \in S, NEW v \in Vouchers
    PROVE  /\ Cardinality(OfVoucher(S \ {o}, v)) \in Nat
           /\ Cardinality(OfVoucher(S, v)) =
                 Cardinality(OfVoucher(S \ {o}, v)) + (IF VoucherOf[o] = v THEN 1 ELSE 0)
<1> DEFINE T == S \ {o}
<1>1. T \in SUBSET OrderIds /\ o \in OrderIds /\ o \notin T /\ T \cup {o} = S
  OBVIOUS
<1> HIDE DEF T
<1>2. /\ Cardinality(OfVoucher(T, v)) \in Nat
      /\ Cardinality(OfVoucher(T \cup {o}, v)) =
            Cardinality(OfVoucher(T, v)) + (IF VoucherOf[o] = v THEN 1 ELSE 0)
  BY <1>1, CountAdd
<1> QED
  BY <1>1, <1>2 DEF T

\* An attempt that seckill.lua admits keeps the reservations in order.
LEMMA ReservedReservations ==
    ASSUME NEW r \in RedisState, NEW o \in OrderIds, NEW now, Admits(r, o, now),
           ReservationsOK(r)
    PROVE  ReservationsOK(Reserved(r, o))
<1> DEFINE s == Reserved(r, o)
<1> /\ r.status \in [OrderIds -> OrderStates] /\ r.stock \in [Vouchers -> Nat]
    /\ r.buyers \in [Slots -> OrderIds \cup {None}]
  BY RedisFields
<1>1. /\ s.stock = [r.stock EXCEPT ![VoucherOf[o]] = @ - 1]
      /\ s.buyers = [r.buyers EXCEPT ![Slot(o)] = o]
      /\ s.status = [r.status EXCEPT ![o] = "pending"]
      /\ s.stream = r.stream \cup {o}
  BY ReservedFields
<1> HIDE DEF s
<1>2. o \notin Accepted(r)
  BY DEF Admits, ReservationsOK
<1>3. Live(s) = Live(r) \cup {o} /\ o \notin Live(r) /\ Live(r) \in SUBSET OrderIds
  BY <1>1, <1>2 DEF Live, Accepted, Failed
<1>4. \A p \in Live(r) : Slot(p) # Slot(o)
  BY ConstantsAssumption DEF ConstantsAssumption, Admits, ReservationsOK, Live, Accepted
<1>5. \A p \in Accepted(s) : s.status[p] # "none"
  BY <1>1 DEF Accepted, ReservationsOK
<1>6. \A p \in OrderIds : s.status[p] = "pending" => p \in s.stream
  BY <1>1 DEF ReservationsOK
<1>7. \A p \in Live(s) : s.buyers[Slot(p)] = p
  BY <1>1, <1>3, <1>4, SlotType DEF ReservationsOK
<1>8. ASSUME NEW v \in Vouchers
      PROVE  s.stock[v] + Cardinality(OfVoucher(Live(s), v)) = InitialStock[v]
  <2>1. r.stock[v] + Cardinality(OfVoucher(Live(r), v)) = InitialStock[v]
    BY DEF ReservationsOK
  <2>2. /\ Cardinality(OfVoucher(Live(r), v)) \in Nat
        /\ Cardinality(OfVoucher(Live(s), v)) =
              Cardinality(OfVoucher(Live(r), v)) + (IF VoucherOf[o] = v THEN 1 ELSE 0)
    BY <1>3, CountAdd
  <2>3. s.stock[v] = r.stock[v] - (IF VoucherOf[o] = v THEN 1 ELSE 0) /\ r.stock[v] \in Nat
    BY <1>1
  <2> QED
    BY <2>1, <2>2, <2>3
<1>9. ReservationsOK(s)
  BY <1>5, <1>6, <1>7, <1>8 DEF ReservationsOK
<1> QED
  BY <1>9 DEF s

\* seckill.lua keeps the Redis data set in order.
LEMMA ReservedOK ==
    ASSUME NEW S, NEW d, NEW r \in RedisState, NEW o \in OrderIds, NEW now,
           Admits(r, o, now), RedisOK(r, S, d)
    PROVE  RedisOK(Reserved(r, o), S, d)
<1> DEFINE s == Reserved(r, o)
<1> r.status \in [OrderIds -> OrderStates] /\ r.dead \in [Messages -> Nat]
  BY RedisFields
<1>1. /\ s.status = [r.status EXCEPT ![o] = "pending"]
      /\ s.stream = r.stream \cup {o}
      /\ s.fresh = r.fresh \cup {o} /\ s.pel = r.pel /\ s.dead = r.dead
  BY ReservedFields
<1>2. ReservationsOK(s)
  BY ReservedReservations DEF RedisOK
<1> HIDE DEF s
<1>3. o \notin r.stream
  BY DEF Admits, RedisOK, ReservationsOK, Accepted
<1>4. VerdictsOK(s, S, d)
  BY <1>1 DEF RedisOK, VerdictsOK
<1>5. QueueOK(s)
  BY <1>1, <1>3, ConstantsAssumption DEF RedisOK, QueueOK, Admits, ConstantsAssumption
<1>6. RedisOK(s, S, d)
  BY <1>2, <1>4, <1>5 DEF RedisOK
<1> QED
  BY <1>6 DEF s

\* An acknowledgement keeps the Redis data set in order.
LEMMA AckedOK ==
    ASSUME NEW S, NEW d, NEW r \in RedisState, NEW m, RedisOK(r, S, d)
    PROVE  RedisOK(Acked(r, m), S, d)
<1> DEFINE s == Acked(r, m)
<1>1. /\ s.stock = r.stock /\ s.buyers = r.buyers /\ s.status = r.status
      /\ s.stream = r.stream /\ s.fresh = r.fresh
      /\ s.pel = r.pel \ {m} /\ s.dead = r.dead
  BY DEF Acked, RedisState
<1> HIDE DEF s
<1>2. VerdictsOK(s, S, d)
  BY <1>1 DEF RedisOK, VerdictsOK
<1>3. ReservationsOK(s)
  BY <1>1 DEF RedisOK, ReservationsOK, Live, Accepted, Failed
<1>4. QueueOK(s)
  BY <1>1 DEF RedisOK, QueueOK
<1>5. RedisOK(s, S, d)
  BY <1>2, <1>3, <1>4 DEF RedisOK
<1> QED
  BY <1>5 DEF s

\* A delivery keeps the Redis data set in order.
LEMMA DeliveredOK ==
    ASSUME NEW S, NEW d, NEW r \in RedisState, NEW D \in SUBSET r.fresh, RedisOK(r, S, d)
    PROVE  RedisOK(Delivered(r, D), S, d)
<1> DEFINE s == Delivered(r, D)
<1>1. /\ s.stock = r.stock /\ s.buyers = r.buyers /\ s.status = r.status
      /\ s.stream = r.stream /\ s.fresh = r.fresh \ D
      /\ s.pel = r.pel \cup D /\ s.dead = r.dead
  BY DEF Delivered, RedisState
<1> HIDE DEF s
<1>2. VerdictsOK(s, S, d)
  BY <1>1 DEF RedisOK, VerdictsOK
<1>3. ReservationsOK(s)
  BY <1>1 DEF RedisOK, ReservationsOK, Live, Accepted, Failed
<1>4. QueueOK(s)
  BY <1>1 DEF RedisOK, QueueOK
<1>5. RedisOK(s, S, d)
  BY <1>2, <1>3, <1>4 DEF RedisOK
<1> QED
  BY <1>5 DEF s

\* finish.lua for a committed order keeps the Redis data set in order.
LEMMA FinishedOK ==
    ASSUME NEW S, NEW d, NEW r \in RedisState, NEW o \in OrderIds, o \in S, RedisOK(r, S, d)
    PROVE  RedisOK(Finished(r, o), S, d)
<1> DEFINE s == [r EXCEPT !.status[o] = "created"]
<1>0. s \in RedisState
  BY DEF RedisState, OrderStates
<1> r.status \in [OrderIds -> OrderStates] /\ r.stock \in [Vouchers -> Nat]
  BY RedisFields
<1>1. /\ s.stock = r.stock /\ s.buyers = r.buyers
      /\ s.status = [r.status EXCEPT ![o] = "created"]
      /\ s.stream = r.stream /\ s.fresh = r.fresh /\ s.pel = r.pel /\ s.dead = r.dead
  BY DEF RedisState
<1> HIDE DEF s
<1>2. r.status[o] # "failed"
  BY DEF RedisOK, VerdictsOK, Beaten
<1>3. VerdictsOK(s, S, d)
  BY <1>1 DEF RedisOK, VerdictsOK
<1>4. Live(s) = Live(r) /\ Accepted(s) = Accepted(r)
  BY <1>1, <1>2 DEF Live, Accepted, Failed
<1>5. ReservationsOK(s)
  BY <1>1, <1>4 DEF RedisOK, ReservationsOK, Accepted
<1>6. QueueOK(s)
  BY <1>1, <1>2 DEF RedisOK, QueueOK
<1>7. RedisOK(s, S, d)
  BY <1>3, <1>5, <1>6 DEF RedisOK
<1>8. RedisOK(Acked(s, o), S, d)
  BY <1>0, <1>7, AckedOK
<1> QED
  BY <1>8 DEF s, Finished

\* reject.lua, when it compensates, keeps the reservations in order.  The
\* slot it frees or hands to another order is of no live reservation.
LEMMA CompensatedReservations ==
    ASSUME NEW r \in RedisState, NEW o \in OrderIds,
           NEW other \in OrderIds \cup {None}, Compensates(r, o), ReservationsOK(r)
    PROVE  ReservationsOK(Compensated(r, o, other))
<1> DEFINE s == Compensated(r, o, other)
<1> /\ r.status \in [OrderIds -> OrderStates] /\ r.stock \in [Vouchers -> Nat]
    /\ r.buyers \in [Slots -> OrderIds \cup {None}]
  BY RedisFields
<1>1. /\ s.stock = [r.stock EXCEPT ![VoucherOf[o]] = @ + 1]
      /\ s.buyers = [r.buyers EXCEPT ![Slot(o)] = other]
      /\ s.status = [r.status EXCEPT ![o] = "failed"]
      /\ s.stream = r.stream
  BY DEF Compensated, Acked, RedisState
<1> HIDE DEF s
<1>2. r.status[o] = "pending" /\ r.buyers[Slot(o)] = o
  BY DEF Compensates
<1>3. /\ o \in Live(r) /\ Live(r) \in SUBSET OrderIds
      /\ Live(s) = Live(r) \ {o} /\ Accepted(s) = Accepted(r)
  BY <1>1, <1>2 DEF Live, Accepted, Failed, ReservationsOK
<1>4. \A p \in Live(s) : Slot(p) # Slot(o) /\ r.buyers[Slot(p)] = p
  BY <1>2, <1>3 DEF ReservationsOK
<1>5. \A p \in Accepted(s) : s.status[p] # "none"
  BY <1>1, <1>3 DEF Accepted, ReservationsOK
<1>6. \A p \in OrderIds : s.status[p] = "pending" => p \in s.stream
  BY <1>1 DEF ReservationsOK
<1>7. \A p \in Live(s) : s.buyers[Slot(p)] = p
  BY <1>1, <1>3, <1>4, SlotType
<1>8. ASSUME NEW v \in Vouchers
      PROVE  s.stock[v] + Cardinality(OfVoucher(Live(s), v)) = InitialStock[v]
  <2>1. r.stock[v] + Cardinality(OfVoucher(Live(r), v)) = InitialStock[v]
    BY DEF ReservationsOK
  <2>2. /\ Cardinality(OfVoucher(Live(s), v)) \in Nat
        /\ Cardinality(OfVoucher(Live(r), v)) =
              Cardinality(OfVoucher(Live(s), v)) + (IF VoucherOf[o] = v THEN 1 ELSE 0)
    BY <1>3, CountRemove
  <2>3. s.stock[v] = r.stock[v] + (IF VoucherOf[o] = v THEN 1 ELSE 0) /\ r.stock[v] \in Nat
    BY <1>1
  <2> QED
    BY <2>1, <2>2, <2>3
<1>9. ReservationsOK(s)
  BY <1>5, <1>6, <1>7, <1>8 DEF ReservationsOK
<1> QED
  BY <1>9 DEF s

\* reject.lua for a beaten order keeps the Redis data set in order.
LEMMA RejectedOK ==
    ASSUME NEW S, NEW d, NEW r \in RedisState, NEW o \in OrderIds,
           NEW other \in OrderIds \cup {None}, Beaten(o, S, d), RedisOK(r, S, d)
    PROVE  RedisOK(Rejected(r, o, other), S, d)
<1>1. CASE r.status[o] \in {"failed", "created"}
  BY <1>1, AckedOK DEF Rejected
<1>2. CASE r.status[o] \notin {"failed", "created"} /\ ~Compensates(r, o)
  BY <1>2 DEF Rejected
<1>3. CASE Compensates(r, o)
  <2> DEFINE s == Compensated(r, o, other)
  <2> r.status \in [OrderIds -> OrderStates] /\ r.dead \in [Messages -> Nat]
    BY RedisFields
  <2>1. /\ s.status = [r.status EXCEPT ![o] = "failed"]
        /\ s.stream = r.stream /\ s.fresh = r.fresh
        /\ s.pel = r.pel \ {o} /\ s.dead = [r.dead EXCEPT ![o] = @ + 1]
    BY DEF Compensated, Acked, RedisState
  <2>2. ReservationsOK(s)
    BY <1>3, CompensatedReservations DEF RedisOK
  <2>3. Rejected(r, o, other) = s
    BY <1>3 DEF Rejected, Compensates
  <2> HIDE DEF s
  <2>4. VerdictsOK(s, S, d)
    BY <2>1 DEF RedisOK, VerdictsOK
  <2>5. r.dead[o] = 0
    BY <1>3 DEF RedisOK, QueueOK, Compensates
  <2>6. QueueOK(s)
    <3>1. \A p \in OrderIds : s.dead[p] = IF s.status[p] = "failed" THEN 1 ELSE 0
      BY <2>1, <2>5 DEF RedisOK, QueueOK, Messages
    <3>2. o \notin Garbage
      BY ConstantsAssumption DEF ConstantsAssumption
    <3> QED
      BY <2>1, <3>1, <3>2 DEF RedisOK, QueueOK
  <2> QED
    BY <2>2, <2>3, <2>4, <2>6 DEF RedisOK
<1> QED
  BY <1>1, <1>2, <1>3 DEF Compensates

\* quarantine.lua keeps the Redis data set in order.
LEMMA QuarantinedOK ==
    ASSUME NEW S, NEW d, NEW r \in RedisState, NEW g \in Garbage, RedisOK(r, S, d)
    PROVE  RedisOK(Quarantined(r, g), S, d)
<1> DEFINE s == Quarantined(r, g)
<1>1. CASE g \notin r.pel
  BY <1>1 DEF Quarantined
<1>2. CASE g \in r.pel
  <2> r.dead \in [Messages -> Nat] /\ g \in Messages /\ g \notin OrderIds
    BY RedisFields, ConstantsAssumption DEF Messages, ConstantsAssumption
  <2>1. /\ s.stock = r.stock /\ s.buyers = r.buyers /\ s.status = r.status
        /\ s.stream = r.stream /\ s.fresh = r.fresh
        /\ s.pel = r.pel \ {g} /\ s.dead = [r.dead EXCEPT ![g] = @ + 1]
    BY <1>2 DEF Quarantined, Acked, RedisState
  <2> HIDE DEF s
  <2>2. VerdictsOK(s, S, d)
    BY <2>1 DEF RedisOK, VerdictsOK
  <2>3. ReservationsOK(s)
    BY <2>1 DEF RedisOK, ReservationsOK, Live, Accepted, Failed
  <2>4. r.dead[g] = 0 /\ g \notin r.fresh
    BY <1>2 DEF RedisOK, QueueOK
  <2>5. QueueOK(s)
    <3>1. \A p \in OrderIds : s.dead[p] = r.dead[p]
      BY <2>1 DEF Messages
    <3>2. \A h \in Garbage : s.dead[h] = IF h = g THEN 1 ELSE r.dead[h]
      BY <2>1, <2>4 DEF Messages
    <3>3. \A h \in Garbage :
             s.dead[h] \in {0, 1} /\ (h \in s.fresh \cup s.pel => s.dead[h] = 0)
      BY <2>1, <2>4, <3>2 DEF RedisOK, QueueOK
    <3>4. \A p \in OrderIds : s.dead[p] = IF s.status[p] = "failed" THEN 1 ELSE 0
      BY <2>1, <3>1 DEF RedisOK, QueueOK
    <3> QED
      BY <2>1, <3>3, <3>4 DEF RedisOK, QueueOK
  <2>6. RedisOK(s, S, d)
    BY <2>2, <2>3, <2>5 DEF RedisOK
  <2> QED
    BY <2>6 DEF s
<1> QED
  BY <1>1, <1>2

\* Every script a consumer may call keeps the Redis data set in order.
LEMMA ScriptOK ==
    ASSUME NEW S, NEW d, NEW r \in RedisState, NEW call \in Calls,
           RoutedCall(call), CallOK(call, S, d), RedisOK(r, S, d)
    PROVE  RedisOK(RunScript(r, call), S, d)
<1>0. call.op \in ScriptOps /\ call.existing \in OrderIds \cup {None}
  BY DEF Calls
<1>1. CASE call.op = "finish"
  <2>1. call.msg \in OrderIds /\ call.msg \in S
    BY <1>1 DEF RoutedCall, OrderOps, CallOK
  <2>2. RedisOK(Finished(r, call.msg), S, d)
    BY <2>1, FinishedOK
  <2> QED
    BY <1>1, <2>2 DEF RunScript
<1>2. CASE call.op = "reject"
  <2>1. call.msg \in OrderIds /\ Beaten(call.msg, S, d)
    BY <1>2 DEF RoutedCall, OrderOps, CallOK
  <2>2. RedisOK(Rejected(r, call.msg, call.existing), S, d)
    BY <1>0, <2>1, RejectedOK
  <2> QED
    BY <1>2, <2>2 DEF RunScript
<1>3. CASE call.op = "ack"
  <2>1. RedisOK(Acked(r, call.msg), S, d)
    BY AckedOK
  <2> QED
    BY <1>3, <2>1 DEF RunScript
<1>4. CASE call.op = "quarantine"
  <2>1. call.msg \in Garbage
    BY <1>4 DEF RoutedCall
  <2>2. RedisOK(Quarantined(r, call.msg), S, d)
    BY <2>1, QuarantinedOK
  <2> QED
    BY <1>4, <2>2 DEF RunScript
<1> QED
  BY <1>0, <1>1, <1>2, <1>3, <1>4 DEF ScriptOps

-----------------------------------------------------------------------------
(* The steps *)

\* What a consumer knows stays true when another consumer commits.
LEMMA CommitCall ==
    ASSUME NEW S \in SUBSET OrderIds, NEW d \in [Vouchers -> Nat],
           NEW o \in OrderIds, Fits(o, S, d),
           NEW call, RoutedCall(call), CallOK(call, S, d)
    PROVE  CallOK(call, S \cup {o}, [d EXCEPT ![VoucherOf[o]] = @ - 1])
<1>1. CASE call.op = "reject"
  <2>1. call.msg \in OrderIds
    BY <1>1 DEF RoutedCall, OrderOps
  <2> QED
    BY <1>1, <2>1, CommitBeaten DEF CallOK
<1>2. CASE call.op # "reject"
  BY <1>2 DEF CallOK
<1> QED
  BY <1>1, <1>2

\* A sold-out campaign stays sold out.
LEMMA CommitConsumer ==
    ASSUME NEW S \in SUBSET OrderIds, NEW d \in [Vouchers -> Nat],
           NEW o \in OrderIds, Fits(o, S, d),
           NEW l, NEW m, NEW w, l \in {"recheckId", "recheckPair"} => m \in OrderIds,
           ConsumerOK(l, m, w, S, d)
    PROVE  ConsumerOK(l, m, w, S \cup {o}, [d EXCEPT ![VoucherOf[o]] = @ - 1])
<1> DEFINE e == [d EXCEPT ![VoucherOf[o]] = @ - 1]
<1> SUFFICES ASSUME l \in {"recheckId", "recheckPair"}, w = "stock"
             PROVE  e[VoucherOf[m]] = 0 /\ (l = "recheckPair" => m \notin S \cup {o})
  BY DEF ConsumerOK
<1>1. d[VoucherOf[m]] = 0 /\ VoucherOf[m] \in Vouchers
  BY SlotType DEF ConsumerOK
<1>2. VoucherOf[m] # VoucherOf[o]
  BY <1>1 DEF Fits
<1> QED
  BY <1>1, <1>2 DEF ConsumerOK

\* Insert is a commit of a fitting order.
LEMMA InsertFits ==
    ASSUME TypeOK, NEW o \in OrderIds, Insert(o)
    PROVE  /\ Fits(o, orders, dbStock)
           /\ orders' = orders \cup {o}
           /\ dbStock' = [dbStock EXCEPT ![VoucherOf[o]] = @ - 1]
BY SlotType DEF Insert, Insertable, OthersOfPair, Fits, TypeOK

\* The books, Redis and the calls left behind after a commit.
LEMMA InsertOK ==
    ASSUME TypeOK, Routed, IInv, NEW o \in OrderIds, Insert(o)
    PROVE  /\ SalesOK(orders', dbStock')
           /\ RedisOK(redis, orders', dbStock')
           /\ RedisOK(saved, orders', dbStock')
           /\ \A call \in late : CallOK(call, orders', dbStock')
           /\ \A c \in Consumers :
                 /\ pc[c] \in ScriptOps => CallOK(CallOf(c), orders', dbStock')
                 /\ ConsumerOK(pc[c], cur[c], cause[c], orders', dbStock')
<1>1. /\ Fits(o, orders, dbStock)
      /\ orders' = orders \cup {o}
      /\ dbStock' = [dbStock EXCEPT ![VoucherOf[o]] = @ - 1]
      /\ orders \in SUBSET OrderIds /\ dbStock \in [Vouchers -> Nat]
  BY InsertFits DEF TypeOK
<1>2. SalesOK(orders', dbStock')
  BY <1>1, CommitSales DEF IInv
<1>3. RedisOK(redis, orders', dbStock') /\ RedisOK(saved, orders', dbStock')
  BY <1>1, CommitRedis DEF IInv
<1>4. \A call \in late : CallOK(call, orders', dbStock')
  BY <1>1, CommitCall DEF IInv, Knowledge, Routed
<1>5. ASSUME NEW c \in Consumers
      PROVE  /\ pc[c] \in ScriptOps => CallOK(CallOf(c), orders', dbStock')
             /\ ConsumerOK(pc[c], cur[c], cause[c], orders', dbStock')
  <2>1. pc[c] \in ScriptOps => CallOK(CallOf(c), orders', dbStock')
    BY <1>1, CommitCall DEF IInv, Knowledge, Routed
  <2>2. ConsumerOK(pc[c], cur[c], cause[c], orders', dbStock')
    BY <1>1, CommitConsumer DEF IInv, Knowledge, Routed
  <2> QED
    BY <2>1, <2>2
<1> QED
  BY <1>2, <1>3, <1>4, <1>5

\* The initial state is in order.
LEMMA IInvInit == Init => IInv
<1> SUFFICES ASSUME Init PROVE IInv
  OBVIOUS
<1> EmptyRedis.dead = [m \in Messages |-> 0] /\ EmptyRedis.status = [o \in OrderIds |-> "none"]
  BY DEF EmptyRedis
<1>0. \A v \in Vouchers : OfVoucher({}, v) = {} /\ InitialStock[v] \in Nat
  BY ConstantsAssumption DEF OfVoucher, ConstantsAssumption
<1>1. \A v \in Vouchers : InitialStock[v] + Cardinality(OfVoucher({}, v)) = InitialStock[v]
  BY <1>0, FS_EmptySet
<1>2. SalesOK(orders, dbStock)
  BY <1>1 DEF Init, SalesOK
<1>3. Accepted(EmptyRedis) = {} /\ Live(EmptyRedis) = {}
  BY ConstantsAssumption DEF Accepted, Live, EmptyRedis, ConstantsAssumption
<1>4. ReservationsOK(EmptyRedis)
  BY <1>1, <1>3 DEF ReservationsOK, EmptyRedis
<1>5. QueueOK(EmptyRedis)
  BY DEF QueueOK, EmptyRedis, Messages
<1>6. VerdictsOK(EmptyRedis, orders, dbStock)
  BY DEF VerdictsOK
<1> QED
  BY <1>2, <1>4, <1>5, <1>6 DEF Init, IInv, Knowledge, RedisOK, ScriptOps, ConsumerOK

\* A consumer that leaves its message, and perhaps its call, behind.
LEMMA DoneKnowledge ==
    ASSUME TypeOK, Knowledge, NEW c \in Consumers, Done(c),
           late' = late \/ LeaveBehind(c), UNCHANGED dbVars
    PROVE  Knowledge'
<1>1. orders' = orders /\ dbStock' = dbStock
  BY DEF dbVars
<1>2. \A call \in late' : CallOK(call, orders', dbStock')
  BY <1>1 DEF LeaveBehind, Knowledge
<1>3. ASSUME NEW d \in Consumers
      PROVE  /\ pc'[d] \in ScriptOps => CallOK(CallOf(d)', orders', dbStock')
             /\ ConsumerOK(pc'[d], cur'[d], cause'[d], orders', dbStock')
  <2>1. CASE d = c
    BY <2>1 DEF Done, TypeOK, ScriptOps, ConsumerOK
  <2>2. CASE d # c
    <3>1. CallOf(d)' = CallOf(d) /\ pc'[d] = pc[d] /\ cur'[d] = cur[d] /\ cause'[d] = cause[d]
      BY <2>2 DEF Done, CallOf, TypeOK
    <3> QED
      BY <1>1, <3>1 DEF Knowledge
  <2> QED
    BY <2>1, <2>2
<1> QED
  BY <1>2, <1>3 DEF Knowledge

\* A consumer that moves to location l for the same message.
LEMMA MoveKnowledge ==
    ASSUME TypeOK, Knowledge, NEW c \in Consumers, NEW l,
           pc' = [pc EXCEPT ![c] = l],
           \A d \in Consumers : d # c =>
               cur'[d] = cur[d] /\ cause'[d] = cause[d] /\ existing'[d] = existing[d],
           l \in ScriptOps => CallOK(CallOf(c)', orders, dbStock),
           ConsumerOK(l, cur'[c], cause'[c], orders, dbStock),
           late' = late, UNCHANGED dbVars
    PROVE  Knowledge'
<1>1. orders' = orders /\ dbStock' = dbStock
  BY DEF dbVars
<1>3. ASSUME NEW d \in Consumers
      PROVE  /\ pc'[d] \in ScriptOps => CallOK(CallOf(d)', orders', dbStock')
             /\ ConsumerOK(pc'[d], cur'[d], cause'[d], orders', dbStock')
  <2>1. CASE d = c
    BY <1>1, <2>1 DEF TypeOK
  <2>2. CASE d # c
    <3>1. CallOf(d)' = CallOf(d) /\ pc'[d] = pc[d] /\ cur'[d] = cur[d] /\ cause'[d] = cause[d]
      BY <2>2 DEF CallOf, TypeOK
    <3> QED
      BY <1>1, <3>1 DEF Knowledge
  <2> QED
    BY <2>1, <2>2
<1> QED
  BY <1>1, <1>3 DEF Knowledge

\* The last SELECT of OrderCreate, or of its recheck, names the order that
\* holds the slot: the order at hand can never be committed.
LEMMA OtherBeats ==
    ASSUME NEW o \in OrderIds, NEW other \in OthersOfPair(o), SalesOK(orders, dbStock)
    PROVE  Beaten(o, orders, dbStock)
BY DEF OthersOfPair, SalesOK, Beaten

\* Every step keeps the system in order.
LEMMA IInvStep ==
    TypeOK /\ TypeOK' /\ Routed /\ IInv /\ [Next]_vars => IInv'
<1> SUFFICES ASSUME TypeOK, TypeOK', Routed, IInv, [Next]_vars
             PROVE  IInv'
  OBVIOUS
<1> redis \in RedisState /\ saved \in RedisState /\ Knowledge /\ SalesOK(orders, dbStock)
  BY DEF TypeOK, IInv
<1>1. ASSUME UNCHANGED <<late, workerVars, dbVars>>,
             RedisOK(redis', orders, dbStock), RedisOK(saved', orders, dbStock)
      PROVE  IInv'
  BY <1>1 DEF IInv, Knowledge, CallOf, workerVars, dbVars
<1>2. CASE UNCHANGED vars
  BY <1>1, <1>2 DEF vars, workerVars, dbVars, IInv
<1>3. ASSUME NEW o \in OrderIds, Request(o) \/ GiveUp(o) \/ Reserve(o) PROVE IInv'
  <2>1. redis' = redis \/ \E now : Admits(redis, o, now) /\ redis' = Reserved(redis, o)
    BY <1>3 DEF Request, GiveUp, Reserve, redisVars
  <2>2. RedisOK(redis', orders, dbStock)
    BY <2>1, ReservedOK DEF IInv
  <2>3. UNCHANGED <<late, workerVars, dbVars>> /\ saved' = saved
    BY <1>3 DEF Request, GiveUp, Reserve, redisVars
  <2> QED
    BY <1>1, <2>2, <2>3 DEF IInv
<1>4. ASSUME NEW c \in Consumers, Claim(c) \/ Read(c) PROVE IInv'
  <2>1. RedisOK(redis', orders, dbStock)
    BY <1>4, DeliveredOK DEF Claim, Read, redisVars, IInv
  <2>2. /\ UNCHANGED <<late, pc, cur, cause, existing, dbVars>>
        /\ saved' = saved
    BY <1>4 DEF Claim, Read, redisVars
  <2> QED
    BY <2>1, <2>2 DEF IInv, Knowledge, CallOf, dbVars
<1>5. ASSUME NEW c \in Consumers, UNCHANGED <<redisVars, dbVars>>, Knowledge'
      PROVE  IInv'
  BY <1>5 DEF redisVars, dbVars, IInv
<1>6. ASSUME NEW c \in Consumers, Pick(c) PROVE IInv'
  <2>1. PICK m \in batch[c] : pc' = [pc EXCEPT ![c] = Route(m)] /\ cur' = [cur EXCEPT ![c] = m]
    BY <1>6 DEF Pick
  <2>2. Route(m) \in {"quarantine", "ack", "create"}
    BY DEF Route
  <2>3. CallOf(c)'.op = Route(m)
    BY <2>1 DEF CallOf, TypeOK
  <2>4. /\ UNCHANGED <<redisVars, dbVars, late, cause, existing>>
        /\ \A d \in Consumers : d # c => cur'[d] = cur[d]
    BY <1>6, <2>1 DEF Pick, TypeOK
  <2>5. Knowledge'
    BY <2>1, <2>2, <2>3, <2>4, MoveKnowledge DEF CallOK, ConsumerOK
  <2> QED
    BY <1>5, <2>4, <2>5
<1>7. ASSUME NEW c \in Consumers, Create(c) PROVE IInv'
  <2>1. cur[c] \in OrderIds
    BY <1>7 DEF Create, Routed
  <2>2. PICK l \in {"finish", "reject", "write"} : pc' = [pc EXCEPT ![c] = l]
    BY <1>7 DEF Create, RejectFor
  <2>3. /\ UNCHANGED <<redisVars, dbVars, late, cur, cause>>
        /\ \A d \in Consumers : d # c => existing'[d] = existing[d]
    BY <1>7 DEF Create, RejectFor, TypeOK
  <2>4. /\ l = "finish" => cur[c] \in orders
        /\ l = "reject" => \E other \in OthersOfPair(cur[c]) : TRUE
    BY <1>7, <2>2 DEF Create, RejectFor, TypeOK
  <2>5. CallOf(c)'.op = l /\ CallOf(c)'.msg = cur[c]
    BY <2>2, <2>3 DEF CallOf, TypeOK
  <2>6. CallOK(CallOf(c)', orders, dbStock)
    BY <2>1, <2>4, <2>5, OtherBeats DEF CallOK
  <2>7. Knowledge'
    BY <2>2, <2>3, <2>6, MoveKnowledge DEF ConsumerOK
  <2> QED
    BY <1>5, <2>3, <2>7
<1>8. ASSUME NEW c \in Consumers, Write(c) \/ WriteUnknown(c) PROVE IInv'
  <2>1. cur[c] \in OrderIds /\ Insert(cur[c]) /\ cur[c] \in orders'
    BY <1>8 DEF Write, WriteUnknown, Routed, Insert
  <2>2. /\ SalesOK(orders', dbStock')
        /\ RedisOK(redis, orders', dbStock')
        /\ RedisOK(saved, orders', dbStock')
        /\ \A call \in late : CallOK(call, orders', dbStock')
        /\ \A d \in Consumers :
              /\ pc[d] \in ScriptOps => CallOK(CallOf(d), orders', dbStock')
              /\ ConsumerOK(pc[d], cur[d], cause[d], orders', dbStock')
    BY <2>1, InsertOK
  <2>3. redis' = redis /\ saved' = saved /\ late' = late
    BY <1>8 DEF Write, WriteUnknown, redisVars
  <2>4. ASSUME NEW d \in Consumers
        PROVE  /\ pc'[d] \in ScriptOps => CallOK(CallOf(d)', orders', dbStock')
               /\ ConsumerOK(pc'[d], cur'[d], cause'[d], orders', dbStock')
    <3>1. CASE d # c
      <4>1. CallOf(d)' = CallOf(d) /\ pc'[d] = pc[d] /\ cur'[d] = cur[d] /\ cause'[d] = cause[d]
        BY <1>8, <3>1 DEF Write, WriteUnknown, Done, CallOf, TypeOK
      <4> QED
        BY <2>2, <4>1
    <3>2. CASE d = c /\ Write(c)
      <4>1. pc'[c] = "finish" /\ CallOf(c)'.op = "finish" /\ CallOf(c)'.msg = cur[c]
        BY <3>2 DEF Write, CallOf, TypeOK
      <4> QED
        BY <2>1, <3>2, <4>1 DEF CallOK, ConsumerOK
    <3>3. CASE d = c /\ WriteUnknown(c)
      BY <3>3 DEF WriteUnknown, Done, TypeOK, ScriptOps, ConsumerOK
    <3> QED
      BY <1>8, <3>1, <3>2, <3>3
  <2> QED
    BY <2>2, <2>3, <2>4 DEF IInv, Knowledge
<1>9. ASSUME NEW c \in Consumers, WriteRefused(c) PROVE IInv'
  <2>1. /\ pc' = [pc EXCEPT ![c] = "recheckId"]
        /\ UNCHANGED <<redisVars, dbVars, late, cur, existing>>
        /\ \A d \in Consumers : d # c => cause'[d] = cause[d]
        /\ cause'[c] = "stock" => dbStock[VoucherOf[cur[c]]] = 0
    BY <1>9 DEF WriteRefused, TypeOK
  <2>2. Knowledge'
    BY <2>1, MoveKnowledge DEF ConsumerOK, ScriptOps
  <2> QED
    BY <1>5, <2>1, <2>2
<1>10. ASSUME NEW c \in Consumers, RecheckId(c) PROVE IInv'
  <2>1. UNCHANGED <<redisVars, dbVars, late, cur, cause, existing>>
    BY <1>10 DEF RecheckId
  <2>2. cause[c] = "stock" => dbStock[VoucherOf[cur[c]]] = 0
    BY <1>10 DEF RecheckId, Knowledge, ConsumerOK
  <2>3. CASE cur[c] \in orders
    <3>1. pc' = [pc EXCEPT ![c] = "finish"]
      BY <1>10, <2>3 DEF RecheckId
    <3>2. CallOK(CallOf(c)', orders, dbStock)
      BY <2>1, <2>3, <3>1 DEF CallOK, CallOf, TypeOK
    <3>3. Knowledge'
      BY <2>1, <3>1, <3>2, MoveKnowledge DEF ConsumerOK
    <3> QED
      BY <1>5, <2>1, <3>3
  <2>4. CASE cur[c] \notin orders
    <3>1. pc' = [pc EXCEPT ![c] = "recheckPair"]
      BY <1>10, <2>4 DEF RecheckId
    <3>2. Knowledge'
      BY <2>1, <2>2, <2>4, <3>1, MoveKnowledge DEF ConsumerOK, ScriptOps
    <3> QED
      BY <1>5, <2>1, <3>2
  <2> QED
    BY <2>3, <2>4
<1>11. ASSUME NEW c \in Consumers, RecheckPair(c) PROVE IInv'
  <2>1. cur[c] \in OrderIds
    BY <1>11 DEF RecheckPair, Routed
  <2>2. /\ UNCHANGED <<redisVars, dbVars, late, cur, cause>>
        /\ pc' = [pc EXCEPT ![c] = "reject"]
        /\ \A d \in Consumers : d # c => existing'[d] = existing[d]
    BY <1>11 DEF RecheckPair, RejectFor, TypeOK
  <2>3. Beaten(cur[c], orders, dbStock)
    <3>1. CASE \E other \in OthersOfPair(cur[c]) : TRUE
      BY <2>1, <3>1, OtherBeats
    <3>2. CASE cause[c] = "stock"
      BY <1>11, <3>2 DEF RecheckPair, Knowledge, ConsumerOK, Beaten
    <3> QED
      BY <1>11, <3>1, <3>2 DEF RecheckPair
  <2>4. CallOK(CallOf(c)', orders, dbStock)
    BY <2>2, <2>3 DEF CallOK, CallOf, TypeOK
  <2>5. Knowledge'
    BY <2>2, <2>4, MoveKnowledge DEF ConsumerOK
  <2> QED
    BY <1>5, <2>2, <2>5
<1>12. ASSUME NEW c \in Consumers, CallScript(c) PROVE IInv'
  <2>1. pc[c] \in ScriptOps /\ CallOf(c) \in Calls /\ RoutedCall(CallOf(c))
    BY <1>12, CallTyped DEF CallScript
  <2>2. CallOK(CallOf(c), orders, dbStock)
    BY <2>1 DEF Knowledge
  <2>3. RedisOK(redis', orders, dbStock)
    BY <1>12, <2>1, <2>2, ScriptOK DEF CallScript, IInv
  <2>4. Done(c) /\ UNCHANGED <<saved, dbVars, late>>
    BY <1>12 DEF CallScript
  <2>5. Knowledge'
    BY <2>4, DoneKnowledge
  <2> QED
    BY <2>3, <2>4, <2>5 DEF IInv, dbVars
<1>13. ASSUME NEW c \in Consumers, Abandon(c) \/ Restart(c) PROVE IInv'
  <2>1. Done(c) /\ LeaveBehind(c) /\ UNCHANGED <<redisVars, dbVars>>
    BY <1>13 DEF Abandon, Restart
  <2>2. Knowledge'
    BY <2>1, DoneKnowledge
  <2> QED
    BY <1>5, <2>1, <2>2
<1>14. CASE LateCall
  <2>1. PICK call \in late : redis' = RunScript(redis, call)
    BY <1>14 DEF LateCall
  <2>2. call \in Calls /\ RoutedCall(call) /\ CallOK(call, orders, dbStock)
    BY DEF TypeOK, Routed, Knowledge
  <2>3. RedisOK(redis', orders, dbStock)
    BY <2>1, <2>2, ScriptOK DEF IInv
  <2>4. UNCHANGED <<saved, late, workerVars, dbVars>>
    BY <1>14 DEF LateCall
  <2> QED
    BY <1>1, <2>3, <2>4 DEF IInv
<1>15. CASE Persist
  BY <1>1, <1>15 DEF Persist, IInv
<1>16. CASE RedisCrash
  BY <1>16 DEF RedisCrash, IInv, Knowledge, CallOf, workerVars, dbVars
<1> QED
  BY <1>2, <1>3, <1>4, <1>6, <1>7, <1>8, <1>9, <1>10, <1>11, <1>12, <1>13, <1>14, <1>15, <1>16
  DEF Next, Consume

\* The system stays in order.
THEOREM InOrder == Spec => []IInv
<1>1. IInv /\ TypeOK /\ TypeOK' /\ Routed /\ [Next]_vars => IInv'
  BY IInvStep
<1> QED
  BY <1>1, IInvInit, TypeCorrect, PTL DEF Spec

-----------------------------------------------------------------------------
(* The theorems *)

\* Order is what the properties need.
LEMMA OrderImplies ==
    TypeOK /\ IInv => /\ ReservationLedger
                      /\ SalesLedger
                      /\ OnePerUser
                      /\ VerdictMatchesSales
                      /\ DeadLetterOnce
<1> SUFFICES ASSUME TypeOK, IInv
             PROVE  ReservationLedger /\ SalesLedger /\ OnePerUser /\ VerdictMatchesSales /\ DeadLetterOnce
  OBVIOUS
<1>1. \A r \in {redis, saved} : RedisOK(r, orders, dbStock)
  BY DEF IInv
<1>2. ReservationLedger
  BY <1>1 DEF ReservationLedger, RedisOK, ReservationsOK
<1>3. SalesLedger
  BY DEF IInv, SalesOK, SalesLedger
<1>4. \A r \in {redis, saved} : \A o, p \in Live(r) : Slot(o) = Slot(p) => o = p
  BY <1>1 DEF RedisOK, ReservationsOK
<1>5. OnePerUser
  BY <1>4 DEF OnePerUser, IInv, SalesOK
<1>6. VerdictMatchesSales
  <2>1. \A o \in OrderIds : Beaten(o, orders, dbStock) => Refutable(o)
    BY DEF Beaten, Refutable, OthersOfPair
  <2> QED
    BY <1>1, <2>1 DEF VerdictMatchesSales, RedisOK, VerdictsOK
<1>7. DeadLetterOnce
  <2>1. ASSUME NEW r \in {redis, saved}, NEW m \in Messages
        PROVE  r.dead[m] <= IF m \in OrderIds /\ r.status[m] # "failed" THEN 0 ELSE 1
    BY <1>1, <2>1 DEF RedisOK, QueueOK, Messages
  <2> QED
    BY <2>1 DEF DeadLetterOnce
<1> QED
  BY <1>2, <1>3, <1>5, <1>6, <1>7

\* A unit of stock is on sale or held by one live order, always.
THEOREM ReservationsBalance == Spec => []ReservationLedger
BY OrderImplies, TypeCorrect, InOrder, PTL

\* MySQL never oversells.
THEOREM SalesBalance == Spec => []SalesLedger
BY OrderImplies, TypeCorrect, InOrder, PTL

\* One live reservation and one order per user and campaign.
THEOREM OneOrderPerUser == Spec => []OnePerUser
BY OrderImplies, TypeCorrect, InOrder, PTL

\* Redis says "created" of sales only and "failed" of lost causes only.
THEOREM VerdictsAreTrue == Spec => []VerdictMatchesSales
BY OrderImplies, TypeCorrect, InOrder, PTL

\* Every failure and every malformed message is recorded once.
THEOREM DeadLettersOnce == Spec => []DeadLetterOnce
BY OrderImplies, TypeCorrect, InOrder, PTL

Forward(r, s) ==
    \A o \in OrderIds :
        /\ r.status[o] = "pending" => s.status[o] # "none"
        /\ r.status[o] \in {"created", "failed"} => s.status[o] = r.status[o]

\* A script moves a status forward or leaves it alone.
LEMMA ScriptForward ==
    ASSUME NEW S, NEW d, NEW r \in RedisState, NEW call \in Calls,
           RoutedCall(call), CallOK(call, S, d), VerdictsOK(r, S, d)
    PROVE  Forward(r, RunScript(r, call))
<1> r.status \in [OrderIds -> OrderStates]
  BY RedisFields
<1>0. call.op \in ScriptOps
  BY DEF Calls
<1>1. \A m : Acked(r, m).status = r.status
  BY DEF Acked, RedisState
<1>2. CASE call.op = "finish"
  <2>1. RunScript(r, call).status = [r.status EXCEPT ![call.msg] = "created"]
    BY <1>2 DEF RunScript, Finished, Acked, RedisState
  <2>2. call.msg \in OrderIds /\ r.status[call.msg] # "failed"
    BY <1>2 DEF RoutedCall, OrderOps, CallOK, VerdictsOK, Beaten
  <2> QED
    BY <2>1, <2>2 DEF Forward
<1>3. CASE call.op = "reject"
  <2>1. RunScript(r, call) = Rejected(r, call.msg, call.existing)
    BY <1>3 DEF RunScript
  <2>2. CASE r.status[call.msg] \in {"created", "failed"} \/ ~Compensates(r, call.msg)
    BY <1>1, <2>1, <2>2 DEF Rejected, Forward
  <2>3. CASE Compensates(r, call.msg)
    <3>1. Compensated(r, call.msg, call.existing).status = [r.status EXCEPT ![call.msg] = "failed"]
      BY DEF Compensated, Acked, RedisState
    <3>2. RunScript(r, call).status = [r.status EXCEPT ![call.msg] = "failed"]
      BY <2>1, <2>3, <3>1 DEF Rejected, Compensates
    <3> QED
      BY <2>3, <3>2 DEF Forward, Compensates
  <2> QED
    BY <2>2, <2>3
<1>4. CASE call.op = "ack"
  BY <1>1, <1>4 DEF RunScript, Forward
<1>5. CASE call.op = "quarantine"
  <2>1. Quarantined(r, call.msg).status = r.status
    BY DEF Quarantined, Acked, RedisState
  <2> QED
    BY <1>5, <2>1 DEF RunScript, Forward
<1> QED
  BY <1>0, <1>2, <1>3, <1>4, <1>5 DEF ScriptOps

\* Only a restart of Redis takes a status back.
LEMMA StepForward ==
    TypeOK /\ Routed /\ IInv /\ [Next]_vars =>
        (crashes' = crashes => Forward(redis, redis'))
<1> SUFFICES ASSUME TypeOK, Routed, IInv, [Next]_vars, crashes' = crashes
             PROVE  Forward(redis, redis')
  OBVIOUS
<1> redis \in RedisState /\ redis.status \in [OrderIds -> OrderStates] /\ VerdictsOK(redis, orders, dbStock)
  BY RedisFields DEF TypeOK, IInv, RedisOK
<1>0. ASSUME redis' = redis PROVE Forward(redis, redis')
  BY <1>0 DEF Forward
<1>1. CASE UNCHANGED vars
  BY <1>0, <1>1 DEF vars
<1>2. ASSUME NEW o \in OrderIds, Request(o) \/ GiveUp(o) PROVE Forward(redis, redis')
  BY <1>0, <1>2 DEF Request, GiveUp, redisVars
<1>3. ASSUME NEW o \in OrderIds, Reserve(o) PROVE Forward(redis, redis')
  <2>1. redis' = redis \/ \E now : Admits(redis, o, now) /\ redis' = Reserved(redis, o)
    BY <1>3 DEF Reserve
  <2>2. Reserved(redis, o).status = [redis.status EXCEPT ![o] = "pending"]
    BY ReservedFields
  <2> QED
    BY <2>1, <2>2 DEF Admits, Forward
<1>4. ASSUME NEW c \in Consumers, Read(c) PROVE Forward(redis, redis')
  <2>1. \A D : Delivered(redis, D).status = redis.status
    BY DEF Delivered, RedisState
  <2> QED
    BY <1>4, <2>1 DEF Read, Forward
<1>5. ASSUME NEW c \in Consumers, CallScript(c) PROVE Forward(redis, redis')
  <2>1. CallOf(c) \in Calls /\ RoutedCall(CallOf(c)) /\ CallOK(CallOf(c), orders, dbStock)
    BY <1>5, CallTyped DEF CallScript, IInv, Knowledge
  <2> QED
    BY <1>5, <2>1, ScriptForward DEF CallScript
<1>6. CASE LateCall
  BY <1>6, ScriptForward DEF LateCall, TypeOK, Routed, IInv, Knowledge
<1>7. CASE RedisCrash
  BY <1>7 DEF RedisCrash, TypeOK
<1>8. CASE Persist
  BY <1>0, <1>8 DEF Persist
<1>9. ASSUME NEW c \in Consumers,
             \/ Claim(c) \/ Pick(c) \/ Create(c) \/ Write(c) \/ WriteUnknown(c)
             \/ WriteRefused(c) \/ RecheckId(c) \/ RecheckPair(c) \/ Abandon(c) \/ Restart(c)
      PROVE  Forward(redis, redis')
  BY <1>0, <1>9 DEF Claim, Pick, Create, Write, WriteUnknown, WriteRefused, RecheckId,
                    RecheckPair, Abandon, Restart, redisVars
<1> QED
  BY <1>1, <1>2, <1>3, <1>4, <1>5, <1>6, <1>7, <1>8, <1>9 DEF Next, Consume

\* A settled order keeps its verdict and no record disappears while Redis
\* keeps its data.
THEOREM StatusNeverRegresses == Spec => StatusMovesForward
<1>1. TypeOK /\ Routed /\ IInv /\ [Next]_vars =>
         [crashes' = crashes =>
            \A o \in OrderIds :
               /\ redis.status[o] = "pending" => redis'.status[o] # "none"
               /\ redis.status[o] \in {"created", "failed"} =>
                     redis'.status[o] = redis.status[o]]_vars
  BY StepForward DEF Forward
<1> QED
  BY <1>1, TypeCorrect, InOrder, PTL DEF Spec, StatusMovesForward

=============================================================================
