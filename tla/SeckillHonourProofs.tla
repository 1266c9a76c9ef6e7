------------------------ MODULE SeckillHonourProofs ------------------------
(***************************************************************************)
(* What becomes of an accepted order.  While Redis has lost nothing MySQL   *)
(* refuses none: the committed orders are among the accepted ones, these    *)
(* fit into the stock, one to a slot, so there is room for each that is not *)
(* committed yet, and no consumer ever comes to reject.  Seckill therefore  *)
(* implements Purchase.  And up to one loss no message leaves the pending   *)
(* list unsettled: what a consumer acknowledges as failed is failed, since  *)
(* before the loss nothing fails.                                           *)
(***************************************************************************)
EXTENDS SeckillProofs, SeckillPurchase

-----------------------------------------------------------------------------
(* The invariant *)

\* A consumer at location l with message m and batch b: all of it is in the
\* stream, and it rechecks only what another consumer has committed.
AtEase(l, m, b, stream, S) ==
    /\ b \subseteq stream
    /\ l # "next" => m \in stream
    /\ l \notin {"recheckPair", "reject", "ack"}
    /\ l = "recheckId" => m \in S

\* Nothing was lost and nothing is refused.
Unbroken ==
    /\ Failed(redis) = {}
    /\ orders \subseteq redis.stream
    /\ \A o \in OrderIds : req[o] = "ok" => o \in redis.stream
    /\ \A call \in late : call.op \in {"finish", "quarantine"}
    /\ \A c \in Consumers : AtEase(pc[c], cur[c], batch[c], redis.stream, orders)

\* What is delivered and no longer pending is settled.
Settled(r) ==
    \A m \in r.stream \ (r.fresh \cup r.pel) :
        /\ m \in OrderIds => r.status[m] \in {"created", "failed"}
        /\ m \in Garbage => r.dead[m] = 1

\* A bare acknowledgement is of an order that failed.
AckKnows(call, r) == call.op = "ack" => r.status[call.msg] = "failed"

AcksKnow ==
    /\ \A call \in late : AckKnows(call, redis)
    /\ \A c \in Consumers : pc[c] \in ScriptOps => AckKnows(CallOf(c), redis)

Honest ==
    /\ crashes = 0 => Unbroken /\ Settled(saved)
    /\ crashes <= 1 => Settled(redis) /\ AcksKnow

-----------------------------------------------------------------------------
(* Room for every accepted order *)

\* While nothing failed, an accepted order that is not committed fits: no
\* other order has its slot, and MySQL has stock for it.
LEMMA RoomLeft ==
    ASSUME TypeOK, IInv, Failed(redis) = {}, orders \subseteq redis.stream,
           NEW o \in OrderIds, o \in redis.stream, o \notin orders
    PROVE  Insertable(o)
<1> DEFINE v == VoucherOf[o]
           L == Live(redis)
<1>1. /\ ReservationsOK(redis) /\ redis.stock \in [Vouchers -> Nat]
      /\ v \in Vouchers /\ orders \in SUBSET OrderIds /\ dbStock \in [Vouchers -> Nat]
  BY RedisFields, SlotType DEF IInv, RedisOK, TypeOK
<1>2. L \in SUBSET OrderIds /\ o \in L /\ orders \subseteq L
  BY <1>1 DEF Live, Accepted
<1>3. OthersOfPair(o) = {}
  BY <1>1, <1>2 DEF OthersOfPair, ReservationsOK
<1> HIDE DEF L, v
<1>4. /\ Cardinality(OfVoucher(orders, v)) \in Nat
      /\ Cardinality(OfVoucher(orders \cup {o}, v)) = Cardinality(OfVoucher(orders, v)) + 1
  BY <1>1, CountAdd DEF v
<1>5. IsFiniteSet(OfVoucher(L, v)) /\ OfVoucher(orders \cup {o}, v) \subseteq OfVoucher(L, v)
  BY <1>2, ConstantsAssumption, FS_Subset DEF ConstantsAssumption, OfVoucher
<1>6. /\ Cardinality(OfVoucher(L, v)) \in Nat
      /\ Cardinality(OfVoucher(orders \cup {o}, v)) <= Cardinality(OfVoucher(L, v))
  BY <1>5, FS_Subset, FS_CardinalityType
<1>7. redis.stock[v] \in Nat /\ redis.stock[v] + Cardinality(OfVoucher(L, v)) = InitialStock[v]
  BY <1>1 DEF ReservationsOK, L
<1>8. dbStock[v] \in Nat /\ dbStock[v] + Cardinality(OfVoucher(orders, v)) = InitialStock[v]
  BY <1>1 DEF IInv, SalesOK
<1>9. dbStock[v] > 0
  BY <1>4, <1>6, <1>7, <1>8
<1> QED
  BY <1>3, <1>9 DEF Insertable, v

-----------------------------------------------------------------------------
(* The scripts *)

\* No script but seckill.lua adds to the stream or to what is undelivered.
LEMMA ScriptQueue ==
    ASSUME NEW r \in RedisState, NEW call \in Calls
    PROVE  /\ RunScript(r, call).stream = r.stream
           /\ RunScript(r, call).fresh = r.fresh
<1>0. call.op \in ScriptOps
  BY DEF Calls
<1>1. \A m : Acked(r, m).stream = r.stream /\ Acked(r, m).fresh = r.fresh
  BY DEF Acked, RedisState
<1>2. \A m : Finished(r, m).stream = r.stream /\ Finished(r, m).fresh = r.fresh
  BY DEF Finished, Acked, RedisState
<1>3. \A m, w : Compensated(r, m, w).stream = r.stream /\ Compensated(r, m, w).fresh = r.fresh
  BY DEF Compensated, Acked, RedisState
<1>4. \A m : Quarantined(r, m).stream = r.stream /\ Quarantined(r, m).fresh = r.fresh
  BY DEF Quarantined, Acked, RedisState
<1>5. \A m, w : Rejected(r, m, w).stream = r.stream /\ Rejected(r, m, w).fresh = r.fresh
  BY <1>1, <1>3 DEF Rejected
<1> QED
  BY <1>0, <1>1, <1>2, <1>4, <1>5 DEF RunScript, ScriptOps

\* finish.lua and quarantine.lua fail no order.
LEMMA ScriptFailsNone ==
    ASSUME NEW r \in RedisState, NEW call, call.op \in {"finish", "quarantine"},
           Failed(r) = {}
    PROVE  Failed(RunScript(r, call)) = {}
<1> r.status \in [OrderIds -> OrderStates]
  BY RedisFields
<1>1. CASE call.op = "finish"
  <2>1. RunScript(r, call).status = [r.status EXCEPT ![call.msg] = "created"]
    BY <1>1 DEF RunScript, Finished, Acked, RedisState
  <2> QED
    BY <2>1 DEF Failed
<1>2. CASE call.op = "quarantine"
  <2>1. Quarantined(r, call.msg).status = r.status
    BY DEF Quarantined, Acked, RedisState
  <2> QED
    BY <1>2, <2>1 DEF RunScript, Failed
<1> QED
  BY <1>1, <1>2

\* A message that any script acknowledges is settled by it or was before,
\* and what was settled stays so.
LEMMA ScriptSettles ==
    ASSUME NEW S, NEW d, NEW r \in RedisState, NEW call \in Calls, RoutedCall(call),
           CallOK(call, S, d), RedisOK(r, S, d), AckKnows(call, r), Settled(r)
    PROVE  Settled(RunScript(r, call))
<1> DEFINE s == RunScript(r, call)
           n == call.msg
<1> SUFFICES Settled(s)
  OBVIOUS
<1> r.status \in [OrderIds -> OrderStates] /\ r.dead \in [Messages -> Nat]
  BY RedisFields
<1> OrderIds \cap Garbage = {} /\ OrderIds \cup Garbage = Messages
  BY ConstantsAssumption DEF ConstantsAssumption, Messages
<1>0. call.op \in ScriptOps
  BY DEF Calls
<1>1. s.stream = r.stream /\ s.fresh = r.fresh
  BY ScriptQueue
<1>2. ASSUME r.pel \subseteq s.pel \cup {n},
             n \in OrderIds => s.status[n] \in {"created", "failed"} \/ s.pel = r.pel,
             n \in Garbage => s.dead[n] = 1 \/ s.pel = r.pel,
             \A o \in OrderIds : r.status[o] \in {"created", "failed"} => s.status[o] = r.status[o],
             \A g \in Garbage : r.dead[g] = 1 => s.dead[g] = 1
      PROVE  Settled(s)
  <2> HIDE DEF s, n
  <2> QED
    BY <1>1, <1>2 DEF Settled
<1>3. CASE call.op = "finish"
  <2>1. n \in OrderIds /\ n \in S
    BY <1>3 DEF RoutedCall, OrderOps, CallOK
  <2>2. /\ s.status = [r.status EXCEPT ![n] = "created"]
        /\ s.pel = r.pel \ {n} /\ s.dead = r.dead
    BY <1>3 DEF RunScript, Finished, Acked, RedisState
  <2>3. r.status[n] # "failed"
    BY <2>1 DEF RedisOK, VerdictsOK, Beaten
  <2> HIDE DEF s, n
  <2> QED
    BY <1>2, <2>1, <2>2, <2>3
<1>4. CASE call.op = "reject"
  <2>0. n \in OrderIds /\ s = Rejected(r, n, call.existing)
    BY <1>4 DEF RoutedCall, OrderOps, RunScript
  <2>1. CASE r.status[n] \in {"failed", "created"}
    <3>1. s.status = r.status /\ s.dead = r.dead /\ s.pel = r.pel \ {n}
      BY <2>0, <2>1 DEF Rejected, Acked, RedisState
    <3> HIDE DEF s, n
    <3> QED
      BY <1>2, <2>0, <2>1, <3>1
  <2>2. CASE r.status[n] \notin {"failed", "created"} /\ ~Compensates(r, n)
    <3>1. s = r
      BY <2>0, <2>2 DEF Rejected
    <3> QED
      BY <3>1
  <2>3. CASE Compensates(r, n)
    <3>1. r.status[n] = "pending" /\ s = Compensated(r, n, call.existing)
      BY <2>0, <2>3 DEF Rejected, Compensates
    <3>2. /\ s.status = [r.status EXCEPT ![n] = "failed"]
          /\ s.pel = r.pel \ {n} /\ s.dead = [r.dead EXCEPT ![n] = @ + 1]
      BY <3>1 DEF Compensated, Acked, RedisState
    <3> HIDE DEF s, n
    <3> QED
      BY <1>2, <2>0, <3>1, <3>2
  <2> QED
    BY <2>1, <2>2, <2>3 DEF Compensates
<1>5. CASE call.op = "ack"
  <2>1. n \in OrderIds /\ r.status[n] = "failed"
    BY <1>5 DEF RoutedCall, OrderOps, AckKnows
  <2>2. s.status = r.status /\ s.dead = r.dead /\ s.pel = r.pel \ {n}
    BY <1>5 DEF RunScript, Acked, RedisState
  <2> HIDE DEF s, n
  <2> QED
    BY <1>2, <2>1, <2>2
<1>6. CASE call.op = "quarantine"
  <2>1. n \in Garbage /\ s = Quarantined(r, n)
    BY <1>6 DEF RoutedCall, RunScript
  <2>2. CASE n \notin r.pel
    <3>1. s = r
      BY <2>1, <2>2 DEF Quarantined
    <3> QED
      BY <3>1
  <2>3. CASE n \in r.pel
    <3>1. r.dead[n] = 0
      BY <2>1, <2>3 DEF RedisOK, QueueOK
    <3>2. /\ s.status = r.status
          /\ s.pel = r.pel \ {n} /\ s.dead = [r.dead EXCEPT ![n] = @ + 1]
      BY <2>1, <2>3 DEF Quarantined, Acked, RedisState
    <3> HIDE DEF s, n
    <3> QED
      BY <1>2, <2>1, <3>1, <3>2
  <2> QED
    BY <2>2, <2>3
<1> QED
  BY <1>0, <1>3, <1>4, <1>5, <1>6 DEF ScriptOps

-----------------------------------------------------------------------------
(* The steps while nothing is lost *)

\* What a consumer holds stays in the stream and committed.
LEMMA EaseGrows ==
    ASSUME NEW l, NEW m, NEW b, NEW T, NEW S, NEW U, NEW V,
           AtEase(l, m, b, T, S), T \subseteq U, S \subseteq V
    PROVE  AtEase(l, m, b, U, V)
BY DEF AtEase

\* The call of a consumer at ease.
LEMMA EaseCall ==
    ASSUME Unbroken, NEW c \in Consumers, pc[c] \in ScriptOps
    PROVE  CallOf(c).op \in {"finish", "quarantine"}
BY DEF Unbroken, AtEase, CallOf, ScriptOps

\* A consumer that turns to its next message is at ease, and so are the
\* others.
LEMMA EaseDone ==
    ASSUME TypeOK, Unbroken, NEW c \in Consumers, Done(c),
           batch'[c] \subseteq batch[c], \A d \in Consumers : d # c => batch'[d] = batch[d],
           redis.stream \subseteq redis'.stream, orders \subseteq orders'
    PROVE  \A d \in Consumers : AtEase(pc'[d], cur'[d], batch'[d], redis'.stream, orders')
<1> SUFFICES ASSUME NEW d \in Consumers
             PROVE  AtEase(pc'[d], cur'[d], batch'[d], redis'.stream, orders')
  OBVIOUS
<1>1. CASE d = c
  BY <1>1 DEF Done, TypeOK, Unbroken, AtEase
<1>2. CASE d # c
  <2>1. pc'[d] = pc[d] /\ cur'[d] = cur[d] /\ batch'[d] = batch[d]
    BY <1>2 DEF Done, TypeOK
  <2> QED
    BY <2>1, EaseGrows DEF Unbroken
<1> QED
  BY <1>1, <1>2

\* A consumer that moves on with its message.
LEMMA EaseMove ==
    ASSUME TypeOK, Unbroken, NEW c \in Consumers, NEW l, l \in {"write", "finish", "recheckId"},
           pc' = [pc EXCEPT ![c] = l], UNCHANGED <<cur, batch, redis>>,
           pc[c] # "next", l = "recheckId" => cur[c] \in orders',
           orders \subseteq orders'
    PROVE  \A d \in Consumers : AtEase(pc'[d], cur'[d], batch'[d], redis'.stream, orders')
<1> SUFFICES ASSUME NEW d \in Consumers
             PROVE  AtEase(pc'[d], cur'[d], batch'[d], redis'.stream, orders')
  OBVIOUS
<1>1. CASE d = c
  BY <1>1 DEF TypeOK, Unbroken, AtEase
<1>2. CASE d # c
  <2>1. pc'[d] = pc[d] /\ cur'[d] = cur[d] /\ batch'[d] = batch[d]
    BY <1>2 DEF TypeOK
  <2> QED
    BY <2>1, EaseGrows DEF Unbroken
<1> QED
  BY <1>1, <1>2

\* While nothing is lost, no order is refused.
LEMMA UnbrokenStep ==
    TypeOK /\ TypeOK' /\ Routed /\ IInv /\ Unbroken /\ [Next]_vars /\ crashes' = crashes
        => Unbroken'
<1> SUFFICES ASSUME TypeOK, TypeOK', Routed, IInv, Unbroken, [Next]_vars, crashes' = crashes
             PROVE  Unbroken'
  OBVIOUS
<1> redis \in RedisState /\ redis.status \in [OrderIds -> OrderStates] /\ QueueOK(redis)
  BY RedisFields DEF TypeOK, IInv, RedisOK
<1>1. CASE UNCHANGED vars
  BY <1>1 DEF vars, Unbroken, Failed
<1>2. ASSUME NEW o \in OrderIds, Request(o) \/ GiveUp(o) PROVE Unbroken'
  <2>1. \A p \in OrderIds : req'[p] = "ok" => req[p] = "ok"
    BY <1>2 DEF Request, GiveUp, TypeOK
  <2> QED
    BY <1>2, <2>1 DEF Request, GiveUp, Unbroken, Failed, redisVars, dbVars, workerVars
<1>3. ASSUME NEW o \in OrderIds, Reserve(o) PROVE Unbroken'
  <2>1. PICK now \in Windows :
           /\ redis' = IF Admits(redis, o, now) THEN Reserved(redis, o) ELSE redis
           /\ \/ req' = [req EXCEPT ![o] = Answer(redis, o, now)]
              \/ req' = req
    BY <1>3 DEF Reserve, clientVars
  <2>2. /\ UNCHANGED <<orders, late, pc, cur, batch>>
    BY <1>3 DEF Reserve, dbVars, workerVars
  <2>3. redis.stream \subseteq redis'.stream /\ Failed(redis') = {}
    <3>1. /\ Reserved(redis, o).status = [redis.status EXCEPT ![o] = "pending"]
          /\ Reserved(redis, o).stream = redis.stream \cup {o}
      BY ReservedFields
    <3> QED
      BY <2>1, <3>1 DEF Failed, Unbroken
  <2>4. Answer(redis, o, now) = "ok" => o \in redis'.stream
    <3>1. Reserved(redis, o).stream = redis.stream \cup {o}
      BY ReservedFields
    <3>2. Answer(redis, o, now) = "ok" => Admits(redis, o, now)
      BY DEF Answer
    <3> QED
      BY <2>1, <3>1, <3>2
  <2>5. \A p \in OrderIds : req'[p] = "ok" => p \in redis'.stream
    BY <2>1, <2>3, <2>4 DEF Unbroken, TypeOK
  <2>6. \A c \in Consumers : AtEase(pc'[c], cur'[c], batch'[c], redis'.stream, orders')
    BY <2>2, <2>3, EaseGrows DEF Unbroken
  <2> QED
    BY <2>2, <2>3, <2>5, <2>6 DEF Unbroken
<1>4. ASSUME NEW c \in Consumers, Claim(c) \/ Read(c) PROVE Unbroken'
  <2>1. \A D : Delivered(redis, D).stream = redis.stream /\ Delivered(redis, D).status = redis.status
    BY DEF Delivered, RedisState
  <2>2. /\ redis'.stream = redis.stream /\ redis'.status = redis.status
        /\ UNCHANGED <<orders, late, pc, cur, req>>
    BY <1>4, <2>1 DEF Claim, Read, redisVars, dbVars, clientVars
  <2>3. batch'[c] \subseteq redis.stream /\ \A d \in Consumers : d # c => batch'[d] = batch[d]
    BY <1>4 DEF Claim, Read, TypeOK, QueueOK
  <2>4. \A d \in Consumers : AtEase(pc'[d], cur'[d], batch'[d], redis'.stream, orders')
    BY <2>2, <2>3 DEF Unbroken, AtEase
  <2> QED
    BY <2>2, <2>4 DEF Unbroken, Failed
<1>5. ASSUME NEW c \in Consumers, Pick(c) PROVE Unbroken'
  <2>1. PICK m \in batch[c] :
           /\ cur' = [cur EXCEPT ![c] = m]
           /\ batch' = [batch EXCEPT ![c] = @ \ {m}]
           /\ pc' = [pc EXCEPT ![c] = Route(m)]
    BY <1>5 DEF Pick
  <2>2. m \in redis.stream /\ m \in Messages
    BY DEF Unbroken, AtEase, TypeOK
  <2>3. Route(m) \in {"quarantine", "create"}
    BY <2>2 DEF Route, Unbroken, Failed, Messages
  <2>4. UNCHANGED <<redis, orders, late, req>>
    BY <1>5 DEF Pick, redisVars, dbVars, clientVars
  <2>5. ASSUME NEW d \in Consumers
        PROVE  AtEase(pc'[d], cur'[d], batch'[d], redis.stream, orders)
    <3>1. CASE d = c
      BY <2>1, <2>2, <2>3, <3>1 DEF TypeOK, Unbroken, AtEase
    <3>2. CASE d # c
      BY <2>1, <3>2 DEF TypeOK, Unbroken
    <3> QED
      BY <3>1, <3>2
  <2> QED
    BY <2>4, <2>5 DEF Unbroken, Failed
<1>6. ASSUME NEW c \in Consumers, Create(c) PROVE Unbroken'
  <2>1. cur[c] \in OrderIds /\ cur[c] \in redis.stream
    BY <1>6 DEF Create, Routed, Unbroken, AtEase
  <2>2. cur[c] \notin orders => OthersOfPair(cur[c]) = {}
    BY <2>1, RoomLeft DEF Insertable, Unbroken
  <2>3. PICK l \in {"finish", "write"} : pc' = [pc EXCEPT ![c] = l]
    BY <1>6, <2>2 DEF Create
  <2>4. UNCHANGED <<redis, orders, late, req, cur, batch>> /\ pc[c] # "next"
    BY <1>6 DEF Create, redisVars, dbVars, clientVars
  <2>5. \A d \in Consumers : AtEase(pc'[d], cur'[d], batch'[d], redis'.stream, orders')
    BY <2>3, <2>4, EaseMove
  <2> QED
    BY <2>4, <2>5 DEF Unbroken, Failed
<1>7. ASSUME NEW c \in Consumers, Write(c) \/ WriteUnknown(c) PROVE Unbroken'
  <2>1. /\ orders' = orders \cup {cur[c]} /\ pc[c] = "write" /\ cur[c] \in redis.stream
        /\ UNCHANGED <<redis, late, req, batch>>
    BY <1>7 DEF Write, WriteUnknown, Insert, redisVars, clientVars, Unbroken, AtEase
  <2>2. \A d \in Consumers : AtEase(pc'[d], cur'[d], batch'[d], redis'.stream, orders')
    <3>1. CASE Write(c)
      BY <2>1, <3>1, EaseMove DEF Write
    <3>2. CASE WriteUnknown(c)
      BY <2>1, <3>2, EaseDone DEF WriteUnknown
    <3> QED
      BY <1>7, <3>1, <3>2
  <2> QED
    BY <2>1, <2>2 DEF Unbroken, Failed
<1>8. ASSUME NEW c \in Consumers, WriteRefused(c) \/ RecheckId(c) PROVE Unbroken'
  <2>1. cur[c] \in orders
    <3>1. CASE WriteRefused(c)
      <4>1. cur[c] \in OrderIds /\ cur[c] \in redis.stream /\ ~Insertable(cur[c])
        BY <3>1 DEF WriteRefused, Routed, Unbroken, AtEase
      <4> QED
        BY <4>1, RoomLeft DEF Unbroken
    <3>2. CASE RecheckId(c)
      BY <3>2 DEF RecheckId, Unbroken, AtEase
    <3> QED
      BY <1>8, <3>1, <3>2
  <2>2. PICK l \in {"finish", "recheckId"} : pc' = [pc EXCEPT ![c] = l]
    BY <1>8, <2>1 DEF WriteRefused, RecheckId
  <2>3. UNCHANGED <<redis, orders, late, req, cur, batch>> /\ pc[c] # "next"
    BY <1>8 DEF WriteRefused, RecheckId, redisVars, dbVars, clientVars
  <2>4. \A d \in Consumers : AtEase(pc'[d], cur'[d], batch'[d], redis'.stream, orders')
    BY <2>1, <2>2, <2>3, EaseMove
  <2> QED
    BY <2>3, <2>4 DEF Unbroken, Failed
<1>9. ASSUME NEW c \in Consumers, RecheckPair(c) PROVE Unbroken'
  BY <1>9 DEF RecheckPair, Unbroken, AtEase
<1>10. ASSUME NEW call \in Calls, call.op \in {"finish", "quarantine"}, redis' = RunScript(redis, call)
       PROVE  Failed(redis') = {} /\ redis'.stream = redis.stream
  BY <1>10, ScriptQueue, ScriptFailsNone DEF Unbroken
<1>11. ASSUME NEW c \in Consumers, CallScript(c) PROVE Unbroken'
  <2>1. CallOf(c) \in Calls /\ CallOf(c).op \in {"finish", "quarantine"}
    BY <1>11, CallTyped, EaseCall DEF CallScript
  <2>2. Failed(redis') = {} /\ redis'.stream = redis.stream
    BY <1>10, <1>11, <2>1 DEF CallScript
  <2>3. UNCHANGED <<orders, late, req, batch>> /\ Done(c)
    BY <1>11 DEF CallScript, dbVars, clientVars
  <2>4. \A d \in Consumers : AtEase(pc'[d], cur'[d], batch'[d], redis'.stream, orders')
    BY <2>2, <2>3, EaseDone
  <2> QED
    BY <2>2, <2>3, <2>4 DEF Unbroken
<1>12. ASSUME NEW c \in Consumers, Abandon(c) \/ Restart(c) PROVE Unbroken'
  <2>1. /\ UNCHANGED <<redis, orders, req>> /\ Done(c) /\ LeaveBehind(c)
        /\ batch'[c] \subseteq batch[c] /\ \A d \in Consumers : d # c => batch'[d] = batch[d]
    BY <1>12 DEF Abandon, Restart, redisVars, dbVars, clientVars, TypeOK
  <2>2. \A call \in late' : call.op \in {"finish", "quarantine"}
    BY <2>1, EaseCall DEF LeaveBehind, Unbroken
  <2>3. \A d \in Consumers : AtEase(pc'[d], cur'[d], batch'[d], redis'.stream, orders')
    BY <2>1, EaseDone
  <2> QED
    BY <2>1, <2>2, <2>3 DEF Unbroken, Failed
<1>13. CASE LateCall
  <2>1. PICK call \in late : redis' = RunScript(redis, call)
    BY <1>13 DEF LateCall
  <2>2. Failed(redis') = {} /\ redis'.stream = redis.stream
    BY <1>10, <2>1 DEF Unbroken, TypeOK
  <2>3. UNCHANGED <<orders, late, req, pc, cur, batch>>
    BY <1>13 DEF LateCall, dbVars, clientVars, workerVars
  <2> QED
    BY <2>2, <2>3 DEF Unbroken
<1>14. CASE Persist
  BY <1>14 DEF Persist, Unbroken, Failed, dbVars, clientVars, workerVars
<1>15. CASE RedisCrash
  BY <1>15 DEF RedisCrash, TypeOK
<1> QED
  BY <1>1, <1>2, <1>3, <1>4, <1>5, <1>6, <1>7, <1>8, <1>9, <1>11, <1>12, <1>13, <1>14, <1>15
  DEF Next, Consume

-----------------------------------------------------------------------------
(* The steps across at most one loss *)

\* seckill.lua and XREADGROUP leave what was delivered settled.
LEMMA QueueSettles ==
    ASSUME NEW r \in RedisState, QueueOK(r), ReservationsOK(r), Settled(r)
    PROVE  /\ \A o \in OrderIds : \A now : Admits(r, o, now) => Settled(Reserved(r, o))
           /\ \A D \in SUBSET r.fresh : Settled(Delivered(r, D))
<1> r.status \in [OrderIds -> OrderStates]
  BY RedisFields
<1>1. ASSUME NEW o \in OrderIds, NEW now, Admits(r, o, now)
      PROVE  Settled(Reserved(r, o))
  <2>1. o \notin r.stream
    BY <1>1 DEF Admits, ReservationsOK, Accepted
  <2>2. /\ Reserved(r, o).status = [r.status EXCEPT ![o] = "pending"]
        /\ Reserved(r, o).stream = r.stream \cup {o}
        /\ Reserved(r, o).fresh = r.fresh \cup {o}
        /\ Reserved(r, o).pel = r.pel /\ Reserved(r, o).dead = r.dead
    BY ReservedFields
  <2> QED
    BY <2>1, <2>2 DEF Settled
<1>2. ASSUME NEW D \in SUBSET r.fresh
      PROVE  Settled(Delivered(r, D))
  <2>1. /\ Delivered(r, D).status = r.status /\ Delivered(r, D).dead = r.dead
        /\ Delivered(r, D).stream = r.stream
        /\ Delivered(r, D).fresh = r.fresh \ D /\ Delivered(r, D).pel = r.pel \cup D
    BY DEF Delivered, RedisState
  <2> QED
    BY <2>1 DEF Settled
<1> QED
  BY <1>1, <1>2

\* What is settled stays settled, while Redis loses nothing.
LEMMA SettledStep ==
    TypeOK /\ Routed /\ IInv /\ Settled(redis) /\ AcksKnow /\ [Next]_vars /\ crashes' = crashes
        => Settled(redis')
<1> SUFFICES ASSUME TypeOK, Routed, IInv, Settled(redis), AcksKnow, [Next]_vars, crashes' = crashes
             PROVE  Settled(redis')
  OBVIOUS
<1> redis \in RedisState /\ RedisOK(redis, orders, dbStock) /\ Knowledge
  BY DEF TypeOK, IInv
<1>1. CASE redis' = redis
  BY <1>1
<1>2. ASSUME NEW o \in OrderIds, Reserve(o) PROVE Settled(redis')
  <2>1. redis' = redis \/ \E now : Admits(redis, o, now) /\ redis' = Reserved(redis, o)
    BY <1>2 DEF Reserve
  <2> QED
    BY <2>1, QueueSettles DEF RedisOK
<1>3. ASSUME NEW c \in Consumers, Read(c) PROVE Settled(redis')
  BY <1>3, QueueSettles DEF Read, RedisOK
<1>4. ASSUME NEW c \in Consumers, CallScript(c) PROVE Settled(redis')
  <2>1. /\ CallOf(c) \in Calls /\ RoutedCall(CallOf(c))
        /\ CallOK(CallOf(c), orders, dbStock) /\ AckKnows(CallOf(c), redis)
    BY <1>4, CallTyped DEF CallScript, Knowledge, AcksKnow
  <2> QED
    BY <1>4, <2>1, ScriptSettles DEF CallScript
<1>5. CASE LateCall
  <2>1. PICK call \in late : redis' = RunScript(redis, call)
    BY <1>5 DEF LateCall
  <2>2. /\ call \in Calls /\ RoutedCall(call)
        /\ CallOK(call, orders, dbStock) /\ AckKnows(call, redis)
    BY DEF TypeOK, Routed, Knowledge, AcksKnow
  <2> QED
    BY <2>1, <2>2, ScriptSettles
<1>6. CASE RedisCrash
  BY <1>6 DEF RedisCrash, TypeOK
<1> QED
  BY <1>1, <1>2, <1>3, <1>4, <1>5, <1>6
  DEF Next, Consume, vars, Request, GiveUp, Claim, Pick, Create, Write, WriteUnknown, WriteRefused,
      RecheckId, RecheckPair, Abandon, Restart, Persist, redisVars

\* Who acknowledges an order as failed is right, while Redis loses nothing.
LEMMA AcksKnowStep ==
    TypeOK /\ TypeOK' /\ Routed /\ Routed' /\ IInv /\ AcksKnow /\ [Next]_vars /\ crashes' = crashes
        => AcksKnow'
<1> SUFFICES ASSUME TypeOK, TypeOK', Routed, Routed', IInv, AcksKnow, [Next]_vars, crashes' = crashes
             PROVE  AcksKnow'
  OBVIOUS
<1>1. Forward(redis, redis')
  BY StepForward
<1>2. \A call : RoutedCall(call) /\ AckKnows(call, redis) => AckKnows(call, redis')
  BY <1>1 DEF Forward, AckKnows, RoutedCall, OrderOps
<1>3. ASSUME NEW c \in Consumers, Pick(c) PROVE AcksKnow'
  <2>1. PICK m \in batch[c] : pc' = [pc EXCEPT ![c] = Route(m)] /\ cur' = [cur EXCEPT ![c] = m]
    BY <1>3 DEF Pick
  <2>2. UNCHANGED <<redis, late, existing>>
    BY <1>3 DEF Pick, redisVars
  <2>3. ASSUME NEW d \in Consumers, pc'[d] \in ScriptOps
        PROVE  AckKnows(CallOf(d)', redis')
    <3>1. CASE d = c
      <4>1. CallOf(c)'.op = Route(m) /\ CallOf(c)'.msg = m
        BY <2>1 DEF CallOf, TypeOK
      <4> QED
        BY <2>2, <3>1, <4>1 DEF AckKnows, Route
    <3>2. CASE d # c
      <4>1. CallOf(d)' = CallOf(d) /\ pc'[d] = pc[d]
        BY <2>1, <2>2, <3>2 DEF CallOf, TypeOK
      <4> QED
        BY <2>2, <2>3, <4>1 DEF AcksKnow
    <3> QED
      BY <3>1, <3>2
  <2> QED
    BY <2>2, <2>3 DEF AcksKnow
<1>4. ASSUME \A call \in late' : call \in late \/ \E c \in Consumers : pc[c] \in ScriptOps /\ call = CallOf(c),
             \A c \in Consumers : pc'[c] = "ack" => pc[c] = "ack" /\ cur'[c] = cur[c]
      PROVE  AcksKnow'
  <2>1. \A call \in late' : AckKnows(call, redis')
    BY <1>2, <1>4 DEF AcksKnow, Routed
  <2>2. ASSUME NEW c \in Consumers, pc'[c] \in ScriptOps
        PROVE  AckKnows(CallOf(c)', redis')
    <3>1. CASE pc'[c] # "ack"
      BY <3>1 DEF AckKnows, CallOf
    <3>2. CASE pc'[c] = "ack"
      <4>1. CallOf(c)'.msg = CallOf(c).msg /\ CallOf(c).op = "ack" /\ pc[c] \in ScriptOps
        BY <1>4, <3>2 DEF CallOf, ScriptOps
      <4>2. AckKnows(CallOf(c), redis')
        BY <1>2, <4>1 DEF AcksKnow, Routed
      <4> QED
        BY <4>1, <4>2 DEF AckKnows
    <3> QED
      BY <3>1, <3>2
  <2> QED
    BY <2>1, <2>2 DEF AcksKnow
<1>5. ASSUME UNCHANGED <<late, pc, cur>>
      PROVE  AcksKnow'
  BY <1>4, <1>5
<1>6. ASSUME NEW c \in Consumers, NEW l, l # "ack", pc' = [pc EXCEPT ![c] = l],
             UNCHANGED <<late, cur>>
      PROVE  AcksKnow'
  <2>1. \A d \in Consumers : pc'[d] = "ack" => pc[d] = "ack" /\ cur'[d] = cur[d]
    BY <1>6 DEF TypeOK
  <2> QED
    BY <1>4, <1>6, <2>1
<1>7. ASSUME NEW c \in Consumers, Done(c), late' = late \/ LeaveBehind(c)
      PROVE  AcksKnow'
  <2>1. \A d \in Consumers : pc'[d] = "ack" => pc[d] = "ack" /\ cur'[d] = cur[d]
    BY <1>7 DEF Done, TypeOK
  <2>2. \A call \in late' : call \in late \/ \E d \in Consumers : pc[d] \in ScriptOps /\ call = CallOf(d)
    BY <1>7 DEF LeaveBehind
  <2> QED
    BY <1>4, <2>1, <2>2
<1>8. ASSUME NEW c \in Consumers,
             Create(c) \/ Write(c) \/ WriteRefused(c) \/ RecheckId(c) \/ RecheckPair(c)
      PROVE  AcksKnow'
  <2>1. PICK l \in {"finish", "write", "recheckId", "recheckPair", "reject"} : pc' = [pc EXCEPT ![c] = l]
    BY <1>8 DEF Create, Write, WriteRefused, RecheckId, RecheckPair, RejectFor
  <2>2. UNCHANGED <<late, cur>>
    BY <1>8 DEF Create, Write, WriteRefused, RecheckId, RecheckPair
  <2> QED
    BY <1>6, <2>1, <2>2
<1>9. ASSUME NEW c \in Consumers, WriteUnknown(c) \/ CallScript(c) \/ Abandon(c) \/ Restart(c)
      PROVE  AcksKnow'
  BY <1>7, <1>9 DEF WriteUnknown, CallScript, Abandon, Restart
<1>10. ASSUME NEW o \in OrderIds, Request(o) \/ Reserve(o) \/ GiveUp(o)
       PROVE  AcksKnow'
  BY <1>5, <1>10 DEF Request, Reserve, GiveUp, workerVars
<1>11. ASSUME NEW c \in Consumers, Claim(c) \/ Read(c)
       PROVE  AcksKnow'
  BY <1>5, <1>11 DEF Claim, Read
<1>12. CASE LateCall \/ Persist \/ UNCHANGED vars
  BY <1>5, <1>12 DEF LateCall, Persist, vars, workerVars
<1>13. CASE RedisCrash
  BY <1>13 DEF RedisCrash, TypeOK
<1> QED
  BY <1>3, <1>8, <1>9, <1>10, <1>11, <1>12, <1>13 DEF Next, Consume

-----------------------------------------------------------------------------
(* The theorems *)

\* The initial state is honest.
LEMMA HonestInit == Init => Honest
<1> SUFFICES ASSUME Init PROVE Honest
  OBVIOUS
<1>1. /\ EmptyRedis.stream = Garbage /\ EmptyRedis.fresh = Garbage
      /\ EmptyRedis.status = [o \in OrderIds |-> "none"]
  BY DEF EmptyRedis
<1>2. Settled(EmptyRedis)
  BY <1>1 DEF Settled
<1>3. Unbroken
  BY <1>1 DEF Init, Unbroken, Failed, AtEase
<1>4. AcksKnow
  BY DEF Init, AcksKnow, ScriptOps
<1> QED
  BY <1>2, <1>3, <1>4 DEF Init, Honest

\* Every step keeps the system honest.
LEMMA HonestStep ==
    TypeOK /\ TypeOK' /\ Routed /\ Routed' /\ IInv /\ Honest /\ [Next]_vars => Honest'
<1> SUFFICES ASSUME TypeOK, TypeOK', Routed, Routed', IInv, Honest, [Next]_vars
             PROVE  Honest'
  OBVIOUS
<1>0. crashes \in Nat
  BY DEF TypeOK
<1>1. CASE RedisCrash
  <2>1. crashes' = crashes + 1 /\ redis' = saved /\ late' = {} /\ UNCHANGED <<pc, cur, existing>>
    BY <1>1 DEF RedisCrash, workerVars
  <2>2. CASE crashes = 0
    <3>1. Unbroken /\ Settled(saved)
      BY <2>2 DEF Honest
    <3>2. AcksKnow'
      BY <2>1, <3>1 DEF AcksKnow, AckKnows, CallOf, Unbroken, AtEase
    <3> QED
      BY <2>1, <2>2, <3>1, <3>2 DEF Honest
  <2>3. CASE crashes # 0
    BY <1>0, <2>1, <2>3 DEF Honest
  <2> QED
    BY <2>2, <2>3
<1>2. CASE ~RedisCrash
  <2>1. crashes' = crashes
    BY <1>2 DEF Next, Consume, vars, Request, Reserve, GiveUp, Claim, Read, Pick, Create, Write,
                WriteUnknown, WriteRefused, RecheckId, RecheckPair, CallScript, Abandon, Restart,
                LateCall, Persist, redisVars
  <2>2. saved' = saved \/ saved' = redis
    BY <1>2 DEF Next, Consume, vars, Request, Reserve, GiveUp, Claim, Read, Pick, Create, Write,
                WriteUnknown, WriteRefused, RecheckId, RecheckPair, CallScript, Abandon, Restart,
                LateCall, Persist, redisVars
  <2>3. crashes = 0 => Unbroken' /\ Settled(saved')
    BY <2>1, <2>2, UnbrokenStep DEF Honest
  <2>4. crashes <= 1 => Settled(redis') /\ AcksKnow'
    BY <2>1, SettledStep, AcksKnowStep DEF Honest
  <2> QED
    BY <2>1, <2>3, <2>4 DEF Honest
<1> QED
  BY <1>1, <1>2

\* The strengthening holds in every reachable state.
THEOREM StaysHonest == Spec => []Honest
<1>1. TypeOK /\ TypeOK' /\ Routed /\ Routed' /\ IInv /\ Honest /\ [Next]_vars => Honest'
  BY HonestStep
<1> QED
  BY <1>1, HonestInit, TypeCorrect, InOrder, PTL DEF Spec

\* While Redis loses nothing, an accepted order is in the stream, MySQL has
\* room for it and no consumer rejects it (seckill.lua, OrderCreate).
THEOREM AcceptedIsKept == Spec => []AcceptedIsHonoured
<1>1. TypeOK /\ Honest => AcceptedIsHonoured
  BY DEF Honest, Unbroken, AcceptedIsHonoured, Live, Accepted
<1> QED
  BY <1>1, TypeCorrect, StaysHonest, PTL

\* Up to one loss of Redis, no message is acknowledged unsettled, whichever
\* script acknowledges it and however late (finish.lua, reject.lua, XACK).
THEOREM AcknowledgedIsDone == Spec => []AckedIsSettled
<1>1. TypeOK /\ Honest => AckedIsSettled
  <2> SUFFICES ASSUME TypeOK, Honest, crashes <= 1,
                      NEW m \in redis.stream \ (redis.fresh \cup redis.pel)
               PROVE  IF m \in OrderIds THEN redis.status[m] \in {"created", "failed"}
                                        ELSE redis.dead[m] = 1
    BY DEF AckedIsSettled
  <2>1. m \in Messages
    BY RedisFields DEF TypeOK
  <2> QED
    BY <2>1 DEF Honest, Settled, Messages
<1> QED
  BY <1>1, TypeCorrect, StaysHonest, PTL

-----------------------------------------------------------------------------
(* The refinement *)

\* The phase Purchase sees, in the state at hand.
Phase == [o \in OrderIds |-> PhaseOf(o)]

\* What PhaseOf reads.
LEMMA PhaseReads ==
    ASSUME redis'.status = redis.status, redis'.stream = redis.stream, orders' = orders
    PROVE  Phase' = Phase
BY DEF Phase, PhaseOf

\* Attempts that count for Purchase are the accepted ones, all of them live.
LEMMA TakenIsLive ==
    ASSUME TypeOK, IInv, Unbroken
    PROVE  {o \in OrderIds : PhaseOf(o) # "none"} = Live(redis)
<1>1. \A o \in OrderIds : redis.status[o] = "created" => o \in orders
  BY DEF IInv, RedisOK, VerdictsOK
<1>2. \A o \in OrderIds : PhaseOf(o) # "none" <=> o \in redis.stream
  BY <1>1 DEF PhaseOf, Unbroken
<1> QED
  BY <1>2 DEF Live, Accepted, Unbroken

\* The instance of Purchase counts as Seckill does.
LEMMA SameCount ==
    ASSUME NEW S
    PROVE  Promise!Cardinality(S) = Cardinality(S)
BY DEF Promise!Cardinality, Cardinality

\* A reservation is an acceptance: the slot is free and the campaign has room.
LEMMA ReserveAccepts ==
    ASSUME TypeOK, IInv, Unbroken, NEW o \in OrderIds, NEW now, Admits(redis, o, now),
           redis' = Reserved(redis, o), orders' = orders
    PROVE  Promise!Accept(o)
<1> DEFINE v == VoucherOf[o]
<1> redis \in RedisState /\ redis.status \in [OrderIds -> OrderStates] /\ ReservationsOK(redis)
    /\ redis.stock \in [Vouchers -> Nat] /\ v \in Vouchers
  BY RedisFields, SlotType DEF TypeOK, IInv, RedisOK
<1>1. {p \in OrderIds : Phase[p] # "none"} = Live(redis)
  BY TakenIsLive DEF Phase
<1>2. ASSUME NEW p \in Live(redis)
      PROVE  ~(UserOf[o] = UserOf[p] /\ VoucherOf[o] = VoucherOf[p])
  <2>1. p \in OrderIds /\ redis.buyers[Slot(p)] = p /\ redis.buyers[Slot(o)] = None
    BY DEF Live, Accepted, ReservationsOK, Admits
  <2> QED
    BY <2>1, ConstantsAssumption DEF Slot, ConstantsAssumption
<1>3. Cardinality({p \in Live(redis) : VoucherOf[p] = v}) < InitialStock[v]
  <2>1. IsFiniteSet(OfVoucher(Live(redis), v))
    BY ConstantsAssumption, FS_Subset DEF ConstantsAssumption, OfVoucher, Live, Accepted
  <2>2. redis.stock[v] + Cardinality(OfVoucher(Live(redis), v)) = InitialStock[v]
    BY DEF ReservationsOK
  <2>3. redis.stock[v] \in Nat /\ redis.stock[v] > 0
    BY DEF Admits
  <2>4. Cardinality(OfVoucher(Live(redis), v)) \in Nat
    BY <2>1, FS_CardinalityType
  <2>5. Cardinality(OfVoucher(Live(redis), v)) < InitialStock[v]
    BY <2>2, <2>3, <2>4
  <2> QED
    BY <2>5 DEF OfVoucher
<1>4. Phase[o] = "none" /\ Phase' = [Phase EXCEPT ![o] = "accepted"]
  <2>1. /\ redis'.status = [redis.status EXCEPT ![o] = "pending"]
        /\ redis'.stream = redis.stream \cup {o}
    BY ReservedFields
  <2>2. redis.status[o] = "none" /\ o \notin redis.stream
    BY DEF Admits, ReservationsOK, Accepted
  <2>3. o \notin orders
    BY <2>2 DEF Unbroken
  <2>4. PhaseOf(o) = "none" /\ PhaseOf(o)' = "accepted"
    BY <2>1, <2>2, <2>3 DEF PhaseOf
  <2>5. \A p \in OrderIds : p # o => PhaseOf(p)' = PhaseOf(p)
    BY <2>1 DEF PhaseOf
  <2> QED
    BY <2>4, <2>5 DEF Phase
<1> HIDE DEF v
<1>5. Promise!Taken = Live(redis)
  BY <1>1 DEF Promise!Taken, Phase
<1>6. Promise!Cardinality({p \in Live(redis) : VoucherOf[p] = VoucherOf[o]}) < InitialStock[VoucherOf[o]]
  BY <1>3, SameCount DEF v
<1>7. Promise!Advance(o, "none", "accepted")
  BY <1>4 DEF Promise!Advance, Phase
<1> QED
  BY <1>2, <1>5, <1>6, <1>7 DEF Promise!Accept, Promise!SameBuyer

\* A commit is a sale.
LEMMA CommitSells ==
    ASSUME TypeOK, IInv, NEW o \in OrderIds, o \in redis.stream, o \notin orders,
           orders' = orders \cup {o}, redis' = redis
    PROVE  Promise!Sell(o)
<1>1. redis.status[o] # "created"
  BY DEF IInv, RedisOK, VerdictsOK
<1>2. PhaseOf(o) = "accepted" /\ PhaseOf(o)' = "sold"
  BY <1>1 DEF PhaseOf
<1>3. \A p \in OrderIds : p # o => PhaseOf(p)' = PhaseOf(p)
  BY DEF PhaseOf
<1>4. Phase[o] = "accepted" /\ Phase' = [Phase EXCEPT ![o] = "sold"]
  BY <1>2, <1>3 DEF Phase
<1> QED
  BY <1>4 DEF Promise!Sell, Promise!Advance, Phase

\* finish.lua reports a sale or repeats the report; the other scripts that
\* run while nothing is lost do not show.
LEMMA ScriptReports ==
    ASSUME TypeOK, IInv, NEW call \in Calls, RoutedCall(call), CallOK(call, orders, dbStock),
           call.op \in {"finish", "quarantine"}, redis' = RunScript(redis, call), orders' = orders
    PROVE  (Promise!Report(call.msg) /\ call.msg \in OrderIds) \/ Phase' = Phase
<1> DEFINE o == call.msg
<1> redis \in RedisState /\ redis.status \in [OrderIds -> OrderStates]
  BY RedisFields DEF TypeOK
<1>0. redis'.stream = redis.stream
  BY ScriptQueue
<1>1. CASE call.op = "quarantine"
  <2>1. Quarantined(redis, o).status = redis.status
    BY DEF Quarantined, Acked, RedisState
  <2> QED
    BY <1>0, <1>1, <2>1, PhaseReads DEF RunScript
<1>2. CASE call.op = "finish"
  <2>1. redis'.status = [redis.status EXCEPT ![o] = "created"]
    BY <1>2 DEF RunScript, Finished, Acked, RedisState
  <2>2. o \in OrderIds /\ o \in orders
    BY <1>2 DEF RoutedCall, OrderOps, CallOK
  <2>3. CASE redis.status[o] = "created"
    BY <1>0, <2>1, <2>3, PhaseReads
  <2>4. CASE redis.status[o] # "created"
    <3>1. PhaseOf(o) = "sold" /\ PhaseOf(o)' = "reported"
      BY <2>1, <2>2, <2>4 DEF PhaseOf
    <3>2. \A p \in OrderIds : p # o => PhaseOf(p)' = PhaseOf(p)
      BY <1>0, <2>1 DEF PhaseOf
    <3>3. Phase[o] = "sold" /\ Phase' = [Phase EXCEPT ![o] = "reported"]
      BY <2>2, <3>1, <3>2 DEF Phase
    <3> QED
      BY <2>2, <3>3 DEF Promise!Report, Promise!Advance, Phase
  <2> QED
    BY <2>3, <2>4
<1> QED
  BY <1>1, <1>2

\* A step is an acceptance, a sale, a report, or does not show.
LEMMA PromiseStep ==
    TypeOK /\ Routed /\ IInv /\ Unbroken /\ [Next]_vars /\ crashes' = crashes
        => [Promise!Next]_Phase
<1> SUFFICES ASSUME TypeOK, Routed, IInv, Unbroken, [Next]_vars, crashes' = crashes
             PROVE  Promise!Next \/ Phase' = Phase
  OBVIOUS
<1>1. ASSUME NEW o \in OrderIds, Promise!Accept(o) \/ Promise!Sell(o) \/ Promise!Report(o)
      PROVE  Promise!Next
  BY <1>1 DEF Promise!Next
<1>2. ASSUME NEW o \in OrderIds, Reserve(o) PROVE Promise!Next \/ Phase' = Phase
  <2>1. orders' = orders /\ (redis' = redis \/ \E now : Admits(redis, o, now) /\ redis' = Reserved(redis, o))
    BY <1>2 DEF Reserve, dbVars
  <2> QED
    BY <1>1, <2>1, ReserveAccepts, PhaseReads
<1>3. ASSUME NEW c \in Consumers, Write(c) \/ WriteUnknown(c) PROVE Promise!Next
  <2>1. /\ cur[c] \in OrderIds /\ cur[c] \in redis.stream /\ cur[c] \notin orders
        /\ orders' = orders \cup {cur[c]} /\ redis' = redis
    BY <1>3 DEF Write, WriteUnknown, Insert, Insertable, redisVars, Routed, Unbroken, AtEase
  <2> QED
    BY <1>1, <2>1, CommitSells
<1>4. ASSUME NEW c \in Consumers, CallScript(c) PROVE Promise!Next \/ Phase' = Phase
  <2>1. /\ CallOf(c) \in Calls /\ RoutedCall(CallOf(c)) /\ CallOK(CallOf(c), orders, dbStock)
        /\ CallOf(c).op \in {"finish", "quarantine"}
    BY <1>4, CallTyped, EaseCall DEF CallScript, IInv, Knowledge
  <2>2. redis' = RunScript(redis, CallOf(c)) /\ orders' = orders
    BY <1>4 DEF CallScript, dbVars
  <2> QED
    BY <1>1, <2>1, <2>2, ScriptReports
<1>5. CASE LateCall
  <2>1. PICK call \in late : redis' = RunScript(redis, call)
    BY <1>5 DEF LateCall
  <2>2. /\ call \in Calls /\ RoutedCall(call) /\ CallOK(call, orders, dbStock)
        /\ call.op \in {"finish", "quarantine"} /\ orders' = orders
    BY <1>5 DEF LateCall, dbVars, TypeOK, Routed, IInv, Knowledge, Unbroken
  <2> QED
    BY <1>1, <2>1, <2>2, ScriptReports
<1>6. ASSUME NEW c \in Consumers, Read(c) PROVE Phase' = Phase
  <2>1. \A D : Delivered(redis, D).stream = redis.stream /\ Delivered(redis, D).status = redis.status
    BY DEF Delivered, RedisState, TypeOK
  <2> QED
    BY <1>6, <2>1, PhaseReads DEF Read, dbVars
<1>7. ASSUME redis' = redis, orders' = orders PROVE Phase' = Phase
  BY <1>7, PhaseReads
<1>8. CASE RedisCrash
  BY <1>8 DEF RedisCrash, TypeOK
<1> QED
  BY <1>2, <1>3, <1>4, <1>5, <1>6, <1>7, <1>8
  DEF Next, Consume, vars, Request, GiveUp, Claim, Pick, Create, WriteRefused, RecheckId,
      RecheckPair, Abandon, Restart, Persist, redisVars, dbVars

\* While Redis loses nothing, every step of requests, scripts, transactions,
\* retries and restarts of consumers is a step of Purchase or invisible to it.
THEOREM ImplementsPurchase ==
    ASSUME MaxRedisCrash = 0
    PROVE  Spec => KeepsPromise
<1>1. Init => Promise!Init
  <2>1. ASSUME Init PROVE \A o \in OrderIds : PhaseOf(o) = "none"
    BY <2>1, ConstantsAssumption DEF Init, EmptyRedis, PhaseOf, ConstantsAssumption
  <2> QED
    BY <2>1 DEF Promise!Init
<1>2. /\ TypeOK /\ TypeOK' /\ Routed /\ IInv /\ Honest /\ [Next]_vars
      => [Promise!Next]_([o \in OrderIds |-> PhaseOf(o)])
  <2>1. TypeOK /\ TypeOK' => crashes = 0 /\ crashes' = 0
    BY DEF TypeOK
  <2> QED
    BY <2>1, PromiseStep DEF Honest, Phase
<1> QED
  BY <1>1, <1>2, TypeCorrect, InOrder, StaysHonest, PTL DEF Spec, KeepsPromise, Promise!Spec

=============================================================================
