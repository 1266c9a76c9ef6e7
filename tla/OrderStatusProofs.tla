------------------------- MODULE OrderStatusProofs -------------------------
(***************************************************************************)
(* What a client is told of an order stays true, for every instance of the  *)
(* flash sale and any number of restarts of Redis.  The theorems of the      *)
(* flash sale carry over, because a question changes nothing of it; what     *)
(* has to be added is what an answer given means for the present state.      *)
(***************************************************************************)
EXTENDS OrderStatus, SeckillHonourProofs

\* A verdict that was given holds, a question without a row so far is of an
\* order not called created, and while nothing is lost it is in the stream.
ToldTruth ==
    /\ StatusTypeOK
    /\ \A o \in OrderIds :
          /\ told[o] = "created" => o \in orders
          /\ told[o] = "failed" => Beaten(o, orders, dbStock)
          /\ crashes = 0 => told[o] \notin {"failed", "notfound"}
    /\ asking = None => source = "mysql"
    /\ asking # None =>
          /\ crashes = 0 => asking \in redis.stream
          /\ source = "redis" => told[asking] # "created"

\* What StatusIsFinal says of a step.
Final ==
    \A o \in OrderIds :
        /\ told'[o] = "created" => o \in orders
        /\ told[o] = "created" => told'[o] = "created"
        /\ told[o] = "failed" => told'[o] # "created"
        /\ crashes' = 0 => /\ told'[o] # "notfound"
                           /\ told[o] = "failed" => told'[o] = "failed"

-----------------------------------------------------------------------------

\* To the flash sale a question is a step that changes nothing.
LEMMA SeckillStep == [StatusNext]_allVars => [Next]_vars
BY DEF StatusNext, allVars, vars, Ask, ReadMySQL, ReadRedis, AskFails

\* So all of it that was proved of the flash sale holds.
LEMMA SeckillHolds == StatusSpec => [](TypeOK /\ Routed /\ IInv /\ Honest)
<1>1. StatusInit => Init
  BY DEF StatusInit
<1> QED
  BY <1>1, SeckillStep, TypeCorrect, InOrder, StaysHonest, PTL DEF StatusSpec, Spec

\* Committed orders stay, and so does a verdict against an order.
LEMMA BooksMove ==
    ASSUME TypeOK, Routed, [Next]_vars, NEW o \in OrderIds
    PROVE  /\ o \in orders => o \in orders'
           /\ Beaten(o, orders, dbStock) => Beaten(o, orders', dbStock')
<1>1. ASSUME NEW c \in Consumers, Write(c) \/ WriteUnknown(c)
      PROVE  /\ o \in orders => o \in orders'
             /\ Beaten(o, orders, dbStock) => Beaten(o, orders', dbStock')
  <2>1. cur[c] \in OrderIds /\ Insert(cur[c])
    BY <1>1 DEF Write, WriteUnknown, Routed
  <2>2. /\ Fits(cur[c], orders, dbStock)
        /\ orders' = orders \cup {cur[c]}
        /\ dbStock' = [dbStock EXCEPT ![VoucherOf[cur[c]]] = @ - 1]
        /\ orders \in SUBSET OrderIds /\ dbStock \in [Vouchers -> Nat]
    BY <2>1, InsertFits DEF TypeOK
  <2> QED
    BY <2>1, <2>2, CommitBeaten
<1>2. CASE UNCHANGED dbVars
  BY <1>2 DEF dbVars
<1> QED
  BY <1>1, <1>2
  DEF Next, Consume, vars, Request, Reserve, GiveUp, Claim, Read, Pick, Create, WriteRefused,
      RecheckId, RecheckPair, CallScript, Abandon, Restart, LateCall, Persist, RedisCrash, dbVars

\* While nothing is lost the stream only grows.
LEMMA StreamGrows ==
    ASSUME TypeOK, Routed, [Next]_vars, crashes' = 0
    PROVE  crashes = 0 /\ redis.stream \subseteq redis'.stream
<1> redis \in RedisState
  BY DEF TypeOK
<1>1. CASE redis' = redis /\ crashes' = crashes
  BY <1>1
<1>2. ASSUME NEW o \in OrderIds, Reserve(o)
      PROVE  crashes' = crashes /\ redis.stream \subseteq redis'.stream
  <2>1. Reserved(redis, o).stream = redis.stream \cup {o}
    BY ReservedFields
  <2> QED
    BY <1>2, <2>1 DEF Reserve
<1>3. ASSUME NEW c \in Consumers, Read(c)
      PROVE  crashes' = crashes /\ redis.stream \subseteq redis'.stream
  <2>1. \A D : Delivered(redis, D).stream = redis.stream
    BY DEF Delivered, RedisState
  <2> QED
    BY <1>3, <2>1 DEF Read
<1>4. ASSUME NEW c \in Consumers, CallScript(c)
      PROVE  crashes' = crashes /\ redis.stream \subseteq redis'.stream
  BY <1>4, CallTyped, ScriptQueue DEF CallScript
<1>5. CASE LateCall
  BY <1>5, ScriptQueue DEF LateCall, TypeOK
<1>6. CASE RedisCrash
  BY <1>6 DEF RedisCrash, TypeOK
<1> QED
  BY <1>1, <1>2, <1>3, <1>4, <1>5, <1>6
  DEF Next, Consume, vars, Request, GiveUp, Claim, Pick, Create, Write, WriteUnknown, WriteRefused,
      RecheckId, RecheckPair, Abandon, Restart, Persist, redisVars

-----------------------------------------------------------------------------

\* Nothing was told at the start.
LEMMA ToldInit == StatusInit => ToldTruth
BY DEF StatusInit, Init, ToldTruth, StatusTypeOK, Answers

\* A step keeps what was told true, and no answer contradicts an earlier one.
LEMMA ToldStep ==
    /\ TypeOK /\ Routed /\ IInv /\ Honest /\ ToldTruth /\ [StatusNext]_allVars
    => ToldTruth' /\ (Final \/ UNCHANGED allVars)
<1> SUFFICES ASSUME TypeOK, Routed, IInv, Honest, ToldTruth, [StatusNext]_allVars
             PROVE  ToldTruth' /\ (Final \/ UNCHANGED allVars)
  OBVIOUS
<1> StatusTypeOK /\ redis.status \in [OrderIds -> OrderStates]
  BY RedisFields DEF ToldTruth, TypeOK
<1> None \notin OrderIds
  BY ConstantsAssumption DEF ConstantsAssumption
<1>1. CASE UNCHANGED allVars
  BY <1>1 DEF allVars, ToldTruth, StatusTypeOK, Beaten
<1>2. CASE Next /\ UNCHANGED statusVars
  <2>1. told' = told /\ asking' = asking /\ source' = source /\ [Next]_vars
    BY <1>2 DEF statusVars
  <2>2. crashes' = 0 => crashes = 0 /\ redis.stream \subseteq redis'.stream
    BY <2>1, StreamGrows
  <2>3. \A o \in OrderIds : /\ o \in orders => o \in orders'
                            /\ Beaten(o, orders, dbStock) => Beaten(o, orders', dbStock')
    BY <2>1, BooksMove
  <2>4. ToldTruth'
    BY <2>1, <2>2, <2>3 DEF ToldTruth, StatusTypeOK
  <2>5. Final
    BY <2>1, <2>2 DEF Final, ToldTruth
  <2> QED
    BY <2>4, <2>5
<1>3. ASSUME NEW o \in OrderIds, Ask(o) PROVE ToldTruth' /\ Final
  <2>1. /\ told' = told /\ source' = source /\ asking' = o /\ req[o] = "ok"
        /\ UNCHANGED <<redis, crashes, orders, dbStock>>
    BY <1>3 DEF Ask, vars
  <2>2. source = "mysql"
    BY <1>3 DEF Ask, ToldTruth
  <2>3. crashes = 0 => o \in redis.stream
    BY <2>1 DEF Honest, Unbroken
  <2>4. ToldTruth'
    BY <2>1, <2>2, <2>3 DEF ToldTruth, StatusTypeOK
  <2>5. Final
    BY <2>1 DEF Final, ToldTruth
  <2> QED
    BY <2>4, <2>5
<1>4. ASSUME asking # None, NEW answer \in Answers, Tell(answer), UNCHANGED vars,
             answer = "created" => asking \in orders,
             answer = "failed" => Beaten(asking, orders, dbStock),
             crashes = 0 => answer \notin {"failed", "notfound"},
             told[asking] = "created" => answer = "created"
      PROVE  ToldTruth' /\ Final
  <2>1. /\ told' = [told EXCEPT ![asking] = answer] /\ asking' = None /\ source' = "mysql"
        /\ UNCHANGED <<redis, crashes, orders, dbStock>>
    BY <1>4 DEF Tell, vars
  <2>2. asking \in OrderIds /\ told \in [OrderIds -> Answers]
    BY <1>4 DEF StatusTypeOK
  <2>3. ToldTruth'
    BY <1>4, <2>1, <2>2 DEF ToldTruth, StatusTypeOK
  <2>4. told[asking] = "failed" => asking \notin orders
    BY <2>2 DEF ToldTruth, Beaten
  <2>5. Final
    BY <1>4, <2>1, <2>2, <2>4 DEF Final, ToldTruth
  <2> QED
    BY <2>3, <2>5
<1>5. CASE ReadMySQL
  <2>1. CASE asking \in orders
    <3>1. Tell("created") /\ UNCHANGED vars /\ asking # None
      BY <1>5, <2>1 DEF ReadMySQL
    <3> QED
      BY <1>4, <2>1, <3>1 DEF Answers
  <2>2. CASE asking \notin orders
    <3>1. /\ source' = "redis" /\ told' = told /\ asking' = asking /\ asking # None
          /\ UNCHANGED <<redis, crashes, orders, dbStock>>
      BY <1>5, <2>2 DEF ReadMySQL, vars
    <3>2. told[asking] # "created"
      BY <2>2, <3>1 DEF ToldTruth, StatusTypeOK
    <3>3. ToldTruth'
      BY <3>1, <3>2 DEF ToldTruth, StatusTypeOK
    <3>4. Final
      BY <3>1 DEF Final, ToldTruth
    <3> QED
      BY <3>3, <3>4
  <2> QED
    BY <2>1, <2>2
<1>6. CASE ReadRedis
  <2> DEFINE answer == IF redis.status[asking] = "none" THEN "notfound" ELSE redis.status[asking]
  <2>1. asking \in OrderIds /\ asking # None /\ Tell(answer) /\ UNCHANGED vars /\ told[asking] # "created"
    BY <1>6 DEF ReadRedis, ToldTruth, StatusTypeOK
  <2>2. answer \in Answers
    BY <2>1 DEF Answers, OrderStates
  <2>3. /\ answer = "created" => asking \in orders
        /\ answer = "failed" => Beaten(asking, orders, dbStock)
    BY <2>1 DEF IInv, RedisOK, VerdictsOK
  <2>4. ASSUME crashes = 0 PROVE answer \notin {"failed", "notfound"}
    <3>1. asking \in redis.stream /\ Failed(redis) = {}
      BY <2>1, <2>4 DEF ToldTruth, Honest, Unbroken
    <3>2. redis.status[asking] \in {"pending", "created"}
      BY <2>1, <3>1 DEF IInv, RedisOK, ReservationsOK, Accepted, Failed, OrderStates
    <3> QED
      BY <3>2
  <2> HIDE DEF answer
  <2> QED
    BY <1>4, <2>1, <2>2, <2>3, <2>4
<1>7. CASE AskFails
  <2>1. asking \in OrderIds /\ asking # None /\ Tell(told[asking]) /\ UNCHANGED vars
    BY <1>7 DEF AskFails, StatusTypeOK
  <2>2. told[asking] \in Answers
    BY <2>1 DEF StatusTypeOK
  <2> QED
    BY <1>4, <2>1, <2>2 DEF ToldTruth
<1> QED
  BY <1>1, <1>2, <1>3, <1>5, <1>6, <1>7 DEF StatusNext

\* No answer is taken back: "created" is repeated, "failed" never becomes
\* "created", and without a loss no accepted order is unknown (GetOrderStatus).
THEOREM AnswersAreFinal == StatusSpec => StatusIsFinal
<1>1. TypeOK /\ Routed /\ IInv /\ Honest /\ ToldTruth /\ [StatusNext]_allVars
         => ToldTruth' /\ [Final]_allVars
  BY ToldStep
<1>2. StatusSpec => [][Final]_allVars
  BY <1>1, ToldInit, SeckillHolds, PTL DEF StatusSpec
<1> QED
  BY <1>2 DEF StatusIsFinal, Final

=============================================================================
