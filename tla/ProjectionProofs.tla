-------------------------- MODULE ProjectionProofs --------------------------
(***************************************************************************)
(* Theorems about Projection, for every set of blogs, users and calls, any   *)
(* requests and any number of late scripts and losses.                      *)
(***************************************************************************)
EXTENDS Projection, FiniteSetTheorems, WellFoundedInduction, TLAPS

-----------------------------------------------------------------------------
(* The strengthening *)

\* The rows whose copies a call replaces.
CopyRows(c) ==
    IF req[c].op = "common" THEN {req[c].row, req[c].member} ELSE {req[c].row}

\* What each call holds at its place, the lower row before the higher.
LocksOf(c) ==
    /\ pc[c] \in {"idle", "lock"} => held[c] = {}
    /\ pc[c] \in {"count", "write"} => held[c] = {req[c].row}
    /\ pc[c] = "lockCopy" =>
          /\ held[c] \subseteq CopyRows(c) /\ held[c] # CopyRows(c)
          /\ \A j \in held[c], k \in CopyRows(c) \ held[c] : Id[j] < Id[k]
    /\ pc[c] \in {"read", "script", "sinter", "answer"} => held[c] = CopyRows(c)

\* Which requests come there, and that a toggle knows the like under its lock.
OpsOf(c) ==
    /\ pc[c] \in {"lock", "count", "write"} => req[c].op \in {"toggle", "follow", "unfollow"}
    /\ pc[c] = "count" => req[c].op = "toggle"
    /\ pc[c] = "write" /\ req[c].op = "toggle" => (found[c] <=> req[c].member \in table[req[c].row])
    /\ pc[c] = "sinter" => req[c].op = "common"

\* What is answered, see AnswersAreCurrent.
AnswerOK(c) ==
    IF req[c].op # "common" THEN ans[c] = table[req[c].row]
    ELSE /\ \A k \in held[c] \ over[c] : ans[c] \subseteq table[k]
         /\ over[c] = {} => ans[c] = Common(c, table)

\* A snapshot stays true while its rows are held, and a copy that was replaced
\* stays so unless a late script or a loss comes between.
ReadsOf(c) ==
    /\ pc[c] \in {"script", "sinter", "answer"} => \A k \in held[c] : snap[c][k] = table[k]
    /\ pc[c] = "script" => todo[c] \subseteq held[c]
    /\ pc[c] = "sinter" => todo[c] = {}
    /\ pc[c] \in {"script", "sinter"} /\ req[c].op = "common" =>
          \A k \in held[c] \ (todo[c] \cup over[c]) : copy[k] = table[k]
    /\ pc[c] = "answer" => AnswerOK(c)

CallOK(c) == LocksOf(c) /\ OpsOf(c) /\ ReadsOf(c)

\* A row is held by one call.
Exclusive == \A c, d \in Calls : c # d => held[c] \cap held[d] = {}

IInv == TypeOK /\ CountMatches /\ Exclusive /\ \A c \in Calls : CallOK(c)

Places == {"idle", "lock", "count", "write", "lockCopy", "read", "script", "sinter", "answer"}

-----------------------------------------------------------------------------
(* Lemmas *)

\* What a request may be.
LEMMA RequestType ==
    ASSUME TypeOK, NEW c \in Calls
    PROVE  /\ req[c].row \in Keys /\ req[c].member \in Users /\ Users \subseteq Keys
           /\ req[c].op = "toggle" => req[c].row \in Blogs
           /\ req[c].op \in {"follow", "unfollow", "common"} => req[c].row \in Users
           /\ RowsOf(c) \subseteq Keys /\ CopyRows(c) \subseteq Keys
<1>1. req[c] \in Request
  BY ConstantsAssumption DEF ConstantsAssumption, TypeOK
<1> QED
  BY <1>1 DEF Request, Keys, RowsOf, CopyRows

\* The next row is one that is still to be locked, and the lowest of them.
LEMMA NextRowType ==
    ASSUME TypeOK, NEW c \in Calls, RowsOf(c) \ held[c] # {}
    PROVE  /\ NextRow(c) \in RowsOf(c) \ held[c]
           /\ \A j \in RowsOf(c) \ held[c] : Id[NextRow(c)] <= Id[j]
<1> DEFINE L(k) == \A j \in RowsOf(c) \ held[c] : Id[k] <= Id[j]
<1>1. \A k \in Keys : Id[k] \in Nat
  BY ConstantsAssumption DEF ConstantsAssumption
<1>2. \E k \in RowsOf(c) \ held[c] : L(k)
  BY <1>1, RequestType DEF RowsOf
<1>3. NextRow(c) = CHOOSE k \in RowsOf(c) \ held[c] : L(k)
  BY DEF NextRow
<1> HIDE DEF L
<1>4. NextRow(c) \in RowsOf(c) \ held[c] /\ L(NextRow(c))
  BY <1>2, <1>3
<1> QED
  BY <1>4 DEF L

\* A call that locks rows wants more, copies of common follows aside only one.
LEMMA Wants ==
    ASSUME TypeOK, NEW c \in Calls, LocksOf(c), OpsOf(c), pc[c] \in {"lock", "lockCopy"}
    PROVE  /\ RowsOf(c) \ held[c] # {}
           /\ pc[c] = "lockCopy" => RowsOf(c) = CopyRows(c)
           /\ pc[c] = "lock" => RowsOf(c) = {req[c].row}
BY DEF LocksOf, OpsOf, RowsOf, CopyRows

-----------------------------------------------------------------------------
(* Type correctness *)

LEMMA InitType == Init => TypeOK
<1> SUFFICES ASSUME Init PROVE TypeOK
  OBVIOUS
<1>1. NoRequest \in Requests
  BY ConstantsAssumption DEF ConstantsAssumption, NoRequest
<1>2. Legacy \in [Blogs -> Nat] /\ MaxLoss \in Nat
  BY ConstantsAssumption DEF ConstantsAssumption
<1> QED
  BY <1>1, <1>2 DEF Init, TypeOK, NoSnap, Members

LEMMA ReleaseType ==
    ASSUME TypeOK, NEW c \in Calls, Release(c)
    PROVE  /\ held' \in [Calls -> SUBSET Keys] /\ found' \in [Calls -> BOOLEAN]
           /\ snap' \in [Calls -> [Keys -> Members]] /\ todo' \in [Calls -> SUBSET Keys]
           /\ ans' \in [Calls -> Members] /\ over' \in [Calls -> SUBSET Keys]
<1>1. NoSnap \in [Keys -> Members]
  BY DEF NoSnap, Members
<1> QED
  BY <1>1 DEF Release, Set, TypeOK, Members

LEMMA EndType ==
    ASSUME TypeOK, NEW c \in Calls, End(c)
    PROVE  /\ pc' \in [Calls -> Places] /\ req' \in [Calls -> Requests]
           /\ held' \in [Calls -> SUBSET Keys] /\ found' \in [Calls -> BOOLEAN]
           /\ snap' \in [Calls -> [Keys -> Members]] /\ todo' \in [Calls -> SUBSET Keys]
           /\ ans' \in [Calls -> Members] /\ over' \in [Calls -> SUBSET Keys]
<1>1. NoRequest \in Requests
  BY ConstantsAssumption DEF ConstantsAssumption, NoRequest
<1> QED
  BY <1>1, ReleaseType DEF End, Goto, Set, TypeOK, Places

\* What a call without a reply leaves in Redis.
LEMMA UnansweredType ==
    ASSUME TypeOK, NEW c \in Calls, Unanswered(c)
    PROVE  copy' \in [Keys -> Members] /\ late' \subseteq [key : Keys, val : Members]
<1>1. PICK k \in todo[c] :
        \/ UNCHANGED <<copy, late>>
        \/ copy' = Set(copy, k, snap[c][k]) /\ UNCHANGED late
        \/ late' = late \cup {[key |-> k, val |-> snap[c][k]]} /\ UNCHANGED copy
  BY DEF Unanswered
<1>2. k \in Keys /\ snap[c][k] \in Members
  BY DEF TypeOK
<1> QED
  BY <1>1, <1>2 DEF TypeOK, Set

LEMMA WriteType ==
    ASSUME TypeOK, NEW c \in Calls, OpsOf(c), Write(c)
    PROVE  TypeOK'
<1>1. table' \in [Keys -> Members] /\ liked' \in [Blogs -> Nat]
  <2>1. CASE req[c].op = "toggle"
    <3> DEFINE b == req[c].row
               M == IF found[c] THEN table[b] \ {req[c].member} ELSE table[b] \cup {req[c].member}
               n == IF ~found[c] THEN liked[b] + 1 ELSE IF liked[b] > 0 THEN liked[b] - 1 ELSE 0
    <3>1. table' = [table EXCEPT ![b] = M] /\ liked' = [liked EXCEPT ![b] = n]
      BY <2>1 DEF Write, Toggle
    <3>2. b \in Keys /\ b \in Blogs /\ req[c].member \in Users
      BY <2>1, RequestType
    <3>3. M \in Members /\ n \in Nat
      BY <3>2 DEF TypeOK, Members
    <3> HIDE DEF M, n, b
    <3> QED
      BY <3>1, <3>2, <3>3 DEF TypeOK
  <2>2. CASE req[c].op # "toggle"
    <3> DEFINE u == req[c].row
               t == req[c].member
               M == IF req[c].op = "follow" THEN table[u] \cup {t} ELSE table[u] \ {t}
    <3>1. table' = [table EXCEPT ![u] = M] /\ liked' = liked
      BY <2>2 DEF Write, Follow
    <3>2. u \in Keys /\ t \in Users
      BY RequestType
    <3>3. M \in Members
      BY <3>2 DEF TypeOK, Members
    <3> HIDE DEF M, u
    <3> QED
      BY <3>1, <3>2, <3>3 DEF TypeOK
  <2> QED
    BY <2>1, <2>2
<1>2. CASE End(c)
  BY <1>1, <1>2, EndType DEF Write, TypeOK, redisVars, Places
<1>3. CASE Goto(c, "lockCopy") /\ Release(c) /\ UNCHANGED req
  BY <1>1, <1>3, ReleaseType DEF Write, TypeOK, redisVars, Goto, Set
<1> QED
  BY <1>2, <1>3 DEF Write

LEMMA CallType ==
    ASSUME TypeOK, NEW c \in Calls, LocksOf(c), OpsOf(c),
           Start(c) \/ Lock(c) \/ Count(c) \/ Read(c) \/ Script(c)
               \/ ScriptFails(c) \/ SInter(c) \/ Answer(c) \/ Abort(c)
    PROVE  TypeOK'
<1>1. CASE Start(c)
  BY <1>1 DEF Start, Goto, Set, TypeOK, dbVars, redisVars
<1>2. CASE Lock(c)
  <2>1. NextRow(c) \in Keys
    BY <1>2, Wants, NextRowType, RequestType DEF Lock
  <2> QED
    BY <1>2, <2>1 DEF Lock, Goto, Set, TypeOK, dbVars, redisVars
<1>3. CASE Count(c)
  BY <1>3 DEF Count, Goto, Set, TypeOK, dbVars, redisVars
<1>4. CASE Read(c)
  <2>1. [k \in Keys |-> IF k \in held[c] THEN table[k] ELSE {}] \in [Keys -> Members]
    BY DEF TypeOK, Members
  <2> QED
    BY <1>4, <2>1 DEF Read, Goto, Set, TypeOK, dbVars, redisVars
<1>5. CASE Script(c)
  <2>1. PICK k \in todo[c] : /\ copy' = Set(copy, k, snap[c][k])
                             /\ todo' = Set(todo, c, todo[c] \ {k})
                             /\ over' = Set(over, c, over[c] \ {k})
                             /\ ans' = Set(ans, c, IF req[c].op = "common" THEN {} ELSE snap[c][k])
    BY <1>5 DEF Script, Reply
  <2>2. k \in Keys /\ snap[c][k] \in Members /\ {} \in Members
    BY DEF TypeOK, Members
  <2> QED
    BY <1>5, <2>1, <2>2 DEF Script, Goto, Set, TypeOK, dbVars
<1>6. CASE ScriptFails(c)
  <2>1. Persisted(c) \in Members
    BY RequestType DEF Persisted, Common, TypeOK, Members
  <2> QED
    BY <1>6, <2>1, UnansweredType DEF ScriptFails, Goto, Set, TypeOK, dbVars
<1>7. CASE SInter(c)
  <2>1. Persisted(c) \in Members /\ Common(c, copy) \in Members
    BY RequestType DEF Persisted, Common, TypeOK, Members
  <2> QED
    BY <1>7, <2>1 DEF SInter, Goto, Set, TypeOK, dbVars, redisVars
<1>8. CASE Answer(c)
  BY <1>8, EndType DEF Answer, TypeOK, dbVars, redisVars, Places
<1>9. CASE Abort(c)
  BY <1>9, EndType, UnansweredType DEF Abort, TypeOK, dbVars, Places
<1> QED
  BY <1>1, <1>2, <1>3, <1>4, <1>5, <1>6, <1>7, <1>8, <1>9

\* Copies that are overwritten are of keys.
LEMMA OverType ==
    ASSUME TypeOK, NEW k \in Keys, Overwrites(k)
    PROVE  over' \in [Calls -> SUBSET Keys]
BY DEF Overwrites, TypeOK

LEMMA RedisType ==
    ASSUME TypeOK, LateScript \/ \E k \in Keys : Lose(k)
    PROVE  TypeOK'
<1>1. CASE LateScript
  <2>1. PICK s \in late : copy' = Set(copy, s.key, s.val) /\ late' = late \ {s} /\ Overwrites(s.key)
    BY <1>1 DEF LateScript
  <2>2. s.key \in Keys /\ s.val \in Members
    BY DEF TypeOK
  <2>3. over' \in [Calls -> SUBSET Keys]
    BY <2>1, <2>2, OverType
  <2> QED
    BY <1>1, <2>1, <2>2, <2>3 DEF LateScript, Set, TypeOK, dbVars
<1>2. ASSUME NEW k \in Keys, Lose(k) PROVE TypeOK'
  <2>1. MaxLoss \in Nat /\ {} \in Members
    BY ConstantsAssumption DEF ConstantsAssumption, Members
  <2>2. over' \in [Calls -> SUBSET Keys]
    BY <1>2, OverType DEF Lose
  <2> QED
    BY <1>2, <2>1, <2>2 DEF Lose, Set, TypeOK, dbVars
<1> QED
  BY <1>1, <1>2

LEMMA NextType ==
    ASSUME TypeOK, \A c \in Calls : CallOK(c), Next
    PROVE  TypeOK'
BY WriteType, CallType, RedisType DEF Next, CallOK

-----------------------------------------------------------------------------
(* Counters *)

\* A like more or less is one more or less in the set of likes.
LEMMA OneMore ==
    ASSUME NEW S \in Members, NEW u \in Users
    PROVE  /\ Cardinality(S) \in Nat
           /\ u \notin S => Cardinality(S \cup {u}) = Cardinality(S) + 1
           /\ u \in S => Cardinality(S) > 0 /\ Cardinality(S \ {u}) = Cardinality(S) - 1
<1>1. IsFiniteSet(S)
  BY ConstantsAssumption, FS_Subset DEF ConstantsAssumption, Members
<1>2. Cardinality(S) \in Nat
  BY <1>1, FS_CardinalityType
<1>3. u \notin S => Cardinality(S \cup {u}) = Cardinality(S) + 1
  BY <1>1, FS_AddElement
<1>4. u \in S => Cardinality(S \ {u}) = Cardinality(S) - 1 /\ Cardinality(S \ {u}) \in Nat
  BY <1>1, FS_RemoveElement, FS_CardinalityType, FS_Subset
<1> QED
  BY <1>2, <1>3, <1>4

LEMMA WriteCounts ==
    ASSUME TypeOK, CountMatches, NEW c \in Calls, OpsOf(c), Write(c)
    PROVE  CountMatches'
<1>1. Legacy \in [Blogs -> Nat] /\ \A b \in Blogs : b \in Keys /\ b \notin Users
  BY ConstantsAssumption DEF ConstantsAssumption, Keys
<1>2. CASE req[c].op # "toggle"
  <2>1. liked' = liked /\ req[c].row \in Users
    BY <1>2, RequestType DEF Write, Follow, OpsOf
  <2>2. \A b \in Blogs : table'[b] = table[b]
    BY <1>1, <1>2, <2>1 DEF Write, Follow, TypeOK
  <2> QED
    BY <2>1, <2>2 DEF CountMatches
<1>3. CASE req[c].op = "toggle"
  <2> DEFINE b == req[c].row
             u == req[c].member
             M == IF found[c] THEN table[b] \ {u} ELSE table[b] \cup {u}
  <2>1. b \in Blogs /\ b \in Keys /\ u \in Users /\ (found[c] <=> u \in table[b])
    BY <1>3, RequestType DEF Write, OpsOf
  <2>2. table' = [table EXCEPT ![b] = M]
    BY <1>3 DEF Write, Toggle
  <2>3. liked' = [liked EXCEPT ![b] = IF ~found[c] THEN @ + 1 ELSE IF @ > 0 THEN @ - 1 ELSE 0]
    BY <1>3 DEF Write, Toggle
  <2>4. table[b] \in Members /\ liked[b] \in Nat /\ liked[b] = Legacy[b] + Cardinality(table[b])
    BY <2>1 DEF TypeOK, CountMatches
  <2>5. liked'[b] = Legacy[b] + Cardinality(M)
    <3>1. liked'[b] = IF ~found[c] THEN liked[b] + 1 ELSE IF liked[b] > 0 THEN liked[b] - 1 ELSE 0
      BY <2>1, <2>3 DEF TypeOK
    <3>2. Legacy[b] \in Nat /\ Cardinality(table[b]) \in Nat
      BY <1>1, <2>1, <2>4, OneMore
    <3>3. CASE found[c]
      <4>1. M = table[b] \ {u} /\ Cardinality(table[b]) > 0
            /\ Cardinality(table[b] \ {u}) = Cardinality(table[b]) - 1
        BY <2>1, <2>4, <3>3, OneMore
      <4> HIDE DEF M, b, u
      <4> QED
        BY <2>4, <3>1, <3>2, <3>3, <4>1
    <3>4. CASE ~found[c]
      <4>1. M = table[b] \cup {u} /\ Cardinality(table[b] \cup {u}) = Cardinality(table[b]) + 1
        BY <2>1, <2>4, <3>4, OneMore
      <4> HIDE DEF M, b, u
      <4> QED
        BY <2>4, <3>1, <3>2, <3>4, <4>1
    <3> QED
      BY <3>3, <3>4
  <2>6. table'[b] = M
    BY <2>1, <2>2 DEF TypeOK
  <2>7. \A a \in Blogs \ {b} : table'[a] = table[a] /\ liked'[a] = liked[a]
    BY <1>1, <2>2, <2>3 DEF TypeOK
  <2> HIDE DEF M, b
  <2> QED
    BY <2>5, <2>6, <2>7 DEF CountMatches
<1> QED
  BY <1>2, <1>3

LEMMA NextCounts ==
    ASSUME TypeOK, CountMatches, \A c \in Calls : CallOK(c), Next
    PROVE  CountMatches'
<1>1. CASE \E c \in Calls : Write(c)
  BY <1>1, WriteCounts DEF CallOK
<1>2. CASE UNCHANGED dbVars
  BY <1>2 DEF dbVars, CountMatches
<1> QED
  BY <1>1, <1>2 DEF Next, Start, Lock, Count, Read, Script, ScriptFails, SInter, Answer, Abort, LateScript, Lose

-----------------------------------------------------------------------------
(* Row locks *)

LEMMA NextExclusive ==
    ASSUME TypeOK, Exclusive, \A c \in Calls : CallOK(c), Next
    PROVE  Exclusive'
<1>1. ASSUME NEW c \in Calls, Lock(c) PROVE Exclusive'
  <2>1. held' = [held EXCEPT ![c] = held[c] \cup {NextRow(c)}]
    BY <1>1 DEF Lock, Set
  <2>2. \A d \in Calls : NextRow(c) \notin held[d]
    BY <1>1 DEF Lock, Free
  <2> QED
    BY <2>1, <2>2 DEF Exclusive, TypeOK
<1>2. ASSUME NEW c \in Calls, Release(c) PROVE Exclusive'
  BY <1>2 DEF Release, Set, Exclusive, TypeOK
<1>3. CASE UNCHANGED held
  BY <1>3 DEF Exclusive
<1> QED
  BY <1>1, <1>2, <1>3 DEF Next, Start, Count, Write, Read, Script, ScriptFails, SInter, Answer, Abort, End,
     LateScript, Lose, redisVars, dbVars

-----------------------------------------------------------------------------
(* What other calls and Redis do to a call *)

OwnStep(c) ==
    Start(c) \/ Lock(c) \/ Count(c) \/ Write(c) \/ Read(c) \/ Script(c)
        \/ ScriptFails(c) \/ SInter(c) \/ Answer(c) \/ Abort(c)

\* What the call knows is as before.
SameCall(c) ==
    /\ pc'[c] = pc[c] /\ req'[c] = req[c] /\ held'[c] = held[c] /\ found'[c] = found[c]
    /\ snap'[c] = snap[c] /\ todo'[c] = todo[c] /\ ans'[c] = ans[c]

LEMMA OthersLeaveCall ==
    ASSUME TypeOK, NEW c \in Calls, NEW d \in Calls \ {c}, OwnStep(d)
    PROVE  SameCall(c) /\ over'[c] = over[c]
BY DEF OwnStep, Start, Lock, Count, Write, Read, Script, ScriptFails, SInter, Answer, Abort, End, Release,
       Goto, Set, SameCall, TypeOK

\* Rows and copies that a call holds are not written by another.
LEMMA OthersLeaveRows ==
    ASSUME TypeOK, Exclusive, NEW c \in Calls, NEW d \in Calls \ {c}, CallOK(d), OwnStep(d)
    PROVE  \A k \in held[c] : table'[k] = table[k] /\ copy'[k] = copy[k]
<1>1. held[c] \cap held[d] = {} /\ held[c] \subseteq Keys
  BY DEF Exclusive, TypeOK
<1>2. CASE Write(d)
  <2>1. req[d].row \notin held[c] /\ copy' = copy
    BY <1>1, <1>2 DEF Write, CallOK, LocksOf, redisVars
  <2>2. \E M : table' = [table EXCEPT ![req[d].row] = M]
    BY <1>2 DEF Write, Toggle, Follow
  <2> QED
    BY <1>1, <2>1, <2>2 DEF TypeOK
<1>3. CASE ~Write(d) /\ pc[d] # "script"
  BY <1>3 DEF OwnStep, Start, Lock, Count, Read, Script, ScriptFails, SInter, Answer, Abort, dbVars, redisVars
<1>4. CASE ~Write(d) /\ pc[d] = "script"
  <2>1. table' = table
    BY <1>4 DEF OwnStep, Start, Lock, Count, Read, Script, ScriptFails, SInter, Answer, Abort, dbVars
  <2>2. copy' = copy \/ \E k \in todo[d], M \in Members : copy' = [copy EXCEPT ![k] = M]
    <3>1. \A k \in Keys : snap[d][k] \in Members
      BY DEF TypeOK
    <3>2. todo[d] \subseteq Keys
      BY DEF TypeOK
    <3> QED
      BY <1>4, <3>1, <3>2 DEF OwnStep, Start, Lock, Count, Read, Script, ScriptFails, SInter, Answer, Abort,
         Unanswered, redisVars, Set
  <2>3. todo[d] \subseteq held[d]
    BY <1>4 DEF CallOK, ReadsOf
  <2> QED
    BY <1>1, <2>1, <2>2, <2>3 DEF TypeOK
<1> QED
  BY <1>2, <1>3, <1>4

\* A call that is left alone, with its rows, stays as it should be.
LEMMA LeftAlone ==
    ASSUME TypeOK, NEW c \in Calls, CallOK(c), SameCall(c),
           \A k \in held[c] : table'[k] = table[k],
           over[c] \subseteq over'[c],
           pc[c] \in {"script", "sinter"} => \A k \in held[c] \ over'[c] : copy'[k] = copy[k]
    PROVE  CallOK(c)'
<1>1. CopyRows(c)' = CopyRows(c)
  BY DEF SameCall, CopyRows
<1>2. LocksOf(c)'
  BY <1>1 DEF CallOK, LocksOf, SameCall
<1>3. OpsOf(c)'
  BY DEF CallOK, LocksOf, OpsOf, SameCall
<1>4. ReadsOf(c)'
  <2>1. pc[c] = "answer" => req[c].row \in held[c] /\ (req[c].op = "common" => req[c].member \in held[c])
    BY DEF CallOK, LocksOf, CopyRows
  <2>2. ReadsOf(c)
    BY DEF CallOK
  <2>3. ASSUME pc[c] = "answer" PROVE AnswerOK(c)'
    <3>1. AnswerOK(c)
      BY <2>2, <2>3 DEF ReadsOf
    <3>2. req[c].op = "common" => Common(c, table)' = Common(c, table)
      BY <2>1, <2>3 DEF SameCall, Common
    <3> QED
      BY <2>1, <2>3, <3>1, <3>2 DEF SameCall, AnswerOK
  <2>4. pc[c] \in {"script", "sinter"} /\ req[c].op = "common" =>
          \A k \in held[c] \ (todo[c] \cup over'[c]) : copy'[k] = table'[k]
    BY <2>2 DEF ReadsOf
  <2> QED
    BY <2>2, <2>3, <2>4 DEF ReadsOf, SameCall
<1> QED
  BY <1>2, <1>3, <1>4 DEF CallOK

-----------------------------------------------------------------------------
(* What a call does itself *)

\* A call that is over, or left its first transaction, holds nothing.
LEMMA Ended ==
    ASSUME TypeOK, NEW c \in Calls, End(c)
    PROVE  CallOK(c)'
<1>1. pc'[c] = "idle" /\ held'[c] = {}
  BY DEF End, Release, Goto, Set, TypeOK
<1> QED
  BY <1>1 DEF CallOK, LocksOf, OpsOf, ReadsOf

LEMMA Started ==
    ASSUME TypeOK, NEW c \in Calls, CallOK(c), Start(c)
    PROVE  CallOK(c)'
<1>1. PICK q \in Requests : req'[c] = q /\ pc'[c] = IF q.op \in {"rank", "common"} THEN "lockCopy" ELSE "lock"
  BY DEF Start, Goto, Set, TypeOK
<1>2. held'[c] = {}
  BY DEF Start, CallOK, LocksOf
<1>3. q.op \in {"toggle", "rank", "follow", "unfollow", "common"}
  BY ConstantsAssumption DEF ConstantsAssumption, Request
<1> QED
  BY <1>1, <1>2, <1>3 DEF CallOK, LocksOf, OpsOf, ReadsOf, CopyRows

LEMMA Locked ==
    ASSUME TypeOK, NEW c \in Calls, CallOK(c), Lock(c)
    PROVE  CallOK(c)'
<1> DEFINE k == NextRow(c)
<1>1. /\ k \in RowsOf(c) \ held[c] /\ \A j \in RowsOf(c) \ held[c] : Id[k] <= Id[j]
      /\ pc[c] = "lockCopy" => RowsOf(c) = CopyRows(c)
      /\ pc[c] = "lock" => RowsOf(c) = {req[c].row}
  BY Wants, NextRowType DEF Lock, CallOK
<1>2. held'[c] = held[c] \cup {k} /\ req' = req /\ table' = table /\ pc[c] \in {"lock", "lockCopy"}
  BY DEF Lock, Set, TypeOK, dbVars
<1>3. CopyRows(c)' = CopyRows(c)
  BY <1>2 DEF CopyRows
<1> HIDE DEF k
<1>4. CASE RowsOf(c) \subseteq held'[c]
  <2>1. pc'[c] = IF pc[c] = "lockCopy" THEN "read" ELSE IF req[c].op = "toggle" THEN "count" ELSE "write"
    BY <1>4 DEF Lock, Goto, Set, TypeOK
  <2>2. CASE pc[c] = "lockCopy"
    BY <1>1, <1>2, <1>3, <1>4, <2>1, <2>2 DEF CallOK, LocksOf, OpsOf, ReadsOf
  <2>3. CASE pc[c] = "lock"
    BY <1>1, <1>2, <1>3, <1>4, <2>1, <2>3 DEF CallOK, LocksOf, OpsOf, ReadsOf
  <2> QED
    BY <1>2, <2>2, <2>3
<1>5. CASE ~(RowsOf(c) \subseteq held'[c])
  <2>1. pc'[c] = pc[c]
    BY <1>5 DEF Lock
  <2>2. pc[c] = "lockCopy" /\ held[c] = {}
    BY <1>1, <1>2, <1>5, RequestType DEF CallOK, LocksOf, CopyRows
  <2>3. \A j \in CopyRows(c) \ {k} : Id[k] < Id[j]
    <3>1. \A i, j \in Keys : Id[i] \in Nat /\ (Id[i] = Id[j] => i = j)
      BY ConstantsAssumption DEF ConstantsAssumption
    <3> QED
      BY <1>1, <2>2, <3>1, RequestType
  <2> QED
    BY <1>1, <1>2, <1>3, <1>5, <2>1, <2>2, <2>3 DEF CallOK, LocksOf, OpsOf, ReadsOf
<1> QED
  BY <1>4, <1>5

LEMMA Counted ==
    ASSUME TypeOK, NEW c \in Calls, CallOK(c), Count(c)
    PROVE  CallOK(c)'
<1>1. /\ pc[c] = "count" /\ pc'[c] = "write" /\ UNCHANGED <<req, held, table>>
      /\ found'[c] = (req[c].member \in table[req[c].row])
  BY DEF Count, Goto, Set, TypeOK, dbVars
<1> QED
  BY <1>1 DEF CallOK, LocksOf, OpsOf, ReadsOf

LEMMA WroteRow ==
    ASSUME TypeOK, NEW c \in Calls, CallOK(c), Write(c)
    PROVE  CallOK(c)'
<1>1. CASE End(c)
  BY <1>1, Ended
<1>2. CASE Goto(c, "lockCopy") /\ Release(c) /\ UNCHANGED req
  <2>1. pc'[c] = "lockCopy" /\ held'[c] = {} /\ req'[c] = req[c]
    BY <1>2 DEF Goto, Release, Set, TypeOK
  <2> QED
    BY <2>1 DEF CallOK, LocksOf, OpsOf, ReadsOf, CopyRows
<1> QED
  BY <1>1, <1>2 DEF Write

LEMMA ReadRows ==
    ASSUME TypeOK, NEW c \in Calls, CallOK(c), Read(c)
    PROVE  CallOK(c)'
<1>1. /\ pc[c] = "read" /\ pc'[c] = "script" /\ UNCHANGED <<req, held, table, copy>>
      /\ snap'[c] = [k \in Keys |-> IF k \in held[c] THEN table[k] ELSE {}]
      /\ todo'[c] = held[c]
  BY DEF Read, Goto, Set, TypeOK, dbVars, redisVars
<1>2. held[c] \subseteq Keys /\ CopyRows(c)' = CopyRows(c)
  BY <1>1 DEF TypeOK, CopyRows
<1> QED
  BY <1>1, <1>2 DEF CallOK, LocksOf, OpsOf, ReadsOf

LEMMA RanScript ==
    ASSUME TypeOK, NEW c \in Calls, CallOK(c), Script(c)
    PROVE  CallOK(c)'
<1>1. PICK k \in todo[c] :
        /\ copy' = [copy EXCEPT ![k] = snap[c][k]]
        /\ todo'[c] = todo[c] \ {k}
        /\ over'[c] = over[c] \ {k}
        /\ ans'[c] = IF req[c].op = "common" THEN {} ELSE snap[c][k]
  BY DEF Script, Reply, Set, TypeOK
<1>2. /\ pc[c] = "script" /\ UNCHANGED <<req, held, snap, table>>
      /\ pc'[c] = IF todo'[c] # {} THEN "script" ELSE IF req[c].op = "common" THEN "sinter" ELSE "answer"
  BY DEF Script, Goto, Set, TypeOK, dbVars
<1>3. CopyRows(c)' = CopyRows(c)
  BY <1>2 DEF CopyRows
<1>4. /\ held[c] = CopyRows(c) /\ todo[c] \subseteq held[c] /\ held[c] \subseteq Keys
      /\ \A j \in held[c] : snap[c][j] = table[j]
      /\ req[c].op = "common" => \A j \in held[c] \ (todo[c] \cup over[c]) : copy[j] = table[j]
  BY <1>2 DEF CallOK, LocksOf, ReadsOf, TypeOK
<1>5. copy'[k] = table[k] /\ \A j \in Keys \ {k} : copy'[j] = copy[j]
  BY <1>1, <1>4 DEF TypeOK
<1>6. LocksOf(c)'
  BY <1>2, <1>3, <1>4 DEF LocksOf
<1>7. OpsOf(c)'
  BY <1>2 DEF OpsOf
<1>8. ReadsOf(c)'
  <2>1. req[c].op = "common" => \A j \in held[c] \ (todo'[c] \cup over'[c]) : copy'[j] = table[j]
    BY <1>1, <1>4, <1>5
  <2>2. req[c].op # "common" => k = req[c].row /\ ans'[c] = table[req[c].row]
    BY <1>1, <1>4 DEF CopyRows
  <2> QED
    BY <1>1, <1>2, <1>4, <2>1, <2>2 DEF ReadsOf, AnswerOK
<1> QED
  BY <1>6, <1>7, <1>8 DEF CallOK

\* What the snapshot says is what MySQL has.
LEMMA PersistedIsTrue ==
    ASSUME TypeOK, NEW c \in Calls, CallOK(c), pc[c] \in {"script", "sinter"}
    PROVE  Persisted(c) = IF req[c].op = "common" THEN Common(c, table) ELSE table[req[c].row]
BY DEF Persisted, Common, CallOK, LocksOf, ReadsOf, CopyRows

LEMMA ScriptFailed ==
    ASSUME TypeOK, NEW c \in Calls, CallOK(c), ScriptFails(c)
    PROVE  CallOK(c)'
<1>1. /\ pc[c] = "script" /\ pc'[c] = "answer" /\ UNCHANGED <<req, held, snap, table>>
      /\ ans'[c] = Persisted(c)
  BY DEF ScriptFails, Goto, Set, TypeOK, dbVars
<1>2. CopyRows(c)' = CopyRows(c) /\ Common(c, table)' = Common(c, table)
  BY <1>1 DEF CopyRows, Common
<1>3. AnswerOK(c)'
  <2>1. req[c].op = "common" => held[c] = {req[c].row, req[c].member}
    BY <1>1 DEF CallOK, LocksOf, CopyRows
  <2> QED
    BY <1>1, <1>2, <2>1, PersistedIsTrue DEF AnswerOK, Common
<1> QED
  BY <1>1, <1>2, <1>3, PersistedIsTrue DEF CallOK, LocksOf, OpsOf, ReadsOf

LEMMA Intersected ==
    ASSUME TypeOK, NEW c \in Calls, CallOK(c), SInter(c)
    PROVE  CallOK(c)'
<1>1. /\ pc[c] = "sinter" /\ pc'[c] = "answer" /\ UNCHANGED <<req, held, snap, table, copy, over>>
      /\ ans'[c] \in {Common(c, copy), Persisted(c)}
  BY DEF SInter, Goto, Set, TypeOK, dbVars, redisVars
<1>2. CopyRows(c)' = CopyRows(c) /\ Common(c, table)' = Common(c, table)
  BY <1>1 DEF CopyRows, Common
<1>3. /\ req[c].op = "common" /\ held[c] = {req[c].row, req[c].member}
      /\ \A k \in held[c] \ over[c] : copy[k] = table[k]
  BY <1>1 DEF CallOK, LocksOf, OpsOf, ReadsOf, CopyRows
<1>4. AnswerOK(c)'
  <2>1. CASE ans'[c] = Common(c, copy)
    BY <1>1, <1>2, <1>3, <2>1 DEF AnswerOK, Common
  <2>2. CASE ans'[c] = Persisted(c)
    BY <1>1, <1>2, <1>3, <2>2, PersistedIsTrue DEF AnswerOK, Common
  <2> QED
    BY <1>1, <2>1, <2>2
<1> QED
  BY <1>1, <1>2, <1>4 DEF CallOK, LocksOf, OpsOf, ReadsOf

LEMMA OwnStepOK ==
    ASSUME TypeOK, NEW c \in Calls, CallOK(c), OwnStep(c)
    PROVE  CallOK(c)'
BY Started, Locked, Counted, WroteRow, ReadRows, RanScript, ScriptFailed, Intersected, Ended
   DEF OwnStep, Answer, Abort

LEMMA NextCallOK ==
    ASSUME TypeOK, Exclusive, \A c \in Calls : CallOK(c), Next, NEW c \in Calls
    PROVE  CallOK(c)'
<1>1. CASE OwnStep(c)
  BY <1>1, OwnStepOK
<1>2. ASSUME NEW d \in Calls \ {c}, OwnStep(d) PROVE CallOK(c)'
  BY <1>2, OthersLeaveCall, OthersLeaveRows, LeftAlone
<1>3. CASE LateScript \/ \E k \in Keys : Lose(k)
  <2>1. PICK k \in Keys : Overwrites(k) /\ \E M : copy' = [copy EXCEPT ![k] = M]
    BY <1>3 DEF LateScript, Lose, Set, TypeOK
  <2>2. SameCall(c) /\ table' = table
    BY <1>3 DEF LateScript, Lose, SameCall, dbVars
  <2>3. over'[c] = IF pc[c] \in {"script", "sinter"} /\ k \in held[c]
                   THEN over[c] \cup {k} ELSE over[c]
    BY <2>1 DEF Overwrites
  <2>4. pc[c] \in {"script", "sinter"} => \A j \in held[c] \ over'[c] : copy'[j] = copy[j]
    BY <2>1, <2>3 DEF TypeOK
  <2> QED
    BY <2>2, <2>3, <2>4, LeftAlone
<1> QED
  BY <1>1, <1>2, <1>3 DEF Next, OwnStep

-----------------------------------------------------------------------------
(* Theorems *)

LEMMA InitInv == Init => IInv
<1> SUFFICES ASSUME Init PROVE IInv
  OBVIOUS
<1>1. TypeOK
  BY InitType
<1>2. CountMatches
  <2>1. \A b \in Blogs : b \in Keys /\ Legacy[b] \in Nat
    BY ConstantsAssumption DEF ConstantsAssumption, Keys
  <2>2. \A b \in Blogs : Cardinality(table[b]) = 0
    BY <2>1, FS_EmptySet DEF Init, NoSnap
  <2> QED
    BY <2>1, <2>2 DEF Init, CountMatches
<1>3. Exclusive
  BY DEF Init, Exclusive
<1>4. \A c \in Calls : CallOK(c)
  BY DEF Init, CallOK, LocksOf, OpsOf, ReadsOf
<1> QED
  BY <1>1, <1>2, <1>3, <1>4 DEF IInv

LEMMA NextInv == IInv /\ [Next]_vars => IInv'
<1> SUFFICES ASSUME IInv, [Next]_vars PROVE IInv'
  OBVIOUS
<1>1. CASE Next
  BY <1>1, NextType, NextCounts, NextExclusive, NextCallOK DEF IInv
<1>2. CASE UNCHANGED vars
  BY <1>2 DEF vars, dbVars, redisVars, callVars, IInv, TypeOK, CountMatches, Exclusive, CallOK, LocksOf, OpsOf,
              ReadsOf, AnswerOK, CopyRows, Common
<1> QED
  BY <1>1, <1>2

\* The strengthening holds in every reachable state.
THEOREM RowsGuardCopies == Spec => []IInv
BY InitInv, NextInv, PTL DEF Spec

\* Every variable has its type, for any instance.
THEOREM TypeCorrect == Spec => []TypeOK
BY RowsGuardCopies, PTL DEF IInv

\* The counter of a blog matches its likes, whoever toggles at once
\* (ToggleSocialLike).
THEOREM CountersMatch == Spec => []CountMatches
BY RowsGuardCopies, PTL DEF IInv

\* Rankings are answered as MySQL has them, late scripts or not; common follows
\* as far as neither copy was overwritten or lost since the call replaced it,
\* and never more than the user follows whose copy was not (WithSocialLikes,
\* WithSocialFollows, SINTER).
THEOREM AnswersCurrent == Spec => []AnswersAreCurrent
<1>1. IInv => AnswersAreCurrent
  BY DEF IInv, CallOK, ReadsOf, AnswerOK, AnswersAreCurrent
<1> QED
  BY <1>1, RowsGuardCopies, PTL

-----------------------------------------------------------------------------
(* Lock order *)

\* A set of numbers has a least one.
LEMMA LeastNumber ==
    ASSUME NEW T \in SUBSET Nat, T # {}
    PROVE  \E x \in T : \A y \in T : x <= y
<1>1. PICK x \in T : \A y \in T : ~(<<y, x>> \in OpToRel(<, Nat))
  BY WFMin, NatLessThanWellFounded
<1>2. \A y \in T : ~(y < x)
  BY <1>1 DEF OpToRel
<1> QED
  BY <1>2

\* Who waits and is waited for holds the lower of two users' rows and wants
\* the higher.
LEMMA WaitsUp ==
    ASSUME IInv, NEW c \in Calls, NEW d \in Calls, WaitsFor(c, d),
           pc[d] \in {"lock", "lockCopy"}
    PROVE  NextRow(d) \in Users /\ Id[NextRow(c)] < Id[NextRow(d)]
<1>1. LocksOf(d) /\ OpsOf(d) /\ TypeOK
  BY DEF IInv, CallOK
<1>2. NextRow(c) \in held[d]
  BY DEF WaitsFor
<1>3. pc[d] = "lockCopy" /\ held[d] \subseteq CopyRows(d) /\ held[d] # CopyRows(d)
  BY <1>1, <1>2 DEF LocksOf
<1>4. req[d].op = "common"
  BY <1>2, <1>3 DEF CopyRows
<1>5. NextRow(d) \in CopyRows(d) \ held[d]
  BY <1>1, <1>3, Wants, NextRowType
<1>6. CopyRows(d) \subseteq Users
  BY <1>1, <1>4, RequestType DEF CopyRows
<1> QED
  BY <1>1, <1>2, <1>3, <1>5, <1>6 DEF LocksOf

\* Fewer rows are above a higher row.
Above(k) == {u \in Users : Id[k] < Id[u]}

LEMMA AboveShrinks ==
    ASSUME NEW k \in Keys, NEW u \in Users, Id[k] < Id[u]
    PROVE  /\ Cardinality(Above(k)) \in Nat /\ Cardinality(Above(u)) \in Nat
           /\ Cardinality(Above(u)) < Cardinality(Above(k))
<1>1. IsFiniteSet(Users) /\ \A j \in Keys : Id[j] \in Nat
  BY ConstantsAssumption DEF ConstantsAssumption
<1>2. Above(u) \subseteq Above(k) /\ u \in Above(k) /\ u \notin Above(u)
  BY <1>1 DEF Above, Keys
<1>3. IsFiniteSet(Above(k)) /\ IsFiniteSet(Above(u))
  BY <1>1, FS_Subset DEF Above
<1>4. Cardinality(Above(u)) <= Cardinality(Above(k)) /\ (Cardinality(Above(u)) = Cardinality(Above(k)) => Above(u) = Above(k))
  BY <1>2, <1>3, FS_Subset
<1> QED
  BY <1>2, <1>3, <1>4, FS_CardinalityType

\* Among calls that all wait for each other none would want the highest row.
LEMMA SomebodyRuns ==
    ASSUME IInv, NEW S \in SUBSET Calls, S # {},
           \A c \in S : \E d \in S : WaitsFor(c, d)
    PROVE  FALSE
<1> DEFINE W == {c \in S : NextRow(c) \in Users}
           T == {Cardinality(Above(NextRow(c))) : c \in W}
<1>1. \A c \in S : pc[c] \in {"lock", "lockCopy"}
  BY DEF WaitsFor
<1>2. \A c \in S : \E d \in W : WaitsFor(c, d) /\ Id[NextRow(c)] < Id[NextRow(d)]
  BY <1>1, WaitsUp
<1>3. W # {}
  BY <1>2
<1>4. Users \subseteq Keys
  BY DEF Keys
<1>5. T # {} /\ T \subseteq Nat
  BY <1>2, <1>3, <1>4, AboveShrinks
<1>6. PICK n \in T : \A m \in T : n <= m
  <2> HIDE DEF T
  <2> QED
    BY <1>5, LeastNumber
<1>7. PICK c \in W : n = Cardinality(Above(NextRow(c)))
  BY <1>6
<1>8. PICK d \in W : Id[NextRow(c)] < Id[NextRow(d)]
  BY <1>2, <1>7
<1> QED
  BY <1>4, <1>6, <1>7, <1>8, AboveShrinks

\* However many calls lock rows, they never wait in a circle
\* (WithSocialFollows locks in the order of the ids).
THEOREM LocksInOrder == Spec => []NoLockCycle
<1>1. ASSUME IInv PROVE NoLockCycle
  BY <1>1, SomebodyRuns DEF NoLockCycle
<1> QED
  BY <1>1, RowsGuardCopies, PTL

=============================================================================
