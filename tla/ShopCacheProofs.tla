-------------------------- MODULE ShopCacheProofs --------------------------
(***************************************************************************)
(* Theorems about ShopCache, for every number of replicas, requests,        *)
(* refreshes, writers and delayed writes.                                  *)
(***************************************************************************)
EXTENDS ShopCache, FiniteSetTheorems, TLAPS

-----------------------------------------------------------------------------
(* Type correctness *)

Begun == {w \in Writers : writer[w] # "idle"}
Invalidated == {w \in Writers : writer[w] = "ok"}

\* The row and the version count the writers that came so far, and what is to
\* be stored was loaded.
Counts ==
    /\ row <= Cardinality(Begun) + 1
    /\ version <= Cardinality(Invalidated)
    /\ \A t \in Tasks : pc[t] = "store" => got[t] # None

\* The numbers of writers, and the values they bound.
LEMMA ValuesType ==
    ASSUME NEW W \in SUBSET Writers
    PROVE  /\ Cardinality(Writers) \in Nat
           /\ Cardinality(W) \in 0..Cardinality(Writers)
           /\ Values \subseteq Nat
<1>1. IsFiniteSet(Writers)
  BY ConstantsAssumption DEF ConstantsAssumption
<1>2. Cardinality(Writers) \in Nat /\ Cardinality(W) \in Nat /\ Cardinality(W) <= Cardinality(Writers)
  BY <1>1, FS_CardinalityType, FS_Subset
<1> QED
  BY <1>2 DEF Values

\* One more writer counts one more.
LEMMA OneMore ==
    ASSUME NEW W \in SUBSET Writers, NEW w \in Writers \ W
    PROVE  Cardinality(W \cup {w}) = Cardinality(W) + 1
<1>1. IsFiniteSet(W)
  BY FS_Subset, ConstantsAssumption DEF ConstantsAssumption
<1> QED
  BY <1>1, FS_AddElement

\* A write that is carried out leaves an envelope or what was there.
LEMMA WrittenType ==
    ASSUME TypeOK, NEW s \in Stores
    PROVE  Written(s) \in Envelopes \cup {None}
BY DEF Written, Envelopes, Stores, TypeOK

\* Finish moves tasks to places where tasks are, with the value it gives them.
LEMMA FinishType ==
    ASSUME TypeOK, NEW t \in Tasks, NEW v \in Values \cup {None}, Finish(t, v)
    PROVE  pc' \in [Tasks -> Locations] /\ got' \in [Tasks -> Values \cup {None}]
BY DEF Finish, TypeOK, Locations

\* It sends nobody to a store.
LEMMA FinishKeeps ==
    ASSUME Counts, NEW t \in Tasks, NEW v, Finish(t, v)
    PROVE  \A u \in Tasks : pc'[u] = "store" => got'[u] # None
BY DEF Finish, Counts, Followers

\* No value is None.
LEMMA NoneApart == None \notin Values /\ None \notin Tasks
BY ValuesType, ConstantsAssumption DEF ConstantsAssumption, Tasks

\* The value of an envelope.
LEMMA DataType == TypeOK /\ data # None => data \in Envelopes /\ data.val \in Values
BY DEF TypeOK, Envelopes

\* Every step keeps the types, and the two counters in step with the writers.
LEMMA TypedStep == TypeOK /\ Counts /\ [Next]_vars => TypeOK' /\ Counts'
<1> SUFFICES ASSUME TypeOK, Counts, [Next]_vars
             PROVE  TypeOK' /\ Counts'
  OBVIOUS
<1> USE DEF Set, Goto, dbVars, taskVars, history
<1>1. CASE UNCHANGED vars
  BY <1>1 DEF vars, TypeOK, Counts, Begun, Invalidated
<1>2. ASSUME UNCHANGED dbVars, UNCHANGED version,
             \A t \in Tasks : pc'[t] = "store" => got'[t] # None
      PROVE  Counts'
  BY <1>2 DEF Counts, Begun, Invalidated
<1>3. ASSUME NEW r \in Requests, Get(r) PROVE TypeOK' /\ Counts'
  <2>1. r \in Tasks /\ Workers \subseteq Tasks
    BY DEF Tasks
  <2>2. pc' \in [Tasks -> Locations]
    BY <1>3, <2>1 DEF Get, Spawns, IdleWorkers, TypeOK, Locations, Leading
  <2>3. got' \in [Tasks -> Values \cup {None}] /\ floor' \in [Requests -> Values]
    BY <1>3, <2>1, DataType DEF Get, TypeOK
  <2>4. \A t \in Tasks : pc'[t] = "store" => got'[t] # None
    BY <1>3, <2>1 DEF Get, Spawns, IdleWorkers, TypeOK, Counts
  <2> QED
    BY <1>2, <1>3, <2>2, <2>3, <2>4 DEF Get, TypeOK
<1>4. ASSUME NEW r \in Requests, Join(r) PROVE TypeOK' /\ Counts'
  <2>1. r \in Tasks
    BY DEF Tasks
  <2>2. pc' \in [Tasks -> Locations] /\ \A t \in Tasks : pc'[t] = "store" => got'[t] # None
    BY <1>4, <2>1 DEF Join, TypeOK, Counts, Locations, Leading
  <2>3. floor' \in [Requests -> Values]
    BY <1>4 DEF Join, Leaders, TypeOK
  <2> QED
    BY <1>2, <1>4, <2>2, <2>3 DEF Join, TypeOK
<1>5. ASSUME NEW r \in Requests, Reread(r) PROVE TypeOK' /\ Counts'
  <2>1. r \in Tasks
    BY DEF Tasks
  <2>2. pc' \in [Tasks -> Locations] /\ got' \in [Tasks -> Values \cup {None}]
    BY <1>5, <2>1, DataType, FinishType DEF Reread, TypeOK, Locations, Leading
  <2>3. \A t \in Tasks : pc'[t] = "store" => got'[t] # None
    BY <1>5, <2>1, FinishKeeps DEF Reread, TypeOK, Counts
  <2> QED
    BY <1>2, <1>5, <2>2, <2>3 DEF Reread, TypeOK
<1>6. ASSUME NEW t \in Tasks, Acquire(t) PROVE TypeOK' /\ Counts'
  <2>1. TypeOK' /\ \A u \in Tasks : pc'[u] = "store" => got'[u] # None
    BY <1>6 DEF Acquire, TypeOK, Counts, Locations, Leading, Holding
  <2> QED
    BY <1>2, <1>6, <2>1 DEF Acquire
<1>7. ASSUME NEW t \in Tasks, Refused(t) PROVE TypeOK' /\ Counts'
  <2>1. pc' \in [Tasks -> Locations] /\ got' \in [Tasks -> Values \cup {None}]
    BY <1>7, FinishType DEF Refused, TypeOK, Locations, Leading
  <2>2. \A u \in Tasks : pc'[u] = "store" => got'[u] # None
    BY <1>7, FinishKeeps DEF Refused, TypeOK, Counts
  <2> QED
    BY <1>2, <1>7, <2>1, <2>2 DEF Refused, TypeOK
<1>8. ASSUME NEW t \in Tasks, Recheck(t) PROVE TypeOK' /\ Counts'
  <2>1. TypeOK' /\ \A u \in Tasks : pc'[u] = "store" => got'[u] # None
    BY <1>8, DataType DEF Recheck, TypeOK, Counts, Locations, Leading, Holding
  <2> QED
    BY <1>2, <1>8, <2>1 DEF Recheck
<1>9. ASSUME NEW t \in Tasks, ReadVersion(t) PROVE TypeOK' /\ Counts'
  <2>1. TypeOK' /\ \A u \in Tasks : pc'[u] = "store" => got'[u] # None
    BY <1>9 DEF ReadVersion, TypeOK, Counts, Locations, Leading, Holding
  <2> QED
    BY <1>2, <1>9, <2>1 DEF ReadVersion
<1>10. ASSUME NEW t \in Tasks, Load(t) PROVE TypeOK' /\ Counts'
  <2>1. TypeOK' /\ \A u \in Tasks : pc'[u] = "store" => got'[u] # None
    BY <1>10, NoneApart DEF Load, TypeOK, Counts, Locations, Leading, Holding
  <2> QED
    BY <1>2, <1>10, <2>1 DEF Load
<1>11. ASSUME NEW t \in Tasks, LoadDirect(t) PROVE TypeOK' /\ Counts'
  <2>1. pc' \in [Tasks -> Locations] /\ got' \in [Tasks -> Values \cup {None}]
    BY <1>11, FinishType DEF LoadDirect, TypeOK
  <2>2. \A u \in Tasks : pc'[u] = "store" => got'[u] # None
    BY <1>11, FinishKeeps DEF LoadDirect
  <2> QED
    BY <1>2, <1>11, <2>1, <2>2 DEF LoadDirect, TypeOK
<1>12. ASSUME NEW t \in Tasks, Store(t) PROVE TypeOK' /\ Counts'
  <2> DEFINE s == [ver |-> ver[t], val |-> got[t]]
  <2>1. s \in Stores
    BY <1>12 DEF Store, Stores, TypeOK, Counts
  <2>2. data' \in Envelopes \cup {None} /\ late' \subseteq Stores
    BY <1>12, <2>1, WrittenType DEF Store, TypeOK
  <2>3. pc' \in [Tasks -> Locations] /\ \A u \in Tasks : pc'[u] = "store" => got'[u] # None
    BY <1>12 DEF Store, TypeOK, Counts, Locations, Leading, Holding
  <2> QED
    BY <1>2, <1>12, <2>2, <2>3 DEF Store, TypeOK
<1>13. ASSUME NEW t \in Tasks, Unlock(t) PROVE TypeOK' /\ Counts'
  <2>1. pc' \in [Tasks -> Locations] /\ got' \in [Tasks -> Values \cup {None}]
    BY <1>13, FinishType DEF Unlock, TypeOK
  <2>2. \A u \in Tasks : pc'[u] = "store" => got'[u] # None
    BY <1>13, FinishKeeps DEF Unlock
  <2> QED
    BY <1>2, <1>13, <2>1, <2>2 DEF Unlock, TypeOK
<1>14. ASSUME NEW t \in Tasks, Fail(t) PROVE TypeOK' /\ Counts'
  <2>1. pc' \in [Tasks -> Locations] /\ got' \in [Tasks -> Values \cup {None}]
    BY <1>14, FinishType DEF Fail, TypeOK, Locations, Leading, Holding
  <2>2. \A u \in Tasks : pc'[u] = "store" => got'[u] # None
    BY <1>14, FinishKeeps DEF Fail, TypeOK, Counts
  <2> QED
    BY <1>2, <1>14, <2>1, <2>2 DEF Fail, TypeOK
<1>15. ASSUME NEW w \in Writers, Commit(w) PROVE TypeOK' /\ Counts'
  <2>1. Begun' = Begun \cup {w} /\ w \notin Begun /\ Invalidated' = Invalidated
    BY <1>15 DEF Commit, Begun, Invalidated, TypeOK
  <2>2. Cardinality(Begun') = Cardinality(Begun) + 1 /\ Cardinality(Begun') <= Cardinality(Writers)
    <3>1. Begun \in SUBSET Writers /\ Begun \cup {w} \in SUBSET Writers
      BY DEF Begun
    <3>2. Cardinality(Begun \cup {w}) = Cardinality(Begun) + 1
      BY <2>1, <3>1, OneMore
    <3>3. Cardinality(Begun \cup {w}) <= Cardinality(Writers)
      BY <3>1, ValuesType
    <3> QED
      BY <2>1, <3>2, <3>3
  <2>3. row \in Nat /\ Cardinality(Begun) \in Nat /\ Cardinality(Writers) \in Nat
    BY ValuesType DEF TypeOK, Begun
  <2>4. row' \in Values /\ row' <= Cardinality(Begun') + 1
    BY <1>15, <2>2, <2>3 DEF Commit, Counts, Values
  <2> QED
    BY <1>15, <2>1, <2>4 DEF Commit, TypeOK, Counts
<1>16. ASSUME NEW w \in Writers, Invalidate(w) PROVE TypeOK' /\ Counts'
  <2>1. Invalidated' = Invalidated \cup {w} /\ w \notin Invalidated /\ Begun' = Begun
    BY <1>16 DEF Invalidate, Begun, Invalidated, TypeOK
  <2>2. Cardinality(Invalidated') = Cardinality(Invalidated) + 1 /\ Cardinality(Invalidated') <= Cardinality(Writers)
    BY <2>1, OneMore, ValuesType DEF Invalidated
  <2>3. version \in Nat /\ Cardinality(Invalidated) \in Nat /\ Cardinality(Writers) \in Nat
    BY ValuesType DEF TypeOK, Invalidated
  <2>4. version' \in Values /\ version' <= Cardinality(Invalidated')
    BY <1>16, <2>2, <2>3 DEF Invalidate, Counts, Values
  <2> QED
    BY <1>16, <2>1, <2>4 DEF Invalidate, TypeOK, Counts
<1>17. ASSUME NEW w \in Writers, InvalidateFails(w) PROVE TypeOK' /\ Counts'
  <2>1. Invalidated' = Invalidated /\ Begun' = Begun
    BY <1>17 DEF InvalidateFails, Begun, Invalidated, TypeOK
  <2> QED
    BY <1>17, <2>1 DEF InvalidateFails, TypeOK, Counts
<1>18. ASSUME NEW p \in Replicas, Close(p) PROVE TypeOK' /\ Counts'
  BY <1>18 DEF Close, TypeOK, Counts, Begun, Invalidated
<1>19. ASSUME LateStore PROVE TypeOK' /\ Counts'
  <2>1. PICK s \in late : data' = Written(s) /\ late' = late \ {s}
    BY <1>19 DEF LateStore
  <2>2. s \in Stores
    BY <2>1 DEF TypeOK
  <2>3. data' \in Envelopes \cup {None}
    BY <2>1, <2>2, WrittenType
  <2> QED
    BY <1>19, <2>1, <2>3 DEF LateStore, TypeOK, Counts, Begun, Invalidated
<1>20. ASSUME LockExpire \/ Evict PROVE TypeOK' /\ Counts'
  BY <1>20 DEF LockExpire, Evict, TypeOK, Counts, Begun, Invalidated
<1>21. ASSUME Stale PROVE TypeOK' /\ Counts'
  <2>1. data' \in Envelopes
    BY <1>21, DataType DEF Stale, Envelopes
  <2> QED
    BY <1>21, <2>1 DEF Stale, TypeOK, Counts, Begun, Invalidated
<1> QED
  BY <1>1, <1>3, <1>4, <1>5, <1>6, <1>7, <1>8, <1>9, <1>10, <1>11, <1>12, <1>13,
     <1>14, <1>15, <1>16, <1>17, <1>18, <1>19, <1>20, <1>21 DEF Next, Proceed

\* The initial state has the types.
LEMMA TypedInit == Init => TypeOK /\ Counts
<1> SUFFICES ASSUME Init PROVE TypeOK /\ Counts
  OBVIOUS
<1>1. 0 \in Values /\ 1 \in Values /\ Cardinality(Begun) \in Nat /\ Cardinality(Invalidated) \in Nat
  BY ValuesType DEF Values, Begun, Invalidated
<1> QED
  BY <1>1, ValuesType DEF Init, TypeOK, Counts, Locations, Leading

\* Every variable of the cache keeps its type.
THEOREM TypeCorrect == Spec => [](TypeOK /\ Counts)
<1> QED
  BY TypedInit, TypedStep, PTL DEF Spec

-----------------------------------------------------------------------------
(* The lease *)

\* Whoever loads under a lease that has not run out owns the lock.
Owned == \A t \in Tasks \ expired : pc[t] \in Holding => lock = t

\* The steps that change the lock, or let a task load under it.
LEMMA OwnedStep == TypeOK /\ Owned /\ [Next]_vars => Owned'
<1> SUFFICES ASSUME TypeOK, Owned, [Next]_vars
             PROVE  Owned'
  OBVIOUS
<1> USE DEF Set, Goto, dbVars, taskVars, history
<1>1. CASE UNCHANGED vars
  BY <1>1 DEF vars, Owned
<1>2. ASSUME UNCHANGED <<lock, expired>>,
             \A t \in Tasks : pc'[t] \in Holding => pc[t] \in Holding
      PROVE  Owned'
  BY <1>2 DEF Owned
<1>3. ASSUME NEW r \in Requests, Get(r) \/ Join(r) \/ Reread(r) PROVE Owned'
  <2>1. r \in Tasks
    BY DEF Tasks
  <2> QED
    BY <1>2, <1>3, <2>1 DEF Get, Join, Reread, Finish, Spawns, IdleWorkers, TypeOK, Holding
<1>4. ASSUME NEW t \in Tasks, Acquire(t) PROVE Owned'
  BY <1>4, NoneApart DEF Acquire, Owned, TypeOK
<1>5. ASSUME NEW t \in Tasks, Refused(t) PROVE Owned'
  <2>1. \A u \in Tasks : pc'[u] \in Holding => pc[u] \in Holding
    BY <1>5 DEF Refused, Finish, TypeOK, Holding
  <2>2. lock # None => lock' = lock
    BY <1>5 DEF Refused
  <2> QED
    BY <1>5, <2>1, <2>2, NoneApart DEF Refused, Owned
<1>6. ASSUME NEW t \in Tasks, Unlock(t) PROVE Owned'
  <2>1. \A u \in Tasks : pc'[u] \in Holding => pc[u] \in Holding /\ u # t
    BY <1>6 DEF Unlock, Finish, TypeOK, Holding
  <2>2. lock # t => lock' = lock
    BY <1>6 DEF Unlock
  <2> QED
    BY <1>6, <2>1, <2>2 DEF Unlock, Owned
<1>7. ASSUME NEW t \in Tasks,
             Recheck(t) \/ ReadVersion(t) \/ Load(t) \/ LoadDirect(t) \/ Store(t) \/ Fail(t)
      PROVE  Owned'
  BY <1>2, <1>7 DEF Recheck, ReadVersion, Load, LoadDirect, Store, Fail, Finish, TypeOK, Holding
<1>8. ASSUME NEW w \in Writers, Commit(w) \/ Invalidate(w) \/ InvalidateFails(w) PROVE Owned'
  BY <1>2, <1>8 DEF Commit, Invalidate, InvalidateFails
<1>9. ASSUME NEW p \in Replicas, Close(p) PROVE Owned'
  BY <1>2, <1>9 DEF Close
<1>10. ASSUME LateStore \/ Stale \/ Evict PROVE Owned'
  BY <1>2, <1>10 DEF LateStore, Stale, Evict
<1>11. CASE LockExpire
  BY <1>11 DEF LockExpire, Owned
<1> QED
  BY <1>1, <1>3, <1>4, <1>5, <1>6, <1>7, <1>8, <1>9, <1>10, <1>11 DEF Next, Proceed

\* No task loads at the start.
LEMMA OwnedInit == Init => Owned
BY DEF Init, Owned, Holding

\* A step that takes the lock from a task follows the end of its lease or is
\* the task's own release.
LEMMA LeaseStep ==
    ASSUME TypeOK, [Next]_vars, NEW t \in Tasks, lock = t, lock' # t
    PROVE  t \in expired' \/ pc'[t] \notin Holding
<1> USE DEF Set, Goto, dbVars, taskVars, history
<1>1. CASE LockExpire
  BY <1>1 DEF LockExpire
<1>2. ASSUME NEW u \in Tasks, Unlock(u) PROVE pc'[t] \notin Holding
  <2>1. u = t
    BY <1>2 DEF Unlock
  <2> QED
    BY <1>2, <2>1 DEF Unlock, Finish, TypeOK, Holding
<1>3. ASSUME NEW u \in Tasks, Acquire(u) \/ Refused(u) PROVE FALSE
  BY <1>3, NoneApart DEF Acquire, Refused
<1>4. CASE UNCHANGED lock
  BY <1>4
<1> QED
  BY <1>1, <1>2, <1>3, <1>4 DEF Next, Proceed, vars, Get, Join, Reread, Recheck, ReadVersion,
     Load, LoadDirect, Store, Fail, Commit, Invalidate, InvalidateFails, Close, LateStore,
     Stale, Evict

\* Two tasks share a lease only after it ran out, and nobody loses one to
\* another's release (safeUnlock).
THEOREM LeasesExclude == Spec => LeaseExclusive
<1>1. Owned => \A t, u \in Tasks \ expired : pc[t] \in Holding /\ pc[u] \in Holding => t = u
  BY DEF Owned
<1>2. TypeOK /\ [Next]_vars =>
        [\A t \in Tasks : lock = t /\ lock' # t => t \in expired' \/ pc'[t] \notin Holding]_vars
  BY LeaseStep
<1> QED
  BY <1>1, <1>2, TypeCorrect, OwnedInit, OwnedStep, PTL DEF Spec, LeaseExclusive

-----------------------------------------------------------------------------
(* Stale fills *)

\* A store that can still take effect carries nothing older than the last
\* invalidation: the version it read is current only if it read the row after.
NoneStale ==
    /\ invalidated <= row
    /\ data # None => data.val >= invalidated
    /\ \A s \in late : s.ver <= version /\ (s.ver = version => s.val >= invalidated)
    /\ \A t \in Tasks :
          /\ pc[t] \in {"load", "store"} => ver[t] <= version
          /\ pc[t] = "store" /\ ver[t] = version => got[t] >= invalidated

\* What a store writes is not stale.
LEMMA WrittenNotStale ==
    ASSUME TypeOK, NoneStale, NEW s \in Stores, s.ver = version => s.val >= invalidated,
           Written(s) # None
    PROVE  Written(s).val >= invalidated
BY DEF Written, NoneStale, TypeOK, Envelopes

\* Every step keeps stale stores from taking effect.
LEMMA NoneStaleStep == TypeOK /\ Counts /\ NoneStale /\ [Next]_vars => NoneStale'
<1> SUFFICES ASSUME TypeOK, Counts, NoneStale, [Next]_vars
             PROVE  NoneStale'
  OBVIOUS
<1> USE DEF Set, Goto, dbVars, taskVars, history
<1>. Values \subseteq Nat
  BY ValuesType
<1>0. row \in Nat /\ version \in Nat /\ invalidated \in Nat
  BY DEF TypeOK
<1>1. CASE UNCHANGED vars
  BY <1>1 DEF vars, NoneStale
<1>2. ASSUME UNCHANGED <<row, data, late, version, invalidated>>,
             \A t \in Tasks :
                 \/ pc'[t] \notin {"load", "store"}
                 \/ pc'[t] = pc[t] /\ ver'[t] = ver[t] /\ got'[t] = got[t]
      PROVE  NoneStale'
  BY <1>2 DEF NoneStale
<1>3. ASSUME NEW r \in Requests, Get(r) \/ Join(r) \/ Reread(r) PROVE NoneStale'
  <2>1. r \in Tasks
    BY DEF Tasks
  <2> QED
    BY <1>2, <1>3, <2>1 DEF Get, Join, Reread, Finish, Followers, Spawns, IdleWorkers, TypeOK
<1>4. ASSUME NEW t \in Tasks,
             Acquire(t) \/ Refused(t) \/ Recheck(t) \/ LoadDirect(t) \/ Unlock(t) \/ Fail(t)
      PROVE  NoneStale'
  BY <1>2, <1>4 DEF Acquire, Refused, Recheck, LoadDirect, Unlock, Fail, Finish, Followers, TypeOK
<1>5. ASSUME NEW t \in Tasks, ReadVersion(t) PROVE NoneStale'
  BY <1>0, <1>5 DEF ReadVersion, NoneStale, TypeOK
<1>6. ASSUME NEW t \in Tasks, Load(t) PROVE NoneStale'
  BY <1>0, <1>6 DEF Load, NoneStale, TypeOK
<1>7. ASSUME NEW t \in Tasks, Store(t) PROVE NoneStale'
  <2> DEFINE s == [ver |-> ver[t], val |-> got[t]]
  <2>1. s \in Stores
    BY <1>7 DEF Store, Stores, TypeOK, Counts
  <2>2. s.ver <= version /\ (s.ver = version => s.val >= invalidated)
    BY <1>7 DEF Store, NoneStale
  <2>3. data' # None => data'.val >= invalidated
    BY <1>7, <2>1, <2>2, WrittenNotStale DEF Store, NoneStale
  <2>4. \A l \in late' : l.ver <= version /\ (l.ver = version => l.val >= invalidated)
    BY <1>7, <2>2 DEF Store, NoneStale
  <2> QED
    BY <1>7, <2>3, <2>4 DEF Store, NoneStale, TypeOK
<1>8. ASSUME NEW w \in Writers, Commit(w) PROVE NoneStale'
  BY <1>0, <1>8 DEF Commit, NoneStale
<1>9. ASSUME NEW w \in Writers, Invalidate(w) PROVE NoneStale'
  <2>1. \A l \in late : l.ver \in Nat /\ l.ver <= version
    BY DEF TypeOK, Stores, NoneStale
  <2>2. \A t \in Tasks : ver[t] \in Nat /\ (pc[t] \in {"load", "store"} => ver[t] <= version)
    BY DEF TypeOK, NoneStale
  <2>3. version' = version + 1 /\ invalidated' = row /\ row' = row /\ data' = None
        /\ late' = late /\ ver' = ver /\ pc' = pc /\ got' = got
    BY <1>9 DEF Invalidate
  <2> QED
    BY <1>0, <2>1, <2>2, <2>3 DEF NoneStale
<1>10. ASSUME NEW w \in Writers, InvalidateFails(w) PROVE NoneStale'
  BY <1>2, <1>10 DEF InvalidateFails
<1>11. ASSUME NEW p \in Replicas, Close(p) PROVE NoneStale'
  BY <1>2, <1>11 DEF Close
<1>12. CASE LateStore
  <2>1. PICK s \in late : data' = Written(s) /\ late' = late \ {s}
    BY <1>12 DEF LateStore
  <2>2. data' # None => data'.val >= invalidated
    BY <2>1, WrittenNotStale DEF NoneStale, TypeOK
  <2> QED
    BY <1>12, <2>1, <2>2 DEF LateStore, NoneStale
<1>13. CASE LockExpire
  BY <1>2, <1>13 DEF LockExpire
<1>14. CASE Stale
  BY <1>14, DataType DEF Stale, NoneStale, Envelopes
<1>15. CASE Evict
  BY <1>15 DEF Evict, NoneStale
<1> QED
  BY <1>1, <1>3, <1>4, <1>5, <1>6, <1>7, <1>8, <1>9, <1>10, <1>11, <1>12, <1>13, <1>14, <1>15
     DEF Next, Proceed

\* Nothing is loaded or stored at the start.
LEMMA NoneStaleInit == Init => NoneStale
BY DEF Init, NoneStale

\* No fill, however slow or late, puts back a value that an invalidation
\* removed (writeIfVersion).
THEOREM FillsAreFresh == Spec => []NoStaleFill
<1>1. NoneStale => NoStaleFill
  BY DEF NoneStale, NoStaleFill
<1> QED
  BY <1>1, TypeCorrect, NoneStaleInit, NoneStaleStep, PTL DEF Spec

-----------------------------------------------------------------------------
(* Close *)

\* A closed client starts no refresh.
LEMMA CloseStep == TypeOK /\ CloseWaits /\ [Next]_vars => CloseWaits'
<1> SUFFICES ASSUME TypeOK, CloseWaits, [Next]_vars
             PROVE  CloseWaits'
  OBVIOUS
<1> USE DEF Set, Goto, dbVars, taskVars, history
<1>0. \A g \in Workers : g \in Tasks /\ g \notin Requests /\ ReplicaOf[g] \in Replicas
  BY ConstantsAssumption DEF ConstantsAssumption, Tasks
<1>1. CASE UNCHANGED vars
  BY <1>1 DEF vars, CloseWaits
<1>2. ASSUME UNCHANGED closed,
             \A g \in Workers : pc[g] = "idle" => pc'[g] = "idle"
      PROVE  CloseWaits'
  BY <1>2 DEF CloseWaits
<1>3. ASSUME NEW r \in Requests, Get(r) PROVE CloseWaits'
  <2>1. r \in Tasks
    BY DEF Tasks
  <2>2. \A g \in Workers : pc'[g] = pc[g] \/ closed[ReplicaOf[g]] = "open"
    BY <1>0, <1>3, <2>1 DEF Get, Spawns, IdleWorkers, TypeOK
  <2> QED
    BY <1>3, <2>2 DEF Get, CloseWaits
<1>4. ASSUME NEW r \in Requests, Join(r) \/ Reread(r) PROVE CloseWaits'
  <2>1. r \in Tasks
    BY DEF Tasks
  <2> QED
    BY <1>0, <1>2, <1>4, <2>1 DEF Join, Reread, Finish, Followers, TypeOK
<1>5. ASSUME NEW t \in Tasks, Proceed(t) \/ Fail(t) PROVE CloseWaits'
  <2>1. \A g \in Workers : pc[g] = "idle" => pc'[g] = "idle"
    BY <1>0, <1>5 DEF Proceed, Fail, Acquire, Refused, Recheck, ReadVersion, Load, LoadDirect,
       Store, Unlock, Finish, Followers, TypeOK
  <2>2. UNCHANGED closed
    BY <1>5 DEF Proceed, Fail, Acquire, Refused, Recheck, ReadVersion, Load, LoadDirect, Store, Unlock
  <2> QED
    BY <1>2, <2>1, <2>2
<1>6. ASSUME NEW w \in Writers, Commit(w) \/ Invalidate(w) \/ InvalidateFails(w) PROVE CloseWaits'
  BY <1>2, <1>6 DEF Commit, Invalidate, InvalidateFails
<1>7. ASSUME NEW p \in Replicas, Close(p) PROVE CloseWaits'
  BY <1>0, <1>7 DEF Close, CloseWaits, TypeOK
<1>8. ASSUME LateStore \/ LockExpire \/ Stale \/ Evict PROVE CloseWaits'
  BY <1>2, <1>8 DEF LateStore, LockExpire, Stale, Evict
<1> QED
  BY <1>1, <1>3, <1>4, <1>5, <1>6, <1>7, <1>8 DEF Next

\* No client is closed at the start.
LEMMA CloseInit == Init => CloseWaits
BY ConstantsAssumption DEF ConstantsAssumption, Init, CloseWaits, Tasks

\* After Close no refresh runs or starts (refresh and Close under closeMu).
THEOREM CloseIsFinal == Spec => []CloseWaits
<1> QED
  BY TypeCorrect, CloseInit, CloseStep, PTL DEF Spec

-----------------------------------------------------------------------------
(* Fresh answers *)

\* A replica has one flight at a time, whose followers began no earlier than
\* its leader, and what a leader holds is not older than its beginning.
Flights ==
    /\ \A r, q \in Requests :
          ReplicaOf[r] = ReplicaOf[q] /\ pc[r] \in Leading /\ pc[q] \in Leading => r = q
    /\ \A q \in Requests :
          pc[q] = "wait" => \E l \in Leaders(ReplicaOf[q]) : floor[q] = floor[l]
    /\ \A r \in Requests :
          /\ floor[r] <= invalidated
          /\ pc[r] \in {"store", "unlock", "done"} /\ got[r] # None => got[r] >= floor[r]

\* A leader that answers with something fresh answers its followers so.
LEMMA FinishFresh ==
    ASSUME TypeOK, Flights, NEW t \in Requests, pc[t] \in Leading, NEW v,
           v # None => v >= floor[t],
           Finish(t, v), floor' = floor, invalidated' = invalidated
    PROVE  Flights'
<1>1. \A q \in Requests : q \in Tasks
  BY DEF Tasks
<1>2. \A q \in Followers(ReplicaOf[t]) : floor[q] = floor[t]
  BY DEF Followers, Leaders, Flights
<1>3. t \notin Followers(ReplicaOf[t])
  BY DEF Followers, Leading, Holding
<1>4. \A q \in Requests :
         \/ pc'[q] = "done" /\ got'[q] = v /\ floor[q] = floor[t]
         \/ pc'[q] = pc[q] /\ got'[q] = got[q] /\ q # t
            /\ (pc[q] = "wait" => ReplicaOf[q] # ReplicaOf[t])
  BY <1>1, <1>2 DEF Finish, Followers
<1>5. \A r, q \in Requests :
         ReplicaOf[r] = ReplicaOf[q] /\ pc'[r] \in Leading /\ pc'[q] \in Leading => r = q
  BY <1>4 DEF Flights, Leading, Holding
<1>6. ASSUME NEW q \in Requests, pc'[q] = "wait"
      PROVE  \E l \in Leaders(ReplicaOf[q])' : floor'[q] = floor'[l]
  <2>1. pc[q] = "wait" /\ ReplicaOf[q] # ReplicaOf[t]
    BY <1>4, <1>6
  <2>2. PICK l \in Leaders(ReplicaOf[q]) : floor[q] = floor[l]
    BY <2>1 DEF Flights
  <2>3. l \in Requests /\ l # t /\ pc[l] \in Leading /\ ReplicaOf[l] = ReplicaOf[q]
    BY <2>1, <2>2 DEF Leaders
  <2>4. l \notin Followers(ReplicaOf[t])
    BY <2>1, <2>3 DEF Followers
  <2>5. pc'[l] = pc[l]
    BY <1>1, <2>3, <2>4 DEF Finish
  <2> QED
    BY <2>2, <2>3, <2>5 DEF Leaders
<1>7. \A r \in Requests :
         /\ floor'[r] <= invalidated'
         /\ pc'[r] \in {"store", "unlock", "done"} /\ got'[r] # None => got'[r] >= floor'[r]
  BY <1>4 DEF Flights
<1> QED
  BY <1>5, <1>6, <1>7 DEF Flights

\* A step of one task that neither begins nor ends a flight.
LEMMA OnwardFresh ==
    ASSUME TypeOK, Flights, NEW t \in Tasks, NEW l, pc' = [pc EXCEPT ![t] = l],
           t \in Requests => pc[t] \in Leading /\ l \in Leading,
           \A u \in Tasks \ {t} : got'[u] = got[u],
           t \in Requests /\ l \in {"store", "unlock"} /\ got'[t] # None => got'[t] >= floor[t],
           floor' = floor, invalidated' = invalidated
    PROVE  Flights'
<1>1. \A q \in Requests : q \in Tasks
  BY DEF Tasks
<1>2. \A q \in Requests :
         \/ pc'[q] = pc[q] /\ got'[q] = got[q]
         \/ q = t /\ pc[q] \in Leading /\ pc'[q] = l /\ l \in Leading
  BY <1>1 DEF TypeOK
<1>3. \A q \in Requests : pc'[q] \in Leading <=> pc[q] \in Leading
  BY <1>2
<1>4. ASSUME NEW q \in Requests, pc'[q] = "wait"
      PROVE  \E k \in Leaders(ReplicaOf[q])' : floor'[q] = floor'[k]
  <2>1. pc[q] = "wait"
    BY <1>2, <1>4 DEF Leading, Holding
  <2> QED
    BY <1>3, <2>1 DEF Flights, Leaders
<1>5. ASSUME NEW r \in Requests
      PROVE  /\ floor'[r] <= invalidated'
             /\ pc'[r] \in {"store", "unlock", "done"} /\ got'[r] # None => got'[r] >= floor'[r]
  <2>1. floor'[r] <= invalidated'
    BY DEF Flights
  <2>2. pc'[r] \in {"store", "unlock", "done"} /\ got'[r] # None => got'[r] >= floor'[r]
    <3>1. CASE pc'[r] = pc[r] /\ got'[r] = got[r]
      BY <3>1 DEF Flights
    <3>2. CASE r = t /\ pc'[r] = l /\ l \in Leading
      BY <3>2 DEF Leading, Holding
    <3> QED
      BY <1>2, <3>1, <3>2
  <2> QED
    BY <2>1, <2>2
<1> QED
  BY <1>3, <1>4, <1>5 DEF Flights

\* Every step keeps flights in order.
LEMMA FlightsStep == TypeOK /\ Counts /\ NoneStale /\ Flights /\ [Next]_vars => Flights'
<1> SUFFICES ASSUME TypeOK, Counts, NoneStale, Flights, [Next]_vars
             PROVE  Flights'
  OBVIOUS
<1>. Values \subseteq Nat
  BY ValuesType
<1>0. /\ row \in Nat /\ invalidated \in Nat /\ invalidated <= row
      /\ floor \in [Requests -> Nat] /\ \A r \in Requests : floor[r] <= invalidated
  BY DEF TypeOK, NoneStale, Flights
<1>a. data # None => data.val \in Nat /\ \A r \in Requests : data.val >= floor[r]
  <2>1. data # None => data.val \in Nat /\ data.val >= invalidated
    BY DataType DEF NoneStale
  <2> QED
    BY <1>0, <2>1
<1>b. \A r \in Requests : row >= floor[r]
  BY <1>0
<1> USE DEF Set, Goto, dbVars, taskVars, history
<1>1. ASSUME UNCHANGED <<taskVars, floor>>, invalidated' \in Nat, invalidated <= invalidated'
      PROVE  Flights'
  BY <1>0, <1>1 DEF Flights, Leaders
<1>2. CASE UNCHANGED vars
  BY <1>0, <1>1, <1>2 DEF vars
<1>3. ASSUME NEW r \in Requests, Get(r) PROVE Flights'
  <2>1. r \in Tasks /\ \A g \in Workers : g \in Tasks /\ g \notin Requests
    BY ConstantsAssumption DEF ConstantsAssumption, Tasks
  <2>2. \A q \in Requests \ {r} : pc'[q] = pc[q] /\ got'[q] = got[q] /\ floor'[q] = floor[q]
    BY <1>3, <2>1 DEF Get, Spawns, IdleWorkers, TypeOK, Tasks
  <2>3. pc[r] = "idle" /\ invalidated' = invalidated
    BY <1>3 DEF Get
  <2>4. \/ pc'[r] = "done" /\ got'[r] >= floor'[r] /\ floor'[r] = invalidated
        \/ pc'[r] = "flight" /\ floor'[r] = floor[r]
    <3>1. CASE /\ data # None
               /\ got' = Set(got, r, data.val)
               /\ floor' = Set(floor, r, invalidated)
               /\ \/ Goto(r, "done")
                  \/ \E g \in Spawns(r) : pc' = [pc EXCEPT ![r] = "done", ![g] = "lock"]
      <4>1. got'[r] = data.val /\ floor'[r] = invalidated
        BY <2>1, <3>1 DEF TypeOK
      <4>2. data.val >= invalidated
        BY <3>1 DEF NoneStale
      <4>3. pc'[r] = "done"
        BY <2>1, <3>1 DEF TypeOK, Spawns, IdleWorkers
      <4> QED
        BY <4>1, <4>2, <4>3
    <3>2. CASE Goto(r, "flight") /\ UNCHANGED <<got, floor>>
      BY <2>1, <3>2 DEF TypeOK
    <3> QED
      BY <1>3, <3>1, <3>2 DEF Get
  <2> QED
    BY <1>0, <2>2, <2>3, <2>4 DEF Flights, Leaders, Leading, Holding
<1>4. ASSUME NEW r \in Requests, Join(r) PROVE Flights'
  <2>1. r \in Tasks
    BY DEF Tasks
  <2>2. \A q \in Requests \ {r} : pc'[q] = pc[q] /\ got'[q] = got[q] /\ floor'[q] = floor[q]
    BY <1>4, <2>1 DEF Join, TypeOK, Tasks
  <2>3. pc[r] = "flight" /\ invalidated' = invalidated
    BY <1>4 DEF Join
  <2>4. CASE \E l \in Leaders(ReplicaOf[r]) : Goto(r, "wait") /\ floor' = Set(floor, r, floor[l])
    <3>1. PICK l \in Leaders(ReplicaOf[r]) : Goto(r, "wait") /\ floor' = Set(floor, r, floor[l])
      BY <2>4
    <3>2. pc'[r] = "wait" /\ floor'[r] = floor[l] /\ l # r
      BY <2>1, <2>3, <3>1 DEF TypeOK, Leaders, Leading, Holding
    <3>3. \A q \in Requests : pc'[q] \in Leading <=> pc[q] \in Leading
      BY <2>2, <2>3, <3>2 DEF Leading, Holding
    <3>4. \A k \in Requests : pc[k] \in Leading => floor'[k] = floor[k]
      BY <2>2, <2>3 DEF Leading, Holding
    <3>5. ASSUME NEW q \in Requests, pc'[q] = "wait"
          PROVE  \E k \in Leaders(ReplicaOf[q])' : floor'[q] = floor'[k]
      <4>1. CASE q = r
        BY <3>1, <3>2, <3>3, <3>4, <4>1 DEF Leaders
      <4>2. CASE q # r
        BY <2>2, <3>3, <3>4, <3>5, <4>2 DEF Leaders, Flights
      <4> QED
        BY <4>1, <4>2
    <3> QED
      BY <1>0, <2>2, <2>3, <3>1, <3>2, <3>3, <3>5 DEF Flights, Leaders
  <2>5. CASE /\ Leaders(ReplicaOf[r]) = {}
             /\ Goto(r, "check")
             /\ floor' = Set(floor, r, invalidated)
    <3>1. pc'[r] = "check" /\ floor'[r] = invalidated
      BY <2>1, <2>5 DEF TypeOK
    <3>2. \A q \in Requests : ReplicaOf[q] = ReplicaOf[r] /\ q # r => pc'[q] \notin Leading
      BY <2>2, <2>5 DEF Leaders
    <3>3. ASSUME NEW q \in Requests, pc'[q] = "wait"
          PROVE  \E k \in Leaders(ReplicaOf[q])' : floor'[q] = floor'[k]
      <4>1. q # r /\ pc[q] = "wait"
        BY <2>2, <3>1, <3>3
      <4>2. PICK k \in Leaders(ReplicaOf[q]) : floor[q] = floor[k]
        BY <4>1 DEF Flights
      <4>3. k # r
        BY <2>3, <4>2 DEF Leaders, Leading, Holding
      <4> QED
        BY <2>2, <4>1, <4>2, <4>3 DEF Leaders
    <3> QED
      BY <1>0, <2>2, <2>3, <3>1, <3>2, <3>3 DEF Flights
  <2> QED
    BY <1>4, <2>4, <2>5 DEF Join
<1>5. ASSUME NEW r \in Requests, Reread(r) PROVE Flights'
  <2>1. r \in Tasks /\ pc[r] \in Leading /\ floor' = floor /\ invalidated' = invalidated
    BY <1>5 DEF Reread, Tasks, Leading
  <2>2. CASE data # None /\ Finish(r, data.val)
    BY <1>a, <2>1, <2>2, FinishFresh
  <2>3. CASE Goto(r, "lock") /\ UNCHANGED got
    <3>1. "lock" \in Leading
      BY DEF Leading
    <3> QED
      BY <2>1, <2>3, <3>1, OnwardFresh
  <2> QED
    BY <1>5, <2>2, <2>3 DEF Reread
<1>6. ASSUME NEW t \in Tasks, NEW v, Finish(t, v), pc[t] \in Leading, v # None /\ t \in Requests => v >= floor[t],
             floor' = floor, invalidated' = invalidated
      PROVE  Flights'
  <2>1. CASE t \in Requests
    BY <1>6, <2>1, FinishFresh
  <2>2. CASE t \notin Requests
    <3>1. \A q \in Requests : pc'[q] = pc[q] /\ got'[q] = got[q]
      BY <1>6, <2>2 DEF Finish, Tasks
    <3> QED
      BY <1>6, <3>1 DEF Flights, Leaders
  <2> QED
    BY <2>1, <2>2
<1>7. ASSUME NEW t \in Tasks, NEW l, Goto(t, l), pc[t] \in Leading, l \in Leading,
             \A u \in Tasks \ {t} : got'[u] = got[u],
             t \in Requests /\ l \in {"store", "unlock"} /\ got'[t] # None => got'[t] >= floor[t],
             floor' = floor, invalidated' = invalidated
      PROVE  Flights'
  BY <1>7, OnwardFresh
<1>8. ASSUME NEW t \in Tasks, Acquire(t) PROVE Flights'
  BY <1>7, <1>8 DEF Acquire, Leading, Holding
<1>9. ASSUME NEW t \in Tasks, Refused(t) PROVE Flights'
  <2>1. pc[t] \in Leading /\ floor' = floor /\ invalidated' = invalidated
    BY <1>9 DEF Refused, Leading
  <2>2. CASE t \in Workers
    BY <1>6, <1>9, <2>1, <2>2 DEF Refused
  <2>3. CASE t \notin Workers
    <3>1. PICK l \in {"poll", "direct"} : Goto(t, l)
      BY <1>9, <2>3 DEF Refused
    <3>2. got' = got
      BY <1>9, <2>3 DEF Refused
    <3> QED
      BY <1>7, <2>1, <3>1, <3>2 DEF Leading
  <2> QED
    BY <2>2, <2>3
<1>10. ASSUME NEW t \in Tasks, Recheck(t) PROVE Flights'
  <2>1. pc[t] \in Leading /\ floor' = floor /\ invalidated' = invalidated /\ "unlock" \in Leading /\ "version" \in Leading
    BY <1>10 DEF Recheck, Leading, Holding
  <2>2. CASE data # None /\ got' = Set(got, t, data.val) /\ Goto(t, "unlock")
    <3>1. got'[t] = data.val /\ \A u \in Tasks \ {t} : got'[u] = got[u]
      BY <2>2 DEF TypeOK
    <3> QED
      BY <1>a, <1>7, <2>1, <2>2, <3>1
  <2>3. CASE Goto(t, "version") /\ UNCHANGED got
    BY <1>7, <2>1, <2>3
  <2> QED
    BY <1>10, <2>2, <2>3 DEF Recheck
<1>11. ASSUME NEW t \in Tasks, ReadVersion(t) PROVE Flights'
  <2>1. pc[t] \in Leading /\ floor' = floor /\ invalidated' = invalidated /\ got' = got
    BY <1>11 DEF ReadVersion, Leading, Holding
  <2>2. PICK l \in {"load", "bare"} : Goto(t, l)
    BY <1>11 DEF ReadVersion
  <2> QED
    BY <1>7, <2>1, <2>2 DEF Leading, Holding
<1>12. ASSUME NEW t \in Tasks, Load(t) PROVE Flights'
  <2>1. pc[t] \in Leading /\ floor' = floor /\ invalidated' = invalidated
    BY <1>12 DEF Load, Leading, Holding
  <2>2. got'[t] = row /\ \A u \in Tasks \ {t} : got'[u] = got[u]
    BY <1>12 DEF Load, TypeOK
  <2>3. PICK l \in {"store", "unlock"} : Goto(t, l)
    BY <1>12 DEF Load
  <2> QED
    BY <1>b, <1>7, <2>1, <2>2, <2>3 DEF Leading, Holding
<1>13. ASSUME NEW t \in Tasks, LoadDirect(t) PROVE Flights'
  BY <1>b, <1>6, <1>13 DEF LoadDirect, Leading
<1>14. ASSUME NEW t \in Tasks, Store(t) PROVE Flights'
  <2>1. pc[t] = "store" /\ floor' = floor /\ invalidated' = invalidated /\ got' = got /\ Goto(t, "unlock")
    BY <1>14 DEF Store
  <2> QED
    BY <1>7, <2>1 DEF Flights, Leading, Holding
<1>15. ASSUME NEW t \in Tasks, Unlock(t) PROVE Flights'
  BY <1>6, <1>15 DEF Unlock, Flights, Leading, Holding
<1>16. ASSUME NEW t \in Tasks, Fail(t) PROVE Flights'
  <2>1. pc[t] \in Leading /\ floor' = floor /\ invalidated' = invalidated
    BY <1>16 DEF Fail, Leading, Holding
  <2>2. CASE Finish(t, None)
    BY <1>6, <2>1, <2>2
  <2>3. CASE got' = Set(got, t, None) /\ Goto(t, "unlock")
    <3>1. got'[t] = None /\ \A u \in Tasks \ {t} : got'[u] = got[u]
      BY <2>3 DEF TypeOK
    <3> QED
      BY <1>7, <2>1, <2>3, <3>1 DEF Leading, Holding
  <2> QED
    BY <1>16, <2>2, <2>3 DEF Fail
<1>17. ASSUME NEW w \in Writers, Commit(w) \/ InvalidateFails(w) PROVE Flights'
  BY <1>0, <1>1, <1>17 DEF Commit, InvalidateFails
<1>18. ASSUME NEW w \in Writers, Invalidate(w) PROVE Flights'
  BY <1>0, <1>1, <1>18 DEF Invalidate
<1>19. ASSUME NEW p \in Replicas, Close(p) PROVE Flights'
  BY <1>0, <1>1, <1>19 DEF Close
<1>20. ASSUME LateStore \/ LockExpire \/ Stale \/ Evict PROVE Flights'
  BY <1>0, <1>1, <1>20 DEF LateStore, LockExpire, Stale, Evict
<1> QED
  BY <1>2, <1>3, <1>4, <1>5, <1>8, <1>9, <1>10, <1>11, <1>12, <1>13, <1>14, <1>15, <1>16,
     <1>17, <1>18, <1>19, <1>20 DEF Next, Proceed

\* No flight is open at the start.
LEMMA FlightsInit == Init => Flights
BY DEF Init, Flights, Leading, Holding, Tasks

\* No answer is older than the last invalidation before its flight began.
THEOREM AnswersAreFresh == Spec => []FreshAnswers
<1>1. Flights => FreshAnswers
  BY DEF Flights, FreshAnswers
<1> QED
  BY <1>1, TypeCorrect, NoneStaleInit, NoneStaleStep, FlightsInit, FlightsStep, PTL DEF Spec

=============================================================================
