----------------------------- MODULE ShopCache -----------------------------
(***************************************************************************)
(* cache.Client, the versioned cache-aside of go-dianping, for the details  *)
(* of one shop: readers of several replicas share one Redis, merge misses   *)
(* in a flight per replica, take a lease before they load, and may write    *)
(* what they loaded only while the version they saw is current.  Updates    *)
(* commit to MySQL first and then invalidate.                               *)
(*                                                                         *)
(* A value is the number of writes the row has seen; 0 is a shop that does   *)
(* not exist, which is cached too.  A Redis call may fail without running,  *)
(* or run although its reply is lost.  An operator marked "Mutant" is used  *)
(* by no other definition.                                                  *)
(***************************************************************************)
EXTENDS Integers, FiniteSets

CONSTANTS
    Replicas,   \* processes, each with its cache.Client
    Requests,   \* calls of Get
    Workers,    \* places for refresh goroutines (Options.Workers per replica)
    Writers,    \* calls of ShopService.Create and Update
    ReplicaOf,  \* where a request or a worker runs
    MaxLate,    \* bound on the delayed writes under way at once
    None

ASSUME ConstantsAssumption ==
    /\ ReplicaOf \in [Requests \cup Workers -> Replicas]
    /\ Requests \cap Workers = {}
    /\ None \notin Requests \cup Workers \cup Nat
    /\ IsFiniteSet(Writers)
    /\ MaxLate \in Nat

VARIABLES
    row,          \* the committed row in tb_shop
    data,         \* the envelope under Keys.Data, or None
    version,      \* the counter under Keys.Version, 0 when there is none
    lock,         \* the token under Keys.Lock, or None
    late,         \* conditional writes that may still reach Redis
    pc,           \* where each request and worker is
    ver,          \* the version it read
    got,          \* the value it loaded or was answered, None for an error
    writer,       \* where each writer is
    closed,       \* whether Close was called, or has returned
    expired,      \* history: tasks whose lease ran out
    invalidated,  \* history: the row at the last invalidation
    floor         \* history: invalidated when the request, or its flight, began

dbVars == <<row, writer>>
taskVars == <<pc, ver, got>>
history == <<expired, invalidated, floor>>
vars == <<row, data, version, lock, late, pc, ver, got, writer, closed, history>>

Tasks == Requests \cup Workers
Values == 0..Cardinality(Writers) + 1
Envelopes == {e \in [val : Values, fresh : BOOLEAN] : e.val = 0 => e.fresh}
Stores == [ver : Values, val : Values]

Holding == {"recheck", "version", "load", "bare", "store", "unlock"}
Leading == Holding \cup {"check", "lock", "poll", "direct"}
Locations == Leading \cup {"idle", "flight", "wait", "done"}

Goto(t, l) == pc' = [pc EXCEPT ![t] = l]
Set(f, t, v) == [f EXCEPT ![t] = v]

-----------------------------------------------------------------------------
(* Reading and joining a flight *)

\* Any read of Keys.Data may miss: the call may fail, and every caller takes
\* an error for a miss.

Leaders(p) == {r \in Requests : ReplicaOf[r] = p /\ pc[r] \in Leading}
Followers(p) == {r \in Requests : ReplicaOf[r] = p /\ pc[r] = "wait"}
IdleWorkers(p) == {g \in Workers : ReplicaOf[g] = p /\ pc[g] = "idle"}

\* Mutant of Spawns: refresh does not look at closed.
SpawnsUnchecked(r) == IF data.val # 0 /\ ~data.fresh THEN IdleWorkers(ReplicaOf[r]) ELSE {}

\* refresh: the goroutines a hit may start.
Spawns(r) ==
    IF data.val # 0 /\ ~data.fresh /\ closed[ReplicaOf[r]] = "open"
    THEN IdleWorkers(ReplicaOf[r]) ELSE {}

Get(r) ==
    /\ pc[r] = "idle"
    /\ \/ /\ data # None
          /\ got' = Set(got, r, data.val)
          /\ floor' = Set(floor, r, invalidated)
          /\ \/ Spawns(r) = {} /\ Goto(r, "done")
             \/ \E g \in Spawns(r) :
                   pc' = [pc EXCEPT ![r] = "done", ![g] = "lock"]
       \/ Goto(r, "flight") /\ UNCHANGED <<got, floor>>
    /\ UNCHANGED <<dbVars, data, version, lock, late, ver, closed, expired, invalidated>>

Join(r) ==
    /\ pc[r] = "flight"
    /\ \/ \E l \in Leaders(ReplicaOf[r]) :
             Goto(r, "wait") /\ floor' = Set(floor, r, floor[l])
       \/ /\ Leaders(ReplicaOf[r]) = {}
          /\ Goto(r, "check")
          /\ floor' = Set(floor, r, invalidated)
    /\ UNCHANGED <<dbVars, data, version, lock, late, ver, got, closed, expired, invalidated>>

\* A leader answers its followers too; a worker frees its place.
Finish(t, v) ==
    LET served == IF t \in Requests THEN {t} \cup Followers(ReplicaOf[t]) ELSE {t}
    IN  /\ pc' = [u \in Tasks |->
                    IF u \notin served THEN pc[u]
                    ELSE IF t \in Requests THEN "done" ELSE "idle"]
        /\ got' = [u \in Tasks |-> IF u \in served THEN v ELSE got[u]]

\* The read at the head of a flight, and after every wait for the lease.
Reread(r) ==
    /\ pc[r] \in {"check", "poll"}
    /\ \/ data # None /\ Finish(r, data.val)
       \/ Goto(r, "lock") /\ UNCHANGED got
    /\ UNCHANGED <<dbVars, data, version, lock, late, ver, closed, history>>

-----------------------------------------------------------------------------
(* The lease *)

Acquire(t) ==
    /\ pc[t] = "lock"
    /\ lock = None
    /\ lock' = t
    /\ expired' = expired \ {t}
    /\ Goto(t, "recheck")
    /\ UNCHANGED <<dbVars, data, version, late, ver, got, closed, invalidated, floor>>

\* SET NX finds a token, or its own after a lost reply was retried: a request
\* waits, a refresh gives up.  On an error a request loads without the lease.
Refused(t) ==
    /\ pc[t] = "lock"
    /\ \/ lock' = IF lock = None THEN t ELSE lock
       \/ UNCHANGED lock
    /\ IF t \in Workers THEN Finish(t, None)
       ELSE /\ \E l \in {"poll", "direct"} :
                  /\ l = "poll" => lock' # None
                  /\ Goto(t, l)
            /\ UNCHANGED got
    /\ UNCHANGED <<dbVars, data, version, late, ver, closed, history>>

\* Mutant of Unlock: DEL without comparing the token.
UnlockAny(t) ==
    /\ pc[t] = "unlock"
    /\ lock' \in {lock, None}
    /\ Finish(t, got[t])
    /\ UNCHANGED <<dbVars, data, version, late, ver, closed, history>>

\* safeUnlock, lost when the call fails.
Unlock(t) ==
    /\ pc[t] = "unlock"
    /\ lock' \in {lock, IF lock = t THEN None ELSE lock}
    /\ Finish(t, got[t])
    /\ UNCHANGED <<dbVars, data, version, late, ver, closed, history>>

\* Mutant of LockExpire: SET NX without PX.
LockExpireNever == FALSE /\ UNCHANGED vars

\* The lease runs out, 2 * LoadTimeout after SET NX.
LockExpire ==
    /\ lock # None
    /\ lock' = None
    /\ expired' = expired \cup {lock}
    /\ UNCHANGED <<dbVars, taskVars, data, version, late, closed, invalidated, floor>>

-----------------------------------------------------------------------------
(* Loading under the lease *)

\* Another task may have filled the cache before the lease was ours; a
\* refresh is content with a fresh value only.
Recheck(t) ==
    /\ pc[t] = "recheck"
    /\ \/ /\ data # None
          /\ t \in Workers => data.fresh
          /\ got' = Set(got, t, data.val)
          /\ Goto(t, "unlock")
       \/ Goto(t, "version") /\ UNCHANGED got
    /\ UNCHANGED <<dbVars, data, version, lock, late, ver, closed, history>>

\* Without the version the value is loaded and not stored.
ReadVersion(t) ==
    /\ pc[t] = "version"
    /\ \/ Goto(t, "load") /\ ver' = Set(ver, t, version)
       \/ Goto(t, "bare") /\ UNCHANGED ver
    /\ UNCHANGED <<dbVars, data, version, lock, late, got, closed, history>>

Load(t) ==
    /\ pc[t] \in {"load", "bare"}
    /\ got' = Set(got, t, row)
    /\ Goto(t, IF pc[t] = "load" THEN "store" ELSE "unlock")
    /\ UNCHANGED <<dbVars, data, version, lock, late, ver, closed, history>>

LoadDirect(t) ==
    /\ pc[t] = "direct"
    /\ Finish(t, row)
    /\ UNCHANGED <<dbVars, data, version, lock, late, ver, closed, history>>

\* The database fails, the deadline passes, or Close cancels a refresh.
Fail(t) ==
    /\ \/ pc[t] \in {"poll", "direct"} /\ Finish(t, None)
       \/ /\ pc[t] \in {"version", "load", "bare"}
          /\ got' = Set(got, t, None)
          /\ Goto(t, "unlock")
    /\ UNCHANGED <<dbVars, data, version, lock, late, ver, closed, history>>

\* Mutant of Written: SET without the version.
WrittenAlways(s) == [val |-> s.val, fresh |-> TRUE]

\* writeIfVersion
Written(s) == IF version = s.ver THEN [val |-> s.val, fresh |-> TRUE] ELSE data

\* What was loaded is returned whether or not it could be stored.
Store(t) ==
    /\ pc[t] = "store"
    /\ LET s == [ver |-> ver[t], val |-> got[t]]
       IN  /\ data' \in {Written(s), data}
           /\ late' \in {l \in {late, late \cup {s}} : Cardinality(l) <= MaxLate}
    /\ Goto(t, "unlock")
    /\ UNCHANGED <<dbVars, version, lock, ver, got, closed, history>>

LateStore ==
    /\ \E s \in late : data' = Written(s) /\ late' = late \ {s}
    /\ UNCHANGED <<dbVars, taskVars, version, lock, closed, history>>

\* The value passes FreshUntil, then its TTL; a missing shop only has a TTL.
Stale ==
    /\ data # None
    /\ data.fresh /\ data.val # 0
    /\ data' = [data EXCEPT !.fresh = FALSE]
    /\ UNCHANGED <<dbVars, taskVars, version, lock, late, closed, history>>

Evict ==
    /\ data # None
    /\ data' = None
    /\ UNCHANGED <<dbVars, taskVars, version, lock, late, closed, history>>

-----------------------------------------------------------------------------
(* Writers and Close *)

Commit(w) ==
    /\ writer[w] = "idle"
    /\ row' = row + 1
    /\ writer' = Set(writer, w, "committed")
    /\ UNCHANGED <<data, version, lock, late, taskVars, closed, history>>

\* Mutant of Invalidate: the version stays.
InvalidateData(w) ==
    /\ writer[w] \in {"committed", "failed"}
    /\ data' = None
    /\ invalidated' = row
    /\ writer' = Set(writer, w, "ok")
    /\ UNCHANGED <<row, version, lock, late, taskVars, closed, expired, floor>>

\* The invalidate script, which may run after the writer was told it failed.
\* A client's retry that runs it again only raises the version.
Invalidate(w) ==
    /\ writer[w] \in {"committed", "failed"}
    /\ version' = version + 1
    /\ data' = None
    /\ invalidated' = row
    /\ writer' = Set(writer, w, "ok")
    /\ UNCHANGED <<row, lock, late, taskVars, closed, expired, floor>>

\* Redis is away: the client is told that the update needs a retry.
InvalidateFails(w) ==
    /\ writer[w] = "committed"
    /\ writer' = Set(writer, w, "failed")
    /\ UNCHANGED <<row, data, version, lock, late, taskVars, closed, history>>

Close(p) ==
    /\ \/ closed[p] = "open" /\ closed' = Set(closed, p, "closing")
       \/ /\ closed[p] = "closing"
          /\ \A g \in Workers : ReplicaOf[g] = p => pc[g] = "idle"
          /\ closed' = Set(closed, p, "closed")
    /\ UNCHANGED <<dbVars, data, version, lock, late, taskVars, history>>

-----------------------------------------------------------------------------
(* Specification *)

Init ==
    /\ row \in {0, 1}
    /\ data = None
    /\ version = 0
    /\ lock = None
    /\ late = {}
    /\ pc = [t \in Tasks |-> "idle"]
    /\ ver = [t \in Tasks |-> 0]
    /\ got = [t \in Tasks |-> None]
    /\ writer = [w \in Writers |-> "idle"]
    /\ closed = [p \in Replicas |-> "open"]
    /\ expired = {}
    /\ invalidated = 0
    /\ floor = [r \in Requests |-> 0]

\* What a task does once it is started.
Proceed(t) ==
    \/ Acquire(t) \/ Refused(t) \/ Recheck(t) \/ ReadVersion(t)
    \/ Load(t) \/ LoadDirect(t) \/ Store(t) \/ Unlock(t)

Next ==
    \/ \E r \in Requests : Get(r) \/ Join(r) \/ Reread(r)
    \/ \E t \in Tasks : Proceed(t) \/ Fail(t)
    \/ \E w \in Writers : Commit(w) \/ Invalidate(w) \/ InvalidateFails(w)
    \/ \E p \in Replicas : Close(p)
    \/ LateStore \/ LockExpire \/ Stale \/ Evict

Spec == Init /\ [][Next]_vars

\* A started task goes on and leases run out; SET NX on a free key cannot
\* fail for ever.  No deadline and no reader or writer has to happen.
Fairness ==
    /\ \A r \in Requests : WF_vars(Join(r) \/ Reread(r))
    /\ \A t \in Tasks : WF_vars(Proceed(t)) /\ SF_vars(Acquire(t))
    /\ \A p \in Replicas : WF_vars(closed[p] = "closing" /\ Close(p))
    /\ WF_vars(LockExpire)

FairSpec == Spec /\ Fairness

-----------------------------------------------------------------------------
(* Properties *)

\* Every variable has its type.
TypeOK ==
    /\ row \in Values
    /\ data \in Envelopes \cup {None}
    /\ version \in Values
    /\ lock \in Tasks \cup {None}
    /\ late \subseteq Stores
    /\ pc \in [Tasks -> Locations]
    /\ ver \in [Tasks -> Values]
    /\ got \in [Tasks -> Values \cup {None}]
    /\ writer \in [Writers -> {"idle", "committed", "ok", "failed"}]
    /\ closed \in [Replicas -> {"open", "closing", "closed"}]
    /\ expired \subseteq Tasks
    /\ invalidated \in Values
    /\ floor \in [Requests -> Values]

\* The cache never holds a value older than the last invalidation, although
\* a slow load that began before it may try to store its result after it.
NoStaleFill == data # None => data.val >= invalidated

\* A request never returns a row older than the last invalidation before it
\* began, or, when it joined another request's flight, before that began.
FreshAnswers ==
    \A r \in Requests :
        pc[r] = "done" /\ got[r] # None => got[r] >= floor[r]

\* Two tasks load under the lease only if one of them outlived it, and a
\* lease that has not run out ends with its holder's release alone: a slow
\* loader that releases late never frees the lease of the next one.
LeaseExclusive ==
    /\ [](\A t, u \in Tasks \ expired :
            pc[t] \in Holding /\ pc[u] \in Holding => t = u)
    /\ [][\A t \in Tasks : lock = t /\ lock' # t =>
            t \in expired' \/ pc'[t] \notin Holding]_vars

\* After Close returned no refresh runs, and none starts.
CloseWaits ==
    \A g \in Workers : closed[ReplicaOf[g]] = "closed" => pc[g] = "idle"

\* A started request is answered and a refresh ends, so that Close returns,
\* even if a holder dies with its lease and no deadline helps.
TasksEnd ==
    /\ \A t \in Tasks : pc[t] \notin {"idle", "done"} ~> pc[t] \in {"idle", "done"}
    /\ \A p \in Replicas : closed[p] = "closing" ~> closed[p] = "closed"

=============================================================================
