----------------------------- MODULE Projection -----------------------------
(***************************************************************************)
(* Likes and follows of go-dianping.  MySQL holds the facts: who likes a    *)
(* blog, with a counter in the blog's row, and whom a user follows.  Redis  *)
(* holds a copy of each, the like ranking and the follow set, which a call  *)
(* replaces while it holds the row's lock.  A script that timed out may be  *)
(* run later, when the lock is long released.                              *)
(*                                                                         *)
(* A ranking is the set of its members: their order follows from the set    *)
(* and the times of the likes.  An operator marked "Mutant" is used by no   *)
(* other definition.                                                       *)
(***************************************************************************)
EXTENDS Integers, FiniteSets

CONSTANTS
    Blogs, Users,
    Id,        \* order of the ids of the rows
    Legacy,    \* likes counted before likes had rows
    Calls,     \* concurrent requests
    Requests,  \* what a call may ask: a Request
    MaxLate,   \* bound on scripts that may still run
    MaxLoss    \* bound on losses in Redis

Keys == Blogs \cup Users

\* LikeBlog, BlogLikes (member is the asking user), Follow and CommonFollows.
Request ==
    [op : {"toggle", "rank"}, row : Blogs, member : Users]
        \cup [op : {"follow", "unfollow", "common"}, row : Users, member : Users]

ASSUME ConstantsAssumption ==
    /\ IsFiniteSet(Users)
    /\ Blogs \cap Users = {}
    /\ Id \in [Keys -> Nat]
    /\ \A j, k \in Keys : Id[j] = Id[k] => j = k
    /\ Legacy \in [Blogs -> Nat]
    /\ Requests # {} /\ Requests \subseteq Request
    /\ {MaxLate, MaxLoss} \subseteq Nat

VARIABLES
    table,   \* tb_blog_like by blog, tb_follow by user
    liked,   \* tb_blog.liked
    copy,    \* the ZSets and Sets in Redis
    late,    \* scripts that were given up and may still run
    losses,  \* copies Redis has lost so far
    pc, req,
    held,    \* the row locks of each call
    found,   \* toggle: whether the like was there
    snap,    \* what the call read under its locks
    todo,    \* keys whose script has not been called yet
    ans,     \* what it will answer
    over     \* history: copies overwritten or lost since the call replaced them

dbVars == <<table, liked>>
redisVars == <<copy, late, losses>>
callVars == <<pc, req, held, found, snap, todo, ans, over>>
vars == <<dbVars, redisVars, callVars>>

Set(f, x, v) == [f EXCEPT ![x] = v]
Goto(c, l) == pc' = Set(pc, c, l)
Members == SUBSET Users
NoSnap == [k \in Keys |-> {}]

-----------------------------------------------------------------------------
(* Row locks *)

\* A mutation locks its own row, a copy of rows locks them all.
RowsOf(c) ==
    IF pc[c] = "lockCopy" /\ req[c].op = "common"
    THEN {req[c].row, req[c].member} ELSE {req[c].row}

\* Mutant of NextRow: the caller's row first.
NextRowUnsorted(c) ==
    IF req[c].row \in held[c] THEN req[c].member ELSE req[c].row

NextRow(c) ==
    CHOOSE k \in RowsOf(c) \ held[c] : \A j \in RowsOf(c) \ held[c] : Id[k] <= Id[j]

\* Mutant of Free: no FOR UPDATE.
FreeAlways(k) == k \in Keys

Free(k) == \A d \in Calls : k \notin held[d]

\* SELECT ... FOR UPDATE
Lock(c) ==
    /\ pc[c] \in {"lock", "lockCopy"}
    /\ Free(NextRow(c))
    /\ held' = Set(held, c, held[c] \cup {NextRow(c)})
    /\ IF RowsOf(c) \subseteq held'[c]
       THEN Goto(c, IF pc[c] = "lockCopy" THEN "read"
                    ELSE IF req[c].op = "toggle" THEN "count" ELSE "write")
       ELSE UNCHANGED pc
    /\ UNCHANGED <<dbVars, redisVars, req, found, snap, todo, ans, over>>

\* The call waits for a row that the other one holds.
WaitsFor(c, d) ==
    /\ pc[c] \in {"lock", "lockCopy"}
    /\ NextRow(c) \in held[d]

\* The transaction of c is over and what c knew with it.
Release(c) ==
    /\ held' = Set(held, c, {})
    /\ found' = Set(found, c, FALSE)
    /\ snap' = Set(snap, c, NoSnap)
    /\ todo' = Set(todo, c, {})
    /\ ans' = Set(ans, c, {})
    /\ over' = Set(over, c, {})

NoRequest == CHOOSE q \in Requests : TRUE

End(c) ==
    /\ Goto(c, "idle")
    /\ req' = Set(req, c, NoRequest)
    /\ Release(c)

-----------------------------------------------------------------------------
(* Requests *)

Start(c) ==
    /\ pc[c] = "idle"
    /\ \E q \in Requests :
          /\ req' = Set(req, c, q)
          /\ Goto(c, IF q.op \in {"rank", "common"} THEN "lockCopy" ELSE "lock")
    /\ UNCHANGED <<dbVars, redisVars, held, found, snap, todo, ans, over>>

\* ToggleSocialLike: COUNT
Count(c) ==
    /\ pc[c] = "count"
    /\ found' = Set(found, c, req[c].member \in table[req[c].row])
    /\ Goto(c, "write")
    /\ UNCHANGED <<dbVars, redisVars, req, held, snap, todo, ans, over>>

\* INSERT or DELETE of the like with its count; a second row of one like is
\* refused by the primary key.
Toggle(b, u, there) ==
    /\ there \/ u \notin table[b]
    /\ table' = [table EXCEPT ![b] = IF there THEN @ \ {u} ELSE @ \cup {u}]
    /\ liked' = [liked EXCEPT ![b] =
                    IF ~there THEN @ + 1 ELSE IF @ > 0 THEN @ - 1 ELSE 0]

\* SetSocialFollow: repeating it changes nothing.
Follow(u, t, on) ==
    /\ table' = [table EXCEPT ![u] = IF on THEN @ \cup {t} ELSE @ \ {t}]
    /\ UNCHANGED liked

\* The statements and COMMIT, whose answer may be an error all the same: then
\* the call ends without a copy.
Write(c) ==
    /\ pc[c] = "write"
    /\ IF req[c].op = "toggle"
       THEN Toggle(req[c].row, req[c].member, found[c])
       ELSE Follow(req[c].row, req[c].member, req[c].op = "follow")
    /\ \/ Goto(c, "lockCopy") /\ Release(c) /\ UNCHANGED req
       \/ End(c)
    /\ UNCHANGED redisVars

\* WithSocialLikes and WithSocialFollows: all locks are held, then one snapshot.
Read(c) ==
    /\ pc[c] = "read"
    /\ snap' = Set(snap, c, [k \in Keys |-> IF k \in held[c] THEN table[k] ELSE {}])
    /\ todo' = Set(todo, c, held[c])
    /\ Goto(c, "script")
    /\ UNCHANGED <<dbVars, redisVars, req, held, found, ans, over>>

Common(c, F) == F[req[c].row] \cap F[req[c].member]
Persisted(c) == IF req[c].op = "common" THEN Common(c, snap[c]) ELSE snap[c][req[c].row]

\* Mutant of Reply: the ranking is read before it is replaced.
ReplyBefore(c, k) == copy[k]

\* replaceSocialZSet returns what it has just written.
Reply(c, k) == snap[c][k]

\* replaceSocialZSet or replaceSocialSet for one key, in any order of keys.
Script(c) ==
    /\ pc[c] = "script"
    /\ \E k \in todo[c] :
          /\ copy' = Set(copy, k, snap[c][k])
          /\ todo' = Set(todo, c, todo[c] \ {k})
          /\ over' = Set(over, c, over[c] \ {k})
          /\ ans' = Set(ans, c, IF req[c].op = "common" THEN {} ELSE Reply(c, k))
    /\ IF todo'[c] # {} THEN UNCHANGED pc
       ELSE Goto(c, IF req[c].op = "common" THEN "sinter" ELSE "answer")
    /\ UNCHANGED <<dbVars, late, losses, req, held, found, snap>>

\* What becomes of a script call without a reply: Redis ran it, will run it
\* later, or never.
Unanswered(c) ==
    \E k \in todo[c] :
        \/ UNCHANGED <<copy, late>>
        \/ copy' = Set(copy, k, snap[c][k]) /\ UNCHANGED late
        \/ /\ Cardinality(late) < MaxLate
           /\ late' = late \cup {[key |-> k, val |-> snap[c][k]]}
           /\ UNCHANGED copy

\* After 2 s without a reply the answer is taken from MySQL.
ScriptFails(c) ==
    /\ pc[c] = "script"
    /\ Unanswered(c)
    /\ todo' = Set(todo, c, {})
    /\ ans' = Set(ans, c, Persisted(c))
    /\ Goto(c, "answer")
    /\ UNCHANGED <<dbVars, losses, req, held, found, snap, over>>

\* CommonFollows: SINTER, or the sets from MySQL if it fails.
SInter(c) ==
    /\ pc[c] = "sinter"
    /\ \E A \in {Common(c, copy), Persisted(c)} : ans' = Set(ans, c, A)
    /\ Goto(c, "answer")
    /\ UNCHANGED <<dbVars, redisVars, req, held, found, snap, todo, over>>

\* The transaction ends, then the answer leaves.
Answer(c) ==
    /\ pc[c] = "answer"
    /\ End(c)
    /\ UNCHANGED <<dbVars, redisVars>>

\* Cancelled, or its process or connection is lost: MySQL rolls back.
Abort(c) ==
    /\ pc[c] # "idle"
    /\ IF pc[c] = "script" THEN Unanswered(c) ELSE UNCHANGED <<copy, late>>
    /\ End(c)
    /\ UNCHANGED <<dbVars, losses>>

-----------------------------------------------------------------------------
(* Redis *)

\* A call that has not yet read what it copied may see copy k replaced.
Overwrites(k) ==
    over' = [c \in Calls |->
                IF pc[c] \in {"script", "sinter"} /\ k \in held[c]
                THEN over[c] \cup {k} ELSE over[c]]

LateScript ==
    /\ \E s \in late :
          /\ copy' = Set(copy, s.key, s.val)
          /\ late' = late \ {s}
          /\ Overwrites(s.key)
    /\ UNCHANGED <<dbVars, losses, pc, req, held, found, snap, todo, ans>>

\* A copy is evicted or deleted.
Lose(k) ==
    /\ losses < MaxLoss
    /\ copy[k] # {}
    /\ copy' = Set(copy, k, {})
    /\ losses' = losses + 1
    /\ Overwrites(k)
    /\ UNCHANGED <<dbVars, late, pc, req, held, found, snap, todo, ans>>

-----------------------------------------------------------------------------
(* Specification *)

Init ==
    /\ table = NoSnap
    /\ liked = Legacy
    /\ copy = NoSnap
    /\ late = {}
    /\ losses = 0
    /\ pc = [c \in Calls |-> "idle"]
    /\ req = [c \in Calls |-> NoRequest]
    /\ held = [c \in Calls |-> {}]
    /\ found = [c \in Calls |-> FALSE]
    /\ snap = [c \in Calls |-> NoSnap]
    /\ todo = [c \in Calls |-> {}]
    /\ ans = [c \in Calls |-> {}]
    /\ over = [c \in Calls |-> {}]

Next ==
    \/ \E c \in Calls :
          \/ Start(c) \/ Lock(c) \/ Count(c) \/ Write(c) \/ Read(c) \/ Script(c)
          \/ ScriptFails(c) \/ SInter(c) \/ Answer(c) \/ Abort(c)
    \/ LateScript
    \/ \E k \in Keys : Lose(k)

Spec == Init /\ [][Next]_vars

-----------------------------------------------------------------------------
(* Properties *)

\* Every variable has its type.
TypeOK ==
    /\ table \in [Keys -> Members]
    /\ liked \in [Blogs -> Nat]
    /\ copy \in [Keys -> Members]
    /\ late \subseteq [key : Keys, val : Members]
    /\ losses \in 0..MaxLoss
    /\ pc \in [Calls -> {"idle", "lock", "count", "write", "lockCopy", "read",
                         "script", "sinter", "answer"}]
    /\ req \in [Calls -> Requests]
    /\ held \in [Calls -> SUBSET Keys]
    /\ found \in [Calls -> BOOLEAN]
    /\ snap \in [Calls -> [Keys -> Members]]
    /\ todo \in [Calls -> SUBSET Keys]
    /\ ans \in [Calls -> Members]
    /\ over \in [Calls -> SUBSET Keys]

\* The counter of a blog is the number of its likes, on top of those counted
\* before, although several replicas toggle the same like at once.
CountMatches ==
    \A b \in Blogs : liked[b] = Legacy[b] + Cardinality(table[b])

\* A ranking is answered as MySQL holds it, whoever toggles meanwhile and
\* whatever late scripts run.  SINTER is a call of its own: between the scripts
\* and it, a late script or a loss may replace one of the two follow sets.  Then
\* the answer is still no more than the other user follows; if neither set was
\* replaced, it is what MySQL holds.
AnswersAreCurrent ==
    \A c \in Calls :
        pc[c] = "answer" =>
            IF req[c].op # "common" THEN ans[c] = table[req[c].row]
            ELSE /\ \A k \in held[c] \ over[c] : ans[c] \subseteq table[k]
                 /\ over[c] = {} => ans[c] = Common(c, table)

\* No calls wait for each other's rows: common follows of A and B and of B and
\* A lock both rows in the order of the ids.
NoLockCycle ==
    \A S \in (SUBSET Calls) \ {{}} : \E c \in S : \A d \in S : ~WaitsFor(c, d)

\* What docs/SOCIAL.md and the comments of the row locks say: an older snapshot
\* never overwrites a newer one in Redis.
CurrentStaysCurrent ==
    [][\A k \in Keys :
          copy[k] = table[k] /\ table'[k] = table[k] /\ losses' = losses =>
              copy'[k] = table[k]]_vars

=============================================================================
