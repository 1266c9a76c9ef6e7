----------------------------- MODULE FeedProofs -----------------------------
(***************************************************************************)
(* Theorems about Feed, for every set of posts, fans, passes and readers,   *)
(* every batch and page size and every number of losses.                   *)
(***************************************************************************)
EXTENDS Feed, FiniteSetTheorems, WellFoundedInduction, TLAPS

-----------------------------------------------------------------------------
(* The strengthening *)

\* A row whose ZADD has run: it is marked, or about to be.
Kept(f, b) ==
    <<f, b>> \in marked \/ \E p \in Passes : ppc[p] = "mark" /\ <<f, b>> \in batch[p]

\* What a pass or a rebuild has read is committed and keeps its id; a rebuild
\* begins before the first id.
RowsStay ==
    /\ \A p \in Passes : \A row \in batch[p] : IsRow(row)
    /\ \A r \in Readers : \A b \in page[r] : post[b] = "committed"
    /\ \A b \in Blogs : post[b] # "none" => id[b] >= 1
    /\ \A r \in Readers : rpc[r] \in {"idle", "check"} => after[r] = 0 /\ ~clean[r]

\* What an inbox was given, and still has or has lost.
Given == InboxRows(redis) \cup lost

\* The rows whose ZADD has run were given, and nothing is lost by itself.
Undelivered ==
    /\ \A f \in Fans, b \in Blogs : Kept(f, b) => <<f, b>> \in Given
    /\ crashes + evictions = 0 => lost = {}

\* The rebuild has the post still ahead of it.
Ahead(r, b) ==
    \/ rpc[r] = "query" /\ after[r] < id[b]
    \/ rpc[r] = "add" /\ (b \in page[r] \/ \A c \in page[r] : id[c] < id[b])

\* What was added is in the inbox or ahead of the cursor.
Cursor ==
    \A r \in Readers : clean[r] =>
        \A b \in Blogs : Kept(FanOf[r], b) => b \in redis.inbox[FanOf[r]] \/ Ahead(r, b)

IInv == TypeOK /\ RowsStay /\ Undelivered /\ Cursor

-----------------------------------------------------------------------------
(* Lemmas *)

\* A set of numbers has a least one.
LEMMA LeastNumber ==
    ASSUME NEW T \in SUBSET Nat, T # {}
    PROVE  \E x \in T : \A y \in T : x <= y
<1>1. PICK x \in T : \A y \in T : ~(<<y, x>> \in OpToRel(<, Nat))
  BY WFMin, NatLessThanWellFounded
<1>2. \A y \in T : ~(y < x)
  BY <1>1 DEF OpToRel
<1> QED
  BY <1>2

\* Fewer posts than all have been inserted while one is not, so the next id
\* is one of the ids.
LEMMA NextId ==
    ASSUME NEW S \in SUBSET Blogs, NEW b \in Blogs \ S
    PROVE  /\ Cardinality(Blogs) \in Nat /\ Cardinality(S) \in Nat
           /\ Cardinality(S) + 1 \in 1..Cardinality(Blogs)
<1>1. IsFiniteSet(Blogs)
  BY ConstantsAssumption DEF ConstantsAssumption
<1>2. IsFiniteSet(S) /\ IsFiniteSet(S \cup {b}) /\ S \cup {b} \subseteq Blogs
  BY <1>1, FS_Subset
<1>3. Cardinality(S \cup {b}) = Cardinality(S) + 1
  BY <1>2, FS_AddElement
<1>4. Cardinality(S \cup {b}) <= Cardinality(Blogs)
  BY <1>1, <1>2, FS_Subset
<1>5. Cardinality(Blogs) \in Nat /\ Cardinality(S) \in Nat
  BY <1>1, <1>2, FS_CardinalityType
<1> QED
  BY <1>3, <1>4, <1>5

\* ZADD leaves inboxes, with what was in them.
LEMMA AddedType ==
    ASSUME NEW R \in RedisState, NEW rows
    PROVE  /\ Added(R, rows) \in RedisState
           /\ \A f \in Fans : R.inbox[f] \subseteq Added(R, rows).inbox[f]
           /\ \A f \in Fans, b \in Blogs : b \in Added(R, rows).inbox[f] <=> b \in R.inbox[f] \/ <<f, b>> \in rows
BY DEF Added, RedisState

\* The history stays a set of rows, whichever way it is kept.
LEMMA LostType ==
    ASSUME TypeOK, RecordLost \/ UNCHANGED lost
    PROVE  lost' \subseteq Rows
BY DEF RecordLost, TypeOK, InboxRows

\* The steps that are not of the two actions of a publication leave its rows.
Publishes == \E b \in Blogs : Insert(b) \/ Finish(b)

\* Committed rows and their ids stay.
LEMMA RowsRemain ==
    ASSUME TypeOK, Next
    PROVE  /\ \A f \in Fans, b \in Blogs : IsRow(<<f, b>>) => IsRow(<<f, b>>)'
           /\ \A b \in Blogs : post[b] = "committed" => post'[b] = "committed"
           /\ \A b \in Blogs : post[b] # "none" => id'[b] = id[b]
<1>1. CASE UNCHANGED <<post, id, fansOf>>
  BY <1>1 DEF IsRow
<1>2. ASSUME NEW b \in Blogs, Insert(b)
      PROVE  /\ \A f \in Fans, c \in Blogs : IsRow(<<f, c>>) => IsRow(<<f, c>>)'
             /\ \A c \in Blogs : post[c] = "committed" => post'[c] = "committed"
             /\ \A c \in Blogs : post[c] # "none" => id'[c] = id[c]
  BY <1>2 DEF Insert, IsRow, TypeOK, Set
<1>3. ASSUME NEW b \in Blogs, Finish(b)
      PROVE  /\ \A f \in Fans, c \in Blogs : IsRow(<<f, c>>) => IsRow(<<f, c>>)'
             /\ \A c \in Blogs : post[c] = "committed" => post'[c] = "committed"
             /\ \A c \in Blogs : post[c] # "none" => id'[c] = id[c]
  BY <1>3 DEF Finish, IsRow, TypeOK, Set
<1>4. Publishes \/ UNCHANGED <<post, id, fansOf>>
  BY DEF Publishes, Next, Fetch, Exec, Mark, Read, Open, Check, Query, Add, SetReady, Fail,
         Expire, Evict, Persist, Crash, dbVars, vars
<1> QED
  BY <1>1, <1>2, <1>3, <1>4 DEF Publishes

-----------------------------------------------------------------------------
(* Type correctness *)

LEMMA InitType == Init => TypeOK
<1>1. Cardinality(Blogs) \in Nat /\ MaxLoss \in Nat
  BY ConstantsAssumption, FS_CardinalityType DEF ConstantsAssumption
<1> QED
  BY <1>1 DEF Init, TypeOK, RedisState, Rows

LEMMA IdsType ==
    ASSUME TypeOK, NEW b \in Blogs, Insert(b)
    PROVE  id' \in [Blogs -> 0..Cardinality(Blogs)] /\ id'[b] >= 1
<1> DEFINE S == {c \in Blogs : post[c] # "none"}
<1>1. S \in SUBSET Blogs /\ b \in Blogs \ S
  BY DEF Insert
<1>2. Cardinality(S) + 1 \in 1..Cardinality(Blogs) /\ Cardinality(Blogs) \in Nat
  BY <1>1, NextId
<1>3. id' = [id EXCEPT ![b] = Cardinality(S) + 1]
  BY DEF Insert, Set
<1> HIDE DEF S
<1> QED
  BY <1>2, <1>3 DEF TypeOK

LEMMA PublishType ==
    ASSUME TypeOK, NEW b \in Blogs, Insert(b) \/ Finish(b), Next
    PROVE  TypeOK'
<1>1. post' \in [Blogs -> {"none", "inserted", "committed", "void"}] /\ fansOf' \in [Blogs -> SUBSET Fans]
  BY DEF Insert, Finish, Set, TypeOK
<1>2. id' \in [Blogs -> 0..Cardinality(Blogs)]
  BY IdsType DEF Finish, TypeOK
<1>3. marked' \subseteq {row \in Rows : IsRow(row)'}
  BY RowsRemain DEF Insert, Finish, TypeOK, Rows
<1> QED
  BY <1>1, <1>2, <1>3 DEF Insert, Finish, TypeOK, redisVars, passVars, readerVars

LEMMA PassType ==
    ASSUME TypeOK, RowsStay, NEW p \in Passes, Fetch(p) \/ Exec(p) \/ Mark(p)
    PROVE  TypeOK'
<1>1. CASE Fetch(p)
  BY <1>1 DEF Fetch, TypeOK, Set, Pending, dbVars, redisVars, readerVars, IsRow
<1>2. CASE Exec(p)
  <2>1. PICK done \in SUBSET batch[p] : redis' = Added(redis, done)
    BY <1>2 DEF Exec
  <2>2. redis' \in RedisState
    BY <2>1, AddedType DEF TypeOK
  <2> QED
    BY <1>2, <2>2, LostType DEF Exec, TypeOK, Set, EndPass, dbVars, readerVars, IsRow
<1>3. CASE Mark(p)
  <2>1. marked' \subseteq {row \in Rows : IsRow(row)}
    BY <1>3 DEF Mark, TypeOK, RowsStay
  <2> QED
    BY <1>3, <2>1 DEF Mark, TypeOK, Set, EndPass, redisVars, readerVars, IsRow
<1> QED
  BY <1>1, <1>2, <1>3

LEMMA ReaderType ==
    ASSUME TypeOK, NEW r \in Readers, Read(r) \/ Fail(r)
    PROVE  TypeOK'
<1>1. redis' \in RedisState
  <2>1. redis' \in {redis, Added(redis, {FanOf[r]} \X page[r]), [redis EXCEPT !.ready[FanOf[r]] = TRUE]}
    BY DEF Read, Open, Check, Query, Add, SetReady, Fail, redisVars
  <2>2. Added(redis, {FanOf[r]} \X page[r]) \in RedisState
    BY AddedType DEF TypeOK
  <2>3. [redis EXCEPT !.ready[FanOf[r]] = TRUE] \in RedisState
    BY DEF TypeOK, RedisState
  <2> QED
    BY <2>1, <2>2, <2>3 DEF TypeOK
<1>2. rpc' \in [Readers -> {"idle", "check", "query", "add", "set"}]
  BY DEF Read, Open, Check, Query, Add, SetReady, Fail, Leave, GotoR, Set, TypeOK
<1>3. after' \in [Readers -> 0..Cardinality(Blogs)]
  <2>1. Cardinality(Blogs) \in Nat
    BY ConstantsAssumption, FS_CardinalityType DEF ConstantsAssumption
  <2> QED
    BY <2>1 DEF Read, Open, Check, Query, Add, SetReady, Fail, Leave, Set, TypeOK
<1>4. page' \in [Readers -> SUBSET Blogs]
  BY DEF Read, Open, Check, Query, Add, SetReady, Fail, Leave, Set, TypeOK, HistoryPage, History
<1>5. clean' \in [Readers -> BOOLEAN]
  BY DEF Read, Open, Check, Query, Add, SetReady, Fail, Leave, Set, TypeOK
<1>6. UNCHANGED <<dbVars, saved, crashes, evictions, passVars>>
  BY DEF Read, Open, Check, Query, Add, SetReady, Fail, redisVars
<1>7. lost' \subseteq Rows
  BY LostType DEF Read, Open, Check, Query, Add, SetReady, Fail, redisVars
<1> QED
  BY <1>1, <1>2, <1>3, <1>4, <1>5, <1>6, <1>7 DEF TypeOK, dbVars, passVars, IsRow

LEMMA LossType ==
    ASSUME TypeOK, (\E f \in Fans : Expire(f) \/ Evict(f)) \/ Persist \/ Crash
    PROVE  TypeOK'
<1>1. MaxLoss \in Nat
  BY ConstantsAssumption DEF ConstantsAssumption
<1>2. ASSUME NEW f \in Fans, Expire(f) PROVE TypeOK'
  BY <1>2 DEF Expire, TypeOK, RedisState, dbVars, passVars, readerVars, IsRow
<1>3. ASSUME NEW f \in Fans, Evict(f) PROVE TypeOK'
  <2>1. redis' \in RedisState
    BY <1>3 DEF Evict, TypeOK, RedisState
  <2>2. evictions' \in 0..MaxLoss
    BY <1>1, <1>3 DEF Evict, TypeOK
  <2> QED
    BY <1>3, <2>1, <2>2, LostType DEF Evict, TypeOK, dbVars, passVars, IsRow
<1>4. CASE Persist
  BY <1>4 DEF Persist, TypeOK, dbVars, passVars, readerVars, IsRow
<1>5. CASE Crash
  <2>1. crashes' \in 0..MaxLoss
    BY <1>1, <1>5 DEF Crash, TypeOK
  <2> QED
    BY <1>5, <2>1, LostType DEF Crash, TypeOK, dbVars, passVars, IsRow
<1> QED
  BY <1>2, <1>3, <1>4, <1>5

LEMMA NextType ==
    ASSUME TypeOK, RowsStay, [Next]_vars
    PROVE  TypeOK'
<1>1. CASE UNCHANGED vars
  BY <1>1 DEF TypeOK, vars, dbVars, redisVars, passVars, readerVars, IsRow
<1>2. CASE Next
  BY <1>2, PublishType, PassType, ReaderType, LossType DEF Next
<1> QED
  BY <1>1, <1>2

-----------------------------------------------------------------------------
(* Rows that were read stay *)

LEMMA NextRowsStay ==
    ASSUME TypeOK, RowsStay, Next
    PROVE  RowsStay'
<1>1. \A p \in Passes : \A row \in batch'[p] : IsRow(row)'
  <2>1. \A p \in Passes : batch'[p] \subseteq batch[p] \/ batch'[p] \subseteq Pending
    BY DEF Next, Insert, Finish, Fetch, Exec, Mark, EndPass, Read, Open, Check, Query, Add, SetReady,
           Fail, Expire, Evict, Persist, Crash, passVars, Set, TypeOK
  <2>2. \A p \in Passes : \A row \in batch'[p] : row \in Rows /\ IsRow(row)
    BY <2>1 DEF RowsStay, Pending, TypeOK
  <2> QED
    BY <2>2, RowsRemain DEF Rows
<1>2. \A r \in Readers : \A b \in page'[r] : post'[b] = "committed"
  <2>1. \A r \in Readers : page'[r] \subseteq page[r] \/ page'[r] \subseteq HistoryPage(r)
    BY DEF Next, Insert, Finish, Fetch, Exec, Mark, Read, Open, Check, Query, Add, SetReady,
           Fail, Leave, Expire, Evict, Persist, Crash, readerVars, Set, TypeOK
  <2>2. \A r \in Readers : \A b \in page'[r] : b \in Blogs /\ post[b] = "committed"
    BY <2>1 DEF RowsStay, HistoryPage, History, IsRow, TypeOK
  <2> QED
    BY <2>2, RowsRemain
<1>3. \A b \in Blogs : post'[b] # "none" => id'[b] >= 1
  <2>1. ASSUME NEW c \in Blogs, Insert(c) PROVE \A b \in Blogs : post'[b] # "none" => id'[b] >= 1
    <3>1. id'[c] >= 1
      BY <2>1, IdsType
    <3>2. \A b \in Blogs \ {c} : post'[b] = post[b] /\ id'[b] = id[b]
      BY <2>1 DEF Insert, Set, TypeOK
    <3> QED
      BY <3>1, <3>2 DEF RowsStay
  <2>2. ASSUME NEW c \in Blogs, Finish(c) PROVE \A b \in Blogs : post'[b] # "none" => id'[b] >= 1
    BY <2>2 DEF Finish, Set, TypeOK, RowsStay
  <2>3. CASE UNCHANGED <<post, id>>
    BY <2>3 DEF RowsStay
  <2> QED
    BY <2>1, <2>2, <2>3 DEF Next, Fetch, Exec, Mark, Read, Open, Check, Query, Add, SetReady, Fail,
       Expire, Evict, Persist, Crash, dbVars
<1>4. \A r \in Readers : rpc'[r] \in {"idle", "check"} => after'[r] = 0 /\ ~clean'[r]
  <2>1. ASSUME NEW q \in Readers, Read(q) \/ Fail(q)
        PROVE  \A r \in Readers : rpc'[r] \in {"idle", "check"} => after'[r] = 0 /\ ~clean'[r]
    BY <2>1 DEF Read, Open, Check, Query, Add, SetReady, Fail, Leave, GotoR, Set, TypeOK, RowsStay
  <2>2. CASE UNCHANGED readerVars
    BY <2>2 DEF readerVars, RowsStay
  <2>3. CASE UNCHANGED <<rpc, after>> /\ clean' = [r \in Readers |-> FALSE]
    BY <2>3 DEF RowsStay
  <2> QED
    BY <2>1, <2>2, <2>3 DEF Next, Insert, Finish, Fetch, Exec, Mark, Expire, Evict, Persist, Crash
<1> QED
  BY <1>1, <1>2, <1>3, <1>4 DEF RowsStay

-----------------------------------------------------------------------------
(* What was added is kept *)

\* While nothing is lost, inboxes only grow.
LEMMA InboxesGrow ==
    ASSUME TypeOK, Next, ~Crash, \A f \in Fans : ~Evict(f)
    PROVE  \A f \in Fans : redis.inbox[f] \subseteq redis'.inbox[f]
<1>1. ASSUME NEW rows, redis' = Added(redis, rows)
      PROVE  \A f \in Fans : redis.inbox[f] \subseteq redis'.inbox[f]
  <2>1. redis \in RedisState
    BY DEF TypeOK
  <2>2. \A f \in Fans : redis.inbox[f] \subseteq Added(redis, rows).inbox[f]
    BY <2>1, AddedType
  <2> QED
    BY <1>1, <2>2
<1>2. ASSUME NEW f \in Fans, NEW x, redis' = [redis EXCEPT !.ready[f] = x]
      PROVE  \A g \in Fans : redis.inbox[g] \subseteq redis'.inbox[g]
  BY <1>2 DEF TypeOK, RedisState
<1>3. \A r \in Readers : FanOf[r] \in Fans
  BY ConstantsAssumption DEF ConstantsAssumption
<1>4. \/ redis' = redis
      \/ \E rows : redis' = Added(redis, rows)
      \/ \E f \in Fans : \E x \in BOOLEAN : redis' = [redis EXCEPT !.ready[f] = x]
  BY <1>3 DEF Next, Insert, Finish, Fetch, Exec, Mark, Read, Open, Check, Query, Add, SetReady, Fail,
         Expire, Persist, redisVars
<1> QED
  BY <1>1, <1>2, <1>4

\* What becomes kept has just been added.
LEMMA KeptOrAdded ==
    ASSUME TypeOK, Next, NEW f \in Fans, NEW b \in Blogs, Kept(f, b)'
    PROVE  Kept(f, b) \/ ((\E p \in Passes : Exec(p)) /\ b \in redis'.inbox[f])
<1>1. ASSUME NEW p \in Passes, Exec(p)
      PROVE  Kept(f, b) \/ b \in redis'.inbox[f]
  <2>1. marked' = marked
    BY <1>1 DEF Exec, dbVars
  <2>2. CASE ppc'[p] = "mark" /\ <<f, b>> \in batch'[p]
    <3>1. redis' = Added(redis, batch[p]) /\ batch' = batch
      BY <1>1, <2>2 DEF Exec, EndPass, Succeeds, Set, TypeOK
    <3> QED
      BY <2>2, <3>1, AddedType DEF TypeOK
  <2>3. \A q \in Passes \ {p} : ppc'[q] = ppc[q] /\ batch'[q] = batch[q]
    BY <1>1 DEF Exec, EndPass, Set, TypeOK
  <2> QED
    BY <2>1, <2>2, <2>3 DEF Kept
<1>2. ASSUME NEW p \in Passes, Fetch(p) \/ Mark(p)
      PROVE  Kept(f, b)
  BY <1>2 DEF Kept, Fetch, Mark, EndPass, Set, TypeOK, dbVars
<1>3. CASE UNCHANGED <<marked, passVars>>
  BY <1>3 DEF Kept, passVars
<1> QED
  BY <1>1, <1>2, <1>3 DEF Next, Insert, Finish, Read, Open, Check, Query, Add, SetReady, Fail,
     Expire, Evict, Persist, Crash, dbVars

\* What was given is still there or lost, whatever happens to Redis.
LEMMA GivenStays ==
    ASSUME TypeOK, Next
    PROVE  Given \subseteq Given'
<1>1. CASE RecordLost
  BY <1>1 DEF RecordLost, Given
<1>2. CASE UNCHANGED <<redis, lost>>
  BY <1>2 DEF Given, InboxRows
<1>3. ASSUME NEW f \in Fans, NEW x, redis' = [redis EXCEPT !.ready[f] = x], UNCHANGED lost
      PROVE  Given \subseteq Given'
  <2>1. redis'.inbox = redis.inbox
    BY <1>3 DEF TypeOK, RedisState
  <2> QED
    BY <1>3, <2>1 DEF Given, InboxRows
<1>4. \A r \in Readers : FanOf[r] \in Fans
  BY ConstantsAssumption DEF ConstantsAssumption
<1>5. \/ RecordLost
      \/ UNCHANGED <<redis, lost>>
      \/ \E f \in Fans : \E x \in BOOLEAN : redis' = [redis EXCEPT !.ready[f] = x] /\ UNCHANGED lost
  BY <1>4 DEF Next, Insert, Finish, Fetch, Exec, Mark, Read, Open, Check, Query, Add, SetReady, Fail,
         Expire, Evict, Persist, Crash, redisVars
<1> QED
  BY <1>1, <1>2, <1>3, <1>5

\* Only a restart or an eviction takes a row from an inbox.
LEMMA NothingLost ==
    ASSUME TypeOK, Next, ~Crash, \A f \in Fans : ~Evict(f), lost = {}
    PROVE  lost' = {}
<1>1. RecordLost \/ UNCHANGED lost
  BY DEF Next, Insert, Finish, Fetch, Exec, Mark, Read, Open, Check, Query, Add, SetReady, Fail,
         Expire, Evict, Persist, Crash, redisVars
<1>2. InboxRows(redis) \subseteq InboxRows(redis')
  BY InboxesGrow DEF InboxRows, Rows
<1> QED
  BY <1>1, <1>2 DEF RecordLost

LEMMA NextUndelivered ==
    ASSUME TypeOK, Undelivered, Next
    PROVE  Undelivered'
<1>1. ASSUME NEW f \in Fans, NEW b \in Blogs, Kept(f, b)' PROVE <<f, b>> \in Given'
  <2>1. CASE Kept(f, b)
    BY <2>1, GivenStays DEF Undelivered
  <2>2. CASE b \in redis'.inbox[f]
    BY <2>2 DEF Given, InboxRows, Rows
  <2> QED
    BY <1>1, <2>1, <2>2, KeptOrAdded
<1>2. crashes' + evictions' = 0 => lost' = {}
  <2>1. MaxLoss \in Nat
    BY ConstantsAssumption DEF ConstantsAssumption
  <2>2. CASE Crash \/ \E f \in Fans : Evict(f)
    BY <2>1, <2>2 DEF Crash, Evict, TypeOK
  <2>3. CASE ~Crash /\ ~\E f \in Fans : Evict(f)
    <3>1. UNCHANGED <<crashes, evictions>>
      BY <2>3 DEF Next, Insert, Finish, Fetch, Exec, Mark, Read, Open, Check, Query, Add, SetReady, Fail,
         Expire, Persist, redisVars
    <3> QED
      BY <2>3, <3>1, NothingLost DEF Undelivered
  <2> QED
    BY <2>2, <2>3
<1> QED
  BY <1>1, <1>2 DEF Undelivered

-----------------------------------------------------------------------------
(* The rebuild *)

\* A page is a first part of the history by id, and empty only at its end.
LEMMA PageIsFirst ==
    ASSUME TypeOK, NEW r \in Readers
    PROVE  /\ \A b \in History(r) : b \in HistoryPage(r) \/ \A c \in HistoryPage(r) : id[c] < id[b]
           /\ HistoryPage(r) = {} => History(r) = {}
<1> DEFINE Below(b) == {c \in History(r) : id[c] < id[b]}
<1>1. IsFiniteSet(History(r)) /\ History(r) \subseteq Blogs
  BY ConstantsAssumption, FS_Subset DEF ConstantsAssumption, History
<1>2. \A b \in History(r) : IsFiniteSet(Below(b)) /\ Cardinality(Below(b)) \in Nat
  BY <1>1, FS_Subset, FS_CardinalityType
<1>3. HistorySize \in Nat \ {0} /\ \A b \in Blogs : id[b] \in Nat
  BY ConstantsAssumption DEF ConstantsAssumption, TypeOK
<1>4. HistoryPage(r) = {b \in History(r) : Cardinality(Below(b)) < HistorySize}
  BY <1>1 DEF HistoryPage, History
<1>5. ASSUME NEW b \in History(r), b \notin HistoryPage(r), NEW c \in HistoryPage(r)
      PROVE  id[c] < id[b]
  <2>1. SUFFICES ASSUME ~(id[c] < id[b]) PROVE FALSE
    OBVIOUS
  <2>2. c \in History(r) /\ b \in Blogs /\ c \in Blogs
    BY <1>1, <1>4, <1>5
  <2>3. Below(b) \subseteq Below(c)
    BY <1>1, <1>3, <2>1, <2>2
  <2>4. Cardinality(Below(b)) <= Cardinality(Below(c))
    BY <1>2, <2>2, <2>3, FS_Subset
  <2>5. ~(Cardinality(Below(b)) < HistorySize) /\ Cardinality(Below(c)) < HistorySize
    BY <1>4, <1>5
  <2>6. Cardinality(Below(b)) \in Nat /\ Cardinality(Below(c)) \in Nat
    BY <1>2, <2>2
  <2> HIDE DEF Below
  <2> QED
    BY <1>3, <2>4, <2>5, <2>6
<1>6. ASSUME History(r) # {} PROVE HistoryPage(r) # {}
  <2> DEFINE T == {id[b] : b \in History(r)}
  <2>1. T \in SUBSET Nat /\ T # {}
    BY <1>1, <1>3, <1>6
  <2>2. PICK n \in T : \A m \in T : n <= m
    <3> HIDE DEF T
    <3> QED
      BY <2>1, LeastNumber
  <2>3. PICK b \in History(r) : id[b] = n
    BY <2>2
  <2>4. \A c \in History(r) : id[b] <= id[c]
    BY <2>2, <2>3
  <2>5. Below(b) = {}
    BY <1>1, <1>3, <2>4
  <2>6. Cardinality(Below(b)) = 0
    BY <2>5, FS_EmptySet
  <2> QED
    BY <1>3, <1>4, <2>3, <2>6
<1> QED
  BY <1>5, <1>6

\* What is kept has an id and a row.
LEMMA KeptIsRow ==
    ASSUME TypeOK, RowsStay, NEW f \in Fans, NEW b \in Blogs, Kept(f, b)
    PROVE  IsRow(<<f, b>>) /\ post[b] = "committed" /\ id[b] >= 1
<1>1. IsRow(<<f, b>>)
  BY DEF Kept, RowsStay, TypeOK
<1> QED
  BY <1>1 DEF IsRow, RowsStay

\* The cursor of one reader, whatever its inbox.
CursorOf(r) ==
    clean[r] => \A b \in Blogs : Kept(FanOf[r], b) => b \in redis.inbox[FanOf[r]] \/ Ahead(r, b)

\* A step that leaves a rebuild alone and takes nothing from its inbox.
LEMMA OthersKeepCursor ==
    ASSUME TypeOK, RowsStay, Next, NEW r \in Readers, CursorOf(r),
           rpc'[r] = rpc[r], after'[r] = after[r], page'[r] = page[r], clean'[r] = clean[r],
           ~Crash, \A f \in Fans : ~Evict(f)
    PROVE  CursorOf(r)'
<1>1. FanOf[r] \in Fans /\ FanOf' = FanOf
  BY ConstantsAssumption DEF ConstantsAssumption
<1>2. SUFFICES ASSUME clean[r], NEW b \in Blogs, Kept(FanOf[r], b)'
               PROVE  b \in redis'.inbox[FanOf[r]] \/ Ahead(r, b)'
  BY DEF CursorOf
<1>3. CASE b \in redis'.inbox[FanOf[r]]
  BY <1>3
<1>4. CASE b \notin redis'.inbox[FanOf[r]]
  <2>1. Kept(FanOf[r], b)
    BY <1>1, <1>2, <1>4, KeptOrAdded
  <2>2. b \notin redis.inbox[FanOf[r]]
    BY <1>1, <1>4, InboxesGrow
  <2>3. Ahead(r, b)
    BY <1>2, <2>1, <2>2 DEF CursorOf
  <2>4. id'[b] = id[b]
    BY <1>1, <2>1, KeptIsRow, RowsRemain
  <2>5. \A c \in page[r] : c \in Blogs /\ id'[c] = id[c]
    BY RowsRemain DEF RowsStay, TypeOK
  <2> QED
    BY <2>3, <2>4, <2>5 DEF Ahead
<1> QED
  BY <1>3, <1>4

\* The steps of the rebuild itself.
LEMMA RebuildKeepsCursor ==
    ASSUME TypeOK, RowsStay, Next, NEW r \in Readers, CursorOf(r), Read(r) \/ Fail(r)
    PROVE  CursorOf(r)'
<1> DEFINE f == FanOf[r]
<1>1. f \in Fans
  BY ConstantsAssumption DEF ConstantsAssumption
<1>2. /\ \A b \in Blogs : Kept(f, b)' <=> Kept(f, b)
      /\ UNCHANGED id
      /\ \A b \in Blogs : id[b] \in Nat
  <2>1. UNCHANGED <<marked, id, ppc, batch>>
    BY DEF Read, Open, Check, Query, Add, SetReady, Fail, dbVars, passVars
  <2> QED
    BY <2>1 DEF Kept, TypeOK
<1>3. CASE Open(r)
  BY <1>2, <1>3 DEF Open, CursorOf, RowsStay, GotoR, Set, TypeOK
<1>4. CASE Leave(r)
  BY <1>4 DEF Leave, CursorOf, Set, TypeOK
<1>5. CASE Check(r) /\ ~Leave(r)
  <2>1. rpc'[r] = "query" /\ after'[r] = 0
    BY <1>5 DEF Check, GotoR, Set, TypeOK, RowsStay
  <2>2. \A b \in Blogs : Kept(f, b) => after'[r] < id[b]
    <3>1. \A b \in Blogs : Kept(f, b) => id[b] >= 1
      BY <1>1, KeptIsRow
    <3> QED
      BY <1>2, <2>1, <3>1
  <2> QED
    BY <1>2, <2>1, <2>2 DEF CursorOf, Ahead
<1>6. CASE Query(r)
  <2>1. page'[r] = HistoryPage(r) /\ rpc'[r] = IF page'[r] = {} THEN "set" ELSE "add"
    BY <1>6 DEF Query, GotoR, Set, TypeOK
  <2>2. rpc[r] = "query" /\ UNCHANGED <<redis, after, clean>>
    BY <1>6 DEF Query, redisVars
  <2>3. ASSUME clean[r], NEW b \in Blogs, Kept(f, b), b \notin redis.inbox[f]
        PROVE  b \in HistoryPage(r) \/ (HistoryPage(r) # {} /\ \A c \in HistoryPage(r) : id[c] < id[b])
    <3>1. after[r] < id[b]
      BY <2>2, <2>3 DEF CursorOf, Ahead
    <3>2. b \in History(r)
      BY <1>1, <2>3, <3>1, KeptIsRow DEF History, TypeOK
    <3> QED
      BY <3>2, PageIsFirst
  <2> QED
    BY <1>2, <2>1, <2>2, <2>3 DEF CursorOf, Ahead
<1>7. CASE Add(r)
  <2>1. rpc[r] = "add" /\ rpc'[r] = "query" /\ clean' = clean
    BY <1>7 DEF Add, GotoR, Set, TypeOK
  <2>2. PICK m \in page[r] : (\A c \in page[r] : id[c] <= id[m]) /\ after'[r] = id[m]
    BY <1>7 DEF Add, Set, TypeOK
  <2>3. \A b \in Blogs : b \in redis'.inbox[f] <=> b \in redis.inbox[f] \/ b \in page[r]
    <3>1. redis' = Added(redis, {f} \X page[r])
      BY <1>7 DEF Add
    <3>2. redis \in RedisState
      BY DEF TypeOK
    <3>3. \A b \in Blogs : b \in redis'.inbox[f] <=> b \in redis.inbox[f] \/ <<f, b>> \in {f} \X page[r]
      <4> HIDE DEF f
      <4> QED
        BY <1>1, <3>1, <3>2, AddedType
    <3> QED
      BY <3>3
  <2>4. ASSUME clean[r], NEW b \in Blogs, Kept(f, b), b \notin redis'.inbox[f]
        PROVE  after'[r] < id[b]
    <3>1. b \notin page[r] /\ b \notin redis.inbox[f]
      BY <2>3, <2>4
    <3>2. \A c \in page[r] : id[c] < id[b]
      BY <2>1, <2>4, <3>1 DEF CursorOf, Ahead
    <3> QED
      BY <2>2, <3>2
  <2> QED
    BY <1>2, <2>1, <2>4 DEF CursorOf, Ahead
<1> QED
  BY <1>3, <1>4, <1>5, <1>6, <1>7 DEF Read, SetReady, Fail

LEMMA NextCursor ==
    ASSUME TypeOK, RowsStay, Cursor, Next
    PROVE  Cursor'
<1>1. SUFFICES ASSUME NEW r \in Readers PROVE CursorOf(r)'
  BY DEF Cursor, CursorOf
<1>2. CursorOf(r)
  BY DEF Cursor, CursorOf
<1>3. CASE Read(r) \/ Fail(r)
  BY <1>2, <1>3, RebuildKeepsCursor
<1>4. CASE Crash \/ \E f \in Fans : Evict(f)
  BY <1>4 DEF Crash, Evict, CursorOf
<1>5. ASSUME ~(Read(r) \/ Fail(r)), ~Crash, ~\E f \in Fans : Evict(f)
      PROVE  CursorOf(r)'
  <2>1. rpc'[r] = rpc[r] /\ after'[r] = after[r] /\ page'[r] = page[r] /\ clean'[r] = clean[r]
    <3>1. ASSUME NEW q \in Readers, q # r, Read(q) \/ Fail(q)
          PROVE  rpc'[r] = rpc[r] /\ after'[r] = after[r] /\ page'[r] = page[r] /\ clean'[r] = clean[r]
      BY <3>1 DEF Read, Open, Check, Query, Add, SetReady, Fail, Leave, GotoR, Set, TypeOK
    <3>2. (\E q \in Readers : q # r /\ (Read(q) \/ Fail(q))) \/ UNCHANGED readerVars
      BY <1>5 DEF Next, Insert, Finish, Fetch, Exec, Mark, Expire, Persist
    <3> QED
      BY <3>1, <3>2 DEF readerVars
  <2> QED
    BY <1>2, <1>5, <2>1, OthersKeepCursor
<1> QED
  BY <1>3, <1>4, <1>5

-----------------------------------------------------------------------------
(* Theorems *)

LEMMA InitInv == Init => IInv
<1> SUFFICES ASSUME Init PROVE IInv
  OBVIOUS
<1>1. TypeOK
  BY InitType
<1>2. RowsStay
  BY DEF Init, RowsStay
<1>3. \A f \in Fans, b \in Blogs : ~Kept(f, b)
  BY DEF Init, Kept
<1> QED
  BY <1>1, <1>2, <1>3 DEF Init, IInv, Undelivered, Cursor

LEMMA NextInv == IInv /\ [Next]_vars => IInv'
<1> SUFFICES ASSUME IInv, [Next]_vars PROVE IInv'
  OBVIOUS
<1>1. CASE Next
  BY <1>1, NextType, NextRowsStay, NextUndelivered, NextCursor DEF IInv
<1>2. CASE UNCHANGED vars
  BY <1>2 DEF vars, dbVars, redisVars, passVars, readerVars, IInv, TypeOK, RowsStay, Undelivered, Cursor,
              Ahead, Kept, IsRow, Given, InboxRows
<1> QED
  BY <1>1, <1>2

\* The strengthening holds in every reachable state.
THEOREM RowsAccountedFor == Spec => []IInv
BY InitInv, NextInv, PTL DEF Spec

\* Every variable has its type, and only rows that exist are marked, for any
\* instance of the feed.
THEOREM TypeCorrect == Spec => []TypeOK
BY RowsAccountedFor, PTL DEF IInv

\* No row is marked whose ZADD did not run, however often Redis restarts or
\* loses inboxes: it is in the inbox, or was there and was lost since; and where
\* nothing was lost it is in the inbox (deliverFeedBatch).
THEOREM MarkedWasGiven == Spec => []DeliveredIsReadable
<1>1. ASSUME IInv PROVE DeliveredIsReadable
  <2>1. ASSUME NEW row \in marked PROVE row \in Given
    <3>1. PICK f \in Fans, b \in Blogs : row = <<f, b>>
      BY <1>1 DEF IInv, TypeOK, Rows
    <3> QED
      BY <1>1, <3>1 DEF IInv, Undelivered, Kept
  <2> QED
    BY <1>1, <2>1 DEF IInv, Undelivered, Given, DeliveredIsReadable
<1> QED
  BY <1>1, RowsAccountedFor, PTL

\* A rebuild of ensureInbox that saw no loss has restored every delivered post,
\* however its pages interleave with commits and deliveries.
THEOREM RebuildsRestore == Spec => []RebuildRestores
<1>1. IInv => RebuildRestores
  BY DEF IInv, Cursor, RebuildRestores, Marked, Kept, Ahead
<1> QED
  BY <1>1, RowsAccountedFor, PTL

=============================================================================
