-------------------------------- MODULE Feed --------------------------------
(***************************************************************************)
(* The feed of go-dianping: a post is committed together with one outbox    *)
(* row per fan; delivery passes copy pending rows to the fans' inboxes in   *)
(* Redis and mark them; a reader whose inbox or ready marker is missing     *)
(* rebuilds the inbox from the outbox before it reads a page (FeedScroll).  *)
(*                                                                         *)
(* Any number of replicas run passes and readers.  An operator marked       *)
(* "Mutant" is used by no other definition.                                 *)
(***************************************************************************)
EXTENDS Integers, FiniteSets

CONSTANTS
    Blogs,
    Fans,
    Passes,       \* concurrent runs of deliverFeedBatch
    Readers,      \* calls of Feed
    FanOf,        \* the inbox a reader reads
    BatchSize,    \* rows of one pass, 100 in the code
    HistorySize,  \* rows of one rebuild query, 500 in the code
    MaxLoss       \* bound on Redis restarts and lost inboxes together

ASSUME ConstantsAssumption ==
    /\ IsFiniteSet(Blogs) /\ IsFiniteSet(Fans)
    /\ FanOf \in [Readers -> Fans]
    /\ {BatchSize, HistorySize} \subseteq Nat \ {0}
    /\ MaxLoss \in Nat

VARIABLES
    post,       \* the transaction of each blog
    id,         \* the ids of its outbox rows, by order of insertion
    fansOf,     \* whom its outbox rows are for
    marked,     \* rows with delivered_at
    redis,      \* inboxes and ready markers
    saved,      \* what a Redis restart brings back
    crashes, evictions,
    lost,       \* history: rows an inbox had, lost and was not given again
    ppc, batch, \* where each pass is, and its rows
    rpc,        \* where each reader is
    after,      \* rebuild: the last id read
    page,       \* rebuild: the blogs of the last query
    clean       \* history: nothing was lost since the rebuild began

dbVars == <<post, id, fansOf, marked>>
redisVars == <<redis, saved, crashes, evictions, lost>>
passVars == <<ppc, batch>>
readerVars == <<rpc, after, page, clean>>
vars == <<dbVars, redisVars, passVars, readerVars>>

Rows == Fans \X Blogs
RedisState == [inbox : [Fans -> SUBSET Blogs], ready : [Fans -> BOOLEAN]]
Set(f, x, v) == [f EXCEPT ![x] = v]
GotoR(r, l) == rpc' = Set(rpc, r, l)

IsRow(row) == row[1] \in fansOf[row[2]] /\ post[row[2]] = "committed"

Pending == {row \in Rows : IsRow(row) /\ row \notin marked}
Marked(f) == {b \in Blogs : <<f, b>> \in marked}

InboxRows(R) == {row \in Rows : row[2] \in R.inbox[row[1]]}

\* What an inbox no longer has is lost until it is added again.
RecordLost == lost' = (lost \cup InboxRows(redis)) \ InboxRows(redis')

\* ZADD of the same member and score again changes nothing.
Added(R, rows) ==
    [R EXCEPT !.inbox = [f \in Fans |-> @[f] \cup {b \in Blogs : <<f, b>> \in rows}]]

-----------------------------------------------------------------------------
(* Publishing *)

\* The ids are given by the INSERT, the rows are visible from the COMMIT.
Insert(b) ==
    /\ post[b] = "none"
    /\ post' = Set(post, b, "inserted")
    /\ id' = Set(id, b, Cardinality({c \in Blogs : post[c] # "none"}) + 1)
    /\ \E F \in SUBSET Fans : fansOf' = Set(fansOf, b, F)
    /\ UNCHANGED <<marked, redisVars, passVars, readerVars>>

Finish(b) ==
    /\ post[b] = "inserted"
    /\ \E end \in {"committed", "void"} : post' = Set(post, b, end)
    /\ UNCHANGED <<id, fansOf, marked, redisVars, passVars, readerVars>>

-----------------------------------------------------------------------------
(* deliverFeedBatch *)

\* The first BatchSize pending rows by id.
Fetch(p) ==
    /\ ppc[p] = "idle"
    /\ Pending # {}
    /\ \E B \in SUBSET Pending :
          /\ B # {}
          /\ Cardinality(B) <= BatchSize
          /\ B # Pending => Cardinality(B) = BatchSize
          /\ \A row \in B, other \in Pending \ B : id[row[2]] <= id[other[2]]
          /\ batch' = Set(batch, p, B)
    /\ ppc' = Set(ppc, p, "exec")
    /\ UNCHANGED <<dbVars, redisVars, readerVars>>

\* Mutant of Succeeds: the first reply of the pipeline decides.
SucceedsByFirst(p, done) == done # {}

\* Exec returns the first error of its commands.
Succeeds(p, done) == done = batch[p]

EndPass(p) == ppc' = Set(ppc, p, "idle") /\ batch' = Set(batch, p, {})

\* The pipeline is no transaction: some of its commands may run and others fail.
Exec(p) ==
    /\ ppc[p] = "exec"
    /\ \E done \in SUBSET batch[p] :
          /\ redis' = Added(redis, done)
          /\ \/ Succeeds(p, done) /\ ppc' = Set(ppc, p, "mark") /\ UNCHANGED batch
             \/ EndPass(p)
    /\ RecordLost
    /\ UNCHANGED <<dbVars, saved, crashes, evictions, readerVars>>

\* The update of delivered_at, which may fail.
Mark(p) ==
    /\ ppc[p] = "mark"
    /\ marked' \in {marked, marked \cup batch[p]}
    /\ EndPass(p)
    /\ UNCHANGED <<post, id, fansOf, redisVars, readerVars>>

-----------------------------------------------------------------------------
(* ensureInbox *)

Open(r) ==
    /\ rpc[r] = "idle"
    /\ GotoR(r, "check")
    /\ UNCHANGED <<dbVars, redisVars, passVars, after, page, clean>>

\* The page is read, or an error returned; nothing of the call outlives it.
Leave(r) ==
    /\ GotoR(r, "idle")
    /\ after' = Set(after, r, 0)
    /\ page' = Set(page, r, {})
    /\ clean' = Set(clean, r, FALSE)

\* EXISTS of the marker and of the inbox, which has a key unless it is empty.
Check(r) ==
    /\ rpc[r] = "check"
    /\ IF redis.ready[FanOf[r]] /\ redis.inbox[FanOf[r]] # {}
       THEN Leave(r)
       ELSE /\ GotoR(r, "query")
            /\ clean' = Set(clean, r, TRUE)
            /\ UNCHANGED <<after, page>>
    /\ UNCHANGED <<dbVars, redisVars, passVars>>

History(r) == {b \in Blogs : IsRow(<<FanOf[r], b>>) /\ id[b] > after[r]}

\* Mutant of HistoryPage: what is marked is taken for delivered.
HistoryPagePending(r) == {b \in History(r) : <<FanOf[r], b>> \notin marked}

\* SocialFeedHistory
HistoryPage(r) ==
    {b \in History(r) : Cardinality({c \in History(r) : id[c] < id[b]}) < HistorySize}

Query(r) ==
    /\ rpc[r] = "query"
    /\ page' = Set(page, r, HistoryPage(r))
    /\ GotoR(r, IF page'[r] = {} THEN "set" ELSE "add")
    /\ UNCHANGED <<dbVars, redisVars, passVars, after, clean>>

Add(r) ==
    /\ rpc[r] = "add"
    /\ redis' = Added(redis, {FanOf[r]} \X page[r])
    /\ \E b \in page[r] :
          /\ \A c \in page[r] : id[c] <= id[b]
          /\ after' = Set(after, r, id[b])
    /\ page' = Set(page, r, {})
    /\ GotoR(r, "query")
    /\ RecordLost
    /\ UNCHANGED <<dbVars, saved, crashes, evictions, passVars, clean>>

SetReady(r) ==
    /\ rpc[r] = "set"
    /\ redis' = [redis EXCEPT !.ready[FanOf[r]] = TRUE]
    /\ Leave(r)
    /\ UNCHANGED <<dbVars, saved, crashes, evictions, lost, passVars>>

\* Any of these calls may fail; the marker of a rebuild may be set all the same.
Fail(r) ==
    /\ rpc[r] \in {"check", "query", "add", "set"}
    /\ redis' \in {redis} \cup
         (IF rpc[r] = "add" THEN {Added(redis, {FanOf[r]} \X page[r])} ELSE {})
         \cup (IF rpc[r] = "set" THEN {[redis EXCEPT !.ready[FanOf[r]] = TRUE]} ELSE {})
    /\ Leave(r)
    /\ RecordLost
    /\ UNCHANGED <<dbVars, saved, crashes, evictions, passVars>>

-----------------------------------------------------------------------------
(* Redis *)

\* Mutant of Expire: SET of the marker without a TTL.
ExpireNever(f) == f \notin Fans /\ UNCHANGED vars

\* The marker lives for 24 hours.
Expire(f) ==
    /\ redis.ready[f]
    /\ redis' = [redis EXCEPT !.ready[f] = FALSE]
    /\ UNCHANGED <<dbVars, saved, crashes, evictions, lost, passVars, readerVars>>

\* An inbox is evicted or deleted, its marker stays.
Evict(f) ==
    /\ crashes + evictions < MaxLoss
    /\ redis.inbox[f] # {}
    /\ evictions' = evictions + 1
    /\ redis' = [redis EXCEPT !.inbox[f] = {}]
    /\ RecordLost
    /\ clean' = [r \in Readers |-> FALSE]
    /\ UNCHANGED <<dbVars, saved, crashes, passVars, rpc, after, page>>

\* appendfsync everysec
Persist ==
    /\ crashes + evictions < MaxLoss
    /\ saved # redis
    /\ saved' = redis
    /\ UNCHANGED <<dbVars, redis, crashes, evictions, lost, passVars, readerVars>>

Crash ==
    /\ crashes + evictions < MaxLoss
    /\ crashes' = crashes + 1
    /\ redis' = saved
    /\ RecordLost
    /\ clean' = [r \in Readers |-> FALSE]
    /\ UNCHANGED <<dbVars, saved, evictions, passVars, rpc, after, page>>

-----------------------------------------------------------------------------
(* Specification *)

Init ==
    /\ post = [b \in Blogs |-> "none"]
    /\ id = [b \in Blogs |-> 0]
    /\ fansOf = [b \in Blogs |-> {}]
    /\ marked = {}
    /\ redis = [inbox |-> [f \in Fans |-> {}], ready |-> [f \in Fans |-> FALSE]]
    /\ saved = redis
    /\ crashes = 0
    /\ evictions = 0
    /\ lost = {}
    /\ ppc = [p \in Passes |-> "idle"]
    /\ batch = [p \in Passes |-> {}]
    /\ rpc = [r \in Readers |-> "idle"]
    /\ after = [r \in Readers |-> 0]
    /\ page = [r \in Readers |-> {}]
    /\ clean = [r \in Readers |-> FALSE]

Read(r) ==
    Open(r) \/ Check(r) \/ Query(r) \/ Add(r) \/ SetReady(r)

Next ==
    \/ \E b \in Blogs : Insert(b) \/ Finish(b)
    \/ \E p \in Passes : Fetch(p) \/ Exec(p) \/ Mark(p)
    \/ \E r \in Readers : Read(r) \/ Fail(r)
    \/ \E f \in Fans : Expire(f) \/ Evict(f)
    \/ Persist \/ Crash

Spec == Init /\ [][Next]_vars

\* Run's loop keeps passing, a fan who follows keeps reading, each call they
\* make succeeds now and then, and markers run out.  (The first and the last
\* query are told apart: a rebuild of one page of rows is what Recovers needs.)
Fairness ==
    /\ \A p \in Passes :
          /\ WF_vars(Fetch(p))
          /\ SF_vars(Exec(p) /\ ppc'[p] = "mark")
          /\ SF_vars(Mark(p) /\ batch[p] \subseteq marked')
    /\ \A r \in Readers :
          /\ WF_vars(Read(r))
          /\ SF_vars(Check(r)) /\ SF_vars(Add(r)) /\ SF_vars(SetReady(r))
          /\ SF_vars(after[r] = 0 /\ Query(r)) /\ SF_vars(after[r] # 0 /\ Query(r))
    /\ \A f \in Fans : WF_vars(Expire(f))

FairSpec == Spec /\ Fairness

-----------------------------------------------------------------------------
(* Properties *)

\* Every variable has its type, and only rows that exist are marked.
TypeOK ==
    /\ post \in [Blogs -> {"none", "inserted", "committed", "void"}]
    /\ id \in [Blogs -> 0..Cardinality(Blogs)]
    /\ fansOf \in [Blogs -> SUBSET Fans]
    /\ marked \subseteq {row \in Rows : IsRow(row)}
    /\ redis \in RedisState
    /\ saved \in RedisState
    /\ crashes \in 0..MaxLoss
    /\ evictions \in 0..MaxLoss
    /\ lost \subseteq Rows
    /\ ppc \in [Passes -> {"idle", "exec", "mark"}]
    /\ batch \in [Passes -> SUBSET Rows]
    /\ rpc \in [Readers -> {"idle", "check", "query", "add", "set"}]
    /\ after \in [Readers -> 0..Cardinality(Blogs)]
    /\ page \in [Readers -> SUBSET Blogs]
    /\ clean \in [Readers -> BOOLEAN]

\* No row is marked whose ZADD did not run, though passes overlap, pipelines
\* run in part and marks fail: a post marked as delivered is in the inbox, or
\* was there and Redis lost it.  While Redis loses nothing it is in the inbox.
DeliveredIsReadable ==
    /\ marked \subseteq InboxRows(redis) \cup lost
    /\ crashes + evictions = 0 => lost = {}

\* A rebuild during which Redis loses nothing ends with every delivered post
\* in the inbox, although it reads the history page by page while rows with
\* lower ids are still being committed and passes deliver.
RebuildRestores ==
    \A r \in Readers :
        rpc[r] = "set" /\ clean[r] => Marked(FanOf[r]) \subseteq redis.inbox[FanOf[r]]

\* Every committed post reaches the inbox of every fan it was for and stays
\* there, whatever Redis loses, as long as losses end and the fan reads.
Recovers ==
    \A f \in Fans, b \in Blogs :
        IsRow(<<f, b>>) ~> [](b \in redis.inbox[f])

\* What docs/SOCIAL.md says of the two keys ensureInbox looks at: if both the
\* marker and the inbox are there, no delivered post is missing, so that an
\* evicted inbox is always noticed.  (A restart of Redis is left out.)
BothKeysMeanRestored ==
    crashes = 0 =>
        \A f \in Fans :
            redis.ready[f] /\ redis.inbox[f] # {} => Marked(f) \subseteq redis.inbox[f]

=============================================================================
