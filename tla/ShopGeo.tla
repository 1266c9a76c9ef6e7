------------------------------ MODULE ShopGeo ------------------------------
(***************************************************************************)
(* The GEO index of the shops near a point. MySQL holds the shops, Redis one *)
(* index per shop type and one readiness marker, shared by all replicas of   *)
(* the server. A create or an update writes MySQL and then its entry; when   *)
(* that fails it clears the marker, and the next nearby query rebuilds the   *)
(* index. In a replica geoMu lets one create, update or rebuild run at a     *)
(* time; nothing orders the calls of two replicas. The invalidation of the   *)
(* shop's cache entry, which these handlers also call, is in ShopCache.      *)
(***************************************************************************)
EXTENDS Integers, FiniteSets

CONSTANTS
    Replicas,
    Shops,
    Types,        \* shop types, each with an index
    Queries,      \* clients that ask for nearby shops
    Keep,         \* a field the patch does not submit
    None,
    MaxChanges,   \* creates and updates
    MaxFaults     \* failed commands, unknown commits and stopped processes

\* Positions, seen from the point of the query: in its radius or not.
Position == {"near", "far"}

Row == [type : Types, pos : Position]
Patch == [type : Types \cup {Keep}, pos : Position \cup {Keep}]

\* What a value of the constants must satisfy.
ConstantsAssumption ==
    /\ IsFiniteSet(Shops) /\ IsFiniteSet(Types)
    /\ Keep \notin Types \cup Position /\ None \notin Row
    /\ MaxChanges \in Nat /\ MaxFaults \in Nat

VARIABLES
    row,       \* tb_shop
    index,     \* shop:geo:<type>
    ready,     \* shop:geo:ready exists
    call,      \* what holds geoMu in each replica
    query,     \* the nearby query of each client
    doubt,     \* history: shops whose entry nobody vouches for
    changes,
    faults

vars == <<row, index, ready, call, query, doubt, changes, faults>>

Idle == [op |-> "idle"]
Down == [op |-> "down"]
NoQuery == [step |-> "idle"]

Call ==
    {Idle, Down}
    \cup [op : {"write"}, shop : Shops, old : Row, patch : Patch]
    \cup [op : {"sync"}, shop : Shops, old : Types \cup {None}, next : Row]
    \cup [op : {"clear"}, shop : Shops]
    \cup [op : {"warm"}, rows : [Shops -> Row \cup {None}], sure : SUBSET Shops, boot : BOOLEAN]

Query ==
    {NoQuery}
    \cup [step : {"look", "warm", "search"}, home : Replicas, type : Types, due : SUBSET Shops]
    \cup [step : {"fetch", "done"}, home : Replicas, type : Types, due : SUBSET Shops, got : SUBSET Shops]

TypeOK ==
    /\ row \in [Shops -> Row \cup {None}]
    /\ index \in [Types -> [Shops -> Position \cup {None}]]
    /\ ready \in BOOLEAN
    /\ call \in [Replicas -> Call]
    /\ query \in [Queries -> Query]
    /\ doubt \in SUBSET Shops
    /\ changes \in 0..MaxChanges /\ faults \in 0..MaxFaults

-----------------------------------------------------------------------------
(* Helpers *)

\* Mutant of Submitted: a field that was not submitted is written, too.
SubmittedAlways(field, old) == field

Submitted(field, old) == IF field = Keep THEN old ELSE field

\* DTO ApplyTo, and the columns an UPDATE sets: fields not submitted stay.
Applied(patch, r) ==
    [type |-> Submitted(patch.type, r.type), pos |-> Submitted(patch.pos, r.pos)]

Touches(r, s) == call[r].op \in {"write", "sync", "clear"} /\ call[r].shop = s
Warms(r) == call[r].op = "warm"

\* A create or an update of s starts in r: rebuilds under way no longer vouch
\* for s, queries under way no longer owe it.
CallsFrom(r, s, c) ==
    [q \in Replicas |->
        IF q = r THEN c
        ELSE IF Warms(q) THEN [call[q] EXCEPT !.sure = @ \ {s}] ELSE call[q]]
QueriesFrom(s) ==
    [q \in Queries |-> IF query[q] = NoQuery THEN NoQuery ELSE [query[q] EXCEPT !.due = @ \ {s}]]
\* Another replica works on s, or rebuilds from a snapshot without the change.
Overlaps(r, s) == \E q \in Replicas \ {r} : Touches(q, s) \/ Warms(q)
DoubtFrom(r, s) == IF Overlaps(r, s) THEN doubt \cup {s} ELSE doubt

\* geoMu.Lock: nothing of this replica holds it.
Unlocked(r) == call[r] = Idle

Return(r) == call' = [call EXCEPT ![r] = Idle]
Fault == faults < MaxFaults /\ faults' = faults + 1
Faultless == UNCHANGED faults

-----------------------------------------------------------------------------
(* Create and update *)

\* Create takes geoMu and inserts. An insert that committed but whose answer
\* was lost is an error: no entry is written for it.
Create(r, s, v) ==
    /\ Unlocked(r) /\ row[s] = None /\ changes < MaxChanges
    /\ \E known \in BOOLEAN :
          /\ IF known THEN Faultless ELSE Fault
          /\ call' = CallsFrom(r, s, IF known THEN [op |-> "sync", shop |-> s, old |-> None, next |-> v]
                                     ELSE Idle)
          /\ doubt' = IF known THEN DoubtFrom(r, s) ELSE doubt \cup {s}
    /\ row' = [row EXCEPT ![s] = v]
    /\ query' = QueriesFrom(s)
    /\ changes' = changes + 1
    /\ UNCHANGED <<index, ready>>

\* Update takes geoMu and reads the row.
Update(r, s, patch) ==
    /\ Unlocked(r) /\ row[s] # None /\ changes < MaxChanges
    /\ patch # [type |-> Keep, pos |-> Keep]
    /\ call' = CallsFrom(r, s, [op |-> "write", shop |-> s, old |-> row[s], patch |-> patch])
    /\ doubt' = DoubtFrom(r, s)
    /\ query' = QueriesFrom(s)
    /\ changes' = changes + 1
    /\ UNCHANGED <<row, index, ready, faults>>

\* ShopUpdate sets the submitted columns of the row as it is by now, while next
\* is built from the row as it was read.
Write(r) ==
    /\ call[r].op = "write"
    /\ LET c == call[r]
           next == Applied(c.patch, c.old)
       IN  \/ /\ row' = [row EXCEPT ![c.shop] = Applied(c.patch, @)]
              /\ call' = [call EXCEPT ![r] = [op |-> "sync", shop |-> c.shop,
                             old |-> IF next.type = c.old.type THEN None ELSE c.old.type, next |-> next]]
              /\ UNCHANGED doubt /\ Faultless
           \/ \* an error: the statement ran or it did not
              /\ row' \in {row, [row EXCEPT ![c.shop] = Applied(c.patch, @)]}
              /\ doubt' = doubt \cup {c.shop}
              /\ Return(r) /\ Fault
    /\ UNCHANGED <<index, ready, query, changes>>

\* syncGeo's transaction: out of the old type's index, into the new one.
Synced(c) ==
    [t \in Types |->
        IF t = c.next.type THEN [index[t] EXCEPT ![c.shop] = c.next.pos]
        ELSE IF t = c.old THEN [index[t] EXCEPT ![c.shop] = None] ELSE index[t]]

\* syncGeo. A command that fails may have run all the same.
Sync(r) ==
    /\ call[r].op = "sync"
    /\ \/ index' = Synced(call[r]) /\ Return(r) /\ Faultless
       \/ /\ index' \in {index, Synced(call[r])}
          /\ call' = [call EXCEPT ![r] = [op |-> "clear", shop |-> call[r].shop]]
          /\ Fault
    /\ UNCHANGED <<row, ready, query, doubt, changes>>

\* Mutant of Clear: the marker stays after a failed write.
ClearNothing(r) ==
    /\ call[r].op = "clear"
    /\ Return(r)
    /\ UNCHANGED <<row, index, ready, query, doubt, changes, faults>>

\* geoFailed: the marker goes, unless that command fails too.
Clear(r) ==
    /\ call[r].op = "clear"
    /\ \/ ready' = FALSE /\ Faultless /\ UNCHANGED doubt
       \/ Fault /\ UNCHANGED ready /\ doubt' = doubt \cup {call[r].shop}
    /\ Return(r)
    /\ UNCHANGED <<row, index, query, changes>>

-----------------------------------------------------------------------------
(* Rebuild *)

\* Shops an update is about to write: the snapshot will lack the change.
Pending == {s \in Shops : \E q \in Replicas : call[q].op = "write" /\ call[q].shop = s}
Calm == {s \in Shops : \A q \in Replicas : ~Touches(q, s)}

Snapshot(boot) == [op |-> "warm", rows |-> row, sure |-> Calm, boot |-> boot]

\* WarmGeo reads every row: for the first of the queries that wait for it
\* (singleflight), or when the process starts.
WarmRead(r) ==
    /\ \/ /\ Unlocked(r)
          /\ \E q \in Queries : query[q] # NoQuery /\ query[q].step = "warm" /\ query[q].home = r
          /\ call' = [call EXCEPT ![r] = Snapshot(FALSE)]
       \/ call[r] = Down /\ call' = [call EXCEPT ![r] = Snapshot(TRUE)]
    /\ doubt' = doubt \cup Pending
    /\ UNCHANGED <<row, index, ready, query, changes, faults>>

Rebuilt(rows) ==
    [t \in Types |-> [s \in Shops |->
        IF rows[s] # None /\ rows[s].type = t THEN rows[s].pos ELSE index[t][s]]]

\* What the shared flight returns goes to each query that waits for it.
Released(r, ok) ==
    [q \in Queries |->
        IF query[q] # NoQuery /\ query[q].step = "warm" /\ query[q].home = r
        THEN IF ok THEN [query[q] EXCEPT !.step = "search"] ELSE NoQuery
        ELSE query[q]]

\* WarmGeo's transaction adds every shop and sets the marker; nothing is
\* removed. It settles the doubt about the shops it vouches for, as long as no
\* older rebuild is under way in another replica. When it fails the queries fail, and a process does not start.
WarmExec(r) ==
    /\ Warms(r)
    /\ \/ /\ index' = Rebuilt(call[r].rows) /\ ready' = TRUE
          /\ doubt' = doubt \ {s \in call[r].sure : \A q \in Replicas \ {r} : Warms(q) => s \in call[q].sure}
          /\ query' = Released(r, TRUE)
          /\ Return(r) /\ Faultless
       \/ /\ \/ UNCHANGED <<index, ready>>
             \/ index' = Rebuilt(call[r].rows) /\ ready' = TRUE
          /\ query' = Released(r, FALSE)
          /\ call' = [call EXCEPT ![r] = IF call[r].boot THEN Down ELSE Idle]
          /\ UNCHANGED doubt /\ Fault
    /\ UNCHANGED <<row, changes>>

\* Mutant of Expire: the marker is set without an expiry.
ExpireNever == FALSE /\ UNCHANGED vars

\* The marker lives ten minutes.
Expire ==
    /\ ready
    /\ ready' = FALSE
    /\ UNCHANGED <<row, index, call, query, doubt, changes, faults>>

\* The process stops with a call under way.
Stop(r) ==
    /\ call[r] \notin {Idle, Down}
    /\ call' = [call EXCEPT ![r] = Down]
    /\ doubt' = IF call[r].op \in {"sync", "clear"} THEN doubt \cup {call[r].shop} ELSE doubt
    /\ query' = [q \in Queries |->
                    IF query[q] # NoQuery /\ query[q].home = r THEN NoQuery ELSE query[q]]
    /\ Fault
    /\ UNCHANGED <<row, index, ready, changes>>

-----------------------------------------------------------------------------
(* Nearby query *)

Matches(s, t) == row[s] # None /\ row[s].type = t

\* Shops an answer owes: near, of the type, no call on them under way, and an
\* entry somebody vouches for.
Owed(t) ==
    {s \in Shops : Matches(s, t) /\ row[s].pos = "near" /\ s \in Calm /\ s \notin doubt}

\* ListByType asks for the marker.
Look(q, r, t) ==
    /\ query[q] = NoQuery \/ query[q].step = "done"
    /\ call[r] # Down /\ ~(Warms(r) /\ call[r].boot)
    /\ query' = [query EXCEPT ![q] = [step |-> IF ready THEN "search" ELSE "warm",
                                      home |-> r, type |-> t, due |-> Owed(t)]]
    /\ UNCHANGED <<row, index, ready, call, doubt, changes, faults>>

\* GEOSEARCH reads the positions of the index.
Search(q) ==
    /\ query[q] # NoQuery /\ query[q].step = "search"
    /\ query' = [query EXCEPT ![q] = [step |-> "fetch", home |-> @.home, type |-> @.type, due |-> @.due,
                    got |-> {s \in Shops : index[@.type][s] = "near"}]]
    /\ UNCHANGED <<row, index, ready, call, doubt, changes, faults>>

\* ShopListByIDs; a shop that is gone or of another type now is left out.
Fetch(q) ==
    /\ query[q] # NoQuery /\ query[q].step = "fetch"
    /\ query' = [query EXCEPT ![q].step = "done",
                              ![q].got = {s \in @ : Matches(s, query[q].type)}]
    /\ UNCHANGED <<row, index, ready, call, doubt, changes, faults>>

-----------------------------------------------------------------------------

\* Every process has started and built the index; some shops exist.
Init ==
    /\ row \in [Shops -> Row \cup {None}]
    /\ index = [t \in Types |-> [s \in Shops |->
                   IF Matches(s, t) THEN row[s].pos ELSE None]]
    /\ ready = TRUE
    /\ call = [r \in Replicas |-> Idle]
    /\ query = [q \in Queries |-> NoQuery]
    /\ doubt = {}
    /\ changes = 0 /\ faults = 0

Working(r) == Write(r) \/ Sync(r) \/ Clear(r) \/ WarmRead(r) \/ WarmExec(r)
Asking(q) == Search(q) \/ Fetch(q) \/ \E r \in Replicas, t \in Types : Look(q, r, t)

Next ==
    \/ \E r \in Replicas :
          \/ \E s \in Shops : \E v \in Row : Create(r, s, v)
          \/ \E s \in Shops : \E p \in Patch : Update(r, s, p)
          \/ Write(r) \/ Sync(r) \/ Clear(r)
          \/ WarmRead(r) \/ WarmExec(r) \/ Stop(r)
    \/ \E q \in Queries :
          \/ \E r \in Replicas, t \in Types : Look(q, r, t)
          \/ Search(q) \/ Fetch(q)
    \/ Expire

Spec == Init /\ [][Next]_vars

\* A call goes on or fails by its timeout, keys expire, and clients keep
\* asking for nearby shops.
Fairness ==
    /\ \A r \in Replicas : WF_vars(Working(r))
    /\ WF_vars(Expire)
    /\ \A q \in Queries : WF_vars(Asking(q))

FairSpec == Spec /\ Fairness

-----------------------------------------------------------------------------
(* Properties *)

\* A nearby answer misses no shop it owed when the query began: a failed index
\* write hides a shop only until the next query, unless the clearing of the
\* marker failed too, a statement's answer was lost, the process stopped, or
\* another replica changed the shop or rebuilt the index meanwhile.
NearbyComplete ==
    \A q \in Queries : query[q] # NoQuery /\ query[q].step = "done" => query[q].due \subseteq query[q].got

\* The index says of a shop what MySQL says.
Agrees == \A s \in Shops : row[s] # None => index[row[s].type][s] = row[s].pos

\* Whatever failed or overlapped, once creates and updates end the index comes
\* to agree with MySQL and stays so: the marker expires and a query rebuilds.
GeoHeals == <>[]Agrees

=============================================================================
