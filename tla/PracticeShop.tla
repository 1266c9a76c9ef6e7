---------------------------- MODULE PracticeShop ----------------------------
(***************************************************************************)
(* The shop service of the practice server re-go-dianping, for one shop: a   *)
(* cache-aside read that stores a value only if the invalidation counter is  *)
(* what it was before MySQL was read, and an update that writes MySQL,       *)
(* invalidates, and moves the shop's entry in the GEO index. Every command   *)
(* of Redis and every statement is a step, and each may fail.                *)
(***************************************************************************)
EXTENDS Integers

CONSTANTS
    Readers,     \* requests for the shop
    Writers,     \* requests that update it
    MaxUpdates,  \* updates that commit
    MaxFaults,   \* failed commands, stops, losses of keys
    None

\* What a value of the constants must satisfy.
ConstantsAssumption ==
    /\ MaxUpdates \in Nat /\ MaxFaults \in Nat
    /\ None \notin Nat

VARIABLES
    row,       \* tb_shop, as the number of its updates
    data,      \* practice:shop:<id>, None when there is none
    version,   \* practice:shop:version:<id>, 0 when there is none
    reader,    \* what each read knows
    writer,    \* where each update is
    geo,       \* the shop's entry in practice:shop:geo:<type>
    floor,     \* history: the row when the invalidation script last ran
    torn,      \* history: reads under way when Redis lost its keys
    faults

vars == <<row, data, version, reader, writer, geo, floor, torn, faults>>

Versions == 0..MaxUpdates
\* The counter restarts when Redis loses it.
Counters == 0..(MaxUpdates + MaxFaults)

NoRead == [step |-> "idle"]
Reading ==
    {NoRead, [step |-> "version"]}
    \cup [step : {"mysql"}, seen : Counters \cup {None}]
    \cup [step : {"store"}, seen : Counters \cup {None}, value : Versions]
    \cup [step : {"done"}, value : Versions]

NoWrite == [step |-> "idle"]
Writing == {NoWrite} \cup [step : {"change", "invalidate", "geo", "geoFailed"}, next : Versions]

TypeOK ==
    /\ row \in Versions
    /\ data \in Versions \cup {None}
    /\ version \in Counters
    /\ reader \in [Readers -> Reading]
    /\ writer \in [Writers -> Writing]
    /\ geo \in Versions
    /\ floor \in Versions
    /\ torn \subseteq Readers
    /\ faults \in 0..MaxFaults

Fault == faults < MaxFaults /\ faults' = faults + 1
Faultless == UNCHANGED faults

-----------------------------------------------------------------------------
(* GetByID *)

\* GET of the cached shop: a hit is the answer, a miss or an error goes on.
Look(q) ==
    /\ reader[q].step \in {"idle", "done"}
    /\ \/ /\ Faultless
          /\ reader' = [reader EXCEPT ![q] = IF data # None THEN [step |-> "done", value |-> data]
                                                           ELSE [step |-> "version"]]
       \/ Fault /\ reader' = [reader EXCEPT ![q] = [step |-> "version"]]
    /\ UNCHANGED <<row, data, version, writer, geo, floor, torn>>

\* GET of the version; without it the value will not be stored.
ReadVersion(q) ==
    /\ reader[q].step = "version"
    /\ \/ Faultless /\ reader' = [reader EXCEPT ![q] = [step |-> "mysql", seen |-> version]]
       \/ Fault /\ reader' = [reader EXCEPT ![q] = [step |-> "mysql", seen |-> None]]
    /\ UNCHANGED <<row, data, version, writer, geo, floor, torn>>

\* FindById.
ReadMySQL(q) ==
    /\ reader[q].step = "mysql"
    /\ \/ /\ Faultless
          /\ reader' = [reader EXCEPT ![q] = [step |-> "store", seen |-> @.seen, value |-> row]]
          /\ UNCHANGED torn
       \/ Fault /\ reader' = [reader EXCEPT ![q] = NoRead] /\ torn' = torn \ {q}
    /\ UNCHANGED <<row, data, version, writer, geo, floor>>

\* Mutant of Storable: stored whatever was invalidated meanwhile.
StorableAlways(seen) == seen # None

\* StoreIfVersion's comparison.
Storable(seen) == seen # None /\ seen = version

\* StoreIfVersion. The answer is the value of MySQL whether or not it is kept.
Store(q) ==
    /\ reader[q].step = "store"
    /\ \/ /\ Faultless
          /\ data' = IF Storable(reader[q].seen) THEN reader[q].value ELSE data
       \/ Fault /\ data' \in {data, IF Storable(reader[q].seen) THEN reader[q].value ELSE data}
    /\ reader' = [reader EXCEPT ![q] = [step |-> "done", value |-> @.value]]
    /\ torn' = torn \ {q}
    /\ UNCHANGED <<row, version, writer, geo, floor>>

-----------------------------------------------------------------------------
(* ShopUpdate *)

\* FindById of the row the patch applies to.
Begin(w) ==
    /\ writer[w] = NoWrite /\ row < MaxUpdates
    /\ writer' = [writer EXCEPT ![w] = [step |-> "change", next |-> row]]
    /\ UNCHANGED <<row, data, version, reader, geo, floor, torn, faults>>

\* ShopChange commits; the GEO entry will be made from the row of before. An
\* error may come after the commit and ends the request.
Change(w) ==
    /\ writer[w].step = "change"
    /\ \/ /\ row < MaxUpdates /\ row' = row + 1
          /\ \/ Faultless /\ writer' = [writer EXCEPT ![w] = [step |-> "invalidate", next |-> @.next + 1]]
             \/ Fault /\ writer' = [writer EXCEPT ![w] = NoWrite]
       \/ Faultless /\ UNCHANGED row /\ writer' = [writer EXCEPT ![w] = NoWrite]
    /\ UNCHANGED <<data, version, reader, geo, floor, torn>>

\* Invalidate: count, then delete, in one script. An error is only logged, and
\* the script may have run.
Invalidate(w) ==
    /\ writer[w].step = "invalidate"
    /\ \/ /\ version' = version + 1 /\ data' = None /\ floor' = row
          /\ \/ Faultless \/ Fault
       \/ Fault /\ UNCHANGED <<version, data, floor>>
    /\ version' \in Counters
    /\ writer' = [writer EXCEPT ![w].step = "geo"]
    /\ UNCHANGED <<row, reader, geo, torn>>

\* SyncGeo's transaction.
SyncGeo(w) ==
    /\ writer[w].step = "geo"
    /\ \/ geo' = writer[w].next /\ Faultless /\ writer' = [writer EXCEPT ![w] = NoWrite]
       \/ geo' \in {geo, writer[w].next} /\ Fault /\ writer' = [writer EXCEPT ![w].step = "geoFailed"]
    /\ UNCHANGED <<row, data, version, reader, floor, torn>>

\* geoFailed deletes a marker that nothing of this server sets or reads.
GeoFailed(w) ==
    /\ writer[w].step = "geoFailed"
    /\ writer' = [writer EXCEPT ![w] = NoWrite]
    /\ UNCHANGED <<row, data, version, reader, geo, floor, torn, faults>>

-----------------------------------------------------------------------------
(* Redis and the process *)

\* The cached shop lives five minutes.
Expire ==
    /\ data # None /\ data' = None
    /\ UNCHANGED <<row, version, reader, writer, geo, floor, torn, faults>>

\* Redis loses both keys. A read under way that knows the counter of before
\* may meet the same number again.
Lose ==
    /\ Fault
    /\ data' = None /\ version' = 0
    /\ torn' = {q \in Readers : reader[q].step \in {"mysql", "store"}}
    /\ UNCHANGED <<row, reader, writer, geo, floor>>

\* The process stops in the middle of an update.
Stop(w) ==
    /\ writer[w] # NoWrite
    /\ Fault
    /\ writer' = [writer EXCEPT ![w] = NoWrite]
    /\ UNCHANGED <<row, data, version, reader, geo, floor, torn>>

Init ==
    /\ row = 0 /\ data = None /\ version = 0 /\ geo = 0 /\ floor = 0 /\ torn = {}
    /\ reader = [q \in Readers |-> NoRead]
    /\ writer = [w \in Writers |-> NoWrite]
    /\ faults = 0

Next ==
    \/ \E q \in Readers : Look(q) \/ ReadVersion(q) \/ ReadMySQL(q) \/ Store(q)
    \/ \E w \in Writers :
          Begin(w) \/ Change(w) \/ Invalidate(w) \/ SyncGeo(w) \/ GeoFailed(w) \/ Stop(w)
    \/ Expire \/ Lose

Spec == Init /\ [][Next]_vars

-----------------------------------------------------------------------------
(* Properties *)

Fresh == INSTANCE FreshCache WITH current <- row, cached <- data, torn <- torn # {}

\* The practice cache keeps the promise of FreshCache: a read that began
\* before an invalidation cannot put its older value back after it, unless
\* Redis lost the counter while it was under way.
PracticeFresh == Fresh!Spec

=============================================================================
