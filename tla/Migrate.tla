------------------------------ MODULE Migrate ------------------------------
(***************************************************************************)
(* migrations.Run: versioned SQL files are applied under a MySQL lock and    *)
(* recorded in the ledger schema_migrations. MySQL commits each DDL          *)
(* statement on its own, so a run that is cut leaves a part of a file; the   *)
(* next run repeats it.                                                     *)
(***************************************************************************)
EXTENDS Integers, Sequences

CONSTANTS
    Runs,         \* invocations of cmd/migrate, by any host
    Seeds,        \* those with -seed
    Length,       \* statements of each file, schema and seed
    UserAt,       \* the statement of the schema that creates tb_user
    None

\* What a value of the constants must satisfy.
ConstantsAssumption ==
    /\ Seeds \subseteq Runs /\ None \notin Runs
    /\ Length \in [1..2 -> Nat \ {0}]
    /\ UserAt \in 1..Length[1]

Files == 1..2
Schema == 1

VARIABLES
    java,      \* the database is one of the Java service
    lock,      \* connection that holds GET_LOCK
    ledger,    \* table schema_migrations exists
    recorded,  \* files it lists
    applied,   \* statements of each file that have taken effect
    run        \* where each run is

vars == <<java, lock, ledger, recorded, applied, run>>

At(s, f) == [step |-> s, file |-> f]
New == At("new", Schema)
Results == {"done", "refused", "failed"}

TypeOK ==
    /\ java \in BOOLEAN
    /\ lock \in Runs \cup {None}
    /\ ledger \in BOOLEAN
    /\ recorded \in SUBSET Files
    /\ applied \in [Files -> Nat]
    /\ run \in [Runs -> [step : {"new", "check", "ledger", "look", "exec", "record"} \cup Results,
                         file : Files]]

-----------------------------------------------------------------------------

\* tb_user is in the Java schema and in file 001.
UserTable == java \/ applied[Schema] >= UserAt

Goes(r, s) == run' = [run EXCEPT ![r].step = s]
\* The deferred RELEASE_LOCK; a connection that is gone has no lock either.
Ends(r, s) == lock' = None /\ Goes(r, s)

FilesOf(r) == IF r \in Seeds THEN 2 ELSE 1

\* GET_LOCK with 30 seconds to wait.
GetLock(r) ==
    /\ run[r].step = "new"
    /\ \/ lock = None /\ lock' = r /\ Goes(r, "check")
       \/ lock # None /\ UNCHANGED lock /\ Goes(r, "failed")
    /\ UNCHANGED <<ledger, recorded, applied>>

\* The two COUNT queries: tables without a ledger are the Java service's.
Check(r) ==
    /\ run[r].step = "check"
    /\ IF UserTable /\ ~ledger THEN Ends(r, "refused") ELSE Goes(r, "ledger") /\ UNCHANGED lock
    /\ UNCHANGED <<ledger, recorded, applied>>

\* Mutant of CreateLedger: the ledger is left to the first record.
CreateLedgerLater(r) ==
    /\ run[r].step = "ledger" /\ Goes(r, "look")
    /\ UNCHANGED <<lock, ledger, recorded, applied>>

\* CREATE TABLE IF NOT EXISTS, before any other table.
CreateLedger(r) ==
    /\ run[r].step = "ledger"
    /\ ledger' = TRUE /\ Goes(r, "look")
    /\ UNCHANGED <<lock, recorded, applied>>

\* The next file, or the end of the list.
NextFile(r) ==
    IF run[r].file < FilesOf(r)
    THEN run' = [run EXCEPT ![r] = At("look", run[r].file + 1)] /\ UNCHANGED lock
    ELSE Ends(r, "done")

\* SELECT checksum: a recorded file is skipped.
Look(r) ==
    /\ run[r].step = "look"
    /\ IF run[r].file \in recorded THEN NextFile(r) ELSE Goes(r, "exec") /\ UNCHANGED lock
    /\ UNCHANGED <<ledger, recorded, applied>>

\* One call runs all statements of the file. Those that took effect before do
\* nothing; the server may stop after any of them.
Exec(r) ==
    /\ run[r].step = "exec"
    /\ LET f == run[r].file
       IN  \/ /\ applied' = [applied EXCEPT ![f] = Length[f]]
              /\ Goes(r, "record") /\ UNCHANGED lock
           \/ /\ applied' \in {[applied EXCEPT ![f] = n] : n \in applied[f]..Length[f]}
              /\ Ends(r, "failed")
    /\ UNCHANGED <<ledger, recorded>>

\* INSERT INTO schema_migrations, which may fail, committed or not.
Record(r) ==
    /\ run[r].step = "record"
    /\ \/ recorded' = recorded \cup {run[r].file} /\ NextFile(r)
       \/ recorded' \in {recorded, recorded \cup {run[r].file}} /\ Ends(r, "failed")
    /\ UNCHANGED <<ledger, applied>>

\* A statement fails, the two minutes are over, or the process stops.
Fails(r) ==
    /\ run[r].step \in {"check", "ledger", "look"}
    /\ Ends(r, "failed")
    /\ UNCHANGED <<ledger, recorded, applied>>

Init ==
    /\ java \in BOOLEAN
    /\ lock = None /\ ledger = FALSE /\ recorded = {}
    /\ applied = [f \in Files |-> 0]
    /\ run = [r \in Runs |-> New]

Next ==
    /\ \E r \in Runs :
          GetLock(r) \/ Check(r) \/ CreateLedger(r) \/ Look(r) \/ Exec(r) \/ Record(r) \/ Fails(r)
    /\ UNCHANGED java

Spec == Init /\ [][Next]_vars

-----------------------------------------------------------------------------
(* Properties *)

\* The ledger lists a file only when all of it took effect, and a run that
\* reports success leaves its files listed; no run takes a database another
\* run half initialised for one of the Java service, and none touches that.
LedgerIsTrue ==
    /\ \A f \in recorded : applied[f] = Length[f]
    /\ \A r \in Runs :
          /\ run[r].step = "done" => 1..FilesOf(r) \subseteq recorded
          /\ run[r].step = "refused" => java
    /\ java => ~ledger /\ \A f \in Files : applied[f] = 0

=============================================================================
