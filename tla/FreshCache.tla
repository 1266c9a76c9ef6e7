----------------------------- MODULE FreshCache -----------------------------
(***************************************************************************)
(* What a cache-aside cache of one row promises, whatever its protocol: the  *)
(* cached value is never older than the last invalidation, unless the cache  *)
(* loses its keys while a fill is under way. Values are the versions the row *)
(* went through.                                                            *)
(***************************************************************************)
EXTENDS Integers

CONSTANT None    \* nothing is cached

VARIABLES
    current,   \* the row
    floor,     \* the row as of the last invalidation
    cached,    \* the cached version
    torn       \* a fill under way began before the cache lost its keys

vars == <<current, floor, cached, torn>>

Init == current = 0 /\ floor = 0 /\ cached = None /\ torn = FALSE

Update == current' = current + 1 /\ UNCHANGED <<floor, cached, torn>>

\* What is cached goes, and nothing older than the row comes back.
Invalidate == floor' = current /\ cached' = None /\ UNCHANGED <<current, torn>>

\* Any version from the last invalidation on; the exception is a fill that
\* began before a loss, which may then end.
Fill ==
    /\ cached' \in (IF torn THEN 0 ELSE floor)..current
    /\ torn' \in {FALSE, torn}
    /\ UNCHANGED <<current, floor>>

Evict == cached' = None /\ UNCHANGED <<current, floor, torn>>

\* The keys are lost, the counters of invalidations with them.
Lose == cached' = None /\ torn' \in BOOLEAN /\ UNCHANGED <<current, floor>>

\* The last such fill ends and stores nothing.
Heal == torn' = FALSE /\ UNCHANGED <<current, floor, cached>>

Next == Update \/ Invalidate \/ Fill \/ Evict \/ Lose \/ Heal

Spec == Init /\ [][Next]_vars

=============================================================================
