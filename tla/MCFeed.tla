------------------------------- MODULE MCFeed -------------------------------
(* Instances of Feed for TLC, with one fan. *)
EXTENDS Feed, TLC

CONSTANTS b1, b2, b3, f1, p1, p2, r1, r2

MCFanOf == [r \in Readers |-> f1]
MCSymmetry == Permutations(Blogs) \cup Permutations(Passes) \cup Permutations(Readers)
=============================================================================
