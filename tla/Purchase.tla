------------------------------ MODULE Purchase ------------------------------
(***************************************************************************)
(* What the flash sale promises its clients while Redis loses nothing: an   *)
(* accepted attempt becomes a sale and is then reported as one.  Acceptance *)
(* is the only decision, made at once and never taken back; it respects the *)
(* campaign's stock and the limit of one order per user.                    *)
(***************************************************************************)
EXTENDS Integers, FiniteSets

CONSTANTS OrderIds, UserOf, VoucherOf, InitialStock

VARIABLE phase     \* how far each attempt has come

Phases == {"none", "accepted", "sold", "reported"}

Taken == {o \in OrderIds : phase[o] # "none"}

SameBuyer(o, p) == UserOf[o] = UserOf[p] /\ VoucherOf[o] = VoucherOf[p]

Advance(o, from, to) ==
    /\ phase[o] = from
    /\ phase' = [phase EXCEPT ![o] = to]

Accept(o) ==
    /\ \A p \in Taken : ~SameBuyer(o, p)
    /\ Cardinality({p \in Taken : VoucherOf[p] = VoucherOf[o]}) < InitialStock[VoucherOf[o]]
    /\ Advance(o, "none", "accepted")

Sell(o) == Advance(o, "accepted", "sold")

Report(o) == Advance(o, "sold", "reported")

Init == phase = [o \in OrderIds |-> "none"]

Next == \E o \in OrderIds : Accept(o) \/ Sell(o) \/ Report(o)

Spec == Init /\ [][Next]_phase

\* Nobody has to buy, but what is accepted is sold and reported.
FairSpec == Spec /\ \A o \in OrderIds : WF_phase(Sell(o)) /\ WF_phase(Report(o))

=============================================================================
