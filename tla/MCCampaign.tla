----------------------------- MODULE MCCampaign -----------------------------
(* An instance of Campaign for TLC: two users, one unit of stock. *)
EXTENDS Campaign

CONSTANTS v1, o1, o2, a, b, p1, p2

MCUserOf == [o \in OrderIds |-> IF o = o1 THEN a ELSE b]
MCVoucherOf == [o \in OrderIds |-> v1]
MCStock == [v \in Vouchers |-> 1]
=============================================================================
