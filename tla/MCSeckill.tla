----------------------------- MODULE MCSeckill -----------------------------
(***************************************************************************)
(* Instances of Seckill, and of its refinement of Purchase, for TLC.  o1    *)
(* and o2 are attempts of one user, o3 is an attempt of another.            *)
(***************************************************************************)
EXTENDS SeckillPurchase, TLC

CONSTANTS o1, o2, o3, u1, u2, v1, c1, c2, g1

MCUserOf == [o \in OrderIds |-> IF o = o3 THEN u2 ELSE u1]
MCVoucherOf == [o \in OrderIds |-> v1]
MCStock1 == [v \in Vouchers |-> 1]
MCStock2 == [v \in Vouchers |-> 2]

\* Consumers are interchangeable: nothing orders or names them.
MCSymmetry == Permutations(Consumers)
=============================================================================
