---------------------------- MODULE MCShopCache ----------------------------
(* An instance of ShopCache for TLC, on one replica. *)
EXTENDS ShopCache

CONSTANTS r1, r2, g1, w1, p1

MCReplicaOf == [t \in Requests \cup Workers |-> p1]
=============================================================================
