----------------------------- MODULE MCServices -----------------------------
(***************************************************************************)
(* A small instance of Services.                                            *)
(***************************************************************************)
EXTENDS Services

CONSTANTS t1, o1, o3, u1, u2, v1

\* Six posts, four of them in one millisecond.
MCPosts == 1..6
MCScoreOf == [b \in MCPosts |-> IF b <= 4 THEN 2 ELSE IF b = 5 THEN 1 ELSE 3]
MCMemberOf == [b \in MCPosts |-> b]

\* Two buyers of one unit.
MCUserOf == [o \in {o1, o3} |-> IF o = o3 THEN u2 ELSE u1]
MCVoucherOf == [o \in {o1, o3} |-> v1]
MCStock == [v \in {v1} |-> 1]

\* Ids the first day may have behind it: none, some, or all but one that fit.
MCEarlier == {0, 2, 3, 4}

\* Two migrations of two statements each.
MCLength == [f \in 1..2 |-> 2]

\* A component that does not run has one initial state; the shops are none or one.
MCInit ==
    /\ ServicesInit
    /\ component # "scroll" => inbox = {} /\ max = Scroll!Newest
    /\ \A s \in Shops : shopRow[s] # None =>
          component = "geo" /\ shopRow[s] = [type |-> t1, pos |-> "near"]
    /\ component # "ids" => counter[0] = 0
    /\ component # "migrate" => ~java

MCSpec == MCInit /\ [][ServicesNext]_servicesVars /\ GeoFairness /\ ServerFairness

=============================================================================
