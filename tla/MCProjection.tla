---------------------------- MODULE MCProjection ----------------------------
(* Instances of Projection for TLC: two users, of whom each follows a third,  *)
(* and a blog that both like.                                               *)
EXTENDS Projection, TLC

CONSTANTS b1, u1, u2, u3, c1, c2

MCId == [k \in Keys |-> IF k = b1 THEN 4 ELSE IF k = u1 THEN 1 ELSE IF k = u2 THEN 2 ELSE 3]
MCLegacy == [b \in Blogs |-> 1]

Q(op, row, member) == [op |-> op, row |-> row, member |-> member]

MCLikes == {Q("toggle", b1, u1), Q("toggle", b1, u2), Q("rank", b1, u1)}
MCFollows ==
    {Q("follow", u1, u3), Q("unfollow", u1, u3), Q("follow", u2, u3),
     Q("common", u1, u2), Q("common", u2, u1)}
MCRequests == MCLikes \cup MCFollows

MCSymmetry == Permutations(Calls)
=============================================================================
