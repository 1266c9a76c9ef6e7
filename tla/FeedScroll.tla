----------------------------- MODULE FeedScroll -----------------------------
(***************************************************************************)
(* Scrolling through an inbox of Feed: each request reads a page below the  *)
(* score of the last post it was shown, after skipping as many posts of     *)
(* that score as it has seen, and posts arrive between the requests.        *)
(***************************************************************************)
EXTENDS Integers, FiniteSets

CONSTANTS
    Blogs,
    ScoreOf,      \* the millisecond of a post
    MemberOf,     \* the order of the members that share a score
    PageSize      \* socialFeedPageSize

Score == {ScoreOf[b] : b \in Blogs}
Newest == CHOOSE s \in Score : \A t \in Score : t <= s

\* What a value of the constants must satisfy.
ConstantsAssumption ==
    /\ IsFiniteSet(Blogs) /\ Blogs # {}
    /\ ScoreOf \in [Blogs -> Nat]
    /\ MemberOf \in [Blogs -> Nat]
    /\ \A b, c \in Blogs : MemberOf[b] = MemberOf[c] => b = c
    /\ PageSize \in Nat \ {0}

VARIABLES
    inbox,   \* the ZSet
    max,     \* the cursor: lastId
    offset,  \* the cursor: offset
    seen,    \* how often each post was shown
    ended,   \* whether a page was empty
    start    \* history: the inbox when the scroll began

vars == <<inbox, max, offset, seen, ended, start>>

\* ZREVRANGEBYSCORE: by score, then by member, both downwards.
Above(b, c) ==
    \/ ScoreOf[b] > ScoreOf[c]
    \/ ScoreOf[b] = ScoreOf[c] /\ MemberOf[b] > MemberOf[c]

\* Posts of max or below, from the offset on.
Tuples ==
    LET window == {b \in inbox : ScoreOf[b] <= max}
        rank(b) == Cardinality({c \in window : Above(c, b)})
    IN  {b \in window : rank(b) \in offset .. offset + PageSize - 1}

MinTime(T) == CHOOSE s \in Score : \E b \in T : ScoreOf[b] = s /\ \A c \in T : s <= ScoreOf[c]

\* Mutant of NextOffset: the offset is counted on this page only, as in Java.
NextOffsetOfPage(T) == Cardinality({b \in T : ScoreOf[b] = MinTime(T)})

\* nextSocialCursor: the offset accumulates while pages end in one millisecond.
NextOffset(T) ==
    LET count == Cardinality({b \in T : ScoreOf[b] = MinTime(T)})
    IN  IF MinTime(T) = max THEN offset + count ELSE count

\* Feed, once the inbox is there.
Page ==
    /\ ~ended
    /\ IF Tuples = {}
       THEN ended' = TRUE /\ UNCHANGED <<max, offset, seen>>
       ELSE /\ max' = MinTime(Tuples)
            /\ offset' = NextOffset(Tuples)
            /\ seen' = [b \in Blogs |-> IF b \in Tuples THEN seen[b] + 1 ELSE seen[b]]
            /\ UNCHANGED ended
    /\ UNCHANGED <<inbox, start>>

\* ZADD by a delivery pass or a rebuild.
Arrive(b) ==
    /\ b \notin inbox
    /\ inbox' = inbox \cup {b}
    /\ UNCHANGED <<max, offset, seen, ended, start>>

\* A client starts at the current time, in or after the newest millisecond.
Init ==
    /\ inbox \in SUBSET Blogs
    /\ max \in {Newest, Newest + 1}
    /\ offset = 0
    /\ seen = [b \in Blogs |-> 0]
    /\ ended = FALSE
    /\ start = inbox

Next == Page \/ \E b \in Blogs : Arrive(b)

Spec == Init /\ [][Next]_vars

-----------------------------------------------------------------------------
(* Properties *)

\* A scroll that has ended showed every post that was there when it began.
\* A post is shown again only as often as later posts of its millisecond
\* arrive behind the reader: in an inbox that stays as it is, never.
ScrollComplete ==
    /\ ended => \A b \in start : seen[b] > 0
    /\ \A b \in Blogs :
          seen[b] <= 1 + Cardinality({c \in inbox \ start : Above(c, b) /\ ScoreOf[c] = ScoreOf[b]})

=============================================================================
