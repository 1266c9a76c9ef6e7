-------------------------- MODULE ServicesProofs --------------------------
(***************************************************************************)
(* The safety properties of the small components, and the refinement of     *)
(* FreshCache by the practice cache, for every instance. The components     *)
(* share no state: each has an inductive invariant over its own variables,  *)
(* kept by its own steps and by those that leave its variables alone, and    *)
(* a step of Services is one or the other.                                  *)
(***************************************************************************)
EXTENDS Services, OrderStatusProofs, Sequences, WellFoundedInduction

-----------------------------------------------------------------------------
(* Numbers *)

\* A set of numbers has a least one.
LEMMA LeastNumber ==
    ASSUME NEW T \in SUBSET Nat, T # {}
    PROVE  \E x \in T : \A y \in T : x <= y
<1>1. PICK x \in T : \A y \in T : ~(<<y, x>> \in OpToRel(<, Nat))
  BY WFMin, NatLessThanWellFounded
<1>2. \A y \in T : ~(y < x)
  BY <1>1 DEF OpToRel
<1> QED
  BY <1>2

\* More whole lengths are at least one length more.
LEMMA OneMore ==
    ASSUME NEW x \in Nat, NEW y \in Nat, NEW d \in Nat, x < y
    PROVE  x * d + d <= y * d
<1>1. PICK k \in Nat : y = x + 1 + k
  <2>1. y - x - 1 \in Nat /\ y = x + 1 + (y - x - 1)
    OBVIOUS
  <2> QED
    BY <2>1
<1>2. y * d = x * d + d + k * d /\ k * d \in Nat /\ x * d \in Nat
  BY <1>1
<1> QED
  BY <1>2

-----------------------------------------------------------------------------
(* Scrolling *)

\* The order of the posts in a set of them, and the first k.
PostsAbove(W, b) == {c \in W : Scroll!Above(c, b)}
Rank(W, b) == Cardinality(PostsAbove(W, b))
Top(W, k) == {c \in W : Rank(W, c) < k}

\* FiniteSets as FeedScroll sees it.
LEMMA ScrollCounts ==
    ASSUME NEW S
    PROVE  Scroll!Cardinality(S) = Cardinality(S) /\ (Scroll!IsFiniteSet(S) <=> IsFiniteSet(S))
<1>1. Scroll!Cardinality(S) = Cardinality(S)
  BY DEF Scroll!Cardinality, Cardinality
<1>2. Scroll!IsFiniteSet(S) <=> IsFiniteSet(S)
  BY DEF Scroll!IsFiniteSet, IsFiniteSet
<1> QED
  BY <1>1, <1>2

\* What the assumption of the instance says of its constants.
LEMMA ScrollConstants ==
    /\ IsFiniteSet(Posts) /\ Posts # {} /\ PageSize \in Nat \ {0}
    /\ ScoreOf \in [Posts -> Nat] /\ MemberOf \in [Posts -> Nat]
    /\ \A b, c \in Posts : MemberOf[b] = MemberOf[c] => b = c
BY InstancesAssumption, ScrollCounts DEF Scroll!ConstantsAssumption

\* Above is a strict order, and of two posts one is above the other.
LEMMA AboveOrders ==
    ASSUME NEW b \in Posts, NEW c \in Posts
    PROVE  /\ ~ Scroll!Above(b, b)
           /\ b # c => Scroll!Above(b, c) \/ Scroll!Above(c, b)
           /\ Scroll!Above(b, c) => ~ Scroll!Above(c, b)
           /\ \A d \in Posts : Scroll!Above(b, c) /\ Scroll!Above(c, d) => Scroll!Above(b, d)
<1>1. ScoreOf[b] \in Nat /\ ScoreOf[c] \in Nat /\ MemberOf[b] \in Nat /\ MemberOf[c] \in Nat
      /\ (MemberOf[b] = MemberOf[c] => b = c)
      /\ \A d \in Posts : ScoreOf[d] \in Nat /\ MemberOf[d] \in Nat
  BY ScrollConstants
<1> QED
  BY <1>1 DEF Scroll!Above

\* The posts of a set and those above one of them are finitely many.
LEMMA RankTypes ==
    ASSUME NEW W \in SUBSET Posts
    PROVE  /\ IsFiniteSet(W) /\ Cardinality(W) \in Nat
           /\ \A b \in W : IsFiniteSet(PostsAbove(W, b)) /\ Rank(W, b) \in Nat /\ Rank(W, b) < Cardinality(W)
<1>1. IsFiniteSet(W) /\ Cardinality(W) \in Nat
  BY ScrollConstants, FS_Subset, FS_CardinalityType
<1>2. ASSUME NEW b \in W
      PROVE  IsFiniteSet(PostsAbove(W, b)) /\ Rank(W, b) \in Nat /\ Rank(W, b) < Cardinality(W)
  <2>1. PostsAbove(W, b) \in SUBSET W /\ b \notin PostsAbove(W, b)
    BY AboveOrders DEF PostsAbove
  <2>2. /\ IsFiniteSet(PostsAbove(W, b)) /\ Cardinality(PostsAbove(W, b)) <= Cardinality(W)
        /\ Cardinality(PostsAbove(W, b)) # Cardinality(W)
    BY <1>1, <2>1, FS_Subset
  <2> QED
    BY <1>1, <2>2, FS_CardinalityType DEF Rank
<1> QED
  BY <1>1, <1>2

\* The posts above have the lower ranks.
LEMMA RankOrders ==
    ASSUME NEW W \in SUBSET Posts, NEW b \in W, NEW c \in W
    PROVE  /\ Rank(W, b) < Rank(W, c) <=> Scroll!Above(b, c)
           /\ Rank(W, b) = Rank(W, c) => b = c
<1>1. ASSUME NEW x \in W, NEW y \in W, Scroll!Above(x, y)
      PROVE  Rank(W, x) < Rank(W, y)
  <2>1. PostsAbove(W, x) \in SUBSET PostsAbove(W, y) /\ x \in PostsAbove(W, y) \ PostsAbove(W, x)
    BY <1>1, AboveOrders DEF PostsAbove
  <2>2. /\ Cardinality(PostsAbove(W, x)) <= Cardinality(PostsAbove(W, y))
        /\ Cardinality(PostsAbove(W, x)) # Cardinality(PostsAbove(W, y))
    BY <2>1, RankTypes, FS_Subset
  <2> QED
    BY <2>2, RankTypes DEF Rank
<1>2. Rank(W, b) \in Nat /\ Rank(W, c) \in Nat
  BY RankTypes
<1>3. /\ Scroll!Above(b, c) => Rank(W, b) < Rank(W, c)
      /\ Scroll!Above(c, b) => Rank(W, c) < Rank(W, b)
      /\ b # c => Scroll!Above(b, c) \/ Scroll!Above(c, b)
  BY <1>1, AboveOrders
<1> QED
  BY <1>2, <1>3

\* As many posts have a rank below k as k says.
LEMMA TopSize ==
    ASSUME NEW W \in SUBSET Posts, NEW k \in 0..Cardinality(W)
    PROVE  Cardinality(Top(W, k)) = k
<1> DEFINE Wrong == {j \in 0..Cardinality(W) : Cardinality(Top(W, j)) # j}
<1>0. Cardinality(W) \in Nat /\ \A b \in W : Rank(W, b) \in Nat
  BY RankTypes
<1> SUFFICES ASSUME Wrong # {}
             PROVE  FALSE
  OBVIOUS
<1>1. PICK n \in Wrong : \A j \in Wrong : n <= j
  <2>1. Wrong \in SUBSET Nat
    BY <1>0
  <2> HIDE DEF Wrong
  <2> QED
    BY <2>1, LeastNumber
<1>2. n # 0
  <2>1. Top(W, 0) = {}
    BY <1>0 DEF Top
  <2> QED
    BY <1>1, <2>1, FS_EmptySet
<1>3. PICK m \in Nat : n = m + 1 /\ m \in 0..Cardinality(W) /\ m < Cardinality(W)
  <2>1. n \in Nat /\ n <= Cardinality(W)
    BY <1>0, <1>1
  <2>2. n - 1 \in Nat
    BY <1>2, <2>1
  <2> QED
    BY <1>0, <2>1, <2>2
<1>4. Cardinality(Top(W, m)) = m
  <2>1. m \notin Wrong
    BY <1>1, <1>3
  <2> QED
    BY <1>3, <2>1
<1>5. IsFiniteSet(Top(W, m)) /\ Top(W, m) \subseteq W /\ Top(W, m) # W
  <2>1. Top(W, m) \in SUBSET W
    BY DEF Top
  <2> QED
    BY <1>3, <1>4, <2>1, RankTypes, FS_Subset
<1>6. PICK c \in W \ Top(W, m) : \A d \in W \ Top(W, m) : Rank(W, c) <= Rank(W, d)
  <2> DEFINE R == {Rank(W, d) : d \in W \ Top(W, m)}
  <2>1. PICK x \in R : \A y \in R : x <= y
    <3>1. R \in SUBSET Nat /\ R # {}
      BY <1>0, <1>5
    <3> HIDE DEF R
    <3> QED
      BY <3>1, LeastNumber
  <2> QED
    BY <2>1
<1>7. PostsAbove(W, c) = Top(W, m)
  <2>1. ASSUME NEW d \in W, Scroll!Above(d, c)
        PROVE  d \in Top(W, m)
    BY <1>0, <1>6, <2>1, RankOrders
  <2>2. ASSUME NEW d \in Top(W, m)
        PROVE  Scroll!Above(d, c)
    <3>1. d \in W /\ Rank(W, d) < m /\ ~ (Rank(W, c) < m)
      BY <1>6 DEF Top
    <3> QED
      BY <1>0, <1>3, <1>6, <3>1, RankOrders
  <2> QED
    BY <1>5, <2>1, <2>2 DEF PostsAbove
<1>8. Rank(W, c) = m
  BY <1>4, <1>7 DEF Rank
<1>9. Top(W, n) = Top(W, m) \cup {c}
  <2>1. ASSUME NEW d \in W
        PROVE  Rank(W, d) < n <=> Rank(W, d) < m \/ d = c
    BY <1>0, <1>3, <1>6, <1>8, RankOrders
  <2> QED
    BY <1>6, <2>1 DEF Top
<1>10. Cardinality(Top(W, n)) = m + 1
  <2>1. PICK S : S = Top(W, m)
    OBVIOUS
  <2>2. IsFiniteSet(S) /\ c \notin S /\ Cardinality(S) = m
    BY <1>4, <1>5, <1>6, <2>1
  <2>3. Cardinality(S \cup {c}) = m + 1
    BY <2>2, FS_AddElement
  <2> QED
    BY <1>9, <2>1, <2>3
<1> QED
  BY <1>1, <1>3, <1>10

\* What a page of a window shows: at most its size, all up to each post it
\* shows, and something, if the window has more than the offset.
LEMMA PageSlice ==
    ASSUME NEW W \in SUBSET Posts, NEW o \in 0..Cardinality(W), NEW T \in SUBSET W,
           T = {b \in W : Rank(W, b) \in o..(o + PageSize - 1)}
    PROVE  /\ IsFiniteSet(T) /\ Cardinality(T) \in 0..PageSize
           /\ Cardinality(Top(W, o) \cup T) = o + Cardinality(T)
           /\ \A b \in T : Rank(W, b) + 1 <= o + Cardinality(T)
           /\ o < Cardinality(W) => T # {}
<1>0. Cardinality(W) \in Nat /\ IsFiniteSet(W) /\ o \in Nat /\ \A b \in W : Rank(W, b) \in Nat /\ Rank(W, b) < Cardinality(W)
  BY RankTypes
<1>1. IsFiniteSet(T) /\ Cardinality(T) \in Nat
  BY <1>0, FS_Subset, FS_CardinalityType
<1>2. \A k : Top(W, k) \in SUBSET W /\ IsFiniteSet(Top(W, k)) /\ Cardinality(Top(W, k)) \in Nat
  <2>1. \A k : Top(W, k) \in SUBSET W
    BY DEF Top
  <2> QED
    BY <1>0, <2>1, FS_Subset, FS_CardinalityType
<1>3. Cardinality(Top(W, o)) = o
  BY TopSize
<1>4. IsFiniteSet(Top(W, o) \cup T) /\ Cardinality(Top(W, o) \cup T) = o + Cardinality(T)
  <2>1. Top(W, o) \cap T = {}
    BY <1>0, ScrollConstants DEF Top
  <2>2. /\ IsFiniteSet(Top(W, o) \cup T)
        /\ Cardinality(Top(W, o) \cup T) = Cardinality(Top(W, o)) + Cardinality(T) - Cardinality({})
    BY <1>1, <1>2, <2>1, FS_Union
  <2> QED
    BY <1>1, <1>3, <2>2, FS_EmptySet
<1>5. Cardinality(T) <= PageSize
  <2>0. PageSize \in Nat \ {0}
    BY ScrollConstants
  <2>1. PICK k \in Nat : k = o + PageSize
    BY <1>0, <2>0
  <2>2. Top(W, o) \cup T = Top(W, k)
    BY <1>0, <2>0, <2>1 DEF Top
  <2>3. Cardinality(Top(W, k)) <= k
    <3>1. CASE k <= Cardinality(W)
      BY <1>0, <3>1, TopSize
    <3>2. CASE k > Cardinality(W)
      <4>1. Cardinality(Top(W, k)) <= Cardinality(W)
        BY <1>0, <1>2, FS_Subset
      <4> QED
        BY <1>0, <1>2, <3>2, <4>1
    <3> QED
      BY <1>0, <3>1, <3>2
  <2>4. o + Cardinality(T) <= o + PageSize
    BY <1>4, <2>1, <2>2, <2>3
  <2> QED
    BY <1>0, <1>1, <2>0, <2>4
<1>6. ASSUME NEW b \in T
      PROVE  Rank(W, b) + 1 <= o + Cardinality(T)
  <2>1. PICK k \in Nat : k = Rank(W, b) + 1
    BY <1>0
  <2>2. Top(W, k) \in SUBSET (Top(W, o) \cup T)
    BY <1>0, <2>1, ScrollConstants DEF Top
  <2>3. Cardinality(Top(W, k)) = k
    BY <1>0, <2>1, TopSize
  <2> QED
    BY <1>4, <2>1, <2>2, <2>3, FS_Subset
<1>7. ASSUME o < Cardinality(W), T = {}
      PROVE  FALSE
  <2>1. PICK k \in Nat : k = o + 1
    BY <1>0
  <2>2. Cardinality(Top(W, k)) = k
    BY <1>0, <1>7, <2>1, TopSize
  <2>3. Top(W, k) \in SUBSET Top(W, o)
    BY <1>0, <1>7, <2>1, ScrollConstants DEF Top
  <2>4. Cardinality(Top(W, k)) <= o
    BY <1>2, <1>3, <2>3, FS_Subset
  <2> QED
    BY <1>0, <2>1, <2>2, <2>4
<1> QED
  BY <1>1, <1>4, <1>5, <1>6, <1>7, ScrollConstants

\* The posts of b's millisecond that are shown before it, and those of them
\* that arrived after the scroll began; the posts of the cursor's millisecond.
Peers(b) == {c \in inbox : ScoreOf[c] = ScoreOf[b] /\ Scroll!Above(c, b)}
Late(b) == {c \in inbox \ start : Scroll!Above(c, b) /\ ScoreOf[c] = ScoreOf[b]}
Level == {c \in inbox : ScoreOf[c] = max}

ScrollTypes ==
    /\ inbox \in SUBSET Posts /\ start \in SUBSET inbox
    /\ max \in Nat /\ offset \in Nat /\ ended \in BOOLEAN
    /\ seen \in [Posts -> Nat]

\* What was there at the beginning and lies behind the cursor was shown.
ShownBehind ==
    \A b \in start :
        ScoreOf[b] > max \/ (ScoreOf[b] = max /\ Cardinality(Peers(b)) < offset) => seen[b] > 0

\* The offset counts posts of the cursor's millisecond.
OffsetCounts == offset <= Cardinality(Level)

\* Nothing below the cursor was shown. A post of its millisecond that was shown
\* again was pushed down by posts that are late, as the offset tells.
ShownOnce ==
    \A b \in Posts :
        /\ ScoreOf[b] < max => seen[b] = 0
        /\ ScoreOf[b] = max /\ seen[b] > 0 => seen[b] + Cardinality(Peers(b)) <= offset + Cardinality(Late(b))

\* The second half of ScrollComplete.
ShownByLate == \A b \in Posts : seen[b] <= 1 + Cardinality(Late(b))

EndShows == ended => \A b \in start : seen[b] > 0

ScrollInv == ScrollTypes /\ ShownBehind /\ OffsetCounts /\ ShownOnce /\ ShownByLate /\ EndShows

\* The invariant is enough.
LEMMA ScrollShows ==
    ASSUME ScrollInv PROVE Scroll!ScrollComplete
<1>1. \A b \in Posts : Scroll!Cardinality(Late(b)) = Cardinality(Late(b))
  BY ScrollCounts
<1> QED
  BY <1>1 DEF ScrollInv, ShownByLate, EndShows, Scroll!ScrollComplete, Late

\* The sets the argument counts are finite.
LEMMA ScrollFinite ==
    ASSUME ScrollTypes
    PROVE  /\ IsFiniteSet(inbox) /\ IsFiniteSet(Level) /\ Cardinality(Level) \in Nat
           /\ \A b : /\ IsFiniteSet(Peers(b)) /\ Cardinality(Peers(b)) \in Nat
                     /\ IsFiniteSet(Late(b)) /\ Cardinality(Late(b)) \in Nat
<1>1. IsFiniteSet(inbox)
  BY ScrollConstants, FS_Subset DEF ScrollTypes
<1>2. Level \in SUBSET inbox /\ \A b : Peers(b) \in SUBSET inbox /\ Late(b) \in SUBSET inbox
  BY DEF Level, Peers, Late
<1> QED
  BY <1>1, <1>2, FS_Subset, FS_CardinalityType

\* The newest score exists.
LEMMA NewestIs == Scroll!Newest \in Nat /\ \A b \in Posts : ScoreOf[b] <= Scroll!Newest
<1> DEFINE Newer(b) == {c \in Posts : ScoreOf[c] > ScoreOf[b]}
           Counts == {Cardinality(Newer(b)) : b \in Posts}
<1>1. \A b \in Posts : Newer(b) \in SUBSET Posts /\ IsFiniteSet(Newer(b)) /\ Cardinality(Newer(b)) \in Nat
  <2>1. \A b \in Posts : Newer(b) \in SUBSET Posts
    OBVIOUS
  <2> HIDE DEF Newer
  <2> QED
    BY <2>1, ScrollConstants, FS_Subset, FS_CardinalityType
<1> HIDE DEF Newer
<1>2. PICK n \in Counts : \A k \in Counts : n <= k
  <2>1. Counts \in SUBSET Nat /\ Counts # {}
    BY <1>1, ScrollConstants
  <2> HIDE DEF Counts
  <2> QED
    BY <2>1, LeastNumber
<1>3. PICK b \in Posts : n = Cardinality(Newer(b))
  BY <1>2
<1>4. \A c \in Posts : ScoreOf[c] <= ScoreOf[b]
  <2> SUFFICES ASSUME NEW c \in Posts, ScoreOf[c] > ScoreOf[b]
               PROVE  FALSE
    BY ScrollConstants
  <2>1. Newer(c) \in SUBSET Newer(b) /\ c \in Newer(b) \ Newer(c)
    BY ScrollConstants DEF Newer
  <2>2. Cardinality(Newer(c)) <= Cardinality(Newer(b)) /\ Cardinality(Newer(c)) # Cardinality(Newer(b))
    BY <1>1, <2>1, FS_Subset
  <2> QED
    BY <1>1, <1>2, <1>3, <2>2
<1>5. ScoreOf[b] \in Scroll!Score /\ \A t \in Scroll!Score : t <= ScoreOf[b]
  BY <1>4 DEF Scroll!Score
<1>6. Scroll!Newest \in Scroll!Score /\ \A t \in Scroll!Score : t <= Scroll!Newest
  BY <1>5 DEF Scroll!Newest
<1> QED
  BY <1>6, ScrollConstants DEF Scroll!Score

\* A scroll begins above every post, having shown none.
LEMMA ScrollInit ==
    ASSUME Scroll!Init PROVE ScrollInv
<1>1. ScrollTypes
  <2>1. max \in Nat
    BY NewestIs DEF Scroll!Init
  <2> QED
    BY <2>1 DEF Scroll!Init, ScrollTypes
<1>2. \A b \in Posts : ScoreOf[b] \in Nat /\ ScoreOf[b] <= max
  BY NewestIs, ScrollConstants DEF Scroll!Init
<1>3. OffsetCounts /\ ShownByLate
  BY <1>1, ScrollFinite DEF Scroll!Init, OffsetCounts, ShownByLate
<1>4. ShownBehind
  <2>1. \A b \in start : b \in Posts
    BY <1>1 DEF ScrollTypes
  <2>2. \A b \in start : ScoreOf[b] \in Nat /\ ScoreOf[b] <= max /\ Cardinality(Peers(b)) \in Nat
    BY <1>1, <1>2, <2>1, ScrollFinite
  <2>3. max \in Nat /\ offset = 0
    BY <1>1 DEF Scroll!Init, ScrollTypes
  <2> QED
    BY <2>2, <2>3 DEF ShownBehind
<1>5. ShownOnce /\ EndShows
  BY DEF Scroll!Init, ShownOnce, EndShows
<1> QED
  BY <1>1, <1>3, <1>4, <1>5 DEF ScrollInv

\* A post that arrives is late, and pushes down the posts it is above.
LEMMA ArriveKeeps ==
    ASSUME ScrollInv, NEW x \in Posts, Scroll!Arrive(x)
    PROVE  ScrollInv'
<1>0. /\ x \notin inbox /\ inbox' = inbox \cup {x} /\ UNCHANGED <<max, offset, seen, ended, start>>
      /\ ScrollTypes
  BY DEF Scroll!Arrive, ScrollInv
<1>1. ScrollTypes'
  BY <1>0 DEF ScrollTypes
<1>2. IsFiniteSet(inbox) /\ x \notin start
  BY <1>0, ScrollFinite DEF ScrollTypes
<1>3. ASSUME NEW b \in Posts
      PROVE  /\ Cardinality(Peers(b)) \in Nat /\ Cardinality(Late(b)) \in Nat
             /\ \/ /\ Cardinality(Peers(b)') = Cardinality(Peers(b)) + 1
                   /\ Cardinality(Late(b)') = Cardinality(Late(b)) + 1
                \/ /\ Cardinality(Peers(b)') = Cardinality(Peers(b))
                   /\ Cardinality(Late(b)') = Cardinality(Late(b))
  <2>0. /\ IsFiniteSet(Peers(b)) /\ IsFiniteSet(Late(b)) /\ x \notin Peers(b) /\ x \notin Late(b)
        /\ Cardinality(Peers(b)) \in Nat /\ Cardinality(Late(b)) \in Nat
    BY <1>0, ScrollFinite DEF Peers, Late
  <2>1. CASE ScoreOf[x] = ScoreOf[b] /\ Scroll!Above(x, b)
    <3>1. Peers(b)' = Peers(b) \cup {x} /\ Late(b)' = Late(b) \cup {x}
      BY <1>0, <1>2, <2>1 DEF Peers, Late
    <3> QED
      BY <2>0, <3>1, FS_AddElement
  <2>2. CASE ~ (ScoreOf[x] = ScoreOf[b] /\ Scroll!Above(x, b))
    <3>1. Peers(b)' = Peers(b) /\ Late(b)' = Late(b)
      BY <1>0, <1>2, <2>2 DEF Peers, Late
    <3> QED
      BY <2>0, <3>1
  <2> QED
    BY <2>1, <2>2
<1>4. ShownBehind'
  <2>1. \A b \in start : b \in Posts
    BY <1>0 DEF ScrollTypes
  <2> QED
    BY <1>0, <1>3, <2>1 DEF ScrollInv, ShownBehind, ScrollTypes
<1>5. OffsetCounts'
  <2>1. Level \in SUBSET Level' /\ IsFiniteSet(Level')
    <3>1. Level' \in SUBSET inbox' /\ IsFiniteSet(inbox')
      BY <1>0, <1>2, FS_AddElement DEF Level
    <3> QED
      BY <1>0, <3>1, FS_Subset DEF Level
  <2>2. Cardinality(Level) <= Cardinality(Level') /\ Cardinality(Level') \in Nat /\ Cardinality(Level) \in Nat
    BY <1>0, <2>1, FS_Subset, FS_CardinalityType, ScrollFinite
  <2> QED
    BY <1>0, <2>2 DEF ScrollInv, OffsetCounts, ScrollTypes
<1>6. ShownOnce'
  BY <1>0, <1>3 DEF ScrollInv, ShownOnce, ScrollTypes
<1>7. ShownByLate'
  BY <1>0, <1>3 DEF ScrollInv, ShownByLate, ScrollTypes
<1>8. EndShows'
  BY <1>0 DEF ScrollInv, EndShows
<1> QED
  BY <1>1, <1>4, <1>5, <1>6, <1>7, <1>8 DEF ScrollInv

\* The least score of a page is the score of one of its posts.
LEMMA LeastScore ==
    ASSUME NEW T \in SUBSET Posts, T # {}
    PROVE  /\ Scroll!MinTime(T) \in Nat
           /\ \E d \in T : ScoreOf[d] = Scroll!MinTime(T)
           /\ \A c \in T : Scroll!MinTime(T) <= ScoreOf[c]
<1> DEFINE R == {ScoreOf[c] : c \in T}
<1>1. PICK s \in R : \A y \in R : s <= y
  <2>1. R \in SUBSET Nat /\ R # {}
    BY ScrollConstants
  <2> HIDE DEF R
  <2> QED
    BY <2>1, LeastNumber
<1>2. s \in Scroll!Score /\ \E b \in T : ScoreOf[b] = s /\ \A c \in T : s <= ScoreOf[c]
  BY <1>1 DEF Scroll!Score
<1>3. /\ Scroll!MinTime(T) \in Scroll!Score
      /\ \E b \in T : ScoreOf[b] = Scroll!MinTime(T) /\ \A c \in T : Scroll!MinTime(T) <= ScoreOf[c]
  BY <1>2 DEF Scroll!MinTime
<1> QED
  BY <1>3, ScrollConstants DEF Scroll!Score

\* A page: what it shows are the next ranks, and the offset counts those of
\* the new score it has behind it.
LEMMA PageKeeps ==
    ASSUME ScrollInv, Scroll!Page
    PROVE  ScrollInv'
<1>0. ScrollTypes /\ UNCHANGED <<inbox, start>>
  BY DEF Scroll!Page, ScrollInv
<1>1. PICK W \in SUBSET Posts : W = {b \in inbox : ScoreOf[b] <= max}
  BY <1>0 DEF ScrollTypes
<1>2. PICK T \in SUBSET W : T = Scroll!Tuples /\ T = {b \in W : Rank(W, b) \in offset..(offset + PageSize - 1)}
  <2>1. \A b \in W : Scroll!Cardinality({c \in W : Scroll!Above(c, b)}) = Rank(W, b)
    BY ScrollCounts DEF Rank, PostsAbove
  <2>2. Scroll!Tuples = {b \in W : Rank(W, b) \in offset..(offset + PageSize - 1)}
    BY <1>1, <2>1 DEF Scroll!Tuples
  <2> QED
    BY <2>2
<1>3. /\ IsFiniteSet(W) /\ Cardinality(W) \in Nat /\ \A b \in W : Rank(W, b) \in Nat /\ Rank(W, b) < Cardinality(W)
      /\ Cardinality(Level) \in Nat /\ IsFiniteSet(Level) /\ offset <= Cardinality(Level)
      /\ \A b : Cardinality(Peers(b)) \in Nat /\ Cardinality(Late(b)) \in Nat /\ IsFiniteSet(Peers(b))
  BY <1>0, RankTypes, ScrollFinite DEF ScrollInv, OffsetCounts
<1>4. Level \in SUBSET W /\ Cardinality(Level) <= Cardinality(W) /\ offset \in 0..Cardinality(W)
  <2>1. Level \in SUBSET W
    BY <1>0, <1>1 DEF Level, ScrollTypes
  <2>2. Cardinality(Level) <= Cardinality(W)
    BY <1>3, <2>1, FS_Subset
  <2> QED
    BY <1>0, <1>3, <2>1, <2>2 DEF ScrollTypes
\* In the cursor's millisecond the rank counts the peers; below it, them all.
<1>5. /\ \A b \in Level : Rank(W, b) = Cardinality(Peers(b))
      /\ \A b \in W : ScoreOf[b] < max => Cardinality(Level) <= Rank(W, b)
      /\ \A b \in W : b \in Level \/ ScoreOf[b] < max
  <2>0. max \in Nat /\ ScoreOf \in [Posts -> Nat]
    BY <1>0, ScrollConstants DEF ScrollTypes
  <2>1. ASSUME NEW b \in Level
        PROVE  Rank(W, b) = Cardinality(Peers(b))
    <3>1. PostsAbove(W, b) = Peers(b)
      BY <1>0, <1>1, <2>0 DEF PostsAbove, Peers, Level, Scroll!Above, ScrollTypes
    <3> QED
      BY <3>1 DEF Rank
  <2>2. ASSUME NEW b \in W, ScoreOf[b] < max
        PROVE  Cardinality(Level) <= Rank(W, b)
    <3>1. Level \in SUBSET PostsAbove(W, b)
      BY <1>1, <1>4, <2>0, <2>2 DEF PostsAbove, Level, Scroll!Above
    <3> QED
      BY <3>1, RankTypes, FS_Subset DEF Rank
  <2>3. ASSUME NEW b \in W
        PROVE  b \in Level \/ ScoreOf[b] < max
    BY <1>0, <1>1, <2>0 DEF Level, ScrollTypes
  <2> QED
    BY <2>1, <2>2, <2>3
<1>6. /\ IsFiniteSet(T) /\ Cardinality(T) \in 0..PageSize
      /\ \A b \in T : Rank(W, b) + 1 <= offset + Cardinality(T)
      /\ Cardinality(Top(W, offset) \cup T) = offset + Cardinality(T)
      /\ offset < Cardinality(W) => T # {}
  BY <1>2, <1>4, PageSlice
<1>7. CASE T = {}
  <2>1. ended' = TRUE /\ UNCHANGED <<max, offset, seen>>
    BY <1>2, <1>7 DEF Scroll!Page
  <2>2. \A b : Peers(b)' = Peers(b) /\ Late(b)' = Late(b)
    BY <1>0 DEF Peers, Late
  <2>3. Level' = Level
    BY <1>0, <2>1 DEF Level
  <2>4. ScrollTypes' /\ ShownBehind' /\ OffsetCounts' /\ ShownOnce' /\ ShownByLate'
    BY <1>0, <2>1, <2>2, <2>3 DEF ScrollInv, ScrollTypes, ShownBehind, OffsetCounts, ShownOnce, ShownByLate
  <2>5. ASSUME NEW b \in start
        PROVE  seen[b] > 0
    <3>1. b \in inbox /\ ScoreOf[b] \in Nat
      BY <1>0, ScrollConstants DEF ScrollTypes
    <3>2. Level = W /\ Cardinality(W) = offset
      BY <1>3, <1>4, <1>6, <1>7, FS_Subset
    <3>3. b \in W => ScoreOf[b] = max /\ Cardinality(Peers(b)) < offset
      BY <1>3, <1>5, <3>2 DEF Level
    <3> QED
      BY <1>0, <1>1, <3>1, <3>3 DEF ScrollInv, ShownBehind, ScrollTypes
  <2>6. EndShows'
    BY <1>0, <2>1, <2>5 DEF EndShows
  <2> QED
    BY <2>4, <2>6 DEF ScrollInv
<1>8. CASE T # {}
  <2>1. PICK m \in Nat : m = Scroll!MinTime(T) /\ (\E d \in T : ScoreOf[d] = m) /\ \A c \in T : m <= ScoreOf[c]
    <3>1. T \in SUBSET Posts
      OBVIOUS
    <3> QED
      BY <1>8, <3>1, LeastScore
  <2>2. PICK d \in T : ScoreOf[d] = m
    BY <2>1
  <2>3. PICK M \in SUBSET T : M = {b \in T : ScoreOf[b] = m}
    OBVIOUS
  <2>4. PICK n \in Nat : n = Cardinality(M)
    BY <1>6, FS_Subset, FS_CardinalityType
  <2>5. /\ max' = m /\ offset' = (IF m = max THEN offset + n ELSE n) /\ ~ ended /\ ended' = ended
        /\ seen' = [b \in Posts |-> IF b \in T THEN seen[b] + 1 ELSE seen[b]]
    <3>1. Scroll!NextOffset(T) = IF m = max THEN offset + n ELSE n
      BY <2>1, <2>3, <2>4, ScrollCounts DEF Scroll!NextOffset
    <3> QED
      BY <1>2, <1>8, <2>1, <3>1 DEF Scroll!Page
  <2>6. /\ max \in Nat /\ offset \in Nat /\ seen \in [Posts -> Nat] /\ PageSize \in Nat /\ start \subseteq inbox
        /\ inbox \subseteq Posts /\ ScoreOf \in [Posts -> Nat] /\ offset + PageSize \in Nat
    BY <1>0, ScrollConstants DEF ScrollTypes
  <2>7. /\ \A b \in Posts : /\ seen'[b] = IF b \in T THEN seen[b] + 1 ELSE seen[b]
                            /\ seen'[b] \in Nat /\ seen[b] \in Nat /\ ScoreOf[b] \in Nat
        /\ \A b : Peers(b)' = Peers(b) /\ Late(b)' = Late(b)
        /\ \A b \in W : b \in T <=> (Rank(W, b) >= offset /\ Rank(W, b) < offset + PageSize)
        /\ m <= max
    <3>1. \A b : Peers(b)' = Peers(b) /\ Late(b)' = Late(b)
      BY <1>0 DEF Peers, Late
    <3>2. \A b \in Posts : /\ seen'[b] = IF b \in T THEN seen[b] + 1 ELSE seen[b]
                           /\ seen'[b] \in Nat /\ seen[b] \in Nat /\ ScoreOf[b] \in Nat
      BY <2>5, <2>6
    <3>3. \A b \in W : b \in T <=> (Rank(W, b) >= offset /\ Rank(W, b) < offset + PageSize)
      BY <1>2, <1>3, <2>6
    <3>4. m <= max
      BY <1>1, <2>2
    <3> QED
      BY <3>1, <3>2, <3>3, <3>4
  <2>8. ScrollTypes'
    BY <1>0, <2>5, <2>6 DEF ScrollTypes
  <2>9. EndShows'
    BY <2>5 DEF EndShows
  <2>10. ShownByLate'
    <3> SUFFICES ASSUME NEW b \in Posts
                 PROVE  seen'[b] <= 1 + Cardinality(Late(b))
      BY <2>7 DEF ShownByLate
    <3>1. /\ seen[b] <= 1 + Cardinality(Late(b))
          /\ ScoreOf[b] < max => seen[b] = 0
          /\ ScoreOf[b] = max /\ seen[b] > 0 => seen[b] + Cardinality(Peers(b)) <= offset + Cardinality(Late(b))
      BY DEF ScrollInv, ShownByLate, ShownOnce
    <3>2. CASE b \in T
      <4>1. b \in Level => Cardinality(Peers(b)) >= offset /\ ScoreOf[b] = max
        BY <1>5, <2>7, <3>2 DEF Level
      <4>2. b \in Level \/ seen[b] = 0
        BY <1>5, <3>1, <3>2
      <4> QED
        BY <1>3, <2>6, <2>7, <3>1, <3>2, <4>1, <4>2
    <3>3. CASE b \notin T
      BY <2>7, <3>1, <3>3
    <3> QED
      BY <3>2, <3>3
  <2>11. CASE m = max
    <3>1. T \subseteq Level /\ M = T
      BY <1>5, <2>1, <2>3, <2>6, <2>11 DEF Level
    <3>2. Level' = Level /\ offset' = offset + n /\ n = Cardinality(T) /\ n <= PageSize /\ n > 0
      BY <1>0, <1>6, <1>8, <2>4, <2>5, <2>11, <3>1, FS_EmptySet DEF Level
    <3>3. OffsetCounts'
      <4>1. Top(W, offset) \cup T \in SUBSET Level
        BY <1>3, <1>5, <2>6, <3>1 DEF Top
      <4>2. offset + n <= Cardinality(Level)
        BY <1>3, <1>6, <3>2, <4>1, FS_Subset
      <4> QED
        BY <3>2, <4>2 DEF OffsetCounts
    <3>4. ShownBehind'
      <4> SUFFICES ASSUME NEW b \in start,
                          ScoreOf[b] > max \/ (ScoreOf[b] = max /\ Cardinality(Peers(b)) < offset + n)
                   PROVE  seen'[b] > 0
        BY <1>0, <2>5, <2>7, <2>11, <3>2 DEF ShownBehind
      <4>1. b \in inbox /\ b \in Posts
        BY <2>6
      <4>2. ScoreOf[b] > max \/ (ScoreOf[b] = max /\ Cardinality(Peers(b)) < offset) => seen[b] > 0
        BY DEF ScrollInv, ShownBehind
      <4>3. ScoreOf[b] = max => b \in Level /\ b \in W /\ Rank(W, b) = Cardinality(Peers(b))
        BY <1>4, <1>5, <4>1 DEF Level
      <4> QED
        BY <1>3, <2>6, <2>7, <3>2, <4>1, <4>2, <4>3
    <3>5. ShownOnce'
      <4> SUFFICES ASSUME NEW b \in Posts
                   PROVE  /\ ScoreOf[b] < max => seen'[b] = 0
                          /\ ScoreOf[b] = max /\ seen'[b] > 0 =>
                                seen'[b] + Cardinality(Peers(b)) <= offset + n + Cardinality(Late(b))
        BY <2>5, <2>7, <2>11, <3>2 DEF ShownOnce
      <4>1. /\ ScoreOf[b] < max => seen[b] = 0
            /\ ScoreOf[b] = max /\ seen[b] > 0 => seen[b] + Cardinality(Peers(b)) <= offset + Cardinality(Late(b))
        BY DEF ScrollInv, ShownOnce
      <4>2. b \in T => ScoreOf[b] = max /\ Cardinality(Peers(b)) + 1 <= offset + n
        BY <1>5, <1>6, <3>1, <3>2 DEF Level
      <4> QED
        BY <1>3, <2>6, <2>7, <3>2, <4>1, <4>2
    <3> QED
      BY <2>8, <2>9, <2>10, <3>3, <3>4, <3>5 DEF ScrollInv
  <2>12. CASE m < max
    <3>1. offset' = n
      BY <2>5, <2>6, <2>12
    \* Below the old cursor the page takes all that is above its last posts.
    <3>2. ASSUME NEW b \in W, NEW c \in T, Scroll!Above(b, c), ScoreOf[b] < max \/ Rank(W, b) >= offset
          PROVE  b \in T
      <4>1. Rank(W, b) >= offset
        BY <1>3, <1>5, <2>6, <3>2
      <4>2. Rank(W, b) < Rank(W, c) /\ Rank(W, c) < offset + PageSize
        BY <2>7, <3>2, RankOrders
      <4> QED
        BY <1>3, <2>6, <2>7, <4>1, <4>2
    <3>3. OffsetCounts'
      <4>1. M \in SUBSET Level'
        BY <1>0, <1>1, <2>3, <2>5 DEF Level
      <4>2. Level' \in SUBSET inbox
        BY <1>0 DEF Level
      <4>3. IsFiniteSet(Level')
        BY <1>0, <4>2, ScrollFinite, FS_Subset
      <4> QED
        BY <2>4, <3>1, <4>1, <4>3, FS_Subset DEF OffsetCounts
    <3>4. ShownBehind'
      <4> SUFFICES ASSUME NEW b \in start, ScoreOf[b] > m \/ (ScoreOf[b] = m /\ Cardinality(Peers(b)) < n)
                   PROVE  seen'[b] > 0
        BY <1>0, <2>5, <2>7, <3>1 DEF ShownBehind
      <4>1. b \in inbox /\ b \in Posts /\ d \in Posts
        BY <2>6
      <4>2. CASE ScoreOf[b] > max
        BY <2>7, <4>1, <4>2 DEF ScrollInv, ShownBehind
      <4>3. CASE ScoreOf[b] <= max /\ ScoreOf[b] > m
        <5>1. b \in W /\ Scroll!Above(b, d)
          BY <1>1, <2>2, <4>1, <4>3 DEF Scroll!Above
        <5>2. b \in T \/ (ScoreOf[b] = max /\ Rank(W, b) < offset)
          BY <1>3, <2>6, <2>7, <3>2, <4>1, <4>3, <5>1
        <5>3. ScoreOf[b] = max => Rank(W, b) = Cardinality(Peers(b))
          BY <1>5, <4>1 DEF Level
        <5> QED
          BY <2>7, <4>1, <5>2, <5>3 DEF ScrollInv, ShownBehind
      <4>4. CASE ScoreOf[b] = m /\ Cardinality(Peers(b)) < n
        <5>1. b \in W /\ Rank(W, b) >= offset
          BY <1>1, <1>3, <1>5, <2>6, <2>12, <4>1, <4>4
        <5>2. SUFFICES ASSUME b \notin T PROVE FALSE
          BY <2>7, <4>1
        <5>3. ASSUME NEW c \in M
              PROVE  c \in Peers(b)
          <6>1. c \in W /\ Rank(W, c) < offset + PageSize /\ ScoreOf[c] = m /\ c \in inbox
            BY <1>1, <2>3, <2>7
          <6>2. Rank(W, b) >= offset + PageSize
            BY <1>3, <2>6, <2>7, <5>1, <5>2
          <6>3. Rank(W, c) < Rank(W, b)
            BY <1>3, <2>6, <5>1, <6>1, <6>2
          <6> QED
            BY <4>4, <5>1, <6>1, <6>3, RankOrders DEF Peers
        <5>4. n <= Cardinality(Peers(b))
          BY <1>3, <2>4, <5>3, FS_Subset
        <5> QED
          BY <1>3, <4>4, <5>4
      <4> QED
        BY <2>6, <4>1, <4>2, <4>3, <4>4
    <3>5. ShownOnce'
      <4> SUFFICES ASSUME NEW b \in Posts
                   PROVE  /\ ScoreOf[b] < m => seen'[b] = 0
                          /\ ScoreOf[b] = m /\ seen'[b] > 0 =>
                                seen'[b] + Cardinality(Peers(b)) <= n + Cardinality(Late(b))
        BY <2>5, <2>7, <3>1 DEF ShownOnce
      <4>1. ScoreOf[b] < max => seen[b] = 0
        BY DEF ScrollInv, ShownOnce
      <4>2. CASE ScoreOf[b] < m
        <5>1. b \notin T
          BY <2>1, <2>7, <4>2
        <5> QED
          BY <2>6, <2>7, <2>12, <4>1, <4>2, <5>1
      <4>3. CASE ScoreOf[b] = m /\ seen'[b] > 0
        <5>1. b \in T /\ seen'[b] = 1 /\ b \in M
          BY <2>3, <2>7, <2>12, <4>1, <4>3
        <5>2. ASSUME NEW c \in Peers(b)
              PROVE  c \in M
          <6>1. c \in W /\ ScoreOf[c] = m /\ Scroll!Above(c, b)
            BY <1>1, <2>7, <4>3 DEF Peers
          <6> QED
            BY <2>3, <2>12, <3>2, <5>1, <6>1
        <5>3. b \notin Peers(b)
          BY AboveOrders DEF Peers
        <5>4. Cardinality(Peers(b) \cup {b}) = Cardinality(Peers(b)) + 1
          BY <1>3, <5>3, FS_AddElement
        <5>5. IsFiniteSet(M)
          BY <1>6, FS_Subset
        <5>6. Cardinality(Peers(b) \cup {b}) <= n
          BY <2>4, <5>1, <5>2, <5>5, FS_Subset
        <5> QED
          BY <1>3, <4>3, <5>1, <5>4, <5>6
      <4> QED
        BY <2>7, <4>2, <4>3
    <3> QED
      BY <2>8, <2>9, <2>10, <3>3, <3>4, <3>5 DEF ScrollInv
  <2> QED
    BY <2>6, <2>7, <2>11, <2>12
<1> QED
  BY <1>7, <1>8

\* Every step of a scroll keeps the invariant.
LEMMA ScrollKeeps ==
    ASSUME ScrollInv, Scroll!Next PROVE ScrollInv'
BY PageKeeps, ArriveKeeps DEF Scroll!Next

\* So does a step that leaves the scroll alone.
LEMMA ScrollStutters ==
    ASSUME ScrollInv, UNCHANGED scrollVars PROVE ScrollInv'
<1>1. Level' = Level /\ \A b : Peers(b)' = Peers(b) /\ Late(b)' = Late(b)
  BY DEF scrollVars, Level, Peers, Late
<1> QED
  BY <1>1 DEF scrollVars, ScrollInv, ScrollTypes, ShownBehind, OffsetCounts, ShownOnce, ShownByLate, EndShows

-----------------------------------------------------------------------------
(* Nearby shops *)

\* What the assumption of the instance says of its constants.
LEMMA GeoConstants == MaxChanges \in Nat /\ MaxFaults \in Nat /\ None \notin Geo!Row
BY InstancesAssumption DEF Geo!ConstantsAssumption

\* Rows are never deleted, so an update that read one writes one.
RowsStay == \A r \in Replicas : call[r].op = "write" => shopRow[call[r].shop] # None

\* A rebuild vouches for the shops nothing was working on when it read the
\* rows, as long as nothing begins to.
SureOfRows ==
    \A r \in Replicas : Geo!Warms(r) =>
        \A s \in call[r].sure : call[r].rows[s] = shopRow[s] /\ s \in Geo!Calm

\* A shop out of doubt: every rebuild under way has its row, and is not about
\* to miss a change of it; one call works on it at most, and knows its row.
Vouched(s) ==
    /\ \A r \in Replicas : Geo!Warms(r) => call[r].rows[s] = shopRow[s] /\ s \notin Geo!Pending
    /\ \A p, r \in Replicas : Geo!Touches(p, s) /\ Geo!Touches(r, s) => p = r
    /\ \A r \in Replicas : Geo!Touches(r, s) =>
          /\ call[r].op = "write" => call[r].old = shopRow[s]
          /\ call[r].op = "sync" => call[r].next = shopRow[s]

\* While the marker stands its entry is what MySQL says, but between the
\* statement and the entry's command.
Indexed(s) ==
    ready /\ shopRow[s] # None /\ s \in Geo!Calm \cup Geo!Pending =>
        index[shopRow[s].type][s] = shopRow[s].pos

DoubtIsTold == \A s \in Shops \ doubt : Vouched(s) /\ Indexed(s)

\* What a query owes is near and out of doubt, nothing works on it, the index
\* it will search has it, and the answer it made has it.
Owes(q) ==
    \A s \in query[q].due :
        /\ s \in Geo!Calm /\ s \notin doubt
        /\ Geo!Matches(s, query[q].type) /\ shopRow[s].pos = "near"
        /\ query[q].step = "search" => index[query[q].type][s] = "near"
        /\ query[q].step \in {"fetch", "done"} => s \in query[q].got

DebtsKept == \A q \in Queries : query[q] # Geo!NoQuery => Owes(q)

GeoInv == Geo!TypeOK /\ RowsStay /\ SureOfRows /\ DoubtIsTold /\ DebtsKept

\* What a call and a query know.
LEMMA CallShape ==
    ASSUME Geo!TypeOK, NEW r \in Replicas
    PROVE  /\ call[r].op \in {"idle", "down", "write", "sync", "clear", "warm"}
           /\ call[r].op = "idle" => call[r] = Geo!Idle
           /\ call[r].op = "down" => call[r] = Geo!Down
           /\ call[r].op = "write" =>
                 call[r].shop \in Shops /\ call[r].old \in Geo!Row /\ call[r].patch \in Geo!Patch
           /\ call[r].op = "sync" =>
                 call[r].shop \in Shops /\ call[r].old \in Types \cup {None} /\ call[r].next \in Geo!Row
           /\ call[r].op = "clear" => call[r].shop \in Shops
           /\ call[r].op = "warm" =>
                 /\ call[r] \in [op : {"warm"}, rows : [Shops -> Geo!Row \cup {None}], sure : SUBSET Shops,
                                 boot : BOOLEAN]
                 /\ call[r].rows \in [Shops -> Geo!Row \cup {None}] /\ call[r].sure \in SUBSET Shops
<1>1. call[r] \in Geo!Call
  BY DEF Geo!TypeOK
<1> QED
  BY <1>1 DEF Geo!Call, Geo!Idle, Geo!Down

\* The fields of a query under way.
LEMMA QueryShape ==
    ASSUME Geo!TypeOK, NEW q \in Queries, query[q] # Geo!NoQuery
    PROVE  /\ query[q].step \in {"look", "warm", "search", "fetch", "done"}
           /\ query[q].home \in Replicas /\ query[q].type \in Types /\ query[q].due \in SUBSET Shops
           /\ query[q].step \in {"fetch", "done"} => query[q].got \in SUBSET Shops
           /\ \/ query[q] \in [step : {"look", "warm", "search"}, home : Replicas, type : Types, due : SUBSET Shops]
              \/ query[q] \in [step : {"fetch", "done"}, home : Replicas, type : Types, due : SUBSET Shops,
                               got : SUBSET Shops]
<1>1. query[q] \in Geo!Query
  BY DEF Geo!TypeOK
<1> QED
  BY <1>1 DEF Geo!Query

\* The fields of a row.
LEMMA RowShape ==
    ASSUME NEW v \in Geo!Row
    PROVE  v.type \in Types /\ v.pos \in Geo!Position
BY DEF Geo!Row

\* A patched row is a row.
LEMMA PatchedRow ==
    ASSUME NEW p \in Geo!Patch, NEW v \in Geo!Row
    PROVE  Geo!Applied(p, v) \in Geo!Row
BY DEF Geo!Patch, Geo!Row, Geo!Applied, Geo!Submitted

\* A call of r about s that starts.
LEMMA CallsTypes ==
    ASSUME Geo!TypeOK, NEW r \in Replicas, NEW s, NEW c \in Geo!Call
    PROVE  Geo!CallsFrom(r, s, c) \in [Replicas -> Geo!Call]
<1>1. ASSUME NEW p \in Replicas, Geo!Warms(p)
      PROVE  [call[p] EXCEPT !.sure = @ \ {s}] \in Geo!Call
  <2>1. call[p] \in [op : {"warm"}, rows : [Shops -> Geo!Row \cup {None}], sure : SUBSET Shops, boot : BOOLEAN]
    BY <1>1, CallShape DEF Geo!Warms
  <2> QED
    BY <2>1 DEF Geo!Call
<1> QED
  BY <1>1 DEF Geo!CallsFrom, Geo!TypeOK

\* Queries stay queries when they owe one shop less.
LEMMA QueriesTypes ==
    ASSUME Geo!TypeOK, NEW s
    PROVE  Geo!QueriesFrom(s) \in [Queries -> Geo!Query]
<1>1. ASSUME NEW q \in Queries, query[q] # Geo!NoQuery
      PROVE  [query[q] EXCEPT !.due = @ \ {s}] \in Geo!Query
  BY <1>1, QueryShape DEF Geo!Query
<1>2. Geo!NoQuery \in Geo!Query
  BY DEF Geo!Query
<1> QED
  BY <1>1, <1>2 DEF Geo!QueriesFrom

\* Queries stay queries when the rebuild they wait for ends.
LEMMA ReleasedTypes ==
    ASSUME Geo!TypeOK, NEW r, NEW ok
    PROVE  Geo!Released(r, ok) \in [Queries -> Geo!Query]
<1>1. ASSUME NEW q \in Queries, query[q] # Geo!NoQuery, query[q].step = "warm"
      PROVE  [query[q] EXCEPT !.step = "search"] \in Geo!Query
  BY <1>1, QueryShape DEF Geo!Query
<1>2. Geo!NoQuery \in Geo!Query /\ \A q \in Queries : query[q] \in Geo!Query
  BY DEF Geo!Query, Geo!TypeOK
<1> QED
  BY <1>1, <1>2 DEF Geo!Released

\* What syncGeo and WarmGeo write is an index.
LEMMA IndexTypes ==
    ASSUME Geo!TypeOK
    PROVE  /\ \A r \in Replicas : call[r].op = "sync" =>
                  Geo!Synced(call[r]) \in [Types -> [Shops -> Geo!Position \cup {None}]]
           /\ \A r \in Replicas : call[r].op = "warm" =>
                  Geo!Rebuilt(call[r].rows) \in [Types -> [Shops -> Geo!Position \cup {None}]]
<1>1. ASSUME NEW r \in Replicas, call[r].op = "sync"
      PROVE  Geo!Synced(call[r]) \in [Types -> [Shops -> Geo!Position \cup {None}]]
  <2>1. call[r].next.pos \in Geo!Position
    BY <1>1, CallShape, RowShape
  <2> QED
    BY <2>1 DEF Geo!Synced, Geo!TypeOK
<1>2. ASSUME NEW r \in Replicas, call[r].op = "warm"
      PROVE  Geo!Rebuilt(call[r].rows) \in [Types -> [Shops -> Geo!Position \cup {None}]]
  <2>1. \A s \in Shops : call[r].rows[s] # None => call[r].rows[s].pos \in Geo!Position
    BY <1>2, CallShape, RowShape
  <2> QED
    BY <2>1 DEF Geo!Rebuilt, Geo!TypeOK
<1> QED
  BY <1>1, <1>2

\* Types.
LEMMA GeoTypes ==
    ASSUME Geo!TypeOK, RowsStay, Geo!Next PROVE Geo!TypeOK'
<1>0. /\ Geo!Idle \in Geo!Call /\ Geo!Down \in Geo!Call /\ Geo!NoQuery \in Geo!Query
      /\ shopRow \in [Shops -> Geo!Row \cup {None}] /\ call \in [Replicas -> Geo!Call]
      /\ query \in [Queries -> Geo!Query] /\ doubt \in SUBSET Shops
      /\ changes \in 0..MaxChanges /\ faults \in 0..MaxFaults
  BY DEF Geo!Call, Geo!Query, Geo!TypeOK
<1>1. ASSUME NEW r \in Replicas, NEW s \in Shops, NEW v \in Geo!Row, Geo!Create(r, s, v)
      PROVE  Geo!TypeOK'
  <2>1. PICK known \in BOOLEAN :
            /\ IF known THEN Geo!Faultless ELSE Geo!Fault
            /\ call' = Geo!CallsFrom(r, s, IF known THEN [op |-> "sync", shop |-> s, old |-> None, next |-> v]
                                           ELSE Geo!Idle)
            /\ doubt' = IF known THEN Geo!DoubtFrom(r, s) ELSE doubt \cup {s}
    BY <1>1 DEF Geo!Create
  <2>2. (IF known THEN [op |-> "sync", shop |-> s, old |-> None, next |-> v] ELSE Geo!Idle) \in Geo!Call
    BY DEF Geo!Call
  <2>3. call' \in [Replicas -> Geo!Call]
    BY <2>1, <2>2, CallsTypes
  <2>4. query' \in [Queries -> Geo!Query]
    BY <1>1, QueriesTypes DEF Geo!Create
  <2>5. doubt' \in SUBSET Shops /\ faults' \in 0..MaxFaults
    BY <1>0, <2>1, GeoConstants DEF Geo!DoubtFrom, Geo!Fault, Geo!Faultless
  <2>6. shopRow' \in [Shops -> Geo!Row \cup {None}] /\ changes' \in 0..MaxChanges /\ UNCHANGED <<index, ready>>
    BY <1>0, <1>1, GeoConstants DEF Geo!Create
  <2> QED
    BY <2>3, <2>4, <2>5, <2>6 DEF Geo!TypeOK
<1>2. ASSUME NEW r \in Replicas, NEW s \in Shops, NEW p \in Geo!Patch, Geo!Update(r, s, p)
      PROVE  Geo!TypeOK'
  <2>2. [op |-> "write", shop |-> s, old |-> shopRow[s], patch |-> p] \in Geo!Call
    BY <1>0, <1>2 DEF Geo!Call, Geo!Update
  <2>3. call' \in [Replicas -> Geo!Call]
    BY <1>2, <2>2, CallsTypes DEF Geo!Update
  <2>4. query' \in [Queries -> Geo!Query]
    BY <1>2, QueriesTypes DEF Geo!Update
  <2>5. doubt' \in SUBSET Shops /\ changes' \in 0..MaxChanges /\ UNCHANGED <<shopRow, index, ready, faults>>
    BY <1>0, <1>2, GeoConstants DEF Geo!Update, Geo!DoubtFrom
  <2> QED
    BY <2>3, <2>4, <2>5 DEF Geo!TypeOK
<1>3. ASSUME NEW r \in Replicas, Geo!Write(r)
      PROVE  Geo!TypeOK'
  <2> DEFINE c == call[r]
             next == Geo!Applied(c.patch, c.old)
  <2>1. c.shop \in Shops /\ c.old \in Geo!Row /\ c.patch \in Geo!Patch /\ next \in Geo!Row
    BY <1>3, CallShape, PatchedRow DEF Geo!Write
  <2>2. [op |-> "sync", shop |-> c.shop, old |-> IF next.type = c.old.type THEN None ELSE c.old.type,
         next |-> next] \in Geo!Call
    <3>1. c.old.type \in Types
      BY <2>1, RowShape
    <3> HIDE DEF next
    <3> QED
      BY <2>1, <3>1 DEF Geo!Call
  <2>3. call' \in [Replicas -> Geo!Call]
    BY <1>0, <1>3, <2>2 DEF Geo!Write, Geo!Return
  <2>4. shopRow' \in [Shops -> Geo!Row \cup {None}]
    <3>1. shopRow[c.shop] # None => Geo!Applied(c.patch, shopRow[c.shop]) \in Geo!Row
      BY <1>0, <2>1, PatchedRow
    <3>2. shopRow[c.shop] # None
      BY <1>3 DEF Geo!Write, RowsStay
    <3> QED
      BY <1>0, <1>3, <2>1, <3>1, <3>2 DEF Geo!Write
  <2>5. doubt' \in SUBSET Shops /\ faults' \in 0..MaxFaults /\ UNCHANGED <<index, ready, query, changes>>
    BY <1>0, <1>3, <2>1, GeoConstants DEF Geo!Write, Geo!Fault, Geo!Faultless
  <2> QED
    BY <2>3, <2>4, <2>5 DEF Geo!TypeOK
<1>4. ASSUME NEW r \in Replicas, Geo!Sync(r)
      PROVE  Geo!TypeOK'
  <2>1. [op |-> "clear", shop |-> call[r].shop] \in Geo!Call
    BY <1>4, CallShape DEF Geo!Sync, Geo!Call
  <2>2. call' \in [Replicas -> Geo!Call]
    BY <1>0, <1>4, <2>1 DEF Geo!Sync, Geo!Return
  <2>3. index' \in [Types -> [Shops -> Geo!Position \cup {None}]]
    BY <1>4, IndexTypes DEF Geo!Sync, Geo!TypeOK
  <2>4. faults' \in 0..MaxFaults /\ UNCHANGED <<shopRow, ready, query, doubt, changes>>
    BY <1>0, <1>4, GeoConstants DEF Geo!Sync, Geo!Fault, Geo!Faultless
  <2> QED
    BY <2>2, <2>3, <2>4 DEF Geo!TypeOK
<1>5. ASSUME NEW r \in Replicas, Geo!Clear(r)
      PROVE  Geo!TypeOK'
  <2>1. call' \in [Replicas -> Geo!Call]
    BY <1>0, <1>5 DEF Geo!Clear, Geo!Return
  <2>2. doubt' \in SUBSET Shops /\ faults' \in 0..MaxFaults /\ UNCHANGED <<shopRow, index, query, changes>>
    BY <1>0, <1>5, CallShape, GeoConstants DEF Geo!Clear, Geo!Fault, Geo!Faultless
  <2>3. ready' \in BOOLEAN
    <3>1. ready' = FALSE \/ ready' = ready
      BY <1>5 DEF Geo!Clear
    <3> QED
      BY <3>1 DEF Geo!TypeOK
  <2> QED
    BY <2>1, <2>2, <2>3 DEF Geo!TypeOK
<1>6. ASSUME NEW r \in Replicas, Geo!WarmRead(r)
      PROVE  Geo!TypeOK'
  <2>1. Geo!Calm \in SUBSET Shops /\ Geo!Pending \in SUBSET Shops
    BY DEF Geo!Calm, Geo!Pending
  <2>2. Geo!Snapshot(TRUE) \in Geo!Call /\ Geo!Snapshot(FALSE) \in Geo!Call
    BY <1>0, <2>1 DEF Geo!Snapshot, Geo!Call
  <2>3. call' \in [Replicas -> Geo!Call] /\ doubt' \in SUBSET Shops
    BY <1>0, <1>6, <2>1, <2>2 DEF Geo!WarmRead
  <2> QED
    BY <1>6, <2>3 DEF Geo!WarmRead, Geo!TypeOK
<1>7. ASSUME NEW r \in Replicas, Geo!WarmExec(r)
      PROVE  Geo!TypeOK'
  <2>0. /\ call' \in {[call EXCEPT ![r] = Geo!Idle], [call EXCEPT ![r] = Geo!Down]}
        /\ query' \in {Geo!Released(r, TRUE), Geo!Released(r, FALSE)}
        /\ doubt' \subseteq doubt /\ (Geo!Fault \/ Geo!Faultless) /\ UNCHANGED <<shopRow, changes>>
    BY <1>7 DEF Geo!WarmExec, Geo!Return
  <2>1. call' \in [Replicas -> Geo!Call] /\ query' \in [Queries -> Geo!Query]
    <3>1. query' \in [Queries -> Geo!Query]
      BY <2>0, ReleasedTypes
    <3> QED
      BY <1>0, <2>0, <3>1
  <2>2. index' \in [Types -> [Shops -> Geo!Position \cup {None}]]
    <3>1. index' = Geo!Rebuilt(call[r].rows) \/ index' = index
      BY <1>7, Zenon DEF Geo!WarmExec
    <3>2. call[r].op = "warm"
      BY <1>7 DEF Geo!WarmExec, Geo!Warms
    <3> QED
      BY <3>1, <3>2, IndexTypes DEF Geo!TypeOK
  <2>3. doubt' \in SUBSET Shops /\ faults' \in 0..MaxFaults /\ UNCHANGED <<shopRow, changes>>
    BY <1>0, <2>0, GeoConstants DEF Geo!Fault, Geo!Faultless
  <2>4. ready' \in BOOLEAN
    <3>1. ready' = TRUE \/ ready' = ready
      BY <1>7 DEF Geo!WarmExec
    <3> QED
      BY <3>1 DEF Geo!TypeOK
  <2> QED
    BY <2>1, <2>2, <2>3, <2>4 DEF Geo!TypeOK
<1>8. ASSUME NEW r \in Replicas, Geo!Stop(r)
      PROVE  Geo!TypeOK'
  <2>1. call' \in [Replicas -> Geo!Call] /\ query' \in [Queries -> Geo!Query]
    BY <1>0, <1>8 DEF Geo!Stop
  <2>2. doubt' \in SUBSET Shops /\ faults' \in 0..MaxFaults
    BY <1>0, <1>8, CallShape, GeoConstants DEF Geo!Stop, Geo!Fault
  <2> QED
    BY <1>8, <2>1, <2>2 DEF Geo!Stop, Geo!TypeOK
<1>9. ASSUME NEW q \in Queries, NEW r \in Replicas, NEW t \in Types, Geo!Look(q, r, t)
      PROVE  Geo!TypeOK'
  <2>1. Geo!Owed(t) \in SUBSET Shops
    BY DEF Geo!Owed
  <2>2. [step |-> IF ready THEN "search" ELSE "warm", home |-> r, type |-> t, due |-> Geo!Owed(t)] \in Geo!Query
    BY <2>1 DEF Geo!Query
  <2>3. query' \in [Queries -> Geo!Query]
    BY <1>0, <1>9, <2>2 DEF Geo!Look
  <2> QED
    BY <1>9, <2>3 DEF Geo!Look, Geo!TypeOK
<1>10. ASSUME NEW q \in Queries, Geo!Search(q)
       PROVE  Geo!TypeOK'
  <2>1. [step |-> "fetch", home |-> query[q].home, type |-> query[q].type, due |-> query[q].due,
         got |-> {s \in Shops : index[query[q].type][s] = "near"}] \in Geo!Query
    BY <1>10, QueryShape DEF Geo!Search, Geo!Query
  <2>2. query' \in [Queries -> Geo!Query]
    BY <1>0, <1>10, <2>1 DEF Geo!Search
  <2> QED
    BY <1>10, <2>2 DEF Geo!Search, Geo!TypeOK
<1>11. ASSUME NEW q \in Queries, Geo!Fetch(q)
       PROVE  Geo!TypeOK'
  <2>1. [query[q] EXCEPT !.step = "done", !.got = {s \in query[q].got : Geo!Matches(s, query[q].type)}] \in Geo!Query
    <3>1. query[q] \in [step : {"fetch", "done"}, home : Replicas, type : Types, due : SUBSET Shops,
                        got : SUBSET Shops]
      BY <1>11, QueryShape DEF Geo!Fetch
    <3> QED
      BY <3>1 DEF Geo!Query
  <2>2. query' \in [Queries -> Geo!Query]
    <3>1. query' = [query EXCEPT ![q] = [query[q] EXCEPT !.step = "done",
                       !.got = {s \in query[q].got : Geo!Matches(s, query[q].type)}]]
      BY <1>0, <1>11 DEF Geo!Fetch
    <3> QED
      BY <1>0, <2>1, <3>1
  <2> QED
    BY <1>11, <2>2 DEF Geo!Fetch, Geo!TypeOK
<1>12. CASE Geo!Expire
  <2>1. ready' \in BOOLEAN
    BY <1>12 DEF Geo!Expire
  <2> QED
    BY <1>12, <2>1 DEF Geo!Expire, Geo!TypeOK
<1> QED
  BY <1>1, <1>2, <1>3, <1>4, <1>5, <1>6, <1>7, <1>8, <1>9, <1>10, <1>11, <1>12 DEF Geo!Next

\* The calls after a call about s starts in r.
LEMMA CallsStart ==
    ASSUME Geo!TypeOK, NEW r \in Replicas, NEW s, NEW c, call' = Geo!CallsFrom(r, s, c)
    PROVE  /\ call'[r] = c
           /\ \A p \in Replicas \ {r} :
                 /\ call'[p].op = call[p].op
                 /\ ~ Geo!Warms(p) => call'[p] = call[p]
                 /\ Geo!Warms(p) =>
                       call'[p].rows = call[p].rows /\ call'[p].sure = call[p].sure \ {s}
<1>1. call'[r] = c
  BY DEF Geo!CallsFrom
<1>2. ASSUME NEW p \in Replicas \ {r}
      PROVE  call'[p] = IF Geo!Warms(p) THEN [call[p] EXCEPT !.sure = @ \ {s}] ELSE call[p]
  BY DEF Geo!CallsFrom
<1>3. ASSUME NEW p \in Replicas \ {r}, Geo!Warms(p)
      PROVE  call[p] \in [op : {"warm"}, rows : [Shops -> Geo!Row \cup {None}], sure : SUBSET Shops, boot : BOOLEAN]
  BY <1>3, CallShape DEF Geo!Warms
<1> QED
  BY <1>1, <1>2, <1>3

\* The queries after it.
LEMMA QueriesStart ==
    ASSUME Geo!TypeOK, NEW s, query' = Geo!QueriesFrom(s), NEW q \in Queries, query'[q] # Geo!NoQuery
    PROVE  /\ query[q] # Geo!NoQuery
           /\ query'[q].step = query[q].step /\ query'[q].type = query[q].type
           /\ query'[q].due = query[q].due \ {s}
           /\ query[q].step \in {"fetch", "done"} => query'[q].got = query[q].got
<1>1. query[q] # Geo!NoQuery /\ query'[q] = [query[q] EXCEPT !.due = @ \ {s}]
  BY DEF Geo!QueriesFrom
<1> QED
  BY <1>1, QueryShape

\* What concerns a shop of which neither the row nor its calls change.
LEMMA ShopKept ==
    ASSUME NEW x \in Shops, Vouched(x), Indexed(x), shopRow'[x] = shopRow[x],
           shopRow[x] # None => index'[shopRow[x].type][x] = index[shopRow[x].type][x], ready' => ready,
           \A p \in Replicas : Geo!Touches(p, x)' <=> Geo!Touches(p, x),
           \A p \in Replicas : Geo!Touches(p, x) => call'[p] = call[p],
           \A p \in Replicas : Geo!Warms(p)' => Geo!Warms(p) /\ call'[p].rows = call[p].rows
    PROVE  (Vouched(x) /\ Indexed(x))'
<1>1. (x \in Geo!Pending)' <=> x \in Geo!Pending
  BY DEF Geo!Pending, Geo!Touches
<1>2. (x \in Geo!Calm)' <=> x \in Geo!Calm
  BY DEF Geo!Calm
<1>3. Vouched(x)'
  BY <1>1 DEF Vouched
<1>4. Indexed(x)'
  BY <1>1, <1>2 DEF Indexed
<1> QED
  BY <1>3, <1>4

\* A Create begins: the queries under way no longer owe the shop.
LEMMA CreateKeeps ==
    ASSUME GeoInv, NEW r \in Replicas, NEW s \in Shops, NEW v \in Geo!Row, Geo!Create(r, s, v)
    PROVE  (RowsStay /\ SureOfRows /\ DoubtIsTold /\ DebtsKept)'
<1>0. /\ call[r] = Geo!Idle /\ shopRow[s] = None /\ shopRow' = [shopRow EXCEPT ![s] = v]
      /\ query' = Geo!QueriesFrom(s) /\ index' = index /\ ready' = ready
      /\ shopRow \in [Shops -> Geo!Row \cup {None}] /\ v # None
  BY GeoConstants DEF Geo!Create, Geo!Unlocked, GeoInv, Geo!TypeOK
<1>1. PICK c :
          /\ call' = Geo!CallsFrom(r, s, c)
          /\ \/ /\ c = [op |-> "sync", shop |-> s, old |-> None, next |-> v]
                /\ doubt' = Geo!DoubtFrom(r, s)
             \/ c = Geo!Idle /\ doubt' = doubt \cup {s}
  BY DEF Geo!Create
<1>2. /\ call'[r] = c
      /\ \A p \in Replicas \ {r} :
            /\ call'[p].op = call[p].op
            /\ ~ Geo!Warms(p) => call'[p] = call[p]
            /\ Geo!Warms(p) =>
                  call'[p].rows = call[p].rows /\ call'[p].sure = call[p].sure \ {s}
  BY <1>1, CallsStart DEF GeoInv
<1>3. c.op \in {"sync", "idle"} /\ (c.op = "sync" => c.shop = s /\ c.next = v)
  BY <1>1 DEF Geo!Idle
<1>4. doubt \subseteq doubt' /\ doubt' \subseteq doubt \cup {s}
  BY <1>1 DEF Geo!DoubtFrom
<1>5. \A p \in Replicas : Geo!Warms(p)' => Geo!Warms(p) /\ call'[p].rows = call[p].rows /\ p # r
                                           /\ call'[p].sure = call[p].sure \ {s}
  BY <1>2, <1>3 DEF Geo!Warms
<1>6. \A x \in Shops \ {s} : \A p \in Replicas : /\ Geo!Touches(p, x)' <=> Geo!Touches(p, x)
                                                 /\ Geo!Touches(p, x) => call'[p] = call[p]
  BY <1>0, <1>2, <1>3 DEF Geo!Touches, Geo!Warms, Geo!Idle
<1>7. \A x \in Shops \ {s} : x \in Geo!Calm => (x \in Geo!Calm)'
  BY <1>6 DEF Geo!Calm
<1>8. RowsStay'
  <2>1. \A p \in Replicas : call'[p].op = "write" => call[p].op = "write" /\ call'[p].shop = call[p].shop
    BY <1>2, <1>3 DEF Geo!Warms
  <2> QED
    BY <1>0, <2>1, CallShape DEF RowsStay, GeoInv
<1>9. SureOfRows'
  <2> SUFFICES ASSUME NEW p \in Replicas, Geo!Warms(p)', NEW x \in call'[p].sure
               PROVE  call'[p].rows[x] = shopRow'[x] /\ (x \in Geo!Calm)'
    BY DEF SureOfRows
  <2>1. x \in call[p].sure /\ x # s /\ x \in Shops
    BY <1>5, CallShape DEF GeoInv, Geo!Warms
  <2> QED
    BY <1>0, <1>5, <1>7, <2>1 DEF GeoInv, SureOfRows
<1>10. DoubtIsTold'
  <2> SUFFICES ASSUME NEW x \in Shops, x \notin doubt'
               PROVE  (Vouched(x) /\ Indexed(x))'
    BY DEF DoubtIsTold
  <2>1. Vouched(x) /\ Indexed(x)
    BY <1>4 DEF GeoInv, DoubtIsTold
  <2>2. CASE x # s
    BY <1>0, <1>5, <1>6, <2>1, <2>2, ShopKept
  <2>3. CASE x = s
    <3>1. c.op = "sync" /\ \A p \in Replicas \ {r} : ~ Geo!Touches(p, s) /\ ~ Geo!Warms(p)
      BY <1>1, <2>3 DEF Geo!DoubtFrom, Geo!Overlaps
    <3>2. \A p \in Replicas : ~ Geo!Warms(p)' /\ (Geo!Touches(p, s)' => p = r)
      BY <1>2, <1>3, <3>1 DEF Geo!Warms, Geo!Touches
    <3>3. Vouched(s)'
      BY <1>0, <1>2, <1>3, <3>1, <3>2 DEF Vouched
    <3>4. (s \notin Geo!Calm \cup Geo!Pending)'
      BY <1>2, <1>3, <3>1, <3>2 DEF Geo!Calm, Geo!Pending, Geo!Touches
    <3> QED
      BY <2>3, <3>3, <3>4 DEF Indexed
  <2> QED
    BY <2>2, <2>3
<1>11. DebtsKept'
  <2> SUFFICES ASSUME NEW q \in Queries, query'[q] # Geo!NoQuery
               PROVE  Owes(q)'
    BY DEF DebtsKept
  <2>1. /\ query[q] # Geo!NoQuery /\ query'[q].step = query[q].step /\ query'[q].type = query[q].type
        /\ query'[q].due = query[q].due \ {s}
        /\ query[q].step \in {"fetch", "done"} => query'[q].got = query[q].got
    BY <1>0, QueriesStart DEF GeoInv
  <2>2. Owes(q) /\ query[q].due \subseteq Shops
    BY <2>1, QueryShape DEF GeoInv, DebtsKept
  <2> QED
    BY <1>0, <1>4, <1>7, <2>1, <2>2 DEF Owes, Geo!Matches
<1> QED
  BY <1>8, <1>9, <1>10, <1>11

\* An Update begins, likewise.
LEMMA UpdateKeeps ==
    ASSUME GeoInv, NEW r \in Replicas, NEW s \in Shops, NEW patch \in Geo!Patch, Geo!Update(r, s, patch)
    PROVE  (RowsStay /\ SureOfRows /\ DoubtIsTold /\ DebtsKept)'
<1> DEFINE c == [op |-> "write", shop |-> s, old |-> shopRow[s], patch |-> patch]
<1>0. /\ call[r] = Geo!Idle /\ shopRow[s] # None /\ shopRow' = shopRow /\ call' = Geo!CallsFrom(r, s, c)
      /\ query' = Geo!QueriesFrom(s) /\ index' = index /\ ready' = ready /\ doubt' = Geo!DoubtFrom(r, s)
  BY DEF Geo!Update, Geo!Unlocked
<1>2. /\ call'[r] = c
      /\ \A p \in Replicas \ {r} :
            /\ call'[p].op = call[p].op
            /\ ~ Geo!Warms(p) => call'[p] = call[p]
            /\ Geo!Warms(p) =>
                  call'[p].rows = call[p].rows /\ call'[p].sure = call[p].sure \ {s}
  BY <1>0, CallsStart DEF GeoInv
<1>4. doubt \subseteq doubt' /\ doubt' \subseteq doubt \cup {s}
  BY <1>0 DEF Geo!DoubtFrom
<1>5. \A p \in Replicas : Geo!Warms(p)' => Geo!Warms(p) /\ call'[p].rows = call[p].rows /\ p # r
                                           /\ call'[p].sure = call[p].sure \ {s}
  BY <1>2 DEF Geo!Warms
<1>6. \A x \in Shops \ {s} : \A p \in Replicas : /\ Geo!Touches(p, x)' <=> Geo!Touches(p, x)
                                                 /\ Geo!Touches(p, x) => call'[p] = call[p]
  BY <1>0, <1>2 DEF Geo!Touches, Geo!Warms, Geo!Idle
<1>7. \A x \in Shops \ {s} : x \in Geo!Calm => (x \in Geo!Calm)'
  BY <1>6 DEF Geo!Calm
<1>8. RowsStay'
  <2>1. \A p \in Replicas \ {r} : call'[p].op = "write" => call[p].op = "write" /\ call'[p].shop = call[p].shop
    BY <1>2 DEF Geo!Warms
  <2> QED
    BY <1>0, <1>2, <2>1 DEF RowsStay, GeoInv
<1>9. SureOfRows'
  <2> SUFFICES ASSUME NEW p \in Replicas, Geo!Warms(p)', NEW x \in call'[p].sure
               PROVE  call'[p].rows[x] = shopRow'[x] /\ (x \in Geo!Calm)'
    BY DEF SureOfRows
  <2>1. x \in call[p].sure /\ x # s /\ x \in Shops
    BY <1>5, CallShape DEF GeoInv, Geo!Warms
  <2> QED
    BY <1>0, <1>5, <1>7, <2>1 DEF GeoInv, SureOfRows
<1>10. DoubtIsTold'
  <2> SUFFICES ASSUME NEW x \in Shops, x \notin doubt'
               PROVE  (Vouched(x) /\ Indexed(x))'
    BY DEF DoubtIsTold
  <2>1. Vouched(x) /\ Indexed(x)
    BY <1>4 DEF GeoInv, DoubtIsTold
  <2>2. CASE x # s
    BY <1>0, <1>5, <1>6, <2>1, <2>2, ShopKept
  <2>3. CASE x = s
    <3>1. \A p \in Replicas \ {r} : ~ Geo!Touches(p, s) /\ ~ Geo!Warms(p)
      BY <1>0, <2>3 DEF Geo!DoubtFrom, Geo!Overlaps
    <3>2. \A p \in Replicas : ~ Geo!Warms(p)' /\ (Geo!Touches(p, s)' => p = r)
      BY <1>2, <3>1 DEF Geo!Warms, Geo!Touches
    <3>3. Vouched(s)'
      BY <1>0, <1>2, <3>2 DEF Vouched
    <3>4. s \in Geo!Calm
      BY <1>0, <3>1 DEF Geo!Calm, Geo!Touches, Geo!Idle
    <3> QED
      BY <1>0, <2>1, <2>3, <3>3, <3>4 DEF Indexed
  <2> QED
    BY <2>2, <2>3
<1>11. DebtsKept'
  <2> SUFFICES ASSUME NEW q \in Queries, query'[q] # Geo!NoQuery
               PROVE  Owes(q)'
    BY DEF DebtsKept
  <2>1. /\ query[q] # Geo!NoQuery /\ query'[q].step = query[q].step /\ query'[q].type = query[q].type
        /\ query'[q].due = query[q].due \ {s}
        /\ query[q].step \in {"fetch", "done"} => query'[q].got = query[q].got
    BY <1>0, QueriesStart DEF GeoInv
  <2>2. Owes(q) /\ query[q].due \subseteq Shops
    BY <2>1, QueryShape DEF GeoInv, DebtsKept
  <2> QED
    BY <1>0, <1>4, <1>7, <2>1, <2>2 DEF Owes, Geo!Matches
<1> QED
  BY <1>8, <1>9, <1>10, <1>11

\* The statement in MySQL, whether or not its answer arrives.
LEMMA WriteKeeps ==
    ASSUME GeoInv, NEW r \in Replicas, Geo!Write(r)
    PROVE  (RowsStay /\ SureOfRows /\ DoubtIsTold /\ DebtsKept)'
<1>s. PICK s \in Shops : s = call[r].shop
  BY CallShape DEF Geo!Write, GeoInv
<1> DEFINE patch == call[r].patch
           old == call[r].old
           next == Geo!Applied(patch, old)
<1>0. /\ call[r].op = "write" /\ s \in Shops /\ Geo!Touches(r, s) /\ s \in Geo!Pending
      /\ index' = index /\ ready' = ready /\ query' = query
      /\ shopRow \in [Shops -> Geo!Row \cup {None}] /\ shopRow[s] # None /\ None \notin Geo!Row
  BY <1>s, CallShape, GeoConstants DEF Geo!Write, GeoInv, RowsStay, Geo!Touches, Geo!Pending, Geo!TypeOK
<1>1. /\ \/ shopRow' = [shopRow EXCEPT ![s] = Geo!Applied(patch, shopRow[s])]
         \/ shopRow' = shopRow
      /\ \/ /\ shopRow' = [shopRow EXCEPT ![s] = Geo!Applied(patch, shopRow[s])]
            /\ call' = [call EXCEPT ![r] = [op |-> "sync", shop |-> s,
                           old |-> IF next.type = old.type THEN None ELSE old.type, next |-> next]]
            /\ doubt' = doubt
         \/ call' = [call EXCEPT ![r] = Geo!Idle] /\ doubt' = doubt \cup {s}
  BY <1>s DEF Geo!Write, Geo!Return
<1>2. /\ \A p \in Replicas \ {r} : call'[p] = call[p]
      /\ \/ call'[r].op = "sync" /\ call'[r].shop = s /\ call'[r].next = next
         \/ call'[r].op = "idle"
  BY <1>1 DEF GeoInv, Geo!TypeOK, Geo!Idle
<1>3. doubt \subseteq doubt' /\ doubt' \subseteq doubt \cup {s}
  BY <1>1
<1>4. \A x \in Shops : /\ x # s => shopRow'[x] = shopRow[x]
                       /\ shopRow[x] # None => shopRow'[x] # None
  <2>1. Geo!Applied(patch, shopRow[s]) # None
    BY <1>0, CallShape, PatchedRow DEF GeoInv
  <2> HIDE DEF patch
  <2> QED
    BY <1>0, <1>1, <2>1
<1> HIDE DEF next, patch, old
<1>5. \A p \in Replicas : Geo!Warms(p)' => Geo!Warms(p) /\ call'[p] = call[p]
  BY <1>2 DEF Geo!Warms
<1>6. \A x \in Shops \ {s} : \A p \in Replicas : /\ Geo!Touches(p, x)' <=> Geo!Touches(p, x)
                                                 /\ Geo!Touches(p, x) => call'[p] = call[p]
  BY <1>0, <1>2 DEF Geo!Touches
<1>7. \A x \in Shops : x \in Geo!Calm => x # s /\ (x \in Geo!Calm)'
  BY <1>0, <1>6 DEF Geo!Calm
<1>8. RowsStay'
  BY <1>2, <1>4, CallShape DEF RowsStay, GeoInv
<1>9. SureOfRows'
  <2> SUFFICES ASSUME NEW p \in Replicas, Geo!Warms(p)', NEW x \in call'[p].sure
               PROVE  call'[p].rows[x] = shopRow'[x] /\ (x \in Geo!Calm)'
    BY DEF SureOfRows
  <2>1. x \in call[p].sure /\ x \in Shops
    BY <1>5, CallShape DEF GeoInv, Geo!Warms
  <2> QED
    BY <1>4, <1>5, <1>7, <2>1 DEF GeoInv, SureOfRows
<1>10. DoubtIsTold'
  <2> SUFFICES ASSUME NEW x \in Shops, x \notin doubt'
               PROVE  (Vouched(x) /\ Indexed(x))'
    BY DEF DoubtIsTold
  <2>1. Vouched(x) /\ Indexed(x)
    BY <1>3 DEF GeoInv, DoubtIsTold
  <2>2. CASE x # s
    BY <1>0, <1>4, <1>5, <1>6, <2>1, <2>2, ShopKept
  <2>3. CASE x = s
    <3>1. shopRow'[s] = next /\ call'[r].op = "sync" /\ call'[r].shop = s /\ call'[r].next = next
      <4>1. /\ shopRow' = [shopRow EXCEPT ![s] = Geo!Applied(patch, shopRow[s])]
            /\ call'[r].op = "sync"
        BY <1>1, <2>3 DEF GeoInv, Geo!TypeOK
      <4>2. old = shopRow[s]
        BY <1>0, <2>1, <2>3 DEF Vouched, old
      <4> QED
        BY <1>0, <1>2, <4>1, <4>2 DEF next
    <3>2. \A p \in Replicas : ~ Geo!Warms(p) /\ (Geo!Touches(p, s) => p = r)
      BY <1>0, <2>1, <2>3 DEF Vouched
    <3>3. \A p \in Replicas : ~ Geo!Warms(p)' /\ (Geo!Touches(p, s)' => p = r)
      BY <1>2, <1>5, <3>2 DEF Geo!Touches
    <3>4. Geo!Touches(r, s)'
      BY <3>1 DEF Geo!Touches
    <3>5. Vouched(s)'
      BY <3>1, <3>3 DEF Vouched
    <3>6. (s \notin Geo!Calm \cup Geo!Pending)'
      BY <3>1, <3>3, <3>4 DEF Geo!Calm, Geo!Pending, Geo!Touches
    <3> QED
      BY <2>3, <3>5, <3>6 DEF Indexed
  <2> QED
    BY <2>2, <2>3
<1>11. DebtsKept'
  <2>1. ASSUME NEW q \in Queries, query[q] # Geo!NoQuery
        PROVE  Owes(q)'
    <3>1. Owes(q) /\ query[q].due \subseteq Shops
      BY <2>1, QueryShape DEF GeoInv, DebtsKept
    <3> QED
      BY <1>0, <1>3, <1>4, <1>7, <3>1 DEF Owes, Geo!Matches
  <2> QED
    BY <1>0, <2>1 DEF DebtsKept
<1> QED
  BY <1>8, <1>9, <1>10, <1>11

\* The index write of syncGeo.
LEMMA SyncKeeps ==
    ASSUME GeoInv, NEW r \in Replicas, Geo!Sync(r)
    PROVE  (RowsStay /\ SureOfRows /\ DoubtIsTold /\ DebtsKept)'
<1>s. PICK s \in Shops : s = call[r].shop
  BY CallShape DEF Geo!Sync, GeoInv
<1>0. /\ call[r].op = "sync" /\ s \in Shops /\ Geo!Touches(r, s) /\ call[r].next \in Geo!Row
      /\ shopRow' = shopRow /\ ready' = ready /\ query' = query /\ doubt' = doubt
      /\ index \in [Types -> [Shops -> Geo!Position \cup {None}]]
      /\ shopRow \in [Shops -> Geo!Row \cup {None}]
  BY <1>s, CallShape DEF Geo!Sync, GeoInv, Geo!Touches, Geo!TypeOK
<1>1. \/ index' = Geo!Synced(call[r]) /\ call' = [call EXCEPT ![r] = Geo!Idle]
      \/ /\ index' \in {index, Geo!Synced(call[r])}
         /\ call' = [call EXCEPT ![r] = [op |-> "clear", shop |-> s]]
  BY <1>s DEF Geo!Sync, Geo!Return
<1>2. /\ \A p \in Replicas \ {r} : call'[p] = call[p]
      /\ \/ call'[r].op = "clear" /\ call'[r].shop = s
         \/ call'[r].op = "idle" /\ index' = Geo!Synced(call[r])
  BY <1>1 DEF GeoInv, Geo!TypeOK, Geo!Idle
<1>3. \A x \in Shops \ {s} : \A t \in Types : index'[t][x] = index[t][x]
  BY <1>s, <1>0, <1>1 DEF Geo!Synced
<1>4. \A x \in Shops : shopRow[x] # None => shopRow[x].type \in Types
  BY <1>0, RowShape
<1>5. \A p \in Replicas : Geo!Warms(p)' => Geo!Warms(p) /\ call'[p] = call[p]
  BY <1>2 DEF Geo!Warms
<1>6. \A x \in Shops \ {s} : \A p \in Replicas : /\ Geo!Touches(p, x)' <=> Geo!Touches(p, x)
                                                 /\ Geo!Touches(p, x) => call'[p] = call[p]
  BY <1>0, <1>2 DEF Geo!Touches
<1>7. \A x \in Shops : x \in Geo!Calm => x # s /\ (x \in Geo!Calm)'
  BY <1>0, <1>6 DEF Geo!Calm
<1>8. RowsStay'
  BY <1>0, <1>2 DEF RowsStay, GeoInv
<1>9. SureOfRows'
  <2> SUFFICES ASSUME NEW p \in Replicas, Geo!Warms(p)', NEW x \in call'[p].sure
               PROVE  call'[p].rows[x] = shopRow'[x] /\ (x \in Geo!Calm)'
    BY DEF SureOfRows
  <2>1. x \in call[p].sure /\ x \in Shops
    BY <1>5, CallShape DEF GeoInv, Geo!Warms
  <2> QED
    BY <1>0, <1>5, <1>7, <2>1 DEF GeoInv, SureOfRows
<1>10. DoubtIsTold'
  <2> SUFFICES ASSUME NEW x \in Shops, x \notin doubt
               PROVE  (Vouched(x) /\ Indexed(x))'
    BY <1>0 DEF DoubtIsTold
  <2>1. Vouched(x) /\ Indexed(x)
    BY DEF GeoInv, DoubtIsTold
  <2>2. CASE x # s
    BY <1>0, <1>3, <1>4, <1>5, <1>6, <2>1, <2>2, ShopKept
  <2>3. CASE x = s
    <3>1. call[r].next = shopRow[s] /\ \A p \in Replicas : Geo!Touches(p, s) => p = r
      BY <1>0, <2>1, <2>3 DEF Vouched
    <3>2. \A p \in Replicas : (Geo!Touches(p, s)' => p = r /\ call'[r].op = "clear")
      BY <1>2, <3>1 DEF Geo!Touches
    <3>3. (s \notin Geo!Pending)'
      BY <3>2 DEF Geo!Pending, Geo!Touches
    <3>4. Vouched(s)'
      BY <1>0, <1>5, <2>1, <2>3, <3>2, <3>3 DEF Vouched
    <3>5. CASE call'[r].op = "idle" /\ index' = Geo!Synced(call[r])
      <4>1. index'[shopRow[s].type][s] = shopRow[s].pos
        BY <1>s, <1>0, <3>1, <3>5, RowShape DEF Geo!Synced
      <4> QED
        BY <1>0, <2>3, <3>4, <4>1 DEF Indexed
    <3>6. CASE call'[r].op = "clear" /\ call'[r].shop = s
      <4>1. (s \notin Geo!Calm)'
        BY <3>6 DEF Geo!Calm, Geo!Touches
      <4> QED
        BY <2>3, <3>3, <3>4, <4>1 DEF Indexed
    <3> QED
      BY <1>2, <3>5, <3>6
  <2> QED
    BY <2>2, <2>3
<1>11. DebtsKept'
  <2>1. ASSUME NEW q \in Queries, query[q] # Geo!NoQuery
        PROVE  Owes(q)'
    <3>1. Owes(q) /\ query[q].due \subseteq Shops /\ query[q].type \in Types
      BY <2>1, QueryShape DEF GeoInv, DebtsKept
    <3> QED
      BY <1>0, <1>3, <1>7, <3>1 DEF Owes, Geo!Matches
  <2> QED
    BY <1>0, <2>1 DEF DebtsKept
<1> QED
  BY <1>8, <1>9, <1>10, <1>11

\* geoFailed clears the marker, or fails to and leaves the shop in doubt.
LEMMA ClearKeeps ==
    ASSUME GeoInv, NEW r \in Replicas, Geo!Clear(r)
    PROVE  (RowsStay /\ SureOfRows /\ DoubtIsTold /\ DebtsKept)'
<1>s. PICK s \in Shops : s = call[r].shop
  BY CallShape DEF Geo!Clear, GeoInv
<1>0. /\ call[r].op = "clear" /\ s \in Shops /\ Geo!Touches(r, s)
      /\ shopRow' = shopRow /\ index' = index /\ query' = query
  BY <1>s, CallShape DEF Geo!Clear, GeoInv, Geo!Touches
<1>1. /\ call' = [call EXCEPT ![r] = Geo!Idle]
      /\ \/ ready' = FALSE /\ doubt' = doubt
         \/ ready' = ready /\ doubt' = doubt \cup {s}
  BY <1>s DEF Geo!Clear, Geo!Return
<1>2. /\ \A p \in Replicas \ {r} : call'[p] = call[p]
      /\ call'[r].op = "idle"
  BY <1>1 DEF GeoInv, Geo!TypeOK, Geo!Idle
<1>5. \A p \in Replicas : Geo!Warms(p)' => Geo!Warms(p) /\ call'[p] = call[p]
  BY <1>2 DEF Geo!Warms
<1>6. \A x \in Shops \ {s} : \A p \in Replicas : /\ Geo!Touches(p, x)' <=> Geo!Touches(p, x)
                                                 /\ Geo!Touches(p, x) => call'[p] = call[p]
  BY <1>0, <1>2 DEF Geo!Touches
<1>7. \A x \in Shops : x \in Geo!Calm => x # s /\ (x \in Geo!Calm)'
  BY <1>0, <1>6 DEF Geo!Calm
<1>8. RowsStay'
  BY <1>0, <1>2 DEF RowsStay, GeoInv
<1>9. SureOfRows'
  <2> SUFFICES ASSUME NEW p \in Replicas, Geo!Warms(p)', NEW x \in call'[p].sure
               PROVE  call'[p].rows[x] = shopRow'[x] /\ (x \in Geo!Calm)'
    BY DEF SureOfRows
  <2>1. x \in call[p].sure /\ x \in Shops
    BY <1>5, CallShape DEF GeoInv, Geo!Warms
  <2> QED
    BY <1>0, <1>5, <1>7, <2>1 DEF GeoInv, SureOfRows
<1>10. DoubtIsTold'
  <2> SUFFICES ASSUME NEW x \in Shops, x \notin doubt'
               PROVE  (Vouched(x) /\ Indexed(x))'
    BY DEF DoubtIsTold
  <2>1. Vouched(x) /\ Indexed(x)
    BY <1>1 DEF GeoInv, DoubtIsTold
  <2>2. CASE x # s
    BY <1>0, <1>1, <1>5, <1>6, <2>1, <2>2, ShopKept
  <2>3. CASE x = s
    <3>1. ready' = FALSE
      BY <1>1, <2>3
    <3>2. \A p \in Replicas : Geo!Touches(p, s)' => Geo!Touches(p, s) /\ call'[p] = call[p]
      BY <1>2 DEF Geo!Touches
    <3>3. (s \in Geo!Pending)' => s \in Geo!Pending
      BY <3>2 DEF Geo!Pending, Geo!Touches
    <3> QED
      BY <1>0, <1>5, <2>1, <2>3, <3>1, <3>2, <3>3 DEF Vouched, Indexed
  <2> QED
    BY <2>2, <2>3
<1>11. DebtsKept'
  <2>1. ASSUME NEW q \in Queries, query[q] # Geo!NoQuery
        PROVE  Owes(q)'
    <3>1. Owes(q) /\ query[q].due \subseteq Shops
      BY <2>1, QueryShape DEF GeoInv, DebtsKept
    <3> QED
      BY <1>0, <1>1, <1>7, <3>1 DEF Owes, Geo!Matches
  <2> QED
    BY <1>0, <2>1 DEF DebtsKept
<1> QED
  BY <1>8, <1>9, <1>10, <1>11

\* A rebuild reads the rows.
LEMMA WarmReadKeeps ==
    ASSUME GeoInv, NEW r \in Replicas, Geo!WarmRead(r)
    PROVE  (RowsStay /\ SureOfRows /\ DoubtIsTold /\ DebtsKept)'
<1>0. /\ call[r] \in {Geo!Idle, Geo!Down} /\ doubt' = doubt \cup Geo!Pending
      /\ call' \in {[call EXCEPT ![r] = Geo!Snapshot(FALSE)], [call EXCEPT ![r] = Geo!Snapshot(TRUE)]}
      /\ shopRow' = shopRow /\ index' = index /\ ready' = ready /\ query' = query
  BY DEF Geo!WarmRead, Geo!Unlocked
<1>1. /\ \A p \in Replicas \ {r} : call'[p] = call[p]
      /\ call[r].op \in {"idle", "down"} /\ call'[r].op = "warm"
      /\ call'[r].rows = shopRow /\ call'[r].sure = Geo!Calm
  BY <1>0 DEF GeoInv, Geo!TypeOK, Geo!Idle, Geo!Down, Geo!Snapshot
<1>2. \A x : \A p \in Replicas : /\ Geo!Touches(p, x)' <=> Geo!Touches(p, x)
                                 /\ Geo!Touches(p, x) => call'[p] = call[p]
  BY <1>1 DEF Geo!Touches
<1>3. Geo!Calm' = Geo!Calm
  BY <1>2 DEF Geo!Calm
<1>4. \A x \in Shops : (x \in Geo!Pending)' <=> x \in Geo!Pending
  BY <1>1 DEF Geo!Pending
<1>8. RowsStay'
  BY <1>0, <1>1 DEF RowsStay, GeoInv
<1>9. SureOfRows'
  BY <1>0, <1>1, <1>3 DEF SureOfRows, GeoInv, Geo!Warms
<1>10. DoubtIsTold'
  <2> SUFFICES ASSUME NEW x \in Shops, x \notin doubt'
               PROVE  (Vouched(x) /\ Indexed(x))'
    BY DEF DoubtIsTold
  <2>1. Vouched(x) /\ Indexed(x) /\ x \notin Geo!Pending
    BY <1>0 DEF GeoInv, DoubtIsTold
  <2>2. Vouched(x)'
    <3>1. \A p \in Replicas : Geo!Warms(p)' => call'[p].rows[x] = shopRow[x]
      BY <1>1, <2>1 DEF Vouched, Geo!Warms
    <3> QED
      BY <1>0, <1>2, <1>4, <2>1, <3>1 DEF Vouched
  <2>3. Indexed(x)'
    BY <1>0, <1>3, <1>4, <2>1 DEF Indexed
  <2> QED
    BY <2>2, <2>3
<1>11. DebtsKept'
  <2>1. ASSUME NEW q \in Queries, query[q] # Geo!NoQuery
        PROVE  Owes(q)'
    <3>1. Owes(q)
      BY <2>1 DEF GeoInv, DebtsKept
    <3>2. \A x \in Geo!Calm : x \notin Geo!Pending
      BY DEF Geo!Calm, Geo!Pending, Geo!Touches
    <3> QED
      BY <1>0, <1>3, <3>1, <3>2 DEF Owes, Geo!Matches
  <2> QED
    BY <1>0, <2>1 DEF DebtsKept
<1> QED
  BY <1>8, <1>9, <1>10, <1>11

\* A rebuild replaces the indexes and sets the marker.
LEMMA WarmExecKeeps ==
    ASSUME GeoInv, NEW r \in Replicas, Geo!WarmExec(r)
    PROVE  (RowsStay /\ SureOfRows /\ DoubtIsTold /\ DebtsKept)'
<1> DEFINE settled == {x \in call[r].sure : \A p \in Replicas \ {r} : Geo!Warms(p) => x \in call[p].sure}
<1>0. /\ call[r].op = "warm" /\ Geo!Warms(r) /\ shopRow' = shopRow
      /\ call[r].sure \in SUBSET Shops
      /\ index \in [Types -> [Shops -> Geo!Position \cup {None}]]
      /\ shopRow \in [Shops -> Geo!Row \cup {None}] /\ call \in [Replicas -> Geo!Call]
  BY CallShape DEF Geo!WarmExec, GeoInv, Geo!Warms, Geo!TypeOK
<1>1. /\ index' = Geo!Rebuilt(call[r].rows) \/ (index' = index /\ ready' = ready)
      /\ doubt' = doubt \/ (doubt' = doubt \ settled /\ index' = Geo!Rebuilt(call[r].rows))
      /\ (query' = Geo!Released(r, TRUE) /\ index' = Geo!Rebuilt(call[r].rows)) \/ query' = Geo!Released(r, FALSE)
      /\ call' \in {[call EXCEPT ![r] = Geo!Idle], [call EXCEPT ![r] = Geo!Down]}
  BY DEF Geo!WarmExec, Geo!Return
<1>2. (\A p \in Replicas \ {r} : call'[p] = call[p]) /\ call'[r].op \in {"idle", "down"}
  BY <1>0, <1>1 DEF Geo!Idle, Geo!Down
<1>3. \A x : \A p \in Replicas : /\ Geo!Touches(p, x)' <=> Geo!Touches(p, x)
                                 /\ Geo!Touches(p, x) => call'[p] = call[p]
  BY <1>0, <1>2 DEF Geo!Touches
<1>4. Geo!Calm' = Geo!Calm
  BY <1>3 DEF Geo!Calm
<1>5. \A x \in Shops : (x \in Geo!Pending)' <=> x \in Geo!Pending
  BY <1>0, <1>2 DEF Geo!Pending
<1>6. \A p \in Replicas : Geo!Warms(p)' => Geo!Warms(p) /\ call'[p] = call[p] /\ p # r
  BY <1>2 DEF Geo!Warms
<1>7. \A x \in Shops : /\ shopRow[x] # None => shopRow[x].type \in Types
                       /\ x \in Geo!Calm => x \notin Geo!Pending
  BY <1>0, RowShape DEF Geo!Calm, Geo!Pending, Geo!Touches
<1>8. RowsStay'
  BY <1>0, <1>2 DEF RowsStay, GeoInv
<1>9. SureOfRows'
  BY <1>0, <1>4, <1>6 DEF SureOfRows, GeoInv
\* What the rebuild writes of a shop whose row it has.
<1>10. ASSUME NEW x \in Shops, call[r].rows[x] = shopRow[x], shopRow[x] # None, index' = Geo!Rebuilt(call[r].rows)
       PROVE  index'[shopRow[x].type][x] = shopRow[x].pos
  BY <1>7, <1>10 DEF Geo!Rebuilt
<1>11. ASSUME NEW x \in Shops, x \notin doubt
       PROVE  /\ Vouched(x) /\ Indexed(x) /\ call[r].rows[x] = shopRow[x]
  BY <1>0, <1>11 DEF GeoInv, DoubtIsTold, Vouched
<1>12. DoubtIsTold'
  <2> SUFFICES ASSUME NEW x \in Shops, x \notin doubt'
               PROVE  (Vouched(x) /\ Indexed(x))'
    BY DEF DoubtIsTold
  <2>1. CASE x \notin doubt
    <3>1. Vouched(x)'
      BY <1>0, <1>3, <1>5, <1>6, <1>11, <2>1 DEF Vouched
    <3>2. Indexed(x)'
      <4>1. CASE index' = index /\ ready' = ready
        BY <1>0, <1>4, <1>5, <1>11, <2>1, <4>1 DEF Indexed
      <4>2. CASE index' = Geo!Rebuilt(call[r].rows)
        BY <1>0, <1>10, <1>11, <2>1, <4>2 DEF Indexed
      <4> QED
        BY <1>1, <4>1, <4>2
    <3> QED
      BY <3>1, <3>2
  <2>2. CASE x \in doubt
    <3>1. x \in settled /\ index' = Geo!Rebuilt(call[r].rows)
      BY <1>1, <2>2
    <3>2. \A p \in Replicas : Geo!Warms(p) => x \in call[p].sure
      BY <3>1
    <3>3. \A p \in Replicas : Geo!Warms(p) => call[p].rows[x] = shopRow[x] /\ x \in Geo!Calm
      BY <3>2 DEF GeoInv, SureOfRows
    <3>4. x \in Geo!Calm /\ x \notin Geo!Pending /\ \A p \in Replicas : ~ Geo!Touches(p, x)
      BY <1>0, <1>7, <3>3 DEF Geo!Calm
    <3>5. Vouched(x)'
      BY <1>0, <1>3, <1>5, <1>6, <3>3, <3>4 DEF Vouched
    <3>6. Indexed(x)'
      BY <1>0, <1>10, <3>1, <3>3 DEF Indexed
    <3> QED
      BY <3>5, <3>6
  <2> QED
    BY <2>1, <2>2
<1>13. DebtsKept'
  <2> SUFFICES ASSUME NEW q \in Queries, query'[q] # Geo!NoQuery
               PROVE  Owes(q)'
    BY DEF DebtsKept
  <2>1. /\ query[q] # Geo!NoQuery /\ query'[q].type = query[q].type /\ query'[q].due = query[q].due
        /\ \/ query'[q] = query[q]
           \/ query[q].step = "warm" /\ query'[q].step = "search" /\ index' = Geo!Rebuilt(call[r].rows)
    <3>1. query'[q] = query[q] \/ query'[q] = Geo!NoQuery
             \/ (/\ query[q] # Geo!NoQuery /\ query[q].step = "warm" /\ index' = Geo!Rebuilt(call[r].rows)
                 /\ query'[q] = [query[q] EXCEPT !.step = "search"])
      BY <1>1 DEF Geo!Released
    <3>2. CASE query'[q] = query[q]
      BY <3>2
    <3>3. CASE /\ query[q] # Geo!NoQuery /\ query[q].step = "warm" /\ index' = Geo!Rebuilt(call[r].rows)
               /\ query'[q] = [query[q] EXCEPT !.step = "search"]
      BY <3>3, QueryShape DEF GeoInv
    <3> QED
      BY <3>1, <3>2, <3>3
  <2>2. Owes(q) /\ query[q].due \subseteq Shops /\ query[q].type \in Types
    BY <2>1, QueryShape DEF GeoInv, DebtsKept
  <2> SUFFICES ASSUME NEW x \in query[q].due
               PROVE  /\ x \in Geo!Calm' /\ x \notin doubt'
                      /\ Geo!Matches(x, query[q].type)' /\ shopRow'[x].pos = "near"
                      /\ query'[q].step = "search" => index'[query'[q].type][x] = "near"
                      /\ query'[q].step \in {"fetch", "done"} => x \in query'[q].got
    BY <2>1 DEF Owes
  <2>3. /\ x \in Shops /\ x \in Geo!Calm /\ x \notin doubt /\ Geo!Matches(x, query[q].type)
        /\ shopRow[x].pos = "near"
        /\ query[q].step = "search" => index[query[q].type][x] = "near"
        /\ query[q].step \in {"fetch", "done"} => x \in query[q].got
    BY <2>2 DEF Owes
  <2>4. x \in Geo!Calm' /\ x \notin doubt' /\ Geo!Matches(x, query[q].type)' /\ shopRow'[x].pos = "near"
    BY <1>0, <1>1, <1>4, <2>1, <2>3 DEF Geo!Matches
  <2>5. index' = Geo!Rebuilt(call[r].rows) => index'[query'[q].type][x] = "near"
    BY <1>10, <1>11, <2>1, <2>3 DEF Geo!Matches
  <2> QED
    BY <1>1, <2>1, <2>3, <2>4, <2>5
<1> QED
  BY <1>8, <1>9, <1>12, <1>13

\* A process stops inside a call: its shop is in doubt.
LEMMA StopKeeps ==
    ASSUME GeoInv, NEW r \in Replicas, Geo!Stop(r)
    PROVE  (RowsStay /\ SureOfRows /\ DoubtIsTold /\ DebtsKept)'
<1>0. /\ shopRow' = shopRow /\ index' = index /\ ready' = ready /\ call \in [Replicas -> Geo!Call]
      /\ doubt' = IF call[r].op \in {"sync", "clear"} THEN doubt \cup {call[r].shop} ELSE doubt
  BY DEF Geo!Stop, GeoInv, Geo!TypeOK
<1>1. \A p \in Replicas \ {r} : call'[p] = call[p]
  BY <1>0 DEF Geo!Stop
<1>2. call'[r].op = "down"
  BY <1>0 DEF Geo!Stop, Geo!Down
<1>3. \A x : \A p \in Replicas : Geo!Touches(p, x)' => p # r /\ Geo!Touches(p, x) /\ call'[p] = call[p]
  BY <1>1, <1>2 DEF Geo!Touches
<1>4. \A x \in Shops : x \in Geo!Calm => (x \in Geo!Calm)'
  BY <1>3 DEF Geo!Calm
<1>5. \A p \in Replicas : Geo!Warms(p)' => Geo!Warms(p) /\ call'[p] = call[p]
  BY <1>1, <1>2 DEF Geo!Warms
<1>6. \A x \in Shops : (x \in Geo!Pending)' => x \in Geo!Pending
  BY <1>1, <1>2 DEF Geo!Pending
<1>8. RowsStay'
  BY <1>0, <1>1, <1>2 DEF RowsStay, GeoInv
<1>9. SureOfRows'
  <2> SUFFICES ASSUME NEW p \in Replicas, Geo!Warms(p)', NEW x \in call'[p].sure
               PROVE  call'[p].rows[x] = shopRow'[x] /\ (x \in Geo!Calm)'
    BY DEF SureOfRows
  <2>1. x \in call[p].sure /\ x \in Shops
    BY <1>5, CallShape DEF GeoInv, Geo!Warms
  <2> QED
    BY <1>0, <1>4, <1>5, <2>1 DEF GeoInv, SureOfRows
<1>10. DoubtIsTold'
  <2> SUFFICES ASSUME NEW x \in Shops, x \notin doubt'
               PROVE  (Vouched(x) /\ Indexed(x))'
    BY DEF DoubtIsTold
  <2>1. Vouched(x) /\ Indexed(x)
    BY <1>0 DEF GeoInv, DoubtIsTold
  <2>2. Vouched(x)'
    BY <1>0, <1>3, <1>5, <1>6, <2>1 DEF Vouched
  <2>3. (x \in Geo!Calm)' => x \in Geo!Calm \cup Geo!Pending
    <3>1. ASSUME (x \in Geo!Calm)', x \notin Geo!Calm
          PROVE  x \in Geo!Pending
      <4>1. Geo!Touches(r, x)
        BY <1>1, <3>1 DEF Geo!Calm, Geo!Touches
      <4>2. call[r].op = "write" /\ call[r].shop = x
        BY <1>0, <4>1 DEF Geo!Touches
      <4> QED
        BY <4>2 DEF Geo!Pending
    <3> QED
      BY <3>1
  <2>4. Indexed(x)'
    BY <1>0, <1>6, <2>1, <2>3 DEF Indexed
  <2> QED
    BY <2>2, <2>4
<1>11. DebtsKept'
  <2> SUFFICES ASSUME NEW q \in Queries, query'[q] # Geo!NoQuery
               PROVE  Owes(q)'
    BY DEF DebtsKept
  <2>1. query'[q] = query[q]
    BY DEF Geo!Stop
  <2>2. Owes(q) /\ query[q].due \subseteq Shops
    BY <2>1, QueryShape DEF GeoInv, DebtsKept
  <2>3. \A x \in Shops : x \in Geo!Calm /\ x \notin doubt => x \notin doubt'
    BY <1>0 DEF Geo!Calm, Geo!Touches
  <2> QED
    BY <1>0, <1>4, <2>1, <2>2, <2>3 DEF Owes, Geo!Matches
<1> QED
  BY <1>8, <1>9, <1>10, <1>11

\* The steps that change no row, index, call or doubt.
LEMMA AskingKeeps ==
    ASSUME GeoInv, UNCHANGED <<shopRow, index, call, doubt>>, ready' => ready,
           \A q \in Queries : query'[q] # Geo!NoQuery => Owes(q)'
    PROVE  (RowsStay /\ SureOfRows /\ DoubtIsTold /\ DebtsKept)'
<1>1. Geo!Calm' = Geo!Calm /\ Geo!Pending' = Geo!Pending
  BY DEF Geo!Calm, Geo!Pending, Geo!Touches
<1>2. RowsStay' /\ SureOfRows'
  BY <1>1 DEF GeoInv, RowsStay, SureOfRows, Geo!Warms
<1>3. DoubtIsTold'
  <2>1. \A x \in Shops \ doubt : (Vouched(x) /\ Indexed(x))'
    BY ShopKept DEF GeoInv, DoubtIsTold, Geo!Touches, Geo!Warms
  <2> QED
    BY <2>1 DEF DoubtIsTold
<1> QED
  BY <1>2, <1>3 DEF DebtsKept

\* The steps of ListByType, which write nothing.
LEMMA QueryKeeps ==
    ASSUME GeoInv, NEW q \in Queries,
           Geo!Search(q) \/ Geo!Fetch(q) \/ \E r \in Replicas, t \in Types : Geo!Look(q, r, t)
    PROVE  (RowsStay /\ SureOfRows /\ DoubtIsTold /\ DebtsKept)'
<1>0. UNCHANGED <<shopRow, index, call, doubt>> /\ (ready' => ready) /\ query \in [Queries -> Geo!Query]
  BY DEF Geo!Search, Geo!Fetch, Geo!Look, GeoInv, Geo!TypeOK
<1>1. Geo!Calm' = Geo!Calm
  BY <1>0 DEF Geo!Calm, Geo!Touches
<1>2. ASSUME NEW x \in Queries, query[x] # Geo!NoQuery, query'[x] = query[x]
      PROVE  Owes(x)'
  <2>1. Owes(x)
    BY <1>2 DEF GeoInv, DebtsKept
  <2> QED
    BY <1>0, <1>1, <1>2, <2>1 DEF Owes, Geo!Matches
<1>3. CASE Geo!Search(q)
  <2>1. \A x \in Queries : x # q => query'[x] = query[x]
    BY <1>0, <1>3 DEF Geo!Search
  <2>2. /\ query[q] # Geo!NoQuery /\ query[q].step = "search"
        /\ query'[q] = [step |-> "fetch", home |-> query[q].home, type |-> query[q].type, due |-> query[q].due,
                        got |-> {s \in Shops : index[query[q].type][s] = "near"}]
    BY <1>0, <1>3 DEF Geo!Search
  <2>3. Owes(q) /\ query[q].due \subseteq Shops
    BY <2>2, QueryShape DEF GeoInv, DebtsKept
  <2>4. Owes(q)'
    BY <1>0, <1>1, <2>2, <2>3 DEF Owes, Geo!Matches
  <2> QED
    BY <1>0, <1>2, <2>1, <2>4, AskingKeeps
<1>4. CASE Geo!Fetch(q)
  <2>1. \A x \in Queries : x # q => query'[x] = query[x]
    BY <1>0, <1>4 DEF Geo!Fetch
  <2>2. /\ query[q] # Geo!NoQuery /\ query[q].step = "fetch"
        /\ query'[q] = [query[q] EXCEPT !.step = "done",
                           !.got = {s \in query[q].got : Geo!Matches(s, query[q].type)}]
    BY <1>0, <1>4 DEF Geo!Fetch
  <2>3. Owes(q)
    BY <2>2 DEF GeoInv, DebtsKept
  <2>4. /\ query'[q].step = "done" /\ query'[q].type = query[q].type /\ query'[q].due = query[q].due
        /\ query'[q].got = {s \in query[q].got : Geo!Matches(s, query[q].type)}
    BY <2>2, QueryShape DEF GeoInv
  <2>5. Owes(q)'
    BY <1>0, <1>1, <2>2, <2>3, <2>4 DEF Owes, Geo!Matches
  <2> QED
    BY <1>0, <1>2, <2>1, <2>5, AskingKeeps
<1>5. ASSUME NEW r \in Replicas, NEW t \in Types, Geo!Look(q, r, t)
      PROVE  (RowsStay /\ SureOfRows /\ DoubtIsTold /\ DebtsKept)'
  <2>1. \A x \in Queries : x # q => query'[x] = query[x]
    BY <1>0, <1>5 DEF Geo!Look
  <2>2. query'[q] = [step |-> IF ready THEN "search" ELSE "warm", home |-> r, type |-> t, due |-> Geo!Owed(t)]
    BY <1>0, <1>5 DEF Geo!Look
  <2>3. ASSUME NEW x \in Geo!Owed(t)
        PROVE  /\ x \in Geo!Calm /\ x \notin doubt /\ Geo!Matches(x, t) /\ shopRow[x].pos = "near"
               /\ ready => index[t][x] = "near"
    <3>1. x \in Shops /\ x \in Geo!Calm /\ x \notin doubt /\ Geo!Matches(x, t) /\ shopRow[x].pos = "near"
      BY DEF Geo!Owed
    <3>2. Indexed(x)
      BY <3>1 DEF GeoInv, DoubtIsTold
    <3> QED
      BY <3>1, <3>2 DEF Indexed, Geo!Matches
  <2>4. Owes(q)'
    <3>1. /\ query'[q].type = t /\ query'[q].due = Geo!Owed(t) /\ query'[q].step \notin {"fetch", "done"}
          /\ query'[q].step = "search" => ready
      BY <2>2
    <3> HIDE DEF Geo!Owed
    <3> QED
      BY <1>0, <1>1, <2>3, <3>1 DEF Owes, Geo!Matches
  <2> QED
    BY <1>0, <1>2, <2>1, <2>4, AskingKeeps
<1> QED
  BY <1>3, <1>4, <1>5

\* Every step of the nearby shops keeps the invariant.
LEMMA GeoKeeps ==
    ASSUME GeoInv, Geo!Next
    PROVE  GeoInv'
<1>1. Geo!TypeOK'
  BY GeoTypes DEF GeoInv
<1>2. (RowsStay /\ SureOfRows /\ DoubtIsTold /\ DebtsKept)'
  <2>1. CASE Geo!Expire
    <3>1. /\ UNCHANGED <<shopRow, index, call, doubt, query>> /\ ~ ready'
      BY <2>1 DEF Geo!Expire
    <3>2. Geo!Calm' = Geo!Calm
      BY <3>1 DEF Geo!Calm, Geo!Touches
    <3>3. \A q \in Queries : query'[q] # Geo!NoQuery => Owes(q)'
      BY <3>1, <3>2 DEF GeoInv, DebtsKept, Owes, Geo!Matches
    <3> QED
      BY <3>1, <3>3, AskingKeeps
  <2> QED
    BY <2>1, CreateKeeps, UpdateKeeps, WriteKeeps, SyncKeeps, ClearKeeps, WarmReadKeeps, WarmExecKeeps,
       StopKeeps, QueryKeeps DEF Geo!Next
<1> QED
  BY <1>1, <1>2 DEF GeoInv

\* The index starts unmarked, and nobody asks.
LEMMA GeoInit ==
    ASSUME Geo!Init PROVE GeoInv
<1>1. Geo!TypeOK
  <2>1. \A s \in Shops : shopRow[s] # None => shopRow[s].pos \in Geo!Position
    BY RowShape DEF Geo!Init
  <2>2. index \in [Types -> [Shops -> Geo!Position \cup {None}]]
    BY <2>1 DEF Geo!Init, Geo!Matches
  <2> QED
    BY <2>2, GeoConstants DEF Geo!Init, Geo!TypeOK, Geo!Call, Geo!Query
<1>2. RowsStay /\ SureOfRows /\ DebtsKept
  BY DEF Geo!Init, RowsStay, SureOfRows, DebtsKept, Geo!Idle, Geo!Warms
<1>3. DoubtIsTold
  <2>1. \A s \in Shops : Vouched(s)
    BY DEF Geo!Init, Vouched, Geo!Idle, Geo!Warms, Geo!Touches
  <2>2. \A s \in Shops : Indexed(s)
    BY RowShape DEF Geo!Init, Indexed, Geo!Matches
  <2> QED
    BY <2>1, <2>2 DEF DoubtIsTold
<1> QED
  BY <1>1, <1>2, <1>3 DEF GeoInv

\* A step that leaves the nearby shops alone keeps it.
LEMMA GeoStutters ==
    ASSUME GeoInv, UNCHANGED geoVars
    PROVE  GeoInv'
<1>1. Geo!Calm' = Geo!Calm
  BY DEF geoVars, Geo!Calm, Geo!Touches
<1>2. \A q \in Queries : query'[q] # Geo!NoQuery => Owes(q)'
  BY <1>1 DEF geoVars, GeoInv, DebtsKept, Owes, Geo!Matches
<1>3. (RowsStay /\ SureOfRows /\ DoubtIsTold /\ DebtsKept)'
  BY <1>2, AskingKeeps DEF geoVars
<1> QED
  BY <1>3 DEF GeoInv, geoVars, Geo!TypeOK

\* What an answer owes it has found.
LEMMA DebtsPaid ==
    ASSUME GeoInv PROVE Geo!NearbyComplete
BY QueryShape DEF GeoInv, DebtsKept, Owes, Geo!NearbyComplete

-----------------------------------------------------------------------------
(* Accounts *)

\* What the assumptions of the instance say of its constants.
LEMMA AccountsConstants ==
    /\ MaxTries \in Nat \ {0} /\ MaxCodes \in Nat /\ MaxInserts \in Nat /\ MaxEdits \in Nat
    /\ None \notin [Fields -> Nat] /\ "name" \notin Fields
BY InstancesAssumption DEF Accounts!ConstantsAssumption, Accounts!EditsAssumption

\* A code that can still be used admitted nobody, nor did one not sent yet.
CodesUnspent ==
    /\ code <= sent
    /\ \A k \in Accounts!Codes : k > sent \/ k = code => admitted[k] = 0

\* A request past the insert knows there is a row, one with a user has its row.
RowFound ==
    \A c \in Clients :
        /\ step[c] \in {"reread", "forget", "save"} => userRow # Accounts!NoUser
        /\ step[c] \in {"forget", "save"} => user[c] = userRow

\* A row has an id handed out before; an expiry is that of a counter.
RowNumbered == userRow <= lastId
ExpiryOfCounter == pwExpiry => pwTries > 0

LoginInv ==
    /\ Accounts!TypeOK /\ CodesUnspent /\ RowFound /\ RowNumbered /\ ExpiryOfCounter
    /\ Accounts!LoginsAgree /\ Accounts!LockoutNeedsFault

\* The steps of one login.
LoginStepOf(c) ==
    \/ \E k \in Accounts!Codes : Accounts!LoginByCode(c, k)
    \/ Accounts!Lookup(c) \/ Accounts!Insert(c) \/ Accounts!Reread(c)
    \/ Accounts!LoginByPassword(c) \/ Accounts!IncrLost(c) \/ Accounts!Expire(c)
    \/ Accounts!Compare(c) \/ Accounts!Forget(c)
    \/ Accounts!Save(c) \/ Accounts!EndSession(c) \/ Accounts!SetPassword(c) \/ Accounts!Stop(c)

\* No code was sent and no row exists at first.
LEMMA LoginInit == Accounts!Init => LoginInv
<1> SUFFICES ASSUME Accounts!Init PROVE LoginInv
  OBVIOUS
<1> USE AccountsConstants
    DEF Accounts!Init, Accounts!Codes, Accounts!NoCode, Accounts!NoUser, Accounts!UserIds
<1>1. Accounts!TypeOK
  <2>1. /\ throttle \in BOOLEAN /\ pwExpiry \in BOOLEAN /\ hasPassword \in BOOLEAN
        /\ cut \in BOOLEAN
    BY Zenon
  <2> QED
    BY <2>1 DEF Accounts!TypeOK, Accounts!Steps
<1>2. CodesUnspent /\ RowFound
  BY DEF CodesUnspent, RowFound
<1>3. RowNumbered /\ ExpiryOfCounter
  BY DEF RowNumbered, ExpiryOfCounter
<1>4. Accounts!LoginsAgree /\ Accounts!LockoutNeedsFault
  BY DEF Accounts!LoginsAgree, Accounts!LockoutNeedsFault
<1> QED
  BY <1>1, <1>2, <1>3, <1>4 DEF LoginInv

\* Types, for the steps of a request.
LEMMA LoginTypes ==
    ASSUME Accounts!TypeOK, NEW c \in Clients,
           LoginStepOf(c)
    PROVE  Accounts!TypeOK'
<1> USE AccountsConstants
    DEF Accounts!TypeOK, Accounts!Goes, Accounts!redisVars, Accounts!mysqlVars, Accounts!Steps
<1>1. CASE \E k \in Accounts!Codes : Accounts!LoginByCode(c, k)
  BY <1>1 DEF Accounts!LoginByCode, Accounts!Counted, Accounts!Spent, Accounts!NoCode, Accounts!Codes
<1>2. CASE Accounts!Lookup(c)
  BY <1>2 DEF Accounts!Lookup, Accounts!Finds
<1>3. CASE Accounts!Insert(c)
  BY <1>3 DEF Accounts!Insert, Accounts!UserIds
<1>4. CASE Accounts!Reread(c)
  BY <1>4 DEF Accounts!Reread, Accounts!Finds
<1>5. CASE Accounts!LoginByPassword(c)
  BY <1>5 DEF Accounts!LoginByPassword, Accounts!Counted, Accounts!FirstAttempt
<1>6. CASE Accounts!IncrLost(c)
  <2>1. cut' \in BOOLEAN
    BY <1>6, Zenon DEF Accounts!IncrLost
  <2> QED
    BY <1>6, <2>1 DEF Accounts!IncrLost, Accounts!Counted
<1>7. CASE Accounts!Expire(c)
  <2>0. (pwTries > 0) \in BOOLEAN
    OBVIOUS
  <2>1. cut' \in BOOLEAN /\ pwExpiry' \in BOOLEAN
    BY <1>7, <2>0, Zenon DEF Accounts!Expire
  <2> QED
    BY <1>7, <2>1 DEF Accounts!Expire
<1>8. CASE Accounts!Compare(c) \/ Accounts!Forget(c)
  <2>1. pwExpiry' \in BOOLEAN /\ cut' \in BOOLEAN
    BY <1>8, Zenon DEF Accounts!Compare, Accounts!Forget
  <2> QED
    BY <1>8, <2>1 DEF Accounts!Compare, Accounts!Forget
<1>9. CASE Accounts!Save(c) \/ Accounts!EndSession(c)
  BY <1>9 DEF Accounts!Save, Accounts!EndSession
<1>10. CASE Accounts!SetPassword(c) \/ Accounts!Stop(c)
  <2>1. cut' \in BOOLEAN /\ hasPassword' \in BOOLEAN
    BY <1>10, Zenon DEF Accounts!SetPassword, Accounts!Stop
  <2> QED
    BY <1>10, <2>1 DEF Accounts!SetPassword, Accounts!Stop
<1> QED
  BY <1>1, <1>2, <1>3, <1>4, <1>5, <1>6, <1>7, <1>8, <1>9, <1>10 DEF LoginStepOf

\* The steps of a request keep the rest.
LEMMA LoginKeeps ==
    ASSUME LoginInv, NEW c \in Clients, Accounts!TypeOK',
           LoginStepOf(c)
    PROVE  LoginInv'
<1> USE AccountsConstants
    DEF LoginInv, Accounts!TypeOK, CodesUnspent, RowFound, RowNumbered, ExpiryOfCounter,
        Accounts!LoginsAgree, Accounts!LockoutNeedsFault,
        Accounts!Goes, Accounts!redisVars, Accounts!mysqlVars, Accounts!NoCode, Accounts!NoUser
<1>1. CASE \E k \in Accounts!Codes : Accounts!LoginByCode(c, k)
  BY <1>1 DEF Accounts!LoginByCode, Accounts!Counted, Accounts!Spent, Accounts!Codes
<1>2. CASE Accounts!Lookup(c)
  BY <1>2 DEF Accounts!Lookup, Accounts!Finds
<1>3. CASE Accounts!Insert(c)
  BY <1>3 DEF Accounts!Insert, Accounts!UserIds
<1>4. CASE Accounts!Reread(c)
  BY <1>4 DEF Accounts!Reread, Accounts!Finds
<1>5. CASE Accounts!LoginByPassword(c)
  BY <1>5 DEF Accounts!LoginByPassword, Accounts!Counted, Accounts!FirstAttempt
<1>6. CASE Accounts!IncrLost(c)
  <2>1. CASE pwTries = 0
    <3>1. cut'
      BY <1>6, <2>1, Zenon DEF Accounts!IncrLost
    <3> QED
      BY <1>6, <2>1, <3>1 DEF Accounts!IncrLost, Accounts!Counted
  <2>2. CASE pwTries # 0
    <3>1. cut => cut'
      BY <1>6, Zenon DEF Accounts!IncrLost
    <3> QED
      BY <1>6, <2>2, <3>1 DEF Accounts!IncrLost, Accounts!Counted
  <2> QED
    BY <2>1, <2>2
<1>7. CASE Accounts!Expire(c)
  BY <1>7 DEF Accounts!Expire
<1>8. CASE Accounts!Compare(c)
  BY <1>8 DEF Accounts!Compare
<1>13. CASE Accounts!Forget(c)
  BY <1>13 DEF Accounts!Forget
<1>9. CASE Accounts!Save(c) \/ Accounts!EndSession(c)
  BY <1>9 DEF Accounts!Save, Accounts!EndSession
<1>10. CASE Accounts!SetPassword(c) \/ Accounts!Stop(c)
  BY <1>10 DEF Accounts!SetPassword, Accounts!Stop
<1> QED
  BY <1>1, <1>2, <1>3, <1>4, <1>5, <1>6, <1>7, <1>8, <1>9, <1>10, <1>13 DEF LoginStepOf

\* Sending a code, and the expiry of a key.
LEMMA PhoneTypes ==
    ASSUME Accounts!TypeOK, Accounts!SendCode \/ Accounts!KeyExpires
    PROVE  Accounts!TypeOK'
<1> USE AccountsConstants
    DEF Accounts!TypeOK, Accounts!Goes, Accounts!redisVars, Accounts!mysqlVars, Accounts!Steps
<1>1. CASE Accounts!SendCode
  BY <1>1 DEF Accounts!SendCode, Accounts!Codes
<1>2. CASE Accounts!KeyExpires
  <2>1. pwExpiry' \in BOOLEAN /\ throttle' \in BOOLEAN /\ cut' \in BOOLEAN
    BY <1>2, Zenon DEF Accounts!KeyExpires
  <2> QED
    BY <1>2, <2>1 DEF Accounts!KeyExpires, Accounts!NoCode
<1> QED
  BY <1>1, <1>2

\* So do a code that is sent and a key that expires.
LEMMA PhoneKeeps ==
    ASSUME LoginInv, Accounts!TypeOK', Accounts!SendCode \/ Accounts!KeyExpires
    PROVE  LoginInv'
<1> USE AccountsConstants
    DEF LoginInv, Accounts!TypeOK, CodesUnspent, RowFound, RowNumbered, ExpiryOfCounter,
        Accounts!LoginsAgree, Accounts!LockoutNeedsFault,
        Accounts!Goes, Accounts!redisVars, Accounts!mysqlVars, Accounts!NoCode, Accounts!NoUser
<1>1. CASE Accounts!SendCode
  BY <1>1 DEF Accounts!SendCode, Accounts!Codes
<1>2. CASE Accounts!KeyExpires
  <2>1. CASE pwExpiry /\ pwTries' = 0 /\ pwExpiry' = FALSE /\ UNCHANGED <<code, throttle, tries>>
    BY <1>2, <2>1 DEF Accounts!KeyExpires
  <2>2. CASE UNCHANGED <<pwTries, pwExpiry>>
    BY <1>2, <2>2 DEF Accounts!KeyExpires, Accounts!Codes
  <2> QED
    BY <1>2, <2>1, <2>2 DEF Accounts!KeyExpires
<1> QED
  BY <1>1, <1>2

\* The profile has its types, and each column what its last edit said.
AccountInv == LoginInv /\ Accounts!AccountTypeOK /\ Accounts!ProfileKept

\* The same with profiles, which start empty.
LEMMA AccountInit == Accounts!AccountInit => AccountInv
<1> SUFFICES ASSUME Accounts!AccountInit PROVE AccountInv
  OBVIOUS
<1>1. LoginInv
  BY LoginInit DEF Accounts!AccountInit
<1>2. Accounts!AccountTypeOK
  BY AccountsConstants
  DEF Accounts!AccountInit, Accounts!AccountTypeOK, Accounts!NoEdit, Accounts!Columns
<1>3. Accounts!ProfileKept
  BY AccountsConstants DEF Accounts!AccountInit, Accounts!ProfileKept, Accounts!Columns
<1> QED
  BY <1>1, <1>2, <1>3 DEF AccountInv

\* A step that leaves the logins alone keeps their invariant.
LEMMA LoginStutters == LoginInv /\ UNCHANGED loginVars => LoginInv'
BY DEF loginVars, LoginInv, Accounts!TypeOK, CodesUnspent, RowFound, RowNumbered,
    ExpiryOfCounter, Accounts!LoginsAgree, Accounts!LockoutNeedsFault

\* A step that leaves the profiles alone keeps them.
LEMMA ProfileStutters ==
    ASSUME Accounts!AccountTypeOK, Accounts!ProfileKept, UNCHANGED accountVars
    PROVE  Accounts!AccountTypeOK' /\ Accounts!ProfileKept'
BY DEF accountVars, Accounts!AccountTypeOK, Accounts!ProfileKept

\* An edit writes one statement: the columns it submits, and no other.
LEMMA EditKeeps ==
    ASSUME Accounts!AccountTypeOK, Accounts!ProfileKept, NEW c \in Clients, Accounts!Edit(c)
    PROVE  Accounts!AccountTypeOK' /\ Accounts!ProfileKept'
<1> DEFINE e == edit[c]
<1>0. /\ e.columns \subseteq Accounts!Columns /\ e.value \in 0..MaxEdits
      /\ Accounts!NoEdit \in [columns : SUBSET Accounts!Columns, value : 0..MaxEdits]
  BY AccountsConstants DEF Accounts!AccountTypeOK, Accounts!NoEdit
<1>1. edit' \in [Clients -> [columns : SUBSET Accounts!Columns, value : 0..MaxEdits]]
      /\ edits' = edits
  BY <1>0 DEF Accounts!Edit, Accounts!AccountTypeOK
<1>2. CASE Accounts!SaveUserInfo(e)
  <2>1. last' \in [Accounts!Columns -> 0..MaxEdits]
    BY <1>0, <1>2 DEF Accounts!SaveUserInfo, Accounts!Committed, Accounts!AccountTypeOK
  <2>2. CASE profile = None
    <3>1. profile' = Accounts!Created(e)
      BY <1>2, <2>2 DEF Accounts!SaveUserInfo
    <3>2. profile' \in [Fields -> 0..MaxEdits] /\ profile' # None
      BY <3>1, <1>0, AccountsConstants DEF Accounts!Created
    <3>3. Accounts!AccountTypeOK'
      BY <1>1, <1>2, <2>1, <3>2 DEF Accounts!AccountTypeOK, Accounts!SaveUserInfo
    <3>4. Accounts!ProfileKept'
      BY <1>2, <2>2, <3>1, <3>2, AccountsConstants
      DEF Accounts!ProfileKept, Accounts!SaveUserInfo, Accounts!Committed, Accounts!Created,
          Accounts!Columns
    <3> QED
      BY <3>3, <3>4
  <2>3. CASE profile # None
    <3>1. profile' = Accounts!Changed(e) /\ profile \in [Fields -> 0..MaxEdits]
      BY <1>2, <2>3 DEF Accounts!SaveUserInfo, Accounts!AccountTypeOK
    <3>2. profile' \in [Fields -> 0..MaxEdits] /\ profile' # None
      BY <3>1, <1>0, AccountsConstants DEF Accounts!Changed
    <3>3. Accounts!AccountTypeOK'
      BY <1>1, <1>2, <2>1, <3>2 DEF Accounts!AccountTypeOK, Accounts!SaveUserInfo
    <3>4. Accounts!ProfileKept'
      BY <1>2, <2>3, <3>1, <3>2, AccountsConstants
      DEF Accounts!ProfileKept, Accounts!SaveUserInfo, Accounts!Committed, Accounts!Changed,
          Accounts!Columns
    <3> QED
      BY <3>3, <3>4
  <2> QED
    BY <2>2, <2>3
<1>3. CASE Accounts!SaveUserName(e)
  <2>1. last' \in [Accounts!Columns -> 0..MaxEdits]
    BY <1>0, <1>3 DEF Accounts!SaveUserName, Accounts!Committed, Accounts!AccountTypeOK
  <2>2. Accounts!AccountTypeOK'
    BY <1>0, <1>1, <1>3, <2>1 DEF Accounts!AccountTypeOK, Accounts!SaveUserName
  <2>3. Accounts!ProfileKept'
    BY <1>3, AccountsConstants
    DEF Accounts!ProfileKept, Accounts!SaveUserName, Accounts!Committed, Accounts!Columns
  <2> QED
    BY <2>2, <2>3
<1>4. CASE UNCHANGED <<name, profile, last>>
  BY <1>1, <1>4 DEF Accounts!AccountTypeOK, Accounts!ProfileKept
<1> QED
  BY <1>2, <1>3, <1>4 DEF Accounts!Edit

\* A request to edit changes no column yet.
LEMMA SubmitKeeps ==
    ASSUME Accounts!AccountTypeOK, Accounts!ProfileKept, NEW c \in Clients,
           NEW columns \in ((SUBSET Fields) \ {{}}) \cup {{"name"}}, Accounts!Submit(c, columns)
    PROVE  Accounts!AccountTypeOK' /\ Accounts!ProfileKept'
<1>1. [columns |-> columns, value |-> edits + 1] \in [columns : SUBSET Accounts!Columns, value : 0..MaxEdits]
  BY AccountsConstants DEF Accounts!Columns, Accounts!Submit, Accounts!AccountTypeOK
<1>2. Accounts!AccountTypeOK'
  BY <1>1, AccountsConstants DEF Accounts!Submit, Accounts!AccountTypeOK
<1> QED
  BY <1>2 DEF Accounts!Submit, Accounts!ProfileKept

\* Every step of a login keeps its invariant.
LEMMA LoginNextKeeps == LoginInv /\ Accounts!Next => LoginInv'
<1> SUFFICES ASSUME LoginInv, Accounts!Next PROVE LoginInv'
  OBVIOUS
<1>0. Accounts!TypeOK
  BY DEF LoginInv
<1>1. ASSUME NEW c \in Clients, LoginStepOf(c)
      PROVE  LoginInv'
  BY <1>0, <1>1, LoginTypes, LoginKeeps
<1>2. CASE Accounts!SendCode \/ Accounts!KeyExpires
  BY <1>0, <1>2, PhoneTypes, PhoneKeeps
<1> QED
  BY <1>1, <1>2 DEF Accounts!Next, LoginStepOf

\* A step of the practice server is one of the login, or of the profile.
LEMMA AccountNextKeeps == AccountInv /\ Accounts!AccountNext => AccountInv'
<1> SUFFICES ASSUME AccountInv, Accounts!AccountNext PROVE AccountInv'
  OBVIOUS
<1> USE DEF AccountInv
<1>1. ASSUME Accounts!Next, UNCHANGED accountVars
      PROVE  AccountInv'
  BY <1>1, LoginNextKeeps, ProfileStutters
<1>2. ASSUME NEW c \in Clients,
             (\E columns \in ((SUBSET Fields) \ {{}}) \cup {{"name"}} : Accounts!Submit(c, columns))
               \/ Accounts!Edit(c)
      PROVE  AccountInv'
  <2>1. UNCHANGED loginVars
    BY <1>2 DEF Accounts!Submit, Accounts!Edit, Accounts!vars, loginVars
  <2> QED
    BY <2>1, <1>2, LoginStutters, SubmitKeeps, EditKeeps
<1> QED
  BY <1>1, <1>2
  DEF Accounts!AccountNext, Accounts!Next, Accounts!Code, Accounts!Verify, Accounts!FindOrCreate,
      Accounts!SaveSession, Accounts!SessionEnds, Accounts!Password, Accounts!accountVars, accountVars

-----------------------------------------------------------------------------
(* Sign-in *)

\* What the assumption of the instance says of its constants.
LEMMA SignConstants == Months \in Nat \ {0} /\ MonthLength \in Nat \ {0}
BY InstancesAssumption DEF Sign!ConstantsAssumption

\* The bits of a month up to each day, the recursive function of Field.
FieldOf(g, b) ==
    g = [n \in 0..MonthLength |-> IF n = 0 THEN 0 ELSE 2 * g[n - 1] + b[n - 1]]

\* The recursion of Field has a solution.
LEMMA FieldExists ==
    ASSUME NEW b \in [0..(MonthLength - 1) -> {0, 1}]
    PROVE  \E g \in [0..MonthLength -> Nat] : FieldOf(g, b)
<1> DEFINE Upto(k) == \E g \in [0..k -> Nat] : \A n \in 0..k :
                          g[n] = IF n = 0 THEN 0 ELSE 2 * g[n - 1] + b[n - 1]
           T == {k \in 0..MonthLength : ~Upto(k)}
<1>1. T = {}
  <2> SUFFICES ASSUME T # {} PROVE FALSE
    OBVIOUS
  <2>1. T \in SUBSET Nat
    BY SignConstants
  <2> HIDE DEF T
  <2>2. PICK k \in T : \A j \in T : k <= j
    BY <2>1, LeastNumber
  <2> USE DEF T
  <2>3. k \in 0..MonthLength /\ ~Upto(k)
    BY <2>2
  <2>4. k # 0
    <3>1. Upto(0)
      <4> DEFINE z == [n \in 0..0 |-> 0]
      <4>1. z \in [0..0 -> Nat]
        OBVIOUS
      <4>2. \A n \in 0..0 : n = 0 /\ z[n] = 0
        OBVIOUS
      <4> HIDE DEF z
      <4> QED
        BY <4>1, <4>2
    <3> QED
      BY <2>3, <3>1
  <2>5. k \in Nat /\ k - 1 \in 0..MonthLength /\ ~(k <= k - 1) /\ k <= MonthLength
    BY <2>3, <2>4, SignConstants
  <2> HIDE DEF Upto
  <2>6. Upto(k - 1)
    BY <2>2, <2>5
  <2> USE DEF Upto
  <2>7. PICK g \in [0..(k - 1) -> Nat] : \A n \in 0..(k - 1) :
            g[n] = IF n = 0 THEN 0 ELSE 2 * g[n - 1] + b[n - 1]
    BY <2>6
  <2> DEFINE h == [n \in 0..k |-> IF n = k THEN 2 * g[k - 1] + b[k - 1] ELSE g[n]]
  <2>8. b[k - 1] \in {0, 1} /\ g[k - 1] \in Nat
    BY <2>4, <2>5, SignConstants
  <2>9. h \in [0..k -> Nat]
    BY <2>5, <2>8
  <2>10. \A n \in 0..k : h[n] = IF n = 0 THEN 0 ELSE 2 * h[n - 1] + b[n - 1]
    <3>1. ASSUME NEW n \in 0..k, n # k
          PROVE  h[n] = IF n = 0 THEN 0 ELSE 2 * h[n - 1] + b[n - 1]
      <4>1. n \in 0..(k - 1) /\ h[n] = g[n] /\ (n # 0 => h[n - 1] = g[n - 1])
        BY <2>5, <3>1
      <4> QED
        BY <2>7, <4>1
    <3>2. h[k] = 2 * h[k - 1] + b[k - 1]
      BY <2>4, <2>5
    <3> QED
      BY <2>4, <3>1, <3>2
  <2> HIDE DEF h
  <2> QED
    BY <2>3, <2>9, <2>10
<1>2. Upto(MonthLength)
  <2>1. MonthLength \in 0..MonthLength
    BY SignConstants
  <2> HIDE DEF Upto
  <2> QED
    BY <1>1, <2>1
<1>3. PICK g \in [0..MonthLength -> Nat] : \A n \in 0..MonthLength :
          g[n] = IF n = 0 THEN 0 ELSE 2 * g[n - 1] + b[n - 1]
  BY <1>2
<1>4. g = [n \in 0..MonthLength |-> IF n = 0 THEN 0 ELSE 2 * g[n - 1] + b[n - 1]]
  BY <1>3
<1> QED
  BY <1>4 DEF FieldOf

CountOf(g, bits) == g = [n \in 0..bits |-> IF n % 2 = 1 THEN 1 + g[n \div 2] ELSE 0]

\* An even number ends in a 0 bit and an odd one in a 1.
LEMMA Halves ==
    ASSUME NEW n \in Nat
    PROVE  /\ n % 2 \in {0, 1} /\ n \div 2 \in Nat /\ n \div 2 <= n
           /\ n % 2 = 1 => n \div 2 < n
           /\ (2 * n) % 2 = 0 /\ (2 * n + 1) % 2 = 1 /\ (2 * n + 1) \div 2 = n
<1>1. n % 2 \in {0, 1} /\ n \div 2 \in Nat /\ n \div 2 <= n /\ (n % 2 = 1 => n \div 2 < n)
  BY SMT
<1>2. (2 * n) % 2 = 0 /\ (2 * n + 1) % 2 = 1
  BY SMT
<1>3. (2 * n + 1) \div 2 = n
  BY SMT
<1> QED
  BY <1>1, <1>2, <1>3

\* The recursion of TrailingOnes has a solution.
LEMMA CountExists ==
    ASSUME NEW bits \in Nat
    PROVE  \E g \in [0..bits -> Nat] : CountOf(g, bits)
<1> DEFINE Upto(k) == \E g \in [0..k -> Nat] : \A n \in 0..k :
                          g[n] = IF n % 2 = 1 THEN 1 + g[n \div 2] ELSE 0
           T == {k \in Nat : ~Upto(k)}
<1>1. T = {}
  <2> SUFFICES ASSUME T # {} PROVE FALSE
    OBVIOUS
  <2> HIDE DEF Upto
  <2>1. T \in SUBSET Nat
    OBVIOUS
  <2> HIDE DEF T
  <2>2. PICK k \in T : \A j \in T : k <= j
    BY <2>1, LeastNumber
  <2> USE DEF T
  <2>3. k \in Nat /\ ~Upto(k)
    BY <2>2
  <2> USE DEF Upto
  <2>4. k # 0
    <3>1. Upto(0)
      <4>1. [n \in 0..0 |-> 0] \in [0..0 -> Nat]
        OBVIOUS
      <4>2. \A n \in 0..0 : n % 2 # 1
        BY Halves
      <4> QED
        BY <4>1, <4>2
    <3> QED
      BY <2>3, <3>1
  <2>5. k - 1 \in Nat /\ ~(k <= k - 1)
    BY <2>3, <2>4
  <2> HIDE DEF Upto
  <2>6. Upto(k - 1)
    BY <2>2, <2>5
  <2> USE DEF Upto
  <2>7. PICK g \in [0..(k - 1) -> Nat] : \A n \in 0..(k - 1) :
            g[n] = IF n % 2 = 1 THEN 1 + g[n \div 2] ELSE 0
    BY <2>6
  <2> DEFINE h == [n \in 0..k |-> IF n = k THEN (IF k % 2 = 1 THEN 1 + g[k \div 2] ELSE 0) ELSE g[n]]
  <2>8. k % 2 = 1 => k \div 2 \in 0..(k - 1) /\ g[k \div 2] \in Nat
    BY <2>3, Halves
  <2>9. h \in [0..k -> Nat]
    BY <2>3, <2>5, <2>8
  <2>10. \A n \in 0..k : h[n] = IF n % 2 = 1 THEN 1 + h[n \div 2] ELSE 0
    <3>1. ASSUME NEW n \in 0..k, n # k
          PROVE  h[n] = IF n % 2 = 1 THEN 1 + h[n \div 2] ELSE 0
      <4>1. n \in 0..(k - 1) /\ n \in Nat
        BY <2>3, <2>5, <3>1
      <4>2. n \div 2 \in 0..k /\ n \div 2 # k
        BY <2>3, <4>1, Halves
      <4>3. h[n] = g[n] /\ h[n \div 2] = g[n \div 2]
        BY <3>1, <4>2
      <4> HIDE DEF h
      <4> QED
        BY <2>7, <4>1, <4>3
    <3>2. h[k] = IF k % 2 = 1 THEN 1 + h[k \div 2] ELSE 0
      <4>1. k % 2 = 1 => k \div 2 \in 0..k /\ k \div 2 # k
        BY <2>3, Halves
      <4> QED
        BY <2>3, <4>1
    <3> QED
      BY <3>1, <3>2
  <2> HIDE DEF h
  <2> QED
    BY <2>3, <2>9, <2>10
<1>2. Upto(bits)
  <2> HIDE DEF Upto
  <2> QED
    BY <1>1
<1>3. PICK g \in [0..bits -> Nat] : \A n \in 0..bits :
          g[n] = IF n % 2 = 1 THEN 1 + g[n \div 2] ELSE 0
  BY <1>2
<1>4. g = [n \in 0..bits |-> IF n % 2 = 1 THEN 1 + g[n \div 2] ELSE 0]
  BY <1>3
<1> QED
  BY <1>4 DEF CountOf

\* The recursive functions that Field and TrailingOnes read.
LEMMA FieldValue ==
    ASSUME NEW d, bitmap[Sign!Month(d)] \in [0..(MonthLength - 1) -> {0, 1}]
    PROVE  \E g \in [0..MonthLength -> Nat] :
              /\ \A n \in 0..MonthLength :
                     g[n] = IF n = 0 THEN 0 ELSE 2 * g[n - 1] + bitmap[Sign!Month(d)][n - 1]
              /\ Sign!Field(d) = g[Sign!FieldWidth(d)]
<1> DEFINE b == bitmap[Sign!Month(d)]
           value == CHOOSE g : FieldOf(g, b)
<1>1. PICK f \in [0..MonthLength -> Nat] : FieldOf(f, b)
  BY FieldExists
<1>2. FieldOf(value, b)
  BY <1>1
<1>3. value \in [0..MonthLength -> Nat]
  <2>1. \A g : FieldOf(g, b) => g = f
    <3>1. SUFFICES ASSUME NEW g, FieldOf(g, b) PROVE g = f
      OBVIOUS
    <3> DEFINE T == {n \in 0..MonthLength : g[n] # f[n]}
    <3>2. T = {}
      <4> SUFFICES ASSUME T # {} PROVE FALSE
        OBVIOUS
      <4>1. T \in SUBSET Nat
        BY SignConstants
      <4> HIDE DEF T
      <4>2. PICK k \in T : \A j \in T : k <= j
        BY <4>1, LeastNumber
      <4> USE DEF T
      <4>3. k \in 0..MonthLength /\ g[k] # f[k]
        BY <4>2
      <4>4. g[k] = (IF k = 0 THEN 0 ELSE 2 * g[k - 1] + b[k - 1])
            /\ f[k] = (IF k = 0 THEN 0 ELSE 2 * f[k - 1] + b[k - 1])
        BY <1>1, <3>1, <4>3 DEF FieldOf
      <4>5. k # 0 => g[k - 1] = f[k - 1]
        <5>1. k # 0 => k - 1 \in 0..MonthLength /\ ~(k <= k - 1)
          BY <4>3, SignConstants
        <5> QED
          BY <4>2, <5>1
      <4> QED
        BY <4>3, <4>4, <4>5
    <3>3. DOMAIN g = 0..MonthLength /\ g = [n \in 0..MonthLength |-> g[n]]
      BY <3>1 DEF FieldOf
    <3> QED
      BY <3>2, <3>3
  <2> QED
    BY <1>2, <2>1
<1>4. Sign!Field(d) = value[Sign!FieldWidth(d)]
  BY DEF Sign!Field, FieldOf
<1>5. \A n \in 0..MonthLength : value[n] = IF n = 0 THEN 0 ELSE 2 * value[n - 1] + b[n - 1]
  BY <1>2 DEF FieldOf
<1> HIDE DEF value
<1> QED
  BY <1>3, <1>4, <1>5

\* TrailingOnes is the value of such a function.
LEMMA CountValue ==
    ASSUME NEW bits \in Nat
    PROVE  \E g : /\ \A n \in 0..bits : g[n] = IF n % 2 = 1 THEN 1 + g[n \div 2] ELSE 0
                 /\ Sign!TrailingOnes(bits) = g[bits]
<1> DEFINE count == CHOOSE g : CountOf(g, bits)
<1>1. CountOf(count, bits)
  BY CountExists
<1>2. Sign!TrailingOnes(bits) = count[bits]
  BY DEF Sign!TrailingOnes, CountOf
<1>3. \A n \in 0..bits : count[n] = IF n % 2 = 1 THEN 1 + count[n \div 2] ELSE 0
  BY <1>1 DEF CountOf
<1> HIDE DEF count
<1> QED
  BY <1>2, <1>3

\* c is how many of the first w bits, from the last backwards, are one.
Trails(b, w, c) ==
    /\ c \in 0..w
    /\ \A k \in 0..(c - 1) : b[w - 1 - k] = 1
    /\ c < w => b[w - 1 - c] = 0

\* TrailingOnes of the field of a month counts the days signed up to d.
LEMMA CountTrails ==
    ASSUME NEW d, bitmap[Sign!Month(d)] \in [0..(MonthLength - 1) -> {0, 1}],
           Sign!FieldWidth(d) \in 0..MonthLength
    PROVE  Trails(bitmap[Sign!Month(d)], Sign!FieldWidth(d), Sign!TrailingOnes(Sign!Field(d)))
<1> DEFINE b == bitmap[Sign!Month(d)]
           bits == Sign!Field(d)
<1>1. PICK value \in [0..MonthLength -> Nat] :
          /\ \A n \in 0..MonthLength : value[n] = IF n = 0 THEN 0 ELSE 2 * value[n - 1] + b[n - 1]
          /\ bits = value[Sign!FieldWidth(d)]
  BY FieldValue
<1>2. bits \in Nat
  BY <1>1
<1>3. PICK count : /\ \A n \in 0..bits : count[n] = IF n % 2 = 1 THEN 1 + count[n \div 2] ELSE 0
                   /\ Sign!TrailingOnes(bits) = count[bits]
  BY <1>2, CountValue
<1> HIDE DEF bits
<1> DEFINE T == {w \in 0..MonthLength : value[w] <= bits /\ ~Trails(b, w, count[value[w]])}
<1>4. T = {}
  <2> SUFFICES ASSUME T # {} PROVE FALSE
    OBVIOUS
  <2>1. T \in SUBSET Nat
    BY SignConstants
  <2> HIDE DEF T
  <2>2. PICK w \in T : \A j \in T : w <= j
    BY <2>1, LeastNumber
  <2> USE DEF T
  <2>3. w \in 0..MonthLength /\ value[w] <= bits /\ ~Trails(b, w, count[value[w]]) /\ value[w] \in 0..bits
    BY <1>1, <1>2, <2>2
  <2>4. count[value[w]] = IF value[w] % 2 = 1 THEN 1 + count[value[w] \div 2] ELSE 0
    BY <1>3, <2>3
  <2>5. w # 0
    <3>1. SUFFICES ASSUME w = 0 PROVE FALSE
      OBVIOUS
    <3>2. value[0] = 0 /\ 0 % 2 = 0
      BY <1>1, <2>3, <3>1, SMT
    <3>3. count[value[0]] = 0
      BY <2>4, <3>1, <3>2
    <3> QED
      BY <2>3, <3>1, <3>3 DEF Trails
  <2>6. /\ w - 1 \in 0..MonthLength /\ ~(w <= w - 1) /\ value[w - 1] \in Nat
        /\ b[w - 1] \in {0, 1} /\ value[w] = 2 * value[w - 1] + b[w - 1]
    BY <1>1, <2>3, <2>5, SignConstants
  <2>7. value[w - 1] <= value[w] /\ value[w - 1] <= bits
    BY <1>2, <2>3, <2>6
  <2>8. Trails(b, w - 1, count[value[w - 1]])
    BY <2>2, <2>6, <2>7
  <2>9. CASE b[w - 1] = 0
    <3>1. value[w] = 2 * value[w - 1]
      BY <2>6, <2>9
    <3>2. value[w] % 2 = 0
      BY <2>6, <3>1, Halves
    <3>3. count[value[w]] = 0
      BY <2>4, <3>2
    <3>4. Trails(b, w, 0)
      BY <2>3, <2>5, <2>9 DEF Trails
    <3> QED
      BY <2>3, <3>3, <3>4
  <2>10. CASE b[w - 1] = 1
    <3>1. value[w] = 2 * value[w - 1] + 1
      BY <2>6, <2>10
    <3>2. value[w] % 2 = 1 /\ value[w] \div 2 = value[w - 1]
      BY <2>6, <3>1, Halves
    <3>3. count[value[w]] = 1 + count[value[w - 1]]
      BY <2>4, <3>2
    <3>0. PICK ones : ones = count[value[w - 1]]
      OBVIOUS
    <3>4. Trails(b, w - 1, ones) /\ ones \in 0..(w - 1)
      BY <2>8, <3>0 DEF Trails
    <3>5. PICK more : more = 1 + ones
      OBVIOUS
    <3>6. Trails(b, w, more)
      <4>1. more \in 0..w
        BY <2>3, <2>5, <3>4, <3>5
      <4>2. ASSUME NEW k \in 0..(more - 1) PROVE b[w - 1 - k] = 1
        <5>1. CASE k = 0
          BY <2>3, <2>10, <5>1
        <5>2. CASE k # 0
          <6>1. k - 1 \in 0..(ones - 1) /\ (w - 1) - 1 - (k - 1) = w - 1 - k
            BY <2>3, <3>4, <3>5, <5>2
          <6> QED
            BY <3>4, <6>1 DEF Trails
        <5> QED
          BY <5>1, <5>2
      <4>3. more < w => b[w - 1 - more] = 0
        <5>1. (w - 1) - 1 - ones = w - 1 - more /\ (more < w => ones < w - 1)
          BY <2>3, <3>4, <3>5
        <5> QED
          BY <3>4, <5>1 DEF Trails
      <4> QED
        BY <4>1, <4>2, <4>3 DEF Trails
    <3> QED
      BY <2>3, <3>0, <3>3, <3>5, <3>6
  <2> QED
    BY <2>6, <2>9, <2>10
<1>5. Sign!FieldWidth(d) \in 0..MonthLength /\ value[Sign!FieldWidth(d)] <= bits
  BY <1>1, <1>2
<1>6. Trails(b, Sign!FieldWidth(d), count[value[Sign!FieldWidth(d)]])
  BY <1>4, <1>5
<1> QED
  BY <1>1, <1>3, <1>6 DEF bits

\* A quotient and a rest below the divisor are those of the division.
LEMMA Division ==
    ASSUME NEW a \in Nat, NEW d \in Nat \ {0}, NEW q \in Nat, NEW r \in 0..(d - 1), a = d * q + r
    PROVE  a \div d = q /\ a % d = r
BY SMT

\* Quotient and remainder.
LEMMA Divided ==
    ASSUME NEW a \in Int, NEW d \in Int, d > 0, a >= 0
    PROVE  /\ a = d * (a \div d) + (a % d)
           /\ a \div d \in Nat /\ a % d \in 0..(d - 1)
<1>1. a = d * (a \div d) + (a % d)
  BY SMT
<1>2. a \div d \in Int /\ a \div d >= 0
  BY SMT
<1>3. a % d \in 0..(d - 1)
  BY SMT
<1> QED
  BY <1>1, <1>2, <1>3

\* Where the bit of a day is, and the days before it in its month.
LEMMA DayPlace ==
    ASSUME NEW d \in Sign!Days
    PROVE  /\ d - 1 = MonthLength * Sign!Month(d) + Sign!Offset(d)
           /\ Sign!Month(d) \in 0..(Months - 1) /\ Sign!Offset(d) \in 0..(MonthLength - 1)
           /\ Sign!FieldWidth(d) = Sign!Offset(d) + 1 /\ Sign!DayOfMonth(d) = Sign!Offset(d) + 1
           /\ Sign!FieldWidth(d) \in 0..MonthLength
<1>1. Months * MonthLength \in Nat /\ d \in 1..(Months * MonthLength)
  BY SignConstants DEF Sign!Days
<1>2. d - 1 \in Int /\ d - 1 >= 0 /\ d - 1 < Months * MonthLength
  BY <1>1
<1>3. /\ d - 1 = MonthLength * ((d - 1) \div MonthLength) + ((d - 1) % MonthLength)
      /\ (d - 1) \div MonthLength \in Nat /\ (d - 1) % MonthLength \in 0..(MonthLength - 1)
  BY <1>2, SignConstants, Divided
<1>4. Sign!Month(d) = (d - 1) \div MonthLength
  BY DEF Sign!Month
<1>5. /\ Sign!Offset(d) = (d - 1) % MonthLength /\ Sign!DayOfMonth(d) = ((d - 1) % MonthLength) + 1
      /\ Sign!FieldWidth(d) = ((d - 1) % MonthLength) + 1
  BY <1>3 DEF Sign!Offset, Sign!DayOfMonth, Sign!FieldWidth
<1> DEFINE m == Sign!Month(d)
           o == Sign!Offset(d)
<1>6. d - 1 = MonthLength * m + o /\ m \in Nat /\ o \in 0..(MonthLength - 1)
  BY <1>3, <1>4, <1>5
<1>7. m < Months
  <2>1. SUFFICES ASSUME Months <= m PROVE FALSE
    BY <1>6, SignConstants
  <2> HIDE DEF m, o
  <2>2. Months * MonthLength <= m * MonthLength
    <3>1. CASE Months = m
      BY <3>1, <1>6, SignConstants
    <3>2. CASE Months < m
      <4>1. Months * MonthLength + MonthLength <= m * MonthLength
        BY <3>2, <1>6, SignConstants, OneMore
      <4> QED
        BY <4>1, <1>1, <1>6, SignConstants
    <3> QED
      BY <2>1, <3>1, <3>2, <1>6, SignConstants
  <2>3. m * MonthLength = MonthLength * m /\ MonthLength * m \in Nat
    BY <1>6, SignConstants
  <2> QED
    BY <1>1, <1>2, <1>6, <2>2, <2>3
<1> QED
  BY <1>5, <1>6, <1>7, SignConstants

\* The days before d in its month have the offsets before it.
LEMMA DayBefore ==
    ASSUME NEW d \in Sign!Days, NEW k \in 0..Sign!Offset(d)
    PROVE  d - k \in Sign!Days /\ Sign!Month(d - k) = Sign!Month(d) /\ Sign!Offset(d - k) = Sign!Offset(d) - k
<1> DEFINE m == Sign!Month(d)
           o == Sign!Offset(d)
           p == MonthLength * m
<1>1. /\ d - 1 = p + o /\ m \in Nat /\ o \in 0..(MonthLength - 1) /\ p \in Nat /\ k \in Nat
      /\ d \in 1..(Months * MonthLength) /\ Months * MonthLength \in Nat
  BY DayPlace, SignConstants DEF Sign!Days
<1>2. o - k \in 0..(MonthLength - 1) /\ (d - k) - 1 \in Nat
  <2> HIDE DEF o, m, p
  <2>1. k \in 0..o
    BY DEF o
  <2> QED
    BY <1>1, <2>1, SignConstants
<1>3. (d - k) - 1 = MonthLength * m + (o - k)
  <2> HIDE DEF o, m
  <2> QED
    BY <1>1, <1>2
<1>4. ((d - k) - 1) \div MonthLength = m /\ ((d - k) - 1) % MonthLength = o - k
  <2> HIDE DEF o, m
  <2> QED
    BY <1>1, <1>2, <1>3, SignConstants, Division
<1>5. Sign!Month(d - k) = m
  BY <1>4 DEF Sign!Month
<1>6. Sign!Offset(d - k) = o - k
  <2>1. Sign!DayOfMonth(d - k) = (((d - k) - 1) % MonthLength) + 1
    BY DEF Sign!DayOfMonth
  <2>2. Sign!Offset(d - k) = Sign!DayOfMonth(d - k) - 1
    BY DEF Sign!Offset
  <2> HIDE DEF o
  <2> QED
    BY <1>1, <1>2, <1>4, <2>1, <2>2
<1>7. d - k \in Sign!Days
  <2>1. d - k \in Int /\ d - k >= 1 /\ d - k <= Months * MonthLength
    <3> HIDE DEF o, p
    <3> QED
      BY <1>1, <1>2
  <2> QED
    BY <1>1, <2>1 DEF Sign!Days
<1> QED
  BY <1>5, <1>6, <1>7

\* A day is known by its month and its offset.
LEMMA DaysApart ==
    ASSUME NEW d \in Sign!Days, NEW e \in Sign!Days,
           Sign!Month(d) = Sign!Month(e), Sign!Offset(d) = Sign!Offset(e)
    PROVE  d = e
<1>1. d - 1 = e - 1
  BY DayPlace
<1> QED
  BY <1>1, SignConstants DEF Sign!Days

-----------------------------------------------------------------------------

\* A day's bit is set when, and only when, the day was signed.
BitsSigned ==
    \A d \in Sign!Days : bitmap[Sign!Month(d)][Sign!Offset(d)] = 1 <=> d \in signed

SignInv == Sign!TypeOK /\ BitsSigned /\ Sign!StreakRight

\* No day is signed at first.
LEMMA SignInit == Sign!Init => SignInv
<1> SUFFICES ASSUME Sign!Init PROVE SignInv
  OBVIOUS
<1>1. Months * MonthLength \in Nat /\ 1 <= Months * MonthLength
  <2>1. 0 * MonthLength + MonthLength <= Months * MonthLength /\ Months * MonthLength \in Nat
    BY SignConstants, OneMore
  <2> QED
    BY <2>1, SignConstants
<1>2. Sign!TypeOK
  BY <1>1 DEF Sign!Init, Sign!TypeOK, Sign!Days
<1>3. BitsSigned
  BY DayPlace DEF Sign!Init, BitsSigned
<1>4. Sign!StreakRight
  BY DEF Sign!Init, Sign!StreakRight, Sign!NoRequest
<1> QED
  BY <1>2, <1>3, <1>4 DEF SignInv

\* A request under way has read a day.
LEMMA SignShape ==
    ASSUME Sign!TypeOK, NEW q \in Requests, signRequest[q].op \in {"sign", "count"}
    PROVE  signRequest[q].day \in Sign!Days
BY DEF Sign!TypeOK, Sign!NoRequest

\* The count is right when it is taken.
LEMMA CountRight ==
    ASSUME Sign!TypeOK, BitsSigned, NEW d \in Sign!Days
    PROVE  /\ Sign!TrailingOnes(Sign!Field(d)) \in 0..MonthLength
           /\ Sign!TrailingOnes(Sign!Field(d)) <= Sign!DayOfMonth(d)
           /\ \A k \in 0..(Sign!TrailingOnes(Sign!Field(d)) - 1) : d - k \in signed
           /\ Sign!TrailingOnes(Sign!Field(d)) < Sign!DayOfMonth(d) =>
                  d - Sign!TrailingOnes(Sign!Field(d)) \notin signed
<1> DEFINE b == bitmap[Sign!Month(d)]
           w == Sign!FieldWidth(d)
           o == Sign!Offset(d)
<1>1. b \in [0..(MonthLength - 1) -> {0, 1}]
  BY DayPlace DEF Sign!TypeOK
<1>2. w = o + 1 /\ o \in 0..(MonthLength - 1) /\ w \in 0..MonthLength /\ Sign!DayOfMonth(d) = w
  BY DayPlace
<1>3. PICK c : c = Sign!TrailingOnes(Sign!Field(d))
  OBVIOUS
<1>4. Trails(b, w, c)
  BY <1>1, <1>2, <1>3, CountTrails
<1>5. c \in 0..w
  BY <1>4 DEF Trails
<1>6. \A k \in 0..o : b[o - k] = 1 <=> d - k \in signed
  BY DayBefore DEF BitsSigned
<1> HIDE DEF b, w, o
<1>7. ASSUME NEW k \in 0..(c - 1) PROVE d - k \in signed
  <2>1. k \in 0..o /\ o - k = w - 1 - k
    BY <1>2, <1>5, SignConstants
  <2>2. b[w - 1 - k] = 1
    BY <1>4 DEF Trails
  <2> QED
    BY <1>6, <2>1, <2>2
<1>8. ASSUME c < w PROVE d - c \notin signed
  <2>1. c \in 0..o /\ o - c = w - 1 - c
    BY <1>2, <1>5, <1>8, SignConstants
  <2>2. b[w - 1 - c] = 0
    BY <1>4, <1>8 DEF Trails
  <2> QED
    BY <1>6, <2>1, <2>2
<1>9. c \in 0..MonthLength /\ c <= w
  BY <1>2, <1>5, SignConstants
<1> QED
  BY <1>2, <1>3, <1>7, <1>8, <1>9

\* Every step of sign-in keeps the invariant.
LEMMA SignKeeps == SignInv /\ Sign!Next => SignInv'
<1> SUFFICES ASSUME SignInv, Sign!Next PROVE SignInv'
  OBVIOUS
<1>0. Sign!TypeOK /\ BitsSigned /\ Sign!StreakRight
  BY DEF SignInv
<1> DEFINE Known == {Sign!NoRequest} \cup [op : {"sign", "count"}, day : Sign!Days]
               \cup [op : {"counted"}, day : Sign!Days, count : 0..MonthLength, of : SUBSET Sign!Days]
<1>1. signRequest \in [Requests -> Known] /\ Sign!NoRequest \in Known
  BY <1>0 DEF Sign!TypeOK
\* One request changes, and its count, if it has one, is right.
<1>2. ASSUME NEW q \in Requests, signRequest' = [signRequest EXCEPT ![q] = signRequest'[q]],
             signRequest'[q] \in Known,
             signRequest'[q].op # "counted"
      PROVE  signRequest' \in [Requests -> Known] /\ Sign!StreakRight'
  <2> HIDE DEF Known
  <2>1. signRequest' \in [Requests -> Known]
    BY <1>1, <1>2
  <2>2. \A p \in Requests : p # q => signRequest'[p] = signRequest[p]
    BY <1>1, <1>2
  <2> QED
    BY <1>0, <1>2, <2>1, <2>2 DEF Sign!StreakRight, Sign!DayOfMonth
<1>3. ASSUME NEW q \in Requests, Sign!Ask(q)
      PROVE  SignInv'
  <2>1. /\ signRequest' = [signRequest EXCEPT ![q] = signRequest'[q]]
        /\ signRequest'[q] \in Known /\ signRequest'[q].op # "counted"
    BY <1>0, <1>1, <1>3 DEF Sign!Ask, Sign!TypeOK
  <2>2. signRequest' \in [Requests -> Known] /\ Sign!StreakRight'
    BY <1>2, <2>1
  <2> QED
    BY <1>0, <1>3, <2>2 DEF Sign!Ask, SignInv, Sign!TypeOK, BitsSigned, Sign!Month, Sign!Offset,
        Sign!DayOfMonth
<1>4. ASSUME NEW q \in Requests, Sign!Fails(q)
      PROVE  SignInv'
  <2>1. /\ signRequest' = [signRequest EXCEPT ![q] = signRequest'[q]]
        /\ signRequest'[q] \in Known /\ signRequest'[q].op # "counted"
    BY <1>1, <1>4 DEF Sign!Fails, Sign!NoRequest
  <2>2. signRequest' \in [Requests -> Known] /\ Sign!StreakRight'
    BY <1>2, <2>1
  <2> QED
    BY <1>0, <1>4, <2>2 DEF Sign!Fails, SignInv, Sign!TypeOK, BitsSigned, Sign!Month, Sign!Offset,
        Sign!DayOfMonth
<1>5. ASSUME NEW q \in Requests, Sign!Sign(q)
      PROVE  SignInv'
  <2>0. PICK d \in Sign!Days : d = signRequest[q].day
    BY <1>0, <1>5, SignShape DEF Sign!Sign
  <2>1. /\ signRequest' = [signRequest EXCEPT ![q] = signRequest'[q]]
        /\ signRequest'[q] \in Known /\ signRequest'[q].op # "counted"
    BY <1>1, <1>5 DEF Sign!Sign, Sign!NoRequest
  <2>2. signRequest' \in [Requests -> Known] /\ Sign!StreakRight'
    BY <1>2, <2>1
  <2>3. /\ bitmap' = [bitmap EXCEPT ![Sign!Month(d)][Sign!Offset(d)] = 1]
        /\ signed' = signed \cup {d} /\ UNCHANGED today
    BY <1>5, <2>0 DEF Sign!Sign
  <2>4. /\ bitmap \in [0..(Months - 1) -> [0..(MonthLength - 1) -> {0, 1}]]
        /\ Sign!Month(d) \in 0..(Months - 1) /\ Sign!Offset(d) \in 0..(MonthLength - 1)
    BY <1>0, DayPlace DEF Sign!TypeOK
  <2>5. bitmap' \in [0..(Months - 1) -> [0..(MonthLength - 1) -> {0, 1}]] /\ signed' \in SUBSET Sign!Days
    BY <1>0, <2>3, <2>4 DEF Sign!TypeOK
  <2>6. ASSUME NEW e \in Sign!Days
        PROVE  bitmap'[Sign!Month(e)][Sign!Offset(e)] = 1 <=> e \in signed'
    <3>1. Sign!Month(e) \in 0..(Months - 1) /\ Sign!Offset(e) \in 0..(MonthLength - 1)
      BY DayPlace
    <3>2. CASE e = d
      BY <2>3, <2>4, <3>2
    <3>3. CASE e # d
      <4>1. Sign!Month(e) # Sign!Month(d) \/ Sign!Offset(e) # Sign!Offset(d)
        BY <3>3, DaysApart
      <4>2. bitmap'[Sign!Month(e)][Sign!Offset(e)] = bitmap[Sign!Month(e)][Sign!Offset(e)]
        BY <2>3, <2>4, <3>1, <4>1
      <4> QED
        BY <1>0, <2>3, <3>3, <4>2 DEF BitsSigned
    <3> QED
      BY <3>2, <3>3
  <2>7. BitsSigned'
    BY <2>6 DEF BitsSigned, Sign!Month, Sign!Offset, Sign!DayOfMonth
  <2> QED
    BY <1>0, <2>2, <2>3, <2>5, <2>7 DEF SignInv, Sign!TypeOK
<1>6. ASSUME NEW q \in Requests, Sign!SignCount(q)
      PROVE  SignInv'
  <2>0. PICK d, c : d \in Sign!Days /\ d = signRequest[q].day /\ c = Sign!TrailingOnes(Sign!Field(d))
    BY <1>0, <1>6, SignShape DEF Sign!SignCount
  <2>1. signRequest' = [signRequest EXCEPT ![q] = [op |-> "counted", day |-> d, count |-> c, of |-> signed]]
    BY <1>6, <2>0 DEF Sign!SignCount
  <2>2. /\ c \in 0..MonthLength /\ c <= Sign!DayOfMonth(d)
        /\ \A k \in 0..(c - 1) : d - k \in signed
        /\ c < Sign!DayOfMonth(d) => d - c \notin signed
    BY <1>0, <2>0, CountRight
  <2>3. /\ signRequest'[q] = [op |-> "counted", day |-> d, count |-> c, of |-> signed]
        /\ \A p \in Requests : p # q => signRequest'[p] = signRequest[p]
    BY <1>1, <2>1
  <2>4. Sign!StreakRight'
    <3>1. ASSUME NEW p \in Requests, signRequest'[p].op = "counted", p # q
          PROVE  LET day == signRequest'[p].day
                     n == signRequest'[p].count
                 IN  /\ n <= Sign!DayOfMonth(day)
                     /\ \A k \in 0..(n - 1) : day - k \in signRequest'[p].of
                     /\ n < Sign!DayOfMonth(day) => day - n \notin signRequest'[p].of
      BY <1>0, <2>3, <3>1 DEF Sign!StreakRight
    <3>2. LET day == signRequest'[q].day
              n == signRequest'[q].count
          IN  /\ n <= Sign!DayOfMonth(day)
              /\ \A k \in 0..(n - 1) : day - k \in signRequest'[q].of
              /\ n < Sign!DayOfMonth(day) => day - n \notin signRequest'[q].of
      BY <2>2, <2>3
    <3> QED
      BY <3>1, <3>2 DEF Sign!StreakRight, Sign!DayOfMonth
  <2>5. signRequest' \in [Requests -> Known]
    <3>1. [op |-> "counted", day |-> d, count |-> c, of |-> signed] \in Known
      BY <1>0, <2>0, <2>2 DEF Sign!TypeOK
    <3> HIDE DEF Known
    <3> QED
      BY <1>1, <2>1, <3>1
  <2> QED
    BY <1>0, <1>6, <2>4, <2>5 DEF Sign!SignCount, SignInv, Sign!TypeOK, BitsSigned, Sign!Month,
        Sign!Offset, Sign!DayOfMonth
<1>7. CASE Sign!Midnight
  BY <1>0, <1>7 DEF Sign!Midnight, SignInv, Sign!TypeOK, BitsSigned, Sign!StreakRight, Sign!Month,
      Sign!Offset, Sign!DayOfMonth
<1> QED
  BY <1>3, <1>4, <1>5, <1>6, <1>7 DEF Sign!Next

\* A step that leaves sign-in alone keeps it.
LEMMA SignStutters == SignInv /\ UNCHANGED signVars => SignInv'
BY DEF signVars, SignInv, Sign!TypeOK, BitsSigned, Sign!StreakRight, Sign!Month, Sign!Offset,
    Sign!DayOfMonth

-----------------------------------------------------------------------------
(* Order ids *)

\* What the assumption of the instance says of its constants.
LEMMA IdsConstants ==
    /\ LastSecond \in Nat /\ DayLength \in Nat \ {0} /\ Span \in Nat \ {0}
    /\ Earlier \subseteq 0..Span /\ MaxLosses \in Nat
BY InstancesAssumption DEF Ids!ConstantsAssumption

\* Division keeps the order.
LEMMA DivisionMonotone ==
    ASSUME NEW a \in Nat, NEW b \in Nat, NEW d \in Nat \ {0}, a <= b
    PROVE  a \div d \in Nat /\ a \div d <= b \div d
<1>1. a \div d \in Int /\ a \div d >= 0
  BY SMT
<1>2. a \div d <= b \div d
  BY SMT
<1> QED
  BY <1>1, <1>2

\* The second and the count can be read off an id.
LEMMA IdsDiffer ==
    ASSUME NEW s \in Nat, NEW t \in Nat, NEW n \in 0..(Span - 1), NEW m \in 0..(Span - 1),
           Ids!IdOf(s, n) = Ids!IdOf(t, m)
    PROVE  s = t /\ n = m
<1> DEFINE x == s * Span
           y == t * Span
<1>1. x \in Nat /\ y \in Nat /\ x + n = y + m
  BY IdsConstants DEF Ids!IdOf
<1>2. s < t => x + Span <= y
  BY OneMore, IdsConstants
<1>3. t < s => y + Span <= x
  BY OneMore, IdsConstants
<1>4. s = t => x = y
  OBVIOUS
<1> HIDE DEF x, y
<1> QED
  BY <1>1, <1>2, <1>3, <1>4, IdsConstants

\* The second of a clock lies on a day that has a counter.
LEMMA DayInRange == \A s \in Ids!Seconds : Ids!Day(s) \in Ids!Days
BY DivisionMonotone, IdsConstants DEF Ids!Seconds, Ids!Day, Ids!Days

\* The request that counts the first id of a day has counted it, and is the
\* only one that will hand it out.
ExpiresFirst ==
    /\ \A q \in Requests : request[q].step = "expire" =>
          request[q].n = 1 /\ counter[Ids!Day(request[q].now)] >= 1
    /\ \A p, q \in Requests :
          request[p].step = "expire" /\ request[q].step = "expire"
              /\ Ids!Day(request[p].now) = Ids!Day(request[q].now) => p = q

\* The first id of the day is still to be handed out.
FirstOut(d) == \E q \in Requests : request[q].step = "expire" /\ Ids!Day(request[q].now) = d

\* An id is a count its day's counter has passed.
IssuedCounted(i) ==
    \E s \in Ids!Seconds, n \in 1..(Span - 1) :
        /\ i = Ids!IdOf(s, n)
        /\ n <= counter[Ids!Day(s)]
        /\ n = 1 => ~FirstOut(Ids!Day(s))

IdInv ==
    /\ Ids!TypeOK
    /\ losses = 0 => ExpiresFirst /\ (\A i \in issued : IssuedCounted(i)) /\ repeated = {}

\* No id was issued at first.
LEMMA IdInit == Ids!Init => IdInv
<1> SUFFICES ASSUME Ids!Init PROVE IdInv
  OBVIOUS
<1>1. Ids!TypeOK
  BY IdsConstants DEF Ids!Init, Ids!TypeOK, Ids!Seconds, Ids!Counts
<1>2. ExpiresFirst
  BY DEF Ids!Init, ExpiresFirst, Ids!NewRequest
<1>3. issued = {} /\ repeated = {}
  BY DEF Ids!Init
<1> QED
  BY <1>1, <1>2, <1>3 DEF IdInv

\* What a request for an id has read.
LEMMA RequestShape ==
    ASSUME Ids!TypeOK, NEW q \in Requests
    PROVE  /\ request[q].step = "count" =>
                  request[q].now \in Ids!Seconds /\ Ids!KeyDay(q) \in Ids!Days
           /\ request[q].step = "expire" =>
                  request[q].now \in Ids!Seconds /\ request[q].n \in Ids!Counts
<1>1. request[q] \in {Ids!NewRequest} \cup [step : {"count"}, now : Ids!Seconds, at : Replicas]
                         \cup [step : {"expire"}, now : Ids!Seconds, n : Ids!Counts]
                         \cup [step : {"done"}]
  BY DEF Ids!TypeOK
<1> QED
  BY <1>1, DayInRange DEF Ids!NewRequest, Ids!KeyDay

\* Handing out an id that was counted, and was not handed out.
LEMMA IssueTypes ==
    ASSUME Ids!TypeOK, NEW q \in Requests, NEW s \in Ids!Seconds, NEW n \in Ids!Counts,
           Ids!Issue(q, s, n)
    PROVE  /\ issued' \in SUBSET Nat /\ repeated' \subseteq issued'
           /\ request' = [request EXCEPT ![q] = [step |-> "done"]]
<1>1. Ids!IdOf(s, n) \in Nat
  BY IdsConstants DEF Ids!IdOf, Ids!Seconds, Ids!Counts
<1> QED
  BY <1>1 DEF Ids!TypeOK, Ids!Issue, Ids!Done

\* Types.
LEMMA IdTypes ==
    ASSUME Ids!TypeOK, Ids!Next
    PROVE  Ids!TypeOK'
<1> USE DEF Ids!TypeOK
<1> DEFINE Known == {Ids!NewRequest} \cup [step : {"count"}, now : Ids!Seconds, at : Replicas]
                         \cup [step : {"expire"}, now : Ids!Seconds, n : Ids!Counts]
                         \cup [step : {"done"}]
<1>0. [step |-> "done"] \in Known /\ request \in [Requests -> Known]
  OBVIOUS
<1>1. ASSUME NEW q \in Requests, NEW r \in Replicas, Ids!ReadClock(q, r)
      PROVE  Ids!TypeOK'
  <2>1. [step |-> "count", now |-> clock[r], at |-> r] \in Known
    OBVIOUS
  <2> HIDE DEF Known
  <2>2. request' \in [Requests -> Known]
    BY <1>0, <1>1, <2>1 DEF Ids!ReadClock
  <2> QED
    BY <1>1, <2>2 DEF Ids!ReadClock, Known
<1>2. ASSUME NEW q \in Requests, Ids!Count(q)
      PROVE  Ids!TypeOK'
  <2> DEFINE s == request[q].now
             d == Ids!KeyDay(q)
             n == counter[d] + 1
  <2>1. s \in Ids!Seconds /\ d \in Ids!Days /\ n \in Ids!Counts
    BY <1>2, RequestShape DEF Ids!Count
  <2>2. counter' \in [Ids!Days -> Ids!Counts]
    BY <1>2, <2>1 DEF Ids!Count
  <2>3. [step |-> "expire", now |-> s, n |-> n] \in Known
    BY <2>1
  <2>4. /\ issued' \in SUBSET Nat /\ repeated' \subseteq issued'
        /\ \/ request' = [request EXCEPT ![q] = [step |-> "expire", now |-> s, n |-> n]]
           \/ request' = [request EXCEPT ![q] = [step |-> "done"]]
    BY <1>2, <2>1, IssueTypes DEF Ids!Count
  <2> HIDE DEF Known, s, d, n
  <2>5. request' \in [Requests -> Known]
    BY <1>0, <2>3, <2>4
  <2> QED
    BY <1>2, <2>2, <2>4, <2>5 DEF Ids!Count, Known
<1>3. ASSUME NEW q \in Requests, Ids!Expire(q)
      PROVE  Ids!TypeOK'
  <2>1. /\ issued' \in SUBSET Nat /\ repeated' \subseteq issued'
        /\ request' = [request EXCEPT ![q] = [step |-> "done"]]
    BY <1>3, RequestShape, IssueTypes DEF Ids!Expire
  <2> HIDE DEF Known
  <2>2. request' \in [Requests -> Known]
    BY <1>0, <2>1
  <2> QED
    BY <1>3, <2>1, <2>2 DEF Ids!Expire, Known
<1>4. ASSUME NEW q \in Requests, Ids!Fails(q)
      PROVE  Ids!TypeOK'
  <2>1. counter' \in [Ids!Days -> Ids!Counts]
    BY <1>4, RequestShape DEF Ids!Fails
  <2> HIDE DEF Known
  <2>2. request' \in [Requests -> Known]
    BY <1>0, <1>4 DEF Ids!Fails, Ids!Done
  <2> QED
    BY <1>4, <2>1, <2>2 DEF Ids!Fails, Known
<1>5. ASSUME NEW r \in Replicas, Ids!Tick(r)
      PROVE  Ids!TypeOK'
  BY <1>5 DEF Ids!Tick
<1>6. CASE Ids!Lose
  BY <1>6, IdsConstants DEF Ids!Lose, Ids!Counts
<1> QED
  BY <1>1, <1>2, <1>3, <1>4, <1>5, <1>6 DEF Ids!Next

\* An id is not handed out a second time while its count is not.
LEMMA NotRepeated ==
    ASSUME Ids!TypeOK, NEW s \in Ids!Seconds, NEW n \in 1..(Span - 1),
           \A i \in issued : IssuedCounted(i),
           n > counter[Ids!Day(s)] \/ (n = 1 /\ FirstOut(Ids!Day(s)))
    PROVE  Ids!IdOf(s, n) \notin issued
<1>1. SUFFICES ASSUME Ids!IdOf(s, n) \in issued PROVE FALSE
  OBVIOUS
<1>2. PICK t \in Ids!Seconds, m \in 1..(Span - 1) :
          /\ Ids!IdOf(s, n) = Ids!IdOf(t, m)
          /\ m <= counter[Ids!Day(t)]
          /\ m = 1 => ~FirstOut(Ids!Day(t))
  BY <1>1 DEF IssuedCounted
<1>3. s \in Nat /\ t \in Nat /\ n \in 0..(Span - 1) /\ m \in 0..(Span - 1)
  BY IdsConstants DEF Ids!Seconds
<1>4. s = t /\ n = m
  BY <1>2, <1>3, IdsDiffer
<1>5. counter[Ids!Day(s)] \in Nat
  BY DayInRange, IdsConstants DEF Ids!TypeOK, Ids!Counts
<1> QED
  BY <1>2, <1>4, <1>5

\* What the step of one request, that of the replicas' clocks and a counter
\* that rises leave true.
LEMMA IdKeeps == IdInv /\ Ids!Next => IdInv'
<1> SUFFICES ASSUME IdInv, Ids!Next PROVE IdInv'
  OBVIOUS
<1>0. Ids!TypeOK /\ Ids!TypeOK'
  BY IdTypes DEF IdInv
<1>1. SUFFICES ASSUME losses' = 0
               PROVE  ExpiresFirst' /\ (\A i \in issued' : IssuedCounted(i)') /\ repeated' = {}
  BY <1>0 DEF IdInv
<1>2. losses = 0 /\ ~Ids!Lose
  BY <1>0, <1>1 DEF Ids!Next, Ids!TypeOK, Ids!ReadClock, Ids!Count, Ids!Expire, Ids!Fails,
      Ids!Tick, Ids!Lose
<1>3. ExpiresFirst /\ (\A i \in issued : IssuedCounted(i)) /\ repeated = {}
  BY <1>2 DEF IdInv
<1>4. counter \in [Ids!Days -> Nat] /\ (\A s \in Ids!Seconds : Ids!Day(s) \in Ids!Days)
  BY <1>0, DayInRange, IdsConstants DEF Ids!TypeOK, Ids!Counts
\* Ids handed out stay counted while counters rise and no request comes to
\* hand out the first of a day that has one.
<1>5. ASSUME NEW i \in issued, \A d \in Ids!Days : counter'[d] >= counter[d] /\ counter'[d] \in Nat,
             \A d \in Ids!Days : FirstOut(d)' => FirstOut(d) \/ counter[d] = 0
      PROVE  IssuedCounted(i)'
  <2>1. PICK s \in Ids!Seconds, n \in 1..(Span - 1) :
            /\ i = Ids!IdOf(s, n)
            /\ n <= counter[Ids!Day(s)]
            /\ n = 1 => ~FirstOut(Ids!Day(s))
    BY <1>3 DEF IssuedCounted
  <2>2. n <= counter'[Ids!Day(s)] /\ (n = 1 => ~FirstOut(Ids!Day(s))')
    BY <2>1, <1>4, <1>5
  <2> QED
    BY <2>1, <2>2 DEF IssuedCounted, Ids!IdOf, Ids!Day
<1>6. ASSUME NEW q \in Requests, NEW r \in Replicas, Ids!ReadClock(q, r)
      PROVE  ExpiresFirst' /\ (\A i \in issued' : IssuedCounted(i)') /\ repeated' = {}
  <2>1. /\ UNCHANGED <<counter, issued, repeated>>
        /\ \A p \in Requests : request'[p].step = "expire" =>
              request[p].step = "expire" /\ request'[p] = request[p]
    BY <1>0, <1>6 DEF Ids!ReadClock, Ids!TypeOK
  <2>2. ExpiresFirst'
    BY <1>3, <2>1 DEF ExpiresFirst, Ids!Day
  <2>3. \A d \in Ids!Days : FirstOut(d)' => FirstOut(d)
    BY <2>1 DEF FirstOut, Ids!Day
  <2> QED
    BY <1>3, <1>4, <1>5, <2>1, <2>2, <2>3
<1>7. ASSUME NEW q \in Requests, Ids!Count(q)
      PROVE  ExpiresFirst' /\ (\A i \in issued' : IssuedCounted(i)') /\ repeated' = {}
  <2>0. PICK s \in Ids!Seconds, n \in Nat \ {0} :
            s = request[q].now /\ n = counter[Ids!Day(s)] + 1
    BY <1>0, <1>4, <1>7, RequestShape DEF Ids!Count
  <2> DEFINE d == Ids!Day(s)
  <2>1. /\ s \in Ids!Seconds /\ d \in Ids!Days /\ n \in Ids!Counts /\ n \in Nat \ {0}
        /\ counter' = [counter EXCEPT ![d] = n] /\ request[q].step = "count"
    BY <1>0, <1>4, <1>7, <2>0, RequestShape DEF Ids!Count, Ids!KeyDay
  <2>2. \A e \in Ids!Days : counter'[e] >= counter[e] /\ counter'[e] \in Nat
    BY <1>4, <2>0, <2>1
  <2>3. CASE n = 1
    <3>1. /\ request' = [request EXCEPT ![q] = [step |-> "expire", now |-> s, n |-> 1]]
          /\ UNCHANGED <<issued, repeated>>
      BY <1>7, <2>0, <2>3 DEF Ids!Count, Ids!KeyDay
    <3>2. counter[d] = 0 /\ counter'[d] = 1
      BY <2>0, <2>1, <2>3, <1>4
    <3>3. /\ request'[q] = [step |-> "expire", now |-> s, n |-> 1]
          /\ \A p \in Requests : p # q => request'[p] = request[p]
      BY <1>0, <3>1 DEF Ids!TypeOK
    <3>4. \A p \in Requests : request[p].step = "expire" => Ids!Day(request[p].now) # d
      BY <1>3, <1>4, <2>1, <3>2 DEF ExpiresFirst
    <3>5. \A p \in Requests : request[p].step = "expire" => request[p].now \in Ids!Seconds
      BY <1>0, RequestShape
    <3>6. ExpiresFirst'
      <4>1. \A p \in Requests : request'[p].step = "expire" =>
                request'[p].n = 1 /\ counter'[Ids!Day(request'[p].now)] >= 1
        <5>1. ASSUME NEW p \in Requests, p # q, request'[p].step = "expire"
              PROVE  request'[p].n = 1 /\ counter'[Ids!Day(request'[p].now)] >= 1
          <6>1. /\ request[p].n = 1 /\ counter[Ids!Day(request[p].now)] >= 1
                /\ request[p] = request'[p] /\ Ids!Day(request[p].now) \in Ids!Days
            BY <5>1, <1>3, <1>4, <3>3, <3>5 DEF ExpiresFirst
          <6> QED
            BY <6>1, <2>2, <1>4
        <5>2. request'[q].n = 1 /\ counter'[Ids!Day(request'[q].now)] >= 1
          BY <3>2, <3>3
        <5> QED
          BY <5>1, <5>2
      <4>2. \A p1, p2 \in Requests :
                request'[p1].step = "expire" /\ request'[p2].step = "expire"
                  /\ Ids!Day(request'[p1].now) = Ids!Day(request'[p2].now) => p1 = p2
        BY <1>3, <3>3, <3>4 DEF ExpiresFirst
      <4> QED
        BY <4>1, <4>2 DEF ExpiresFirst, Ids!Day
    <3>7. \A e \in Ids!Days : FirstOut(e)' => FirstOut(e) \/ counter[e] = 0
      BY <3>2, <3>3 DEF FirstOut, Ids!Day
    <3> QED
      BY <1>3, <1>5, <2>2, <3>1, <3>6, <3>7
  <2>4. CASE n # 1
    <3>1. Ids!Issue(q, s, n)
      BY <1>7, <2>0, <2>4 DEF Ids!Count, Ids!KeyDay
    <3>2. /\ request'[q] = [step |-> "done"]
          /\ \A p \in Requests : p # q => request'[p] = request[p]
      BY <1>0, <3>1 DEF Ids!TypeOK, Ids!Issue, Ids!Done
    <3>3. \A p \in Requests : request'[p].step = "expire" =>
              p # q /\ request[p].step = "expire" /\ request'[p] = request[p]
      BY <3>2
    <3>4. ExpiresFirst'
      <4>1. \A p \in Requests : request[p].step = "expire" => Ids!Day(request[p].now) \in Ids!Days
        BY <1>0, <1>4, RequestShape
      <4> QED
        BY <1>3, <1>4, <2>2, <3>3, <4>1 DEF ExpiresFirst, Ids!Day
    <3>5. \A e \in Ids!Days : FirstOut(e)' => FirstOut(e)
      BY <3>3 DEF FirstOut, Ids!Day
    <3>6. \A i \in issued : IssuedCounted(i)'
      BY <1>5, <2>2, <3>5
    <3>7. CASE Ids!Fits(n)
      <4>1. n \in 1..(Span - 1) /\ n > counter[d]
        BY <2>0, <2>1, <1>4, <3>7, IdsConstants DEF Ids!Fits
      <4>2. Ids!IdOf(s, n) \notin issued
        BY <1>0, <1>3, <2>1, <4>1, NotRepeated
      <4>3. issued' = issued \cup {Ids!IdOf(s, n)} /\ repeated' = {}
        BY <1>3, <3>1, <3>7, <4>2 DEF Ids!Issue
      <4>4. IssuedCounted(Ids!IdOf(s, n))'
        <5>1. s \in Ids!Seconds /\ n <= counter'[Ids!Day(s)] /\ n # 1
          BY <1>4, <2>1, <2>4
        <5> QED
          BY <5>1, <4>1 DEF IssuedCounted, Ids!IdOf, Ids!Day
      <4> QED
        BY <3>4, <3>6, <4>3, <4>4
    <3>8. CASE ~Ids!Fits(n)
      BY <1>3, <3>1, <3>4, <3>6, <3>8 DEF Ids!Issue
    <3> QED
      BY <3>7, <3>8
  <2> QED
    BY <2>3, <2>4
<1>8. ASSUME NEW q \in Requests, Ids!Expire(q)
      PROVE  ExpiresFirst' /\ (\A i \in issued' : IssuedCounted(i)') /\ repeated' = {}
  <2>0. PICK s \in Ids!Seconds : s = request[q].now
    BY <1>0, <1>8, RequestShape DEF Ids!Expire
  <2> DEFINE d == Ids!Day(s)
  <2>1. /\ s \in Ids!Seconds /\ d \in Ids!Days /\ counter' = counter
        /\ request[q].step = "expire" /\ request[q].n = 1 /\ counter[d] >= 1
        /\ Ids!Issue(q, s, 1)
    BY <1>0, <1>3, <1>4, <1>8, <2>0, RequestShape DEF Ids!Expire, ExpiresFirst
  <2>2. /\ request'[q] = [step |-> "done"]
        /\ \A p \in Requests : p # q => request'[p] = request[p]
    BY <1>0, <2>1 DEF Ids!TypeOK, Ids!Issue, Ids!Done
  <2>3. \A p \in Requests : request'[p].step = "expire" =>
            p # q /\ request[p].step = "expire" /\ request'[p] = request[p]
    BY <2>2
  <2>4. ExpiresFirst'
    BY <1>3, <2>1, <2>3 DEF ExpiresFirst, Ids!Day
  <2>5. \A e \in Ids!Days : FirstOut(e)' => FirstOut(e)
    BY <2>3 DEF FirstOut, Ids!Day
  <2>6. \A i \in issued : IssuedCounted(i)'
    BY <1>4, <1>5, <2>1, <2>5
  <2>7. CASE Ids!Fits(1)
    <3>1. 1 \in 1..(Span - 1) /\ FirstOut(d)
      BY <2>0, <2>1, <2>7, IdsConstants DEF Ids!Fits, FirstOut
    <3>2. Ids!IdOf(s, 1) \notin issued
      BY <1>0, <1>3, <2>1, <3>1, NotRepeated
    <3>3. issued' = issued \cup {Ids!IdOf(s, 1)} /\ repeated' = {}
      BY <1>3, <2>1, <2>7, <3>2 DEF Ids!Issue
    <3>4. ~FirstOut(d)'
      BY <1>3, <2>0, <2>1, <2>3 DEF FirstOut, ExpiresFirst, Ids!Day
    <3>5. IssuedCounted(Ids!IdOf(s, 1))'
      <4>1. s \in Ids!Seconds /\ 1 <= counter'[Ids!Day(s)] /\ ~FirstOut(Ids!Day(s))'
        BY <1>4, <2>1, <3>4
      <4> QED
        BY <4>1, <3>1 DEF IssuedCounted, Ids!IdOf, Ids!Day
    <3> QED
      BY <2>4, <2>6, <3>3, <3>5
  <2>8. CASE ~Ids!Fits(1)
    BY <1>3, <2>1, <2>4, <2>6, <2>8 DEF Ids!Issue
  <2> QED
    BY <2>7, <2>8
<1>9. ASSUME NEW q \in Requests, Ids!Fails(q)
      PROVE  ExpiresFirst' /\ (\A i \in issued' : IssuedCounted(i)') /\ repeated' = {}
  <2>1. \A e \in Ids!Days : counter'[e] >= counter[e] /\ counter'[e] \in Nat
    BY <1>0, <1>4, <1>9, RequestShape DEF Ids!Fails
  <2>2. /\ request'[q] = [step |-> "done"]
        /\ \A p \in Requests : p # q => request'[p] = request[p]
    BY <1>0, <1>9 DEF Ids!TypeOK, Ids!Fails, Ids!Done
  <2>3. \A p \in Requests : request'[p].step = "expire" =>
            p # q /\ request[p].step = "expire" /\ request'[p] = request[p]
    BY <2>2
  <2>4. \A p \in Requests : request[p].step = "expire" => Ids!Day(request[p].now) \in Ids!Days
    BY <1>0, <1>4, RequestShape
  <2>5. ExpiresFirst'
    BY <1>3, <1>4, <2>1, <2>3, <2>4 DEF ExpiresFirst, Ids!Day
  <2>6. \A e \in Ids!Days : FirstOut(e)' => FirstOut(e)
    BY <2>3 DEF FirstOut, Ids!Day
  <2> QED
    BY <1>3, <1>5, <1>9, <2>1, <2>5, <2>6 DEF Ids!Fails
<1>10. ASSUME NEW r \in Replicas, Ids!Tick(r)
       PROVE  ExpiresFirst' /\ (\A i \in issued' : IssuedCounted(i)') /\ repeated' = {}
  BY <1>3, <1>10 DEF Ids!Tick, ExpiresFirst, IssuedCounted, FirstOut, Ids!Day, Ids!IdOf
<1> QED
  BY <1>2, <1>6, <1>7, <1>8, <1>9, <1>10 DEF Ids!Next

\* A step that leaves the ids alone keeps their invariant.
LEMMA IdStutters == IdInv /\ UNCHANGED idVars => IdInv'
BY DEF idVars, IdInv, Ids!TypeOK, ExpiresFirst, IssuedCounted, FirstOut, Ids!Day, Ids!IdOf

-----------------------------------------------------------------------------
(* The practice server's shop cache *)

\* What the assumption of the instance says of its constants.
LEMMA PracticeConstants == MaxUpdates \in Nat /\ PracticeFaults \in Nat /\ None \notin Nat
BY InstancesAssumption DEF Practice!ConstantsAssumption

\* No request knows a row that is still to come.
BehindRow ==
    /\ floor <= practiceRow
    /\ \A q \in Readers : reader[q].step = "store" => reader[q].value <= practiceRow
    /\ \A w \in Writers : writer[w].step = "change" => writer[w].next <= practiceRow

\* A read that no loss of keys met knows a count that has not come again, and
\* while it is the count, what it read from MySQL is as the last invalidation
\* left it, or newer.
ReadsStorable ==
    \A q \in Readers \ torn :
        reader[q].step \in {"mysql", "store"} /\ reader[q].seen # None =>
            /\ reader[q].seen <= version
            /\ reader[q].step = "store" /\ reader[q].seen = version => reader[q].value >= floor

PracticeInv == Practice!TypeOK /\ BehindRow /\ ReadsStorable

\* The cache starts empty, and so does FreshCache.
LEMMA PracticeInit == Practice!Init => PracticeInv /\ Practice!Fresh!Init
<1> SUFFICES ASSUME Practice!Init PROVE PracticeInv /\ Practice!Fresh!Init
  OBVIOUS
<1> USE PracticeConstants DEF Practice!Init
<1>1. Practice!TypeOK
  BY DEF Practice!TypeOK, Practice!Versions, Practice!Counters, Practice!Reading, Practice!Writing
<1>2. BehindRow /\ ReadsStorable
  BY DEF BehindRow, ReadsStorable, Practice!NoRead, Practice!NoWrite
<1>3. Practice!Fresh!Init
  <2>1. (torn # {}) = FALSE
    OBVIOUS
  <2> QED
    BY <2>1 DEF Practice!Fresh!Init
<1> QED
  BY <1>1, <1>2, <1>3 DEF PracticeInv

\* What a request knows at each of its steps.
LEMMA ReadShape ==
    ASSUME Practice!TypeOK, NEW q \in Readers
    PROVE  /\ reader[q].step \in {"mysql", "store"} => reader[q].seen \in Practice!Counters \cup {None}
           /\ reader[q].step = "store" => reader[q].value \in Practice!Versions
<1>1. reader[q] \in Practice!Reading
  BY DEF Practice!TypeOK
<1> QED
  BY <1>1 DEF Practice!Reading, Practice!NoRead

\* The fields of an update under way.
LEMMA WriteShape ==
    ASSUME Practice!TypeOK, NEW w \in Writers, writer[w].step # "idle"
    PROVE  writer[w] = [step |-> writer[w].step, next |-> writer[w].next]
           /\ writer[w].step \in {"change", "invalidate", "geo", "geoFailed"}
           /\ writer[w].next \in Practice!Versions
<1>1. writer[w] \in Practice!Writing
  BY DEF Practice!TypeOK
<1> QED
  BY <1>1 DEF Practice!Writing, Practice!NoWrite

\* Types, for a read.
LEMMA ReaderTypes ==
    ASSUME Practice!TypeOK, NEW q \in Readers,
           Practice!Look(q) \/ Practice!ReadVersion(q) \/ Practice!ReadMySQL(q) \/ Practice!Store(q)
    PROVE  Practice!TypeOK'
<1> USE DEF Practice!TypeOK
<1>1. practiceFaults' \in 0..PracticeFaults
  BY PracticeConstants
  DEF Practice!Look, Practice!ReadVersion, Practice!ReadMySQL, Practice!Store, Practice!Fault,
      Practice!Faultless
<1>2. torn' \subseteq Readers
  BY DEF Practice!Look, Practice!ReadVersion, Practice!ReadMySQL, Practice!Store
<1>3. data' \in Practice!Versions \cup {None}
  BY ReadShape DEF Practice!Look, Practice!ReadVersion, Practice!ReadMySQL, Practice!Store
<1>4. reader'[q] \in Practice!Reading /\ reader' = [reader EXCEPT ![q] = reader'[q]]
  <2>1. CASE Practice!Look(q)
    BY <2>1 DEF Practice!Look, Practice!Reading
  <2>2. CASE Practice!ReadVersion(q)
    BY <2>2 DEF Practice!ReadVersion, Practice!Reading
  <2>3. CASE Practice!ReadMySQL(q)
    BY <2>3, ReadShape DEF Practice!ReadMySQL, Practice!Reading
  <2>4. CASE Practice!Store(q)
    BY <2>4, ReadShape DEF Practice!Store, Practice!Reading
  <2> QED
    BY <2>1, <2>2, <2>3, <2>4
<1>5. reader' \in [Readers -> Practice!Reading]
  BY <1>4
<1> QED
  BY <1>1, <1>2, <1>3, <1>5
  DEF Practice!Look, Practice!ReadVersion, Practice!ReadMySQL, Practice!Store

\* Types, for an update.
LEMMA WriterTypes ==
    ASSUME Practice!TypeOK, BehindRow, NEW w \in Writers,
           Practice!Begin(w) \/ Practice!Change(w) \/ Practice!Invalidate(w) \/ Practice!SyncGeo(w)
             \/ Practice!GeoFailed(w) \/ Practice!Stop(w)
    PROVE  Practice!TypeOK'
<1> USE DEF Practice!TypeOK
<1>1. practiceFaults' \in 0..PracticeFaults
  BY PracticeConstants
  DEF Practice!Begin, Practice!Change, Practice!Invalidate, Practice!SyncGeo, Practice!GeoFailed,
      Practice!Stop, Practice!Fault, Practice!Faultless
<1>2. practiceRow' \in Practice!Versions /\ floor' \in Practice!Versions
  BY PracticeConstants
  DEF Practice!Begin, Practice!Change, Practice!Invalidate, Practice!SyncGeo, Practice!GeoFailed,
      Practice!Stop, Practice!Versions
<1>3. data' \in Practice!Versions \cup {None} /\ version' \in Practice!Counters
  BY DEF Practice!Begin, Practice!Change, Practice!Invalidate, Practice!SyncGeo, Practice!GeoFailed,
      Practice!Stop
<1>4. geo' \in Practice!Versions
  BY WriteShape
  DEF Practice!Begin, Practice!Change, Practice!Invalidate, Practice!SyncGeo, Practice!GeoFailed,
      Practice!Stop
<1>5. writer'[w] \in Practice!Writing /\ writer' = [writer EXCEPT ![w] = writer'[w]]
  <2>1. CASE Practice!Begin(w)
    BY <2>1 DEF Practice!Begin, Practice!Writing
  <2>2. CASE Practice!Change(w)
    <3>1. writer[w].next \in Practice!Versions /\ writer[w].next <= practiceRow
      BY <2>2, WriteShape DEF Practice!Change, BehindRow
    <3>2. practiceRow < MaxUpdates => writer[w].next + 1 \in Practice!Versions
      BY <3>1, PracticeConstants DEF Practice!Versions
    <3> QED
      BY <2>2, <3>2 DEF Practice!Change, Practice!Writing
  <2>3. CASE Practice!Invalidate(w)
    <3>1. writer'[w] = [step |-> "geo", next |-> writer[w].next]
      BY <2>3, WriteShape DEF Practice!Invalidate
    <3> QED
      BY <2>3, <3>1, WriteShape DEF Practice!Invalidate, Practice!Writing
  <2>4. CASE Practice!SyncGeo(w)
    <3>1. writer'[w] \in {Practice!NoWrite, [step |-> "geoFailed", next |-> writer[w].next]}
      BY <2>4, WriteShape DEF Practice!SyncGeo
    <3> QED
      BY <2>4, <3>1, WriteShape DEF Practice!SyncGeo, Practice!Writing
  <2>5. CASE Practice!GeoFailed(w) \/ Practice!Stop(w)
    BY <2>5 DEF Practice!GeoFailed, Practice!Stop, Practice!Writing
  <2> QED
    BY <2>1, <2>2, <2>3, <2>4, <2>5
<1>6. writer' \in [Writers -> Practice!Writing]
  BY <1>5
<1> QED
  BY <1>1, <1>2, <1>3, <1>4, <1>6
  DEF Practice!Begin, Practice!Change, Practice!Invalidate, Practice!SyncGeo, Practice!GeoFailed,
      Practice!Stop

\* What an idle stretch of the abstract cache leaves alone.
FreshUnchanged == UNCHANGED <<practiceRow, floor, data, torn>>

\* A step FreshCache does not see.
LEMMA Unseen == FreshUnchanged => UNCHANGED Practice!Fresh!vars
BY DEF FreshUnchanged, Practice!Fresh!vars

\* A read keeps the invariant; its store is a Fill, the rest is not seen.
LEMMA ReaderKeeps ==
    ASSUME PracticeInv, Practice!TypeOK', NEW q \in Readers,
           Practice!Look(q) \/ Practice!ReadVersion(q) \/ Practice!ReadMySQL(q) \/ Practice!Store(q)
    PROVE  PracticeInv' /\ [Practice!Fresh!Next]_(Practice!Fresh!vars)
<1>0. /\ practiceRow \in Nat /\ floor \in Nat /\ version \in Nat
      /\ reader \in [Readers -> Practice!Reading]
      /\ UNCHANGED <<practiceRow, floor, version, writer>>
  BY PracticeConstants
  DEF PracticeInv, Practice!TypeOK, Practice!Versions, Practice!Counters,
      Practice!Look, Practice!ReadVersion, Practice!ReadMySQL, Practice!Store
<1>1. CASE Practice!Look(q)
  <2>1. /\ reader' = [reader EXCEPT ![q] = reader'[q]] /\ UNCHANGED <<torn, data>>
        /\ reader'[q].step \in {"done", "version"}
    BY <1>0, <1>1 DEF Practice!Look
  <2>2. BehindRow' /\ ReadsStorable'
    BY <1>0, <2>1 DEF PracticeInv, BehindRow, ReadsStorable
  <2> QED
    BY <1>0, <2>1, <2>2, Unseen DEF PracticeInv, FreshUnchanged
<1>2. CASE Practice!ReadVersion(q)
  <2>1. /\ reader' = [reader EXCEPT ![q] = reader'[q]] /\ UNCHANGED <<torn, data>>
        /\ reader'[q].step = "mysql" /\ reader'[q].seen \in {version, None}
    BY <1>0, <1>2 DEF Practice!ReadVersion
  <2>2. BehindRow' /\ ReadsStorable'
    BY <1>0, <2>1 DEF PracticeInv, BehindRow, ReadsStorable
  <2> QED
    BY <1>0, <2>1, <2>2, Unseen DEF PracticeInv, FreshUnchanged
<1>3. CASE Practice!ReadMySQL(q)
  <2>1. /\ reader' = [reader EXCEPT ![q] = reader'[q]] /\ UNCHANGED data
        /\ \/ /\ reader'[q].step = "store" /\ reader'[q].seen = reader[q].seen
              /\ reader'[q].value = practiceRow /\ UNCHANGED torn
           \/ reader'[q].step = "idle" /\ torn' = torn \ {q}
        /\ reader[q].step = "mysql"
    BY <1>0, <1>3 DEF Practice!ReadMySQL, Practice!NoRead
  <2>2. BehindRow' /\ ReadsStorable'
    <3>1. BehindRow'
      BY <1>0, <2>1 DEF PracticeInv, BehindRow
    <3>2. ReadsStorable'
      BY <1>0, <2>1 DEF PracticeInv, BehindRow, ReadsStorable
    <3> QED
      BY <3>1, <3>2
  <2>3. [Practice!Fresh!Next]_(Practice!Fresh!vars)
    <3>1. CASE torn' = {} /\ torn # {}
      <4>1. (torn # {})' = FALSE
        BY <3>1
      <4>2. Practice!Fresh!Heal
        BY <1>0, <2>1, <4>1 DEF Practice!Fresh!Heal
      <4> QED
        BY <4>2 DEF Practice!Fresh!Next
    <3>2. CASE ~(torn' = {} /\ torn # {})
      <4>1. (torn # {})' = (torn # {})
        BY <2>1, <3>2
      <4> QED
        BY <1>0, <2>1, <4>1 DEF Practice!Fresh!vars
    <3> QED
      BY <3>1, <3>2
  <2> QED
    BY <2>2, <2>3 DEF PracticeInv
<1>4. CASE Practice!Store(q)
  <2>1. /\ reader' = [reader EXCEPT ![q] = reader'[q]] /\ torn' = torn \ {q}
        /\ reader'[q].step = "done" /\ reader[q].step = "store"
        /\ \/ UNCHANGED data
           \/ /\ data' = reader[q].value
              /\ reader[q].seen # None /\ reader[q].seen = version
    BY <1>0, <1>4 DEF Practice!Store, Practice!Storable
  <2>2. BehindRow'
    BY <1>0, <2>1 DEF PracticeInv, BehindRow
  <2>3. ReadsStorable'
    BY <1>0, <2>1 DEF PracticeInv, ReadsStorable
  <2>4. (torn # {})' \in {FALSE, torn # {}}
    <3>1. CASE torn' = {}
      BY <3>1
    <3>2. CASE torn' # {}
      <4>1. (torn # {})' = (torn # {})
        BY <2>1, <3>2
      <4> QED
        BY <4>1
    <3> QED
      BY <3>1, <3>2
  <2>5. [Practice!Fresh!Next]_(Practice!Fresh!vars)
    <3>1. CASE UNCHANGED data /\ (torn # {})' = (torn # {})
      BY <1>0, <3>1 DEF Practice!Fresh!vars
    <3>2. CASE UNCHANGED data /\ (torn # {})' = FALSE
      <4>1. Practice!Fresh!Heal
        BY <1>0, <3>2 DEF Practice!Fresh!Heal
      <4> QED
        BY <4>1 DEF Practice!Fresh!Next
    <3>3. CASE data' # data
      <4>1. data' = reader[q].value /\ reader[q].value \in 0..practiceRow
        BY <1>0, <2>1, <3>3, ReadShape DEF PracticeInv, BehindRow, Practice!Versions
      <4>2. torn = {} => data' >= floor
        BY <2>1, <3>3, <4>1 DEF PracticeInv, ReadsStorable
      <4>3. data' \in (IF torn # {} THEN 0 ELSE floor)..practiceRow
        BY <1>0, <4>1, <4>2
      <4>4. Practice!Fresh!Fill
        BY <1>0, <2>4, <4>3 DEF Practice!Fresh!Fill
      <4> QED
        BY <4>4 DEF Practice!Fresh!Next
    <3> QED
      BY <2>4, <3>1, <3>2, <3>3
  <2> QED
    BY <2>2, <2>3, <2>5 DEF PracticeInv
<1> QED
  BY <1>1, <1>2, <1>3, <1>4

\* An update keeps the invariant; it is an Update and an Invalidate.
LEMMA WriterKeeps ==
    ASSUME PracticeInv, Practice!TypeOK', NEW w \in Writers,
           Practice!Begin(w) \/ Practice!Change(w) \/ Practice!Invalidate(w) \/ Practice!SyncGeo(w)
             \/ Practice!GeoFailed(w) \/ Practice!Stop(w)
    PROVE  PracticeInv' /\ [Practice!Fresh!Next]_(Practice!Fresh!vars)
<1>0. /\ practiceRow \in Nat /\ floor \in Nat /\ version \in Nat
      /\ writer \in [Writers -> Practice!Writing]
      /\ UNCHANGED <<reader, torn>>
  BY PracticeConstants
  DEF PracticeInv, Practice!TypeOK, Practice!Versions, Practice!Counters,
      Practice!Begin, Practice!Change, Practice!Invalidate, Practice!SyncGeo, Practice!GeoFailed,
      Practice!Stop
<1>1. CASE Practice!Begin(w) \/ Practice!SyncGeo(w) \/ Practice!GeoFailed(w) \/ Practice!Stop(w)
  <2>1. /\ UNCHANGED <<practiceRow, floor, data, version>>
        /\ \A v \in Writers : writer'[v].step = "change" =>
              writer'[v] = writer[v] \/ writer'[v].next = practiceRow
    <3>1. CASE Practice!Begin(w)
      BY <1>0, <3>1 DEF Practice!Begin
    <3>2. CASE Practice!SyncGeo(w)
      <4>1. writer'[w].step # "change" /\ \A v \in Writers : v # w => writer'[v] = writer[v]
        <5>1. writer[w] = [step |-> writer[w].step, next |-> writer[w].next]
          BY <3>2, WriteShape DEF Practice!SyncGeo, PracticeInv
        <5> QED
          BY <1>0, <3>2, <5>1 DEF Practice!SyncGeo, Practice!NoWrite
      <4> QED
        BY <1>0, <3>2, <4>1 DEF Practice!SyncGeo
    <3>3. CASE Practice!GeoFailed(w) \/ Practice!Stop(w)
      BY <1>0, <3>3 DEF Practice!GeoFailed, Practice!Stop, Practice!NoWrite
    <3> QED
      BY <1>1, <3>1, <3>2, <3>3
  <2>2. BehindRow' /\ ReadsStorable'
    BY <1>0, <2>1 DEF PracticeInv, BehindRow, ReadsStorable
  <2> QED
    BY <1>0, <2>1, <2>2, Unseen DEF PracticeInv, FreshUnchanged
<1>2. CASE Practice!Change(w)
  <2>1. /\ UNCHANGED <<floor, data, version>>
        /\ practiceRow' \in {practiceRow, practiceRow + 1}
        /\ \A v \in Writers : writer'[v].step = "change" => writer'[v] = writer[v]
    BY <1>0, <1>2 DEF Practice!Change, Practice!NoWrite
  <2>2. BehindRow'
    <3>1. \A q \in Readers : reader[q].step = "store" => reader[q].value \in Nat
      BY ReadShape DEF PracticeInv, Practice!Versions
    <3>2. \A v \in Writers : writer[v].step = "change" => writer[v].next \in Nat
      <4>1. ASSUME NEW v \in Writers, writer[v].step = "change"
            PROVE  writer[v].next \in Practice!Versions
        BY <4>1, WriteShape DEF PracticeInv
      <4> QED
        BY <4>1 DEF Practice!Versions
    <3> QED
      BY <1>0, <2>1, <3>1, <3>2 DEF PracticeInv, BehindRow
  <2>3. ReadsStorable'
    BY <1>0, <2>1 DEF PracticeInv, ReadsStorable
  <2>4. [Practice!Fresh!Next]_(Practice!Fresh!vars)
    <3>1. (torn # {})' = (torn # {})
      BY <1>0
    <3>2. CASE practiceRow' = practiceRow
      BY <2>1, <3>1, <3>2 DEF Practice!Fresh!vars
    <3>3. CASE practiceRow' = practiceRow + 1
      BY <2>1, <3>1, <3>3 DEF Practice!Fresh!Update, Practice!Fresh!Next
    <3> QED
      BY <2>1, <3>2, <3>3
  <2> QED
    BY <2>2, <2>3, <2>4 DEF PracticeInv
<1>3. CASE Practice!Invalidate(w)
  <2>1. /\ UNCHANGED practiceRow
        /\ \/ version' = version + 1 /\ data' = None /\ floor' = practiceRow
           \/ UNCHANGED <<version, data, floor>>
        /\ \A v \in Writers : writer'[v].step = "change" => writer'[v] = writer[v]
    BY <1>0, <1>3 DEF Practice!Invalidate
  <2>2. BehindRow'
    BY <1>0, <2>1 DEF PracticeInv, BehindRow
  <2>3. ReadsStorable'
    <3>1. \A q \in Readers : reader[q].step \in {"mysql", "store"} /\ reader[q].seen # None =>
              reader[q].seen \in Nat
      BY ReadShape, PracticeConstants DEF PracticeInv, Practice!Counters
    <3> QED
      BY <1>0, <2>1, <3>1 DEF PracticeInv, ReadsStorable
  <2>4. [Practice!Fresh!Next]_(Practice!Fresh!vars)
    <3>1. (torn # {})' = (torn # {})
      BY <1>0
    <3>2. CASE data' = None /\ floor' = practiceRow
      BY <2>1, <3>1, <3>2 DEF Practice!Fresh!Invalidate, Practice!Fresh!Next
    <3>3. CASE UNCHANGED <<data, floor>>
      BY <2>1, <3>1, <3>3 DEF Practice!Fresh!vars
    <3> QED
      BY <2>1, <3>2, <3>3
  <2> QED
    BY <2>2, <2>3, <2>4 DEF PracticeInv
<1> QED
  BY <1>1, <1>2, <1>3

\* Every step keeps the invariant and is a step of FreshCache or not seen.
LEMMA PracticeKeeps ==
    ASSUME PracticeInv, Practice!Next
    PROVE  PracticeInv' /\ [Practice!Fresh!Next]_(Practice!Fresh!vars)
<1>0. Practice!TypeOK /\ BehindRow
  BY DEF PracticeInv
<1>1. ASSUME NEW q \in Readers,
             Practice!Look(q) \/ Practice!ReadVersion(q) \/ Practice!ReadMySQL(q) \/ Practice!Store(q)
      PROVE  PracticeInv' /\ [Practice!Fresh!Next]_(Practice!Fresh!vars)
  BY <1>0, <1>1, ReaderTypes, ReaderKeeps
<1>2. ASSUME NEW w \in Writers,
             Practice!Begin(w) \/ Practice!Change(w) \/ Practice!Invalidate(w) \/ Practice!SyncGeo(w)
               \/ Practice!GeoFailed(w) \/ Practice!Stop(w)
      PROVE  PracticeInv' /\ [Practice!Fresh!Next]_(Practice!Fresh!vars)
  BY <1>0, <1>2, WriterTypes, WriterKeeps
<1>3. CASE Practice!Expire
  <2>1. PracticeInv'
    BY <1>3 DEF Practice!Expire, PracticeInv, Practice!TypeOK, BehindRow, ReadsStorable
  <2>2. (torn # {})' = (torn # {}) /\ data' = None /\ UNCHANGED <<practiceRow, floor>>
    BY <1>3 DEF Practice!Expire
  <2>3. Practice!Fresh!Evict
    BY <2>2 DEF Practice!Fresh!Evict
  <2> QED
    BY <2>1, <2>3 DEF Practice!Fresh!Next
<1>4. CASE Practice!Lose
  <2>1. Practice!TypeOK'
    BY <1>4, PracticeConstants
    DEF Practice!Lose, PracticeInv, Practice!TypeOK, Practice!Fault, Practice!Counters
  <2>2. BehindRow' /\ ReadsStorable'
    BY <1>4 DEF Practice!Lose, PracticeInv, BehindRow, ReadsStorable
  <2>3. (torn # {})' \in BOOLEAN /\ data' = None /\ UNCHANGED <<practiceRow, floor>>
    BY <1>4 DEF Practice!Lose
  <2>4. Practice!Fresh!Lose
    BY <2>3 DEF Practice!Fresh!Lose
  <2> QED
    BY <2>1, <2>2, <2>4 DEF PracticeInv, Practice!Fresh!Next
<1> QED
  BY <1>1, <1>2, <1>3, <1>4 DEF Practice!Next

\* A step that leaves the practice cache alone does both.
LEMMA PracticeStutters ==
    ASSUME UNCHANGED practiceVars
    PROVE  (PracticeInv => PracticeInv') /\ UNCHANGED Practice!Fresh!vars
<1>1. UNCHANGED Practice!Fresh!vars
  BY Unseen DEF practiceVars, FreshUnchanged
<1>2. PracticeInv => PracticeInv'
  BY DEF practiceVars, PracticeInv, Practice!TypeOK, BehindRow, ReadsStorable
<1> QED
  BY <1>1, <1>2

-----------------------------------------------------------------------------
(* Process start and shutdown *)

\* What the assumption of the instance says of its constants.
LEMMA ServerConstants == MaxRequests \in Nat /\ MaxRefreshes \in Nat
BY InstancesAssumption DEF Server!ConstantsAssumption

\* The goroutines start together, when every dependency is open, and the
\* deferred calls run when none of them has started or all have returned.
GroupTogether ==
    /\ phase = "starting" => \A g \in Server!Group : goroutine[g] = "none"
    /\ phase = "running" => \A g \in Server!Group : goroutine[g] # "none"
    /\ phase \in {"closing", "exited"} =>
          \/ \A g \in Server!Group : goroutine[g] = "none"
          \/ \A g \in Server!Group : goroutine[g] = "ended"

ShopsOpen ==
    /\ phase = "running" => stage = Len(Server!Stages)
    /\ phase \in {"starting", "running"} /\ stage >= 4 => "shops" \in opened

\* Before the goroutines there is nothing to serve.
IdleBefore == goroutine["serve"] = "none" => requests = 0 /\ refreshes = 0

\* After Shutdown only the handlers it gave up on are left.
DrainedAfter == goroutine["stop"] = "ended" => shutdown /\ (requests > 0 => timedOut)

\* Once the cache client is closed no refresh is left, and none begins.
RefreshesOver ==
    /\ phase = "exited" => opened = {}
    /\ phase \in {"closing", "exited"} /\ "shops" \notin opened =>
          refreshes = 0 /\ (closing \/ goroutine["serve"] = "none")

ServerInv ==
    /\ Server!TypeOK /\ GroupTogether /\ ShopsOpen /\ IdleBefore /\ DrainedAfter /\ RefreshesOver

\* Nothing runs before the start.
LEMMA ServerInit == Server!Init => ServerInv
<1> SUFFICES ASSUME Server!Init PROVE ServerInv
  OBVIOUS
<1> USE ServerConstants DEF Server!Init, Server!Group
<1>1. {cancelled, failed, shutdown, timedOut, closing} \subseteq BOOLEAN
  BY Zenon
<1>2. Server!TypeOK
  BY <1>1 DEF Server!TypeOK, Server!States, Server!Stages, Server!Closable
<1>3. GroupTogether /\ ShopsOpen /\ IdleBefore /\ DrainedAfter /\ RefreshesOver
  BY DEF GroupTogether, ShopsOpen, IdleBefore, DrainedAfter, RefreshesOver
<1> QED
  BY <1>2, <1>3 DEF ServerInv

\* Types.
LEMMA ServerTypes ==
    ASSUME Server!TypeOK, Server!Next PROVE Server!TypeOK'
<1> USE ServerConstants
    DEF Server!Next, Server!Start, Server!Run, Server!Wait, Server!CloseShops, Server!CloseClient,
        Server!Exit, Server!OrdersStart, Server!OrdersEnd, Server!FeedEnds, Server!ServeEnds,
        Server!ServeError, Server!Shutdown, Server!ShutdownReturns, Server!Accept, Server!Respond,
        Server!Refresh, Server!RefreshEnds, Server!Signal
<1>1. {cancelled', failed', shutdown', timedOut', closing'} \subseteq BOOLEAN
  <2>1. {cancelled, failed, shutdown, timedOut, closing} \subseteq BOOLEAN
    BY DEF Server!TypeOK
  <2> QED
    BY <2>1, Zenon
<1>2. phase' \in {"starting", "running", "closing", "exited"} /\ stage' \in 0..Len(Server!Stages)
  BY DEF Server!TypeOK, Server!Stages
<1>3. opened' \in SUBSET Server!Closable
  BY DEF Server!TypeOK
<1>4. goroutine' \in [Server!Group -> Server!States]
  BY DEF Server!TypeOK, Server!Ends, Server!States, Server!On
<1>5. requests' \in 0..MaxRequests /\ refreshes' \in 0..MaxRefreshes
  BY DEF Server!TypeOK
<1> QED
  BY <1>1, <1>2, <1>3, <1>4, <1>5 DEF Server!TypeOK

\* Every step of start and shutdown keeps the invariant.
LEMMA ServerKeeps == ServerInv /\ Server!Next => ServerInv'
<1> SUFFICES ASSUME ServerInv, Server!Next PROVE ServerInv'
  OBVIOUS
<1>1. Server!TypeOK /\ Server!TypeOK'
  BY ServerTypes DEF ServerInv
<1> USE ServerConstants, <1>1
    DEF Server!Start, Server!Run, Server!Wait, Server!CloseShops, Server!CloseClient,
        Server!Exit, Server!OrdersStart, Server!OrdersEnd, Server!FeedEnds, Server!ServeEnds,
        Server!ServeError, Server!Shutdown, Server!ShutdownReturns, Server!Accept, Server!Respond,
        Server!Refresh, Server!RefreshEnds, Server!Signal, Server!On, Server!Ends, Server!MayRefresh,
        Server!Stopping, ServerInv, Server!TypeOK, Server!Group
<1>2. GroupTogether'
  BY DEF Server!Next, GroupTogether
<1>3. ShopsOpen'
  <2>1. Len(Server!Stages) = 6 /\ Server!Stages[4] = "shops" /\ "shops" \in Server!Closable
    BY DEF Server!Stages, Server!Closable
  <2>2. CASE Server!Start
    BY <2>1, <2>2 DEF ShopsOpen
  <2>3. CASE Server!Run \/ Server!Wait \/ Server!CloseShops \/ Server!CloseClient \/ Server!Exit
    BY <2>1, <2>3 DEF ShopsOpen
  <2>4. CASE UNCHANGED <<phase, stage, opened>>
    BY <2>1, <2>4 DEF ShopsOpen
  <2> QED
    BY <2>2, <2>3, <2>4 DEF Server!Next
<1>4. IdleBefore'
  BY DEF Server!Next, IdleBefore, GroupTogether
<1>5. DrainedAfter'
  BY DEF Server!Next, DrainedAfter, GroupTogether
<1>6. RefreshesOver'
  BY DEF Server!Next, RefreshesOver, GroupTogether, ShopsOpen, IdleBefore, Server!Stages
<1> QED
  BY <1>2, <1>3, <1>4, <1>5, <1>6

\* A step that leaves the process alone keeps it.
LEMMA ServerStutters == ServerInv /\ UNCHANGED serverVars => ServerInv'
BY DEF serverVars, ServerInv, Server!TypeOK, GroupTogether, ShopsOpen, IdleBefore, DrainedAfter,
    RefreshesOver

\* The invariant is enough.
LEMMA ClosedLast == ServerInv => Server!ClientsCloseLast
BY DEF ServerInv, Server!TypeOK, GroupTogether, IdleBefore, DrainedAfter, RefreshesOver,
    Server!ClientsCloseLast, Server!Group

-----------------------------------------------------------------------------
(* Migrations *)

\* What the assumption of the instance says of its constants.
LEMMA MigrateConstants ==
    /\ Seeds \subseteq Runs /\ None \notin Runs
    /\ Length \in [1..2 -> Nat \ {0}] /\ UserAt \in 1..Length[1]
BY InstancesAssumption DEF Migrate!ConstantsAssumption

\* A run under way holds the lock, so there is one at most.
LockHeld ==
    \A r \in Runs : run[r].step \in {"check", "ledger", "look", "exec", "record"} => lock = r

\* Statements come after the ledger, and only on a database not of Java's.
LedgerFirst ==
    /\ \A r \in Runs : run[r].step \in {"look", "exec", "record"} => ledger
    /\ \A r \in Runs : run[r].step = "ledger" => ~java
    /\ applied[Migrate!Schema] > 0 => ledger

\* A run has listed the files before the one it is at, and applied the one it
\* is about to list.
FilesListed ==
    \A r \in Runs :
        /\ run[r].step \in {"new", "check", "ledger", "look", "exec", "record"} =>
               \A f \in Migrate!Files : f < run[r].file => f \in recorded
        /\ run[r].step = "record" => applied[run[r].file] = Length[run[r].file]

NoneTwice == \A f \in Migrate!Files : applied[f] <= Length[f]

MigrateInv ==
    /\ Migrate!TypeOK /\ LockHeld /\ LedgerFirst /\ FilesListed /\ NoneTwice
    /\ Migrate!LedgerIsTrue

\* Nothing was applied or recorded at first, nobody holds the lock.
LEMMA MigrateInit == Migrate!Init => MigrateInv
<1> SUFFICES ASSUME Migrate!Init PROVE MigrateInv
  OBVIOUS
<1> USE DEF Migrate!Init, Migrate!New, Migrate!At, Migrate!Schema, Migrate!Files, Migrate!Results
<1>1. Migrate!TypeOK
  <2>1. ledger \in BOOLEAN
    BY Zenon
  <2> QED
    BY <2>1 DEF Migrate!TypeOK
<1>2. LockHeld /\ FilesListed
  BY DEF LockHeld, FilesListed
<1>3. LedgerFirst /\ NoneTwice
  BY MigrateConstants DEF LedgerFirst, NoneTwice
<1>4. Migrate!LedgerIsTrue
  BY DEF Migrate!LedgerIsTrue
<1> QED
  BY <1>1, <1>2, <1>3, <1>4 DEF MigrateInv

\* Types.
LEMMA MigrateTypes ==
    ASSUME Migrate!TypeOK, NoneTwice, Migrate!Next PROVE Migrate!TypeOK'
<1> USE MigrateConstants
    DEF Migrate!TypeOK, Migrate!Goes, Migrate!Ends, Migrate!Files, Migrate!Results
<1>0. PICK r \in Runs :
          \/ Migrate!GetLock(r) \/ Migrate!Check(r) \/ Migrate!CreateLedger(r)
          \/ Migrate!Look(r) \/ Migrate!Exec(r) \/ Migrate!Record(r) \/ Migrate!Fails(r)
  BY DEF Migrate!Next
<1>1. java' = java
  BY DEF Migrate!Next
<1>2. CASE Migrate!GetLock(r)
  BY <1>1, <1>2 DEF Migrate!GetLock
<1>3. CASE Migrate!Check(r)
  BY <1>1, <1>3 DEF Migrate!Check
<1>4. CASE Migrate!CreateLedger(r)
  <2>1. ledger' \in BOOLEAN
    BY <1>4, Zenon DEF Migrate!CreateLedger
  <2> QED
    BY <1>1, <1>4, <2>1 DEF Migrate!CreateLedger
<1>5. CASE Migrate!Look(r)
  BY <1>1, <1>5 DEF Migrate!Look, Migrate!NextFile, Migrate!At, Migrate!FilesOf
<1>6. CASE Migrate!Exec(r)
  <2>1. applied' \in [{1, 2} -> Nat]
    BY <1>6 DEF Migrate!Exec, NoneTwice
  <2> QED
    BY <1>1, <1>6, <2>1 DEF Migrate!Exec
<1>7. CASE Migrate!Record(r)
  BY <1>1, <1>7 DEF Migrate!Record, Migrate!NextFile, Migrate!At, Migrate!FilesOf
<1>8. CASE Migrate!Fails(r)
  BY <1>1, <1>8 DEF Migrate!Fails
<1> QED
  BY <1>0, <1>2, <1>3, <1>4, <1>5, <1>6, <1>7, <1>8

\* Every step of a migration keeps the invariant.
LEMMA MigrateKeeps == MigrateInv /\ Migrate!Next => MigrateInv'
<1> SUFFICES ASSUME MigrateInv, Migrate!Next PROVE MigrateInv'
  OBVIOUS
<1>1. Migrate!TypeOK /\ Migrate!TypeOK'
  BY MigrateTypes DEF MigrateInv
<1>2. java' = java
  BY DEF Migrate!Next
<1>0. PICK r \in Runs :
          \/ Migrate!GetLock(r) \/ Migrate!Check(r) \/ Migrate!CreateLedger(r)
          \/ Migrate!Look(r) \/ Migrate!Exec(r) \/ Migrate!Record(r) \/ Migrate!Fails(r)
  BY DEF Migrate!Next
\* The other runs stay where they are.
<1>3. \A q \in Runs : q # r => run'[q] = run[q]
  BY <1>0, <1>1 DEF Migrate!TypeOK, Migrate!GetLock, Migrate!Check, Migrate!CreateLedger,
      Migrate!Look, Migrate!Exec, Migrate!Record, Migrate!Fails, Migrate!Goes, Migrate!Ends,
      Migrate!NextFile
<1>4. run[r].file \in 1..2 /\ run'[r].file \in 1..2
  BY <1>1 DEF Migrate!TypeOK, Migrate!Files
<1> USE MigrateConstants, <1>1, <1>2, <1>3, <1>4
    DEF MigrateInv, Migrate!TypeOK, LockHeld, LedgerFirst, FilesListed, NoneTwice, Migrate!LedgerIsTrue,
        Migrate!Goes, Migrate!Ends, Migrate!Files, Migrate!Results, Migrate!Schema
<1>5. CASE Migrate!GetLock(r)
  BY <1>5 DEF Migrate!GetLock
<1>6. CASE Migrate!Check(r)
  BY <1>6 DEF Migrate!Check, Migrate!UserTable
<1>7. CASE Migrate!CreateLedger(r)
  BY <1>7 DEF Migrate!CreateLedger
<1>8. CASE Migrate!Look(r)
  BY <1>8 DEF Migrate!Look, Migrate!NextFile, Migrate!At, Migrate!FilesOf
<1>9. CASE Migrate!Exec(r)
  BY <1>9 DEF Migrate!Exec
<1>10. CASE Migrate!Record(r)
  BY <1>10 DEF Migrate!Record, Migrate!NextFile, Migrate!At, Migrate!FilesOf
<1>11. CASE Migrate!Fails(r)
  BY <1>11 DEF Migrate!Fails
<1> QED
  BY <1>0, <1>5, <1>6, <1>7, <1>8, <1>9, <1>10, <1>11

\* A step that leaves the migrations alone keeps it.
LEMMA MigrateStutters == MigrateInv /\ UNCHANGED migrateVars => MigrateInv'
BY DEF migrateVars, MigrateInv, Migrate!TypeOK, LockHeld, LedgerFirst, FilesListed, NoneTwice,
    Migrate!LedgerIsTrue

-----------------------------------------------------------------------------
(* All of them *)

\* A step of one component leaves the variables of the others alone.
LEMMA StepOfOne ==
    ASSUME [ServicesNext]_servicesVars
    PROVE  /\ Scroll!Next \/ UNCHANGED scrollVars
           /\ Geo!Next \/ UNCHANGED geoVars
           /\ StatusNext \/ UNCHANGED allVars
           /\ \/ Accounts!Next /\ UNCHANGED accountVars
              \/ Accounts!AccountNext
              \/ UNCHANGED loginVars /\ UNCHANGED accountVars
           /\ Sign!Next \/ UNCHANGED signVars
           /\ Ids!Next \/ UNCHANGED idVars
           /\ Practice!Next \/ UNCHANGED practiceVars
           /\ Server!Next \/ UNCHANGED serverVars
           /\ Migrate!Next \/ UNCHANGED migrateVars
<1>1. CASE UNCHANGED servicesVars
  BY <1>1 DEF servicesVars
<1>2. CASE ServicesNext
  BY <1>2 DEF ServicesNext, ScrollStep, GeoStep, StatusStep, LoginStep, AccountsStep, SignStep, IdsStep,
              PracticeStep, ServerStep, MigrateStep
<1> QED
  BY <1>1, <1>2

\* The inductive invariant of the components but the order status.
ServicesInv ==
    /\ ScrollInv /\ GeoInv /\ AccountInv /\ SignInv /\ IdInv /\ PracticeInv /\ ServerInv /\ MigrateInv

\* It holds at first.
LEMMA ServicesInvInit == ServicesInit => ServicesInv
BY ScrollInit, GeoInit, AccountInit, SignInit, IdInit, PracticeInit, ServerInit, MigrateInit
   DEF ServicesInit, ServicesInv

\* A step of one component keeps its part and leaves the other parts alone.
LEMMA ServicesInvStep == ServicesInv /\ [ServicesNext]_servicesVars => ServicesInv'
<1> SUFFICES ASSUME ServicesInv, [ServicesNext]_servicesVars PROVE ServicesInv'
  OBVIOUS
<1>1. ScrollInv' /\ GeoInv'
  BY StepOfOne, ScrollKeeps, ScrollStutters, GeoKeeps, GeoStutters DEF ServicesInv
<1>2. AccountInv'
  <2>1. CASE Accounts!Next /\ UNCHANGED accountVars
    BY <2>1, LoginNextKeeps, ProfileStutters DEF ServicesInv, AccountInv
  <2>2. CASE UNCHANGED loginVars /\ UNCHANGED accountVars
    BY <2>2, LoginStutters, ProfileStutters DEF ServicesInv, AccountInv
  <2> QED
    BY <2>1, <2>2, StepOfOne, AccountNextKeeps DEF ServicesInv
<1>3. SignInv' /\ IdInv'
  BY StepOfOne, SignKeeps, SignStutters, IdKeeps, IdStutters DEF ServicesInv
<1>4. PracticeInv'
  BY StepOfOne, PracticeKeeps, PracticeStutters DEF ServicesInv
<1>5. ServerInv' /\ MigrateInv'
  BY StepOfOne, ServerKeeps, ServerStutters, MigrateKeeps, MigrateStutters DEF ServicesInv
<1> QED
  BY <1>1, <1>2, <1>3, <1>4, <1>5 DEF ServicesInv

\* So it holds in every reachable state.
LEMMA ServicesHold == ServicesSpec => []ServicesInv
BY ServicesInvInit, ServicesInvStep, PTL DEF ServicesSpec

\* The flash sale and the order status run as in OrderStatus, so all that is
\* proved of them holds here.
LEMMA StatusRuns == ServicesSpec => StatusSpec
<1>1. ServicesInit => StatusInit
  BY DEF ServicesInit
<1>2. [ServicesNext]_servicesVars => [StatusNext]_allVars
  BY StepOfOne
<1> QED
  BY <1>1, <1>2, PTL DEF ServicesSpec, StatusSpec

\* The types of the flash sale and of the order status.
LEMMA StatusTyped == StatusSpec => [](TypeOK /\ StatusTypeOK)
<1>1. TypeOK /\ Routed /\ IInv /\ Honest /\ ToldTruth /\ [StatusNext]_allVars => ToldTruth'
  BY ToldStep
<1>2. ToldTruth => StatusTypeOK
  BY DEF ToldTruth
<1> QED
  BY <1>1, <1>2, ToldInit, SeckillHolds, PTL DEF StatusSpec

-----------------------------------------------------------------------------
(* The theorems *)

\* Every variable of every component has its type (all handlers, services and
\* scripts the modules model).
THEOREM ServicesTyped == ServicesSpec => []ServicesTypeOK
<1>1. ServicesInv /\ TypeOK /\ StatusTypeOK => ServicesTypeOK
  BY DEF ServicesInv, GeoInv, AccountInv, LoginInv, SignInv, IdInv, PracticeInv, ServerInv, MigrateInv,
         ServicesTypeOK
<1> QED
  BY <1>1, ServicesHold, StatusRuns, StatusTyped, PTL

\* A scroll through the inbox shows every post that was there when it began,
\* and repeats none but those pushed down by later posts of their millisecond
\* (nextSocialCursor and ZREVRANGEBYSCORE with an offset).
THEOREM ScrollsAreComplete == ServicesSpec => []ScrollComplete
<1>1. ServicesInv => ScrollComplete
  BY ScrollShows DEF ServicesInv, ScrollComplete
<1> QED
  BY <1>1, ServicesHold, PTL

\* A nearby answer misses no shop it owed when the query began: a near one of
\* its type that no call works on and whose index entry is not in doubt
\* (ListByType, syncGeo, geoFailed and WarmGeo on any number of replicas).
THEOREM NearbyAnswersAreComplete == ServicesSpec => []NearbyComplete
<1>1. ServicesInv => NearbyComplete
  BY DebtsPaid DEF ServicesInv, NearbyComplete
<1> QED
  BY <1>1, ServicesHold, PTL

\* A code admits one login, all logins of a phone are of one user row, and
\* concurrent edits of its profile lose no submitted column (Login and
\* FindOrCreateUser; UpdateUserInfo and UpdateUserName of the practice server).
THEOREM LoginsAreOfOneUser == ServicesSpec => []LoginsAgree
<1>1. ServicesInv => LoginsAgree
  BY DEF ServicesInv, AccountInv, LoginInv, LoginsAgree
<1> QED
  BY <1>1, ServicesHold, PTL

\* A password counter without its expiry is the work of a fault (LoginByPassword).
THEOREM LockoutIsOfAFault == ServicesSpec => []LockoutNeedsFault
<1>1. ServicesInv => LockoutNeedsFault
  BY DEF ServicesInv, AccountInv, LoginInv, LockoutNeedsFault
<1> QED
  BY <1>1, ServicesHold, PTL

\* While Redis keeps its counters no order id is handed out twice, around
\* midnight and up to the last number that fits (NextOrderID).
THEOREM IdsAreUnique == ServicesSpec => []IdsUnique
<1>1. ServicesInv => IdsUnique
  BY DEF ServicesInv, IdInv, IdsUnique, Ids!IdsUnique
<1> QED
  BY <1>1, ServicesHold, PTL

\* The streak an answer gives is that of the days signed when it was read, and
\* ends with the month (SignCount).
THEOREM StreaksAreRight == ServicesSpec => []StreakRight
<1>1. ServicesInv => StreakRight
  BY DEF ServicesInv, SignInv, StreakRight
<1> QED
  BY <1>1, ServicesHold, PTL

\* Every recorded migration was applied once and as a whole, and a database
\* left half initialised is resumed (migrations.Run).
THEOREM MigrationLedgerIsTrue == ServicesSpec => []LedgerIsTrue
<1>1. ServicesInv => LedgerIsTrue
  BY DEF ServicesInv, MigrateInv, LedgerIsTrue
<1> QED
  BY <1>1, ServicesHold, PTL

\* Redis and MySQL close after everything that uses them has ended: the safety
\* half of ShutsDown (main).
THEOREM ClientsAreClosedLast == ServicesSpec => []Server!ClientsCloseLast
<1>1. ServicesInv => Server!ClientsCloseLast
  BY ClosedLast DEF ServicesInv
<1> QED
  BY <1>1, ServicesHold, PTL

\* The practice cache implements FreshCache: nothing older than the last
\* invalidation is filled in, unless Redis loses its keys under the fill
\* (GetByID and ShopUpdate of the practice server).
THEOREM PracticeImplementsFreshCache == ServicesSpec => PracticeFresh
<1>1. ServicesInit => Practice!Fresh!Init
  BY PracticeInit DEF ServicesInit
<1>2. ServicesInv /\ [ServicesNext]_servicesVars => [Practice!Fresh!Next]_(Practice!Fresh!vars)
  BY StepOfOne, PracticeKeeps, PracticeStutters DEF ServicesInv
<1> QED
  BY <1>1, <1>2, ServicesHold, PTL
  DEF ServicesSpec, PracticeFresh, Practice!PracticeFresh, Practice!Fresh!Spec

\* What a client was told of an order stays true among the other components, too.
THEOREM StatusStaysFinal == ServicesSpec => StatusIsFinal
BY StatusRuns, AnswersAreFinal, PTL

=============================================================================
