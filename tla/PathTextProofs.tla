---------------------------- MODULE PathTextProofs ----------------------------
(***************************************************************************)
(* For texts of any length and any characters: the functions of path.c on  *)
(* slices of texts compute what TfsPath says of sequences of components.   *)
(*                                                                         *)
(* The components at some places of a text that lie on two sides of a      *)
(* separator are those of the one side, then those of the other            *)
(* (ComponentsOfBoth), because a place has the same rank among them, or    *)
(* one more by as many as there are before (NthOfBoth).  Trim leaves the   *)
(* places as they are, Split and the pops divide them (SplitIs,            *)
(* PopFirstIs, PopLastIs).  LoopInv says what the loops have popped so     *)
(* far, in these terms.                                                    *)
(***************************************************************************)
EXTENDS PathTextProps, SequenceTheorems, FiniteSetTheorems, WellFoundedInduction, TLAPS

\* Every set of numbers has a least one, and one with a bound has a greatest.
LEMMA MinOf ==
    ASSUME NEW S \in SUBSET Nat, S # {}
    PROVE  Min(S) \in S /\ \A j \in S : Min(S) <= j
<1> DEFINE R == OpToRel(<, Nat)
<1>1. \A j, k \in Nat : j < k => <<j, k>> \in R
    <2>1. R = {ss \in Nat \X Nat : ss[1] < ss[2]}
        BY Zenon DEF OpToRel
    <2> HIDE DEF R
    <2> QED
        BY <2>1
<1>2. IsWellFoundedOn(R, Nat)
    BY Zenon, NatLessThanWellFounded
<1> HIDE DEF R
<1>3. PICK k \in S : \A j \in S : ~(<<j, k>> \in R)
    BY <1>2, WFMin
<1>4. k \in S /\ \A j \in S : k <= j
    <2>1. \A j \in S : j \in Nat /\ k \in Nat /\ ~(j < k)
        BY <1>1, <1>3
    <2> QED
        BY <2>1
<1> QED
    BY <1>4 DEF Min

LEMMA MinIs ==
    ASSUME NEW S \in SUBSET Nat, NEW k \in S, \A j \in S : k <= j
    PROVE  Min(S) = k
<1>1. Min(S) \in S /\ Min(S) <= k /\ k <= Min(S)
    BY MinOf
<1>2. Min(S) \in Nat /\ k \in Nat
    BY <1>1
<1> QED
    BY <1>1, <1>2

LEMMA MaxOf ==
    ASSUME NEW S \in SUBSET Nat, S # {}, NEW n \in Nat, \A j \in S : j <= n
    PROVE  Max(S) \in S /\ \A j \in S : j <= Max(S)
<1> DEFINE T == {n - j : j \in S}
           m == n - Min(T)
<1>1. T \in SUBSET Nat /\ T # {}
    <2>1. \A j \in S : n - j \in Nat
        <3>1. \A j \in S : j \in Nat /\ j <= n
            OBVIOUS
        <3> QED
            BY <3>1
    <2> QED
        BY <2>1
<1> HIDE DEF T
<1>2. Min(T) \in T /\ \A i \in T : Min(T) <= i
    BY <1>1, MinOf
<1>3. PICK k \in S : Min(T) = n - k
    BY <1>2 DEF T
<1>4. \A j \in S : n - j \in T
    BY DEF T
<1>5. \A j \in S : j <= k
    <2>1. \A j \in S : j \in Nat /\ k \in Nat /\ n - k <= n - j
        BY <1>2, <1>3, <1>4
    <2> QED
        BY <2>1
<1> QED
    BY <1>5 DEF Max

LEMMA MaxIs ==
    ASSUME NEW S \in SUBSET Nat, NEW k \in S, \A j \in S : j <= k
    PROVE  Max(S) = k
<1>1. k \in Nat /\ Max(S) \in S /\ Max(S) <= k /\ k <= Max(S)
    BY MaxOf
<1>2. Max(S) \in Nat
    BY <1>1
<1> QED
    BY <1>1, <1>2

-----------------------------------------------------------------------------
\* How many places come before one.
Below(S, k) == {j \in S : j < k}

LEMMA RanksDiffer ==
    ASSUME NEW S \in SUBSET Nat, IsFiniteSet(S), NEW j \in S, NEW k \in S, j < k
    PROVE  Cardinality(Below(S, j)) < Cardinality(Below(S, k))
<1>1. IsFiniteSet(Below(S, k)) /\ IsFiniteSet(Below(S, j))
    BY FS_Subset DEF Below
<1>2. Below(S, j) \subseteq Below(S, k) /\ Below(S, j) # Below(S, k)
    <2>1. j \in Nat /\ k \in Nat /\ \A i \in S : i \in Nat
        OBVIOUS
    <2>2. \A i \in S : i < j => i < k
        BY <2>1
    <2>3. ~(j < j)
        BY <2>1
    <2> QED
        BY <2>2, <2>3 DEF Below
<1>3. /\ Cardinality(Below(S, j)) <= Cardinality(Below(S, k))
      /\ Cardinality(Below(S, j)) # Cardinality(Below(S, k))
    BY <1>1, <1>2, FS_Subset
<1>4. Cardinality(Below(S, j)) \in Nat /\ Cardinality(Below(S, k)) \in Nat
    BY <1>1, FS_CardinalityType
<1> QED
    BY <1>3, <1>4

LEMMA RankBound ==
    ASSUME NEW S \in SUBSET Nat, IsFiniteSet(S), NEW k \in S
    PROVE  Cardinality(Below(S, k)) \in Nat /\ Cardinality(Below(S, k)) < Cardinality(S)
<1>1. IsFiniteSet(Below(S, k)) /\ Below(S, k) \subseteq S /\ Below(S, k) # S
    BY FS_Subset DEF Below
<1>2. /\ Cardinality(Below(S, k)) <= Cardinality(S)
      /\ Cardinality(Below(S, k)) # Cardinality(S)
    BY <1>1, FS_Subset
<1>3. Cardinality(Below(S, k)) \in Nat /\ Cardinality(S) \in Nat
    BY <1>1, FS_CardinalityType
<1> QED
    BY <1>2, <1>3

LEMMA NthIs ==
    ASSUME NEW S \in SUBSET Nat, IsFiniteSet(S), NEW n \in Nat,
           NEW k \in S, Cardinality(Below(S, k)) = n - 1
    PROVE  Nth(S, n) = k
<1>1. ASSUME NEW i \in S, Cardinality(Below(S, i)) = n - 1 PROVE i = k
    <2>1. CASE i < k
        BY <1>1, <2>1, RanksDiffer, RankBound
    <2>2. CASE k < i
        BY <1>1, <2>2, RanksDiffer, RankBound
    <2> QED
        BY <2>1, <2>2
<1> QED
    BY <1>1 DEF Nth, Below

LEMMA NthOf ==
    ASSUME NEW S \in SUBSET Nat, IsFiniteSet(S), NEW n \in 1 .. Cardinality(S)
    PROVE  Nth(S, n) \in S /\ Cardinality(Below(S, Nth(S, n))) = n - 1
<1> DEFINE c == Cardinality(S)
           T == 0 .. c - 1
           f == [k \in S |-> Cardinality(Below(S, k))]
<1>1. c \in Nat
    BY FS_CardinalityType
<1>2. f \in [S -> T]
    BY <1>1, RankBound
<1>3. \A j, k \in S : f[j] = f[k] => j = k
    <2> SUFFICES ASSUME NEW j \in S, NEW k \in S, f[j] = f[k] PROVE j = k
        OBVIOUS
    <2>1. Cardinality(Below(S, j)) = Cardinality(Below(S, k)) /\ Cardinality(Below(S, j)) \in Nat
        BY RankBound
    <2>2. ~(j < k) /\ ~(k < j)
        BY <2>1, RanksDiffer
    <2> QED
        BY <2>2
<1>4. IsFiniteSet(T) /\ Cardinality(T) = c
    <2>1. 0 \in Int /\ c - 1 \in Int
        BY <1>1
    <2>2. /\ IsFiniteSet(0 .. c - 1)
          /\ Cardinality(0 .. c - 1) = IF 0 > c - 1 THEN 0 ELSE c - 1 - 0 + 1
        BY <2>1, FS_Interval
    <2> QED
        BY <1>1, <2>2
<1> HIDE DEF T
<1>5. f \in Injection(S, T)
    BY <1>2, <1>3 DEF Injection, IsInjective
<1> HIDE DEF f
<1>6. f \in Surjection(S, T)
    BY <1>4, <1>5, FS_Injection
<1>7. n - 1 \in T
    BY <1>1 DEF T
<1>8. PICK k \in S : f[k] = n - 1
    BY <1>6, <1>7 DEF Surjection
<1>9. Cardinality(Below(S, k)) = n - 1
    BY <1>8 DEF f
<1>10. Nth(S, n) = k
    BY <1>1, <1>9, NthIs
<1> QED
    BY <1>9, <1>10

\* Places that all come before some others are counted first.
LEMMA NthOfBoth ==
    ASSUME NEW S \in SUBSET Nat, NEW T \in SUBSET Nat, IsFiniteSet(S), IsFiniteSet(T),
           \A j \in S, k \in T : j < k
    PROVE  /\ Cardinality(S \cup T) = Cardinality(S) + Cardinality(T)
           /\ Cardinality(S) \in Nat /\ Cardinality(T) \in Nat
           /\ \A n \in 1 .. Cardinality(S) : Nth(S \cup T, n) = Nth(S, n)
           /\ \A n \in 1 .. Cardinality(T) : Nth(S \cup T, Cardinality(S) + n) = Nth(T, n)
<1> DEFINE B == S \cup T
           c == Cardinality(S)
           d == Cardinality(T)
<1>1. c \in Nat /\ d \in Nat
    BY FS_CardinalityType
<1>2. S \cap T = {}
    <2> SUFFICES ASSUME NEW k \in S, k \in T PROVE FALSE
        OBVIOUS
    <2>1. k < k
        OBVIOUS
    <2> QED
        BY <2>1
<1>3. IsFiniteSet(B) /\ Cardinality(B) = c + d
    <2>1. /\ IsFiniteSet(B)
          /\ Cardinality(B) = Cardinality(S) + Cardinality(T) - Cardinality(S \cap T)
        BY FS_Union
    <2>2. Cardinality(S \cap T) = 0
        BY <1>2, FS_EmptySet
    <2> QED
        BY <1>1, <2>1, <2>2
<1>4. ASSUME NEW n \in 1 .. c PROVE Nth(B, n) = Nth(S, n)
    <2>1. Nth(S, n) \in S /\ Cardinality(Below(S, Nth(S, n))) = n - 1
        BY NthOf
    <2>2. Below(B, Nth(S, n)) = Below(S, Nth(S, n))
        <3> DEFINE i == Nth(S, n)
        <3>1. i \in Nat /\ \A k \in T : k \in Nat /\ i < k
            BY <2>1
        <3> HIDE DEF i
        <3>2. \A k \in T : ~(k < i)
            BY <3>1
        <3>3. Below(B, i) = Below(S, i)
            BY <3>2 DEF Below
        <3> QED
            BY <3>3 DEF i
    <2>3. Nth(S, n) \in B /\ Cardinality(Below(B, Nth(S, n))) = n - 1 /\ n \in Nat
        BY <1>1, <2>1, <2>2
    <2>4. B \in SUBSET Nat
        OBVIOUS
    <2> HIDE DEF B
    <2> QED
        BY <1>3, <2>3, <2>4, NthIs
<1>5. ASSUME NEW n \in 1 .. d PROVE Nth(B, c + n) = Nth(T, n)
    <2> DEFINE k == Nth(T, n)
    <2>1. k \in T /\ Cardinality(Below(T, k)) = n - 1
        BY NthOf
    <2> HIDE DEF k
    <2>2. Below(B, k) = S \cup Below(T, k)
        BY <2>1 DEF Below
    <2>3. IsFiniteSet(Below(T, k)) /\ S \cap Below(T, k) = {}
        BY <1>2, FS_Subset DEF Below
    <2>4. Cardinality(Below(B, k)) = c + (n - 1)
        <3>1. Cardinality(S \cup Below(T, k)) =
                  c + Cardinality(Below(T, k)) - Cardinality(S \cap Below(T, k))
            BY <2>3, FS_Union
        <3>2. Cardinality(S \cap Below(T, k)) = 0
            BY <2>3, FS_EmptySet
        <3> QED
            BY <1>1, <2>1, <2>2, <3>1, <3>2
    <2>5. c + n \in Nat /\ Cardinality(Below(B, k)) = (c + n) - 1 /\ k \in B
        BY <1>1, <2>1, <2>4
    <2>7. B \in SUBSET Nat
        OBVIOUS
    <2> DEFINE i == c + n
    <2>8. i \in Nat /\ Cardinality(Below(B, k)) = i - 1
        BY <2>5
    <2> HIDE DEF B, i
    <2>6. Nth(B, i) = k
        BY <1>3, <2>5, <2>7, <2>8, NthIs
    <2> QED
        BY <2>6 DEF k, i
<1> QED
    BY <1>1, <1>3, <1>4, <1>5

-----------------------------------------------------------------------------
\* Some places of a text, all of the one set before all of the other and with
\* a separator between.
Parted(text, S, T) == \A j \in S, k \in T : j < k /\ ~Joined(text, j, k)

LEMMA BeginsOfBoth ==
    ASSUME NEW text, NEW S \in SUBSET Nat, NEW T \in SUBSET Nat, Parted(text, S, T)
    PROVE  Begins(text, S \cup T) = Begins(text, S) \cup Begins(text, T)
<1>1. \A j \in S \cup T : j \in Nat
    OBVIOUS
<1>2. \A j \in S, k \in T : j < k /\ ~(k < j) /\ ~Joined(text, j, k)
    BY <1>1 DEF Parted
<1>3. ASSUME NEW k \in S PROVE k \in Begins(text, S \cup T) <=> k \in Begins(text, S)
    BY <1>2 DEF Begins
<1>4. ASSUME NEW k \in T PROVE k \in Begins(text, S \cup T) <=> k \in Begins(text, T)
    BY <1>2 DEF Begins
<1>5. S \cap T = {}
    BY <1>1, <1>2
<1> QED
    BY <1>3, <1>4, <1>5 DEF Begins

LEMMA EndOfBoth ==
    ASSUME NEW text, NEW S \in SUBSET Nat, NEW T \in SUBSET Nat, Parted(text, S, T)
    PROVE  /\ \A k \in S : End(text, S \cup T, k) = End(text, S, k)
           /\ \A k \in T : End(text, S \cup T, k) = End(text, T, k)
<1>1. \A j \in S \cup T : j \in Nat
    OBVIOUS
<1>2. \A j \in S, k \in T : j < k /\ ~(k <= j) /\ ~Joined(text, j, k)
    BY <1>1 DEF Parted
<1>3. ASSUME NEW k \in S
      PROVE  {j \in S \cup T : k <= j /\ Joined(text, k, j)} = {j \in S : k <= j /\ Joined(text, k, j)}
    BY <1>2
<1>4. ASSUME NEW k \in T
      PROVE  {j \in S \cup T : k <= j /\ Joined(text, k, j)} = {j \in T : k <= j /\ Joined(text, k, j)}
    BY <1>2
<1> QED
    BY <1>3, <1>4 DEF End

\* Places of characters of components.
SolidIn(text, S) == S \subseteq 1 .. Len(text) /\ \A k \in S : text[k] \notin {"/", " "}

LEMMA SolidPlaces ==
    ASSUME NEW text \in Seq(Char), NEW S, SolidIn(text, S)
    PROVE  /\ S \in SUBSET Nat /\ IsFiniteSet(S) /\ Len(text) \in Nat
           /\ \A k \in S : k \in Nat \ {0} /\ k <= Len(text) /\ Joined(text, k, k)
<1>1. Len(text) \in Nat
    BY LenProperties
<1>2. S \subseteq 1 .. Len(text) /\ \A k \in S : text[k] # "/"
    BY DEF SolidIn
<1>3. \A k \in S : k \in Nat \ {0} /\ k <= Len(text) /\ \A i \in k .. k : i = k
    BY <1>1, <1>2
<1>4. IsFiniteSet(S)
    <2>1. IsFiniteSet(1 .. Len(text))
        BY <1>1, FS_Interval
    <2> QED
        BY <1>2, <2>1, FS_Subset
<1> QED
    BY <1>1, <1>2, <1>3, <1>4 DEF Joined

LEMMA EndOf ==
    ASSUME NEW text \in Seq(Char), NEW S, SolidIn(text, S), NEW k \in S
    PROVE  /\ End(text, S, k) \in S /\ k <= End(text, S, k)
           /\ \A j \in S : k <= j /\ Joined(text, k, j) => j <= End(text, S, k)
<1> DEFINE E == {j \in S : k <= j /\ Joined(text, k, j)}
<1>1. /\ S \in SUBSET Nat /\ Len(text) \in Nat
      /\ \A j \in S : j \in Nat \ {0} /\ j <= Len(text) /\ Joined(text, j, j)
    BY SolidPlaces
<1>2. k <= k
    BY <1>1
<1>3. E \in SUBSET Nat /\ k \in E /\ \A j \in E : j <= Len(text)
    BY <1>1, <1>2
<1>4. End(text, S, k) = Max(E)
    BY DEF End
<1>5. \A j \in E : j \in S /\ k <= j
    OBVIOUS
<1>6. \A j \in S : k <= j /\ Joined(text, k, j) => j \in E
    OBVIOUS
<1> HIDE DEF E
<1>7. Max(E) \in E /\ \A j \in E : j <= Max(E)
    BY <1>1, <1>3, MaxOf
<1> QED
    BY <1>7, <1>4, <1>5, <1>6

\* The components at some places of a text are texts.
LEMMA ComponentTexts ==
    ASSUME NEW text \in Seq(Char), NEW S, SolidIn(text, S)
    PROVE  /\ ComponentsIn(text, S) \in Seq(Seq(Char))
           /\ Len(ComponentsIn(text, S)) = Cardinality(Begins(text, S))
           /\ Cardinality(Begins(text, S)) \in Nat
           /\ Begins(text, S) \in SUBSET S /\ IsFiniteSet(Begins(text, S))
<1> DEFINE B == Begins(text, S)
           c == Cardinality(B)
           W(n) == SubSeq(text, Nth(B, n), End(text, S, Nth(B, n)))
<1>1. /\ S \in SUBSET Nat /\ Len(text) \in Nat /\ IsFiniteSet(S)
      /\ \A j \in S : j \in Nat \ {0} /\ j <= Len(text)
    BY SolidPlaces
<1>2. B \in SUBSET S
    BY DEF Begins
<1>3. ComponentsIn(text, S) = [n \in 1 .. c |-> W(n)]
    BY DEF ComponentsIn
<1> HIDE DEF B
<1>4. B \in SUBSET Nat /\ IsFiniteSet(B) /\ c \in Nat
    <2>1. IsFiniteSet(B)
        BY <1>1, <1>2, FS_Subset
    <2> QED
        BY <1>1, <1>2, <2>1, FS_CardinalityType
<1> HIDE DEF c
<1>5. ASSUME NEW n \in 1 .. c PROVE W(n) \in Seq(Char)
    <2> DEFINE k == Nth(B, n)
               e == End(text, S, k)
    <2>1. k \in S
        <3>1. k \in B
            BY <1>4, NthOf DEF c
        <3> QED
            BY <1>2, <3>1
    <2> HIDE DEF k
    <2>2. e \in S
        BY <2>1, EndOf
    <2> HIDE DEF e
    <2>3. k \in Nat \ {0} /\ e \in Nat /\ e <= Len(text) /\ k \in Int /\ e \in Int
        BY <1>1, <2>1, <2>2
    <2>4. \A i \in k .. e : text[i] \in Char
        <3>1. \A i \in k .. e : i \in 1 .. Len(text)
            BY <1>1, <2>3
        <3> QED
            BY <3>1, ElementOfSeq
    <2>5. SubSeq(text, k, e) \in Seq(Char)
        BY <2>3, <2>4, SubSeqProperties
    <2> QED
        BY <2>5 DEF k, e
<1> HIDE DEF W
<1>6. [n \in 1 .. c |-> W(n)] \in Seq(Seq(Char)) /\ Len([n \in 1 .. c |-> W(n)]) = c
    BY <1>4, <1>5
<1> QED
    BY <1>2, <1>4, <1>6, <1>3 DEF c, B

\* The components at two sets of places, one after the other.
LEMMA ComponentsOfBoth ==
    ASSUME NEW text \in Seq(Char), NEW S, NEW T, SolidIn(text, S), SolidIn(text, T),
           Parted(text, S, T)
    PROVE  /\ SolidIn(text, S \cup T)
           /\ ComponentsIn(text, S \cup T) = ComponentsIn(text, S) \o ComponentsIn(text, T)
<1> DEFINE U == S \cup T
           A == Begins(text, S)
           B == Begins(text, T)
           c == Cardinality(A)
           d == Cardinality(B)
           u == ComponentsIn(text, U)
           s == ComponentsIn(text, S)
           t == ComponentsIn(text, T)
           WS(k) == SubSeq(text, k, End(text, S, k))
           WT(k) == SubSeq(text, k, End(text, T, k))
           WU(k) == SubSeq(text, k, End(text, U, k))
<1>1. SolidIn(text, U)
    BY DEF SolidIn
<1>2. S \in SUBSET Nat /\ T \in SUBSET Nat
    BY SolidPlaces
<1>3. Begins(text, U) = A \cup B
    BY <1>2, BeginsOfBoth
<1>4. /\ \A k \in S : End(text, U, k) = End(text, S, k)
      /\ \A k \in T : End(text, U, k) = End(text, T, k)
    BY <1>2, EndOfBoth
<1>5. s \in Seq(Seq(Char)) /\ Len(s) = c /\ c \in Nat /\ A \in SUBSET S /\ IsFiniteSet(A)
    BY ComponentTexts
<1>6. t \in Seq(Seq(Char)) /\ Len(t) = d /\ d \in Nat /\ B \in SUBSET T /\ IsFiniteSet(B)
    BY ComponentTexts
<1>7. u \in Seq(Seq(Char)) /\ Len(u) = Cardinality(A \cup B)
    BY <1>1, <1>3, ComponentTexts
<1>8. /\ \A n \in 1 .. c : s[n] = WS(Nth(A, n))
      /\ \A n \in 1 .. d : t[n] = WT(Nth(B, n))
      /\ \A n \in 1 .. Cardinality(A \cup B) : u[n] = WU(Nth(A \cup B, n))
    BY <1>3 DEF ComponentsIn
<1>9. \A k \in S : WU(k) = WS(k)
    BY <1>4
<1>10. \A k \in T : WU(k) = WT(k)
    BY <1>4
<1> HIDE DEF A, B, U, s, t, u, WS, WT, WU
<1>11. /\ Cardinality(A \cup B) = c + d
       /\ \A n \in 1 .. c : Nth(A \cup B, n) = Nth(A, n)
       /\ \A n \in 1 .. d : Nth(A \cup B, c + n) = Nth(B, n)
    <2>1. A \in SUBSET Nat /\ B \in SUBSET Nat
        BY <1>2, <1>5, <1>6
    <2>2. \A j \in A, k \in B : j < k
        BY <1>5, <1>6 DEF Parted
    <2> QED
        BY <1>5, <1>6, <2>1, <2>2, NthOfBoth
<1>12. \A n \in 1 .. c : Nth(A, n) \in S
    BY <1>2, <1>5, NthOf
<1>13. \A n \in 1 .. d : Nth(B, n) \in T
    BY <1>2, <1>6, NthOf
<1> HIDE DEF c, d
<1>14. ASSUME NEW n \in 1 .. c PROVE u[n] = s[n]
    <2>1. n \in 1 .. c + d
        BY <1>5, <1>6
    <2>2. u[n] = WU(Nth(A, n))
        BY <1>8, <1>11, <2>1
    <2> QED
        BY <1>8, <1>9, <1>12, <2>2
<1>15. ASSUME NEW n \in 1 .. d PROVE u[c + n] = t[n]
    <2> DEFINE i == c + n
    <2>1. i \in 1 .. c + d
        BY <1>5, <1>6
    <2>3. Nth(A \cup B, i) = Nth(B, n)
        BY <1>11
    <2> HIDE DEF i
    <2>2. u[i] = WU(Nth(B, n))
        BY <1>8, <1>11, <2>1, <2>3
    <2> QED
        BY <1>8, <1>10, <1>13, <2>2 DEF i
<1>16. /\ s \o t \in Seq(Seq(Char)) /\ Len(s \o t) = c + d
       /\ \A k \in 1 .. c + d : (s \o t)[k] = IF k <= c THEN s[k] ELSE t[k - c]
    BY <1>5, <1>6, ConcatProperties
<1>17. ASSUME NEW k \in 1 .. c + d PROVE u[k] = (s \o t)[k]
    <2>1. CASE k <= c
        <3>1. k \in 1 .. c
            BY <1>5, <1>6, <2>1
        <3> QED
            BY <1>14, <1>16, <2>1, <3>1
    <2>2. CASE ~(k <= c)
        <3> DEFINE n == k - c
        <3>1. n \in 1 .. d /\ c + n = k
            BY <1>5, <1>6, <2>2
        <3>2. (s \o t)[k] = t[n]
            BY <1>16, <2>2
        <3> HIDE DEF n
        <3> QED
            BY <1>15, <3>1, <3>2
    <2> QED
        BY <2>1, <2>2
<1> DEFINE v == s \o t
<1>18. v \in Seq(Seq(Char)) /\ Len(u) = Len(v) /\ \A k \in 1 .. Len(u) : u[k] = v[k]
    BY <1>7, <1>11, <1>16, <1>17
<1> HIDE DEF v
<1>19. u = v
    BY <1>7, <1>18, SeqEqual
<1> QED
    BY <1>1, <1>19 DEF u, v, s, t, U

\* No components, and one.
LEMMA NoComponents ==
    ASSUME NEW text \in Seq(Char)
    PROVE  ComponentsIn(text, {}) = <<>>
<1> DEFINE c == ComponentsIn(text, {})
<1>1. SolidIn(text, {})
    BY DEF SolidIn
<1>2. c \in Seq(Seq(Char)) /\ Len(c) = Cardinality(Begins(text, {}))
    BY <1>1, ComponentTexts
<1>3. Begins(text, {}) = {}
    BY DEF Begins
<1>4. Cardinality({}) = 0
    BY FS_EmptySet
<1> HIDE DEF c
<1>5. Len(c) = 0
    BY <1>2, <1>3, <1>4
<1>6. c = <<>>
    BY <1>2, <1>5, EmptySeq
<1> QED
    BY <1>6 DEF c

LEMMA OneComponent ==
    ASSUME NEW text \in Seq(Char), NEW S, SolidIn(text, S), S # {},
           \A j, k \in S : j <= k => Joined(text, j, k)
    PROVE  ComponentsIn(text, S) = <<SubSeq(text, Min(S), Max(S))>>
<1> DEFINE m == Min(S)
           e == Max(S)
<1>1. /\ S \in SUBSET Nat /\ Len(text) \in Nat
      /\ \A k \in S : k \in Nat \ {0} /\ k <= Len(text)
    BY SolidPlaces
<1>2. m \in S /\ \A k \in S : m <= k
    BY <1>1, MinOf
<1>3. e \in S /\ \A k \in S : k <= e
    BY <1>1, MaxOf
<1> HIDE DEF m, e
<1>4. \A k \in S : ~(k < m) /\ (k # m => m < k)
    BY <1>1, <1>2
<1>5. Begins(text, S) = {m}
    <2>1. \A k \in S : k # m => k \notin Begins(text, S)
        <3>1. \A k \in S : m < k => Joined(text, m, k)
            BY <1>1, <1>2
        <3> QED
            BY <1>2, <1>4, <3>1 DEF Begins
    <2>2. m \in Begins(text, S)
        BY <1>2, <1>4 DEF Begins
    <2>3. Begins(text, S) \subseteq S
        BY DEF Begins
    <2> QED
        BY <2>1, <2>2, <2>3
<1>6. End(text, S, m) = e
    <2> DEFINE E == {j \in S : m <= j /\ Joined(text, m, j)}
    <2>1. E = S
        BY <1>2
    <2> QED
        BY <2>1 DEF End, e
<1>7. Cardinality({m}) = 1
    BY FS_Singleton
<1>8. Nth({m}, 1) = m
    <2>1. ~(m < m)
        BY <1>2, <1>4
    <2>2. Below({m}, m) = {}
        BY <2>1 DEF Below
    <2>3. Cardinality(Below({m}, m)) = 0
        BY <2>2, FS_EmptySet
    <2>4. {m} \in SUBSET Nat /\ m \in {m} /\ 1 \in Nat
        BY <1>1, <1>2
    <2>5. IsFiniteSet({m})
        BY FS_Singleton
    <2>6. Cardinality(Below({m}, m)) = 1 - 1
        BY <2>3
    <2> QED
        BY <2>4, <2>5, <2>6, NthIs
<1>9. ComponentsIn(text, S) = [n \in 1 .. 1 |-> SubSeq(text, Nth({m}, n), End(text, S, Nth({m}, n)))]
    BY <1>5, <1>7 DEF ComponentsIn
<1>10. ComponentsIn(text, S) = [n \in 1 .. 1 |-> SubSeq(text, m, e)]
    <2>1. \A n \in 1 .. 1 : n = 1
        OBVIOUS
    <2>2. \A n \in 1 .. 1 : SubSeq(text, Nth({m}, n), End(text, S, Nth({m}, n))) = SubSeq(text, m, e)
        BY <1>6, <1>8, <2>1
    <2> QED
        BY <1>9, <2>2
<1> QED
    BY <1>10 DEF m, e

-----------------------------------------------------------------------------
\* A path: some of the characters of a text.
Slice ==
    {p \in [text : Seq(Char), from : Nat \ {0}, to : Nat] :
        p.from <= p.to + 1 /\ p.to <= Len(p.text)}

LEMMA SliceIs ==
    ASSUME NEW p \in Slice
    PROVE  /\ p.text \in Seq(Char) /\ Len(p.text) \in Nat
           /\ p.from \in Nat \ {0} /\ p.to \in Nat
           /\ p.from <= p.to + 1 /\ p.to <= Len(p.text)
           /\ p = [text |-> p.text, from |-> p.from, to |-> p.to]
<1>1. p \in [text : Seq(Char), from : Nat \ {0}, to : Nat]
    BY DEF Slice
<1>2. p.from <= p.to + 1 /\ p.to <= Len(p.text)
    BY DEF Slice
<1>3. p.text \in Seq(Char)
    BY <1>1
<1>4. Len(p.text) \in Nat
    BY <1>3, LenProperties
<1> QED
    BY <1>1, <1>2, <1>3, <1>4

LEMMA IsSlice ==
    ASSUME NEW text \in Seq(Char), NEW from \in Nat \ {0}, NEW to \in Nat,
           from <= to + 1, to <= Len(text)
    PROVE  [text |-> text, from |-> from, to |-> to] \in Slice
BY DEF Slice

\* The places of characters of a path.
LEMMA PlaceIs ==
    ASSUME NEW p \in Slice
    PROVE  /\ SolidIn(p.text, Solid(p))
           /\ \A k \in p.from .. p.to : k \in Nat \ {0} /\ p.text[k] \in Char
           /\ \A k \in Nat : k \in Solid(p) <=>
                  p.from <= k /\ k <= p.to /\ p.text[k] \notin {"/", " "}
           /\ \A k \in Nat : k \in Places(p, {"/"}) <=>
                  p.from <= k /\ k <= p.to /\ p.text[k] = "/"
           /\ Solid(p) \in SUBSET Nat /\ Places(p, {"/"}) \in SUBSET Nat
<1>1. /\ p.text \in Seq(Char) /\ Len(p.text) \in Nat
      /\ p.from \in Nat \ {0} /\ p.to \in Nat /\ p.to <= Len(p.text)
    BY SliceIs
<1>2. \A k \in p.from .. p.to : k \in Nat \ {0} /\ k \in 1 .. Len(p.text)
    BY <1>1
<1>3. \A k \in p.from .. p.to : p.text[k] \in Char
    BY <1>1, <1>2, ElementOfSeq
<1>4. \A k \in Nat : k \in p.from .. p.to <=> p.from <= k /\ k <= p.to
    BY <1>1
<1>5. \A k : k \in Solid(p) <=> k \in p.from .. p.to /\ p.text[k] \notin {"/", " "}
    BY <1>3 DEF Solid, Places
<1>6. \A k : k \in Places(p, {"/"}) <=> k \in p.from .. p.to /\ p.text[k] = "/"
    BY DEF Places
<1>7. SolidIn(p.text, Solid(p))
    BY <1>2, <1>5 DEF SolidIn
<1> QED
    BY <1>2, <1>3, <1>4, <1>5, <1>6, <1>7

LEMMA ComponentsAre ==
    ASSUME NEW p \in Slice
    PROVE  ComponentsOf(p) \in Seq(Seq(Char)) /\ Len(ComponentsOf(p)) \in Nat
<1>1. p.text \in Seq(Char) /\ SolidIn(p.text, Solid(p))
    BY SliceIs, PlaceIs
<1>2. ComponentsIn(p.text, Solid(p)) \in Seq(Seq(Char))
    BY <1>1, ComponentTexts
<1> QED
    BY <1>2, LenProperties DEF ComponentsOf

LEMMA CharsAre ==
    ASSUME NEW p \in Slice
    PROVE  Chars(p) \in Seq(Char) /\ Len(Chars(p)) = Length(p) /\ Length(p) \in Nat
<1>1. /\ p.text \in Seq(Char) /\ Len(p.text) \in Nat
      /\ p.from \in Nat \ {0} /\ p.to \in Nat
      /\ p.from <= p.to + 1 /\ p.to <= Len(p.text)
    BY SliceIs
<1>2. \A k \in p.from .. p.to : p.text[k] \in Char
    BY PlaceIs
<1>3. p.from \in Int /\ p.to \in Int
    BY <1>1
<1>4. /\ SubSeq(p.text, p.from, p.to) \in Seq(Char)
      /\ Len(SubSeq(p.text, p.from, p.to)) =
             IF p.from <= p.to THEN p.to - p.from + 1 ELSE 0
    BY <1>2, <1>3, SubSeqProperties
<1>5. Length(p) \in Nat /\ Length(p) = IF p.from <= p.to THEN p.to - p.from + 1 ELSE 0
    BY <1>1 DEF Length
<1> QED
    BY <1>4, <1>5 DEF Chars

\* A path with no '/' and no blank at its ends.
Trimmed(p) ==
    IF Solid(p) = {} THEN Length(p) = 0 ELSE {p.from, p.to} \subseteq Solid(p)

LEMMA TrimIs ==
    ASSUME NEW p \in Slice
    PROVE  /\ Trim(p) \in Slice /\ Trim(p).text = p.text
           /\ Solid(Trim(p)) = Solid(p) /\ Trimmed(Trim(p))
           /\ p.from <= Trim(p).from /\ Trim(p).to <= p.to
           /\ Solid(p) = {} => Trim(p).from = p.to + 1
<1> DEFINE solid == Solid(p)
           m == Min(solid)
           e == Max(solid)
<1>1. /\ p.text \in Seq(Char) /\ Len(p.text) \in Nat
      /\ p.from \in Nat \ {0} /\ p.to \in Nat
      /\ p.from <= p.to + 1 /\ p.to <= Len(p.text)
      /\ p = [text |-> p.text, from |-> p.from, to |-> p.to]
    BY SliceIs
<1>2. /\ \A k \in Nat : k \in Solid(p) <=>
             p.from <= k /\ k <= p.to /\ p.text[k] \notin {"/", " "}
      /\ Solid(p) \in SUBSET Nat
    BY PlaceIs
<1>3. Trim(p) = IF solid = {} THEN [p EXCEPT !.from = p.to + 1]
                              ELSE [p EXCEPT !.from = m, !.to = e]
    BY DEF Trim, Solid
<1>4. CASE solid = {}
    <2> DEFINE q == [text |-> p.text, from |-> p.to + 1, to |-> p.to]
    <2>1. Trim(p) = q
        BY <1>1, <1>3, <1>4
    <2>2. q \in Slice
        <3>1. p.to + 1 \in Nat \ {0} /\ p.to + 1 <= p.to + 1
            BY <1>1
        <3> QED
            BY <1>1, <3>1, IsSlice
    <2>3. q.from = p.to + 1 /\ q.to = p.to /\ q.text = p.text
        OBVIOUS
    <2> HIDE DEF q
    <2>4. Solid(q) = {}
        <3>1. q.from .. q.to = {}
            BY <1>1, <2>3
        <3> QED
            BY <3>1 DEF Solid, Places
    <2>5. Length(q) = 0
        BY <1>1, <2>3 DEF Length
    <2> QED
        BY <1>1, <1>4, <2>1, <2>2, <2>3, <2>4, <2>5 DEF Trimmed
<1>5. CASE solid # {}
    <2> HIDE DEF solid
    <2>1. solid \in SUBSET Nat /\ \A k \in solid : p.from <= k /\ k <= p.to
        BY <1>2 DEF solid
    <2>2. m \in solid /\ \A k \in solid : m <= k
        BY <1>5, <2>1, MinOf
    <2>3. e \in solid /\ \A k \in solid : k <= e
        BY <1>1, <1>5, <2>1, MaxOf
    <2> HIDE DEF m, e
    <2> DEFINE q == [text |-> p.text, from |-> m, to |-> e]
    <2>4. Trim(p) = q
        BY <1>1, <1>3, <1>5
    <2>5. /\ m \in Nat \ {0} /\ e \in Nat /\ m <= e /\ m <= e + 1 /\ e <= Len(p.text)
          /\ p.from <= m /\ e <= p.to
        <3>1. m \in Nat /\ e \in Nat /\ m <= e /\ p.from <= m /\ e <= p.to
            BY <2>1, <2>2, <2>3
        <3> QED
            BY <1>1, <3>1
    <2>6. q \in Slice
        BY <1>1, <2>5, IsSlice
    <2>7. q.from = m /\ q.to = e /\ q.text = p.text
        OBVIOUS
    <2> HIDE DEF q
    <2>8. Solid(q) = solid
        <3>1. /\ \A k \in Nat : k \in Solid(q) <=>
                    q.from <= k /\ k <= q.to /\ q.text[k] \notin {"/", " "}
              /\ Solid(q) \in SUBSET Nat
            BY <2>6, PlaceIs
        <3>2. \A k \in Nat : m <= k /\ k <= e => p.from <= k /\ k <= p.to
            BY <1>1, <2>5
        <3>3. \A k \in Nat : k \in Solid(q) <=> k \in solid
            BY <1>2, <2>2, <2>3, <2>7, <3>1, <3>2 DEF solid
        <3> QED
            BY <2>1, <3>1, <3>3
    <2>9. Trimmed(q)
        BY <1>5, <2>2, <2>3, <2>7, <2>8 DEF Trimmed
    <2> QED
        BY <1>5, <2>4, <2>5, <2>6, <2>7, <2>8, <2>9 DEF solid
<1> QED
    BY <1>4, <1>5

\* A path without a separator is a component or nothing.
LEMMA PieceIs ==
    ASSUME NEW p \in Slice, Trimmed(p), Places(p, {"/"}) = {}
    PROVE  /\ Solid(p) = {} => Chars(p) = <<>> /\ ComponentsOf(p) = <<>>
           /\ Solid(p) # {} => Chars(p) # <<>> /\ ComponentsOf(p) = <<Chars(p)>>
<1>1. /\ p.text \in Seq(Char) /\ Len(p.text) \in Nat
      /\ p.from \in Nat \ {0} /\ p.to \in Nat
      /\ p.from <= p.to + 1 /\ p.to <= Len(p.text)
    BY SliceIs
<1>2. /\ SolidIn(p.text, Solid(p)) /\ Solid(p) \in SUBSET Nat
      /\ \A k \in Nat : k \in Solid(p) <=>
             p.from <= k /\ k <= p.to /\ p.text[k] \notin {"/", " "}
      /\ \A k \in Nat : k \in Places(p, {"/"}) <=>
             p.from <= k /\ k <= p.to /\ p.text[k] = "/"
    BY PlaceIs
<1>3. Chars(p) \in Seq(Char) /\ Len(Chars(p)) = Length(p)
    BY CharsAre
<1>4. ASSUME Solid(p) = {} PROVE Chars(p) = <<>> /\ ComponentsOf(p) = <<>>
    <2>1. Len(Chars(p)) = 0
        BY <1>3, <1>4 DEF Trimmed
    <2>2. Chars(p) = <<>>
        BY <1>3, <2>1, EmptySeq
    <2>3. ComponentsIn(p.text, {}) = <<>>
        BY <1>1, NoComponents
    <2> QED
        BY <1>4, <2>2, <2>3 DEF ComponentsOf
<1>5. ASSUME Solid(p) # {} PROVE Chars(p) # <<>> /\ ComponentsOf(p) = <<Chars(p)>>
    <2>1. p.from \in Solid(p) /\ p.to \in Solid(p)
        BY <1>5 DEF Trimmed
    <2>2. \A k \in Solid(p) : k \in Nat /\ p.from <= k /\ k <= p.to
        BY <1>2
    <2>3. Min(Solid(p)) = p.from
        BY <1>2, <2>1, <2>2, MinIs
    <2>4. Max(Solid(p)) = p.to
        BY <1>2, <2>1, <2>2, MaxIs
    <2>5. \A i \in Nat : p.from <= i /\ i <= p.to => p.text[i] # "/"
        BY <1>2
    <2>6. ASSUME NEW j \in Solid(p), NEW k \in Solid(p) PROVE Joined(p.text, j, k)
        <3>1. j \in Nat /\ k \in Nat /\ p.from <= j /\ k <= p.to
            BY <2>2
        <3>2. \A i \in j .. k : i \in Nat /\ p.from <= i /\ i <= p.to
            BY <1>1, <3>1
        <3> QED
            BY <2>5, <3>2 DEF Joined
    <2>7. ComponentsIn(p.text, Solid(p)) = <<SubSeq(p.text, Min(Solid(p)), Max(Solid(p)))>>
        BY <1>1, <1>2, <1>5, <2>6, OneComponent
    <2>8. Length(p) # 0
        <3>1. p.from <= p.to
            BY <2>1, <2>2
        <3> QED
            BY <1>1, <3>1 DEF Length
    <2>9. Chars(p) # <<>>
        BY <1>3, <2>8, EmptySeq
    <2> QED
        BY <2>3, <2>4, <2>7, <2>9 DEF ComponentsOf, Chars
<1> QED
    BY <1>4, <1>5

LEMMA SplitIs ==
    ASSUME NEW p \in Slice, NEW at \in Places(p, {"/"})
    PROVE  LET b == Split(p, at).before
               a == Split(p, at).after
           IN  /\ b \in Slice /\ b.text = p.text /\ Trimmed(b)
               /\ a \in Slice /\ a.text = p.text /\ Trimmed(a)
               /\ p.from <= b.from /\ b.to < at /\ at <= a.from /\ a.to <= p.to
               /\ \A k \in Solid(b) : k < at
               /\ Solid(a) = {} => a.from = p.to + 1
               /\ Solid(p) = Solid(b) \cup Solid(a)
               /\ Parted(p.text, Solid(b), Solid(a))
<1> DEFINE y == [p EXCEPT !.to = at - 1]
           z == [p EXCEPT !.from = at]
           b == Trim(y)
           a == Trim(z)
<1>1. /\ p.text \in Seq(Char) /\ Len(p.text) \in Nat
      /\ p.from \in Nat \ {0} /\ p.to \in Nat
      /\ p.from <= p.to + 1 /\ p.to <= Len(p.text)
      /\ p = [text |-> p.text, from |-> p.from, to |-> p.to]
    BY SliceIs
<1>2. /\ SolidIn(p.text, Solid(p)) /\ Solid(p) \in SUBSET Nat
      /\ \A k \in Nat : k \in Solid(p) <=>
             p.from <= k /\ k <= p.to /\ p.text[k] \notin {"/", " "}
      /\ \A k \in Nat : k \in Places(p, {"/"}) <=>
             p.from <= k /\ k <= p.to /\ p.text[k] = "/"
      /\ Places(p, {"/"}) \in SUBSET Nat
    BY PlaceIs
<1>3. at \in Nat /\ p.from <= at /\ at <= p.to /\ p.text[at] = "/"
    BY <1>2
<1>4. Split(p, at).before = b /\ Split(p, at).after = a
    BY DEF Split
<1>5. y = [text |-> p.text, from |-> p.from, to |-> at - 1]
    BY <1>1
<1>6. z = [text |-> p.text, from |-> at, to |-> p.to]
    BY <1>1
<1>7. at - 1 \in Nat /\ p.from <= at - 1 + 1 /\ at - 1 <= Len(p.text)
    BY <1>1, <1>3
<1>8. at \in Nat \ {0} /\ at <= p.to + 1
    BY <1>1, <1>3
<1>9. y \in Slice /\ y.text = p.text /\ y.from = p.from /\ y.to = at - 1
    <2>1. [text |-> p.text, from |-> p.from, to |-> at - 1] \in Slice
        BY <1>1, <1>7, IsSlice
    <2> QED
        BY <1>5, <2>1
<1>10. z \in Slice /\ z.text = p.text /\ z.from = at /\ z.to = p.to
    <2>1. [text |-> p.text, from |-> at, to |-> p.to] \in Slice
        BY <1>1, <1>8, IsSlice
    <2> QED
        BY <1>6, <2>1
<1> HIDE DEF y, z
<1>11. /\ b \in Slice /\ b.text = y.text /\ Solid(b) = Solid(y) /\ Trimmed(b)
       /\ y.from <= b.from /\ b.to <= y.to
    BY <1>9, TrimIs
<1>12. /\ a \in Slice /\ a.text = z.text /\ Solid(a) = Solid(z) /\ Trimmed(a)
       /\ z.from <= a.from /\ a.to <= z.to /\ (Solid(z) = {} => a.from = z.to + 1)
    BY <1>10, TrimIs
<1> HIDE DEF a, b
<1>13. /\ \A k \in Nat : k \in Solid(y) <=>
              p.from <= k /\ k <= at - 1 /\ p.text[k] \notin {"/", " "}
       /\ Solid(y) \in SUBSET Nat
    <2>1. y \in Slice
        BY <1>9
    <2>2. /\ \A k \in Nat : k \in Solid(y) <=>
                 y.from <= k /\ k <= y.to /\ y.text[k] \notin {"/", " "}
          /\ Solid(y) \in SUBSET Nat
        BY <2>1, PlaceIs
    <2> QED
        BY <1>9, <2>2
<1>14. /\ \A k \in Nat : k \in Solid(z) <=>
              at <= k /\ k <= p.to /\ p.text[k] \notin {"/", " "}
       /\ Solid(z) \in SUBSET Nat
    BY <1>10, PlaceIs
<1>15. Solid(p) = Solid(y) \cup Solid(z)
    <2>1. \A k \in Nat : p.from <= k /\ k <= p.to <=>
              (p.from <= k /\ k <= at - 1) \/ (at <= k /\ k <= p.to)
        BY <1>1, <1>3
    <2>2. \A k \in Nat : k \in Solid(p) <=> k \in Solid(y) \/ k \in Solid(z)
        BY <1>2, <1>13, <1>14, <2>1
    <2> QED
        BY <1>2, <1>13, <1>14, <2>2
<1>16. \A k \in Solid(y) : k \in Nat /\ k < at
    <2>1. \A k \in Solid(y) : k \in Nat /\ k <= at - 1
        BY <1>13
    <2> QED
        BY <1>3, <2>1
<1>17. Parted(p.text, Solid(y), Solid(z))
    <2> SUFFICES ASSUME NEW j \in Solid(y), NEW k \in Solid(z)
                 PROVE  j < k /\ ~Joined(p.text, j, k)
        BY DEF Parted
    <2>1. j \in Nat /\ k \in Nat /\ j < at /\ at <= k
        BY <1>14, <1>16
    <2>2. j < k /\ at \in j .. k
        BY <1>3, <2>1
    <2> QED
        BY <1>3, <2>2 DEF Joined
<1>18. b.to < at
    <2>1. b.to \in Nat /\ b.to <= at - 1
        BY <1>9, <1>11, SliceIs
    <2> QED
        BY <1>3, <2>1
<1>19. /\ b \in Slice /\ b.text = p.text /\ Trimmed(b)
       /\ a \in Slice /\ a.text = p.text /\ Trimmed(a)
       /\ p.from <= b.from /\ b.to < at /\ at <= a.from /\ a.to <= p.to
       /\ Solid(a) = {} => a.from = p.to + 1
    BY <1>9, <1>10, <1>11, <1>12, <1>18
<1>20. /\ \A k \in Solid(b) : k < at
       /\ Solid(p) = Solid(b) \cup Solid(a)
       /\ Parted(p.text, Solid(b), Solid(a))
    BY <1>11, <1>12, <1>15, <1>16, <1>17
<1> QED
    BY <1>4, <1>19, <1>20

\* What a trimmed path with a separator has at its ends.
LEMMA EndsOf ==
    ASSUME NEW p \in Slice, Trimmed(p), NEW at \in Places(p, {"/"})
    PROVE  /\ p.from \in Solid(p) /\ p.to \in Solid(p)
           /\ p.from < at /\ at < p.to
           /\ p.from \in Solid(Split(p, at).before) /\ p.to \in Solid(Split(p, at).after)
<1> DEFINE b == Split(p, at).before
           a == Split(p, at).after
<1>1. p.from \in Nat \ {0} /\ p.to \in Nat
    BY SliceIs
<1>2. /\ \A k \in Nat : k \in Solid(p) <=>
             p.from <= k /\ k <= p.to /\ p.text[k] \notin {"/", " "}
      /\ Solid(p) \in SUBSET Nat
    BY PlaceIs
<1>3. at \in Nat /\ p.from <= at /\ at <= p.to /\ p.text[at] = "/"
    BY PlaceIs
<1>4. at \in Nat /\ p.from <= at /\ at <= p.to
    BY <1>3
<1>5. Length(p) # 0
    BY <1>1, <1>4 DEF Length
<1>6. p.from \in Solid(p) /\ p.to \in Solid(p)
    BY <1>5 DEF Trimmed
<1>7. p.from # at /\ p.to # at
    BY <1>1, <1>2, <1>6, <1>3
<1>8. p.from < at /\ at < p.to
    BY <1>1, <1>7, <1>4
<1>9. /\ a \in Slice /\ at <= a.from /\ \A k \in Solid(b) : k < at
      /\ Solid(p) = Solid(b) \cup Solid(a)
    BY SplitIs
<1> HIDE DEF a, b
<1>10. \A k \in Solid(a) : k \in Nat /\ at <= k
    <2>1. /\ \A k \in Nat : k \in Solid(a) => a.from <= k
          /\ Solid(a) \in SUBSET Nat /\ a.from \in Nat
        BY <1>9, PlaceIs, SliceIs
    <2>2. \A k \in Solid(a) : k \in Nat /\ a.from <= k
        BY <2>1
    <2>3. a.from \in Nat /\ at <= a.from
        BY <1>9, <2>1
    <2> QED
        BY <1>4, <2>2, <2>3
<1>11. p.from \notin Solid(a)
    <2>1. ~(at <= p.from)
        BY <1>1, <1>8, <1>4
    <2> QED
        BY <1>10, <2>1
<1>12. p.to \notin Solid(b)
    <2>1. ~(p.to < at)
        BY <1>1, <1>8, <1>4
    <2> QED
        BY <1>9, <2>1
<1> QED
    BY <1>6, <1>8, <1>9, <1>11, <1>12 DEF a, b

\* Nothing of a path.
LEMMA NothingIs ==
    ASSUME NEW p \in Slice
    PROVE  /\ Nothing(p) \in Slice /\ Nothing(p).text = p.text
           /\ Nothing(p).from = p.to + 1 /\ Nothing(p).to = p.to
           /\ Solid(Nothing(p)) = {} /\ Trimmed(Nothing(p))
<1> DEFINE q == [text |-> p.text, from |-> p.to + 1, to |-> p.to]
<1>1. /\ p.text \in Seq(Char) /\ Len(p.text) \in Nat
      /\ p.from \in Nat \ {0} /\ p.to \in Nat
      /\ p.from <= p.to + 1 /\ p.to <= Len(p.text)
      /\ p = [text |-> p.text, from |-> p.from, to |-> p.to]
    BY SliceIs
<1>2. Nothing(p) = q
    BY <1>1 DEF Nothing
<1>3. q \in Slice
    <2>1. p.to + 1 \in Nat \ {0} /\ p.to + 1 <= p.to + 1
        BY <1>1
    <2> QED
        BY <1>1, <2>1, IsSlice
<1>4. q.from = p.to + 1 /\ q.to = p.to /\ q.text = p.text
    OBVIOUS
<1> HIDE DEF q
<1>5. Solid(q) = {}
    <2>1. q.from .. q.to = {}
        BY <1>1, <1>4
    <2> QED
        BY <2>1 DEF Solid, Places
<1>6. Length(q) = 0
    BY <1>1, <1>4 DEF Length
<1> QED
    BY <1>2, <1>3, <1>4, <1>5, <1>6 DEF Trimmed

\* A component of a path: a slice of its text, and the only component there,
\* or nothing.
IsComponent(p, f) ==
    /\ f \in Slice /\ f.text = p.text
    /\ Solid(p) = {} => Solid(f) = {} /\ Chars(f) = <<>>
    /\ Solid(p) # {} => Chars(f) # <<>> /\ ComponentsOf(f) = <<Chars(f)>>

\* tfs_path_pop_first: the component is before the rest.
LEMMA PopFirstIs ==
    ASSUME NEW p \in Slice
    PROVE  LET f == PopFirst(p).component
               r == PopFirst(p).rest
           IN  /\ IsComponent(p, f)
               /\ r \in Slice /\ r.text = p.text /\ Trimmed(r)
               /\ p.from <= r.from /\ r.to <= p.to /\ \A k \in Solid(f) : k < r.from
               /\ Solid(p) = Solid(f) \cup Solid(r)
               /\ Parted(p.text, Solid(f), Solid(r))
<1> DEFINE self == Trim(p)
           at == Min(Places(self, {"/"}))
           f == PopFirst(p).component
           r == PopFirst(p).rest
<1>1. /\ self \in Slice /\ self.text = p.text
      /\ Solid(self) = Solid(p) /\ Trimmed(self)
      /\ p.from <= self.from /\ self.to <= p.to
    BY TrimIs
<1>2. p.to \in Nat /\ p.from \in Nat /\ self.from \in Nat /\ self.to \in Nat /\ self.from <= self.to + 1
    BY <1>1, SliceIs
<1>3. CASE Places(self, {"/"}) = {}
    <2>1. f = self /\ r = Nothing(self)
        BY <1>3 DEF PopFirst
    <2>2. /\ r \in Slice /\ r.text = p.text /\ Trimmed(r)
          /\ r.from = self.to + 1 /\ r.to = self.to /\ Solid(r) = {}
        BY <1>1, <2>1, NothingIs
    <2>3. /\ Solid(self) = {} => Chars(self) = <<>> /\ ComponentsOf(self) = <<>>
          /\ Solid(self) # {} => Chars(self) # <<>> /\ ComponentsOf(self) = <<Chars(self)>>
        BY <1>1, <1>3, PieceIs
    <2> HIDE DEF self, f, r
    <2>4. IsComponent(p, f)
        BY <1>1, <2>1, <2>3 DEF IsComponent
    <2>5. p.from <= r.from /\ r.to <= p.to
        BY <1>1, <1>2, <2>2
    <2>6. \A k \in Solid(f) : k < r.from
        <3>1. \A k \in Nat : k \in Solid(self) => k <= self.to
            BY <1>1, PlaceIs
        <3>2. Solid(self) \in SUBSET Nat
            BY <1>1, PlaceIs
        <3>3. \A k \in Solid(self) : k \in Nat /\ k <= self.to
            BY <3>1, <3>2
        <3>4. \A k \in Solid(self) : k < self.to + 1
            BY <1>2, <3>3
        <3> QED
            BY <2>1, <2>2, <3>4
    <2>7. Solid(p) = Solid(f) \cup Solid(r) /\ Parted(p.text, Solid(f), Solid(r))
        BY <1>1, <2>1, <2>2 DEF Parted
    <2> QED
        BY <2>2, <2>4, <2>5, <2>6, <2>7 DEF f, r
<1>4. CASE Places(self, {"/"}) # {}
    <2>1. /\ Places(self, {"/"}) \in SUBSET Nat
          /\ \A k \in Nat : k \in Places(self, {"/"}) <=>
                 self.from <= k /\ k <= self.to /\ self.text[k] = "/"
        BY <1>1, PlaceIs
    <2>2. at \in Places(self, {"/"}) /\ \A k \in Places(self, {"/"}) : at <= k
        BY <1>4, <2>1, MinOf
    <2>3. f = Split(self, at).before /\ r = Split(self, at).after
        BY <1>4 DEF PopFirst
    <2> HIDE DEF self, at, f, r
    <2>4. /\ f \in Slice /\ f.text = self.text /\ Trimmed(f)
          /\ r \in Slice /\ r.text = self.text /\ Trimmed(r)
          /\ self.from <= f.from /\ f.to < at /\ at <= r.from /\ r.to <= self.to
          /\ \A k \in Solid(f) : k < at
          /\ Solid(self) = Solid(f) \cup Solid(r)
          /\ Parted(self.text, Solid(f), Solid(r))
        BY <1>1, <2>2, <2>3, SplitIs
    <2>5. self.from \in Solid(self) /\ self.from < at /\ at < self.to /\ self.from \in Solid(f)
        BY <1>1, <2>2, <2>3, EndsOf
    <2>6. at \in Nat /\ f.to \in Nat /\ f.from \in Nat /\ r.from \in Nat /\ r.to \in Nat
        BY <2>1, <2>2, <2>4, SliceIs
    <2>7. Places(f, {"/"}) = {}
        <3> SUFFICES ASSUME NEW k \in Places(f, {"/"}) PROVE FALSE
            OBVIOUS
        <3>1. k \in Nat /\ f.from <= k /\ k <= f.to /\ f.text[k] = "/"
            BY <2>4, PlaceIs
        <3>2. self.from <= k /\ k <= self.to /\ ~(at <= k)
            BY <1>2, <2>4, <2>5, <2>6, <3>1
        <3>3. k \in Places(self, {"/"})
            BY <2>1, <2>4, <3>1, <3>2
        <3> QED
            BY <2>2, <3>2, <3>3
    <2>8. Chars(f) # <<>> /\ ComponentsOf(f) = <<Chars(f)>>
        BY <2>4, <2>5, <2>7, PieceIs
    <2>9. IsComponent(p, f)
        BY <1>1, <2>4, <2>5, <2>8 DEF IsComponent
    <2>10. p.from <= r.from /\ r.to <= p.to
        BY <1>1, <1>2, <2>4, <2>5, <2>6
    <2>11. \A k \in Solid(f) : k < r.from
        <3>1. \A k \in Solid(f) : k \in Nat
            BY <2>4, PlaceIs
        <3> QED
            BY <2>4, <2>6, <3>1
    <2> QED
        BY <1>1, <2>4, <2>9, <2>10, <2>11 DEF f, r
<1> QED
    BY <1>3, <1>4

\* tfs_path_pop_last: the component is after the rest.
LEMMA PopLastIs ==
    ASSUME NEW p \in Slice
    PROVE  LET f == PopLast(p).component
               r == PopLast(p).rest
           IN  /\ IsComponent(p, f)
               /\ r \in Slice /\ r.text = p.text /\ Trimmed(r)
               /\ Solid(p) = Solid(r) \cup Solid(f)
               /\ Parted(p.text, Solid(r), Solid(f))
<1> DEFINE self == Trim(p)
           at == Max(Places(self, {"/"}))
           f == PopLast(p).component
           r == PopLast(p).rest
<1>1. /\ self \in Slice /\ self.text = p.text
      /\ Solid(self) = Solid(p) /\ Trimmed(self)
    BY TrimIs
<1>2. self.from \in Nat /\ self.to \in Nat
    BY <1>1, SliceIs
<1>3. CASE Places(self, {"/"}) = {}
    <2>1. f = self /\ r = Nothing(self)
        BY <1>3 DEF PopLast
    <2>2. r \in Slice /\ r.text = p.text /\ Trimmed(r) /\ Solid(r) = {}
        BY <1>1, <2>1, NothingIs
    <2>3. /\ Solid(self) = {} => Chars(self) = <<>> /\ ComponentsOf(self) = <<>>
          /\ Solid(self) # {} => Chars(self) # <<>> /\ ComponentsOf(self) = <<Chars(self)>>
        BY <1>1, <1>3, PieceIs
    <2> HIDE DEF self, f, r
    <2>4. IsComponent(p, f)
        BY <1>1, <2>1, <2>3 DEF IsComponent
    <2>5. Solid(p) = Solid(r) \cup Solid(f) /\ Parted(p.text, Solid(r), Solid(f))
        BY <1>1, <2>1, <2>2 DEF Parted
    <2> QED
        BY <2>2, <2>4, <2>5 DEF f, r
<1>4. CASE Places(self, {"/"}) # {}
    <2>1. /\ Places(self, {"/"}) \in SUBSET Nat
          /\ \A k \in Nat : k \in Places(self, {"/"}) <=>
                 self.from <= k /\ k <= self.to /\ self.text[k] = "/"
        BY <1>1, PlaceIs
    <2>2. at \in Places(self, {"/"}) /\ \A k \in Places(self, {"/"}) : k <= at
        <3>1. \A k \in Places(self, {"/"}) : k <= self.to
            BY <2>1
        <3> QED
            BY <1>2, <1>4, <2>1, <3>1, MaxOf
    <2>3. f = Split(self, at).after /\ r = Split(self, at).before
        BY <1>4 DEF PopLast
    <2> HIDE DEF self, at, f, r
    <2>4. /\ f \in Slice /\ f.text = self.text /\ Trimmed(f)
          /\ r \in Slice /\ r.text = self.text /\ Trimmed(r)
          /\ at <= f.from /\ f.to <= self.to
          /\ Solid(self) = Solid(r) \cup Solid(f)
          /\ Parted(self.text, Solid(r), Solid(f))
        BY <1>1, <2>2, <2>3, SplitIs
    <2>5. self.to \in Solid(self) /\ self.from < at /\ self.to \in Solid(f)
        BY <1>1, <2>2, <2>3, EndsOf
    <2>6. at \in Nat /\ f.to \in Nat /\ f.from \in Nat
        BY <2>1, <2>2, <2>4, SliceIs
    <2>7. f.from # at
        <3>1. f.from \in Solid(f)
            BY <2>4, <2>5 DEF Trimmed
        <3>2. f.text[f.from] # "/"
            BY <2>4, <2>6, <3>1, PlaceIs
        <3>3. self.text[at] = "/"
            BY <2>1, <2>2
        <3> QED
            BY <2>4, <3>2, <3>3
    <2>8. Places(f, {"/"}) = {}
        <3> SUFFICES ASSUME NEW k \in Places(f, {"/"}) PROVE FALSE
            OBVIOUS
        <3>1. k \in Nat /\ f.from <= k /\ k <= f.to /\ f.text[k] = "/"
            BY <2>4, PlaceIs
        <3>2. self.from <= k /\ k <= self.to /\ ~(k <= at)
            BY <1>2, <2>4, <2>5, <2>6, <2>7, <3>1
        <3>3. k \in Places(self, {"/"})
            BY <2>1, <2>4, <3>1, <3>2
        <3> QED
            BY <2>2, <3>2, <3>3
    <2>9. Chars(f) # <<>> /\ ComponentsOf(f) = <<Chars(f)>>
        BY <2>4, <2>5, <2>8, PieceIs
    <2>10. IsComponent(p, f)
        BY <1>1, <2>4, <2>5, <2>9 DEF IsComponent
    <2> QED
        BY <1>1, <2>4, <2>10 DEF f, r
<1> QED
    BY <1>3, <1>4

-----------------------------------------------------------------------------
\* The beginning and the rest of a sequence.
LEMMA PartsOf ==
    ASSUME NEW S, NEW s \in Seq(S), NEW n \in 0 .. Len(s)
    PROVE  /\ Len(s) \in Nat /\ n \in Nat
           /\ SubSeq(s, 1, n) \in Seq(S) /\ Len(SubSeq(s, 1, n)) = n
           /\ \A k \in 1 .. n : SubSeq(s, 1, n)[k] = s[k]
           /\ SubSeq(s, n + 1, Len(s)) \in Seq(S)
           /\ Len(SubSeq(s, n + 1, Len(s))) = Len(s) - n
           /\ \A k \in 1 .. Len(s) - n : SubSeq(s, n + 1, Len(s))[k] = s[n + k]
<1> DEFINE c == Len(s)
           m == n + 1
<1>1. c \in Nat
    BY LenProperties
<1>2. n \in Nat /\ n <= c
    BY <1>1
<1>3. /\ \A k \in 1 .. n : k \in 1 .. c
      /\ \A k \in m .. c : k \in 1 .. c
    BY <1>1, <1>2
<1>4. \A k \in 1 .. c : s[k] \in S
    BY ElementOfSeq
<1> HIDE DEF c
<1>5. /\ SubSeq(s, 1, n) \in Seq(S) /\ Len(SubSeq(s, 1, n)) = IF 1 <= n THEN n - 1 + 1 ELSE 0
      /\ \A k \in 1 .. n - 1 + 1 : SubSeq(s, 1, n)[k] = s[1 + k - 1]
    <2>1. 1 \in Int /\ n \in Int /\ \A k \in 1 .. n : s[k] \in S
        BY <1>2, <1>3, <1>4
    <2> QED
        BY <2>1, SubSeqProperties
<1>6. m \in Int /\ c \in Int
    BY <1>1, <1>2
<1> HIDE DEF m
<1>7. /\ SubSeq(s, m, c) \in Seq(S) /\ Len(SubSeq(s, m, c)) = IF m <= c THEN c - m + 1 ELSE 0
      /\ \A k \in 1 .. c - m + 1 : SubSeq(s, m, c)[k] = s[m + k - 1]
    <2>1. \A k \in m .. c : s[k] \in S
        BY <1>3, <1>4
    <2> QED
        BY <1>6, <2>1, SubSeqProperties
<1>8. Len(SubSeq(s, 1, n)) = n
    BY <1>2, <1>5
<1>9. /\ n - 1 + 1 = n
      /\ \A k \in 1 .. n : 1 + k - 1 = k
    BY <1>2
<1>10. \A k \in 1 .. n : SubSeq(s, 1, n)[k] = s[k]
    BY <1>5, <1>9
<1>11. Len(SubSeq(s, m, c)) = c - n
    BY <1>1, <1>2, <1>7 DEF m
<1>12. /\ c - m + 1 = c - n
       /\ \A k \in 1 .. c - n : m + k - 1 = n + k
    BY <1>1, <1>2 DEF m
<1>13. \A k \in 1 .. c - n : SubSeq(s, m, c)[k] = s[n + k]
    BY <1>7, <1>12
<1> QED
    BY <1>1, <1>2, <1>5, <1>7, <1>8, <1>10, <1>11, <1>13 DEF c, m

LEMMA SameSeq ==
    ASSUME NEW S, NEW s \in Seq(S), NEW t \in Seq(S), NEW n \in Nat,
           Len(s) = n, Len(t) = n, \A k \in 1 .. n : s[k] = t[k]
    PROVE  s = t
BY SeqEqual

\* What comes first in a sequence, or last.
LEMMA FirstAndRest ==
    ASSUME NEW S, NEW c \in S, NEW t \in Seq(S)
    PROVE  /\ <<c>> \o t \in Seq(S) /\ Len(t) \in Nat /\ Len(<<c>> \o t) = Len(t) + 1
           /\ <<c>> \o t # <<>>
           /\ (<<c>> \o t)[1] = c /\ \A k \in 1 .. Len(t) : (<<c>> \o t)[1 + k] = t[k]
<1> DEFINE u == <<c>>
           v == u \o t
<1>1. u \in Seq(S) /\ Len(u) = 1 /\ u[1] = c
    OBVIOUS
<1>2. Len(t) \in Nat
    BY LenProperties
<1> HIDE DEF u
<1>3. /\ v \in Seq(S) /\ Len(v) = 1 + Len(t)
      /\ \A k \in 1 .. 1 + Len(t) : v[k] = IF k <= 1 THEN u[k] ELSE t[k - 1]
    <2>1. /\ v \in Seq(S) /\ Len(v) = Len(u) + Len(t)
          /\ \A k \in 1 .. Len(u) + Len(t) :
                 v[k] = IF k <= Len(u) THEN u[k] ELSE t[k - Len(u)]
        BY <1>1, ConcatProperties
    <2> QED
        BY <1>1, <2>1
<1> HIDE DEF v
<1>4. 1 \in 1 .. 1 + Len(t)
    BY <1>2
<1>5. v[1] = c
    BY <1>1, <1>3, <1>4
<1>6. ASSUME NEW k \in 1 .. Len(t) PROVE v[1 + k] = t[k]
    <2> DEFINE i == 1 + k
    <2>1. i \in 1 .. 1 + Len(t) /\ ~(i <= 1) /\ i - 1 = k
        BY <1>2
    <2> HIDE DEF i
    <2>2. v[i] = t[k]
        BY <1>3, <2>1
    <2> QED
        BY <2>2 DEF i
<1>7. Len(v) = Len(t) + 1 /\ Len(v) # 0
    BY <1>2, <1>3
<1>8. v # <<>>
    BY <1>7, EmptySeq
<1> QED
    BY <1>2, <1>3, <1>5, <1>6, <1>7, <1>8 DEF u, v

LEMMA RestAndLast ==
    ASSUME NEW S, NEW c \in S, NEW t \in Seq(S)
    PROVE  /\ t \o <<c>> \in Seq(S) /\ Len(t) \in Nat /\ Len(t \o <<c>>) = Len(t) + 1
           /\ t \o <<c>> # <<>>
           /\ (t \o <<c>>)[Len(t) + 1] = c /\ \A k \in 1 .. Len(t) : (t \o <<c>>)[k] = t[k]
<1> DEFINE u == <<c>>
           v == t \o u
           n == Len(t)
           e == n + 1
<1>1. u \in Seq(S) /\ Len(u) = 1 /\ u[1] = c
    OBVIOUS
<1>2. n \in Nat
    BY LenProperties
<1> HIDE DEF u, n
<1>3. /\ v \in Seq(S) /\ Len(v) = n + 1
      /\ \A k \in 1 .. n + 1 : v[k] = IF k <= n THEN t[k] ELSE u[k - n]
    BY <1>1, ConcatProperties DEF n
<1> HIDE DEF v
<1>4. e \in 1 .. n + 1 /\ ~(e <= n) /\ e - n = 1
    BY <1>2
<1>5. \A k \in 1 .. n : k \in 1 .. n + 1 /\ k <= n
    BY <1>2
<1> HIDE DEF e
<1>6. v[e] = c
    BY <1>1, <1>3, <1>4
<1>7. \A k \in 1 .. n : v[k] = t[k]
    BY <1>3, <1>5
<1>8. Len(v) # 0
    BY <1>2, <1>3
<1>9. v # <<>>
    BY <1>8, EmptySeq
<1> QED
    BY <1>2, <1>3, <1>6, <1>7, <1>9 DEF u, v, n, e

LEMMA TailIs ==
    ASSUME NEW S, NEW c \in S, NEW t \in Seq(S)
    PROVE  Head(<<c>> \o t) = c /\ Tail(<<c>> \o t) = t
<1> DEFINE v == <<c>> \o t
           n == Len(t)
<1>1. /\ v \in Seq(S) /\ n \in Nat /\ Len(v) = n + 1 /\ v # <<>>
      /\ v[1] = c /\ \A k \in 1 .. n : v[1 + k] = t[k]
    BY FirstAndRest
<1> HIDE DEF v, n
<1>2. Head(v) = c
    BY <1>1
<1>3. /\ Tail(v) \in Seq(S) /\ Len(Tail(v)) = Len(v) - 1
      /\ \A k \in 1 .. Len(Tail(v)) : Tail(v)[k] = v[k + 1]
    BY <1>1, HeadTailProperties
<1>4. Len(Tail(v)) = n
    BY <1>1, <1>3
<1>5. \A k \in 1 .. n : k + 1 = 1 + k
    BY <1>1
<1>6. \A k \in 1 .. n : Tail(v)[k] = t[k]
    BY <1>1, <1>3, <1>4, <1>5
<1>7. Tail(v) = t
    BY <1>1, <1>3, <1>4, <1>6, SameSeq DEF n
<1> QED
    BY <1>2, <1>7 DEF v

\* A sequence of which the first n are gone, and then one more.
LEMMA NextOf ==
    ASSUME NEW S, NEW s \in Seq(S), NEW n \in 0 .. Len(s), NEW c \in S, NEW t \in Seq(S),
           NEW m, m = n + 1, SubSeq(s, m, Len(s)) = <<c>> \o t
    PROVE  /\ m \in 0 .. Len(s) /\ m \in 1 .. Len(s) /\ s[m] = c
           /\ SubSeq(s, 1, n) \o <<c>> = SubSeq(s, 1, m)
<1> DEFINE e == Len(s)
           rest == SubSeq(s, n + 1, e)
           u == <<c>> \o t
           a == SubSeq(s, 1, n)
           b == a \o <<c>>
<1>1. /\ e \in Nat /\ n \in Nat /\ n <= e
      /\ a \in Seq(S) /\ Len(a) = n /\ \A k \in 1 .. n : a[k] = s[k]
      /\ rest \in Seq(S) /\ Len(rest) = e - n
      /\ \A k \in 1 .. e - n : rest[k] = s[n + k]
    <2>1. e \in Nat /\ n \in Nat
        BY PartsOf
    <2>2. n <= e
        BY <2>1
    <2> QED
        BY <2>1, <2>2, PartsOf
<1>2. /\ Len(t) \in Nat /\ Len(u) = Len(t) + 1
      /\ u[1] = c /\ \A k \in 1 .. Len(t) : u[1 + k] = t[k]
    BY FirstAndRest
<1>3. rest = u
    OBVIOUS
<1> HIDE DEF e, rest, u, a
<1>4. Len(t) + 1 = e - n
    BY <1>1, <1>2, <1>3
<1>5. n < e /\ m \in 0 .. e /\ m \in 1 .. e /\ m \in Nat /\ e - m = Len(t) /\ 1 \in 1 .. e - n
    BY <1>1, <1>2, <1>4
<1>6. s[m] = c
    BY <1>1, <1>2, <1>3, <1>5
<1>7. /\ SubSeq(s, 1, m) \in Seq(S) /\ Len(SubSeq(s, 1, m)) = m
      /\ \A k \in 1 .. m : SubSeq(s, 1, m)[k] = s[k]
    BY <1>5, PartsOf DEF e
<1>8. b = SubSeq(s, 1, m)
    <2>1. a \in Seq(S) /\ Len(a) = n
        BY <1>1
    <2>2. /\ b \in Seq(S) /\ Len(b) = Len(a) + 1
          /\ b[Len(a) + 1] = c /\ \A k \in 1 .. Len(a) : b[k] = a[k]
        <3>1. b \in Seq(S) /\ Len(b) = Len(a) + 1
            BY <2>1, RestAndLast
        <3>2. b[Len(a) + 1] = c
            BY <2>1, RestAndLast
        <3>3. \A k \in 1 .. Len(a) : b[k] = a[k]
            BY <2>1, RestAndLast
        <3> QED
            BY <3>1, <3>2, <3>3
    <2>3. /\ b \in Seq(S) /\ Len(b) = n + 1
          /\ b[n + 1] = c /\ \A k \in 1 .. n : b[k] = a[k]
        BY <2>1, <2>2
    <2> HIDE DEF b
    <2> DEFINE w == SubSeq(s, 1, m)
    <2>4. \A k \in 1 .. m : k \in 1 .. n \/ k = m
        BY <1>1
    <2>5. \A k \in 1 .. m : b[k] = s[k]
        BY <1>1, <1>6, <2>3, <2>4
    <2>6. w \in Seq(S) /\ Len(w) = m /\ \A k \in 1 .. m : w[k] = s[k]
        BY <1>7
    <2> HIDE DEF w
    <2>7. Len(b) = m
        BY <2>3
    <2>8. \A k \in 1 .. m : b[k] = w[k]
        BY <2>5, <2>6
    <2>9. b = w
        BY <1>5, <2>3, <2>6, <2>7, <2>8, SameSeq
    <2> QED
        BY <2>9 DEF w
<1> QED
    BY <1>5, <1>6, <1>8 DEF e, a, b

-----------------------------------------------------------------------------
\* A path with no solid character has no components.
LEMMA EmptyPath ==
    ASSUME NEW p \in Slice, Solid(p) = {}
    PROVE  ComponentsOf(p) = <<>>
<1>1. p.text \in Seq(Char)
    BY SliceIs
<1>2. ComponentsIn(p.text, {}) = <<>>
    BY <1>1, NoComponents
<1> QED
    BY <1>2 DEF ComponentsOf

\* Two parts of a path have its components, one after the other.
LEMMA TwoParts ==
    ASSUME NEW p \in Slice, NEW q \in Slice, NEW r \in Slice,
           q.text = p.text, r.text = p.text,
           Solid(p) = Solid(q) \cup Solid(r), Parted(p.text, Solid(q), Solid(r))
    PROVE  ComponentsOf(p) = ComponentsOf(q) \o ComponentsOf(r)
<1>1. p.text \in Seq(Char)
    BY SliceIs
<1>2. SolidIn(q.text, Solid(q)) /\ SolidIn(r.text, Solid(r))
    BY PlaceIs
<1>3. ComponentsIn(p.text, Solid(q) \cup Solid(r)) =
          ComponentsIn(p.text, Solid(q)) \o ComponentsIn(p.text, Solid(r))
    BY <1>1, <1>2, ComponentsOfBoth
<1> QED
    BY <1>3 DEF ComponentsOf

\* A component taken from the front, and from the back.
LEMMA FirstComponent ==
    ASSUME NEW p \in Slice
    PROVE  LET c == Chars(PopFirst(p).component)
               path == ComponentsOf(p)
               rest == ComponentsOf(PopFirst(p).rest)
           IN  /\ c \in Seq(Char) /\ path \in Seq(Seq(Char)) /\ rest \in Seq(Seq(Char))
               /\ Solid(p) = {} => path = <<>> /\ c = <<>> /\ rest = <<>>
               /\ Solid(p) # {} => path # <<>> /\ c # <<>> /\ path = <<c>> \o rest
<1> DEFINE f == PopFirst(p).component
           r == PopFirst(p).rest
<1>1. /\ IsComponent(p, f)
      /\ r \in Slice /\ r.text = p.text /\ Trimmed(r)
      /\ Solid(p) = Solid(f) \cup Solid(r)
      /\ Parted(p.text, Solid(f), Solid(r))
    BY PopFirstIs
<1> HIDE DEF f, r
<1>2. f \in Slice /\ f.text = p.text
    BY <1>1 DEF IsComponent
<1>3. /\ Chars(f) \in Seq(Char)
      /\ ComponentsOf(p) \in Seq(Seq(Char)) /\ ComponentsOf(r) \in Seq(Seq(Char))
    BY <1>1, <1>2, CharsAre, ComponentsAre
<1>4. ASSUME Solid(p) = {}
      PROVE  ComponentsOf(p) = <<>> /\ Chars(f) = <<>> /\ ComponentsOf(r) = <<>>
    <2>1. Solid(r) = {}
        BY <1>1, <1>4
    <2>2. Chars(f) = <<>>
        BY <1>1, <1>4 DEF IsComponent
    <2> QED
        BY <1>1, <1>4, <2>1, <2>2, EmptyPath
<1>5. ASSUME Solid(p) # {}
      PROVE  /\ ComponentsOf(p) # <<>> /\ Chars(f) # <<>>
             /\ ComponentsOf(p) = <<Chars(f)>> \o ComponentsOf(r)
    <2>1. Chars(f) # <<>> /\ ComponentsOf(f) = <<Chars(f)>>
        BY <1>1, <1>5 DEF IsComponent
    <2>2. ComponentsOf(p) = ComponentsOf(f) \o ComponentsOf(r)
        BY <1>1, <1>2, TwoParts
    <2>3. <<Chars(f)>> \o ComponentsOf(r) # <<>>
        BY <1>3, FirstAndRest
    <2> QED
        BY <2>1, <2>2, <2>3
<1> QED
    BY <1>3, <1>4, <1>5 DEF f, r

LEMMA LastComponent ==
    ASSUME NEW p \in Slice
    PROVE  LET c == Chars(PopLast(p).component)
               path == ComponentsOf(p)
               rest == ComponentsOf(PopLast(p).rest)
           IN  /\ c \in Seq(Char) /\ path \in Seq(Seq(Char)) /\ rest \in Seq(Seq(Char))
               /\ Solid(p) = {} => path = <<>> /\ c = <<>> /\ rest = <<>>
               /\ Solid(p) # {} => path # <<>> /\ c # <<>> /\ path = rest \o <<c>>
<1> DEFINE f == PopLast(p).component
           r == PopLast(p).rest
<1>1. /\ IsComponent(p, f)
      /\ r \in Slice /\ r.text = p.text /\ Trimmed(r)
      /\ Solid(p) = Solid(r) \cup Solid(f)
      /\ Parted(p.text, Solid(r), Solid(f))
    BY PopLastIs
<1> HIDE DEF f, r
<1>2. f \in Slice /\ f.text = p.text
    BY <1>1 DEF IsComponent
<1>3. /\ Chars(f) \in Seq(Char)
      /\ ComponentsOf(p) \in Seq(Seq(Char)) /\ ComponentsOf(r) \in Seq(Seq(Char))
    BY <1>1, <1>2, CharsAre, ComponentsAre
<1>4. ASSUME Solid(p) = {}
      PROVE  ComponentsOf(p) = <<>> /\ Chars(f) = <<>> /\ ComponentsOf(r) = <<>>
    <2>1. Solid(r) = {}
        BY <1>1, <1>4
    <2>2. Chars(f) = <<>>
        BY <1>1, <1>4 DEF IsComponent
    <2> QED
        BY <1>1, <1>4, <2>1, <2>2, EmptyPath
<1>5. ASSUME Solid(p) # {}
      PROVE  /\ ComponentsOf(p) # <<>> /\ Chars(f) # <<>>
             /\ ComponentsOf(p) = ComponentsOf(r) \o <<Chars(f)>>
    <2>1. Chars(f) # <<>> /\ ComponentsOf(f) = <<Chars(f)>>
        BY <1>1, <1>5 DEF IsComponent
    <2>2. ComponentsOf(p) = ComponentsOf(r) \o ComponentsOf(f)
        BY <1>1, <1>2, TwoParts
    <2>3. ComponentsOf(r) \o <<Chars(f)>> # <<>>
        BY <1>3, RestAndLast
    <2> QED
        BY <2>1, <2>2, <2>3
<1> QED
    BY <1>3, <1>4, <1>5 DEF f, r

\* Nothing is left of a trimmed path just when it has no components.
LEMMA NothingLeft ==
    ASSUME NEW p \in Slice, Trimmed(p)
    PROVE  /\ Length(p) = 0 <=> Solid(p) = {}
           /\ Solid(p) = {} <=> ComponentsOf(p) = <<>>
<1>1. ASSUME Solid(p) # {} PROVE Length(p) # 0
    <2>1. p.from \in Solid(p) /\ p.to \in Solid(p)
        BY <1>1 DEF Trimmed
    <2>2. p.from \in Nat /\ p.to \in Nat
        BY SliceIs
    <2>3. \A k \in Nat : k \in Solid(p) => p.from <= k
        BY PlaceIs
    <2>4. p.from \in Nat /\ p.to \in Nat /\ p.from <= p.to
        BY <2>1, <2>2, <2>3
    <2> QED
        BY <2>4 DEF Length
<1>2. Solid(p) = {} => Length(p) = 0
    BY DEF Trimmed
<1>3. Solid(p) = {} <=> ComponentsOf(p) = <<>>
    BY FirstComponent
<1> QED
    BY <1>1, <1>2, <1>3

\* One argument of PopsComponents.
LEMMA PopsOf ==
    ASSUME NEW p \in Slice
    PROVE  LET path == ComponentsOf(p)
               first == PopFirst(p)
               last == PopLast(p)
           IN  /\ Chars(first.component) = (IF path = <<>> THEN <<>> ELSE Head(path))
               /\ ComponentsOf(first.rest) = (IF path = <<>> THEN <<>> ELSE Tail(path))
               /\ Chars(last.component) = Paths!LastName(path)
               /\ ComponentsOf(last.rest) = Paths!ParentPath(path)
               /\ Length(last.rest) = 0 <=> Paths!ParentPath(path) = <<>>
<1> DEFINE path == ComponentsOf(p)
           c == Chars(PopFirst(p).component)
           t == ComponentsOf(PopFirst(p).rest)
           d == Chars(PopLast(p).component)
           r == PopLast(p).rest
           u == ComponentsOf(r)
<1>1. /\ c \in Seq(Char) /\ path \in Seq(Seq(Char)) /\ t \in Seq(Seq(Char))
      /\ Solid(p) = {} => path = <<>> /\ c = <<>> /\ t = <<>>
      /\ Solid(p) # {} => path # <<>> /\ path = <<c>> \o t
    BY FirstComponent
<1>2. /\ d \in Seq(Char) /\ u \in Seq(Seq(Char))
      /\ Solid(p) = {} => path = <<>> /\ d = <<>> /\ u = <<>>
      /\ Solid(p) # {} => path # <<>> /\ path = u \o <<d>>
    BY LastComponent
<1>3. r \in Slice /\ Trimmed(r)
    BY PopLastIs
<1>4. Length(r) = 0 <=> u = <<>>
    BY <1>3, NothingLeft
<1> HIDE DEF path, c, t, d, u, r
<1>5. CASE Solid(p) = {}
    <2>1. Paths!LastName(path) = <<>> /\ Paths!ParentPath(path) = <<>>
        BY <1>1, <1>5 DEF Paths!LastName, Paths!ParentPath
    <2> QED
        BY <1>1, <1>2, <1>4, <1>5, <2>1 DEF path, c, t, d, u, r
<1>6. CASE Solid(p) # {}
    <2>1. Head(path) = c /\ Tail(path) = t
        <3>1. c \in Seq(Char) /\ t \in Seq(Seq(Char))
            BY <1>1
        <3>2. Head(<<c>> \o t) = c /\ Tail(<<c>> \o t) = t
            BY <3>1, TailIs
        <3> QED
            BY <1>1, <1>6, <3>2
    <2>2. Paths!LastName(path) = path[Len(path)] /\ Paths!ParentPath(path) = SubSeq(path, 1, Len(path) - 1)
        BY <1>1, <1>6 DEF Paths!LastName, Paths!ParentPath
    <2>3. /\ Len(u) \in Nat /\ Len(path) = Len(u) + 1
          /\ path[Len(u) + 1] = d /\ \A k \in 1 .. Len(u) : path[k] = u[k]
        BY <1>1, <1>2, <1>6, RestAndLast
    <2> DEFINE n == Len(u)
               v == SubSeq(path, 1, n)
    <2>4. n \in 0 .. Len(path) /\ Len(path) - 1 = n
        BY <2>3
    <2> HIDE DEF n
    <2>5. v \in Seq(Seq(Char)) /\ Len(v) = n /\ n \in Nat /\ \A k \in 1 .. n : v[k] = path[k]
        BY <1>1, <2>4, PartsOf
    <2> HIDE DEF v
    <2>6. \A k \in 1 .. n : v[k] = u[k]
        BY <2>3, <2>5 DEF n
    <2>7. v = u
        <3>1. v \in Seq(Seq(Char)) /\ u \in Seq(Seq(Char)) /\ n \in Nat /\ Len(v) = n /\ Len(u) = n
            BY <1>2, <2>5 DEF n
        <3> QED
            BY <2>6, <3>1, SameSeq
    <2>8. Paths!LastName(path) = d /\ Paths!ParentPath(path) = u
        BY <2>2, <2>3, <2>4, <2>7 DEF v
    <2> QED
        BY <1>1, <1>4, <1>6, <2>1, <2>8 DEF path, c, t, d, u, r
<1> QED
    BY <1>5, <1>6

-----------------------------------------------------------------------------
\* Two sequences that begin in the same way.
LEMMA AgreeIs ==
    ASSUME NEW S, NEW l \in Seq(S), NEW r \in Seq(S),
           NEW n \in 0 .. Len(l), n \in 0 .. Len(r)
    PROVE  SubSeq(l, 1, n) = SubSeq(r, 1, n) <=> \A k \in 1 .. n : l[k] = r[k]
<1> DEFINE a == SubSeq(l, 1, n)
           b == SubSeq(r, 1, n)
<1>1. n \in Nat /\ a \in Seq(S) /\ Len(a) = n /\ \A k \in 1 .. n : a[k] = l[k]
    BY PartsOf
<1>2. b \in Seq(S) /\ Len(b) = n /\ \A k \in 1 .. n : b[k] = r[k]
    BY PartsOf
<1> HIDE DEF a, b
<1>3. ASSUME a = b PROVE \A k \in 1 .. n : l[k] = r[k]
    BY <1>1, <1>2, <1>3
<1>4. ASSUME \A k \in 1 .. n : l[k] = r[k] PROVE a = b
    <2>1. \A k \in 1 .. n : a[k] = b[k]
        BY <1>1, <1>2, <1>4
    <2> QED
        BY <1>1, <1>2, <2>1, SameSeq
<1> QED
    BY <1>3, <1>4 DEF a, b

\* How much two sequences share.
LEMMA SharedIs ==
    ASSUME NEW S, NEW l \in Seq(S), NEW r \in Seq(S),
           NEW n \in 0 .. Len(l), n \in 0 .. Len(r),
           SubSeq(l, 1, n) = SubSeq(r, 1, n),
           n = Len(l) \/ n = Len(r) \/ l[n + 1] # r[n + 1]
    PROVE  Paths!SharedLen(l, r) = n
<1> DEFINE c == Len(l)
           d == Len(r)
           m == n + 1
           Same(k) == SubSeq(l, 1, k) = SubSeq(r, 1, k)
           K == {k \in 1 .. c : k <= d /\ Same(k)}
<1>1. c \in Nat /\ d \in Nat
    BY LenProperties
<1>2. n \in Nat /\ n <= c /\ n <= d
    BY <1>1
<1>3. n = c \/ n = d \/ l[m] # r[m]
    OBVIOUS
<1>4. \A k \in 1 .. n : l[k] = r[k]
    BY AgreeIs
<1>5. \A k \in 0 .. c : k <= d => (Same(k) <=> \A i \in 1 .. k : l[i] = r[i])
    <2> SUFFICES ASSUME NEW k \in 0 .. c, k <= d
                 PROVE  Same(k) <=> \A i \in 1 .. k : l[i] = r[i]
        OBVIOUS
    <2>1. k \in 0 .. d
        BY <1>1
    <2> QED
        BY <2>1, AgreeIs
<1>6. Paths!SharedLen(l, r) = Cardinality(K)
    BY DEF Paths!SharedLen, Paths!Cardinality, Cardinality
<1> HIDE DEF c, d, Same
<1>7. ASSUME NEW k \in 1 .. n PROVE k \in K
    <2>1. k \in 1 .. c /\ k \in 0 .. c /\ k <= d /\ \A i \in 1 .. k : i \in 1 .. n
        BY <1>1, <1>2
    <2> QED
        BY <1>4, <1>5, <2>1
<1>8. ASSUME NEW k \in K PROVE k \in 1 .. n
    <2>1. k \in 1 .. c /\ k \in 0 .. c /\ k <= d /\ k \in Nat /\ 1 <= k /\ k <= c
        BY <1>1
    <2>2. CASE k <= n
        BY <1>2, <2>1, <2>2
    <2>3. CASE ~(k <= n)
        <3>1. m \in 1 .. k /\ n # c /\ n # d
            BY <1>1, <1>2, <2>1, <2>3
        <3> HIDE DEF m
        <3>2. l[m] = r[m]
            BY <1>5, <2>1, <3>1
        <3> QED
            BY <1>3, <3>1, <3>2
    <2> QED
        BY <2>2, <2>3
<1>9. K = 1 .. n
    BY <1>7, <1>8
<1>10. Cardinality(1 .. n) = n
    <2>1. 1 \in Int /\ n \in Int
        BY <1>2
    <2>2. Cardinality(1 .. n) = IF 1 > n THEN 0 ELSE n - 1 + 1
        BY <2>1, FS_Interval
    <2> QED
        BY <1>2, <2>2
<1> QED
    BY <1>6, <1>9, <1>10

-----------------------------------------------------------------------------
\* What is left of a path once its first n components are gone.
Behind(p, cur) == [p EXCEPT !.to = cur.from - 1]
Popped(p, cur, n) ==
    LET path == ComponentsOf(p)
        gone == Behind(p, cur)
    IN  /\ cur.text = p.text /\ p.from <= cur.from /\ cur.to <= p.to
        /\ n \in 0 .. Len(path)
        /\ ComponentsOf(gone) = SubSeq(path, 1, n)
        /\ ComponentsOf(cur) = SubSeq(path, n + 1, Len(path))
        /\ Solid(p) = Solid(gone) \cup Solid(cur)
        /\ Parted(p.text, Solid(gone), Solid(cur))
        /\ n > 0 => Trimmed(cur)

LEMMA BehindIs ==
    ASSUME NEW p \in Slice, NEW cur \in Slice,
           cur.text = p.text, p.from <= cur.from, cur.to <= p.to
    PROVE  /\ Behind(p, cur) \in Slice /\ Behind(p, cur).text = p.text
           /\ \A k : k \in Solid(Behind(p, cur)) <=> k \in Solid(p) /\ k < cur.from
<1> DEFINE e == cur.from - 1
           q == [text |-> p.text, from |-> p.from, to |-> e]
<1>1. /\ p.text \in Seq(Char) /\ Len(p.text) \in Nat /\ p.from \in Nat \ {0} /\ p.to \in Nat
      /\ p = [text |-> p.text, from |-> p.from, to |-> p.to]
    BY SliceIs
<1>2. /\ cur.from \in Nat \ {0} /\ cur.to \in Nat
      /\ cur.from <= cur.to + 1 /\ cur.to <= Len(p.text)
    BY SliceIs
<1>3. e \in Nat /\ p.from <= e + 1 /\ e <= Len(p.text) /\ e <= p.to
    BY <1>1, <1>2
<1>4. Behind(p, cur) = q
    BY <1>1 DEF Behind
<1>5. q.text = p.text /\ q.from = p.from /\ q.to = e
    OBVIOUS
<1>6. \A k \in Nat : k <= e <=> k < cur.from
    BY <1>2
<1> HIDE DEF e
<1>7. q \in Slice
    BY <1>1, <1>3, IsSlice
<1> HIDE DEF q
<1>8. ASSUME NEW k PROVE k \in Solid(q) <=> k \in Solid(p) /\ k < cur.from
    <2>1. Solid(q) \in SUBSET Nat /\ Solid(p) \in SUBSET Nat
        BY <1>7, PlaceIs
    <2>2. /\ \A i \in Nat : i \in Solid(q) <=>
                 q.from <= i /\ i <= q.to /\ q.text[i] \notin {"/", " "}
          /\ \A i \in Nat : i \in Solid(p) <=>
                 p.from <= i /\ i <= p.to /\ p.text[i] \notin {"/", " "}
        BY <1>7, PlaceIs
    <2>3. CASE k \in Nat
        <3>1. k <= e => k <= p.to
            BY <1>1, <1>3, <2>3
        <3> QED
            BY <1>5, <1>6, <2>2, <2>3, <3>1
    <2>4. CASE k \notin Nat
        BY <2>1, <2>4
    <2> QED
        BY <2>3, <2>4
<1> QED
    BY <1>1, <1>4, <1>5, <1>7, <1>8

LEMMA PoppedNone ==
    ASSUME NEW p \in Slice
    PROVE  Popped(p, p, 0)
<1> DEFINE g == Behind(p, p)
           path == ComponentsOf(p)
<1>1. p.from \in Nat /\ p.from <= p.from /\ p.to \in Nat /\ p.to <= p.to
    BY SliceIs
<1>2. /\ g \in Slice /\ g.text = p.text
      /\ \A k : k \in Solid(g) <=> k \in Solid(p) /\ k < p.from
    BY <1>1, BehindIs
<1> HIDE DEF g
<1>3. Solid(g) = {}
    <2>1. \A k \in Nat : k \in Solid(p) => p.from <= k
        BY PlaceIs
    <2>2. Solid(p) \in SUBSET Nat
        BY PlaceIs
    <2>3. \A k \in Solid(p) : ~(k < p.from)
        BY <1>1, <2>1, <2>2
    <2> QED
        BY <1>2, <2>3
<1>4. ComponentsOf(g) = <<>>
    BY <1>2, <1>3, EmptyPath
<1>5. path \in Seq(Seq(Char)) /\ Len(path) \in Nat
    BY ComponentsAre
<1> HIDE DEF path
<1>6. 0 \in 0 .. Len(path)
    BY <1>5
<1>7. SubSeq(path, 1, 0) \in Seq(Seq(Char)) /\ Len(SubSeq(path, 1, 0)) = 0
    BY <1>5, <1>6, PartsOf
<1>8. SubSeq(path, 1, 0) = <<>>
    BY <1>7, EmptySeq
<1>9. SubSeq(path, 0 + 1, Len(path)) = path
    <2>1. SubSeq(path, 1, Len(path)) = path
        BY <1>5, SubSeqFull
    <2>2. 0 + 1 = 1
        OBVIOUS
    <2> QED
        BY <2>1, <2>2
<1>10. Parted(p.text, Solid(g), Solid(p)) /\ Solid(p) = Solid(g) \cup Solid(p)
    BY <1>3 DEF Parted
<1>11. ~(0 > 0)
    OBVIOUS
<1> QED
    BY <1>1, <1>4, <1>6, <1>8, <1>9, <1>10, <1>11 DEF Popped, g, path

\* One more is gone.
LEMMA PoppedOne ==
    ASSUME NEW p \in Slice, NEW cur \in Slice, NEW n \in Nat, Popped(p, cur, n),
           Solid(cur) # {}
    PROVE  /\ Popped(p, PopFirst(cur).rest, n + 1)
           /\ n + 1 \in 1 .. Len(ComponentsOf(p))
           /\ ComponentsOf(p)[n + 1] = First(cur)
<1> DEFINE f == PopFirst(cur).component
           r == PopFirst(cur).rest
           c == Chars(f)
           path == ComponentsOf(p)
           rest == ComponentsOf(r)
           g == Behind(p, cur)
           h == Behind(p, r)
           e == cur.from - 1
           m == n + 1
<1>1. /\ cur.text = p.text /\ p.from <= cur.from /\ cur.to <= p.to
      /\ n \in 0 .. Len(path)
      /\ ComponentsOf(g) = SubSeq(path, 1, n)
      /\ ComponentsOf(cur) = SubSeq(path, n + 1, Len(path))
      /\ Solid(p) = Solid(g) \cup Solid(cur)
      /\ Parted(p.text, Solid(g), Solid(cur))
    BY DEF Popped
<1>2. /\ IsComponent(cur, f)
      /\ r \in Slice /\ r.text = cur.text /\ Trimmed(r)
      /\ cur.from <= r.from /\ r.to <= cur.to /\ \A k \in Solid(f) : k < r.from
      /\ Solid(cur) = Solid(f) \cup Solid(r)
      /\ Parted(cur.text, Solid(f), Solid(r))
    BY PopFirstIs
<1>3. /\ c \in Seq(Char) /\ rest \in Seq(Seq(Char))
      /\ ComponentsOf(cur) = <<c>> \o rest
    BY FirstComponent
<1>4. First(cur) = c
    BY DEF First
<1>5. path \in Seq(Seq(Char)) /\ Len(path) \in Nat
    BY ComponentsAre
<1> HIDE DEF f, r, c, path, rest
<1>6. f \in Slice /\ f.text = p.text /\ ComponentsOf(f) = <<c>>
    BY <1>1, <1>2 DEF IsComponent, c
<1>7. /\ p.from \in Nat /\ cur.from \in Nat /\ r.from \in Nat
      /\ p.to \in Nat /\ cur.to \in Nat /\ r.to \in Nat
    BY <1>2, SliceIs
<1>8. p.from <= r.from /\ r.to <= p.to
    BY <1>1, <1>2, <1>7
<1>9. /\ g \in Slice /\ g.text = p.text
      /\ \A k : k \in Solid(g) <=> k \in Solid(p) /\ k < cur.from
    BY <1>1, BehindIs
<1>10. /\ h \in Slice /\ h.text = p.text
       /\ \A k : k \in Solid(h) <=> k \in Solid(p) /\ k < r.from
    BY <1>1, <1>2, <1>8, BehindIs
<1> HIDE DEF g, h
<1>11. \A k \in Solid(g) : k < r.from
    <2>1. Solid(g) \in SUBSET Nat
        BY <1>9, PlaceIs
    <2>2. \A k \in Solid(g) : k \in Nat /\ k < cur.from
        BY <1>9, <2>1
    <2>3. cur.from \in Nat /\ r.from \in Nat /\ cur.from <= r.from
        BY <1>2, <1>7
    <2> QED
        BY <2>2, <2>3
<1>12. \A k \in Solid(r) : ~(k < r.from)
    <2>1. \A k \in Nat : k \in Solid(r) => r.from <= k
        BY <1>2, PlaceIs
    <2>2. Solid(r) \in SUBSET Nat
        BY <1>2, PlaceIs
    <2>3. \A k \in Solid(r) : k \in Nat /\ r.from <= k
        BY <2>1, <2>2
    <2> QED
        BY <1>7, <2>3
<1>13. Solid(h) = Solid(g) \cup Solid(f)
    BY <1>1, <1>2, <1>10, <1>11, <1>12
<1>14. Parted(p.text, Solid(g), Solid(f)) /\ Parted(p.text, Solid(h), Solid(r))
    BY <1>1, <1>2, <1>13 DEF Parted
<1>15. Solid(p) = Solid(h) \cup Solid(r)
    BY <1>1, <1>2, <1>13
<1>16. ComponentsOf(h) = ComponentsOf(g) \o ComponentsOf(f)
    <2>1. /\ h \in Slice /\ g \in Slice /\ f \in Slice
          /\ g.text = h.text /\ f.text = h.text
        BY <1>6, <1>9, <1>10
    <2>2. Parted(h.text, Solid(g), Solid(f))
        BY <1>10, <1>14
    <2> QED
        BY <1>13, <2>1, <2>2, TwoParts
<1>17. /\ m \in 0 .. Len(path) /\ m \in 1 .. Len(path) /\ path[m] = c
       /\ SubSeq(path, 1, n) \o <<c>> = SubSeq(path, 1, m)
       /\ rest = SubSeq(path, m + 1, Len(path))
    <2> DEFINE W == Seq(Char)
    <2>1. path \in Seq(W) /\ rest \in Seq(W) /\ c \in W /\ n \in 0 .. Len(path)
        BY <1>1, <1>3, <1>5
    <2>2. SubSeq(path, m, Len(path)) = <<c>> \o rest /\ m = n + 1
        BY <1>1, <1>3
    <2> HIDE DEF W, m
    <2>3. /\ m \in 0 .. Len(path) /\ m \in 1 .. Len(path) /\ path[m] = c
          /\ SubSeq(path, 1, n) \o <<c>> = SubSeq(path, 1, m)
        BY <2>1, <2>2, NextOf
    <2>4. Tail(<<c>> \o rest) = rest
        BY <2>1, TailIs
    <2>5. Len(path) \in m .. Len(path)
        BY <1>5, <2>3
    <2>6. Tail(SubSeq(path, m, Len(path))) = SubSeq(path, m + 1, Len(path))
        BY <2>1, <2>3, <2>5, HeadTailOfSubSeq
    <2> QED
        BY <2>2, <2>3, <2>4, <2>6
<1> HIDE DEF m
<1>18. ComponentsOf(h) = SubSeq(path, 1, m)
    BY <1>1, <1>6, <1>16, <1>17
<1>19. m > 0 => Trimmed(r)
    BY <1>2
<1>20. Popped(p, r, m)
    BY <1>1, <1>2, <1>8, <1>14, <1>15, <1>17, <1>18, <1>19 DEF Popped, path, rest, h
<1> QED
    BY <1>4, <1>17, <1>20 DEF m, r, path

\* What the next component taken says of a path.
LEMMA LeftIs ==
    ASSUME NEW p \in Slice, NEW cur \in Slice, NEW n \in Nat, Popped(p, cur, n)
    PROVE  /\ Len(ComponentsOf(p)) \in Nat
           /\ Solid(cur) = {} <=> n = Len(ComponentsOf(p))
           /\ Solid(cur) = {} => First(cur) = <<>>
           /\ Solid(cur) # {} => /\ First(cur) # <<>>
                                 /\ n + 1 \in 1 .. Len(ComponentsOf(p))
                                 /\ ComponentsOf(p)[n + 1] = First(cur)
<1> DEFINE path == ComponentsOf(p)
           c == First(cur)
<1>1. n \in 0 .. Len(path) /\ ComponentsOf(cur) = SubSeq(path, n + 1, Len(path))
    BY DEF Popped
<1>2. path \in Seq(Seq(Char)) /\ Len(path) \in Nat
    BY ComponentsAre
<1>3. /\ Solid(cur) = {} => c = <<>> /\ ComponentsOf(cur) = <<>>
      /\ Solid(cur) # {} => c # <<>>
    BY FirstComponent DEF First
<1>4. Solid(cur) # {} => n + 1 \in 1 .. Len(path) /\ path[n + 1] = c
    BY PoppedOne
<1> HIDE DEF path, c
<1>5. Len(SubSeq(path, n + 1, Len(path))) = Len(path) - n
    BY <1>1, <1>2, PartsOf
<1>6. ASSUME Solid(cur) = {} PROVE n = Len(path)
    <2>1. Len(ComponentsOf(cur)) = 0
        BY <1>3, <1>6, EmptySeq
    <2>2. Len(path) - n = 0
        BY <1>1, <1>5, <2>1
    <2> QED
        BY <1>2, <2>2
<1>7. ASSUME Solid(cur) # {} PROVE n # Len(path)
    <2>1. n + 1 \in 1 .. Len(path)
        BY <1>4, <1>7
    <2> QED
        BY <1>2, <2>1
<1> QED
    BY <1>2, <1>3, <1>4, <1>6, <1>7 DEF path, c

\* Two paths of which the same components are gone, when the next ones differ
\* or there are none.
LEMMA LastTurn ==
    ASSUME NEW p \in Slice, NEW q \in Slice, NEW a \in Slice, NEW b \in Slice, NEW n \in Nat,
           Popped(p, a, n), Popped(q, b, n),
           SubSeq(ComponentsOf(p), 1, n) = SubSeq(ComponentsOf(q), 1, n),
           First(a) # First(b) \/ First(a) = <<>>
    PROVE  /\ Paths!SharedLen(ComponentsOf(p), ComponentsOf(q)) = n
           /\ Paths!SharedLen(ComponentsOf(q), ComponentsOf(p)) = n
           /\ First(a) = First(b) <=> ComponentsOf(p) = ComponentsOf(q)
           /\ ComponentsOf(p) # <<>> \/ ComponentsOf(q) # <<>> =>
                  (Length(a) = 0 /\ Length(b) = 0 <=> ComponentsOf(p) = ComponentsOf(q))
<1> DEFINE l == ComponentsOf(p)
           r == ComponentsOf(q)
           c == First(a)
           d == First(b)
<1>1. l \in Seq(Seq(Char)) /\ r \in Seq(Seq(Char))
    BY ComponentsAre
<1>2. n \in 0 .. Len(l) /\ n \in 0 .. Len(r) /\ SubSeq(l, 1, n) = SubSeq(r, 1, n)
    BY DEF Popped
<1>3. (n > 0 => Trimmed(a)) /\ (n > 0 => Trimmed(b))
    BY DEF Popped
<1>4. /\ Solid(a) = {} <=> n = Len(l)
      /\ Solid(a) = {} => c = <<>>
      /\ Solid(a) # {} => c # <<>> /\ l[n + 1] = c
    BY LeftIs
<1>5. /\ Solid(b) = {} <=> n = Len(r)
      /\ Solid(b) = {} => d = <<>>
      /\ Solid(b) # {} => d # <<>> /\ r[n + 1] = d
    BY LeftIs
<1>6. c # d \/ c = <<>>
    OBVIOUS
<1>7. Len(l) \in Nat /\ Len(r) \in Nat
    BY <1>1, LenProperties
<1> HIDE DEF l, r, c, d
<1>8. n = Len(l) \/ n = Len(r) \/ l[n + 1] # r[n + 1]
    BY <1>4, <1>5, <1>6
<1>9. n = Len(r) \/ n = Len(l) \/ r[n + 1] # l[n + 1]
    BY <1>8
<1>10. Paths!SharedLen(l, r) = n
    BY <1>1, <1>2, <1>8, SharedIs
<1>11. Paths!SharedLen(r, l) = n
    <2>1. SubSeq(r, 1, n) = SubSeq(l, 1, n)
        BY <1>2
    <2> QED
        BY <1>1, <1>2, <1>9, <2>1, SharedIs
<1>12. ASSUME Solid(a) = {}, Solid(b) = {} PROVE l = r
    <2>1. n = Len(l) /\ n = Len(r)
        BY <1>4, <1>5, <1>12
    <2>2. SubSeq(l, 1, Len(l)) = l /\ SubSeq(r, 1, Len(r)) = r
        BY <1>1, SubSeqFull
    <2> QED
        BY <1>2, <2>1, <2>2
<1>13. ASSUME l = r PROVE Solid(a) = {} /\ Solid(b) = {}
    BY <1>4, <1>5, <1>6, <1>13
<1>14. c = d <=> l = r
    BY <1>4, <1>5, <1>6, <1>12, <1>13
<1>15. ASSUME l # <<>> \/ r # <<>> PROVE Length(a) = 0 /\ Length(b) = 0 <=> l = r
    <2>1. ASSUME l = r PROVE Length(a) = 0 /\ Length(b) = 0
        <3>1. Solid(a) = {} /\ Solid(b) = {}
            BY <1>13, <2>1
        <3>2. n = Len(l) /\ l # <<>>
            BY <1>4, <1>15, <2>1, <3>1
        <3>3. Len(l) # 0
            BY <1>1, <3>2, EmptySeq
        <3>4. n > 0
            BY <1>7, <3>2, <3>3
        <3> QED
            BY <1>3, <3>1, <3>4 DEF Trimmed
    <2>2. ASSUME NEW e \in Slice, Length(e) = 0 PROVE Solid(e) = {}
        <3>1. e.from \in Nat /\ e.to \in Nat
            BY SliceIs
        <3>2. e.from .. e.to = {}
            BY <2>2, <3>1 DEF Length
        <3> QED
            BY <3>2 DEF Solid, Places
    <2>3. ASSUME Length(a) = 0, Length(b) = 0 PROVE l = r
        BY <1>12, <2>2, <2>3
    <2> QED
        BY <2>1, <2>3
<1> QED
    BY <1>10, <1>11, <1>14, <1>15 DEF l, r, c, d

LEMMA TrimComponents ==
    ASSUME NEW p \in Slice
    PROVE  ComponentsOf(Trim(p)) = ComponentsOf(p)
BY TrimIs DEF ComponentsOf

-----------------------------------------------------------------------------
\* The words of a path are its components if none of these has a blank inside.
LEMMA WordsAre ==
    ASSUME NEW p \in Slice, Unbroken(p)
    PROVE  WordsOf(p) = ComponentsOf(p)
<1> DEFINE S == Solid(p)
           B == Begins(p.text, S)
           N == Cardinality(B)
<1>1. \A j, k \in S : j <= k => (Joined(p.text, j, k) <=> Unspaced(p.text, j, k))
    BY DEF Unbroken, Joined, Unspaced
<1>2. S \in SUBSET Nat /\ SolidIn(p.text, S) /\ p.text \in Seq(Char)
    BY PlaceIs, SliceIs
<1>3. \A j, k \in S : j < k => j <= k
    BY <1>2
<1>4. B \in SUBSET S /\ IsFiniteSet(B)
    BY <1>2, ComponentTexts
<1>5. WordsOf(p) = WordsIn(p.text, S) /\ ComponentsOf(p) = ComponentsIn(p.text, S)
    BY DEF WordsOf, ComponentsOf
<1> HIDE DEF S
<1>6. WordBegins(p.text, S) = B
    BY <1>1, <1>3 DEF WordBegins, Begins
<1>7. \A k \in S : {j \in S : k <= j /\ Unspaced(p.text, k, j)}
                       = {j \in S : k <= j /\ Joined(p.text, k, j)}
    BY <1>1
<1>8. \A k \in S : WordEnd(p.text, S, k) = End(p.text, S, k)
    BY <1>7 DEF WordEnd, End
<1> HIDE DEF B
<1>9. B \in SUBSET Nat
    BY <1>2, <1>4
<1>10. ASSUME NEW n \in 1 .. N PROVE Nth(B, n) \in S
    BY <1>4, <1>9, NthOf
<1>11. \A n \in 1 .. N : WordEnd(p.text, S, Nth(B, n)) = End(p.text, S, Nth(B, n))
    BY <1>8, <1>10
<1> HIDE DEF N
<1>12. WordsIn(p.text, S) =
          [n \in 1 .. N |-> SubSeq(p.text, Nth(B, n), WordEnd(p.text, S, Nth(B, n)))]
    BY <1>6 DEF WordsIn, N
<1>13. ComponentsIn(p.text, S) =
          [n \in 1 .. N |-> SubSeq(p.text, Nth(B, n), End(p.text, S, Nth(B, n)))]
    BY DEF ComponentsIn, N, B
<1> QED
    BY <1>5, <1>11, <1>12, <1>13

\* How many words a path has.
LEMMA WordsLen ==
    ASSUME NEW p \in Slice
    PROVE  /\ Len(WordsOf(p)) = Cardinality(WordBegins(p.text, Solid(p)))
           /\ IsFiniteSet(WordBegins(p.text, Solid(p)))
<1> DEFINE B == WordBegins(p.text, Solid(p))
           N == Cardinality(B)
           W(n) == SubSeq(p.text, Nth(B, n), WordEnd(p.text, Solid(p), Nth(B, n)))
           T == {W(n) : n \in 1 .. N}
<1>1. IsFiniteSet(Solid(p))
    BY SliceIs, PlaceIs, SolidPlaces
<1>2. IsFiniteSet(B)
    BY <1>1, FS_Subset DEF WordBegins
<1>3. N \in Nat
    BY <1>2, FS_CardinalityType
<1>4. WordsOf(p) = [n \in 1 .. N |-> W(n)]
    BY DEF WordsOf, WordsIn
<1>5. \A n \in 1 .. N : W(n) \in T
    OBVIOUS
<1> HIDE DEF B, N, W, T
<1>6. [n \in 1 .. N |-> W(n)] \in Seq(T) /\ Len([n \in 1 .. N |-> W(n)]) = N
    BY <1>3, <1>5
<1> QED
    BY <1>2, <1>4, <1>6 DEF B, N

\* A blank inside a component begins a word that begins no component.
LEMMA WordInside ==
    ASSUME NEW p \in Slice, ~Unbroken(p)
    PROVE  \E m : m \in WordBegins(p.text, Solid(p)) /\ m \notin Begins(p.text, Solid(p))
<1> DEFINE S == Solid(p)
<1>1. S \in SUBSET Nat
    BY PlaceIs
<1>2. PICK j \in S, k \in S : j <= k /\ Joined(p.text, j, k) /\ ~Unspaced(p.text, j, k)
    BY DEF Unbroken
<1>3. PICK i \in j .. k : p.text[i] \in {"/", " "}
    BY <1>2 DEF Unspaced
<1>4. j \in Nat /\ k \in Nat /\ i \in Nat /\ j <= i /\ i <= k
    <2>1. j \in Nat /\ k \in Nat
        BY <1>1, <1>2
    <2>2. i \in j .. k
        BY <1>3
    <2> QED
        BY <2>1, <2>2
<1>5. \A n \in S : p.text[n] \notin {"/", " "}
    BY <1>1, PlaceIs
<1>6. j < i /\ i < k
    <2>1. j # i /\ k # i
        BY <1>2, <1>3, <1>5
    <2> QED
        BY <1>4, <2>1
<1> DEFINE After == {n \in S : i < n}
           m == Min(After)
<1>7. After \in SUBSET Nat /\ After # {} /\ k \in After
    BY <1>1, <1>6
<1> HIDE DEF S
<1>8. m \in After /\ \A n \in After : m <= n
    BY <1>7, MinOf
<1>9. m \in S /\ i < m /\ m <= k /\ \A n \in S : i < n => m <= n
    BY <1>7, <1>8
<1> HIDE DEF m, After
<1>10. m \in Nat
    BY <1>1, <1>9
<1>11. m \in WordBegins(p.text, S)
    <2>1. ASSUME NEW n \in S, n < m PROVE ~Unspaced(p.text, n, m)
        <3>1. n \in Nat /\ ~(i < n)
            BY <1>1, <1>9, <1>10, <2>1
        <3>2. i \in n .. m
            BY <1>4, <1>9, <1>10, <3>1
        <3> QED
            BY <1>3, <3>2 DEF Unspaced
    <2> QED
        BY <1>9, <2>1 DEF WordBegins
<1>12. m \notin Begins(p.text, S)
    <2>1. \A n \in j .. m : n \in j .. k
        BY <1>4, <1>9, <1>10
    <2>2. Joined(p.text, j, m) /\ j < m
        BY <1>2, <1>4, <1>6, <1>9, <1>10, <2>1 DEF Joined
    <2> QED
        BY <1>2, <2>2 DEF Begins
<1> QED
    BY <1>11, <1>12 DEF S

\* A path has as many words as components just when none has a blank inside.
LEMMA WordsMore ==
    ASSUME NEW p \in Slice
    PROVE  Len(ComponentsOf(p)) = Len(WordsOf(p)) <=> Unbroken(p)
<1>1. Unbroken(p) => Len(ComponentsOf(p)) = Len(WordsOf(p))
    BY WordsAre
<1>2. ASSUME ~Unbroken(p) PROVE Len(ComponentsOf(p)) # Len(WordsOf(p))
    <2> DEFINE B == Begins(p.text, Solid(p))
               C == WordBegins(p.text, Solid(p))
    <2>1. Len(ComponentsOf(p)) = Cardinality(B)
        BY SliceIs, PlaceIs, ComponentTexts DEF ComponentsOf
    <2>2. Len(WordsOf(p)) = Cardinality(C) /\ IsFiniteSet(C)
        BY WordsLen
    <2>3. B \subseteq C
        BY DEF Begins, WordBegins, Joined, Unspaced
    <2>4. B # C
        BY <1>2, WordInside
    <2> HIDE DEF B, C
    <2>5. Cardinality(B) # Cardinality(C)
        BY <2>2, <2>3, <2>4, FS_Subset
    <2> QED
        BY <2>1, <2>2, <2>5
<1> QED
    BY <1>1, <1>2

\* A part of a path without a blank inside a component has none either.
LEMMA PartUnbroken ==
    ASSUME NEW p, NEW q, Unbroken(p), q.text = p.text, Solid(q) \subseteq Solid(p)
    PROVE  Unbroken(q)
BY DEF Unbroken

-----------------------------------------------------------------------------
\* The inductive invariant: what the loops have done so far.
SlicesOK == {lhs, rhs, curLhs, curRhs} \subseteq Slice /\ count \in Nat
Popping ==
    result = Running /\ call \in {"eq", "ancestor"} =>
        /\ Popped(lhs, curLhs, count) /\ Popped(rhs, curRhs, count)
        /\ SubSeq(ComponentsOf(lhs), 1, count) = SubSeq(ComponentsOf(rhs), 1, count)
Counting ==
    result = Running /\ call = "len" =>
        /\ Len(ComponentsOf(lhs)) = count + Len(ComponentsOf(curLhs))
        /\ count > 0 => Trimmed(curLhs)
LoopInv == SlicesOK /\ Popping /\ Counting /\ EqRight /\ LenRight /\ AncestorRight

LEMMA NotReturned ==
    ASSUME result = Running
    PROVE  EqRight /\ LenRight /\ AncestorRight
<1>1. result.kind = "running"
    BY DEF Running
<1> QED
    BY <1>1 DEF EqRight, LenRight, AncestorRight

LEMMA LoopInit == Init => LoopInv
<1> SUFFICES ASSUME Init PROVE LoopInv
    OBVIOUS
<1>1. /\ call \in {"eq", "len", "ancestor", "order"}
      /\ lhs \in {PathOf(text) : text \in Texts}
      /\ rhs \in {PathOf(text) : text \in IF call = "len" THEN {<<>>} ELSE Texts}
      /\ curLhs = lhs /\ curRhs = rhs /\ count = 0 /\ result = Running
    BY DEF Init
<1>2. ASSUME NEW text \in Seq(Char) PROVE PathOf(text) \in Slice
    <2> DEFINE e == Len(text)
    <2>1. e \in Nat /\ 1 <= e + 1 /\ e <= e /\ 1 \in Nat \ {0}
        BY LenProperties
    <2>2. [text |-> text, from |-> 1, to |-> e] \in Slice
        BY <2>1, IsSlice
    <2> QED
        BY <2>2 DEF PathOf
<1>3. Texts \subseteq Seq(Char) /\ <<>> \in Seq(Char)
    BY TextAssumption, EmptySeq
<1>4. lhs \in Slice /\ rhs \in Slice
    BY <1>1, <1>2, <1>3
<1>5. SlicesOK
    BY <1>1, <1>4 DEF SlicesOK
<1>6. Popping
    <2>1. Popped(lhs, curLhs, count) /\ Popped(rhs, curRhs, count)
        BY <1>1, <1>4, PoppedNone
    <2>2. ASSUME NEW p \in Slice
          PROVE  SubSeq(ComponentsOf(p), 1, 0) = <<>>
        <3>1. 1 \in Int /\ 0 \in Int /\ 0 < 1
            OBVIOUS
        <3> QED
            BY <3>1, SubSeqEmpty
    <2>3. SubSeq(ComponentsOf(lhs), 1, count) = SubSeq(ComponentsOf(rhs), 1, count)
        BY <1>1, <1>4, <2>2
    <2> QED
        BY <2>1, <2>3 DEF Popping
<1>7. Counting
    <2>1. Len(ComponentsOf(lhs)) \in Nat
        BY <1>4, ComponentsAre
    <2>2. Len(ComponentsOf(lhs)) = count + Len(ComponentsOf(curLhs)) /\ ~(count > 0)
        BY <1>1, <2>1
    <2> QED
        BY <2>2 DEF Counting
<1> QED
    BY <1>1, <1>5, <1>6, <1>7, NotReturned DEF LoopInv

LEMMA PopBothKeeps == LoopInv /\ PopBoth => LoopInv'
<1> SUFFICES ASSUME LoopInv, PopBoth PROVE LoopInv'
    OBVIOUS
<1> DEFINE l == ComponentsOf(lhs)
           r == ComponentsOf(rhs)
           n == count
           m == n + 1
<1>1. /\ result = Running /\ call \in {"eq", "ancestor"}
      /\ First(curLhs) = First(curRhs) /\ First(curLhs) # <<>>
      /\ curLhs' = PopFirst(curLhs).rest /\ curRhs' = PopFirst(curRhs).rest
      /\ count' = count + 1
      /\ call' = call /\ lhs' = lhs /\ rhs' = rhs /\ result' = result
    BY DEF PopBoth, Alike
<1>2. /\ lhs \in Slice /\ rhs \in Slice /\ curLhs \in Slice /\ curRhs \in Slice
      /\ count \in Nat
    BY DEF LoopInv, SlicesOK
<1>3. /\ Popped(lhs, curLhs, n) /\ Popped(rhs, curRhs, n)
      /\ SubSeq(l, 1, n) = SubSeq(r, 1, n)
    BY <1>1 DEF LoopInv, Popping
<1>4. /\ Solid(curLhs) # {} /\ Solid(curRhs) # {}
    BY <1>1, <1>2, <1>3, LeftIs
<1>5. /\ Popped(lhs, curLhs', m) /\ m \in 1 .. Len(l) /\ l[m] = First(curLhs)
    BY <1>1, <1>2, <1>3, <1>4, PoppedOne
<1>6. /\ Popped(rhs, curRhs', m) /\ m \in 1 .. Len(r) /\ r[m] = First(curRhs)
    BY <1>1, <1>2, <1>3, <1>4, PoppedOne
<1>7. l \in Seq(Seq(Char)) /\ r \in Seq(Seq(Char)) /\ Len(l) \in Nat /\ Len(r) \in Nat
    BY <1>2, ComponentsAre
<1>8. n \in 0 .. Len(l) /\ n \in 0 .. Len(r)
    BY <1>3 DEF Popped
<1> HIDE DEF l, r
<1>9. SubSeq(l, 1, m) = SubSeq(r, 1, m)
    <2>1. \A k \in 1 .. n : l[k] = r[k]
        BY <1>3, <1>7, <1>8, AgreeIs
    <2>2. l[m] = r[m]
        BY <1>1, <1>5, <1>6
    <2>3. \A k \in 1 .. m : k \in 1 .. n \/ k = m
        BY <1>2
    <2>4. m \in 0 .. Len(l) /\ m \in 0 .. Len(r)
        BY <1>2, <1>5, <1>6, <1>7
    <2> HIDE DEF m
    <2>5. \A k \in 1 .. m : l[k] = r[k]
        BY <2>1, <2>2, <2>3
    <2> QED
        BY <1>7, <2>4, <2>5, AgreeIs
<1>10. SlicesOK'
    <2>1. curLhs' \in Slice /\ curRhs' \in Slice
        BY <1>1, <1>2, PopFirstIs
    <2>2. count' \in Nat
        BY <1>1, <1>2
    <2> QED
        BY <1>1, <1>2, <2>1, <2>2 DEF SlicesOK
<1>11. Popping'
    <2>1. count' = m
        BY <1>1
    <2> HIDE DEF m
    <2> QED
        BY <1>1, <1>5, <1>6, <1>9, <2>1 DEF Popping, l, r
<1>12. Counting'
    BY <1>1 DEF Counting
<1>13. (EqRight /\ LenRight /\ AncestorRight)'
    <2>1. result'.kind = "running"
        BY <1>1 DEF Running
    <2> QED
        BY <2>1 DEF EqRight, LenRight, AncestorRight
<1> QED
    BY <1>10, <1>11, <1>12, <1>13 DEF LoopInv

\* A step that returns says nothing of the loops.
LEMMA Returned ==
    ASSUME LoopInv, result' # Running, UNCHANGED <<lhs, rhs, curLhs, curRhs, count>>
    PROVE  (SlicesOK /\ Popping /\ Counting)'
<1>1. SlicesOK'
    BY DEF LoopInv, SlicesOK
<1>2. Popping' /\ Counting'
    BY DEF Popping, Counting, Running
<1> QED
    BY <1>1, <1>2

LEMMA EqReturnsKeeps == LoopInv /\ EqReturns => LoopInv'
<1> SUFFICES ASSUME LoopInv, EqReturns PROVE LoopInv'
    OBVIOUS
<1>1. /\ result = Running /\ call = "eq"
      /\ First(curLhs) # First(curRhs) \/ First(curLhs) = <<>>
      /\ result' = [kind |-> "eq", equal |-> Alike]
      /\ call' = call /\ UNCHANGED <<lhs, rhs, curLhs, curRhs, count>>
    BY DEF EqReturns, Alike
<1>2. /\ lhs \in Slice /\ rhs \in Slice /\ curLhs \in Slice /\ curRhs \in Slice
      /\ count \in Nat
    BY DEF LoopInv, SlicesOK
<1>3. /\ Popped(lhs, curLhs, count) /\ Popped(rhs, curRhs, count)
      /\ SubSeq(ComponentsOf(lhs), 1, count) = SubSeq(ComponentsOf(rhs), 1, count)
    BY <1>1 DEF LoopInv, Popping
<1>4. Alike <=> ComponentsOf(lhs) = ComponentsOf(rhs)
    BY <1>1, <1>2, <1>3, LastTurn DEF Alike
<1>5. result'.kind = "eq" /\ result'.equal = Alike
    BY <1>1
<1>6. (SlicesOK /\ Popping /\ Counting)'
    <2>1. result' # Running
        BY <1>5 DEF Running
    <2> QED
        BY <1>1, <2>1, Returned
<1>7. EqRight'
    <2>1. (Unbroken(lhs) /\ Unbroken(rhs))' =>
              (WordsOf(lhs) = ComponentsOf(lhs) /\ WordsOf(rhs) = ComponentsOf(rhs))
        BY <1>1, <1>2, WordsAre
    <2> QED
        BY <1>1, <1>4, <1>5, <2>1 DEF EqRight
<1>8. LenRight' /\ AncestorRight'
    BY <1>5 DEF LenRight, AncestorRight
<1> QED
    BY <1>6, <1>7, <1>8 DEF LoopInv

LEMMA AncestorReturnsKeeps == LoopInv /\ AncestorReturns => LoopInv'
<1> SUFFICES ASSUME LoopInv, AncestorReturns PROVE LoopInv'
    OBVIOUS
<1> DEFINE l == ComponentsOf(lhs)
           r == ComponentsOf(rhs)
           n == count
           g == Behind(lhs, curLhs)
<1>1. /\ result = Running /\ call = "ancestor"
      /\ First(curLhs) # First(curRhs) \/ First(curLhs) = <<>>
      /\ result' = [kind |-> "ancestor", lhsRest |-> curLhs, rhsRest |-> curRhs,
                    ancestor |-> Trim(g)]
      /\ call' = call /\ UNCHANGED <<lhs, rhs, curLhs, curRhs, count>>
    BY DEF AncestorReturns, Alike, Behind
<1>2. /\ lhs \in Slice /\ rhs \in Slice /\ curLhs \in Slice /\ curRhs \in Slice
      /\ count \in Nat
    BY DEF LoopInv, SlicesOK
<1>3. /\ Popped(lhs, curLhs, n) /\ Popped(rhs, curRhs, n)
      /\ SubSeq(l, 1, n) = SubSeq(r, 1, n)
    BY <1>1 DEF LoopInv, Popping
<1>4. /\ Paths!SharedLen(l, r) = n /\ Paths!SharedLen(r, l) = n
      /\ l # <<>> \/ r # <<>> => (Length(curLhs) = 0 /\ Length(curRhs) = 0 <=> l = r)
    BY <1>1, <1>2, <1>3, LastTurn
<1>5. /\ curLhs.text = lhs.text /\ lhs.from <= curLhs.from /\ curLhs.to <= lhs.to
      /\ ComponentsOf(g) = SubSeq(l, 1, n)
      /\ ComponentsOf(curLhs) = SubSeq(l, n + 1, Len(l))
    BY <1>3 DEF Popped
<1>6. ComponentsOf(curRhs) = SubSeq(r, n + 1, Len(r))
    BY <1>3 DEF Popped
<1>7. g \in Slice
    BY <1>2, <1>5, BehindIs
<1> HIDE DEF g, l, r
<1>8. ComponentsOf(Trim(g)) = Paths!CommonAncestor(l, r)
    <2>1. Paths!CommonAncestor(l, r) = SubSeq(l, 1, n)
        BY <1>4 DEF Paths!CommonAncestor
    <2> QED
        BY <1>5, <1>7, <2>1, TrimComponents
<1>9. ComponentsOf(curLhs) = Paths!PathRest(l, r) /\ ComponentsOf(curRhs) = Paths!PathRest(r, l)
    BY <1>4, <1>5, <1>6 DEF Paths!PathRest
<1>10. /\ result'.kind = "ancestor" /\ result'.ancestor = Trim(g)
       /\ result'.lhsRest = curLhs /\ result'.rhsRest = curRhs
    BY <1>1
<1>11. (SlicesOK /\ Popping /\ Counting)'
    <2>1. result' # Running
        BY <1>10 DEF Running
    <2> QED
        BY <1>1, <2>1, Returned
<1>12. AncestorRight'
    <2>1. ASSUME Unbroken(lhs), Unbroken(rhs)
          PROVE  WordsOf(Trim(g)) = Paths!CommonAncestor(WordsOf(lhs), WordsOf(rhs))
        <3>1. WordsOf(lhs) = l /\ WordsOf(rhs) = r
            BY <1>2, <2>1, WordsAre DEF l, r
        <3>2. g.text = lhs.text /\ Solid(g) \subseteq Solid(lhs)
            BY <1>2, <1>5, BehindIs DEF g
        <3>3. /\ Trim(g) \in Slice /\ Trim(g).text = lhs.text
              /\ Solid(Trim(g)) \subseteq Solid(lhs)
            BY <1>7, <3>2, TrimIs
        <3>4. WordsOf(Trim(g)) = ComponentsOf(Trim(g))
            BY <2>1, <3>3, PartUnbroken, WordsAre
        <3> QED
            BY <1>8, <3>1, <3>4
    <2> QED
        BY <1>1, <1>4, <1>8, <1>9, <1>10, <2>1 DEF AncestorRight, l, r
<1>13. EqRight' /\ LenRight'
    BY <1>10 DEF EqRight, LenRight
<1> QED
    BY <1>11, <1>12, <1>13 DEF LoopInv

\* What is left for tfs_path_components_len to count.
LEMMA LeftTrimmed ==
    ASSUME LoopInv, result = Running, call = "len"
    PROVE  /\ Left \in Slice /\ Trimmed(Left)
           /\ ComponentsOf(Left) = ComponentsOf(curLhs)
           /\ Len(ComponentsOf(lhs)) = count + Len(ComponentsOf(Left))
           /\ Length(Left) = 0 <=> ComponentsOf(Left) = <<>>
<1>1. curLhs \in Slice /\ count \in Nat
    BY DEF LoopInv, SlicesOK
<1>2. /\ Len(ComponentsOf(lhs)) = count + Len(ComponentsOf(curLhs))
      /\ count > 0 => Trimmed(curLhs)
    BY DEF LoopInv, Counting
<1>3. Left \in Slice /\ Trimmed(Left) /\ ComponentsOf(Left) = ComponentsOf(curLhs)
    <2>1. CASE count = 0
        BY <1>1, <2>1, TrimIs, TrimComponents DEF Left
    <2>2. CASE count # 0
        <3>1. count > 0
            BY <1>1, <2>2
        <3> QED
            BY <1>1, <1>2, <2>2, <3>1 DEF Left
    <2> QED
        BY <2>1, <2>2
<1> QED
    BY <1>2, <1>3, NothingLeft

LEMMA LenPopsKeeps == LoopInv /\ LenPops => LoopInv'
<1> SUFFICES ASSUME LoopInv, LenPops PROVE LoopInv'
    OBVIOUS
<1> DEFINE rest == PopLast(Left).rest
           path == ComponentsOf(Left)
           c == Chars(PopLast(Left).component)
<1>1. /\ result = Running /\ call = "len" /\ Length(Left) # 0
      /\ curLhs' = rest /\ count' = count + 1
      /\ UNCHANGED <<call, lhs, rhs, curRhs, result>>
    BY DEF LenPops
<1>2. /\ lhs \in Slice /\ rhs \in Slice /\ curRhs \in Slice /\ count \in Nat
    BY DEF LoopInv, SlicesOK
<1>3. /\ Left \in Slice
      /\ Len(ComponentsOf(lhs)) = count + Len(path)
      /\ path # <<>>
    BY <1>1, LeftTrimmed
<1>4. rest \in Slice /\ Trimmed(rest)
    BY <1>3, PopLastIs
<1>5. c \in Seq(Char) /\ ComponentsOf(rest) \in Seq(Seq(Char)) /\ path = ComponentsOf(rest) \o <<c>>
    BY <1>3, LastComponent
<1>6. Len(path) = Len(ComponentsOf(rest)) + 1 /\ Len(ComponentsOf(rest)) \in Nat
    BY <1>5, RestAndLast
<1> HIDE DEF rest, path, c
<1>7. SlicesOK'
    <2>1. count' \in Nat
        BY <1>1, <1>2
    <2> QED
        BY <1>1, <1>2, <1>4, <2>1 DEF SlicesOK
<1>8. Popping'
    BY <1>1 DEF Popping
<1>9. Counting'
    <2>1. Len(ComponentsOf(lhs)) = (count + 1) + Len(ComponentsOf(rest))
        BY <1>2, <1>3, <1>6
    <2> QED
        BY <1>1, <1>4, <2>1 DEF Counting
<1>10. (EqRight /\ LenRight /\ AncestorRight)'
    <2>1. result'.kind = "running"
        BY <1>1 DEF Running
    <2> QED
        BY <2>1 DEF EqRight, LenRight, AncestorRight
<1> QED
    BY <1>7, <1>8, <1>9, <1>10 DEF LoopInv

LEMMA LenReturnsKeeps == LoopInv /\ LenReturns => LoopInv'
<1> SUFFICES ASSUME LoopInv, LenReturns PROVE LoopInv'
    OBVIOUS
<1>1. /\ result = Running /\ call = "len" /\ Length(Left) = 0
      /\ result' = [kind |-> "len", len |-> count]
      /\ UNCHANGED <<call, lhs, rhs, curLhs, curRhs, count>>
    BY DEF LenReturns
<1>2. /\ Len(ComponentsOf(lhs)) = count + Len(ComponentsOf(Left))
      /\ ComponentsOf(Left) = <<>>
    BY <1>1, LeftTrimmed
<1>3. count \in Nat
    BY DEF LoopInv, SlicesOK
<1>4. Len(ComponentsOf(Left)) = 0
    BY <1>2, EmptySeq
<1>5. Len(ComponentsOf(lhs)) = count
    BY <1>2, <1>3, <1>4
<1>6. result'.kind = "len" /\ result'.len = count
    BY <1>1
<1>7. (SlicesOK /\ Popping /\ Counting)'
    <2>1. result' # Running
        BY <1>6 DEF Running
    <2> QED
        BY <1>1, <2>1, Returned
<1>8. LenRight'
    <2>1. Len(ComponentsOf(lhs)) = Len(WordsOf(lhs)) <=> Unbroken(lhs)
        BY WordsMore DEF LoopInv, SlicesOK
    <2> QED
        BY <1>1, <1>5, <1>6, <2>1 DEF LenRight
<1>9. EqRight' /\ AncestorRight'
    BY <1>6 DEF EqRight, AncestorRight
<1> QED
    BY <1>7, <1>8, <1>9 DEF LoopInv

LEMMA MoveOrdersKeeps == LoopInv /\ MoveOrders => LoopInv'
<1> SUFFICES ASSUME LoopInv, MoveOrders PROVE LoopInv'
    OBVIOUS
<1>1. /\ result'.kind = "order"
      /\ UNCHANGED <<call, lhs, rhs, curLhs, curRhs, count>>
    BY DEF MoveOrders
<1>2. (SlicesOK /\ Popping /\ Counting)'
    <2>1. result' # Running
        BY <1>1 DEF Running
    <2> QED
        BY <1>1, <2>1, Returned
<1>3. (EqRight /\ LenRight /\ AncestorRight)'
    BY <1>1 DEF EqRight, LenRight, AncestorRight
<1> QED
    BY <1>2, <1>3 DEF LoopInv

\* The invariant is inductive.
THEOREM Loops == Spec => []LoopInv
<1>1. LoopInv /\ [Next]_vars => LoopInv'
    <2> SUFFICES ASSUME LoopInv, [Next]_vars PROVE LoopInv'
        OBVIOUS
    <2>1. CASE UNCHANGED vars
        <3>1. UNCHANGED <<call, lhs, rhs, curLhs, curRhs, count, result>>
            BY <2>1 DEF vars
        <3>2. SlicesOK' /\ Popping' /\ Counting'
            BY <3>1 DEF LoopInv, SlicesOK, Popping, Counting
        <3>3. EqRight' /\ LenRight' /\ AncestorRight'
            BY <3>1 DEF LoopInv, EqRight, LenRight, AncestorRight
        <3> QED
            BY <3>2, <3>3 DEF LoopInv
    <2>2. CASE Next
        BY <2>2, PopBothKeeps, EqReturnsKeeps, AncestorReturnsKeeps, LenPopsKeeps,
           LenReturnsKeeps, MoveOrdersKeeps DEF Next
    <2> QED
        BY <2>1, <2>2
<1> QED
    BY <1>1, LoopInit, PTL DEF Spec

-----------------------------------------------------------------------------
\* A component taken from either end of any path is that component, and the
\* rest is the other components.
THEOREM PathPops == Spec => []PopsComponents
<1>1. LoopInv => PopsComponents
    <2> SUFFICES ASSUME LoopInv PROVE PopsComponents
        OBVIOUS
    <2>1. \A p \in {curLhs, curRhs} : p \in Slice
        BY DEF LoopInv, SlicesOK
    <2> QED
        BY <2>1, PopsOf, WordsAre DEF PopsComponents
<1> QED
    BY <1>1, Loops, PTL

\* tfs_path_eq, tfs_path_components_len and tfs_path_common_ancestor return
\* what TfsPath says of the components, whatever the texts.
THEOREM PathEq == Spec => []EqRight
<1>1. LoopInv => EqRight
    BY DEF LoopInv
<1> QED
    BY <1>1, Loops, PTL

THEOREM PathLen == Spec => []LenRight
<1>1. LoopInv => LenRight
    BY DEF LoopInv
<1> QED
    BY <1>1, Loops, PTL

THEOREM PathAncestor == Spec => []AncestorRight
<1>1. LoopInv => AncestorRight
    BY DEF LoopInv
<1> QED
    BY <1>1, Loops, PTL

=============================================================================
