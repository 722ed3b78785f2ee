----------------------------- MODULE TfsWireProofs -----------------------------
(***************************************************************************)
(* What arrives of a command, for texts and buffers of any length          *)
(* (CommandsArrive), and what the client program makes of a file           *)
(* (FileSent, FailedLineNamed).  First come lemmas about texts: where      *)
(* scans of them stop, and so which tokens sscanf finds; the second part   *)
(* relates the scans of a file to the lines and words in it.               *)
(***************************************************************************)
EXTENDS TfsWireProps, SequenceTheorems, FiniteSetTheorems, WellFoundedInduction, TLAPS

Text == Seq(Byte)

\* The characters of a part of a text.
LEMMA PartOf ==
    ASSUME NEW text \in Text, NEW a \in Nat \ {0}, NEW b \in Nat, b <= Len(text)
    PROVE  /\ SubSeq(text, a, b) \in Text
           /\ Len(SubSeq(text, a, b)) = IF a <= b THEN b - a + 1 ELSE 0
           /\ \A k \in 1 .. b - a + 1 : SubSeq(text, a, b)[k] = text[a + k - 1]
<1>1. \A k \in a .. b : text[k] \in Byte
    <2>1. Len(text) \in Nat
        BY LenProperties DEF Text
    <2> QED
        BY <2>1, ElementOfSeq DEF Text
<1>2. a \in Int /\ b \in Int
    OBVIOUS
<1> QED
    BY <1>1, <1>2, SubSeqProperties DEF Text

\* A part of a part is a part.
LEMMA PartOfPart ==
    ASSUME NEW text \in Text, NEW a \in Nat \ {0}, NEW b \in Nat, b <= Len(text),
           NEW c \in Nat \ {0}, NEW d \in Nat, d <= b - a + 1
    PROVE  SubSeq(SubSeq(text, a, b), c, d) = SubSeq(text, a + c - 1, a + d - 1)
<1> DEFINE part == SubSeq(text, a, b)
           inner == SubSeq(part, c, d)
           outer == SubSeq(text, a + c - 1, a + d - 1)
<1>0. Len(text) \in Nat
    BY LenProperties DEF Text
<1>1. /\ part \in Text /\ Len(part) = (IF a <= b THEN b - a + 1 ELSE 0)
      /\ \A k \in 1 .. b - a + 1 : part[k] = text[a + k - 1]
    BY PartOf
<1>2. d <= Len(part)
    BY <1>1
<1> HIDE DEF part
<1>3. /\ inner \in Text /\ Len(inner) = (IF c <= d THEN d - c + 1 ELSE 0)
      /\ \A k \in 1 .. d - c + 1 : inner[k] = part[c + k - 1]
    BY <1>1, <1>2, PartOf
<1>4. CASE c <= d
    <2>1. a + c - 1 \in Nat \ {0} /\ a + d - 1 \in Nat /\ a + d - 1 <= Len(text)
        BY <1>0, <1>4
    <2>2. /\ outer \in Text /\ Len(outer) = d - c + 1
          /\ \A k \in 1 .. d - c + 1 : outer[k] = text[a + c - 1 + k - 1]
        <3> DEFINE e == a + c - 1
                   f == a + d - 1
        <3>1. e \in Nat \ {0} /\ f \in Nat /\ f <= Len(text) /\ e <= f /\ f - e + 1 = d - c + 1
            BY <2>1, <1>4
        <3> HIDE DEF e, f
        <3>2. /\ SubSeq(text, e, f) \in Text /\ Len(SubSeq(text, e, f)) = f - e + 1
              /\ \A k \in 1 .. f - e + 1 : SubSeq(text, e, f)[k] = text[e + k - 1]
            BY <3>1, PartOf
        <3> QED
            BY <3>1, <3>2 DEF e, f
    <2>3. \A k \in 1 .. d - c + 1 : inner[k] = outer[k]
        BY <1>1, <1>3, <1>4, <2>2
    <2> HIDE DEF inner, outer
    <2>4. inner \in Seq(Byte) /\ outer \in Seq(Byte) /\ Len(inner) = Len(outer)
          /\ \A k \in 1 .. Len(inner) : inner[k] = outer[k]
        BY <1>3, <1>4, <2>2, <2>3 DEF Text
    <2>5. inner = outer
        BY <2>4, SeqEqual
    <2> QED
        BY <2>5 DEF inner, outer, part
<1>5. CASE ~(c <= d)
    <2>1. inner = <<>>
        BY <1>5, SubSeqEmpty
    <2>2. outer = <<>>
        <3>1. a + c - 1 \in Int /\ a + d - 1 \in Int /\ a + d - 1 < a + c - 1
            BY <1>5
        <3> QED
            BY <3>1, SubSeqEmpty
    <2> QED
        BY <2>1, <2>2 DEF part
<1> QED
    BY <1>4, <1>5

\* A set of numbers has a least one.
LEMMA Least ==
    ASSUME NEW S \in SUBSET Nat, S # {}
    PROVE  \E m \in S : \A j \in S : m <= j
<1> DEFINE R == OpToRel(<, Nat)
<1>1. \A j, k \in Nat : j < k => <<j, k>> \in R
    <2>1. R = {ss \in Nat \X Nat : ss[1] < ss[2]}
        BY Zenon DEF OpToRel
    <2> HIDE DEF R
    <2> QED
        BY <2>1
<1>2. IsWellFoundedOn(R, Nat)
    BY Zenon, NatLessThanWellFounded
<1> HIDE DEF R
<1>3. PICK m \in S : \A j \in S : ~(<<j, m>> \in R)
    BY <1>2, WFMin
<1>4. \A j \in S : ~(j < m)
    BY <1>1, <1>3
<1>5. m \in Nat /\ \A j \in S : j \in Nat
    OBVIOUS
<1> QED
    BY <1>4, <1>5

\* A scan stops at the first character of its kind.
LEMMA FirstInIs ==
    ASSUME NEW text \in Text, NEW chars, NEW k \in 1 .. Len(text), text[k] \in chars,
           \A j \in 1 .. k - 1 : text[j] \notin chars
    PROVE  FirstIn(text, chars) = k
<1> DEFINE I == {i \in 1 .. Len(text) : text[i] \in chars}
<1>1. Len(text) \in Nat
    BY LenProperties DEF Text
<1>2. k \in I /\ \A y \in I : k <= y
    BY <1>1
<1>3. \A x \in I : (\A y \in I : x <= y) => x = k
    BY <1>1, <1>2
<1>4. FirstIn(text, chars) = IF I # {} THEN Min(I) ELSE 0
    BY DEF FirstIn, SelectInSeq
<1> HIDE DEF I
<1>5. Min(I) = k
    BY <1>2, <1>3 DEF Min
<1> QED
    BY <1>2, <1>4, <1>5

LEMMA FirstInNone ==
    ASSUME NEW text \in Text, NEW chars, \A j \in 1 .. Len(text) : text[j] \notin chars
    PROVE  FirstIn(text, chars) = 0
BY DEF FirstIn, SelectInSeq

\* It stops nowhere else.
LEMMA FirstInCases ==
    ASSUME NEW text \in Text, NEW chars
    PROVE  \/ /\ FirstIn(text, chars) = 0
              /\ \A j \in 1 .. Len(text) : text[j] \notin chars
           \/ /\ FirstIn(text, chars) \in 1 .. Len(text)
              /\ text[FirstIn(text, chars)] \in chars
              /\ \A j \in 1 .. FirstIn(text, chars) - 1 : text[j] \notin chars
<1> DEFINE I == {i \in 1 .. Len(text) : text[i] \in chars}
<1>1. Len(text) \in Nat
    BY LenProperties DEF Text
<1>2. CASE I = {}
    BY <1>2, FirstInNone
<1>3. CASE I # {}
    <2>1. I \in SUBSET Nat
        OBVIOUS
    <2>2. PICK k \in I : \A j \in I : k <= j
        BY <1>3, <2>1, Least
    <2>3. k \in 1 .. Len(text) /\ text[k] \in chars
        OBVIOUS
    <2>4. \A j \in 1 .. k - 1 : text[j] \notin chars
        BY <1>1, <2>2, <2>3
    <2>5. FirstIn(text, chars) = k
        BY <2>3, <2>4, FirstInIs
    <2> QED
        BY <2>3, <2>4, <2>5
<1> QED
    BY <1>2, <1>3

\* The rest of a text.
LEMMA RestOf ==
    ASSUME NEW text \in Text, NEW i \in Nat \ {0}, i <= Len(text) + 1
    PROVE  /\ From(text, i) \in Text /\ Len(From(text, i)) = Len(text) - i + 1
           /\ \A k \in 1 .. Len(text) - i + 1 : From(text, i)[k] = text[i + k - 1]
           /\ \A k \in Nat \ {0} : From(From(text, i), k) = From(text, i + k - 1)
<1> DEFINE n == Len(text)
           rest == SubSeq(text, i, n)
<1>1. n \in Nat
    BY LenProperties DEF Text
<1>2. /\ rest \in Text /\ Len(rest) = (IF i <= n THEN n - i + 1 ELSE 0)
      /\ \A k \in 1 .. n - i + 1 : rest[k] = text[i + k - 1]
    BY <1>1, PartOf
<1>3. Len(rest) = n - i + 1
    BY <1>1, <1>2
<1>4. ASSUME NEW k \in Nat \ {0} PROVE SubSeq(rest, k, Len(rest)) = SubSeq(text, i + k - 1, n)
    <2> DEFINE d == Len(rest)
    <2>1. d \in Nat /\ d <= n - i + 1 /\ i + d - 1 = n
        BY <1>1, <1>3
    <2> HIDE DEF d
    <2>2. SubSeq(rest, k, d) = SubSeq(text, i + k - 1, i + d - 1)
        BY <1>1, <2>1, PartOfPart
    <2> QED
        BY <2>1, <2>2 DEF d
<1> QED
    BY <1>2, <1>3, <1>4 DEF From

\* Blanks are skipped up to the next character.
LEMMA AfterSpaceIs ==
    ASSUME NEW text \in Text, NEW i \in Nat \ {0}, NEW j \in Nat, i <= j, j <= Len(text),
           \A k \in i .. j - 1 : text[k] \in Space, text[j] \notin Space
    PROVE  AfterSpace(From(text, i)) = From(text, j)
<1> DEFINE rest == From(text, i)
           m == j - i + 1
<1>1. Len(text) \in Nat /\ text[j] \in Byte
    BY LenProperties, ElementOfSeq DEF Text
<1>2. /\ rest \in Text /\ Len(rest) = Len(text) - i + 1
      /\ \A k \in 1 .. Len(text) - i + 1 : rest[k] = text[i + k - 1]
      /\ \A k \in Nat \ {0} : From(rest, k) = From(text, i + k - 1)
    BY <1>1, RestOf
<1>3. m \in 1 .. Len(rest) /\ m \in Nat \ {0} /\ i + m - 1 = j
    BY <1>1, <1>2
<1>4. rest[m] \in Byte \ Space
    <2>1. rest[m] = text[i + m - 1]
        BY <1>1, <1>2, <1>3
    <2> QED
        BY <1>1, <1>3, <2>1
<1>5. ASSUME NEW k \in 1 .. m - 1 PROVE rest[k] \notin Byte \ Space
    <2>1. k \in 1 .. Len(text) - i + 1 /\ i + k - 1 \in i .. j - 1
        BY <1>1
    <2> QED
        BY <1>2, <2>1
<1> HIDE DEF rest, m
<1>6. FirstIn(rest, Byte \ Space) = m
    BY <1>2, <1>3, <1>4, <1>5, FirstInIs
<1>7. AfterSpace(rest) = From(rest, m)
    BY <1>3, <1>6 DEF AfterSpace
<1>8. From(rest, m) = From(text, j)
    BY <1>2, <1>3
<1> QED
    BY <1>7, <1>8 DEF rest

LEMMA AfterSpaceNone ==
    ASSUME NEW text \in Text, NEW i \in Nat \ {0}, i <= Len(text) + 1,
           \A k \in i .. Len(text) : text[k] \in Space
    PROVE  AfterSpace(From(text, i)) = <<>>
<1> DEFINE rest == From(text, i)
<1>1. Len(text) \in Nat
    BY LenProperties DEF Text
<1>2. /\ rest \in Text /\ Len(rest) = Len(text) - i + 1
      /\ \A k \in 1 .. Len(text) - i + 1 : rest[k] = text[i + k - 1]
    BY <1>1, RestOf
<1>3. \A k \in 1 .. Len(rest) : rest[k] \notin Byte \ Space
    BY <1>1, <1>2
<1> HIDE DEF rest
<1>4. FirstIn(rest, Byte \ Space) = 0
    BY <1>2, <1>3, FirstInNone
<1> QED
    BY <1>4 DEF AfterSpace, rest

\* A word ends where the next blank is, or with the text.
LEMMA BeforeIs ==
    ASSUME NEW text \in Text, NEW chars, NEW a \in Nat \ {0}, NEW b \in Nat,
           a <= b + 1, b <= Len(text), \A k \in a .. b : text[k] \notin chars,
           b = Len(text) \/ text[b + 1] \in chars
    PROVE  /\ Before(From(text, a), chars) = SubSeq(text, a, b)
           /\ From(From(text, a), Len(Before(From(text, a), chars)) + 1) = From(text, b + 1)
<1> DEFINE rest == From(text, a)
           m == b - a + 1
<1>1. Len(text) \in Nat /\ m \in Nat /\ a <= Len(text) + 1
    BY LenProperties DEF Text
<1>2. /\ rest \in Text /\ Len(rest) = Len(text) - a + 1
      /\ \A k \in 1 .. Len(text) - a + 1 : rest[k] = text[a + k - 1]
      /\ \A k \in Nat \ {0} : From(rest, k) = From(text, a + k - 1)
    BY <1>1, RestOf
<1>3. ASSUME NEW k \in 1 .. m PROVE rest[k] \notin chars
    <2>1. k \in 1 .. Len(text) - a + 1 /\ a + k - 1 \in a .. b
        BY <1>1
    <2> QED
        BY <1>2, <2>1
<1>4. Before(rest, chars) = SubSeq(rest, 1, m)
    <2>1. CASE b = Len(text)
        <3>1. m = Len(rest)
            BY <1>1, <1>2, <2>1
        <3> HIDE DEF rest, m
        <3>2. FirstIn(rest, chars) = 0
            BY <1>2, <1>3, <3>1, FirstInNone
        <3>3. SubSeq(rest, 1, m) = rest
            BY <1>2, <3>1, SubSeqFull DEF Text
        <3> QED
            BY <3>2, <3>3 DEF Before
    <2>2. CASE b # Len(text)
        <3>1. m + 1 \in 1 .. Len(rest) /\ a + (m + 1) - 1 = b + 1
            BY <1>1, <1>2, <2>2
        <3>2. rest[m + 1] = text[b + 1]
            BY <1>1, <1>2, <3>1
        <3>3. rest[m + 1] \in chars
            BY <2>2, <3>2
        <3> HIDE DEF rest, m
        <3>4. \A j \in 1 .. (m + 1) - 1 : rest[j] \notin chars
            BY <1>1, <1>3
        <3>5. FirstIn(rest, chars) = m + 1
            BY <1>2, <3>1, <3>3, <3>4, FirstInIs
        <3> DEFINE f == FirstIn(rest, chars)
        <3>6. f # 0 /\ f - 1 = m
            BY <1>1, <3>5
        <3>7. f # 0 => Before(rest, chars) = SubSeq(rest, 1, f - 1)
            BY DEF Before
        <3> HIDE DEF f
        <3>8. Before(rest, chars) = SubSeq(rest, 1, f - 1)
            BY <3>6, <3>7, Zenon
        <3> QED
            BY <3>6, <3>8, Zenon
    <2> QED
        BY <2>1, <2>2
<1>5. SubSeq(rest, 1, m) = SubSeq(text, a, b)
    <2> DEFINE n == Len(text)
    <2>1. n \in Nat /\ n <= Len(text) /\ m <= n - a + 1 /\ a + 1 - 1 = a /\ a + m - 1 = b
        BY <1>1, <1>2
    <2> HIDE DEF m, n
    <2>2. SubSeq(SubSeq(text, a, n), 1, m) = SubSeq(text, a + 1 - 1, a + m - 1)
        BY <1>1, <2>1, PartOfPart
    <2> QED
        BY <2>1, <2>2 DEF From, n
<1>6. Len(SubSeq(text, a, b)) = m
    <2>1. Len(SubSeq(text, a, b)) = IF a <= b THEN b - a + 1 ELSE 0
        BY PartOf
    <2> QED
        BY <2>1
<1>7. From(rest, m + 1) = From(text, b + 1)
    <2>1. m + 1 \in Nat \ {0} /\ a + (m + 1) - 1 = b + 1
        BY <1>1
    <2> HIDE DEF rest, m
    <2> QED
        BY <1>2, <2>1
<1> QED
    BY <1>4, <1>5, <1>6, <1>7

-----------------------------------------------------------------------------
\* The lesser of two numbers, and what fits a buffer.
LEMMA CutIs ==
    ASSUME NEW text, Len(text) \in Nat, NEW size \in Nat
    PROVE  Cut(text, size) = SubSeq(text, 1, IF Len(text) <= size THEN Len(text) ELSE size)
<1> DEFINE n == Len(text)
           m == IF n <= size THEN n ELSE size
           S == {n, size}
<1>1. m \in S /\ \A y \in S : m <= y
    OBVIOUS
<1>2. \A x \in S : (\A y \in S : x <= y) => x = m
    OBVIOUS
<1> HIDE DEF m, S
<1>3. Min(S) = m
    BY <1>1, <1>2 DEF Min
<1> QED
    BY <1>3 DEF Cut, S, m

\* A text that begins with a letter.
LEMMA Letters ==
    ASSUME NEW text \in Text, 1 <= Len(text), text[1] \notin Space
    PROVE  /\ AfterSpace(text) = text /\ text # <<>>
           /\ Cut(text, 1) = SubSeq(text, 1, 1)
<1>1. Len(text) \in Nat
    BY LenProperties DEF Text
<1>2. From(text, 1) = text
    BY SubSeqFull DEF From, Text
<1>3. AfterSpace(From(text, 1)) = From(text, 1)
    BY <1>1, AfterSpaceIs
<1>4. text # <<>>
    BY <1>1, EmptySeq
<1>5. 1 \in Nat /\ (Len(text) <= 1 => Len(text) = 1)
    BY <1>1
<1>6. Cut(text, 1) = SubSeq(text, 1, IF Len(text) <= 1 THEN Len(text) ELSE 1)
    BY <1>1, CutIs
<1> QED
    BY <1>2, <1>3, <1>4, <1>5, <1>6

\* sscanf finds the letter, and the words behind it.
LEMMA OneToken ==
    ASSUME NEW text \in Text, 1 <= Len(text), text[1] \notin Space,
           \A k \in 2 .. Len(text) : text[k] \in Space
    PROVE  Tokens(text) = <<SubSeq(text, 1, 1)>>
<1>1. Len(text) \in Nat
    BY LenProperties DEF Text
<1>2. AfterSpace(text) = text /\ text # <<>> /\ Cut(text, 1) = SubSeq(text, 1, 1)
    BY Letters
<1>3. AfterSpace(From(text, 2)) = <<>>
    BY <1>1, AfterSpaceNone
<1> QED
    BY <1>2, <1>3 DEF Tokens

\* The word at a .. b of a text is its next word after the place i.
NextWord(text, i, a, b) ==
    /\ a \in Nat \ {0} /\ b \in Nat /\ i <= a /\ a <= b /\ b <= Len(text)
    /\ \A k \in i .. a - 1 : text[k] \in Space
    /\ \A k \in a .. b : text[k] \notin Space
    /\ b = Len(text) \/ text[b + 1] \in Space

LEMMA NextWordIs ==
    ASSUME NEW text \in Text, NEW i \in Nat \ {0}, NEW a, NEW b, NextWord(text, i, a, b)
    PROVE  LET word == AfterSpace(From(text, i)) IN
           /\ word # <<>>
           /\ Before(word, Space) = SubSeq(text, a, b)
           /\ From(word, Len(Before(word, Space)) + 1) = From(text, b + 1)
<1>1. /\ a \in Nat \ {0} /\ b \in Nat /\ i <= a /\ a <= b /\ b <= Len(text)
      /\ \A k \in i .. a - 1 : text[k] \in Space
      /\ \A k \in a .. b : text[k] \notin Space
      /\ b = Len(text) \/ text[b + 1] \in Space
    BY DEF NextWord
<1>2. Len(text) \in Nat
    BY LenProperties DEF Text
<1>3. text[a] \notin Space /\ a <= Len(text) /\ a <= b + 1
    BY <1>1, <1>2
<1>4. AfterSpace(From(text, i)) = From(text, a)
    BY <1>1, <1>3, AfterSpaceIs
<1>5. /\ Before(From(text, a), Space) = SubSeq(text, a, b)
      /\ From(From(text, a), Len(Before(From(text, a), Space)) + 1) = From(text, b + 1)
    BY <1>1, <1>3, BeforeIs
<1>6. From(text, a) \in Text /\ Len(From(text, a)) = Len(text) - a + 1
    BY <1>1, <1>2, RestOf
<1>7. From(text, a) # <<>>
    BY <1>1, <1>2, <1>6, EmptySeq
<1> QED
    BY <1>4, <1>5, <1>7

LEMMA TwoTokens ==
    ASSUME NEW text \in Text, 1 <= Len(text), text[1] \notin Space,
           NEW a, NEW b, NextWord(text, 2, a, b),
           \A k \in b + 1 .. Len(text) : text[k] \in Space
    PROVE  Tokens(text) = <<SubSeq(text, 1, 1), SubSeq(text, a, b)>>
<1> DEFINE first == AfterSpace(From(text, 2))
           second == AfterSpace(From(first, Len(Before(first, Space)) + 1))
<1>1. AfterSpace(text) = text /\ text # <<>> /\ Cut(text, 1) = SubSeq(text, 1, 1)
    BY Letters
<1>2. /\ first # <<>> /\ Before(first, Space) = SubSeq(text, a, b)
      /\ From(first, Len(Before(first, Space)) + 1) = From(text, b + 1)
    BY NextWordIs
<1>3. second = <<>>
    <2>1. b + 1 \in Nat \ {0} /\ b + 1 <= Len(text) + 1
        BY LenProperties DEF NextWord, Text
    <2>2. AfterSpace(From(text, b + 1)) = <<>>
        BY <2>1, AfterSpaceNone
    <2> QED
        BY <1>2, <2>2
<1>4. Tokens(text) =
          CASE text = <<>> -> <<>>
            [] text # <<>> /\ first = <<>> -> <<Cut(text, 1)>>
            [] first # <<>> /\ second = <<>> -> <<Cut(text, 1), Before(first, Space)>>
            [] OTHER -> <<Cut(text, 1), Before(first, Space), Before(second, Space)>>
    BY <1>1 DEF Tokens
<1> HIDE DEF first, second
<1> QED
    BY <1>1, <1>2, <1>3, <1>4

LEMMA ThreeTokens ==
    ASSUME NEW text \in Text, 1 <= Len(text), text[1] \notin Space,
           NEW a, NEW b, NextWord(text, 2, a, b), NEW c, NEW d, NextWord(text, b + 1, c, d)
    PROVE  Tokens(text) = <<SubSeq(text, 1, 1), SubSeq(text, a, b), SubSeq(text, c, d)>>
<1> DEFINE first == AfterSpace(From(text, 2))
           second == AfterSpace(From(first, Len(Before(first, Space)) + 1))
<1>1. AfterSpace(text) = text /\ text # <<>> /\ Cut(text, 1) = SubSeq(text, 1, 1)
    BY Letters
<1>2. /\ first # <<>> /\ Before(first, Space) = SubSeq(text, a, b)
      /\ From(first, Len(Before(first, Space)) + 1) = From(text, b + 1)
    BY NextWordIs
<1>3. second # <<>> /\ Before(second, Space) = SubSeq(text, c, d)
    <2>1. b + 1 \in Nat \ {0}
        BY DEF NextWord
    <2>2. LET word == AfterSpace(From(text, b + 1)) IN
          word # <<>> /\ Before(word, Space) = SubSeq(text, c, d)
        BY <2>1, NextWordIs
    <2> QED
        BY <1>2, <2>2
<1>4. Tokens(text) =
          CASE text = <<>> -> <<>>
            [] text # <<>> /\ first = <<>> -> <<Cut(text, 1)>>
            [] first # <<>> /\ second = <<>> -> <<Cut(text, 1), Before(first, Space)>>
            [] OTHER -> <<Cut(text, 1), Before(first, Space), Before(second, Space)>>
    BY <1>1 DEF Tokens
<1> HIDE DEF first, second
<1> QED
    BY <1>1, <1>2, <1>3, <1>4

-----------------------------------------------------------------------------
\* A path of a command that is a word.
IsWord(p) == p \in Seq(Char) /\ Len(p) >= 1 /\ \A k \in 1 .. Len(p) : p[k] \notin Space

LEMMA PlainWords ==
    ASSUME NEW c \in Command, Plain(c)
    PROVE  IsWord(c.path) /\ (c.op = "move" => IsWord(c.dest))
<1>1. c.path \in Seq(Char) /\ (c.op = "move" => c.dest \in Seq(Char))
    BY DEF Command
<1>2. ASSUME NEW p \in PathsOf(c), p \in Seq(Char) PROVE IsWord(p)
    <2>1. p # <<>> /\ ToSet(p) \cap Space = {}
        BY <1>2 DEF Plain
    <2>2. Len(p) \in Nat \ {0} /\ DOMAIN p = 1 .. Len(p)
        BY <1>2, <2>1, EmptySeq, LenProperties
    <2> QED
        BY <1>2, <2>1, <2>2 DEF IsWord, ToSet
<1>3. c.path \in PathsOf(c) /\ (c.op = "move" => c.dest \in PathsOf(c))
    BY DEF PathsOf
<1> QED
    BY <1>1, <1>2, <1>3

\* The letters and the blank are characters of texts.
LEMMA LetterChars ==
    /\ \A op \in DOMAIN Letter : Letter[op] \in Char \ Space
    /\ \A type \in DOMAIN TypeLetter : TypeLetter[type] \in Char \ Space
    /\ " " \in Char /\ " " \in Space /\ NUL \notin Char /\ NUL \notin Space
    /\ "\n" \in Space /\ " " # "\n"
<1>1. {" ", "c", "l", "d", "m", "p", "f"} \subseteq Char /\ NUL \notin Char
    BY WireAssumption
<1>2. "c" \notin Space /\ "l" \notin Space /\ "d" \notin Space
    BY DEF Space
<1>3. "m" \notin Space /\ "p" \notin Space /\ "f" \notin Space
    BY DEF Space
<1>4. " " \in Space /\ "\n" \in Space /\ " " # "\n" /\ NUL \notin Space
    BY DEF Space, NUL
<1>5. \A op \in DOMAIN Letter : Letter[op] \in {"c", "l", "d", "m", "p"}
    BY DEF Letter
<1>6. \A type \in DOMAIN TypeLetter : TypeLetter[type] \in {"f", "d"}
    BY DEF TypeLetter
<1>7. \A ch \in {"c", "l", "d", "m", "p", "f"} : ch \in Char \ Space
    BY <1>1, <1>2, <1>3
<1>8. " " \in Char
    BY <1>1
<1> QED
    BY <1>1, <1>4, <1>5, <1>6, <1>7, <1>8

LEMMA ShortTexts ==
    ASSUME NEW x \in Char, NEW y \in Char
    PROVE  /\ <<x>> \in Seq(Char) /\ Len(<<x>>) = 1 /\ <<x>>[1] = x
           /\ <<x, y>> \in Seq(Char) /\ Len(<<x, y>>) = 2 /\ <<x, y>>[1] = x /\ <<x, y>>[2] = y
<1>1. <<x>> \in Seq(Char)
    OBVIOUS
<1>2. <<x, y>> \in Seq(Char)
    OBVIOUS
<1> QED
    BY <1>1, <1>2

\* Three texts, one after the other.
LEMMA Joined ==
    ASSUME NEW a \in Seq(Char), NEW b \in Seq(Char), NEW c \in Seq(Char)
    PROVE  /\ (a \o b) \o c \in Seq(Char)
           /\ Len(a) \in Nat /\ Len(b) \in Nat /\ Len(c) \in Nat
           /\ Len((a \o b) \o c) = Len(a) + Len(b) + Len(c)
           /\ \A k \in 1 .. Len(a) : ((a \o b) \o c)[k] = a[k]
           /\ \A k \in 1 .. Len(b) : ((a \o b) \o c)[Len(a) + k] = b[k]
           /\ \A k \in 1 .. Len(c) : ((a \o b) \o c)[Len(a) + Len(b) + k] = c[k]
<1> DEFINE d == a \o b
           e == d \o c
<1>1. Len(a) \in Nat /\ Len(b) \in Nat /\ Len(c) \in Nat
    BY LenProperties
<1>2. /\ d \in Seq(Char) /\ Len(d) = Len(a) + Len(b)
      /\ \A k \in 1 .. Len(a) + Len(b) : d[k] = IF k <= Len(a) THEN a[k] ELSE b[k - Len(a)]
    BY ConcatProperties
<1>3. /\ e \in Seq(Char) /\ Len(e) = Len(d) + Len(c)
      /\ \A k \in 1 .. Len(d) + Len(c) : e[k] = IF k <= Len(d) THEN d[k] ELSE c[k - Len(d)]
    <2>1. d \in Seq(Char)
        BY <1>2
    <2> HIDE DEF d
    <2> QED
        BY <2>1, ConcatProperties
<1> HIDE DEF d
<1> HIDE DEF e
<1>4. ASSUME NEW k \in 1 .. Len(a) PROVE e[k] = a[k]
    <2>1. e[k] = d[k]
        BY <1>1, <1>2, <1>3
    <2> QED
        BY <1>1, <1>2, <2>1
<1>5. ASSUME NEW k \in 1 .. Len(b) PROVE e[Len(a) + k] = b[k]
    <2> DEFINE j == Len(a) + k
    <2>1. j \in 1 .. Len(a) + Len(b) /\ ~(j <= Len(a)) /\ j - Len(a) = k
        BY <1>1
    <2> HIDE DEF j
    <2>2. e[j] = d[j]
        BY <1>1, <1>2, <1>3, <2>1
    <2>3. d[j] = b[k]
        BY <1>2, <2>1
    <2> QED
        BY <2>2, <2>3 DEF j
<1>6. ASSUME NEW k \in 1 .. Len(c) PROVE e[Len(a) + Len(b) + k] = c[k]
    <2> DEFINE j == Len(a) + Len(b) + k
    <2>1. j \in 1 .. Len(d) + Len(c) /\ ~(j <= Len(d)) /\ j - Len(d) = k
        BY <1>1, <1>2
    <2> HIDE DEF j
    <2>2. e[j] = c[k]
        BY <1>3, <2>1
    <2> QED
        BY <2>2 DEF j
<1> QED
    BY <1>1, <1>2, <1>3, <1>4, <1>5, <1>6 DEF d, e

LEMMA OneTwo == 1 \in 1 .. 2 /\ 2 \in 1 .. 2
OBVIOUS

\* The text of a command: the letter and the path, and the rest.
LEMMA TextParts ==
    ASSUME NEW c \in Command, NEW rest \in Seq(Char),
           ToText(c) = (<<Letter[c.op], " ">> \o c.path) \o rest
    PROVE  /\ ToText(c) \in Seq(Char) /\ Len(c.path) \in Nat /\ Len(rest) \in Nat
           /\ Len(ToText(c)) = 2 + Len(c.path) + Len(rest)
           /\ ToText(c)[1] = Letter[c.op] /\ ToText(c)[2] = " "
           /\ \A k \in 1 .. Len(c.path) : ToText(c)[2 + k] = c.path[k]
           /\ \A k \in 1 .. Len(rest) : ToText(c)[2 + Len(c.path) + k] = rest[k]
<1> DEFINE head == <<Letter[c.op], " ">>
           path == c.path
<1>1. c.op \in DOMAIN Letter /\ path \in Seq(Char)
    BY DEF Command, Letter
<1>2. Letter[c.op] \in Char /\ " " \in Char
    BY <1>1, LetterChars
<1>3. head \in Seq(Char) /\ Len(head) = 2 /\ head[1] = Letter[c.op] /\ head[2] = " "
    BY <1>2, ShortTexts
<1>4. ToText(c) = (head \o path) \o rest
    OBVIOUS
<1> HIDE DEF head, path
<1>5. /\ (head \o path) \o rest \in Seq(Char)
      /\ Len(head) \in Nat /\ Len(path) \in Nat /\ Len(rest) \in Nat
      /\ Len((head \o path) \o rest) = Len(head) + Len(path) + Len(rest)
      /\ \A k \in 1 .. Len(head) : ((head \o path) \o rest)[k] = head[k]
      /\ \A k \in 1 .. Len(path) : ((head \o path) \o rest)[Len(head) + k] = path[k]
      /\ \A k \in 1 .. Len(rest) : ((head \o path) \o rest)[Len(head) + Len(path) + k] = rest[k]
    BY <1>1, <1>3, Joined
<1>6. ToText(c)[1] = head[1] /\ ToText(c)[2] = head[2]
    <2>1. Len(head) = 2
        BY <1>3
    <2>2. 1 \in 1 .. 2 /\ 2 \in 1 .. 2
        BY OneTwo
    <2>3. \A k \in 1 .. Len(head) : ToText(c)[k] = head[k]
        BY <1>4, <1>5
    <2>4. 1 \in 1 .. Len(head) /\ 2 \in 1 .. Len(head)
        BY <2>1, <2>2, Zenon
    <2> QED
        BY <2>3, <2>4, Zenon
<1> QED
    BY <1>3, <1>4, <1>5, <1>6 DEF path

\* The text of a command, place by place.
LEMMA TextOf ==
    ASSUME NEW c \in Command
    PROVE  /\ ToText(c) \in Seq(Char) /\ Len(c.path) \in Nat
           /\ Len(ToText(c)) \in Nat /\ Len(ToText(c)) >= 2 + Len(c.path)
           /\ ToText(c)[1] = Letter[c.op] /\ ToText(c)[2] = " "
           /\ \A k \in 1 .. Len(c.path) : ToText(c)[2 + k] = c.path[k]
           /\ c.op \in {"search", "remove", "print"} => Len(ToText(c)) = 2 + Len(c.path)
           /\ c.op = "create" => /\ Len(ToText(c)) = 4 + Len(c.path)
                                 /\ ToText(c)[3 + Len(c.path)] = " "
                                 /\ ToText(c)[4 + Len(c.path)] = TypeLetter[c.type]
           /\ c.op = "move" => /\ Len(ToText(c)) = 3 + Len(c.path) + Len(c.dest)
                               /\ ToText(c)[3 + Len(c.path)] = " "
                               /\ Len(c.dest) \in Nat
                               /\ \A k \in 1 .. Len(c.dest) :
                                      ToText(c)[3 + Len(c.path) + k] = c.dest[k]
<1> DEFINE n == Len(c.path)
           T == ToText(c)
<1>1. CASE c.op = "create"
    <2> DEFINE t == <<" ", TypeLetter[c.type]>>
    <2>1. " " \in Char /\ TypeLetter[c.type] \in Char
        BY <1>1, LetterChars DEF Command, TypeLetter
    <2>2. t \in Seq(Char) /\ Len(t) = 2 /\ t[1] = " " /\ t[2] = TypeLetter[c.type]
        BY <2>1, ShortTexts
    <2>3. T = (<<Letter[c.op], " ">> \o c.path) \o t
        BY <1>1 DEF ToText
    <2> HIDE DEF t
    <2>4. /\ T \in Seq(Char) /\ n \in Nat /\ Len(T) = 2 + n + Len(t)
          /\ T[1] = Letter[c.op] /\ T[2] = " "
          /\ \A k \in 1 .. n : T[2 + k] = c.path[k]
          /\ \A k \in 1 .. Len(t) : T[2 + n + k] = t[k]
        BY <2>2, <2>3, TextParts
    <2> HIDE DEF n, T
    <2>5. Len(t) = 2 /\ n \in Nat /\ Len(T) = 2 + n + Len(t)
        BY <2>2, <2>4
    <2>6. /\ 2 + n + 1 = 3 + n /\ 2 + n + 2 = 4 + n /\ 1 \in 1 .. Len(t) /\ 2 \in 1 .. Len(t)
          /\ Len(T) = 4 + n /\ Len(T) \in Nat /\ Len(T) >= 2 + n
        BY <2>5
    <2>7. T[2 + n + 1] = t[1] /\ T[2 + n + 2] = t[2]
        BY <2>4, <2>6
    <2>8. T[3 + n] = " " /\ T[4 + n] = TypeLetter[c.type]
        BY <2>2, <2>6, <2>7
    <2> QED
        BY <1>1, <2>4, <2>6, <2>8 DEF T, n
<1>2. CASE c.op = "move"
    <2> DEFINE s == <<" ">>
               t == s \o c.dest
               m == Len(c.dest)
    <2>1. s \in Seq(Char) /\ Len(s) = 1 /\ s[1] = " " /\ c.dest \in Seq(Char)
        BY <1>2, LetterChars, ShortTexts DEF Command
    <2>2. T = (<<Letter[c.op], " ">> \o c.path) \o t
        BY <1>2 DEF ToText
    <2> HIDE DEF s
    <2>3. /\ t \in Seq(Char) /\ Len(t) = Len(s) + m /\ m \in Nat
          /\ \A k \in 1 .. Len(s) + m : t[k] = IF k <= Len(s) THEN s[k] ELSE c.dest[k - Len(s)]
        BY <2>1, ConcatProperties, LenProperties
    <2> HIDE DEF t
    <2>4. /\ T \in Seq(Char) /\ n \in Nat /\ Len(T) = 2 + n + Len(t)
          /\ T[1] = Letter[c.op] /\ T[2] = " "
          /\ \A k \in 1 .. n : T[2 + k] = c.path[k]
          /\ \A k \in 1 .. Len(t) : T[2 + n + k] = t[k]
        BY <2>2, <2>3, TextParts
    <2> HIDE DEF n, T, m
    <2>5. Len(s) = 1 /\ Len(t) = 1 + m /\ m \in Nat /\ n \in Nat /\ Len(T) = 2 + n + Len(t)
        BY <2>1, <2>3, <2>4
    <2>6. /\ 2 + n + 1 = 3 + n /\ 1 \in 1 .. Len(t) /\ 1 \in 1 .. Len(s) + m /\ 1 <= Len(s)
          /\ Len(T) = 3 + n + m /\ Len(T) \in Nat /\ Len(T) >= 2 + n
        BY <2>5
    <2>7. T[2 + n + 1] = t[1] /\ t[1] = s[1]
        BY <2>3, <2>4, <2>6
    <2>8. T[3 + n] = " "
        BY <2>1, <2>6, <2>7
    <2>9. ASSUME NEW k \in 1 .. m PROVE T[3 + n + k] = c.dest[k]
        <3> DEFINE j == 1 + k
        <3>1. /\ j \in 1 .. Len(t) /\ j \in 1 .. Len(s) + m /\ ~(j <= Len(s)) /\ j - Len(s) = k
              /\ 2 + n + j = 3 + n + k
            BY <2>5
        <3> HIDE DEF j
        <3>2. T[2 + n + j] = t[j] /\ t[j] = c.dest[k]
            BY <2>3, <2>4, <3>1
        <3> QED
            BY <3>1, <3>2
    <2> QED
        BY <1>2, <2>4, <2>5, <2>6, <2>8, <2>9 DEF T, n, m
<1>3. CASE c.op \in {"search", "remove", "print"}
    <2>1. <<>> \in Seq(Char) /\ Len(<<>>) = 0
        OBVIOUS
    <2>2. T = (<<Letter[c.op], " ">> \o c.path) \o <<>>
        BY <1>3 DEF ToText
    <2>3. /\ T \in Seq(Char) /\ n \in Nat /\ Len(T) = 2 + n + Len(<<>>)
          /\ T[1] = Letter[c.op] /\ T[2] = " "
          /\ \A k \in 1 .. n : T[2 + k] = c.path[k]
        BY <2>1, <2>2, TextParts
    <2> HIDE DEF n, T
    <2>4. n \in Nat /\ Len(T) = 2 + n + 0
        BY <2>1, <2>3
    <2>5. Len(T) = 2 + n /\ Len(T) \in Nat /\ Len(T) >= 2 + n
        BY <2>4
    <2> QED
        BY <1>3, <2>3, <2>5 DEF T, n
<1> QED
    BY <1>1, <1>2, <1>3 DEF Command

-----------------------------------------------------------------------------
\* The beginning of a text.
LEMMA BeginningOf ==
    ASSUME NEW text \in Text, NEW m \in Nat \ {0}, m <= Len(text)
    PROVE  /\ SubSeq(text, 1, m) \in Text /\ Len(SubSeq(text, 1, m)) = m
           /\ \A k \in 1 .. m : SubSeq(text, 1, m)[k] = text[k]
<1>1. /\ SubSeq(text, 1, m) \in Text /\ Len(SubSeq(text, 1, m)) = IF 1 <= m THEN m - 1 + 1 ELSE 0
      /\ \A k \in 1 .. m - 1 + 1 : SubSeq(text, 1, m)[k] = text[1 + k - 1]
    BY PartOf
<1>2. m - 1 + 1 = m /\ 1 <= m /\ \A k \in 1 .. m : 1 + k - 1 = k
    OBVIOUS
<1> QED
    BY <1>1, <1>2

\* A part that reads as the beginning of another text is that.
LEMMA SamePart ==
    ASSUME NEW text \in Text, NEW word \in Seq(Char), NEW a \in Nat \ {0}, NEW b \in Nat,
           NEW m \in Nat \ {0}, m <= Len(word), b = a + m - 1, b <= Len(text),
           \A k \in 1 .. m : text[a - 1 + k] = word[k]
    PROVE  SubSeq(text, a, b) = SubSeq(word, 1, m)
<1> DEFINE x == SubSeq(text, a, b)
           y == SubSeq(word, 1, m)
<1>1. word \in Text
    BY DEF Text, Byte
<1>2. y \in Text /\ Len(y) = m /\ \A k \in 1 .. m : y[k] = word[k]
    BY <1>1, BeginningOf
<1>3. /\ x \in Text /\ Len(x) = (IF a <= b THEN b - a + 1 ELSE 0)
      /\ \A k \in 1 .. b - a + 1 : x[k] = text[a + k - 1]
    BY PartOf
<1>4. b - a + 1 = m /\ a <= b /\ \A k \in 1 .. m : a + k - 1 = a - 1 + k
    OBVIOUS
<1> HIDE DEF x, y
<1>5. Len(x) = m /\ \A k \in 1 .. m : x[k] = word[k]
    BY <1>3, <1>4
<1>6. x \in Seq(Byte) /\ y \in Seq(Byte) /\ Len(x) = Len(y) /\ \A k \in 1 .. Len(x) : x[k] = y[k]
    BY <1>2, <1>3, <1>5 DEF Text
<1>7. x = y
    BY <1>6, SeqEqual
<1> QED
    BY <1>7 DEF x, y

\* A token of one character.
LEMMA OneCharacter ==
    ASSUME NEW text \in Text, NEW a \in Nat \ {0}, a <= Len(text), NEW ch \in Char, text[a] = ch
    PROVE  SubSeq(text, a, a) = <<ch>>
<1> DEFINE w == <<ch>>
<1>1. w \in Seq(Char) /\ Len(w) = 1 /\ w[1] = ch
    BY ShortTexts
<1> HIDE DEF w
<1>2. a - 1 + 1 = a /\ a + 1 - 1 = a /\ a \in Nat /\ 1 \in Nat \ {0} /\ 1 <= Len(w)
    BY <1>1
<1>3. \A k \in 1 .. 1 : text[a - 1 + k] = w[k]
    BY <1>1, <1>2
<1>4. SubSeq(text, a, a) = SubSeq(w, 1, 1)
    BY <1>1, <1>2, <1>3, SamePart
<1>5. SubSeq(w, 1, 1) = w
    BY <1>1, SubSeqFull
<1> QED
    BY <1>4, <1>5 DEF w

\* The tokens of what a buffer keeps of a text: of m characters.
LEMMA TokensOf ==
    ASSUME NEW c \in Command, Plain(c), NEW m \in Nat \ {0}, m <= Len(ToText(c))
    PROVE  LET n == Len(c.path)
               letter == <<Letter[c.op]>>
               tokens == Tokens(SubSeq(ToText(c), 1, m))
           IN  /\ m <= 2 => tokens = <<letter>>
               /\ 2 < m /\ m <= 2 + n => tokens = <<letter, SubSeq(c.path, 1, m - 2)>>
               /\ m = 3 + n => tokens = <<letter, c.path>>
               /\ 3 + n < m /\ c.op = "create" =>
                     m = 4 + n /\ tokens = <<letter, c.path, <<TypeLetter[c.type]>>>>
               /\ 3 + n < m /\ c.op = "move" =>
                     /\ m - 3 - n \in 1 .. Len(c.dest)
                     /\ tokens = <<letter, c.path, SubSeq(c.dest, 1, m - 3 - n)>>
               /\ 2 + n < m => c.op \in {"create", "move"}
<1> DEFINE n == Len(c.path)
           T == ToText(c)
           S == SubSeq(T, 1, m)
<1>1. /\ T \in Seq(Char) /\ n \in Nat /\ Len(T) \in Nat /\ Len(T) >= 2 + n
      /\ T[1] = Letter[c.op] /\ T[2] = " " /\ \A k \in 1 .. n : T[2 + k] = c.path[k]
      /\ c.op \in {"search", "remove", "print"} => Len(T) = 2 + n
      /\ c.op = "create" => /\ Len(T) = 4 + n /\ T[3 + n] = " "
                            /\ T[4 + n] = TypeLetter[c.type]
      /\ c.op = "move" => /\ Len(T) = 3 + n + Len(c.dest) /\ T[3 + n] = " " /\ Len(c.dest) \in Nat
                          /\ \A k \in 1 .. Len(c.dest) : T[3 + n + k] = c.dest[k]
    BY TextOf
<1>2. c.op \in DOMAIN Letter /\ Letter[c.op] \in Char \ Space
    BY LetterChars DEF Command, Letter
<1>3. IsWord(c.path) /\ (c.op = "move" => IsWord(c.dest))
    BY PlainWords
<1>4. T \in Text
    <2>1. T \in Seq(Char)
        BY <1>1
    <2> HIDE DEF T
    <2> QED
        BY <2>1 DEF Text, Byte
<1>0. m <= Len(T)
    OBVIOUS
<1> HIDE DEF T, n
\* Of the numbers alone.
<1>21. n \in Nat /\ Len(T) \in Nat /\ Len(T) >= 2 + n
    BY <1>1
<1>22. c.op = "create" => Len(T) = 4 + n
    BY <1>1
<1>23. c.op = "move" => Len(T) = 3 + n + Len(c.dest) /\ Len(c.dest) \in Nat
    BY <1>1
<1>24. c.op \in {"search", "remove", "print"} => Len(T) = 2 + n
    BY <1>1
<1>5. S \in Text /\ Len(S) = m /\ \A k \in 1 .. m : S[k] = T[k]
    BY <1>0, <1>4, BeginningOf
<1>6. 1 <= m /\ 1 \in 1 .. m /\ 1 \in Nat \ {0}
    OBVIOUS
<1> HIDE DEF S
<1>25. Len(S) = m
    BY <1>5
<1>7. 1 <= Len(S) /\ S[1] = Letter[c.op] /\ S[1] \notin Space /\ SubSeq(S, 1, 1) = <<Letter[c.op]>>
    <2>1. 1 <= Len(S) /\ S[1] = Letter[c.op] /\ S[1] \notin Space
        BY <1>1, <1>2, <1>5, <1>6
    <2> QED
        BY <1>2, <1>5, <1>6, <2>1, OneCharacter
\* The blank behind the letter.
<1>8. 2 <= m => S[2] \in Space
    <2>1. 2 <= m => 2 \in 1 .. m
        OBVIOUS
    <2>2. T[2] = " " /\ " " \in Space
        BY <1>1, LetterChars
    <2>3. \A k \in 1 .. m : S[k] = T[k]
        BY <1>5
    <2> QED
        BY <2>1, <2>2, <2>3
<1>9. n >= 1
    BY <1>3 DEF IsWord, n
\* The characters of the path.
<1>10. ASSUME NEW k \in 1 .. n, 2 + k <= m
       PROVE  S[2 + k] = c.path[k] /\ S[2 + k] \notin Space
    <2> DEFINE j == 2 + k
    <2>1. j \in 1 .. m
        BY <1>10, <1>21
    <2>2. T[j] = c.path[k]
        BY <1>1
    <2> HIDE DEF j
    <2>3. S[j] = c.path[k]
        BY <1>5, <2>1, <2>2
    <2>4. c.path[k] \notin Space
        BY <1>3 DEF IsWord, n
    <2> QED
        BY <2>3, <2>4 DEF j
\* The path as a token: up to the end of the text, or to the blank behind it.
<1>11. ASSUME NEW j \in 1 .. n, 2 + j <= m, 2 + j = m \/ (j = n /\ S[3 + n] \in Space)
       PROVE  NextWord(S, 2, 3, 2 + j) /\ SubSeq(S, 3, 2 + j) = SubSeq(c.path, 1, j)
    <2> DEFINE b == 2 + j
    <2>1. 3 \in Nat \ {0} /\ b \in Nat /\ 2 <= 3 /\ 3 <= b /\ b <= Len(S)
        BY <1>11, <1>21, <1>25
    <2>2. \A k \in 2 .. 3 - 1 : S[k] \in Space
        <3>1. 2 <= m /\ \A k \in 2 .. 3 - 1 : k = 2
            BY <1>11, <1>21
        <3> QED
            BY <1>8, <3>1
    <2>3. ASSUME NEW k \in 3 .. b PROVE S[k] \notin Space
        <3> DEFINE i == k - 2
        <3>1. i \in 1 .. n /\ 2 + i <= m /\ 2 + i = k
            BY <1>11, <1>21
        <3> HIDE DEF i
        <3>2. S[2 + i] \notin Space
            BY <1>10, <3>1
        <3> QED
            BY <3>1, <3>2
    <2>4. b = Len(S) \/ S[b + 1] \in Space
        <3>1. j = n => b + 1 = 3 + n
            BY <1>21
        <3>2. CASE b = m
            BY <1>25, <3>2
        <3>3. CASE j = n /\ S[3 + n] \in Space
            BY <3>1, <3>3
        <3> QED
            BY <1>11, <3>2, <3>3
    <2>5. SubSeq(S, 3, b) = SubSeq(c.path, 1, j)
        <3>1. j \in Nat \ {0} /\ j <= n /\ b = 3 + j - 1 /\ b \in Nat /\ b <= Len(S) /\ 3 - 1 = 2
            BY <1>21, <2>1
        <3>3. c.path \in Seq(Char) /\ j <= Len(c.path)
            BY <1>3, <3>1 DEF IsWord, n
        <3>2. \A k \in 1 .. j : S[3 - 1 + k] = c.path[k]
            <4>1. \A k \in 1 .. j : k \in 1 .. n /\ 2 + k <= m
                BY <1>11, <1>21
            <4> QED
                BY <1>10, <3>1, <4>1
        <3> DEFINE a == 3
                   path == c.path
        <3>4. a \in Nat \ {0} /\ b = a + j - 1 /\ \A k \in 1 .. j : S[a - 1 + k] = path[k]
            BY <3>1, <3>2
        <3>5. S \in Text /\ path \in Seq(Char) /\ j <= Len(path)
            BY <1>5, <3>3
        <3>6. j \in Nat \ {0} /\ b \in Nat /\ b <= Len(S)
            BY <3>1
        <3> HIDE DEF a, b, path
        <3>7. SubSeq(S, a, b) = SubSeq(path, 1, j)
            BY <3>4, <3>5, <3>6, SamePart
        <3> QED
            BY <3>7 DEF a, path
    <2> HIDE DEF b
    <2>6. NextWord(S, 2, 3, b)
        BY <2>1, <2>2, <2>3, <2>4 DEF NextWord
    <2> QED
        BY <2>5, <2>6 DEF b
<1>12. SubSeq(c.path, 1, n) = c.path
    BY <1>3, SubSeqFull DEF IsWord, n
<1>13. m <= 2 => Tokens(S) = <<<<Letter[c.op]>>>>
    <2> SUFFICES ASSUME m <= 2 PROVE Tokens(S) = <<<<Letter[c.op]>>>>
        OBVIOUS
    <2>1. \A k \in 2 .. Len(S) : k = 2 /\ 2 <= m
        BY <1>5
    <2>2. \A k \in 2 .. Len(S) : S[k] \in Space
        BY <1>8, <2>1
    <2>3. Tokens(S) = <<SubSeq(S, 1, 1)>>
        BY <1>5, <1>7, <2>2, OneToken
    <2> QED
        BY <1>7, <2>3
<1>14. 2 < m /\ m <= 2 + n => Tokens(S) = <<<<Letter[c.op]>>, SubSeq(c.path, 1, m - 2)>>
    <2> SUFFICES ASSUME 2 < m, m <= 2 + n
                 PROVE  Tokens(S) = <<<<Letter[c.op]>>, SubSeq(c.path, 1, m - 2)>>
        OBVIOUS
    <2> DEFINE j == m - 2
               b == 2 + j
    <2>1. j \in 1 .. n /\ b <= m /\ b = m /\ \A k \in b + 1 .. m : FALSE
        BY <1>21
    <2> HIDE DEF j
    <2>2. NextWord(S, 2, 3, b) /\ SubSeq(S, 3, b) = SubSeq(c.path, 1, j)
        BY <1>11, <2>1
    <2>4. \A k \in b + 1 .. Len(S) : S[k] \in Space
        BY <1>25, <2>1
    <2> HIDE DEF b
    <2>3. Tokens(S) = <<SubSeq(S, 1, 1), SubSeq(S, 3, b)>>
        BY <1>5, <1>7, <2>2, <2>4, TwoTokens
    <2> QED
        BY <1>7, <2>2, <2>3 DEF j
<1>15. ASSUME 2 + n < m
       PROVE  /\ c.op \in {"create", "move"} /\ S[3 + n] \in Space
              /\ NextWord(S, 2, 3, 2 + n) /\ SubSeq(S, 3, 2 + n) = c.path
    <2>1. c.op \in {"create", "move"}
        <3>1. c.op \in {"search", "remove", "print", "create", "move"}
            BY DEF Command
        <3>2. ~(Len(T) = 2 + n)
            BY <1>0, <1>15, <1>21
        <3> QED
            BY <1>24, <3>1, <3>2
    <2>2. S[3 + n] \in Space
        <3> DEFINE j == 3 + n
        <3>1. j \in 1 .. m
            BY <1>15, <1>21
        <3>2. T[j] = " "
            BY <1>1, <2>1
        <3> HIDE DEF j
        <3>3. S[j] = " "
            BY <1>5, <3>1, <3>2
        <3> QED
            BY <3>3, LetterChars DEF j
    <2>3. n \in 1 .. n /\ 2 + n <= m
        BY <1>9, <1>15, <1>21
    <2>4. NextWord(S, 2, 3, 2 + n) /\ SubSeq(S, 3, 2 + n) = SubSeq(c.path, 1, n)
        BY <1>11, <2>2, <2>3
    <2> QED
        BY <1>12, <2>1, <2>2, <2>4
<1>16. m = 3 + n => Tokens(S) = <<<<Letter[c.op]>>, c.path>>
    <2> SUFFICES ASSUME m = 3 + n PROVE Tokens(S) = <<<<Letter[c.op]>>, c.path>>
        OBVIOUS
    <2> DEFINE b == 2 + n
    <2>1. 2 + n < m /\ \A k \in b + 1 .. m : k = 3 + n
        BY <1>21
    <2>2. S[3 + n] \in Space /\ NextWord(S, 2, 3, b) /\ SubSeq(S, 3, b) = c.path
        BY <1>15, <2>1
    <2>3. \A k \in b + 1 .. Len(S) : S[k] \in Space
        BY <1>25, <2>1, <2>2
    <2> HIDE DEF b
    <2>4. Tokens(S) = <<SubSeq(S, 1, 1), SubSeq(S, 3, b)>>
        BY <1>5, <1>7, <2>2, <2>3, TwoTokens
    <2> QED
        BY <1>7, <2>2, <2>4
\* What follows the blank behind the path is one word, to the end.
<1>17. ASSUME 3 + n < m, \A k \in 4 + n .. m : S[k] \notin Space
       PROVE  Tokens(S) = <<<<Letter[c.op]>>, c.path, SubSeq(S, 4 + n, m)>>
    <2> DEFINE b == 2 + n
               d == 4 + n
    <2>1. /\ 2 + n < m /\ d \in Nat \ {0} /\ m \in Nat /\ b + 1 <= d /\ d <= m /\ m <= Len(S)
          /\ m = Len(S) /\ \A k \in b + 1 .. d - 1 : k = 3 + n
        BY <1>17, <1>21, <1>25
    <2>2. S[3 + n] \in Space /\ NextWord(S, 2, 3, b) /\ SubSeq(S, 3, b) = c.path
        BY <1>15, <2>1
    <2>3. \A k \in b + 1 .. d - 1 : S[k] \in Space
        BY <2>1, <2>2
    <2>4. \A k \in d .. m : S[k] \notin Space
        BY <1>17
    <2> HIDE DEF b, d
    <2>5. NextWord(S, b + 1, d, m)
        BY <2>1, <2>3, <2>4 DEF NextWord
    <2>7. S \in Text /\ 1 <= Len(S) /\ S[1] \notin Space /\ NextWord(S, 2, 3, b)
        BY <1>5, <1>7, <2>2
    <2>6. Tokens(S) = <<SubSeq(S, 1, 1), SubSeq(S, 3, b), SubSeq(S, d, m)>>
        BY <2>5, <2>7, ThreeTokens
    <2> QED
        BY <1>7, <2>2, <2>6 DEF d
<1>18. 3 + n < m /\ c.op = "create" =>
           m = 4 + n /\ Tokens(S) = <<<<Letter[c.op]>>, c.path, <<TypeLetter[c.type]>>>>
    <2> SUFFICES ASSUME 3 + n < m, c.op = "create"
                 PROVE  /\ m = 4 + n
                        /\ Tokens(S) = <<<<Letter[c.op]>>, c.path, <<TypeLetter[c.type]>>>>
        OBVIOUS
    <2> DEFINE d == 4 + n
    <2>1. m = d /\ d \in 1 .. m /\ d \in Nat \ {0} /\ d <= Len(S) /\ \A k \in 4 + n .. m : k = d
        BY <1>0, <1>21, <1>22, <1>25
    <2>2. TypeLetter[c.type] \in Char /\ TypeLetter[c.type] \notin Space
        BY LetterChars DEF Command, TypeLetter
    <2>3. T[d] = TypeLetter[c.type]
        BY <1>1
    <2> HIDE DEF d
    <2>4. S[d] = TypeLetter[c.type]
        BY <1>5, <2>1, <2>3
    <2>5. SubSeq(S, d, d) = <<TypeLetter[c.type]>>
        BY <1>5, <2>1, <2>2, <2>4, OneCharacter
    <2>6. \A k \in 4 + n .. m : S[k] \notin Space
        BY <2>1, <2>2, <2>4
    <2>7. Tokens(S) = <<<<Letter[c.op]>>, c.path, SubSeq(S, 4 + n, m)>>
        BY <1>17, <2>6
    <2>8. SubSeq(S, 4 + n, m) = SubSeq(S, d, d)
        BY <2>1 DEF d
    <2> QED
        BY <2>1, <2>5, <2>7, <2>8 DEF d
<1>19. 3 + n < m /\ c.op = "move" =>
           /\ m - 3 - n \in 1 .. Len(c.dest)
           /\ Tokens(S) = <<<<Letter[c.op]>>, c.path, SubSeq(c.dest, 1, m - 3 - n)>>
    <2> SUFFICES ASSUME 3 + n < m, c.op = "move"
                 PROVE  /\ m - 3 - n \in 1 .. Len(c.dest)
                        /\ Tokens(S) = <<<<Letter[c.op]>>, c.path, SubSeq(c.dest, 1, m - 3 - n)>>
        OBVIOUS
    <2> DEFINE d == 4 + n
               e == m - 3 - n
    <2>1. /\ e \in 1 .. Len(c.dest) /\ e \in Nat \ {0} /\ e <= Len(c.dest) /\ d \in Nat \ {0}
          /\ m = d + e - 1 /\ d - 1 = 3 + n /\ m <= Len(S) /\ m \in Nat
        <3> DEFINE q == Len(c.dest)
        <3>1. Len(T) = 3 + n + q /\ q \in Nat
            BY <1>23
        <3> HIDE DEF q
        <3>2. e \in 1 .. q /\ e \in Nat \ {0} /\ e <= q
            BY <1>0, <1>21, <3>1
        <3>3. d \in Nat \ {0} /\ m = d + e - 1 /\ d - 1 = 3 + n /\ m <= Len(S) /\ m \in Nat
            BY <1>21, <1>25
        <3> QED
            BY <3>2, <3>3 DEF q
    <2>2. c.dest \in Seq(Char) /\ \A k \in 1 .. Len(c.dest) : c.dest[k] \notin Space
        BY <1>3 DEF IsWord
    <2>3. ASSUME NEW k \in 1 .. e PROVE S[d - 1 + k] = c.dest[k] /\ S[d - 1 + k] \notin Space
        <3> DEFINE j == 3 + n + k
        <3>1. j \in 1 .. m /\ k \in 1 .. Len(c.dest) /\ d - 1 + k = j
            BY <1>21, <1>23, <2>1
        <3>2. T[j] = c.dest[k]
            BY <1>1, <3>1
        <3> HIDE DEF j
        <3>3. S[j] = c.dest[k]
            BY <1>5, <3>1, <3>2
        <3> QED
            BY <2>2, <3>1, <3>3
    <2>4. ASSUME NEW k \in 4 + n .. m PROVE S[k] \notin Space
        <3> DEFINE j == k - 3 - n
        <3>1. j \in 1 .. e /\ d - 1 + j = k
            BY <1>21, <2>1
        <3> HIDE DEF j, d, e
        <3> QED
            BY <2>3, <3>1
    <2>5. Tokens(S) = <<<<Letter[c.op]>>, c.path, SubSeq(S, 4 + n, m)>>
        BY <1>17, <2>4
    <2>6. SubSeq(S, d, m) = SubSeq(c.dest, 1, e)
        <3> HIDE DEF d, e
        <3> QED
            BY <1>5, <2>1, <2>2, <2>3, SamePart
    <2> QED
        BY <2>1, <2>5, <2>6
<1>20. 2 + n < m => c.op \in {"create", "move"}
    BY <1>15
<1> QED
    BY <1>13, <1>14, <1>16, <1>18, <1>19, <1>20 DEF S, T, n

-----------------------------------------------------------------------------
\* What tfs_command_parse makes of the tokens.
Outcome(tokens) == IF ParseError(tokens) = "none" THEN Parsed(tokens) ELSE Refused

\* The letters are different, and so are those of the types.
LEMMA OperationIs ==
    ASSUME NEW op \in DOMAIN Letter, NEW tokens, tokens # <<>>, tokens[1] = <<Letter[op]>>
    PROVE  Operations(tokens) = {op}
<1>1. \A other \in DOMAIN Letter : <<Letter[other]>> = <<Letter[op]>> => other = op
    <2>1. ASSUME NEW other \in DOMAIN Letter, Letter[other] = Letter[op] PROVE other = op
        BY <2>1 DEF Letter
    <2> QED
        BY <2>1
<1> QED
    BY <1>1 DEF Operations

LEMMA TypeIs ==
    ASSUME NEW type \in DOMAIN TypeLetter
    PROVE  Types(<<TypeLetter[type]>>) = {type}
<1>1. ASSUME NEW other \in DOMAIN TypeLetter, <<TypeLetter[other]>> = <<TypeLetter[type]>>
      PROVE  other = type
    <2>1. TypeLetter[other] = TypeLetter[type]
        BY <1>1
    <2> QED
        BY <2>1 DEF TypeLetter
<1> QED
    BY <1>1 DEF Types

\* The letter alone is no command.
LEMMA OutcomeOfOne ==
    ASSUME NEW op \in DOMAIN Letter
    PROVE  Outcome(<<<<Letter[op]>>>>) = Refused
<1> DEFINE tokens == <<<<Letter[op]>>>>
<1>1. tokens # <<>> /\ tokens[1] = <<Letter[op]>> /\ Len(tokens) = 1
    OBVIOUS
<1> HIDE DEF tokens
<1>2. Operations(tokens) = {op}
    BY <1>1, OperationIs
<1>3. Needed[op] # 1
    BY DEF Needed, Letter
<1>4. ParseError(tokens) # "none"
    BY <1>1, <1>2, <1>3 DEF ParseError
<1> QED
    BY <1>4 DEF Outcome, tokens

\* With one word it is one of the operations that need no more.
LEMMA OutcomeOfTwo ==
    ASSUME NEW op \in DOMAIN Letter, NEW path
    PROVE  Outcome(<<<<Letter[op]>>, path>>) =
               IF op \in {"create", "move"} THEN Refused ELSE [op |-> op, path |-> path]
<1> DEFINE tokens == <<<<Letter[op]>>, path>>
<1>1. tokens # <<>> /\ tokens[1] = <<Letter[op]>> /\ Len(tokens) = 2 /\ tokens[2] = path
    OBVIOUS
<1> HIDE DEF tokens
<1>2. Operations(tokens) = {op}
    BY <1>1, OperationIs
<1>3. CASE op \in {"create", "move"}
    <2>1. Needed[op] # 2
        BY <1>3 DEF Needed
    <2>2. ParseError(tokens) # "none"
        BY <1>1, <1>2, <2>1 DEF ParseError
    <2> QED
        BY <1>3, <2>2 DEF Outcome, tokens
<1>4. CASE op \notin {"create", "move"}
    <2>1. Needed[op] = 2 /\ op # "create" /\ op # "move"
        BY <1>4 DEF Needed, Letter
    <2>2. ParseError(tokens) = "none"
        BY <1>1, <1>2, <2>1 DEF ParseError
    <2>3. (CHOOSE o \in Operations(tokens) : TRUE) = op
        BY <1>2
    <2>4. Parsed(tokens) = [op |-> op, path |-> path]
        BY <1>1, <2>1, <2>3 DEF Parsed
    <2> QED
        BY <1>4, <2>2, <2>4 DEF Outcome, tokens
<1> QED
    BY <1>3, <1>4

\* With two it is a move, or a create if the second is a type.
LEMMA OutcomeOfMove ==
    ASSUME NEW path, NEW dest
    PROVE  Outcome(<<<<Letter["move"]>>, path, dest>>) =
               [op |-> "move", path |-> path, dest |-> dest]
<1> DEFINE tokens == <<<<Letter["move"]>>, path, dest>>
<1>1. tokens # <<>> /\ tokens[1] = <<Letter["move"]>> /\ Len(tokens) = 3
    OBVIOUS
<1>5. tokens[2] = path /\ tokens[3] = dest
    OBVIOUS
<1> HIDE DEF tokens
<1>2. Operations(tokens) = {"move"}
    BY <1>1, OperationIs DEF Letter
<1>3. ParseError(tokens) = "none"
    BY <1>1, <1>2 DEF ParseError, Needed
<1>4. Parsed(tokens) = [op |-> "move", path |-> path, dest |-> dest]
    <2>1. (CHOOSE o \in Operations(tokens) : TRUE) = "move"
        BY <1>2
    <2> QED
        BY <1>5, <2>1 DEF Parsed
<1> QED
    BY <1>3, <1>4 DEF Outcome, tokens

LEMMA OutcomeOfCreate ==
    ASSUME NEW path, NEW type \in DOMAIN TypeLetter
    PROVE  Outcome(<<<<Letter["create"]>>, path, <<TypeLetter[type]>>>>) =
               [op |-> "create", path |-> path, type |-> type]
<1> DEFINE tokens == <<<<Letter["create"]>>, path, <<TypeLetter[type]>>>>
<1>1. tokens # <<>> /\ tokens[1] = <<Letter["create"]>> /\ Len(tokens) = 3
    OBVIOUS
<1>5. tokens[2] = path /\ tokens[3] = <<TypeLetter[type]>>
    OBVIOUS
<1> HIDE DEF tokens
<1>2. Operations(tokens) = {"create"} /\ Types(tokens[3]) = {type}
    BY <1>1, <1>5, OperationIs, TypeIs DEF Letter
<1>3. ParseError(tokens) = "none"
    BY <1>1, <1>2 DEF ParseError, Needed
<1>4. Parsed(tokens) = [op |-> "create", path |-> path, type |-> type]
    <2>1. (CHOOSE o \in Operations(tokens) : TRUE) = "create"
        BY <1>2
    <2>2. (CHOOSE t \in Types(tokens[3]) : TRUE) = type
        BY <1>2
    <2> QED
        BY <1>5, <2>1, <2>2 DEF Parsed
<1> QED
    BY <1>3, <1>4 DEF Outcome, tokens

-----------------------------------------------------------------------------
\* The text of a command of words is one line.
LEMMA OneLine ==
    ASSUME NEW c \in Command, Plain(c), NEW k \in 1 .. Len(ToText(c))
    PROVE  ToText(c)[k] \in Char /\ ToText(c)[k] # "\n"
<1> DEFINE n == Len(c.path)
           T == ToText(c)
           l == Len(T)
<1>1. /\ T \in Seq(Char) /\ n \in Nat /\ l \in Nat /\ l >= 2 + n
      /\ T[1] = Letter[c.op] /\ T[2] = " " /\ \A i \in 1 .. n : T[2 + i] = c.path[i]
      /\ c.op \in {"search", "remove", "print"} => l = 2 + n
      /\ c.op = "create" => l = 4 + n /\ T[3 + n] = " " /\ T[4 + n] = TypeLetter[c.type]
      /\ c.op = "move" => /\ l = 3 + n + Len(c.dest) /\ T[3 + n] = " " /\ Len(c.dest) \in Nat
                          /\ \A i \in 1 .. Len(c.dest) : T[3 + n + i] = c.dest[i]
    BY TextOf
<1>2. IsWord(c.path) /\ (c.op = "move" => IsWord(c.dest))
    BY PlainWords
<1>3. c.op \in DOMAIN Letter /\ (c.op = "create" => c.type \in DOMAIN TypeLetter)
    BY DEF Command, Letter, TypeLetter
<1>4. \A ch : ch \notin Space \/ ch = " " => ch # "\n"
    BY LetterChars
<1> HIDE DEF T, n, l
<1>5. T[k] \in Char
    <2>1. T \in Seq(Char) /\ k \in 1 .. Len(T)
        BY <1>1 DEF l, T
    <2> QED
        BY <2>1, ElementOfSeq
<1>0. l \in Nat /\ n \in Nat /\ k \in 1 .. l
    BY <1>1 DEF T, l
<1>6. ASSUME k = 1 PROVE T[k] # "\n"
    BY <1>1, <1>3, <1>4, <1>6, LetterChars
<1>7. ASSUME k = 2 PROVE T[k] # "\n"
    BY <1>1, <1>4, <1>7
<1>8. ASSUME k \in 3 .. 2 + n PROVE T[k] # "\n"
    <2> DEFINE i == k - 2
    <2>1. i \in 1 .. n /\ 2 + i = k
        BY <1>0, <1>8
    <2> HIDE DEF i
    <2>2. T[k] = c.path[i]
        BY <1>1, <2>1
    <2>3. c.path[i] \notin Space
        BY <1>2, <2>1 DEF IsWord, n
    <2> QED
        BY <1>4, <2>2, <2>3
<1>9. ASSUME k = 3 + n /\ c.op \in {"create", "move"} PROVE T[k] # "\n"
    BY <1>1, <1>4, <1>9
<1>10. ASSUME k = 4 + n /\ c.op = "create" PROVE T[k] # "\n"
    BY <1>1, <1>3, <1>4, <1>10, LetterChars
<1>11. ASSUME c.op = "move" /\ k > 3 + n PROVE T[k] # "\n"
    <2> DEFINE q == Len(c.dest)
               i == k - 3 - n
    <2>1. l = 3 + n + q /\ q \in Nat
        BY <1>1, <1>11
    <2>3. \A j \in 1 .. q : T[3 + n + j] = c.dest[j]
        BY <1>1, <1>11
    <2>4. \A j \in 1 .. q : c.dest[j] \notin Space
        BY <1>2, <1>11 DEF IsWord
    <2> HIDE DEF q
    <2>2. i \in 1 .. q /\ 3 + n + i = k
        BY <1>0, <1>11, <2>1
    <2> HIDE DEF i
    <2>5. T[k] = c.dest[i] /\ c.dest[i] \notin Space
        BY <2>2, <2>3, <2>4
    <2> QED
        BY <1>4, <2>5
<1>12. T[k] # "\n"
    <2>0. k = 1 \/ k = 2 \/ k \in 3 .. 2 + n => T[k] # "\n"
        BY <1>6, <1>7, <1>8
    <2>1. CASE c.op \in {"search", "remove", "print"}
        <3>1. l = 2 + n
            BY <1>1, <2>1
        <3>2. k = 1 \/ k = 2 \/ k \in 3 .. 2 + n
            BY <1>0, <3>1
        <3> QED
            BY <2>0, <3>2
    <2>2. CASE c.op = "create"
        <3>1. l = 4 + n
            BY <1>1, <2>2
        <3>2. k = 1 \/ k = 2 \/ k \in 3 .. 2 + n \/ k = 3 + n \/ k = 4 + n
            BY <1>0, <3>1
        <3> QED
            BY <1>9, <1>10, <2>0, <2>2, <3>2
    <2>3. CASE c.op = "move"
        <3>1. k = 1 \/ k = 2 \/ k \in 3 .. 2 + n \/ k = 3 + n \/ k > 3 + n
            BY <1>0
        <3> QED
            BY <1>9, <1>11, <2>0, <2>3, <3>1
    <2> QED
        BY <2>1, <2>2, <2>3 DEF Command
<1> QED
    BY <1>5, <1>12 DEF T

\* The characters that fit the smallest buffer.
Fitting(c) == IF Len(ToText(c)) <= RecvSize THEN Len(ToText(c)) ELSE RecvSize

\* The server parses the beginning of the text, of the size of its buffer: the
\* other two buffers are larger, and no newline ends it sooner.
LEMMA Received ==
    ASSUME NEW c \in Command, Plain(c)
    PROVE  /\ Fitting(c) \in Nat \ {0} /\ Fitting(c) <= Len(ToText(c))
           /\ Served(Datagram(c)) = Outcome(Tokens(SubSeq(ToText(c), 1, Fitting(c))))
<1> DEFINE T == ToText(c)
           l == Len(T)
           s == IF l <= SendSize - 1 THEN l ELSE SendSize - 1
           B == SubSeq(T, 1, s)
           D == Append(B, NUL)
           r == IF s + 1 <= RecvSize THEN s + 1 ELSE RecvSize
           R == SubSeq(D, 1, r)
           m == Fitting(c)
<1>1. /\ LineSize \in Nat /\ SendSize \in Nat /\ RecvSize \in Nat \ {0}
      /\ RecvSize < LineSize /\ RecvSize < SendSize
    BY WireAssumption
<1>2. T \in Seq(Char) /\ l \in Nat /\ l >= 2
    <2>1. /\ T \in Seq(Char) /\ Len(c.path) \in Nat
          /\ Len(T) \in Nat /\ Len(T) >= 2 + Len(c.path)
        BY TextOf
    <2> QED
        BY <2>1
<1>3. m = IF l <= RecvSize THEN l ELSE RecvSize
    BY DEF Fitting
<1>4. \A k \in 1 .. l : T[k] \in Char /\ T[k] # "\n"
    BY OneLine
<1>5. SendSize - 1 \in Nat /\ Cut(T, SendSize - 1) = B
    <2> DEFINE z == SendSize - 1
    <2>1. z \in Nat
        BY <1>1
    <2> HIDE DEF z
    <2>2. Cut(T, z) = SubSeq(T, 1, IF Len(T) <= z THEN Len(T) ELSE z)
        BY <1>2, <2>1, CutIs
    <2> QED
        BY <2>1, <2>2 DEF z
<1>6. Datagram(c) = D
    BY <1>5 DEF Datagram
<1>7. s \in Nat \ {0} /\ s <= l /\ r \in Nat \ {0} /\ r <= s + 1 /\ r <= RecvSize
    BY <1>1, <1>2
<1>8. m \in Nat \ {0} /\ m <= l /\ m <= s /\ m <= r /\ (m = r \/ (m + 1 = r /\ m = s))
    BY <1>1, <1>2, <1>3
<1>9. T \in Text
    BY <1>2 DEF Text, Byte
<1> HIDE DEF T
<1>17. Len(T) = l
    OBVIOUS
<1> HIDE DEF l, s, m
<1>10. B \in Text /\ Len(B) = s /\ \A k \in 1 .. s : B[k] = T[k]
    BY <1>7, <1>9, <1>17, BeginningOf
<1> HIDE DEF B
<1>11. /\ D \in Text /\ Len(D) = s + 1 /\ D[s + 1] = NUL
       /\ \A k \in 1 .. s : D[k] = T[k]
    <2>1. NUL \in Byte
        BY DEF Byte
    <2>2. D \in Seq(Byte) /\ Len(D) = Len(B) + 1
        BY <1>10, <2>1, AppendProperties DEF Text
    <2>3. D[Len(B) + 1] = NUL /\ \A k \in 1 .. Len(B) : D[k] = B[k]
        BY <1>10, <2>1, AppendProperties DEF Text
    <2> HIDE DEF D
    <2> QED
        BY <1>10, <2>2, <2>3 DEF Text
<1> HIDE DEF D, r
<1>12. r <= Len(D)
    BY <1>7, <1>11
<1>13. R \in Text /\ Len(R) = r /\ \A k \in 1 .. r : R[k] = D[k]
    BY <1>7, <1>11, <1>12, BeginningOf
<1>14. Cut(D, RecvSize) = R
    <2> DEFINE w == Len(D)
    <2>1. w = s + 1
        BY <1>11
    <2>2. RecvSize \in Nat /\ w \in Nat
        BY <1>1, <1>7, <2>1
    <2>3. Cut(D, RecvSize) = SubSeq(D, 1, IF w <= RecvSize THEN w ELSE RecvSize)
        BY <2>2, CutIs
    <2> HIDE DEF w
    <2>4. (IF w <= RecvSize THEN w ELSE RecvSize) = r
        BY <2>1 DEF r
    <2> QED
        BY <2>3, <2>4
<1> HIDE DEF R
<1>15. ASSUME NEW k \in 1 .. m PROVE R[k] = T[k] /\ R[k] \in Char /\ R[k] # "\n"
    <2>1. k \in 1 .. r /\ k \in 1 .. s /\ k \in 1 .. l
        BY <1>2, <1>7, <1>8
    <2>2. R[k] = D[k] /\ D[k] = T[k] /\ T[k] \in Char /\ T[k] # "\n"
        BY <1>4, <1>11, <1>13, <2>1
    <2> QED
        BY <2>2
<1>16. m # r => R[m + 1] = NUL
    <2> SUFFICES ASSUME m # r PROVE R[m + 1] = NUL
        OBVIOUS
    <2> DEFINE j == m + 1
    <2>1. j \in 1 .. r /\ j = s + 1
        BY <1>7, <1>8
    <2> HIDE DEF j
    <2>2. R[j] = D[j] /\ D[j] = NUL
        BY <1>11, <1>13, <2>1
    <2> QED
        BY <2>2 DEF j
\* fgets reads all of it.
<1>18. FirstLine(R) = R
    <2>1. \A k \in 1 .. Len(R) : R[k] \notin {"\n"}
        <3> SUFFICES ASSUME NEW k \in 1 .. r PROVE R[k] # "\n"
            BY <1>13
        <3>1. k \in 1 .. m \/ (m # r /\ k = m + 1)
            BY <1>7, <1>8
        <3>2. NUL # "\n"
            BY LetterChars
        <3> QED
            BY <1>15, <1>16, <3>1, <3>2
    <2>2. Through(R, {"\n"}) = R
        BY <1>13, <2>1, FirstInNone DEF Through
    <2> DEFINE z == LineSize - 1
    <2>3. z \in Nat /\ r <= z /\ r \in Nat
        BY <1>1, <1>7
    <2> HIDE DEF z
    <2>4. Len(R) \in Nat /\ Len(R) <= z
        BY <1>13, <2>3
    <2>5. Cut(R, z) = SubSeq(R, 1, IF Len(R) <= z THEN Len(R) ELSE z)
        BY <2>3, <2>4, CutIs
    <2>6. SubSeq(R, 1, Len(R)) = R
        BY <1>13, SubSeqFull DEF Text
    <2>7. Cut(R, z) = R
        BY <2>4, <2>5, <2>6
    <2> QED
        BY <2>2, <2>7 DEF FirstLine, z
\* sscanf stops at the end of the text.
<1>19. Before(R, {NUL}) = SubSeq(R, 1, m)
    <2>1. From(R, 1) = R
        BY <1>13, SubSeqFull DEF From, Text
    <2>2. 1 \in Nat \ {0} /\ m \in Nat /\ 1 <= m + 1 /\ m <= Len(R)
        BY <1>7, <1>8, <1>13
    <2>3. \A k \in 1 .. m : R[k] \notin {NUL}
        BY <1>15, LetterChars
    <2>4. m = Len(R) \/ R[m + 1] \in {NUL}
        BY <1>13, <1>16
    <2>5. Before(From(R, 1), {NUL}) = SubSeq(R, 1, m)
        BY <1>13, <2>2, <2>3, <2>4, BeforeIs
    <2> QED
        BY <2>1, <2>5
<1>20. SubSeq(R, 1, m) = SubSeq(T, 1, m)
    <2>1. /\ 1 \in Nat \ {0} /\ m \in Nat /\ m \in Nat \ {0}
          /\ m = 1 + m - 1 /\ m <= Len(T) /\ m <= Len(R)
        BY <1>7, <1>8, <1>13, <1>17
    <2>2. \A k \in 1 .. m : R[1 - 1 + k] = T[k]
        <3>1. \A k \in 1 .. m : 1 - 1 + k = k
            BY <1>8
        <3> QED
            BY <1>15, <3>1
    <2> QED
        BY <1>2, <1>13, <2>1, <2>2, SamePart
<1>21. Served(Datagram(c)) = Outcome(Tokens(SubSeq(T, 1, m)))
    BY <1>6, <1>14, <1>18, <1>19, <1>20 DEF Served, Outcome
<1> QED
    BY <1>8, <1>17, <1>21 DEF T, m

-----------------------------------------------------------------------------
LEMMA PrefixOf ==
    ASSUME NEW word \in Seq(Char), NEW j \in Nat \ {0}, j <= Len(word)
    PROVE  IsPrefix(SubSeq(word, 1, j), word)
<1> DEFINE part == SubSeq(word, 1, j)
<1>1. word \in Text
    BY DEF Text, Byte
<1>2. part \in Text /\ Len(part) = j
    BY <1>1, BeginningOf
<1>3. SubSeq(part, 1, Len(part)) = part
    BY <1>2, SubSeqFull DEF Text
<1> HIDE DEF part
<1>4. SubSeq(part, 1, Len(part)) = SubSeq(word, 1, Len(part)) /\ Len(part) <= Len(word)
    BY <1>2, <1>3 DEF part
<1> QED
    BY <1>4 DEF IsPrefix, part

\* A command is what its members are.
LEMMA Members ==
    ASSUME NEW c \in Command
    PROVE  /\ c.op \in {"search", "remove", "print"} => c = [op |-> c.op, path |-> c.path]
           /\ c.op = "create" =>
                 /\ c = [op |-> "create", path |-> c.path, type |-> c.type]
                 /\ c.type \in DOMAIN TypeLetter
           /\ c.op = "move" => c = [op |-> "move", path |-> c.path, dest |-> c.dest]
<1>1. CASE c \in [op : {"search", "remove", "print"}, path : Seq(Char)]
    BY <1>1
<1>2. CASE c \in [op : {"create"}, path : Seq(Char), type : {"file", "dir"}]
    BY <1>2 DEF TypeLetter
<1>3. CASE c \in [op : {"move"}, path : Seq(Char), dest : Seq(Char)]
    BY <1>3
<1> QED
    BY <1>1, <1>2, <1>3 DEF Command

\* What of a command of words arrives: Arrives, of one.
Faithful(c, e) ==
    IF Len(ToText(c)) <= RecvSize
    THEN e = c
    ELSE \/ e = Refused
         \/ /\ e.op = c.op /\ e.op # "create"
            /\ e.op = "move" => e.path = c.path /\ IsPrefix(e.dest, c.dest)
            /\ IsPrefix(e.path, c.path)

LEMMA WhatArrives ==
    ASSUME NEW c \in Command, Plain(c)
    PROVE  Faithful(c, Served(Datagram(c)))
<1> DEFINE n == Len(c.path)
           l == Len(ToText(c))
           m == Fitting(c)
           letter == <<Letter[c.op]>>
           tokens == Tokens(SubSeq(ToText(c), 1, m))
           e == Served(Datagram(c))
<1>1. m \in Nat \ {0} /\ m <= l /\ e = Outcome(tokens)
    BY Received
<1>2. /\ m <= 2 => tokens = <<letter>>
      /\ 2 < m /\ m <= 2 + n => tokens = <<letter, SubSeq(c.path, 1, m - 2)>>
      /\ m = 3 + n => tokens = <<letter, c.path>>
      /\ 3 + n < m /\ c.op = "create" =>
            m = 4 + n /\ tokens = <<letter, c.path, <<TypeLetter[c.type]>>>>
      /\ 3 + n < m /\ c.op = "move" =>
            /\ m - 3 - n \in 1 .. Len(c.dest)
            /\ tokens = <<letter, c.path, SubSeq(c.dest, 1, m - 3 - n)>>
      /\ 2 + n < m => c.op \in {"create", "move"}
    BY <1>1, TokensOf
<1>3. /\ n \in Nat /\ l \in Nat /\ l >= 2 + n
      /\ c.op \in {"search", "remove", "print"} => l = 2 + n
      /\ c.op = "create" => l = 4 + n
      /\ c.op = "move" => l = 3 + n + Len(c.dest) /\ Len(c.dest) \in Nat
    BY TextOf
<1>4. c.path \in Seq(Char) /\ n >= 1 /\ (c.op = "move" => c.dest \in Seq(Char) /\ Len(c.dest) >= 1)
    BY PlainWords DEF IsWord
<1>5. /\ c.op \in DOMAIN Letter /\ RecvSize \in Nat
      /\ c.op \in {"search", "remove", "print"} \/ c.op = "create" \/ c.op = "move"
    BY WireAssumption DEF Command, Letter
<1>6. m = IF l <= RecvSize THEN l ELSE RecvSize
    BY DEF Fitting
<1>7. /\ c.op \in {"search", "remove", "print"} => c = [op |-> c.op, path |-> c.path]
      /\ c.op = "create" => /\ c = [op |-> "create", path |-> c.path, type |-> c.type]
                            /\ c.type \in DOMAIN TypeLetter
      /\ c.op = "move" => c = [op |-> "move", path |-> c.path, dest |-> c.dest]
    BY Members
<1> HIDE DEF tokens, e, m, l
\* Cut within the path, or not at all.
<1>8. ASSUME 2 < m, m <= 2 + n
      PROVE  /\ m - 2 \in Nat \ {0} /\ m - 2 <= n
             /\ c.op \in {"create", "move"} => e = Refused
             /\ c.op \in {"search", "remove", "print"} =>
                   e = [op |-> c.op, path |-> SubSeq(c.path, 1, m - 2)]
    <2>1. m - 2 \in Nat \ {0} /\ m - 2 <= n
        <3>1. m \in Nat /\ n \in Nat
            BY <1>1, <1>3
        <3> HIDE DEF n
        <3> QED
            BY <1>8, <3>1
    <2> DEFINE p == SubSeq(c.path, 1, m - 2)
    <2>2. e = Outcome(<<letter, p>>)
        BY <1>1, <1>2, <1>8
    <2> HIDE DEF p
    <2>3. Outcome(<<letter, p>>) =
              IF c.op \in {"create", "move"} THEN Refused ELSE [op |-> c.op, path |-> p]
        BY <1>5, OutcomeOfTwo
    <2> QED
        BY <2>1, <2>2, <2>3 DEF p
<1>9. ASSUME 3 + n < m, c.op = "create" PROVE m = l /\ e = c
    <2>1. e = Outcome(<<<<Letter["create"]>>, c.path, <<TypeLetter[c.type]>>>>)
        BY <1>1, <1>2, <1>9
    <2>2. e = c
        BY <1>7, <1>9, <2>1, OutcomeOfCreate
    <2> QED
        BY <1>2, <1>3, <1>9, <2>2
<1>10. ASSUME 3 + n < m, c.op = "move"
       PROVE  /\ m - 3 - n \in 1 .. Len(c.dest)
              /\ e = [op |-> "move", path |-> c.path, dest |-> SubSeq(c.dest, 1, m - 3 - n)]
    <2>1. e = Outcome(<<<<Letter["move"]>>, c.path, SubSeq(c.dest, 1, m - 3 - n)>>)
        BY <1>1, <1>2, <1>10
    <2> QED
        BY <1>2, <1>10, <2>1, OutcomeOfMove
<1>11. CASE l <= RecvSize
    <2>1. m = l
        BY <1>6, <1>11
    <2>2. CASE c.op \in {"search", "remove", "print"}
        <3>1. 2 < m /\ m <= 2 + n /\ m - 2 = n
            <4>1. l = 2 + n /\ n \in Nat /\ n >= 1
                BY <1>3, <1>4, <2>2
            <4> HIDE DEF n
            <4> QED
                BY <2>1, <4>1
        <3>2. SubSeq(c.path, 1, n) = c.path
            BY <1>4, SubSeqFull
        <3>3. e = c
            BY <1>7, <1>8, <2>2, <3>1, <3>2
        <3> QED
            BY <1>11, <3>3 DEF Faithful, e, l
    <2>3. CASE c.op = "create"
        <3>1. 3 + n < m
            <4>1. l = 4 + n /\ n \in Nat
                BY <1>3, <2>3
            <4> HIDE DEF n
            <4> QED
                BY <2>1, <4>1
        <3>2. e = c
            BY <1>9, <2>3, <3>1
        <3> QED
            BY <1>11, <3>2 DEF Faithful, e, l
    <2>4. CASE c.op = "move"
        <3> DEFINE q == Len(c.dest)
        <3>1. l = 3 + n + q /\ n \in Nat /\ q \in Nat /\ q >= 1
            BY <1>3, <1>4, <2>4
        <3> HIDE DEF n, q
        <3>2. 3 + n < m /\ m - 3 - n = q
            BY <2>1, <3>1
        <3>3. SubSeq(c.dest, 1, q) = c.dest
            BY <1>4, <2>4, SubSeqFull DEF q
        <3>4. e = [op |-> "move", path |-> c.path, dest |-> SubSeq(c.dest, 1, m - 3 - n)]
            BY <1>10, <2>4, <3>2 DEF n
        <3>5. e = c
            BY <1>7, <2>4, <3>2, <3>3, <3>4
        <3> QED
            BY <1>11, <3>5 DEF Faithful, e, l
    <2> QED
        BY <1>5, <2>2, <2>3, <2>4
<1>12. CASE ~(l <= RecvSize)
    <2>1. m # l
        BY <1>3, <1>5, <1>6, <1>12
    <2>2. CASE e = Refused
        BY <1>12, <2>2 DEF Faithful, e, l
    <2>3. CASE m <= 2
        <3>1. e = Outcome(<<letter>>)
            BY <1>1, <1>2, <2>3
        <3>2. e = Refused
            BY <1>5, <3>1, OutcomeOfOne
        <3> QED
            BY <2>2, <3>2
    <2>4. CASE 2 < m /\ m <= 2 + n
        <3>1. CASE c.op \in {"search", "remove", "print"}
            <4> DEFINE j == m - 2
                       p == SubSeq(c.path, 1, j)
            <4>1. j \in Nat \ {0} /\ j <= Len(c.path)
                BY <1>8, <2>4
            <4>2. e = [op |-> c.op, path |-> p]
                BY <1>8, <2>4, <3>1
            <4> HIDE DEF j
            <4>3. IsPrefix(p, c.path)
                BY <1>4, <4>1, PrefixOf
            <4> HIDE DEF p
            <4>4. e.op = c.op /\ e.path = p /\ c.op # "create" /\ c.op # "move"
                BY <3>1, <4>2
            <4>5. \/ e = Refused
                  \/ /\ e.op = c.op /\ e.op # "create"
                     /\ e.op = "move" => e.path = c.path /\ IsPrefix(e.dest, c.dest)
                     /\ IsPrefix(e.path, c.path)
                BY <4>3, <4>4
            <4> QED
                BY <1>12, <4>5 DEF Faithful, e, l
        <3>2. CASE c.op \in {"create", "move"}
            BY <1>8, <2>2, <2>4, <3>2
        <3> QED
            BY <1>5, <3>1, <3>2
    <2>5. CASE m = 3 + n
        <3>1. c.op \in {"create", "move"}
            <4>1. 2 + n < m
                BY <1>3, <2>5
            <4> QED
                BY <1>2, <4>1
        <3>2. e = Outcome(<<letter, c.path>>)
            BY <1>1, <1>2, <2>5
        <3>3. e = Refused
            BY <1>5, <3>1, <3>2, OutcomeOfTwo
        <3> QED
            BY <2>2, <3>3
    <2>6. CASE 3 + n < m
        <3>1. c.op = "move"
            <4>1. 2 + n < m
                <5>1. n \in Nat /\ m \in Nat
                    BY <1>1, <1>3
                <5> HIDE DEF n
                <5> QED
                    BY <2>6, <5>1
            <4>2. c.op \in {"create", "move"}
                BY <1>2, <4>1
            <4> QED
                BY <1>9, <2>1, <2>6, <4>2
        <3> DEFINE j == m - 3 - n
                   q == Len(c.dest)
        <3>2. j \in 1 .. q /\ e = [op |-> "move", path |-> c.path, dest |-> SubSeq(c.dest, 1, j)]
            BY <1>10, <2>6, <3>1
        <3>3. q \in Nat
            BY <1>3, <3>1
        <3> HIDE DEF j
        <3>4. j \in Nat \ {0} /\ j <= q
            <4> HIDE DEF q
            <4> QED
                BY <3>2, <3>3
        <3>5. IsPrefix(SubSeq(c.dest, 1, j), c.dest)
            BY <1>4, <3>1, <3>4, PrefixOf
        <3>6. IsPrefix(c.path, c.path)
            <4>1. c.path = SubSeq(c.path, 1, n)
                BY <1>4, SubSeqFull
            <4>2. n \in Nat \ {0} /\ n <= Len(c.path)
                BY <1>3, <1>4
            <4>3. IsPrefix(SubSeq(c.path, 1, n), c.path)
                BY <1>4, <4>2, PrefixOf
            <4> QED
                BY <4>1, <4>3
        <3>7. e.op = "move" /\ e.path = c.path /\ e.dest = SubSeq(c.dest, 1, j)
            BY <3>2
        <3>8. \/ e = Refused
              \/ /\ e.op = c.op /\ e.op # "create"
                 /\ e.op = "move" => e.path = c.path /\ IsPrefix(e.dest, c.dest)
                 /\ IsPrefix(e.path, c.path)
            BY <3>1, <3>5, <3>6, <3>7
        <3> QED
            BY <1>12, <3>8 DEF Faithful, e, l
    <2>7. m <= 2 \/ (2 < m /\ m <= 2 + n) \/ m = 3 + n \/ 3 + n < m
        <3>1. n \in Nat /\ m \in Nat
            BY <1>1, <1>3
        <3> HIDE DEF n
        <3> QED
            BY <3>1
    <2> QED
        BY <2>3, <2>4, <2>5, <2>6, <2>7
<1> QED
    BY <1>11, <1>12

-----------------------------------------------------------------------------
\* Parts of texts are texts.
LEMMA PartText ==
    ASSUME NEW text \in Seq(Char), NEW a \in Nat \ {0}, NEW b \in Nat, b <= Len(text)
    PROVE  SubSeq(text, a, b) \in Seq(Char)
<1>1. \A k \in a .. b : text[k] \in Char
    <2>1. Len(text) \in Nat
        BY LenProperties
    <2> QED
        BY <2>1, ElementOfSeq
<1>2. a \in Int /\ b \in Int
    OBVIOUS
<1> QED
    BY <1>1, <1>2, SubSeqProperties

LEMMA FromText ==
    ASSUME NEW text \in Seq(Char), NEW a \in Nat \ {0}
    PROVE  From(text, a) \in Seq(Char)
<1>1. Len(text) \in Nat /\ Len(text) <= Len(text)
    BY LenProperties
<1> QED
    BY <1>1, PartText DEF From

LEMMA CutText ==
    ASSUME NEW text \in Seq(Char), NEW size \in Nat
    PROVE  Cut(text, size) \in Seq(Char)
<1> DEFINE b == IF Len(text) <= size THEN Len(text) ELSE size
<1>1. Len(text) \in Nat
    BY LenProperties
<1>2. b \in Nat /\ b <= Len(text)
    BY <1>1
<1>3. Cut(text, size) = SubSeq(text, 1, b)
    BY <1>1, CutIs
<1> HIDE DEF b
<1> QED
    BY <1>2, <1>3, PartText

\* Where a scan of a text can stop.
LEMMA FirstInText ==
    ASSUME NEW text \in Seq(Char), NEW chars
    PROVE  FirstIn(text, chars) \in Nat /\ FirstIn(text, chars) <= Len(text)
<1>1. text \in Text /\ Len(text) \in Nat
    BY LenProperties DEF Text, Byte
<1>2. FirstIn(text, chars) = 0 \/ FirstIn(text, chars) \in 1 .. Len(text)
    BY <1>1, FirstInCases
<1> QED
    BY <1>1, <1>2

LEMMA ScannedText ==
    ASSUME NEW text \in Seq(Char), NEW chars
    PROVE  /\ Through(text, chars) \in Seq(Char)
           /\ Before(text, chars) \in Seq(Char)
           /\ AfterSpace(text) \in Seq(Char)
<1>1. Through(text, chars) \in Seq(Char)
    <2> DEFINE f == FirstIn(text, chars)
    <2>1. f \in Nat /\ f <= Len(text)
        BY FirstInText
    <2> HIDE DEF f
    <2>2. SubSeq(text, 1, f) \in Seq(Char)
        BY <2>1, PartText
    <2> QED
        BY <2>2 DEF Through, f
<1>2. Before(text, chars) \in Seq(Char)
    <2> DEFINE f == FirstIn(text, chars)
    <2>1. f \in Nat /\ f <= Len(text) /\ Len(text) \in Nat
        BY FirstInText, LenProperties
    <2>2. Before(text, chars) = IF f = 0 THEN text ELSE SubSeq(text, 1, f - 1)
        BY DEF Before
    <2> HIDE DEF f
    <2>3. f # 0 => f - 1 \in Nat /\ f - 1 <= Len(text)
        BY <2>1
    <2>4. f # 0 => SubSeq(text, 1, f - 1) \in Seq(Char)
        BY <2>3, PartText
    <2> QED
        BY <2>2, <2>4
<1>3. AfterSpace(text) \in Seq(Char)
    <2> DEFINE f == FirstIn(text, Byte \ Space)
    <2>1. f \in Nat
        BY FirstInText
    <2>2. AfterSpace(text) = IF f = 0 THEN <<>> ELSE From(text, f)
        BY DEF AfterSpace
    <2> HIDE DEF f
    <2>3. f # 0 => From(text, f) \in Seq(Char)
        BY <2>1, FromText
    <2>4. <<>> \in Seq(Char)
        OBVIOUS
    <2> QED
        BY <2>2, <2>3, <2>4
<1> QED
    BY <1>1, <1>2, <1>3

LEMMA TokenTexts ==
    ASSUME NEW text \in Seq(Char)
    PROVE  Tokens(text) \in Seq(Seq(Char))
<1> DEFINE command == AfterSpace(text)
           first == AfterSpace(From(command, 2))
           word == Before(first, Space)
           second == AfterSpace(From(first, Len(word) + 1))
           other == Before(second, Space)
           letter == Cut(command, 1)
<1>1. command \in Seq(Char)
    BY ScannedText
<1> HIDE DEF command
<1>2. From(command, 2) \in Seq(Char) /\ letter \in Seq(Char)
    BY <1>1, FromText, CutText
<1>3. first \in Seq(Char)
    BY <1>2, ScannedText
<1> HIDE DEF first
<1>4. word \in Seq(Char)
    BY <1>3, ScannedText
<1>5. Len(word) + 1 \in Nat \ {0}
    BY <1>4, LenProperties
<1> HIDE DEF word
<1>6. From(first, Len(word) + 1) \in Seq(Char)
    <2> DEFINE a == Len(word) + 1
    <2>1. a \in Nat \ {0}
        BY <1>5
    <2> HIDE DEF a
    <2>2. From(first, a) \in Seq(Char)
        BY <1>3, <2>1, FromText
    <2> QED
        BY <2>2 DEF a
<1>7. second \in Seq(Char)
    BY <1>6, ScannedText
<1> HIDE DEF second
<1>8. other \in Seq(Char)
    BY <1>7, ScannedText
<1> HIDE DEF other, letter
<1>9. Tokens(text) = CASE command = <<>> -> <<>>
                       [] command # <<>> /\ first = <<>> -> <<letter>>
                       [] first # <<>> /\ second = <<>> -> <<letter, word>>
                       [] OTHER -> <<letter, word, other>>
    BY DEF Tokens, command, first, word, second, other, letter
<1>10. <<>> \in Seq(Seq(Char)) /\ <<letter>> \in Seq(Seq(Char))
    BY <1>2
<1>11. <<letter, word>> \in Seq(Seq(Char))
    BY <1>2, <1>4
<1>12. <<letter, word, other>> \in Seq(Seq(Char))
    BY <1>2, <1>4, <1>8
<1> QED
    BY <1>9, <1>10, <1>11, <1>12

\* What tfs_command_parse returns is a command.
LEMMA ParsedCommand ==
    ASSUME NEW tokens \in Seq(Seq(Char)), ParseError(tokens) = "none"
    PROVE  Parsed(tokens) \in Command
<1>1. tokens # <<>> /\ Operations(tokens) # {}
    BY DEF ParseError
<1>2. PICK op \in DOMAIN Letter : tokens[1] = <<Letter[op]>>
    BY <1>1 DEF Operations
<1>3. Operations(tokens) = {op}
    BY <1>1, <1>2, OperationIs
<1>4. (CHOOSE o \in Operations(tokens) : TRUE) = op
    BY <1>3
<1>5. Len(tokens) = Needed[op]
    BY <1>1, <1>3 DEF ParseError
<1>6. tokens[2] \in Seq(Char) /\ (op \in {"create", "move"} => tokens[3] \in Seq(Char))
    <2>1. Needed[op] \in {2, 3} /\ (op \in {"create", "move"} => Needed[op] = 3)
        BY DEF Needed, Letter
    <2>2. \A x \in {2, 3} : 2 \in 1 .. x
        OBVIOUS
    <2>3. 3 \in 1 .. 3
        OBVIOUS
    <2>4. 2 \in 1 .. Len(tokens) /\ (op \in {"create", "move"} => 3 \in 1 .. Len(tokens))
        BY <1>5, <2>1, <2>2, <2>3, Zenon
    <2> QED
        BY <2>4, ElementOfSeq
<1>7. CASE op = "create"
    <2>1. Types(tokens[3]) # {}
        BY <1>1, <1>3, <1>5, <1>7 DEF ParseError, Needed
    <2> DEFINE type == CHOOSE t \in Types(tokens[3]) : TRUE
    <2>2. type \in {"file", "dir"}
        BY <2>1 DEF Types, TypeLetter
    <2>3. Parsed(tokens) = [op |-> op, path |-> tokens[2], type |-> type]
        BY <1>4, <1>7 DEF Parsed
    <2> HIDE DEF type
    <2> QED
        BY <1>6, <1>7, <2>2, <2>3 DEF Command
<1>8. CASE op = "move"
    <2>1. Parsed(tokens) = [op |-> op, path |-> tokens[2], dest |-> tokens[3]]
        BY <1>4, <1>8 DEF Parsed
    <2> QED
        BY <1>6, <1>8, <2>1 DEF Command
<1>9. CASE op \notin {"create", "move"}
    <2>1. op \in {"search", "remove", "print"}
        BY <1>9 DEF Letter
    <2>2. Parsed(tokens) = [op |-> op, path |-> tokens[2]]
        BY <1>4, <1>9 DEF Parsed
    <2> QED
        BY <1>6, <2>1, <2>2 DEF Command
<1> QED
    BY <1>7, <1>8, <1>9

-----------------------------------------------------------------------------
\* What the server has made of each command it was sent: at most the last one
\* is still on its way.
WireInv ==
    /\ file \in Seq(Char)
    /\ asked \in Seq(Command)
    /\ executed \in Seq({Served(Datagram(c)) : c \in Command})
    /\ \A n \in 1 .. Len(executed) : executed[n] = Served(Datagram(asked[n]))
    /\ status = "waiting" =>
           Len(asked) = Len(executed) + 1 /\ socket = Datagram(asked[Len(asked)])
    /\ status # "waiting" => Len(asked) = Len(executed)

LEMMA WireStarts == Init => WireInv
<1> SUFFICES ASSUME Init PROVE WireInv
    OBVIOUS
<1>1. file \in Seq(Char)
    BY WireAssumption DEF Init
<1>2. asked = <<>> /\ executed = <<>> /\ status = "reading"
    BY DEF Init
<1> QED
    BY <1>1, <1>2 DEF WireInv

\* The client goes on with the rest of its file.
LEMMA RestOfFile ==
    ASSUME file \in Seq(Char)
    PROVE  /\ NextLine \in Seq(Char)
           /\ From(Unread, Len(Through(Unread, {"\n"})) + 1) \in Seq(Char)
           /\ From(Unread, Len(NextLine) + 1) \in Seq(Char)
<1>1. Unread \in Seq(Char)
    BY ScannedText DEF Unread
<1>2. Through(Unread, {"\n"}) \in Seq(Char)
    BY <1>1, ScannedText
<1>3. NextLine \in Seq(Char)
    <2> DEFINE z == LineSize - 1
    <2>1. z \in Nat
        <3>1. LineSize \in Nat /\ RecvSize \in Nat \ {0} /\ RecvSize < LineSize
            BY WireAssumption
        <3> QED
            BY <3>1
    <2> HIDE DEF z
    <2>2. Cut(Through(Unread, {"\n"}), z) \in Seq(Char)
        BY <1>2, <2>1, CutText
    <2> QED
        BY <2>2 DEF NextLine, FirstLine, z
<1>4. ASSUME NEW text \in Seq(Char) PROVE From(Unread, Len(text) + 1) \in Seq(Char)
    <2> DEFINE a == Len(text) + 1
    <2>1. a \in Nat \ {0}
        BY LenProperties
    <2> HIDE DEF a
    <2>2. From(Unread, a) \in Seq(Char)
        BY <1>1, <2>1, FromText
    <2> QED
        BY <2>2 DEF a
<1> QED
    BY <1>2, <1>3, <1>4

LEMMA Sends ==
    ASSUME WireInv, status = "reading", NEW c \in Command, SendCommand(c), file' \in Seq(Char)
    PROVE  WireInv'
<1>1. asked \in Seq(Command) /\ executed \in Seq({Served(Datagram(d)) : d \in Command})
    BY DEF WireInv
<1>2. Len(asked) \in Nat /\ Len(asked) = Len(executed)
    BY <1>1, LenProperties DEF WireInv
<1>3. /\ socket' = Datagram(c) /\ asked' = Append(asked, c)
      /\ status' = "waiting" /\ executed' = executed
    BY DEF SendCommand
<1>4. /\ asked' \in Seq(Command) /\ Len(asked') = Len(asked) + 1
      /\ \A k \in 1 .. Len(asked) : asked'[k] = asked[k]
      /\ asked'[Len(asked) + 1] = c
    BY <1>1, <1>3, AppendProperties
<1>5. \A n \in 1 .. Len(executed) : executed'[n] = Served(Datagram(asked'[n]))
    BY <1>2, <1>3, <1>4 DEF WireInv
<1>6. Len(asked') = Len(executed') + 1 /\ socket' = Datagram(asked'[Len(asked')])
    BY <1>2, <1>3, <1>4
<1> QED
    BY <1>1, <1>3, <1>4, <1>5, <1>6 DEF WireInv

LEMMA WireStays == WireInv /\ [Next]_vars => WireInv'
<1> SUFFICES ASSUME WireInv, [Next]_vars PROVE WireInv'
    OBVIOUS
<1>1. /\ NextLine \in Seq(Char)
      /\ From(Unread, Len(Through(Unread, {"\n"})) + 1) \in Seq(Char)
      /\ From(Unread, Len(NextLine) + 1) \in Seq(Char)
    BY RestOfFile DEF WireInv
<1>2. CASE SkipComment
    BY <1>1, <1>2 DEF SkipComment, WireInv
<1>3. CASE Stop
    <2>1. file' \in Seq(Char)
        BY <1>3 DEF Stop
    <2>2. /\ UNCHANGED <<asked, executed, socket>>
          /\ status = "reading" /\ status' = "ended"
        BY <1>3 DEF Stop
    <2> QED
        BY <2>1, <2>2 DEF WireInv
<1>4. CASE ReadCommand
    <2>1. Tokens(NextLine) \in Seq(Seq(Char)) /\ ParseError(Tokens(NextLine)) = "none"
        BY <1>1, <1>4, TokenTexts DEF ReadCommand
    <2>2. Parsed(Tokens(NextLine)) \in Command
        BY <2>1, ParsedCommand
    <2>3. status = "reading" /\ SendCommand(Parsed(Tokens(NextLine))) /\ file' \in Seq(Char)
        BY <1>1, <1>4 DEF ReadCommand, HasLine
    <2> QED
        BY <2>2, <2>3, Sends
<1>5. CASE ReadFails
    BY <1>1, <1>5 DEF ReadFails, HasLine, WireInv
<1>6. CASE Call
    <2>1. PICK c \in Calls : SendCommand(c)
        BY <1>6 DEF Call
    <2>2. c \in Command /\ status = "reading" /\ file' \in Seq(Char)
        BY <1>6, WireAssumption DEF Call, WireInv
    <2> QED
        BY <2>1, <2>2, Sends
<1>7. CASE Serve
    <2> DEFINE Answers == {Served(Datagram(c)) : c \in Command}
               k == Len(executed) + 1
    <2>1. asked \in Seq(Command) /\ executed \in Seq(Answers) /\ file \in Seq(Char)
        BY DEF WireInv
    <2>2. Len(executed) \in Nat /\ Len(asked) = k /\ socket = Datagram(asked[k])
        BY <1>7, <2>1, LenProperties DEF WireInv, Serve, Continue
    <2>3. asked[k] \in Command
        <3>1. k \in 1 .. Len(asked)
            BY <2>2
        <3> HIDE DEF k
        <3> QED
            BY <2>1, <3>1, ElementOfSeq
    <2>4. Served(socket) \in Answers
        BY <2>2, <2>3
    <2>5. /\ executed' = Append(executed, Served(socket)) /\ status' = "reading"
          /\ UNCHANGED <<file, asked>>
        BY <1>7 DEF Serve, Continue
    <2> HIDE DEF Answers
    <2>6. /\ executed' \in Seq(Answers) /\ Len(executed') = k
          /\ \A n \in 1 .. Len(executed) : executed'[n] = executed[n]
          /\ executed'[k] = Served(socket)
        BY <2>1, <2>4, <2>5, AppendProperties
    <2>7. ASSUME NEW n \in 1 .. k PROVE executed'[n] = Served(Datagram(asked[n]))
        <3>1. n \in 1 .. Len(executed) \/ n = k
            BY <2>2
        <3> QED
            BY <2>2, <2>6, <3>1 DEF WireInv
    <2> QED
        BY <2>1, <2>2, <2>5, <2>6, <2>7 DEF WireInv, Answers
<1>8. CASE UNCHANGED vars
    BY <1>8 DEF vars, WireInv
<1> QED
    BY <1>2, <1>3, <1>4, <1>5, <1>6, <1>7, <1>8 DEF Next

LEMMA WireArrives == WireInv => Arrives
<1> SUFFICES ASSUME WireInv, NEW n \in DOMAIN executed, Plain(asked[n])
             PROVE  Faithful(asked[n], executed[n])
    BY DEF Arrives, Faithful
<1>1. asked \in Seq(Command) /\ executed \in Seq({Served(Datagram(c)) : c \in Command})
    BY DEF WireInv
<1>2. n \in 1 .. Len(executed) /\ Len(executed) \in Nat /\ Len(asked) \in Nat
    BY <1>1, LenProperties
<1>3. n \in 1 .. Len(asked)
    BY <1>2 DEF WireInv
<1>4. asked[n] \in Command /\ executed[n] = Served(Datagram(asked[n]))
    BY <1>1, <1>2, <1>3, ElementOfSeq DEF WireInv
<1> QED
    BY <1>4, WhatArrives

\* Whatever the buffers hold: a command whose paths are words is executed as
\* the client sent it if its text fits the server's buffer, and a longer one is
\* refused or taken for the same operation, which is no create, on a path that
\* is its beginning (tecnicofs.c:119-122).
THEOREM CommandsArrive == Spec => []Arrives
<1>1. Init => WireInv
    BY WireStarts
<1>2. WireInv /\ [Next]_vars => WireInv'
    BY WireStays
<1>3. WireInv => Arrives
    BY WireArrives
<1> QED
    BY <1>1, <1>2, <1>3, PTL DEF Spec

-----------------------------------------------------------------------------
\* Where the next character of a kind is in a text, from a place on.
LEMMA FirstPlace ==
    ASSUME NEW text \in Text, NEW chars, NEW i \in Nat \ {0}, i <= Len(text) + 1
    PROVE  \/ /\ FirstIn(From(text, i), chars) = 0
              /\ \A k \in i .. Len(text) : text[k] \notin chars
           \/ \E j \in i .. Len(text) :
                 /\ FirstIn(From(text, i), chars) = j - i + 1
                 /\ text[j] \in chars /\ \A k \in i .. j - 1 : text[k] \notin chars
<1> DEFINE rest == From(text, i)
           f == FirstIn(rest, chars)
<1>1. Len(text) \in Nat
    BY LenProperties DEF Text
<1>2. /\ rest \in Text /\ Len(rest) = Len(text) - i + 1
      /\ \A k \in 1 .. Len(text) - i + 1 : rest[k] = text[i + k - 1]
    BY RestOf
<1>3. \/ f = 0 /\ \A j \in 1 .. Len(rest) : rest[j] \notin chars
      \/ f \in 1 .. Len(rest) /\ rest[f] \in chars /\ \A j \in 1 .. f - 1 : rest[j] \notin chars
    BY <1>2, FirstInCases
<1> HIDE DEF rest, f
<1>4. ASSUME NEW k \in i .. Len(text)
      PROVE  k - i + 1 \in 1 .. Len(rest) /\ rest[k - i + 1] = text[k]
    <2> DEFINE m == k - i + 1
    <2>1. m \in 1 .. Len(text) - i + 1 /\ i + m - 1 = k
        BY <1>1
    <2> HIDE DEF m
    <2>2. rest[m] = text[k]
        BY <1>2, <2>1
    <2> QED
        BY <1>2, <2>1, <2>2 DEF m
<1>5. CASE f = 0 /\ \A j \in 1 .. Len(rest) : rest[j] \notin chars
    <2>1. \A k \in i .. Len(text) : text[k] \notin chars
        BY <1>4, <1>5
    <2> QED
        BY <1>5, <2>1 DEF f, rest
<1>6. CASE f \in 1 .. Len(rest) /\ rest[f] \in chars /\ \A j \in 1 .. f - 1 : rest[j] \notin chars
    <2> DEFINE j == i + f - 1
    <2>1. j \in i .. Len(text) /\ f = j - i + 1
        BY <1>1, <1>2, <1>6
    <2>2. ASSUME NEW k \in i .. j - 1 PROVE text[k] \notin chars
        <3>1. k \in i .. Len(text) /\ k - i + 1 \in 1 .. f - 1
            BY <1>1, <2>1
        <3> QED
            BY <1>4, <1>6, <3>1
    <2> HIDE DEF j
    <2>3. text[j] \in chars
        BY <1>4, <1>6, <2>1
    <2> QED
        BY <2>1, <2>2, <2>3 DEF f, rest
<1> QED
    BY <1>3, <1>5, <1>6

\* The least of some places, and the last.
LEMMA MinIs ==
    ASSUME NEW S \in SUBSET Nat, NEW k \in S, \A j \in S : k <= j
    PROVE  Min(S) = k
<1>1. Min(S) \in S /\ Min(S) <= k
    BY DEF Min
<1>2. Min(S) \in Nat /\ k \in Nat /\ k <= Min(S)
    BY <1>1
<1> QED
    BY <1>1, <1>2

LEMMA MaxIs ==
    ASSUME NEW S \in SUBSET Nat, NEW k \in S, \A j \in S : j <= k
    PROVE  Max(S) = k
<1>1. Max(S) \in S /\ Max(S) >= k
    BY DEF Max
<1>2. Max(S) \in Nat /\ k \in Nat /\ Max(S) <= k
    BY <1>1
<1> QED
    BY <1>1, <1>2

\* A stretch ends before the next character of its kind, or with its text.
LEMMA StretchIs ==
    ASSUME NEW text \in Text, NEW chars, NEW k \in Nat \ {0}, NEW e \in Nat,
           k <= e, e <= Len(text), \A i \in k .. e : text[i] \notin chars,
           e = Len(text) \/ text[e + 1] \in chars
    PROVE  Stretch(text, chars, k) = SubSeq(text, k, e)
<1> DEFINE S == {j \in k .. Len(text) : Free(text, chars, k, j)}
<1>1. Len(text) \in Nat
    BY LenProperties DEF Text
<1>2. S \in SUBSET Nat
    BY <1>1
<1>3. e \in S
    BY <1>1 DEF Free
<1>4. ASSUME NEW j \in S PROVE j <= e
    <2>1. j \in Nat /\ j <= Len(text)
        BY <1>1
    <2>2. \A i \in k .. j : text[i] \notin chars
        BY DEF Free
    <2> SUFFICES ASSUME e < j PROVE FALSE
        BY <2>1
    <2>3. e + 1 \in k .. j /\ e # Len(text)
        BY <1>1, <2>1
    <2> QED
        BY <2>2, <2>3
<1> HIDE DEF S
<1>5. Max(S) = e
    BY <1>2, <1>3, <1>4, MaxIs
<1> QED
    BY <1>5 DEF Stretch, S

-----------------------------------------------------------------------------
\* The first line of a text after the place pos that is not blank is at u .. p.
LineIs(text, pos, u, p) ==
    /\ u \in pos + 1 .. Len(text) /\ p \in u .. Len(text)
    /\ \A k \in pos + 1 .. u - 1 : text[k] \in Space
    /\ text[u] \notin Space
    /\ Free(text, {"\n"}, u, p)
    /\ p = Len(text) \/ text[p + 1] = "\n"

\* The client has read a file up to a place that is inside of no line.
Breaks(text, pos) == pos = 0 \/ pos = Len(text) \/ text[pos] = "\n" \/ text[pos + 1] = "\n"

LEMMA FindLine ==
    ASSUME NEW text \in Text, NEW pos \in Nat, pos <= Len(text)
    PROVE  \/ /\ AfterSpace(From(text, pos + 1)) = <<>>
              /\ \A k \in pos + 1 .. Len(text) : text[k] \in Space
           \/ /\ AfterSpace(From(text, pos + 1)) # <<>>
              /\ \E u \in pos + 1 .. Len(text) : \E p \in u .. Len(text) :
                    LineIs(text, pos, u, p) /\ AfterSpace(From(text, pos + 1)) = From(text, u)
<1>1. Len(text) \in Nat /\ \A k \in 1 .. Len(text) : text[k] \in Byte
    BY LenProperties, ElementOfSeq DEF Text
<1>2. pos + 1 \in Nat \ {0} /\ pos + 1 <= Len(text) + 1
    BY <1>1
<1>3. CASE \A k \in pos + 1 .. Len(text) : text[k] \notin Byte \ Space
    <2>1. \A k \in pos + 1 .. Len(text) : text[k] \in Space
        <3>1. \A k \in pos + 1 .. Len(text) : k \in 1 .. Len(text)
            BY <1>1
        <3> QED
            BY <1>1, <1>3, <3>1
    <2>2. AfterSpace(From(text, pos + 1)) = <<>>
        BY <1>2, <2>1, AfterSpaceNone
    <2> QED
        BY <2>1, <2>2
<1>4. CASE \E u \in pos + 1 .. Len(text) :
              text[u] \in Byte \ Space /\ \A k \in pos + 1 .. u - 1 : text[k] \notin Byte \ Space
    <2>1. PICK u \in pos + 1 .. Len(text) :
              text[u] \in Byte \ Space /\ \A k \in pos + 1 .. u - 1 : text[k] \notin Byte \ Space
        BY <1>4
    <2>2. u \in Nat \ {0} /\ u <= Len(text) /\ pos + 1 <= u /\ text[u] \notin Space
        BY <1>1, <2>1
    <2>3. \A k \in pos + 1 .. u - 1 : text[k] \in Space
        <3>1. \A k \in pos + 1 .. u - 1 : k \in 1 .. Len(text)
            BY <1>1, <2>2
        <3> QED
            BY <1>1, <2>1, <3>1
    <2>4. AfterSpace(From(text, pos + 1)) = From(text, u)
        BY <1>2, <2>2, <2>3, AfterSpaceIs
    <2>5. From(text, u) # <<>>
        <3>1. From(text, u) \in Text /\ Len(From(text, u)) = Len(text) - u + 1
            BY <1>1, <2>2, RestOf
        <3>2. Len(From(text, u)) # 0
            BY <1>1, <2>2, <3>1
        <3> QED
            BY <3>2, EmptySeq
    <2>6. \E p \in u .. Len(text) :
              Free(text, {"\n"}, u, p) /\ (p = Len(text) \/ text[p + 1] = "\n")
        <3>1. u <= Len(text) + 1
            BY <1>1, <2>2
        <3>2. CASE \A k \in u .. Len(text) : text[k] \notin {"\n"}
            <4>1. Len(text) \in u .. Len(text)
                BY <1>1, <2>2
            <4> QED
                BY <3>2, <4>1 DEF Free
        <3>3. CASE \E j \in u .. Len(text) :
                      text[j] \in {"\n"} /\ \A k \in u .. j - 1 : text[k] \notin {"\n"}
            <4>1. PICK j \in u .. Len(text) :
                      text[j] \in {"\n"} /\ \A k \in u .. j - 1 : text[k] \notin {"\n"}
                BY <3>3
            <4>2. j # u
                BY <2>2, <4>1 DEF Space
            <4>3. j - 1 \in u .. Len(text) /\ (j - 1) + 1 = j
                BY <1>1, <2>2, <4>2
            <4> QED
                BY <4>1, <4>3 DEF Free
        <3> QED
            BY <2>2, <3>1, <3>2, <3>3, FirstPlace
    <2>7. PICK p \in u .. Len(text) :
              Free(text, {"\n"}, u, p) /\ (p = Len(text) \/ text[p + 1] = "\n")
        BY <2>6
    <2>8. LineIs(text, pos, u, p)
        BY <2>1, <2>2, <2>3, <2>7 DEF LineIs
    <2> QED
        BY <2>1, <2>4, <2>5, <2>7, <2>8
<1> QED
    BY <1>2, <1>3, <1>4, FirstPlace

\* What is read of a line: all of it, and the newline at its end if the line
\* has one and the buffer holds it.
LEMMA LineScans ==
    ASSUME NEW text \in Text, NEW pos \in Nat, NEW u \in Nat, NEW p \in Nat, LineIs(text, pos, u, p)
    PROVE  LET rest == From(text, u)
               q == IF p = Len(text) THEN p ELSE p + 1
           IN  /\ Stretch(text, {"\n"}, u) = SubSeq(text, u, p)
               /\ Through(rest, {"\n"}) = SubSeq(text, u, q)
               /\ Head(rest) = text[u]
               /\ q <= Len(text) /\ Breaks(text, q)
<1> DEFINE rest == From(text, u)
<1>1. /\ u \in Nat \ {0} /\ p \in Nat /\ u <= p /\ p <= Len(text) /\ Len(text) \in Nat
      /\ u <= Len(text) + 1
    BY LenProperties DEF LineIs, Text
<1>2. (\A k \in u .. p : text[k] \notin {"\n"}) /\ (p = Len(text) \/ text[p + 1] \in {"\n"})
    BY DEF LineIs, Free
<1>3. Stretch(text, {"\n"}, u) = SubSeq(text, u, p)
    BY <1>1, <1>2, StretchIs
<1>4. /\ rest \in Text /\ Len(rest) = Len(text) - u + 1
      /\ \A k \in 1 .. Len(text) - u + 1 : rest[k] = text[u + k - 1]
    BY <1>1, RestOf
<1>5. Head(rest) = text[u]
    <2>1. 1 \in 1 .. Len(text) - u + 1 /\ u + 1 - 1 = u
        BY <1>1
    <2>2. rest[1] = text[u]
        BY <1>4, <2>1
    <2>3. rest # <<>>
        BY <1>1, <1>4, EmptySeq
    <2> HIDE DEF rest
    <2> QED
        BY <1>4, <2>2, <2>3, HeadTailProperties DEF Text
<1>6. \/ /\ FirstIn(rest, {"\n"}) = 0
         /\ \A k \in u .. Len(text) : text[k] \notin {"\n"}
      \/ \E j \in u .. Len(text) :
            /\ FirstIn(rest, {"\n"}) = j - u + 1
            /\ text[j] \in {"\n"} /\ \A k \in u .. j - 1 : text[k] \notin {"\n"}
    BY <1>1, FirstPlace
<1>7. CASE p = Len(text)
    <2>1. \A j \in u .. Len(text) : text[j] \notin {"\n"}
        BY <1>2, <1>7
    <2>2. FirstIn(rest, {"\n"}) = 0
        BY <1>6, <2>1
    <2>3. Through(rest, {"\n"}) = SubSeq(text, u, p)
        BY <1>7, <2>2 DEF Through, From
    <2> QED
        BY <1>1, <1>3, <1>5, <1>7, <2>3 DEF Breaks
<1>8. CASE p # Len(text)
    <2>1. p + 1 \in u .. Len(text) /\ text[p + 1] = "\n" /\ p + 1 <= Len(text)
        BY <1>1, <1>2, <1>8
    <2>2. PICK j \in u .. Len(text) :
            /\ FirstIn(rest, {"\n"}) = j - u + 1
            /\ text[j] \in {"\n"} /\ \A k \in u .. j - 1 : text[k] \notin {"\n"}
        BY <1>6, <2>1
    <2>3. j = p + 1
        <3>1. ~(j \in u .. p)
            BY <1>2, <2>2
        <3>2. ~(p + 1 \in u .. j - 1)
            BY <2>1, <2>2
        <3> QED
            BY <1>1, <2>1, <3>1, <3>2
    <2>4. FirstIn(rest, {"\n"}) = p + 1 - u + 1 /\ p + 1 - u + 1 # 0
        BY <1>1, <2>2, <2>3
    <2>5. Through(rest, {"\n"}) = SubSeq(rest, 1, p + 1 - u + 1)
        BY <2>4 DEF Through
    <2>6. SubSeq(rest, 1, p + 1 - u + 1) = SubSeq(text, u, p + 1)
        <3> DEFINE d == p + 1 - u + 1
                   n == Len(text)
        <3>1. /\ d \in Nat /\ d <= n - u + 1 /\ u + d - 1 = p + 1 /\ u + 1 - 1 = u
              /\ 1 \in Nat \ {0} /\ n \in Nat /\ n <= Len(text)
            BY <1>1, <2>1
        <3> HIDE DEF d, n
        <3>2. SubSeq(SubSeq(text, u, n), 1, d) = SubSeq(text, u + 1 - 1, u + d - 1)
            BY <1>1, <3>1, PartOfPart
        <3> QED
            BY <3>1, <3>2 DEF d, n, From
    <2>7. Breaks(text, p + 1)
        BY <2>1 DEF Breaks
    <2> QED
        BY <1>3, <1>5, <1>8, <2>1, <2>5, <2>6, <2>7
<1> QED
    BY <1>7, <1>8

\* The rest of a text after a part of it.
LEMMA RestAfter ==
    ASSUME NEW text \in Text, NEW u \in Nat \ {0}, NEW q \in Nat, u <= q, q <= Len(text)
    PROVE  From(From(text, u), Len(SubSeq(text, u, q)) + 1) = From(text, q + 1)
<1> DEFINE d == q - u + 2
<1>1. Len(text) \in Nat
    BY LenProperties DEF Text
<1>2. Len(SubSeq(text, u, q)) = q - u + 1
    BY <1>1, PartOf
<1>3. /\ Len(SubSeq(text, u, q)) + 1 = d /\ d \in Nat \ {0} /\ u + d - 1 = q + 1
      /\ u <= Len(text) + 1
    BY <1>1, <1>2
<1> HIDE DEF d
<1>4. From(From(text, u), d) = From(text, u + d - 1)
    BY <1>3, RestOf
<1> QED
    BY <1>3, <1>4

\* A part of a text cut to a size.
LEMMA PartCut ==
    ASSUME NEW text \in Text, NEW u \in Nat \ {0}, NEW q \in Nat, u <= q, q <= Len(text),
           NEW size \in Nat
    PROVE  Cut(SubSeq(text, u, q), size) =
               SubSeq(text, u, IF q - u + 1 <= size THEN q ELSE u + size - 1)
<1> DEFINE part == SubSeq(text, u, q)
           d == IF q - u + 1 <= size THEN q - u + 1 ELSE size
<1>1. Len(text) \in Nat
    BY LenProperties DEF Text
<1>2. Len(part) = q - u + 1 /\ Len(part) \in Nat
    BY <1>1, PartOf
<1>3. /\ d \in Nat /\ d <= q - u + 1 /\ u + 1 - 1 = u
      /\ u + d - 1 = (IF q - u + 1 <= size THEN q ELSE u + size - 1)
    BY <1>1
<1>4. Cut(part, size) = SubSeq(part, 1, d)
    <2> HIDE DEF part
    <2>1. Cut(part, size) = SubSeq(part, 1, IF Len(part) <= size THEN Len(part) ELSE size)
        BY <1>2, CutIs
    <2> QED
        BY <1>2, <2>1
<1> HIDE DEF d
<1>5. SubSeq(part, 1, d) = SubSeq(text, u + 1 - 1, u + d - 1)
    BY <1>1, <1>3, PartOfPart
<1> QED
    BY <1>3, <1>4, <1>5

\* fgets holds a line that is shorter than its buffer, but perhaps not its
\* newline, which is then a blank before the next line.
LEMMA LineHeld ==
    ASSUME NEW text \in Text, NEW pos \in Nat, NEW u \in Nat, NEW p \in Nat,
           LineIs(text, pos, u, p), p - u + 1 < LineSize
    PROVE  \E q \in {p, p + 1} :
              /\ q <= Len(text) /\ Breaks(text, q)
              /\ q = p + 1 => text[q] = "\n"
              /\ FirstLine(From(text, u)) = SubSeq(text, u, q)
              /\ From(From(text, u), Len(SubSeq(text, u, q)) + 1) = From(text, q + 1)
<1> DEFINE rest == From(text, u)
           q == IF p = Len(text) THEN p ELSE p + 1
<1>1. /\ u \in Nat \ {0} /\ p \in Nat /\ u <= p /\ p <= Len(text) /\ Len(text) \in Nat
    BY LenProperties DEF LineIs, Text
<1>9. LineSize \in Nat /\ LineSize - 1 \in Nat
    <2>1. LineSize \in Nat /\ RecvSize \in Nat \ {0} /\ RecvSize < LineSize
        BY Zenon, WireAssumption
    <2> QED
        BY <2>1
<1>2. Through(rest, {"\n"}) = SubSeq(text, u, q) /\ q <= Len(text) /\ Breaks(text, q)
    BY LineScans
<1>3. q \in {p, p + 1} /\ q \in Nat /\ u <= q
    BY <1>1
<1>4. p # Len(text) => text[p + 1] = "\n" /\ Breaks(text, p)
    BY DEF LineIs, Breaks
<1>5. FirstLine(rest) =
          SubSeq(text, u, IF q - u + 1 <= LineSize - 1 THEN q ELSE u + (LineSize - 1) - 1)
    <2> DEFINE size == LineSize - 1
    <2> HIDE DEF size, q, rest
    <2>1. Cut(SubSeq(text, u, q), size) =
              SubSeq(text, u, IF q - u + 1 <= size THEN q ELSE u + size - 1)
        <3>1. /\ u \in Nat \ {0} /\ q \in Nat /\ u <= q /\ q <= Len(text)
              /\ size \in Nat
            BY <1>1, <1>2, <1>3, <1>9 DEF size
        <3> QED
            BY <3>1, PartCut
    <2> QED
        BY <1>2, <2>1 DEF FirstLine, size
<1>6. CASE q - u + 1 <= LineSize - 1
    <2>1. FirstLine(rest) = SubSeq(text, u, q)
        BY <1>5, <1>6
    <2>2. q = p + 1 => text[q] = "\n"
        BY <1>1, <1>4
    <2> HIDE DEF q
    <2>3. From(rest, Len(SubSeq(text, u, q)) + 1) = From(text, q + 1)
        BY <1>1, <1>2, <1>3, RestAfter
    <2> QED
        BY <1>2, <1>3, <2>1, <2>2, <2>3
<1>7. CASE ~(q - u + 1 <= LineSize - 1)
    <2>1. p # Len(text) /\ u + (LineSize - 1) - 1 = p
        BY <1>1, <1>7, <1>9
    <2>2. FirstLine(rest) = SubSeq(text, u, p)
        BY <1>5, <1>7, <2>1
    <2>3. From(rest, Len(SubSeq(text, u, p)) + 1) = From(text, p + 1)
        BY <1>1, RestAfter
    <2>4. p # p + 1
        BY <1>1
    <2> QED
        BY <1>1, <1>4, <2>1, <2>2, <2>3, <2>4
<1> QED
    BY <1>6, <1>7

\* After the line, one more of the lines has been read.
LEMMA Advance ==
    ASSUME NEW text \in Text, NEW pos \in Nat, pos <= Len(text), Breaks(text, pos),
           NEW u \in Nat, NEW p \in Nat, LineIs(text, pos, u, p),
           NEW q \in {p, p + 1}, q <= Len(text), q = p + 1 => text[q] = "\n"
    PROVE  /\ u \in LineBegins(text) /\ u \notin {j \in LineBegins(text) : j <= pos}
           /\ {j \in LineBegins(text) : j <= q} = {j \in LineBegins(text) : j <= pos} \cup {u}
           /\ {j \in LineBegins(text) : j <= u} = {j \in LineBegins(text) : j <= pos} \cup {u}
<1>1. /\ u \in Nat /\ p \in Nat /\ pos < u /\ u <= p /\ u <= q /\ q \in Nat
      /\ Len(text) \in Nat /\ u <= Len(text) /\ p <= Len(text)
    BY LenProperties DEF LineIs, Text
<1>2. /\ \A k \in pos + 1 .. u - 1 : text[k] \in Space
      /\ text[u] \notin Space
      /\ \A k \in u .. p : text[k] # "\n"
    BY DEF LineIs, Free
<1>3. \A j \in Solid(text) : j \in 1 .. Len(text) /\ text[j] \notin Space /\ text[j] # "\n"
    BY DEF Solid, Space
<1>4. u \in Solid(text)
    BY <1>1, <1>2 DEF Solid
<1>5. ASSUME NEW j \in Solid(text), j < u
      PROVE  j <= pos /\ ~Free(text, {"\n"}, j, u)
    <2>1. j \in 1 .. Len(text) /\ text[j] \notin Space
        BY <1>3
    <2>2. j <= pos
        <3>1. ~(j \in pos + 1 .. u - 1)
            BY <1>2, <2>1
        <3> QED
            BY <1>1, <1>5, <2>1, <3>1
    <2>3. pos # 0 /\ pos # Len(text) /\ pos \in j .. u /\ pos + 1 \in j .. u
        BY <1>1, <2>1, <2>2
    <2>4. text[pos] = "\n" \/ text[pos + 1] = "\n"
        BY <2>3 DEF Breaks
    <2> QED
        BY <2>2, <2>3, <2>4 DEF Free
<1>6. u \in LineBegins(text)
    BY <1>4, <1>5 DEF LineBegins
<1>7. ASSUME NEW j \in LineBegins(text), j <= q PROVE j <= pos \/ j = u
    <2>1. j \in Solid(text) /\ (u < j => ~Free(text, {"\n"}, u, j))
        BY <1>4 DEF LineBegins
    <2>2. CASE u < j
        <3>1. PICK n \in u .. j : text[n] = "\n"
            BY <2>1, <2>2 DEF Free
        <3>2. j \in 1 .. Len(text) /\ text[j] # "\n"
            BY <1>3, <2>1
        <3>3. n # j
            BY <3>1, <3>2
        <3>4. n \in u .. p
            BY <1>1, <1>7, <3>1, <3>2, <3>3
        <3> QED
            BY <1>2, <3>1, <3>4
    <2>3. j \in Nat
        BY <1>3, <2>1
    <2> QED
        BY <1>1, <1>5, <2>1, <2>2, <2>3
<1>8. ASSUME NEW j \in LineBegins(text) PROVE j \in Nat
    BY <1>3 DEF LineBegins
<1>9. u \notin {j \in LineBegins(text) : j <= pos}
    BY <1>1
<1>10. {j \in LineBegins(text) : j <= q} = {j \in LineBegins(text) : j <= pos} \cup {u}
    <2>1. ASSUME NEW j \in LineBegins(text), j <= pos PROVE j <= q
        BY <1>1, <1>8, <2>1
    <2> QED
        BY <1>1, <1>6, <1>7, <2>1
<1>11. {j \in LineBegins(text) : j <= u} = {j \in LineBegins(text) : j <= pos} \cup {u}
    <2>1. ASSUME NEW j \in LineBegins(text), j <= pos PROVE j <= u
        BY <1>1, <1>8, <2>1
    <2>2. ASSUME NEW j \in LineBegins(text), j <= u PROVE j <= q
        BY <1>1, <1>8, <2>2
    <2>3. u <= u
        BY <1>1
    <2> QED
        BY <1>6, <1>7, <2>1, <2>2, <2>3
<1> QED
    BY <1>6, <1>9, <1>10, <1>11

-----------------------------------------------------------------------------
\* The next word of a text after a place, if only blanks do not follow.
LEMMA FindWord ==
    ASSUME NEW text \in Text, NEW i \in Nat \ {0}, i <= Len(text) + 1
    PROVE  \/ \A k \in i .. Len(text) : text[k] \in Space
           \/ \E a \in i .. Len(text) : \E b \in a .. Len(text) : NextWord(text, i, a, b)
<1>1. Len(text) \in Nat /\ \A k \in 1 .. Len(text) : text[k] \in Byte
    BY LenProperties, ElementOfSeq DEF Text
<1>2. \A k \in i .. Len(text) : k \in 1 .. Len(text)
    BY <1>1
<1>3. CASE \A k \in i .. Len(text) : text[k] \notin Byte \ Space
    BY <1>1, <1>2, <1>3
<1>4. CASE \E a \in i .. Len(text) :
              text[a] \in Byte \ Space /\ \A k \in i .. a - 1 : text[k] \notin Byte \ Space
    <2>1. PICK a \in i .. Len(text) :
              text[a] \in Byte \ Space /\ \A k \in i .. a - 1 : text[k] \notin Byte \ Space
        BY <1>4
    <2>2. a \in Nat \ {0} /\ i <= a /\ a <= Len(text) /\ a <= Len(text) + 1
        BY <1>1, <2>1
    <2>3. \A k \in i .. a - 1 : text[k] \in Space
        <3>1. \A k \in i .. a - 1 : k \in 1 .. Len(text)
            BY <1>1, <2>2
        <3> QED
            BY <1>1, <2>1, <3>1
    <2>4. \E b \in a .. Len(text) :
              (\A k \in a .. b : text[k] \notin Space) /\ (b = Len(text) \/ text[b + 1] \in Space)
        <3>1. CASE \A k \in a .. Len(text) : text[k] \notin Space
            <4>1. Len(text) \in a .. Len(text)
                BY <1>1, <2>2
            <4> QED
                BY <3>1, <4>1
        <3>2. CASE \E j \in a .. Len(text) :
                      text[j] \in Space /\ \A k \in a .. j - 1 : text[k] \notin Space
            <4>1. PICK j \in a .. Len(text) :
                      text[j] \in Space /\ \A k \in a .. j - 1 : text[k] \notin Space
                BY <3>2
            <4>2. j # a
                BY <2>1, <4>1
            <4>3. j - 1 \in a .. Len(text) /\ (j - 1) + 1 = j
                BY <1>1, <2>2, <4>2
            <4> QED
                BY <4>1, <4>3
        <3> QED
            BY <2>2, <3>1, <3>2, FirstPlace
    <2>5. PICK b \in a .. Len(text) :
              (\A k \in a .. b : text[k] \notin Space) /\ (b = Len(text) \/ text[b + 1] \in Space)
        BY <2>4
    <2>6. b \in Nat /\ a <= b /\ b <= Len(text)
        BY <1>1, <2>2
    <2>7. NextWord(text, i, a, b)
        BY <2>2, <2>3, <2>5, <2>6 DEF NextWord
    <2> QED
        BY <2>1, <2>5, <2>7
<1>5. \/ \A k \in i .. Len(text) : text[k] \notin Byte \ Space
      \/ \E a \in i .. Len(text) :
            text[a] \in Byte \ Space /\ \A k \in i .. a - 1 : text[k] \notin Byte \ Space
    <2> DEFINE chars == Byte \ Space
    <2> HIDE DEF chars
    <2>1. \/ \A k \in i .. Len(text) : text[k] \notin chars
          \/ \E a \in i .. Len(text) :
                text[a] \in chars /\ \A k \in i .. a - 1 : text[k] \notin chars
        BY FirstPlace
    <2> QED
        BY <2>1 DEF chars
<1> QED
    BY <1>3, <1>4, <1>5

\* The arguments of a line are the words behind its letter.
LEMMA ArgumentPlaces ==
    ASSUME NEW text \in Text
    PROVE  /\ ArgumentBegins(text) \in SUBSET Nat
           /\ \A k \in ArgumentBegins(text) :
                 k \in 2 .. Len(text) /\ text[k] \notin Space /\ (k = 2 \/ text[k - 1] \in Space)
           /\ \A k \in 2 .. Len(text) :
                 text[k] \notin Space /\ (k = 2 \/ text[k - 1] \in Space) =>
                     k \in ArgumentBegins(text)
<1>1. Len(text) \in Nat
    BY LenProperties DEF Text
<1>2. ASSUME NEW k \in 1 .. Len(text), k # 1
      PROVE  /\ k \in Nat /\ k \in 2 .. Len(text)
             /\ k = 2 \/ k - 1 \in 1 .. Len(text)
    BY <1>1, <1>2
<1>3. ASSUME NEW k \in 2 .. Len(text)
      PROVE  k \in 1 .. Len(text) /\ k # 1 /\ k - 1 \in 1 .. Len(text)
    BY <1>1
<1>4. ASSUME NEW k \in ArgumentBegins(text)
      PROVE  /\ k \in Nat /\ k \in 2 .. Len(text)
             /\ text[k] \notin Space /\ (k = 2 \/ text[k - 1] \in Space)
    <2>1. k \in 1 .. Len(text) /\ k # 1 /\ text[k] \notin Space
        BY DEF ArgumentBegins, Solid
    <2>2. k = 2 \/ k - 1 \notin Solid(text)
        BY DEF ArgumentBegins
    <2> QED
        BY <1>2, <2>1, <2>2 DEF Solid
<1>5. ASSUME NEW k \in 2 .. Len(text), text[k] \notin Space, k = 2 \/ text[k - 1] \in Space
      PROVE  k \in ArgumentBegins(text)
    BY <1>3, <1>5 DEF ArgumentBegins, Solid
<1>6. ArgumentBegins(text) \in SUBSET Nat
    BY <1>4
<1> QED
    BY <1>4, <1>5, <1>6

\* The word at a place where one begins.
LEMMA WordIs ==
    ASSUME NEW text \in Text, NEW i \in Nat \ {0}, NEW a, NEW b, NextWord(text, i, a, b)
    PROVE  Stretch(text, Space, a) = SubSeq(text, a, b)
<1>1. /\ a \in Nat \ {0} /\ b \in Nat /\ a <= b /\ b <= Len(text)
      /\ \A k \in a .. b : text[k] \notin Space
      /\ b = Len(text) \/ text[b + 1] \in Space
    BY DEF NextWord
<1> QED
    BY <1>1, StretchIs

LEMMA NoArguments ==
    ASSUME NEW text \in Text, \A k \in 2 .. Len(text) : text[k] \in Space
    PROVE  ArgumentBegins(text) = {}
BY ArgumentPlaces

LEMMA FirstArgument ==
    ASSUME NEW text \in Text, NEW a, NEW b, NextWord(text, 2, a, b)
    PROVE  /\ a \in ArgumentBegins(text) /\ Min(ArgumentBegins(text)) = a
           /\ \A k \in ArgumentBegins(text) : k # a => k > b
<1> DEFINE args == ArgumentBegins(text)
<1>1. /\ a \in Nat \ {0} /\ b \in Nat /\ 2 <= a /\ a <= b /\ b <= Len(text) /\ Len(text) \in Nat
      /\ \A k \in 2 .. a - 1 : text[k] \in Space
      /\ \A k \in a .. b : text[k] \notin Space
    BY LenProperties DEF NextWord, Text
<1>2. /\ args \in SUBSET Nat
      /\ \A k \in args :
            k \in 2 .. Len(text) /\ text[k] \notin Space /\ (k = 2 \/ text[k - 1] \in Space)
      /\ \A k \in 2 .. Len(text) :
            text[k] \notin Space /\ (k = 2 \/ text[k - 1] \in Space) => k \in args
    BY ArgumentPlaces
<1> HIDE DEF args
<1>3. a \in args
    <2>1. a \in 2 .. Len(text) /\ a \in a .. b /\ (a = 2 \/ a - 1 \in 2 .. a - 1)
        BY <1>1
    <2> QED
        BY <1>1, <1>2, <2>1
<1>4. ASSUME NEW k \in args PROVE a <= k /\ (k # a => k > b)
    <2>1. k \in 2 .. Len(text) /\ text[k] \notin Space /\ (k = 2 \/ text[k - 1] \in Space)
        BY <1>2
    <2>2. ~(k \in 2 .. a - 1)
        BY <1>1, <2>1
    <2>3. a <= k
        BY <1>1, <2>1, <2>2
    <2>4. ASSUME k # a, k <= b PROVE FALSE
        <3>1. k - 1 \in a .. b /\ k # 2
            BY <1>1, <2>1, <2>3, <2>4
        <3> QED
            BY <1>1, <2>1, <3>1
    <2> QED
        BY <1>1, <2>1, <2>3, <2>4
<1>5. Min(args) = a
    BY <1>2, <1>3, <1>4, MinIs
<1> QED
    BY <1>3, <1>4, <1>5 DEF args

LEMMA OtherArguments ==
    ASSUME NEW text \in Text, NEW a, NEW b, NextWord(text, 2, a, b)
    PROVE  LET others == ArgumentBegins(text) \ {Min(ArgumentBegins(text))} IN
           /\ (\A k \in b + 1 .. Len(text) : text[k] \in Space) => others = {}
           /\ \A c, d : NextWord(text, b + 1, c, d) => c \in others /\ Min(others) = c
<1> DEFINE args == ArgumentBegins(text)
           others == args \ {Min(args)}
<1>1. /\ a \in Nat \ {0} /\ b \in Nat /\ 2 <= a /\ a <= b /\ b <= Len(text) /\ Len(text) \in Nat
      /\ b = Len(text) \/ text[b + 1] \in Space
    BY LenProperties DEF NextWord, Text
<1>2. /\ args \in SUBSET Nat
      /\ \A k \in args :
            k \in 2 .. Len(text) /\ text[k] \notin Space /\ (k = 2 \/ text[k - 1] \in Space)
      /\ \A k \in 2 .. Len(text) :
            text[k] \notin Space /\ (k = 2 \/ text[k - 1] \in Space) => k \in args
    BY ArgumentPlaces
<1>3. Min(args) = a /\ \A k \in args : k # a => k > b
    BY FirstArgument
<1>4. others \in SUBSET Nat /\ \A k \in others : k \in args /\ k > b
    BY <1>2, <1>3
<1>5. ASSUME NEW k \in args, k # a PROVE k \in others
    BY <1>3, <1>5
<1> HIDE DEF others, args
<1>6. ASSUME \A k \in b + 1 .. Len(text) : text[k] \in Space PROVE others = {}
    <2> SUFFICES ASSUME NEW k \in others PROVE FALSE
        OBVIOUS
    <2>1. k \in 2 .. Len(text) /\ text[k] \notin Space /\ k > b
        BY <1>2, <1>4
    <2>2. k \in b + 1 .. Len(text)
        BY <1>1, <2>1
    <2> QED
        BY <1>6, <2>1, <2>2
<1>7. ASSUME NEW c, NEW d, NextWord(text, b + 1, c, d) PROVE c \in others /\ Min(others) = c
    <2>1. /\ c \in Nat \ {0} /\ d \in Nat /\ b + 1 <= c /\ c <= d /\ d <= Len(text)
          /\ \A k \in b + 1 .. c - 1 : text[k] \in Space
          /\ \A k \in c .. d : text[k] \notin Space
        BY <1>7 DEF NextWord
    <2>2. c \in c .. d /\ c \in 2 .. Len(text) /\ c # a
        BY <1>1, <2>1
    <2>3. text[c - 1] \in Space
        <3>1. CASE c = b + 1
            <4>1. b # Len(text)
                BY <1>1, <2>1, <3>1
            <4>2. text[b + 1] \in Space
                BY <1>1, <4>1
            <4> QED
                BY <2>1, <2>2, <3>1, <4>2
        <3>2. CASE c # b + 1
            <4>1. c - 1 \in b + 1 .. c - 1
                BY <1>1, <2>1, <3>2
            <4> QED
                BY <2>1, <4>1
        <3> QED
            BY <3>1, <3>2
    <2>4. c \in others
        BY <1>2, <1>5, <2>1, <2>2, <2>3
    <2>5. ASSUME NEW k \in others PROVE c <= k
        <3>1. k \in 2 .. Len(text) /\ text[k] \notin Space /\ k > b
            BY <1>2, <1>4
        <3>2. ~(k \in b + 1 .. c - 1)
            BY <2>1, <3>1
        <3> QED
            BY <1>1, <2>1, <3>1, <3>2
    <2>6. Min(others) = c
        BY <1>4, <2>4, <2>5, MinIs
    <2> QED
        BY <2>4, <2>6
<1> QED
    BY <1>6, <1>7 DEF others, args

\* The text that is scanned may have more blanks at its end than the line.
LEMMA WithoutBlanks ==
    ASSUME NEW text \in Text, NEW m \in Nat \ {0}, m <= Len(text),
           \A k \in m + 1 .. Len(text) : text[k] \in Space,
           NEW i \in Nat \ {0}
    PROVE  LET part == SubSeq(text, 1, m) IN
           /\ (\A k \in i .. Len(part) : part[k] \in Space) =>
                 \A k \in i .. Len(text) : text[k] \in Space
           /\ \A a, b : NextWord(part, i, a, b) =>
                 NextWord(text, i, a, b) /\ SubSeq(text, a, b) = SubSeq(part, a, b)
<1> DEFINE part == SubSeq(text, 1, m)
<1>1. Len(text) \in Nat
    BY LenProperties DEF Text
<1>2. part \in Text /\ Len(part) = m /\ \A k \in 1 .. m : part[k] = text[k]
    BY BeginningOf
<1> HIDE DEF part
<1>3. ASSUME \A k \in i .. Len(part) : part[k] \in Space, NEW k \in i .. Len(text)
      PROVE  text[k] \in Space
    <2>1. k \in m + 1 .. Len(text) \/ (k \in i .. m /\ k \in 1 .. m)
        BY <1>1
    <2> QED
        BY <1>2, <1>3, <2>1
<1>4. ASSUME NEW a, NEW b, NextWord(part, i, a, b)
      PROVE  NextWord(text, i, a, b) /\ SubSeq(text, a, b) = SubSeq(part, a, b)
    <2>1. /\ a \in Nat \ {0} /\ b \in Nat /\ i <= a /\ a <= b /\ b <= m
          /\ \A k \in i .. a - 1 : part[k] \in Space
          /\ \A k \in a .. b : part[k] \notin Space
          /\ b = m \/ part[b + 1] \in Space
        BY <1>2, <1>4 DEF NextWord
    <2>2. \A k \in i .. a - 1 : k \in 1 .. m /\ k \in i .. a - 1
        BY <2>1
    <2>3. \A k \in a .. b : k \in 1 .. m /\ k \in a .. b
        BY <2>1
    <2>4. b = Len(text) \/ text[b + 1] \in Space
        <3>1. CASE b = m
            <4>1. b = Len(text) \/ b + 1 \in m + 1 .. Len(text)
                BY <1>1, <3>1
            <4> QED
                BY <4>1
        <3>2. CASE b # m
            <4>1. b + 1 \in 1 .. m
                BY <2>1, <3>2
            <4> QED
                BY <1>2, <2>1, <3>2, <4>1
        <3> QED
            BY <3>1, <3>2
    <2>5. /\ \A k \in i .. a - 1 : text[k] \in Space
          /\ \A k \in a .. b : text[k] \notin Space
        BY <1>2, <2>1, <2>2, <2>3
    <2>6. b <= Len(text)
        BY <1>1, <2>1
    <2>7. NextWord(text, i, a, b)
        BY <2>1, <2>4, <2>5, <2>6 DEF NextWord
    <2>8. SubSeq(part, a, b) = SubSeq(text, 1 + a - 1, 1 + b - 1)
        <3>1. 1 \in Nat \ {0} /\ b <= m - 1 + 1
            BY <2>1
        <3> QED
            BY <2>1, <3>1, PartOfPart DEF part
    <2>9. 1 + a - 1 = a /\ 1 + b - 1 = b
        BY <2>1
    <2> QED
        BY <2>7, <2>8, <2>9
<1> QED
    BY <1>3, <1>4 DEF part

\* sscanf reads the letter of a line, and its first two arguments if it has
\* them.
LEMMA TokensOfLine ==
    ASSUME NEW text \in Text, NEW m \in Nat \ {0}, m <= Len(text), text[1] \in Char \ Space,
           \A k \in m + 1 .. Len(text) : text[k] \in Space
    PROVE  LET part == SubSeq(text, 1, m)
               args == ArgumentBegins(part)
               others == args \ {Min(args)}
               path == Stretch(part, Space, Min(args))
               other == Stretch(part, Space, Min(others))
           IN  \/ args = {} /\ Tokens(text) = <<<<text[1]>>>>
               \/ Min(args) \in args /\ others = {} /\ Tokens(text) = <<<<text[1]>>, path>>
               \/ /\ Min(args) \in args /\ Min(others) \in others
                  /\ Tokens(text) = <<<<text[1]>>, path, other>>
<1> DEFINE part == SubSeq(text, 1, m)
           args == ArgumentBegins(part)
           others == args \ {Min(args)}
<1>1. Len(text) \in Nat /\ 1 <= Len(text) /\ text[1] \notin Space /\ 1 <= m /\ m \in Nat
    BY LenProperties DEF Text
<1>2. part \in Text /\ Len(part) = m
    BY BeginningOf
<1>3. SubSeq(text, 1, 1) = <<text[1]>>
    BY <1>1, OneCharacter
<1>8. 2 \in Nat \ {0}
    OBVIOUS
<1>4. /\ (\A k \in 2 .. Len(part) : part[k] \in Space) =>
            \A k \in 2 .. Len(text) : text[k] \in Space
      /\ \A a, b : NextWord(part, 2, a, b) =>
            NextWord(text, 2, a, b) /\ SubSeq(text, a, b) = SubSeq(part, a, b)
    BY <1>8, WithoutBlanks
<1> HIDE DEF part
<1>5. 2 \in Nat \ {0} /\ 2 <= Len(part) + 1
    BY <1>1, <1>2
<1>6. CASE \A k \in 2 .. Len(part) : part[k] \in Space
    <2>1. args = {}
        BY <1>2, <1>6, NoArguments
    <2>2. Tokens(text) = <<SubSeq(text, 1, 1)>>
        BY <1>1, <1>4, <1>6, OneToken
    <2> QED
        BY <1>3, <2>1, <2>2 DEF part
<1>7. CASE \E a \in 2 .. Len(part) : \E b \in a .. Len(part) : NextWord(part, 2, a, b)
    <2>1. PICK a \in 2 .. Len(part) : \E b \in a .. Len(part) : NextWord(part, 2, a, b)
        BY <1>7
    <2>2. PICK b \in a .. Len(part) : NextWord(part, 2, a, b)
        BY <2>1
    <2>9. Stretch(part, Space, a) = SubSeq(part, a, b)
        BY <1>2, <1>8, <2>2, WordIs
    <2>10. NextWord(text, 2, a, b) /\ SubSeq(text, a, b) = SubSeq(part, a, b)
        BY <1>4, <2>2
    <2>11. a \in args /\ Min(args) = a
        BY <1>2, <2>2, FirstArgument
    <2>3. Stretch(part, Space, a) = SubSeq(text, a, b)
        BY <2>9, <2>10, Zenon
    <2>4. /\ (\A k \in b + 1 .. Len(part) : part[k] \in Space) => others = {}
          /\ \A c, d : NextWord(part, b + 1, c, d) => c \in others /\ Min(others) = c
        BY <1>2, <2>2, OtherArguments
    <2>5. b + 1 \in Nat \ {0} /\ b + 1 <= Len(part) + 1
        BY <1>1, <1>2, <2>2 DEF NextWord
    <2>6. /\ (\A k \in b + 1 .. Len(part) : part[k] \in Space) =>
                \A k \in b + 1 .. Len(text) : text[k] \in Space
          /\ \A c, d : NextWord(part, b + 1, c, d) =>
                NextWord(text, b + 1, c, d) /\ SubSeq(text, c, d) = SubSeq(part, c, d)
        BY <2>5, WithoutBlanks DEF part
    <2>7. CASE \A k \in b + 1 .. Len(part) : part[k] \in Space
        <3>1. Tokens(text) = <<SubSeq(text, 1, 1), SubSeq(text, a, b)>>
            BY <1>1, <2>6, <2>7, <2>10, TwoTokens
        <3>2. others = {}
            BY <2>4, <2>7
        <3> HIDE DEF args, others
        <3>3. Tokens(text) = <<<<text[1]>>, Stretch(part, Space, Min(args))>>
            BY <1>3, <2>3, <2>11, <3>1
        <3> QED
            BY <2>11, <3>2, <3>3 DEF part, args, others
    <2>8. CASE \E c \in b + 1 .. Len(part) : \E d \in c .. Len(part) : NextWord(part, b + 1, c, d)
        <3>1. PICK c \in b + 1 .. Len(part) : \E d \in c .. Len(part) : NextWord(part, b + 1, c, d)
            BY <2>8
        <3>2. PICK d \in c .. Len(part) : NextWord(part, b + 1, c, d)
            BY <3>1
        <3>3. /\ c \in others /\ Min(others) = c
              /\ NextWord(text, b + 1, c, d)
              /\ SubSeq(text, c, d) = SubSeq(part, c, d)
            BY <2>4, <2>6, <3>2
        <3>7. Stretch(part, Space, c) = SubSeq(part, c, d)
            BY <1>2, <2>5, <3>2, WordIs
        <3>4. Stretch(part, Space, c) = SubSeq(text, c, d)
            BY <3>3, <3>7, Zenon
        <3>5. Tokens(text) = <<SubSeq(text, 1, 1), SubSeq(text, a, b), SubSeq(text, c, d)>>
            <4>1. /\ NextWord(text, 2, a, b) /\ NextWord(text, b + 1, c, d)
                  /\ 1 <= Len(text) /\ text[1] \notin Space
                BY <1>1, <2>10, <3>3, Zenon
            <4> QED
                BY <4>1, ThreeTokens
        <3> HIDE DEF args, others
        <3>6. Tokens(text) =
                  <<<<text[1]>>, Stretch(part, Space, Min(args)),
                    Stretch(part, Space, Min(others))>>
            BY <1>3, <2>3, <2>11, <3>3, <3>4, <3>5
        <3> QED
            BY <2>11, <3>3, <3>6 DEF part, args, others
    <2> QED
        BY <1>2, <2>5, <2>7, <2>8, FindWord
<1> QED
    BY <1>2, <1>5, <1>6, <1>7, FindWord DEF part

-----------------------------------------------------------------------------
\* The command a line means has its letter, and takes what it needs of the
\* arguments.
LEMMA Meant ==
    ASSUME NEW text, NEW c \in Meanings(text)
    PROVE  LET args == ArgumentBegins(text)
               others == args \ {Min(args)}
               other == Stretch(text, Space, Min(others))
           IN  /\ c.op \in DOMAIN Letter /\ text[1] = Letter[c.op] /\ args # {}
               /\ c.op = "create" =>
                     others # {} /\ \E type \in DOMAIN TypeLetter : other = <<TypeLetter[type]>>
               /\ c.op = "move" => others # {}
               /\ c.op \notin {"create", "move"} => others = {}
<1> DEFINE args == ArgumentBegins(text)
           others == args \ {Min(args)}
           Word(k) == Stretch(text, Space, k)
           words == {Word(k) : k \in args}
           simple == [op : {"search", "remove", "print"}, path : words]
           creates == [op : {"create"}, path : words, type : DOMAIN TypeLetter]
           moves == [op : {"move"}, path : words, dest : words]
           other == Word(Min(others))
           Means ==
            /\ text[1] = Letter[c.op]
            /\ c.path = Word(Min(args))
            /\ CASE c.op = "create" -> others # {} /\ other = <<TypeLetter[c.type]>>
                 [] c.op = "move" -> others # {} /\ other = c.dest
                 [] OTHER -> others = {}
<1>1. c \in simple \cup creates \cup moves /\ Means
    BY DEF Meanings
<1>2. args # {}
    <2>1. c.path \in words
        <3> HIDE DEF words
        <3> QED
            BY <1>1
    <2> QED
        BY <2>1
<1> HIDE DEF words, args, other, others
<1>3. c.op \in DOMAIN Letter /\ (c.op = "create" => c.type \in DOMAIN TypeLetter)
    <2>1. /\ c.op \in {"search", "remove", "print", "create", "move"}
          /\ c.op = "create" => c.type \in DOMAIN TypeLetter
        BY <1>1
    <2> QED
        BY <2>1 DEF Letter
<1>4. CASE c.op = "create"
    <2>1. others # {} /\ other = <<TypeLetter[c.type]>>
        BY <1>1, <1>4
    <2> QED
        BY <1>1, <1>2, <1>3, <1>4, <2>1 DEF others, args, other
<1>5. CASE c.op = "move"
    <2>1. others # {}
        BY <1>1, <1>5
    <2> QED
        BY <1>1, <1>2, <1>3, <1>5, <2>1 DEF others, args, other
<1>6. CASE c.op \notin {"create", "move"}
    <2>1. others = {}
        BY <1>1, <1>6
    <2> QED
        BY <1>1, <1>2, <1>3, <1>6, <2>1 DEF others, args, other
<1> QED
    BY <1>4, <1>5, <1>6

\* And a line with that letter and those arguments means that command.
LEMMA Means ==
    ASSUME NEW text, NEW op \in DOMAIN Letter, text[1] = Letter[op],
           Min(ArgumentBegins(text)) \in ArgumentBegins(text)
    PROVE  LET args == ArgumentBegins(text)
               others == args \ {Min(args)}
               path == Stretch(text, Space, Min(args))
               other == Stretch(text, Space, Min(others))
           IN  /\ op \notin {"create", "move"} /\ others = {} =>
                     [op |-> op, path |-> path] \in Meanings(text)
               /\ op = "move" /\ Min(others) \in others =>
                     [op |-> op, path |-> path, dest |-> other] \in Meanings(text)
               /\ \A type \in DOMAIN TypeLetter :
                     op = "create" /\ Min(others) \in others /\ other = <<TypeLetter[type]>> =>
                         [op |-> op, path |-> path, type |-> type] \in Meanings(text)
<1> DEFINE args == ArgumentBegins(text)
           others == args \ {Min(args)}
           Word(k) == Stretch(text, Space, k)
           words == {Word(k) : k \in args}
           path == Word(Min(args))
           other == Word(Min(others))
           Fits(c) ==
            /\ text[1] = Letter[c.op]
            /\ c.path = path
            /\ CASE c.op = "create" -> others # {} /\ other = <<TypeLetter[c.type]>>
                 [] c.op = "move" -> others # {} /\ other = c.dest
                 [] OTHER -> others = {}
<1>1. \A c \in [op : {"search", "remove", "print"}, path : words]
                    \cup [op : {"create"}, path : words, type : DOMAIN TypeLetter]
                    \cup [op : {"move"}, path : words, dest : words] :
          Fits(c) => c \in Meanings(text)
    BY DEF Meanings
<1>2. path \in words /\ (Min(others) \in others => other \in words)
    OBVIOUS
<1> HIDE DEF words, args, others, path, other
<1>3. ASSUME op \notin {"create", "move"}, others = {}
      PROVE  [op |-> op, path |-> path] \in Meanings(text)
    <2> DEFINE c == [op |-> op, path |-> path]
    <2>1. op \in {"search", "remove", "print"}
        BY <1>3 DEF Letter
    <2>2. c \in [op : {"search", "remove", "print"}, path : words]
        BY <1>2, <2>1
    <2>3. c.op = op /\ c.path = path
        OBVIOUS
    <2> HIDE DEF c
    <2>4. Fits(c)
        BY <1>3, <2>3
    <2> QED
        BY <1>1, <2>2, <2>4 DEF c
<1>4. ASSUME op = "move", Min(others) \in others
      PROVE  [op |-> op, path |-> path, dest |-> other] \in Meanings(text)
    <2> DEFINE c == [op |-> op, path |-> path, dest |-> other]
    <2>1. c \in [op : {"move"}, path : words, dest : words]
        BY <1>2, <1>4
    <2>2. c.op = op /\ c.path = path /\ c.dest = other /\ others # {}
        BY <1>4
    <2> HIDE DEF c
    <2>3. Fits(c)
        BY <1>4, <2>2
    <2> QED
        BY <1>1, <2>1, <2>3 DEF c
<1>5. ASSUME NEW type \in DOMAIN TypeLetter, op = "create", Min(others) \in others,
             other = <<TypeLetter[type]>>
      PROVE  [op |-> op, path |-> path, type |-> type] \in Meanings(text)
    <2> DEFINE c == [op |-> op, path |-> path, type |-> type]
    <2>1. c \in [op : {"create"}, path : words, type : DOMAIN TypeLetter]
        BY <1>2, <1>5
    <2>2. c.op = op /\ c.path = path /\ c.type = type /\ others # {}
        BY <1>5
    <2> HIDE DEF c
    <2>3. Fits(c)
        BY <1>5, <2>2
    <2> QED
        BY <1>1, <2>1, <2>3 DEF c
<1> QED
    BY <1>3, <1>4, <1>5 DEF words, args, others, path, other

\* The error of tokens with a known letter, and the command of those without
\* error.
LEMMA KnownLetter ==
    ASSUME NEW op \in DOMAIN Letter, NEW tokens, tokens # <<>>, tokens[1] = <<Letter[op]>>
    PROVE  /\ ParseError(tokens) # "ReadLine"
           /\ ParseError(tokens) = "none" <=>
                 Len(tokens) = Needed[op] /\ (op = "create" => Types(tokens[3]) # {})
           /\ op \notin {"create", "move"} =>
                 Parsed(tokens) = [op |-> op, path |-> tokens[2]]
           /\ op = "move" => Parsed(tokens) = [op |-> op, path |-> tokens[2], dest |-> tokens[3]]
           /\ \A type \in DOMAIN TypeLetter :
                 op = "create" /\ tokens[3] = <<TypeLetter[type]>> =>
                     Parsed(tokens) = [op |-> op, path |-> tokens[2], type |-> type]
<1>1. Operations(tokens) = {op}
    BY OperationIs
<1>2. /\ ParseError(tokens) # "ReadLine"
      /\ ParseError(tokens) = "none" <=>
            Len(tokens) = Needed[op] /\ (op = "create" => Types(tokens[3]) # {})
    <2>1. CASE Len(tokens) # Needed[op]
        <3>2. ~(Operations(tokens) = {"create"} /\ Len(tokens) = 3)
            <4>1. op = "create" => Needed[op] = 3
                BY DEF Needed
            <4>2. {op} = {"create"} => op = "create"
                OBVIOUS
            <4> QED
                BY <1>1, <2>1, <4>1, <4>2
        <3>1. ParseError(tokens) = "MissingArgs"
            BY <1>1, <2>1, <3>2 DEF ParseError
        <3> QED
            BY <2>1, <3>1
    <2>2. CASE Len(tokens) = Needed[op] /\ op = "create"
        <3>1. Needed[op] = 3 /\ Operations(tokens) = {"create"} /\ Len(tokens) = 3
            BY <1>1, <2>2 DEF Needed
        <3>2. ParseError(tokens) = IF Types(tokens[3]) = {} THEN "InvalidType" ELSE "none"
            BY <1>1, <2>2, <3>1 DEF ParseError
        <3> QED
            BY <2>2, <3>2
    <2>3. CASE Len(tokens) = Needed[op] /\ op # "create"
        <3>1. Operations(tokens) # {"create"}
            BY <1>1, <2>3
        <3>2. ParseError(tokens) = "none"
            BY <1>1, <2>3, <3>1 DEF ParseError
        <3> QED
            BY <2>3, <3>2
    <2> QED
        BY <2>1, <2>2, <2>3
<1>3. (CHOOSE other \in Operations(tokens) : TRUE) = op
    BY <1>1
<1>4. op \notin {"create", "move"} => Parsed(tokens) = [op |-> op, path |-> tokens[2]]
    BY <1>3 DEF Parsed
<1>5. op = "move" => Parsed(tokens) = [op |-> op, path |-> tokens[2], dest |-> tokens[3]]
    BY <1>3 DEF Parsed
<1>6. ASSUME NEW type \in DOMAIN TypeLetter, op = "create", tokens[3] = <<TypeLetter[type]>>
      PROVE  Parsed(tokens) = [op |-> op, path |-> tokens[2], type |-> type]
    <2>1. (CHOOSE other \in Types(tokens[3]) : TRUE) = type
        BY <1>6, TypeIs
    <2> QED
        BY <1>3, <1>6, <2>1 DEF Parsed
<1> QED
    BY <1>2, <1>4, <1>5, <1>6

\* The parser makes the command of a line that the line means, if it means
\* one; and it says of no other line than one of unknown letter that it could
\* not be read.
LEMMA LineMeans ==
    ASSUME NEW text \in Text, NEW m \in Nat \ {0}, m <= Len(text), text[1] \in Char \ Space,
           \A k \in m + 1 .. Len(text) : text[k] \in Space
    PROVE  LET part == SubSeq(text, 1, m)
               tokens == Tokens(text)
           IN  /\ ParseError(tokens) = "none" => Parsed(tokens) \in Meanings(part)
               /\ ParseError(tokens) # "none" => Meanings(part) = {}
               /\ ParseError(tokens) = "ReadLine" <=> \A op \in DOMAIN Letter : text[1] # Letter[op]
<1> DEFINE part == SubSeq(text, 1, m)
           tokens == Tokens(text)
           args == ArgumentBegins(part)
           others == args \ {Min(args)}
           path == Stretch(part, Space, Min(args))
           other == Stretch(part, Space, Min(others))
<1>1. part[1] = text[1]
    <2>1. 1 \in 1 .. m
        OBVIOUS
    <2> QED
        BY <2>1, BeginningOf
<1>2. \/ args = {} /\ tokens = <<<<text[1]>>>>
      \/ Min(args) \in args /\ others = {} /\ tokens = <<<<text[1]>>, path>>
      \/ /\ Min(args) \in args /\ Min(others) \in others
         /\ tokens = <<<<text[1]>>, path, other>>
    BY TokensOfLine
<1>3. ASSUME NEW c \in Meanings(part)
      PROVE  /\ c.op \in DOMAIN Letter /\ text[1] = Letter[c.op] /\ args # {}
             /\ c.op = "create" =>
                   others # {} /\ \E type \in DOMAIN TypeLetter : other = <<TypeLetter[type]>>
             /\ c.op = "move" => others # {}
             /\ c.op \notin {"create", "move"} => others = {}
    BY <1>1, Meant
<1>4. ASSUME NEW op \in DOMAIN Letter, text[1] = Letter[op], Min(args) \in args
      PROVE  /\ op \notin {"create", "move"} /\ others = {} =>
                   [op |-> op, path |-> path] \in Meanings(part)
             /\ op = "move" /\ Min(others) \in others =>
                   [op |-> op, path |-> path, dest |-> other] \in Meanings(part)
             /\ \A type \in DOMAIN TypeLetter :
                   op = "create" /\ Min(others) \in others /\ other = <<TypeLetter[type]>> =>
                       [op |-> op, path |-> path, type |-> type] \in Meanings(part)
    BY <1>1, <1>4, Means
<1> HIDE DEF part, tokens, args, others, path, other
<1>5. tokens # <<>> /\ tokens[1] = <<text[1]>>
    BY <1>2
<1>6. CASE \A op \in DOMAIN Letter : text[1] # Letter[op]
    <2>1. Meanings(part) = {}
        BY <1>3, <1>6
    <2>2. Operations(tokens) = {}
        <3>1. \A op \in DOMAIN Letter : tokens[1] # <<Letter[op]>>
            BY <1>5, <1>6
        <3> QED
            BY <3>1 DEF Operations
    <2>3. ParseError(tokens) = "ReadLine"
        BY <1>5, <2>2 DEF ParseError
    <2> QED
        BY <1>6, <2>1, <2>3 DEF part, tokens
<1>7. CASE \E op \in DOMAIN Letter : text[1] = Letter[op]
    <2>1. PICK op \in DOMAIN Letter : text[1] = Letter[op]
        BY <1>7
    <2>2. tokens[1] = <<Letter[op]>>
        BY <1>5, <2>1
    <2>3. /\ ParseError(tokens) # "ReadLine"
          /\ ParseError(tokens) = "none" <=>
                Len(tokens) = Needed[op] /\ (op = "create" => Types(tokens[3]) # {})
          /\ op \notin {"create", "move"} =>
                Parsed(tokens) = [op |-> op, path |-> tokens[2]]
          /\ op = "move" => Parsed(tokens) = [op |-> op, path |-> tokens[2], dest |-> tokens[3]]
          /\ \A type \in DOMAIN TypeLetter :
                op = "create" /\ tokens[3] = <<TypeLetter[type]>> =>
                    Parsed(tokens) = [op |-> op, path |-> tokens[2], type |-> type]
        BY <1>5, <2>2, KnownLetter
    <2>4. \A c \in Meanings(part) : c.op = op
        <3>1. \A other_op \in DOMAIN Letter : Letter[other_op] = Letter[op] => other_op = op
            BY DEF Letter
        <3> QED
            BY <1>3, <2>1, <3>1
    <2>5. Needed[op] = IF op \in {"create", "move"} THEN 3 ELSE 2
        BY DEF Needed, Letter
    <2>6. /\ ParseError(tokens) = "none" => Parsed(tokens) \in Meanings(part)
          /\ ParseError(tokens) # "none" => Meanings(part) = {}
        <3>1. CASE args = {} /\ tokens = <<<<text[1]>>>>
            <4>1. Len(tokens) = 1
                BY <3>1
            <4>2. ParseError(tokens) # "none"
                BY <2>3, <2>5, <4>1
            <4> QED
                BY <1>3, <3>1, <4>2
        <3>2. CASE Min(args) \in args /\ others = {} /\ tokens = <<<<text[1]>>, path>>
            <4>1. Len(tokens) = 2 /\ tokens[2] = path
                BY <3>2
            <4>2. CASE op \in {"create", "move"}
                <5>1. ParseError(tokens) # "none"
                    BY <2>3, <2>5, <4>1, <4>2
                <5>2. Meanings(part) = {}
                    BY <1>3, <2>4, <3>2, <4>2
                <5> QED
                    BY <5>1, <5>2
            <4>3. CASE op \notin {"create", "move"}
                <5>1. Parsed(tokens) \in Meanings(part)
                    BY <1>4, <2>1, <2>3, <3>2, <4>1, <4>3
                <5>2. ParseError(tokens) = "none"
                    BY <2>3, <2>5, <4>1, <4>3
                <5> QED
                    BY <5>1, <5>2
            <4> QED
                BY <4>2, <4>3
        <3>3. CASE /\ Min(args) \in args /\ Min(others) \in others
                   /\ tokens = <<<<text[1]>>, path, other>>
            <4>1. Len(tokens) = 3 /\ tokens[2] = path /\ tokens[3] = other
                BY <3>3
            <4>2. CASE op \notin {"create", "move"}
                <5>1. ParseError(tokens) # "none"
                    BY <2>3, <2>5, <4>1, <4>2
                <5>2. Meanings(part) = {}
                    BY <1>3, <2>4, <3>3, <4>2
                <5> QED
                    BY <5>1, <5>2
            <4>3. CASE op = "move"
                <5>1. Parsed(tokens) \in Meanings(part)
                    BY <1>4, <2>1, <2>3, <3>3, <4>1, <4>3
                <5>2. ParseError(tokens) = "none"
                    BY <2>3, <2>5, <4>1, <4>3
                <5> QED
                    BY <5>1, <5>2
            <4>4. CASE op = "create" /\ Types(other) = {}
                <5>1. ParseError(tokens) # "none"
                    BY <2>3, <4>1, <4>4
                <5>2. ASSUME NEW c \in Meanings(part) PROVE FALSE
                    <6>1. PICK type \in DOMAIN TypeLetter : other = <<TypeLetter[type]>>
                        BY <1>3, <2>4, <4>4
                    <6>2. Types(other) = {type}
                        BY <6>1, TypeIs
                    <6> QED
                        BY <4>4, <6>2
                <5> QED
                    BY <5>1, <5>2
            <4>5. CASE op = "create" /\ Types(other) # {}
                <5>1. PICK type \in DOMAIN TypeLetter : other = <<TypeLetter[type]>>
                    BY <4>5 DEF Types
                <5>2. Parsed(tokens) = [op |-> op, path |-> path, type |-> type]
                    BY <2>3, <4>1, <4>5, <5>1
                <5>3. Parsed(tokens) \in Meanings(part)
                    BY <1>4, <2>1, <3>3, <4>5, <5>1, <5>2
                <5>4. ParseError(tokens) = "none"
                    BY <2>3, <2>5, <4>1, <4>5
                <5> QED
                    BY <5>3, <5>4
            <4> QED
                BY <4>2, <4>3, <4>4, <4>5
        <3> QED
            BY <1>2, <3>1, <3>2, <3>3
    <2> QED
        BY <2>1, <2>3, <2>6 DEF part, tokens
<1> QED
    BY <1>6, <1>7

-----------------------------------------------------------------------------
\* How many of some places there are up to one.
LEMMA CountOneMore ==
    ASSUME NEW S, IsFiniteSet(S), S \in SUBSET Nat, NEW pos, NEW q, NEW u,
           u \notin {j \in S : j <= pos}, {j \in S : j <= q} = {j \in S : j <= pos} \cup {u}
    PROVE  UpTo(S, pos) \in Nat /\ UpTo(S, q) = UpTo(S, pos) + 1
<1>1. IsFiniteSet({j \in S : j <= pos})
    BY FS_Subset
<1> QED
    BY <1>1, FS_AddElement, FS_CardinalityType DEF UpTo

LEMMA CountsDiffer ==
    ASSUME NEW S, IsFiniteSet(S), S \in SUBSET Nat, NEW j \in S, NEW k \in S,
           UpTo(S, j) = UpTo(S, k)
    PROVE  j = k
<1>1. ASSUME NEW a \in S, NEW b \in S, a < b PROVE UpTo(S, a) # UpTo(S, b)
    <2> DEFINE A == {i \in S : i <= a}
               B == {i \in S : i <= b}
    <2>1. \A i \in S : i \in Nat
        OBVIOUS
    <2>2. \A i \in S : i <= a => i <= b
        BY <1>1, <2>1
    <2>3. b \in B /\ b \notin A
        BY <1>1, <2>1
    <2>4. A \subseteq B /\ A # B /\ B \subseteq S
        BY <2>2, <2>3
    <2>5. IsFiniteSet(B)
        BY <2>4, FS_Subset
    <2> HIDE DEF A, B
    <2>6. Cardinality(A) < Cardinality(B) /\ Cardinality(A) \in Nat /\ Cardinality(B) \in Nat
        <3>1. /\ IsFiniteSet(A) /\ Cardinality(A) <= Cardinality(B)
              /\ Cardinality(A) = Cardinality(B) => A = B
            BY <2>4, <2>5, FS_Subset
        <3>2. Cardinality(A) \in Nat /\ Cardinality(B) \in Nat
            BY <2>5, <3>1, FS_CardinalityType
        <3> QED
            BY <2>4, <3>1, <3>2
    <2> QED
        BY <2>6 DEF A, B, UpTo
<1>2. ~(j < k) /\ ~(k < j)
    BY <1>1
<1>3. j \in Nat /\ k \in Nat
    OBVIOUS
<1> QED
    BY <1>2, <1>3

LEMMA CountsBound ==
    ASSUME NEW S, IsFiniteSet(S), NEW k
    PROVE  /\ UpTo(S, k) \in Nat /\ Cardinality(S) \in Nat
           /\ UpTo(S, k) <= Cardinality(S)
           /\ (\A j \in S : j <= k) => UpTo(S, k) = Cardinality(S)
<1> DEFINE A == {j \in S : j <= k}
<1>1. A \subseteq S /\ IsFiniteSet(A)
    BY FS_Subset
<1>2. (\A j \in S : j <= k) => A = S
    OBVIOUS
<1> HIDE DEF A
<1>3. /\ Cardinality(A) \in Nat /\ Cardinality(S) \in Nat
      /\ Cardinality(A) <= Cardinality(S)
    BY <1>1, FS_Subset, FS_CardinalityType
<1> QED
    BY <1>2, <1>3 DEF A, UpTo

LEMMA BeginsFinite ==
    ASSUME NEW text \in Text
    PROVE  /\ LineBegins(text) \in SUBSET (1 .. Len(text)) /\ LineBegins(text) \in SUBSET Nat
           /\ IsFiniteSet(LineBegins(text))
           /\ CommandBegins(text) \subseteq LineBegins(text)
           /\ CommandBegins(text) \in SUBSET Nat /\ IsFiniteSet(CommandBegins(text))
<1>1. Len(text) \in Nat
    BY LenProperties DEF Text
<1>2. LineBegins(text) \in SUBSET (1 .. Len(text))
    BY DEF LineBegins, Solid
<1>3. CommandBegins(text) \subseteq LineBegins(text)
    BY DEF CommandBegins
<1>4. IsFiniteSet(1 .. Len(text))
    BY <1>1, FS_Interval
<1>5. IsFiniteSet(LineBegins(text)) /\ IsFiniteSet(CommandBegins(text))
    BY <1>2, <1>3, <1>4, FS_Subset
<1>6. \A k \in 1 .. Len(text) : k \in Nat
    BY <1>1
<1> QED
    BY <1>2, <1>3, <1>5, <1>6

\* Reading on from the place pos to q, over the line at u.
Counted(text, pos, u, q) ==
    LET lines == LineBegins(text)
        begins == CommandBegins(text)
    IN  /\ UpTo(lines, q) = UpTo(lines, pos) + 1 /\ UpTo(lines, u) = UpTo(lines, q)
        /\ text[u] = "#" => UpTo(begins, q) = UpTo(begins, pos)
        /\ text[u] # "#" =>
              /\ u \in begins /\ UpTo(begins, q) = UpTo(begins, pos) + 1
              /\ UpTo(begins, u) = UpTo(begins, q)

LEMMA AdvanceCounts ==
    ASSUME NEW text \in Text, NEW pos \in Nat, pos <= Len(text), Breaks(text, pos),
           NEW u \in Nat, NEW p \in Nat, LineIs(text, pos, u, p),
           NEW q \in {p, p + 1}, q <= Len(text), q = p + 1 => text[q] = "\n"
    PROVE  Counted(text, pos, u, q)
<1> DEFINE lines == LineBegins(text)
           begins == CommandBegins(text)
<1>2. /\ u \in lines /\ u \notin {j \in lines : j <= pos}
      /\ {j \in lines : j <= q} = {j \in lines : j <= pos} \cup {u}
      /\ {j \in lines : j <= u} = {j \in lines : j <= pos} \cup {u}
    BY Advance
<1>3. /\ lines \in SUBSET Nat /\ IsFiniteSet(lines)
      /\ begins \in SUBSET Nat /\ IsFiniteSet(begins)
    BY BeginsFinite
<1>4. \A j : j \in begins <=> j \in lines /\ text[j] # "#"
    BY DEF CommandBegins
<1> HIDE DEF lines, begins
<1>5. UpTo(lines, q) = UpTo(lines, pos) + 1
    BY <1>2, <1>3, CountOneMore
<1>6. UpTo(lines, u) = UpTo(lines, q)
    BY <1>2 DEF UpTo
<1>7. ASSUME text[u] = "#" PROVE UpTo(begins, q) = UpTo(begins, pos)
    <2>1. {j \in begins : j <= q} = {j \in begins : j <= pos}
        BY <1>2, <1>4, <1>7
    <2> QED
        BY <2>1 DEF UpTo
<1>8. ASSUME text[u] # "#"
      PROVE  /\ u \in begins /\ UpTo(begins, q) = UpTo(begins, pos) + 1
             /\ UpTo(begins, u) = UpTo(begins, q)
    <2>1. u \in begins /\ u \notin {j \in begins : j <= pos}
        BY <1>2, <1>4, <1>8
    <2>2. /\ {j \in begins : j <= q} = {j \in begins : j <= pos} \cup {u}
          /\ {j \in begins : j <= u} = {j \in begins : j <= pos} \cup {u}
        BY <1>2, <1>4, <1>8
    <2>3. UpTo(begins, q) = UpTo(begins, pos) + 1 /\ UpTo(begins, u) = UpTo(begins, pos) + 1
        BY <1>3, <2>1, <2>2, CountOneMore
    <2> QED
        BY <2>1, <2>3
<1> QED
    BY <1>5, <1>6, <1>7, <1>8 DEF Counted, lines, begins

-----------------------------------------------------------------------------
\* A turn of process_input reads one line, from a place that is inside of no
\* line to another one.
LEMMA WholeText == whole \in Seq(Char) => whole \in Text
<1>1. \A text \in Seq(Char) : text \in Seq(Byte)
    <2> SUFFICES ASSUME NEW text \in Seq(Char) PROVE text \in Seq(Byte)
        OBVIOUS
    <2>1. Len(text) \in Nat /\ \A k \in 1 .. Len(text) : text[k] \in Byte
        BY LenProperties, ElementOfSeq DEF Byte
    <2>2. text = [k \in 1 .. Len(text) |-> text[k]]
        BY SeqDef
    <2> QED
        BY <2>1, <2>2, SeqDef
<1> QED
    BY <1>1 DEF Text

LEMMA ReadsComment ==
    ASSUME whole \in Seq(Char), NEW pos \in Nat, pos <= Len(whole),
           file = From(whole, pos + 1), Breaks(whole, pos), Unread # <<>>
    PROVE  \E u \in 1 .. Len(whole), q \in 0 .. Len(whole) :
              /\ Head(Unread) = whole[u]
              /\ From(Unread, Len(Through(Unread, {"\n"})) + 1) = From(whole, q + 1)
              /\ Breaks(whole, q) /\ Counted(whole, pos, u, q)
<1>1. whole \in Text /\ Len(whole) \in Nat
    BY WholeText, LenProperties
<1>20. PICK u \in pos + 1 .. Len(whole) : \E p \in u .. Len(whole) :
           LineIs(whole, pos, u, p) /\ Unread = From(whole, u)
    BY <1>1, FindLine DEF Unread
<1>2. PICK p \in u .. Len(whole) : LineIs(whole, pos, u, p) /\ Unread = From(whole, u)
    BY <1>20
<1>3. /\ u \in Nat \ {0} /\ p \in Nat /\ u <= p /\ p <= Len(whole) /\ u \in 1 .. Len(whole)
    BY <1>1, <1>2
<1> DEFINE q == IF p = Len(whole) THEN p ELSE p + 1
<1>4. /\ Through(Unread, {"\n"}) = SubSeq(whole, u, q)
      /\ Head(Unread) = whole[u]
      /\ q <= Len(whole) /\ Breaks(whole, q)
    BY <1>1, <1>2, LineScans
<1>5. q \in {p, p + 1} /\ q \in Nat /\ u <= q /\ (q = p + 1 => whole[q] = "\n")
    BY <1>2, <1>3 DEF LineIs
<1> HIDE DEF q
<1>6. From(Unread, Len(Through(Unread, {"\n"})) + 1) = From(whole, q + 1)
    BY <1>1, <1>2, <1>3, <1>4, <1>5, RestAfter
<1>7. Counted(whole, pos, u, q)
    BY <1>1, <1>2, <1>4, <1>5, AdvanceCounts
<1>8. q \in 0 .. Len(whole)
    BY <1>1, <1>4, <1>5
<1> QED
    BY <1>3, <1>4, <1>6, <1>7, <1>8

LEMMA ReadsLine ==
    ASSUME whole \in Seq(Char), LinesFit(whole), NEW pos \in Nat, pos <= Len(whole),
           file = From(whole, pos + 1), Breaks(whole, pos), Unread # <<>>
    PROVE  \E u \in 1 .. Len(whole), q \in 0 .. Len(whole) :
              /\ Head(Unread) = whole[u]
              /\ From(Unread, Len(NextLine) + 1) = From(whole, q + 1)
              /\ Breaks(whole, q) /\ Counted(whole, pos, u, q)
              /\ ParseError(Tokens(NextLine)) = "none" =>
                    Parsed(Tokens(NextLine)) \in MeaningsAt(whole, u)
              /\ ParseError(Tokens(NextLine)) # "none" => MeaningsAt(whole, u) = {}
              /\ ParseError(Tokens(NextLine)) = "ReadLine" <=>
                    \A op \in DOMAIN Letter : whole[u] # Letter[op]
<1>1. whole \in Text /\ Len(whole) \in Nat
    BY WholeText, LenProperties
<1>20. PICK u \in pos + 1 .. Len(whole) : \E p \in u .. Len(whole) :
           LineIs(whole, pos, u, p) /\ Unread = From(whole, u)
    BY <1>1, FindLine DEF Unread
<1>2. PICK p \in u .. Len(whole) : LineIs(whole, pos, u, p) /\ Unread = From(whole, u)
    BY <1>20
<1>3. /\ u \in Nat \ {0} /\ p \in Nat /\ u <= p /\ p <= Len(whole) /\ u \in 1 .. Len(whole)
    BY <1>1, <1>2
<1>4. Head(Unread) = whole[u] /\ Stretch(whole, {"\n"}, u) = SubSeq(whole, u, p)
    BY <1>1, <1>2, LineScans
<1>5. p - u + 1 < LineSize
    BY <1>2, <1>3 DEF LinesFit, LineIs
<1>6. PICK q \in {p, p + 1} :
          /\ q <= Len(whole) /\ Breaks(whole, q)
          /\ q = p + 1 => whole[q] = "\n"
          /\ FirstLine(From(whole, u)) = SubSeq(whole, u, q)
          /\ From(From(whole, u), Len(SubSeq(whole, u, q)) + 1) = From(whole, q + 1)
    BY <1>1, <1>2, <1>5, LineHeld
<1>7. q \in Nat /\ u <= q /\ q \in 0 .. Len(whole)
    BY <1>1, <1>3, <1>6
<1>8. NextLine = SubSeq(whole, u, q) /\ From(Unread, Len(NextLine) + 1) = From(whole, q + 1)
    BY <1>2, <1>6 DEF NextLine
<1>9. Counted(whole, pos, u, q)
    <2>1. /\ u \in Nat /\ p \in Nat /\ q \in {p, p + 1} /\ q <= Len(whole)
          /\ q = p + 1 => whole[q] = "\n"
          /\ LineIs(whole, pos, u, p)
        BY <1>2, <1>3, <1>6
    <2> QED
        BY <1>1, <2>1, AdvanceCounts
<1> DEFINE read == SubSeq(whole, u, q)
           m == p - u + 1
<1>10. /\ read \in Text /\ Len(read) = q - u + 1
       /\ \A k \in 1 .. q - u + 1 : read[k] = whole[u + k - 1]
    BY <1>1, <1>3, <1>6, <1>7, PartOf
<1>11. /\ m \in Nat \ {0} /\ m <= Len(read)
       /\ u + 1 - 1 = u /\ u + m - 1 = p /\ m <= q - u + 1 /\ 1 \in 1 .. q - u + 1
    BY <1>3, <1>6, <1>7, <1>10
<1>12. SubSeq(read, 1, m) = SubSeq(whole, u, p)
    <2> HIDE DEF m
    <2>1. SubSeq(read, 1, m) = SubSeq(whole, u + 1 - 1, u + m - 1)
        BY <1>1, <1>3, <1>6, <1>7, <1>11, PartOfPart
    <2> QED
        BY <1>11, <2>1
<1>13. read[1] = whole[u] /\ whole[u] \in Char \ Space
    <2>1. whole[u] \in Char
        BY <1>3, ElementOfSeq
    <2>2. read[1] = whole[u]
        BY <1>10, <1>11
    <2> QED
        BY <1>2, <2>1, <2>2 DEF LineIs
<1>14. ASSUME NEW k \in m + 1 .. Len(read) PROVE read[k] \in Space
    <2>1. q = p + 1 /\ k = m + 1 /\ k \in 1 .. q - u + 1 /\ u + k - 1 = q
        BY <1>3, <1>6, <1>7, <1>10
    <2>2. read[k] = "\n"
        BY <1>6, <1>10, <2>1
    <2> QED
        BY <2>2 DEF Space
<1> HIDE DEF read, m
<1>15. /\ ParseError(Tokens(read)) = "none" => Parsed(Tokens(read)) \in Meanings(SubSeq(read, 1, m))
       /\ ParseError(Tokens(read)) # "none" => Meanings(SubSeq(read, 1, m)) = {}
       /\ ParseError(Tokens(read)) = "ReadLine" <=> \A op \in DOMAIN Letter : read[1] # Letter[op]
    BY <1>10, <1>11, <1>13, <1>14, LineMeans
<1>16. Meanings(SubSeq(read, 1, m)) = MeaningsAt(whole, u) /\ NextLine = read
    BY <1>4, <1>8, <1>12 DEF MeaningsAt, read
<1> QED
    BY <1>3, <1>4, <1>6, <1>7, <1>8, <1>9, <1>13, <1>15, <1>16

\* The place counts itself.
LEMMA CountsItself ==
    ASSUME NEW S, IsFiniteSet(S), S \in SUBSET Nat, NEW k \in S
    PROVE  UpTo(S, k) \in 1 .. Cardinality(S)
<1> DEFINE A == {j \in S : j <= k}
<1>1. UpTo(S, k) \in Nat /\ Cardinality(S) \in Nat /\ UpTo(S, k) <= Cardinality(S)
    BY CountsBound
<1>2. k \in A /\ IsFiniteSet(A)
    <2>1. k \in Nat
        OBVIOUS
    <2> QED
        BY <2>1, FS_Subset
<1>3. Cardinality(A) # 0
    BY <1>2, FS_EmptySet
<1> QED
    BY <1>1, <1>3 DEF UpTo

-----------------------------------------------------------------------------
\* Of the lines up to a place the client has sent the commands, each line
\* counted; the last of them, when the program failed, was none.
ReadUpTo(pos) ==
    /\ file = From(whole, pos + 1)
    /\ Breaks(whole, pos)
    /\ UpTo(CommandBegins(whole), pos) = Len(asked) + (IF status = "failed" THEN 1 ELSE 0)
    /\ line = UpTo(LineBegins(whole), pos) + (IF status \in {"reading", "ended"} THEN 1 ELSE 0)
    /\ status = "ended" => pos = Len(whole)
    /\ status = "failed" =>
          \E k \in CommandBegins(whole) :
              /\ UpTo(CommandBegins(whole), k) = UpTo(CommandBegins(whole), pos)
              /\ UpTo(LineBegins(whole), k) = UpTo(LineBegins(whole), pos)
              /\ MeaningsAt(whole, k) = {}
              /\ reported = "ReadLine" <=> \A op \in DOMAIN Letter : whole[k] # Letter[op]

SentAsMeant ==
    \A k \in CommandBegins(whole) :
        UpTo(CommandBegins(whole), k) <= Len(asked) =>
            asked[UpTo(CommandBegins(whole), k)] \in MeaningsAt(whole, k)

FileInv ==
    /\ whole \in Seq(Char)
    /\ status \in {"reading", "waiting", "ended", "failed"}
    /\ whole = <<>> => file = <<>> /\ status # "failed"
    /\ LinesFit(whole) /\ whole # <<>> =>
          SentAsMeant /\ \E pos \in 0 .. Len(whole) : ReadUpTo(pos)

\* Nothing is read of an empty file.
LEMMA NothingUnread ==
    ASSUME file = <<>>
    PROVE  Unread = <<>>
<1>1. <<>> \in Text /\ Len(<<>>) = 0
    BY EmptySeq DEF Text
<1>2. \A j \in 1 .. Len(<<>>) : <<>>[j] \notin Byte \ Space
    BY <1>1
<1>3. FirstIn(<<>>, Byte \ Space) = 0
    BY <1>1, <1>2, FirstInNone
<1> QED
    BY <1>3 DEF Unread, AfterSpace

LEMMA FileStarts == Init => FileInv
<1> SUFFICES ASSUME Init PROVE FileInv
    OBVIOUS
<1>1. /\ whole \in Seq(Char) /\ file = whole /\ line = 1 /\ asked = <<>> /\ status = "reading"
    BY WireAssumption DEF Init
<1>2. whole \in Text /\ Len(whole) \in Nat /\ Len(asked) = 0
    BY <1>1, WholeText, LenProperties
<1>3. /\ IsFiniteSet(LineBegins(whole)) /\ IsFiniteSet(CommandBegins(whole))
      /\ LineBegins(whole) \in SUBSET (1 .. Len(whole))
      /\ CommandBegins(whole) \subseteq LineBegins(whole)
    BY <1>2, BeginsFinite
<1>4. UpTo(LineBegins(whole), 0) = 0 /\ UpTo(CommandBegins(whole), 0) = 0
    <2>1. \A j \in 1 .. Len(whole) : ~(j <= 0)
        BY <1>2
    <2>2. /\ {j \in LineBegins(whole) : j <= 0} = {}
          /\ {j \in CommandBegins(whole) : j <= 0} = {}
        BY <1>3, <2>1
    <2> QED
        BY <2>2, FS_EmptySet DEF UpTo
<1>5. file = From(whole, 1)
    <2>1. SubSeq(whole, 1, Len(whole)) = whole
        BY <1>1, <1>2, SubSeqFull
    <2> QED
        BY <1>1, <2>1 DEF From
<1>6. ReadUpTo(0)
    BY <1>1, <1>2, <1>4, <1>5 DEF ReadUpTo, Breaks
<1>7. SentAsMeant
    <2>1. \A k \in CommandBegins(whole) : UpTo(CommandBegins(whole), k) \in Nat \ {0}
        <3>1. CommandBegins(whole) \in SUBSET Nat /\ IsFiniteSet(CommandBegins(whole))
            BY <1>2, BeginsFinite
        <3>2. Cardinality(CommandBegins(whole)) \in Nat
            BY <3>1, FS_CardinalityType
        <3>3. \A k \in CommandBegins(whole) :
                  UpTo(CommandBegins(whole), k) \in 1 .. Cardinality(CommandBegins(whole))
            BY <3>1, CountsItself
        <3> QED
            BY <3>2, <3>3
    <2>2. \A k \in CommandBegins(whole) : ~(UpTo(CommandBegins(whole), k) <= 0)
        BY <2>1
    <2> QED
        BY <1>2, <2>2 DEF SentAsMeant
<1>8. 0 \in 0 .. Len(whole)
    BY <1>2
<1> QED
    BY <1>1, <1>6, <1>7, <1>8 DEF FileInv

\* What the parts of the invariant say while the client reads.
LEMMA Reading ==
    ASSUME FileInv, status = "reading", Unread # <<>>, LinesFit(whole)
    PROVE  /\ whole # <<>> /\ whole \in Seq(Char) /\ SentAsMeant
           /\ \E pos \in 0 .. Len(whole) :
                 /\ pos \in Nat /\ pos <= Len(whole)
                 /\ file = From(whole, pos + 1) /\ Breaks(whole, pos)
                 /\ UpTo(CommandBegins(whole), pos) = Len(asked)
                 /\ UpTo(LineBegins(whole), pos) \in Nat
                 /\ line = UpTo(LineBegins(whole), pos) + 1
<1>1. whole # <<>> /\ whole \in Seq(Char)
    BY NothingUnread DEF FileInv
<1>2. SentAsMeant /\ \E pos \in 0 .. Len(whole) : ReadUpTo(pos)
    BY <1>1 DEF FileInv
<1>3. PICK pos \in 0 .. Len(whole) : ReadUpTo(pos)
    BY <1>2
<1>4. pos \in Nat /\ pos <= Len(whole)
    BY <1>1, LenProperties
<1>5. UpTo(LineBegins(whole), pos) \in Nat /\ UpTo(CommandBegins(whole), pos) \in Nat
    BY <1>1, WholeText, BeginsFinite, CountsBound
<1>6. status # "failed" /\ status \in {"reading", "ended"}
    OBVIOUS
<1>7. /\ file = From(whole, pos + 1) /\ Breaks(whole, pos)
      /\ UpTo(CommandBegins(whole), pos) = Len(asked) + (IF status = "failed" THEN 1 ELSE 0)
      /\ line = UpTo(LineBegins(whole), pos) + (IF status \in {"reading", "ended"} THEN 1 ELSE 0)
    BY <1>3 DEF ReadUpTo
<1>8. Len(asked) + (IF status = "failed" THEN 1 ELSE 0) = Len(asked) + 0
    BY <1>6
<1> QED
    BY <1>1, <1>2, <1>4, <1>5, <1>6, <1>7

LEMMA SkipCommentReads ==
    ASSUME FileInv, SkipComment
    PROVE  FileInv'
<1>1. /\ status = "reading" /\ Unread # <<>> /\ Head(Unread) = "#"
      /\ file' = From(Unread, Len(Through(Unread, {"\n"})) + 1)
      /\ line' = line + 1
      /\ UNCHANGED <<status, whole, asked>>
    BY DEF SkipComment
<1>2. whole \in Seq(Char) /\ whole # <<>>
    BY <1>1, NothingUnread DEF FileInv
<1>3. ASSUME LinesFit(whole) PROVE SentAsMeant /\ \E pos \in 0 .. Len(whole) : ReadUpTo(pos)'
    <2>1. /\ SentAsMeant
          /\ \E pos \in 0 .. Len(whole) :
                /\ pos \in Nat /\ pos <= Len(whole)
                /\ file = From(whole, pos + 1) /\ Breaks(whole, pos)
                /\ UpTo(CommandBegins(whole), pos) = Len(asked)
                /\ UpTo(LineBegins(whole), pos) \in Nat
                /\ line = UpTo(LineBegins(whole), pos) + 1
        BY <1>1, <1>3, Reading
    <2>2. PICK pos \in 0 .. Len(whole) :
                /\ pos \in Nat /\ pos <= Len(whole)
                /\ file = From(whole, pos + 1) /\ Breaks(whole, pos)
                /\ UpTo(CommandBegins(whole), pos) = Len(asked)
                /\ UpTo(LineBegins(whole), pos) \in Nat
                /\ line = UpTo(LineBegins(whole), pos) + 1
        BY <2>1
    <2>3. \E u \in 1 .. Len(whole), q \in 0 .. Len(whole) :
              /\ Head(Unread) = whole[u]
              /\ From(Unread, Len(Through(Unread, {"\n"})) + 1) = From(whole, q + 1)
              /\ Breaks(whole, q) /\ Counted(whole, pos, u, q)
        BY <1>1, <1>2, <2>2, ReadsComment
    <2>4. PICK u \in 1 .. Len(whole), q \in 0 .. Len(whole) :
              /\ Head(Unread) = whole[u]
              /\ From(Unread, Len(Through(Unread, {"\n"})) + 1) = From(whole, q + 1)
              /\ Breaks(whole, q) /\ Counted(whole, pos, u, q)
        BY <2>3
    <2>5. whole[u] = "#" /\ file' = From(whole, q + 1)
        BY <1>1, <2>4
    <2>6. /\ UpTo(LineBegins(whole), q) = line
          /\ UpTo(CommandBegins(whole), q) = Len(asked)
        BY <2>2, <2>4, <2>5 DEF Counted
    <2>7. Len(asked) + 0 = Len(asked)
        BY <1>2, <2>2, WholeText, BeginsFinite, CountsBound
    <2>8. ReadUpTo(q)'
        BY <1>1, <2>4, <2>5, <2>6, <2>7 DEF ReadUpTo
    <2> QED
        BY <2>1, <2>4, <2>8
<1>4. SentAsMeant' <=> SentAsMeant
    BY <1>1 DEF SentAsMeant
<1> QED
    BY <1>1, <1>2, <1>3, <1>4 DEF FileInv

LEMMA ReadCommandReads ==
    ASSUME WireInv, FileInv, ReadCommand
    PROVE  FileInv'
<1> DEFINE c == Parsed(Tokens(NextLine))
<1>1. /\ status = "reading" /\ Unread # <<>> /\ Head(Unread) # "#"
      /\ ParseError(Tokens(NextLine)) = "none"
      /\ file' = From(Unread, Len(NextLine) + 1)
      /\ asked' = Append(asked, c) /\ status' = "waiting"
      /\ UNCHANGED <<line, whole>>
    BY DEF ReadCommand, HasLine, SendCommand
<1>2. whole \in Seq(Char) /\ whole # <<>>
    BY <1>1, NothingUnread DEF FileInv
<1>3. ASSUME LinesFit(whole) PROVE SentAsMeant' /\ \E pos \in 0 .. Len(whole) : ReadUpTo(pos)'
    <2>1. /\ SentAsMeant
          /\ \E pos \in 0 .. Len(whole) :
                /\ pos \in Nat /\ pos <= Len(whole)
                /\ file = From(whole, pos + 1) /\ Breaks(whole, pos)
                /\ UpTo(CommandBegins(whole), pos) = Len(asked)
                /\ UpTo(LineBegins(whole), pos) \in Nat
                /\ line = UpTo(LineBegins(whole), pos) + 1
        BY <1>1, <1>3, Reading
    <2>2. PICK pos \in 0 .. Len(whole) :
                /\ pos \in Nat /\ pos <= Len(whole)
                /\ file = From(whole, pos + 1) /\ Breaks(whole, pos)
                /\ UpTo(CommandBegins(whole), pos) = Len(asked)
                /\ UpTo(LineBegins(whole), pos) \in Nat
                /\ line = UpTo(LineBegins(whole), pos) + 1
        BY <2>1
    <2>3. \E u \in 1 .. Len(whole), q \in 0 .. Len(whole) :
              /\ Head(Unread) = whole[u]
              /\ From(Unread, Len(NextLine) + 1) = From(whole, q + 1)
              /\ Breaks(whole, q) /\ Counted(whole, pos, u, q)
              /\ ParseError(Tokens(NextLine)) = "none" =>
                    Parsed(Tokens(NextLine)) \in MeaningsAt(whole, u)
        BY <1>1, <1>2, <1>3, <2>2, ReadsLine
    <2>4. PICK u \in 1 .. Len(whole), q \in 0 .. Len(whole) :
              /\ Head(Unread) = whole[u]
              /\ From(Unread, Len(NextLine) + 1) = From(whole, q + 1)
              /\ Breaks(whole, q) /\ Counted(whole, pos, u, q)
              /\ ParseError(Tokens(NextLine)) = "none" =>
                    Parsed(Tokens(NextLine)) \in MeaningsAt(whole, u)
        BY <2>3
    <2>5. whole[u] # "#" /\ file' = From(whole, q + 1) /\ c \in MeaningsAt(whole, u)
        BY <1>1, <2>4
    <2> DEFINE n == Len(asked)
               begins == CommandBegins(whole)
    <2>6. /\ UpTo(LineBegins(whole), q) = line /\ line \in Nat
          /\ u \in begins /\ UpTo(begins, q) = n + 1 /\ UpTo(begins, u) = n + 1
        BY <2>2, <2>4, <2>5 DEF Counted
    <2>7. asked \in Seq(Command) /\ n \in Nat
        BY LenProperties DEF WireInv
    <2>8. /\ IsFiniteSet(begins) /\ begins \in SUBSET Nat /\ Cardinality(begins) \in Nat
        BY <1>2, WholeText, BeginsFinite, FS_CardinalityType
    <2> HIDE DEF c
    <2>9. /\ Len(asked') = n + 1 /\ asked'[n + 1] = c
          /\ \A k \in 1 .. n : asked'[k] = asked[k]
        <3>1. asked \in Seq(Command \cup {c}) /\ c \in Command \cup {c}
            <4>1. \A k \in 1 .. Len(asked) : asked[k] \in Command \cup {c}
                BY <2>7, ElementOfSeq
            <4>2. asked = [k \in 1 .. Len(asked) |-> asked[k]]
                BY <2>7, SeqDef
            <4> QED
                BY <2>7, <4>1, <4>2, SeqDef
        <3> QED
            BY <1>1, <3>1, AppendProperties
    <2> HIDE DEF n, begins
    <2>10. ReadUpTo(q)'
        <3>1. (n + 1) + 0 = n + 1 /\ line + 0 = line
            BY <2>6, <2>7
        <3>2. /\ UpTo(begins, q) = Len(asked') + (IF status' = "failed" THEN 1 ELSE 0)
              /\ line = UpTo(LineBegins(whole), q)
                        + (IF status' \in {"reading", "ended"} THEN 1 ELSE 0)
            BY <1>1, <2>6, <2>9, <3>1
        <3> QED
            BY <1>1, <2>4, <2>5, <3>2 DEF ReadUpTo, begins
    <2>11. ASSUME NEW k \in begins, UpTo(begins, k) <= Len(asked')
           PROVE  asked'[UpTo(begins, k)] \in MeaningsAt(whole, k)
        <3>1. UpTo(begins, k) \in 1 .. Cardinality(begins)
            BY <2>8, CountsItself
        <3>2. CASE UpTo(begins, k) = n + 1
            <4>1. k = u
                BY <2>6, <2>8, <3>2, CountsDiffer
            <4> QED
                BY <2>5, <2>9, <3>2, <4>1
        <3>3. CASE UpTo(begins, k) # n + 1
            <4>1. UpTo(begins, k) \in 1 .. n /\ UpTo(begins, k) <= n
                BY <2>7, <2>8, <2>9, <2>11, <3>1, <3>3
            <4>2. asked[UpTo(begins, k)] \in MeaningsAt(whole, k)
                BY <2>1, <4>1 DEF SentAsMeant, begins, n
            <4> QED
                BY <2>9, <4>1, <4>2
        <3> QED
            BY <3>2, <3>3
    <2>12. SentAsMeant'
        BY <1>1, <2>11 DEF SentAsMeant, begins
    <2> QED
        BY <2>4, <2>10, <2>12
<1> HIDE DEF c
<1> QED
    BY <1>1, <1>2, <1>3 DEF FileInv

LEMMA ReadFailsReads ==
    ASSUME WireInv, FileInv, ReadFails
    PROVE  FileInv'
<1>1. /\ status = "reading" /\ Unread # <<>> /\ Head(Unread) # "#"
      /\ ParseError(Tokens(NextLine)) # "none"
      /\ reported' = ParseError(Tokens(NextLine))
      /\ file' = From(Unread, Len(NextLine) + 1)
      /\ status' = "failed"
      /\ UNCHANGED <<line, whole, asked>>
    BY DEF ReadFails, HasLine
<1>2. whole \in Seq(Char) /\ whole # <<>>
    BY <1>1, NothingUnread DEF FileInv
<1>3. ASSUME LinesFit(whole) PROVE SentAsMeant /\ \E pos \in 0 .. Len(whole) : ReadUpTo(pos)'
    <2>1. /\ SentAsMeant
          /\ \E pos \in 0 .. Len(whole) :
                /\ pos \in Nat /\ pos <= Len(whole)
                /\ file = From(whole, pos + 1) /\ Breaks(whole, pos)
                /\ UpTo(CommandBegins(whole), pos) = Len(asked)
                /\ UpTo(LineBegins(whole), pos) \in Nat
                /\ line = UpTo(LineBegins(whole), pos) + 1
        BY <1>1, <1>3, Reading
    <2>2. PICK pos \in 0 .. Len(whole) :
                /\ pos \in Nat /\ pos <= Len(whole)
                /\ file = From(whole, pos + 1) /\ Breaks(whole, pos)
                /\ UpTo(CommandBegins(whole), pos) = Len(asked)
                /\ UpTo(LineBegins(whole), pos) \in Nat
                /\ line = UpTo(LineBegins(whole), pos) + 1
        BY <2>1
    <2>3. \E u \in 1 .. Len(whole), q \in 0 .. Len(whole) :
              /\ Head(Unread) = whole[u]
              /\ From(Unread, Len(NextLine) + 1) = From(whole, q + 1)
              /\ Breaks(whole, q) /\ Counted(whole, pos, u, q)
              /\ ParseError(Tokens(NextLine)) # "none" => MeaningsAt(whole, u) = {}
              /\ ParseError(Tokens(NextLine)) = "ReadLine" <=>
                    \A op \in DOMAIN Letter : whole[u] # Letter[op]
        BY <1>1, <1>2, <1>3, <2>2, ReadsLine
    <2>4. PICK u \in 1 .. Len(whole), q \in 0 .. Len(whole) :
              /\ Head(Unread) = whole[u]
              /\ From(Unread, Len(NextLine) + 1) = From(whole, q + 1)
              /\ Breaks(whole, q) /\ Counted(whole, pos, u, q)
              /\ ParseError(Tokens(NextLine)) # "none" => MeaningsAt(whole, u) = {}
              /\ ParseError(Tokens(NextLine)) = "ReadLine" <=>
                    \A op \in DOMAIN Letter : whole[u] # Letter[op]
        BY <2>3
    <2>5. /\ whole[u] # "#" /\ file' = From(whole, q + 1) /\ MeaningsAt(whole, u) = {}
          /\ reported' = "ReadLine" <=> \A op \in DOMAIN Letter : whole[u] # Letter[op]
        BY <1>1, <2>4
    <2>6. /\ UpTo(LineBegins(whole), q) = line /\ line \in Nat
          /\ UpTo(LineBegins(whole), u) = UpTo(LineBegins(whole), q)
          /\ u \in CommandBegins(whole)
          /\ UpTo(CommandBegins(whole), q) = Len(asked) + 1
          /\ UpTo(CommandBegins(whole), u) = UpTo(CommandBegins(whole), q)
        BY <2>2, <2>4, <2>5 DEF Counted
    <2>7. /\ UpTo(CommandBegins(whole), q) = Len(asked) + (IF status' = "failed" THEN 1 ELSE 0)
          /\ line = UpTo(LineBegins(whole), q)
                        + (IF status' \in {"reading", "ended"} THEN 1 ELSE 0)
        BY <1>1, <2>6
    <2>8. ReadUpTo(q)'
        BY <1>1, <2>4, <2>5, <2>6, <2>7 DEF ReadUpTo
    <2> QED
        BY <2>1, <2>4, <2>8
<1>4. SentAsMeant' <=> SentAsMeant
    BY <1>1 DEF SentAsMeant
<1> QED
    BY <1>1, <1>2, <1>3, <1>4 DEF FileInv

LEMMA StopReads ==
    ASSUME FileInv, Stop
    PROVE  FileInv'
<1>1. /\ status = "reading" /\ Unread = <<>> /\ file' = <<>> /\ status' = "ended"
      /\ UNCHANGED <<line, whole, asked>>
    BY DEF Stop
<1>2. whole \in Seq(Char)
    BY DEF FileInv
<1>3. ASSUME LinesFit(whole), whole # <<>>
      PROVE  SentAsMeant /\ \E pos \in 0 .. Len(whole) : ReadUpTo(pos)'
    <2>0. PICK n : n = Len(whole)
        OBVIOUS
    <2>1. SentAsMeant /\ \E pos \in 0 .. Len(whole) : ReadUpTo(pos)
        BY <1>3 DEF FileInv
    <2>2. PICK pos \in 0 .. Len(whole) : ReadUpTo(pos)
        BY <2>1
    <2>3. whole \in Text /\ n \in Nat /\ pos \in Nat /\ pos <= n /\ n \in 0 .. n
        BY <1>2, <2>0, <2>2, WholeText, LenProperties
    <2>4. \A k \in pos + 1 .. Len(whole) : whole[k] \in Space
        BY <1>1, <2>2, <2>3, FindLine DEF ReadUpTo, Unread
    <2>5. ASSUME NEW k \in LineBegins(whole) PROVE k <= pos /\ k <= n
        <3>1. k \in 1 .. Len(whole) /\ whole[k] \notin Space
            BY DEF LineBegins, Solid
        <3>2. ~(k \in pos + 1 .. Len(whole))
            BY <2>4, <3>1
        <3> QED
            BY <2>0, <2>3, <3>1, <3>2
    <2>6. \A k \in CommandBegins(whole) : k \in LineBegins(whole)
        BY DEF CommandBegins
    <2>7. /\ UpTo(LineBegins(whole), n) = UpTo(LineBegins(whole), pos)
          /\ UpTo(CommandBegins(whole), n) = UpTo(CommandBegins(whole), pos)
        <3>1. /\ {k \in LineBegins(whole) : k <= n} = {k \in LineBegins(whole) : k <= pos}
              /\ {k \in CommandBegins(whole) : k <= n} = {k \in CommandBegins(whole) : k <= pos}
            BY <2>5, <2>6
        <3> QED
            BY <3>1 DEF UpTo
    <2>8. file' = From(whole, n + 1)
        <3>1. n + 1 \in Nat \ {0} /\ n + 1 <= Len(whole) + 1
            BY <2>0, <2>3
        <3>2. From(whole, n + 1) \in Text /\ Len(From(whole, n + 1)) = n - (n + 1) + 1
            BY <2>0, <2>3, <3>1, RestOf
        <3>3. Len(From(whole, n + 1)) = 0
            BY <2>3, <3>2
        <3> QED
            BY <1>1, <3>2, <3>3, EmptySeq DEF Text
    <2>9. /\ UpTo(CommandBegins(whole), n) = Len(asked) + (IF status' = "failed" THEN 1 ELSE 0)
          /\ line = UpTo(LineBegins(whole), n) + (IF status' \in {"reading", "ended"} THEN 1 ELSE 0)
        BY <1>1, <2>2, <2>7 DEF ReadUpTo
    <2>10. ReadUpTo(n)'
        BY <1>1, <2>0, <2>8, <2>9 DEF ReadUpTo, Breaks
    <2> QED
        BY <2>0, <2>1, <2>3, <2>10
<1>4. SentAsMeant' <=> SentAsMeant
    BY <1>1 DEF SentAsMeant
<1> QED
    BY <1>1, <1>2, <1>3, <1>4 DEF FileInv

LEMMA ServeReads ==
    ASSUME FileInv, Serve
    PROVE  FileInv'
<1>1. /\ status = "waiting" /\ status' = "reading" /\ line' = line + 1
      /\ UNCHANGED <<file, whole, asked>>
    BY DEF Serve, Continue
<1>2. whole \in Seq(Char) /\ (whole = <<>> => file = <<>>)
    BY DEF FileInv
<1>3. ASSUME LinesFit(whole), whole # <<>>
      PROVE  SentAsMeant /\ \E pos \in 0 .. Len(whole) : ReadUpTo(pos)'
    <2>1. SentAsMeant /\ \E pos \in 0 .. Len(whole) : ReadUpTo(pos)
        BY <1>3 DEF FileInv
    <2>2. PICK pos \in 0 .. Len(whole) : ReadUpTo(pos)
        BY <2>1
    <2>3. UpTo(LineBegins(whole), pos) \in Nat
        BY <1>2, WholeText, BeginsFinite, CountsBound
    <2>4. /\ UpTo(CommandBegins(whole), pos) = Len(asked) + (IF status' = "failed" THEN 1 ELSE 0)
          /\ line' = UpTo(LineBegins(whole), pos)
                         + (IF status' \in {"reading", "ended"} THEN 1 ELSE 0)
        BY <1>1, <2>2, <2>3 DEF ReadUpTo
    <2>5. ReadUpTo(pos)'
        BY <1>1, <2>2, <2>4 DEF ReadUpTo
    <2> QED
        BY <2>1, <2>5
<1>4. SentAsMeant' <=> SentAsMeant
    BY <1>1 DEF SentAsMeant
<1> QED
    BY <1>1, <1>2, <1>3, <1>4 DEF FileInv

LEMMA CallReads ==
    ASSUME FileInv, Call
    PROVE  FileInv'
<1>1. whole = <<>> /\ file' = file /\ whole' = whole /\ status' = "waiting"
    BY DEF Call, SendCommand
<1> QED
    BY <1>1 DEF FileInv

LEMMA FileStays == WireInv /\ FileInv /\ [Next]_vars => FileInv'
<1> SUFFICES ASSUME WireInv, FileInv, [Next]_vars PROVE FileInv'
    OBVIOUS
<1>1. ASSUME UNCHANGED vars PROVE FileInv'
    <2>1. SentAsMeant' <=> SentAsMeant
        BY <1>1 DEF SentAsMeant, vars
    <2>2. \A pos : ReadUpTo(pos)' <=> ReadUpTo(pos)
        BY <1>1 DEF ReadUpTo, vars
    <2> QED
        BY <1>1, <2>1, <2>2 DEF FileInv, vars
<1> QED
    BY <1>1, SkipCommentReads, StopReads, ReadCommandReads, ReadFailsReads, CallReads, ServeReads
    DEF Next

-----------------------------------------------------------------------------
\* The number of a line, less the blank ones before it, is its number among
\* the lines that are not blank.
LEMMA NumberLessBlank ==
    ASSUME NEW text \in Text, NEW k \in LineBegins(text)
    PROVE  LineNumber(text, k) - Cardinality(BlankLines(text, k)) = UpTo(LineBegins(text), k)
<1> DEFINE B == {b \in LineBegins(text) : b < k}
           N == Newlines(text, k)
           E == N \ BlankLines(text, k)
           Ends(b) == {j \in N : b <= j}
           First(b, m) == m \in Ends(b) /\ \A j \in Ends(b) : m <= j
           f == [b \in B |-> CHOOSE m : First(b, m)]
<1>1. /\ Len(text) \in Nat /\ k \in 1 .. Len(text) /\ k \in Solid(text) /\ k \in Nat
      /\ N \in SUBSET Nat /\ IsFiniteSet(N)
    <2>1. Len(text) \in Nat
        BY LenProperties DEF Text
    <2>2. k \in 1 .. Len(text) /\ k \in Solid(text)
        BY DEF LineBegins, Solid
    <2>3. N \in SUBSET (1 .. k - 1) /\ k \in Nat /\ 1 \in Int /\ k - 1 \in Int
        BY <2>1, <2>2 DEF Newlines
    <2>4. IsFiniteSet(1 .. k - 1)
        BY <2>3, FS_Interval
    <2>5. \A j \in 1 .. k - 1 : j \in Nat
        BY <2>3
    <2> HIDE DEF N
    <2> QED
        BY <2>1, <2>2, <2>3, <2>4, <2>5, FS_Subset
<1>2. \A j \in N : j \in 1 .. k - 1 /\ text[j] = "\n" /\ j \notin Solid(text)
    BY DEF Newlines, Solid, Space
<1>3. \A j \in 1 .. k - 1 : text[j] = "\n" => j \in N
    BY DEF Newlines
<1>4. \A b \in B : b \in Solid(text) /\ b \in 1 .. k - 1
    BY <1>1 DEF LineBegins, Solid
<1>5. \A j \in E : \E i \in Solid(text) : i < j /\ Free(text, {"\n"}, i, j - 1)
    BY DEF BlankLines
<1> HIDE DEF N
<1>6. ASSUME NEW b \in B PROVE First(b, f[b]) /\ f[b] \in E
    <2>1. ~Free(text, {"\n"}, b, k)
        BY <1>1, <1>4, <1>6 DEF LineBegins
    <2>2. PICK i \in b .. k : text[i] = "\n"
        BY <2>1 DEF Free
    <2>3. i # k
        BY <1>1, <2>2 DEF Solid, Space
    <2>4. i \in Ends(b)
        BY <1>1, <1>3, <1>4, <2>2, <2>3
    <2>5. PICK m : First(b, m)
        BY <1>1, <2>4, Least
    <2>6. First(b, f[b])
        BY <2>5
    <2>7. /\ f[b] \in N /\ b <= f[b] /\ f[b] \in 1 .. k - 1
          /\ \A j \in Ends(b) : f[b] <= j
        BY <1>2, <2>6
    <2> HIDE DEF f
    <2>8. b < f[b]
        BY <1>2, <1>4, <2>7
    <2>9. Free(text, {"\n"}, b, f[b] - 1)
        <3>1. ASSUME NEW j \in b .. f[b] - 1, text[j] = "\n" PROVE FALSE
            <4>1. j \in 1 .. k - 1 /\ b <= j /\ j < f[b]
                BY <1>1, <1>4, <2>7, <3>1
            <4>2. j \in Ends(b)
                BY <1>3, <3>1, <4>1
            <4> QED
                BY <2>7, <4>1, <4>2
        <3> QED
            BY <3>1 DEF Free
    <2>10. f[b] \notin BlankLines(text, k)
        BY <1>4, <2>8, <2>9 DEF BlankLines
    <2> QED
        BY <2>6, <2>7, <2>10
<1>7. ASSUME NEW b \in B, NEW d \in B, f[b] = f[d], b < d PROVE FALSE
    <2>1. ~Free(text, {"\n"}, b, d)
        BY <1>4, <1>7 DEF LineBegins
    <2>2. PICK j \in b .. d : text[j] = "\n"
        BY <2>1 DEF Free
    <2>3. f[d] \in N /\ d <= f[d] /\ \A i \in Ends(b) : f[b] <= i
        BY <1>6
    <2> HIDE DEF f
    <2>4. b \in 1 .. k - 1 /\ d \in 1 .. k - 1 /\ d \in Solid(text) /\ f[d] \in 1 .. k - 1
        <3>1. b \in 1 .. k - 1 /\ d \in 1 .. k - 1 /\ d \in Solid(text)
            BY <1>4
        <3>2. f[d] \in 1 .. k - 1
            BY <1>2, <2>3
        <3> QED
            BY <3>1, <3>2
    <2>5. j \in 1 .. k - 1 /\ j # d /\ b <= j /\ j < d
        <3>1. j # d
            BY <2>2, <2>4 DEF Solid, Space
        <3>2. k \in Nat
            BY <1>1
        <3> HIDE DEF B
        <3> QED
            BY <2>4, <3>1, <3>2
    <2>6. f[d] <= j
        BY <1>3, <1>7, <2>2, <2>3, <2>5
    <2> QED
        BY <1>1, <2>3, <2>4, <2>5, <2>6
<1>8. ASSUME NEW j \in E PROVE \E b \in B : f[b] = j
    <2> DEFINE S == {i \in Solid(text) : i < j /\ Free(text, {"\n"}, i, j - 1)}
    <2>1. S # {} /\ S \in SUBSET Nat /\ j \in 1 .. k - 1 /\ text[j] = "\n" /\ j \in N
        BY <1>1, <1>2, <1>5 DEF Solid
    <2>2. PICK b \in S : \A i \in S : b <= i
        BY <2>1, Least
    <2>3. b \in Nat /\ b \in Solid(text) /\ b < j /\ Free(text, {"\n"}, b, j - 1)
        BY <2>1
    <2>4. ASSUME NEW i \in Solid(text), i < b PROVE ~Free(text, {"\n"}, i, b)
        <3>1. i \notin S /\ i \in Nat /\ i < j
            BY <1>1, <2>1, <2>2, <2>3, <2>4 DEF Solid
        <3>2. ~Free(text, {"\n"}, i, j - 1)
            BY <3>1
        <3>3. PICK n \in i .. j - 1 : text[n] = "\n"
            BY <3>2 DEF Free
        <3>4. ~(b <= n)
            BY <2>1, <2>3, <3>3 DEF Free
        <3>5. n \in i .. b
            BY <2>1, <2>3, <3>1, <3>3, <3>4
        <3> QED
            BY <3>3, <3>5 DEF Free
    <2>5. b \in B
        BY <1>1, <2>1, <2>3, <2>4 DEF LineBegins
    <2>6. j \in Ends(b) /\ First(b, f[b])
        BY <1>6, <2>1, <2>3, <2>5
    <2>7. f[b] <= j /\ f[b] \in N /\ b <= f[b] /\ f[b] \in Nat
        BY <1>1, <2>6
    <2> HIDE DEF f
    <2>8. ~(f[b] < j)
        BY <1>2, <2>1, <2>3, <2>7 DEF Free
    <2> QED
        BY <2>1, <2>5, <2>7, <2>8
<1>9. IsFiniteSet(B) /\ Cardinality(B) = Cardinality(E)
    <2>1. IsFiniteSet(LineBegins(text)) /\ B \in SUBSET LineBegins(text)
        BY BeginsFinite
    <2>2. IsFiniteSet(B)
        BY <2>1, FS_Subset
    <2>3. f \in [B -> E]
        BY <1>6
    <2>4. ASSUME NEW b \in B, NEW d \in B, f[b] = f[d] PROVE b = d
        <3>1. b \in Nat /\ d \in Nat
            BY <1>1, <1>4
        <3>2. ~(b < d) /\ ~(d < b)
            BY <1>7, <2>4
        <3> QED
            BY <3>1, <3>2
    <2>5. f \in Bijection(B, E)
        <3> HIDE DEF f, B, E
        <3> QED
            BY <1>8, <2>3, <2>4 DEF Bijection, Injection, Surjection, IsInjective
    <2>6. ExistsBijection(B, E)
        BY <2>5 DEF ExistsBijection
    <2> QED
        BY <2>2, <2>6, FS_Bijection
<1>10. UpTo(LineBegins(text), k) = Cardinality(B) + 1
    <2>1. {j \in LineBegins(text) : j <= k} = B \cup {k} /\ k \notin B
        BY <1>1 DEF LineBegins, Solid
    <2> HIDE DEF B
    <2> QED
        BY <1>9, <2>1, FS_AddElement DEF UpTo
<1>11. /\ Cardinality(E) = Cardinality(N) - Cardinality(BlankLines(text, k))
       /\ Cardinality(N) \in Nat /\ Cardinality(BlankLines(text, k)) \in Nat
    <2>1. BlankLines(text, k) \in SUBSET N /\ N \cap BlankLines(text, k) = BlankLines(text, k)
        BY DEF BlankLines, N
    <2> HIDE DEF E
    <2>2. Cardinality(N \ BlankLines(text, k)) = Cardinality(N) - Cardinality(BlankLines(text, k))
        BY <1>1, <2>1, FS_Difference
    <2> QED
        BY <1>1, <2>1, <2>2, FS_Subset, FS_CardinalityType DEF E
<1> HIDE DEF B, E
<1> QED
    BY <1>9, <1>10, <1>11 DEF LineNumber, N

\* What the invariant says of the file that was given.
LEMMA FileMeant == FileInv => FileUnderstood /\ FailureReported
<1> SUFFICES ASSUME FileInv PROVE FileUnderstood /\ FailureReported
    OBVIOUS
<1>1. whole \in Seq(Char) /\ (whole = <<>> => status # "failed")
    BY DEF FileInv
<1> SUFFICES ASSUME LinesFit(whole), whole # <<>>
             PROVE  FileUnderstood /\ FailureReported
    BY <1>1 DEF FileUnderstood, FailureReported
<1> DEFINE begins == CommandBegins(whole)
           lines == LineBegins(whole)
<1>2. SentAsMeant /\ \E pos \in 0 .. Len(whole) : ReadUpTo(pos)
    BY DEF FileInv
<1>3. PICK pos \in 0 .. Len(whole) : ReadUpTo(pos)
    BY <1>2
<1>4. /\ IsFiniteSet(begins) /\ UpTo(begins, pos) \in Nat /\ Cardinality(begins) \in Nat
      /\ UpTo(begins, pos) <= Cardinality(begins)
      /\ (\A j \in begins : j <= pos) => UpTo(begins, pos) = Cardinality(begins)
      /\ UpTo(lines, pos) \in Nat
      /\ \A j \in begins : j \in 1 .. Len(whole)
    <2>1. whole \in Text
        BY <1>1, WholeText
    <2>2. /\ IsFiniteSet(begins) /\ IsFiniteSet(lines)
          /\ \A j \in begins : j \in 1 .. Len(whole)
        BY <2>1, BeginsFinite
    <2> HIDE DEF begins, lines
    <2> QED
        BY <2>2, CountsBound
<1>5. /\ UpTo(begins, pos) = Len(asked) + (IF status = "failed" THEN 1 ELSE 0)
      /\ line = UpTo(lines, pos) + (IF status \in {"reading", "ended"} THEN 1 ELSE 0)
      /\ status = "ended" => pos = Len(whole)
      /\ status = "failed" =>
            \E k \in begins :
                /\ UpTo(begins, k) = UpTo(begins, pos) /\ UpTo(lines, k) = UpTo(lines, pos)
                /\ MeaningsAt(whole, k) = {}
                /\ reported = "ReadLine" <=> \A op \in DOMAIN Letter : whole[k] # Letter[op]
    BY <1>3 DEF ReadUpTo
<1>6. \A k \in begins :
          UpTo(begins, k) <= Len(asked) => asked[UpTo(begins, k)] \in MeaningsAt(whole, k)
    BY <1>2 DEF SentAsMeant
<1>7. Len(whole) \in Nat
    BY <1>1, LenProperties
<1> HIDE DEF begins, lines
<1>8. CASE status = "failed"
    <2>1. UpTo(begins, pos) = Len(asked) + 1 /\ line = UpTo(lines, pos) + 0
        BY <1>5, <1>8
    <2>2. line = UpTo(lines, pos)
        BY <1>4, <2>1
    <2>3. \E k \in begins :
                /\ UpTo(begins, k) = Len(asked) + 1 /\ line = UpTo(lines, k)
                /\ MeaningsAt(whole, k) = {}
                /\ reported = "ReadLine" <=> \A op \in DOMAIN Letter : whole[k] # Letter[op]
        BY <1>5, <1>8, <2>1, <2>2
    <2>4. FailureReported
        <3>1. \A k \in begins :
                  LineNumber(whole, k) - Cardinality(BlankLines(whole, k)) = UpTo(lines, k)
            BY <1>1, WholeText, NumberLessBlank DEF begins, lines, CommandBegins
        <3> QED
            BY <2>3, <3>1 DEF FailureReported, begins
    <2>5. Len(asked) <= Cardinality(begins)
        BY <1>4, <2>1
    <2>6. FileUnderstood
        BY <1>6, <1>8, <2>3, <2>5 DEF FileUnderstood, begins
    <2> QED
        BY <2>4, <2>6
<1>9. CASE status # "failed"
    <2>1. UpTo(begins, pos) = Len(asked) + 0
        BY <1>5, <1>9
    <2>2. Len(asked) <= Cardinality(begins)
        BY <1>4, <2>1
    <2>3. ASSUME status = "ended" PROVE Len(asked) = Cardinality(begins)
        <3>1. \A j \in begins : j <= pos
            BY <1>4, <1>5, <1>7, <2>3
        <3> QED
            BY <1>4, <2>1, <3>1
    <2> QED
        BY <1>6, <1>9, <2>2, <2>3 DEF FileUnderstood, FailureReported, begins
<1> QED
    BY <1>8, <1>9

\* Behind every state of the client there is a place of its file that it has
\* read up to, and what it sent and counted are the lines up to it.
THEOREM FileFollowed == Spec => []FileInv
<1>1. Init => WireInv /\ FileInv
    BY WireStarts, FileStarts
<1>2. WireInv /\ FileInv /\ [Next]_vars => (WireInv /\ FileInv)'
    BY WireStays, FileStays
<1> QED
    BY <1>1, <1>2, PTL DEF Spec

\* Whatever a file says: the commands of its lines are sent, as they are meant
\* and in their order, up to its end or to the first line that means none,
\* provided the buffer of fgets holds each line (tecnicofs-client.c:60-89).
THEOREM FileSent == Spec => []FileUnderstood
<1>1. FileInv => FileUnderstood
    BY FileMeant
<1> QED
    BY <1>1, FileFollowed, PTL

\* And when the program ends at a line, it is the line after those of the
\* commands it has sent: the report gives its number among the lines that are
\* not blank, and blames a failed read just when its letter is unknown
\* (tecnicofs-client.c:82-86, command.c:194-199).
THEOREM FailedLineNamed == Spec => []FailureReported
<1>1. FileInv => FailureReported
    BY FileMeant
<1> QED
    BY <1>1, FileFollowed, PTL
=============================================================================
