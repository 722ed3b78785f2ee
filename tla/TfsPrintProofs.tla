---------------------------- MODULE TfsPrintProofs ----------------------------
(***************************************************************************)
(* For every set of workers, files and trees: a print that had its file to *)
(* itself leaves in it what the file system was at one moment              *)
(* (PrintsAreSnapshots).  What such a print has written, what it has in    *)
(* its buffer and what it has still to print are, one after the other,     *)
(* the tree of that moment (Whole).                                        *)
(***************************************************************************)
EXTENDS TfsPrint, SequenceTheorems, TLAPS

Opened == {"opened", "locked", "unlocked"}

TypeOK ==
    /\ tree \in Seq(Line)
    /\ at \in [Thread -> {"idle"} \cup Opened]
    /\ file \in [Thread -> File \cup {NoFile}]
    /\ \A t \in Thread : at[t] \in Opened => file[t] \in File
    /\ todo \in [Thread -> Seq(Line)]
    /\ buffer \in [Thread -> Seq(Line)]
    /\ offset \in [Thread -> Nat]
    /\ content = [f \in File |-> content[f]]
    /\ printed \in [Thread -> Seq(Line)]
    /\ alone \in [Thread -> BOOLEAN]

\* Nobody else has the file of t open.
Apart(t) ==
    at[t] \in Opened /\ alone[t] =>
        \A u \in Thread \ {t} : at[u] \in Opened => file[u] # file[t]

\* Nothing of the tree is lost, and nothing is written twice.
Whole(t) ==
    /\ at[t] \in {"idle", "opened"} => buffer[t] = <<>>
    /\ at[t] = "unlocked" => todo[t] = <<>>
    /\ at[t] \in Opened /\ alone[t] =>
          /\ content[file[t]] \in Seq(Line)
          /\ offset[t] = Len(content[file[t]])
          /\ at[t] = "opened" => content[file[t]] = <<>>
          /\ at[t] # "opened" => (content[file[t]] \o buffer[t]) \o todo[t] = printed[t]

Inv == TypeOK /\ \A t \in Thread : Apart(t) /\ Whole(t)

-----------------------------------------------------------------------------
\* The greater of two numbers.
LEMMA MaxOfTwo ==
    ASSUME NEW m \in Nat, NEW n \in Nat, m <= n
    PROVE  Max({m, n}) = n
<1>1. n \in {m, n} /\ \A y \in {m, n} : n >= y
    OBVIOUS
<1>2. \A x \in {m, n} : (\A y \in {m, n} : x >= y) => x = n
    OBVIOUS
<1> QED
    BY <1>1, <1>2 DEF Max

\* A buffer that is written at the end of a file is added to it.
LEMMA WrittenAtEnd ==
    ASSUME NEW t, NEW old \in Seq(Line), buffer[t] \in Seq(Line), offset[t] = Len(old)
    PROVE  Written(t, old) = old \o buffer[t]
<1> DEFINE b == buffer[t]
           end == Len(old) + Len(b)
           w == [k \in 1 .. end |-> IF k > Len(old) /\ k <= end THEN b[k - Len(old)]
                                    ELSE IF k <= Len(old) THEN old[k] ELSE Hole]
<1>1. Len(old) \in Nat /\ Len(b) \in Nat
    BY LenProperties
<1>2. CASE b = <<>>
    BY <1>2, ConcatEmptySeq DEF Written
<1>3. CASE b # <<>>
    <2>1. Max({Len(old), end}) = end
        BY <1>1, MaxOfTwo
    <2>2. Written(t, old) = w
        BY <1>3, <2>1 DEF Written
    <2>3. /\ old \o b \in Seq(Line) /\ Len(old \o b) = end
          /\ \A k \in 1 .. end : (old \o b)[k] = IF k <= Len(old) THEN old[k] ELSE b[k - Len(old)]
        BY ConcatProperties
    <2>4. \A k \in 1 .. end : w[k] = (old \o b)[k]
        BY <1>1, <2>3
    <2>5. old \o b = [k \in 1 .. end |-> (old \o b)[k]]
        BY <2>3, LenProperties
    <2> HIDE DEF b
    <2>6. w = [k \in 1 .. end |-> (old \o b)[k]]
        BY <2>4
    <2> QED
        BY <2>2, <2>5, <2>6 DEF b
<1> QED
    BY <1>2, <1>3

\* A line moves from the front of one sequence to the end of the one before.
LEMMA LineMoves ==
    ASSUME NEW a \in Seq(Line), NEW b \in Seq(Line), NEW c \in Seq(Line), c # <<>>
    PROVE  (a \o Append(b, Head(c))) \o Tail(c) = (a \o b) \o c
<1>1. Head(c) \in Line /\ Tail(c) \in Seq(Line) /\ c = <<Head(c)>> \o Tail(c)
    <2>1. Head(c) \in Line /\ Tail(c) \in Seq(Line)
        BY HeadTailProperties
    <2>2. c = <<Head(c)>> \o Tail(c)
        BY HeadTailProperties
    <2> QED
        BY <2>1, <2>2
<1> DEFINE h == Head(c)
           d == Tail(c)
           e == <<h>>
<1>2. e \in Seq(Line) /\ d \in Seq(Line) /\ h \in Line /\ c = e \o d
    BY <1>1
<1>3. Append(b, h) = b \o e
    BY <1>2, AppendIsConcat
<1> HIDE DEF e, h, d
<1>4. a \o b \in Seq(Line) /\ b \o e \in Seq(Line)
    BY <1>2, ConcatProperties
<1>5. (a \o (b \o e)) \o d = ((a \o b) \o e) \o d
    BY <1>2, ConcatAssociative
<1>6. ((a \o b) \o e) \o d = (a \o b) \o (e \o d)
    BY <1>2, <1>4, ConcatAssociative
<1>7. (a \o (b \o e)) \o d = (a \o b) \o c
    BY <1>2, <1>5, <1>6
<1>8. (a \o Append(b, h)) \o d = (a \o b) \o c
    BY <1>3, <1>7, Zenon
<1> QED
    BY <1>8, Zenon DEF h, d

-----------------------------------------------------------------------------
\* One lemma for each kind of step.

\* A step of another worker that leaves alone what u has, and its file unless
\* somebody else has that open too.
LEMMA WholeStays ==
    ASSUME NEW u, Whole(u), at'[u] = at[u], file'[u] = file[u], todo'[u] = todo[u],
           buffer'[u] = buffer[u], offset'[u] = offset[u], printed'[u] = printed[u],
           alone'[u] => alone[u],
           at[u] \in Opened /\ alone'[u] => content'[file[u]] = content[file[u]]
    PROVE  Whole(u)'
<1>1. /\ at'[u] \in {"idle", "opened"} => buffer'[u] = <<>>
      /\ at'[u] = "unlocked" => todo'[u] = <<>>
    BY DEF Whole
<1>2. ASSUME at'[u] \in Opened, alone'[u]
      PROVE  /\ content'[file'[u]] \in Seq(Line)
             /\ offset'[u] = Len(content'[file'[u]])
             /\ at'[u] = "opened" => content'[file'[u]] = <<>>
             /\ at'[u] # "opened" => (content'[file'[u]] \o buffer'[u]) \o todo'[u] = printed'[u]
    <2>1. at[u] \in Opened /\ alone[u] /\ content'[file'[u]] = content[file[u]]
        BY <1>2
    <2> QED
        BY <2>1 DEF Whole
<1> QED
    BY <1>1, <1>2 DEF Whole

\* Before the first command.
LEMMA InitInv == Init => Inv
<1> SUFFICES ASSUME Init PROVE Inv
    OBVIOUS
<1>1. tree \in Seq(Line)
    BY PrintAssumption DEF Init
<1>2. <<>> \in Seq(Line)
    OBVIOUS
<1>3. TypeOK
    BY <1>1, <1>2 DEF Init, TypeOK, Opened
<1> QED
    BY <1>3 DEF Init, Inv, Apart, Whole, Opened

\* What a worker knows of its file stays while others open files.
LEMMA OpenKeeps ==
    ASSUME Inv, NEW t \in Thread, NEW f \in File, Open(t, f)
    PROVE  Inv'
<1>1. TypeOK /\ \A u \in Thread : Apart(u) /\ Whole(u)
    BY DEF Inv
<1>2. /\ at' = [at EXCEPT ![t] = "opened"] /\ file' = [file EXCEPT ![t] = f]
      /\ offset' = [offset EXCEPT ![t] = 0] /\ content' = [content EXCEPT ![f] = <<>>]
      /\ alone' = [u \in Thread |-> IF u \in Others(t, f) THEN FALSE
                                    ELSE IF u = t THEN Others(t, f) = {} ELSE alone[u]]
      /\ tree' = tree /\ todo' = todo /\ buffer' = buffer /\ printed' = printed /\ at[t] = "idle"
    BY DEF Open, Goto
<1>3. /\ at'[t] = "opened" /\ file'[t] = f /\ offset'[t] = 0 /\ content'[f] = <<>>
      /\ alone'[t] = (Others(t, f) = {})
    BY <1>1, <1>2 DEF TypeOK, Others
<1>4. \A u \in Thread \ {t} :
          /\ at'[u] = at[u] /\ file'[u] = file[u] /\ offset'[u] = offset[u]
          /\ alone'[u] => alone[u] /\ file[u] # f
    BY <1>1, <1>2 DEF TypeOK, Others
<1>5. \A g \in File : g # f => content'[g] = content[g]
    BY <1>1, <1>2 DEF TypeOK
<1>6. TypeOK'
    <2>1. at' \in [Thread -> {"idle"} \cup Opened] /\ file' \in [Thread -> File \cup {NoFile}]
        BY <1>1, <1>2 DEF TypeOK, Opened
    <2>2. \A u \in Thread : at'[u] \in Opened => file'[u] \in File
        BY <1>1, <1>3, <1>4 DEF TypeOK
    <2>3. offset' \in [Thread -> Nat] /\ content' = [g \in File |-> content'[g]]
        BY <1>1, <1>2 DEF TypeOK
    <2>4. alone' \in [Thread -> BOOLEAN]
        BY <1>1, <1>2, Zenon DEF TypeOK
    <2> QED
        BY <1>1, <1>2, <2>1, <2>2, <2>3, <2>4 DEF TypeOK
<1>7. ASSUME NEW u \in Thread PROVE Apart(u)' /\ Whole(u)'
    <2>1. CASE u = t
        <3>1. alone'[t] => \A v \in Thread \ {t} : file'[v] # file'[t]
            BY <1>3, <1>4 DEF Others
        <3>2. Apart(t)'
            BY <3>1 DEF Apart
        <3>3. Whole(t)'
            <4>1. <<>> \in Seq(Line) /\ Len(<<>>) = 0
                OBVIOUS
            <4> QED
                BY <1>1, <1>2, <1>3, <4>1 DEF Whole
        <3> QED
            BY <2>1, <3>2, <3>3
    <2>2. CASE u # t
        <3>1. Apart(u)'
            BY <1>1, <1>3, <1>4, <2>2 DEF Apart
        <3>2. at[u] \in Opened /\ alone'[u] => content'[file[u]] = content[file[u]]
            BY <1>1, <1>4, <1>5, <2>2 DEF TypeOK
        <3>3. Whole(u)'
            BY <1>1, <1>2, <1>4, <2>2, <3>2, WholeStays
        <3> QED
            BY <3>1, <3>3
    <2> QED
        BY <2>1, <2>2
<1> QED
    BY <1>6, <1>7 DEF Inv

\* A step that opens and closes nothing leaves every file apart.
LEMMA ApartStays ==
    ASSUME TypeOK, NEW t \in Thread, at[t] \in Opened, file' = file, alone' = alone,
           NEW p \in {"idle"} \cup Opened, at' = [at EXCEPT ![t] = p]
    PROVE  /\ \A u \in Thread : Apart(u) => Apart(u)'
           /\ at' \in [Thread -> {"idle"} \cup Opened] /\ at'[t] = p
           /\ \A u \in Thread : u # t => at'[u] = at[u]
           /\ \A u \in Thread : at'[u] \in Opened => file'[u] \in File
<1>1. /\ at' \in [Thread -> {"idle"} \cup Opened] /\ at'[t] = p
      /\ \A u \in Thread : u # t => at'[u] = at[u]
    BY DEF TypeOK
<1>2. \A u \in Thread : at'[u] \in Opened => at[u] \in Opened
    BY <1>1
<1>3. \A u \in Thread : at'[u] \in Opened => file'[u] \in File
    BY <1>2 DEF TypeOK
<1> QED
    BY <1>1, <1>2, <1>3 DEF Apart

\* The root is locked: the tree is what is still to print.
LEMMA LockKeeps ==
    ASSUME Inv, NEW t \in Thread, LockRoot(t)
    PROVE  Inv'
<1>1. TypeOK /\ \A u \in Thread : Apart(u) /\ Whole(u)
    BY DEF Inv
<1>2. /\ at' = [at EXCEPT ![t] = "locked"] /\ at[t] = "opened"
      /\ todo' = [todo EXCEPT ![t] = tree] /\ printed' = [printed EXCEPT ![t] = tree]
      /\ tree' = tree /\ file' = file /\ buffer' = buffer /\ offset' = offset
      /\ content' = content /\ alone' = alone
    BY DEF LockRoot, Goto
<1>3. /\ \A u \in Thread : Apart(u)'
      /\ at' \in [Thread -> {"idle"} \cup Opened] /\ at'[t] = "locked"
      /\ \A u \in Thread : u # t => at'[u] = at[u]
      /\ \A u \in Thread : at'[u] \in Opened => file'[u] \in File
    BY <1>1, <1>2, ApartStays DEF Opened
<1>4. /\ todo' \in [Thread -> Seq(Line)] /\ printed' \in [Thread -> Seq(Line)]
      /\ todo'[t] = tree /\ printed'[t] = tree /\ tree \in Seq(Line)
      /\ \A u \in Thread : u # t => todo'[u] = todo[u] /\ printed'[u] = printed[u]
    BY <1>1, <1>2 DEF TypeOK
<1>5. TypeOK'
    BY <1>1, <1>2, <1>3, <1>4 DEF TypeOK
<1>6. ASSUME NEW u \in Thread PROVE Whole(u)'
    <2>1. CASE u = t
        <3>1. (<<>> \o <<>>) \o tree = tree
            BY <1>4, ConcatEmptySeq
        <3> QED
            BY <1>1, <1>2, <1>3, <1>4, <2>1, <3>1 DEF Whole, Opened
    <2>2. CASE u # t
        BY <1>1, <1>2, <1>3, <1>4, <2>2, WholeStays
    <2> QED
        BY <2>1, <2>2
<1> QED
    BY <1>3, <1>5, <1>6 DEF Inv

\* A line goes from what is to print to the buffer.
LEMMA PrintKeeps ==
    ASSUME Inv, NEW t \in Thread, PrintLine(t)
    PROVE  Inv'
<1>1. TypeOK /\ \A u \in Thread : Apart(u) /\ Whole(u)
    BY DEF Inv
<1>2. /\ at' = [at EXCEPT ![t] = "locked"] /\ at[t] = "locked" /\ todo[t] # <<>>
      /\ todo' = [todo EXCEPT ![t] = Tail(@)] /\ buffer' = [buffer EXCEPT ![t] = Append(@, Head(todo[t]))]
      /\ tree' = tree /\ file' = file /\ printed' = printed /\ offset' = offset
      /\ content' = content /\ alone' = alone
    BY DEF PrintLine, Goto
<1>3. /\ \A u \in Thread : Apart(u)'
      /\ at' \in [Thread -> {"idle"} \cup Opened] /\ at'[t] = "locked"
      /\ \A u \in Thread : u # t => at'[u] = at[u]
      /\ \A u \in Thread : at'[u] \in Opened => file'[u] \in File
    BY <1>1, <1>2, ApartStays DEF Opened
<1>4. todo[t] \in Seq(Line) /\ buffer[t] \in Seq(Line)
    BY <1>1 DEF TypeOK
<1>5. Head(todo[t]) \in Line /\ Tail(todo[t]) \in Seq(Line)
    BY <1>2, <1>4, HeadTailProperties
<1>6. Append(buffer[t], Head(todo[t])) \in Seq(Line)
    BY <1>4, <1>5, AppendProperties
<1>7. /\ todo' \in [Thread -> Seq(Line)] /\ buffer' \in [Thread -> Seq(Line)]
      /\ todo'[t] = Tail(todo[t]) /\ buffer'[t] = Append(buffer[t], Head(todo[t]))
      /\ \A u \in Thread : u # t => todo'[u] = todo[u] /\ buffer'[u] = buffer[u]
    BY <1>1, <1>2, <1>5, <1>6 DEF TypeOK
<1>8. TypeOK'
    BY <1>1, <1>2, <1>3, <1>7 DEF TypeOK
<1>9. ASSUME NEW u \in Thread PROVE Whole(u)'
    <2>1. CASE u = t
        <3>1. ASSUME alone[t] PROVE (content[file[t]] \o buffer'[t]) \o todo'[t] = printed[t]
            <4>1. content[file[t]] \in Seq(Line) /\ (content[file[t]] \o buffer[t]) \o todo[t] = printed[t]
                BY <1>1, <1>2, <3>1 DEF Whole, Opened
            <4>2. \A a, b, c \in Seq(Line) : c # <<>> =>
                      (a \o Append(b, Head(c))) \o Tail(c) = (a \o b) \o c
                BY LineMoves, Zenon
            <4> DEFINE a == content[file[t]]
                       b == buffer[t]
                       c == todo[t]
            <4>3. a \in Seq(Line) /\ b \in Seq(Line) /\ c \in Seq(Line) /\ c # <<>>
                BY <1>2, <1>4, <4>1
            <4> HIDE DEF a, b, c
            <4>4. (a \o Append(b, Head(c))) \o Tail(c) = (a \o b) \o c
                BY <4>2, <4>3
            <4>5. (content[file[t]] \o Append(buffer[t], Head(todo[t]))) \o Tail(todo[t])
                      = (content[file[t]] \o buffer[t]) \o todo[t]
                BY <4>4 DEF a, b, c
            <4> QED
                BY <1>7, <4>1, <4>5
        <3> QED
            BY <1>1, <1>2, <1>3, <2>1, <3>1 DEF Whole, Opened
    <2>2. CASE u # t
        BY <1>1, <1>2, <1>3, <1>7, <2>2, WholeStays
    <2> QED
        BY <2>1, <2>2
<1> QED
    BY <1>3, <1>8, <1>9 DEF Inv

\* A buffer is written to a file nobody else has open: at its end.
LEMMA WriteKeeps ==
    ASSUME Inv, NEW t \in Thread, at[t] \in {"locked", "unlocked"}, Write(t)
    PROVE  /\ buffer' \in [Thread -> Seq(Line)] /\ buffer'[t] = <<>>
           /\ offset' \in [Thread -> Nat]
           /\ content' = [f \in File |-> content'[f]]
           /\ \A u \in Thread : u # t => buffer'[u] = buffer[u] /\ offset'[u] = offset[u]
           /\ \A u \in Thread : u # t /\ at[u] \in Opened /\ alone[u] =>
                  content'[file[u]] = content[file[u]]
           /\ alone[t] =>
                  /\ content'[file[t]] \in Seq(Line)
                  /\ offset'[t] = Len(content'[file[t]])
                  /\ content'[file[t]] \o todo[t] = printed[t]
<1>1. TypeOK /\ \A u \in Thread : Apart(u) /\ Whole(u)
    BY DEF Inv
<1>2. at[t] \in Opened /\ at[t] # "opened" /\ file[t] \in File
    BY <1>1 DEF TypeOK, Opened
<1>3. buffer[t] \in Seq(Line) /\ todo[t] \in Seq(Line) /\ offset[t] \in Nat
    BY <1>1 DEF TypeOK
<1>4. Len(buffer[t]) \in Nat
    BY <1>3, LenProperties
<1>5. <<>> \in Seq(Line)
    OBVIOUS
<1>6. /\ buffer' \in [Thread -> Seq(Line)] /\ buffer'[t] = <<>>
      /\ \A u \in Thread : u # t => buffer'[u] = buffer[u]
    BY <1>1, <1>5 DEF TypeOK, Write
<1>7. offset[t] + Len(buffer[t]) \in Nat
    BY <1>3, <1>4
<1>8. /\ offset' \in [Thread -> Nat] /\ offset'[t] = offset[t] + Len(buffer[t])
      /\ \A u \in Thread : u # t => offset'[u] = offset[u]
    BY <1>1, <1>7 DEF TypeOK, Write
<1>9. /\ content' = [f \in File |-> content'[f]]
      /\ content'[file[t]] = Written(t, content[file[t]])
      /\ \A f \in File : f # file[t] => content'[f] = content[f]
    BY <1>1, <1>2 DEF TypeOK, Write
<1>10. ASSUME NEW u \in Thread, u # t, at[u] \in Opened, alone[u]
       PROVE  content'[file[u]] = content[file[u]]
    <2>1. file[t] # file[u] /\ file[u] \in File
        BY <1>1, <1>2, <1>10 DEF Apart, TypeOK
    <2> QED
        BY <1>9, <2>1
<1>11. ASSUME alone[t]
       PROVE  /\ content'[file[t]] \in Seq(Line)
              /\ offset'[t] = Len(content'[file[t]])
              /\ content'[file[t]] \o todo[t] = printed[t]
    <2>1. /\ content[file[t]] \in Seq(Line) /\ offset[t] = Len(content[file[t]])
          /\ (content[file[t]] \o buffer[t]) \o todo[t] = printed[t]
        BY <1>1, <1>2, <1>11 DEF Whole
    <2>2. content'[file[t]] = content[file[t]] \o buffer[t]
        BY <1>3, <1>9, <2>1, WrittenAtEnd
    <2>3. \A a, b \in Seq(Line) : a \o b \in Seq(Line) /\ Len(a \o b) = Len(a) + Len(b)
        BY ConcatProperties
    <2>4. /\ content[file[t]] \o buffer[t] \in Seq(Line)
          /\ Len(content[file[t]] \o buffer[t]) = Len(content[file[t]]) + Len(buffer[t])
        BY <1>3, <2>1, <2>3
    <2> QED
        BY <1>8, <2>1, <2>2, <2>4
<1> QED
    BY <1>6, <1>8, <1>9, <1>10, <1>11

\* The buffer is full.
LEMMA FlushKeeps ==
    ASSUME Inv, NEW t \in Thread, Flush(t)
    PROVE  Inv'
<1>1. TypeOK /\ \A u \in Thread : Apart(u) /\ Whole(u)
    BY DEF Inv
<1>2. /\ at' = [at EXCEPT ![t] = "locked"] /\ at[t] = "locked" /\ Write(t)
      /\ tree' = tree /\ file' = file /\ printed' = printed /\ todo' = todo /\ alone' = alone
    BY DEF Flush, Goto
<1>3. /\ \A u \in Thread : Apart(u)'
      /\ at' \in [Thread -> {"idle"} \cup Opened] /\ at'[t] = "locked"
      /\ \A u \in Thread : u # t => at'[u] = at[u]
      /\ \A u \in Thread : at'[u] \in Opened => file'[u] \in File
    BY <1>1, <1>2, ApartStays DEF Opened
<1>4. /\ buffer' \in [Thread -> Seq(Line)] /\ buffer'[t] = <<>>
      /\ offset' \in [Thread -> Nat] /\ content' = [f \in File |-> content'[f]]
      /\ \A u \in Thread : u # t => buffer'[u] = buffer[u] /\ offset'[u] = offset[u]
      /\ \A u \in Thread : u # t /\ at[u] \in Opened /\ alone[u] =>
             content'[file[u]] = content[file[u]]
      /\ alone[t] => /\ content'[file[t]] \in Seq(Line) /\ offset'[t] = Len(content'[file[t]])
                     /\ content'[file[t]] \o todo[t] = printed[t]
    BY <1>2, WriteKeeps
<1>5. TypeOK'
    BY <1>1, <1>2, <1>3, <1>4 DEF TypeOK
<1>6. ASSUME NEW u \in Thread PROVE Whole(u)'
    <2>1. CASE u = t
        <3>1. ASSUME alone[t] PROVE (content'[file[t]] \o <<>>) \o todo[t] = printed[t]
            BY <1>4, <3>1, ConcatEmptySeq
        <3>2. /\ at'[t] = "locked" /\ file'[t] = file[t] /\ todo'[t] = todo[t]
              /\ printed'[t] = printed[t] /\ alone'[t] = alone[t] /\ buffer'[t] = <<>>
            BY <1>2, <1>3, <1>4
        <3>3. Whole(t)'
            BY <1>4, <3>1, <3>2 DEF Whole
        <3> QED
            BY <2>1, <3>3
    <2>2. CASE u # t
        BY <1>1, <1>2, <1>3, <1>4, <2>2, WholeStays
    <2> QED
        BY <2>1, <2>2
<1> QED
    BY <1>3, <1>5, <1>6 DEF Inv

\* The root is unlocked: nothing is left to print.
LEMMA UnlockKeeps ==
    ASSUME Inv, NEW t \in Thread, UnlockRoot(t)
    PROVE  Inv'
<1>1. TypeOK /\ \A u \in Thread : Apart(u) /\ Whole(u)
    BY DEF Inv
<1>2. /\ at' = [at EXCEPT ![t] = "unlocked"] /\ at[t] = "locked" /\ todo[t] = <<>>
      /\ tree' = tree /\ file' = file /\ printed' = printed /\ todo' = todo /\ alone' = alone
      /\ buffer' = buffer /\ offset' = offset /\ content' = content
    BY DEF UnlockRoot, Goto
<1>3. /\ \A u \in Thread : Apart(u)'
      /\ at' \in [Thread -> {"idle"} \cup Opened] /\ at'[t] = "unlocked"
      /\ \A u \in Thread : u # t => at'[u] = at[u]
      /\ \A u \in Thread : at'[u] \in Opened => file'[u] \in File
    BY <1>1, <1>2, ApartStays DEF Opened
<1>4. TypeOK'
    BY <1>1, <1>2, <1>3 DEF TypeOK
<1>5. ASSUME NEW u \in Thread PROVE Whole(u)'
    BY <1>1, <1>2, <1>3 DEF Whole, Opened
<1> QED
    BY <1>3, <1>4, <1>5 DEF Inv

\* fclose: what it leaves in the file is what was to be printed.
LEMMA CloseKeeps ==
    ASSUME Inv, NEW t \in Thread, Close(t)
    PROVE  Inv' /\ (alone[t] => content'[file[t]] = printed[t])
<1>1. TypeOK /\ \A u \in Thread : Apart(u) /\ Whole(u)
    BY DEF Inv
<1>2. /\ at' = [at EXCEPT ![t] = "idle"] /\ at[t] = "unlocked" /\ Write(t)
      /\ file' = [file EXCEPT ![t] = NoFile]
      /\ tree' = tree /\ printed' = printed /\ todo' = todo /\ alone' = alone
    BY DEF Close, Goto
<1>3. /\ at' \in [Thread -> {"idle"} \cup Opened] /\ at'[t] = "idle"
      /\ \A u \in Thread : u # t => at'[u] = at[u] /\ file'[u] = file[u]
      /\ file' \in [Thread -> File \cup {NoFile}]
    BY <1>1, <1>2 DEF TypeOK
<1>4. \A u \in Thread : at'[u] \in Opened => u # t /\ at[u] \in Opened /\ file'[u] = file[u]
    BY <1>3 DEF Opened
<1>5. /\ buffer' \in [Thread -> Seq(Line)] /\ buffer'[t] = <<>>
      /\ offset' \in [Thread -> Nat] /\ content' = [f \in File |-> content'[f]]
      /\ \A u \in Thread : u # t => buffer'[u] = buffer[u] /\ offset'[u] = offset[u]
      /\ \A u \in Thread : u # t /\ at[u] \in Opened /\ alone[u] =>
             content'[file[u]] = content[file[u]]
      /\ alone[t] => /\ content'[file[t]] \in Seq(Line)
                     /\ content'[file[t]] \o todo[t] = printed[t]
    BY <1>2, WriteKeeps
<1>6. TypeOK'
    <2>1. \A u \in Thread : at'[u] \in Opened => file'[u] \in File
        BY <1>1, <1>4 DEF TypeOK
    <2> QED
        BY <1>1, <1>2, <1>3, <1>5, <2>1 DEF TypeOK
<1>7. ASSUME NEW u \in Thread PROVE Apart(u)'
    BY <1>1, <1>2, <1>4 DEF Apart
<1>8. ASSUME NEW u \in Thread PROVE Whole(u)'
    <2>1. CASE u = t
        BY <1>3, <1>5, <2>1 DEF Whole, Opened
    <2>2. CASE u # t
        BY <1>1, <1>2, <1>3, <1>5, <2>2, WholeStays
    <2> QED
        BY <2>1, <2>2
<1>9. ASSUME alone[t] PROVE content'[file[t]] = printed[t]
    <2>1. todo[t] = <<>>
        BY <1>1, <1>2 DEF Whole
    <2> QED
        BY <1>5, <1>9, <2>1, ConcatEmptySeq
<1> QED
    BY <1>6, <1>7, <1>8, <1>9 DEF Inv

\* Every step, and none.
LEMMA NextInv == Inv /\ [Next]_vars => Inv'
<1> SUFFICES ASSUME Inv, [Next]_vars PROVE Inv'
    OBVIOUS
<1>1. CASE \E t \in Thread : \E f \in File : Open(t, f)
    BY <1>1, OpenKeeps
<1>2. CASE \E t \in Thread : LockRoot(t)
    BY <1>2, LockKeeps
<1>3. CASE \E t \in Thread : PrintLine(t)
    BY <1>3, PrintKeeps
<1>4. CASE \E t \in Thread : Flush(t)
    BY <1>4, FlushKeeps
<1>5. CASE \E t \in Thread : UnlockRoot(t)
    BY <1>5, UnlockKeeps
<1>6. CASE \E t \in Thread : Close(t)
    BY <1>6, CloseKeeps
<1>7. CASE \E t \in Thread : CloseFails(t)
    <2>1. UNCHANGED <<tree, root, at, file, todo, buffer, offset, content, printed, alone>>
        BY <1>7, Zenon DEF CloseFails
    <2> QED
        BY <2>1 DEF Inv, TypeOK, Apart, Whole
<1>8. CASE Change
    <2>1. tree' \in Seq(Line)
        BY <1>8, PrintAssumption DEF Change
    <2> QED
        BY <1>8, <2>1 DEF Change, Inv, TypeOK, Apart, Whole
<1>9. CASE UNCHANGED vars
    BY <1>9 DEF vars, Inv, TypeOK, Apart, Whole
<1> QED
    BY <1>1, <1>2, <1>3, <1>4, <1>5, <1>6, <1>7, <1>8, <1>9 DEF Next

\* Only fclose ends a print.
LEMMA OnlyCloseEnds ==
    ASSUME Inv, Next, NEW t \in Thread, at[t] = "unlocked", at'[t] = "idle"
    PROVE  Close(t)
<1>1. at \in [Thread -> {"idle"} \cup Opened]
    BY DEF Inv, TypeOK
<1>2. ASSUME NEW u \in Thread, NEW p \in {"opened", "locked", "unlocked"},
             at' = [at EXCEPT ![u] = p]
      PROVE  FALSE
    BY <1>1, <1>2
<1>3. ASSUME NEW u \in Thread,
             \/ \E f \in File : Open(u, f)
             \/ LockRoot(u) \/ PrintLine(u) \/ Flush(u) \/ UnlockRoot(u)
      PROVE  FALSE
    BY <1>2, <1>3 DEF Open, LockRoot, PrintLine, Flush, UnlockRoot, Goto
<1>4. ASSUME NEW u \in Thread, CloseFails(u) PROVE FALSE
    BY <1>4 DEF CloseFails
<1>5. ~Change
    BY DEF Change
<1>6. ASSUME NEW u \in Thread, Close(u) PROVE u = t
    BY <1>1, <1>6 DEF Close, Goto
<1> QED
    BY <1>3, <1>4, <1>5, <1>6 DEF Next

\* What a worker has written, what it has in its buffer and what it has yet
\* to print are together the tree it saw (the inductive invariant).
THEOREM Invariance == Spec => []Inv
<1> QED
    BY InitInv, NextInv, PTL DEF Spec

\* A print that had its file to itself leaves in it what the file system
\* was while the root was locked, whenever the file was emptied before
\* that and written after it, and in however many parts (fs.c:578).
THEOREM PrintsAreSnapshots == Spec => AloneIsSnapshot
<1> DEFINE Snapshot == \A t \in Thread :
               at[t] = "unlocked" /\ at'[t] = "idle" /\ alone[t] => content'[file[t]] = printed[t]
<1>1. Inv /\ [Next]_vars => [Snapshot]_vars
    <2> SUFFICES ASSUME Inv, Next,
                        NEW t \in Thread, at[t] = "unlocked", at'[t] = "idle", alone[t]
                 PROVE  content'[file[t]] = printed[t]
        OBVIOUS
    <2> QED
        BY OnlyCloseEnds, CloseKeeps
<1> QED
    BY <1>1, Invariance, PTL DEF Spec, AloneIsSnapshot

=============================================================================
