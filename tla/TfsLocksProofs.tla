----------------------------- MODULE TfsLocksProofs -----------------------------
(***************************************************************************)
(* For every table, set of threads, names and commands: which locks a      *)
(* thread has, beyond those it needs.  It has none that it has forgotten   *)
(* (SharedOwn, UniqueOwn), so a thread that waits for a command has none   *)
(* (OnlyMoveFailsLeaks); it asks of the table only what the table allows   *)
(* (TableIsUsedWell); and all threads lock in one order, so that they do   *)
(* not wait for one another (LocksAreTakenInOrder).  The first and the     *)
(* last have hypotheses: without them they are false, as the runs          *)
(* leaked_lock and move_deadlock show.                                     *)
(***************************************************************************)
EXTENDS TfsAtomicProofs

-----------------------------------------------------------------------------
\* What a sequence of inodes to unlock has in it.

Items(s) == {s[k] : k \in 1 .. Len(s)}

\* No inode twice.
Distinct(s) == \A j, k \in 1 .. Len(s) : s[j] = s[k] => j = k

\* Of the empty sequence.
LEMMA ItemsOfNone == Items(<<>>) = {} /\ Distinct(<<>>)
BY DEF Items, Distinct

\* Of two sequences, one after the other.
LEMMA ItemsOfConcat ==
    ASSUME NEW S, NEW a \in Seq(S), NEW b \in Seq(S)
    PROVE  /\ a \o b \in Seq(S) /\ Items(a \o b) = Items(a) \cup Items(b)
           /\ Distinct(a) /\ Distinct(b) /\ Items(a) \cap Items(b) = {} => Distinct(a \o b)
           /\ Distinct(a \o b) => Distinct(a) /\ Distinct(b) /\ Items(a) \cap Items(b) = {}
<1> DEFINE c == a \o b
<1>1. /\ c \in Seq(S) /\ Len(c) = Len(a) + Len(b) /\ Len(a) \in Nat /\ Len(b) \in Nat
      /\ \A i \in 1 .. Len(a) + Len(b) : c[i] = IF i <= Len(a) THEN a[i] ELSE b[i - Len(a)]
    BY ConcatProperties, LenProperties
<1> HIDE DEF c
<1>2. \A i \in 1 .. Len(a) : i \in 1 .. Len(c) /\ c[i] = a[i]
    BY <1>1
<1>3. \A i \in 1 .. Len(b) : i + Len(a) \in 1 .. Len(c) /\ c[i + Len(a)] = b[i]
    <2>1. \A m, n \in Nat : \A i \in 1 .. n :
              i + m \in 1 .. m + n /\ ~(i + m <= m) /\ (i + m) - m = i
        OBVIOUS
    <2> QED
        BY <1>1, <2>1
<1>4. \A i \in 1 .. Len(c) : \/ i \in 1 .. Len(a)
                             \/ i - Len(a) \in 1 .. Len(b) /\ i = (i - Len(a)) + Len(a)
    BY <1>1
<1>9. \A i \in 1 .. Len(c) : i - Len(a) \in 1 .. Len(b) => c[i] = b[i - Len(a)]
    BY <1>1
<1>5. Items(c) \subseteq Items(a) \cup Items(b)
    BY <1>2, <1>4, <1>9 DEF Items
<1>6. Items(a) \subseteq Items(c) /\ Items(b) \subseteq Items(c)
    BY <1>2, <1>3 DEF Items
<1>7. ASSUME Distinct(a), Distinct(b), Items(a) \cap Items(b) = {} PROVE Distinct(c)
    <2> SUFFICES ASSUME NEW j \in 1 .. Len(c), NEW k \in 1 .. Len(c), c[j] = c[k] PROVE j = k
        BY DEF Distinct
    <2>1. CASE j \in 1 .. Len(a) /\ k \in 1 .. Len(a)
        BY <1>2, <1>7, <2>1 DEF Distinct
    <2>2. CASE j - Len(a) \in 1 .. Len(b) /\ k - Len(a) \in 1 .. Len(b)
        <3>1. b[j - Len(a)] = c[j] /\ b[k - Len(a)] = c[k]
            BY <1>9, <2>2
        <3>2. j - Len(a) = k - Len(a)
            BY <1>7, <2>2, <3>1 DEF Distinct
        <3> QED
            BY <1>1, <3>2
    <2>3. ASSUME NEW m \in 1 .. Len(c), NEW n \in 1 .. Len(c), c[m] = c[n],
                 m \in 1 .. Len(a), n - Len(a) \in 1 .. Len(b)
          PROVE  FALSE
        <3>1. a[m] = c[m] /\ b[n - Len(a)] = c[n]
            BY <1>2, <1>9, <2>3
        <3>2. c[m] \in Items(a) /\ c[m] \in Items(b)
            BY <2>3, <3>1 DEF Items
        <3> QED
            BY <1>7, <3>2
    <2> QED
        BY <1>4, <2>1, <2>2, <2>3
<1>8. ASSUME Distinct(c) PROVE Distinct(a) /\ Distinct(b) /\ Items(a) \cap Items(b) = {}
    <2>1. Distinct(a)
        BY <1>2, <1>8 DEF Distinct
    <2>2. Distinct(b)
        <3> SUFFICES ASSUME NEW j \in 1 .. Len(b), NEW k \in 1 .. Len(b), b[j] = b[k] PROVE j = k
            BY DEF Distinct
        <3>1. j + Len(a) = k + Len(a)
            BY <1>3, <1>8 DEF Distinct
        <3> QED
            BY <1>1, <3>1
    <2>3. ASSUME NEW j \in 1 .. Len(a), NEW k \in 1 .. Len(b), a[j] = b[k] PROVE FALSE
        <3>1. j = k + Len(a)
            BY <1>2, <1>3, <1>8, <2>3 DEF Distinct
        <3> QED
            BY <1>1, <3>1
    <2> QED
        BY <2>1, <2>2, <2>3 DEF Items
<1> QED
    BY <1>1, <1>5, <1>6, <1>7, <1>8 DEF c

\* Of a sequence with one more inode.
LEMMA ItemsOfAppend ==
    ASSUME NEW S, NEW s \in Seq(S), NEW e \in S
    PROVE  /\ Append(s, e) \in Seq(S) /\ Items(Append(s, e)) = Items(s) \cup {e}
           /\ Distinct(s) /\ e \notin Items(s) => Distinct(Append(s, e))
<1>1. /\ Append(s, e) \in Seq(S) /\ Len(Append(s, e)) = Len(s) + 1 /\ Len(s) \in Nat
      /\ \A i \in 1 .. Len(s) : Append(s, e)[i] = s[i]
      /\ Append(s, e)[Len(s) + 1] = e
    BY AppendProperties, LenProperties
<1> DEFINE c == Append(s, e)
<1> HIDE DEF c
<1>2. \A i \in 1 .. Len(c) : i \in 1 .. Len(s) \/ i = Len(s) + 1
    BY <1>1 DEF c
<1>3. Len(s) + 1 \in 1 .. Len(c) /\ \A i \in 1 .. Len(s) : i \in 1 .. Len(c)
    BY <1>1 DEF c
<1>4. c[Len(s) + 1] = e /\ \A i \in 1 .. Len(s) : c[i] = s[i]
    BY <1>1 DEF c
<1>5. Items(c) \subseteq Items(s) \cup {e}
    BY <1>2, <1>4 DEF Items
<1>6. Items(s) \subseteq Items(c) /\ e \in Items(c)
    BY <1>3, <1>4 DEF Items
<1>7. ASSUME Distinct(s), e \notin Items(s) PROVE Distinct(c)
    <2>1. \A i \in 1 .. Len(s) : s[i] # e
        BY <1>7 DEF Items
    <2> QED
        BY <1>2, <1>4, <1>7, <2>1 DEF Distinct
<1> QED
    BY <1>1, <1>5, <1>6, <1>7 DEF c

\* Of a sequence without its first inode.
LEMMA ItemsOfTail ==
    ASSUME NEW S, NEW s \in Seq(S), s # <<>>
    PROVE  /\ Head(s) \in S /\ Tail(s) \in Seq(S) /\ Items(s) = {Head(s)} \cup Items(Tail(s))
           /\ Distinct(s) => Distinct(Tail(s)) /\ Head(s) \notin Items(Tail(s))
<1>1. /\ Head(s) \in S /\ Tail(s) \in Seq(S) /\ Len(Tail(s)) = Len(s) - 1 /\ Len(s) \in Nat
      /\ Len(s) >= 1 /\ \A i \in 1 .. Len(Tail(s)) : Tail(s)[i] = s[i + 1]
    BY HeadTailProperties, LenProperties, EmptySeq
<1>2. Head(s) = s[1]
    BY DEF Head
<1> DEFINE c == Tail(s)
<1> HIDE DEF c
<1>3. \A i \in 1 .. Len(c) : i + 1 \in 1 .. Len(s) /\ c[i] = s[i + 1] /\ i + 1 # 1
    BY <1>1 DEF c
<1>4. \A i \in 1 .. Len(s) : i = 1 \/ (i - 1 \in 1 .. Len(c) /\ c[i - 1] = s[i])
    BY <1>1 DEF c
<1>5. 1 \in 1 .. Len(s)
    BY <1>1
<1>6. Items(s) \subseteq {Head(s)} \cup Items(c)
    BY <1>2, <1>4 DEF Items
<1>7. Head(s) \in Items(s) /\ Items(c) \subseteq Items(s)
    BY <1>2, <1>3, <1>5 DEF Items
<1>8. ASSUME Distinct(s) PROVE Distinct(c) /\ Head(s) \notin Items(c)
    <2>1. Distinct(c)
        <3> SUFFICES ASSUME NEW j \in 1 .. Len(c), NEW k \in 1 .. Len(c), c[j] = c[k] PROVE j = k
            BY DEF Distinct
        <3>1. j + 1 = k + 1
            BY <1>3, <1>8 DEF Distinct
        <3> QED
            BY <3>1
    <2>2. \A k \in 1 .. Len(c) : c[k] # s[1]
        BY <1>3, <1>5, <1>8 DEF Distinct
    <2> QED
        BY <1>2, <2>1, <2>2 DEF Items
<1> QED
    BY <1>1, <1>6, <1>7, <1>8 DEF c

-----------------------------------------------------------------------------
\* What a thread may have: while it walks its way and the inode it works on,
\* then what it has still to unlock or free.

Has(t) ==
    CASE pc[t] = "idle" -> {}
      [] pc[t] \in Walking -> Held(t) \cup (IF pc[t] \in {"add", "child"} THEN {target[t]} ELSE {})
      [] OTHER -> Items(todo[t]) \cup (IF pc[t] \in {"undo", "free"} THEN {target[t]} ELSE {})

\* The cases of Has, as the provers need them.
LEMMA HasIs ==
    ASSUME NEW t
    PROVE  /\ pc[t] = "idle" => Has(t) = {}
           /\ pc[t] \in {"add", "child"} => Has(t) = Held(t) \cup {target[t]}
           /\ pc[t] \in Walking \ {"add", "child"} => Has(t) = Held(t)
           /\ pc[t] = "release" => Has(t) = Items(todo[t])
           /\ pc[t] \in {"undo", "free"} => Has(t) = Items(todo[t]) \cup {target[t]}
BY DEF Has, Walking

\* The same after a step.
LEMMA HasBecomes ==
    ASSUME NEW t
    PROVE  /\ pc'[t] = "idle" => Has(t)' = {}
           /\ pc'[t] \in {"add", "child"} => Has(t)' = Held(t)' \cup {target'[t]}
           /\ pc'[t] \in Walking \ {"add", "child"} => Has(t)' = Held(t)'
           /\ pc'[t] = "release" => Has(t)' = Items(todo'[t])
           /\ pc'[t] \in {"undo", "free"} => Has(t)' = Items(todo'[t]) \cup {target'[t]}
BY DEF Has, Walking

\* What a thread has on its way, by stretches.
LEMMA HeldParts ==
    ASSUME IInv, NEW t \in Thread
    PROVE  /\ locked[t]["common"] \in Seq(Inode) /\ locked[t]["orig"] \in Seq(Inode)
           /\ locked[t]["dest"] \in Seq(Inode)
           /\ AllLocked(t) \in Seq(Inode) /\ Held(t) = Items(AllLocked(t))
           /\ Held(t) = Items(locked[t]["common"]) \cup Items(locked[t]["orig"]) \cup Items(locked[t]["dest"])
<1> DEFINE x == locked[t]["common"]
           y == locked[t]["orig"]
           z == locked[t]["dest"]
<1>1. x \in Seq(Inode) /\ y \in Seq(Inode) /\ z \in Seq(Inode)
    BY IInvParts DEF ThreadTypeOK, Stage
<1>2. Held(t) = Items(x) \cup Items(y) \cup Items(z)
    <2>1. \A k \in 1 .. Len(x) : x[k] \in Inode
        BY <1>1, ElementOfSeq
    <2>2. \A k \in 1 .. Len(y) : y[k] \in Inode
        BY <1>1, ElementOfSeq
    <2>3. \A k \in 1 .. Len(z) : z[k] \in Inode
        BY <1>1, ElementOfSeq
    <2> QED
        BY <2>1, <2>2, <2>3 DEF Held, Items, Stage
<1>3. AllLocked(t) = (x \o y) \o z
    BY DEF AllLocked
<1> HIDE DEF x, y, z
<1>4. x \o y \in Seq(Inode) /\ Items(x \o y) = Items(x) \cup Items(y)
    BY <1>1, ItemsOfConcat
<1>5. (x \o y) \o z \in Seq(Inode) /\ Items((x \o y) \o z) = Items(x \o y) \cup Items(z)
    BY <1>1, <1>4, ItemsOfConcat
<1> QED
    BY <1>1, <1>2, <1>3, <1>4, <1>5 DEF x, y, z

\* Three sequences in a row.
LEMMA ThreeItems ==
    ASSUME NEW S, NEW a \in Seq(S), NEW b \in Seq(S), NEW c \in Seq(S)
    PROVE  /\ (a \o b) \o c \in Seq(S)
           /\ Items((a \o b) \o c) = Items(a) \cup Items(b) \cup Items(c)
           /\ Distinct((a \o b) \o c) <=>
                 /\ Distinct(a) /\ Distinct(b) /\ Distinct(c)
                 /\ Items(a) \cap Items(b) = {} /\ Items(a) \cap Items(c) = {} /\ Items(b) \cap Items(c) = {}
<1>1. /\ a \o b \in Seq(S) /\ Items(a \o b) = Items(a) \cup Items(b)
      /\ Distinct(a) /\ Distinct(b) /\ Items(a) \cap Items(b) = {} <=> Distinct(a \o b)
    BY ItemsOfConcat
<1> DEFINE d == a \o b
<1> HIDE DEF d
<1>2. /\ d \o c \in Seq(S) /\ Items(d \o c) = Items(d) \cup Items(c)
      /\ Distinct(d) /\ Distinct(c) /\ Items(d) \cap Items(c) = {} <=> Distinct(d \o c)
    BY <1>1, ItemsOfConcat DEF d
<1>3. /\ d \in Seq(S) /\ Items(d) = Items(a) \cup Items(b)
      /\ Distinct(a) /\ Distinct(b) /\ Items(a) \cap Items(b) = {} <=> Distinct(d)
    BY <1>1 DEF d
<1>4. Items(d) \cap Items(c) = {} <=> Items(a) \cap Items(c) = {} /\ Items(b) \cap Items(c) = {}
    BY <1>3
<1> QED
    BY <1>2, <1>3, <1>4 DEF d

\* tfs_fs_lock_all_from unlocks in an order of its own: nothing is left out,
\* and nothing is unlocked twice.
LEMMA WalkUnlocksAll ==
    ASSUME IInv, NEW t \in Thread, Way(t), WalkFails(t)
    PROVE  /\ WalkUnlocks(t) \in Seq(Inode) /\ Items(WalkUnlocks(t)) = Items(AllLocked(t))
           /\ Distinct(AllLocked(t)) => Distinct(WalkUnlocks(t))
<1> DEFINE x == locked[t]["common"]
           y == locked[t]["orig"]
           z == locked[t]["dest"]
<1>1. x \in Seq(Inode) /\ y \in Seq(Inode) /\ z \in Seq(Inode)
    BY IInvParts DEF ThreadTypeOK, Stage
<1>2. AllLocked(t) = (x \o y) \o z
    BY DEF AllLocked
<1>3. pc[t] = "walk" /\ pc[t] \in Walking /\ stage[t] \in {"common", "orig", "dest"}
    BY IInvParts DEF WalkFails, At, Walking, ThreadTypeOK, Stage
<1>4. CASE stage[t] = "common"
    <2>1. WalkUnlocks(t) = Append(Tail(x), Root) /\ Root \in Inode
        BY <1>4, BaseAssumption DEF WalkUnlocks, Root, Inode
    <2>2. y = <<>> /\ z = <<>>
        BY <1>3, <1>4 DEF Way, Placed, Stage
    <2>3. x # <<>>
        BY <1>3, IInvParts, Standing
    <2>4. x[1] = Root
        BY <1>3, <2>3 DEF Way, OnPath, Stage
    <2> HIDE DEF x, y, z
    <2>5. Head(x) = Root
        BY <1>1, <2>3, <2>4 DEF Head
    <2>6. /\ Tail(x) \in Seq(Inode) /\ Items(x) = {Root} \cup Items(Tail(x))
          /\ Distinct(x) => Distinct(Tail(x)) /\ Root \notin Items(Tail(x))
        BY <1>1, <2>3, <2>5, ItemsOfTail
    <2>7. /\ Append(Tail(x), Root) \in Seq(Inode) /\ Items(Append(Tail(x), Root)) = Items(Tail(x)) \cup {Root}
          /\ Distinct(Tail(x)) /\ Root \notin Items(Tail(x)) => Distinct(Append(Tail(x), Root))
        BY <2>1, <2>6, ItemsOfAppend
    <2>8. /\ Items((x \o y) \o z) = Items(x) \cup Items(y) \cup Items(z)
          /\ Distinct((x \o y) \o z) => Distinct(x)
        BY <1>1, ThreeItems
    <2>9. Items(y) = {} /\ Items(z) = {}
        BY <2>2, ItemsOfNone
    <2> QED
        BY <1>2, <2>1, <2>6, <2>7, <2>8, <2>9
<1>5. CASE stage[t] = "orig"
    <2>1. WalkUnlocks(t) = (y \o x) \o z
        BY <1>5 DEF WalkUnlocks
    <2> HIDE DEF x, y, z
    <2>2. /\ Items((x \o y) \o z) = Items(x) \cup Items(y) \cup Items(z)
          /\ Distinct((x \o y) \o z) =>
                 /\ Distinct(x) /\ Distinct(y) /\ Distinct(z)
                 /\ Items(x) \cap Items(y) = {} /\ Items(x) \cap Items(z) = {} /\ Items(y) \cap Items(z) = {}
        BY <1>1, ThreeItems
    <2>3. /\ (y \o x) \o z \in Seq(Inode)
          /\ Items((y \o x) \o z) = Items(y) \cup Items(x) \cup Items(z)
          /\ /\ Distinct(y) /\ Distinct(x) /\ Distinct(z)
             /\ Items(y) \cap Items(x) = {} /\ Items(y) \cap Items(z) = {} /\ Items(x) \cap Items(z) = {}
             => Distinct((y \o x) \o z)
        BY <1>1, ThreeItems
    <2> QED
        BY <1>2, <2>1, <2>2, <2>3
<1>6. CASE stage[t] = "dest"
    <2>1. WalkUnlocks(t) = (z \o x) \o y
        BY <1>6 DEF WalkUnlocks
    <2> HIDE DEF x, y, z
    <2>2. /\ Items((x \o y) \o z) = Items(x) \cup Items(y) \cup Items(z)
          /\ Distinct((x \o y) \o z) =>
                 /\ Distinct(x) /\ Distinct(y) /\ Distinct(z)
                 /\ Items(x) \cap Items(y) = {} /\ Items(x) \cap Items(z) = {} /\ Items(y) \cap Items(z) = {}
        BY <1>1, ThreeItems
    <2>3. /\ (z \o x) \o y \in Seq(Inode)
          /\ Items((z \o x) \o y) = Items(z) \cup Items(x) \cup Items(y)
          /\ /\ Distinct(z) /\ Distinct(x) /\ Distinct(y)
             /\ Items(z) \cap Items(x) = {} /\ Items(z) \cap Items(y) = {} /\ Items(x) \cap Items(y) = {}
             => Distinct((z \o x) \o y)
        BY <1>1, ThreeItems
    <2> QED
        BY <1>2, <2>1, <2>2, <2>3
<1> QED
    BY <1>3, <1>4, <1>5, <1>6

\* What a command that has its outcome unlocks: all that its thread has,
\* once; but for the child of a move whose new name is refused.
LEMMA EndingUnlocks ==
    ASSUME IInv, NEW t \in Thread, Way(t), Ending(t)
    PROVE  /\ shared' = shared /\ unique' = unique /\ target' = target /\ locked' = locked
           /\ pc[t] \in Walking /\ todo'[t] \in Seq(Inode)
           /\ \/ /\ pc'[t] = "release" /\ ~MoveFails(t)
                 /\ Items(todo'[t]) = Held(t) \cup (IF pc[t] \in {"add", "child"} THEN {target[t]} ELSE {})
              \/ /\ pc'[t] \in {"undo", "free"} /\ pc[t] \in {"add", "child"}
                 /\ Items(todo'[t]) = Held(t)
              \/ MoveFails(t) /\ pc[t] = "child" /\ pc'[t] = "release" /\ Items(todo'[t]) = Held(t)
           /\ Distinct(AllLocked(t)) => Distinct(todo'[t])
<1>1. ThreadTypeOK /\ Part(t) /\ TableTypeOK
    BY IInvParts
<1>2. AllLocked(t) \in Seq(Inode) /\ Held(t) = Items(AllLocked(t))
    BY HeldParts
<1>3. ASSUME NEW r, NEW i, NEW p, Finish(t, r, i, p)
      PROVE  target' = target /\ locked' = locked /\ todo'[t] = i /\ pc'[t] = p
    BY <1>1, <1>3 DEF Finish, ThreadTypeOK
<1>4. CASE WalkFails(t)
    <2>1. /\ shared' = shared /\ unique' = unique /\ pc[t] = "walk" /\ pc[t] \in Walking
          /\ Finish(t, WalkError(t), WalkUnlocks(t), "release")
        BY <1>4 DEF WalkFails, tableVars, At, Walking
    <2>2. target' = target /\ locked' = locked /\ todo'[t] = WalkUnlocks(t) /\ pc'[t] = "release"
        BY <1>3, <2>1
    <2>3. ~MoveFails(t)
        BY <2>1 DEF MoveFails, Transfers, At
    <2>4. /\ WalkUnlocks(t) \in Seq(Inode) /\ Items(WalkUnlocks(t)) = Items(AllLocked(t))
          /\ Distinct(AllLocked(t)) => Distinct(WalkUnlocks(t))
        BY <1>4, WalkUnlocksAll
    <2> QED
        BY <1>2, <2>1, <2>2, <2>3, <2>4
<1>5. CASE \/ Search(t) \/ ParentNotDir(t) \/ MoveSelf(t) \/ CommonAncestorNotDir(t)
           \/ MoveParentNotDir(t) \/ ChildMissing(t) \/ PrintDone(t)
    <2>1. /\ shared' = shared /\ unique' = unique /\ pc[t] \in {"found", "print"}
          /\ \E r : Finish(t, r, AllLocked(t), "release")
        BY <1>5 DEF Search, ParentNotDir, MoveSelf, CommonAncestorNotDir, MoveParentNotDir, ChildMissing,
            PrintDone, Fail, tableVars, At
    <2>2. target' = target /\ locked' = locked /\ todo'[t] = AllLocked(t) /\ pc'[t] = "release"
        BY <1>3, <2>1
    <2>3. ~MoveFails(t) /\ pc[t] \in Walking
        BY <2>1 DEF MoveFails, Transfers, At, Walking
    <2> QED
        BY <1>2, <2>1, <2>2, <2>3
<1>6. CASE CreateFails(t) \/ RemoveChild(t) \/ MoveFails(t)
    <2>1. /\ shared' = shared /\ unique' = unique /\ pc[t] \in {"add", "child"}
          /\ \/ \E r : pc[t] = "add" /\ Finish(t, r, AllLocked(t), "undo")
             \/ \E r : pc[t] = "child" /\ Finish(t, r, AllLocked(t), "free")
             \/ \E r : MoveFails(t) /\ pc[t] = "child" /\ Finish(t, r, AllLocked(t), "release")
        BY <1>6 DEF CreateFails, RemoveChild, MoveFails, Transfers, Fail, tableVars, At
    <2>2. /\ target' = target /\ locked' = locked /\ todo'[t] = AllLocked(t)
          /\ \/ pc'[t] \in {"undo", "free"} \/ (MoveFails(t) /\ pc[t] = "child" /\ pc'[t] = "release")
        BY <1>3, <2>1
    <2> QED
        BY <1>2, <2>1, <2>2 DEF Walking
<1>7. CASE CreateEntry(t) \/ RemoveNonEmpty(t) \/ RenameChild(t) \/ RenameFails(t) \/ MoveChild(t)
    <2>1. /\ shared' = shared /\ unique' = unique /\ pc[t] \in {"add", "child"}
          /\ \E r : Finish(t, r, LockedAndChild(t), "release")
        BY <1>7 DEF CreateEntry, RemoveNonEmpty, RenameChild, RenameFails, Renames, MoveChild, Transfers,
            tableVars, At
    <2>2. target' = target /\ locked' = locked /\ todo'[t] = LockedAndChild(t) /\ pc'[t] = "release"
        BY <1>3, <2>1
    <2>3. ~MoveFails(t)
        <3>1. MoveFails(t) => cmd[t].op = "move" /\ pc[t] = "child" /\ Legs(cmd[t]) # <<>> /\ result'[t] = "AddEntry"
            BY FinishOutcome DEF MoveFails, Transfers, Fail, At
        <3>2. CreateEntry(t) => pc[t] = "add"
            BY DEF CreateEntry, At
        <3>3. RemoveNonEmpty(t) => cmd[t].op = "remove"
            BY DEF RemoveNonEmpty
        <3>4. RenameChild(t) \/ RenameFails(t) => Legs(cmd[t]) = <<>>
            BY DEF RenameChild, RenameFails, Renames
        <3>5. MoveChild(t) => result'[t] = "success"
            BY FinishOutcome DEF MoveChild
        <3> QED
            BY <1>7, <3>1, <3>2, <3>3, <3>4, <3>5
    <2>4. target[t] \in Inode /\ target[t] \notin Held(t)
        <3>1. target[t] \in Inode
            BY <1>1, <2>1 DEF Part, Located
        <3>2. CASE pc[t] = "add"
            BY <1>1, <3>1, <3>2 DEF Part, Owned, Held, Stage
        <3>3. CASE pc[t] = "child"
            BY <3>1, <3>3 DEF Way, Ready
        <3> QED
            BY <2>1, <3>1, <3>2, <3>3
    <2>5. /\ LockedAndChild(t) \in Seq(Inode) /\ Items(LockedAndChild(t)) = Items(AllLocked(t)) \cup {target[t]}
          /\ Distinct(AllLocked(t)) => Distinct(LockedAndChild(t))
        BY <1>2, <2>4, ItemsOfAppend DEF LockedAndChild
    <2> QED
        BY <1>2, <2>1, <2>2, <2>3, <2>5 DEF Walking
<1> QED
    BY <1>4, <1>5, <1>6, <1>7 DEF Ending

-----------------------------------------------------------------------------
\* No thread has a lock that it has forgotten.

SharedOwn(t) == \A i \in Inode : t \in shared[i] => i \in Has(t)
UniqueOwn(t) == \A i \in Inode : t \in unique[i] => i \in Has(t)

\* A step of t gives no lock to another thread.
LEMMA OthersGainNone ==
    ASSUME IInv, NEW t \in Thread, Step(t), NEW u \in Thread \ {t}, NEW i \in Inode
    PROVE  (u \in shared'[i] => u \in shared[i]) /\ (u \in unique'[i] => u \in unique[i])
<1>1. TableTypeOK /\ TableStep(t)
    BY IInvParts, StepKeeps DEF Kept, Step
<1>2. CASE UNCHANGED tableVars
    BY <1>2 DEF tableVars
<1>3. CASE \E j \in Inode, access \in Access : LockInode(t, j, access)
    BY <1>1, <1>3 DEF LockInode, TableTypeOK
<1>4. CASE \E j \in Inode : UnlockInode(t, j) \/ RemoveInode(t, j)
    BY <1>1, <1>4 DEF UnlockInode, RemoveInode, TableTypeOK
<1>5. CASE \E j \in Inode, ty \in InodeType : TakeInode(t, j, ty)
    BY <1>1, <1>5 DEF TakeInode, TableTypeOK
<1>6. CASE dir' \in [Inode -> Dir] /\ UNCHANGED <<type, shared, unique>>
    BY <1>6
<1> QED
    BY <1>1, <1>2, <1>3, <1>4, <1>5, <1>6 DEF TableStep

\* A step of t leaves what other threads have.
LEMMA OthersHas ==
    ASSUME IInv, NEW t \in Thread, Step(t), NEW u \in Thread \ {t}
    PROVE  Has(u)' = Has(u)
<1>1. pc'[u] = pc[u] /\ target'[u] = target[u] /\ locked'[u] = locked[u] /\ todo'[u] = todo[u]
    BY StepFacts DEF OthersStay
<1> QED
    BY <1>1 DEF Has, Held

\* What a thread has while its locks stay as they are.
LEMMA HeldStays ==
    ASSUME NEW t, locked'[t] = locked[t]
    PROVE  Held(t)' = Held(t)
BY DEF Held

\* The steps of t itself.  Where it takes a lock it says so, and what it lets
\* go of is what it had.
LEMMA HasFollows ==
    ASSUME IInv, Tree, NEW t \in Thread, Step(t)
    PROVE  \A i \in Inode :
              /\ t \in shared'[i] => t \in shared[i] \/ i \in Has(t)'
              /\ t \in unique'[i] => t \in unique[i] \/ i \in Has(t)'
              /\ i \in Has(t) /\ i \notin Has(t)' =>
                    /\ t \notin shared'[i]
                    /\ t \in unique'[i] => MoveFails(t)
<1>1. TableTypeOK /\ ThreadTypeOK /\ WriterAlone /\ Part(t) /\ Way(t)
    BY IInvParts DEF Tree
<1>2. CASE Ending(t)
    <2>1. /\ shared' = shared /\ unique' = unique /\ target' = target /\ locked' = locked
          /\ pc[t] \in Walking
          /\ \/ /\ pc'[t] = "release" /\ ~MoveFails(t)
                /\ Items(todo'[t]) = Held(t) \cup (IF pc[t] \in {"add", "child"} THEN {target[t]} ELSE {})
             \/ /\ pc'[t] \in {"undo", "free"} /\ pc[t] \in {"add", "child"}
                /\ Items(todo'[t]) = Held(t)
             \/ MoveFails(t) /\ pc[t] = "child" /\ pc'[t] = "release" /\ Items(todo'[t]) = Held(t)
        BY <1>1, <1>2, EndingUnlocks
    <2>2. CASE MoveFails(t) /\ pc[t] = "child" /\ pc'[t] = "release" /\ Items(todo'[t]) = Held(t)
        <3>1. Has(t) = Held(t) \cup {target[t]} /\ Has(t)' = Held(t)
            BY <2>2, HasIs, HasBecomes
        <3>2. target[t] \in Inode /\ t \in unique[target[t]]
            BY <1>1, <2>2 DEF Part, Located, Owned
        <3>3. shared[target[t]] = {}
            BY <1>1, <3>2 DEF WriterAlone
        <3> QED
            BY <2>1, <2>2, <3>1, <3>3
    <2>3. CASE pc'[t] \in {"undo", "free"} /\ pc[t] \in {"add", "child"} /\ Items(todo'[t]) = Held(t)
        <3>1. Has(t) = Held(t) \cup {target[t]} /\ Has(t)' = Held(t) \cup {target[t]}
            BY <2>1, <2>3, HasIs, HasBecomes
        <3> QED
            BY <2>1, <3>1
    <2>4. CASE /\ pc'[t] = "release"
               /\ Items(todo'[t]) = Held(t) \cup (IF pc[t] \in {"add", "child"} THEN {target[t]} ELSE {})
        <3>1. Has(t)' = Items(todo'[t])
            BY <2>4, HasBecomes
        <3>2. Has(t) = Held(t) \cup (IF pc[t] \in {"add", "child"} THEN {target[t]} ELSE {})
            BY <2>1, HasIs
        <3> QED
            BY <2>1, <2>4, <3>1, <3>2
    <2> QED
        BY <2>1, <2>2, <2>3, <2>4
<1>3. CASE Receive(t) \/ ReceiveRejected(t)
    <2>1. pc[t] = "idle" /\ UNCHANGED tableVars
        BY <1>3 DEF Receive, ReceiveRejected, At
    <2> QED
        BY <2>1, HasIs DEF tableVars
<1>4. CASE Stopping(t)
    <2>1. UNCHANGED <<tableVars, pc, target, locked, todo>>
        BY <1>4 DEF Stopping, LockErrno, TableFull, Abort, threadVars
    <2>2. Has(t)' = Has(t)
        BY <2>1 DEF Has, Held
    <2> QED
        BY <2>1, <2>2 DEF tableVars
<1>5. CASE \/ Walk(t) \/ CreateScan(t) \/ SkipSlot(t) \/ MoveLeg(t) \/ FindChild(t)
           \/ PrintStart(t) \/ PrintVisit(t)
    <2>1. UNCHANGED <<tableVars, locked>>
        BY <1>5 DEF Walk, CreateScan, SkipSlot, MoveLeg, FindChild, PrintStart, PrintVisit, Goto
    <2>2. /\ pc[t] \in Walking \ {"add", "child"}
          /\ pc'[t] \in Walking \ {"add", "child"}
        BY <1>1, <1>5 DEF Walk, CreateScan, SkipSlot, MoveLeg, FindChild, PrintStart, PrintVisit, Goto, At,
            ThreadTypeOK, Walking
    <2>3. Has(t)' = Has(t)
        BY <2>1, <2>2, HasIs, HasBecomes, HeldStays
    <2> QED
        BY <2>1, <2>3 DEF tableVars
<1>6. CASE Lock(t)
    <2>1. /\ pc[t] = "lock" /\ pc'[t] \in {"found", "walk"} /\ LockInode(t, target[t], Wanted(t))
          /\ locked' = [locked EXCEPT ![t][stage[t]] = Append(@, target[t])]
        BY <1>1, <1>6 DEF Lock, At, ThreadTypeOK
    <2>2. target[t] \in Inode /\ stage[t] \in Stage
        BY <1>1, <2>1 DEF Part, Located, ThreadTypeOK
    <2>3. Held(t)' = Held(t) \cup {target[t]}
        <3>1. \A s \in Stage : locked[t][s] \in Seq(Inode)
            BY <1>1 DEF ThreadTypeOK
        <3>2. \A s \in Stage : locked'[t][s] = IF s = stage[t] THEN Append(locked[t][s], target[t]) ELSE locked[t][s]
            BY <1>1, <2>1, <2>2 DEF ThreadTypeOK
        <3>3. \A i \in Inode : i \in Held(t) <=> \E s \in Stage : i \in Items(locked[t][s])
            BY DEF Held, Items
        <3>4. \A i \in Inode : i \in Held(t)' <=> \E s \in Stage : i \in Items(locked'[t][s])
            BY DEF Held, Items
        <3>5. Items(Append(locked[t][stage[t]], target[t])) = Items(locked[t][stage[t]]) \cup {target[t]}
            BY <2>2, <3>1, ItemsOfAppend
        <3>6. Held(t) \subseteq Inode /\ Held(t)' \subseteq Inode
            BY DEF Held
        <3> QED
            BY <2>2, <3>2, <3>3, <3>4, <3>5, <3>6
    <2>4. Has(t) = Held(t) /\ Has(t)' = Held(t)'
        BY <2>1, HasIs, HasBecomes DEF Walking
    <2>5. \A i \in Inode \ {target[t]} : shared'[i] = shared[i] /\ unique'[i] = unique[i]
        BY <1>1, <2>1, <2>2 DEF LockInode, TableTypeOK
    <2> QED
        BY <2>3, <2>4, <2>5
<1>7. CASE LockChild(t) \/ TakeSlot(t)
    <2>1. /\ pc[t] \in {"lockchild", "scan"} /\ pc'[t] \in {"add", "child"} /\ target'[t] = target[t]
          /\ locked' = locked
        BY <1>1, <1>7 DEF LockChild, TakeSlot, Goto, At, ThreadTypeOK
    <2>2. Has(t) = Held(t) /\ Has(t)' = Held(t) \cup {target[t]}
        BY <2>1, HasIs, HasBecomes, HeldStays DEF Walking
    <2>3. \A i \in Inode \ {target[t]} : shared'[i] = shared[i] /\ unique'[i] = unique[i]
        BY <1>1, <1>7 DEF LockChild, TakeSlot, LockInode, TakeInode, TableTypeOK
    <2> QED
        BY <2>2, <2>3
<1>8. CASE FreeInode(t)
    <2>1. /\ pc[t] \in {"free", "undo"} /\ pc'[t] = "release" /\ todo' = todo
          /\ RemoveInode(t, target[t])
        BY <1>1, <1>8 DEF FreeInode, At, ThreadTypeOK
    <2>2. Has(t) = Items(todo[t]) \cup {target[t]} /\ Has(t)' = Items(todo[t])
        BY <2>1, HasIs, HasBecomes
    <2>3. target[t] \in Inode /\ t \in unique[target[t]]
        BY <1>1, <2>1 DEF Part, Located, Owned
    <2>4. shared[target[t]] = {}
        BY <1>1, <2>3 DEF WriterAlone
    <2>5. /\ shared' = shared /\ t \notin unique'[target[t]]
          /\ \A i \in Inode : unique'[i] \subseteq unique[i]
        BY <1>1, <2>1, <2>3 DEF RemoveInode, TableTypeOK
    <2> QED
        BY <2>2, <2>4, <2>5
<1>9. CASE Unlock(t)
    <2>1. /\ pc[t] \in {"release", "undo"} /\ pc' = pc /\ target' = target /\ todo[t] # <<>>
          /\ todo'[t] = Tail(todo[t]) /\ UnlockInode(t, Head(todo[t]))
        BY <1>1, <1>9 DEF Unlock, At, ThreadTypeOK
    <2>2. Head(todo[t]) \in Inode /\ Items(todo[t]) = {Head(todo[t])} \cup Items(Tail(todo[t]))
        BY <1>1, <2>1, ItemsOfTail DEF ThreadTypeOK
    <2>3. Has(t) \subseteq Has(t)' \cup {Head(todo[t])}
        BY <2>1, <2>2, HasIs, HasBecomes
    <2>4. /\ t \notin shared'[Head(todo[t])] /\ t \notin unique'[Head(todo[t])]
          /\ \A i \in Inode : shared'[i] \subseteq shared[i] /\ unique'[i] \subseteq unique[i]
        BY <1>1, <2>1, <2>2 DEF UnlockInode, TableTypeOK
    <2> QED
        BY <2>3, <2>4
<1>10. CASE Reply(t)
    <2>1. pc[t] = "release" /\ todo[t] = <<>> /\ UNCHANGED tableVars
        BY <1>10 DEF Reply, At
    <2>2. Has(t) = {}
        BY <2>1, HasIs, ItemsOfNone
    <2> QED
        BY <2>1, <2>2 DEF tableVars
<1> QED
    BY <1>2, <1>3, <1>4, <1>5, <1>6, <1>7, <1>8, <1>9, <1>10, StepKinds DEF WalkingOn, LettingGo

\* Every step keeps the locks known; but for the one of MoveFails.
LEMMA OwnStays ==
    ASSUME IInv, Tree, NEW t \in Thread, Step(t), NEW u \in Thread
    PROVE  /\ SharedOwn(u) => SharedOwn(u)'
           /\ UniqueOwn(u) /\ ~MoveFails(t) => UniqueOwn(u)'
<1>1. CASE u = t
    BY <1>1, HasFollows DEF SharedOwn, UniqueOwn
<1>2. CASE u # t
    <2>1. u \in Thread \ {t}
        BY <1>2
    <2> QED
        BY <2>1, OthersGainNone, OthersHas DEF SharedOwn, UniqueOwn
<1> QED
    BY <1>1, <1>2

\* At the beginning nothing is locked.
LEMMA InitOwn == Init => \A t \in Thread : SharedOwn(t) /\ UniqueOwn(t)
BY DEF Init, TableInit, SharedOwn, UniqueOwn

\* A step of nobody changes nothing.
LEMMA StutterOwn ==
    ASSUME UNCHANGED vars, NEW t \in Thread
    PROVE  SharedOwn(t)' = SharedOwn(t) /\ UniqueOwn(t)' = UniqueOwn(t)
BY DEF vars, tableVars, threadVars, SharedOwn, UniqueOwn, Has, Held

\* Nothing is refused to a move between two directories because of its name.
NoLeak == [][\A t \in Thread : ~MoveFails(t)]_vars

\* Both are inductive.
LEMMA NextOwn ==
    ASSUME IInv, Tree, [Next]_vars
    PROVE  /\ (\A t \in Thread : SharedOwn(t)) => (\A t \in Thread : SharedOwn(t))'
           /\ (\A t \in Thread : UniqueOwn(t)) /\ [\A t \in Thread : ~MoveFails(t)]_vars =>
                 (\A t \in Thread : UniqueOwn(t))'
<1>1. CASE UNCHANGED vars
    BY <1>1, StutterOwn
<1>2. CASE Next /\ ~UNCHANGED vars
    <2>1. PICK t \in Thread : Step(t)
        BY <1>2 DEF Next, Step
    <2> QED
        BY <1>2, <2>1, OwnStays
<1> QED
    BY <1>1, <1>2

\* A thread has an inode for reading only while it is one of those it counts as
\* locked: on its way, or in a loop that unlocks (fs.c:176).
THEOREM SharedLocksAreKnown == Spec => [](\A t \in Thread : SharedOwn(t))
<1>1. Init => \A t \in Thread : SharedOwn(t)
    BY InitOwn
<1>2. IInv /\ Tree /\ [Next]_vars /\ (\A t \in Thread : SharedOwn(t)) => (\A t \in Thread : SharedOwn(t))'
    BY NextOwn
<1> QED
    BY <1>1, <1>2, TreeInvariance, PTL DEF Spec

\* The same for writing, as long as no move between two directories is refused
\* its name (fs.c:538).
THEOREM LocksAreKnown == Spec /\ NoLeak => [](\A t \in Thread : UniqueOwn(t))
<1>1. Init => \A t \in Thread : UniqueOwn(t)
    BY InitOwn
<1>2. IInv /\ Tree /\ [Next]_vars /\ (\A t \in Thread : UniqueOwn(t)) /\ [\A t \in Thread : ~MoveFails(t)]_vars
          => (\A t \in Thread : UniqueOwn(t))'
    BY NextOwn
<1> QED
    BY <1>1, <1>2, TreeInvariance, PTL DEF Spec, NoLeak

\* A worker that waits for a command has nothing locked (fs.h:365): of all the
\* ways through fs.c, the one of MoveFails is the only one that leaves a lock.
THEOREM OnlyMoveFailsLeaks == Spec /\ NoLeak => []IdleHoldsNothing
<1>1. (\A t \in Thread : SharedOwn(t)) /\ (\A t \in Thread : UniqueOwn(t)) => IdleHoldsNothing
    BY HasIs DEF SharedOwn, UniqueOwn, IdleHoldsNothing, Holders
<1> QED
    BY <1>1, SharedLocksAreKnown, LocksAreKnown, PTL

-----------------------------------------------------------------------------
\* The paths of the inodes a thread has locked.

\* TrodLeads, with all that is locked in the stretch s and before.
LEMMA TrodAll ==
    ASSUME IInv, Structure, NEW t \in Thread, Way(t), Complete(t), pc[t] \in Walking,
           locked[t]["common"] # <<>>, NEW s \in Stage, s = "common" \/ stage[t] # "common"
    PROVE  /\ Trod(t, s) \in EntryPath
           /\ \E c : /\ IsWay(dir, Trod(t, s), c)
                     /\ \A j \in 1 .. Len(locked[t]["common"]) :
                           \E k \in 0 .. Len(Trod(t, s)) : c[k] = locked[t]["common"][j]
                     /\ \A j \in 1 .. Len(locked[t][s]) :
                           \E k \in 0 .. Len(Trod(t, s)) : c[k] = locked[t][s][j]
<1>1. CASE s = "common"
    <2> DEFINE w == Len(locked[t]["common"]) - 1
               c == [k \in 0 .. w |-> locked[t]["common"][k + 1]]
    <2>1. /\ Trod(t, s) \in EntryPath /\ Len(Trod(t, s)) = w /\ w \in Nat /\ IsWay(dir, Trod(t, s), c)
        BY <1>1, CommonTrod
    <2>2. ASSUME NEW j \in 1 .. Len(locked[t]["common"])
          PROVE  \E k \in 0 .. w : c[k] = locked[t]["common"][j]
        <3>1. j - 1 \in 0 .. w /\ (j - 1) + 1 = j
            BY <2>1
        <3>2. c[j - 1] = locked[t]["common"][j]
            BY <3>1
        <3> QED
            BY <3>1, <3>2
    <2> HIDE DEF c
    <2> QED
        BY <1>1, <2>1, <2>2
<1>2. CASE s # "common"
    <2>1. /\ Trod(t, s) \in EntryPath
          /\ \E c : /\ IsWay(dir, Trod(t, s), c) /\ c[Len(Trod(t, s))] = Foot(t, s)
                    /\ \A k \in 0 .. Len(Trod(t, s)) : c[k] \in Held(t)
                    /\ \A j \in 1 .. Len(locked[t]["common"]) :
                          \E k \in 0 .. Len(Trod(t, s)) : c[k] = locked[t]["common"][j]
                    /\ \A j \in 1 .. Len(locked[t][s]) :
                          \E k \in 0 .. Len(Trod(t, s)) : c[k] = locked[t][s][j]
        BY <1>2, LegTrod
    <2> QED
        BY <2>1
<1> QED
    BY <1>1, <1>2

\* Each of them is reached by the first part of the path.
LEMMA HeldByPath ==
    ASSUME IInv, Structure, NEW t \in Thread, Way(t), Complete(t), pc[t] \in Walking,
           locked[t]["common"] # <<>>, NEW s \in Stage, s = "common" \/ stage[t] # "common",
           NEW i, i \in Items(locked[t]["common"]) \cup Items(locked[t][s])
    PROVE  \E q \in EntryPath : Leads(dir, q, i) /\ Len(q) <= Len(Trod(t, s)) /\ Under(q, Trod(t, s))
<1> DEFINE p == Trod(t, s)
<1>1. /\ p \in EntryPath
      /\ \E c : /\ IsWay(dir, p, c)
                /\ \A j \in 1 .. Len(locked[t]["common"]) : \E k \in 0 .. Len(p) : c[k] = locked[t]["common"][j]
                /\ \A j \in 1 .. Len(locked[t][s]) : \E k \in 0 .. Len(p) : c[k] = locked[t][s][j]
    BY TrodAll
<1> HIDE DEF p
<1>2. PICK c : /\ IsWay(dir, p, c)
               /\ \A j \in 1 .. Len(locked[t]["common"]) : \E k \in 0 .. Len(p) : c[k] = locked[t]["common"][j]
               /\ \A j \in 1 .. Len(locked[t][s]) : \E k \in 0 .. Len(p) : c[k] = locked[t][s][j]
    BY <1>1
<1>3. PICK k \in 0 .. Len(p) : c[k] = i
    BY <1>2 DEF Items
<1>4. /\ SubSeq(p, 1, k) \in EntryPath /\ Len(SubSeq(p, 1, k)) = k
      /\ Leads(dir, SubSeq(p, 1, k), c[k])
    BY <1>1, <1>2, PartLeads
<1>5. Len(p) \in Nat
    BY <1>1, LenProperties DEF EntryPath
<1>6. IsPrefix(SubSeq(p, 1, k), p)
    BY <1>4, <1>5 DEF IsPrefix
<1>7. Under(SubSeq(p, 1, k), p)
    BY <1>1, <1>4, <1>6, PrefixIsUnder
<1> DEFINE q == SubSeq(p, 1, k)
<1>8. q \in EntryPath /\ Leads(dir, q, i) /\ Len(q) <= Len(p) /\ Under(q, p)
    BY <1>3, <1>4, <1>5, <1>7
<1> HIDE DEF q
<1> QED
    BY <1>8 DEF p

\* The inode a thread waits for comes after all that.
LEMMA TargetByPath ==
    ASSUME IInv, Structure, NEW t \in Thread, Way(t), Complete(t), pc[t] = "lock",
           locked[t]["common"] # <<>>
    PROVE  \E n \in EntryName :
              /\ Extend(Trod(t, stage[t]), n) \in EntryPath /\ Leads(dir, Extend(Trod(t, stage[t]), n), target[t])
              /\ target[t] \in Inode /\ Trod(t, stage[t]) \in EntryPath
              /\ Len(Extend(Trod(t, stage[t]), n)) = Len(Trod(t, stage[t])) + 1
              /\ n = Stretch(cmd[t], stage[t])[Len(Stretch(cmd[t], stage[t])) - Len(rest[t])]
<1>1. pc[t] \in Walking /\ stage[t] \in Stage /\ TableTypeOK
    BY IInvParts DEF Walking, ThreadTypeOK
<1>2. /\ Trod(t, stage[t]) \in EntryPath /\ Leads(dir, Trod(t, stage[t]), Cur(t)) /\ Cur(t) \in Inode
    BY <1>1, TrodLeads, FeetAre
<1> DEFINE comps == Stretch(cmd[t], stage[t])
           n == comps[Len(comps) - Len(rest[t])]
<1>3. HasEntry(dir[Cur(t)], n, target[t])
    BY DEF Way, AtTarget, Links, HasEntry
<1> HIDE DEF n
<1>4. n \in EntryName /\ target[t] \in Inode
    BY <1>1, <1>2, <1>3, HasTypes
<1>5. Extend(Trod(t, stage[t]), n) \in EntryPath /\ Leads(dir, Extend(Trod(t, stage[t]), n), target[t])
    BY <1>2, <1>3, <1>4, ExtendPath, LeadsExtend
<1>6. Len(Extend(Trod(t, stage[t]), n)) = Len(Trod(t, stage[t])) + 1
    BY <1>2, <1>4, AppendProperties DEF Extend, EntryPath
<1> QED
    BY <1>2, <1>4, <1>5, <1>6 DEF n

-----------------------------------------------------------------------------
\* No thread asks for an inode it has.

\* A path begins what the path it begins begins.
LEMMA UnderTwice ==
    ASSUME NEW p \in EntryPath, NEW q \in EntryPath, NEW r \in EntryPath, Under(p, q), Under(q, r)
    PROVE  Under(p, r)
<1>1. PICK s \in EntryPath : q = Join(p, s)
    BY DEF Under
<1>2. PICK u \in EntryPath : r = Join(q, u)
    BY DEF Under
<1>3. r = Join(p, Join(s, u)) /\ Join(s, u) \in EntryPath
    BY <1>1, <1>2, JoinTwice, JoinPath
<1> QED
    BY <1>3 DEF Under

\* A path begins what it is made to by one more name.
LEMMA UnderExtend ==
    ASSUME NEW p \in EntryPath, NEW n \in EntryName
    PROVE  Under(p, Extend(p, n))
<1>1. <<>> \in EntryPath
    BY DEF EntryPath
<1>2. Extend(<<>>, n) \in EntryPath
    BY <1>1, ExtendPath
<1>3. Extend(p, n) = Join(p, Extend(<<>>, n))
    BY <1>1, ExtendJoin, JoinPath
<1> QED
    BY <1>2, <1>3 DEF Under

\* The first part of what follows p, after p.
LEMMA UnderJoin ==
    ASSUME NEW p \in EntryPath, NEW q \in EntryPath, NEW r \in EntryPath, Under(q, r)
    PROVE  Under(Join(p, q), Join(p, r))
<1>1. PICK s \in EntryPath : r = Join(q, s)
    BY DEF Under
<1>2. Join(p, r) = Join(Join(p, q), s)
    BY <1>1, JoinTwice
<1> QED
    BY <1>2 DEF Under

\* The first part of a path begins it.
LEMMA UnderFirst ==
    ASSUME NEW p \in EntryPath, NEW w \in 0 .. Len(p)
    PROVE  SubSeq(p, 1, w) \in EntryPath /\ Under(SubSeq(p, 1, w), p)
<1>1. Len(p) \in Nat /\ w \in Nat /\ p \in Seq(EntryName)
    BY LenProperties DEF EntryPath
<1>2. CASE w = Len(p)
    <2>1. <<>> \in EntryPath
        BY DEF EntryPath
    <2>2. SubSeq(p, 1, w) = p
        BY <1>1, <1>2, SubSeqFull
    <2>3. p = Join(p, <<>>)
        BY <2>1, JoinPath
    <2> QED
        BY <2>1, <2>2, <2>3 DEF Under
<1>3. CASE w # Len(p)
    <2>1. w \in 0 .. Len(p) - 1
        BY <1>1, <1>3
    <2> DEFINE q == SubSeq(p, 1, w)
               n == p[w + 1]
               s == SubSeq(p, w + 2, Len(p))
    <2>2. q \in EntryPath /\ n \in EntryName /\ s \in EntryPath /\ p = Join(Extend(q, n), s)
        BY <2>1, SplitAt
    <2> HIDE DEF q, n, s
    <2>3. Under(Extend(q, n), p) /\ Extend(q, n) \in EntryPath
        BY <2>2, ExtendPath DEF Under
    <2>4. Under(q, p)
        BY <2>2, <2>3, UnderExtend, UnderTwice
    <2> QED
        BY <2>2, <2>4 DEF q
<1> QED
    BY <1>2, <1>3

\* The parents of a move are on its paths.
LEMMA FullPathUnder ==
    ASSUME NEW c \in Command, c.op = "move"
    PROVE  /\ Under(FullPath(c, "orig"), c.path) /\ Under(FullPath(c, "dest"), c.dest)
<1>1. c.path \in EntryPath /\ c.dest \in EntryPath
    BY ParentsAreWalked, PathIsEntryPath
<1>2. \A p \in EntryPath : Under(p, p)
    <2>1. <<>> \in EntryPath
        BY DEF EntryPath
    <2> QED
        BY <2>1, JoinPath DEF Under
<1>3. Under(FullPath(c, "orig"), c.path)
    BY <1>1, <1>2, ParentsAreWalked, UnderExtend
<1>4. Under(FullPath(c, "dest"), c.dest)
    BY <1>1, <1>2, ParentsAreWalked, UnderExtend
<1> QED
    BY <1>3, <1>4

\* Below the common ancestor the two are apart.
LEMMA LegsApart ==
    ASSUME NEW c \in Command, c.op = "move", NEW q \in EntryPath,
           Under(q, FullPath(c, "orig")), Under(q, FullPath(c, "dest"))
    PROVE  Len(q) <= Len(Stretch(c, "common")) /\ Len(Stretch(c, "common")) \in Nat
<1> DEFINE p == c.path
           d == c.dest
<1>1. p \in Path /\ d \in Path /\ p \in EntryPath /\ d \in EntryPath
    BY ParentsAreWalked, PathIsEntryPath
<1>2. Under(q, p) /\ Under(q, d)
    BY <1>1, FullPathUnder, ParentsAreWalked, UnderTwice
<1>3. Stretch(c, "common") = CommonAncestor(p, d)
    BY DEF Stretch
<1> HIDE DEF p, d
<1>4. /\ Len(q) \in 0 .. Len(p) /\ q = SubSeq(p, 1, Len(q))
      /\ Len(q) \in 0 .. Len(d) /\ q = SubSeq(d, 1, Len(q))
    BY <1>1, <1>2, UnderPart
<1>5. SharedLen(p, d) \in 0 .. Len(p) /\ Len(p) \in Nat
    BY <1>1, SharedLenBound, LenProperties DEF Path
<1>6. Len(CommonAncestor(p, d)) = SharedLen(p, d)
    BY <1>1, <1>5, FirstPart DEF CommonAncestor, Path
<1>7. CASE Len(q) = 0
    BY <1>3, <1>5, <1>6, <1>7
<1>8. CASE Len(q) # 0
    <2>1. Len(q) \in Agreeing(p, d)
        BY <1>4, <1>8 DEF Agreeing
    <2>2. Len(q) <= SharedLen(p, d)
        BY <1>1, <2>1, AgreeAtMost
    <2> QED
        BY <1>3, <1>5, <1>6, <2>2
<1> QED
    BY <1>7, <1>8

\* What a thread has walked is the first part of where it walks to.
LEMMA TrodUnder ==
    ASSUME IInv, Structure, NEW t \in Thread, Way(t), Complete(t), pc[t] \in Walking,
           locked[t]["common"] # <<>>, NEW s \in {"orig", "dest"}, stage[t] # "common"
    PROVE  /\ Under(Trod(t, s), FullPath(cmd[t], s)) /\ FullPath(cmd[t], s) \in EntryPath
           /\ Trod(t, s) \in EntryPath /\ Len(Trod(t, s)) >= Len(Stretch(cmd[t], "common"))
           /\ Len(Trod(t, s)) \in Nat /\ Len(Stretch(cmd[t], "common")) \in Nat
           /\ cmd[t] \in Command /\ cmd[t].op = "move"
<1>1. /\ cmd[t] \in Command /\ cmd[t].op = "move" /\ Placed(t) /\ s \in Stage
    BY IInvParts DEF Part, Located, Walked, Way, Walking, Stage
<1>2. /\ Stretch(cmd[t], "common") \in EntryPath
      /\ Stretch(cmd[t], s) \in EntryPath
      /\ Len(locked[t][s]) \in 0 .. Len(Stretch(cmd[t], s))
    <2>1. Stretch(cmd[t], "common") \in Path /\ Stretch(cmd[t], s) \in Path
        BY <1>1, StretchIsPath DEF Stage, Path
    <2>2. Len(locked[t][s]) \in 0 .. Len(Stretch(cmd[t], s))
        BY <1>1, LockedLen
    <2> QED
        BY <2>1, <2>2, PathIsEntryPath
<1> DEFINE a == Stretch(cmd[t], "common")
           b == Stretch(cmd[t], s)
           w == Len(locked[t][s])
           r == SubSeq(b, 1, w)
<1>3. Trod(t, s) = Join(a, r) /\ FullPath(cmd[t], s) = Join(a, b)
    BY DEF Trod, FullPath
<1>4. r \in EntryPath /\ Under(r, b)
    BY <1>2, UnderFirst
<1> HIDE DEF a, b, r
<1>5. Under(Join(a, r), Join(a, b)) /\ Join(a, r) \in EntryPath /\ Join(a, b) \in EntryPath
    BY <1>2, <1>4, UnderJoin, JoinPath DEF a, b
<1>6. Len(Join(a, r)) = Len(a) + Len(r) /\ Len(a) \in Nat /\ Len(r) \in Nat
    BY <1>2, <1>4, ConcatProperties, LenProperties DEF Join, EntryPath, a
<1> QED
    BY <1>1, <1>3, <1>5, <1>6 DEF a

\* So is the inode it waits for.
LEMMA TargetUnder ==
    ASSUME IInv, Structure, NEW t \in Thread, Way(t), Complete(t), pc[t] = "lock",
           locked[t]["common"] # <<>>, stage[t] # "common"
    PROVE  \E n \in EntryName :
              /\ Extend(Trod(t, stage[t]), n) \in EntryPath /\ Leads(dir, Extend(Trod(t, stage[t]), n), target[t])
              /\ Len(Extend(Trod(t, stage[t]), n)) = Len(Trod(t, stage[t])) + 1
              /\ Under(Extend(Trod(t, stage[t]), n), FullPath(cmd[t], stage[t]))
<1>1. /\ cmd[t] \in Command /\ stage[t] \in Stage /\ stage[t] \in {"orig", "dest"} /\ pc[t] \in Walking
      /\ rest[t] \in Seq(Name) /\ Placed(t)
    BY IInvParts DEF ThreadTypeOK, Part, Located, Way, Walking, Stage
<1> DEFINE a == Stretch(cmd[t], "common")
           b == Stretch(cmd[t], stage[t])
           w == Len(locked[t][stage[t]])
           r == SubSeq(b, 1, w)
<1>2. a \in EntryPath /\ b \in EntryPath
    <2>1. a \in Path /\ b \in Path
        BY <1>1, StretchIsPath DEF Stage, Path
    <2> QED
        BY <2>1, PathIsEntryPath
<1>3. Len(b) \in Nat /\ Len(rest[t]) \in Nat /\ w \in Nat
    <2>1. locked[t][stage[t]] \in Seq(Inode)
        BY <1>1, IInvParts DEF ThreadTypeOK
    <2> QED
        BY <1>1, <1>2, <2>1, LenProperties DEF EntryPath
<1>4. w = Len(b) - Len(rest[t]) - 1
    <2>1. w = Len(b) - Len(rest[t]) + 0 - 1
        BY <1>1 DEF Placed, Walking
    <2> QED
        BY <1>3, <2>1
<1> HIDE DEF b, w
<1>5. w \in 0 .. Len(b) - 1 /\ Len(b) - Len(rest[t]) = w + 1
    BY <1>3, <1>4
<1>6. r \in EntryPath /\ b[w + 1] \in EntryName /\ Under(Extend(r, b[w + 1]), b)
    BY <1>2, <1>5, SplitAt DEF Under
<1>7. PICK n \in EntryName :
              /\ Extend(Trod(t, stage[t]), n) \in EntryPath /\ Leads(dir, Extend(Trod(t, stage[t]), n), target[t])
              /\ Len(Extend(Trod(t, stage[t]), n)) = Len(Trod(t, stage[t])) + 1
              /\ n = b[w + 1]
    BY <1>5, TargetByPath DEF b
<1>8. Trod(t, stage[t]) = Join(a, r) /\ FullPath(cmd[t], stage[t]) = Join(a, b)
    BY <1>1 DEF Trod, FullPath, b, w
<1> HIDE DEF a, r
<1>9. Under(Join(a, Extend(r, n)), Join(a, b))
    BY <1>2, <1>6, <1>7, UnderJoin, ExtendPath
<1>10. Extend(Join(a, r), n) = Join(a, Extend(r, n))
    BY <1>2, <1>6, <1>7, ExtendJoin
<1> QED
    BY <1>7, <1>8, <1>9, <1>10

\* No thread waits for an inode it has already.
LEMMA TargetNotHeld ==
    ASSUME IInv, Tree, Course, NEW t \in Thread, pc[t] = "lock"
    PROVE  target[t] \notin Held(t)
<1> SUFFICES ASSUME target[t] \in Held(t) PROVE FALSE
    OBVIOUS
<1>1. /\ Structure /\ Tidy(dir) /\ Way(t) /\ Complete(t) /\ Part(t) /\ stage[t] \in {"common", "orig", "dest"}
      /\ pc[t] \in Walking /\ stage[t] \in Stage
    BY IInvParts, TreeIsTidy DEF Tree, Course, Walking, ThreadTypeOK, Stage
<1>2. Held(t) = Items(locked[t]["common"]) \cup Items(locked[t]["orig"]) \cup Items(locked[t]["dest"])
    BY HeldParts
<1>3. stage[t] = "common" => Items(locked[t]["orig"]) = {} /\ Items(locked[t]["dest"]) = {}
    <2>1. stage[t] = "common" => locked[t]["orig"] = <<>> /\ locked[t]["dest"] = <<>>
        BY <1>1 DEF Way, Placed, Stage
    <2> QED
        BY <2>1, ItemsOfNone
<1>4. locked[t]["common"] # <<>>
    <2>1. locked[t]["common"] = <<>> => stage[t] = "common"
        BY <1>1 DEF Way, AtTarget
    <2> QED
        BY <1>2, <1>3, <2>1, ItemsOfNone
<1>5. PICK n \in EntryName :
          /\ Extend(Trod(t, stage[t]), n) \in EntryPath /\ Leads(dir, Extend(Trod(t, stage[t]), n), target[t])
          /\ Trod(t, stage[t]) \in EntryPath
          /\ Len(Extend(Trod(t, stage[t]), n)) = Len(Trod(t, stage[t])) + 1
    BY <1>1, <1>4, TargetByPath
<1>6. CASE target[t] \in Items(locked[t]["common"]) \cup Items(locked[t][stage[t]])
    <2>1. PICK q \in EntryPath : Leads(dir, q, target[t]) /\ Len(q) <= Len(Trod(t, stage[t]))
        BY <1>1, <1>4, <1>6, HeldByPath
    <2>2. q = Extend(Trod(t, stage[t]), n)
        BY <1>1, <1>5, <2>1, OnePath
    <2>3. Len(Trod(t, stage[t])) \in Nat
        BY <1>5, LenProperties DEF EntryPath
    <2> QED
        BY <1>5, <2>1, <2>2, <2>3
<1>7. CASE target[t] \notin Items(locked[t]["common"]) \cup Items(locked[t][stage[t]])
    <2>1. PICK s \in {"orig", "dest"} : target[t] \in Items(locked[t][s]) /\ s # stage[t]
        BY <1>2, <1>7
    <2>2. stage[t] \in {"orig", "dest"} /\ stage[t] # "common"
        BY <1>1, <1>3, <2>1
    <2>3. PICK q \in EntryPath : Leads(dir, q, target[t]) /\ Under(q, Trod(t, s))
        BY <1>1, <1>4, <2>1, <2>2, HeldByPath DEF Stage
    <2>4. PICK m \in EntryName :
              /\ Extend(Trod(t, stage[t]), m) \in EntryPath /\ Leads(dir, Extend(Trod(t, stage[t]), m), target[t])
              /\ Len(Extend(Trod(t, stage[t]), m)) = Len(Trod(t, stage[t])) + 1
              /\ Under(Extend(Trod(t, stage[t]), m), FullPath(cmd[t], stage[t]))
        BY <1>1, <1>4, <2>2, TargetUnder
    <2>5. q = Extend(Trod(t, stage[t]), m)
        BY <1>1, <2>3, <2>4, OnePath
    <2>6. Under(q, FullPath(cmd[t], stage[t])) /\ Len(q) = Len(Trod(t, stage[t])) + 1
        BY <2>4, <2>5
    <2>7. Under(q, FullPath(cmd[t], s))
        BY <1>1, <1>4, <2>2, <2>3, TrodUnder, UnderTwice
    <2>8. /\ cmd[t] \in Command /\ cmd[t].op = "move"
          /\ Len(Trod(t, stage[t])) >= Len(Stretch(cmd[t], "common"))
          /\ Len(Trod(t, stage[t])) \in Nat /\ Len(Stretch(cmd[t], "common")) \in Nat
        BY <1>1, <1>4, <2>2, TrodUnder
    <2>9. Under(q, FullPath(cmd[t], "orig")) /\ Under(q, FullPath(cmd[t], "dest"))
        BY <2>1, <2>2, <2>6, <2>7
    <2>10. Len(q) <= Len(Stretch(cmd[t], "common"))
        BY <2>8, <2>9, LegsApart
    <2> QED
        BY <2>6, <2>8, <2>10
<1> QED
    BY <1>6, <1>7

-----------------------------------------------------------------------------
\* How the table is used: nothing is locked twice, and what is left to unlock
\* is locked.

Once(t) == pc[t] \in Walking => Distinct(AllLocked(t))
Left(t) ==
    /\ pc[t] \in Walking \cup {"idle"} => todo[t] = <<>>
    /\ pc[t] \notin Walking \cup {"idle"} =>
          /\ Distinct(todo[t])
          /\ \A i \in Items(todo[t]) : t \in Holders(i) /\ type[i] # "none"
    /\ pc[t] = "free" => target[t] \notin Items(todo[t])

\* Every step keeps the locks of its own thread apart.
LEMMA OnceStays ==
    ASSUME IInv, Tree, Course, NEW t \in Thread, Step(t), Once(t)
    PROVE  Once(t)'
<1>1. TableTypeOK /\ ThreadTypeOK /\ Part(t) /\ Way(t)
    BY IInvParts DEF Tree
<1>2. CASE locked'[t] = locked[t] /\ pc[t] \in Walking
    BY <1>2 DEF Once, AllLocked
<1>3. CASE pc'[t] \notin Walking
    BY <1>3 DEF Once
<1>4. CASE pc[t] = "idle" /\ locked' = locked
    <2>1. locked'[t]["common"] = <<>> /\ locked'[t]["orig"] = <<>> /\ locked'[t]["dest"] = <<>>
        BY <1>1, <1>4 DEF Part, Located, Stage
    <2>2. AllLocked(t)' = (<<>> \o <<>>) \o <<>>
        BY <2>1 DEF AllLocked
    <2>3. (<<>> \o <<>>) \o <<>> = <<>>
        OBVIOUS
    <2>4. AllLocked(t)' = <<>>
        BY <2>2, <2>3
    <2> QED
        BY <2>4, ItemsOfNone DEF Once
<1>5. CASE Lock(t)
    <2>1. /\ pc[t] = "lock" /\ locked' = [locked EXCEPT ![t][stage[t]] = Append(@, target[t])]
          /\ pc[t] \in Walking
        BY <1>5 DEF Lock, At, Walking
    <2>2. target[t] \in Inode /\ stage[t] \in Stage /\ Stage = {"common", "orig", "dest"}
        BY <1>1, <2>1 DEF Part, Located, ThreadTypeOK, Stage
    <2>3. target[t] \notin Held(t)
        BY <2>1, TargetNotHeld
    <2>4. /\ \A s \in Stage : locked[t][s] \in Seq(Inode)
          /\ \A s \in Stage : locked'[t][s] = IF s = stage[t] THEN Append(locked[t][s], target[t]) ELSE locked[t][s]
        BY <1>1, <2>1, <2>2 DEF ThreadTypeOK
    <2>5. /\ Distinct(locked[t]["common"]) /\ Distinct(locked[t]["orig"]) /\ Distinct(locked[t]["dest"])
          /\ Items(locked[t]["common"]) \cap Items(locked[t]["orig"]) = {}
          /\ Items(locked[t]["common"]) \cap Items(locked[t]["dest"]) = {}
          /\ Items(locked[t]["orig"]) \cap Items(locked[t]["dest"]) = {}
        <3>1. Distinct((locked[t]["common"] \o locked[t]["orig"]) \o locked[t]["dest"])
            BY <2>1 DEF Once, AllLocked
        <3> QED
            BY <2>2, <2>4, <3>1, ThreeItems
    <2>6. \A s \in Stage : target[t] \notin Items(locked[t][s])
        BY <2>2, <2>3, HeldParts
    <2>7. \A s \in Stage :
              /\ locked'[t][s] \in Seq(Inode) /\ Distinct(locked'[t][s])
              /\ Items(locked'[t][s]) = Items(locked[t][s]) \cup (IF s = stage[t] THEN {target[t]} ELSE {})
        <3> TAKE s \in Stage
        <3>1. CASE s = stage[t]
            <4>1. locked[t][s] \in Seq(Inode) /\ Distinct(locked[t][s]) /\ target[t] \notin Items(locked[t][s])
                BY <2>2, <2>4, <2>5, <2>6
            <4>2. locked'[t][s] = Append(locked[t][s], target[t])
                BY <2>4, <3>1
            <4>3. /\ Append(locked[t][s], target[t]) \in Seq(Inode) /\ Distinct(Append(locked[t][s], target[t]))
                  /\ Items(Append(locked[t][s], target[t])) = Items(locked[t][s]) \cup {target[t]}
                BY <2>2, <4>1, ItemsOfAppend
            <4> QED
                BY <3>1, <4>2, <4>3
        <3>2. CASE s # stage[t]
            BY <2>2, <2>4, <2>5, <3>2
        <3> QED
            BY <3>1, <3>2
    <2>8. /\ Items(locked'[t]["common"]) \cap Items(locked'[t]["orig"]) = {}
          /\ Items(locked'[t]["common"]) \cap Items(locked'[t]["dest"]) = {}
          /\ Items(locked'[t]["orig"]) \cap Items(locked'[t]["dest"]) = {}
        BY <2>2, <2>5, <2>6, <2>7
    <2>9. Distinct((locked'[t]["common"] \o locked'[t]["orig"]) \o locked'[t]["dest"])
        BY <2>2, <2>7, <2>8, ThreeItems
    <2> QED
        BY <2>9 DEF Once, AllLocked
<1>6. CASE Ending(t)
    <2>1. pc'[t] \in {"release", "undo", "free"}
        BY <1>6, EndingDecides
    <2> QED
        BY <1>3, <2>1 DEF Walking
<1>7. CASE WalkingOn(t) /\ ~Lock(t)
    <2>1. locked' = locked
        BY <1>7 DEF WalkingOn, Walk, CreateScan, SkipSlot, TakeSlot, MoveLeg, FindChild, LockChild,
            PrintStart, PrintVisit, Goto
    <2>2. pc[t] \in Walking
        BY <1>7, WalksOn
    <2> QED
        BY <1>2, <2>1, <2>2
<1>8. CASE LettingGo(t)
    <2>1. pc'[t] \notin Walking
        BY <1>8, LetsGo
    <2> QED
        BY <1>3, <2>1
<1>9. CASE Receive(t) \/ ReceiveRejected(t)
    <2>1. pc[t] = "idle" /\ locked' = locked
        BY <1>9 DEF Receive, ReceiveRejected, At
    <2> QED
        BY <1>4, <2>1
<1>10. CASE Reply(t)
    <2>1. pc'[t] = "idle"
        BY <1>1, <1>10 DEF Reply, ThreadTypeOK
    <2> QED
        BY <1>3, <2>1 DEF Walking
<1>11. CASE Stopping(t)
    <2>1. pc' = pc /\ locked' = locked
        BY <1>11 DEF Stopping, LockErrno, TableFull, Abort, threadVars
    <2> QED
        BY <1>2, <1>3, <2>1
<1> QED
    BY <1>5, <1>6, <1>7, <1>8, <1>9, <1>10, <1>11, StepKinds

\* What a thread has on its way is in use.
LEMMA HeldInUse ==
    ASSUME IInv, Structure, NEW t \in Thread, Way(t), pc[t] \in Walking, NEW i \in Held(t)
    PROVE  i \in Inode /\ t \in Holders(i) /\ type[i] # "none"
<1>1. i \in Inode /\ t \in Holders(i)
    BY HeldByThread DEF Held
<1>2. CASE i = Root
    BY <1>1, <1>2 DEF Structure
<1>3. CASE i # Root
    <2>1. PICK d \in Held(t), n \in EntryName : HasEntry(dir[d], n, i)
        BY <1>3, HeldClosed
    <2>2. d \in Inode
        BY DEF Held
    <2> QED
        BY <1>1, <2>1, <2>2 DEF Structure, EntriesFit
<1> QED
    BY <1>1, <1>2, <1>3

\* Every step leaves its own thread with what it has locked to unlock.
LEMMA LeftStays ==
    ASSUME IInv, Tree, NEW t \in Thread, Step(t), Once(t), Left(t)
    PROVE  Left(t)'
<1>1. TableTypeOK /\ ThreadTypeOK /\ WriterAlone /\ Part(t) /\ Way(t) /\ Structure
    BY IInvParts DEF Tree
<1> DEFINE Mine(i) == t \in Holders(i)' /\ type'[i] # "none"
<1>2. Left(t)' <=>
          /\ pc'[t] \in Walking \cup {"idle"} => todo'[t] = <<>>
          /\ pc'[t] \notin Walking \cup {"idle"} => Distinct(todo'[t]) /\ \A i \in Items(todo'[t]) : Mine(i)
          /\ pc'[t] = "free" => target'[t] \notin Items(todo'[t])
    BY DEF Left
<1>3. CASE Ending(t)
    <2>1. /\ shared' = shared /\ unique' = unique /\ target' = target /\ pc[t] \in Walking
          /\ \/ /\ pc'[t] = "release"
                /\ Items(todo'[t]) \subseteq Held(t) \cup (IF pc[t] \in {"add", "child"} THEN {target[t]} ELSE {})
             \/ /\ pc'[t] \in {"undo", "free"} /\ pc[t] \in {"add", "child"} /\ Items(todo'[t]) = Held(t)
          /\ Distinct(AllLocked(t)) => Distinct(todo'[t])
        BY <1>1, <1>3, EndingUnlocks
    <2>2. type' = type
        BY <1>3 DEF Ending, WalkFails, Search, ParentNotDir, CreateEntry, CreateFails, MoveSelf,
            CommonAncestorNotDir, MoveParentNotDir, ChildMissing, RemoveNonEmpty, RemoveChild, RenameChild,
            RenameFails, MoveChild, MoveFails, PrintDone, Fail, tableVars
    <2>3. Distinct(todo'[t])
        BY <2>1 DEF Once
    <2>4. \A i \in Held(t) : t \in Holders(i) /\ type[i] # "none"
        BY <1>1, <2>1, HeldInUse
    <2>5. pc[t] \in {"add", "child"} =>
              t \in Holders(target[t]) /\ type[target[t]] # "none" /\ target[t] \notin Held(t)
        <3>1. CASE pc[t] = "add"
            <4>1. t \in Holders(target[t])
                BY <1>1, <3>1 DEF Part, Owned, Holders
            <4>2. type[target[t]] # "none"
                BY <1>1, <3>1 DEF Structure, TransitBare
            <4>3. target[t] \notin Held(t)
                BY <1>1, <3>1 DEF Part, Owned, Held
            <4> QED
                BY <4>1, <4>2, <4>3
        <3>2. CASE pc[t] = "child"
            BY <1>1, <3>2 DEF Part, Owned, Holders, Way, AtTarget, Ready, Links
        <3> QED
            BY <3>1, <3>2
    <2>6. \A i \in Items(todo'[t]) : Mine(i)
        BY <2>1, <2>2, <2>4, <2>5 DEF Holders
    <2> QED
        BY <1>2, <2>1, <2>3, <2>5, <2>6 DEF Walking
<1>4. CASE WalkingOn(t) \/ Receive(t)
    <2>1. todo' = todo
        BY <1>4 DEF WalkingOn, Lock, Walk, CreateScan, SkipSlot, TakeSlot, MoveLeg, FindChild, LockChild,
            PrintStart, PrintVisit, Goto, Receive
    <2>2. pc[t] \in Walking \cup {"idle"} /\ pc'[t] \in Walking
        <3>1. CASE WalkingOn(t)
            BY <3>1, WalksOn
        <3>2. CASE Receive(t)
            BY <1>1, <3>2 DEF Receive, At, Walking, ThreadTypeOK
        <3> QED
            BY <1>4, <3>1, <3>2
    <2> QED
        BY <1>2, <2>1, <2>2 DEF Left, Walking
<1>5. CASE ReceiveRejected(t)
    <2>1. pc[t] = "idle" /\ pc'[t] = "release" /\ todo' = todo
        BY <1>1, <1>5 DEF ReceiveRejected, At, ThreadTypeOK
    <2>2. todo'[t] = <<>>
        BY <2>1 DEF Left
    <2> QED
        BY <1>2, <2>1, <2>2, ItemsOfNone DEF Walking
<1>6. CASE Reply(t)
    <2>1. pc'[t] = "idle" /\ todo' = todo /\ todo[t] = <<>>
        BY <1>1, <1>6 DEF Reply, ThreadTypeOK
    <2> QED
        BY <1>2, <2>1
<1>7. CASE Stopping(t)
    <2>1. UNCHANGED <<tableVars, pc, target, todo>>
        BY <1>7 DEF Stopping, LockErrno, TableFull, Abort, threadVars
    <2>2. UNCHANGED <<type, shared, unique, pc, target, todo>>
        BY <2>1 DEF tableVars
    <2> QED
        BY <2>2 DEF Left, Holders
<1>8. CASE FreeInode(t)
    <2>1. /\ pc[t] \in {"free", "undo"} /\ pc'[t] = "release" /\ todo' = todo
          /\ RemoveInode(t, target[t])
          /\ pc[t] = "undo" => todo[t] = <<>>
        BY <1>1, <1>8 DEF FreeInode, At, ThreadTypeOK
    <2>2. target[t] \notin Items(todo[t])
        BY <2>1, ItemsOfNone DEF Left
    <2>3. Items(todo[t]) \subseteq Inode
        <3>1. todo[t] \in Seq(Inode)
            BY <1>1 DEF ThreadTypeOK
        <3> QED
            BY <3>1, ElementOfSeq DEF Items
    <2>4. \A i \in Inode \ {target[t]} : unique'[i] = unique[i] /\ shared'[i] = shared[i] /\ type'[i] = type[i]
        BY <1>1, <2>1 DEF RemoveInode, TableTypeOK
    <2>5. Distinct(todo[t]) /\ \A i \in Items(todo[t]) : t \in Holders(i) /\ type[i] # "none"
        BY <2>1 DEF Left, Walking
    <2>6. \A i \in Items(todo[t]) : Mine(i)
        BY <2>2, <2>3, <2>4, <2>5 DEF Holders
    <2> QED
        BY <1>2, <2>1, <2>5, <2>6 DEF Walking
<1>9. CASE Unlock(t)
    <2>1. /\ pc[t] \in {"release", "undo"} /\ pc' = pc /\ todo[t] # <<>> /\ type' = type
          /\ todo'[t] = Tail(todo[t]) /\ UnlockInode(t, Head(todo[t]))
        BY <1>1, <1>9 DEF Unlock, UnlockInode, At, ThreadTypeOK
    <2>2. todo[t] \in Seq(Inode)
        BY <1>1 DEF ThreadTypeOK
    <2>3. Distinct(todo[t]) /\ \A i \in Items(todo[t]) : t \in Holders(i) /\ type[i] # "none"
        BY <2>1 DEF Left, Walking
    <2>4. /\ Head(todo[t]) \in Inode /\ Items(todo[t]) = {Head(todo[t])} \cup Items(Tail(todo[t]))
          /\ Distinct(Tail(todo[t])) /\ Head(todo[t]) \notin Items(Tail(todo[t]))
          /\ Tail(todo[t]) \in Seq(Inode)
        BY <2>1, <2>2, <2>3, ItemsOfTail
    <2>5. Items(Tail(todo[t])) \subseteq Inode
        BY <2>4, ElementOfSeq DEF Items
    <2>6. \A i \in Inode \ {Head(todo[t])} : unique'[i] = unique[i] /\ shared'[i] = shared[i]
        BY <1>1, <2>1, <2>4 DEF UnlockInode, TableTypeOK
    <2>7. \A i \in Items(Tail(todo[t])) : Mine(i)
        BY <2>1, <2>3, <2>4, <2>5, <2>6 DEF Holders
    <2> QED
        BY <1>2, <2>1, <2>4, <2>7 DEF Walking
<1> QED
    BY <1>3, <1>4, <1>5, <1>6, <1>7, <1>8, <1>9, StepKinds DEF LettingGo

\* And so it leaves the other threads.
LEMMA UseOfOthers ==
    ASSUME IInv, NEW t \in Thread, Step(t), NEW u \in Thread \ {t}
    PROVE  (Once(u) => Once(u)') /\ (Left(u) => Left(u)')
<1>1. OthersStay(t) /\ ThreadTypeOK
    BY StepFacts
<1>2. /\ pc'[u] = pc[u] /\ todo'[u] = todo[u] /\ locked'[u] = locked[u] /\ target'[u] = target[u]
    BY <1>1 DEF OthersStay
<1>3. Once(u) => Once(u)'
    BY <1>2 DEF Once, AllLocked
<1>4. Items(todo[u]) \subseteq Inode
    <2>1. todo[u] \in Seq(Inode)
        BY <1>1 DEF ThreadTypeOK
    <2> QED
        BY <2>1, ElementOfSeq DEF Items
<1>5. \A i \in Items(todo[u]) : u \in Holders(i) => u \in Holders(i)' /\ type'[i] = type[i]
    BY <1>4, OthersHold
<1>6. Left(u) => Left(u)'
    BY <1>2, <1>5 DEF Left
<1> QED
    BY <1>3, <1>6

\* Both are inductive.
LEMMA UseIsKept ==
    ASSUME IInv, Tree, Course, \A t \in Thread : Once(t) /\ Left(t), [Next]_vars
    PROVE  (\A t \in Thread : Once(t) /\ Left(t))'
<1>1. ASSUME NEW t \in Thread, Step(t), NEW u \in Thread PROVE Once(u)' /\ Left(u)'
    <2>1. CASE u = t
        BY <1>1, <2>1, OnceStays, LeftStays
    <2>2. CASE u # t
        BY <1>1, <2>2, UseOfOthers
    <2> QED
        BY <2>1, <2>2
<1>2. CASE UNCHANGED vars
    <2>1. UNCHANGED <<type, shared, unique, pc, target, todo, locked>>
        BY <1>2 DEF vars, tableVars, threadVars
    <2> QED
        BY <2>1 DEF Once, Left, AllLocked, Holders
<1>3. CASE Next
    <2>1. PICK t \in Thread : Step(t)
        BY <1>3 DEF Next, Step
    <2> QED
        BY <1>1, <2>1
<1> QED
    BY <1>2, <1>3

\* They hold at the beginning.
LEMMA InitUse == Init => \A t \in Thread : Once(t) /\ Left(t)
BY DEF Init, ThreadInit, Once, Left, Walking

\* An entry is linked, unlinked and renamed by the writer of its directory.
LEMMA WritesADirectory ==
    ASSUME IInv, Tree, NEW t \in Thread,
           CreateEntry(t) \/ RemoveChild(t) \/ RenameChild(t) \/ MoveChild(t)
    PROVE  MayWrite(t)
<1>1. TableTypeOK /\ ThreadTypeOK /\ WriterAlone /\ Part(t) /\ Way(t) /\ pc[t] \in {"add", "child"}
    BY IInvParts DEF Tree, CreateEntry, RemoveChild, RenameChild, Renames, MoveChild, Transfers, At
<1>2. UNCHANGED <<type, shared, unique>>
    BY DEF CreateEntry, RemoveChild, RenameChild, MoveChild
<1>3. /\ t \in unique[Cur(t)] /\ t \in unique[OrigParent(t)]
      /\ cmd[t].op = "move" => t \in unique[DestParent(t)]
    BY <1>1, ParentsOwned
<1>4. Cur(t) \in Inode /\ OrigParent(t) \in Inode /\ DestParent(t) \in Inode
    BY <1>1, Standing DEF Walking
<1>5. \A i \in Inode : dir'[i] # dir[i] => t \in unique[i] /\ type[i] = "dir"
    <2>1. CASE CreateEntry(t)
        <3>1. type[Cur(t)] = "dir"
            BY <1>1, <2>1 DEF CreateEntry, At, Way, Ready
        <3> QED
            BY <1>1, <1>3, <1>4, <2>1, <3>1 DEF CreateEntry, TableTypeOK
    <2>2. CASE RemoveChild(t) \/ RenameChild(t)
        <3>1. pc[t] = "child" /\ (cmd[t].op # "move" \/ Legs(cmd[t]) = <<>>)
            BY <2>2 DEF RemoveChild, RenameChild, Renames, At
        <3>2. stage[t] = "common" /\ locked[t]["orig"] = <<>>
            <4>1. cmd[t].op # "move" => stage[t] = "common" /\ locked[t]["orig"] = <<>>
                BY <1>1 DEF Part, Walked, Stage
            <4>2. cmd[t].op = "move" /\ Legs(cmd[t]) = <<>> =>
                      Stretch(cmd[t], "orig") = <<>> /\ Stretch(cmd[t], "dest") = <<>>
                BY LegsShape
            <4>3. cmd[t].op = "move" /\ Legs(cmd[t]) = <<>> => stage[t] = "common" /\ locked[t]["orig"] = <<>>
                BY <1>1, <4>2 DEF Part, Walked, ThreadTypeOK, Stage
            <4> QED
                BY <3>1, <4>1, <4>3
        <3>3. Cur(t) = OrigParent(t)
            BY <3>2 DEF Cur, OrigParent
        <3>4. type[Cur(t)] = "dir"
            BY <1>1, <3>1, <3>3 DEF Way, Ready
        <3>5. \A i \in Inode : i # Cur(t) => dir'[i] = dir[i]
            BY <1>1, <1>4, <2>2 DEF RemoveChild, RenameChild, TableTypeOK
        <3> QED
            BY <1>3, <3>4, <3>5
    <2>3. CASE MoveChild(t)
        <3>1. pc[t] = "child" /\ cmd[t].op = "move" /\ dir' = Transferred(t)
            BY <2>3 DEF MoveChild, Transfers, At
        <3>2. type[OrigParent(t)] = "dir" /\ type[DestParent(t)] = "dir"
            BY <1>1, <3>1 DEF Way, Ready
        <3>3. \A i \in Inode : i # OrigParent(t) /\ i # DestParent(t) => dir'[i] = dir[i]
            BY <1>1, <1>4, <3>1 DEF Transferred, TableTypeOK
        <3> QED
            BY <1>3, <3>1, <3>2, <3>3
    <2> QED
        BY <2>1, <2>2, <2>3
<1> QED
    BY <1>1, <1>2, <1>5 DEF MayWrite, WriterAlone

\* What is freed is empty, and only its writer has it.
LEMMA FreesAnInode ==
    ASSUME IInv, Tree, NEW t \in Thread, FreeInode(t)
    PROVE  target[t] \in Inode /\ MayRemove(t, target[t])
<1>1. /\ TableTypeOK /\ WriterAlone /\ Part(t) /\ Structure /\ pc[t] \in {"free", "undo"}
      /\ RemoveInode(t, target[t])
    BY IInvParts DEF Tree, FreeInode, At
<1>2. target[t] \in Inode /\ t \in unique[target[t]]
    BY <1>1 DEF Part, Located, Owned
<1>3. unique[target[t]] = {t}
    BY <1>1, <1>2 DEF WriterAlone
<1>4. /\ type[target[t]] # "none"
      /\ \A n \in EntryName, i \in Inode : ~HasEntry(dir[target[t]], n, i)
    BY <1>1 DEF Structure, TransitBare
<1>5. DirIsEmpty(dir[target[t]])
    <2>1. dir[target[t]] \in Dir
        BY <1>1, <1>2 DEF TableTypeOK
    <2> QED
        BY <1>4, <2>1, EntryIsInode DEF DirIsEmpty, HasEntry
<1> QED
    BY <1>1, <1>2, <1>3, <1>4, <1>5 DEF MayRemove

\* What is locked is in use, and not had already.
LEMMA LocksAnInode ==
    ASSUME IInv, Tree, Course, \A u \in Thread : SharedOwn(u), NEW t \in Thread, Lock(t) \/ LockChild(t)
    PROVE  target[t] \in Inode /\ \E access \in Access : MayLock(t, target[t], access)
<1>1. /\ TableTypeOK /\ WriterAlone /\ Part(t) /\ Way(t) /\ Structure /\ pc[t] \in {"lock", "lockchild"}
    BY IInvParts DEF Tree, Lock, LockChild, At
<1>2. target[t] \in Inode
    BY <1>1 DEF Part, Located
<1>3. type[target[t]] # "none"
    <2>1. type[Root] # "none"
        BY <1>1 DEF Structure
    <2> QED
        BY <1>1, <2>1 DEF Way, AtTarget, Links
<1>4. CASE Lock(t)
    <2>1. pc[t] = "lock" /\ LockInode(t, target[t], Wanted(t))
        BY <1>4 DEF Lock, At
    <2>2. Wanted(t) \in Access
        BY DEF Wanted, LastAccess, Access
    <2>3. t \notin shared[target[t]]
        <3>1. Has(t) = Held(t)
            BY <2>1, HasIs DEF Walking
        <3>2. target[t] \notin Held(t)
            BY <2>1, TargetNotHeld
        <3> QED
            BY <1>2, <3>1, <3>2 DEF SharedOwn
    <2>4. t \notin unique[target[t]]
        BY <2>1, <2>2 DEF LockInode, Grantable, Holders, Access
    <2> QED
        BY <1>2, <1>3, <2>1, <2>2, <2>3, <2>4 DEF MayLock, Holders
<1>5. CASE LockChild(t)
    <2>1. LockInode(t, target[t], "unique")
        BY <1>5 DEF LockChild, ChildAccess
    <2>2. t \notin Holders(target[t]) /\ "unique" \in Access
        BY <2>1 DEF LockInode, Grantable, Access
    <2> QED
        BY <1>2, <1>3, <2>1, <2>2 DEF MayLock
<1> QED
    BY <1>4, <1>5

\* What is unlocked is in use, and locked by the thread.
LEMMA UnlocksAnInode ==
    ASSUME IInv, NEW t \in Thread, Left(t), Unlock(t)
    PROVE  Head(todo[t]) \in Inode /\ MayUnlock(t, Head(todo[t]))
<1>1. /\ pc[t] \in {"release", "undo"} /\ todo[t] # <<>> /\ UnlockInode(t, Head(todo[t]))
    BY DEF Unlock, At
<1>2. todo[t] \in Seq(Inode)
    BY IInvParts DEF ThreadTypeOK
<1>3. Head(todo[t]) \in Inode /\ Head(todo[t]) \in Items(todo[t])
    BY <1>1, <1>2, ItemsOfTail
<1> QED
    BY <1>1, <1>3 DEF Left, Walking, MayUnlock

\* Every step is one the table allows, or leaves it alone.
LEMMA UsesTheTable ==
    ASSUME IInv, Tree, Course, \A u \in Thread : SharedOwn(u) /\ Once(u) /\ Left(u), [Next]_vars
    PROVE  [TableNext]_tableVars
<1>1. CASE UNCHANGED vars
    BY <1>1 DEF vars
<1>2. ASSUME NEW t \in Thread, Step(t) PROVE TableNext \/ UNCHANGED tableVars
    <2>1. CASE Lock(t) \/ LockChild(t)
        BY <2>1, LocksAnInode DEF TableNext
    <2>2. CASE CreateEntry(t) \/ RemoveChild(t) \/ RenameChild(t) \/ MoveChild(t)
        BY <2>2, WritesADirectory DEF TableNext
    <2>3. CASE FreeInode(t)
        BY <2>3, FreesAnInode DEF TableNext
    <2>4. CASE Unlock(t)
        BY <2>4, UnlocksAnInode DEF TableNext
    <2>5. CASE TakeSlot(t)
        <3>1. /\ TableTypeOK /\ ThreadTypeOK /\ Part(t) /\ pc[t] = "scan" /\ target[t] < Capacity
              /\ TakeInode(t, target[t], cmd[t].type)
            BY <2>5, IInvParts DEF TakeSlot, At
        <3>2. target[t] \in Inode
            BY <3>1, BaseAssumption DEF ThreadTypeOK, Inode
        <3>3. cmd[t] \in Command /\ cmd[t].op = "create"
            BY <3>1 DEF Part, Located
        <3>4. cmd[t].type \in InodeType
            BY <3>3, CommandFields
        <3> QED
            BY <3>1, <3>2, <3>4 DEF TableNext
    <2>6. CASE ~(\/ Lock(t) \/ LockChild(t) \/ CreateEntry(t) \/ RemoveChild(t) \/ RenameChild(t)
                 \/ MoveChild(t) \/ FreeInode(t) \/ Unlock(t) \/ TakeSlot(t))
        BY <1>2, <2>6 DEF Step, Work, Receive, ReceiveRejected, LockErrno, Walk, WalkFails, Search, ParentNotDir,
            CreateScan, SkipSlot, TableFull, CreateFails, MoveSelf, CommonAncestorNotDir, MoveLeg, MoveParentNotDir,
            FindChild, ChildMissing, RemoveNonEmpty, RenameFails, MoveFails, PrintStart, PrintVisit, PrintDone,
            Reply, Fail, Abort
    <2> QED
        BY <2>1, <2>2, <2>3, <2>4, <2>5, <2>6
<1> QED
    BY <1>1, <1>2 DEF Next, Step

\* TfsFs uses the inode table as table.h and rw_lock.c ask: it locks what is
\* in use and not locked by the thread, unlocks what the thread has locked,
\* frees what is empty, and writes to a directory it has for writing.
THEOREM TableIsUsedWell == Spec => TableSpec
<1>1. Init => TableInit /\ \A t \in Thread : Once(t) /\ Left(t)
    BY InitUse DEF Init
<1>2. IInv /\ Tree /\ Course /\ (\A t \in Thread : Once(t) /\ Left(t)) /\ [Next]_vars =>
          (\A t \in Thread : Once(t) /\ Left(t))'
    BY UseIsKept
<1>3. IInv /\ Tree /\ Course /\ (\A t \in Thread : SharedOwn(t)) /\ (\A t \in Thread : Once(t) /\ Left(t))
      /\ [Next]_vars => [TableNext]_tableVars
    BY UsesTheTable
<1> QED
    BY <1>1, <1>2, <1>3, TreeInvariance, CourseInvariance, SharedLocksAreKnown, PTL DEF Spec, TableSpec

-----------------------------------------------------------------------------
\* Threads that wait for one another.

\* A finite set has a member that no other follows.
LEMMA NoneFollows ==
    ASSUME NEW X, IsFiniteSet(X), NEW R, NEW T \in SUBSET X,
           \A i \in X : <<i, i>> \notin R,
           \A i, j, k \in X : <<i, j>> \in R /\ <<j, k>> \in R => <<i, k>> \in R,
           \A i \in T : \E j \in T : <<i, j>> \in R
    PROVE  T = {}
<1> SUFFICES ASSUME NEW e \in T PROVE FALSE
    OBVIOUS
<1> DEFINE Up(i) == {j \in T : <<i, j>> \in R}
           P == {n \in Nat : \A i \in T : n <= Cardinality(Up(i))}
<1>1. ASSUME NEW i \in T PROVE IsFiniteSet(Up(i)) /\ Cardinality(Up(i)) \in Nat
    <2>1. Up(i) \subseteq X
        OBVIOUS
    <2> QED
        BY <2>1, FS_Subset, FS_CardinalityType
<1>2. ASSUME NEW i \in T PROVE \E j \in T : Cardinality(Up(j)) < Cardinality(Up(i))
    <2>1. PICK j \in T : <<i, j>> \in R
        OBVIOUS
    <2>2. Up(j) \subseteq Up(i) /\ j \in Up(i) /\ j \notin Up(j)
        BY <2>1
    <2>3. Up(j) # Up(i)
        BY <2>2
    <2> HIDE DEF Up
    <2>4. Cardinality(Up(j)) < Cardinality(Up(i))
        BY <1>1, <2>2, <2>3, FS_Subset
    <2> QED
        BY <2>4
<1> HIDE DEF Up
<1>3. 0 \in P
    BY <1>1
<1>4. ASSUME NEW n \in Nat, n \in P PROVE n + 1 \in P
    BY <1>1, <1>2, <1>4
<1> HIDE DEF P
<1>5. Nat \subseteq P
    BY <1>3, <1>4, Induction
<1>6. Cardinality(Up(e)) + 1 \in P
    BY <1>1, <1>5
<1> QED
    BY <1>1, <1>6 DEF P

\* A path comes after those it begins with, and where two paths part, their
\* names decide: the order in which a walk through the whole tree, directory
\* by directory, would come by.
RankOf(rank, n) == IF n \in Name THEN rank[n] ELSE 0
Precedes(rank, p, q) ==
    \E k \in 0 .. Len(q) - 1 :
        /\ k <= Len(p) /\ \A j \in 1 .. k : p[j] = q[j]
        /\ k = Len(p) \/ RankOf(rank, p[k + 1]) < RankOf(rank, q[k + 1])

\* Names are compared as numbers.
LEMMA RankIsNat ==
    ASSUME NEW rank \in [Name -> Nat], NEW n
    PROVE  RankOf(rank, n) \in Nat
BY DEF RankOf

\* It is a strict order.
LEMMA PrecedesIsOrder ==
    ASSUME NEW rank \in [Name -> Nat]
    PROVE  /\ \A p \in EntryPath : ~Precedes(rank, p, p)
           /\ \A p, q, r \in EntryPath :
                 Precedes(rank, p, q) /\ Precedes(rank, q, r) => Precedes(rank, p, r)
<1>1. \A p \in EntryPath : Len(p) \in Nat
    BY LenProperties DEF EntryPath
<1>2. \A n : RankOf(rank, n) \in Nat
    BY RankIsNat
<1>3. \A p \in EntryPath : ~Precedes(rank, p, p)
    BY <1>1, <1>2 DEF Precedes
<1>4. ASSUME NEW p \in EntryPath, NEW q \in EntryPath, NEW r \in EntryPath,
             Precedes(rank, p, q), Precedes(rank, q, r)
      PROVE  Precedes(rank, p, r)
    <2>1. PICK k \in 0 .. Len(q) - 1 :
              /\ k <= Len(p) /\ \A j \in 1 .. k : p[j] = q[j]
              /\ k = Len(p) \/ RankOf(rank, p[k + 1]) < RankOf(rank, q[k + 1])
        BY <1>4 DEF Precedes
    <2>2. PICK l \in 0 .. Len(r) - 1 :
              /\ l <= Len(q) /\ \A j \in 1 .. l : q[j] = r[j]
              /\ l = Len(q) \/ RankOf(rank, q[l + 1]) < RankOf(rank, r[l + 1])
        BY <1>4 DEF Precedes
    <2>3. Len(p) \in Nat /\ Len(q) \in Nat /\ Len(r) \in Nat /\ k \in Nat /\ l \in Nat
        BY <1>1
    <2>4. CASE k < l
        <3>1. k \in 0 .. Len(r) - 1 /\ \A j \in 1 .. k : j \in 1 .. l
            BY <2>3, <2>4
        <3>2. k + 1 \in 1 .. l
            BY <2>3, <2>4
        <3>3. q[k + 1] = r[k + 1]
            BY <2>2, <3>2
        <3>4. \A j \in 1 .. k : p[j] = r[j]
            BY <2>1, <2>2, <3>1
        <3> QED
            BY <2>1, <3>1, <3>3, <3>4 DEF Precedes
    <2>5. CASE l < k
        <3>1. l \in 0 .. Len(r) - 1 /\ l < Len(q) /\ l <= Len(p) /\ \A j \in 1 .. l : j \in 1 .. k
            BY <2>1, <2>3, <2>5
        <3>2. l + 1 \in 1 .. k
            BY <2>3, <2>5
        <3>3. p[l + 1] = q[l + 1]
            BY <2>1, <3>2
        <3>4. \A j \in 1 .. l : p[j] = r[j]
            BY <2>1, <2>2, <3>1
        <3>5. RankOf(rank, p[l + 1]) < RankOf(rank, r[l + 1])
            BY <2>2, <2>3, <3>1, <3>3
        <3> QED
            BY <3>1, <3>4, <3>5 DEF Precedes
    <2>6. CASE k = l
        <3>1. k \in 0 .. Len(r) - 1 /\ k <= Len(p) /\ k # Len(q)
            BY <2>1, <2>3, <2>6
        <3>2. \A j \in 1 .. k : p[j] = r[j]
            BY <2>1, <2>2, <2>6
        <3>3. RankOf(rank, q[k + 1]) < RankOf(rank, r[k + 1])
            BY <2>2, <2>6, <3>1
        <3>4. k = Len(p) \/ RankOf(rank, p[k + 1]) < RankOf(rank, r[k + 1])
            <4>1. \A x, y, z \in Nat : x < y /\ y < z => x < z
                OBVIOUS
            <4> QED
                BY <1>2, <2>1, <3>3, <4>1
        <3> QED
            BY <3>1, <3>2, <3>4 DEF Precedes
    <2> QED
        BY <2>3, <2>4, <2>5, <2>6
<1> QED
    BY <1>3, <1>4

\* A path and its first part, name by name.
LEMMA UnderNames ==
    ASSUME NEW p \in EntryPath, NEW q \in EntryPath, Under(p, q)
    PROVE  Len(p) \in 0 .. Len(q) /\ Len(q) \in Nat /\ \A j \in 1 .. Len(p) : p[j] = q[j]
<1>1. Len(p) \in 0 .. Len(q) /\ p = SubSeq(q, 1, Len(p))
    BY UnderPart
<1>2. \A j \in 1 .. Len(p) : SubSeq(q, 1, Len(p))[j] = q[j]
    BY <1>1, FirstPart DEF EntryPath
<1>3. Len(q) \in Nat
    BY LenProperties DEF EntryPath
<1>4. \A j \in 1 .. Len(p) : p[j] = q[j]
    BY <1>1, <1>2
<1> QED
    BY <1>1, <1>3, <1>4

\* The paths to the parents of a move: the common ancestor, then the leg.
LEMMA FullPathNames ==
    ASSUME NEW c \in Command, c.op = "move", NEW s \in {"orig", "dest"}
    PROVE  /\ FullPath(c, s) \in EntryPath
           /\ \A j \in 1 .. Len(Stretch(c, "common")) : FullPath(c, s)[j] = Stretch(c, "common")[j]
           /\ Len(Stretch(c, "common")) \in Nat
           /\ Len(FullPath(c, s)) > Len(Stretch(c, "common")) =>
                 /\ Stretch(c, s) # <<>>
                 /\ FullPath(c, s)[Len(Stretch(c, "common")) + 1] = Head(Stretch(c, s))
                 /\ Head(Stretch(c, s)) \in Name
<1> DEFINE a == Stretch(c, "common")
           b == Stretch(c, s)
<1>1. a \in Path /\ b \in Path
    BY StretchIsPath DEF Stage, Path
<1>2. a \in EntryPath /\ b \in EntryPath
    BY <1>1, PathIsEntryPath
<1>3. FullPath(c, s) = a \o b
    BY DEF FullPath, Join
<1> HIDE DEF a, b
<1>4. /\ a \o b \in EntryPath /\ Len(a) \in Nat /\ Len(b) \in Nat /\ Len(a \o b) = Len(a) + Len(b)
      /\ \A j \in 1 .. Len(a) + Len(b) : (a \o b)[j] = IF j <= Len(a) THEN a[j] ELSE b[j - Len(a)]
    BY <1>2, ConcatProperties, LenProperties DEF EntryPath
<1>5. \A j \in 1 .. Len(a) : (a \o b)[j] = a[j]
    BY <1>4
<1>6. ASSUME Len(a \o b) > Len(a)
      PROVE  b # <<>> /\ (a \o b)[Len(a) + 1] = Head(b) /\ Head(b) \in Name
    <2>1. Len(b) > 0
        BY <1>4, <1>6
    <2>2. b # <<>> /\ b[1] = Head(b)
        BY <1>1, <2>1, EmptySeq, HeadTailProperties DEF Path
    <2>3. Len(a) + 1 \in 1 .. Len(a) + Len(b) /\ ~(Len(a) + 1 <= Len(a)) /\ Len(a) + 1 - Len(a) = 1
        BY <1>4, <2>1
    <2>4. (a \o b)[Len(a) + 1] = b[1]
        BY <1>4, <2>3
    <2>5. Head(b) \in Name
        BY <1>1, <2>2, HeadTailProperties DEF Path
    <2> QED
        BY <2>2, <2>4, <2>5
<1> QED
    BY <1>3, <1>4, <1>5, <1>6 DEF a, b

\* The names at which the two legs of a move part, the leg s behind the leg r.
LEMMA LegsPart ==
    ASSUME NEW rank \in [Name -> Nat], LegsFollow(rank), NEW c \in Command, c.op = "move",
           NEW r \in {"orig", "dest"}, NEW s \in {"orig", "dest"}, r # s, s = Head(Legs(c)),
           Stretch(c, r) # <<>>, Stretch(c, s) # <<>>
    PROVE  rank[Head(Stretch(c, s))] < rank[Head(Stretch(c, r))]
<1>1. Legs(c) \in {<<"orig", "dest">>, <<"dest", "orig">>}
    BY LegsShape
<1>2. Len(Legs(c)) = 2 /\ Legs(c)[1] = s /\ Legs(c)[2] = r
    BY <1>1
<1> QED
    BY <1>2 DEF LegsFollow

\* What a thread has is part of its way to where it stands, or of the leg it
\* has walked before.
LEMMA HeldOnLegs ==
    ASSUME IInv, Tree, NEW t \in Thread, pc[t] \in Walking, NEW i \in Held(t)
    PROVE  /\ locked[t]["common"] # <<>>
           /\ \/ i \in Items(locked[t]["common"]) \cup Items(locked[t][stage[t]])
              \/ /\ stage[t] \in {"orig", "dest"}
                 /\ \E s \in {"orig", "dest"} :
                       s # stage[t] /\ s = Head(Legs(cmd[t])) /\ i \in Items(locked[t][s])
<1>1. /\ Way(t) /\ Part(t) /\ stage[t] \in {"common", "orig", "dest"} /\ stage[t] \in Stage
    BY IInvParts DEF Tree, ThreadTypeOK, Stage
<1>2. Held(t) = Items(locked[t]["common"]) \cup Items(locked[t]["orig"]) \cup Items(locked[t]["dest"])
    BY HeldParts
<1>3. ASSUME NEW s \in {"orig", "dest"}, s # stage[t], i \in Items(locked[t][s])
      PROVE  stage[t] # "common" /\ s = Head(Legs(cmd[t]))
    <2>1. locked[t][s] # <<>>
        BY <1>3, ItemsOfNone
    <2> QED
        BY <1>1, <1>3, <2>1 DEF Way, Placed, Stage
<1>4. \/ i \in Items(locked[t]["common"]) \cup Items(locked[t][stage[t]])
      \/ /\ stage[t] \in {"orig", "dest"}
         /\ \E s \in {"orig", "dest"} :
               s # stage[t] /\ s = Head(Legs(cmd[t])) /\ i \in Items(locked[t][s])
    BY <1>1, <1>2, <1>3
<1>5. locked[t]["common"] # <<>>
    <2>1. stage[t] # "common" => locked[t]["common"] # <<>>
        BY <1>1, EmptySeq DEF Part, Walked, Reaches
    <2> QED
        BY <1>4, <2>1, ItemsOfNone
<1> QED
    BY <1>4, <1>5

\* The inode i comes before the inode j in that order.
Ahead(rank, i, j) ==
    \E p, q \in EntryPath : Leads(dir, p, i) /\ Leads(dir, q, j) /\ Precedes(rank, p, q)

\* What a thread that waits has already comes before what it waits for.
LEMMA HeldAreAhead ==
    ASSUME NEW rank \in [Name -> Nat], LegsFollow(rank), IInv, Tree, Course,
           NEW u \in Thread, pc[u] = "lock", NEW i \in Held(u)
    PROVE  Ahead(rank, i, target[u])
<1>1. /\ Structure /\ Tidy(dir) /\ Way(u) /\ Complete(u) /\ Part(u) /\ pc[u] \in Walking /\ stage[u] \in Stage
      /\ Stage = {"common", "orig", "dest"}
    BY IInvParts, TreeIsTidy DEF Tree, Course, Walking, ThreadTypeOK, Stage
<1>2. locked[u]["common"] # <<>>
    BY <1>1, HeldOnLegs
<1>3. CASE i \in Items(locked[u]["common"]) \cup Items(locked[u][stage[u]])
    <2>1. PICK q \in EntryPath : Leads(dir, q, i) /\ Under(q, Trod(u, stage[u]))
        BY <1>1, <1>2, <1>3, HeldByPath
    <2>2. PICK n \in EntryName :
              /\ Extend(Trod(u, stage[u]), n) \in EntryPath
              /\ Leads(dir, Extend(Trod(u, stage[u]), n), target[u])
              /\ Trod(u, stage[u]) \in EntryPath
              /\ Len(Extend(Trod(u, stage[u]), n)) = Len(Trod(u, stage[u])) + 1
        BY <1>1, <1>2, TargetByPath
    <2>3. Under(q, Extend(Trod(u, stage[u]), n))
        BY <2>1, <2>2, UnderExtend, UnderTwice
    <2>4. Len(q) \in 0 .. Len(Trod(u, stage[u])) /\ Len(Trod(u, stage[u])) \in Nat
        BY <2>1, <2>2, UnderNames
    <2> DEFINE r == Extend(Trod(u, stage[u]), n)
    <2>5. r \in EntryPath /\ Leads(dir, r, target[u]) /\ Under(q, r) /\ Len(q) \in 0 .. Len(r) - 1
        BY <2>2, <2>3, <2>4
    <2> HIDE DEF r
    <2>6. \A j \in 1 .. Len(q) : q[j] = r[j]
        BY <2>5, UnderNames
    <2>7. Len(q) <= Len(q)
        BY <2>4
    <2>8. Precedes(rank, q, r)
        BY <2>5, <2>6, <2>7 DEF Precedes
    <2> QED
        BY <2>1, <2>5, <2>8 DEF Ahead
<1>4. CASE i \notin Items(locked[u]["common"]) \cup Items(locked[u][stage[u]])
    <2>1. PICK s \in {"orig", "dest"} :
              s # stage[u] /\ s = Head(Legs(cmd[u])) /\ i \in Items(locked[u][s])
        BY <1>1, <1>4, HeldOnLegs
    <2>2. stage[u] \in {"orig", "dest"} /\ stage[u] # "common"
        BY <1>1, <1>4, HeldOnLegs
    <2>3. PICK q \in EntryPath : Leads(dir, q, i) /\ Under(q, Trod(u, s))
        BY <1>1, <1>2, <2>1, <2>2, HeldByPath
    <2>4. PICK n \in EntryName :
              /\ Extend(Trod(u, stage[u]), n) \in EntryPath /\ Leads(dir, Extend(Trod(u, stage[u]), n), target[u])
              /\ Len(Extend(Trod(u, stage[u]), n)) = Len(Trod(u, stage[u])) + 1
              /\ Under(Extend(Trod(u, stage[u]), n), FullPath(cmd[u], stage[u]))
        BY <1>1, <1>2, <2>2, TargetUnder
    <2>5. /\ Under(Trod(u, s), FullPath(cmd[u], s)) /\ FullPath(cmd[u], s) \in EntryPath
          /\ Trod(u, s) \in EntryPath /\ FullPath(cmd[u], stage[u]) \in EntryPath
          /\ Len(Trod(u, stage[u])) >= Len(Stretch(cmd[u], "common"))
          /\ Len(Trod(u, stage[u])) \in Nat /\ Len(Stretch(cmd[u], "common")) \in Nat
          /\ cmd[u] \in Command /\ cmd[u].op = "move"
        BY <1>1, <1>2, <2>1, <2>2, TrodUnder
    <2> DEFINE a == Stretch(cmd[u], "common")
               p == FullPath(cmd[u], s)
               d == FullPath(cmd[u], stage[u])
               r == Extend(Trod(u, stage[u]), n)
    <2>6. Under(q, p) /\ p \in EntryPath
        BY <2>3, <2>5, UnderTwice
    <2>7. r \in EntryPath /\ Leads(dir, r, target[u]) /\ Under(r, d) /\ d \in EntryPath
          /\ Len(r) > Len(a) /\ Len(a) \in Nat /\ Len(r) \in Nat
        BY <2>4, <2>5
    <2>8. /\ \A j \in 1 .. Len(a) : p[j] = a[j]
          /\ Len(p) > Len(a) =>
                Stretch(cmd[u], s) # <<>> /\ p[Len(a) + 1] = Head(Stretch(cmd[u], s))
                /\ Head(Stretch(cmd[u], s)) \in Name
        BY <2>1, <2>5, FullPathNames
    <2>9. /\ \A j \in 1 .. Len(a) : d[j] = a[j]
          /\ Len(d) > Len(a) =>
                Stretch(cmd[u], stage[u]) # <<>> /\ d[Len(a) + 1] = Head(Stretch(cmd[u], stage[u]))
                /\ Head(Stretch(cmd[u], stage[u])) \in Name
        BY <2>2, <2>5, FullPathNames
    <2> HIDE DEF a, p, d, r
    <2>10. Len(q) \in 0 .. Len(p) /\ Len(p) \in Nat /\ \A j \in 1 .. Len(q) : q[j] = p[j]
        BY <2>6, UnderNames
    <2>11. Len(r) \in 0 .. Len(d) /\ Len(d) \in Nat /\ \A j \in 1 .. Len(r) : r[j] = d[j]
        BY <2>7, UnderNames
    <2>12. \A j \in 1 .. Len(a) : j \in 1 .. Len(r) /\ r[j] = a[j]
        BY <2>7, <2>9, <2>11
    <2>13. Precedes(rank, q, r)
        <3>1. CASE Len(q) <= Len(a)
            <4>1. Len(q) \in 0 .. Len(r) - 1 /\ Len(q) <= Len(q)
                BY <2>7, <2>10, <3>1
            <4>2. \A j \in 1 .. Len(q) : j \in 1 .. Len(a)
                BY <2>7, <2>10, <3>1
            <4>3. \A j \in 1 .. Len(q) : q[j] = r[j]
                BY <2>8, <2>10, <2>12, <4>2
            <4> QED
                BY <4>1, <4>3 DEF Precedes
        <3>2. CASE Len(q) > Len(a)
            <4>1. Len(a) \in 0 .. Len(r) - 1 /\ Len(a) <= Len(q) /\ Len(p) > Len(a) /\ Len(d) > Len(a)
                BY <2>7, <2>10, <2>11, <3>2
            <4>2. \A j \in 1 .. Len(a) : j \in 1 .. Len(q)
                BY <2>7, <2>10, <3>2
            <4>3. \A j \in 1 .. Len(a) : q[j] = r[j]
                BY <2>8, <2>10, <2>12, <4>2
            <4>4. Len(a) + 1 \in 1 .. Len(q) /\ Len(a) + 1 \in 1 .. Len(r)
                BY <2>7, <2>10, <3>2
            <4>5. q[Len(a) + 1] = Head(Stretch(cmd[u], s)) /\ r[Len(a) + 1] = Head(Stretch(cmd[u], stage[u]))
                BY <2>8, <2>9, <2>10, <2>11, <4>1, <4>4
            <4>6. rank[Head(Stretch(cmd[u], s))] < rank[Head(Stretch(cmd[u], stage[u]))]
                BY <2>1, <2>2, <2>5, <2>8, <2>9, <4>1, LegsPart
            <4>7. RankOf(rank, q[Len(a) + 1]) < RankOf(rank, r[Len(a) + 1])
                BY <2>8, <2>9, <4>1, <4>5, <4>6 DEF RankOf
            <4> QED
                BY <4>1, <4>3, <4>7 DEF Precedes
        <3> QED
            BY <2>7, <2>10, <3>1, <3>2
    <2> QED
        BY <2>3, <2>7, <2>13 DEF Ahead
<1> QED
    BY <1>3, <1>4

\* In a tree this is a strict order too.
LEMMA AheadIsOrder ==
    ASSUME NEW rank \in [Name -> Nat], Tidy(dir)
    PROVE  /\ \A i : ~Ahead(rank, i, i)
           /\ \A i, j, k : Ahead(rank, i, j) /\ Ahead(rank, j, k) => Ahead(rank, i, k)
<1>1. ASSUME NEW i, Ahead(rank, i, i) PROVE FALSE
    <2>1. PICK p \in EntryPath, q \in EntryPath : Leads(dir, p, i) /\ Leads(dir, q, i) /\ Precedes(rank, p, q)
        BY <1>1 DEF Ahead
    <2>2. p = q
        BY <2>1, OnePath
    <2> QED
        BY <2>1, <2>2, PrecedesIsOrder
<1>2. ASSUME NEW i, NEW j, NEW k, Ahead(rank, i, j), Ahead(rank, j, k) PROVE Ahead(rank, i, k)
    <2>1. PICK p \in EntryPath, q \in EntryPath : Leads(dir, p, i) /\ Leads(dir, q, j) /\ Precedes(rank, p, q)
        BY <1>2 DEF Ahead
    <2>2. PICK r \in EntryPath, s \in EntryPath : Leads(dir, r, j) /\ Leads(dir, s, k) /\ Precedes(rank, r, s)
        BY <1>2 DEF Ahead
    <2>3. r = q
        BY <2>1, <2>2, OnePath
    <2>4. Precedes(rank, p, s)
        BY <2>1, <2>2, <2>3, PrecedesIsOrder
    <2> QED
        BY <2>1, <2>2, <2>4 DEF Ahead
<1> QED
    BY <1>1, <1>2

\* The child of a remove or move is not on the way of its own thread.
LEMMA ChildNotHeld ==
    ASSUME IInv, Tree, Course, NoEmptyName, NEW t \in Thread, pc[t] = "lockchild"
    PROVE  target[t] \notin Held(t)
<1> SUFFICES ASSUME target[t] \in Held(t) PROVE FALSE
    OBVIOUS
<1>1. /\ Structure /\ Tidy(dir) /\ TableTypeOK /\ Way(t) /\ Complete(t) /\ Part(t) /\ stage[t] \in {"common", "orig", "dest"}
      /\ pc[t] \in Walking /\ pc[t] \in Walking \ {"lock", "walk"} /\ pc[t] \in Walking \ {"lock"} /\ stage[t] \in Stage
      /\ Stage = {"common", "orig", "dest"}
    BY IInvParts, TreeIsTidy DEF Tree, Course, Walking, ThreadTypeOK, Stage
<1>2. /\ cmd[t] \in Command
      /\ cmd[t].op = "remove" \/ (cmd[t].op = "move" /\ LegsLeft(t) = <<>>)
      /\ locked[t]["common"] # <<>>
    <2>1. ThreadTypeOK /\ Located(t)
        BY <1>1, IInvParts DEF Part
    <2>2. cmd[t].op = "remove" \/ (cmd[t].op = "move" /\ LegsLeft(t) = <<>>)
        BY <2>1 DEF Located
    <2> QED
        BY <1>1, <2>1, <2>2, Standing
<1>3. Held(t) = Items(locked[t]["common"]) \cup Items(locked[t]["orig"]) \cup Items(locked[t]["dest"])
    BY HeldParts
<1>4. stage[t] = "common" =>
          /\ locked[t]["orig"] = <<>> /\ locked[t]["dest"] = <<>>
          /\ Items(locked[t]["orig"]) = {} /\ Items(locked[t]["dest"]) = {}
    BY <1>1, ItemsOfNone DEF Way, Placed
<1>5. HasEntry(dir[OrigParent(t)], EntryOf(cmd[t]), target[t])
    BY <1>1 DEF Way, AtTarget, Links, HasEntry
<1>6. OrigParent(t) \in Inode /\ EntryOf(cmd[t]) \in EntryName /\ target[t] \in Inode
    BY <1>1, <1>5, IInvParts, Standing, HasTypes
<1>7. ASSUME NEW s \in Stage, s = "common" \/ stage[t] # "common", OrigParent(t) = Foot(t, s),
             target[t] \in Items(locked[t]["common"]) \cup Items(locked[t][s])
      PROVE  FALSE
    <2> DEFINE p == Trod(t, s)
               n == EntryOf(cmd[t])
    <2>1. PICK q \in EntryPath : Leads(dir, q, target[t]) /\ Len(q) <= Len(p)
        BY <1>1, <1>2, <1>7, HeldByPath
    <2>2. p \in EntryPath /\ Leads(dir, p, OrigParent(t))
        BY <1>1, <1>2, <1>7, TrodLeads
    <2>3. Extend(p, n) \in EntryPath /\ Leads(dir, Extend(p, n), target[t])
        BY <1>5, <1>6, <2>2, ExtendPath, LeadsExtend
    <2>4. q = Extend(p, n)
        BY <1>1, <2>1, <2>3, OnePath
    <2>5. Len(Extend(p, n)) = Len(p) + 1 /\ Len(p) \in Nat
        BY <1>6, <2>2, AppendProperties, LenProperties DEF Extend, EntryPath
    <2> HIDE DEF p, n
    <2> QED
        BY <2>1, <2>4, <2>5
<1>8. CASE stage[t] = "common"
    <2>1. OrigParent(t) = Foot(t, "common")
        BY <1>4, <1>8, FeetAre DEF Foot
    <2> QED
        BY <1>1, <1>3, <1>4, <1>7, <1>8, <2>1
<1>9. CASE stage[t] # "common" /\ target[t] \in Items(locked[t]["common"]) \cup Items(locked[t]["orig"])
    BY <1>1, <1>7, <1>9, FeetAre
<1>10. CASE stage[t] # "common" /\ target[t] \in Items(locked[t]["dest"])
    <2> DEFINE c == cmd[t]
               r == FullPath(c, "dest")
               p == FullPath(c, "orig")
               n == EntryOf(c)
    <2>1. PICK q \in EntryPath : Leads(dir, q, target[t]) /\ Under(q, Trod(t, "dest"))
        BY <1>1, <1>2, <1>10, HeldByPath
    <2>2. Under(q, r) /\ c \in Command /\ c.op = "move"
        <3>1. /\ Under(Trod(t, "dest"), r) /\ r \in EntryPath /\ Trod(t, "dest") \in EntryPath
              /\ c \in Command /\ c.op = "move"
            BY <1>1, <1>2, <1>10, TrodUnder
        <3> QED
            BY <2>1, <3>1, UnderTwice
    <2>3. Leads(dir, p, OrigParent(t))
        <3>1. pc[t] \in Walking \ {"lock", "walk"} /\ cmd[t].op = "move" /\ LegsLeft(t) = <<>>
            BY <1>1, <1>2, <2>2 DEF c
        <3> QED
            BY <3>1, ParentsReached DEF c, p
    <2>4. n # NoName
        BY <1>5, <1>6 DEF NoEmptyName, HasEntry
    <2>5. /\ c.path \in Path /\ c.dest \in Path /\ p \in EntryPath /\ r \in EntryPath
          /\ OrigRest(c) # <<>> /\ c.path = Extend(p, n)
        BY <2>2, <2>4, ParentsAreWalked
    <2>6. q = c.path
        <3>1. Extend(p, n) \in EntryPath /\ Leads(dir, Extend(p, n), target[t])
            BY <1>5, <1>6, <2>3, <2>5, ExtendPath, LeadsExtend
        <3> QED
            BY <1>1, <2>1, <2>5, <3>1, OnePath
    <2>7. Under(r, c.dest)
        BY <2>2, FullPathUnder DEF r
    <2> HIDE DEF c, r, p, n
    <2>8. c.path \in EntryPath /\ c.dest \in EntryPath
        BY <2>5, PathIsEntryPath
    <2>9. Under(c.path, c.dest)
        BY <2>2, <2>5, <2>6, <2>7, <2>8, UnderTwice
    <2>10. IsPrefix(c.path, c.dest)
        BY <2>8, <2>9, PrefixIsUnder
    <2>11. OrigRest(c) = <<>>
        BY <2>5, <2>10, PrefixRest DEF OrigRest
    <2> QED
        BY <2>5, <2>11
<1> QED
    BY <1>3, <1>8, <1>9, <1>10

\* The child is on the way of no thread that waits.
LEMMA ChildFree ==
    ASSUME IInv, Tree, Course, NoEmptyName, NEW t \in Thread, NEW u \in Thread,
           pc[t] = "lockchild", Waits(u), target[t] \in Held(u)
    PROVE  FALSE
<1>1. u # t
    BY ChildNotHeld
<1>2. /\ Structure /\ TableTypeOK /\ ThreadTypeOK /\ WriterAlone /\ Way(t) /\ Way(u) /\ Part(t)
      /\ pc[u] \in Walking /\ pc[t] \in Walking \ {"lock"}
    BY IInvParts DEF Tree, Waits, Walking
<1>3. Links(OrigParent(t), EntryOf(cmd[t]), target[t]) /\ OrigParent(t) \in Inode
    BY <1>2, Standing DEF Way, AtTarget
<1>4. HasEntry(dir[OrigParent(t)], EntryOf(cmd[t]), target[t])
    BY <1>3 DEF Links, HasEntry
<1>5. EntryOf(cmd[t]) \in EntryName /\ target[t] \in Inode
    BY <1>2, <1>3, <1>4, HasTypes
<1>6. target[t] # Root
    BY <1>2, <1>3, <1>4, <1>5 DEF Structure, EntriesFit
<1>7. PICK d \in Held(u), n \in EntryName : HasEntry(dir[d], n, target[t])
    BY <1>2, <1>6, HeldClosed
<1>8. d = OrigParent(t)
    <2>1. d \in Inode
        BY DEF Held
    <2> QED
        BY <1>2, <1>3, <1>4, <1>5, <1>7, <2>1 DEF Structure, NamesOnce
<1>9. u \in Holders(OrigParent(t))
    BY <1>2, <1>7, <1>8, HeldByThread
<1>10. t \in unique[OrigParent(t)]
    BY <1>2, ParentsOwned
<1> QED
    BY <1>1, <1>2, <1>3, <1>9, <1>10 DEF WriterAlone, Holders

\* Of the inodes threads wait for, the last one in that order is had by
\* nobody who waits.
LEMMA LastIsFree ==
    ASSUME NEW rank \in [Name -> Nat], LegsFollow(rank), IInv, Tree, Course, NoEmptyName,
           \A t \in Thread : SharedOwn(t) /\ UniqueOwn(t)
    PROVE  NoWaitCycle
<1> SUFFICES ASSUME NEW S \in SUBSET Thread, S # {},
                    \A t \in S : Waits(t) /\ BlockedBy(t) \cap S # {}
             PROVE  FALSE
    BY DEF NoWaitCycle
<1>1. ASSUME NEW t \in S PROVE pc[t] = "lock" /\ target[t] \in Inode /\ \E u \in S : target[t] \in Held(u)
    <2>1. Waits(t) /\ t \in Thread /\ target[t] \in Inode
        <3>1. Waits(t) /\ t \in Thread /\ Located(t)
            BY <1>1, IInvParts DEF Part
        <3> QED
            BY <3>1 DEF Located, Waits
    <2>2. PICK u \in S : u \in unique[target[t]] \cup shared[target[t]]
        BY <1>1 DEF BlockedBy
    <2>3. u \in Thread /\ Waits(u) /\ Has(u) = Held(u)
        <3>1. u \in Thread /\ Waits(u)
            BY <2>2
        <3> QED
            BY <3>1, HasIs DEF Waits, Walking
    <2>4. target[t] \in Held(u)
        BY <2>1, <2>2, <2>3 DEF SharedOwn, UniqueOwn
    <2>5. pc[t] = "lock"
        BY <2>1, <2>3, <2>4, ChildFree DEF Waits
    <2> QED
        BY <2>1, <2>2, <2>4, <2>5
<1> DEFINE T == {target[t] : t \in S}
           R == {e \in Inode \X Inode : Ahead(rank, e[1], e[2])}
<1>2. \A i, j \in Inode : <<i, j>> \in R <=> Ahead(rank, i, j)
    OBVIOUS
<1>3. T \in SUBSET Inode /\ T # {}
    BY <1>1
<1>4. ASSUME NEW i \in T PROVE \E j \in T : <<i, j>> \in R
    <2>1. PICK t \in S : i = target[t]
        OBVIOUS
    <2>2. PICK u \in S : target[t] \in Held(u)
        BY <1>1
    <2>3. pc[u] = "lock" /\ u \in Thread /\ target[u] \in T
        BY <1>1
    <2>4. Ahead(rank, target[t], target[u])
        BY <2>2, <2>3, HeldAreAhead
    <2> HIDE DEF R
    <2> QED
        BY <1>2, <1>3, <2>1, <2>3, <2>4
<1> HIDE DEF T, R
<1>5. IsFiniteSet(Inode)
    <2>1. Inode = 0 .. Capacity - 1 /\ 0 \in Int /\ Capacity - 1 \in Int
        BY BaseAssumption DEF Inode
    <2>2. IsFiniteSet(0 .. Capacity - 1)
        BY <2>1, FS_Interval
    <2> QED
        BY <2>1, <2>2
<1>6. /\ \A i \in Inode : <<i, i>> \notin R
      /\ \A i, j, k \in Inode : <<i, j>> \in R /\ <<j, k>> \in R => <<i, k>> \in R
    <2>1. Tidy(dir)
        BY TreeIsTidy, IInvParts DEF Tree
    <2> QED
        BY <1>2, <2>1, AheadIsOrder
<1> QED
    BY <1>3, <1>4, <1>5, <1>6, NoneFollows

\* No group of threads wait for one another (fs.c:151, fs.c:300), as long as
\* every move takes its two legs in one order of the names, and none is
\* refused its name: there is then one order of all inodes in which every
\* thread locks.
THEOREM LocksAreTakenInOrder ==
    ASSUME NEW rank \in [Name -> Nat], LegsFollow(rank), NoMoveToParent
    PROVE  Spec /\ NoLeak => []NoWaitCycle
<1>1. IInv /\ Tree /\ Course /\ NoEmptyName /\ (\A t \in Thread : SharedOwn(t))
      /\ (\A t \in Thread : UniqueOwn(t)) => NoWaitCycle
    BY LastIsFree
<1> QED
    BY <1>1, TreeInvariance, CourseInvariance, NoNameIsEmpty, SharedLocksAreKnown, LocksAreKnown, PTL

\* Below the common ancestor the two legs begin with different names.
LEMMA LegsDiffer ==
    ASSUME NEW c \in Command, c.op = "move", Stretch(c, "orig") # <<>>, Stretch(c, "dest") # <<>>
    PROVE  /\ Head(Stretch(c, "orig")) # Head(Stretch(c, "dest"))
           /\ Head(Stretch(c, "orig")) \in Name /\ Head(Stretch(c, "dest")) \in Name
<1> DEFINE a == Stretch(c, "common")
           p == FullPath(c, "orig")
           d == FullPath(c, "dest")
           w == Len(a) + 1
<1>1. /\ Stretch(c, "orig") \in EntryPath /\ Stretch(c, "dest") \in EntryPath /\ a \in EntryPath
    <2>1. Stretch(c, "orig") \in Path /\ Stretch(c, "dest") \in Path /\ a \in Path
        BY StretchIsPath DEF Stage, Path
    <2> QED
        BY <2>1, PathIsEntryPath
<1>2. \A s \in {"orig", "dest"} : Len(FullPath(c, s)) > Len(a)
    <2> SUFFICES ASSUME NEW s \in {"orig", "dest"} PROVE Len(FullPath(c, s)) > Len(a)
        OBVIOUS
    <2> DEFINE b == Stretch(c, s)
    <2>1. b \in EntryPath /\ b # <<>>
        BY <1>1
    <2>2. FullPath(c, s) = a \o b
        BY DEF FullPath, Join
    <2> HIDE DEF a, b
    <2>3. Len(a \o b) = Len(a) + Len(b) /\ Len(a) \in Nat /\ Len(b) \in Nat /\ Len(b) # 0
        BY <1>1, <2>1, ConcatProperties, LenProperties, EmptySeq DEF EntryPath
    <2> QED
        BY <2>2, <2>3
<1>3. /\ p \in EntryPath /\ d \in EntryPath /\ Len(a) \in Nat
      /\ \A j \in 1 .. Len(a) : p[j] = a[j]
      /\ \A j \in 1 .. Len(a) : d[j] = a[j]
      /\ p[w] = Head(Stretch(c, "orig")) /\ d[w] = Head(Stretch(c, "dest"))
      /\ Head(Stretch(c, "orig")) \in Name /\ Head(Stretch(c, "dest")) \in Name
    BY <1>2, FullPathNames
<1>4. Len(p) \in Nat /\ Len(d) \in Nat /\ Len(p) > Len(a) /\ Len(d) > Len(a)
    BY <1>2, <1>3, LenProperties DEF EntryPath
<1>5. ASSUME Head(Stretch(c, "orig")) = Head(Stretch(c, "dest")) PROVE FALSE
    <2> HIDE DEF a, p, d
    <2>1. w \in 0 .. Len(p) /\ w \in 0 .. Len(d)
        BY <1>3, <1>4
    <2>2. \A j \in 1 .. w : p[j] = d[j]
        BY <1>3, <1>5
    <2>3. /\ SubSeq(p, 1, w) \in EntryPath /\ Under(SubSeq(p, 1, w), p) /\ Len(SubSeq(p, 1, w)) = w
          /\ SubSeq(d, 1, w) \in EntryPath /\ Under(SubSeq(d, 1, w), d) /\ Len(SubSeq(d, 1, w)) = w
          /\ \A k \in 1 .. w : SubSeq(p, 1, w)[k] = p[k]
          /\ \A k \in 1 .. w : SubSeq(d, 1, w)[k] = d[k]
        BY <1>3, <2>1, UnderFirst, FirstPart DEF EntryPath
    <2> HIDE DEF w
    <2>4. SubSeq(p, 1, w) = SubSeq(d, 1, w)
        <3> DEFINE q == SubSeq(p, 1, w)
                   r == SubSeq(d, 1, w)
        <3>1. q \in Seq(EntryName) /\ r \in Seq(EntryName) /\ Len(q) = Len(r) /\ \A k \in 1 .. Len(q) : q[k] = r[k]
            BY <2>2, <2>3 DEF EntryPath
        <3> HIDE DEF q, r
        <3>2. q = r
            BY <3>1, SeqEqual
        <3> QED
            BY <3>2 DEF q, r
    <2> DEFINE q == SubSeq(p, 1, w)
    <2>5. q \in EntryPath /\ Under(q, p) /\ Under(q, d) /\ Len(q) = w
        BY <2>3, <2>4
    <2> HIDE DEF q
    <2>6. Len(q) <= Len(a)
        BY <2>5, LegsApart DEF p, d, a
    <2> QED
        BY <1>3, <2>5, <2>6 DEF w
<1> QED
    BY <1>3, <1>5

\* A move with an empty leg walks one or none.
LEMMA NotTwo == \A l \in {<<>>, <<"orig">>, <<"dest">>} : Len(l) # 2
<1>1. Len(<<>>) = 0 /\ \A x : Len(<<x>>) = 1
    OBVIOUS
<1>2. 0 # 2 /\ 1 # 2
    OBVIOUS
<1> QED
    BY <1>1, <1>2, Zenon

\* Wherever a move walks two legs, their texts are of one length.
OneLength ==
    \A c \in Command : c.op = "move" /\ Len(Legs(c)) = 2 =>
        \E len \in Nat : TextLen(Stretch(c, "orig")) = len /\ TextLen(Stretch(c, "dest")) = len

\* The order of tfs_fs_move is then the byte order of the first names of the legs.
LEMMA OneLengthFollows ==
    ASSUME OneLength
    PROVE  LegsFollow(NameRank)
<1> SUFFICES ASSUME NEW c \in Command, c.op = "move", Len(Legs(c)) = 2
             PROVE  NameRank[Head(Stretch(c, Legs(c)[1]))] < NameRank[Head(Stretch(c, Legs(c)[2]))]
    BY DEF LegsFollow
<1> DEFINE o == Stretch(c, "orig")
           d == Stretch(c, "dest")
<1>1. o # <<>> /\ d # <<>>
    <2>1. o = <<>> \/ d = <<>> => Legs(c) \in {<<>>, <<"orig">>, <<"dest">>}
        BY LegsShape
    <2> HIDE DEF o, d
    <2> QED
        BY <2>1, NotTwo
<1>2. Head(o) # Head(d) /\ Head(o) \in Name /\ Head(d) \in Name
    BY <1>1, LegsDiffer
<1>3. NameRank[Head(o)] \in Nat /\ NameRank[Head(d)] \in Nat /\ NameRank[Head(o)] # NameRank[Head(d)]
    BY <1>2, PathAssumption
<1>4. Before(o, d) <=> NameRank[Head(o)] < NameRank[Head(d)]
    <2>1. PICK len \in Nat : TextLen(o) = len /\ TextLen(d) = len
        BY DEF OneLength
    <2>2. o[1] = Head(o) /\ d[1] = Head(d)
        <3>1. o \in Seq(Name) /\ d \in Seq(Name)
            BY StretchIsPath DEF Stage
        <3> QED
            BY <1>1, <3>1, HeadTailProperties
    <2> HIDE DEF o, d
    <2>3. ~(len < len)
        OBVIOUS
    <2>4. ~(TextLen(o) < TextLen(d)) /\ TextLen(o) = TextLen(d)
        BY <2>1, <2>3
    <2> QED
        BY <1>1, <2>2, <2>4 DEF Before
<1>5. Legs(c) = IF Before(o, d) THEN <<"orig", "dest">> ELSE <<"dest", "orig">>
    BY <1>1, LegsShape
<1>6. CASE Before(o, d)
    <2>1. Legs(c)[1] = "orig" /\ Legs(c)[2] = "dest"
        BY <1>5, <1>6
    <2> QED
        BY <1>4, <1>6, <2>1
<1>7. CASE ~Before(o, d)
    <2>1. Legs(c)[1] = "dest" /\ Legs(c)[2] = "orig"
        BY <1>5, <1>7
    <2>2. NameRank[Head(d)] < NameRank[Head(o)]
        BY <1>3, <1>4, <1>7
    <2> QED
        BY <2>1, <2>2
<1> QED
    BY <1>6, <1>7

\* So no group of threads wait for one another as long as tfs_fs_move never
\* has to compare texts of different lengths, which come shorter first
\* whatever their names (util.h:39) and so not in one order.
THEOREM EqualLengthsAreSafe ==
    ASSUME OneLength, NoMoveToParent PROVE Spec /\ NoLeak => []NoWaitCycle
<1>1. NameRank \in [Name -> Nat] /\ LegsFollow(NameRank)
    BY PathAssumption, OneLengthFollows
<1> QED
    BY <1>1, LocksAreTakenInOrder
=============================================================================
