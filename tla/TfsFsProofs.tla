------------------------------ MODULE TfsFsProofs ------------------------------
(***************************************************************************)
(* First, what the operators of TfsPath, InodeDir and TfsNamespace return, *)
(* whatever the names and inodes are: paths and their parts; the           *)
(* directories of tfs/inode/dir.c with the entries they have after each    *)
(* operation; and, for any table whose directories form a tree, what the   *)
(* recursion of TfsNamespace computes (ReachedIs, by induction on the      *)
(* length of the paths), that each inode is reached by one path (OnePath), *)
(* and what becomes of the paths when an entry is added (LeadsAdded),      *)
(* removed or moved.                                                       *)
(*                                                                         *)
(* Then, for every table, set of threads, names and commands: TypeOK, the  *)
(* locks a thread has at each place (LocksOwned), and that no inode is     *)
(* written without its lock (OnlyWriterWrites).                            *)
(*                                                                         *)
(* The invariant is TypeOK /\ LocksOwned.  It splits into a part about the *)
(* table and one about each thread.  A step of a thread t is one of six    *)
(* steps of the table (TableStep); it takes no lock away from the other    *)
(* threads and leaves their variables alone (Others), so that only t's own *)
(* part of the invariant has to be followed through the actions.           *)
(*                                                                         *)
(* Last: the path a thread works on stays in place (PathHeld), so does the *)
(* inode it waits for (TargetLinked), the directories form a tree          *)
(* (TreeShape), and a print walks a tree that does not change              *)
(* (PrintStable).                                                          *)
(*                                                                         *)
(* The three depend on one another.  A directory a thread has locked keeps *)
(* its entries, because only its writer changes it, and an inode with a    *)
(* name is not freed, because what is freed has lost its name before.  A   *)
(* move keeps the tree a tree because the inode it moves is none of those  *)
(* on its own path, all of which it had locked when it locked that one.    *)
(***************************************************************************)
EXTENDS
    TfsFsProps,
    SequenceTheorems, FiniteSetTheorems, WellFoundedInduction, TLAPS

\* The parent of a path is a path, and its last component a name, or the
\* empty name (tfs_path_pop_last).
LEMMA PopLast ==
    ASSUME NEW p \in Path
    PROVE  ParentPath(p) \in Path /\ LastName(p) \in Name \cup {NoName}
<1>1. Len(p) \in Nat /\ \A k \in 1 .. Len(p) : p[k] \in Name
    BY LenProperties, ElementOfSeq DEF Path
<1>2. CASE p = <<>>
    BY <1>2 DEF ParentPath, LastName, Path
<1>3. CASE p # <<>>
    <2>1. Len(p) \in 1 .. Len(p)
        BY <1>3, EmptySeq DEF Path
    <2>2. SubSeq(p, 1, Len(p) - 1) \in Seq(Name)
        BY <1>1, SubSeqProperties
    <2> QED
        BY <1>1, <1>3, <2>1, <2>2 DEF ParentPath, LastName, Path
<1> QED
    BY <1>2, <1>3

\* The common part of two paths is no longer than the first of them
\* (tfs_path_common_ancestor).
LEMMA SharedLenBound ==
    ASSUME NEW p \in Path, NEW q \in Path
    PROVE  SharedLen(p, q) \in 0 .. Len(p)
<1> DEFINE K == {k \in 1 .. Len(p) : k <= Len(q) /\ SubSeq(p, 1, k) = SubSeq(q, 1, k)}
<1>1. Len(p) \in Nat
    BY LenProperties DEF Path
<1>2. IsFiniteSet(1 .. Len(p)) /\ Cardinality(1 .. Len(p)) = Len(p)
    <2>1. \A n \in Nat : IsFiniteSet(1 .. n) /\ Cardinality(1 .. n) = IF 1 > n THEN 0 ELSE n - 1 + 1
        BY FS_Interval
    <2>2. \A n \in Nat : (IF 1 > n THEN 0 ELSE n - 1 + 1) = n
        OBVIOUS
    <2> QED
        BY <1>1, <2>1, <2>2
<1>3. K \in SUBSET (1 .. Len(p))
    OBVIOUS
<1> HIDE DEF K
<1>4. IsFiniteSet(K) /\ Cardinality(K) <= Cardinality(1 .. Len(p))
    BY <1>2, <1>3, FS_Subset
<1>5. Cardinality(K) \in Nat
    BY <1>4, FS_CardinalityType
<1> QED
    BY <1>1, <1>2, <1>4, <1>5 DEF SharedLen, K

\* The common ancestor of two paths, and what is left of the first, are paths.
LEMMA CommonAncestorPath ==
    ASSUME NEW p \in Path, NEW q \in Path
    PROVE  CommonAncestor(p, q) \in Path /\ PathRest(p, q) \in Path
<1>1. Len(p) \in Nat /\ \A k \in 1 .. Len(p) : p[k] \in Name
    BY LenProperties, ElementOfSeq DEF Path
<1>2. SharedLen(p, q) \in 0 .. Len(p)
    BY SharedLenBound
<1>3. \A k \in 1 .. SharedLen(p, q) : p[k] \in Name
    BY <1>1, <1>2
<1>4. \A k \in SharedLen(p, q) + 1 .. Len(p) : p[k] \in Name
    BY <1>1, <1>2
<1>5. SubSeq(p, 1, SharedLen(p, q)) \in Seq(Name)
    BY <1>1, <1>2, <1>3, SubSeqProperties
<1>6. SubSeq(p, SharedLen(p, q) + 1, Len(p)) \in Seq(Name)
    BY <1>1, <1>2, <1>4, SubSeqProperties
<1> QED
    BY <1>5, <1>6 DEF CommonAncestor, PathRest, Path


-----------------------------------------------------------------------------
\* The common ancestor of two paths.

\* The lengths at which two paths agree.
Agreeing(p, q) == {k \in 1 .. Len(p) : k <= Len(q) /\ SubSeq(p, 1, k) = SubSeq(q, 1, k)}

\* They agree at a length if they do at a greater one.
LEMMA AgreeBelow ==
    ASSUME NEW p \in Path, NEW q \in Path, NEW k \in Agreeing(p, q), NEW j \in 1 .. k
    PROVE  j \in Agreeing(p, q)
<1>1. Len(p) \in Nat /\ Len(q) \in Nat /\ (\A l \in 1 .. Len(p) : p[l] \in Name) /\ (\A l \in 1 .. Len(q) : q[l] \in Name)
    BY LenProperties, ElementOfSeq DEF Path
<1>2. k \in 1 .. Len(p) /\ k <= Len(q) /\ SubSeq(p, 1, k) = SubSeq(q, 1, k)
    BY DEF Agreeing
<1>3. ASSUME NEW l \in 1 .. k
      PROVE  /\ SubSeq(p, 1, l) \in Seq(Name) /\ SubSeq(q, 1, l) \in Seq(Name)
             /\ Len(SubSeq(p, 1, l)) = l /\ Len(SubSeq(q, 1, l)) = l
             /\ \A i \in 1 .. l : SubSeq(p, 1, l)[i] = p[i]
             /\ \A i \in 1 .. l : SubSeq(q, 1, l)[i] = q[i]
    <2>1. (\A i \in 1 .. l : p[i] \in Name) /\ (\A i \in 1 .. l : q[i] \in Name) /\ l \in Int /\ l >= 1
        BY <1>1, <1>2
    <2> HIDE <1>2
    <2>2. /\ SubSeq(p, 1, l) \in Seq(Name) /\ Len(SubSeq(p, 1, l)) = l
          /\ \A i \in 1 .. l : SubSeq(p, 1, l)[i] = p[1 + i - 1]
        BY <2>1, SubSeqProperties
    <2>3. /\ SubSeq(q, 1, l) \in Seq(Name) /\ Len(SubSeq(q, 1, l)) = l
          /\ \A i \in 1 .. l : SubSeq(q, 1, l)[i] = q[1 + i - 1]
        BY <2>1, SubSeqProperties
    <2> QED
        BY <2>1, <2>2, <2>3
<1>4. \A i \in 1 .. k : p[i] = q[i]
    <2>1. k \in 1 .. k
        BY <1>2
    <2> QED
        BY <1>2, <1>3, <2>1
<1>5. SubSeq(p, 1, j) = SubSeq(q, 1, j)
    <2>1. \A i \in 1 .. j : SubSeq(p, 1, j)[i] = SubSeq(q, 1, j)[i]
        BY <1>2, <1>3, <1>4
    <2> QED
        BY <1>3, <2>1, SeqEqual
<1> QED
    BY <1>1, <1>2, <1>5 DEF Agreeing

\* So they do at the number of these lengths, if there are any.
LEMMA AgreeAtShared ==
    ASSUME NEW p \in Path, NEW q \in Path, SharedLen(p, q) # 0
    PROVE  SharedLen(p, q) \in Agreeing(p, q)
<1> DEFINE K == Agreeing(p, q)
           m == SharedLen(p, q)
<1>1. Len(p) \in Nat /\ m \in 0 .. Len(p) /\ m = Cardinality(K)
    BY SharedLenBound, LenProperties DEF Path, SharedLen, Agreeing
<1>2. \A k \in K : k \in 1 .. Len(p)
    BY DEF Agreeing
<1>3. \A k \in K : \A j \in 1 .. k : j \in K
    BY AgreeBelow
<1>4. m # 0
    OBVIOUS
<1> HIDE DEF K, m
<1> SUFFICES ASSUME m \notin K PROVE FALSE
    BY DEF K, m
<1>5. K \in SUBSET (1 .. m - 1)
    BY <1>1, <1>2, <1>3, <1>4
<1>6. IsFiniteSet(1 .. m - 1) /\ Cardinality(1 .. m - 1) = m - 1
    <2>1. 1 \in Int /\ m - 1 \in Int /\ (1 > m - 1 => m - 1 = 0) /\ (m - 1) - 1 + 1 = m - 1
        BY <1>1, <1>4
    <2> QED
        BY <2>1, FS_Interval
<1>7. Cardinality(K) <= m - 1
    BY <1>5, <1>6, FS_Subset
<1> QED
    BY <1>1, <1>7

\* No length at which they agree is greater.
LEMMA AgreeAtMost ==
    ASSUME NEW p \in Path, NEW q \in Path, NEW k \in Agreeing(p, q)
    PROVE  k <= SharedLen(p, q)
<1> DEFINE K == Agreeing(p, q)
           m == SharedLen(p, q)
<1>1. Len(p) \in Nat /\ m \in 0 .. Len(p) /\ m = Cardinality(K) /\ k \in 1 .. Len(p)
    BY SharedLenBound, LenProperties DEF Path, SharedLen, Agreeing
<1>2. K \in SUBSET (1 .. Len(p))
    BY DEF Agreeing
<1>3. 1 .. k \in SUBSET K
    BY AgreeBelow
<1> HIDE DEF K, m
<1>4. IsFiniteSet(1 .. Len(p))
    BY <1>1, FS_Interval
<1>5. IsFiniteSet(K)
    BY <1>2, <1>4, FS_Subset
<1>6. Cardinality(1 .. k) <= Cardinality(K)
    BY <1>3, <1>5, FS_Subset
<1>7. Cardinality(1 .. k) = k
    <2>1. 1 \in Int /\ k \in Int /\ ~(1 > k) /\ k - 1 + 1 = k
        BY <1>1
    <2> QED
        BY <2>1, FS_Interval
<1> QED
    BY <1>1, <1>6, <1>7 DEF m

\* Nothing is left of a path that begins the other.
LEMMA PrefixRest ==
    ASSUME NEW p \in Path, NEW q \in Path, IsPrefix(p, q)
    PROVE  PathRest(p, q) = <<>>
<1>1. Len(p) \in Nat /\ Len(q) \in Nat /\ SharedLen(p, q) \in 0 .. Len(p)
    BY SharedLenBound, LenProperties DEF Path
<1>2. SharedLen(p, q) = Len(p)
    <2>1. CASE Len(p) = 0
        BY <1>1, <2>1
    <2>2. CASE Len(p) # 0
        <3>1. Len(p) \in Agreeing(p, q)
            BY <1>1, <2>2 DEF IsPrefix, Agreeing
        <3>2. Len(p) <= SharedLen(p, q)
            BY <3>1, AgreeAtMost
        <3> QED
            BY <1>1, <3>2
    <2> QED
        BY <2>1, <2>2
<1>3. SubSeq(p, Len(p) + 1, Len(p)) = <<>>
    BY <1>1, SubSeqEmpty
<1> QED
    BY <1>2, <1>3 DEF PathRest

\* Either path gives the same common ancestor.
LEMMA CommonSame ==
    ASSUME NEW p \in Path, NEW q \in Path
    PROVE  SharedLen(p, q) = SharedLen(q, p) /\ CommonAncestor(p, q) = CommonAncestor(q, p)
<1>1. Agreeing(p, q) = Agreeing(q, p)
    BY LenProperties DEF Agreeing, Path
<1>2. SharedLen(p, q) = SharedLen(q, p)
    BY <1>1 DEF SharedLen, Agreeing
<1>3. CASE SharedLen(p, q) = 0
    <2>1. SubSeq(p, 1, 0) = <<>> /\ SubSeq(q, 1, 0) = <<>>
        BY SubSeqEmpty
    <2> QED
        BY <1>2, <1>3, <2>1 DEF CommonAncestor
<1>4. CASE SharedLen(p, q) # 0
    BY <1>2, <1>4, AgreeAtShared DEF CommonAncestor, Agreeing
<1> QED
    BY <1>2, <1>3, <1>4

\* A path is its common ancestor with another and what is left of it.
LEMMA CommonThenRest ==
    ASSUME NEW p \in Path, NEW q \in Path
    PROVE  p = CommonAncestor(p, q) \o PathRest(p, q)
<1>1. Len(p) \in Nat /\ SharedLen(p, q) \in 0 .. Len(p)
    BY SharedLenBound, LenProperties DEF Path
<1> DEFINE k == SharedLen(p, q)
<1>2. 1 \in 1 .. Len(p) + 1 /\ k \in 1 - 1 .. Len(p) /\ Len(p) \in k .. Len(p)
    BY <1>1
<1> HIDE DEF k
<1>3. SubSeq(p, 1, k) \o SubSeq(p, k + 1, Len(p)) = SubSeq(p, 1, Len(p))
    BY <1>2, ConcatAdjacentSubSeq DEF Path
<1>4. SubSeq(p, 1, Len(p)) = p
    BY SubSeqFull DEF Path
<1> QED
    BY <1>3, <1>4 DEF CommonAncestor, PathRest, k

\* Nothing is left of two paths that are the same.
LEMMA SamePathRest ==
    ASSUME NEW p \in Path
    PROVE  PathRest(p, p) = <<>>
<1>1. IsPrefix(p, p)
    BY LenProperties DEF IsPrefix, Path
<1> QED
    BY <1>1, PrefixRest

-----------------------------------------------------------------------------
\* Sequences put together and taken apart.

\* IsPrefix, by what follows.
LEMMA PrefixIs ==
    ASSUME NEW S, NEW p \in Seq(S), NEW q \in Seq(S)
    PROVE  IsPrefix(p, q) <=> \E s \in Seq(S) : q = p \o s
<1>1. Len(p) \in Nat /\ Len(q) \in Nat
    BY LenProperties
<1>2. ASSUME IsPrefix(p, q) PROVE \E s \in Seq(S) : q = p \o s
    <2>1. Len(p) <= Len(q) /\ SubSeq(p, 1, Len(p)) = SubSeq(q, 1, Len(p))
        BY <1>2 DEF IsPrefix
    <2>2. p = SubSeq(q, 1, Len(p))
        BY <2>1, SubSeqFull
    <2> DEFINE s == SubSeq(q, Len(p) + 1, Len(q))
    <2>3. \A k \in Len(p) + 1 .. Len(q) : q[k] \in S
        BY <1>1, ElementOfSeq
    <2>4. s \in Seq(S)
        BY <1>1, <2>3, SubSeqProperties
    <2>5. SubSeq(q, 1, Len(p)) \o SubSeq(q, Len(p) + 1, Len(q)) = SubSeq(q, 1, Len(q))
        <3>1. 1 \in 1 .. Len(q) + 1 /\ Len(p) \in 1 - 1 .. Len(q) /\ Len(q) \in Len(p) .. Len(q)
            BY <1>1, <2>1
        <3> QED
            BY <3>1, ConcatAdjacentSubSeq
    <2>6. SubSeq(q, 1, Len(q)) = q
        BY SubSeqFull
    <2> QED
        BY <2>2, <2>4, <2>5, <2>6
<1>3. ASSUME NEW s \in Seq(S), q = p \o s PROVE IsPrefix(p, q)
    <2>1. /\ Len(q) = Len(p) + Len(s) /\ Len(s) \in Nat
          /\ \A k \in 1 .. Len(p) + Len(s) : q[k] = IF k <= Len(p) THEN p[k] ELSE s[k - Len(p)]
        BY <1>3, ConcatProperties, LenProperties
    <2>2. \A k \in 1 .. Len(p) : q[k] \in S /\ q[k] = p[k]
        <3> TAKE k \in 1 .. Len(p)
        <3>1. k \in 1 .. Len(p) + Len(s) /\ k <= Len(p) /\ k \in 1 .. Len(q)
            BY <1>1, <2>1
        <3> QED
            BY <2>1, <3>1, ElementOfSeq
    <2> DEFINE r == SubSeq(q, 1, Len(p))
    <2>3. r \in Seq(S) /\ Len(r) = Len(p) /\ \A k \in 1 .. Len(p) : r[k] = q[k]
        BY <1>1, <2>2, SubSeqProperties
    <2> HIDE DEF r
    <2>4. r = p
        BY <2>2, <2>3, SeqEqual
    <2>5. SubSeq(p, 1, Len(p)) = p
        BY SubSeqFull
    <2> QED
        BY <1>1, <2>1, <2>4, <2>5 DEF IsPrefix, r
<1> QED
    BY <1>2, <1>3

\* What follows a part of a path, in the form AtomicFs takes it.
LEMMA AfterPrefix ==
    ASSUME NEW S, NEW p \in Seq(S), NEW s \in Seq(S)
    PROVE  SubSeq(p \o s, Len(p) + 1, Len(p \o s)) = s
<1> DEFINE q == p \o s
           r == SubSeq(q, Len(p) + 1, Len(q))
<1>1. Len(p) \in Nat /\ Len(s) \in Nat /\ \A k \in 1 .. Len(s) : s[k] \in S
    BY LenProperties, ElementOfSeq
<1>2. /\ q \in Seq(S) /\ Len(q) = Len(p) + Len(s)
      /\ \A k \in 1 .. Len(p) + Len(s) : q[k] = IF k <= Len(p) THEN p[k] ELSE s[k - Len(p)]
    BY ConcatProperties
<1> HIDE DEF q
<1>3. \A k \in Len(p) + 1 .. Len(q) : q[k] \in S
    BY <1>1, <1>2, ElementOfSeq
<1>4. /\ r \in Seq(S) /\ Len(r) = Len(s)
      /\ \A k \in 1 .. Len(s) : r[k] = q[Len(p) + 1 + k - 1]
    BY <1>1, <1>2, <1>3, SubSeqProperties
<1> HIDE DEF r
<1>5. \A k \in 1 .. Len(s) : r[k] = s[k]
    <2> TAKE k \in 1 .. Len(s)
    <2>1. /\ Len(p) + k \in 1 .. Len(p) + Len(s) /\ ~(Len(p) + k <= Len(p))
          /\ (Len(p) + k) - Len(p) = k /\ Len(p) + 1 + k - 1 = Len(p) + k
        BY <1>1
    <2> QED
        BY <1>2, <1>4, <2>1
<1>6. r = s
    BY <1>4, <1>5, SeqEqual
<1> QED
    BY <1>6 DEF r, q

-----------------------------------------------------------------------------
\* Directories.

\* The entries of a directory are inodes of the table.
LEMMA EntryIsInode ==
    ASSUME NEW d \in Dir
    PROVE  /\ Names(d) \subseteq EntryName
           /\ \A n \in Names(d) : d.entry[n] \in Inode
           /\ Children(d) \subseteq Inode
<1>1. PICK S \in SUBSET EntryName : d.entry \in [S -> Inode]
    BY DEF Dir
<1> QED
    BY <1>1 DEF Names, Children

\* A directory is built from a number of slots and a map of names to inodes.
LEMMA DirByParts ==
    ASSUME NEW s \in Nat, NEW S \in SUBSET EntryName, NEW f \in [S -> Inode]
    PROVE  [slots |-> s, entry |-> f] \in Dir
BY DEF Dir

\* tfs_inode_dir_new
LEMMA EmptyDirIsDir == EmptyDir \in Dir
<1>1. [n \in {} |-> 0] \in [{} -> Inode]
    OBVIOUS
<1> QED
    BY <1>1, DirByParts DEF EmptyDir

\* tfs_inode_dir_add_entry
LEMMA AddEntryIsDir ==
    ASSUME NEW d \in Dir, NEW n \in EntryName, NEW i \in Inode
    PROVE  AddEntry(d, n, i) \in Dir
<1> DEFINE f == [m \in Names(d) \cup {n} |-> IF m = n THEN i ELSE d.entry[m]]
           s == IF FreeSlots(d) > 0 THEN d.slots
                ELSE IF 2 * d.slots > MinEntries THEN 2 * d.slots ELSE MinEntries
<1>1. Names(d) \cup {n} \in SUBSET EntryName
    BY EntryIsInode
<1>2. f \in [Names(d) \cup {n} -> Inode]
    BY EntryIsInode
<1>3. s \in Nat
    BY MinEntriesAssumption DEF Dir
<1>4. AddEntry(d, n, i) = [slots |-> s, entry |-> f]
    BY DEF AddEntry
<1> HIDE DEF f, s
<1> QED
    BY <1>1, <1>2, <1>3, <1>4, DirByParts

\* tfs_inode_dir_remove_entry_by_dir_idx
LEMMA RemoveEntryIsDir ==
    ASSUME NEW d \in Dir, NEW n
    PROVE  RemoveEntry(d, n) \in Dir
<1> DEFINE f == [m \in Names(d) \ {n} |-> d.entry[m]]
<1>1. Names(d) \ {n} \in SUBSET EntryName
    BY EntryIsInode
<1>2. f \in [Names(d) \ {n} -> Inode]
    BY EntryIsInode
<1>3. RemoveEntry(d, n) = [slots |-> d.slots, entry |-> f] /\ d.slots \in Nat
    BY DEF RemoveEntry, Dir
<1> HIDE DEF f
<1> QED
    BY <1>1, <1>2, <1>3, DirByParts

\* tfs_inode_dir_rename, of an entry that is there
LEMMA RenameEntryIsDir ==
    ASSUME NEW d \in Dir, NEW o \in Names(d), NEW n \in EntryName
    PROVE  RenameEntry(d, o, n) \in Dir
<1> DEFINE f == [m \in (Names(d) \ {o}) \cup {n} |->
                    IF m = n THEN d.entry[o] ELSE d.entry[m]]
<1>1. (Names(d) \ {o}) \cup {n} \in SUBSET EntryName
    BY EntryIsInode
<1>2. f \in [(Names(d) \ {o}) \cup {n} -> Inode]
    BY EntryIsInode
<1>3. RenameEntry(d, o, n) = [slots |-> d.slots, entry |-> f] /\ d.slots \in Nat
    BY DEF RenameEntry, Dir
<1> HIDE DEF f
<1> QED
    BY <1>1, <1>2, <1>3, DirByParts
-----------------------------------------------------------------------------
\* The entries of a directory, after each operation of dir.c.

\* The entry n of the directory d is i.
HasEntry(d, n, i) == n \in Names(d) /\ d.entry[n] = i

LEMMA EmptyDirHas == ASSUME NEW n, NEW i PROVE ~HasEntry(EmptyDir, n, i)
BY DEF HasEntry, EmptyDir, Names

LEMMA AddEntryHas ==
    ASSUME NEW d, NEW n, NEW i, NEW m, NEW j
    PROVE  HasEntry(AddEntry(d, n, i), m, j) <=> (m = n /\ j = i) \/ (m # n /\ HasEntry(d, m, j))
<1> DEFINE f == [k \in Names(d) \cup {n} |-> IF k = n THEN i ELSE d.entry[k]]
<1>1. AddEntry(d, n, i).entry = f
    BY DEF AddEntry
<1> QED
    BY <1>1 DEF HasEntry, Names

LEMMA RemoveEntryHas ==
    ASSUME NEW d \in Dir, NEW n, NEW m, NEW j
    PROVE  HasEntry(RemoveEntry(d, n), m, j) <=> m # n /\ HasEntry(d, m, j)
<1> DEFINE f == [k \in Names(d) \ {n} |-> d.entry[k]]
<1>1. RemoveEntry(d, n).entry = f
    BY DEF RemoveEntry, Dir
<1> QED
    BY <1>1 DEF HasEntry, Names

LEMMA RenameEntryHas ==
    ASSUME NEW d \in Dir, NEW o, NEW n, NEW m, NEW j
    PROVE  HasEntry(RenameEntry(d, o, n), m, j) <=>
              (m = n /\ j = d.entry[o]) \/ (m # n /\ m # o /\ HasEntry(d, m, j))
<1> DEFINE f == [k \in (Names(d) \ {o}) \cup {n} |-> IF k = n THEN d.entry[o] ELSE d.entry[k]]
<1>1. RenameEntry(d, o, n).entry = f
    BY DEF RenameEntry, Dir
<1> QED
    BY <1>1 DEF HasEntry, Names

-----------------------------------------------------------------------------
\* A way from the root to i that takes the names of p.
IsWay(D, p, c) ==
    /\ c \in [0 .. Len(p) -> Inode]
    /\ c[0] = Root
    /\ \A k \in 1 .. Len(p) : HasEntry(D[c[k - 1]], p[k], c[k])

\* The path p leads to i.
Leads(D, p, i) == \E c \in [0 .. Len(p) -> Inode] : IsWay(D, p, c) /\ c[Len(p)] = i

EntryPath == Seq(EntryName)

\* Induction.
LEMMA Induction ==
    ASSUME NEW S, 0 \in S, \A n \in Nat : n \in S => n + 1 \in S
    PROVE  Nat \subseteq S
<1> SUFFICES ASSUME Nat \ S # {} PROVE FALSE
    OBVIOUS
<1> DEFINE R == OpToRel(<, Nat)
<1>1. \A j, k \in Nat : j < k => <<j, k>> \in R
    <2>1. R = {ss \in Nat \X Nat : ss[1] < ss[2]}
        BY Zenon DEF OpToRel
    <2> HIDE DEF R
    <2> QED
        BY <2>1
<1>2. IsWellFoundedOn(R, Nat)
    BY Zenon, NatLessThanWellFounded
<1> HIDE DEF R
<1> DEFINE T == Nat \ S
<1>3. T \in SUBSET Nat /\ T # {}
    OBVIOUS
<1> HIDE DEF T
<1>4. PICK k \in T : \A j \in T : ~(<<j, k>> \in R)
    BY <1>2, <1>3, WFMin
<1>5. k \in Nat /\ k \notin S /\ \A j \in Nat : j \notin S => ~(j < k)
    BY <1>1, <1>4 DEF T
<1>6. k # 0
    BY <1>5
<1>7. k - 1 \in Nat /\ k - 1 \in S
    BY <1>5, <1>6
<1> QED
    BY <1>5, <1>7

\* The root is reached by the empty path, and by no other inode.
LEMMA LeadsToRoot ==
    ASSUME NEW D, NEW i
    PROVE  Leads(D, <<>>, i) <=> i = Root
<1>1. Len(<<>>) = 0 /\ Root \in Inode
    BY BaseAssumption DEF Root, Inode
<1>2. ASSUME Leads(D, <<>>, i) PROVE i = Root
    BY <1>1, <1>2 DEF Leads, IsWay
<1>3. ASSUME i = Root PROVE Leads(D, <<>>, i)
    <2> DEFINE c == [k \in 0 .. 0 |-> Root]
    <2>1. c \in [0 .. Len(<<>>) -> Inode] /\ c[0] = Root
        BY <1>1
    <2> HIDE DEF c
    <2>2. 0 \in 0 .. 0 /\ 1 .. Len(<<>>) = {}
        BY <1>1
    <2>3. IsWay(D, <<>>, c)
        BY <2>1, <2>2 DEF IsWay
    <2> QED
        BY <1>1, <1>3, <2>1, <2>3 DEF Leads
<1> QED
    BY <1>2, <1>3

\* What a path leads to, from what the path before its last name leads to.
LEMMA LeadsAppend ==
    ASSUME NEW D, NEW p \in EntryPath, NEW n \in EntryName, NEW j \in Inode
    PROVE  Leads(D, Append(p, n), j) <=> \E i \in Inode : Leads(D, p, i) /\ HasEntry(D[i], n, j)
<1> DEFINE q == Append(p, n)
           m == Len(p)
<1>1. m \in Nat /\ Len(q) = m + 1 /\ q[m + 1] = n /\ \A k \in 1 .. m : q[k] = p[k]
    BY DEF EntryPath
<1> HIDE DEF q, m
<1>2. ASSUME Leads(D, q, j) PROVE \E i \in Inode : Leads(D, p, i) /\ HasEntry(D[i], n, j)
    <2>1. PICK c \in [0 .. m + 1 -> Inode] : IsWay(D, q, c) /\ c[m + 1] = j
        BY <1>1, <1>2 DEF Leads
    <2>2. \A k \in 1 .. m + 1 : HasEntry(D[c[k - 1]], q[k], c[k])
        BY <1>1, <2>1 DEF IsWay
    <2> DEFINE b == [k \in 0 .. m |-> c[k]]
    <2>3. b \in [0 .. m -> Inode] /\ b[0] = Root /\ \A k \in 0 .. m : b[k] = c[k]
        BY <1>1, <2>1 DEF IsWay
    <2> HIDE DEF b
    <2>4. \A k \in 1 .. m : HasEntry(D[b[k - 1]], p[k], b[k])
        <3> TAKE k \in 1 .. m
        <3>1. k \in 1 .. m + 1 /\ k - 1 \in 0 .. m /\ k \in 0 .. m
            BY <1>1
        <3> QED
            BY <1>1, <2>2, <2>3, <3>1
    <2>5. Leads(D, p, b[m])
        BY <2>3, <2>4 DEF Leads, IsWay, m
    <2>6. HasEntry(D[b[m]], n, j)
        <3>1. m + 1 \in 1 .. m + 1 /\ (m + 1) - 1 = m /\ m \in 0 .. m
            BY <1>1
        <3> QED
            BY <1>1, <2>1, <2>2, <2>3, <3>1
    <2>7. b[m] \in Inode
        BY <1>1, <2>3
    <2> QED
        BY <2>5, <2>6, <2>7
<1>3. ASSUME NEW i \in Inode, Leads(D, p, i), HasEntry(D[i], n, j) PROVE Leads(D, q, j)
    <2>1. PICK c \in [0 .. m -> Inode] : IsWay(D, p, c) /\ c[m] = i
        BY <1>3 DEF Leads, m
    <2>2. c[0] = Root /\ \A k \in 1 .. m : HasEntry(D[c[k - 1]], p[k], c[k])
        BY <2>1 DEF IsWay, m
    <2> DEFINE b == [k \in 0 .. m + 1 |-> IF k = m + 1 THEN j ELSE c[k]]
    <2>3. b \in [0 .. m + 1 -> Inode] /\ b[m + 1] = j /\ \A k \in 0 .. m : b[k] = c[k]
        BY <1>1, <2>1
    <2> HIDE DEF b
    <2>4. \A k \in 1 .. m + 1 : HasEntry(D[b[k - 1]], q[k], b[k])
        <3> TAKE k \in 1 .. m + 1
        <3>1. CASE k = m + 1
            <4>1. k - 1 = m /\ m \in 0 .. m
                BY <1>1, <3>1
            <4> QED
                BY <1>1, <1>3, <2>1, <2>3, <3>1, <4>1
        <3>2. CASE k # m + 1
            <4>1. k \in 1 .. m /\ k - 1 \in 0 .. m /\ k \in 0 .. m
                BY <1>1, <3>2
            <4> QED
                BY <1>1, <2>2, <2>3, <4>1
        <3> QED
            BY <3>1, <3>2
    <2>5. b[0] = Root
        BY <1>1, <2>2, <2>3
    <2> QED
        BY <1>1, <2>3, <2>4, <2>5 DEF Leads, IsWay
<1> QED
    BY <1>2, <1>3 DEF q

\* A path is empty, or a shorter one and a last name.
LEMMA LastSplit ==
    ASSUME NEW S, NEW p \in Seq(S), p # <<>>
    PROVE  \E q \in Seq(S), n \in S : p = Append(q, n) /\ Len(q) = Len(p) - 1
<1> DEFINE q == SubSeq(p, 1, Len(p) - 1)
<1>1. Len(p) \in Nat /\ Len(p) >= 1 /\ \A k \in 1 .. Len(p) : p[k] \in S
    BY EmptySeq, LenProperties, ElementOfSeq
<1> DEFINE l == Len(p) - 1
<1>2. q \in Seq(S) /\ Len(q) = l /\ \A k \in 1 .. l : q[k] = p[k]
    <2>1. l \in Nat /\ 1 \in 1 .. l + 1 /\ \A k \in 1 .. l : k \in 1 .. Len(p)
        BY <1>1
    <2>2. \A k \in 1 .. l : p[k] \in S
        BY <1>1, <2>1
    <2> HIDE DEF l
    <2>3. q = SubSeq(p, 1, l)
        BY DEF l
    <2> QED
        BY <2>1, <2>2, <2>3, SubSeqProperties
<1> HIDE DEF q
<1>3. Append(q, p[Len(p)]) = p
    <2>1. Append(q, p[Len(p)]) \in Seq(S) /\ Len(Append(q, p[Len(p)])) = Len(p)
        BY <1>1, <1>2
    <2>2. \A k \in 1 .. Len(p) : Append(q, p[Len(p)])[k] = p[k]
        BY <1>1, <1>2
    <2> QED
        BY <1>1, <2>1, <2>2, SeqEqual
<1> QED
    BY <1>1, <1>2, <1>3

\* Induction on the length of a path.
LEMMA PathInduction ==
    ASSUME NEW P, <<>> \in P,
           \A p \in EntryPath, n \in EntryName : p \in P => Append(p, n) \in P
    PROVE  EntryPath \subseteq P
<1> DEFINE S == {m \in Nat : \A p \in EntryPath : Len(p) = m => p \in P}
<1>1. 0 \in S
    BY EmptySeq DEF EntryPath
<1>2. ASSUME NEW m \in Nat, m \in S PROVE m + 1 \in S
    <2> SUFFICES ASSUME NEW p \in EntryPath, Len(p) = m + 1 PROVE p \in P
        BY <1>2
    <2>1. p # <<>>
        OBVIOUS
    <2>2. PICK q \in EntryPath, n \in EntryName : p = Append(q, n) /\ Len(q) = Len(p) - 1
        BY <2>1, LastSplit DEF EntryPath
    <2> QED
        BY <1>2, <2>2
<1> HIDE DEF S
<1>3. Nat \subseteq S
    BY <1>1, <1>2, Induction
<1> QED
    BY <1>3, LenProperties DEF S, EntryPath

\* A path leads to an inode, and to one only.
LEMMA LeadsToOne ==
    ASSUME NEW D, NEW p \in EntryPath, NEW i, NEW j, Leads(D, p, i), Leads(D, p, j)
    PROVE  i \in Inode /\ i = j
<1> DEFINE P == {q \in EntryPath : \A a, b \in Inode : Leads(D, q, a) /\ Leads(D, q, b) => a = b}
<1>1. i \in Inode /\ j \in Inode
    BY LenProperties DEF Leads, EntryPath
<1>2. <<>> \in P
    BY LeadsToRoot DEF EntryPath
<1>3. ASSUME NEW q \in EntryPath, NEW n \in EntryName, q \in P PROVE Append(q, n) \in P
    <2>1. Append(q, n) \in EntryPath
        BY DEF EntryPath
    <2>2. ASSUME NEW a \in Inode, NEW b \in Inode, Leads(D, Append(q, n), a), Leads(D, Append(q, n), b)
          PROVE  a = b
        <3>1. PICK d \in Inode : Leads(D, q, d) /\ HasEntry(D[d], n, a)
            BY <2>2, LeadsAppend
        <3>2. PICK e \in Inode : Leads(D, q, e) /\ HasEntry(D[e], n, b)
            BY <2>2, LeadsAppend
        <3>3. d = e
            BY <1>3, <3>1, <3>2
        <3> QED
            BY <3>1, <3>2, <3>3 DEF HasEntry
    <2> QED
        BY <2>1, <2>2
<1> HIDE DEF P
<1>4. p \in P
    BY <1>2, <1>3, PathInduction
<1> QED
    BY <1>1, <1>4 DEF P

\* No inode has two names, and the root has none.
Tidy(D) ==
    /\ \A d, e, i \in Inode, m, n \in EntryName :
          HasEntry(D[d], m, i) /\ HasEntry(D[e], n, i) => d = e /\ m = n
    /\ \A d \in Inode, n \in EntryName : ~HasEntry(D[d], n, Root)

\* Then an inode is reached by one path only.
LEMMA OnePath ==
    ASSUME NEW D, Tidy(D), NEW p \in EntryPath, NEW q \in EntryPath, NEW i,
           Leads(D, p, i), Leads(D, q, i)
    PROVE  p = q
<1> DEFINE P == {a \in EntryPath : \A b \in EntryPath, k \in Inode :
                                      Leads(D, a, k) /\ Leads(D, b, k) => a = b}
<1>1. <<>> \in P
    <2>1. ASSUME NEW b \in EntryPath, NEW k \in Inode, Leads(D, <<>>, k), Leads(D, b, k), b # <<>>
          PROVE  FALSE
        <3>1. k = Root
            BY <2>1, LeadsToRoot
        <3>2. PICK a \in EntryPath, n \in EntryName : b = Append(a, n)
            BY <2>1, LastSplit DEF EntryPath
        <3>3. PICK d \in Inode : HasEntry(D[d], n, k)
            BY <2>1, <3>2, LeadsAppend
        <3> QED
            BY <3>1, <3>3 DEF Tidy
    <2> QED
        BY <2>1 DEF EntryPath
<1>2. ASSUME NEW a \in EntryPath, NEW n \in EntryName, a \in P PROVE Append(a, n) \in P
    <2>1. Append(a, n) \in EntryPath
        BY DEF EntryPath
    <2>2. ASSUME NEW b \in EntryPath, NEW k \in Inode, Leads(D, Append(a, n), k), Leads(D, b, k)
          PROVE  Append(a, n) = b
        <3>1. PICK d \in Inode : Leads(D, a, d) /\ HasEntry(D[d], n, k)
            BY <2>2, LeadsAppend
        <3>2. b # <<>>
            BY <2>2, <3>1, LeadsToRoot DEF Tidy
        <3>3. PICK c \in EntryPath, m \in EntryName : b = Append(c, m)
            BY <3>2, LastSplit DEF EntryPath
        <3>4. PICK e \in Inode : Leads(D, c, e) /\ HasEntry(D[e], m, k)
            BY <2>2, <3>3, LeadsAppend
        <3>5. d = e /\ m = n
            BY <3>1, <3>4 DEF Tidy
        <3>6. a = c
            BY <1>2, <3>1, <3>4, <3>5
        <3> QED
            BY <3>3, <3>5, <3>6
    <2> QED
        BY <2>1, <2>2
<1> HIDE DEF P
<1>3. p \in P
    BY <1>1, <1>2, PathInduction
<1>4. i \in Inode
    BY LeadsToOne
<1> QED
    BY <1>3, <1>4 DEF P

\* The inodes on a way are those its parts lead to.
LEMMA PartLeads ==
    ASSUME NEW D, NEW p \in EntryPath, NEW c, IsWay(D, p, c), NEW k \in 0 .. Len(p)
    PROVE  /\ SubSeq(p, 1, k) \in EntryPath /\ Len(SubSeq(p, 1, k)) = k
           /\ Leads(D, SubSeq(p, 1, k), c[k])
<1> DEFINE q == SubSeq(p, 1, k)
           b == [j \in 0 .. k |-> c[j]]
<1>1. Len(p) \in Nat /\ \A j \in 1 .. Len(p) : p[j] \in EntryName
    BY LenProperties, ElementOfSeq DEF EntryPath
<1>2. \A j \in 1 .. k : p[j] \in EntryName
    BY <1>1
<1>3. q \in EntryPath /\ Len(q) = k /\ \A j \in 1 .. k : q[j] = p[j]
    BY <1>1, <1>2, SubSeqProperties DEF EntryPath
<1>4. b \in [0 .. k -> Inode] /\ b[0] = c[0] /\ b[k] = c[k] /\ \A j \in 0 .. k : b[j] = c[j]
    BY <1>1 DEF IsWay
<1> HIDE DEF q, b
<1>5. \A j \in 1 .. k : HasEntry(D[b[j - 1]], q[j], b[j])
    <2> TAKE j \in 1 .. k
    <2>1. j \in 1 .. Len(p) /\ j - 1 \in 0 .. k /\ j \in 0 .. k
        BY <1>1
    <2>2. HasEntry(D[c[j - 1]], p[j], c[j])
        BY <2>1 DEF IsWay
    <2> QED
        BY <1>3, <1>4, <2>1, <2>2
<1>6. IsWay(D, q, b)
    BY <1>3, <1>4, <1>5 DEF IsWay
<1>7. Leads(D, q, c[k])
    BY <1>3, <1>4, <1>6 DEF Leads
<1> QED
    BY <1>3, <1>7 DEF q

\* No inode comes twice on a way, so it is shorter than the table.
LEMMA ShortPath ==
    ASSUME NEW D, Tidy(D), NEW p \in EntryPath, NEW i, Leads(D, p, i)
    PROVE  Len(p) < Capacity
<1>1. Len(p) \in Nat /\ Capacity \in Nat /\ Inode = 0 .. Capacity - 1
    BY LenProperties, BaseAssumption DEF EntryPath, Inode
<1>2. PICK c \in [0 .. Len(p) -> Inode] : IsWay(D, p, c)
    BY DEF Leads
<1>3. \A j, k \in 0 .. Len(p) : c[j] = c[k] => j = k
    <2> SUFFICES ASSUME NEW j \in 0 .. Len(p), NEW k \in 0 .. Len(p), c[j] = c[k] PROVE j = k
        OBVIOUS
    <2>1. /\ SubSeq(p, 1, j) \in EntryPath /\ Len(SubSeq(p, 1, j)) = j
          /\ Leads(D, SubSeq(p, 1, j), c[j])
        BY <1>2, PartLeads
    <2>2. /\ SubSeq(p, 1, k) \in EntryPath /\ Len(SubSeq(p, 1, k)) = k
          /\ Leads(D, SubSeq(p, 1, k), c[k])
        BY <1>2, PartLeads
    <2>3. SubSeq(p, 1, j) = SubSeq(p, 1, k)
        BY <2>1, <2>2, OnePath
    <2> QED
        BY <2>1, <2>2, <2>3
<1>4. IsFiniteSet(0 .. Len(p)) /\ Cardinality(0 .. Len(p)) = Len(p) + 1
    BY <1>1, FS_Interval
<1>5. IsFiniteSet(Inode) /\ Cardinality(Inode) = Capacity
    BY <1>1, FS_Interval
<1>6. ~(Capacity < Len(p) + 1)
    BY <1>2, <1>3, <1>4, <1>5, FS_PigeonHole
<1> QED
    BY <1>1, <1>6

\* The entries of a directory are names, and its inodes inodes.
LEMMA EntryTypes ==
    ASSUME NEW D \in [Inode -> Dir], NEW d \in Inode, NEW n, NEW i, HasEntry(D[d], n, i)
    PROVE  n \in EntryName /\ i \in Inode
<1>1. D[d] \in Dir
    OBVIOUS
<1>2. n \in Names(D[d]) /\ D[d].entry[n] = i
    BY DEF HasEntry
<1> QED
    BY <1>1, <1>2, EntryIsInode

\* One round of Reached: what the entries of some inodes add.
Further(D, R) ==
    UNION {{[path |-> Append(r.path, m), inode |-> D[r.inode].entry[m]] : m \in Names(D[r.inode])} : r \in R}
LeadsIn(D, n) ==
    {r \in [path : EntryPath, inode : Inode] : Len(r.path) = n /\ Leads(D, r.path, r.inode)}

\* The paths of one length, from those one shorter.
LEMMA FurtherLeads ==
    ASSUME NEW D \in [Inode -> Dir], NEW n \in Nat
    PROVE  LeadsIn(D, n + 1) = Further(D, LeadsIn(D, n))
<1>1. ASSUME NEW r \in LeadsIn(D, n + 1) PROVE r \in Further(D, LeadsIn(D, n))
    <2>1. /\ r = [path |-> r.path, inode |-> r.inode] /\ r.path \in EntryPath /\ r.inode \in Inode
          /\ Len(r.path) = n + 1 /\ Leads(D, r.path, r.inode)
        BY <1>1 DEF LeadsIn
    <2>2. PICK q \in EntryPath, m \in EntryName : r.path = Append(q, m) /\ Len(q) = n
        <3>1. r.path # <<>>
            BY <2>1
        <3> QED
            BY <2>1, <3>1, LastSplit DEF EntryPath
    <2>3. PICK d \in Inode : Leads(D, q, d) /\ HasEntry(D[d], m, r.inode)
        BY <2>1, <2>2, LeadsAppend
    <2> DEFINE b == [path |-> q, inode |-> d]
    <2>4. b \in LeadsIn(D, n) /\ b.path = q /\ b.inode = d
        BY <2>2, <2>3 DEF LeadsIn
    <2> HIDE DEF b
    <2>5. m \in Names(D[b.inode]) /\ r = [path |-> Append(b.path, m), inode |-> D[b.inode].entry[m]]
        BY <2>1, <2>2, <2>3, <2>4 DEF HasEntry
    <2>6. r \in {[path |-> Append(b.path, k), inode |-> D[b.inode].entry[k]] : k \in Names(D[b.inode])}
        BY <2>5
    <2> QED
        BY <2>4, <2>6 DEF Further
<1>2. ASSUME NEW r \in Further(D, LeadsIn(D, n)) PROVE r \in LeadsIn(D, n + 1)
    <2>0. PICK b \in LeadsIn(D, n) :
              \E m \in Names(D[b.inode]) : r = [path |-> Append(b.path, m), inode |-> D[b.inode].entry[m]]
        BY <1>2 DEF Further
    <2>1. PICK m \in Names(D[b.inode]) : r = [path |-> Append(b.path, m), inode |-> D[b.inode].entry[m]]
        BY <2>0
    <2>2. b.path \in EntryPath /\ b.inode \in Inode /\ Len(b.path) = n /\ Leads(D, b.path, b.inode)
        BY DEF LeadsIn
    <2> DEFINE j == D[b.inode].entry[m]
    <2>3. HasEntry(D[b.inode], m, j)
        BY DEF HasEntry
    <2>4. m \in EntryName /\ j \in Inode
        BY <2>2, <2>3, EntryTypes
    <2> HIDE DEF j
    <2>5. Leads(D, Append(b.path, m), j)
        BY <2>2, <2>3, <2>4, LeadsAppend
    <2>6. Append(b.path, m) \in EntryPath /\ Len(Append(b.path, m)) = n + 1
        BY <2>2, <2>4 DEF EntryPath
    <2>7. r = [path |-> Append(b.path, m), inode |-> j]
        BY <2>1 DEF j
    <2> QED
        BY <2>4, <2>5, <2>6, <2>7 DEF LeadsIn
<1> QED
    BY <1>1, <1>2

\* Only the root is reached without a name.
LEMMA ZeroLeads ==
    ASSUME NEW D
    PROVE  LeadsIn(D, 0) = {[path |-> <<>>, inode |-> Root]}
<1>1. Root \in Inode /\ <<>> \in EntryPath /\ Len(<<>>) = 0
    BY BaseAssumption DEF Root, Inode, EntryPath
<1>2. Leads(D, <<>>, Root)
    BY LeadsToRoot
<1>3. [path |-> <<>>, inode |-> Root] \in LeadsIn(D, 0)
    BY <1>1, <1>2 DEF LeadsIn
<1>4. ASSUME NEW r \in LeadsIn(D, 0) PROVE r = [path |-> <<>>, inode |-> Root]
    <2>1. /\ r = [path |-> r.path, inode |-> r.inode] /\ r.path \in EntryPath /\ r.inode \in Inode
          /\ Len(r.path) = 0 /\ Leads(D, r.path, r.inode)
        BY <1>4 DEF LeadsIn
    <2>2. r.path = <<>>
        BY <2>1, EmptySeq DEF EntryPath
    <2>3. r.inode = Root
        BY <2>1, <2>2, LeadsToRoot
    <2> QED
        BY <2>1, <2>2, <2>3
<1> QED
    BY <1>3, <1>4

\* The recursion of Reached finds the paths, by their length.
LEMMA ReachedIs ==
    ASSUME NEW D \in [Inode -> Dir]
    PROVE  Reached(D) = UNION {LeadsIn(D, n) : n \in 0 .. Capacity}
<1> DEFINE Step_(f) == [n \in 0 .. Capacity |->
                           IF n = 0 THEN {[path |-> <<>>, inode |-> Root]} ELSE Further(D, f[n - 1])]
           W == [n \in 0 .. Capacity |-> LeadsIn(D, n)]
           at == CHOOSE f : f = Step_(f)
<1>1. Capacity \in Nat
    BY BaseAssumption
<1>2. W = Step_(W)
    <2>1. ASSUME NEW n \in 0 .. Capacity, n # 0 PROVE W[n] = Further(D, W[n - 1])
        <3>1. n - 1 \in Nat /\ n - 1 \in 0 .. Capacity /\ (n - 1) + 1 = n
            BY <1>1, <2>1
        <3> QED
            BY <3>1, FurtherLeads
    <2>2. W[0] = {[path |-> <<>>, inode |-> Root]}
        BY <1>1, ZeroLeads
    <2>3. \A n \in 0 .. Capacity :
              W[n] = IF n = 0 THEN {[path |-> <<>>, inode |-> Root]} ELSE Further(D, W[n - 1])
        BY <2>1, <2>2
    <2> QED
        BY <2>3
<1>3. at = Step_(at)
    BY <1>2
<1>4. Reached(D) = UNION {at[n] : n \in 0 .. Capacity}
    BY DEF Reached, Further
<1> HIDE DEF at, W
<1>5. \A n \in 0 .. Capacity :
          at[n] = IF n = 0 THEN {[path |-> <<>>, inode |-> Root]} ELSE Further(D, at[n - 1])
    BY <1>3
<1> DEFINE S == {n \in Nat : n <= Capacity => at[n] = LeadsIn(D, n)}
<1>6. 0 \in S
    <2>1. 0 \in 0 .. Capacity
        BY <1>1
    <2>2. at[0] = LeadsIn(D, 0)
        BY <1>5, <2>1, ZeroLeads
    <2> QED
        BY <2>2
<1>7. ASSUME NEW n \in Nat, n \in S PROVE n + 1 \in S
    <2>1. CASE n + 1 <= Capacity
        <3>1. n + 1 \in 0 .. Capacity /\ (n + 1) - 1 = n /\ n + 1 # 0 /\ n <= Capacity
            BY <1>1, <2>1
        <3>2. at[n + 1] = Further(D, at[n])
            BY <1>5, <3>1
        <3>3. at[n] = LeadsIn(D, n)
            BY <1>7, <3>1
        <3> QED
            BY <3>2, <3>3, FurtherLeads
    <2> QED
        BY <2>1
<1> HIDE DEF S
<1>8. Nat \subseteq S
    BY <1>6, <1>7, Induction
<1>9. \A n \in 0 .. Capacity : at[n] = LeadsIn(D, n)
    BY <1>1, <1>8 DEF S
<1> QED
    BY <1>4, <1>9

\* What the namespace is, without the recursion.
Paths(D) == {p \in EntryPath : \E i \in Inode : Leads(D, p, i)}

\* The namespace has the paths that lead somewhere, each with the type of its
\* inode.
LEMMA NamespaceIs ==
    ASSUME NEW D \in [Inode -> Dir], Tidy(D), NEW T
    PROVE  /\ NamespaceOf(D, T) = [p \in Paths(D) |-> NamespaceOf(D, T)[p]]
           /\ DOMAIN NamespaceOf(D, T) = Paths(D)
           /\ \A p \in EntryPath, i \in Inode : Leads(D, p, i) => NamespaceOf(D, T)[p] = T[i]
<1> DEFINE all == Reached(D)
           At_(p) == CHOOSE r \in all : r.path = p
           P == {r.path : r \in all}
<1>1. \A r \in all : r.path \in EntryPath /\ r.inode \in Inode /\ Leads(D, r.path, r.inode)
    BY ReachedIs DEF LeadsIn
<1>2. ASSUME NEW p \in EntryPath, NEW i \in Inode, Leads(D, p, i)
      PROVE  [path |-> p, inode |-> i] \in all
    <2>1. Len(p) \in 0 .. Capacity
        BY <1>2, ShortPath, LenProperties, BaseAssumption DEF EntryPath
    <2>2. [path |-> p, inode |-> i] \in LeadsIn(D, Len(p))
        BY <1>2 DEF LeadsIn
    <2> QED
        BY <2>1, <2>2, ReachedIs
<1>3. NamespaceOf(D, T) = [p \in P |-> T[At_(p).inode]]
    BY DEF NamespaceOf
<1> HIDE DEF all
<1>4. P = Paths(D)
    <2>1. ASSUME NEW p \in P PROVE p \in Paths(D)
        BY <1>1 DEF Paths
    <2>2. ASSUME NEW p \in Paths(D) PROVE p \in P
        <3>1. PICK i \in Inode : Leads(D, p, i)
            BY DEF Paths
        <3>2. [path |-> p, inode |-> i] \in all /\ [path |-> p, inode |-> i].path = p
            BY <1>2, <3>1 DEF Paths
        <3> QED
            BY <3>2
    <2> QED
        BY <2>1, <2>2
<1>5. ASSUME NEW p \in EntryPath, NEW i \in Inode, Leads(D, p, i)
      PROVE  p \in P /\ At_(p).inode = i
    <2>1. [path |-> p, inode |-> i] \in all /\ [path |-> p, inode |-> i].path = p
        BY <1>2, <1>5
    <2>2. At_(p) \in all /\ At_(p).path = p
        BY <2>1
    <2>3. Leads(D, p, At_(p).inode)
        BY <1>1, <2>2
    <2> QED
        BY <1>5, <2>1, <2>3, LeadsToOne
<1> HIDE DEF P, At_
<1>6. ASSUME NEW p \in EntryPath, NEW i \in Inode, Leads(D, p, i)
      PROVE  NamespaceOf(D, T)[p] = T[i]
    BY <1>3, <1>5, <1>6
<1> QED
    BY <1>3, <1>4, <1>6

\* Two tables with the same paths to inodes of the same type look the same.
LEMMA NamespaceSame ==
    ASSUME NEW D \in [Inode -> Dir], Tidy(D), NEW E \in [Inode -> Dir], Tidy(E), NEW T, NEW U,
           \A p \in EntryPath, i \in Inode : Leads(D, p, i) <=> Leads(E, p, i),
           \A p \in EntryPath, i \in Inode : Leads(D, p, i) => T[i] = U[i]
    PROVE  NamespaceOf(D, T) = NamespaceOf(E, U)
<1>1. Paths(D) = Paths(E)
    BY DEF Paths
<1>2. \A p \in Paths(D) : NamespaceOf(D, T)[p] = NamespaceOf(E, U)[p]
    <2> TAKE p \in Paths(D)
    <2>1. PICK i \in Inode : Leads(D, p, i)
        BY DEF Paths
    <2>2. p \in EntryPath
        BY DEF Paths
    <2>3. NamespaceOf(D, T)[p] = T[i]
        BY <2>1, <2>2, NamespaceIs
    <2>4. NamespaceOf(E, U)[p] = U[i]
        BY <2>1, <2>2, NamespaceIs
    <2> QED
        BY <2>1, <2>2, <2>3, <2>4
<1>3. NamespaceOf(D, T) = [p \in Paths(D) |-> NamespaceOf(D, T)[p]]
    BY NamespaceIs
<1>4. NamespaceOf(E, U) = [p \in Paths(E) |-> NamespaceOf(E, U)[p]]
    BY NamespaceIs
<1> QED
    BY <1>1, <1>2, <1>3, <1>4

\* Paths made longer, under names the provers leave alone.
Extend(p, n) == Append(p, n)
Join(p, s) == p \o s

\* A path made longer by one name, and which others give the same.
LEMMA ExtendPath ==
    ASSUME NEW p \in EntryPath, NEW n \in EntryName
    PROVE  /\ Extend(p, n) \in EntryPath /\ Extend(p, n) # <<>>
           /\ \A q \in EntryPath, m \in EntryName : Extend(q, m) = Extend(p, n) <=> q = p /\ m = n
<1>1. \A q \in EntryPath, m \in EntryName : Append(q, m) = Append(p, n) <=> q = p /\ m = n
    BY AppendInjective DEF EntryPath
<1> QED
    BY <1>1, AppendProperties DEF EntryPath, Extend

\* Two paths, one after the other.
LEMMA JoinPath ==
    ASSUME NEW p \in EntryPath, NEW s \in EntryPath
    PROVE  /\ Join(p, s) \in EntryPath
           /\ Join(p, <<>>) = p /\ Join(<<>>, s) = s
           /\ Join(p, s) = <<>> => p = <<>> /\ s = <<>>
           /\ Join(p, s) = p => s = <<>>
<1>1. p \o s \in EntryPath
    BY ConcatProperties DEF EntryPath
<1>2. p \o <<>> = p /\ <<>> \o s = s
    BY ConcatEmptySeq DEF EntryPath
<1>3. p \o s = <<>> => p = <<>> /\ s = <<>>
    BY ConcatEqualIffEmpty DEF EntryPath
<1>4. p \o s = p => s = <<>>
    BY ConcatEqualIffEmpty DEF EntryPath
<1> QED
    BY <1>1, <1>2, <1>3, <1>4 DEF Join

\* What follows a part of a path is given by the path.
LEMMA JoinSame ==
    ASSUME NEW p \in EntryPath, NEW s \in EntryPath, NEW r \in EntryPath, Join(p, s) = Join(p, r)
    PROVE  s = r
<1>1. p \o s = p \o r
    BY DEF Join
<1> QED
    BY <1>1, ConcatSimplifications DEF EntryPath

\* Whether the name is added before or after the parts are joined is the same.
LEMMA ExtendJoin ==
    ASSUME NEW p \in EntryPath, NEW s \in EntryPath, NEW n \in EntryName
    PROVE  Extend(Join(p, s), n) = Join(p, Extend(s, n))
BY DEF Extend, Join, EntryPath

\* How a path that ends in n goes on from p.
LEMMA ExtendSplit ==
    ASSUME NEW a \in EntryPath, NEW p \in EntryPath, NEW s \in EntryPath, NEW n \in EntryName,
           Extend(a, n) = Join(p, s)
    PROVE  \/ s = <<>> /\ p = Extend(a, n)
           \/ \E r \in EntryPath : s = Extend(r, n) /\ a = Join(p, r)
<1>1. Append(a, n) = p \o s
    BY DEF Extend, Join
<1>2. CASE s = <<>>
    BY <1>1, <1>2, ConcatEmptySeq DEF Extend, EntryPath
<1>3. CASE s # <<>>
    <2>1. PICK r \in EntryPath, m \in EntryName : s = Append(r, m)
        BY <1>3, SequenceEmptyOrAppend DEF EntryPath
    <2> DEFINE b == p \o r
    <2>2. b \in EntryPath
        BY ConcatProperties DEF EntryPath
    <2>3. Append(a, n) = Append(b, m)
        BY <1>1, <2>1 DEF EntryPath
    <2> HIDE DEF b
    <2>4. a = b /\ n = m
        BY <2>2, <2>3, AppendInjective DEF EntryPath
    <2> QED
        BY <2>1, <2>4 DEF Extend, Join, b
<1> QED
    BY <1>2, <1>3

\* Where a path made longer by one name leads.
LEMMA LeadsExtend ==
    ASSUME NEW D, NEW p \in EntryPath, NEW n \in EntryName, NEW j \in Inode
    PROVE  Leads(D, Extend(p, n), j) <=> \E i \in Inode : Leads(D, p, i) /\ HasEntry(D[i], n, j)
BY LeadsAppend DEF Extend

-----------------------------------------------------------------------------
\* What becomes of the paths when a directory gets or loses an entry.

\* A new entry of d, that the path p leads to, for an inode x without any.
LEMMA LeadsAdded ==
    ASSUME NEW D, Tidy(D), NEW E, NEW d \in Inode, NEW n \in EntryName, NEW x \in Inode,
           \A e, j \in Inode, m \in EntryName :
               HasEntry(E[e], m, j) <=> HasEntry(D[e], m, j) \/ (e = d /\ m = n /\ j = x),
           \A j \in Inode, m \in EntryName : ~HasEntry(D[x], m, j),
           x # d,
           NEW p \in EntryPath, Leads(D, p, d), NEW q \in EntryPath, NEW i \in Inode
    PROVE  Leads(E, q, i) <=> Leads(D, q, i) \/ (q = Extend(p, n) /\ i = x)
<1> DEFINE P == {a \in EntryPath : \A k \in Inode :
                    Leads(E, a, k) <=> Leads(D, a, k) \/ (a = Extend(p, n) /\ k = x)}
<1>1. <<>> \in P
    <2>1. <<>> \in EntryPath /\ <<>> # Extend(p, n)
        BY ExtendPath DEF EntryPath
    <2> QED
        BY <2>1, LeadsToRoot
<1>2. ASSUME NEW a \in EntryPath, NEW m \in EntryName, a \in P PROVE Extend(a, m) \in P
    <2>1. Extend(a, m) \in EntryPath
        BY ExtendPath
    <2>2. \A k \in Inode : Leads(E, a, k) <=> Leads(D, a, k) \/ (a = Extend(p, n) /\ k = x)
        BY <1>2
    <2>3. Extend(a, m) = Extend(p, n) <=> a = p /\ m = n
        BY ExtendPath
    <2>4. ASSUME NEW k \in Inode, Leads(E, Extend(a, m), k)
          PROVE  Leads(D, Extend(a, m), k) \/ (Extend(a, m) = Extend(p, n) /\ k = x)
        <3>1. PICK e \in Inode : Leads(E, a, e) /\ HasEntry(E[e], m, k)
            BY <2>4, LeadsExtend
        <3>2. CASE Leads(D, a, e) /\ HasEntry(D[e], m, k)
            BY <3>2, LeadsExtend
        <3>3. CASE Leads(D, a, e) /\ e = d /\ m = n /\ k = x
            <4>1. a = p
                BY <3>3, OnePath
            <4> QED
                BY <2>3, <3>3, <4>1
        <3>4. e # x => Leads(D, a, e)
            BY <2>2, <3>1
        <3>5. HasEntry(D[e], m, k) \/ (e = d /\ m = n /\ k = x)
            BY <3>1
        <3>6. e = x => FALSE
            BY <3>5
        <3> QED
            BY <3>2, <3>3, <3>4, <3>5, <3>6
    <2>5. ASSUME NEW k \in Inode, Leads(D, Extend(a, m), k) PROVE Leads(E, Extend(a, m), k)
        <3>1. PICK e \in Inode : Leads(D, a, e) /\ HasEntry(D[e], m, k)
            BY <2>5, LeadsExtend
        <3> QED
            BY <2>2, <3>1, LeadsExtend
    <2>6. ASSUME Extend(a, m) = Extend(p, n) PROVE Leads(E, Extend(a, m), x)
        <3>1. a = p /\ m = n
            BY <2>3, <2>6
        <3> QED
            BY <2>2, <3>1, LeadsExtend
    <2> QED
        BY <2>1, <2>4, <2>5, <2>6
<1> HIDE DEF P
<1>3. q \in P
    BY <1>1, <1>2, PathInduction DEF Extend
<1> QED
    BY <1>3 DEF P

\* The entry n of d, that p leads to, goes, and its inode has no entries.
LEMMA LeadsRemoved ==
    ASSUME NEW D, Tidy(D), NEW E, NEW d \in Inode, NEW n \in EntryName, NEW x \in Inode,
           HasEntry(D[d], n, x),
           \A e, j \in Inode, m \in EntryName :
               HasEntry(E[e], m, j) <=> HasEntry(D[e], m, j) /\ ~(e = d /\ m = n),
           \A j \in Inode, m \in EntryName : ~HasEntry(D[x], m, j),
           NEW p \in EntryPath, Leads(D, p, d), NEW q \in EntryPath, NEW i \in Inode
    PROVE  Leads(E, q, i) <=> Leads(D, q, i) /\ q # Extend(p, n)
<1> DEFINE P == {a \in EntryPath : \A k \in Inode :
                    Leads(E, a, k) <=> Leads(D, a, k) /\ a # Extend(p, n)}
<1>1. <<>> \in P
    <2>1. <<>> \in EntryPath /\ <<>> # Extend(p, n)
        BY ExtendPath DEF EntryPath
    <2> QED
        BY <2>1, LeadsToRoot
<1>2. ASSUME NEW a \in EntryPath, NEW m \in EntryName, a \in P PROVE Extend(a, m) \in P
    <2>1. Extend(a, m) \in EntryPath
        BY ExtendPath
    <2>2. \A k \in Inode : Leads(E, a, k) <=> Leads(D, a, k) /\ a # Extend(p, n)
        BY <1>2
    <2>3. Extend(a, m) = Extend(p, n) <=> a = p /\ m = n
        BY ExtendPath
    <2>4. ASSUME NEW k \in Inode, Leads(E, Extend(a, m), k)
          PROVE  Leads(D, Extend(a, m), k) /\ Extend(a, m) # Extend(p, n)
        <3>1. PICK e \in Inode : Leads(E, a, e) /\ HasEntry(E[e], m, k)
            BY <2>4, LeadsExtend
        <3>2. Leads(D, a, e) /\ HasEntry(D[e], m, k) /\ ~(e = d /\ m = n)
            BY <2>2, <3>1
        <3>3. a = p => e = d
            BY <3>2, LeadsToOne
        <3> QED
            BY <2>3, <3>2, <3>3, LeadsExtend
    <2>5. ASSUME NEW k \in Inode, Leads(D, Extend(a, m), k), Extend(a, m) # Extend(p, n)
          PROVE  Leads(E, Extend(a, m), k)
        <3>1. PICK e \in Inode : Leads(D, a, e) /\ HasEntry(D[e], m, k)
            BY <2>5, LeadsExtend
        <3>2. ~(e = d /\ m = n)
            <4>1. e = d => a = p
                BY <3>1, OnePath
            <4> QED
                BY <2>3, <2>5, <4>1
        <3>3. a # Extend(p, n)
            <4>1. Leads(D, Extend(p, n), x)
                BY LeadsExtend
            <4>2. a = Extend(p, n) => e = x
                BY <3>1, <4>1, LeadsToOne
            <4> QED
                BY <3>1, <4>2
        <3> QED
            BY <2>2, <3>1, <3>2, <3>3, LeadsExtend
    <2> QED
        BY <2>1, <2>4, <2>5
<1> HIDE DEF P
<1>3. q \in P
    BY <1>1, <1>2, PathInduction DEF Extend
<1> QED
    BY <1>3 DEF P

\* The path q begins with p.
Under(p, q) == \E s \in EntryPath : q = Join(p, s)

\* E is D with the inode x in one place, the entry l of f, and in no other.
Puts(D, E, x, f, l) ==
    \A e, j \in Inode, m \in EntryName :
        HasEntry(E[e], m, j) <=> (HasEntry(D[e], m, j) /\ j # x) \/ (e = f /\ m = l /\ j = x)

\* What leads to i when the path from has become the path to.
LeadsAfter(D, from, to, q, i) ==
    \/ Leads(D, q, i) /\ ~Under(from, q)
    \/ \E s \in EntryPath : q = Join(to, s) /\ Leads(D, Join(from, s), i)

\* The inode x, entry n of the directory d that p leads to, becomes the entry
\* l of f, that r leads to: what was below the one path is below the other.
LEMMA LeadsMoved ==
    ASSUME NEW D, Tidy(D), NEW E, NEW d \in Inode, NEW n \in EntryName, NEW x \in Inode,
           NEW f \in Inode, NEW l \in EntryName, HasEntry(D[d], n, x), Puts(D, E, x, f, l),
           NEW p \in EntryPath, Leads(D, p, d), NEW r \in EntryPath, Leads(D, r, f),
           NEW from, from = Extend(p, n), NEW to, to = Extend(r, l), ~Under(from, r),
           NEW q \in EntryPath, NEW i \in Inode
    PROVE  Leads(E, q, i) <=> LeadsAfter(D, from, to, q, i)
<1> DEFINE After(a, k) == LeadsAfter(D, from, to, a, k)
           P == {a \in EntryPath : \A k \in Inode : Leads(E, a, k) <=> After(a, k)}
<1>0. \A e, j \in Inode, m \in EntryName :
          HasEntry(E[e], m, j) <=> (HasEntry(D[e], m, j) /\ j # x) \/ (e = f /\ m = l /\ j = x)
    BY DEF Puts
<1>1. from \in EntryPath /\ to \in EntryPath /\ from # <<>> /\ to # <<>>
    BY ExtendPath
<1>2. Leads(D, from, x)
    BY LeadsExtend
<1>3. \A s \in EntryPath : Join(from, s) \in EntryPath /\ Join(to, s) \in EntryPath
    BY <1>1, JoinPath
<1>4. <<>> \in EntryPath /\ Join(from, <<>>) = from /\ Join(to, <<>>) = to
    BY <1>1, JoinPath, EmptySeq DEF EntryPath
<1>5. \A s \in EntryPath : Join(from, s) # <<>> /\ Join(to, s) # <<>>
    BY <1>1, JoinPath
<1>6. \A s \in EntryPath : Join(from, s) = from => s = <<>>
    BY <1>1, JoinPath
<1>7. ASSUME NEW s \in EntryPath, NEW m \in EntryName
      PROVE  /\ Extend(s, m) \in EntryPath
             /\ Extend(Join(from, s), m) = Join(from, Extend(s, m))
             /\ Extend(Join(to, s), m) = Join(to, Extend(s, m))
    BY <1>1, ExtendPath, ExtendJoin
<1>8. ASSUME NEW a \in EntryPath, NEW m \in EntryName, NEW s \in EntryPath, NEW z \in EntryPath,
             Extend(a, m) = Join(z, s)
      PROVE  \/ s = <<>> /\ z = Extend(a, m)
             \/ \E u \in EntryPath : s = Extend(u, m) /\ a = Join(z, u)
    BY <1>8, ExtendSplit
<1>9. <<>> \in P
    <2>1. ASSUME NEW k \in Inode PROVE After(<<>>, k) <=> Leads(D, <<>>, k)
        BY <1>5 DEF Under, LeadsAfter
    <2> QED
        BY <1>4, <2>1, LeadsToRoot
<1>10. ASSUME NEW a \in EntryPath, NEW m \in EntryName, a \in P PROVE Extend(a, m) \in P
    <2>1. Extend(a, m) \in EntryPath
        BY ExtendPath
    <2>2. \A k \in Inode : Leads(E, a, k) <=> After(a, k)
        BY <1>10
    <2>3. Under(from, Extend(a, m)) <=> Extend(a, m) = from \/ Under(from, a)
        <3>1. ASSUME NEW s \in EntryPath, Extend(a, m) = Join(from, s)
              PROVE  Extend(a, m) = from \/ Under(from, a)
            BY <1>1, <1>8, <3>1 DEF Under
        <3>2. ASSUME NEW s \in EntryPath, a = Join(from, s) PROVE Under(from, Extend(a, m))
            BY <1>7, <3>2 DEF Under
        <3>3. Extend(a, m) = from => Under(from, Extend(a, m))
            BY <1>4 DEF Under
        <3> QED
            BY <3>1, <3>2, <3>3 DEF Under
    <2> HIDE DEF After
    <2>4. ASSUME NEW k \in Inode, Leads(E, Extend(a, m), k) PROVE After(Extend(a, m), k)
        <3>1. PICK e \in Inode : Leads(E, a, e) /\ HasEntry(E[e], m, k)
            BY <2>4, LeadsExtend
        <3>2. (HasEntry(D[e], m, k) /\ k # x) \/ (e = f /\ m = l /\ k = x)
            BY <1>0, <3>1
        <3>3. CASE Leads(D, a, e) /\ ~Under(from, a) /\ HasEntry(D[e], m, k) /\ k # x
            <4>1. Leads(D, Extend(a, m), k)
                BY <3>3, LeadsExtend
            <4>2. Extend(a, m) # from
                BY <1>2, <3>3, <4>1, <2>1, LeadsToOne
            <4> QED
                BY <2>3, <3>3, <4>1, <4>2 DEF After, LeadsAfter
        <3>4. CASE Leads(D, a, e) /\ e = f /\ m = l /\ k = x
            <4>1. a = r
                BY <3>4, OnePath
            <4>2. Extend(a, m) = to
                BY <3>4, <4>1
            <4> QED
                BY <1>2, <1>4, <3>4, <4>2 DEF After, LeadsAfter
        <3>5. CASE \E s \in EntryPath : a = Join(to, s) /\ Leads(D, Join(from, s), e)
            <4>1. PICK s \in EntryPath : a = Join(to, s) /\ Leads(D, Join(from, s), e)
                BY <3>5
            <4>2. Join(from, s) \in EntryPath
                BY <1>3
            <4>3. e # f
                <5>1. e = f => Join(from, s) = r
                    BY <4>1, <4>2, OnePath
                <5> QED
                    BY <5>1 DEF Under
            <4>4. HasEntry(D[e], m, k)
                BY <3>2, <4>3
            <4>5. Leads(D, Extend(Join(from, s), m), k)
                BY <4>1, <4>2, <4>4, LeadsExtend
            <4>6. /\ Extend(s, m) \in EntryPath
                  /\ Extend(Join(from, s), m) = Join(from, Extend(s, m))
                  /\ Extend(Join(to, s), m) = Join(to, Extend(s, m))
                BY <1>7
            <4>7. Extend(a, m) = Join(to, Extend(s, m)) /\ Leads(D, Join(from, Extend(s, m)), k)
                BY <4>1, <4>5, <4>6
            <4> QED
                BY <4>6, <4>7 DEF After, LeadsAfter
        <3>6. After(a, e)
            BY <2>2, <3>1
        <3> QED
            BY <3>2, <3>3, <3>4, <3>5, <3>6 DEF After, LeadsAfter
    <2>5. ASSUME NEW k \in Inode, Leads(D, Extend(a, m), k), ~Under(from, Extend(a, m))
          PROVE  Leads(E, Extend(a, m), k)
        <3>1. PICK e \in Inode : Leads(D, a, e) /\ HasEntry(D[e], m, k)
            BY <2>5, LeadsExtend
        <3>2. ~Under(from, a) /\ Extend(a, m) # from
            BY <2>3, <2>5
        <3>3. k # x
            BY <1>1, <1>2, <2>1, <2>5, <3>2, OnePath
        <3>4. Leads(E, a, e) /\ HasEntry(E[e], m, k)
            BY <1>0, <2>2, <3>1, <3>2, <3>3 DEF After, LeadsAfter
        <3> QED
            BY <3>4, LeadsExtend
    <2>6. ASSUME NEW k \in Inode, NEW s \in EntryPath, Extend(a, m) = Join(to, s), Leads(D, Join(from, s), k)
          PROVE  Leads(E, Extend(a, m), k)
        <3>1. CASE s = <<>>
            <4>1. Extend(a, m) = to
                BY <1>4, <2>6, <3>1
            <4>2. a = r /\ m = l
                BY <4>1, ExtendPath
            <4>3. k = x
                BY <1>1, <1>2, <1>4, <2>6, <3>1, LeadsToOne
            <4>4. Leads(E, a, f)
                BY <2>2, <4>2 DEF After, LeadsAfter
            <4> QED
                BY <1>0, <4>2, <4>3, <4>4, LeadsExtend
        <3>2. CASE s # <<>>
            <4>1. PICK u \in EntryPath : s = Extend(u, m) /\ a = Join(to, u)
                BY <1>1, <1>8, <2>6, <3>2
            <4>2. Join(from, u) \in EntryPath
                BY <1>3
            <4>6. Extend(Join(from, u), m) = Join(from, s)
                BY <1>7, <4>1
            <4>3. PICK e \in Inode : Leads(D, Join(from, u), e) /\ HasEntry(D[e], m, k)
                BY <2>6, <4>2, <4>6, LeadsExtend
            <4>4. k # x
                <5>1. Join(from, s) \in EntryPath
                    BY <1>3
                <5>2. k = x => Join(from, s) = from
                    BY <1>1, <1>2, <2>6, <5>1, OnePath
                <5> QED
                    BY <1>6, <3>2, <5>2
            <4>5. Leads(E, a, e)
                BY <2>2, <4>1, <4>3 DEF After, LeadsAfter
            <4> QED
                BY <1>0, <4>3, <4>4, <4>5, LeadsExtend
        <3> QED
            BY <3>1, <3>2
    <2>7. \A k \in Inode : Leads(E, Extend(a, m), k) <=> After(Extend(a, m), k)
        BY <2>4, <2>5, <2>6 DEF After, LeadsAfter
    <2> QED
        BY <2>1, <2>7
<1> HIDE DEF P
<1>11. q \in P
    BY <1>9, <1>10, PathInduction DEF Extend
<1> QED
    BY <1>11 DEF P


-----------------------------------------------------------------------------
\* Paths of names, as commands have them.

\* Paths of names, as commands have them, are among those of entries.
LEMMA PathIsEntryPath == ASSUME NEW p \in Path PROVE p \in EntryPath
BY DEF Path, EntryPath, EntryName

\* The first names of a path.
LEMMA FirstPart ==
    ASSUME NEW S, NEW p \in Seq(S), NEW w \in 0 .. Len(p)
    PROVE  /\ SubSeq(p, 1, w) \in Seq(S) /\ Len(SubSeq(p, 1, w)) = w
           /\ \A k \in 1 .. w : SubSeq(p, 1, w)[k] = p[k]
<1>1. Len(p) \in Nat /\ \A k \in 1 .. Len(p) : p[k] \in S
    BY LenProperties, ElementOfSeq
<1>2. w \in Nat /\ w \in Int /\ 1 \in Int /\ \A k \in 1 .. w : p[k] \in S
    BY <1>1
<1>3. /\ SubSeq(p, 1, w) \in Seq(S) /\ Len(SubSeq(p, 1, w)) = (IF 1 <= w THEN w - 1 + 1 ELSE 0)
      /\ \A k \in 1 .. w - 1 + 1 : SubSeq(p, 1, w)[k] = p[1 + k - 1]
    BY <1>2, SubSeqProperties
<1> QED
    BY <1>2, <1>3

\* Three parts of a path.
LEMMA JoinTwice ==
    ASSUME NEW p \in EntryPath, NEW r \in EntryPath, NEW s \in EntryPath
    PROVE  Join(Join(p, r), s) = Join(p, Join(r, s))
BY ConcatAssociative DEF Join, EntryPath

\* tfs_path_pop_last takes a path apart, and Extend puts it together.
LEMMA ParentLast ==
    ASSUME NEW p \in EntryPath, p # <<>>
    PROVE  /\ ParentPath(p) \in EntryPath /\ LastName(p) \in EntryName
           /\ p = Extend(ParentPath(p), LastName(p))
<1> DEFINE q == SubSeq(p, 1, Len(p) - 1)
<1>1. Len(p) \in Nat /\ Len(p) >= 1 /\ \A k \in 1 .. Len(p) : p[k] \in EntryName
    BY EmptySeq, LenProperties, ElementOfSeq DEF EntryPath
<1>2. PICK a \in EntryPath, n \in EntryName : p = Append(a, n) /\ Len(a) = Len(p) - 1
    BY LastSplit DEF EntryPath
<1>3. Len(a) \in Nat /\ p[Len(a) + 1] = n /\ \A k \in 1 .. Len(a) : p[k] = a[k]
    BY <1>2, AppendProperties, LenProperties DEF EntryPath
<1>4. Len(p) - 1 \in 0 .. Len(p)
    BY <1>1
<1>5. /\ q \in EntryPath /\ Len(q) = Len(p) - 1
      /\ \A k \in 1 .. Len(p) - 1 : q[k] = p[k]
    BY <1>4, FirstPart DEF EntryPath
<1> HIDE DEF q
<1>6. q = a
    BY <1>2, <1>3, <1>5, SeqEqual DEF EntryPath
<1>7. ParentPath(p) = a /\ LastName(p) = n
    <2>1. p[Len(p)] = n
        BY <1>1, <1>2, <1>3
    <2> QED
        BY <1>6, <2>1 DEF ParentPath, LastName, q
<1> QED
    BY <1>2, <1>7 DEF Extend

\* tfs_path_pop_last undoes Extend.
LEMMA ParentOfExtend ==
    ASSUME NEW p \in EntryPath, NEW n \in EntryName
    PROVE  ParentPath(Extend(p, n)) = p /\ LastName(Extend(p, n)) = n
<1>1. Extend(p, n) \in EntryPath /\ Extend(p, n) # <<>>
    BY ExtendPath
<1> DEFINE q == Extend(p, n)
<1>2. ParentPath(q) \in EntryPath /\ LastName(q) \in EntryName /\ q = Extend(ParentPath(q), LastName(q))
    BY <1>1, ParentLast
<1> QED
    BY <1>2, ExtendPath

\* A path of a move, put together from its common ancestor with the other and
\* the stretch and the name that follow.
LEMMA MovePath ==
    ASSUME NEW p \in Path, NEW q \in Path
    PROVE  LET c == CommonAncestor(p, q)
               r == PathRest(p, q)
           IN  /\ c \in EntryPath /\ r \in EntryPath /\ p = Join(c, r)
               /\ r = <<>> => p = c
               /\ r # <<>> => /\ ParentPath(r) \in EntryPath /\ LastName(r) \in Name
                              /\ ParentPath(p) = Join(c, ParentPath(r))
                              /\ p = Extend(ParentPath(p), LastName(r))
<1> DEFINE c == CommonAncestor(p, q)
           r == PathRest(p, q)
<1>1. c \in Path /\ r \in Path
    BY CommonAncestorPath
<1>2. c \in EntryPath /\ r \in EntryPath
    BY <1>1, PathIsEntryPath
<1>3. p = Join(c, r)
    BY CommonThenRest DEF Join
<1> HIDE DEF c, r
<1>4. r = <<>> => p = c
    BY <1>2, <1>3, JoinPath
<1>5. ASSUME r # <<>>
      PROVE  /\ ParentPath(r) \in EntryPath /\ LastName(r) \in Name
             /\ ParentPath(p) = Join(c, ParentPath(r))
             /\ p = Extend(ParentPath(p), LastName(r))
    <2>1. ParentPath(r) \in EntryPath /\ LastName(r) \in EntryName /\ r = Extend(ParentPath(r), LastName(r))
        BY <1>2, <1>5, ParentLast
    <2>2. LastName(r) \in Name
        <3>1. Len(r) \in 1 .. Len(r)
            BY <1>1, <1>5, EmptySeq, LenProperties DEF Path
        <3> QED
            BY <1>1, <1>5, <3>1, ElementOfSeq DEF LastName, Path
    <2> DEFINE a == Join(c, ParentPath(r))
    <2>3. a \in EntryPath
        BY <1>2, <2>1, JoinPath
    <2>4. p = Extend(a, LastName(r))
        BY <1>2, <1>3, <2>1, ExtendJoin
    <2> HIDE DEF a
    <2>5. ParentPath(p) = a
        BY <2>1, <2>3, <2>4, ParentOfExtend
    <2> QED
        BY <2>1, <2>2, <2>4, <2>5 DEF a
<1> QED
    BY <1>2, <1>3, <1>4, <1>5 DEF c, r

\* A path, taken apart before and after one of its names.
LEMMA SplitAt ==
    ASSUME NEW p \in EntryPath, NEW w \in 0 .. Len(p) - 1
    PROVE  /\ SubSeq(p, 1, w) \in EntryPath /\ p[w + 1] \in EntryName
           /\ SubSeq(p, w + 2, Len(p)) \in EntryPath
           /\ p = Join(Extend(SubSeq(p, 1, w), p[w + 1]), SubSeq(p, w + 2, Len(p)))
<1>1. Len(p) \in Nat /\ \A k \in 1 .. Len(p) : p[k] \in EntryName
    BY LenProperties, ElementOfSeq DEF EntryPath
<1> DEFINE l == Len(p)
           v == w + 1
<1>2. /\ l \in Nat /\ w \in Nat /\ v \in Nat /\ v \in 1 .. l /\ w = v - 1 /\ w + 2 = v + 1
      /\ v \in 1 - 1 .. l /\ l \in v .. l /\ 1 \in 1 .. l + 1 /\ v \in 1 .. v /\ 1 \in 1 .. l
    BY <1>1
<1>4. \A k \in w + 2 .. l : p[k] \in EntryName
    BY <1>1, <1>2
<1>5. \A k \in 1 .. v : p[k] \in EntryName
    BY <1>1, <1>2
<1> HIDE DEF l, v
<1>6. /\ SubSeq(p, 1, w) \in Seq(EntryName) /\ Len(SubSeq(p, 1, w)) = w
      /\ \A k \in 1 .. w : SubSeq(p, 1, w)[k] = p[k]
    <2>1. w \in 0 .. Len(p)
        BY <1>1
    <2> QED
        BY <2>1, FirstPart DEF EntryPath
<1>7. SubSeq(p, w + 2, l) \in Seq(EntryName)
    BY <1>2, <1>4, SubSeqProperties
<1>8. /\ SubSeq(p, 1, v) \in Seq(EntryName) /\ Len(SubSeq(p, 1, v)) = v
      /\ \A k \in 1 .. v : SubSeq(p, 1, v)[k] = p[k]
    <2>1. v \in 0 .. Len(p)
        BY <1>2 DEF l
    <2> QED
        BY <2>1, FirstPart DEF EntryPath
<1>9. SubSeq(p, 1, v) = Append(SubSeq(p, 1, w), p[v])
    <2> DEFINE a == SubSeq(p, 1, w)
               b == SubSeq(p, 1, v)
    <2>1. p[v] \in EntryName /\ a \in Seq(EntryName) /\ Len(a) = w /\ \A k \in 1 .. w : a[k] = p[k]
        BY <1>2, <1>5, <1>6
    <2>2. b \in Seq(EntryName) /\ Len(b) = v /\ \A k \in 1 .. v : b[k] = p[k]
        BY <1>8
    <2> HIDE DEF a, b
    <2>3. /\ Append(a, p[v]) \in Seq(EntryName) /\ Len(Append(a, p[v])) = w + 1
          /\ \A k \in 1 .. w : Append(a, p[v])[k] = a[k]
          /\ Append(a, p[v])[w + 1] = p[v]
        BY <2>1, AppendProperties
    <2>4. \A k \in 1 .. v : b[k] = Append(a, p[v])[k]
        <3> TAKE k \in 1 .. v
        <3>1. CASE k = v
            BY <1>2, <2>2, <2>3, <3>1
        <3>2. CASE k # v
            <4>1. k \in 1 .. w
                BY <1>2, <3>2
            <4> QED
                BY <2>1, <2>2, <2>3, <4>1
        <3> QED
            BY <3>1, <3>2
    <2>5. w + 1 = v
        BY <1>2
    <2> QED
        BY <2>2, <2>3, <2>4, <2>5, SeqEqual DEF a, b
<1>10. SubSeq(p, 1, v) \o SubSeq(p, v + 1, l) = p
    <2>1. SubSeq(p, 1, v) \o SubSeq(p, v + 1, l) = SubSeq(p, 1, l)
        BY <1>2, ConcatAdjacentSubSeq DEF EntryPath, l
    <2> QED
        BY <2>1, SubSeqFull DEF EntryPath, l
<1> QED
    BY <1>2, <1>5, <1>6, <1>7, <1>9, <1>10 DEF Join, Extend, EntryPath, l, v

-----------------------------------------------------------------------------
\* What a path that does not go on leads to.

\* The first part of a path that leads somewhere leads somewhere.
LEMMA LeadsFirst ==
    ASSUME NEW D, NEW p \in EntryPath, NEW s \in EntryPath, NEW j \in Inode, Leads(D, Join(p, s), j)
    PROVE  \E i \in Inode : Leads(D, p, i)
<1> DEFINE P == {r \in EntryPath : \A k \in Inode :
                    Leads(D, Join(p, r), k) => \E i \in Inode : Leads(D, p, i)}
<1>1. <<>> \in P
    BY JoinPath DEF EntryPath
<1>2. ASSUME NEW r \in EntryPath, NEW n \in EntryName, r \in P PROVE Extend(r, n) \in P
    <2>1. Extend(r, n) \in EntryPath /\ Join(p, r) \in EntryPath /\ Extend(Join(p, r), n) = Join(p, Extend(r, n))
        BY ExtendPath, JoinPath, ExtendJoin
    <2> SUFFICES ASSUME NEW k \in Inode, Leads(D, Join(p, Extend(r, n)), k)
                 PROVE  \E i \in Inode : Leads(D, p, i)
        BY <2>1
    <2>2. PICK e \in Inode : Leads(D, Join(p, r), e)
        <3>1. Leads(D, Extend(Join(p, r), n), k)
            BY <2>1
        <3> QED
            BY <2>1, <3>1, LeadsExtend
    <2> QED
        BY <1>2, <2>2
<1> HIDE DEF P
<1>3. s \in P
    BY <1>1, <1>2, PathInduction DEF Extend
<1> QED
    BY <1>3 DEF P

\* Where there is no entry, the paths through it lead nowhere.
LEMMA Blocked ==
    ASSUME NEW D, NEW p \in EntryPath, NEW i, Leads(D, p, i), NEW n \in EntryName,
           \A j : ~HasEntry(D[i], n, j), NEW s \in EntryPath
    PROVE  Join(Extend(p, n), s) \in EntryPath /\ \A j \in Inode : ~Leads(D, Join(Extend(p, n), s), j)
<1>1. Extend(p, n) \in EntryPath /\ Join(Extend(p, n), s) \in EntryPath
    BY ExtendPath, JoinPath
<1>2. ASSUME NEW j \in Inode, Leads(D, Join(Extend(p, n), s), j) PROVE FALSE
    <2>1. PICK k \in Inode : Leads(D, Extend(p, n), k)
        BY <1>1, <1>2, LeadsFirst
    <2>2. PICK e \in Inode : Leads(D, p, e) /\ HasEntry(D[e], n, k)
        BY <2>1, LeadsExtend
    <2>3. e = i
        BY <2>2, LeadsToOne
    <2> QED
        BY <2>2, <2>3
<1> QED
    BY <1>1, <1>2

\* IsPrefix of the community modules is Under.
LEMMA PrefixIsUnder ==
    ASSUME NEW p \in EntryPath, NEW q \in EntryPath
    PROVE  IsPrefix(p, q) <=> Under(p, q)
BY PrefixIs DEF Under, Join, EntryPath

\* What comes after the first part.
LEMMA AfterJoin ==
    ASSUME NEW p \in EntryPath, NEW s \in EntryPath
    PROVE  SubSeq(Join(p, s), Len(p) + 1, Len(Join(p, s))) = s
BY AfterPrefix DEF Join, EntryPath

\* A path with another before it is that one, or its parent has it before it.
LEMMA UnderParent ==
    ASSUME NEW p \in EntryPath, NEW q \in EntryPath, NEW n \in EntryName, Under(p, Extend(q, n))
    PROVE  p = Extend(q, n) \/ Under(p, q)
<1>1. PICK s \in EntryPath : Extend(q, n) = Join(p, s)
    BY DEF Under
<1> QED
    BY <1>1, ExtendSplit DEF Under

\* A path that begins another is its first part.
LEMMA UnderPart ==
    ASSUME NEW p \in EntryPath, NEW q \in EntryPath, Under(p, q)
    PROVE  Len(p) \in 0 .. Len(q) /\ p = SubSeq(q, 1, Len(p))
<1>1. IsPrefix(p, q)
    BY PrefixIsUnder
<1>2. Len(p) \in Nat /\ Len(q) \in Nat /\ SubSeq(p, 1, Len(p)) = p
    BY LenProperties, SubSeqFull DEF EntryPath
<1> QED
    BY <1>1, <1>2 DEF IsPrefix


-----------------------------------------------------------------------------
\* The operators on sequences, as the model uses them.

\* The last element of a sequence.
LEMMA LastOf ==
    ASSUME NEW S, NEW s \in Seq(S), s # <<>>
    PROVE  Last(s) \in S /\ Len(s) \in 1 .. Len(s) /\ Last(s) = s[Len(s)]
<1>1. Len(s) \in 1 .. Len(s)
    BY EmptySeq, LenProperties
<1> QED
    BY <1>1, ElementOfSeq DEF Last

\* The last element, once one more is appended.
LEMMA LastAppend ==
    ASSUME NEW S, NEW s \in Seq(S), NEW e \in S
    PROVE  /\ Append(s, e) \in Seq(S) /\ Append(s, e) # <<>>
           /\ Last(Append(s, e)) = e
           /\ \A k \in 1 .. Len(Append(s, e)) :
                 \/ Append(s, e)[k] = e
                 \/ k \in 1 .. Len(s) /\ Append(s, e)[k] = s[k]
<1>1. Len(s) \in Nat
    BY LenProperties
<1> QED
    BY <1>1, AppendProperties DEF Last

-----------------------------------------------------------------------------
\* The commands and the stretches of their paths.

\* The fields of a command, by its kind.
LEMMA CommandFields ==
    ASSUME NEW c \in Command
    PROVE  /\ c.op \in {"create", "remove", "search", "move", "print"}
           /\ c.op # "print" => c.path \in Path
           /\ c.op = "move" => c.dest \in Path
           /\ c.op = "create" => c.type \in InodeType
BY CommandAssumption DEF CommandType

\* Every stretch of a command is a path.
LEMMA StretchIsPath ==
    ASSUME NEW c \in Command, NEW s \in Stage
    PROVE  Stretch(c, s) \in Seq(Name)
<1>1. CASE c.op = "move"
    <2>1. c.path \in Path /\ c.dest \in Path
        BY <1>1, CommandFields
    <2>2. /\ CommonAncestor(c.path, c.dest) \in Path
          /\ OrigRest(c) \in Path /\ DestRest(c) \in Path
        BY <2>1, CommonAncestorPath DEF OrigRest, DestRest
    <2>3. ParentPath(OrigRest(c)) \in Path /\ ParentPath(DestRest(c)) \in Path
        BY <2>2, PopLast
    <2> QED
        BY <1>1, <2>2, <2>3 DEF Stretch, Stage, Path
<1>2. CASE c.op \in {"create", "remove"}
    BY <1>2, CommandFields, PopLast DEF Stretch, Path
<1>3. CASE c.op \in {"search", "print"}
    BY <1>3, CommandFields DEF Stretch, Path
<1> QED
    BY <1>1, <1>2, <1>3, CommandFields

\* The names a command uses in a directory are entry names.
LEMMA EntryNames ==
    ASSUME NEW c \in Command, c.op # "print"
    PROVE  EntryOf(c) \in EntryName /\ (c.op = "move" => DestName(c) \in EntryName)
<1>1. c.path \in Path /\ (c.op = "move" => c.dest \in Path)
    BY CommandFields
<1>2. c.op = "move" => OrigRest(c) \in Path /\ DestRest(c) \in Path
    BY <1>1, CommonAncestorPath DEF OrigRest, DestRest
<1> QED
    BY <1>1, <1>2, PopLast DEF EntryOf, DestName, EntryName

\* The stretches a move walks below the common ancestor: those of the two
\* that are not empty, in one order or the other.
LEMMA LegsShape ==
    ASSUME NEW c
    PROVE  LET o == Stretch(c, "orig") = <<>>
               d == Stretch(c, "dest") = <<>>
           IN  /\ o /\ d => Legs(c) = <<>>
               /\ ~o /\ d => Legs(c) = <<"orig">>
               /\ o /\ ~d => Legs(c) = <<"dest">>
               /\ ~o /\ ~d => Legs(c) \in {<<"orig", "dest">>, <<"dest", "orig">>}
               /\ ~o /\ ~d => Legs(c) = IF Before(Stretch(c, "orig"), Stretch(c, "dest"))
                                         THEN <<"orig", "dest">> ELSE <<"dest", "orig">>
<1>1. /\ <<"orig">> \in Seq(Stage) /\ <<"dest">> \in Seq(Stage) /\ <<>> \in Seq(Stage)
    BY DEF Stage
<1>2. /\ <<"orig">> \o <<>> = <<"orig">> /\ <<>> \o <<"orig">> = <<"orig">>
      /\ <<"dest">> \o <<>> = <<"dest">> /\ <<>> \o <<"dest">> = <<"dest">>
      /\ <<>> \o <<>> = <<>>
    BY <1>1, ConcatEmptySeq
<1>3. /\ <<"orig">> \o <<"dest">> = <<"orig", "dest">>
      /\ <<"dest">> \o <<"orig">> = <<"dest", "orig">>
    <2>1. \A x, y \in Stage : <<x>> \o <<y>> = <<x, y>>
        <3> SUFFICES ASSUME NEW x \in Stage, NEW y \in Stage
                     PROVE  <<x>> \o <<y>> = <<x, y>>
            OBVIOUS
        <3>1. <<x>> \in Seq(Stage) /\ <<y>> \in Seq(Stage) /\ <<x, y>> \in Seq(Stage)
            OBVIOUS
        <3>2. Len(<<x>>) = 1 /\ Len(<<y>>) = 1 /\ Len(<<x, y>>) = 2
            OBVIOUS
        <3>3. <<x>> \o <<y>> \in Seq(Stage) /\ Len(<<x>> \o <<y>>) = 2
            BY <3>1, <3>2, ConcatProperties
        <3>4. (<<x>> \o <<y>>)[1] = x /\ (<<x>> \o <<y>>)[2] = y
            BY <3>1, <3>2, ConcatProperties
        <3>5. <<x, y>>[1] = x /\ <<x, y>>[2] = y
            OBVIOUS
        <3>6. \A k \in 1 .. 2 : (<<x>> \o <<y>>)[k] = <<x, y>>[k]
            <4>1. \A k \in 1 .. 2 : k = 1 \/ k = 2
                OBVIOUS
            <4> QED
                BY <3>4, <3>5, <4>1
        <3> QED
            BY <3>1, <3>2, <3>3, <3>6, SeqEqual
    <2> QED
        BY <2>1 DEF Stage
<1> QED
    BY <1>2, <1>3 DEF Legs

-----------------------------------------------------------------------------
\* The table, under the steps of one thread.

\* What a step of t may do to the table.
TableStep(t) ==
    \/ UNCHANGED tableVars
    \/ \E i \in Inode, access \in Access : LockInode(t, i, access)
    \/ \E i \in Inode : UnlockInode(t, i) \/ RemoveInode(t, i)
    \/ \E i \in Inode, ty \in InodeType : TakeInode(t, i, ty)
    \/ dir' \in [Inode -> Dir] /\ UNCHANGED <<type, shared, unique>>

\* The locks of the other threads stay theirs.
OthersKeep(t) ==
    \A u \in Thread \ {t}, i \in Inode :
        /\ u \in unique[i] => u \in unique'[i]
        /\ u \in shared[i] => u \in shared'[i]

\* Every step keeps the table well typed, one writer alone on each inode,
\* and the locks of the other threads (rw_lock.c under table.c).
LEMMA TableKeeps ==
    ASSUME TableTypeOK, WriterAlone, NEW t \in Thread, TableStep(t)
    PROVE  TableTypeOK' /\ WriterAlone' /\ OthersKeep(t)
<1>1. CASE UNCHANGED tableVars
    BY <1>1 DEF tableVars, TableTypeOK, WriterAlone, OthersKeep
<1>2. ASSUME NEW i \in Inode, NEW access \in Access, LockInode(t, i, access)
      PROVE  TableTypeOK' /\ WriterAlone' /\ OthersKeep(t)
    <2>1. TableTypeOK'
        BY <1>2 DEF LockInode, TableTypeOK, Access
    <2>2. WriterAlone'
        BY <1>2 DEF LockInode, Grantable, Holders, TableTypeOK, WriterAlone, Access
    <2>3. OthersKeep(t)
        BY <1>2 DEF LockInode, TableTypeOK, OthersKeep, Access
    <2> QED
        BY <2>1, <2>2, <2>3
<1>3. ASSUME NEW i \in Inode, UnlockInode(t, i)
      PROVE  TableTypeOK' /\ WriterAlone' /\ OthersKeep(t)
    BY <1>3 DEF UnlockInode, TableTypeOK, WriterAlone, OthersKeep
<1>4. ASSUME NEW i \in Inode, RemoveInode(t, i)
      PROVE  TableTypeOK' /\ WriterAlone' /\ OthersKeep(t)
    BY <1>4, EmptyDirIsDir DEF RemoveInode, TableTypeOK, WriterAlone, OthersKeep
<1>5. ASSUME NEW i \in Inode, NEW ty \in InodeType, TakeInode(t, i, ty)
      PROVE  TableTypeOK' /\ WriterAlone' /\ OthersKeep(t)
    BY <1>5, EmptyDirIsDir
    DEF TakeInode, SlotFree, Grantable, Holders, TableTypeOK, WriterAlone, OthersKeep
<1>6. CASE dir' \in [Inode -> Dir] /\ UNCHANGED <<type, shared, unique>>
    BY <1>6 DEF TableTypeOK, WriterAlone, OthersKeep
<1> QED
    BY <1>1, <1>2, <1>3, <1>4, <1>5, <1>6 DEF TableStep

-----------------------------------------------------------------------------
\* The threads that do not take the step.

\* The variables of the other threads stay as they are.
OthersStay(t) ==
    \A u \in Thread \ {t} :
        /\ cmd'[u] = cmd[u] /\ pc'[u] = pc[u] /\ stage'[u] = stage[u]
        /\ rest'[u] = rest[u] /\ target'[u] = target[u] /\ locked'[u] = locked[u]
        /\ todo'[u] = todo[u]

ThreadTypeOK ==
    /\ cmd \in [Thread -> Command \cup {NoCommand}]
    /\ pc \in [Thread -> Pc]
    /\ stage \in [Thread -> Stage]
    /\ rest \in [Thread -> Seq(Name)]
    /\ target \in [Thread -> 0 .. Capacity]
    /\ locked \in [Thread -> [Stage -> Seq(Inode)]]
    /\ todo \in [Thread -> Seq(Inode)]
    /\ toPrint \in [Thread -> SUBSET Inode]
    /\ result \in [Thread -> Result]
    /\ aborted \in BOOLEAN

\* t writes nothing it has not for writing, before the step or after it.
WritesOwn(t) ==
    \A i \in Inode : dir'[i] # dir[i] \/ type'[i] # type[i] =>
        t \in unique[i] \/ t \in unique'[i]

\* The part of the invariant about t.
Part(t) == Located(t) /\ Walked(t) /\ Owned(t) /\ EntryKept(t)

\* Where a thread is about to link, unlink or rename an entry, it has the
\* directories for writing (fs.c:306-313, and the legs of tfs_fs_move).
LEMMA ParentsOwned ==
    ASSUME ThreadTypeOK, NEW t \in Thread, Part(t), pc[t] \in {"add", "lockchild", "child"}
    PROVE  /\ t \in unique[Cur(t)] /\ t \in unique[OrigParent(t)]
           /\ cmd[t].op = "move" => t \in unique[DestParent(t)]
<1> DEFINE c == cmd[t]
           common == Last(locked[t]["common"])
<1>1. /\ stage[t] \in Stage /\ {"common", "orig", "dest"} = Stage
      /\ c \in Command /\ Reaches(t, stage[t])
    BY DEF ThreadTypeOK, Stage, Part, Located, Walked, Walking
<1>2. CASE c.op # "move"
    <2>1. stage[t] = "common" /\ locked[t]["orig"] = <<>>
        BY <1>1, <1>2 DEF Part, Walked
    <2>2. LastAccess(c, "common") = "unique"
        BY <1>2 DEF Part, Located, LastAccess
    <2> QED
        BY <1>1, <1>2, <2>1, <2>2 DEF Reaches, Cur, OrigParent
<1>3. CASE c.op = "move"
    <2>1. LegsLeft(t) = <<>>
        BY <1>3 DEF Part, Located
    <2>2. /\ Reaches(t, "common")
          /\ stage[t] # "common" => Stretch(c, stage[t]) # <<>>
          /\ Stretch(c, "orig") = <<>> => locked[t]["orig"] = <<>>
          /\ Stretch(c, "dest") = <<>> => locked[t]["dest"] = <<>>
          /\ stage[t] # "common" /\ stage[t] # Head(Legs(c)) => Reaches(t, Head(Legs(c)))
        BY <1>1 DEF Part, Walked, Walking
    <2>3. /\ LastAccess(c, "orig") = "unique" /\ LastAccess(c, "dest") = "unique"
          /\ Stretch(c, "orig") = <<>> \/ Stretch(c, "dest") = <<>> =>
                LastAccess(c, "common") = "unique" /\ t \in unique[common]
        BY <1>3, <2>2 DEF LastAccess, Reaches
    <2>4. CASE Stretch(c, "orig") = <<>> /\ Stretch(c, "dest") = <<>>
        BY <1>1, <2>2, <2>3, <2>4 DEF Cur, OrigParent, DestParent
    <2>5. CASE Stretch(c, "orig") # <<>> /\ Stretch(c, "dest") = <<>>
        <3>1. Legs(c) = <<"orig">>
            BY <2>5, LegsShape
        <3>2. stage[t] = "orig"
            BY <1>1, <2>1, <2>2, <2>5, <3>1 DEF LegsLeft
        <3> QED
            BY <1>1, <2>2, <2>3, <2>5, <3>2 DEF Reaches, Cur, OrigParent, DestParent
    <2>6. CASE Stretch(c, "orig") = <<>> /\ Stretch(c, "dest") # <<>>
        <3>1. Legs(c) = <<"dest">>
            BY <2>6, LegsShape
        <3>2. stage[t] = "dest"
            BY <1>1, <2>1, <2>2, <2>6, <3>1 DEF LegsLeft
        <3> QED
            BY <1>1, <2>2, <2>3, <2>6, <3>2 DEF Reaches, Cur, OrigParent, DestParent
    <2>7. CASE Stretch(c, "orig") # <<>> /\ Stretch(c, "dest") # <<>>
        <3>1. Legs(c) \in {<<"orig", "dest">>, <<"dest", "orig">>}
            BY <2>7, LegsShape
        <3>2. stage[t] # "common" /\ stage[t] # Head(Legs(c))
            <4>1. LegsLeft(t) = IF stage[t] = "common" THEN Legs(c)
                                ELSE IF stage[t] = Head(Legs(c)) THEN Tail(Legs(c)) ELSE <<>>
                BY <1>1 DEF LegsLeft
            <4>2. CASE Legs(c) = <<"orig", "dest">>
                BY <2>1, <4>1, <4>2
            <4>3. CASE Legs(c) = <<"dest", "orig">>
                BY <2>1, <4>1, <4>3
            <4> QED
                BY <3>1, <4>2, <4>3
        <3>3. Reaches(t, "orig") /\ Reaches(t, "dest")
            BY <1>1, <2>2, <3>1, <3>2
        <3> QED
            BY <1>1, <2>3, <3>2, <3>3 DEF Reaches, Cur, OrigParent, DestParent
    <2> QED
        BY <2>4, <2>5, <2>6, <2>7
<1> QED
    BY <1>2, <1>3

\* A step of t keeps the part of the invariant about any other thread.
LEMMA OthersPart ==
    ASSUME ThreadTypeOK, WriterAlone, WriterAlone',
           NEW t \in Thread, NEW u \in Thread \ {t}, Part(u),
           OthersKeep(t), OthersStay(t), WritesOwn(t)
    PROVE  Part(u)'
<1>1. /\ cmd'[u] = cmd[u] /\ pc'[u] = pc[u] /\ stage'[u] = stage[u]
      /\ rest'[u] = rest[u] /\ target'[u] = target[u] /\ locked'[u] = locked[u]
      /\ todo'[u] = todo[u]
    BY DEF OthersStay
<1>2. /\ \A i \in Inode : u \in unique[i] => u \in unique'[i]
      /\ \A i \in Inode : u \in Holders(i) => u \in Holders(i)'
    BY DEF OthersKeep, Holders
<1>3. \A s \in Stage : /\ locked[u][s] \in Seq(Inode)
                       /\ locked[u][s] # <<>> => Last(locked[u][s]) \in Inode
                       /\ \A k \in 1 .. Len(locked[u][s]) : locked[u][s][k] \in Inode
    BY LastOf, ElementOfSeq DEF ThreadTypeOK
<1>4. Located(u)'
    BY <1>1 DEF Part, Located, LegsLeft
<1>5. \A s \in Stage : Reaches(u, s) => Reaches(u, s)'
    BY <1>1, <1>2, <1>3 DEF Reaches
<1>6. Walked(u)'
    <2>1. stage[u] \in Stage /\ "common" \in Stage
        BY DEF ThreadTypeOK, Stage
    <2>2. stage[u] # "common" => Head(Legs(cmd[u])) \in Stage
        BY <2>1, LegsShape DEF Part, Walked, Stage
    <2> QED
        BY <1>1, <1>5, <2>1, <2>2 DEF Part, Walked
<1>7. Owned(u)'
    <2>1. pc[u] \in {"add", "child", "undo", "free"} => target[u] \in Inode
        BY DEF Part, Located
    <2> QED
        BY <1>1, <1>2, <1>3, <2>1 DEF Part, Owned
<1>8. EntryKept(u)'
    <2> SUFFICES ASSUME pc[u] \in {"lockchild", "child"}
                 PROVE  EntryKept(u)'
        BY <1>1 DEF EntryKept
    <2>1. OrigParent(u)' = OrigParent(u) /\ OrigParent(u) \in Inode
        <3>1. locked'[u] = locked[u]
            BY <1>1
        <3>2. locked[u]["common"] # <<>>
            BY DEF Part, Walked, Walking, Reaches
        <3> QED
            BY <1>3, <3>1, <3>2 DEF OrigParent, Stage
    <2>2. u \in unique[OrigParent(u)]
        BY ParentsOwned
    <2>3. dir'[OrigParent(u)] = dir[OrigParent(u)]
        <3>1. u \in unique'[OrigParent(u)]
            BY <1>2, <2>1, <2>2
        <3>2. t # u /\ t \notin unique[OrigParent(u)] /\ t \notin unique'[OrigParent(u)]
            BY <2>1, <2>2, <3>1 DEF WriterAlone
        <3> QED
            BY <2>1, <3>2 DEF WritesOwn
    <2> QED
        BY <1>1, <2>1, <2>3 DEF Part, EntryKept, Names
<1> QED
    BY <1>4, <1>6, <1>7, <1>8 DEF Part

-----------------------------------------------------------------------------
\* The thread that takes the step.

\* What has to be shown of a step of t.
Kept(t) == ThreadTypeOK' /\ Part(t)' /\ OthersStay(t) /\ TableStep(t) /\ WritesOwn(t)

\* A thread past its first lock stands on an inode, and so do its parents.
LEMMA Standing ==
    ASSUME ThreadTypeOK, NEW t \in Thread, Part(t), pc[t] \in Walking \ {"lock"}
    PROVE  /\ cmd[t] \in Command
           /\ locked[t]["common"] # <<>>
           /\ Cur(t) \in Inode /\ OrigParent(t) \in Inode /\ DestParent(t) \in Inode
           /\ AllLocked(t) \in Seq(Inode)
           /\ target[t] \in Inode => LockedAndChild(t) \in Seq(Inode)
<1>1. stage[t] \in Stage /\ \A s \in Stage : locked[t][s] \in Seq(Inode)
    BY DEF ThreadTypeOK
<1>2. {"common", "orig", "dest"} = Stage
    BY DEF Stage
<1>3. cmd[t] \in Command
    BY DEF Part, Located, Walking
<1>4. locked[t]["common"] # <<>>
    <2>1. CASE pc[t] = "walk"
        BY <2>1 DEF Part, Walked, Walking
    <2>2. CASE pc[t] # "walk"
        BY <2>2 DEF Part, Walked, Walking, Reaches
    <2> QED
        BY <2>1, <2>2
<1>5. \A s \in Stage :
          Last(IF locked[t][s] = <<>> THEN locked[t]["common"] ELSE locked[t][s]) \in Inode
    BY <1>1, <1>2, <1>4, LastOf
<1>6. Cur(t) \in Inode /\ OrigParent(t) \in Inode /\ DestParent(t) \in Inode
    BY <1>1, <1>2, <1>5 DEF Cur, OrigParent, DestParent
<1>7. AllLocked(t) \in Seq(Inode)
    <2>1. locked[t]["common"] \o locked[t]["orig"] \in Seq(Inode)
        BY <1>1, <1>2, ConcatProperties
    <2> QED
        BY <1>1, <1>2, <2>1, ConcatProperties DEF AllLocked
<1>8. target[t] \in Inode => LockedAndChild(t) \in Seq(Inode)
    BY <1>7, AppendProperties DEF LockedAndChild
<1> QED
    BY <1>3, <1>4, <1>6, <1>7, <1>8

\* The outcome is decided and t starts to unlock: for every action that ends
\* a walk with Finish.
LEMMA FinishKeeps ==
    ASSUME ThreadTypeOK, NEW t \in Thread, Part(t), pc[t] \in Walking \ {"lock", "scan"},
           NEW r \in Result, NEW inodes \in Seq(Inode), NEW p \in {"release", "undo", "free"},
           Finish(t, r, inodes, p), TableStep(t), WritesOwn(t),
           p \in {"undo", "free"} => t \in unique'[target[t]],
           p = "undo" => \A k \in 1 .. Len(inodes) : inodes[k] # target[t]
    PROVE  Kept(t)
<1>1. /\ pc' = [pc EXCEPT ![t] = p] /\ todo' = [todo EXCEPT ![t] = inodes]
      /\ result' = [result EXCEPT ![t] = r]
      /\ UNCHANGED <<cmd, stage, rest, target, locked, toPrint, aborted>>
    BY DEF Finish
<1>2. p \in Pc
    BY DEF Pc
<1>3. ThreadTypeOK'
    BY <1>1, <1>2 DEF ThreadTypeOK
<1>4. pc'[t] = p /\ todo'[t] = inodes
    BY <1>1 DEF ThreadTypeOK
<1>5. OthersStay(t)
    BY <1>1 DEF ThreadTypeOK, OthersStay
<1>6. Located(t)'
    BY <1>1, <1>4 DEF Part, Located, Walking
<1>7. Walked(t)'
    BY <1>1, <1>4 DEF Part, Walked, Walking
<1>8. Owned(t)'
    BY <1>1, <1>4 DEF Owned, Walking
<1>9. EntryKept(t)'
    BY <1>4 DEF EntryKept
<1> QED
    BY <1>3, <1>5, <1>6, <1>7, <1>8, <1>9 DEF Kept, Part

\* The same, for the outcomes that leave the table alone and only unlock.
LEMMA UnlockingKeeps ==
    ASSUME ThreadTypeOK, NEW t \in Thread, Part(t), pc[t] \in Walking \ {"lock", "scan"},
           NEW r \in Result, NEW inodes \in Seq(Inode),
           Finish(t, r, inodes, "release"), UNCHANGED tableVars
    PROVE  Kept(t)
BY FinishKeeps DEF TableStep, WritesOwn, tableVars

\* A stretch that does not exist (tfs_fs_lock_all_from).
LEMMA WalkFailsKeeps ==
    ASSUME ThreadTypeOK, NEW t \in Thread, Part(t), WalkFails(t)
    PROVE  Kept(t)
<1>1. pc[t] = "walk" /\ pc[t] \in Walking \ {"lock", "scan"}
    BY DEF WalkFails, At, Walking
<1>2. stage[t] \in Stage /\ \A s \in Stage : locked[t][s] \in Seq(Inode)
    BY DEF ThreadTypeOK
<1>3. WalkError(t) \in Result
    <2>1. cmd[t].op \in {"create", "remove", "search", "move"}
        BY <1>1, CommandFields DEF Part, Located
    <2>2. stage[t] \in {"common", "orig", "dest"}
        BY <1>2 DEF Stage
    <2> QED
        BY <2>1, <2>2 DEF WalkError, Result
<1>4. WalkUnlocks(t) \in Seq(Inode)
    <2>1. \A s1, s2, s3 \in Stage : locked[t][s1] \o locked[t][s2] \o locked[t][s3] \in Seq(Inode)
        <3> SUFFICES ASSUME NEW s1 \in Stage, NEW s2 \in Stage, NEW s3 \in Stage
                     PROVE  locked[t][s1] \o locked[t][s2] \o locked[t][s3] \in Seq(Inode)
            OBVIOUS
        <3>1. locked[t][s1] \o locked[t][s2] \in Seq(Inode)
            BY <1>2, ConcatProperties
        <3> QED
            BY <1>2, <3>1, ConcatProperties
    <2>2. Append(Tail(locked[t]["common"]), Root) \in Seq(Inode)
        <3>1. Tail(locked[t]["common"]) \in Seq(Inode)
            BY <1>1, <1>2, Standing, HeadTailProperties, Zenon DEF Stage
        <3>2. Root \in Inode
            BY BaseAssumption DEF Root, Inode
        <3> QED
            BY <3>1, <3>2, AppendProperties
    <2> QED
        BY <1>2, <2>1, <2>2 DEF WalkUnlocks, Stage
<1>5. Finish(t, WalkError(t), WalkUnlocks(t), "release") /\ UNCHANGED tableVars
    BY DEF WalkFails
<1> QED
    BY <1>1, <1>3, <1>4, <1>5, UnlockingKeeps

\* The error and success paths that only unlock what was locked.
LEMMA EndKeeps ==
    ASSUME ThreadTypeOK, NEW t \in Thread, Part(t),
           \/ Search(t) \/ ParentNotDir(t) \/ MoveSelf(t) \/ CommonAncestorNotDir(t)
           \/ MoveParentNotDir(t) \/ ChildMissing(t) \/ RemoveNonEmpty(t) \/ RenameFails(t)
           \/ MoveFails(t) \/ PrintDone(t)
    PROVE  Kept(t)
<1>1. pc[t] \in {"found", "child", "print"}
    BY DEF Search, ParentNotDir, MoveSelf, CommonAncestorNotDir, MoveParentNotDir, ChildMissing,
           RemoveNonEmpty, RenameFails, Renames, MoveFails, Transfers, PrintDone, At
<1>2. pc[t] \in Walking \ {"lock", "scan"} /\ target[t] \in Inode
    BY <1>1 DEF Walking, Part, Located
<1>3. AllLocked(t) \in Seq(Inode) /\ LockedAndChild(t) \in Seq(Inode)
    BY <1>2, Standing
<1>4. \E r \in Result, inodes \in {AllLocked(t), LockedAndChild(t)} :
          Finish(t, r, inodes, "release") /\ UNCHANGED tableVars
    <2>1. CASE Search(t) \/ MoveSelf(t) \/ PrintDone(t)
        BY <2>1 DEF Search, MoveSelf, PrintDone, Result
    <2>2. CASE ParentNotDir(t) \/ CommonAncestorNotDir(t) \/ MoveFails(t)
        BY <2>2 DEF ParentNotDir, CommonAncestorNotDir, MoveFails, Fail, Result
    <2>3. CASE MoveParentNotDir(t)
        BY <2>3 DEF MoveParentNotDir, Fail, Result
    <2>4. CASE ChildMissing(t)
        BY <2>4 DEF ChildMissing, Fail, Result
    <2>5. CASE RemoveNonEmpty(t) \/ RenameFails(t)
        BY <2>5 DEF RemoveNonEmpty, RenameFails, Result
    <2> QED
        BY <2>1, <2>2, <2>3, <2>4, <2>5
<1> QED
    BY <1>2, <1>3, <1>4, UnlockingKeeps

\* Directories that t has for writing are changed to directories.
LEMMA WriteKeeps ==
    ASSUME TableTypeOK, ThreadTypeOK, NEW t \in Thread, Part(t),
           pc[t] \in Walking \ {"lock", "scan"},
           dir' \in [Inode -> Dir], UNCHANGED <<type, shared, unique>>,
           \A i \in Inode : dir'[i] # dir[i] => t \in unique[i],
           NEW r \in Result, NEW inodes \in Seq(Inode), NEW p \in {"release", "free"},
           p = "free" => t \in unique[target[t]],
           Finish(t, r, inodes, p)
    PROVE  Kept(t)
<1>1. TableStep(t)
    BY DEF TableStep
<1>2. WritesOwn(t)
    BY DEF WritesOwn
<1> QED
    BY <1>1, <1>2, FinishKeeps

\* The entry of a new inode (tfs_fs_create).
LEMMA CreateEntryKeeps ==
    ASSUME TableTypeOK, ThreadTypeOK, NEW t \in Thread, Part(t), CreateEntry(t)
    PROVE  Kept(t)
<1>1. /\ pc[t] = "add" /\ cmd[t].op = "create" /\ cmd[t] \in Command
      /\ target[t] \in Inode /\ pc[t] \in Walking \ {"lock", "scan"}
    BY DEF CreateEntry, At, Part, Located, Walking
<1>2. Cur(t) \in Inode /\ LockedAndChild(t) \in Seq(Inode)
    BY <1>1, Standing
<1>3. dir[Cur(t)] \in Dir /\ EntryOf(cmd[t]) \in EntryName
    BY <1>1, <1>2, EntryNames DEF TableTypeOK
<1>4. AddEntry(dir[Cur(t)], EntryOf(cmd[t]), target[t]) \in Dir
    BY <1>1, <1>3, AddEntryIsDir
<1>5. t \in unique[Cur(t)]
    BY <1>1, ParentsOwned
<1>6. /\ dir' = [dir EXCEPT ![Cur(t)] = AddEntry(dir[Cur(t)], EntryOf(cmd[t]), target[t])]
      /\ Finish(t, "success", LockedAndChild(t), "release")
      /\ UNCHANGED <<type, shared, unique>>
    BY DEF CreateEntry
<1>7. dir' \in [Inode -> Dir] /\ \A i \in Inode : dir'[i] # dir[i] => t \in unique[i]
    BY <1>2, <1>4, <1>5, <1>6 DEF TableTypeOK
<1>8. "success" \in Result
    BY DEF Result
<1> QED
    BY <1>1, <1>2, <1>6, <1>7, <1>8, WriteKeeps

\* The elements of AllLocked are those of its three parts.
LEMMA AllLockedFrom ==
    ASSUME ThreadTypeOK, NEW t \in Thread, NEW k \in 1 .. Len(AllLocked(t))
    PROVE  \E s \in Stage : \E j \in 1 .. Len(locked[t][s]) : AllLocked(t)[k] = locked[t][s][j]
<1> DEFINE x == locked[t]["common"]
           y == locked[t]["orig"]
           z == locked[t]["dest"]
<1>1. /\ x \in Seq(Inode) /\ y \in Seq(Inode) /\ z \in Seq(Inode)
      /\ Stage = {"common", "orig", "dest"}
    BY DEF ThreadTypeOK, Stage
<1>2. AllLocked(t) = (x \o y) \o z
    BY DEF AllLocked
<1> HIDE DEF x, y, z
<1>3. /\ x \o y \in Seq(Inode) /\ Len(x \o y) = Len(x) + Len(y)
      /\ \A i \in 1 .. Len(x) + Len(y) : (x \o y)[i] = IF i <= Len(x) THEN x[i] ELSE y[i - Len(x)]
    BY <1>1, ConcatProperties
<1>4. /\ Len((x \o y) \o z) = Len(x \o y) + Len(z)
      /\ \A i \in 1 .. Len(x \o y) + Len(z) :
            ((x \o y) \o z)[i] = IF i <= Len(x \o y) THEN (x \o y)[i] ELSE z[i - Len(x \o y)]
    BY <1>1, <1>3, ConcatProperties
<1>5. Len(x) \in Nat /\ Len(y) \in Nat /\ Len(z) \in Nat
    BY <1>1, LenProperties
<1>6. CASE k <= Len(x)
    <2>1. k \in 1 .. Len(x) /\ AllLocked(t)[k] = x[k]
        BY <1>2, <1>3, <1>4, <1>5, <1>6
    <2> QED
        BY <1>1, <2>1 DEF x
<1>7. CASE k > Len(x) /\ k <= Len(x) + Len(y)
    <2>1. k - Len(x) \in 1 .. Len(y) /\ AllLocked(t)[k] = y[k - Len(x)]
        BY <1>2, <1>3, <1>4, <1>5, <1>7
    <2> QED
        BY <1>1, <2>1 DEF y
<1>8. CASE k > Len(x) + Len(y)
    <2>1. k - Len(x \o y) \in 1 .. Len(z) /\ AllLocked(t)[k] = z[k - Len(x \o y)]
        BY <1>2, <1>3, <1>4, <1>5, <1>8
    <2> QED
        BY <1>1, <2>1 DEF z
<1> QED
    BY <1>5, <1>6, <1>7, <1>8

\* The name is refused (tfs_fs_create): the new inode is none of those to
\* unlock before it is freed.
LEMMA CreateFailsKeeps ==
    ASSUME ThreadTypeOK, NEW t \in Thread, Part(t), CreateFails(t)
    PROVE  Kept(t)
<1>1. pc[t] = "add" /\ pc[t] \in Walking \ {"lock", "scan"} /\ t \in unique[target[t]]
    BY DEF CreateFails, At, Part, Owned, Walking
<1>2. Finish(t, "AddEntry", AllLocked(t), "undo") /\ UNCHANGED tableVars
    BY DEF CreateFails
<1>3. TableStep(t) /\ WritesOwn(t) /\ unique' = unique
    BY <1>2 DEF TableStep, WritesOwn, tableVars
<1>4. AllLocked(t) \in Seq(Inode)
    BY <1>1, Standing
<1>5. \A k \in 1 .. Len(AllLocked(t)) : AllLocked(t)[k] # target[t]
    BY <1>1, AllLockedFrom DEF Part, Owned
<1>6. "AddEntry" \in Result
    BY DEF Result
<1> QED
    BY <1>1, <1>2, <1>3, <1>4, <1>5, <1>6, FinishKeeps

\* The entry of the inode to remove (tfs_fs_remove).
LEMMA RemoveChildKeeps ==
    ASSUME TableTypeOK, ThreadTypeOK, NEW t \in Thread, Part(t), RemoveChild(t)
    PROVE  Kept(t)
<1>1. /\ pc[t] = "child" /\ pc[t] \in Walking \ {"lock", "scan"}
      /\ t \in unique[target[t]]
    BY DEF RemoveChild, At, Part, Owned, Walking
<1>2. Cur(t) \in Inode /\ AllLocked(t) \in Seq(Inode)
    BY <1>1, Standing
<1>3. RemoveEntry(dir[Cur(t)], EntryOf(cmd[t])) \in Dir
    BY <1>2, RemoveEntryIsDir DEF TableTypeOK
<1>4. t \in unique[Cur(t)]
    BY <1>1, ParentsOwned
<1>5. /\ dir' = [dir EXCEPT ![Cur(t)] = RemoveEntry(dir[Cur(t)], EntryOf(cmd[t]))]
      /\ Finish(t, "success", AllLocked(t), "free")
      /\ UNCHANGED <<type, shared, unique>>
    BY DEF RemoveChild
<1>6. dir' \in [Inode -> Dir] /\ \A i \in Inode : dir'[i] # dir[i] => t \in unique[i]
    BY <1>2, <1>3, <1>4, <1>5 DEF TableTypeOK
<1>7. "success" \in Result
    BY DEF Result
<1> QED
    BY <1>1, <1>2, <1>5, <1>6, <1>7, WriteKeeps

\* A move within one directory (tfs_inode_dir_rename): the entry is there.
LEMMA RenameChildKeeps ==
    ASSUME TableTypeOK, ThreadTypeOK, NEW t \in Thread, Part(t), RenameChild(t)
    PROVE  Kept(t)
<1>1. /\ pc[t] = "child" /\ cmd[t].op = "move" /\ Legs(cmd[t]) = <<>>
      /\ pc[t] \in Walking \ {"lock", "scan"} /\ target[t] \in Inode
    BY DEF RenameChild, Renames, At, Walking, Part, Located
<1>2. /\ cmd[t] \in Command /\ Cur(t) \in Inode /\ LockedAndChild(t) \in Seq(Inode)
      /\ t \in unique[Cur(t)]
    BY <1>1, Standing, ParentsOwned
<1>3. Cur(t) = OrigParent(t)
    <2>1. Stretch(cmd[t], "orig") = <<>> /\ Stretch(cmd[t], "dest") = <<>>
        <3>1. <<"orig">> # <<>> /\ <<"dest">> # <<>>
              /\ <<"orig", "dest">> # <<>> /\ <<"dest", "orig">> # <<>>
            OBVIOUS
        <3> QED
            BY <1>1, <3>1, LegsShape
    <2>2. stage[t] \in {"common", "orig", "dest"}
        BY DEF ThreadTypeOK, Stage
    <2>3. stage[t] = "common" /\ locked[t]["orig"] = <<>>
        BY <2>1, <2>2 DEF Part, Walked, Stage
    <2> QED
        BY <2>3 DEF Cur, OrigParent
<1>4. /\ EntryOf(cmd[t]) \in Names(dir[Cur(t)]) /\ DestName(cmd[t]) \in EntryName
      /\ dir[Cur(t)] \in Dir
    BY <1>1, <1>2, <1>3, EntryNames DEF Part, EntryKept, TableTypeOK
<1>5. RenameEntry(dir[Cur(t)], EntryOf(cmd[t]), DestName(cmd[t])) \in Dir
    BY <1>4, RenameEntryIsDir
<1>6. /\ dir' = [dir EXCEPT ![Cur(t)] =
                    RenameEntry(dir[Cur(t)], EntryOf(cmd[t]), DestName(cmd[t]))]
      /\ Finish(t, "success", LockedAndChild(t), "release")
      /\ UNCHANGED <<type, shared, unique>>
    BY DEF RenameChild
<1>7. dir' \in [Inode -> Dir] /\ \A i \in Inode : dir'[i] # dir[i] => t \in unique[i]
    BY <1>2, <1>5, <1>6 DEF TableTypeOK
<1>8. "success" \in Result
    BY DEF Result
<1> QED
    BY <1>1, <1>2, <1>6, <1>7, <1>8, WriteKeeps

\* A move between two directories (tfs_fs_move).
LEMMA MoveChildKeeps ==
    ASSUME TableTypeOK, ThreadTypeOK, NEW t \in Thread, Part(t), MoveChild(t)
    PROVE  Kept(t)
<1> DEFINE added == [dir EXCEPT ![DestParent(t)] =
                        AddEntry(dir[DestParent(t)], DestName(cmd[t]), target[t])]
           moved == [added EXCEPT ![OrigParent(t)] =
                        RemoveEntry(added[OrigParent(t)], EntryOf(cmd[t]))]
<1>1. /\ pc[t] = "child" /\ cmd[t].op = "move"
      /\ pc[t] \in Walking \ {"lock", "scan"} /\ target[t] \in Inode
    BY DEF MoveChild, Transfers, At, Walking, Part, Located
<1>2. /\ cmd[t] \in Command /\ LockedAndChild(t) \in Seq(Inode)
      /\ OrigParent(t) \in Inode /\ DestParent(t) \in Inode
      /\ t \in unique[OrigParent(t)] /\ t \in unique[DestParent(t)]
    BY <1>1, Standing, ParentsOwned
<1>3. AddEntry(dir[DestParent(t)], DestName(cmd[t]), target[t]) \in Dir
    BY <1>1, <1>2, EntryNames, AddEntryIsDir DEF TableTypeOK
<1>4. added \in [Inode -> Dir]
    BY <1>2, <1>3 DEF TableTypeOK
<1>5. RemoveEntry(added[OrigParent(t)], EntryOf(cmd[t])) \in Dir
    <2>1. added[OrigParent(t)] \in Dir
        BY <1>2, <1>4
    <2> QED
        BY <2>1, RemoveEntryIsDir
<1>6. moved \in [Inode -> Dir]
    BY <1>2, <1>4, <1>5
<1>7. /\ dir' = moved /\ Finish(t, "success", LockedAndChild(t), "release")
      /\ UNCHANGED <<type, shared, unique>>
    BY DEF MoveChild, Transferred
<1>8. \A i \in Inode : moved[i] # dir[i] => i = OrigParent(t) \/ i = DestParent(t)
    BY <1>2, <1>4 DEF TableTypeOK
<1>9. \A i \in Inode : dir'[i] # dir[i] => t \in unique[i]
    BY <1>2, <1>7, <1>8
<1>10. "success" \in Result
    BY DEF Result
<1> HIDE DEF moved
<1> QED
    BY <1>1, <1>2, <1>6, <1>7, <1>9, <1>10, WriteKeeps

-----------------------------------------------------------------------------
\* The steps that begin, continue and end a command.

\* A command is received, or rejected at once (worker_thread_fn).
LEMMA ReceiveKeeps ==
    ASSUME ThreadTypeOK, NEW t \in Thread, Part(t), Receive(t) \/ ReceiveRejected(t)
    PROVE  Kept(t)
<1>1. /\ pc[t] = "idle" /\ stage[t] = "common" /\ rest[t] = <<>> /\ target[t] \in Inode
      /\ \A s \in Stage : locked[t][s] = <<>>
    BY DEF Receive, ReceiveRejected, At, Part, Located
<1>2. UNCHANGED <<tableVars, stage, target, locked, todo, toPrint, aborted>>
    BY DEF Receive, ReceiveRejected
<1>3. TableStep(t) /\ WritesOwn(t)
    BY <1>2 DEF TableStep, WritesOwn, tableVars
<1>4. "common" \in Stage
    BY DEF Stage
<1>5. CASE Receive(t)
    <2>1. PICK c \in Command : /\ cmd' = [cmd EXCEPT ![t] = c]
                               /\ rest' = [rest EXCEPT ![t] = Stretch(c, "common")]
        BY <1>5 DEF Receive
    <2>2. pc' = [pc EXCEPT ![t] = "lock"] /\ result' = result
        BY <1>5 DEF Receive
    <2>3. Stretch(c, "common") \in Seq(Name)
        BY <1>4, StretchIsPath
    <2>4. c.op = "print" => Stretch(c, "common") = <<>>
        BY DEF Stretch
    <2>5. /\ cmd'[t] = c /\ pc'[t] = "lock" /\ rest'[t] = Stretch(c, "common")
          /\ stage'[t] = stage[t] /\ target'[t] = target[t] /\ locked'[t] = locked[t]
        BY <1>2, <2>1, <2>2 DEF ThreadTypeOK
    <2>6. ThreadTypeOK' /\ OthersStay(t)
        BY <1>2, <2>1, <2>2, <2>3 DEF ThreadTypeOK, OthersStay, Pc
    <2>7. Located(t)' /\ EntryKept(t)'
        BY <1>1, <2>4, <2>5 DEF Located, EntryKept
    <2>8. Walked(t)'
        BY <1>1, <2>5 DEF Walked
    <2>9. Owned(t)'
        <3>1. \A s \in Stage : 1 .. Len(locked[t][s]) = {}
            BY <1>1
        <3> QED
            BY <2>5, <3>1 DEF Owned
    <2> QED
        BY <1>3, <2>6, <2>7, <2>8, <2>9 DEF Kept, Part
<1>6. CASE ReceiveRejected(t)
    <2>1. PICK c \in Command :
              /\ c.op = "print" \/ (c.op = "move" /\ MoveRejected(c) # "none")
              /\ cmd' = [cmd EXCEPT ![t] = c]
              /\ result' = [result EXCEPT ![t] = IF c.op = "print" THEN "Create"
                                                                ELSE MoveRejected(c)]
        BY <1>6 DEF ReceiveRejected
    <2>2. pc' = [pc EXCEPT ![t] = "release"] /\ rest' = rest
        BY <1>6 DEF ReceiveRejected
    <2>3. MoveRejected(c) \in Result /\ "Create" \in Result
        BY DEF MoveRejected, Result
    <2>4. /\ cmd'[t] = c /\ pc'[t] = "release" /\ rest'[t] = rest[t]
          /\ stage'[t] = stage[t] /\ target'[t] = target[t] /\ locked'[t] = locked[t]
        BY <1>2, <2>1, <2>2 DEF ThreadTypeOK
    <2>5. ThreadTypeOK' /\ OthersStay(t)
        BY <1>2, <2>1, <2>2, <2>3 DEF ThreadTypeOK, OthersStay, Pc
    <2>6. Located(t)' /\ EntryKept(t)' /\ Owned(t)'
        BY <1>1, <2>4 DEF Located, EntryKept, Owned, Walking
    <2>7. Walked(t)'
        BY <1>1, <2>4 DEF Walked, Walking
    <2> QED
        BY <1>3, <2>5, <2>6, <2>7 DEF Kept, Part
<1> QED
    BY <1>5, <1>6

\* An assertion fails: only `aborted' changes.
LEMMA AbortKeeps ==
    ASSUME ThreadTypeOK, NEW t \in Thread, Part(t), LockErrno(t) \/ TableFull(t)
    PROVE  Kept(t)
<1>1. aborted' = TRUE /\ UNCHANGED <<tableVars, threadVars>>
    BY DEF LockErrno, TableFull, Abort
<1>2. ThreadTypeOK' /\ OthersStay(t)
    BY <1>1 DEF threadVars, ThreadTypeOK, OthersStay
<1>3. TableStep(t) /\ WritesOwn(t)
    BY <1>1 DEF TableStep, WritesOwn, tableVars
<1>4. Located(t)' /\ Owned(t)' /\ EntryKept(t)'
    BY <1>1 DEF threadVars, tableVars, Part, Located, LegsLeft, Owned, Holders, EntryKept,
                OrigParent
<1>5. Walked(t)'
    BY <1>1 DEF threadVars, tableVars, Part, Walked, Reaches
<1> QED
    BY <1>2, <1>3, <1>4, <1>5 DEF Kept, Part

\* The place and the inode change, and nothing else of the thread but rest.
LEMMA GotoFacts ==
    ASSUME ThreadTypeOK, NEW t \in Thread, NEW p \in Pc, NEW i \in 0 .. Capacity, Goto(t, p, i),
           rest' \in [Thread -> Seq(Name)], \A u \in Thread \ {t} : rest'[u] = rest[u]
    PROVE  /\ ThreadTypeOK' /\ OthersStay(t)
           /\ pc'[t] = p /\ target'[t] = i /\ cmd'[t] = cmd[t]
           /\ stage'[t] = stage[t] /\ locked'[t] = locked[t]
<1>1. /\ pc' = [pc EXCEPT ![t] = p] /\ target' = [target EXCEPT ![t] = i]
      /\ UNCHANGED <<cmd, stage, locked, todo, toPrint, result, aborted>>
    BY DEF Goto
<1> QED
    BY <1>1 DEF ThreadTypeOK, OthersStay

\* One component further (tfs_fs_lock_all_from).
LEMMA WalkKeeps ==
    ASSUME TableTypeOK, ThreadTypeOK, NEW t \in Thread, Part(t), Walk(t)
    PROVE  Kept(t)
<1> DEFINE i == dir[Cur(t)].entry[Head(rest[t])]
<1>1. pc[t] = "walk" /\ pc[t] \in Walking \ {"lock"} /\ rest[t] # <<>> /\ cmd[t].op # "print"
    BY DEF Walk, At, Part, Located, Walking
<1>2. Cur(t) \in Inode /\ cmd[t] \in Command /\ locked[t]["common"] # <<>>
    BY <1>1, Standing
<1>3. i \in Inode
    BY <1>2, EntryIsInode DEF Walk, CanWalk, TableTypeOK
<1>4. Tail(rest[t]) \in Seq(Name)
    BY <1>1, HeadTailProperties DEF ThreadTypeOK
<1>5. /\ Goto(t, "lock", i) /\ rest' = [rest EXCEPT ![t] = Tail(rest[t])]
      /\ UNCHANGED tableVars
    BY DEF Walk
<1> HIDE DEF i
<1>6. /\ rest' \in [Thread -> Seq(Name)] /\ \A u \in Thread \ {t} : rest'[u] = rest[u]
      /\ i \in 0 .. Capacity /\ "lock" \in Pc
    BY <1>3, <1>4, <1>5, BaseAssumption DEF ThreadTypeOK, Inode, Pc
<1>7. /\ ThreadTypeOK' /\ OthersStay(t)
      /\ pc'[t] = "lock" /\ target'[t] = i /\ cmd'[t] = cmd[t]
      /\ stage'[t] = stage[t] /\ locked'[t] = locked[t]
    BY <1>5, <1>6, GotoFacts
<1>8. TableStep(t) /\ WritesOwn(t)
    BY <1>5 DEF TableStep, WritesOwn, tableVars
<1>9. Located(t)' /\ EntryKept(t)'
    BY <1>1, <1>2, <1>3, <1>7 DEF Located, EntryKept
<1>10. Walked(t)'
    BY <1>1, <1>5, <1>7 DEF Part, Walked, Walking, Reaches, tableVars
<1>11. Owned(t)'
    BY <1>1, <1>5, <1>7 DEF Part, Owned, Holders, tableVars
<1> QED
    BY <1>7, <1>8, <1>9, <1>10, <1>11 DEF Kept, Part

\* A lock is granted (tfs_inode_table_lock), on the way or at its end.
LEMMA LockKeeps ==
    ASSUME TableTypeOK, ThreadTypeOK, NEW t \in Thread, Part(t), Lock(t)
    PROVE  Kept(t)
<1> DEFINE s == stage[t]
           i == target[t]
<1>1. /\ pc[t] = "lock" /\ pc[t] \in Walking /\ i \in Inode /\ cmd[t] \in Command
      /\ s \in Stage /\ locked[t][s] \in Seq(Inode) /\ "common" \in Stage
    BY DEF Lock, At, Part, Located, ThreadTypeOK, Walking, Stage
<1>2. /\ LockInode(t, i, Wanted(t))
      /\ locked' = [locked EXCEPT ![t][s] = Append(locked[t][s], i)]
      /\ pc' = [pc EXCEPT ![t] = IF rest[t] = <<>> THEN "found" ELSE "walk"]
      /\ UNCHANGED <<cmd, stage, rest, target, todo, toPrint, result, aborted>>
    BY DEF Lock
<1>3. Wanted(t) \in Access
    BY DEF Wanted, LastAccess, Access
<1>4. TableStep(t) /\ WritesOwn(t)
    BY <1>1, <1>2, <1>3 DEF TableStep, WritesOwn, LockInode
<1>5. /\ \A j \in Inode : t \in unique[j] => t \in unique'[j]
      /\ \A j \in Inode : t \in Holders(j) => t \in Holders(j)'
      /\ t \in Holders(i)'
      /\ Wanted(t) = "unique" => t \in unique'[i]
    <2>1. CASE Wanted(t) = "shared"
        BY <1>1, <1>2, <2>1 DEF LockInode, Holders, TableTypeOK
    <2>2. CASE Wanted(t) = "unique"
        BY <1>1, <1>2, <2>2 DEF LockInode, Holders, TableTypeOK
    <2> QED
        BY <1>3, <2>1, <2>2 DEF Access
<1>6. /\ Append(locked[t][s], i) \in Seq(Inode) /\ Append(locked[t][s], i) # <<>>
      /\ Last(Append(locked[t][s], i)) = i
      /\ \A k \in 1 .. Len(Append(locked[t][s], i)) :
            \/ Append(locked[t][s], i)[k] = i
            \/ k \in 1 .. Len(locked[t][s]) /\ Append(locked[t][s], i)[k] = locked[t][s][k]
    BY <1>1, LastAppend
<1>7. /\ locked'[t][s] = Append(locked[t][s], i)
      /\ \A r \in Stage \ {s} : locked'[t][r] = locked[t][r]
      /\ pc'[t] = IF rest[t] = <<>> THEN "found" ELSE "walk"
    BY <1>1, <1>2 DEF ThreadTypeOK
<1>8. ThreadTypeOK' /\ OthersStay(t)
    BY <1>1, <1>2, <1>6 DEF ThreadTypeOK, OthersStay, Pc
<1>9. Located(t)' /\ EntryKept(t)'
    BY <1>1, <1>2, <1>7 DEF Part, Located, EntryKept
<1>10. \A r \in Stage \ {s} : Reaches(t, r) => Reaches(t, r)'
    <2> SUFFICES ASSUME NEW r \in Stage \ {s}, Reaches(t, r)
                 PROVE  Reaches(t, r)'
        OBVIOUS
    <2>1. locked[t][r] \in Seq(Inode) /\ locked[t][r] # <<>>
        BY DEF Reaches, ThreadTypeOK
    <2>2. Last(locked[t][r]) \in Inode
        BY <2>1, LastOf
    <2> QED
        BY <1>2, <1>5, <1>7, <2>2 DEF Reaches
<1>11. pc'[t] = "found" => Reaches(t, s)'
    BY <1>2, <1>5, <1>6, <1>7 DEF Reaches, Wanted
<1>12. Walked(t)'
    <2>1. s # "common" => /\ cmd[t].op = "move" /\ Stretch(cmd[t], s) # <<>>
                          /\ Reaches(t, "common")
        BY <1>1 DEF Part, Walked
    <2>2. s # "common" /\ s # Head(Legs(cmd[t])) =>
              Head(Legs(cmd[t])) \in Stage \ {s} /\ Reaches(t, Head(Legs(cmd[t])))'
        <3>1. s # "common" => Head(Legs(cmd[t])) \in Stage
            BY <1>1, <2>1, LegsShape DEF Stage
        <3> QED
            BY <1>1, <1>2, <1>10, <3>1 DEF Part, Walked
    <2>3. \A r \in Stage \ {"common"} : locked'[t][r] # <<>> =>
              cmd[t].op = "move" /\ Stretch(cmd[t], r) # <<>>
        BY <1>7, <2>1 DEF Part, Walked
    <2>4. s # "common" => Reaches(t, "common")'
        BY <1>1, <1>10, <2>1
    <2>5. locked'[t]["common"] # <<>>
        BY <1>1, <1>6, <1>7, <2>1 DEF Reaches
    <2> QED
        BY <1>2, <1>7, <1>11, <2>1, <2>2, <2>3, <2>4, <2>5 DEF Walked
<1>13. Owned(t)'
    <2>1. \A r \in Stage : \A k \in 1 .. Len(locked[t][r]) :
              locked[t][r][k] \in Inode /\ t \in Holders(locked[t][r][k])
        BY <1>1, ElementOfSeq DEF ThreadTypeOK, Part, Owned
    <2> DEFINE Has(j) == t \in shared'[j] \cup unique'[j]
    <2>2. /\ \A j \in Inode : t \in Holders(j) => Has(j)
          /\ Has(i)
        BY <1>1, <1>2, <1>5 DEF Holders
    <2> HIDE DEF Has, s, i
    <2>3. \A k \in 1 .. Len(locked'[t][s]) : Has(locked'[t][s][k])
        BY <1>1, <1>6, <1>7, <2>1, <2>2
    <2>4. \A r \in Stage \ {s} : \A k \in 1 .. Len(locked'[t][r]) : Has(locked'[t][r][k])
        BY <1>7, <2>1, <2>2
    <2>5. \A r \in Stage : \A k \in 1 .. Len(locked'[t][r]) : Has(locked'[t][r][k])
        BY <2>3, <2>4
    <2> QED
        BY <1>7, <2>5 DEF Owned, Holders, Has
<1> QED
    BY <1>4, <1>8, <1>9, <1>12, <1>13 DEF Kept, Part

\* On to the next parent of a move (tfs_fs_move).
LEMMA MoveLegKeeps ==
    ASSUME ThreadTypeOK, NEW t \in Thread, Part(t), MoveLeg(t)
    PROVE  Kept(t)
<1> DEFINE legs == Legs(cmd[t])
           s == Head(LegsLeft(t))
<1>1. /\ pc[t] = "found" /\ cmd[t].op = "move" /\ LegsLeft(t) # <<>> /\ cmd[t] \in Command
      /\ pc[t] \in Walking \ {"lock"} /\ stage[t] \in {"common", "orig", "dest"}
      /\ Stage = {"common", "orig", "dest"}
    BY DEF MoveLeg, At, Part, Located, Walking, ThreadTypeOK, Stage
<1>2. /\ stage' = [stage EXCEPT ![t] = s] /\ rest' = [rest EXCEPT ![t] = Stretch(cmd[t], s)]
      /\ pc' = [pc EXCEPT ![t] = "walk"]
      /\ UNCHANGED <<tableVars, cmd, target, locked, todo, toPrint, result, aborted>>
    BY DEF MoveLeg
<1>3. /\ s \in {"orig", "dest"} /\ Stretch(cmd[t], s) # <<>>
      /\ stage[t] = "common" => s = Head(legs)
      /\ stage[t] # "common" => stage[t] = Head(legs)
    <2>1. CASE stage[t] = "common"
        <3>1. LegsLeft(t) = legs
            BY <2>1 DEF LegsLeft
        <3> QED
            BY <1>1, <2>1, <3>1, LegsShape
    <2>2. CASE stage[t] # "common"
        <3>1. LegsLeft(t) = IF stage[t] = Head(legs) THEN Tail(legs) ELSE <<>>
            BY <1>1, <2>2 DEF LegsLeft
        <3> QED
            BY <1>1, <2>2, <3>1, LegsShape
    <2> QED
        BY <2>1, <2>2
<1>4. Stretch(cmd[t], s) \in Seq(Name)
    BY <1>1, <1>3, StretchIsPath
<1> HIDE DEF s
<1>5. ThreadTypeOK' /\ OthersStay(t)
    BY <1>1, <1>2, <1>3, <1>4 DEF ThreadTypeOK, OthersStay, Pc
<1>6. /\ stage'[t] = s /\ rest'[t] = Stretch(cmd[t], s) /\ pc'[t] = "walk"
      /\ cmd'[t] = cmd[t] /\ target'[t] = target[t] /\ locked'[t] = locked[t]
    BY <1>2 DEF ThreadTypeOK
<1>7. TableStep(t) /\ WritesOwn(t)
    BY <1>2 DEF TableStep, WritesOwn, tableVars
<1>8. Located(t)' /\ EntryKept(t)'
    BY <1>1, <1>3, <1>6 DEF Part, Located, EntryKept
<1>9. \A r \in Stage : Reaches(t, r)' <=> Reaches(t, r)
    BY <1>2, <1>6 DEF Reaches, tableVars
<1>10. Reaches(t, "common") /\ (s # Head(legs) => Reaches(t, Head(legs)))
    <2>1. CASE stage[t] = "common"
        BY <1>1, <1>3, <2>1 DEF Part, Walked
    <2>2. CASE stage[t] # "common"
        BY <1>1, <1>3, <2>2 DEF Part, Walked
    <2> QED
        BY <2>1, <2>2
<1>11. Head(legs) \in Stage
    BY <1>1, <1>3, LegsShape
<1>12. Walked(t)'
    BY <1>1, <1>3, <1>6, <1>9, <1>10, <1>11 DEF Part, Walked, Reaches
<1>13. Owned(t)'
    BY <1>1, <1>2, <1>6 DEF Part, Owned, Holders, tableVars
<1> QED
    BY <1>5, <1>7, <1>8, <1>12, <1>13 DEF Kept, Part

\* A thread at the end of its path goes on from there: what it has reached
\* and locked stays so.
LEMMA StayKeeps ==
    ASSUME ThreadTypeOK, NEW t \in Thread, Part(t), pc[t] \in Walking \ {"lock", "walk"},
           NEW p \in Walking \ {"lock", "walk"}, NEW i \in 0 .. Capacity,
           Goto(t, p, i), rest' = rest,
           \A j \in Inode : t \in unique[j] => t \in unique'[j],
           \A j \in Inode : t \in shared[j] => t \in shared'[j]
    PROVE  /\ ThreadTypeOK' /\ OthersStay(t) /\ Walked(t)'
           /\ pc'[t] = p /\ target'[t] = i /\ cmd'[t] = cmd[t] /\ cmd[t] \in Command
           /\ stage'[t] = stage[t] /\ locked'[t] = locked[t] /\ rest'[t] = rest[t]
           /\ \A s \in Stage : \A k \in 1 .. Len(locked[t][s]) :
                 /\ locked[t][s][k] \in Inode
                 /\ t \in shared[locked[t][s][k]] \cup unique[locked[t][s][k]]
                 /\ t \in shared'[locked[t][s][k]] \cup unique'[locked[t][s][k]]
<1>1. /\ p \in Pc /\ rest' \in [Thread -> Seq(Name)]
      /\ \A u \in Thread \ {t} : rest'[u] = rest[u]
    BY DEF Walking, Pc, ThreadTypeOK
<1>2. /\ ThreadTypeOK' /\ OthersStay(t)
      /\ pc'[t] = p /\ target'[t] = i /\ cmd'[t] = cmd[t]
      /\ stage'[t] = stage[t] /\ locked'[t] = locked[t]
    BY <1>1, GotoFacts
<1>3. cmd[t] \in Command /\ rest'[t] = rest[t]
    BY DEF Part, Located, Walking
<1>4. \A s \in Stage : Reaches(t, s) => Reaches(t, s)'
    <2> SUFFICES ASSUME NEW s \in Stage, Reaches(t, s)
                 PROVE  Reaches(t, s)'
        OBVIOUS
    <2>1. Last(locked[t][s]) \in Inode
        BY LastOf DEF ThreadTypeOK, Reaches
    <2> QED
        BY <1>2, <2>1 DEF Reaches
<1>5. stage[t] \in Stage /\ "common" \in Stage
    BY DEF ThreadTypeOK, Stage
<1>6. stage[t] # "common" => Head(Legs(cmd[t])) \in Stage
    BY <1>5, LegsShape DEF Part, Walked, Stage
<1>7. Walked(t)'
    BY <1>2, <1>4, <1>5, <1>6 DEF Part, Walked
<1>8. \A s \in Stage : \A k \in 1 .. Len(locked[t][s]) :
          /\ locked[t][s][k] \in Inode
          /\ t \in shared[locked[t][s][k]] \cup unique[locked[t][s][k]]
    <2>1. \A s \in Stage : locked[t][s] \in Seq(Inode)
        BY DEF ThreadTypeOK
    <2>2. \A s \in Stage : \A k \in 1 .. Len(locked[t][s]) : locked[t][s][k] \in Inode
        BY <2>1, ElementOfSeq
    <2>3. \A s \in Stage : \A k \in 1 .. Len(locked[t][s]) :
              t \in shared[locked[t][s][k]] \cup unique[locked[t][s][k]]
        BY DEF Part, Owned, Holders
    <2> QED
        BY <2>2, <2>3
<1> QED
    BY <1>2, <1>3, <1>7, <1>8

\* The scan for a free slot begins, and goes on (tfs_inode_table_add).
LEMMA ScanKeeps ==
    ASSUME ThreadTypeOK, NEW t \in Thread, Part(t), CreateScan(t) \/ SkipSlot(t)
    PROVE  Kept(t)
<1>1. PICK i \in 0 .. Capacity : Goto(t, "scan", i)
    <2>1. CASE CreateScan(t)
        BY <2>1, BaseAssumption DEF CreateScan
    <2>2. CASE SkipSlot(t)
        BY <2>2, BaseAssumption DEF SkipSlot, NextSlot, ThreadTypeOK
    <2> QED
        BY <2>1, <2>2
<1>2. /\ pc[t] \in Walking \ {"lock", "walk"} /\ cmd[t].op = "create"
      /\ UNCHANGED <<tableVars, rest>>
    BY DEF CreateScan, SkipSlot, At, Walking, Part, Located
<1>3. "scan" \in Walking \ {"lock", "walk"}
    BY DEF Walking
<1>4. /\ ThreadTypeOK' /\ OthersStay(t) /\ Walked(t)'
      /\ pc'[t] = "scan" /\ cmd'[t] = cmd[t] /\ cmd[t] \in Command
      /\ stage'[t] = stage[t] /\ locked'[t] = locked[t] /\ rest'[t] = rest[t]
      /\ \A s \in Stage : \A k \in 1 .. Len(locked[t][s]) :
            t \in shared'[locked[t][s][k]] \cup unique'[locked[t][s][k]]
    BY <1>1, <1>2, <1>3, StayKeeps DEF tableVars
<1>5. TableStep(t) /\ WritesOwn(t)
    BY <1>2 DEF TableStep, WritesOwn, tableVars
<1>6. Located(t)' /\ Owned(t)' /\ EntryKept(t)'
    BY <1>2, <1>4 DEF Located, Owned, Holders, EntryKept
<1> QED
    BY <1>4, <1>5, <1>6 DEF Kept, Part

\* A slot is taken: nobody had it locked, so it is none of t's own.
LEMMA TakeSlotKeeps ==
    ASSUME TableTypeOK, ThreadTypeOK, NEW t \in Thread, Part(t), TakeSlot(t)
    PROVE  Kept(t)
<1>1. /\ pc[t] \in Walking \ {"lock", "walk"} /\ cmd[t].op = "create"
      /\ target[t] \in Inode /\ rest' = rest /\ Goto(t, "add", target[t])
      /\ TakeInode(t, target[t], cmd[t].type) /\ target[t] \in 0 .. Capacity
    BY BaseAssumption DEF TakeSlot, At, Walking, Part, Located, ThreadTypeOK, Inode
<1>2. /\ t \in unique'[target[t]] /\ Holders(target[t]) = {}
      /\ \A j \in Inode : t \in unique[j] => t \in unique'[j]
      /\ \A j \in Inode : t \in shared[j] => t \in shared'[j]
    BY <1>1 DEF TakeInode, SlotFree, Grantable, Holders, TableTypeOK
<1>3. "add" \in Walking \ {"lock", "walk"}
    BY DEF Walking
<1>4. /\ ThreadTypeOK' /\ OthersStay(t) /\ Walked(t)'
      /\ pc'[t] = "add" /\ target'[t] = target[t] /\ cmd'[t] = cmd[t] /\ cmd[t] \in Command
      /\ stage'[t] = stage[t] /\ locked'[t] = locked[t] /\ rest'[t] = rest[t]
      /\ \A s \in Stage : \A k \in 1 .. Len(locked[t][s]) :
            /\ t \in shared[locked[t][s][k]] \cup unique[locked[t][s][k]]
            /\ t \in shared'[locked[t][s][k]] \cup unique'[locked[t][s][k]]
    BY <1>1, <1>2, <1>3, StayKeeps
<1>5. cmd[t].type \in InodeType
    BY <1>1, <1>4, CommandFields
<1>6. TableStep(t)
    BY <1>1, <1>5 DEF TableStep
<1>7. WritesOwn(t)
    BY <1>1, <1>2 DEF WritesOwn, TakeInode, TableTypeOK
<1>8. Located(t)' /\ EntryKept(t)'
    BY <1>1, <1>4 DEF Located, EntryKept
<1>9. Owned(t)'
    BY <1>2, <1>4 DEF Owned, Holders
<1> QED
    BY <1>4, <1>6, <1>7, <1>8, <1>9 DEF Kept, Part

\* The entry of the inode to remove or move is found (tfs_fs_remove,
\* tfs_fs_move).
LEMMA FindChildKeeps ==
    ASSUME TableTypeOK, ThreadTypeOK, NEW t \in Thread, Part(t), FindChild(t)
    PROVE  Kept(t)
<1> DEFINE i == dir[OrigParent(t)].entry[EntryOf(cmd[t])]
<1>1. /\ pc[t] \in Walking \ {"lock", "walk"} /\ pc[t] \in Walking \ {"lock"}
      /\ UNCHANGED <<tableVars, rest>> /\ Goto(t, "lockchild", i)
      /\ EntryOf(cmd[t]) \in Names(dir[OrigParent(t)])
      /\ cmd[t].op = "remove" \/ (cmd[t].op = "move" /\ LegsLeft(t) = <<>>)
    BY DEF FindChild, ParentsReady, At, Walking
<1>2. OrigParent(t) \in Inode /\ locked[t]["common"] # <<>>
    BY <1>1, Standing
<1>3. i \in Inode /\ i \in 0 .. Capacity
    BY <1>1, <1>2, EntryIsInode, BaseAssumption DEF TableTypeOK, Inode
<1>4. "lockchild" \in Walking \ {"lock", "walk"}
    BY DEF Walking
<1> HIDE DEF i
<1>5. /\ ThreadTypeOK' /\ OthersStay(t) /\ Walked(t)'
      /\ pc'[t] = "lockchild" /\ target'[t] = i /\ cmd'[t] = cmd[t] /\ cmd[t] \in Command
      /\ stage'[t] = stage[t] /\ locked'[t] = locked[t] /\ rest'[t] = rest[t]
      /\ \A s \in Stage : \A k \in 1 .. Len(locked[t][s]) :
            t \in shared'[locked[t][s][k]] \cup unique'[locked[t][s][k]]
    BY <1>1, <1>3, <1>4, StayKeeps DEF tableVars
<1>6. TableStep(t) /\ WritesOwn(t)
    BY <1>1 DEF TableStep, WritesOwn, tableVars
<1>7. LegsLeft(t)' = LegsLeft(t) /\ OrigParent(t)' = OrigParent(t)
    BY <1>5 DEF LegsLeft, OrigParent
<1>8. Located(t)'
    BY <1>1, <1>3, <1>5, <1>7 DEF Part, Located
<1>9. EntryKept(t)'
    BY <1>1, <1>5, <1>7 DEF EntryKept, tableVars, i
<1>10. Owned(t)'
    BY <1>5 DEF Owned, Holders
<1> QED
    BY <1>5, <1>6, <1>8, <1>9, <1>10 DEF Kept, Part

\* The inode to remove or move is locked for writing.
LEMMA LockChildKeeps ==
    ASSUME TableTypeOK, ThreadTypeOK, NEW t \in Thread, Part(t), LockChild(t)
    PROVE  Kept(t)
<1>1. /\ pc[t] = "lockchild" /\ pc[t] \in Walking \ {"lock", "walk"}
      /\ target[t] \in Inode /\ target[t] \in 0 .. Capacity
      /\ rest' = rest /\ Goto(t, "child", target[t])
      /\ LockInode(t, target[t], "unique")
    BY BaseAssumption DEF LockChild, ChildAccess, At, Walking, Part, Located, Inode
<1>2. /\ t \in unique'[target[t]] /\ dir' = dir /\ type' = type
      /\ \A j \in Inode : t \in unique[j] => t \in unique'[j]
      /\ \A j \in Inode : t \in shared[j] => t \in shared'[j]
    BY <1>1 DEF LockInode, TableTypeOK
<1>3. "child" \in Walking \ {"lock", "walk"}
    BY DEF Walking
<1>4. /\ ThreadTypeOK' /\ OthersStay(t) /\ Walked(t)'
      /\ pc'[t] = "child" /\ target'[t] = target[t] /\ cmd'[t] = cmd[t] /\ cmd[t] \in Command
      /\ stage'[t] = stage[t] /\ locked'[t] = locked[t] /\ rest'[t] = rest[t]
      /\ \A s \in Stage : \A k \in 1 .. Len(locked[t][s]) :
            t \in shared'[locked[t][s][k]] \cup unique'[locked[t][s][k]]
    BY <1>1, <1>2, <1>3, StayKeeps
<1>5. TableStep(t) /\ WritesOwn(t)
    BY <1>1, <1>2 DEF TableStep, WritesOwn, Access
<1>6. LegsLeft(t)' = LegsLeft(t) /\ OrigParent(t)' = OrigParent(t)
    BY <1>4 DEF LegsLeft, OrigParent
<1>7. Located(t)' /\ EntryKept(t)'
    BY <1>1, <1>2, <1>4, <1>6 DEF Part, Located, EntryKept
<1>8. Owned(t)'
    BY <1>2, <1>4 DEF Owned, Holders
<1> QED
    BY <1>4, <1>5, <1>7, <1>8 DEF Kept, Part

\* A print starts, or visits one inode (tfs_inode_table_print_tree).
LEMMA PrintKeeps ==
    ASSUME TableTypeOK, ThreadTypeOK, NEW t \in Thread, Part(t), PrintStart(t) \/ PrintVisit(t)
    PROVE  Kept(t)
<1>1. /\ pc[t] \in {"found", "print"} /\ pc[t] \in Walking \ {"lock", "walk"}
      /\ UNCHANGED <<tableVars, cmd, stage, rest, target, locked, todo, result, aborted>>
    BY DEF PrintStart, PrintVisit, At, Walking
<1>2. PICK S \in SUBSET Inode : toPrint' = [toPrint EXCEPT ![t] = S]
    <2>1. CASE PrintStart(t)
        <3>1. {Root} \in SUBSET Inode
            BY BaseAssumption DEF Root, Inode
        <3>2. toPrint' = [toPrint EXCEPT ![t] = {Root}]
            BY <2>1 DEF PrintStart
        <3> QED
            BY <3>1, <3>2
    <2>2. CASE PrintVisit(t)
        <3>1. PICK i \in toPrint[t] :
                  toPrint' = [toPrint EXCEPT ![t] =
                      (toPrint[t] \ {i}) \cup IF type[i] = "dir" THEN Children(dir[i]) ELSE {}]
            BY <2>2 DEF PrintVisit
        <3>2. toPrint[t] \subseteq Inode /\ Children(dir[i]) \subseteq Inode
            BY <3>1, EntryIsInode DEF ThreadTypeOK, TableTypeOK
        <3> QED
            BY <3>1, <3>2
    <2> QED
        BY <2>1, <2>2
<1>3. pc' = [pc EXCEPT ![t] = "print"]
    BY DEF PrintStart, PrintVisit, At, ThreadTypeOK
<1>4. ThreadTypeOK' /\ OthersStay(t) /\ pc'[t] = "print"
    BY <1>1, <1>2, <1>3 DEF ThreadTypeOK, OthersStay, Pc
<1>5. TableStep(t) /\ WritesOwn(t)
    BY <1>1 DEF TableStep, WritesOwn, tableVars
<1>6. Located(t)' /\ EntryKept(t)'
    BY <1>1, <1>4 DEF Part, Located, EntryKept
<1>7. Walked(t)'
    BY <1>1, <1>4 DEF Part, Walked, Reaches, tableVars
<1>8. Owned(t)'
    BY <1>1, <1>4 DEF Part, Owned, Holders, tableVars
<1> QED
    BY <1>4, <1>5, <1>6, <1>7, <1>8 DEF Kept, Part

\* An inode is freed by its writer (tfs_inode_table_remove_inode).
LEMMA FreeInodeKeeps ==
    ASSUME TableTypeOK, ThreadTypeOK, NEW t \in Thread, Part(t), FreeInode(t)
    PROVE  Kept(t)
<1>1. /\ pc[t] \in {"free", "undo"} /\ target[t] \in Inode /\ t \in unique[target[t]]
      /\ RemoveInode(t, target[t]) /\ pc' = [pc EXCEPT ![t] = "release"]
      /\ UNCHANGED <<cmd, stage, rest, target, locked, todo, toPrint, result, aborted>>
    BY DEF FreeInode, At, Part, Located, Owned
<1>2. ThreadTypeOK' /\ OthersStay(t) /\ pc'[t] = "release"
    BY <1>1 DEF ThreadTypeOK, OthersStay, Pc
<1>3. TableStep(t) /\ WritesOwn(t)
    BY <1>1 DEF TableStep, WritesOwn, RemoveInode, TableTypeOK
<1>4. Located(t)' /\ EntryKept(t)' /\ Owned(t)'
    BY <1>1, <1>2 DEF Part, Located, EntryKept, Owned, Walking
<1>5. Walked(t)'
    BY <1>1, <1>2 DEF Part, Walked, Walking
<1> QED
    BY <1>2, <1>3, <1>4, <1>5 DEF Kept, Part

\* One inode is unlocked; before a new inode is freed, not that one.
LEMMA UnlockKeeps ==
    ASSUME TableTypeOK, ThreadTypeOK, NEW t \in Thread, Part(t), Unlock(t)
    PROVE  Kept(t)
<1>1. /\ pc[t] \in {"release", "undo"} /\ todo[t] # <<>>
      /\ UnlockInode(t, Head(todo[t])) /\ todo' = [todo EXCEPT ![t] = Tail(todo[t])]
      /\ UNCHANGED <<cmd, pc, stage, rest, target, locked, toPrint, result, aborted>>
    BY DEF Unlock, At
<1>2. /\ Head(todo[t]) \in Inode /\ Tail(todo[t]) \in Seq(Inode)
      /\ Len(Tail(todo[t])) = Len(todo[t]) - 1 /\ Len(todo[t]) \in Nat
      /\ \A k \in 1 .. Len(Tail(todo[t])) : Tail(todo[t])[k] = todo[t][k + 1]
      /\ 1 \in 1 .. Len(todo[t]) /\ Head(todo[t]) = todo[t][1]
    BY <1>1, HeadTailProperties, LenProperties, EmptySeq DEF ThreadTypeOK
<1>3. /\ ThreadTypeOK' /\ OthersStay(t) /\ todo'[t] = Tail(todo[t])
    BY <1>1, <1>2 DEF ThreadTypeOK, OthersStay
<1>4. TableStep(t) /\ WritesOwn(t)
    BY <1>1, <1>2 DEF TableStep, WritesOwn, UnlockInode
<1>5. Located(t)' /\ EntryKept(t)'
    BY <1>1 DEF Part, Located, EntryKept, LegsLeft
<1>6. Walked(t)'
    BY <1>1 DEF Part, Walked, Walking
<1>7. Owned(t)'
    <2>1. CASE pc[t] = "release"
        BY <1>1, <2>1 DEF Owned, Walking
    <2>2. CASE pc[t] = "undo"
        <3>1. /\ target[t] \in Inode /\ t \in unique[target[t]]
              /\ \A k \in 1 .. Len(todo[t]) : todo[t][k] # target[t]
            BY <2>2 DEF Part, Located, Owned
        <3>2. t \in unique'[target[t]]
            BY <1>1, <1>2, <3>1 DEF UnlockInode, TableTypeOK
        <3>3. \A k \in 1 .. Len(Tail(todo[t])) : Tail(todo[t])[k] # target[t]
            BY <1>2, <3>1
        <3> QED
            BY <1>1, <1>3, <2>2, <3>2, <3>3 DEF Owned, Walking
    <2> QED
        BY <1>1, <2>1, <2>2
<1> QED
    BY <1>3, <1>4, <1>5, <1>6, <1>7 DEF Kept, Part

\* The answer is sent, and nothing is left of the command.
LEMMA ReplyKeeps ==
    ASSUME ThreadTypeOK, NEW t \in Thread, Part(t), Reply(t)
    PROVE  Kept(t)
<1>1. /\ cmd' = [cmd EXCEPT ![t] = NoCommand] /\ pc' = [pc EXCEPT ![t] = "idle"]
      /\ stage' = [stage EXCEPT ![t] = "common"] /\ rest' = [rest EXCEPT ![t] = <<>>]
      /\ target' = [target EXCEPT ![t] = Root]
      /\ locked' = [locked EXCEPT ![t] = [s \in Stage |-> <<>>]]
      /\ result' = [result EXCEPT ![t] = "none"]
      /\ UNCHANGED <<tableVars, todo, toPrint, aborted>>
    BY DEF Reply
<1>2. /\ "idle" \in Pc /\ "common" \in Stage /\ Root \in Inode /\ Root \in 0 .. Capacity
      /\ [s \in Stage |-> <<>>] \in [Stage -> Seq(Inode)] /\ "none" \in Result
    BY BaseAssumption DEF Pc, Stage, Root, Inode, Result
<1>3. ThreadTypeOK'
    BY <1>1, <1>2 DEF ThreadTypeOK
<1>4. OthersStay(t)
    BY <1>1 DEF ThreadTypeOK, OthersStay
<1>5. /\ pc'[t] = "idle" /\ stage'[t] = "common" /\ rest'[t] = <<>> /\ target'[t] = Root
      /\ locked'[t] = [s \in Stage |-> <<>>]
    BY <1>1 DEF ThreadTypeOK
<1>6. TableStep(t) /\ WritesOwn(t)
    BY <1>1 DEF TableStep, WritesOwn, tableVars
<1>7. Located(t)' /\ EntryKept(t)' /\ Owned(t)'
    BY <1>2, <1>5 DEF Located, EntryKept, Owned, Walking
<1>8. Walked(t)'
    BY <1>5 DEF Walked, Walking
<1> QED
    BY <1>3, <1>4, <1>6, <1>7, <1>8 DEF Kept, Part

-----------------------------------------------------------------------------
\* The theorems.

IInv == TypeOK /\ LocksOwned

\* tfs_fs_new, and the worker threads before their first command.
LEMMA InitIInv == Init => IInv
<1> SUFFICES ASSUME Init
             PROVE  IInv
    OBVIOUS
<1>1. Root \in Inode /\ Root \in 0 .. Capacity
    BY BaseAssumption DEF Root, Inode
<1>2. TypeOK
    <2>1. TableTypeOK
        BY EmptyDirIsDir DEF Init, TableInit, TableTypeOK, InodeType
    <2>2. /\ "idle" \in Pc /\ "common" \in Stage /\ "none" \in Result
          /\ <<>> \in Seq(Name) /\ <<>> \in Seq(Inode)
          /\ [s \in Stage |-> <<>>] \in [Stage -> Seq(Inode)]
        BY DEF Pc, Stage, Result
    <2> QED
        BY <1>1, <2>1, <2>2 DEF Init, ThreadInit, TypeOK
<1>3. WriterAlone
    BY DEF Init, TableInit, WriterAlone
<1>4. ASSUME NEW t \in Thread
      PROVE  Located(t) /\ Walked(t) /\ Owned(t) /\ EntryKept(t)
    <2>1. /\ pc[t] = "idle" /\ stage[t] = "common" /\ rest[t] = <<>> /\ target[t] = Root
          /\ locked[t] = [s \in Stage |-> <<>>]
        BY DEF Init, ThreadInit
    <2>2. Located(t) /\ Owned(t) /\ EntryKept(t)
        BY <1>1, <2>1 DEF Located, Owned, EntryKept, Walking
    <2>3. Walked(t)
        BY <2>1 DEF Walked, Walking
    <2> QED
        BY <2>2, <2>3
<1> QED
    BY <1>2, <1>3, <1>4 DEF IInv, LocksOwned

\* The invariant, by its parts.
LEMMA IInvParts ==
    IInv <=> /\ TableTypeOK /\ ThreadTypeOK /\ WriterAlone
             /\ \A t \in Thread : Part(t)
BY DEF IInv, TypeOK, ThreadTypeOK, LocksOwned, Part

\* Every action keeps its own thread's part, whichever it is.
LEMMA StepKeeps ==
    ASSUME IInv, NEW t \in Thread, Receive(t) \/ ReceiveRejected(t) \/ Work(t)
    PROVE  Kept(t)
<1>1. TableTypeOK /\ ThreadTypeOK /\ Part(t)
    BY IInvParts
<1>2. CASE Receive(t) \/ ReceiveRejected(t)
    BY <1>1, <1>2, ReceiveKeeps
<1>3. CASE LockErrno(t) \/ TableFull(t)
    BY <1>1, <1>3, AbortKeeps
<1>4. CASE Lock(t) \/ Walk(t) \/ WalkFails(t) \/ MoveLeg(t)
    BY <1>1, <1>4, LockKeeps, WalkKeeps, WalkFailsKeeps, MoveLegKeeps
<1>5. CASE \/ Search(t) \/ ParentNotDir(t) \/ MoveSelf(t) \/ CommonAncestorNotDir(t)
           \/ MoveParentNotDir(t) \/ ChildMissing(t) \/ RemoveNonEmpty(t) \/ RenameFails(t)
           \/ MoveFails(t) \/ PrintDone(t)
    BY <1>1, <1>5, EndKeeps
<1>6. CASE CreateScan(t) \/ SkipSlot(t) \/ TakeSlot(t) \/ CreateEntry(t) \/ CreateFails(t)
    BY <1>1, <1>6, ScanKeeps, TakeSlotKeeps, CreateEntryKeeps, CreateFailsKeeps
<1>7. CASE FindChild(t) \/ LockChild(t) \/ RemoveChild(t) \/ RenameChild(t) \/ MoveChild(t)
    BY <1>1, <1>7, FindChildKeeps, LockChildKeeps, RemoveChildKeeps, RenameChildKeeps,
       MoveChildKeeps
<1>8. CASE PrintStart(t) \/ PrintVisit(t) \/ FreeInode(t) \/ Unlock(t) \/ Reply(t)
    BY <1>1, <1>8, PrintKeeps, FreeInodeKeeps, UnlockKeeps, ReplyKeeps
<1> QED
    BY <1>2, <1>3, <1>4, <1>5, <1>6, <1>7, <1>8 DEF Work

\* A step keeps the invariant and writes only what its thread has for writing.
LEMMA NextIInv ==
    ASSUME IInv, NEW t \in Thread, Receive(t) \/ ReceiveRejected(t) \/ Work(t)
    PROVE  IInv' /\ WritesOwn(t)
<1>1. TableTypeOK /\ ThreadTypeOK /\ WriterAlone /\ \A u \in Thread : Part(u)
    BY IInvParts
<1>2. Kept(t)
    BY StepKeeps
<1>3. ThreadTypeOK' /\ Part(t)' /\ OthersStay(t) /\ TableStep(t) /\ WritesOwn(t)
    BY <1>2 DEF Kept
<1>4. TableTypeOK' /\ WriterAlone' /\ OthersKeep(t)
    BY <1>1, <1>3, TableKeeps
<1>5. ASSUME NEW u \in Thread
      PROVE  Part(u)'
    <2>1. CASE u = t
        BY <1>3, <2>1
    <2>2. CASE u # t
        BY <1>1, <1>3, <1>4, <2>2, OthersPart
    <2> QED
        BY <2>1, <2>2
<1>6. TypeOK'
    BY <1>3, <1>4 DEF TypeOK, ThreadTypeOK
<1>7. LocksOwned'
    BY <1>4, <1>5 DEF LocksOwned, Part
<1> QED
    BY <1>3, <1>6, <1>7 DEF IInv

\* A step that changes nothing.
LEMMA StutterIInv == IInv /\ UNCHANGED vars => IInv'
<1> SUFFICES ASSUME IInv, UNCHANGED vars
             PROVE  IInv'
    OBVIOUS
<1>1. /\ UNCHANGED <<type, dir, shared, unique>>
      /\ UNCHANGED <<cmd, pc, stage, rest, target, locked, todo, toPrint, result, aborted>>
    BY DEF vars, tableVars, threadVars
<1>2. TypeOK'
    BY <1>1 DEF IInv, TypeOK, TableTypeOK
<1>3. WriterAlone'
    BY <1>1 DEF IInv, LocksOwned, WriterAlone
<1>4. ASSUME NEW t \in Thread
      PROVE  (Located(t) /\ Walked(t) /\ Owned(t) /\ EntryKept(t))'
    <2>1. Located(t) /\ Walked(t) /\ Owned(t) /\ EntryKept(t)
        BY DEF IInv, LocksOwned
    <2>2. Located(t)' /\ Owned(t)' /\ EntryKept(t)'
        BY <1>1, <2>1 DEF Located, LegsLeft, Owned, Holders, EntryKept, OrigParent
    <2>3. Walked(t)'
        BY <1>1, <2>1 DEF Walked, Reaches
    <2> QED
        BY <2>2, <2>3
<1> QED
    BY <1>2, <1>3, <1>4 DEF IInv, LocksOwned

\* The invariant is one.
THEOREM Invariance == Spec => []IInv
<1>1. Init => IInv
    BY InitIInv
<1>2. IInv /\ [Next]_vars => IInv'
    BY NextIInv, StutterIInv DEF Next
<1> QED
    BY <1>1, <1>2, PTL DEF Spec

\* Every variable keeps its type: no step reads beyond the end of a path or
\* of a table, whatever the tree and the commands are.
THEOREM TypeCorrect == Spec => []TypeOK
<1>1. IInv => TypeOK
    BY DEF IInv
<1> QED
    BY <1>1, Invariance, PTL

\* At every place of fs.c a thread has the locks that place needs.
THEOREM LocksAreOwned == Spec => []LocksOwned
<1>1. IInv => LocksOwned
    BY DEF IInv
<1> QED
    BY <1>1, Invariance, PTL

\* The file system has no race: an inode changes only in the hands of the
\* one thread that has it for writing.
THEOREM NoRace == Spec => OnlyWriterWrites
<1>1. IInv /\ IInv' /\ [Next]_vars => [WriteGuarded]_vars
    <2> SUFFICES ASSUME IInv, IInv', Next
                 PROVE  WriteGuarded
        OBVIOUS
    <2>1. PICK t \in Thread : Receive(t) \/ ReceiveRejected(t) \/ Work(t)
        BY DEF Next
    <2>2. WritesOwn(t)
        BY <2>1, NextIInv
    <2>3. WriterAlone /\ WriterAlone'
        BY DEF IInv, LocksOwned
    <2>4. ASSUME NEW i \in Inode, dir'[i] # dir[i] \/ type'[i] # type[i]
          PROVE  \E u \in Thread :
                     \/ unique[i] = {u} /\ shared[i] = {}
                     \/ unique'[i] = {u} /\ shared'[i] = {}
        <3>1. \/ unique[i] = {t} /\ shared[i] = {}
              \/ unique'[i] = {t} /\ shared'[i] = {}
            BY <2>2, <2>3, <2>4 DEF WritesOwn, WriterAlone
        <3> QED
            BY <3>1
    <2> QED
        BY <2>4 DEF WriteGuarded
<1> QED
    BY <1>1, Invariance, PTL DEF Spec, OnlyWriterWrites

-----------------------------------------------------------------------------
\* The invariant.

\* Only directories have entries, and what has a name is in use.
EntriesFit ==
    \A d, i \in Inode, n \in EntryName : HasEntry(dir[d], n, i) =>
        type[d] = "dir" /\ type[i] # "none" /\ i # Root /\ ~InTransit(i)

\* No inode has two names.
NamesOnce ==
    \A d, e, i \in Inode, m, n \in EntryName :
        HasEntry(dir[d], m, i) /\ HasEntry(dir[e], n, i) => d = e /\ m = n

\* What is in use has a name, but for the root and what comes or goes.
AllNamed ==
    \A i \in Inode \ {Root} : type[i] # "none" /\ ~InTransit(i) =>
        \E d \in Inode, n \in EntryName : HasEntry(dir[d], n, i)

\* What comes or goes has no entries.
TransitBare ==
    \A t \in Thread : pc[t] \in {"add", "undo", "free"} =>
        /\ target[t] # Root /\ type[target[t]] # "none"
        /\ \A n \in EntryName, i \in Inode : ~HasEntry(dir[target[t]], n, i)

Structure == type[Root] = "dir" /\ EntriesFit /\ NamesOnce /\ AllNamed /\ TransitBare

\* No inodes name only one another.
Grounded ==
    \A S \in SUBSET Inode :
        (\A i \in S : \E d \in S, n \in EntryName : HasEntry(dir[d], n, i)) => S = {}

\* What a thread has locked on its way.
Held(t) == {i \in Inode : \E s \in Stage : \E k \in 1 .. Len(locked[t][s]) : locked[t][s][k] = i}

\* How far the thread has come in its stretch.
Placed(t) ==
    pc[t] \in Walking =>
        LET comps == Stretch(cmd[t], stage[t])
            walked == Len(comps) - Len(rest[t])
        IN  /\ walked >= 0
            /\ \A k \in 1 .. Len(rest[t]) : rest[t][k] = comps[walked + k]
            /\ Len(locked[t][stage[t]]) = walked + (IF stage[t] = "common" THEN 1 ELSE 0)
                                                 - (IF pc[t] = "lock" THEN 1 ELSE 0)
            /\ pc[t] \notin {"lock", "walk"} => rest[t] = <<>>
            /\ \A s \in Stage \ {"common", stage[t]} :
                  stage[t] = "common" \/ s # Head(Legs(cmd[t])) => locked[t][s] = <<>>

\* PathHeld of one thread, but for the locks.
OnPath(t) ==
    pc[t] \in Walking =>
        \A s \in Stage :
            LET chain == locked[t][s]
                comps == Stretch(cmd[t], s)
            IN  /\ s = "common" =>
                      /\ chain # <<>> => chain[1] = Root
                      /\ \A k \in 1 .. Len(chain) - 1 : Links(chain[k], comps[k], chain[k + 1])
                /\ s # "common" =>
                      \A k \in 1 .. Len(chain) :
                          Links(IF k = 1 THEN Last(locked[t]["common"]) ELSE chain[k - 1],
                                comps[k], chain[k])

\* TargetLinked of one thread, and the inode a command begins with.
AtTarget(t) ==
    /\ pc[t] = "idle" => target[t] = Root
    /\ pc[t] = "lock" =>
          IF locked[t]["common"] = <<>> THEN target[t] = Root /\ stage[t] = "common"
          ELSE LET comps == Stretch(cmd[t], stage[t])
               IN  Links(Cur(t), comps[Len(comps) - Len(rest[t])], target[t])
    /\ pc[t] \in {"lockchild", "child"} => Links(OrigParent(t), EntryOf(cmd[t]), target[t])

\* What a thread has made sure of where it changes the tree.
Ready(t) ==
    /\ pc[t] \in {"scan", "add"} => type[Cur(t)] = "dir"
    /\ pc[t] \in {"lockchild", "child"} => type[OrigParent(t)] = "dir" /\ type[DestParent(t)] = "dir"
    /\ pc[t] = "child" => target[t] \notin Held(t)
    /\ pc[t] = "print" => cmd[t].op = "print" /\ toPrint[t] \subseteq Linked \cup {Root}

Way(t) == Placed(t) /\ OnPath(t) /\ AtTarget(t) /\ Ready(t)

Tree == Structure /\ Grounded /\ \A t \in Thread : Way(t)

-----------------------------------------------------------------------------
\* What a step of a thread leaves of the others.
Step(t) == Receive(t) \/ ReceiveRejected(t) \/ Work(t)
Transit == {"add", "undo", "free"}

LEMMA StepFacts ==
    ASSUME IInv, NEW t \in Thread, Step(t)
    PROVE  /\ IInv' /\ WritesOwn(t) /\ OthersStay(t) /\ OthersKeep(t)
           /\ TableTypeOK /\ ThreadTypeOK /\ WriterAlone /\ TableTypeOK' /\ ThreadTypeOK' /\ WriterAlone'
           /\ \A u \in Thread : Part(u) /\ Part(u)'
<1>1. IInv' /\ WritesOwn(t) /\ Kept(t)
    BY NextIInv, StepKeeps DEF Step
<1>2. TableTypeOK /\ ThreadTypeOK /\ WriterAlone /\ \A u \in Thread : Part(u)
    BY IInvParts
<1>3. TableTypeOK' /\ WriterAlone' /\ OthersKeep(t)
    BY <1>1, <1>2, TableKeeps DEF Kept
<1>4. ThreadTypeOK' /\ \A u \in Thread : Part(u)'
    BY <1>1 DEF IInv, TypeOK, ThreadTypeOK, LocksOwned, Part
<1> QED
    BY <1>1, <1>2, <1>3, <1>4 DEF Kept

\* What a thread has is not changed by another.
LEMMA OthersHold ==
    ASSUME IInv, NEW t \in Thread, Step(t), NEW u \in Thread \ {t}, NEW i \in Inode, u \in Holders(i)
    PROVE  u \in Holders(i)' /\ dir'[i] = dir[i] /\ type'[i] = type[i]
<1>1. WritesOwn(t) /\ OthersKeep(t) /\ WriterAlone /\ WriterAlone'
    BY StepFacts
<1>2. u \in Holders(i)'
    BY <1>1 DEF OthersKeep, Holders
<1>3. t \notin unique[i] /\ t \notin unique'[i]
    BY <1>1, <1>2 DEF WriterAlone, Holders
<1> QED
    BY <1>1, <1>2, <1>3 DEF WritesOwn

\* Two threads never have the same inode on its way in or out.
LEMMA TransitAlone ==
    ASSUME IInv, NEW t \in Thread, NEW u \in Thread, pc[t] \in Transit, pc[u] \in Transit,
           target[t] = target[u]
    PROVE  t = u
<1>1. target[t] \in Inode /\ t \in unique[target[t]] /\ u \in unique[target[u]]
    BY DEF IInv, LocksOwned, Located, Owned, Transit
<1> QED
    BY <1>1 DEF IInv, LocksOwned, WriterAlone

LEMMA TransitStep ==
    ASSUME NEW t \in Thread, OthersStay(t), NEW i
    PROVE  InTransit(i)' <=>
              \/ \E u \in Thread \ {t} : target[u] = i /\ pc[u] \in Transit
              \/ target'[t] = i /\ pc'[t] \in Transit
BY DEF OthersStay, InTransit, Transit

\* Names are entry names, and what they name are inodes.
LEMMA HasTypes ==
    ASSUME TableTypeOK, NEW d \in Inode, NEW n, NEW i, HasEntry(dir[d], n, i)
    PROVE  n \in EntryName /\ i \in Inode
<1>1. dir[d] \in Dir
    BY DEF TableTypeOK
<1> QED
    BY <1>1, EntryIsInode DEF HasEntry

\* Where a thread stands is among what it has locked.
LEMMA HeldByThread ==
    ASSUME IInv, NEW t \in Thread, pc[t] \in Walking
    PROVE  \A i \in Held(t) : t \in Holders(i)
BY DEF IInv, LocksOwned, Owned, Held

LEMMA LastHeld ==
    ASSUME IInv, NEW t \in Thread, NEW s \in Stage, locked[t][s] # <<>>
    PROVE  Last(locked[t][s]) \in Held(t)
<1>1. locked[t][s] \in Seq(Inode)
    BY DEF IInv, TypeOK
<1> QED
    BY <1>1, LastOf DEF Held

LEMMA StandingHeld ==
    ASSUME IInv, NEW t \in Thread, locked[t]["common"] # <<>>
    PROVE  Cur(t) \in Held(t) /\ OrigParent(t) \in Held(t) /\ DestParent(t) \in Held(t)
<1>1. stage[t] \in Stage /\ Stage = {"common", "orig", "dest"}
    BY DEF IInv, TypeOK, Stage
<1> QED
    BY <1>1, LastHeld DEF Cur, OrigParent, DestParent

-----------------------------------------------------------------------------
\* The steps that change the tree.

\* No entry comes or goes.
EntriesSame == \A d \in Inode, n \in EntryName, i \in Inode :
    HasEntry(dir'[d], n, i) <=> HasEntry(dir[d], n, i)

LEMMA SameNames ==
    ASSUME Structure, Grounded, EntriesSame
    PROVE  NamesOnce' /\ Grounded'
<1>1. NamesOnce'
    <2> SUFFICES ASSUME NEW d \in Inode, NEW e \in Inode, NEW i \in Inode,
                        NEW m \in EntryName, NEW n \in EntryName,
                        HasEntry(dir'[d], m, i), HasEntry(dir'[e], n, i)
                 PROVE  d = e /\ m = n
        BY DEF NamesOnce
    <2>1. HasEntry(dir[d], m, i) /\ HasEntry(dir[e], n, i)
        BY DEF EntriesSame
    <2> QED
        BY <2>1 DEF Structure, NamesOnce
<1>2. Grounded'
    <2> SUFFICES ASSUME NEW S \in SUBSET Inode,
                        \A i \in S : \E d \in S, n \in EntryName : HasEntry(dir'[d], n, i)
                 PROVE  S = {}
        BY DEF Grounded
    <2>1. \A i \in S : \E d \in S, n \in EntryName : HasEntry(dir[d], n, i)
        BY DEF EntriesSame
    <2> QED
        BY <2>1 DEF Grounded
<1> QED
    BY <1>1, <1>2

\* Nothing changes that the structure is about.
LEMMA StructureSame ==
    ASSUME Structure, Grounded, NEW t \in Thread, OthersStay(t), dir' = dir, type' = type,
           pc[t] \in Transit => target'[t] = target[t] /\ pc'[t] \in Transit,
           pc'[t] \in Transit => target'[t] = target[t] /\ pc[t] \in Transit
    PROVE  Structure' /\ Grounded' /\ EntriesSame
<1>1. \A i : InTransit(i)' <=> InTransit(i)
    <2> SUFFICES ASSUME NEW i
                 PROVE  InTransit(i)' <=> InTransit(i)
        OBVIOUS
    <2>1. InTransit(i) <=> \/ \E u \in Thread \ {t} : target[u] = i /\ pc[u] \in Transit
                           \/ target[t] = i /\ pc[t] \in Transit
        BY DEF InTransit, Transit
    <2> QED
        BY <2>1, TransitStep
<1>2. \A u \in Thread : pc'[u] \in Transit => pc[u] \in Transit /\ target'[u] = target[u]
    BY DEF OthersStay
<1>3. EntriesSame
    BY DEF EntriesSame
<1>4. EntriesFit'
    BY <1>1 DEF Structure, EntriesFit
<1>5. AllNamed'
    BY <1>1 DEF Structure, AllNamed
<1>6. TransitBare'
    BY <1>2 DEF Structure, TransitBare, Transit
<1> QED
    BY <1>3, <1>4, <1>5, <1>6, SameNames DEF Structure

\* The steps that change nothing of it.
Growing(t) == TakeSlot(t) \/ CreateEntry(t)
Shrinking(t) == RemoveChild(t) \/ FreeInode(t)
Relinking(t) == RenameChild(t) \/ MoveChild(t)

LEMMA QuietSteps ==
    ASSUME IInv, NEW t \in Thread, Step(t), ~Growing(t), ~Shrinking(t), ~Relinking(t)
    PROVE  /\ dir' = dir /\ type' = type
           /\ pc[t] \in Transit => target'[t] = target[t] /\ pc'[t] \in Transit
           /\ pc'[t] \in Transit => target'[t] = target[t] /\ pc[t] \in Transit
<1> DEFINE Same == /\ dir' = dir /\ type' = type
                   /\ pc[t] \in Transit => target'[t] = target[t] /\ pc'[t] \in Transit
                   /\ pc'[t] \in Transit => target'[t] = target[t] /\ pc[t] \in Transit
<1>1. pc \in [Thread -> Pc]
    BY DEF IInv, TypeOK
<1>2. CASE Receive(t) \/ ReceiveRejected(t)
    BY <1>1, <1>2 DEF Receive, ReceiveRejected, At, tableVars, Transit
<1>3. CASE Lock(t) \/ LockErrno(t) \/ TableFull(t)
    BY <1>1, <1>3 DEF Lock, LockErrno, TableFull, Abort, LockInode, At, tableVars, threadVars, Transit
<1>4. CASE Walk(t) \/ CreateScan(t) \/ SkipSlot(t) \/ FindChild(t)
    BY <1>1, <1>4 DEF Walk, CreateScan, SkipSlot, FindChild, Goto, At, tableVars, Transit
<1>5. CASE LockChild(t)
    BY <1>1, <1>5 DEF LockChild, Goto, LockInode, At, Transit
<1>6. CASE WalkFails(t) \/ Search(t) \/ ParentNotDir(t) \/ MoveSelf(t) \/ CommonAncestorNotDir(t)
    BY <1>1, <1>6 DEF WalkFails, Search, ParentNotDir, MoveSelf, CommonAncestorNotDir, Fail, Finish,
        At, tableVars, Transit
<1>7. CASE MoveParentNotDir(t) \/ ChildMissing(t) \/ PrintDone(t)
    BY <1>1, <1>7 DEF MoveParentNotDir, ChildMissing, PrintDone, Fail, Finish, At, tableVars, Transit
<1>8. CASE RemoveNonEmpty(t) \/ RenameFails(t) \/ MoveFails(t)
    BY <1>1, <1>8 DEF RemoveNonEmpty, RenameFails, Renames, MoveFails, Transfers, Fail, Finish, At,
        tableVars, Transit
<1>9. CASE CreateFails(t)
    BY <1>1, <1>9 DEF CreateFails, Finish, At, tableVars, Transit
<1>10. CASE MoveLeg(t) \/ PrintStart(t) \/ PrintVisit(t)
    BY <1>1, <1>10 DEF MoveLeg, PrintStart, PrintVisit, At, tableVars, Transit
<1>11. CASE Unlock(t)
    BY <1>1, <1>11 DEF Unlock, UnlockInode, At, Transit
<1>12. CASE Reply(t)
    BY <1>1, <1>12 DEF Reply, At, tableVars, Transit
<1> QED
    BY <1>2, <1>3, <1>4, <1>5, <1>6, <1>7, <1>8, <1>9, <1>10, <1>11, <1>12
    DEF Step, Work, Growing, Shrinking, Relinking

\* An inode on its way in or out is held by the thread that brings it.
LEMMA TransitHeld ==
    ASSUME IInv, NEW t \in Thread, pc[t] \in Transit
    PROVE  target[t] \in Inode /\ t \in unique[target[t]] /\ InTransit(target[t])
BY DEF IInv, LocksOwned, Located, Owned, Transit, InTransit

\* So it is not one that another thread has.
LEMMA TransitApart ==
    ASSUME IInv, NEW t \in Thread, NEW u \in Thread \ {t}, pc[u] \in Transit, NEW i \in Inode,
           t \in Holders(i)
    PROVE  target[u] # i
<1>1. target[u] \in Inode /\ u \in unique[target[u]]
    BY TransitHeld
<1> QED
    BY <1>1 DEF IInv, LocksOwned, WriterAlone, Holders

\* What a thread brings or takes stops to be underway.
LEMMA TransitLeaves ==
    ASSUME IInv, NEW t \in Thread, OthersStay(t), pc[t] \in Transit, pc'[t] \notin Transit
    PROVE  \A i : InTransit(i)' <=> InTransit(i) /\ i # target[t]
<1> SUFFICES ASSUME NEW i
             PROVE  InTransit(i)' <=> InTransit(i) /\ i # target[t]
    OBVIOUS
<1>1. InTransit(i)' <=> \E u \in Thread \ {t} : target[u] = i /\ pc[u] \in Transit
    BY TransitStep
<1>2. InTransit(i) <=> \/ \E u \in Thread \ {t} : target[u] = i /\ pc[u] \in Transit
                       \/ target[t] = i
    BY DEF InTransit, Transit
<1>3. ~\E u \in Thread \ {t} : target[u] = target[t] /\ pc[u] \in Transit
    BY TransitAlone
<1> QED
    BY <1>1, <1>2, <1>3

\* tfs_inode_table_add: a new inode, without entries or a name.
LEMMA TakeSlotStructure ==
    ASSUME IInv, Structure, Grounded, NEW t \in Thread, TakeSlot(t)
    PROVE  Structure' /\ Grounded' /\ EntriesSame
<1> DEFINE x == target[t]
<1>1. /\ pc[t] = "scan" /\ pc' = [pc EXCEPT ![t] = "add"] /\ target' = [target EXCEPT ![t] = x]
      /\ x \in Inode /\ x < Capacity /\ SlotFree(x)
      /\ type' = [type EXCEPT ![x] = cmd[t].type] /\ dir' = [dir EXCEPT ![x] = EmptyDir]
    BY BaseAssumption DEF TakeSlot, TakeInode, Goto, At, IInv, TypeOK, Inode
<1>2. TableTypeOK /\ ThreadTypeOK /\ OthersStay(t) /\ cmd[t].type # "none"
    <2>1. cmd[t] \in Command /\ cmd[t].op = "create"
        BY <1>1 DEF IInv, LocksOwned, Located
    <2> QED
        BY <2>1, CommandFields, StepFacts DEF Step, Work, InodeType
<1>3. /\ type'[x] = cmd[t].type /\ dir'[x] = EmptyDir
      /\ \A i \in Inode : i # x => type'[i] = type[i] /\ dir'[i] = dir[i]
    BY <1>1, <1>2 DEF TableTypeOK
<1>4. pc'[t] = "add" /\ target'[t] = x /\ pc[t] \notin Transit
    BY <1>1, <1>2 DEF ThreadTypeOK, Transit
<1>5. type[x] = "none" /\ x # Root
    BY <1>1 DEF SlotFree, Structure
<1>6. \A d, i \in Inode, n \in EntryName : HasEntry(dir[d], n, i) => d # x /\ i # x
    BY <1>5 DEF Structure, EntriesFit
<1>7. \A n, i : ~HasEntry(dir'[x], n, i)
    BY <1>3, EmptyDirHas
<1>8. EntriesSame
    BY <1>1, <1>3, <1>6, <1>7 DEF EntriesSame
<1>9. \A i : InTransit(i)' <=> InTransit(i) \/ i = x
    <2> SUFFICES ASSUME NEW i
                 PROVE  InTransit(i)' <=> InTransit(i) \/ i = x
        OBVIOUS
    <2>1. InTransit(i) <=> \E u \in Thread \ {t} : target[u] = i /\ pc[u] \in Transit
        BY <1>4 DEF InTransit, Transit
    <2>2. InTransit(i)' <=> (\E u \in Thread \ {t} : target[u] = i /\ pc[u] \in Transit) \/ i = x
        BY <1>2, <1>4, TransitStep DEF Transit
    <2> QED
        BY <2>1, <2>2
<1>10. type'[Root] = "dir"
    BY <1>3, <1>5, BaseAssumption DEF Structure, Root, Inode
<1>11. EntriesFit'
    BY <1>3, <1>6, <1>8, <1>9 DEF Structure, EntriesFit, EntriesSame
<1>12. AllNamed'
    <2> SUFFICES ASSUME NEW i \in Inode \ {Root}, type'[i] # "none", ~InTransit(i)'
                 PROVE  \E d \in Inode, n \in EntryName : HasEntry(dir'[d], n, i)
        BY DEF AllNamed
    <2>1. i # x /\ ~InTransit(i) /\ type[i] # "none"
        BY <1>3, <1>9
    <2> QED
        BY <1>8, <2>1 DEF Structure, AllNamed, EntriesSame
<1>13. TransitBare'
    <2> SUFFICES ASSUME NEW u \in Thread, pc'[u] \in Transit
                 PROVE  /\ target'[u] # Root /\ type'[target'[u]] # "none"
                        /\ \A n \in EntryName, i \in Inode : ~HasEntry(dir'[target'[u]], n, i)
        BY DEF TransitBare, Transit
    <2>1. CASE u = t
        BY <1>2, <1>3, <1>4, <1>5, <1>7, <2>1
    <2>2. CASE u # t
        <3>1. pc[u] \in Transit /\ target'[u] = target[u] /\ target[u] \in Inode
            BY <1>2, <2>2, TransitHeld DEF OthersStay
        <3>2. /\ target[u] # Root /\ type[target[u]] # "none"
              /\ \A n \in EntryName, i \in Inode : ~HasEntry(dir[target[u]], n, i)
            BY <3>1 DEF Structure, TransitBare, Transit
        <3> QED
            BY <1>3, <1>5, <3>1, <3>2
    <2> QED
        BY <2>1, <2>2
<1> QED
    BY <1>8, <1>10, <1>11, <1>12, <1>13, SameNames DEF Structure

\* tfs_inode_table_remove_inode: an inode without entries or a name.
LEMMA FreeInodeStructure ==
    ASSUME IInv, Structure, Grounded, NEW t \in Thread, FreeInode(t)
    PROVE  Structure' /\ Grounded' /\ EntriesSame
<1> DEFINE x == target[t]
<1>1. /\ pc[t] \in Transit /\ pc' = [pc EXCEPT ![t] = "release"] /\ target' = target
      /\ type' = [type EXCEPT ![x] = "none"] /\ dir' = [dir EXCEPT ![x] = EmptyDir]
    BY DEF FreeInode, RemoveInode, At, Transit
<1>2. TableTypeOK /\ ThreadTypeOK /\ OthersStay(t) /\ x \in Inode /\ InTransit(x)
    BY <1>1, StepFacts, TransitHeld DEF Step, Work
<1>3. /\ type'[x] = "none" /\ dir'[x] = EmptyDir
      /\ \A i \in Inode : i # x => type'[i] = type[i] /\ dir'[i] = dir[i]
    BY <1>1, <1>2 DEF TableTypeOK
<1>4. pc'[t] \notin Transit
    BY <1>1, <1>2 DEF ThreadTypeOK, Transit
<1>5. x # Root /\ \A n \in EntryName, i \in Inode : ~HasEntry(dir[x], n, i)
    BY <1>1 DEF Structure, TransitBare, Transit
<1>6. \A d, i \in Inode, n \in EntryName : HasEntry(dir[d], n, i) => d # x /\ i # x
    BY <1>2, <1>5 DEF Structure, EntriesFit
<1>7. \A n, i : ~HasEntry(dir'[x], n, i)
    BY <1>3, EmptyDirHas
<1>8. EntriesSame
    BY <1>2, <1>3, <1>6, <1>7 DEF EntriesSame
<1>9. \A i : InTransit(i)' <=> InTransit(i) /\ i # x
    BY <1>1, <1>2, <1>4, TransitLeaves
<1>10. type'[Root] = "dir"
    BY <1>3, <1>5, BaseAssumption DEF Structure, Root, Inode
<1>11. EntriesFit'
    BY <1>3, <1>6, <1>8, <1>9 DEF Structure, EntriesFit, EntriesSame
<1>12. AllNamed'
    <2> SUFFICES ASSUME NEW i \in Inode \ {Root}, type'[i] # "none", ~InTransit(i)'
                 PROVE  \E d \in Inode, n \in EntryName : HasEntry(dir'[d], n, i)
        BY DEF AllNamed
    <2>1. i # x /\ ~InTransit(i) /\ type[i] # "none"
        BY <1>3, <1>9
    <2> QED
        BY <1>8, <2>1 DEF Structure, AllNamed, EntriesSame
<1>13. TransitBare'
    <2> SUFFICES ASSUME NEW u \in Thread, pc'[u] \in Transit
                 PROVE  /\ target'[u] # Root /\ type'[target'[u]] # "none"
                        /\ \A n \in EntryName, i \in Inode : ~HasEntry(dir'[target'[u]], n, i)
        BY DEF TransitBare, Transit
    <2>1. u # t
        BY <1>4
    <2>2. pc[u] \in Transit /\ target'[u] = target[u] /\ target[u] \in Inode
        BY <1>2, <2>1, TransitHeld DEF OthersStay
    <2>3. target[u] # x
        BY <1>1, <2>1, <2>2, TransitAlone
    <2>4. /\ target[u] # Root /\ type[target[u]] # "none"
          /\ \A n \in EntryName, i \in Inode : ~HasEntry(dir[target[u]], n, i)
        BY <2>2 DEF Structure, TransitBare, Transit
    <2> QED
        BY <1>3, <2>2, <2>3, <2>4
<1> QED
    BY <1>8, <1>10, <1>11, <1>12, <1>13, SameNames DEF Structure

\* tfs_fs_create: the new inode gets its name, in the directory the thread
\* has walked to.
LinkMade(t) ==
    \A d, i \in Inode, n \in EntryName :
        HasEntry(dir'[d], n, i) <=>
            HasEntry(dir[d], n, i) \/ (d = Cur(t) /\ n = EntryOf(cmd[t]) /\ i = target[t])

LEMMA CreateEntryLinks ==
    ASSUME IInv, Structure, NEW t \in Thread, Ready(t), CreateEntry(t)
    PROVE  /\ LinkMade(t) /\ type' = type
           /\ target[t] \in Inode /\ Cur(t) \in Inode /\ target[t] # Cur(t)
           /\ EntryOf(cmd[t]) \in EntryName /\ EntryOf(cmd[t]) # NoName
           /\ t \in unique[Cur(t)] /\ type[Cur(t)] = "dir"
           /\ \A i : ~HasEntry(dir[Cur(t)], EntryOf(cmd[t]), i)
           /\ target[t] # Root /\ type[target[t]] # "none"
           /\ \A n \in EntryName, i \in Inode : ~HasEntry(dir[target[t]], n, i)
<1> DEFINE x == target[t]
           p == Cur(t)
           new == EntryOf(cmd[t])
<1>1. /\ pc[t] = "add" /\ type' = type
      /\ dir' = [dir EXCEPT ![p] = AddEntry(dir[p], new, x)]
      /\ new \notin Names(dir[p]) /\ new # NoName
    BY DEF CreateEntry, At, AddRefused
<1>2. TableTypeOK /\ ThreadTypeOK /\ Part(t) /\ x \in Inode
    BY <1>1, StepFacts, TransitHeld DEF Step, Work, Transit
<1>3. /\ p \in Inode /\ locked[t]["common"] # <<>> /\ cmd[t] \in Command
      /\ t \in unique[p] /\ type[p] = "dir"
    BY <1>1, <1>2, Standing, ParentsOwned DEF Walking, Ready
<1>4. p # x /\ new \in EntryName
    <2>1. p \in Held(t)
        BY <1>3, StandingHeld
    <2>2. cmd[t].op = "create"
        BY <1>1, <1>2 DEF Part, Located
    <2> QED
        BY <1>1, <1>2, <1>3, <2>1, <2>2, EntryNames DEF Part, Owned, Held
<1>5. x # Root /\ type[x] # "none" /\ \A n \in EntryName, i \in Inode : ~HasEntry(dir[x], n, i)
    BY <1>1 DEF Structure, TransitBare
<1>6. \A i : ~HasEntry(dir[p], new, i)
    BY <1>1 DEF HasEntry
<1>7. LinkMade(t)
    <2> SUFFICES ASSUME NEW d \in Inode, NEW i \in Inode, NEW n \in EntryName
                 PROVE  HasEntry(dir'[d], n, i) <=>
                            HasEntry(dir[d], n, i) \/ (d = p /\ n = new /\ i = x)
        BY DEF LinkMade
    <2>1. dir'[d] = IF d = p THEN AddEntry(dir[p], new, x) ELSE dir[d]
        BY <1>1, <1>2 DEF TableTypeOK
    <2>2. HasEntry(AddEntry(dir[p], new, x), n, i) <=>
             (n = new /\ i = x) \/ (n # new /\ HasEntry(dir[p], n, i))
        BY AddEntryHas
    <2> QED
        BY <1>6, <2>1, <2>2
<1> QED
    BY <1>1, <1>2, <1>3, <1>4, <1>5, <1>6, <1>7

LEMMA CreateEntryStructure ==
    ASSUME IInv, Structure, Grounded, NEW t \in Thread, Ready(t), CreateEntry(t)
    PROVE  Structure' /\ Grounded'
<1> DEFINE x == target[t]
           p == Cur(t)
           new == EntryOf(cmd[t])
<1>1. /\ pc[t] = "add" /\ pc' = [pc EXCEPT ![t] = "release"] /\ target' = target /\ type' = type
    BY DEF CreateEntry, Finish, At
<1>2. /\ TableTypeOK /\ ThreadTypeOK /\ OthersStay(t)
      /\ x \in Inode /\ InTransit(x) /\ pc[t] \in Transit
    BY <1>1, StepFacts, TransitHeld DEF Step, Work, Transit
<1>3. p \in Inode /\ t \in unique[p] /\ type[p] = "dir"
    BY CreateEntryLinks
<1>4. p # x /\ new \in EntryName
    BY CreateEntryLinks
<1>5. pc'[t] \notin Transit
    BY <1>1, <1>2 DEF ThreadTypeOK, Transit
<1>6. x # Root /\ type[x] # "none" /\ \A n \in EntryName, i \in Inode : ~HasEntry(dir[x], n, i)
    BY CreateEntryLinks
<1>7. \A d, i \in Inode, n \in EntryName :
         HasEntry(dir'[d], n, i) <=> HasEntry(dir[d], n, i) \/ (d = p /\ n = new /\ i = x)
    BY CreateEntryLinks DEF LinkMade
<1>8. \A d \in Inode, n \in EntryName : ~HasEntry(dir[d], n, x)
    BY <1>2 DEF Structure, EntriesFit
<1>9. \A i : InTransit(i)' <=> InTransit(i) /\ i # x
    BY <1>1, <1>2, <1>5, TransitLeaves
<1>10. EntriesFit'
    BY <1>1, <1>3, <1>6, <1>7, <1>9 DEF Structure, EntriesFit
<1>11. NamesOnce'
    <2> SUFFICES ASSUME NEW d \in Inode, NEW e \in Inode, NEW i \in Inode,
                        NEW m \in EntryName, NEW n \in EntryName,
                        HasEntry(dir'[d], m, i), HasEntry(dir'[e], n, i)
                 PROVE  d = e /\ m = n
        BY DEF NamesOnce
    <2> QED
        BY <1>7, <1>8 DEF Structure, NamesOnce
<1>12. AllNamed'
    <2> SUFFICES ASSUME NEW i \in Inode \ {Root}, type'[i] # "none", ~InTransit(i)'
                 PROVE  \E d \in Inode, n \in EntryName : HasEntry(dir'[d], n, i)
        BY DEF AllNamed
    <2>1. CASE i = x
        BY <1>2, <1>3, <1>4, <1>7, <2>1
    <2>2. CASE i # x
        <3>1. PICK d \in Inode, n \in EntryName : HasEntry(dir[d], n, i)
            BY <1>1, <1>9, <2>2 DEF Structure, AllNamed
        <3> QED
            BY <1>7, <3>1
    <2> QED
        BY <2>1, <2>2
<1>13. TransitBare'
    <2> SUFFICES ASSUME NEW u \in Thread, pc'[u] \in Transit
                 PROVE  /\ target'[u] # Root /\ type'[target'[u]] # "none"
                        /\ \A n \in EntryName, i \in Inode : ~HasEntry(dir'[target'[u]], n, i)
        BY DEF TransitBare, Transit
    <2>1. u # t
        BY <1>5
    <2>2. pc[u] \in Transit /\ target'[u] = target[u] /\ target[u] \in Inode
        BY <1>2, <2>1, TransitHeld DEF OthersStay
    <2>3. target[u] # p
        BY <1>3, <2>1, <2>2, TransitApart DEF Holders
    <2>4. /\ target[u] # Root /\ type[target[u]] # "none"
          /\ \A n \in EntryName, i \in Inode : ~HasEntry(dir[target[u]], n, i)
        BY <2>2 DEF Structure, TransitBare, Transit
    <2> QED
        BY <1>1, <1>7, <2>2, <2>3, <2>4
<1>14. Grounded'
    <2> SUFFICES ASSUME NEW S \in SUBSET Inode,
                        \A i \in S : \E d \in S, n \in EntryName : HasEntry(dir'[d], n, i)
                 PROVE  S = {}
        BY DEF Grounded
    <2>1. \A i \in S \ {x} : \E d \in S \ {x}, n \in EntryName : HasEntry(dir[d], n, i)
        <3> SUFFICES ASSUME NEW i \in S \ {x}
                     PROVE  \E d \in S \ {x}, n \in EntryName : HasEntry(dir[d], n, i)
            OBVIOUS
        <3>1. PICK d \in S, n \in EntryName : HasEntry(dir'[d], n, i)
            OBVIOUS
        <3>2. HasEntry(dir[d], n, i)
            BY <1>7, <3>1
        <3>3. d # x
            BY <1>6, <3>2
        <3> QED
            BY <3>2, <3>3
    <2>2. S \ {x} = {}
        BY <2>1 DEF Grounded
    <2>3. x \notin S
        <3> SUFFICES ASSUME x \in S PROVE FALSE
            OBVIOUS
        <3>1. PICK d \in S, n \in EntryName : HasEntry(dir'[d], n, x)
            OBVIOUS
        <3>2. d = x
            BY <2>2
        <3> QED
            BY <1>2, <1>4, <1>6, <1>7, <3>1, <3>2
    <2> QED
        BY <2>2, <2>3
<1> QED
    BY <1>1, <1>10, <1>11, <1>12, <1>13, <1>14 DEF Structure

\* Where a thread has its child, its parents and the child are as follows.
LEMMA ChildFacts ==
    ASSUME IInv, NEW t \in Thread, pc[t] = "child"
    PROVE  /\ cmd[t] \in Command /\ locked[t]["common"] # <<>>
           /\ target[t] \in Inode /\ OrigParent(t) \in Inode /\ DestParent(t) \in Inode
           /\ t \in unique[OrigParent(t)] /\ t \in unique[target[t]]
           /\ cmd[t].op = "move" => t \in unique[DestParent(t)]
           /\ cmd[t].op = "remove" \/ cmd[t].op = "move"
           /\ EntryOf(cmd[t]) \in EntryName
           /\ HasEntry(dir[OrigParent(t)], EntryOf(cmd[t]), target[t])
<1>1. ThreadTypeOK /\ Part(t)
    BY IInvParts
<1>2. /\ cmd[t] \in Command /\ locked[t]["common"] # <<>>
      /\ OrigParent(t) \in Inode /\ DestParent(t) \in Inode
    BY <1>1, Standing DEF Walking
<1>3. t \in unique[OrigParent(t)] /\ (cmd[t].op = "move" => t \in unique[DestParent(t)])
    BY <1>1, ParentsOwned
<1>4. /\ target[t] \in Inode /\ t \in unique[target[t]]
      /\ cmd[t].op = "remove" \/ cmd[t].op = "move"
    BY <1>1 DEF Part, Located, Owned
<1>5. HasEntry(dir[OrigParent(t)], EntryOf(cmd[t]), target[t])
    BY <1>1 DEF Part, EntryKept, HasEntry
<1> QED
    BY <1>2, <1>3, <1>4, <1>5, EntryNames

\* The parent of a remove, and of a rename, is where the thread stands.
LEMMA ChildInCur ==
    ASSUME IInv, NEW t \in Thread, pc[t] = "child",
           cmd[t].op = "remove" \/ Legs(cmd[t]) = <<>>
    PROVE  Cur(t) = OrigParent(t) /\ Cur(t) = DestParent(t)
<1>1. ThreadTypeOK /\ Part(t) /\ stage[t] \in {"common", "orig", "dest"}
    BY IInvParts DEF ThreadTypeOK, Stage
<1>2. CASE cmd[t].op = "remove"
    BY <1>1, <1>2 DEF Part, Walked, Stage, Cur, OrigParent, DestParent
<1>3. CASE Legs(cmd[t]) = <<>>
    <2>1. Stretch(cmd[t], "orig") = <<>> /\ Stretch(cmd[t], "dest") = <<>>
        <3>1. /\ <<"orig">> # <<>> /\ <<"dest">> # <<>>
              /\ <<"orig", "dest">> # <<>> /\ <<"dest", "orig">> # <<>>
            OBVIOUS
        <3> QED
            BY <1>3, <3>1, LegsShape
    <2> QED
        BY <1>1, <2>1 DEF Part, Walked, Stage, Cur, OrigParent, DestParent
<1> QED
    BY <1>2, <1>3

\* tfs_fs_remove: the child loses its name.
LinkCut(t) ==
    \A d, i \in Inode, n \in EntryName :
        HasEntry(dir'[d], n, i) <=>
            HasEntry(dir[d], n, i) /\ ~(d = Cur(t) /\ n = EntryOf(cmd[t]))

LEMMA RemoveChildLinks ==
    ASSUME IInv, Structure, NEW t \in Thread, RemoveChild(t)
    PROVE  /\ LinkCut(t) /\ type' = type
           /\ target[t] \in Inode /\ Cur(t) \in Inode /\ EntryOf(cmd[t]) \in EntryName
           /\ HasEntry(dir[Cur(t)], EntryOf(cmd[t]), target[t])
           /\ \A n \in EntryName, i \in Inode : ~HasEntry(dir[target[t]], n, i)
<1> DEFINE x == target[t]
           p == Cur(t)
           old == EntryOf(cmd[t])
<1>1. /\ pc[t] = "child" /\ cmd[t].op = "remove" /\ Removable(t) /\ type' = type
      /\ dir' = [dir EXCEPT ![p] = RemoveEntry(dir[p], old)]
    BY DEF RemoveChild, At
<1>2. TableTypeOK
    BY StepFacts DEF Step, Work
<1>3. /\ x \in Inode /\ p \in Inode /\ old \in EntryName
      /\ HasEntry(dir[p], old, x)
    BY <1>1, ChildFacts, ChildInCur
<1>4. \A n \in EntryName, i \in Inode : ~HasEntry(dir[x], n, i)
    <2>1. CASE type[x] = "dir"
        BY <1>1, <2>1 DEF Removable, DirIsEmpty, HasEntry
    <2>2. CASE type[x] # "dir"
        BY <1>3, <2>2 DEF Structure, EntriesFit
    <2> QED
        BY <2>1, <2>2
<1>5. LinkCut(t)
    <2> SUFFICES ASSUME NEW d \in Inode, NEW i \in Inode, NEW n \in EntryName
                 PROVE  HasEntry(dir'[d], n, i) <=> HasEntry(dir[d], n, i) /\ ~(d = p /\ n = old)
        BY DEF LinkCut
    <2>1. dir'[d] = (IF d = p THEN RemoveEntry(dir[p], old) ELSE dir[d]) /\ dir[p] \in Dir
        BY <1>1, <1>2, <1>3 DEF TableTypeOK
    <2>2. HasEntry(RemoveEntry(dir[p], old), n, i) <=> n # old /\ HasEntry(dir[p], n, i)
        BY <2>1, RemoveEntryHas
    <2> QED
        BY <2>1, <2>2
<1> QED
    BY <1>1, <1>3, <1>4, <1>5

LEMMA RemoveChildStructure ==
    ASSUME IInv, Structure, Grounded, NEW t \in Thread, RemoveChild(t)
    PROVE  Structure' /\ Grounded'
<1> DEFINE x == target[t]
           p == Cur(t)
           old == EntryOf(cmd[t])
<1>1. /\ pc[t] = "child" /\ pc' = [pc EXCEPT ![t] = "free"] /\ target' = target /\ type' = type
    BY DEF RemoveChild, Finish, At
<1>2. TableTypeOK /\ ThreadTypeOK /\ OthersStay(t)
    BY StepFacts DEF Step, Work
<1>3. /\ x \in Inode /\ p \in Inode /\ old \in EntryName
      /\ HasEntry(dir[p], old, x)
    BY RemoveChildLinks
<1>4. pc'[t] = "free" /\ target'[t] = x /\ pc[t] \notin Transit
    BY <1>1, <1>2 DEF ThreadTypeOK, Transit
<1>5. x # Root /\ type[x] # "none"
    BY <1>3 DEF Structure, EntriesFit
<1>6. \A n \in EntryName, i \in Inode : ~HasEntry(dir[x], n, i)
    BY RemoveChildLinks
<1>7. \A d, i \in Inode, n \in EntryName :
         HasEntry(dir'[d], n, i) <=> HasEntry(dir[d], n, i) /\ ~(d = p /\ n = old)
    BY RemoveChildLinks DEF LinkCut
<1>8. \A d, i \in Inode, n \in EntryName : HasEntry(dir'[d], n, i) => i # x
    BY <1>3, <1>7 DEF Structure, NamesOnce
<1>9. \A i : InTransit(i)' <=> InTransit(i) \/ i = x
    <2> SUFFICES ASSUME NEW i
                 PROVE  InTransit(i)' <=> InTransit(i) \/ i = x
        OBVIOUS
    <2>1. InTransit(i) <=> \E u \in Thread \ {t} : target[u] = i /\ pc[u] \in Transit
        BY <1>4 DEF InTransit, Transit
    <2>2. InTransit(i)' <=> (\E u \in Thread \ {t} : target[u] = i /\ pc[u] \in Transit) \/ i = x
        BY <1>2, <1>4, TransitStep DEF Transit
    <2> QED
        BY <2>1, <2>2
<1>10. EntriesFit'
    BY <1>1, <1>7, <1>8, <1>9 DEF Structure, EntriesFit
<1>11. NamesOnce'
    <2> SUFFICES ASSUME NEW d \in Inode, NEW e \in Inode, NEW i \in Inode,
                        NEW m \in EntryName, NEW n \in EntryName,
                        HasEntry(dir'[d], m, i), HasEntry(dir'[e], n, i)
                 PROVE  d = e /\ m = n
        BY DEF NamesOnce
    <2>1. HasEntry(dir[d], m, i) /\ HasEntry(dir[e], n, i)
        BY <1>7
    <2> QED
        BY <2>1 DEF Structure, NamesOnce
<1>12. AllNamed'
    <2> SUFFICES ASSUME NEW i \in Inode \ {Root}, type'[i] # "none", ~InTransit(i)'
                 PROVE  \E d \in Inode, n \in EntryName : HasEntry(dir'[d], n, i)
        BY DEF AllNamed
    <2>1. i # x /\ ~InTransit(i) /\ type[i] # "none"
        BY <1>1, <1>9
    <2>2. PICK d \in Inode, n \in EntryName : HasEntry(dir[d], n, i)
        BY <2>1 DEF Structure, AllNamed
    <2>3. ~(d = p /\ n = old)
        BY <1>3, <2>1, <2>2 DEF HasEntry
    <2> QED
        BY <1>7, <2>2, <2>3
<1>13. TransitBare'
    <2> SUFFICES ASSUME NEW u \in Thread, pc'[u] \in Transit
                 PROVE  /\ target'[u] # Root /\ type'[target'[u]] # "none"
                        /\ \A n \in EntryName, i \in Inode : ~HasEntry(dir'[target'[u]], n, i)
        BY DEF TransitBare, Transit
    <2>1. CASE u = t
        BY <1>1, <1>3, <1>4, <1>5, <1>6, <1>7, <2>1
    <2>2. CASE u # t
        <3>1. pc[u] \in Transit /\ target'[u] = target[u] /\ target[u] \in Inode
            BY <1>2, <2>2, TransitHeld DEF OthersStay
        <3>2. /\ target[u] # Root /\ type[target[u]] # "none"
              /\ \A n \in EntryName, i \in Inode : ~HasEntry(dir[target[u]], n, i)
            BY <3>1 DEF Structure, TransitBare, Transit
        <3> QED
            BY <1>1, <1>7, <3>1, <3>2
    <2> QED
        BY <2>1, <2>2
<1>14. Grounded'
    <2> SUFFICES ASSUME NEW S \in SUBSET Inode,
                        \A i \in S : \E d \in S, n \in EntryName : HasEntry(dir'[d], n, i)
                 PROVE  S = {}
        BY DEF Grounded
    <2>1. \A i \in S : \E d \in S, n \in EntryName : HasEntry(dir[d], n, i)
        BY <1>7
    <2> QED
        BY <2>1 DEF Grounded
<1> QED
    BY <1>1, <1>10, <1>11, <1>12, <1>13, <1>14 DEF Structure

\* What a thread has locked follows from the root by names.
LEMMA HeldClosed ==
    ASSUME IInv, NEW t \in Thread, Way(t), pc[t] \in Walking, NEW i \in Held(t)
    PROVE  i = Root \/ \E d \in Held(t), n \in EntryName : HasEntry(dir[d], n, i)
<1>1. TableTypeOK /\ ThreadTypeOK /\ Part(t)
    BY IInvParts
<1>2. PICK s \in Stage : \E k \in 1 .. Len(locked[t][s]) : locked[t][s][k] = i
    BY DEF Held
<1>3. PICK k \in 1 .. Len(locked[t][s]) : locked[t][s][k] = i
    BY <1>2
<1>4. /\ locked[t][s] \in Seq(Inode) /\ Len(locked[t][s]) \in Nat /\ k \in Nat /\ k >= 1
      /\ locked[t][s] # <<>>
    <2>1. locked[t][s] \in Seq(Inode)
        BY <1>1 DEF ThreadTypeOK
    <2>2. Len(locked[t][s]) \in Nat
        BY <2>1, LenProperties
    <2> QED
        BY <2>1, <2>2, EmptySeq
<1>5. \A j \in 1 .. Len(locked[t][s]) : locked[t][s][j] \in Held(t) /\ locked[t][s][j] \in Inode
    BY <1>4, ElementOfSeq DEF Held
<1>6. CASE k # 1
    <2>1. k - 1 \in 1 .. Len(locked[t][s]) /\ k - 1 \in 1 .. Len(locked[t][s]) - 1 /\ (k - 1) + 1 = k
        BY <1>4, <1>6
    <2>2. \E n : Links(locked[t][s][k - 1], n, i)
        <3>1. CASE s = "common"
            BY <1>3, <2>1, <3>1 DEF Way, OnPath
        <3>2. CASE s # "common"
            BY <1>3, <1>6, <3>2 DEF Way, OnPath
        <3> QED
            BY <3>1, <3>2
    <2>3. PICK n : Links(locked[t][s][k - 1], n, i)
        BY <2>2
    <2>4. HasEntry(dir[locked[t][s][k - 1]], n, i)
        BY <2>3 DEF Links, HasEntry
    <2>5. n \in EntryName
        BY <1>1, <1>5, <2>1, <2>4, HasTypes
    <2> QED
        BY <1>5, <2>1, <2>4, <2>5
<1>7. CASE k = 1 /\ s = "common"
    BY <1>3, <1>4, <1>7 DEF Way, OnPath
<1>8. CASE k = 1 /\ s # "common"
    <2>1. stage[t] # "common"
        BY <1>4, <1>8 DEF Way, Placed
    <2>2. locked[t]["common"] # <<>>
        BY <1>1, <2>1 DEF Part, Walked, Reaches
    <2>3. Last(locked[t]["common"]) \in Held(t) /\ Last(locked[t]["common"]) \in Inode
        <3>1. "common" \in Stage /\ locked[t]["common"] \in Seq(Inode)
            BY <1>1 DEF ThreadTypeOK, Stage
        <3> QED
            BY <2>2, <3>1, LastHeld, LastOf
    <2>4. PICK n : Links(Last(locked[t]["common"]), n, i)
        BY <1>3, <1>8 DEF Way, OnPath
    <2>5. HasEntry(dir[Last(locked[t]["common"])], n, i)
        BY <2>4 DEF Links, HasEntry
    <2>6. n \in EntryName
        BY <1>1, <2>3, <2>5, HasTypes
    <2> QED
        BY <2>3, <2>5, <2>6
<1> QED
    BY <1>6, <1>7, <1>8

\* A move gives its child another name, in a directory on the way it has
\* walked; the child is not on that way.
Relinked(t) ==
    \A d, i \in Inode, n \in EntryName :
        HasEntry(dir'[d], n, i) <=>
            \/ HasEntry(dir[d], n, i) /\ ~(d = OrigParent(t) /\ n = EntryOf(cmd[t]))
            \/ d = DestParent(t) /\ n = DestName(cmd[t]) /\ i = target[t]

LEMMA RelinkedStructure ==
    ASSUME IInv, Structure, Grounded, NEW t \in Thread, Way(t), OthersStay(t),
           pc[t] = "child", cmd[t].op = "move", pc'[t] = "release", type' = type,
           Relinked(t)
    PROVE  Structure' /\ Grounded'
<1> DEFINE x == target[t]
           from == OrigParent(t)
           to == DestParent(t)
           old == EntryOf(cmd[t])
           new == DestName(cmd[t])
<1>1. \A d, i \in Inode, n \in EntryName :
          HasEntry(dir'[d], n, i) <=>
              \/ HasEntry(dir[d], n, i) /\ ~(d = from /\ n = old)
              \/ d = to /\ n = new /\ i = x
    BY DEF Relinked
<1>2. /\ x \in Inode /\ from \in Inode /\ to \in Inode /\ old \in EntryName /\ new \in EntryName
      /\ HasEntry(dir[from], old, x)
    BY ChildFacts, EntryNames
<1>3. /\ t \in unique[to] /\ to \in Held(t) /\ type[to] = "dir" /\ x \notin Held(t)
    BY ChildFacts, StandingHeld DEF Way, Ready
<1>4. x = target[t] /\ to = DestParent(t)
    OBVIOUS
<1> HIDE DEF x, from, to, old, new
<1>5. x # Root /\ type[x] # "none" /\ ~InTransit(x)
    BY <1>2 DEF Structure, EntriesFit
<1>6. \A d \in Inode, n \in EntryName : HasEntry(dir[d], n, x) => d = from /\ n = old
    BY <1>2 DEF Structure, NamesOnce
<1>7. \A i : InTransit(i)' <=> InTransit(i)
    <2> SUFFICES ASSUME NEW i
                 PROVE  InTransit(i)' <=> InTransit(i)
        OBVIOUS
    <2>1. InTransit(i) <=> \E u \in Thread \ {t} : target[u] = i /\ pc[u] \in Transit
        BY DEF InTransit, Transit
    <2>2. InTransit(i)' <=> \E u \in Thread \ {t} : target[u] = i /\ pc[u] \in Transit
        BY TransitStep DEF Transit
    <2> QED
        BY <2>1, <2>2
<1>8. EntriesFit'
    BY <1>1, <1>3, <1>5, <1>7 DEF Structure, EntriesFit
<1>9. NamesOnce'
    <2> SUFFICES ASSUME NEW d \in Inode, NEW e \in Inode, NEW i \in Inode,
                        NEW m \in EntryName, NEW n \in EntryName,
                        HasEntry(dir'[d], m, i), HasEntry(dir'[e], n, i)
                 PROVE  d = e /\ m = n
        BY DEF NamesOnce
    <2>1. CASE i = x
        BY <1>1, <1>6, <2>1
    <2>2. CASE i # x
        <3>1. HasEntry(dir[d], m, i) /\ HasEntry(dir[e], n, i)
            BY <1>1, <2>2
        <3> QED
            BY <3>1 DEF Structure, NamesOnce
    <2> QED
        BY <2>1, <2>2
<1>10. AllNamed'
    <2> SUFFICES ASSUME NEW i \in Inode \ {Root}, type'[i] # "none", ~InTransit(i)'
                 PROVE  \E d \in Inode, n \in EntryName : HasEntry(dir'[d], n, i)
        BY DEF AllNamed
    <2>1. CASE i = x
        BY <1>1, <1>2, <2>1
    <2>2. CASE i # x
        <3>1. PICK d \in Inode, n \in EntryName : HasEntry(dir[d], n, i)
            BY <1>7 DEF Structure, AllNamed
        <3>2. ~(d = from /\ n = old)
            BY <1>2, <2>2, <3>1 DEF HasEntry
        <3> QED
            BY <1>1, <3>1, <3>2
    <2> QED
        BY <2>1, <2>2
<1>11. TransitBare'
    <2> SUFFICES ASSUME NEW u \in Thread, pc'[u] \in Transit
                 PROVE  /\ target'[u] # Root /\ type'[target'[u]] # "none"
                        /\ \A n \in EntryName, i \in Inode : ~HasEntry(dir'[target'[u]], n, i)
        BY DEF TransitBare, Transit
    <2>1. u # t
        BY DEF Transit
    <2>2. pc[u] \in Transit /\ target'[u] = target[u] /\ target[u] \in Inode
        BY <2>1, TransitHeld DEF OthersStay
    <2>3. target[u] # to
        BY <1>2, <1>3, <2>1, <2>2, TransitApart DEF Holders
    <2>4. /\ target[u] # Root /\ type[target[u]] # "none"
          /\ \A n \in EntryName, i \in Inode : ~HasEntry(dir[target[u]], n, i)
        BY <2>2 DEF Structure, TransitBare, Transit
    <2> QED
        BY <1>1, <2>2, <2>3, <2>4
<1>12. Grounded'
    <2> SUFFICES ASSUME NEW S \in SUBSET Inode,
                        \A i \in S : \E d \in S, n \in EntryName : HasEntry(dir'[d], n, i)
                 PROVE  S = {}
        BY DEF Grounded
    <2>1. CASE x \notin S
        <3>1. \A i \in S : \E d \in S, n \in EntryName : HasEntry(dir[d], n, i)
            BY <1>1, <2>1
        <3> QED
            BY <3>1 DEF Grounded
    <2>2. CASE x \in S
        <3>1. to \in S
            <4>1. PICK d \in S, n \in EntryName : HasEntry(dir'[d], n, x)
                BY <2>2
            <4> QED
                BY <1>1, <1>2, <1>6, <4>1
        <3>2. \A i \in S \cap Held(t) : \E d \in S \cap Held(t), n \in EntryName : HasEntry(dir[d], n, i)
            <4> SUFFICES ASSUME NEW i \in S \cap Held(t)
                         PROVE  \E d \in S \cap Held(t), n \in EntryName : HasEntry(dir[d], n, i)
                OBVIOUS
            <4>1. PICK d \in S, n \in EntryName : HasEntry(dir'[d], n, i)
                OBVIOUS
            <4>2. i # x
                BY <1>3
            <4>3. HasEntry(dir[d], n, i)
                BY <1>1, <4>1, <4>2
            <4>4. i # Root
                BY <4>3 DEF Structure, EntriesFit
            <4>5. PICK e \in Held(t), m \in EntryName : HasEntry(dir[e], m, i)
                BY <4>4, HeldClosed DEF Walking
            <4>6. e = d
                <5>1. e \in Inode
                    BY DEF Held
                <5> QED
                    BY <4>3, <4>5, <5>1 DEF Structure, NamesOnce
            <4> QED
                BY <4>3, <4>5, <4>6
        <3>3. S \cap Held(t) = {}
            BY <3>2 DEF Grounded
        <3> QED
            BY <1>3, <3>1, <3>3
    <2> QED
        BY <2>1, <2>2
<1> QED
    BY <1>8, <1>9, <1>10, <1>11, <1>12 DEF Structure

\* tfs_fs_move within one directory.
LEMMA RenameChildLinks ==
    ASSUME IInv, NEW t \in Thread, RenameChild(t)
    PROVE  /\ Relinked(t) /\ type' = type
           /\ pc[t] = "child" /\ cmd[t].op = "move" /\ pc'[t] = "release"
           /\ \A i : HasEntry(dir[DestParent(t)], DestName(cmd[t]), i) => i = target[t]
<1> DEFINE x == target[t]
           p == Cur(t)
           old == EntryOf(cmd[t])
           new == DestName(cmd[t])
<1>1. /\ pc[t] = "child" /\ cmd[t].op = "move" /\ Legs(cmd[t]) = <<>>
      /\ pc' = [pc EXCEPT ![t] = "release"] /\ type' = type
      /\ dir' = [dir EXCEPT ![p] = RenameEntry(dir[p], old, new)]
      /\ new \notin Names(dir[p]) \ {old}
    BY DEF RenameChild, Renames, Finish, At, RenameRefused
<1>2. TableTypeOK /\ ThreadTypeOK
    BY StepFacts DEF Step, Work
<1>3. /\ x \in Inode /\ p \in Inode /\ old \in EntryName /\ new \in EntryName
      /\ HasEntry(dir[p], old, x) /\ p = DestParent(t)
    BY <1>1, ChildFacts, ChildInCur, EntryNames
<1>4. pc'[t] = "release"
    BY <1>1, <1>2 DEF ThreadTypeOK
<1>5. \A d, i \in Inode, n \in EntryName :
         HasEntry(dir'[d], n, i) <=>
             \/ HasEntry(dir[d], n, i) /\ ~(d = p /\ n = old)
             \/ d = p /\ n = new /\ i = x
    <2> SUFFICES ASSUME NEW d \in Inode, NEW i \in Inode, NEW n \in EntryName
                 PROVE  HasEntry(dir'[d], n, i) <=>
                           \/ HasEntry(dir[d], n, i) /\ ~(d = p /\ n = old)
                           \/ d = p /\ n = new /\ i = x
        OBVIOUS
    <2>1. dir'[d] = (IF d = p THEN RenameEntry(dir[p], old, new) ELSE dir[d]) /\ dir[p] \in Dir
        BY <1>1, <1>2, <1>3 DEF TableTypeOK
    <2>2. HasEntry(RenameEntry(dir[p], old, new), n, i) <=>
             \/ n = new /\ i = dir[p].entry[old]
             \/ n # new /\ n # old /\ HasEntry(dir[p], n, i)
        BY <2>1, RenameEntryHas
    <2>3. dir[p].entry[old] = x
        BY <1>3 DEF HasEntry
    <2>4. n # old /\ HasEntry(dir[p], n, i) => n # new
        BY <1>1 DEF HasEntry
    <2> QED
        BY <2>1, <2>2, <2>3, <2>4
<1>6. Relinked(t)
    BY <1>1, <1>5, ChildInCur DEF Relinked
<1>7. \A i : HasEntry(dir[p], new, i) => i = x
    BY <1>1, <1>3 DEF HasEntry
<1> QED
    BY <1>1, <1>3, <1>4, <1>6, <1>7

\* tfs_fs_move between two directories.
LEMMA MoveChildLinks ==
    ASSUME IInv, NEW t \in Thread, MoveChild(t)
    PROVE  /\ Relinked(t) /\ type' = type
           /\ pc[t] = "child" /\ cmd[t].op = "move" /\ pc'[t] = "release"
           /\ \A i : ~HasEntry(dir[DestParent(t)], DestName(cmd[t]), i)
           /\ DestName(cmd[t]) # NoName
<1> DEFINE x == target[t]
           from == OrigParent(t)
           to == DestParent(t)
           old == EntryOf(cmd[t])
           new == DestName(cmd[t])
           added == [dir EXCEPT ![to] = AddEntry(dir[to], new, x)]
<1>1. /\ pc[t] = "child" /\ cmd[t].op = "move"
      /\ pc' = [pc EXCEPT ![t] = "release"] /\ type' = type
      /\ dir' = [added EXCEPT ![from] = RemoveEntry(added[from], old)]
      /\ new \notin Names(dir[to]) /\ new # NoName
    BY DEF MoveChild, Transfers, Finish, At, AddRefused, Transferred
<1>2. TableTypeOK /\ ThreadTypeOK
    BY StepFacts DEF Step, Work
<1>3. /\ x \in Inode /\ from \in Inode /\ to \in Inode
      /\ old \in EntryName /\ new \in EntryName /\ HasEntry(dir[from], old, x)
    BY <1>1, ChildFacts, EntryNames
<1>4. pc'[t] = "release"
    BY <1>1, <1>2 DEF ThreadTypeOK
<1>5. \A d \in Inode : added[d] \in Dir /\ added[d] = IF d = to THEN AddEntry(dir[to], new, x) ELSE dir[d]
    BY <1>2, <1>3, AddEntryIsDir DEF TableTypeOK
<1>6. \A d \in Inode : dir'[d] = IF d = from THEN RemoveEntry(added[from], old) ELSE added[d]
    BY <1>1, <1>2 DEF TableTypeOK
<1> HIDE DEF added
<1>7. \A d, i \in Inode, n \in EntryName :
         HasEntry(dir'[d], n, i) <=>
             \/ HasEntry(dir[d], n, i) /\ ~(d = from /\ n = old)
             \/ d = to /\ n = new /\ i = x
    <2> SUFFICES ASSUME NEW d \in Inode, NEW i \in Inode, NEW n \in EntryName
                 PROVE  HasEntry(dir'[d], n, i) <=>
                           \/ HasEntry(dir[d], n, i) /\ ~(d = from /\ n = old)
                           \/ d = to /\ n = new /\ i = x
        OBVIOUS
    <2>1. HasEntry(added[d], n, i) <=>
              HasEntry(dir[d], n, i) \/ (d = to /\ n = new /\ i = x)
        <3>1. HasEntry(AddEntry(dir[to], new, x), n, i) <=>
                 (n = new /\ i = x) \/ (n # new /\ HasEntry(dir[to], n, i))
            BY AddEntryHas
        <3>2. ~HasEntry(dir[to], new, i)
            BY <1>1 DEF HasEntry
        <3> QED
            BY <1>5, <3>1, <3>2
    <2>2. HasEntry(RemoveEntry(added[from], old), n, i) <=> n # old /\ HasEntry(added[from], n, i)
        BY <1>3, <1>5, RemoveEntryHas
    <2>3. HasEntry(dir'[d], n, i) <=> HasEntry(added[d], n, i) /\ ~(d = from /\ n = old)
        BY <1>6, <2>2
    <2>4. ~(to = from /\ new = old)
        BY <1>1, <1>3 DEF HasEntry
    <2> QED
        BY <2>1, <2>3, <2>4
<1>8. Relinked(t)
    BY <1>7 DEF Relinked
<1>9. \A i : ~HasEntry(dir[to], new, i)
    BY <1>1 DEF HasEntry
<1> QED
    BY <1>1, <1>4, <1>8, <1>9

\* Both keep the tree.
LEMMA RelinkingStructure ==
    ASSUME IInv, Structure, Grounded, NEW t \in Thread, Way(t), Relinking(t)
    PROVE  Structure' /\ Grounded'
<1>1. OthersStay(t)
    BY StepFacts DEF Relinking, Step, Work
<1> QED
    BY <1>1, RenameChildLinks, MoveChildLinks, RelinkedStructure DEF Relinking

LEMMA StepStructure ==
    ASSUME IInv, Structure, Grounded, NEW t \in Thread, Way(t), Step(t)
    PROVE  Structure' /\ Grounded'
<1>1. CASE Growing(t)
    BY <1>1, TakeSlotStructure, CreateEntryStructure DEF Growing, Way
<1>2. CASE Shrinking(t)
    BY <1>2, RemoveChildStructure, FreeInodeStructure DEF Shrinking
<1>3. CASE Relinking(t)
    BY <1>3, RelinkingStructure
<1>4. CASE ~Growing(t) /\ ~Shrinking(t) /\ ~Relinking(t)
    BY <1>4, QuietSteps, StructureSame, StepFacts
<1> QED
    BY <1>1, <1>2, <1>3, <1>4

-----------------------------------------------------------------------------
\* The way of a thread, under the steps of all.

\* Nothing that a thread has locked changes.
HeldSame(t) == \A i \in Held(t) : dir'[i] = dir[i] /\ type'[i] = type[i]

\* Then its way stays, whatever else it does.
LEMMA OnPathStays ==
    ASSUME IInv, NEW t \in Thread, Placed(t), OnPath(t), HeldSame(t),
           cmd'[t] = cmd[t], locked'[t] = locked[t], pc[t] \in Walking
    PROVE  OnPath(t)'
<1>1. TableTypeOK /\ ThreadTypeOK /\ Part(t)
    BY IInvParts
<1>2. \A s \in Stage : \A k \in 1 .. Len(locked[t][s]) : locked[t][s][k] \in Held(t)
    <2> SUFFICES ASSUME NEW s \in Stage, NEW k \in 1 .. Len(locked[t][s])
                 PROVE  locked[t][s][k] \in Held(t)
        OBVIOUS
    <2>1. locked[t][s] \in Seq(Inode)
        BY <1>1 DEF ThreadTypeOK
    <2> QED
        BY <2>1, ElementOfSeq DEF Held
<1>3. \A d, i \in Held(t) : \A n :
          Links(d, n, i) => n \in Names(dir'[d]) /\ dir'[d].entry[n] = i /\ type'[i] # "none"
    BY DEF Links, HeldSame
<1>4. \A s \in Stage : s # "common" /\ locked[t][s] # <<>> =>
          locked[t]["common"] # <<>> /\ Last(locked[t]["common"]) \in Held(t)
    <2> SUFFICES ASSUME NEW s \in Stage, s # "common", locked[t][s] # <<>>
                 PROVE  locked[t]["common"] # <<>> /\ Last(locked[t]["common"]) \in Held(t)
        OBVIOUS
    <2>1. stage[t] # "common"
        BY DEF Placed
    <2>2. locked[t]["common"] # <<>>
        BY <1>1, <2>1 DEF Part, Walked, Reaches
    <2> QED
        BY <2>2, LastHeld DEF Stage
<1> SUFFICES ASSUME NEW s \in Stage
             PROVE  LET chain == locked'[t][s]
                        comps == Stretch(cmd'[t], s)
                    IN  /\ s = "common" =>
                              /\ chain # <<>> => chain[1] = Root
                              /\ \A k \in 1 .. Len(chain) - 1 :
                                    /\ comps[k] \in Names(dir'[chain[k]])
                                    /\ dir'[chain[k]].entry[comps[k]] = chain[k + 1]
                                    /\ type'[chain[k + 1]] # "none"
                        /\ s # "common" =>
                              \A k \in 1 .. Len(chain) :
                                    LET d == IF k = 1 THEN Last(locked'[t]["common"]) ELSE chain[k - 1]
                                    IN  /\ comps[k] \in Names(dir'[d])
                                        /\ dir'[d].entry[comps[k]] = chain[k]
                                        /\ type'[chain[k]] # "none"
    BY DEF OnPath, Links
<1> DEFINE chain == locked[t][s]
           comps == Stretch(cmd[t], s)
<1>5. Len(chain) \in Nat /\ (chain = <<>> => Len(chain) = 0)
    <2>1. chain \in Seq(Inode)
        BY <1>1 DEF ThreadTypeOK
    <2> QED
        BY <2>1, LenProperties
<1>6. CASE s = "common"
    <2>1. chain # <<>> => chain[1] = Root
        BY <1>6 DEF OnPath
    <2>2. ASSUME NEW k \in 1 .. Len(chain) - 1
          PROVE  /\ comps[k] \in Names(dir'[chain[k]])
                 /\ dir'[chain[k]].entry[comps[k]] = chain[k + 1]
                 /\ type'[chain[k + 1]] # "none"
        <3>1. Links(chain[k], comps[k], chain[k + 1])
            BY <1>6, <2>2 DEF OnPath
        <3>2. k \in 1 .. Len(chain) /\ k + 1 \in 1 .. Len(chain)
            BY <1>5
        <3> QED
            BY <1>2, <1>3, <3>1, <3>2
    <2> QED
        BY <1>6, <2>1, <2>2
<1>7. CASE s # "common"
    <2> SUFFICES ASSUME NEW k \in 1 .. Len(chain),
                        NEW d, d = IF k = 1 THEN Last(locked[t]["common"]) ELSE chain[k - 1]
                 PROVE  /\ comps[k] \in Names(dir'[d])
                        /\ dir'[d].entry[comps[k]] = chain[k]
                        /\ type'[chain[k]] # "none"
        BY <1>7
    <2>1. Links(d, comps[k], chain[k])
        BY <1>7 DEF OnPath
    <2>2. k # 1 => k - 1 \in 1 .. Len(chain)
        BY <1>5
    <2>3. chain # <<>>
        BY <1>5
    <2>4. d \in Held(t)
        BY <1>2, <1>4, <1>7, <2>2, <2>3
    <2> QED
        BY <1>2, <1>3, <2>1, <2>4
<1> QED
    BY <1>6, <1>7

\* An entry of a directory that does not change leads to an inode in use.
LEMMA LinksStay ==
    ASSUME IInv, Structure', NEW d \in Inode, dir'[d] = dir[d], NEW n, NEW i, Links(d, n, i)
    PROVE  n \in Names(dir'[d]) /\ dir'[d].entry[n] = i /\ type'[i] # "none"
<1>1. HasEntry(dir[d], n, i) /\ HasEntry(dir'[d], n, i)
    BY DEF Links, HasEntry
<1>2. n \in EntryName /\ i \in Inode
    BY <1>1, IInvParts, HasTypes
<1> QED
    BY <1>1, <1>2 DEF Structure, EntriesFit, HasEntry

\* A thread past its first lock has the root.
LEMMA HoldsRoot ==
    ASSUME IInv, NEW t \in Thread, Way(t), pc[t] \in Walking, locked[t]["common"] # <<>>
    PROVE  t \in Holders(Root)
<1>1. "common" \in Stage /\ locked[t]["common"] \in Seq(Inode)
    BY DEF IInv, TypeOK, Stage
<1>2. Len(locked[t]["common"]) \in Nat /\ 1 \in 1 .. Len(locked[t]["common"])
    BY <1>1, EmptySeq, LenProperties
<1>3. locked[t]["common"][1] = Root
    BY <1>1 DEF Way, OnPath
<1> QED
    BY <1>1, <1>2, <1>3 DEF IInv, LocksOwned, Owned

\* A print has it alone.
LEMMA PrintHasRoot ==
    ASSUME IInv, NEW t \in Thread, Way(t), pc[t] = "print"
    PROVE  t \in unique[Root]
<1>1. ThreadTypeOK /\ Part(t) /\ cmd[t].op = "print"
    BY IInvParts DEF Way, Ready
<1>2. stage[t] = "common" /\ Reaches(t, "common")
    BY <1>1 DEF Part, Walked, Walking
<1>3. t \in unique[Last(locked[t]["common"])] /\ locked[t]["common"] # <<>>
    BY <1>1, <1>2 DEF Reaches, LastAccess
<1>4. Stretch(cmd[t], "common") = <<>> /\ rest[t] = <<>> /\ Len(<<>>) = 0
    BY <1>1, <1>2 DEF Stretch, Way, Placed, Walking
<1>5. Len(locked[t]["common"]) = 1
    <2>1. Len(Stretch(cmd[t], stage[t])) = 0 /\ Len(rest[t]) = 0 /\ pc[t] # "lock"
        BY <1>2, <1>4
    <2>2. Len(locked[t][stage[t]]) = (Len(Stretch(cmd[t], stage[t])) - Len(rest[t]))
                                        + (IF stage[t] = "common" THEN 1 ELSE 0)
                                        - (IF pc[t] = "lock" THEN 1 ELSE 0)
        BY DEF Way, Placed, Walking
    <2> QED
        BY <1>2, <2>1, <2>2
<1>6. locked[t]["common"][1] = Root
    BY <1>3 DEF Way, OnPath, Walking, Stage
<1> QED
    BY <1>3, <1>5, <1>6 DEF Last

\* So no other thread changes a directory, but one that frees an inode.
LEMMA PrintAlone ==
    ASSUME IInv, NEW t \in Thread, NEW u \in Thread \ {t}, Way(t), Way(u), Step(t), pc[u] = "print"
    PROVE  FreeInode(t) \/ (dir' = dir /\ type' = type)
<1>1. ~(pc[t] \in Walking \ {"lock"})
    <2> SUFFICES ASSUME pc[t] \in Walking \ {"lock"} PROVE FALSE
        OBVIOUS
    <2>1. t \in Holders(Root)
        BY IInvParts, Standing, HoldsRoot
    <2>2. u \in unique[Root] /\ Root \in Inode
        BY PrintHasRoot, BaseAssumption DEF Root, Inode
    <2> QED
        BY <2>1, <2>2 DEF IInv, LocksOwned, WriterAlone, Holders
<1>2. ~Growing(t) /\ ~RemoveChild(t) /\ ~Relinking(t)
    BY <1>1 DEF Growing, Relinking, TakeSlot, CreateEntry, RemoveChild, RenameChild, Renames, MoveChild,
        Transfers, At, Walking
<1>3. CASE FreeInode(t)
    BY <1>3
<1>4. CASE ~FreeInode(t)
    BY <1>2, <1>4, QuietSteps DEF Shrinking
<1> QED
    BY <1>3, <1>4

\* What others have to print stays.
LEMMA OthersToPrint ==
    ASSUME IInv, NEW t \in Thread, Step(t), NEW u \in Thread \ {t}
    PROVE  toPrint'[u] = toPrint[u]
<1>1. toPrint \in [Thread -> SUBSET Inode]
    BY DEF IInv, TypeOK
<1>2. CASE PrintStart(t) \/ PrintVisit(t)
    BY <1>1, <1>2 DEF PrintStart, PrintVisit
<1>3. CASE Receive(t) \/ ReceiveRejected(t) \/ Lock(t) \/ LockErrno(t) \/ TableFull(t)
    BY <1>3 DEF Receive, ReceiveRejected, Lock, LockErrno, TableFull, Abort, threadVars
<1>4. CASE Walk(t) \/ CreateScan(t) \/ SkipSlot(t) \/ TakeSlot(t) \/ FindChild(t) \/ LockChild(t)
    BY <1>4 DEF Walk, CreateScan, SkipSlot, TakeSlot, FindChild, LockChild, Goto
<1>5. CASE WalkFails(t) \/ Search(t) \/ ParentNotDir(t) \/ MoveSelf(t) \/ CommonAncestorNotDir(t)
    BY <1>5 DEF WalkFails, Search, ParentNotDir, MoveSelf, CommonAncestorNotDir, Fail, Finish
<1>6. CASE CreateEntry(t) \/ CreateFails(t) \/ MoveParentNotDir(t) \/ ChildMissing(t) \/ PrintDone(t)
    BY <1>6 DEF CreateEntry, CreateFails, MoveParentNotDir, ChildMissing, PrintDone, Fail, Finish
<1>7. CASE RemoveNonEmpty(t) \/ RemoveChild(t) \/ RenameChild(t) \/ RenameFails(t)
    BY <1>7 DEF RemoveNonEmpty, RemoveChild, RenameChild, RenameFails, Finish
<1>8. CASE MoveChild(t) \/ MoveFails(t)
    BY <1>8 DEF MoveChild, MoveFails, Fail, Finish
<1>9. CASE FreeInode(t) \/ MoveLeg(t) \/ Unlock(t) \/ Reply(t)
    BY <1>9 DEF FreeInode, MoveLeg, Unlock, Reply
<1> QED
    BY <1>2, <1>3, <1>4, <1>5, <1>6, <1>7, <1>8, <1>9 DEF Step, Work

\* What some directory names.
LEMMA LinkedHas ==
    ASSUME IInv, NEW i \in Inode
    PROVE  i \in Linked <=> \E d \in Inode, n \in EntryName : HasEntry(dir[d], n, i)
<1>1. \A d \in Inode : Names(dir[d]) \subseteq EntryName
    BY EntryIsInode DEF IInv, TypeOK, TableTypeOK
<1>2. i \in Linked <=> \E d \in Inode : i \in Children(dir[d])
    BY DEF Linked
<1>3. \A d \in Inode : i \in Children(dir[d]) <=> \E n \in Names(dir[d]) : dir[d].entry[n] = i
    BY DEF Children
<1> QED
    BY <1>1, <1>2, <1>3 DEF HasEntry

\* The same after a step.
LEMMA LinkedHasNext ==
    ASSUME IInv', NEW i \in Inode
    PROVE  i \in Linked' <=> \E d \in Inode, n \in EntryName : HasEntry(dir'[d], n, i)
<1>1. \A d \in Inode : Names(dir'[d]) \subseteq EntryName
    BY EntryIsInode DEF IInv, TypeOK, TableTypeOK
<1>2. i \in Linked' <=> \E d \in Inode : i \in Children(dir'[d])
    BY DEF Linked
<1>3. \A d \in Inode : i \in Children(dir'[d]) <=> \E n \in Names(dir'[d]) : dir'[d].entry[n] = i
    BY DEF Children
<1> QED
    BY <1>1, <1>2, <1>3 DEF HasEntry

\* A step leaves every other thread on its way.
LEMMA OthersWay ==
    ASSUME IInv, Structure, Grounded, NEW t \in Thread, NEW u \in Thread \ {t},
           Way(t), Way(u), Step(t)
    PROVE  Way(u)'
<1>1. /\ IInv' /\ Structure' /\ TableTypeOK /\ ThreadTypeOK /\ Part(u)
      /\ OthersStay(t)
    BY StepFacts, StepStructure
<1>2. /\ cmd'[u] = cmd[u] /\ pc'[u] = pc[u] /\ stage'[u] = stage[u]
      /\ rest'[u] = rest[u] /\ target'[u] = target[u] /\ locked'[u] = locked[u]
    BY <1>1 DEF OthersStay
<1>3. pc[u] \in Walking => HeldSame(u)
    <2> SUFFICES ASSUME pc[u] \in Walking, NEW i \in Held(u)
                 PROVE  dir'[i] = dir[i] /\ type'[i] = type[i]
        BY DEF HeldSame
    <2>1. i \in Inode /\ u \in Holders(i)
        BY HeldByThread DEF Held
    <2> QED
        BY <2>1, OthersHold
<1>4. Placed(u)'
    BY <1>2 DEF Way, Placed
<1>5. OnPath(u)'
    <2>1. CASE pc[u] \in Walking
        BY <1>2, <1>3, <2>1, OnPathStays DEF Way
    <2>2. CASE pc[u] \notin Walking
        BY <1>2, <2>2 DEF OnPath
    <2> QED
        BY <2>1, <2>2
<1>6. Cur(u)' = Cur(u) /\ OrigParent(u)' = OrigParent(u) /\ DestParent(u)' = DestParent(u)
    BY <1>2 DEF Cur, OrigParent, DestParent
<1>7. pc[u] \in Walking /\ locked[u]["common"] # <<>> =>
          /\ Cur(u) \in Held(u) /\ OrigParent(u) \in Held(u) /\ DestParent(u) \in Held(u)
          /\ Cur(u) \in Inode /\ OrigParent(u) \in Inode /\ DestParent(u) \in Inode
    BY StandingHeld DEF Held
<1>8. pc[u] \in Walking \ {"lock"} => locked[u]["common"] # <<>>
    BY <1>1, Standing
<1>9. AtTarget(u)'
    <2>1. CASE pc[u] = "idle"
        BY <1>2, <2>1 DEF Way, AtTarget
    <2>2. CASE pc[u] = "lock" /\ locked[u]["common"] = <<>>
        BY <1>2, <2>2 DEF Way, AtTarget
    <2>3. CASE pc[u] = "lock" /\ locked[u]["common"] # <<>>
        <3>1. PICK n : n = Stretch(cmd[u], stage[u])[Len(Stretch(cmd[u], stage[u])) - Len(rest[u])]
            OBVIOUS
        <3>2. Links(Cur(u), n, target[u])
            BY <2>3, <3>1 DEF Way, AtTarget
        <3>3. Cur(u) \in Inode /\ dir'[Cur(u)] = dir[Cur(u)]
            BY <1>3, <1>7, <2>3 DEF HeldSame, Walking
        <3>4. /\ n \in Names(dir'[Cur(u)]) /\ dir'[Cur(u)].entry[n] = target[u]
              /\ type'[target[u]] # "none"
            BY <1>1, <3>2, <3>3, LinksStay
        <3> QED
            BY <1>2, <1>6, <2>3, <3>1, <3>4 DEF AtTarget, Links
    <2>4. CASE pc[u] \in {"lockchild", "child"}
        <3> DEFINE n == EntryOf(cmd[u])
        <3>1. Links(OrigParent(u), n, target[u])
            BY <2>4 DEF Way, AtTarget
        <3>2. OrigParent(u) \in Inode /\ dir'[OrigParent(u)] = dir[OrigParent(u)]
            BY <1>3, <1>7, <1>8, <2>4 DEF HeldSame, Walking
        <3>3. /\ n \in Names(dir'[OrigParent(u)]) /\ dir'[OrigParent(u)].entry[n] = target[u]
              /\ type'[target[u]] # "none"
            BY <1>1, <3>1, <3>2, LinksStay
        <3> QED
            BY <1>2, <1>6, <2>4, <3>3 DEF AtTarget, Links
    <2>5. CASE pc[u] \notin {"idle", "lock", "lockchild", "child"}
        BY <1>2, <2>5 DEF AtTarget
    <2> QED
        BY <2>1, <2>2, <2>3, <2>4, <2>5
<1>10. Ready(u)'
    <2>1. pc[u] \in {"scan", "add"} => type'[Cur(u)] = "dir"
        BY <1>3, <1>7, <1>8 DEF Way, Ready, HeldSame, Walking
    <2>2. pc[u] \in {"lockchild", "child"} =>
              type'[OrigParent(u)] = "dir" /\ type'[DestParent(u)] = "dir"
        BY <1>3, <1>7, <1>8 DEF Way, Ready, HeldSame, Walking
    <2>3. pc[u] = "child" => target[u] \notin Held(u)
        BY DEF Way, Ready
    <2>4. Held(u)' = Held(u)
        BY <1>2 DEF Held
    <2>5. ASSUME pc[u] = "print"
          PROVE  cmd[u].op = "print" /\ toPrint'[u] \subseteq Linked' \cup {Root}
        <3>1. cmd[u].op = "print" /\ toPrint[u] \subseteq Linked \cup {Root} /\ toPrint[u] \subseteq Inode
            BY <1>1, <2>5 DEF Way, Ready, ThreadTypeOK
        <3>2. EntriesSame
            <4>1. CASE FreeInode(t)
                BY <4>1, FreeInodeStructure
            <4>2. CASE dir' = dir
                BY <4>2 DEF EntriesSame
            <4> QED
                BY <2>5, <4>1, <4>2, PrintAlone
        <3>3. \A i \in Inode : i \in Linked => i \in Linked'
            <4> SUFFICES ASSUME NEW i \in Inode, i \in Linked
                         PROVE  i \in Linked'
                OBVIOUS
            <4>1. PICK d \in Inode, n \in EntryName : HasEntry(dir[d], n, i)
                BY LinkedHas
            <4>2. HasEntry(dir'[d], n, i)
                BY <3>2, <4>1 DEF EntriesSame
            <4> QED
                BY <1>1, <4>2, LinkedHasNext
        <3> QED
            BY <3>1, <3>3, OthersToPrint
    <2> QED
        BY <1>2, <1>6, <2>1, <2>2, <2>3, <2>4, <2>5 DEF Ready
<1> QED
    BY <1>4, <1>5, <1>9, <1>10 DEF Way

\* A thread that has let go is on no way.
LEMMA WayEnds ==
    ASSUME NEW t \in Thread, pc'[t] \in {"release", "undo", "free", "idle"},
           pc'[t] = "idle" => target'[t] = Root
    PROVE  Way(t)'
BY DEF Way, Placed, OnPath, AtTarget, Ready, Walking

\* The steps that end in letting go.
LEMMA EndingWay ==
    ASSUME IInv, NEW t \in Thread,
           \/ ReceiveRejected(t) \/ WalkFails(t) \/ Search(t) \/ ParentNotDir(t)
           \/ CreateEntry(t) \/ CreateFails(t) \/ FreeInode(t) \/ MoveSelf(t)
           \/ CommonAncestorNotDir(t) \/ MoveParentNotDir(t) \/ ChildMissing(t)
           \/ RemoveNonEmpty(t) \/ RemoveChild(t) \/ RenameChild(t) \/ RenameFails(t)
           \/ MoveChild(t) \/ MoveFails(t) \/ PrintDone(t) \/ Unlock(t) \/ Reply(t)
    PROVE  Way(t)'
<1>1. pc \in [Thread -> Pc] /\ target \in [Thread -> 0 .. Capacity]
    BY DEF IInv, TypeOK
<1>2. CASE Reply(t)
    BY <1>1, <1>2, WayEnds DEF Reply
<1>3. CASE Unlock(t)
    BY <1>1, <1>3, WayEnds DEF Unlock, At
<1>4. CASE ReceiveRejected(t) \/ FreeInode(t)
    BY <1>1, <1>4, WayEnds DEF ReceiveRejected, FreeInode
<1>5. CASE \/ WalkFails(t) \/ Search(t) \/ ParentNotDir(t) \/ CreateEntry(t) \/ CreateFails(t)
           \/ MoveSelf(t) \/ CommonAncestorNotDir(t) \/ MoveParentNotDir(t) \/ ChildMissing(t)
    <2>1. pc'[t] \in {"release", "undo"}
        BY <1>1, <1>5 DEF WalkFails, Search, ParentNotDir, CreateEntry, CreateFails, MoveSelf,
            CommonAncestorNotDir, MoveParentNotDir, ChildMissing, Fail, Finish
    <2> QED
        BY <2>1, WayEnds
<1>6. CASE \/ RemoveNonEmpty(t) \/ RemoveChild(t) \/ RenameChild(t) \/ RenameFails(t)
           \/ MoveChild(t) \/ MoveFails(t) \/ PrintDone(t)
    <2>1. pc'[t] \in {"release", "free"}
        BY <1>1, <1>6 DEF RemoveNonEmpty, RemoveChild, RenameChild, RenameFails, MoveChild, MoveFails,
            PrintDone, Fail, Finish
    <2> QED
        BY <2>1, WayEnds
<1> QED
    BY <1>2, <1>3, <1>4, <1>5, <1>6

\* Nothing changes.
LEMMA WaySame ==
    ASSUME NEW t \in Thread, Way(t), UNCHANGED <<tableVars, threadVars>>
    PROVE  Way(t)'
<1>1. /\ type' = type /\ dir' = dir /\ cmd' = cmd /\ pc' = pc /\ stage' = stage /\ rest' = rest
      /\ target' = target /\ locked' = locked /\ toPrint' = toPrint
    BY DEF tableVars, threadVars
<1>2. Placed(t)'
    BY <1>1 DEF Way, Placed
<1>3. OnPath(t)'
    BY <1>1 DEF Way, OnPath, Links
<1>4. AtTarget(t)'
    BY <1>1 DEF Way, AtTarget, Links, Cur, OrigParent
<1>5. Ready(t)'
    BY <1>1 DEF Way, Ready, Cur, OrigParent, DestParent, Held, Linked
<1> QED
    BY <1>2, <1>3, <1>4, <1>5 DEF Way

\* A failed assertion.
LEMMA AbortWay ==
    ASSUME NEW t \in Thread, Way(t), LockErrno(t) \/ TableFull(t)
    PROVE  Way(t)'
BY WaySame DEF LockErrno, TableFull, Abort

\* A command begins at the root.
LEMMA ReceiveWay ==
    ASSUME IInv, NEW t \in Thread, Way(t), Receive(t)
    PROVE  Way(t)'
<1>1. ThreadTypeOK /\ ThreadTypeOK' /\ Part(t) /\ Part(t)'
    BY StepFacts DEF Step
<1>2. /\ pc[t] = "idle" /\ pc' = [pc EXCEPT ![t] = "lock"]
      /\ UNCHANGED <<tableVars, stage, target, locked, todo, toPrint, result, aborted>>
    BY DEF Receive, At
<1>3. PICK c \in Command : cmd' = [cmd EXCEPT ![t] = c]
                         /\ rest' = [rest EXCEPT ![t] = Stretch(c, "common")]
    BY DEF Receive
<1>4. /\ pc'[t] = "lock" /\ cmd'[t] = c /\ rest'[t] = Stretch(c, "common")
      /\ stage'[t] = "common" /\ target'[t] = Root /\ \A s \in Stage : locked'[t][s] = <<>>
    BY <1>1, <1>2, <1>3 DEF ThreadTypeOK, Part, Located, Way, AtTarget
<1>5. Len(rest'[t]) \in Nat /\ Len(<<>>) = 0
    <2>1. rest'[t] \in Seq(Name)
        BY <1>1 DEF ThreadTypeOK
    <2> QED
        BY <2>1, LenProperties
<1>6. Placed(t)'
    <2>1. Stretch(c, "common") = rest'[t] /\ Len(rest'[t]) - Len(rest'[t]) = 0
        BY <1>4, <1>5
    <2>2. \A k \in 1 .. Len(rest'[t]) : 0 + k = k
        BY <1>5
    <2>3. "common" \in Stage
        BY DEF Stage
    <2> QED
        BY <1>4, <1>5, <2>1, <2>2, <2>3 DEF Placed
<1>7. OnPath(t)'
    <2>1. \A k \in 1 .. Len(<<>>) : FALSE
        BY <1>5
    <2>2. \A k \in 1 .. Len(<<>>) - 1 : FALSE
        BY <1>5
    <2> QED
        BY <1>4, <2>1, <2>2 DEF OnPath
<1>8. AtTarget(t)'
    <2>1. "common" \in Stage
        BY DEF Stage
    <2> QED
        BY <1>4, <2>1 DEF AtTarget
<1>9. Ready(t)'
    BY <1>4 DEF Ready
<1> QED
    BY <1>6, <1>7, <1>8, <1>9 DEF Way

\* One component further.
LEMMA WalkWay ==
    ASSUME IInv, Structure, NEW t \in Thread, Way(t), Walk(t)
    PROVE  Way(t)'
<1> DEFINE comps == Stretch(cmd[t], stage[t])
<1>1. TableTypeOK /\ ThreadTypeOK /\ ThreadTypeOK' /\ Part(t)
    BY StepFacts DEF Step, Work
<1>2. /\ pc[t] = "walk" /\ CanWalk(t) /\ Goto(t, "lock", dir[Cur(t)].entry[Head(rest[t])])
      /\ rest' = [rest EXCEPT ![t] = Tail(rest[t])] /\ type' = type /\ dir' = dir
    BY DEF Walk, At, tableVars
<1>3. /\ pc'[t] = "lock" /\ target'[t] = dir[Cur(t)].entry[Head(rest[t])] /\ rest'[t] = Tail(rest[t])
      /\ cmd' = cmd /\ stage' = stage /\ locked' = locked
    BY <1>1, <1>2 DEF Goto, ThreadTypeOK
<1>4. /\ rest[t] # <<>> /\ rest[t] \in Seq(Name) /\ cmd[t] \in Command
      /\ locked[t]["common"] # <<>> /\ Cur(t) \in Inode
    BY <1>1, <1>2, Standing DEF Part, Located, ThreadTypeOK, Walking
<1>5. /\ Len(rest[t]) \in Nat /\ Len(rest[t]) >= 1 /\ 1 \in 1 .. Len(rest[t])
      /\ Len(Tail(rest[t])) = Len(rest[t]) - 1
      /\ \A k \in 1 .. Len(Tail(rest[t])) : Tail(rest[t])[k] = rest[t][k + 1]
      /\ Head(rest[t]) = rest[t][1]
    BY <1>4, EmptySeq, LenProperties, HeadTailProperties
<1>6. Len(comps) \in Nat
    BY <1>1, <1>4, StretchIsPath, LenProperties DEF ThreadTypeOK
<1>7. /\ Len(comps) - Len(rest[t]) >= 0
      /\ \A k \in 1 .. Len(rest[t]) : rest[t][k] = comps[(Len(comps) - Len(rest[t])) + k]
      /\ Len(locked[t][stage[t]]) = (Len(comps) - Len(rest[t]))
                                        + (IF stage[t] = "common" THEN 1 ELSE 0) - 0
      /\ \A s \in Stage \ {"common", stage[t]} :
            stage[t] = "common" \/ s # Head(Legs(cmd[t])) => locked[t][s] = <<>>
    BY <1>2 DEF Way, Placed, Walking
<1> HIDE DEF comps
<1>8. /\ Len(comps) - Len(rest'[t]) = (Len(comps) - Len(rest[t])) + 1
      /\ Len(rest'[t]) \in Nat
    <2>1. Len(rest'[t]) = Len(rest[t]) - 1
        BY <1>3, <1>5
    <2>2. \A a, b, c \in Int : c = b - 1 /\ b >= 1 => a - c = (a - b) + 1 /\ c >= 0
        OBVIOUS
    <2>3. Len(comps) \in Int /\ Len(rest[t]) \in Int /\ Len(rest'[t]) \in Int
        BY <1>5, <1>6, <2>1
    <2> QED
        BY <1>5, <2>1, <2>2, <2>3
<1>9. Placed(t)'
    <2>1. PICK w \in Int : w = Len(comps) - Len(rest[t])
        <3>1. Len(comps) \in Nat /\ Len(rest[t]) \in Nat
            BY <1>5, <1>6
        <3>2. \A a, b \in Nat : a - b \in Int
            OBVIOUS
        <3> QED
            BY <3>1, <3>2
    <2>2. Len(comps) - Len(rest'[t]) = w + 1 /\ w >= 0
        BY <1>7, <1>8, <2>1
    <2>3. Len(comps) - Len(rest'[t]) >= 0
        <3>1. w + 1 >= 0
            BY <2>2
        <3> QED
            BY <2>2, <3>1
    <2>4. \A k \in 1 .. Len(rest'[t]) : rest'[t][k] = comps[(Len(comps) - Len(rest'[t])) + k]
        <3> SUFFICES ASSUME NEW k \in 1 .. Len(rest'[t])
                     PROVE  rest'[t][k] = comps[(Len(comps) - Len(rest'[t])) + k]
            OBVIOUS
        <3>1. rest'[t][k] = rest[t][k + 1] /\ k + 1 \in 1 .. Len(rest[t])
            BY <1>3, <1>5
        <3>2. rest[t][k + 1] = comps[w + (k + 1)]
            BY <1>7, <2>1, <3>1
        <3>3. w + (k + 1) = (w + 1) + k
            BY <1>8
        <3> QED
            BY <2>2, <3>1, <3>2, <3>3
    <2>5. Len(locked[t][stage[t]]) = (Len(comps) - Len(rest'[t]))
                                        + (IF stage[t] = "common" THEN 1 ELSE 0) - 1
        <3>1. Len(locked[t][stage[t]]) = w + (IF stage[t] = "common" THEN 1 ELSE 0) - 0
            BY <1>7, <2>1
        <3>2. w + (IF stage[t] = "common" THEN 1 ELSE 0) - 0
                  = (w + 1) + (IF stage[t] = "common" THEN 1 ELSE 0) - 1
            OBVIOUS
        <3> QED
            BY <2>2, <3>1, <3>2
    <2> QED
        BY <1>3, <1>7, <2>3, <2>4, <2>5 DEF Placed, comps
<1>10. OnPath(t)'
    BY <1>2, <1>3, OnPathStays DEF Way, HeldSame, Walking
<1>11. AtTarget(t)'
    <2>1. Head(rest[t]) = comps[Len(comps) - Len(rest'[t])]
        BY <1>5, <1>7, <1>8
    <2>2. Cur(t)' = Cur(t)
        BY <1>3 DEF Cur
    <2>3. Links(Cur(t), Head(rest[t]), target'[t])
        <3>1. Head(rest[t]) \in Names(dir[Cur(t)])
            BY <1>2 DEF CanWalk
        <3>2. HasEntry(dir[Cur(t)], Head(rest[t]), target'[t])
            BY <1>3, <3>1 DEF HasEntry
        <3>3. Head(rest[t]) \in EntryName /\ target'[t] \in Inode
            BY <1>1, <1>4, <3>2, HasTypes
        <3> QED
            BY <1>4, <3>2, <3>3 DEF Structure, EntriesFit, Links, HasEntry
    <2>4. PICK n : n = Head(rest[t])
        OBVIOUS
    <2>5. n = comps[Len(comps) - Len(rest'[t])] /\ Links(Cur(t), n, target'[t])
        BY <2>1, <2>3, <2>4
    <2> QED
        BY <1>2, <1>3, <1>4, <2>2, <2>5 DEF AtTarget, Links, comps
<1>12. Ready(t)'
    BY <1>3 DEF Ready
<1> QED
    BY <1>9, <1>10, <1>11, <1>12 DEF Way

\* The lock is granted: the way is one inode longer.
LEMMA LockWay ==
    ASSUME IInv, NEW t \in Thread, Way(t), Lock(t)
    PROVE  Way(t)'
<1> DEFINE s == stage[t]
           i == target[t]
           chain == locked[t][s]
           comps == Stretch(cmd[t], s)
<1>1. TableTypeOK /\ ThreadTypeOK /\ ThreadTypeOK' /\ Part(t)
    BY StepFacts DEF Step, Work
<1>2. /\ pc[t] = "lock" /\ type' = type /\ dir' = dir
      /\ locked' = [locked EXCEPT ![t][s] = Append(chain, i)]
      /\ pc' = [pc EXCEPT ![t] = IF rest[t] = <<>> THEN "found" ELSE "walk"]
      /\ cmd' = cmd /\ stage' = stage /\ rest' = rest
    BY DEF Lock, LockInode, At
<1>3. s \in Stage /\ chain \in Seq(Inode) /\ i \in Inode /\ "common" \in Stage
    BY <1>1, <1>2 DEF Part, Located, ThreadTypeOK, Stage
<1>4. /\ locked'[t][s] = Append(chain, i)
      /\ \A r \in Stage : r # s => locked'[t][r] = locked[t][r]
      /\ pc'[t] = IF rest[t] = <<>> THEN "found" ELSE "walk"
    BY <1>1, <1>2, <1>3 DEF ThreadTypeOK
<1>5. /\ Len(chain) \in Nat /\ Len(Append(chain, i)) = Len(chain) + 1
      /\ \A k \in 1 .. Len(chain) : Append(chain, i)[k] = chain[k]
      /\ Append(chain, i)[Len(chain) + 1] = i /\ Append(chain, i) # <<>>
      /\ (chain = <<>> => Len(chain) = 0) /\ (Len(chain) = 0 => chain = <<>>)
    BY <1>3, AppendProperties, LenProperties, EmptySeq
<1>6. Len(comps) \in Nat /\ Len(rest[t]) \in Nat
    <2>1. comps \in Seq(Name) /\ rest[t] \in Seq(Name)
        BY <1>1, <1>2, <1>3, StretchIsPath DEF ThreadTypeOK, Part, Located
    <2> QED
        BY <2>1, LenProperties
<1> HIDE DEF comps
<1>7. PICK w \in Int : w = Len(comps) - Len(rest[t])
    <2>1. \A a, b \in Nat : a - b \in Int
        OBVIOUS
    <2> QED
        BY <1>6, <2>1
<1>8. /\ w >= 0
      /\ \A k \in 1 .. Len(rest[t]) : rest[t][k] = comps[w + k]
      /\ Len(chain) = w + (IF s = "common" THEN 1 ELSE 0) - 1
      /\ \A r \in Stage \ {"common", s} :
            s = "common" \/ r # Head(Legs(cmd[t])) => locked[t][r] = <<>>
    BY <1>2, <1>7 DEF Way, Placed, Walking, comps
<1>9. Placed(t)'
    <2>1. Len(locked'[t][s]) = w + (IF s = "common" THEN 1 ELSE 0) - 0
        <3>1. PICK c \in {0, 1} : c = IF s = "common" THEN 1 ELSE 0
            OBVIOUS
        <3>2. Len(chain) = w + c - 1
            BY <1>8, <3>1
        <3>3. Len(chain) + 1 = w + c - 0
            BY <3>1, <3>2
        <3>4. Len(locked'[t][s]) = Len(chain) + 1
            BY <1>4, <1>5
        <3> QED
            BY <3>1, <3>3, <3>4
    <2>2. pc'[t] # "lock" /\ (pc'[t] \notin {"lock", "walk"} => rest[t] = <<>>)
        BY <1>4
    <2>3. \A r \in Stage \ {"common", s} :
            s = "common" \/ r # Head(Legs(cmd[t])) => locked'[t][r] = <<>>
        BY <1>4, <1>8
    <2> QED
        BY <1>2, <1>7, <1>8, <2>1, <2>2, <2>3 DEF Placed, comps
<1>10. ASSUME s = "common" PROVE OnPath(t)'
    <2>1. locked'[t][s][1] = Root
        <3>1. CASE chain = <<>>
            BY <1>2, <1>4, <1>5, <1>10, <3>1 DEF Way, AtTarget
        <3>2. CASE chain # <<>>
            <4>1. chain[1] = Root
                BY <1>2, <1>3, <1>10, <3>2 DEF Way, OnPath, Walking
            <4>2. 1 \in 1 .. Len(chain)
                BY <1>5, <3>2
            <4> QED
                BY <1>4, <1>5, <4>1, <4>2
        <3> QED
            BY <3>1, <3>2
    <2>2. ASSUME NEW k \in 1 .. Len(locked'[t][s]) - 1
          PROVE  Links(locked'[t][s][k], comps[k], locked'[t][s][k + 1])
        <3>1. k \in 1 .. Len(chain) /\ locked'[t][s][k] = chain[k] /\ chain # <<>>
            BY <1>4, <1>5
        <3>2. CASE k = Len(chain)
            <4>1. locked'[t][s][k + 1] = i
                BY <1>4, <1>5, <3>2
            <4>2. Cur(t) = chain[k]
                BY <3>1, <3>2 DEF Cur, Last
            <4>3. k = w
                BY <1>8, <1>10, <3>2
            <4>4. Links(Cur(t), comps[w], i)
                BY <1>2, <1>7, <1>10, <3>1 DEF Way, AtTarget, comps
            <4> QED
                BY <3>1, <4>1, <4>2, <4>3, <4>4
        <3>3. CASE k # Len(chain)
            <4>1. k \in 1 .. Len(chain) - 1 /\ k + 1 \in 1 .. Len(chain)
                BY <1>5, <3>1, <3>3
            <4>2. locked'[t][s][k + 1] = chain[k + 1]
                BY <1>4, <1>5, <4>1
            <4>3. Links(chain[k], comps[k], chain[k + 1])
                BY <1>2, <1>3, <1>10, <4>1 DEF Way, OnPath, Walking, comps
            <4> QED
                BY <3>1, <4>2, <4>3
        <3> QED
            BY <3>2, <3>3
    <2>3. \A r \in Stage : r # "common" => locked'[t][r] = <<>>
        BY <1>4, <1>8, <1>10
    <2>4. Len(<<>>) = 0 /\ \A k \in 1 .. 0 : FALSE
        OBVIOUS
    <2> SUFFICES ASSUME NEW r \in Stage
                 PROVE  LET ch == locked'[t][r]
                            cs == Stretch(cmd'[t], r)
                        IN  /\ r = "common" =>
                                  /\ ch # <<>> => ch[1] = Root
                                  /\ \A k \in 1 .. Len(ch) - 1 :
                                        /\ cs[k] \in Names(dir'[ch[k]])
                                        /\ dir'[ch[k]].entry[cs[k]] = ch[k + 1]
                                        /\ type'[ch[k + 1]] # "none"
                            /\ r # "common" =>
                                  \A k \in 1 .. Len(ch) :
                                        LET d == IF k = 1 THEN Last(locked'[t]["common"]) ELSE ch[k - 1]
                                        IN  /\ cs[k] \in Names(dir'[d])
                                            /\ dir'[d].entry[cs[k]] = ch[k]
                                            /\ type'[ch[k]] # "none"
        BY DEF OnPath, Links
    <2>5. CASE r = "common"
        BY <1>2, <1>10, <2>1, <2>2, <2>5 DEF Links, comps
    <2>6. CASE r # "common"
        BY <2>3, <2>4, <2>6
    <2> QED
        BY <2>5, <2>6
<1>11. ASSUME s # "common" PROVE OnPath(t)'
    <2> DEFINE From(r, k) == IF k = 1 THEN Last(locked[t]["common"]) ELSE locked[t][r][k - 1]
               FromNext(r, k) == IF k = 1 THEN Last(locked'[t]["common"]) ELSE locked'[t][r][k - 1]
    <2>1. locked'[t]["common"] = locked[t]["common"]
        BY <1>3, <1>4, <1>11
    <2>2. /\ locked[t]["common"] # <<>> => locked[t]["common"][1] = Root
          /\ \A k \in 1 .. Len(locked[t]["common"]) - 1 :
                Links(locked[t]["common"][k], Stretch(cmd[t], "common")[k], locked[t]["common"][k + 1])
        BY <1>2, <1>3 DEF Way, OnPath, Walking
    <2>3. \A r \in Stage : r # "common" =>
              \A k \in 1 .. Len(locked[t][r]) : Links(From(r, k), Stretch(cmd[t], r)[k], locked[t][r][k])
        BY <1>2 DEF Way, OnPath, Walking
    <2>4. ASSUME NEW r \in Stage, r # "common", r # s
          PROVE  \A k \in 1 .. Len(locked'[t][r]) :
                     Links(FromNext(r, k), Stretch(cmd[t], r)[k], locked'[t][r][k])
        <3>1. locked'[t][r] = locked[t][r]
            BY <1>4, <2>4
        <3> QED
            BY <2>1, <2>3, <2>4, <3>1
    <2>5. ASSUME NEW k \in 1 .. Len(locked'[t][s])
          PROVE  Links(FromNext(s, k), Stretch(cmd[t], s)[k], locked'[t][s][k])
        <3>1. CASE k \in 1 .. Len(chain)
            <4>1. locked'[t][s][k] = chain[k] /\ FromNext(s, k) = From(s, k)
                BY <1>4, <1>5, <2>1, <3>1
            <4>2. Links(From(s, k), Stretch(cmd[t], s)[k], chain[k])
                BY <1>3, <1>11, <2>3, <3>1
            <4> QED
                BY <4>1, <4>2
        <3>2. CASE k = Len(chain) + 1
            <4>1. locked'[t][s][k] = i
                BY <1>4, <1>5, <3>2
            <4>2. FromNext(s, k) = Cur(t)
                <5>1. CASE chain = <<>>
                    BY <1>5, <2>1, <3>2, <5>1 DEF Cur
                <5>2. CASE chain # <<>>
                    <6>1. k # 1 /\ k - 1 = Len(chain) /\ k - 1 \in 1 .. Len(chain)
                        BY <1>5, <3>2, <5>2
                    <6>2. locked'[t][s][k - 1] = chain[Len(chain)]
                        BY <1>4, <1>5, <6>1
                    <6> QED
                        BY <5>2, <6>1, <6>2 DEF Cur, Last
                <5> QED
                    BY <5>1, <5>2
            <4>3. k = w
                BY <1>5, <1>8, <1>11, <3>2
            <4>4. locked[t]["common"] # <<>>
                BY <1>1, <1>2, <1>11 DEF Part, Walked, Walking, Reaches
            <4>5. Links(Cur(t), comps[w], i)
                BY <1>2, <1>7, <4>4 DEF Way, AtTarget, comps
            <4> QED
                BY <4>1, <4>2, <4>3, <4>5 DEF comps
        <3> QED
            BY <1>4, <1>5, <3>1, <3>2
    <2>6. \A r \in Stage : r # "common" =>
              \A k \in 1 .. Len(locked'[t][r]) :
                  Links(FromNext(r, k), Stretch(cmd[t], r)[k], locked'[t][r][k])
        BY <2>4, <2>5
    <2> SUFFICES ASSUME NEW r \in Stage
                 PROVE  LET ch == locked'[t][r]
                            cs == Stretch(cmd'[t], r)
                        IN  /\ r = "common" =>
                                  /\ ch # <<>> => ch[1] = Root
                                  /\ \A k \in 1 .. Len(ch) - 1 :
                                        /\ cs[k] \in Names(dir'[ch[k]])
                                        /\ dir'[ch[k]].entry[cs[k]] = ch[k + 1]
                                        /\ type'[ch[k + 1]] # "none"
                            /\ r # "common" =>
                                  \A k \in 1 .. Len(ch) :
                                        LET d == IF k = 1 THEN Last(locked'[t]["common"]) ELSE ch[k - 1]
                                        IN  /\ cs[k] \in Names(dir'[d])
                                            /\ dir'[d].entry[cs[k]] = ch[k]
                                            /\ type'[ch[k]] # "none"
        BY DEF OnPath, Links
    <2>7. CASE r = "common"
        BY <1>2, <2>1, <2>2, <2>7 DEF Links
    <2>8. CASE r # "common"
        <3> SUFFICES ASSUME NEW k \in 1 .. Len(locked'[t][r])
                     PROVE  /\ Stretch(cmd[t], r)[k] \in Names(dir[FromNext(r, k)])
                            /\ dir[FromNext(r, k)].entry[Stretch(cmd[t], r)[k]] = locked'[t][r][k]
                            /\ type[locked'[t][r][k]] # "none"
            BY <1>2, <2>8
        <3>1. Links(FromNext(r, k), Stretch(cmd[t], r)[k], locked'[t][r][k])
            BY <2>6, <2>8
        <3> QED
            BY <3>1 DEF Links
    <2> QED
        BY <2>7, <2>8
<1>12. AtTarget(t)' /\ Ready(t)'
    <2>1. pc'[t] \in {"found", "walk"}
        BY <1>4
    <2> QED
        BY <2>1 DEF AtTarget, Ready
<1> QED
    BY <1>9, <1>10, <1>11, <1>12 DEF Way

\* The next stretch of a move begins at the end of the first.
LEMMA MoveLegWay ==
    ASSUME IInv, NEW t \in Thread, Way(t), MoveLeg(t)
    PROVE  Way(t)'
<1> DEFINE legs == Legs(cmd[t])
           s == Head(LegsLeft(t))
<1>1. /\ ThreadTypeOK /\ ThreadTypeOK' /\ Part(t) /\ pc[t] = "found" /\ cmd[t] \in Command
      /\ cmd[t].op = "move" /\ LegsLeft(t) # <<>> /\ stage[t] \in {"common", "orig", "dest"}
      /\ Stage = {"common", "orig", "dest"}
    BY StepFacts DEF Step, Work, MoveLeg, At, Part, Located, ThreadTypeOK, Stage
<1>2. /\ stage' = [stage EXCEPT ![t] = s] /\ rest' = [rest EXCEPT ![t] = Stretch(cmd[t], s)]
      /\ pc' = [pc EXCEPT ![t] = "walk"] /\ type' = type /\ dir' = dir
      /\ cmd' = cmd /\ target' = target /\ locked' = locked
    BY DEF MoveLeg, tableVars
<1>3. /\ s \in {"orig", "dest"}
      /\ \/ stage[t] = "common"
         \/ stage[t] = Head(legs) /\ s # Head(legs) /\ {s, Head(legs)} = {"orig", "dest"}
    <2>1. CASE stage[t] = "common"
        <3>1. LegsLeft(t) = legs
            BY <2>1 DEF LegsLeft
        <3> QED
            BY <1>1, <2>1, <3>1, LegsShape
    <2>2. CASE stage[t] # "common"
        <3>1. LegsLeft(t) = IF stage[t] = Head(legs) THEN Tail(legs) ELSE <<>>
            BY <1>1, <2>2 DEF LegsLeft
        <3> QED
            BY <1>1, <2>2, <3>1, LegsShape
    <2> QED
        BY <2>1, <2>2
<1> HIDE DEF s, legs
<1>4. /\ stage'[t] = s /\ rest'[t] = Stretch(cmd[t], s) /\ pc'[t] = "walk"
      /\ cmd'[t] = cmd[t] /\ locked'[t] = locked[t]
    BY <1>1, <1>2 DEF ThreadTypeOK
<1>5. /\ \A r \in Stage \ {"common", stage[t]} :
            stage[t] = "common" \/ r # Head(legs) => locked[t][r] = <<>>
    BY <1>1 DEF Way, Placed, Walking, legs
<1>6. locked[t][s] = <<>>
    BY <1>1, <1>3, <1>5
<1>7. \A r \in Stage \ {"common", s} : r # Head(legs) => locked[t][r] = <<>>
    BY <1>1, <1>3, <1>5
<1>8. Len(Stretch(cmd[t], s)) \in Nat
    <2>1. Stretch(cmd[t], s) \in Seq(Name)
        BY <1>1, <1>3, StretchIsPath
    <2> QED
        BY <2>1, LenProperties
<1>9. Placed(t)'
    <2> DEFINE comps == Stretch(cmd[t], s)
               left == Len(comps)
    <2> HIDE DEF comps
    <2>1. left - left = 0 /\ \A k \in 1 .. left : (left - left) + k = k
        BY <1>8 DEF comps
    <2>2. Len(<<>>) = (left - left) + 0 - 0
        BY <2>1
    <2>3. s # "common"
        BY <1>3
    <2> QED
        BY <1>4, <1>6, <1>7, <2>1, <2>2, <2>3 DEF Placed, comps, legs
<1>10. OnPath(t)'
    BY <1>1, <1>2, OnPathStays DEF Way, HeldSame, Walking
<1>11. AtTarget(t)' /\ Ready(t)'
    BY <1>4 DEF AtTarget, Ready
<1> QED
    BY <1>9, <1>10, <1>11 DEF Way

\* A thread at the end of its path stays there.
LEMMA StandStill ==
    ASSUME IInv, NEW t \in Thread, Way(t), HeldSame(t),
           pc[t] \in Walking \ {"lock", "walk"}, pc'[t] \in Walking \ {"lock", "walk"},
           cmd'[t] = cmd[t], stage'[t] = stage[t], rest'[t] = rest[t], locked'[t] = locked[t]
    PROVE  /\ Placed(t)' /\ OnPath(t)'
           /\ Cur(t)' = Cur(t) /\ OrigParent(t)' = OrigParent(t) /\ DestParent(t)' = DestParent(t)
           /\ Held(t)' = Held(t)
           /\ Cur(t) \in Held(t) /\ OrigParent(t) \in Held(t) /\ DestParent(t) \in Held(t)
<1>1. Placed(t)'
    BY DEF Way, Placed
<1>2. OnPath(t)'
    BY OnPathStays DEF Way
<1>3. Cur(t)' = Cur(t) /\ OrigParent(t)' = OrigParent(t) /\ DestParent(t)' = DestParent(t)
    BY DEF Cur, OrigParent, DestParent
<1>4. Held(t)' = Held(t)
    BY DEF Held
<1>5. Cur(t) \in Held(t) /\ OrigParent(t) \in Held(t) /\ DestParent(t) \in Held(t)
    BY IInvParts, Standing, StandingHeld
<1> QED
    BY <1>1, <1>2, <1>3, <1>4, <1>5

\* The scan for a free slot begins, goes on, and ends.
LEMMA ScanWay ==
    ASSUME IInv, NEW t \in Thread, Way(t), CreateScan(t) \/ SkipSlot(t) \/ TakeSlot(t)
    PROVE  Way(t)'
<1>1. ThreadTypeOK /\ ThreadTypeOK' /\ TableTypeOK /\ Part(t) /\ rest' = rest
    BY StepFacts DEF Step, Work, CreateScan, SkipSlot, TakeSlot
<1>2. /\ pc[t] \in {"found", "scan"} /\ pc'[t] \in {"scan", "add"}
      /\ cmd' = cmd /\ stage' = stage /\ locked' = locked
    BY <1>1 DEF CreateScan, SkipSlot, TakeSlot, Goto, At, ThreadTypeOK
<1>3. HeldSame(t)
    <2>1. CASE CreateScan(t) \/ SkipSlot(t)
        BY <2>1 DEF CreateScan, SkipSlot, HeldSame, tableVars
    <2>2. CASE TakeSlot(t)
        <3>1. /\ TakeInode(t, target[t], cmd[t].type) /\ Holders(target[t]) = {}
            BY <2>2 DEF TakeSlot, TakeInode, SlotFree, Grantable, Holders
        <3>2. target[t] \notin Held(t)
            BY <1>2, <3>1, HeldByThread DEF Walking
        <3> QED
            BY <1>1, <3>1, <3>2 DEF HeldSame, TakeInode, TableTypeOK
    <2> QED
        BY <2>1, <2>2
<1>4. /\ Placed(t)' /\ OnPath(t)' /\ Cur(t)' = Cur(t) /\ Cur(t) \in Held(t)
    BY <1>1, <1>2, <1>3, StandStill DEF Walking
<1>5. type[Cur(t)] = "dir"
    BY <1>2 DEF CreateScan, SkipSlot, TakeSlot, At, Way, Ready
<1>6. Ready(t)'
    BY <1>2, <1>3, <1>4, <1>5 DEF Ready, HeldSame
<1>7. AtTarget(t)'
    BY <1>2 DEF AtTarget
<1> QED
    BY <1>4, <1>6, <1>7 DEF Way

\* The inode to remove or move is found, and locked.
LEMMA FindChildWay ==
    ASSUME IInv, Structure, NEW t \in Thread, Way(t), FindChild(t)
    PROVE  Way(t)'
<1> DEFINE d == OrigParent(t)
           n == EntryOf(cmd[t])
<1>1. ThreadTypeOK /\ ThreadTypeOK' /\ TableTypeOK /\ Part(t)
    BY StepFacts DEF Step, Work
<1>2. /\ pc[t] = "found" /\ pc'[t] = "lockchild" /\ target'[t] = dir[d].entry[n] /\ n \in Names(dir[d])
      /\ cmd' = cmd /\ stage' = stage /\ locked' = locked /\ rest' = rest /\ dir' = dir /\ type' = type
      /\ type[OrigParent(t)] = "dir" /\ type[DestParent(t)] = "dir"
    BY <1>1 DEF FindChild, ParentsReady, Goto, At, ThreadTypeOK, tableVars
<1>3. HeldSame(t)
    BY <1>2 DEF HeldSame
<1>4. /\ Placed(t)' /\ OnPath(t)' /\ OrigParent(t)' = d /\ DestParent(t)' = DestParent(t)
    BY <1>1, <1>2, <1>3, StandStill DEF Walking
<1>5. type[target'[t]] # "none"
    <2>1. d \in Inode
        BY <1>1, <1>2, Standing DEF Walking
    <2>2. HasEntry(dir[d], n, target'[t])
        BY <1>2 DEF HasEntry
    <2>3. n \in EntryName /\ target'[t] \in Inode
        BY <1>1, <2>1, <2>2, HasTypes
    <2> QED
        BY <2>1, <2>2, <2>3 DEF Structure, EntriesFit
<1>6. AtTarget(t)'
    BY <1>2, <1>4, <1>5 DEF AtTarget, Links
<1>7. Ready(t)'
    BY <1>2, <1>4 DEF Ready
<1> QED
    BY <1>4, <1>6, <1>7 DEF Way

LEMMA LockChildWay ==
    ASSUME IInv, NEW t \in Thread, Way(t), LockChild(t)
    PROVE  Way(t)'
<1>1. ThreadTypeOK /\ ThreadTypeOK' /\ TableTypeOK /\ Part(t)
    BY StepFacts DEF Step, Work
<1>2. /\ pc[t] = "lockchild" /\ pc'[t] = "child" /\ target'[t] = target[t]
      /\ cmd' = cmd /\ stage' = stage /\ locked' = locked /\ rest' = rest /\ dir' = dir /\ type' = type
      /\ Grantable(target[t], "unique")
    BY <1>1 DEF LockChild, LockInode, ChildAccess, Goto, At, ThreadTypeOK
<1>3. HeldSame(t)
    BY <1>2 DEF HeldSame
<1>4. /\ Placed(t)' /\ OnPath(t)' /\ OrigParent(t)' = OrigParent(t) /\ DestParent(t)' = DestParent(t)
      /\ Held(t)' = Held(t)
    BY <1>1, <1>2, <1>3, StandStill DEF Walking
<1>5. target[t] \notin Held(t)
    BY <1>2, HeldByThread DEF Grantable, Holders, Walking
<1>6. AtTarget(t)'
    BY <1>2, <1>4 DEF Way, AtTarget, Links
<1>7. Ready(t)'
    BY <1>2, <1>4, <1>5 DEF Way, Ready
<1> QED
    BY <1>4, <1>6, <1>7 DEF Way

\* A print starts at the root, and goes on to what has a name.
LEMMA PrintWay ==
    ASSUME IInv, NEW t \in Thread, Way(t), PrintStart(t) \/ PrintVisit(t)
    PROVE  Way(t)'
<1>1. ThreadTypeOK /\ ThreadTypeOK' /\ TableTypeOK /\ Part(t)
    BY StepFacts DEF Step, Work
<1>2. /\ pc[t] \in {"found", "print"} /\ pc'[t] = "print" /\ dir' = dir /\ type' = type
      /\ cmd' = cmd /\ stage' = stage /\ locked' = locked /\ rest' = rest
      /\ cmd[t].op = "print"
    BY <1>1 DEF PrintStart, PrintVisit, At, ThreadTypeOK, tableVars, Way, Ready
<1>3. HeldSame(t)
    BY <1>2 DEF HeldSame
<1>4. Placed(t)' /\ OnPath(t)'
    BY <1>1, <1>2, <1>3, StandStill DEF Walking
<1>5. Linked' = Linked
    BY <1>2 DEF Linked
<1>6. toPrint'[t] \subseteq Linked \cup {Root}
    <2>1. CASE PrintStart(t)
        BY <1>1, <2>1 DEF PrintStart, ThreadTypeOK
    <2>2. CASE PrintVisit(t)
        <3>1. toPrint[t] \subseteq Linked \cup {Root} /\ toPrint[t] \subseteq Inode
            BY <1>1, <2>2 DEF PrintVisit, At, Way, Ready, ThreadTypeOK
        <3>2. PICK i \in toPrint[t] :
                  toPrint' = [toPrint EXCEPT ![t] =
                      (toPrint[t] \ {i}) \cup IF type[i] = "dir" THEN Children(dir[i]) ELSE {}]
            BY <2>2 DEF PrintVisit
        <3>3. toPrint'[t] \subseteq toPrint[t] \cup Children(dir[i])
            BY <1>1, <3>2 DEF ThreadTypeOK
        <3>4. Children(dir[i]) \subseteq Linked
            BY <3>1, <3>2 DEF Linked
        <3> QED
            BY <3>1, <3>3, <3>4
    <2> QED
        BY <2>1, <2>2
<1>7. AtTarget(t)' /\ Ready(t)'
    BY <1>2, <1>5, <1>6 DEF AtTarget, Ready
<1> QED
    BY <1>4, <1>7 DEF Way

\* Every step of a thread keeps it on its way.
LEMMA OwnWay ==
    ASSUME IInv, Structure, NEW t \in Thread, Way(t), Step(t)
    PROVE  Way(t)'
<1>1. CASE Receive(t) \/ Walk(t) \/ Lock(t) \/ MoveLeg(t)
    BY <1>1, ReceiveWay, WalkWay, LockWay, MoveLegWay
<1>2. CASE LockErrno(t) \/ TableFull(t)
    BY <1>2, AbortWay
<1>3. CASE CreateScan(t) \/ SkipSlot(t) \/ TakeSlot(t)
    BY <1>3, ScanWay
<1>4. CASE FindChild(t) \/ LockChild(t) \/ PrintStart(t) \/ PrintVisit(t)
    BY <1>4, FindChildWay, LockChildWay, PrintWay
<1> QED
    BY <1>1, <1>2, <1>3, <1>4, EndingWay DEF Step, Work

-----------------------------------------------------------------------------
\* The invariant, and what follows from it.

\* tfs_fs_new, and the worker threads before their first command.
LEMMA InitTree == Init => Tree
<1> SUFFICES ASSUME Init
             PROVE  Tree
    OBVIOUS
<1>1. \A d \in Inode : \A n : \A i : ~HasEntry(dir[d], n, i)
    BY EmptyDirHas DEF Init, TableInit
<1>2. Root \in Inode /\ type[Root] = "dir" /\ \A i \in Inode \ {Root} : type[i] = "none"
    BY BaseAssumption DEF Init, TableInit, Root, Inode
<1>3. \A t \in Thread : pc[t] = "idle" /\ target[t] = Root
    BY DEF Init, ThreadInit
<1>4. Structure
    BY <1>1, <1>2, <1>3 DEF Structure, EntriesFit, NamesOnce, AllNamed, TransitBare
<1>5. Grounded
    BY <1>1 DEF Grounded
<1>6. ASSUME NEW t \in Thread
      PROVE  Way(t)
    BY <1>3 DEF Way, Placed, OnPath, AtTarget, Ready, Walking
<1> QED
    BY <1>4, <1>5, <1>6 DEF Tree

\* A step of any thread.
LEMMA NextTree ==
    ASSUME IInv, Tree, NEW t \in Thread, Step(t)
    PROVE  Tree'
<1>1. Structure' /\ Grounded'
    BY StepStructure DEF Tree
<1>2. ASSUME NEW u \in Thread
      PROVE  Way(u)'
    <2>1. CASE u = t
        BY <2>1, OwnWay DEF Tree
    <2>2. CASE u # t
        BY <2>2, OthersWay DEF Tree
    <2> QED
        BY <2>1, <2>2
<1> QED
    BY <1>1, <1>2 DEF Tree

\* A step that changes nothing.
LEMMA StutterTree == Tree /\ UNCHANGED vars => Tree'
<1> SUFFICES ASSUME Tree, UNCHANGED vars
             PROVE  Tree'
    OBVIOUS
<1>1. /\ type' = type /\ dir' = dir /\ cmd' = cmd /\ pc' = pc /\ stage' = stage /\ rest' = rest
      /\ target' = target /\ locked' = locked /\ toPrint' = toPrint
    BY DEF vars, tableVars, threadVars
<1>2. Structure'
    BY <1>1 DEF Tree, Structure, EntriesFit, NamesOnce, AllNamed, TransitBare, InTransit
<1>3. Grounded'
    BY <1>1 DEF Tree, Grounded
<1>4. ASSUME NEW t \in Thread
      PROVE  Way(t)'
    BY WaySame DEF Tree, vars
<1> QED
    BY <1>2, <1>3, <1>4 DEF Tree

\* The directories are a tree and every thread is on its way in it, whatever
\* the commands are and however the threads take turns.
THEOREM TreeInvariance == Spec => [](IInv /\ Tree)
<1>1. Init => IInv /\ Tree
    BY InitIInv, InitTree
<1>2. IInv /\ Tree /\ [Next]_vars => (IInv /\ Tree)'
    BY NextIInv, StutterIInv, NextTree, StutterTree DEF Next, Step
<1> QED
    BY <1>1, <1>2, PTL DEF Spec

\* No directory is moved or removed under a thread that walks through it:
\* the chain of inodes tfs_fs_lock_all has locked stays the one the path
\* names.
THEOREM PathsAreHeld == Spec => []PathHeld
<1>1. IInv /\ Tree => PathHeld
    <2> SUFFICES ASSUME IInv, Tree, NEW t \in Thread, pc[t] \in Walking, NEW s \in Stage
                 PROVE  LET chain == locked[t][s]
                            comps == Stretch(cmd[t], s)
                        IN  /\ \A k \in 1 .. Len(chain) : t \in Holders(chain[k])
                            /\ s = "common" =>
                                  /\ chain # <<>> => chain[1] = Root
                                  /\ \A k \in 1 .. Len(chain) - 1 :
                                        Links(chain[k], comps[k], chain[k + 1])
                            /\ s # "common" =>
                                  \A k \in 1 .. Len(chain) :
                                      Links(IF k = 1 THEN Last(locked[t]["common"]) ELSE chain[k - 1],
                                            comps[k], chain[k])
        BY DEF PathHeld
    <2>1. \A k \in 1 .. Len(locked[t][s]) : t \in Holders(locked[t][s][k])
        BY DEF IInv, LocksOwned, Owned
    <2>2. OnPath(t)
        BY DEF Tree, Way
    <2> QED
        BY <2>1, <2>2 DEF OnPath
<1> QED
    BY <1>1, TreeInvariance, PTL

\* The inode found by name is in use and still has that name when its lock
\* is granted, however long the thread waits for it (fs.c:231).
THEOREM TargetsAreLinked == Spec => []TargetLinked
<1>1. Tree => TargetLinked
    BY DEF Tree, Way, AtTarget, TargetLinked
<1> QED
    BY <1>1, TreeInvariance, PTL

\* The directories form a tree with the root of the table as its root.
THEOREM DirectoriesFormTree == Spec => []TreeShape
<1>1. IInv /\ Tree => TreeShape
    <2> SUFFICES ASSUME IInv, Tree
                 PROVE  TreeShape
        OBVIOUS
    <2>1. TableTypeOK /\ Structure /\ Grounded
        BY IInvParts DEF Tree
    <2>2. \A i : \A e : e \in Named(i) <=>
              e \in Inode \X EntryName /\ HasEntry(dir[e[1]], e[2], i)
        BY DEF Named, HasEntry
    <2>3. \A i \in Inode : i = Root \/ type[i] = "none" \/ InTransit(i) => Named(i) = {}
        <3> SUFFICES ASSUME NEW i \in Inode, NEW e, e \in Named(i)
                     PROVE  i # Root /\ type[i] # "none" /\ ~InTransit(i)
            OBVIOUS
        <3>1. e[1] \in Inode /\ e[2] \in EntryName /\ HasEntry(dir[e[1]], e[2], i)
            BY <2>2
        <3> QED
            BY <2>1, <3>1 DEF Structure, EntriesFit
    <2>4. ASSUME NEW i \in Inode \ {Root}, type[i] # "none", ~InTransit(i)
          PROVE  Cardinality(Named(i)) = 1
        <3>1. PICK d \in Inode, n \in EntryName : HasEntry(dir[d], n, i)
            BY <2>1, <2>4 DEF Structure, AllNamed
        <3>2. \A e : e \in Named(i) <=> e = <<d, n>>
            <4> SUFFICES ASSUME NEW e
                         PROVE  e \in Named(i) <=> e = <<d, n>>
                OBVIOUS
            <4>1. <<d, n>> \in Named(i)
                BY <2>2, <3>1
            <4>2. ASSUME e \in Named(i) PROVE e = <<d, n>>
                <5>1. /\ e = <<e[1], e[2]>> /\ e[1] \in Inode /\ e[2] \in EntryName
                      /\ HasEntry(dir[e[1]], e[2], i)
                    BY <2>2, <4>2
                <5>2. e[1] = d /\ e[2] = n
                    BY <2>1, <3>1, <5>1 DEF Structure, NamesOnce
                <5> QED
                    BY <5>1, <5>2
            <4> QED
                BY <4>1, <4>2
        <3>3. Named(i) = {<<d, n>>}
            BY <3>2
        <3> QED
            BY <3>3, FS_Singleton
    <2>5. ASSUME NEW i \in Inode, type[i] # "dir"
          PROVE  Names(dir[i]) = {}
        <3> SUFFICES ASSUME NEW n \in Names(dir[i])
                     PROVE  FALSE
            OBVIOUS
        <3>1. HasEntry(dir[i], n, dir[i].entry[n])
            BY DEF HasEntry
        <3>2. n \in EntryName /\ dir[i].entry[n] \in Inode
            BY <2>1, <3>1, HasTypes
        <3> QED
            BY <2>1, <2>5, <3>1, <3>2 DEF Structure, EntriesFit
    <2>6. ASSUME NEW S \in SUBSET Linked, S # {}
          PROVE  \E i \in S : \A e \in Named(i) : e[1] \notin S
        <3> SUFFICES ASSUME \A i \in S : \E e \in Named(i) : e[1] \in S
                     PROVE  FALSE
            OBVIOUS
        <3>1. S \subseteq Inode
            <4>1. \A d \in Inode : Children(dir[d]) \subseteq Inode
                BY <2>1, EntryIsInode DEF TableTypeOK
            <4> QED
                BY <4>1 DEF Linked
        <3>2. \A i \in S : \E d \in S, n \in EntryName : HasEntry(dir[d], n, i)
            BY <2>2
        <3> QED
            BY <2>1, <2>6, <3>1, <3>2 DEF Grounded
    <2>7. Root \in Inode /\ type[Root] = "dir"
        BY <2>1, BaseAssumption DEF Structure, Root, Inode
    <2> QED
        BY <2>3, <2>4, <2>5, <2>6, <2>7 DEF TreeShape
<1> QED
    BY <1>1, TreeInvariance, PTL

\* While a thread prints, no step changes what it prints.
LEMMA PrintKept ==
    ASSUME IInv, Tree, NEW t \in Thread, Step(t), NEW u \in Thread, pc[u] = "print", pc'[u] = "print"
    PROVE  /\ \A i \in Linked \cup {Root} : dir'[i] = dir[i] /\ type'[i] = type[i]
           /\ \A i \in toPrint[u] : type[i] # "none"
<1>1. TableTypeOK /\ ThreadTypeOK /\ Structure /\ Way(t) /\ Way(u)
    BY IInvParts DEF Tree
<1>2. \A i \in Inode : i \in Linked => type[i] # "none" /\ ~InTransit(i)
    <2> SUFFICES ASSUME NEW i \in Inode, i \in Linked
                 PROVE  type[i] # "none" /\ ~InTransit(i)
        OBVIOUS
    <2>1. PICK d \in Inode, n \in EntryName : HasEntry(dir[d], n, i)
        BY LinkedHas
    <2> QED
        BY <1>1, <2>1 DEF Structure, EntriesFit
<1>3. \A i \in toPrint[u] : type[i] # "none"
    <2>1. toPrint[u] \subseteq Linked \cup {Root} /\ toPrint[u] \subseteq Inode
        BY <1>1 DEF Way, Ready, ThreadTypeOK
    <2> QED
        BY <1>1, <1>2, <2>1 DEF Structure
<1>4. CASE FreeInode(t)
    <2>1. /\ pc[t] \in Transit /\ RemoveInode(t, target[t])
        BY <1>4 DEF FreeInode, At, Transit
    <2>2. target[t] \in Inode /\ InTransit(target[t]) /\ target[t] # Root
        BY <1>1, <2>1, TransitHeld DEF Structure, TransitBare, Transit
    <2>3. target[t] \notin Linked
        BY <1>2, <2>2
    <2>4. \A i : i # target[t] /\ i \in Inode => dir'[i] = dir[i] /\ type'[i] = type[i]
        BY <1>1, <2>1 DEF RemoveInode, TableTypeOK
    <2>5. Linked \cup {Root} \subseteq Inode
        <3>1. \A d \in Inode : Children(dir[d]) \subseteq Inode
            BY <1>1, EntryIsInode DEF TableTypeOK
        <3> QED
            BY <3>1, BaseAssumption DEF Linked, Root, Inode
    <2> QED
        BY <1>3, <2>2, <2>3, <2>4, <2>5
<1>5. CASE ~FreeInode(t)
    <2>1. dir' = dir /\ type' = type
        <3>1. CASE t = u
            <4>1. ~Growing(t) /\ ~Shrinking(t) /\ ~Relinking(t)
                BY <1>5, <3>1 DEF Growing, Shrinking, Relinking, TakeSlot, CreateEntry,
                    RemoveChild, RenameChild, Renames, MoveChild, Transfers, At
            <4> QED
                BY <4>1, QuietSteps
        <3>2. CASE t # u
            BY <1>1, <1>5, <3>2, PrintAlone
        <3> QED
            BY <3>1, <3>2
    <2> QED
        BY <1>3, <2>1
<1> QED
    BY <1>4, <1>5

\* A print needs no lock but that of the root: the tree it walks does not
\* change before it is done, and what it comes to is in use (table.c:106).
THEOREM PrintsAreStable == Spec => PrintStable
<1>1. IInv /\ Tree /\ [Next]_vars =>
          [\A t \in Thread : pc[t] = "print" /\ pc'[t] = "print" =>
              /\ \A i \in Linked \cup {Root} : dir'[i] = dir[i] /\ type'[i] = type[i]
              /\ \A i \in toPrint[t] : type[i] # "none"]_vars
    BY PrintKept DEF Next, Step
<1> QED
    BY <1>1, TreeInvariance, PTL DEF Spec, PrintStable
=============================================================================
