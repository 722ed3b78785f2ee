------------------------------- MODULE TfsPath -------------------------------
(***************************************************************************)
(* Paths of tfs/path.c, at the level the file system uses them: a path is  *)
(* the sequence of its non-empty components.  Leading, trailing and        *)
(* repeated '/' disappear in tfs_path_trim, so the root and the empty path *)
(* are both <<>>.  tfs_path_pop_last of an empty path still yields a       *)
(* component, the empty string: it is NoName here.                         *)
(***************************************************************************)
EXTENDS TfsBase, FiniteSets, SequencesExt

CONSTANTS
    NameLen,    \* NameLen[n] is the number of characters of n
    NameRank    \* the place of n, followed by a '/', in byte order

ASSUME PathAssumption ==
    /\ NameLen \in [Name -> Nat \ {0}]
    /\ NameRank \in [Name -> Nat]
    /\ \A m, n \in Name : NameRank[m] = NameRank[n] => m = n

Path == Seq(Name)

-----------------------------------------------------------------------------
\* tfs_path_pop_last: the last component, and the path before it.
LastName(p) == IF p = <<>> THEN NoName ELSE p[Len(p)]
ParentPath(p) == IF p = <<>> THEN <<>> ELSE SubSeq(p, 1, Len(p) - 1)

\* tfs_path_common_ancestor, and its two out parameters: what is left of
\* each path once the leading components they share are gone.
SharedLen(p, q) ==
    Cardinality({k \in 1 .. Len(p) : k <= Len(q) /\ SubSeq(p, 1, k) = SubSeq(q, 1, k)})
CommonAncestor(p, q) == SubSeq(p, 1, SharedLen(p, q))
PathRest(p, q) == SubSeq(p, SharedLen(p, q) + 1, Len(p))

\* tfs_str_cmp(p, q) < 0 on two parent paths: the shorter text first, and
\* only among texts of one length the byte order.  Its two callers pass
\* what follows the common ancestor, so the first components differ.
TextLen(p) == FoldLeft(LAMBDA len, n : len + NameLen[n] + 1, 0, p)
Before(p, q) ==
    \/ TextLen(p) < TextLen(q)
    \/ TextLen(p) = TextLen(q) /\ p # <<>> /\ NameRank[p[1]] < NameRank[q[1]]
=============================================================================
