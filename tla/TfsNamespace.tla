----------------------------- MODULE TfsNamespace -----------------------------
(***************************************************************************)
(* What a client sees of the inodes: the paths that lead from the root to  *)
(* an inode, by the entries of the directories on the way.                 *)
(***************************************************************************)
EXTENDS InodeDir, TfsPath

\* The paths of each length, and where they lead.  No path is longer than
\* the table has inodes, because the directories form a tree.
Reached(D) ==
    LET at[n \in 0 .. Capacity] ==
            IF n = 0 THEN {[path |-> <<>>, inode |-> Root]}
            ELSE UNION {{[path |-> Append(r.path, m), inode |-> D[r.inode].entry[m]] :
                            m \in Names(D[r.inode])} : r \in at[n - 1]}
    IN  UNION {at[n] : n \in 0 .. Capacity}

\* The type of the inode each of these paths leads to.
NamespaceOf(D, T) ==
    LET all == Reached(D)
        At_(p) == CHOOSE r \in all : r.path = p
    IN  [p \in {r.path : r \in all} |-> T[At_(p).inode]]
=============================================================================
