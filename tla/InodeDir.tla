------------------------------- MODULE InodeDir -------------------------------
(***************************************************************************)
(* A directory of tfs/inode/dir.c: the entries by name, and the number of  *)
(* slots of its array.  The place of an entry in the array is abstracted;  *)
(* how many slots are free is not, because tfs_inode_dir_rename compares   *)
(* the new name with the name of the free slots too, which is empty.       *)
(***************************************************************************)
EXTENDS TfsBase, FiniteSets

CONSTANT MinEntries    \* slots of the first allocation of a directory: 4

ASSUME MinEntriesAssumption == MinEntries \in Nat \ {0}

EntryName == Name \cup {NoName}
Dir == [slots : Nat, entry : UNION {[S -> Inode] : S \in SUBSET EntryName}]

\* tfs_inode_dir_new: no array yet.
EmptyDir == [slots |-> 0, entry |-> [n \in {} |-> 0]]

Names(d) == DOMAIN d.entry
DirIsEmpty(d) == Names(d) = {}
FreeSlots(d) == d.slots - Cardinality(Names(d))
Children(d) == {d.entry[n] : n \in Names(d)}

\* Faults of the check below, for the mutants of the runs.
AddRefused_EmptyAllowed(d, n) == n \in Names(d)
AddRefused_DuplicateAllowed(d, n) == n = NoName

\* tfs_inode_dir_add_entry: it refuses the empty name, then a duplicate.
AddRefused(d, n) == n = NoName \/ n \in Names(d)
AddEntry(d, n, i) ==
    [slots |-> IF FreeSlots(d) > 0 THEN d.slots
               ELSE IF 2 * d.slots > MinEntries THEN 2 * d.slots ELSE MinEntries,
     entry |-> [m \in Names(d) \cup {n} |-> IF m = n THEN i ELSE d.entry[m]]]

\* tfs_inode_dir_remove_entry_by_dir_idx, on the slot the name was found in.
RemoveEntry(d, n) ==
    [d EXCEPT !.entry = [m \in Names(d) \ {n} |-> d.entry[m]]]

\* A fault of the check below: the other entries are not compared.
RenameRefused_DuplicateAllowed(d, o, n) == n = NoName /\ FreeSlots(d) > 0

\* tfs_inode_dir_rename of the entry o, found by its inode: the new name
\* must differ from that of every other slot, the free ones included.
RenameRefused(d, o, n) ==
    \/ n \in Names(d) \ {o}
    \/ n = NoName /\ FreeSlots(d) > 0
RenameEntry(d, o, n) ==
    [d EXCEPT !.entry =
        [m \in (Names(d) \ {o}) \cup {n} |-> IF m = n THEN d.entry[o] ELSE d.entry[m]]]
=============================================================================
