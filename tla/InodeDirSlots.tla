----------------------------- MODULE InodeDirSlots -----------------------------
(***************************************************************************)
(* The array of slots of tfs/inode/dir.c.  Slots are counted from 1 here;  *)
(* a free one has no inode and the empty name.                             *)
(***************************************************************************)
EXTENDS InodeDir, Sequences

VARIABLES
    entries,      \* the array; its length is the capacity
    answer        \* the result of the last operation, and the inode in it

vars == <<entries, answer>>

NoInode == -1
NoAnswer == [kind |-> "none", inode |-> NoInode]
Slot == [inode : Inode \cup {NoInode}, name : EntryName]
FreeSlot == [inode |-> NoInode, name |-> NoName]
Answer(kind, i) == answer' = [kind |-> kind, inode |-> i]

Init == entries = <<>> /\ answer = NoAnswer

-----------------------------------------------------------------------------
\* The loops over the array stop at the first slot they look for.
Used == {k \in DOMAIN entries : entries[k].inode # NoInode}
Free == DOMAIN entries \ Used
Named(n) == {k \in DOMAIN entries : entries[k].name = n}
First(slots) == CHOOSE k \in slots : \A j \in slots : k <= j

\* tfs_inode_dir_is_empty
IsEmpty ==
    /\ Answer(IF Used = {} THEN "empty" ELSE "not empty", NoInode)
    /\ UNCHANGED entries

\* tfs_inode_dir_search_by_name
Found(n) == Used \cap Named(n)
Search(n) ==
    /\ IF Found(n) = {} THEN Answer("not found", NoInode)
                        ELSE Answer("success", entries[First(Found(n))].inode)
    /\ UNCHANGED entries

\* A fault of AddClash, for the mutants of the runs: the scan ends at the
\* first free slot.
AddClash_UpToFree(n) == {k \in Found(n) : \A j \in Free : k < j}

\* tfs_inode_dir_add_entry: the entries a new one would clash with.
AddClash(n) == Found(n)

\* realloc to the double, or to the first allocation.
Grown ==
    [k \in 1 .. (IF 2 * Len(entries) > MinEntries THEN 2 * Len(entries) ELSE MinEntries) |->
        IF k \in DOMAIN entries THEN entries[k] ELSE FreeSlot]

Add(i, n) ==
    /\ \A k \in Used : entries[k].inode # i
    /\ \/ /\ n = NoName
          /\ Answer("EmptyName", NoInode)
          /\ UNCHANGED entries
       \/ /\ n # NoName /\ AddClash(n) # {}
          /\ Answer("DuplicateName", entries[First(AddClash(n))].inode)
          /\ UNCHANGED entries
       \/ /\ n # NoName /\ AddClash(n) = {}
          /\ Answer("success", NoInode)
          /\ entries' = IF Free # {}
                        THEN [entries EXCEPT ![First(Free)] = [inode |-> i, name |-> n]]
                        ELSE [Grown EXCEPT ![Len(entries) + 1] = [inode |-> i, name |-> n]]

\* tfs_inode_dir_remove_entry_by_dir_idx, with the slot a search has found.
Remove(n) ==
    /\ Found(n) # {}
    /\ Answer("success", NoInode)
    /\ entries' = [entries EXCEPT ![First(Found(n))] = FreeSlot]

\* A fault of RenameClash, for the mutants of the runs: free slots are not
\* compared.
RenameClash_UsedOnly(n) == Found(n)

\* tfs_inode_dir_rename: the slots whose name is compared with the new one.
RenameClash(n) == Named(n)

\* The scan ends at the first slot with the new name, be it of the inode
\* itself.  (Entries with the empty name keep it: see InodeDirMap.)
Rename(i, n) ==
    /\ ~ \E k \in Found(NoName) : entries[k].inode = i /\ n = NoName
    /\ IF RenameClash(n) # {}
       THEN LET clash == entries[First(RenameClash(n))].inode IN
            /\ IF clash = i THEN Answer("success", NoInode) ELSE Answer("DuplicateName", clash)
            /\ UNCHANGED entries
       ELSE IF \A k \in Used : entries[k].inode # i
       THEN Answer("NotFound", NoInode) /\ UNCHANGED entries
       ELSE /\ Answer("success", NoInode)
            /\ \E k \in Used : entries[k].inode = i /\ entries' = [entries EXCEPT ![k].name = n]

Next ==
    \/ IsEmpty
    \/ \E n \in EntryName : Search(n) \/ Remove(n)
    \/ \E i \in Inode, n \in EntryName : Add(i, n) \/ Rename(i, n)

Spec == Init /\ [][Next]_vars

-----------------------------------------------------------------------------
\* The array holds slots, and has the size realloc has given it.
TypeOK ==
    /\ entries \in Seq(Slot)
    /\ answer.inode \in Inode \cup {NoInode}

\* Two entries never have one name, nor one inode, and free slots have no
\* name.  (dir.h:40: "All entries shall have different filenames".)
EntriesDiffer ==
    /\ \A j, k \in Used : entries[j].name = entries[k].name \/ entries[j].inode = entries[k].inode => j = k
    /\ \A k \in Free : entries[k].name = NoName

\* To its callers the array is the map of InodeDir: every operation answers
\* and changes what the map does, wherever the entries are in the array and
\* however often it has grown.
AsMap ==
    [slots |-> Len(entries),
     entry |-> [n \in {entries[k].name : k \in Used} |->
                    entries[CHOOSE k \in Used : entries[k].name = n].inode]]
Map == INSTANCE InodeDirMap WITH dir <- AsMap
ImplementsMap == Map!MapSpec
=============================================================================
