------------------------------ MODULE InodeDirMap ------------------------------
(***************************************************************************)
(* What a directory promises its callers: a map from names to inodes, by   *)
(* the operations of InodeDir that TfsFs is built from.  InodeDirSlots     *)
(* implements it with the array of tfs/inode/dir.c.                        *)
(***************************************************************************)
EXTENDS InodeDir

VARIABLES
    dir,          \* the directory
    answer        \* the result of the last operation, and the inode in it

NoInode == -1
NoAnswer == [kind |-> "none", inode |-> NoInode]
Answer(kind, i) == answer' = [kind |-> kind, inode |-> i]

MapInit == dir = EmptyDir /\ answer = NoAnswer

\* The inodes whose entries have a name; free slots have the empty one.
InodesOf(n) ==
    {dir.entry[m] : m \in Names(dir) \cap {n}}
        \cup (IF n = NoName /\ FreeSlots(dir) > 0 THEN {NoInode} ELSE {})
Clashes(n) == \E i \in InodesOf(n) : Answer("DuplicateName", i)

IsEmpty ==
    /\ Answer(IF DirIsEmpty(dir) THEN "empty" ELSE "not empty", NoInode)
    /\ UNCHANGED dir

Search(n) ==
    /\ IF n \in Names(dir) THEN Answer("success", dir.entry[n])
                           ELSE Answer("not found", NoInode)
    /\ UNCHANGED dir

\* The inode is new, or was in another directory.
Add(i, n) ==
    /\ i \notin Children(dir)
    /\ IF AddRefused(dir, n)
       THEN /\ IF n = NoName THEN Answer("EmptyName", NoInode)
                             ELSE Clashes(n)
            /\ UNCHANGED dir
       ELSE Answer("success", NoInode) /\ dir' = AddEntry(dir, n, i)

\* The caller has found the entry before.
Remove(n) ==
    /\ n \in Names(dir)
    /\ Answer("success", NoInode)
    /\ dir' = RemoveEntry(dir, n)

\* An entry is never renamed from one empty name to another: fs.c:324 has
\* answered a move of a path to itself before.
Rename(o, n) ==
    /\ o \in Names(dir) /\ ~(o = NoName /\ n = NoName)
    /\ IF RenameRefused(dir, o, n)
       THEN Clashes(n) /\ UNCHANGED dir
       ELSE Answer("success", NoInode) /\ dir' = RenameEntry(dir, o, n)

\* The same of an inode that has no entry: tfs_fs_move never asks for it.
RenameMissing(i, n) ==
    /\ i \notin Children(dir)
    /\ IF InodesOf(n) # {} THEN Clashes(n) ELSE Answer("NotFound", NoInode)
    /\ UNCHANGED dir

MapNext ==
    \/ IsEmpty
    \/ \E n \in EntryName : Search(n) \/ Remove(n)
    \/ \E o, n \in EntryName : Rename(o, n)
    \/ \E i \in Inode, n \in EntryName : Add(i, n) \/ RenameMissing(i, n)

MapSpec == MapInit /\ [][MapNext]_<<dir, answer>>
=============================================================================
