-------------------------------- MODULE TfsBase --------------------------------
(***************************************************************************)
(* What every module of the file system shares: the names a path is made   *)
(* of, and the inode indexes of tfs/inode/idx.h.                           *)
(***************************************************************************)
EXTENDS Integers

CONSTANTS
    Name,         \* the non-empty names: path components, directory entries
    NoName,       \* the empty name
    Capacity      \* inodes in the table: 128 in tfs_fs_new

ASSUME BaseAssumption ==
    /\ NoName \notin Name
    /\ Capacity \in Nat \ {0}

Inode == 0 .. Capacity - 1
Root == 0
=============================================================================
