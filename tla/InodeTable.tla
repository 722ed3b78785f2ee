------------------------------ MODULE InodeTable ------------------------------
(***************************************************************************)
(* The inode table of tfs/inode/table.c: a fixed array of inodes, each     *)
(* with a type, the contents of a directory, and the reader-writer lock of *)
(* tfs/rw_lock.c that guards both.                                         *)
(*                                                                         *)
(* The first half gives the operations, as the actions TfsFs composes its  *)
(* steps from.  The second half, TableSpec, is what the table asks of its  *)
(* callers (its assertions, and the "must be locked" of its header): TfsFs *)
(* is checked and proved to implement it.                                  *)
(***************************************************************************)
EXTENDS InodeDir

CONSTANT Thread    \* the worker threads

VARIABLES
    type,      \* type[i]: "none" for an empty slot, "dir" or "file"
    dir,       \* dir[i]: the directory kept in i
    shared,    \* shared[i]: the threads that hold i for reading
    unique     \* unique[i]: the thread that holds i for writing, if any

tableVars == <<type, dir, shared, unique>>

Access == {"shared", "unique"}
InodeType == {"dir", "file"}

TableTypeOK ==
    /\ type \in [Inode -> InodeType \cup {"none"}]
    /\ dir \in [Inode -> Dir]
    /\ shared \in [Inode -> SUBSET Thread]
    /\ unique \in [Inode -> SUBSET Thread]

\* tfs_fs_new: one inode in use, the root directory, and nothing locked.
TableInit ==
    /\ type = [i \in Inode |-> IF i = Root THEN "dir" ELSE "none"]
    /\ dir = [i \in Inode |-> EmptyDir]
    /\ shared = [i \in Inode |-> {}]
    /\ unique = [i \in Inode |-> {}]

-----------------------------------------------------------------------------
\* The lock of an inode: any number of readers, or one writer.  Like the
\* default pthread_rwlock_t, a waiting writer does not keep readers out.
Holders(i) == shared[i] \cup unique[i]
Grantable(i, access) ==
    IF access = "shared" THEN unique[i] = {} ELSE Holders(i) = {}

\* tfs_inode_table_lock, once the lock is granted.
LockInode(t, i, access) ==
    /\ Grantable(i, access)
    /\ IF access = "shared"
       THEN shared' = [shared EXCEPT ![i] = @ \cup {t}] /\ UNCHANGED unique
       ELSE unique' = [unique EXCEPT ![i] = @ \cup {t}] /\ UNCHANGED shared
    /\ UNCHANGED <<type, dir>>

\* pthread_rwlock_*lock answers EDEADLK to the thread that has the inode
\* for writing already.
LockFails(t, i) == t \in unique[i]

\* tfs_inode_table_unlock_inode
UnlockInode(t, i) ==
    /\ shared' = [shared EXCEPT ![i] = @ \ {t}]
    /\ unique' = [unique EXCEPT ![i] = @ \ {t}]
    /\ UNCHANGED <<type, dir>>

\* One slot of the scan of tfs_inode_table_add: it is free if nobody has
\* its lock at this instant and it is empty.  The inode stays locked.
SlotFree(i) == Grantable(i, "unique") /\ type[i] = "none"
TakeInode(t, i, ty) ==
    /\ SlotFree(i)
    /\ type' = [type EXCEPT ![i] = ty]
    /\ dir' = [dir EXCEPT ![i] = EmptyDir]
    /\ unique' = [unique EXCEPT ![i] = {t}]
    /\ UNCHANGED shared

\* tfs_inode_table_remove_inode
RemoveInode(t, i) ==
    /\ type' = [type EXCEPT ![i] = "none"]
    /\ dir' = [dir EXCEPT ![i] = EmptyDir]
    /\ unique' = [unique EXCEPT ![i] = @ \ {t}]
    /\ UNCHANGED shared

-----------------------------------------------------------------------------
\* What the table asks of its callers.  An inode is locked only while it is
\* in use and only by a thread that has no lock on it (a second one would
\* block or fail), it is unlocked only by a thread that has it, it is freed
\* only by its writer, and directories change only under the writer's lock.
MayLock(t, i, access) ==
    type[i] # "none" /\ t \notin Holders(i) /\ LockInode(t, i, access)

MayUnlock(t, i) ==
    type[i] # "none" /\ t \in Holders(i) /\ UnlockInode(t, i)

MayRemove(t, i) ==
    type[i] # "none" /\ DirIsEmpty(dir[i]) /\ unique[i] = {t} /\ RemoveInode(t, i)

MayWrite(t) ==
    /\ \A i \in Inode :
          dir'[i] # dir[i] => unique[i] = {t} /\ shared[i] = {} /\ type[i] = "dir"
    /\ UNCHANGED <<type, shared, unique>>

TableNext ==
    \E t \in Thread :
        \/ MayWrite(t)
        \/ \E i \in Inode :
              \/ \E access \in Access : MayLock(t, i, access)
              \/ MayUnlock(t, i)
              \/ \E ty \in InodeType : TakeInode(t, i, ty)
              \/ MayRemove(t, i)

TableSpec == TableInit /\ [][TableNext]_tableVars
=============================================================================
