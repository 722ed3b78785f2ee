--------------------------------- MODULE TfsFs ---------------------------------
(***************************************************************************)
(* The file system of tfs/fs.c under the worker threads of                 *)
(* bin/tecnicofs.c.  Each thread takes a command, walks the tree from the  *)
(* root locking every inode on its way (for reading, the last one for      *)
(* writing), changes the tree, and unlocks.  A step is what a thread does  *)
(* between two of its synchronisation operations: whatever the code reads  *)
(* or writes in between, it reads and writes under locks it holds.         *)
(***************************************************************************)
EXTENDS InodeTable, TfsPath

CONSTANT Command    \* the commands clients may send

VARIABLES
    cmd,        \* cmd[t]: the command t executes
    pc,         \* pc[t]: what t does next
    stage,      \* stage[t]: the stretch of the path t walks
    rest,       \* rest[t]: the components of that stretch still to walk
    target,     \* target[t]: the inode t wants to lock, scans or has found
    locked,     \* locked[t][s]: the inodes t has locked in stage s, in order
    todo,       \* todo[t]: the inodes t has still to unlock, in order
    toPrint,    \* toPrint[t]: the inodes a print has reached but not visited
    result,     \* result[t]: the outcome of the command, once decided
    aborted     \* an assertion failed: the process is gone

threadVars == <<cmd, pc, stage, rest, target, locked, todo, toPrint, result>>
vars == <<tableVars, threadVars, aborted>>

-----------------------------------------------------------------------------
\* The commands of tfs/command/command.h, as the worker hands them to fs.c.
CommandType ==
    [op : {"create"}, path : Path, type : InodeType]
        \cup [op : {"remove", "search"}, path : Path]
        \cup [op : {"move"}, path : Path, dest : Path]
        \cup [op : {"print"}]
NoCommand == [op |-> "none"]

ASSUME CommandAssumption == Command \subseteq CommandType

\* A move walks to the common ancestor of its paths, and from there to each
\* of the two parents; the other commands have the first stretch only.
Stage == {"common", "orig", "dest"}
OrigRest(c) == PathRest(c.path, c.dest)
DestRest(c) == PathRest(c.dest, c.path)
Stretch(c, s) ==
    IF c.op = "move"
    THEN [common |-> CommonAncestor(c.path, c.dest),
          orig |-> ParentPath(OrigRest(c)),
          dest |-> ParentPath(DestRest(c))][s]
    ELSE IF c.op \in {"create", "remove"} THEN ParentPath(c.path)
    ELSE IF c.op = "search" THEN c.path ELSE <<>>

\* Faults of LastAccess, for the mutants of the runs: everybody reads; a
\* print only reads; the two directories of a rename are taken to differ.
LastAccess_Shared(c, s) == "shared"
LastAccess_PrintShared(c, s) ==
    IF c.op \in {"search", "print"} \/ (c.op = "move" /\ s = "common") THEN "shared" ELSE "unique"
LastAccess_MoveShared(c, s) ==
    IF c.op = "search" \/ (c.op = "move" /\ s = "common") THEN "shared" ELSE "unique"

\* The access asked for on the last inode of a stretch.
LastAccess(c, s) ==
    IF \/ c.op = "search"
       \/ /\ c.op = "move" /\ s = "common"
          /\ Stretch(c, "orig") # <<>> /\ Stretch(c, "dest") # <<>>
    THEN "shared" ELSE "unique"

\* A fault of Legs: the origin always first.
Legs_OriginFirst(c) ==
    (IF Stretch(c, "orig") = <<>> THEN <<>> ELSE <<"orig">>)
        \o (IF Stretch(c, "dest") = <<>> THEN <<>> ELSE <<"dest">>)

\* The stretches a move walks below the common ancestor, in the order the
\* code picks by comparing their text; an empty one is not walked.
Legs(c) ==
    LET orig == IF Stretch(c, "orig") = <<>> THEN <<>> ELSE <<"orig">>
        dest == IF Stretch(c, "dest") = <<>> THEN <<>> ELSE <<"dest">>
    IN  IF Before(Stretch(c, "orig"), Stretch(c, "dest")) THEN orig \o dest ELSE dest \o orig

\* The checks tfs_fs_move starts with: they compare a whole path with one
\* that is relative to the common ancestor.
MoveRejected(c) ==
    IF c.path = Stretch(c, "dest") THEN "OriginDestinationParent"
    ELSE IF c.dest = Stretch(c, "orig") THEN "DestinationOriginParent"
    ELSE "none"

\* The name a command looks up, or creates, in the directory it walks to,
\* and the one a move gives to it.
EntryOf(c) == LastName(IF c.op = "move" THEN OrigRest(c) ELSE c.path)
DestName(c) == LastName(DestRest(c))

Pc == {"idle", "lock", "walk", "found", "scan", "add", "lockchild", "child",
       "print", "release", "undo", "free"}
Result == {"none", "success", "InexistentParentDir", "ParentNotDir", "AddEntry",
           "NameNotFound", "ParentsNotDir", "RemoveNonEmptyDir",
           "OriginDestinationParent", "DestinationOriginParent",
           "InexistentCommonAncestor", "CommonAncestorNotDir",
           "InexistentOriginParentDir", "InexistentDestinationParentDir",
           "OriginParentNotDir", "DestinationParentNotDir", "OriginNotFound",
           "RenameEntry", "Create"}

TypeOK ==
    /\ TableTypeOK
    /\ cmd \in [Thread -> Command \cup {NoCommand}]
    /\ pc \in [Thread -> Pc]
    /\ stage \in [Thread -> Stage]
    /\ rest \in [Thread -> Seq(Name)]
    /\ target \in [Thread -> 0 .. Capacity]
    /\ locked \in [Thread -> [Stage -> Seq(Inode)]]
    /\ todo \in [Thread -> Seq(Inode)]
    /\ toPrint \in [Thread -> SUBSET Inode]
    /\ result \in [Thread -> Result]
    /\ aborted \in BOOLEAN

ThreadInit ==
    /\ cmd = [t \in Thread |-> NoCommand]
    /\ pc = [t \in Thread |-> "idle"]
    /\ stage = [t \in Thread |-> "common"]
    /\ rest = [t \in Thread |-> <<>>]
    /\ target = [t \in Thread |-> Root]
    /\ locked = [t \in Thread |-> [s \in Stage |-> <<>>]]
    /\ todo = [t \in Thread |-> <<>>]
    /\ toPrint = [t \in Thread |-> {}]
    /\ result = [t \in Thread |-> "none"]
    /\ aborted = FALSE

Init == TableInit /\ ThreadInit

-----------------------------------------------------------------------------
At(t, p) == ~aborted /\ pc[t] = p

\* The inode a thread has reached, and the two parents a move works on;
\* the other commands work on the one inode at the end of their path.
Cur(t) ==
    Last(IF locked[t][stage[t]] = <<>> THEN locked[t]["common"] ELSE locked[t][stage[t]])
OrigParent(t) ==
    Last(IF locked[t]["orig"] = <<>> THEN locked[t]["common"] ELSE locked[t]["orig"])
DestParent(t) ==
    Last(IF locked[t]["dest"] = <<>> THEN locked[t]["common"] ELSE locked[t]["dest"])
AllLocked(t) == locked[t]["common"] \o locked[t]["orig"] \o locked[t]["dest"]

\* The same, and the child; a fault: not the child.
LockedAndChild_NotChild(t) == AllLocked(t)
LockedAndChild(t) == Append(AllLocked(t), target[t])

Goto(t, p, i) ==
    /\ pc' = [pc EXCEPT ![t] = p]
    /\ target' = [target EXCEPT ![t] = i]
    /\ UNCHANGED <<cmd, stage, locked, todo, toPrint, result, aborted>>

\* The outcome is known: unlock the given inodes one after the other.
Finish(t, r, inodes, p) ==
    /\ result' = [result EXCEPT ![t] = r]
    /\ todo' = [todo EXCEPT ![t] = inodes]
    /\ pc' = [pc EXCEPT ![t] = p]
    /\ UNCHANGED <<cmd, stage, rest, target, locked, toPrint, aborted>>

Fail(t, r) == Finish(t, r, AllLocked(t), "release") /\ UNCHANGED tableVars

\* assert: the whole process ends here.
Abort == aborted' = TRUE /\ UNCHANGED <<tableVars, threadVars>>

-----------------------------------------------------------------------------
\* worker_thread_fn: a command arrives and its paths are split.
Receive(t) ==
    /\ At(t, "idle")
    /\ \E c \in Command :
          /\ c.op = "move" => MoveRejected(c) = "none"
          /\ cmd' = [cmd EXCEPT ![t] = c]
          /\ rest' = [rest EXCEPT ![t] = Stretch(c, "common")]
    /\ pc' = [pc EXCEPT ![t] = "lock"]
    /\ UNCHANGED <<tableVars, stage, target, locked, todo, toPrint, result, aborted>>

\* The errors found before any inode is locked: the checks of a move, and a
\* file to print to that cannot be opened.
ReceiveRejected(t) ==
    /\ At(t, "idle")
    /\ \E c \in Command :
          /\ c.op = "print" \/ (c.op = "move" /\ MoveRejected(c) # "none")
          /\ cmd' = [cmd EXCEPT ![t] = c]
          /\ result' = [result EXCEPT ![t] = IF c.op = "print" THEN "Create"
                                                            ELSE MoveRejected(c)]
    /\ pc' = [pc EXCEPT ![t] = "release"]
    /\ UNCHANGED <<tableVars, stage, rest, target, locked, todo, toPrint, aborted>>

\* tfs_fs_lock_all and tfs_fs_lock_all_from.  The last inode of the stretch
\* is locked with the access asked for, those on the way to it for reading.
Wanted(t) == IF rest[t] = <<>> THEN LastAccess(cmd[t], stage[t]) ELSE "shared"

Lock(t) ==
    /\ At(t, "lock")
    /\ LockInode(t, target[t], Wanted(t))
    /\ locked' = [locked EXCEPT ![t][stage[t]] = Append(@, target[t])]
    /\ pc' = [pc EXCEPT ![t] = IF rest[t] = <<>> THEN "found" ELSE "walk"]
    /\ UNCHANGED <<cmd, stage, rest, target, todo, toPrint, result, aborted>>

\* rw_lock.c:23,28: the lock call answers with an error.
LockErrno(t) ==
    /\ At(t, "lock") \/ At(t, "lockchild")
    /\ LockFails(t, target[t])
    /\ Abort

CanWalk(t) == type[Cur(t)] = "dir" /\ Head(rest[t]) \in Names(dir[Cur(t)])

Walk(t) ==
    /\ At(t, "walk")
    /\ CanWalk(t)
    /\ Goto(t, "lock", dir[Cur(t)].entry[Head(rest[t])])
    /\ rest' = [rest EXCEPT ![t] = Tail(@)]
    /\ UNCHANGED tableVars

\* The error of a stretch that does not exist, by its command.
WalkError(t) ==
    CASE cmd[t].op = "search" ->
            IF type[Cur(t)] = "dir" THEN "NameNotFound" ELSE "ParentsNotDir"
      [] cmd[t].op \in {"create", "remove"} -> "InexistentParentDir"
      [] cmd[t].op = "move" -> [common |-> "InexistentCommonAncestor",
                                orig |-> "InexistentOriginParentDir",
                                dest |-> "InexistentDestinationParentDir"][stage[t]]

\* A fault of WalkUnlocks: the root stays locked.
WalkUnlocks_NotRoot(t) == Tail(AllLocked(t))

\* The stretch unlocks its own inodes (the root last), then the caller those
\* of the common ancestor and of the other stretch.
WalkUnlocks(t) ==
    LET mine == locked[t] IN
    CASE stage[t] = "common" -> Append(Tail(mine["common"]), Root)
      [] stage[t] = "orig" -> mine["orig"] \o mine["common"] \o mine["dest"]
      [] stage[t] = "dest" -> mine["dest"] \o mine["common"] \o mine["orig"]

WalkFails(t) ==
    /\ At(t, "walk")
    /\ ~CanWalk(t)
    /\ Finish(t, WalkError(t), WalkUnlocks(t), "release")
    /\ UNCHANGED tableVars

-----------------------------------------------------------------------------
\* tfs_fs_find: the worker only names what it found, and unlocks it.
Search(t) ==
    /\ At(t, "found") /\ cmd[t].op = "search"
    /\ Finish(t, "success", AllLocked(t), "release")
    /\ UNCHANGED tableVars

\* tfs_fs_create and tfs_fs_remove, on the parent.
ParentNotDir(t) ==
    /\ At(t, "found") /\ cmd[t].op \in {"create", "remove"}
    /\ type[Cur(t)] # "dir"
    /\ Fail(t, "ParentNotDir")

\* tfs_fs_create: tfs_inode_table_add tries the slots one by one.
CreateScan(t) ==
    /\ At(t, "found") /\ cmd[t].op = "create"
    /\ type[Cur(t)] = "dir"
    /\ Goto(t, "scan", 0)
    /\ UNCHANGED <<tableVars, rest>>

\* The slot looked at next; and a fault, every other slot left out.
NextSlot_ByTwo(i) == i + 2
NextSlot(i) == i + 1

SkipSlot(t) ==
    /\ At(t, "scan") /\ target[t] < Capacity
    /\ ~SlotFree(target[t])
    /\ Goto(t, "scan", NextSlot(target[t]))
    /\ UNCHANGED <<tableVars, rest>>

TakeSlot(t) ==
    /\ At(t, "scan") /\ target[t] < Capacity
    /\ TakeInode(t, target[t], cmd[t].type)
    /\ Goto(t, "add", target[t])
    /\ UNCHANGED rest

\* table.c:57: no slot was free when the scan came by it.
TableFull(t) ==
    /\ At(t, "scan") /\ target[t] = Capacity
    /\ Abort

CreateEntry(t) ==
    /\ At(t, "add")
    /\ ~AddRefused(dir[Cur(t)], EntryOf(cmd[t]))
    /\ dir' = [dir EXCEPT ![Cur(t)] = AddEntry(@, EntryOf(cmd[t]), target[t])]
    /\ Finish(t, "success", LockedAndChild(t), "release")
    /\ UNCHANGED <<type, shared, unique>>

\* The new inode is given back, after the others are unlocked.
CreateFails(t) ==
    /\ At(t, "add")
    /\ AddRefused(dir[Cur(t)], EntryOf(cmd[t]))
    /\ Finish(t, "AddEntry", AllLocked(t), "undo")
    /\ UNCHANGED tableVars

FreeInode(t) ==
    /\ At(t, "free") \/ (At(t, "undo") /\ todo[t] = <<>>)
    /\ RemoveInode(t, target[t])
    /\ pc' = [pc EXCEPT ![t] = "release"]
    /\ UNCHANGED <<cmd, stage, rest, target, locked, todo, toPrint, result, aborted>>

-----------------------------------------------------------------------------
\* tfs_fs_move, once it has locked the common ancestor.
MovesToSelf(c) == OrigRest(c) = <<>> /\ DestRest(c) = <<>>
LegsLeft(t) ==
    LET legs == Legs(cmd[t]) IN
    CASE stage[t] = "common" -> legs
      [] stage[t] # "common" -> IF stage[t] = Head(legs) THEN Tail(legs) ELSE <<>>

MoveSelf(t) ==
    /\ At(t, "found") /\ cmd[t].op = "move" /\ stage[t] = "common"
    /\ MovesToSelf(cmd[t])
    /\ Finish(t, "success", AllLocked(t), "release")
    /\ UNCHANGED tableVars

CommonAncestorNotDir(t) ==
    /\ At(t, "found") /\ cmd[t].op = "move" /\ stage[t] = "common"
    /\ ~MovesToSelf(cmd[t]) /\ type[Cur(t)] # "dir"
    /\ Fail(t, "CommonAncestorNotDir")

\* The next of the two parents to walk to, from the common ancestor.
MoveLeg(t) ==
    /\ At(t, "found") /\ cmd[t].op = "move" /\ LegsLeft(t) # <<>>
    /\ stage[t] = "common" => type[Cur(t)] = "dir"
    /\ stage' = [stage EXCEPT ![t] = Head(LegsLeft(t))]
    /\ rest' = [rest EXCEPT ![t] = Stretch(cmd[t], Head(LegsLeft(t)))]
    /\ pc' = [pc EXCEPT ![t] = "walk"]
    /\ UNCHANGED <<tableVars, cmd, target, locked, todo, toPrint, result, aborted>>

MoveParentNotDir(t) ==
    /\ At(t, "found") /\ cmd[t].op = "move" /\ LegsLeft(t) = <<>>
    /\ stage[t] # "common"
    /\ type[OrigParent(t)] # "dir" \/ type[DestParent(t)] # "dir"
    /\ Fail(t, IF type[OrigParent(t)] # "dir" THEN "OriginParentNotDir"
                                              ELSE "DestinationParentNotDir")

\* tfs_fs_remove and tfs_fs_move look the entry up in the (origin) parent,
\* once every parent is locked and known to be a directory.
ParentsReady(t) ==
    /\ type[OrigParent(t)] = "dir" /\ type[DestParent(t)] = "dir"
    /\ \/ cmd[t].op = "remove"
       \/ cmd[t].op = "move" /\ LegsLeft(t) = <<>> /\ ~MovesToSelf(cmd[t])

FindChild(t) ==
    /\ At(t, "found") /\ ParentsReady(t)
    /\ EntryOf(cmd[t]) \in Names(dir[OrigParent(t)])
    /\ Goto(t, "lockchild", dir[OrigParent(t)].entry[EntryOf(cmd[t])])
    /\ UNCHANGED <<tableVars, rest>>

ChildMissing(t) ==
    /\ At(t, "found") /\ ParentsReady(t)
    /\ EntryOf(cmd[t]) \notin Names(dir[OrigParent(t)])
    /\ Fail(t, IF cmd[t].op = "remove" THEN "NameNotFound" ELSE "OriginNotFound")

\* The inode to remove or move is locked for writing; a fault: for reading.
ChildAccess_Shared == "shared"
ChildAccess == "unique"

LockChild(t) ==
    /\ At(t, "lockchild")
    /\ LockInode(t, target[t], ChildAccess)
    /\ Goto(t, "child", target[t])
    /\ UNCHANGED rest

-----------------------------------------------------------------------------
\* tfs_fs_remove, with the parent and the child locked.  A fault: the child
\* is not looked into.
Removable_Always(t) == TRUE
Removable(t) == type[target[t]] = "dir" => DirIsEmpty(dir[target[t]])

RemoveNonEmpty(t) ==
    /\ At(t, "child") /\ cmd[t].op = "remove"
    /\ ~Removable(t)
    /\ Finish(t, "RemoveNonEmptyDir", LockedAndChild(t), "release")
    /\ UNCHANGED tableVars

RemoveChild(t) ==
    /\ At(t, "child") /\ cmd[t].op = "remove"
    /\ Removable(t)
    /\ dir' = [dir EXCEPT ![Cur(t)] = RemoveEntry(@, EntryOf(cmd[t]))]
    /\ Finish(t, "success", AllLocked(t), "free")
    /\ UNCHANGED <<type, shared, unique>>

\* tfs_fs_move within one directory.
Renames(t) == At(t, "child") /\ cmd[t].op = "move" /\ Legs(cmd[t]) = <<>>

RenameChild(t) ==
    /\ Renames(t)
    /\ ~RenameRefused(dir[Cur(t)], EntryOf(cmd[t]), DestName(cmd[t]))
    /\ dir' = [dir EXCEPT ![Cur(t)] = RenameEntry(@, EntryOf(cmd[t]), DestName(cmd[t]))]
    /\ Finish(t, "success", LockedAndChild(t), "release")
    /\ UNCHANGED <<type, shared, unique>>

RenameFails(t) ==
    /\ Renames(t)
    /\ RenameRefused(dir[Cur(t)], EntryOf(cmd[t]), DestName(cmd[t]))
    /\ Finish(t, "RenameEntry", LockedAndChild(t), "release")
    /\ UNCHANGED tableVars

\* tfs_fs_move between two directories.
Transfers(t) == At(t, "child") /\ cmd[t].op = "move" /\ Legs(cmd[t]) # <<>>

\* The directories after the move; a fault: the old entry is not removed.
Transferred_KeepsOrigin(t) ==
    [dir EXCEPT ![DestParent(t)] = AddEntry(@, DestName(cmd[t]), target[t])]
Transferred(t) ==
    LET added == [dir EXCEPT ![DestParent(t)] = AddEntry(@, DestName(cmd[t]), target[t])]
    IN  [added EXCEPT ![OrigParent(t)] = RemoveEntry(@, EntryOf(cmd[t]))]

MoveChild(t) ==
    /\ Transfers(t)
    /\ ~AddRefused(dir[DestParent(t)], DestName(cmd[t]))
    /\ dir' = Transferred(t)
    /\ Finish(t, "success", LockedAndChild(t), "release")
    /\ UNCHANGED <<type, shared, unique>>

\* fs.c:538: unlike the error path of a rename, this one leaves the moved
\* inode locked.
MoveFails(t) ==
    /\ Transfers(t)
    /\ AddRefused(dir[DestParent(t)], DestName(cmd[t]))
    /\ Fail(t, "AddEntry")

-----------------------------------------------------------------------------
\* tfs_fs_print: only the root is locked; tfs_inode_table_print_tree visits
\* what it reaches from there without a lock.  The code visits in pre-order,
\* by array slots; the slots are abstracted, and so is the order.
PrintStart(t) ==
    /\ At(t, "found") /\ cmd[t].op = "print"
    /\ pc' = [pc EXCEPT ![t] = "print"]
    /\ toPrint' = [toPrint EXCEPT ![t] = {Root}]
    /\ UNCHANGED <<tableVars, cmd, stage, rest, target, locked, todo, result, aborted>>

PrintVisit(t) ==
    /\ At(t, "print")
    /\ \E i \in toPrint[t] :
          toPrint' = [toPrint EXCEPT ![t] =
              (@ \ {i}) \cup IF type[i] = "dir" THEN Children(dir[i]) ELSE {}]
    /\ UNCHANGED <<tableVars, cmd, pc, stage, rest, target, locked, todo, result, aborted>>

PrintDone(t) ==
    /\ At(t, "print") /\ toPrint[t] = {}
    /\ Finish(t, "success", AllLocked(t), "release")
    /\ UNCHANGED tableVars

-----------------------------------------------------------------------------
Unlock(t) ==
    /\ At(t, "release") \/ At(t, "undo")
    /\ todo[t] # <<>>
    /\ UnlockInode(t, Head(todo[t]))
    /\ todo' = [todo EXCEPT ![t] = Tail(@)]
    /\ UNCHANGED <<cmd, pc, stage, rest, target, locked, toPrint, result, aborted>>

\* The answer is sent, and the thread waits for the next command.
Reply(t) ==
    /\ At(t, "release") /\ todo[t] = <<>>
    /\ cmd' = [cmd EXCEPT ![t] = NoCommand]
    /\ pc' = [pc EXCEPT ![t] = "idle"]
    /\ stage' = [stage EXCEPT ![t] = "common"]
    /\ rest' = [rest EXCEPT ![t] = <<>>]
    /\ target' = [target EXCEPT ![t] = Root]
    /\ locked' = [locked EXCEPT ![t] = [s \in Stage |-> <<>>]]
    /\ result' = [result EXCEPT ![t] = "none"]
    /\ UNCHANGED <<tableVars, todo, toPrint, aborted>>

\* Everything a thread does for the command it has.
Work(t) ==
    \/ Lock(t) \/ LockErrno(t) \/ Walk(t) \/ WalkFails(t) \/ Search(t)
    \/ ParentNotDir(t) \/ CreateScan(t) \/ SkipSlot(t) \/ TakeSlot(t) \/ TableFull(t)
    \/ CreateEntry(t) \/ CreateFails(t) \/ FreeInode(t)
    \/ MoveSelf(t) \/ CommonAncestorNotDir(t) \/ MoveLeg(t) \/ MoveParentNotDir(t)
    \/ FindChild(t) \/ ChildMissing(t) \/ LockChild(t)
    \/ RemoveNonEmpty(t) \/ RemoveChild(t)
    \/ RenameChild(t) \/ RenameFails(t) \/ MoveChild(t) \/ MoveFails(t)
    \/ PrintStart(t) \/ PrintVisit(t) \/ PrintDone(t)
    \/ Unlock(t) \/ Reply(t)

Next == \E t \in Thread : Receive(t) \/ ReceiveRejected(t) \/ Work(t)

Spec == Init /\ [][Next]_vars

\* The scheduler runs every thread that can run; nothing is assumed of the
\* clients, nor of the order in which waiting threads get a lock.
Fairness == \A t \in Thread : WF_vars(Work(t))
FairSpec == Spec /\ Fairness
=============================================================================
