------------------------------ MODULE TfsFsProps ------------------------------
(***************************************************************************)
(* What TfsFs is for: the properties its runs check.  TfsFsProofs,         *)
(* TfsAtomicProofs and TfsLocksProofs prove them, but for the last, the    *)
(* one about progress.                                                     *)
(***************************************************************************)
EXTENDS TfsFs, TfsNamespace

\* The places at which a thread has locked its way down and not let go yet.
Walking == {"lock", "walk", "found", "scan", "add", "lockchild", "child", "print"}

\* i is the entry n of the directory d, and in use.
Links(d, n, i) == n \in Names(dir[d]) /\ dir[d].entry[n] = i /\ type[i] # "none"

\* Every thread that works on a path holds the lock of each inode on it, and
\* these inodes still follow from one another by the names of the path: no
\* other thread moves or removes a directory under it.  (fs.c:8: "lock all
\* inodes until a given directory starting from a locked inode".)
PathHeld ==
    \A t \in Thread : pc[t] \in Walking =>
        \A s \in Stage :
            LET chain == locked[t][s]
                comps == Stretch(cmd[t], s)
            IN  /\ \A k \in 1 .. Len(chain) : t \in Holders(chain[k])
                /\ s = "common" =>
                      /\ chain # <<>> => chain[1] = Root
                      /\ \A k \in 1 .. Len(chain) - 1 : Links(chain[k], comps[k], chain[k + 1])
                /\ s # "common" =>
                      \A k \in 1 .. Len(chain) :
                          Links(IF k = 1 THEN Last(locked[t]["common"]) ELSE chain[k - 1],
                                comps[k], chain[k])

-----------------------------------------------------------------------------
\* The locks a thread has at each place, which is what entitles it to read
\* and write there.  These are the parts of one inductive invariant.

\* Where a thread is in its command.
Located(t) ==
    /\ pc[t] = "idle" =>
          stage[t] = "common" /\ rest[t] = <<>> /\ locked[t] = [s \in Stage |-> <<>>]
    /\ pc[t] # "idle" => cmd[t] \in Command
    /\ pc[t] # "scan" => target[t] \in Inode
    /\ pc[t] = "walk" => rest[t] # <<>>
    /\ cmd[t].op = "print" => rest[t] = <<>>
    /\ pc[t] \in {"scan", "add"} => cmd[t].op = "create"
    /\ pc[t] \in {"lockchild", "child"} =>
          cmd[t].op = "remove" \/ (cmd[t].op = "move" /\ LegsLeft(t) = <<>>)

\* The stretch s is walked to its end, and the last inode is locked with the
\* access the command needs there.
Reaches(t, s) ==
    /\ locked[t][s] # <<>>
    /\ LastAccess(cmd[t], s) = "unique" => t \in unique[Last(locked[t][s])]

\* The stretches walked: all before the one t is in, that one when t is past
\* its end, and none that is empty or of another command.
Walked(t) ==
    /\ stage[t] # "common" => cmd[t].op = "move" /\ Stretch(cmd[t], stage[t]) # <<>>
    /\ \A s \in Stage \ {"common"} : locked[t][s] # <<>> =>
          cmd[t].op = "move" /\ Stretch(cmd[t], s) # <<>>
    /\ pc[t] \in Walking =>
          /\ pc[t] \notin {"lock", "walk"} => Reaches(t, stage[t])
          /\ pc[t] = "walk" => locked[t]["common"] # <<>>
          /\ stage[t] # "common" => Reaches(t, "common")
          /\ stage[t] # "common" /\ stage[t] # Head(Legs(cmd[t])) => Reaches(t, Head(Legs(cmd[t])))

\* A thread has what it locked, and the inode it is to link, unlink or free.
Owned(t) ==
    /\ pc[t] \in Walking =>
          \A s \in Stage : \A k \in 1 .. Len(locked[t][s]) : t \in Holders(locked[t][s][k])
    /\ pc[t] \in {"add", "child", "undo", "free"} => t \in unique[target[t]]
    /\ pc[t] = "add" =>
          \A s \in Stage : \A k \in 1 .. Len(locked[t][s]) : locked[t][s][k] # target[t]
    /\ pc[t] = "undo" => \A k \in 1 .. Len(todo[t]) : todo[t][k] # target[t]

\* An entry that is looked up stays what it was until its inode is locked and
\* the entry is removed or renamed.
EntryKept(t) ==
    pc[t] \in {"lockchild", "child"} =>
        /\ EntryOf(cmd[t]) \in Names(dir[OrigParent(t)])
        /\ dir[OrigParent(t)].entry[EntryOf(cmd[t])] = target[t]

\* One writer, and no reader beside it.
WriterAlone ==
    \A i \in Inode, t \in Thread : t \in unique[i] => unique[i] = {t} /\ shared[i] = {}

\* At every place each thread has the locks that place needs.  (table.h:61:
\* "_Must_ be locked and non-empty"; table.h:66: "_Must_ be locked for unique
\* access".)
LocksOwned ==
    /\ WriterAlone
    /\ \A t \in Thread : Located(t) /\ Walked(t) /\ Owned(t) /\ EntryKept(t)

WriteGuarded ==
    \A i \in Inode : dir'[i] # dir[i] \/ type'[i] # type[i] =>
        \E t \in Thread :
            \/ unique[i] = {t} /\ shared[i] = {}
            \/ unique'[i] = {t} /\ shared'[i] = {}

\* No race: an inode changes only in the hands of a thread that has it for
\* writing, while nobody else has it.  That is also why TfsFs may take what
\* a thread does between two lock operations as one step.
OnlyWriterWrites == [][WriteGuarded]_vars

-----------------------------------------------------------------------------
\* The inode found by name is still there, in use and under that name when
\* its lock is granted, however long that takes.  (fs.c:231: "as we have the
\* parent locked, we guarantee `idx` will stay alive until we can lock it";
\* the assertion at table.c:74.)
TargetLinked ==
    \A t \in Thread :
        /\ pc[t] = "lock" /\ locked[t]["common"] # <<>> =>
              LET comps == Stretch(cmd[t], stage[t])
              IN  Links(Cur(t), comps[Len(comps) - Len(rest[t])], target[t])
        /\ pc[t] \in {"lockchild", "child"} =>
              Links(OrigParent(t), EntryOf(cmd[t]), target[t])

\* The inodes some directory names.
Linked == UNION {Children(dir[i]) : i \in Inode}

\* The directories form a tree: the root is one, what is in use but not the
\* root or an inode on its way in or out has exactly one name, nothing else
\* has a name, only directories have entries, and following the names up
\* from any inode ends at the root.
InTransit(i) ==
    \E t \in Thread : target[t] = i /\ pc[t] \in {"add", "undo", "free"}
Named(i) == {e \in Inode \X EntryName : e[2] \in Names(dir[e[1]]) /\ dir[e[1]].entry[e[2]] = i}

TreeShape ==
    /\ type[Root] = "dir" /\ Named(Root) = {}
    /\ \A i \in Inode \ {Root} :
          IF type[i] = "none" \/ InTransit(i) THEN Named(i) = {} ELSE Cardinality(Named(i)) = 1
    /\ \A i \in Inode : type[i] # "dir" => Names(dir[i]) = {}
    /\ \A S \in SUBSET Linked : S # {} =>
          \E i \in S : \A e \in Named(i) : e[1] \notin S

\* Nobody moves an entry onto its own directory, which would give it the
\* empty name (the finding of the run empty_name).
NoMoveToParent ==
    \A c \in Command : c.op = "move" /\ c.path # <<>> => c.dest # ParentPath(c.path)

\* No entry has the empty name.  (dir.h:41.)
NoEmptyName == \A i \in Inode : NoName \notin Names(dir[i])

\* The tree a print walks through without locking it does not change while
\* it does, and what it has still to visit is in use.  (table.c:106.)
PrintStable ==
    [][\A t \in Thread : pc[t] = "print" /\ pc'[t] = "print" =>
          /\ \A i \in Linked \cup {Root} : dir'[i] = dir[i] /\ type'[i] = type[i]
          /\ \A i \in toPrint[t] : type[i] # "none"]_vars

\* What a client sees: the paths that lead from the root to an inode, each
\* with its type.
Namespace == NamespaceOf(dir, type)

\* Commands that run at the same time are answered as if each had run by
\* itself at some instant while it ran: the outcome of every command, and
\* every error it reports, is right for the tree at the instant its result
\* is decided.  (fs.h:24-29.)
Atomic == INSTANCE AtomicFs WITH tree <- Namespace, outcome <- result
Linearizable == Atomic!AtomicSpec

\* A worker waiting for a command has no inode locked.  (fs.h:365.)
IdleHoldsNothing ==
    \A t \in Thread, i \in Inode : pc[t] = "idle" => t \notin Holders(i)

\* No group of threads wait for one another.
Waits(t) == pc[t] \in {"lock", "lockchild"}
AccessWanted(t) == IF pc[t] = "lock" THEN Wanted(t) ELSE "unique"
BlockedBy(t) ==
    IF ~Waits(t) THEN {}
    ELSE unique[target[t]] \cup (IF AccessWanted(t) = "unique" THEN shared[target[t]] ELSE {})
NoWaitCycle ==
    \A S \in SUBSET Thread : S # {} => \E t \in S : ~Waits(t) \/ BlockedBy(t) \cap S = {}

\* A move that walks two legs below the common ancestor begins with the one
\* whose first name is smaller.  tfs_fs_move compares the lengths of their
\* texts before that (util.h:39), so this holds of texts of one length.
LegsFollow(rank) ==
    \A c \in Command : c.op = "move" /\ Len(Legs(c)) = 2 =>
        rank[Head(Stretch(c, Legs(c)[1]))] < rank[Head(Stretch(c, Legs(c)[2]))]

\* Every command is answered, if clients stop sending commands at some time.
\* (Without that readers may keep a writer waiting forever: pthread_rwlock_t
\* prefers readers.)
Quiet == <>[][\A t \in Thread : ~(Receive(t) \/ ReceiveRejected(t))]_vars
EveryCommandAnswered ==
    Quiet => \A t \in Thread : pc[t] # "idle" ~> pc[t] = "idle"
=============================================================================
