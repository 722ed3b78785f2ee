---------------------------- MODULE TfsAtomicProofs ----------------------------
(***************************************************************************)
(* For every table, set of threads, names and commands: commands that run  *)
(* at the same time are answered as if each had run by itself at one       *)
(* instant (FsIsLinearizable).                                             *)
(*                                                                         *)
(* The instant is the step that decides the outcome of the command.  There *)
(* the thread stands at the end of the path it has walked from the root,   *)
(* with every inode of it locked (Trod, TrodLeads), so the paths of the    *)
(* command lead, or fail to lead, where its outcome says.  That it is      *)
(* the whole way it was to walk is what Course adds to the invariant of    *)
(* TfsFsProofs.                                                            *)
(***************************************************************************)
EXTENDS TfsFsProofs

-----------------------------------------------------------------------------
\* The invariant.

\* A command has no outcome while its thread walks, and one from then on.
Decided(t) ==
    /\ pc[t] = "idle" => cmd[t] = NoCommand
    /\ result[t] = "none" <=> pc[t] \in Walking \cup {"idle"}

\* The stretches before the one a move is in are walked to their ends.
Complete(t) ==
    pc[t] \in Walking /\ stage[t] # "common" =>
        /\ Len(locked[t]["common"]) = Len(Stretch(cmd[t], "common")) + 1
        /\ stage[t] # Head(Legs(cmd[t])) =>
              Len(locked[t][Head(Legs(cmd[t]))]) = Len(Stretch(cmd[t], Head(Legs(cmd[t]))))

\* A new inode is of the type the command asks for.
Typed(t) == pc[t] = "add" => type[target[t]] = cmd[t].type

Course == \A t \in Thread : Decided(t) /\ Complete(t) /\ Typed(t)

\* The actions that decide the outcome of a command.
Ending(t) ==
    \/ WalkFails(t) \/ Search(t) \/ ParentNotDir(t) \/ CreateEntry(t) \/ CreateFails(t)
    \/ MoveSelf(t) \/ CommonAncestorNotDir(t) \/ MoveParentNotDir(t) \/ ChildMissing(t)
    \/ RemoveNonEmpty(t) \/ RemoveChild(t) \/ RenameChild(t) \/ RenameFails(t)
    \/ MoveChild(t) \/ MoveFails(t) \/ PrintDone(t)

\* Each of them leaves the walk with an outcome, and lets go from then on.
LEMMA EndingDecides ==
    ASSUME IInv, NEW t \in Thread, Ending(t)
    PROVE  /\ pc[t] \in Walking /\ pc'[t] \in {"release", "undo", "free"}
           /\ cmd' = cmd /\ result' = [result EXCEPT ![t] = result'[t]]
           /\ result'[t] # "none"
<1>1. ThreadTypeOK /\ Part(t)
    BY IInvParts
<1>2. WalkFails(t) => WalkError(t) # "none"
    <2> SUFFICES ASSUME WalkFails(t) PROVE WalkError(t) # "none"
        OBVIOUS
    <2>1. stage[t] \in Stage /\ cmd[t] \in Command /\ rest[t] # <<>>
        BY <1>1 DEF ThreadTypeOK, Part, Located, WalkFails, At
    <2>2. cmd[t].op \in {"create", "remove", "search", "move"}
        BY <1>1, <2>1, CommandFields DEF Part, Located
    <2> QED
        BY <2>1, <2>2 DEF WalkError, Stage
<1>3. \A r, inodes, p : Finish(t, r, inodes, p) /\ r # "none" /\ p \in {"release", "undo", "free"} =>
          /\ pc'[t] \in {"release", "undo", "free"}
          /\ cmd' = cmd /\ result' = [result EXCEPT ![t] = result'[t]] /\ result'[t] # "none"
    BY <1>1 DEF Finish, ThreadTypeOK
<1>4. PICK r, inodes, p : Finish(t, r, inodes, p) /\ r # "none" /\ p \in {"release", "undo", "free"}
    BY <1>2 DEF Ending, WalkFails, Search, ParentNotDir, CreateEntry, CreateFails, MoveSelf,
       CommonAncestorNotDir, MoveParentNotDir, ChildMissing, RemoveNonEmpty, RemoveChild,
       RenameChild, RenameFails, MoveChild, MoveFails, PrintDone, Fail
<1>5. pc[t] \in Walking
    BY DEF Ending, WalkFails, Search, ParentNotDir, CreateEntry, CreateFails, MoveSelf,
       CommonAncestorNotDir, MoveParentNotDir, ChildMissing, RemoveNonEmpty, RemoveChild,
       Renames, RenameChild, RenameFails, Transfers, MoveChild, MoveFails, PrintDone, At, Walking
<1> QED
    BY <1>3, <1>4, <1>5

\* The other steps of a thread, by what they do to the outcome: it begins or
\* refuses a command, goes on walking, lets go, answers, or is stopped.
WalkingOn(t) ==
    \/ Lock(t) \/ Walk(t) \/ CreateScan(t) \/ SkipSlot(t) \/ TakeSlot(t) \/ MoveLeg(t)
    \/ FindChild(t) \/ LockChild(t) \/ PrintStart(t) \/ PrintVisit(t)
LettingGo(t) == FreeInode(t) \/ Unlock(t)
Stopping(t) == LockErrno(t) \/ TableFull(t)

\* Every step is of one of these kinds.
LEMMA StepKinds ==
    ASSUME NEW t, Step(t)
    PROVE  \/ Receive(t) \/ ReceiveRejected(t) \/ Ending(t) \/ WalkingOn(t) \/ LettingGo(t)
           \/ Reply(t) \/ Stopping(t)
BY DEF Step, Work, Ending, WalkingOn, LettingGo, Stopping

\* A thread that goes on walking has no outcome yet.
LEMMA WalksOn ==
    ASSUME IInv, NEW t \in Thread, WalkingOn(t)
    PROVE  /\ pc[t] \in Walking /\ pc'[t] \in Walking
           /\ cmd' = cmd /\ result' = result
<1>1. ThreadTypeOK
    BY IInvParts
<1>2. CASE Lock(t) \/ MoveLeg(t) \/ PrintStart(t) \/ PrintVisit(t)
    BY <1>1, <1>2 DEF ThreadTypeOK, Lock, MoveLeg, PrintStart, PrintVisit, At, Walking
<1>3. CASE Walk(t) \/ CreateScan(t) \/ SkipSlot(t) \/ TakeSlot(t) \/ FindChild(t) \/ LockChild(t)
    BY <1>1, <1>3
    DEF ThreadTypeOK, Walk, CreateScan, SkipSlot, TakeSlot, FindChild, LockChild, Goto, At, Walking
<1> QED
    BY <1>2, <1>3 DEF WalkingOn

\* A thread that lets go has its outcome already.
LEMMA LetsGo ==
    ASSUME IInv, NEW t \in Thread, LettingGo(t)
    PROVE  /\ pc[t] \notin Walking \cup {"idle"} /\ pc'[t] \notin Walking \cup {"idle"}
           /\ cmd' = cmd /\ result' = result
<1>1. ThreadTypeOK
    BY IInvParts
<1> QED
    BY <1>1 DEF ThreadTypeOK, LettingGo, FreeInode, Unlock, At, Walking

\* A thread without a command has none of the commands.
LEMMA NoCommandApart == NoCommand \notin Command
<1>1. \A c \in Command : c.op # "none"
    BY CommandFields
<1> QED
    BY <1>1 DEF NoCommand

\* Every step keeps the outcomes in their place.
LEMMA DecidedStays ==
    ASSUME IInv, NEW t \in Thread, Step(t), \A u \in Thread : Decided(u)
    PROVE  \A u \in Thread : Decided(u)'
<1>1. ThreadTypeOK /\ Decided(t)
    BY IInvParts
<1>2. OthersStay(t)
    BY StepFacts
<1>3. CASE Receive(t)
    <2>1. result' = result /\ pc'[t] = "lock" /\ pc[t] = "idle"
        BY <1>1, <1>3 DEF Receive, At, ThreadTypeOK
    <2> QED
        BY <1>1, <1>2, <2>1 DEF Decided, OthersStay, Walking
<1>4. CASE ReceiveRejected(t)
    <2>1. PICK c \in Command :
              /\ c.op = "print" \/ (c.op = "move" /\ MoveRejected(c) # "none")
              /\ result' = [result EXCEPT ![t] = IF c.op = "print" THEN "Create"
                                                                ELSE MoveRejected(c)]
        BY <1>4 DEF ReceiveRejected
    <2>2. result'[t] # "none" /\ \A u \in Thread \ {t} : result'[u] = result[u]
        BY <1>1, <2>1 DEF ThreadTypeOK
    <2>3. pc'[t] = "release"
        BY <1>1, <1>4 DEF ReceiveRejected, ThreadTypeOK
    <2> QED
        BY <1>2, <2>2, <2>3 DEF Decided, OthersStay, Walking
<1>5. CASE Ending(t)
    <2>1. /\ pc[t] \in Walking /\ pc'[t] \in {"release", "undo", "free"}
          /\ result' = [result EXCEPT ![t] = result'[t]] /\ result'[t] # "none"
        BY <1>5, EndingDecides
    <2>2. \A u \in Thread \ {t} : result'[u] = result[u]
        BY <1>1, <2>1 DEF ThreadTypeOK
    <2>3. pc'[t] \notin Walking \cup {"idle"}
        BY <2>1 DEF Walking
    <2> QED
        BY <1>2, <2>1, <2>2, <2>3 DEF Decided, OthersStay
<1>6. CASE WalkingOn(t)
    <2>1. pc[t] \in Walking /\ pc'[t] \in Walking /\ result' = result
        BY <1>6, WalksOn
    <2>2. pc'[t] # "idle"
        BY <2>1 DEF Walking
    <2> QED
        BY <1>2, <2>1, <2>2 DEF Decided, OthersStay
<1>7. CASE LettingGo(t)
    BY <1>2, <1>7, LetsGo DEF Decided, OthersStay
<1>8. CASE Reply(t)
    <2>1. /\ pc'[t] = "idle" /\ cmd'[t] = NoCommand /\ result'[t] = "none"
          /\ \A u \in Thread \ {t} : result'[u] = result[u]
        BY <1>1, <1>8 DEF Reply, ThreadTypeOK
    <2> QED
        BY <1>2, <2>1 DEF Decided, OthersStay
<1>9. CASE Stopping(t)
    BY <1>9 DEF Stopping, LockErrno, TableFull, Abort, threadVars, Decided
<1> QED
    BY <1>3, <1>4, <1>5, <1>6, <1>7, <1>8, <1>9, StepKinds

\* At the end of a stretch as many inodes are locked as it has components.
LEMMA StretchDone ==
    ASSUME IInv, NEW t \in Thread, Placed(t), pc[t] \in Walking \ {"lock", "walk"}
    PROVE  Len(locked[t][stage[t]]) =
               Len(Stretch(cmd[t], stage[t])) + (IF stage[t] = "common" THEN 1 ELSE 0)
<1>1. ThreadTypeOK /\ cmd[t] \in Command
    BY IInvParts DEF Part, Located, Walking
<1>2. Stretch(cmd[t], stage[t]) \in Seq(Name)
    BY <1>1, StretchIsPath DEF ThreadTypeOK
<1>3. rest[t] = <<>> /\ Len(<<>>) = 0 /\ Len(Stretch(cmd[t], stage[t])) \in Nat
    BY <1>2, LenProperties DEF Placed
<1>4. PICK c \in {0, 1} : c = IF stage[t] = "common" THEN 1 ELSE 0
    OBVIOUS
<1>5. Len(locked[t][stage[t]]) = (Len(Stretch(cmd[t], stage[t])) - Len(rest[t])) + c - 0
    BY <1>4 DEF Placed
<1> QED
    BY <1>3, <1>4, <1>5

\* Where the legs of a move are walked in turn.
LEMMA LegsInTurn ==
    ASSUME IInv, NEW t \in Thread, LegsLeft(t) # <<>>
    PROVE  /\ stage[t] = "common" => Head(LegsLeft(t)) = Head(Legs(cmd[t]))
           /\ stage[t] # "common" => stage[t] = Head(Legs(cmd[t]))
BY DEF LegsLeft

\* Every step leaves finished stretches finished.
LEMMA CompleteStays ==
    ASSUME IInv, NEW t \in Thread, Step(t), Placed(t), \A u \in Thread : Complete(u)
    PROVE  \A u \in Thread : Complete(u)'
<1>1. ThreadTypeOK /\ Part(t) /\ Complete(t)
    BY IInvParts
<1>2. OthersStay(t)
    BY StepFacts
<1>3. \A u \in Thread \ {t} : Complete(u)'
    BY <1>2 DEF Complete, OthersStay
<1>4. CASE Receive(t)
    <2>1. stage'[t] = "common"
        BY <1>1, <1>4 DEF Receive, At, Part, Located
    <2> QED
        BY <1>3, <2>1 DEF Complete
<1>5. CASE ReceiveRejected(t) \/ Ending(t) \/ LettingGo(t) \/ Reply(t)
    <2>1. pc'[t] \notin Walking
        <3>1. CASE ReceiveRejected(t) \/ Reply(t)
            BY <1>1, <3>1 DEF ReceiveRejected, Reply, ThreadTypeOK, Walking
        <3>2. CASE Ending(t)
            BY <3>2, EndingDecides DEF Walking
        <3>3. CASE LettingGo(t)
            BY <3>3, LetsGo
        <3> QED
            BY <1>5, <3>1, <3>2, <3>3
    <2> QED
        BY <1>3, <2>1 DEF Complete
<1>6. CASE Lock(t)
    <2>1. /\ stage' = stage /\ cmd' = cmd /\ pc[t] \in Walking
          /\ \A s \in Stage \ {stage[t]} : locked'[t][s] = locked[t][s]
        BY <1>1, <1>6 DEF Lock, At, Walking, ThreadTypeOK
    <2>2. ASSUME stage[t] # "common", stage[t] # Head(Legs(cmd[t]))
          PROVE  Head(Legs(cmd[t])) \in Stage
        <3>1. Stretch(cmd[t], stage[t]) # <<>> /\ stage[t] \in {"orig", "dest"}
            BY <1>1, <2>2 DEF Part, Walked, ThreadTypeOK, Stage
        <3>2. Legs(cmd[t]) # <<>>
            BY <3>1, LegsShape
        <3> QED
            BY <3>1, <3>2, LegsShape DEF Stage
    <2>3. "common" \in Stage
        BY DEF Stage
    <2>4. Complete(t)'
        BY <1>1, <2>1, <2>2, <2>3 DEF Complete
    <2> QED
        BY <1>3, <2>4
<1>7. CASE WalkingOn(t) /\ ~Lock(t) /\ ~MoveLeg(t)
    <2>1. pc[t] \in Walking /\ cmd' = cmd
        BY <1>7, WalksOn
    <2>2. stage' = stage /\ locked' = locked
        BY <1>7 DEF WalkingOn, Walk, CreateScan, SkipSlot, TakeSlot, FindChild, LockChild,
           PrintStart, PrintVisit, Goto
    <2>3. Complete(t)'
        BY <1>1, <2>1, <2>2 DEF Complete
    <2> QED
        BY <1>3, <2>3
<1>8. CASE MoveLeg(t)
    <2>1. /\ cmd' = cmd /\ locked' = locked /\ LegsLeft(t) # <<>> /\ pc[t] = "found"
          /\ stage'[t] = Head(LegsLeft(t))
        BY <1>1, <1>8 DEF MoveLeg, At, ThreadTypeOK
    <2>2. Len(locked[t][stage[t]]) =
              Len(Stretch(cmd[t], stage[t])) + (IF stage[t] = "common" THEN 1 ELSE 0)
        BY <2>1, StretchDone DEF Walking
    <2>3. CASE stage[t] = "common"
        <3>1. Len(locked[t]["common"]) = Len(Stretch(cmd[t], "common")) + 1
            BY <2>2, <2>3
        <3>2. stage'[t] = Head(Legs(cmd[t]))
            BY <2>1, <2>3, LegsInTurn
        <3> QED
            BY <1>3, <2>1, <3>1, <3>2 DEF Complete
    <2>4. CASE stage[t] # "common"
        <3>1. stage[t] = Head(Legs(cmd[t]))
            BY <2>1, <2>4, LegsInTurn
        <3>2. Len(locked[t][stage[t]]) = Len(Stretch(cmd[t], stage[t]))
            <4>1. Stretch(cmd[t], stage[t]) \in Seq(Name)
                BY <1>1, <2>1, StretchIsPath DEF Part, Located, ThreadTypeOK
            <4>2. Len(Stretch(cmd[t], stage[t])) \in Nat
                BY <4>1, LenProperties
            <4> QED
                BY <2>2, <2>4, <4>2
        <3>3. Len(locked[t]["common"]) = Len(Stretch(cmd[t], "common")) + 1
            BY <1>1, <2>1, <2>4 DEF Complete, Walking
        <3> QED
            BY <1>3, <2>1, <3>1, <3>2, <3>3 DEF Complete
    <2> QED
        BY <2>3, <2>4
<1>9. CASE Stopping(t)
    BY <1>9 DEF Stopping, LockErrno, TableFull, Abort, threadVars, Complete
<1> QED
    BY <1>4, <1>5, <1>6, <1>7, <1>8, <1>9, StepKinds DEF WalkingOn

-----------------------------------------------------------------------------
\* Where a thread stands, as a path.

\* The directories are as the lemmas about paths need them.
LEMMA TreeIsTidy ==
    ASSUME IInv, Structure
    PROVE  dir \in [Inode -> Dir] /\ Tidy(dir)
BY IInvParts, BaseAssumption DEF TableTypeOK, Structure, NamesOnce, EntriesFit, Tidy, Root, Inode

\* The same, after a step.
LEMMA TreeStaysTidy ==
    ASSUME IInv', Structure'
    PROVE  dir' \in [Inode -> Dir] /\ Tidy(dir')
<1>1. dir' \in [Inode -> Dir]
    BY DEF IInv, TypeOK, TableTypeOK
<1> QED
    BY <1>1, BaseAssumption DEF Structure, NamesOnce, EntriesFit, Tidy, Root, Inode

\* The path a thread has walked in a stretch, from the root, and its end.
Trod(t, s) ==
    IF s = "common" THEN SubSeq(Stretch(cmd[t], "common"), 1, Len(locked[t]["common"]) - 1)
    ELSE Join(Stretch(cmd[t], "common"), SubSeq(Stretch(cmd[t], s), 1, Len(locked[t][s])))
Foot(t, s) == Last(IF locked[t][s] = <<>> THEN locked[t]["common"] ELSE locked[t][s])

\* Where a thread stands, and where the parents of a move are.
LEMMA FeetAre ==
    ASSUME NEW t
    PROVE  Cur(t) = Foot(t, stage[t]) /\ OrigParent(t) = Foot(t, "orig") /\ DestParent(t) = Foot(t, "dest")
BY DEF Cur, OrigParent, DestParent, Foot

\* As many inodes are locked as there are components, at the most.
LEMMA LockedLen ==
    ASSUME IInv, NEW t \in Thread, Placed(t), Complete(t), pc[t] \in Walking,
           locked[t]["common"] # <<>>, NEW s \in Stage, s = "common" \/ stage[t] # "common"
    PROVE  /\ Stretch(cmd[t], s) \in Seq(Name) /\ locked[t][s] \in Seq(Inode)
           /\ s = "common" => Len(locked[t][s]) - 1 \in 0 .. Len(Stretch(cmd[t], s))
           /\ s # "common" => Len(locked[t][s]) \in 0 .. Len(Stretch(cmd[t], s))
           /\ stage[t] # "common" =>
                 Len(locked[t]["common"]) = Len(Stretch(cmd[t], "common")) + 1
<1>1. ThreadTypeOK /\ cmd[t] \in Command
    BY IInvParts DEF Part, Located, Walking
<1>2. Stretch(cmd[t], s) \in Seq(Name) /\ locked[t][s] \in Seq(Inode) /\ rest[t] \in Seq(Name) /\ stage[t] \in Stage
    BY <1>1, StretchIsPath DEF ThreadTypeOK
<1>3. Len(Stretch(cmd[t], s)) \in Nat /\ Len(locked[t][s]) \in Nat /\ Len(rest[t]) \in Nat /\ Len(<<>>) = 0
    BY <1>2, LenProperties
<1>4. stage[t] # "common" => Len(locked[t]["common"]) = Len(Stretch(cmd[t], "common")) + 1
    BY DEF Complete
<1>5. s = "common" => Len(locked[t][s]) >= 1
    BY <1>2, <1>3, EmptySeq
<1>6. CASE s = stage[t]
    <2>1. PICK c \in {0, 1} : c = IF s = "common" THEN 1 ELSE 0
        OBVIOUS
    <2>2. PICK l \in {0, 1} : l = IF pc[t] = "lock" THEN 1 ELSE 0
        OBVIOUS
    <2>3. /\ Len(Stretch(cmd[t], s)) - Len(rest[t]) >= 0
          /\ Len(locked[t][s]) = (Len(Stretch(cmd[t], s)) - Len(rest[t])) + c - l
        BY <1>6, <2>1, <2>2 DEF Placed
    <2>4. Len(locked[t][s]) <= Len(Stretch(cmd[t], s)) + c
        <3>1. \A m, n, r \in Nat : n = (m - r) + c - l => n <= m + c
            BY <2>1, <2>2
        <3> QED
            BY <1>3, <2>3, <3>1
    <2>5. s = "common" => Len(locked[t][s]) - 1 \in 0 .. Len(Stretch(cmd[t], s))
        <3>1. ASSUME s = "common"
              PROVE  Len(locked[t][s]) <= Len(Stretch(cmd[t], s)) + 1 /\ Len(locked[t][s]) >= 1
            BY <1>5, <2>1, <2>4, <3>1
        <3> QED
            BY <1>3, <3>1
    <2>6. s # "common" => Len(locked[t][s]) \in 0 .. Len(Stretch(cmd[t], s))
        <3>1. s # "common" => Len(locked[t][s]) <= Len(Stretch(cmd[t], s)) + 0
            BY <2>1, <2>4
        <3> QED
            BY <1>3, <3>1
    <2> QED
        BY <1>2, <1>4, <2>5, <2>6
<1>7. CASE s # stage[t] /\ s = "common"
    BY <1>2, <1>3, <1>4, <1>7
<1>8. CASE s # stage[t] /\ s # "common"
    <2>1. CASE s # Head(Legs(cmd[t]))
        <3>1. locked[t][s] = <<>>
            BY <1>8, <2>1 DEF Placed
        <3> QED
            BY <1>2, <1>3, <1>4, <1>8, <3>1
    <2>2. CASE s = Head(Legs(cmd[t]))
        BY <1>2, <1>3, <1>4, <1>8, <2>2 DEF Complete
    <2> QED
        BY <2>1, <2>2
<1> QED
    BY <1>6, <1>7, <1>8

\* What is locked on the way is held, and an inode.
LEMMA HeldAt ==
    ASSUME IInv, NEW t \in Thread, NEW s \in Stage, NEW k \in 1 .. Len(locked[t][s])
    PROVE  locked[t][s][k] \in Held(t) /\ locked[t][s][k] \in Inode
<1>1. locked[t][s] \in Seq(Inode)
    BY IInvParts DEF ThreadTypeOK
<1> QED
    BY <1>1, ElementOfSeq DEF Held

\* The path is the way of the inodes the thread has locked.
LEMMA CommonTrod ==
    ASSUME IInv, Structure, NEW t \in Thread, Way(t), Complete(t), pc[t] \in Walking,
           locked[t]["common"] # <<>>
    PROVE  LET p == Trod(t, "common")
               w == Len(locked[t]["common"]) - 1
               c == [k \in 0 .. w |-> locked[t]["common"][k + 1]]
           IN  /\ p \in EntryPath /\ Len(p) = w /\ w \in Nat /\ IsWay(dir, p, c)
               /\ c[w] = Last(locked[t]["common"])
               /\ \A k \in 0 .. w : c[k] \in Held(t)
<1> DEFINE a == locked[t]["common"]
           comps == Stretch(cmd[t], "common")
           p == SubSeq(comps, 1, Len(a) - 1)
           w == Len(a) - 1
           c == [k \in 0 .. w |-> a[k + 1]]
<1>1. "common" \in Stage
    BY DEF Stage
<1>2. comps \in Seq(Name) /\ a \in Seq(Inode) /\ w \in 0 .. Len(comps)
    BY <1>1, LockedLen DEF Way
<1>3. Len(comps) \in Nat /\ Len(a) \in Nat /\ w \in Nat /\ w + 1 = Len(a)
    BY <1>2, LenProperties
<1>4. \A k \in 0 .. w : k + 1 \in 1 .. Len(a)
    BY <1>3
<1>5. \A k \in 0 .. w : c[k] \in Held(t) /\ c[k] \in Inode
    BY <1>1, <1>4, HeldAt
<1>6. comps \in EntryPath
    BY <1>2, PathIsEntryPath DEF Path
<1>7. p \in EntryPath /\ Len(p) = w /\ \A k \in 1 .. w : p[k] = comps[k]
    BY <1>2, <1>6, FirstPart DEF EntryPath
<1>8. c[0] = Root
    <2>1. a[1] = Root
        BY <1>1 DEF Way, OnPath
    <2> QED
        BY <1>3, <2>1
<1>9. ASSUME NEW k \in 1 .. w PROVE HasEntry(dir[c[k - 1]], p[k], c[k])
    <2>1. k \in 1 .. Len(a) - 1 /\ k - 1 \in 0 .. w /\ k \in 0 .. w /\ (k - 1) + 1 = k
        BY <1>3
    <2>2. Links(a[k], comps[k], a[k + 1])
        BY <1>1, <2>1 DEF Way, OnPath
    <2>3. c[k - 1] = a[k] /\ c[k] = a[k + 1]
        BY <2>1
    <2> QED
        BY <1>7, <2>2, <2>3 DEF Links, HasEntry
<1>10. c \in [0 .. w -> Inode]
    BY <1>5
<1>11. c[w] = Last(a)
    <2>1. w \in 0 .. w
        BY <1>3
    <2> QED
        BY <1>3, <2>1 DEF Last
<1> HIDE DEF c
<1>12. IsWay(dir, p, c)
    BY <1>7, <1>8, <1>9, <1>10 DEF IsWay
<1>13. Trod(t, "common") = p
    BY DEF Trod
<1> QED
    BY <1>3, <1>5, <1>7, <1>11, <1>12, <1>13 DEF c

\* The same for a stretch of a move below the common ancestor.
LEMMA LegTrod ==
    ASSUME IInv, Structure, NEW t \in Thread, Way(t), Complete(t), pc[t] \in Walking,
           locked[t]["common"] # <<>>, stage[t] # "common", NEW s \in Stage \ {"common"}
    PROVE  /\ Trod(t, s) \in EntryPath
           /\ \E c : /\ IsWay(dir, Trod(t, s), c) /\ c[Len(Trod(t, s))] = Foot(t, s)
                     /\ \A k \in 0 .. Len(Trod(t, s)) : c[k] \in Held(t)
                     /\ \A j \in 1 .. Len(locked[t]["common"]) :
                           \E k \in 0 .. Len(Trod(t, s)) : c[k] = locked[t]["common"][j]
                     /\ \A j \in 1 .. Len(locked[t][s]) :
                           \E k \in 0 .. Len(Trod(t, s)) : c[k] = locked[t][s][j]
<1> DEFINE a == locked[t]["common"]
           b == locked[t][s]
           comps == Stretch(cmd[t], s)
           first == Stretch(cmd[t], "common")
           then == SubSeq(comps, 1, Len(b))
           v == Len(a) - 1
           w == Len(b)
           before == [k \in 0 .. v |-> a[k + 1]]
           p == Join(first, then)
           c == [k \in 0 .. v + w |-> IF k <= v THEN before[k] ELSE b[k - v]]
<1>1. "common" \in Stage
    BY DEF Stage
<1>2. /\ comps \in Seq(Name) /\ b \in Seq(Inode) /\ w \in 0 .. Len(comps)
      /\ first \in Seq(Name) /\ v \in 0 .. Len(first) /\ Len(a) = Len(first) + 1
    BY <1>1, LockedLen DEF Way
<1>3. Len(comps) \in Nat /\ w \in Nat /\ v = Len(first) /\ v \in Nat
    <2>1. Len(first) \in Nat /\ Len(b) \in Nat /\ Len(comps) \in Nat
        BY <1>2, LenProperties
    <2> QED
        BY <1>2, <2>1
<1>4. comps \in EntryPath /\ first \in EntryPath
    BY <1>2, PathIsEntryPath DEF Path
<1>5. then \in EntryPath /\ Len(then) = w /\ \A k \in 1 .. w : then[k] = comps[k]
    BY <1>2, <1>4, FirstPart DEF EntryPath
<1>6. /\ p \in EntryPath /\ Len(p) = v + w
      /\ \A k \in 1 .. v + w : p[k] = IF k <= v THEN first[k] ELSE then[k - v]
    <2>1. first \in Seq(EntryName) /\ then \in Seq(EntryName)
        BY <1>4, <1>5 DEF EntryPath
    <2>2. v = Len(first) /\ w = Len(then)
        BY <1>3, <1>5
    <2> HIDE DEF first, then, v, w
    <2>3. /\ first \o then \in Seq(EntryName) /\ Len(first \o then) = Len(first) + Len(then)
          /\ \A k \in 1 .. Len(first) + Len(then) :
                (first \o then)[k] = IF k <= Len(first) THEN first[k] ELSE then[k - Len(first)]
        BY <2>1, ConcatProperties
    <2>4. p = first \o then
        BY DEF Join
    <2> QED
        BY <2>2, <2>3, <2>4 DEF EntryPath
<1>16. \A k \in 0 .. v : before[k] = a[k + 1]
    OBVIOUS
<1>7. /\ IsWay(dir, first, before) /\ before[v] = Last(a) /\ \A k \in 0 .. v : before[k] \in Held(t)
    <2>1. SubSeq(first, 1, v) = first
        BY <1>3, <1>4, SubSeqFull DEF EntryPath
    <2>2. Trod(t, "common") = first
        BY <2>1 DEF Trod
    <2> QED
        BY <2>2, CommonTrod
<1>8. \A k \in 1 .. w : b[k] \in Held(t)
    BY HeldAt
<1>9. Trod(t, s) = p
    BY DEF Trod
<1> HIDE DEF before, then, p, v, w, first, comps
<1>10. \A k \in 0 .. v + w : c[k] \in Held(t)
    <2> SUFFICES ASSUME NEW k \in 0 .. v + w PROVE c[k] \in Held(t)
        OBVIOUS
    <2>1. CASE k <= v
        BY <1>3, <1>7, <2>1
    <2>2. CASE ~(k <= v)
        <3>1. k - v \in 1 .. w
            BY <1>3, <2>2
        <3> QED
            BY <1>8, <2>2, <3>1
    <2> QED
        BY <2>1, <2>2
<1>17. ASSUME NEW j \in 1 .. Len(a) PROVE \E k \in 0 .. v + w : c[k] = a[j]
    <2>1. j - 1 \in 0 .. v + w /\ j - 1 \in 0 .. v /\ j - 1 <= v /\ (j - 1) + 1 = j
        BY <1>2, <1>3
    <2>2. before[j - 1] = a[(j - 1) + 1]
        BY <1>16, <2>1
    <2>3. c[j - 1] = before[j - 1]
        BY <2>1
    <2> QED
        BY <2>1, <2>2, <2>3
<1>18. ASSUME NEW j \in 1 .. w PROVE \E k \in 0 .. v + w : c[k] = b[j]
    <2>1. v + j \in 0 .. v + w /\ ~(v + j <= v) /\ (v + j) - v = j
        BY <1>3
    <2>2. c[v + j] = b[j]
        BY <2>1
    <2> QED
        BY <2>1, <2>2
<1>19. Len(b) = w
    BY DEF w
<1>11. c \in [0 .. v + w -> Inode]
    BY <1>10 DEF Held
<1>12. c[0] = Root
    <2>1. 0 \in 0 .. v + w /\ 0 <= v
        BY <1>3
    <2> QED
        BY <1>7, <2>1 DEF IsWay
<1>13. ASSUME NEW k \in 1 .. v + w PROVE HasEntry(dir[c[k - 1]], p[k], c[k])
    <2>1. k \in 0 .. v + w /\ k - 1 \in 0 .. v + w
        BY <1>3
    <2>2. CASE k <= v
        <3>1. k \in 1 .. v /\ k - 1 <= v
            BY <1>3, <2>2
        <3>2. HasEntry(dir[before[k - 1]], first[k], before[k])
            BY <1>3, <1>7, <3>1 DEF IsWay
        <3> QED
            BY <1>6, <2>1, <2>2, <3>1, <3>2
    <2>3. CASE ~(k <= v)
        <3>1. PICK j \in 1 .. w : j = k - v
            <4>1. k - v \in 1 .. w
                BY <1>3, <2>3
            <4> QED
                BY <4>1
        <3>2. Links(IF j = 1 THEN Last(a) ELSE b[j - 1], comps[j], b[j])
            BY DEF Way, OnPath, comps, w
        <3>3. c[k] = b[j] /\ p[k] = comps[j]
            BY <1>5, <1>6, <2>1, <2>3, <3>1
        <3>4. c[k - 1] = IF j = 1 THEN Last(a) ELSE b[j - 1]
            <4>1. CASE j = 1
                <5>1. k - 1 = v
                    BY <1>3, <3>1, <4>1
                <5> QED
                    BY <1>3, <1>7, <2>1, <4>1, <5>1
            <4>2. CASE j # 1
                <5>1. ~(k - 1 <= v) /\ (k - 1) - v = j - 1
                    BY <1>3, <3>1, <4>2
                <5> QED
                    BY <2>1, <4>2, <5>1
            <4> QED
                BY <4>1, <4>2
        <3> QED
            BY <3>2, <3>3, <3>4 DEF Links, HasEntry
    <2> QED
        BY <2>2, <2>3
<1>14. c[v + w] = Foot(t, s)
    <2>1. v + w \in 0 .. v + w
        BY <1>3
    <2>2. CASE b = <<>>
        <3>1. w = 0
            BY <2>2 DEF w
        <3>2. v + w = v /\ v <= v
            BY <1>3, <3>1
        <3> QED
            BY <1>7, <2>1, <2>2, <3>2 DEF Foot
    <2>3. CASE b # <<>>
        <3>1. w >= 1
            BY <1>2, <2>3, EmptySeq, LenProperties DEF w
        <3>2. ~(v + w <= v) /\ (v + w) - v = w
            BY <1>3, <3>1
        <3> QED
            BY <2>1, <2>3, <3>2 DEF Foot, Last, w
    <2> QED
        BY <2>2, <2>3
<1> HIDE DEF c
<1>15. IsWay(dir, p, c)
    BY <1>6, <1>11, <1>12, <1>13 DEF IsWay
<1> QED
    BY <1>6, <1>9, <1>10, <1>14, <1>15, <1>17, <1>18, <1>19

\* Both together: where a thread stands is reached by the path it has walked.
LEMMA TrodLeads ==
    ASSUME IInv, Structure, NEW t \in Thread, Way(t), Complete(t), pc[t] \in Walking,
           locked[t]["common"] # <<>>, NEW s \in Stage, s = "common" \/ stage[t] # "common"
    PROVE  /\ Trod(t, s) \in EntryPath
           /\ \E c : /\ IsWay(dir, Trod(t, s), c) /\ c[Len(Trod(t, s))] = Foot(t, s)
                     /\ \A k \in 0 .. Len(Trod(t, s)) : c[k] \in Held(t)
           /\ Leads(dir, Trod(t, s), Foot(t, s)) /\ Foot(t, s) \in Inode
<1>1. /\ Trod(t, s) \in EntryPath
      /\ \E c : /\ IsWay(dir, Trod(t, s), c) /\ c[Len(Trod(t, s))] = Foot(t, s)
                /\ \A k \in 0 .. Len(Trod(t, s)) : c[k] \in Held(t)
    <2>1. CASE s = "common"
        <3> DEFINE w == Len(locked[t]["common"]) - 1
                   c == [k \in 0 .. w |-> locked[t]["common"][k + 1]]
        <3>1. /\ Trod(t, s) \in EntryPath /\ Len(Trod(t, s)) = w /\ IsWay(dir, Trod(t, s), c)
              /\ c[w] = Last(locked[t]["common"]) /\ \A k \in 0 .. w : c[k] \in Held(t)
            BY <2>1, CommonTrod
        <3> HIDE DEF c
        <3>2. c[Len(Trod(t, s))] = Foot(t, s)
            BY <2>1, <3>1 DEF Foot
        <3> QED
            BY <3>1, <3>2
    <2>2. CASE s # "common"
        <3>1. /\ Trod(t, s) \in EntryPath
              /\ \E c : /\ IsWay(dir, Trod(t, s), c) /\ c[Len(Trod(t, s))] = Foot(t, s)
                        /\ \A k \in 0 .. Len(Trod(t, s)) : c[k] \in Held(t)
                        /\ \A j \in 1 .. Len(locked[t]["common"]) :
                              \E k \in 0 .. Len(Trod(t, s)) : c[k] = locked[t]["common"][j]
                        /\ \A j \in 1 .. Len(locked[t][s]) :
                              \E k \in 0 .. Len(Trod(t, s)) : c[k] = locked[t][s][j]
            BY <2>2, LegTrod
        <3> QED
            BY <3>1
    <2> QED
        BY <2>1, <2>2
<1>2. PICK c : IsWay(dir, Trod(t, s), c) /\ c[Len(Trod(t, s))] = Foot(t, s)
    BY <1>1
<1>3. Leads(dir, Trod(t, s), Foot(t, s))
    BY <1>2 DEF Leads, IsWay
<1>4. Foot(t, s) \in Inode
    BY <1>1, <1>3, LeadsToOne
<1> QED
    BY <1>1, <1>3, <1>4

\* The path a stretch ends at.
FullPath(c, s) == IF s = "common" THEN Stretch(c, "common") ELSE Join(Stretch(c, "common"), Stretch(c, s))

\* Once no leg is left, every stretch is walked.
LEMMA LegsDone ==
    ASSUME IInv, NEW t \in Thread, LegsLeft(t) = <<>>, pc[t] \in Walking,
           NEW s \in Stage \ {"common"}, s # stage[t]
    PROVE  \/ Stretch(cmd[t], s) = <<>>
           \/ stage[t] # "common" /\ stage[t] # Head(Legs(cmd[t])) /\ s = Head(Legs(cmd[t]))
<1> DEFINE legs == Legs(cmd[t])
           o == Stretch(cmd[t], "orig") = <<>>
           d == Stretch(cmd[t], "dest") = <<>>
<1>1. s \in {"orig", "dest"} /\ stage[t] \in {"common", "orig", "dest"}
    BY IInvParts DEF Stage, ThreadTypeOK
<1>2. stage[t] # "common" => Stretch(cmd[t], stage[t]) # <<>>
    BY IInvParts DEF Part, Walked
<1>3. /\ o /\ d => legs = <<>>
      /\ ~o /\ d => legs = <<"orig">>
      /\ o /\ ~d => legs = <<"dest">>
      /\ ~o /\ ~d => legs \in {<<"orig", "dest">>, <<"dest", "orig">>}
    BY LegsShape
<1>4. /\ stage[t] = "common" => legs = <<>>
      /\ stage[t] # "common" /\ stage[t] = Head(legs) => Tail(legs) = <<>>
    BY DEF LegsLeft
<1> HIDE DEF legs
<1>5. CASE ~o /\ ~d
    <2>1. CASE legs = <<"orig", "dest">>
        <3>1. Head(legs) = "orig" /\ Tail(legs) # <<>> /\ legs # <<>>
            BY <2>1
        <3> QED
            BY <1>1, <1>4, <3>1 DEF legs
    <2>2. CASE legs = <<"dest", "orig">>
        <3>1. Head(legs) = "dest" /\ Tail(legs) # <<>> /\ legs # <<>>
            BY <2>2
        <3> QED
            BY <1>1, <1>4, <3>1 DEF legs
    <2> QED
        BY <1>3, <1>5, <2>1, <2>2
<1>6. CASE o \/ d
    <2>1. s = "orig" /\ d => stage[t] # "dest"
        BY <1>2
    <2>2. s = "dest" /\ o => stage[t] # "orig"
        BY <1>2
    <2>3. stage[t] = "common" => o /\ d
        BY <1>3, <1>4
    <2> QED
        BY <1>1, <1>6, <2>1, <2>2, <2>3
<1> QED
    BY <1>5, <1>6 DEF legs

\* There a thread stands at the ends of the stretches.
LEMMA EndLeads ==
    ASSUME IInv, Structure, NEW t \in Thread, Way(t), Complete(t),
           pc[t] \in Walking \ {"lock", "walk"}, NEW s \in Stage,
           s = stage[t] \/ LegsLeft(t) = <<>>
    PROVE  /\ FullPath(cmd[t], s) \in EntryPath
           /\ \E c : /\ IsWay(dir, FullPath(cmd[t], s), c)
                     /\ \A k \in 0 .. Len(FullPath(cmd[t], s)) : c[k] \in Held(t)
           /\ Leads(dir, FullPath(cmd[t], s), Foot(t, s)) /\ Foot(t, s) \in Inode
<1> DEFINE first == Stretch(cmd[t], "common")
           comps == Stretch(cmd[t], s)
<1>1. ThreadTypeOK /\ Part(t) /\ cmd[t] \in Command /\ locked[t]["common"] # <<>>
    BY IInvParts, Standing
<1>2. "common" \in Stage /\ s \in Stage /\ stage[t] \in Stage
    BY <1>1 DEF ThreadTypeOK, Stage
<1>3. comps \in Seq(Name) /\ first \in Seq(Name)
    BY <1>1, <1>2, StretchIsPath
<1>4. /\ comps \in EntryPath /\ first \in EntryPath /\ SubSeq(comps, 1, Len(comps)) = comps
      /\ SubSeq(first, 1, Len(first)) = first /\ Len(comps) \in Nat /\ Len(first) \in Nat
    BY <1>3, PathIsEntryPath, SubSeqFull, LenProperties DEF Path
<1>5. Len(locked[t][stage[t]]) =
          Len(Stretch(cmd[t], stage[t])) + (IF stage[t] = "common" THEN 1 ELSE 0)
    BY StretchDone DEF Way
<1>6. Len(locked[t]["common"]) = Len(first) + 1
    <2>1. CASE stage[t] = "common"
        BY <1>5, <2>1
    <2>2. CASE stage[t] # "common"
        BY <2>2 DEF Complete
    <2> QED
        BY <2>1, <2>2
<1>7. Trod(t, "common") = first /\ Leads(dir, Trod(t, "common"), Foot(t, "common"))
    <2>1. Len(locked[t]["common"]) - 1 = Len(first)
        BY <1>4, <1>6
    <2>2. Trod(t, "common") = first
        BY <1>4, <2>1 DEF Trod
    <2> QED
        BY <1>1, <1>2, <2>2, TrodLeads
<1>8. CASE s = "common"
    <2>1. FullPath(cmd[t], s) = Trod(t, s)
        BY <1>7, <1>8 DEF FullPath
    <2> QED
        BY <1>1, <1>8, <2>1, TrodLeads
<1>9. CASE s # "common" /\ stage[t] # "common"
    <2>1. Len(locked[t][s]) = Len(comps)
        <3>1. CASE s = stage[t]
            <4>1. Len(locked[t][s]) = Len(comps) + 0
                BY <1>5, <1>9, <3>1
            <4> QED
                BY <1>4, <4>1
        <3>2. CASE s # stage[t]
            <4>1. comps = <<>> \/ (stage[t] # Head(Legs(cmd[t])) /\ s = Head(Legs(cmd[t])))
                BY <1>9, <3>2, LegsDone
            <4>2. comps = <<>> => locked[t][s] = <<>>
                BY <1>1, <1>9 DEF Part, Walked
            <4> QED
                BY <1>9, <4>1, <4>2 DEF Complete
        <3> QED
            BY <3>1, <3>2
    <2>2. Trod(t, s) = FullPath(cmd[t], s)
        BY <1>4, <1>9, <2>1 DEF Trod, FullPath
    <2> QED
        BY <1>1, <1>9, <2>2, TrodLeads
<1>10. CASE s # "common" /\ stage[t] = "common"
    <2>1. comps = <<>>
        BY <1>10, LegsDone
    <2>2. locked[t][s] = <<>>
        BY <1>1, <1>10, <2>1 DEF Part, Walked
    <2>3. FullPath(cmd[t], s) = Trod(t, "common") /\ Foot(t, s) = Foot(t, "common")
        BY <1>4, <1>7, <1>10, <2>1, <2>2, JoinPath DEF FullPath, Foot
    <2> QED
        BY <1>1, <1>2, <2>3, TrodLeads
<1> QED
    BY <1>8, <1>9, <1>10

\* A name is not the empty one.
LEMMA NameNotEmpty ==
    ASSUME NEW p \in Path
    PROVE  LastName(p) # NoName <=> p # <<>>
<1>1. p \in EntryPath
    BY PathIsEntryPath
<1>2. p # <<>> => Len(p) \in 1 .. Len(p)
    BY LenProperties DEF Path
<1>3. p # <<>> => p[Len(p)] \in Name
    BY <1>2 DEF Path
<1> QED
    BY <1>3, BaseAssumption DEF LastName

\* The paths of a create or remove, and of a move, from the stretches that
\* are walked for them.
LEMMA ParentIsWalked ==
    ASSUME NEW c \in Command, c.op \in {"create", "remove"}
    PROVE  /\ c.path \in EntryPath /\ ParentPath(c.path) = FullPath(c, "common")
           /\ FullPath(c, "common") \in EntryPath /\ EntryOf(c) \in EntryName
           /\ EntryOf(c) # NoName <=> c.path # <<>>
           /\ c.path # <<>> => c.path = Extend(FullPath(c, "common"), EntryOf(c))
<1>1. c.path \in Path
    BY CommandFields
<1>2. c.path \in EntryPath
    BY <1>1, PathIsEntryPath
<1>3. ParentPath(c.path) = FullPath(c, "common") /\ EntryOf(c) = LastName(c.path)
    BY DEF FullPath, Stretch, EntryOf
<1>4. EntryOf(c) \in EntryName
    BY EntryNames
<1>5. ParentPath(c.path) \in EntryPath
    BY <1>1, PopLast, PathIsEntryPath
<1>6. LastName(c.path) # NoName <=> c.path # <<>>
    BY <1>1, NameNotEmpty
<1>7. c.path # <<>> => c.path = Extend(ParentPath(c.path), LastName(c.path))
    BY <1>2, ParentLast
<1> QED
    BY <1>2, <1>3, <1>4, <1>5, <1>6, <1>7

\* The same for a move.
LEMMA ParentsAreWalked ==
    ASSUME NEW c \in Command, c.op = "move"
    PROVE  /\ c.path \in Path /\ c.dest \in Path
           /\ FullPath(c, "common") = CommonAncestor(c.path, c.dest) /\ FullPath(c, "common") \in EntryPath
           /\ FullPath(c, "orig") \in EntryPath /\ FullPath(c, "dest") \in EntryPath
           /\ EntryOf(c) \in EntryName /\ DestName(c) \in EntryName
           /\ OrigRest(c) \in EntryPath /\ DestRest(c) \in EntryPath
           /\ c.path = Join(FullPath(c, "common"), OrigRest(c))
           /\ c.dest = Join(FullPath(c, "common"), DestRest(c))
           /\ EntryOf(c) # NoName <=> OrigRest(c) # <<>>
           /\ DestName(c) # NoName <=> DestRest(c) # <<>>
           /\ OrigRest(c) = <<>> => c.path = FullPath(c, "common")
           /\ DestRest(c) = <<>> => c.dest = FullPath(c, "common")
           /\ Stretch(c, "orig") = <<>> => FullPath(c, "orig") = FullPath(c, "common")
           /\ Stretch(c, "dest") = <<>> => FullPath(c, "dest") = FullPath(c, "common")
           /\ OrigRest(c) = <<>> => Stretch(c, "orig") = <<>>
           /\ DestRest(c) = <<>> => Stretch(c, "dest") = <<>>
           /\ OrigRest(c) # <<>> => /\ ParentPath(c.path) = FullPath(c, "orig")
                                    /\ c.path = Extend(FullPath(c, "orig"), EntryOf(c))
           /\ DestRest(c) # <<>> => /\ ParentPath(c.dest) = FullPath(c, "dest")
                                    /\ c.dest = Extend(FullPath(c, "dest"), DestName(c))
<1> DEFINE a == FullPath(c, "common")
           o == OrigRest(c)
           d == DestRest(c)
<1>1. c.path \in Path /\ c.dest \in Path
    BY CommandFields
<1>2. "common" \in Stage /\ "orig" \in Stage /\ "dest" \in Stage
    BY DEF Stage
<1>3. /\ Stretch(c, "common") = CommonAncestor(c.path, c.dest)
      /\ Stretch(c, "orig") = ParentPath(o) /\ Stretch(c, "dest") = ParentPath(d)
      /\ EntryOf(c) = LastName(o) /\ DestName(c) = LastName(d)
    BY DEF Stretch, EntryOf, DestName
<1>4. /\ a = CommonAncestor(c.path, c.dest) /\ a = CommonAncestor(c.dest, c.path)
      /\ FullPath(c, "orig") = Join(a, ParentPath(o)) /\ FullPath(c, "dest") = Join(a, ParentPath(d))
    <2>1. CommonAncestor(c.path, c.dest) = CommonAncestor(c.dest, c.path)
        BY <1>1, CommonSame
    <2> QED
        BY <1>3, <2>1 DEF FullPath
<1>5. o \in Path /\ d \in Path
    BY <1>1, CommonAncestorPath DEF OrigRest, DestRest
<1>6. o \in EntryPath /\ d \in EntryPath /\ ParentPath(o) \in EntryPath /\ ParentPath(d) \in EntryPath
    BY <1>5, PopLast, PathIsEntryPath
<1>7. EntryOf(c) \in EntryName /\ DestName(c) \in EntryName
    BY EntryNames
<1>8. /\ a \in EntryPath /\ c.path = Join(a, o)
      /\ o = <<>> => c.path = a
      /\ o # <<>> => ParentPath(c.path) = Join(a, ParentPath(o)) /\ c.path = Extend(ParentPath(c.path), LastName(o))
    BY <1>1, <1>4, MovePath DEF OrigRest
<1>9. /\ c.dest = Join(a, d)
      /\ d = <<>> => c.dest = a
      /\ d # <<>> => ParentPath(c.dest) = Join(a, ParentPath(d)) /\ c.dest = Extend(ParentPath(c.dest), LastName(d))
    BY <1>1, <1>4, MovePath DEF DestRest
<1>10. (LastName(o) # NoName <=> o # <<>>) /\ (LastName(d) # NoName <=> d # <<>>)
    BY <1>5, NameNotEmpty
<1>11. /\ Join(a, ParentPath(o)) \in EntryPath /\ Join(a, ParentPath(d)) \in EntryPath
       /\ Join(a, <<>>) = a
    BY <1>6, <1>8, JoinPath
<1>12. (o = <<>> => ParentPath(o) = <<>>) /\ (d = <<>> => ParentPath(d) = <<>>)
    BY DEF ParentPath
<1> HIDE DEF a, o, d
<1>13. /\ Stretch(c, "orig") = <<>> => FullPath(c, "orig") = a
       /\ Stretch(c, "dest") = <<>> => FullPath(c, "dest") = a
    BY <1>3, <1>4, <1>11
<1>14. /\ o # <<>> => ParentPath(c.path) = FullPath(c, "orig") /\ c.path = Extend(FullPath(c, "orig"), EntryOf(c))
       /\ d # <<>> => ParentPath(c.dest) = FullPath(c, "dest") /\ c.dest = Extend(FullPath(c, "dest"), DestName(c))
    BY <1>3, <1>4, <1>8, <1>9
<1> QED
    BY <1>1, <1>3, <1>4, <1>6, <1>7, <1>8, <1>9, <1>10, <1>11, <1>12, <1>13, <1>14 DEF a, o, d

\* A move gives no empty name, unless it is one onto its own directory.
LEMMA DestNameNotEmpty ==
    ASSUME NoMoveToParent, NEW c \in Command, c.op = "move", Legs(c) = <<>>, EntryOf(c) # NoName
    PROVE  DestName(c) # NoName
<1> SUFFICES ASSUME DestName(c) = NoName PROVE FALSE
    OBVIOUS
<1>1. Stretch(c, "orig") = <<>> /\ Stretch(c, "dest") = <<>>
    <2>1. <<"orig">> # <<>> /\ <<"dest">> # <<>> /\ <<"orig", "dest">> # <<>> /\ <<"dest", "orig">> # <<>>
        OBVIOUS
    <2> QED
        BY <2>1, LegsShape
<1>2. c.dest = FullPath(c, "common") /\ ParentPath(c.path) = FullPath(c, "common")
    BY <1>1, ParentsAreWalked
<1>3. c.path # <<>>
    <2>1. c.path = Extend(FullPath(c, "orig"), EntryOf(c))
        BY ParentsAreWalked
    <2>2. FullPath(c, "orig") \in EntryPath /\ EntryOf(c) \in EntryName
        BY ParentsAreWalked
    <2> QED
        BY <2>1, <2>2, ExtendPath
<1> QED
    BY <1>2, <1>3 DEF NoMoveToParent

\* Only a step of these kinds adds a name, and it is not the empty one.
LEMMA NoEmptyNameStays ==
    ASSUME NoMoveToParent, IInv, Tree, NoEmptyName, NEW t \in Thread, Step(t)
    PROVE  NoEmptyName'
<1> USE DEF Tree
<1>1. IInv' /\ TableTypeOK /\ TableTypeOK' /\ dir \in [Inode -> Dir] /\ dir' \in [Inode -> Dir]
    BY StepFacts DEF TableTypeOK
<1>2. \A d, i \in Inode : ~HasEntry(dir[d], NoName, i)
    BY DEF NoEmptyName, HasEntry
<1>3. NoName \in EntryName
    BY DEF EntryName
<1>4. SUFFICES \A d, i \in Inode : ~HasEntry(dir'[d], NoName, i)
    <2>1. SUFFICES ASSUME NEW d \in Inode, NoName \in Names(dir'[d]) PROVE FALSE
        BY DEF NoEmptyName
    <2>2. dir'[d].entry[NoName] \in Inode
        BY <1>1, <2>1, EntryIsInode
    <2>3. HasEntry(dir'[d], NoName, dir'[d].entry[NoName])
        BY <2>1 DEF HasEntry
    <2> QED
        BY <1>4, <2>2, <2>3
<1>5. CASE ~Growing(t) /\ ~Shrinking(t) /\ ~Relinking(t)
    <2>1. dir' = dir
        BY <1>5, QuietSteps
    <2> QED
        BY <1>2, <2>1
<1>6. CASE TakeSlot(t) \/ FreeInode(t)
    <2>1. EntriesSame
        BY <1>6, TakeSlotStructure, FreeInodeStructure
    <2> QED
        BY <1>2, <1>3, <2>1 DEF EntriesSame
<1>7. CASE CreateEntry(t)
    <2>1. LinkMade(t) /\ EntryOf(cmd[t]) # NoName
        BY <1>7, CreateEntryLinks DEF Way
    <2> QED
        BY <1>2, <1>3, <2>1 DEF LinkMade
<1>8. CASE RemoveChild(t)
    <2>1. LinkCut(t)
        BY <1>8, RemoveChildLinks
    <2> QED
        BY <1>2, <1>3, <2>1 DEF LinkCut
<1>9. CASE Relinking(t)
    <2>1. Relinked(t) /\ pc[t] = "child" /\ cmd[t].op = "move"
        BY <1>9, RenameChildLinks, MoveChildLinks DEF Relinking
    <2>2. DestName(cmd[t]) # NoName
        <3>1. CASE MoveChild(t)
            BY <3>1, MoveChildLinks
        <3>2. CASE RenameChild(t)
            <4>1. Legs(cmd[t]) = <<>>
                BY <3>2 DEF RenameChild, Renames
            <4>2. EntryOf(cmd[t]) # NoName
                BY <1>2, <2>1, ChildFacts
            <4> QED
                BY <2>1, <4>1, <4>2, ChildFacts, DestNameNotEmpty
        <3> QED
            BY <1>9, <3>1, <3>2 DEF Relinking
    <2> QED
        BY <1>2, <1>3, <2>1, <2>2 DEF Relinked
<1> QED
    BY <1>5, <1>6, <1>7, <1>8, <1>9 DEF Growing, Shrinking, Relinking

\* No directory gets an entry without a name (dir.h:41), as long as nobody
\* moves an entry onto its own directory.
THEOREM NoNameIsEmpty == ASSUME NoMoveToParent PROVE Spec => []NoEmptyName
<1>1. Init => NoEmptyName
    BY DEF Init, TableInit, NoEmptyName, EmptyDir, Names
<1>2. IInv /\ Tree /\ NoEmptyName /\ [Next]_vars => NoEmptyName'
    <2> SUFFICES ASSUME IInv, Tree, NoEmptyName, [Next]_vars PROVE NoEmptyName'
        OBVIOUS
    <2>1. CASE UNCHANGED vars
        BY <2>1 DEF vars, tableVars, NoEmptyName
    <2>2. CASE Next
        <3>1. PICK t \in Thread : Step(t)
            BY <2>2 DEF Next, Step
        <3> QED
            BY <3>1, NoEmptyNameStays
    <2> QED
        BY <2>1, <2>2
<1> QED
    BY <1>1, <1>2, TreeInvariance, PTL DEF Spec

\* What the atomic file system asks of the tree.
\* A path exists if it leads to an inode, and is what that inode is.
LEMMA ExistsIfLeads ==
    ASSUME IInv, Structure, NEW p \in EntryPath
    PROVE  /\ Atomic!Exists(p) <=> \E i \in Inode : Leads(dir, p, i)
           /\ \A i \in Inode : Leads(dir, p, i) =>
                 /\ Atomic!Exists(p) /\ Namespace[p] = type[i]
                 /\ Atomic!IsDir(p) <=> type[i] = "dir"
<1>1. /\ DOMAIN Namespace = Paths(dir)
      /\ \A q \in EntryPath, i \in Inode : Leads(dir, q, i) => Namespace[q] = type[i]
    BY TreeIsTidy, NamespaceIs DEF Namespace
<1>2. Atomic!Exists(p) <=> \E i \in Inode : Leads(dir, p, i)
    BY <1>1 DEF Atomic!Exists, Paths
<1> QED
    BY <1>1, <1>2 DEF Atomic!IsDir

\* The operators of TfsPath mean there what they mean here.
LEMMA SamePathOps ==
    ASSUME NEW p, NEW q
    PROVE  /\ Atomic!ParentPath(p) = ParentPath(p)
           /\ Atomic!CommonAncestor(p, q) = CommonAncestor(p, q)
           /\ Atomic!IsPrefix(p, q) <=> IsPrefix(p, q)
           /\ Atomic!IsStrictPrefix(p, q) <=> IsStrictPrefix(p, q)
<1>1. Atomic!ParentPath(p) = ParentPath(p)
    BY DEF Atomic!ParentPath, ParentPath
<1>2. Atomic!SharedLen(p, q) = SharedLen(p, q)
    BY DEF Atomic!SharedLen, SharedLen, Atomic!Cardinality, Cardinality
<1>3. Atomic!CommonAncestor(p, q) = CommonAncestor(p, q)
    BY <1>2 DEF Atomic!CommonAncestor, CommonAncestor
<1>4. Atomic!IsPrefix(p, q) <=> IsPrefix(p, q)
    BY DEF Atomic!IsPrefix, IsPrefix
<1>5. Atomic!IsStrictPrefix(p, q) <=> IsStrictPrefix(p, q)
    BY <1>4 DEF Atomic!IsStrictPrefix, IsStrictPrefix
<1> QED
    BY <1>1, <1>3, <1>4, <1>5

\* The errors of each command.
LEMMA CreateErrors ==
    ASSUME NEW c, c.op = "create"
    PROVE  LET d == ParentPath(c.path)
           IN  /\ "InexistentParentDir" \in Atomic!Errors(c) <=> ~Atomic!Exists(d)
               /\ "ParentNotDir" \in Atomic!Errors(c) <=> Atomic!Exists(d) /\ ~Atomic!IsDir(d)
               /\ "AddEntry" \in Atomic!Errors(c) <=> c.path = <<>> \/ Atomic!Exists(c.path)
               /\ Atomic!Errors(c) \subseteq {"InexistentParentDir", "ParentNotDir", "AddEntry"}
BY SamePathOps DEF Atomic!Errors

\* tfs_fs_remove.
LEMMA RemoveErrors ==
    ASSUME NEW c, c.op = "remove"
    PROVE  LET d == ParentPath(c.path)
           IN  /\ "InexistentParentDir" \in Atomic!Errors(c) <=> ~Atomic!Exists(d)
               /\ "ParentNotDir" \in Atomic!Errors(c) <=> Atomic!Exists(d) /\ ~Atomic!IsDir(d)
               /\ "NameNotFound" \in Atomic!Errors(c) <=> c.path = <<>> \/ ~Atomic!Exists(c.path)
               /\ "RemoveNonEmptyDir" \in Atomic!Errors(c) <=> Atomic!Below(c.path) \ {c.path} # {}
               /\ Atomic!Errors(c) \subseteq
                     {"InexistentParentDir", "ParentNotDir", "NameNotFound", "RemoveNonEmptyDir"}
BY SamePathOps DEF Atomic!Errors

\* tfs_fs_find.
LEMMA SearchErrors ==
    ASSUME NEW c, c.op = "search"
    PROVE  /\ "NameNotFound" \in Atomic!Errors(c) <=> ~Atomic!Exists(c.path)
           /\ "ParentsNotDir" \in Atomic!Errors(c) <=>
                 \E p \in DOMAIN Namespace : IsStrictPrefix(p, c.path) /\ ~Atomic!IsDir(p)
           /\ Atomic!Errors(c) \subseteq {"NameNotFound", "ParentsNotDir"}
BY SamePathOps DEF Atomic!Errors

\* tfs_fs_print.
LEMMA PrintErrors ==
    ASSUME NEW c, c.op = "print"
    PROVE  Atomic!Errors(c) = {}
BY SamePathOps DEF Atomic!Errors

\* tfs_fs_move of a path onto itself.
LEMMA SelfMoveErrors ==
    ASSUME NEW c, c.op = "move", c.path = c.dest
    PROVE  /\ "InexistentCommonAncestor" \in Atomic!Errors(c) <=> ~Atomic!Exists(c.path)
           /\ Atomic!Errors(c) \subseteq {"InexistentCommonAncestor"}
BY SamePathOps DEF Atomic!Errors

\* tfs_fs_move of one path to another.
LEMMA MoveErrors ==
    ASSUME NEW c, c.op = "move", c.path # c.dest
    PROVE  LET a == CommonAncestor(c.path, c.dest)
               o == ParentPath(c.path)
               d == ParentPath(c.dest)
           IN  /\ "InexistentCommonAncestor" \in Atomic!Errors(c) <=> ~Atomic!Exists(a)
               /\ "CommonAncestorNotDir" \in Atomic!Errors(c) <=> Atomic!Exists(a) /\ ~Atomic!IsDir(a)
               /\ "InexistentOriginParentDir" \in Atomic!Errors(c) <=> ~Atomic!Exists(o)
               /\ "InexistentDestinationParentDir" \in Atomic!Errors(c) <=> ~Atomic!Exists(d)
               /\ "OriginParentNotDir" \in Atomic!Errors(c) <=> Atomic!Exists(o) /\ ~Atomic!IsDir(o)
               /\ "DestinationParentNotDir" \in Atomic!Errors(c) <=> Atomic!Exists(d) /\ ~Atomic!IsDir(d)
               /\ "OriginNotFound" \in Atomic!Errors(c) <=>
                     ~Atomic!Exists(c.path) \/ IsPrefix(c.path, c.dest)
               /\ "RenameEntry" \in Atomic!Errors(c) <=> Atomic!Exists(c.dest)
               /\ "AddEntry" \in Atomic!Errors(c) <=> Atomic!Exists(c.dest)
               /\ Atomic!Errors(c) \subseteq
                     {"InexistentCommonAncestor", "CommonAncestorNotDir", "InexistentOriginParentDir",
                      "InexistentDestinationParentDir", "OriginParentNotDir",
                      "DestinationParentNotDir", "OriginNotFound", "RenameEntry", "AddEntry"}
BY SamePathOps DEF Atomic!Errors

\* How an ending step is one of the atomic file system.
LEMMA FailsAtomically ==
    ASSUME IInv, Course, NEW t \in Thread, Ending(t), dir' = dir, type' = type,
           result'[t] \in Atomic!Errors(cmd[t])
    PROVE  Atomic!TakeEffect(t)
<1>1. cmd[t] \in Command /\ cmd[t] # NoCommand /\ result[t] = "none"
    <2>1. pc[t] \in Walking /\ Part(t)
        BY EndingDecides, IInvParts
    <2>2. pc[t] # "idle"
        BY <2>1 DEF Walking
    <2> QED
        BY <2>1, <2>2, NoCommandApart DEF Part, Located, Course, Decided
<1>2. Namespace' = Namespace
    BY DEF Namespace
<1>3. cmd' = cmd /\ result' = [result EXCEPT ![t] = result'[t]]
    BY EndingDecides
<1> QED
    BY <1>1, <1>2, <1>3 DEF Atomic!TakeEffect, Atomic!Idle, NoCommand

\* The same for one that succeeds.
LEMMA SucceedsAtomically ==
    ASSUME IInv, Course, NEW t \in Thread, Ending(t), result'[t] = "success",
           Atomic!Errors(cmd[t]) = {}, Namespace' = Atomic!Effect(cmd[t])
    PROVE  Atomic!TakeEffect(t)
<1>1. cmd[t] \in Command /\ cmd[t] # NoCommand /\ result[t] = "none"
    <2>1. pc[t] \in Walking /\ Part(t)
        BY EndingDecides, IInvParts
    <2>2. pc[t] # "idle"
        BY <2>1 DEF Walking
    <2> QED
        BY <2>1, <2>2, NoCommandApart DEF Part, Located, Course, Decided
<1>3. cmd' = cmd /\ result' = [result EXCEPT ![t] = result'[t]]
    BY EndingDecides
<1> QED
    BY <1>1, <1>3 DEF Atomic!TakeEffect, Atomic!Idle, NoCommand

\* Where a path leads to something, what is on the way to it has an entry, and
\* is a directory.
LEMMA PrefixGoesOn ==
    ASSUME IInv, Structure, NEW p \in EntryPath, NEW q \in EntryPath, NEW j \in Inode,
           Leads(dir, q, j), Under(p, q), p # q
    PROVE  \E i \in Inode : Leads(dir, p, i) /\ \E n \in EntryName, m \in Inode : HasEntry(dir[i], n, m)
<1>1. Len(p) \in 0 .. Len(q) /\ p = SubSeq(q, 1, Len(p))
    BY UnderPart
<1>2. Len(p) \in 0 .. Len(q) - 1
    <2>1. Len(q) \in Nat /\ SubSeq(q, 1, Len(q)) = q
        BY SubSeqFull, LenProperties DEF EntryPath
    <2>2. Len(p) # Len(q)
        BY <1>1, <2>1
    <2>3. \A l \in Nat : \A m \in 0 .. l : m # l => m \in 0 .. l - 1
        OBVIOUS
    <2> QED
        BY <1>1, <2>1, <2>2, <2>3
<1>3. PICK c : IsWay(dir, q, c)
    BY DEF Leads
<1> DEFINE k == Len(p)
<1>4. Leads(dir, p, c[k])
    BY <1>1, <1>3, PartLeads
<1>5. c[k] \in Inode /\ c[k + 1] \in Inode /\ q[k + 1] \in EntryName
    <2>1. Len(q) \in Nat /\ k + 1 \in 1 .. Len(q) /\ k \in 0 .. Len(q) /\ k + 1 \in 0 .. Len(q)
        BY <1>2, LenProperties DEF EntryPath
    <2> HIDE DEF k
    <2>2. c[k] \in Inode /\ c[k + 1] \in Inode
        BY <1>3, <2>1 DEF IsWay
    <2>3. q[k + 1] \in EntryName
        BY <2>1, ElementOfSeq DEF EntryPath
    <2> QED
        BY <2>2, <2>3
<1>6. HasEntry(dir[c[k]], q[k + 1], c[k + 1])
    <2>1. Len(q) \in Nat /\ k + 1 \in 1 .. Len(q) /\ (k + 1) - 1 = k
        BY <1>2, LenProperties DEF EntryPath
    <2> HIDE DEF k
    <2>2. HasEntry(dir[c[(k + 1) - 1]], q[k + 1], c[k + 1])
        BY <1>3, <2>1 DEF IsWay
    <2> QED
        BY <2>1, <2>2
<1> HIDE DEF k
<1> QED
    BY <1>4, <1>5, <1>6

\* A path that goes on is that of a directory.
LEMMA PrefixIsDir ==
    ASSUME IInv, Structure, NEW p \in EntryPath, NEW q \in EntryPath, NEW j \in Inode,
           Leads(dir, q, j), Under(p, q), p # q
    PROVE  Atomic!IsDir(p)
<1>1. PICK i \in Inode : Leads(dir, p, i) /\ \E n \in EntryName, m \in Inode : HasEntry(dir[i], n, m)
    BY PrefixGoesOn
<1>2. type[i] = "dir"
    BY <1>1 DEF Structure, EntriesFit
<1> QED
    BY <1>1, <1>2, ExistsIfLeads

\* A stretch that cannot be walked to its end does not exist.
LEMMA DeadEnd ==
    ASSUME IInv, Structure, NEW t \in Thread, Way(t), Complete(t), WalkFails(t)
    PROVE  /\ FullPath(cmd[t], stage[t]) \in EntryPath
           /\ ~Atomic!Exists(FullPath(cmd[t], stage[t]))
           /\ Trod(t, stage[t]) \in EntryPath /\ Leads(dir, Trod(t, stage[t]), Cur(t)) /\ Cur(t) \in Inode
           /\ Under(Trod(t, stage[t]), FullPath(cmd[t], stage[t]))
<1> DEFINE s == stage[t]
           comps == Stretch(cmd[t], s)
           w == Len(comps) - Len(rest[t])
           a == Stretch(cmd[t], "common")
           n == Head(rest[t])
           pre == SubSeq(comps, 1, w)
           post == SubSeq(comps, w + 2, Len(comps))
<1>1. ThreadTypeOK /\ TableTypeOK /\ Part(t) /\ pc[t] = "walk" /\ pc[t] \in Walking /\ ~CanWalk(t)
    BY IInvParts DEF WalkFails, At, Walking
<1>2. cmd[t] \in Command /\ locked[t]["common"] # <<>> /\ Cur(t) \in Inode
    BY <1>1, Standing
<1>3. s \in Stage /\ "common" \in Stage /\ rest[t] \in Seq(Name) /\ rest[t] # <<>>
    BY <1>1 DEF ThreadTypeOK, Stage, Part, Located
<1>4. comps \in Seq(Name) /\ a \in Seq(Name) /\ comps \in EntryPath /\ a \in EntryPath
    <2>1. comps \in Seq(Name) /\ a \in Seq(Name)
        BY <1>2, <1>3, StretchIsPath
    <2> QED
        BY <2>1, PathIsEntryPath DEF Path
<1>5. /\ Len(comps) \in Nat /\ Len(rest[t]) \in Nat /\ w >= 0 /\ 1 \in 1 .. Len(rest[t])
      /\ rest[t][1] = comps[w + 1] /\ n = rest[t][1]
      /\ Len(locked[t][s]) = w + (IF s = "common" THEN 1 ELSE 0)
    <2>1. Len(comps) \in Nat /\ Len(rest[t]) \in Nat /\ 1 \in 1 .. Len(rest[t]) /\ n = rest[t][1]
        BY <1>3, <1>4
    <2>2. /\ w >= 0 /\ \A k \in 1 .. Len(rest[t]) : rest[t][k] = comps[w + k]
          /\ Len(locked[t][s]) = w + (IF s = "common" THEN 1 ELSE 0) - 0
        BY <1>1 DEF Way, Placed
    <2>3. rest[t][1] = comps[w + 1]
        BY <2>1, <2>2
    <2>4. Len(locked[t][s]) = w + (IF s = "common" THEN 1 ELSE 0)
        BY <2>1, <2>2
    <2> QED
        BY <2>1, <2>2, <2>3, <2>4
<1>6. w \in 0 .. Len(comps) - 1
    BY <1>5
<1>7. Len(locked[t][s]) = (IF s = "common" THEN w + 1 ELSE w) /\ w \in Nat
    <2>1. w \in Nat
        BY <1>5, <1>6
    <2> HIDE DEF w
    <2>2. CASE s = "common"
        <3>1. Len(locked[t][s]) = w + 1
            BY <1>5, <2>2
        <3> QED
            BY <2>1, <2>2, <3>1
    <2>3. CASE s # "common"
        <3>1. Len(locked[t][s]) = w + 0
            BY <1>5, <2>3
        <3> QED
            BY <2>1, <2>3, <3>1
    <2> QED
        BY <2>2, <2>3
<1> HIDE DEF w
<1>8. /\ pre \in EntryPath /\ n \in EntryName /\ post \in EntryPath
      /\ comps = Join(Extend(pre, n), post)
    BY <1>4, <1>5, <1>6, SplitAt
<1> HIDE DEF pre, post, n
<1>9. FullPath(cmd[t], s) = Join(Extend(Trod(t, s), n), post) /\ Trod(t, s) \in EntryPath
    <2>1. CASE s = "common"
        <3>1. Len(locked[t]["common"]) - 1 = w
            BY <1>7, <2>1
        <3>2. Trod(t, s) = pre
            BY <2>1, <3>1 DEF Trod, pre
        <3> QED
            BY <1>8, <2>1, <3>2 DEF FullPath
    <2>2. CASE s # "common"
        <3>1. Len(locked[t][s]) = w
            BY <1>7, <2>2
        <3>2. Trod(t, s) = Join(a, pre) /\ FullPath(cmd[t], s) = Join(a, comps)
            BY <2>2, <3>1 DEF Trod, pre, FullPath
        <3>3. Extend(pre, n) \in EntryPath
            BY <1>8, ExtendPath
        <3>4. Join(a, Join(Extend(pre, n), post)) = Join(Join(a, Extend(pre, n)), post)
            BY <1>4, <1>8, <3>3, JoinTwice
        <3>5. Extend(Join(a, pre), n) = Join(a, Extend(pre, n))
            BY <1>4, <1>8, ExtendJoin
        <3>6. Join(a, pre) \in EntryPath
            BY <1>4, <1>8, JoinPath
        <3> QED
            BY <1>8, <3>2, <3>4, <3>5, <3>6
    <2> QED
        BY <2>1, <2>2
<1>10. Leads(dir, Trod(t, s), Cur(t))
    BY <1>1, <1>2, <1>3, TrodLeads, FeetAre
<1>11. \A j : ~HasEntry(dir[Cur(t)], n, j)
    <2> SUFFICES ASSUME NEW j, HasEntry(dir[Cur(t)], n, j) PROVE FALSE
        OBVIOUS
    <2>1. j \in Inode
        BY <1>1, <1>2, HasTypes
    <2>2. type[Cur(t)] = "dir"
        BY <1>2, <1>8, <2>1 DEF Structure, EntriesFit
    <2>3. n \in Names(dir[Cur(t)])
        BY DEF HasEntry
    <2> QED
        BY <1>1, <2>2, <2>3 DEF CanWalk, n
<1>12. /\ Join(Extend(Trod(t, s), n), post) \in EntryPath
       /\ \A j \in Inode : ~Leads(dir, Join(Extend(Trod(t, s), n), post), j)
    BY <1>8, <1>9, <1>10, <1>11, Blocked
<1>13. Under(Trod(t, s), FullPath(cmd[t], s))
    <2>1. Extend(Trod(t, s), n) = Join(Trod(t, s), Extend(<<>>, n))
        <3>1. <<>> \in EntryPath
            BY DEF EntryPath
        <3>2. Extend(Join(Trod(t, s), <<>>), n) = Join(Trod(t, s), Extend(<<>>, n))
            BY <1>8, <1>9, <3>1, ExtendJoin
        <3> QED
            BY <1>8, <1>9, <3>2, JoinPath
    <2>2. Extend(<<>>, n) \in EntryPath
        <3>1. <<>> \in EntryPath
            BY DEF EntryPath
        <3> QED
            BY <1>8, <3>1, ExtendPath
    <2>3. Join(Join(Trod(t, s), Extend(<<>>, n)), post) = Join(Trod(t, s), Join(Extend(<<>>, n), post))
        BY <1>8, <1>9, <2>2, JoinTwice
    <2>4. Join(Extend(<<>>, n), post) \in EntryPath
        BY <1>8, <2>2, JoinPath
    <2> QED
        BY <1>9, <2>1, <2>3, <2>4 DEF Under
<1> QED
    BY <1>2, <1>9, <1>10, <1>12, <1>13, ExistsIfLeads

\* The errors of fs.c, one after the other.
LEMMA FinishOutcome ==
    ASSUME IInv, NEW t \in Thread, NEW r, NEW i, NEW p, Finish(t, r, i, p)
    PROVE  result'[t] = r
BY IInvParts DEF Finish, ThreadTypeOK

\* Only a move walks more than one stretch.
LEMMA FirstStretch ==
    ASSUME IInv, NEW t \in Thread, cmd[t].op # "move"
    PROVE  stage[t] = "common"
BY IInvParts DEF Part, Walked

\* The parents of a move that is in one of its legs.
LEMMA LegOfMove ==
    ASSUME IInv, NEW t \in Thread, cmd[t] \in Command, stage[t] # "common"
    PROVE  /\ cmd[t].op = "move"
           /\ stage[t] = "orig" => OrigRest(cmd[t]) # <<>>
           /\ stage[t] = "dest" => DestRest(cmd[t]) # <<>>
           /\ stage[t] = "orig" \/ stage[t] = "dest"
           /\ cmd[t].path # cmd[t].dest
<1>1. cmd[t].op = "move" /\ Stretch(cmd[t], stage[t]) # <<>>
    BY IInvParts DEF Part, Walked
<1>2. stage[t] = "orig" \/ stage[t] = "dest"
    BY IInvParts DEF ThreadTypeOK, Stage
<1>3. /\ stage[t] = "orig" => OrigRest(cmd[t]) # <<>>
      /\ stage[t] = "dest" => DestRest(cmd[t]) # <<>>
    BY <1>1, ParentsAreWalked
<1>4. cmd[t].path = cmd[t].dest => OrigRest(cmd[t]) = <<>> /\ DestRest(cmd[t]) = <<>>
    <2>1. cmd[t].path \in Path
        BY CommandFields, <1>1
    <2> QED
        BY <2>1, SamePathRest DEF OrigRest, DestRest
<1> QED
    BY <1>1, <1>2, <1>3, <1>4

\* tfs_fs_lock_all_from: a stretch does not exist.
LEMMA WalkFailsAtomically ==
    ASSUME IInv, Tree, Course, NEW t \in Thread, WalkFails(t)
    PROVE  Atomic!TakeEffect(t)
<1> DEFINE c == cmd[t]
           trod == Trod(t, stage[t])
           full == FullPath(c, stage[t])
<1>1. /\ full \in EntryPath /\ ~Atomic!Exists(full)
      /\ trod \in EntryPath /\ Leads(dir, trod, Cur(t)) /\ Cur(t) \in Inode /\ Under(trod, full)
    BY DeadEnd DEF Tree, Course
<1>2. dir' = dir /\ type' = type /\ Ending(t) /\ pc[t] = "walk"
    BY DEF WalkFails, tableVars, Ending, At
<1>3. result'[t] = WalkError(t)
    BY FinishOutcome DEF WalkFails
<1>4. c \in Command /\ c.op \in {"create", "remove", "search", "move", "print"}
    <2>1. c \in Command
        BY <1>2, IInvParts DEF Part, Located
    <2> QED
        BY <2>1, CommandFields
<1>5. c.op # "print"
    BY <1>2, IInvParts DEF Part, Located
<1>6. CASE c.op = "search"
    <2>1. stage[t] = "common" /\ full = c.path
        BY <1>6, FirstStretch DEF FullPath, Stretch
    <2>2. CASE type[Cur(t)] = "dir"
        <3>1. WalkError(t) = "NameNotFound"
            BY <1>6, <2>2 DEF WalkError
        <3> QED
            BY <1>1, <1>2, <1>3, <1>6, <2>1, <3>1, SearchErrors, FailsAtomically
    <2>3. CASE type[Cur(t)] # "dir"
        <3>1. WalkError(t) = "ParentsNotDir"
            BY <1>6, <2>3 DEF WalkError
        <3>2. Atomic!Exists(trod) /\ ~Atomic!IsDir(trod)
            BY <1>1, <2>3, ExistsIfLeads DEF Tree
        <3>3. IsPrefix(trod, c.path) /\ trod # c.path
            BY <1>1, <2>1, <3>2, PrefixIsUnder
        <3>4. IsStrictPrefix(trod, c.path) /\ trod \in DOMAIN Namespace
            BY <3>2, <3>3 DEF IsStrictPrefix, Atomic!Exists
        <3>5. "ParentsNotDir" \in Atomic!Errors(c)
            BY <1>6, <3>2, <3>4, SearchErrors
        <3> QED
            BY <1>2, <1>3, <3>1, <3>5, FailsAtomically
    <2> QED
        BY <2>2, <2>3
<1>7. CASE c.op = "create" \/ c.op = "remove"
    <2>1. WalkError(t) = "InexistentParentDir"
        BY <1>7 DEF WalkError
    <2>2. full = ParentPath(c.path)
        BY <1>4, <1>7, FirstStretch, ParentIsWalked
    <2>3. "InexistentParentDir" \in Atomic!Errors(c)
        BY <1>1, <1>7, <2>2, CreateErrors, RemoveErrors
    <2> QED
        BY <1>2, <1>3, <2>1, <2>3, FailsAtomically
<1>8. CASE c.op = "move" /\ stage[t] = "common"
    <2>1. WalkError(t) = "InexistentCommonAncestor"
        BY <1>8 DEF WalkError
    <2>2. c.path \in Path /\ full = CommonAncestor(c.path, c.dest)
        BY <1>4, <1>8, ParentsAreWalked
    <2>3. c.path = c.dest => full = c.path
        <3>1. c.path = c.dest => OrigRest(c) = <<>>
            BY <2>2, SamePathRest DEF OrigRest
        <3> QED
            BY <1>4, <1>8, <3>1, ParentsAreWalked
    <2>4. "InexistentCommonAncestor" \in Atomic!Errors(c)
        BY <1>1, <1>8, <2>2, <2>3, SelfMoveErrors, MoveErrors
    <2> QED
        BY <1>2, <1>3, <2>1, <2>4, FailsAtomically
<1>9. CASE c.op = "move" /\ stage[t] = "orig"
    <2>1. WalkError(t) = "InexistentOriginParentDir"
        BY <1>9 DEF WalkError
    <2>2. OrigRest(c) # <<>> /\ c.path # c.dest
        BY <1>4, <1>9, LegOfMove
    <2>3. full = ParentPath(c.path)
        BY <1>4, <1>9, <2>2, ParentsAreWalked
    <2>4. "InexistentOriginParentDir" \in Atomic!Errors(c)
        BY <1>1, <1>9, <2>2, <2>3, MoveErrors
    <2> QED
        BY <1>2, <1>3, <2>1, <2>4, FailsAtomically
<1>10. CASE c.op = "move" /\ stage[t] = "dest"
    <2>1. WalkError(t) = "InexistentDestinationParentDir"
        BY <1>10 DEF WalkError
    <2>2. DestRest(c) # <<>> /\ c.path # c.dest
        BY <1>4, <1>10, LegOfMove
    <2>3. full = ParentPath(c.dest)
        BY <1>4, <1>10, <2>2, ParentsAreWalked
    <2>4. "InexistentDestinationParentDir" \in Atomic!Errors(c)
        BY <1>1, <1>10, <2>2, <2>3, MoveErrors
    <2> QED
        BY <1>2, <1>3, <2>1, <2>4, FailsAtomically
<1> QED
    BY <1>4, <1>5, <1>6, <1>7, <1>8, <1>9, <1>10, LegOfMove

\* A name in a directory is a path that exists.
LEMMA NameExists ==
    ASSUME IInv, Structure, NEW p \in EntryPath, NEW d \in Inode, Leads(dir, p, d), NEW n \in EntryName
    PROVE  /\ Extend(p, n) \in EntryPath
           /\ Atomic!Exists(Extend(p, n)) <=> n \in Names(dir[d])
           /\ \A i \in Inode : HasEntry(dir[d], n, i) => Leads(dir, Extend(p, n), i)
<1>1. Extend(p, n) \in EntryPath
    BY ExtendPath
<1>2. \A i \in Inode : Leads(dir, Extend(p, n), i) <=> HasEntry(dir[d], n, i)
    <2> SUFFICES ASSUME NEW i \in Inode PROVE Leads(dir, Extend(p, n), i) <=> HasEntry(dir[d], n, i)
        OBVIOUS
    <2>1. Leads(dir, Extend(p, n), i) <=> \E e \in Inode : Leads(dir, p, e) /\ HasEntry(dir[e], n, i)
        BY LeadsExtend
    <2>2. \A e \in Inode : Leads(dir, p, e) => e = d
        BY LeadsToOne
    <2> QED
        BY <2>1, <2>2
<1>3. n \in Names(dir[d]) <=> \E i \in Inode : HasEntry(dir[d], n, i)
    <2>1. dir[d] \in Dir
        BY TreeIsTidy
    <2>2. n \in Names(dir[d]) => dir[d].entry[n] \in Inode
        BY <2>1, EntryIsInode
    <2> QED
        BY <2>2 DEF HasEntry
<1> QED
    BY <1>1, <1>2, <1>3, ExistsIfLeads

\* Where a create or remove stands.
LEMMA ParentReached ==
    ASSUME IInv, Tree, Course, NEW t \in Thread, pc[t] \in Walking \ {"lock", "walk"},
           cmd[t].op \in {"create", "remove"}
    PROVE  /\ cmd[t] \in Command /\ Cur(t) \in Inode /\ OrigParent(t) = Cur(t)
           /\ FullPath(cmd[t], "common") \in EntryPath
           /\ Leads(dir, FullPath(cmd[t], "common"), Cur(t))
<1>1. cmd[t] \in Command
    BY IInvParts, Standing
<1>2. stage[t] = "common" /\ "common" \in Stage
    BY FirstStretch DEF Stage
<1>3. Structure /\ Way(t) /\ Complete(t)
    BY DEF Tree, Course
<1>4. Cur(t) = Foot(t, "common") /\ OrigParent(t) = Foot(t, "orig")
    BY <1>2, FeetAre
<1>5. locked[t]["orig"] = <<>>
    BY IInvParts DEF Part, Walked, Stage
<1>6. Foot(t, "orig") = Foot(t, "common")
    BY <1>5 DEF Foot
<1> QED
    BY <1>1, <1>2, <1>3, <1>4, <1>6, EndLeads

\* tfs_fs_create and tfs_fs_remove: the parent is a file.
LEMMA ParentNotDirAtomically ==
    ASSUME IInv, Tree, Course, NEW t \in Thread, ParentNotDir(t)
    PROVE  Atomic!TakeEffect(t)
<1>1. /\ dir' = dir /\ type' = type /\ Ending(t) /\ pc[t] \in Walking \ {"lock", "walk"}
      /\ cmd[t].op \in {"create", "remove"} /\ type[Cur(t)] # "dir"
    BY DEF ParentNotDir, Fail, tableVars, Ending, At, Walking
<1>2. result'[t] = "ParentNotDir"
    BY FinishOutcome DEF ParentNotDir, Fail
<1>3. /\ cmd[t] \in Command /\ Cur(t) \in Inode
      /\ FullPath(cmd[t], "common") \in EntryPath /\ Leads(dir, FullPath(cmd[t], "common"), Cur(t))
    BY <1>1, ParentReached
<1>4. ParentPath(cmd[t].path) = FullPath(cmd[t], "common")
    BY <1>1, <1>3, ParentIsWalked
<1>5. Atomic!Exists(ParentPath(cmd[t].path)) /\ ~Atomic!IsDir(ParentPath(cmd[t].path))
    BY <1>1, <1>3, <1>4, ExistsIfLeads DEF Tree
<1>6. "ParentNotDir" \in Atomic!Errors(cmd[t])
    BY <1>1, <1>5, CreateErrors, RemoveErrors
<1> QED
    BY <1>1, <1>2, <1>6, FailsAtomically

\* tfs_fs_create: the name is refused.
LEMMA CreateFailsAtomically ==
    ASSUME IInv, Tree, Course, NEW t \in Thread, CreateFails(t)
    PROVE  Atomic!TakeEffect(t)
<1> DEFINE c == cmd[t]
           p == FullPath(c, "common")
           n == EntryOf(c)
<1>1. /\ dir' = dir /\ type' = type /\ Ending(t) /\ pc[t] = "add" /\ pc[t] \in Walking \ {"lock", "walk"}
      /\ AddRefused(dir[Cur(t)], n)
    BY DEF CreateFails, tableVars, Ending, At, Walking
<1>2. result'[t] = "AddEntry"
    BY FinishOutcome DEF CreateFails
<1>3. c.op = "create"
    BY <1>1, IInvParts DEF Part, Located
<1>4. c \in Command /\ Cur(t) \in Inode /\ p \in EntryPath /\ Leads(dir, p, Cur(t))
    BY <1>1, <1>3, ParentReached
<1>5. /\ n \in EntryName /\ (n # NoName <=> c.path # <<>>)
      /\ c.path # <<>> => c.path = Extend(p, n)
    BY <1>3, <1>4, ParentIsWalked
<1>6. Atomic!Exists(Extend(p, n)) <=> n \in Names(dir[Cur(t)])
    BY <1>4, <1>5, NameExists DEF Tree
<1>7. c.path = <<>> \/ Atomic!Exists(c.path)
    BY <1>1, <1>5, <1>6 DEF AddRefused
<1>8. "AddEntry" \in Atomic!Errors(c)
    BY <1>3, <1>7, CreateErrors
<1> QED
    BY <1>1, <1>2, <1>8, FailsAtomically

\* Where a move stands, once it has both parents.
LEMMA ParentsReached ==
    ASSUME IInv, Tree, Course, NEW t \in Thread, pc[t] \in Walking \ {"lock", "walk"},
           cmd[t].op = "move", LegsLeft(t) = <<>>
    PROVE  /\ cmd[t] \in Command
           /\ OrigParent(t) \in Inode /\ Leads(dir, FullPath(cmd[t], "orig"), OrigParent(t))
           /\ DestParent(t) \in Inode /\ Leads(dir, FullPath(cmd[t], "dest"), DestParent(t))
           /\ \E c : /\ IsWay(dir, FullPath(cmd[t], "dest"), c)
                     /\ \A k \in 0 .. Len(FullPath(cmd[t], "dest")) : c[k] \in Held(t)
           /\ Atomic!Exists(FullPath(cmd[t], "common"))
<1>1. cmd[t] \in Command
    BY IInvParts, Standing
<1>2. "common" \in Stage /\ "orig" \in Stage /\ "dest" \in Stage
    BY DEF Stage
<1>3. Structure /\ Way(t) /\ Complete(t)
    BY DEF Tree, Course
<1>4. OrigParent(t) = Foot(t, "orig") /\ DestParent(t) = Foot(t, "dest")
    BY FeetAre
<1>5. /\ FullPath(cmd[t], "common") \in EntryPath
      /\ Foot(t, "common") \in Inode /\ Leads(dir, FullPath(cmd[t], "common"), Foot(t, "common"))
    BY <1>2, <1>3, EndLeads
<1>6. Atomic!Exists(FullPath(cmd[t], "common"))
    BY <1>3, <1>5, ExistsIfLeads
<1>7. Foot(t, "orig") \in Inode /\ Leads(dir, FullPath(cmd[t], "orig"), Foot(t, "orig"))
    BY <1>2, <1>3, EndLeads
<1>8. /\ Foot(t, "dest") \in Inode /\ Leads(dir, FullPath(cmd[t], "dest"), Foot(t, "dest"))
      /\ \E c : /\ IsWay(dir, FullPath(cmd[t], "dest"), c)
                /\ \A k \in 0 .. Len(FullPath(cmd[t], "dest")) : c[k] \in Held(t)
    BY <1>2, <1>3, EndLeads
<1> QED
    BY <1>1, <1>4, <1>6, <1>7, <1>8

\* A move to the same path is one onto itself.
LEMMA SelfIsSame ==
    ASSUME NEW c \in Command, c.op = "move"
    PROVE  MovesToSelf(c) <=> c.path = c.dest
<1>1. c.path \in Path /\ c.dest \in Path
    BY CommandFields
<1>2. c.path = c.dest => MovesToSelf(c)
    BY <1>1, SamePathRest DEF MovesToSelf, OrigRest, DestRest
<1>3. MovesToSelf(c) => c.path = c.dest
    BY ParentsAreWalked DEF MovesToSelf
<1> QED
    BY <1>2, <1>3

\* tfs_fs_remove and tfs_fs_move: there is no such entry.
LEMMA ChildMissingAtomically ==
    ASSUME IInv, Tree, Course, NEW t \in Thread, ChildMissing(t)
    PROVE  Atomic!TakeEffect(t)
<1> DEFINE c == cmd[t]
           n == EntryOf(c)
<1>1. /\ dir' = dir /\ type' = type /\ Ending(t) /\ pc[t] \in Walking \ {"lock", "walk"}
      /\ ParentsReady(t) /\ n \notin Names(dir[OrigParent(t)])
    BY DEF ChildMissing, Fail, tableVars, Ending, At, Walking
<1>2. result'[t] = IF c.op = "remove" THEN "NameNotFound" ELSE "OriginNotFound"
    BY FinishOutcome DEF ChildMissing, Fail
<1>3. CASE c.op = "remove"
    <2> DEFINE p == FullPath(c, "common")
    <2>1. c \in Command /\ Cur(t) \in Inode /\ OrigParent(t) = Cur(t) /\ p \in EntryPath /\ Leads(dir, p, Cur(t))
        BY <1>1, <1>3, ParentReached
    <2>2. n \in EntryName /\ (c.path # <<>> => c.path = Extend(p, n))
        BY <1>3, <2>1, ParentIsWalked
    <2>3. Atomic!Exists(Extend(p, n)) <=> n \in Names(dir[Cur(t)])
        BY <2>1, <2>2, NameExists DEF Tree
    <2>4. "NameNotFound" \in Atomic!Errors(c)
        BY <1>1, <1>3, <2>1, <2>2, <2>3, RemoveErrors
    <2> QED
        BY <1>1, <1>2, <1>3, <2>4, FailsAtomically
<1>4. CASE c.op = "move" /\ LegsLeft(t) = <<>> /\ ~MovesToSelf(c)
    <2> DEFINE p == FullPath(c, "orig")
    <2>1. c \in Command /\ OrigParent(t) \in Inode /\ Leads(dir, p, OrigParent(t))
        BY <1>1, <1>4, ParentsReached
    <2>2. c.path # c.dest
        BY <1>4, <2>1, SelfIsSame
    <2>3. /\ p \in EntryPath /\ n \in EntryName /\ c.path \in Path /\ c.dest \in Path
          /\ OrigRest(c) # <<>> => c.path = Extend(p, n)
          /\ OrigRest(c) = <<>> => c.path = FullPath(c, "common")
          /\ c.dest = Join(FullPath(c, "common"), DestRest(c)) /\ DestRest(c) \in EntryPath
        BY <1>4, <2>1, ParentsAreWalked
    <2>4. Atomic!Exists(Extend(p, n)) <=> n \in Names(dir[OrigParent(t)])
        BY <2>1, <2>3, NameExists DEF Tree
    <2>5. OrigRest(c) = <<>> => IsPrefix(c.path, c.dest)
        <3>1. OrigRest(c) = <<>> => Under(c.path, c.dest)
            BY <2>3 DEF Under
        <3> QED
            BY <2>3, <3>1, PrefixIsUnder, PathIsEntryPath
    <2>6. "OriginNotFound" \in Atomic!Errors(c)
        BY <1>1, <1>4, <2>2, <2>3, <2>4, <2>5, MoveErrors
    <2>7. result'[t] = "OriginNotFound"
        BY <1>2, <1>4
    <2> QED
        BY <1>1, <2>6, <2>7, FailsAtomically
<1> QED
    BY <1>1, <1>3, <1>4 DEF ParentsReady

\* The path of a remove or a move leads to the child.
LEMMA EntryNotEmpty ==
    ASSUME IInv, NoEmptyName, NEW t \in Thread, pc[t] = "child"
    PROVE  EntryOf(cmd[t]) # NoName
BY ChildFacts DEF NoEmptyName, HasEntry

\* What a remove has reached when its child is locked.
LEMMA RemoveReached ==
    ASSUME IInv, Tree, Course, NoEmptyName, NEW t \in Thread, pc[t] = "child", cmd[t].op = "remove"
    PROVE  LET c == cmd[t]
               p == FullPath(c, "common")
           IN  /\ c \in Command /\ p \in EntryPath /\ Cur(t) \in Inode /\ Leads(dir, p, Cur(t))
               /\ ParentPath(c.path) = p /\ EntryOf(c) \in EntryName
               /\ c.path = Extend(p, EntryOf(c)) /\ c.path # <<>> /\ c.path \in EntryPath
               /\ target[t] \in Inode /\ HasEntry(dir[Cur(t)], EntryOf(c), target[t])
               /\ Leads(dir, c.path, target[t])
<1> DEFINE c == cmd[t]
           p == FullPath(c, "common")
<1>1. pc[t] \in Walking \ {"lock", "walk"}
    BY DEF Walking
<1>2. /\ c \in Command /\ Cur(t) \in Inode /\ OrigParent(t) = Cur(t)
      /\ p \in EntryPath /\ Leads(dir, p, Cur(t))
    BY <1>1, ParentReached
<1>3. EntryOf(c) # NoName
    BY EntryNotEmpty
<1>4. /\ ParentPath(c.path) = p /\ EntryOf(c) \in EntryName /\ c.path \in EntryPath
      /\ c.path = Extend(p, EntryOf(c)) /\ c.path # <<>>
    BY <1>2, <1>3, ParentIsWalked
<1>5. target[t] \in Inode /\ HasEntry(dir[Cur(t)], EntryOf(c), target[t])
    BY <1>2, ChildFacts
<1>6. Leads(dir, Extend(p, EntryOf(c)), target[t])
    BY <1>2, <1>4, <1>5, NameExists DEF Tree
<1> QED
    BY <1>2, <1>4, <1>5, <1>6

\* What a move has reached when its child is locked.
LEMMA MoveReached ==
    ASSUME IInv, Tree, Course, NoEmptyName, NEW t \in Thread, pc[t] = "child", cmd[t].op = "move"
    PROVE  LET c == cmd[t]
               p == FullPath(c, "orig")
               q == FullPath(c, "dest")
           IN  /\ c \in Command /\ p \in EntryPath /\ q \in EntryPath /\ c.path # c.dest
               /\ OrigParent(t) \in Inode /\ Leads(dir, p, OrigParent(t))
               /\ DestParent(t) \in Inode /\ Leads(dir, q, DestParent(t))
               /\ OrigRest(c) # <<>> /\ ParentPath(c.path) = p
               /\ EntryOf(c) \in EntryName /\ c.path = Extend(p, EntryOf(c)) /\ c.path \in EntryPath
               /\ target[t] \in Inode /\ HasEntry(dir[OrigParent(t)], EntryOf(c), target[t])
               /\ Leads(dir, c.path, target[t])
               /\ Atomic!Exists(FullPath(c, "common"))
<1> DEFINE c == cmd[t]
           p == FullPath(c, "orig")
           q == FullPath(c, "dest")
<1>1. pc[t] \in Walking \ {"lock", "walk"}
    BY DEF Walking
<1>2. LegsLeft(t) = <<>>
    BY IInvParts DEF Part, Located
<1>3. /\ c \in Command /\ Atomic!Exists(FullPath(c, "common"))
      /\ OrigParent(t) \in Inode /\ Leads(dir, p, OrigParent(t))
      /\ DestParent(t) \in Inode /\ Leads(dir, q, DestParent(t))
    BY <1>1, <1>2, ParentsReached
<1>4. EntryOf(c) # NoName
    BY EntryNotEmpty
<1>5. /\ p \in EntryPath /\ q \in EntryPath /\ c.path \in EntryPath
      /\ OrigRest(c) # <<>> /\ ParentPath(c.path) = p
      /\ EntryOf(c) \in EntryName /\ c.path = Extend(p, EntryOf(c))
    BY <1>3, <1>4, ParentsAreWalked, PathIsEntryPath
<1>6. c.path # c.dest
    BY <1>3, <1>5, SelfIsSame DEF MovesToSelf
<1>7. target[t] \in Inode /\ HasEntry(dir[OrigParent(t)], EntryOf(c), target[t])
    BY ChildFacts
<1>8. Leads(dir, Extend(p, EntryOf(c)), target[t])
    BY <1>3, <1>5, <1>7, NameExists DEF Tree
<1> QED
    BY <1>3, <1>5, <1>6, <1>7, <1>8

\* tfs_fs_remove: the directory is not empty.
LEMMA RemoveNonEmptyAtomically ==
    ASSUME IInv, Tree, Course, NoEmptyName, NEW t \in Thread, RemoveNonEmpty(t)
    PROVE  Atomic!TakeEffect(t)
<1> DEFINE c == cmd[t]
<1>1. /\ dir' = dir /\ type' = type /\ Ending(t) /\ pc[t] = "child" /\ c.op = "remove" /\ ~Removable(t)
    BY DEF RemoveNonEmpty, tableVars, Ending, At
<1>2. result'[t] = "RemoveNonEmptyDir"
    BY FinishOutcome DEF RemoveNonEmpty
<1>3. target[t] \in Inode /\ c.path \in EntryPath /\ Leads(dir, c.path, target[t])
    BY <1>1, RemoveReached
<1>4. PICK n : n \in Names(dir[target[t]])
    BY <1>1 DEF Removable, DirIsEmpty
<1>5. n \in EntryName
    <2>1. dir[target[t]] \in Dir
        BY <1>3, TreeIsTidy DEF Tree
    <2> QED
        BY <1>4, <2>1, EntryIsInode
<1>6. Extend(c.path, n) \in EntryPath /\ Atomic!Exists(Extend(c.path, n))
    BY <1>3, <1>4, <1>5, NameExists DEF Tree
<1>7. Extend(c.path, n) # c.path
    BY <1>3, <1>5, <1>6 DEF Extend, EntryPath
<1>8. IsPrefix(c.path, Extend(c.path, n))
    <2>1. Under(c.path, Extend(c.path, n))
        <3>1. Extend(c.path, n) = Join(c.path, <<n>>) /\ <<n>> \in EntryPath
            BY <1>3, <1>5 DEF Extend, Join, EntryPath
        <3> QED
            BY <3>1 DEF Under
    <2> QED
        BY <1>3, <1>6, <2>1, PrefixIsUnder
<1>9. Extend(c.path, n) \in Atomic!Below(c.path)
    BY <1>6, <1>8, SamePathOps DEF Atomic!Below, Atomic!Exists
<1>10. "RemoveNonEmptyDir" \in Atomic!Errors(c)
    BY <1>1, <1>7, <1>9, RemoveErrors
<1> QED
    BY <1>1, <1>2, <1>10, FailsAtomically

\* tfs_fs_move: the common ancestor is a file.
LEMMA CommonNotDirAtomically ==
    ASSUME IInv, Tree, Course, NEW t \in Thread, CommonAncestorNotDir(t)
    PROVE  Atomic!TakeEffect(t)
<1> DEFINE c == cmd[t]
           a == FullPath(c, "common")
<1>1. /\ dir' = dir /\ type' = type /\ Ending(t) /\ pc[t] \in Walking \ {"lock", "walk"}
      /\ c.op = "move" /\ stage[t] = "common" /\ ~MovesToSelf(c) /\ type[Cur(t)] # "dir"
    BY DEF CommonAncestorNotDir, Fail, tableVars, Ending, At, Walking
<1>2. result'[t] = "CommonAncestorNotDir"
    BY FinishOutcome DEF CommonAncestorNotDir, Fail
<1>3. c \in Command
    BY <1>1, IInvParts, Standing
<1>4. a \in EntryPath /\ Cur(t) \in Inode /\ Leads(dir, a, Cur(t))
    <2>1. "common" \in Stage /\ Structure /\ Way(t) /\ Complete(t) /\ Cur(t) = Foot(t, "common")
        BY <1>1, FeetAre DEF Stage, Tree, Course
    <2> QED
        BY <1>1, <2>1, EndLeads
<1>5. a = CommonAncestor(c.path, c.dest)
    BY <1>1, <1>3, ParentsAreWalked
<1>6. c.path # c.dest
    BY <1>1, <1>3, SelfIsSame
<1>7. Atomic!Exists(a) /\ ~Atomic!IsDir(a)
    BY <1>1, <1>4, ExistsIfLeads DEF Tree
<1>8. "CommonAncestorNotDir" \in Atomic!Errors(c)
    BY <1>1, <1>5, <1>6, <1>7, MoveErrors
<1> QED
    BY <1>1, <1>2, <1>8, FailsAtomically

\* A path is a directory if another stretch was walked from it.
LEMMA WalkedFromIsDir ==
    ASSUME IInv, Structure, NEW c \in Command, c.op = "move", NEW s \in {"orig", "dest"},
           Stretch(c, s) # <<>>, NEW i \in Inode, Leads(dir, FullPath(c, s), i)
    PROVE  Atomic!IsDir(FullPath(c, "common"))
<1> DEFINE a == FullPath(c, "common")
           x == Stretch(c, s)
<1>1. a \in EntryPath /\ FullPath(c, s) \in EntryPath
    BY ParentsAreWalked
<1>2. x \in EntryPath
    <2>1. x \in Seq(Name)
        BY StretchIsPath DEF Stage
    <2> QED
        BY <2>1, PathIsEntryPath DEF Path
<1>3. FullPath(c, s) = Join(a, x)
    BY DEF FullPath
<1>4. Under(a, FullPath(c, s)) /\ a # FullPath(c, s)
    BY <1>1, <1>2, <1>3, JoinPath DEF Under
<1> QED
    BY <1>1, <1>4, PrefixIsDir

\* A parent that is the common ancestor is a directory, if a leg starts from it.
LEMMA ShortParentIsDir ==
    ASSUME IInv, Tree, Course, NEW t \in Thread, pc[t] \in Walking \ {"lock", "walk"},
           cmd[t].op = "move", LegsLeft(t) = <<>>, stage[t] # "common"
    PROVE  /\ OrigRest(cmd[t]) = <<>> => type[OrigParent(t)] = "dir"
           /\ DestRest(cmd[t]) = <<>> => type[DestParent(t)] = "dir"
<1> DEFINE c == cmd[t]
           a == FullPath(c, "common")
<1>1. /\ c \in Command /\ OrigParent(t) \in Inode /\ DestParent(t) \in Inode
      /\ Leads(dir, FullPath(c, "orig"), OrigParent(t)) /\ Leads(dir, FullPath(c, "dest"), DestParent(t))
    BY ParentsReached
<1>2. Stretch(c, stage[t]) # <<>> /\ stage[t] \in {"orig", "dest"}
    BY IInvParts DEF Part, Walked, ThreadTypeOK, Stage
<1>3. Atomic!IsDir(a)
    BY <1>1, <1>2, WalkedFromIsDir DEF Tree
<1>4. /\ OrigRest(c) = <<>> => FullPath(c, "orig") = a
      /\ DestRest(c) = <<>> => FullPath(c, "dest") = a
      /\ a \in EntryPath
    BY <1>1, ParentsAreWalked
<1> QED
    BY <1>1, <1>3, <1>4, ExistsIfLeads DEF Tree

\* tfs_fs_move: a parent is a file.
LEMMA MoveParentAtomically ==
    ASSUME IInv, Tree, Course, NEW t \in Thread, MoveParentNotDir(t)
    PROVE  Atomic!TakeEffect(t)
<1> DEFINE c == cmd[t]
<1>1. /\ dir' = dir /\ type' = type /\ Ending(t) /\ pc[t] \in Walking \ {"lock", "walk"}
      /\ c.op = "move" /\ LegsLeft(t) = <<>> /\ stage[t] # "common"
      /\ type[OrigParent(t)] # "dir" \/ type[DestParent(t)] # "dir"
    BY DEF MoveParentNotDir, Fail, tableVars, Ending, At, Walking
<1>2. result'[t] = IF type[OrigParent(t)] # "dir" THEN "OriginParentNotDir" ELSE "DestinationParentNotDir"
    BY FinishOutcome DEF MoveParentNotDir, Fail
<1>3. /\ c \in Command /\ OrigParent(t) \in Inode /\ DestParent(t) \in Inode
      /\ Leads(dir, FullPath(c, "orig"), OrigParent(t)) /\ Leads(dir, FullPath(c, "dest"), DestParent(t))
    BY <1>1, ParentsReached
<1>4. c.path # c.dest
    BY <1>1, <1>3, LegOfMove
<1>5. /\ OrigRest(c) = <<>> => type[OrigParent(t)] = "dir"
      /\ DestRest(c) = <<>> => type[DestParent(t)] = "dir"
    BY <1>1, ShortParentIsDir
<1>6. /\ FullPath(c, "orig") \in EntryPath /\ FullPath(c, "dest") \in EntryPath
      /\ OrigRest(c) # <<>> => ParentPath(c.path) = FullPath(c, "orig")
      /\ DestRest(c) # <<>> => ParentPath(c.dest) = FullPath(c, "dest")
    BY <1>1, <1>3, ParentsAreWalked
<1>7. CASE type[OrigParent(t)] # "dir"
    <2>1. Atomic!Exists(ParentPath(c.path)) /\ ~Atomic!IsDir(ParentPath(c.path))
        BY <1>3, <1>5, <1>6, <1>7, ExistsIfLeads DEF Tree
    <2>2. "OriginParentNotDir" \in Atomic!Errors(c)
        BY <1>1, <1>4, <2>1, MoveErrors
    <2> QED
        BY <1>1, <1>2, <1>7, <2>2, FailsAtomically
<1>8. CASE type[OrigParent(t)] = "dir" /\ type[DestParent(t)] # "dir"
    <2>1. Atomic!Exists(ParentPath(c.dest)) /\ ~Atomic!IsDir(ParentPath(c.dest))
        BY <1>3, <1>5, <1>6, <1>8, ExistsIfLeads DEF Tree
    <2>2. "DestinationParentNotDir" \in Atomic!Errors(c)
        BY <1>1, <1>4, <2>1, MoveErrors
    <2> QED
        BY <1>1, <1>2, <1>8, <2>2, FailsAtomically
<1> QED
    BY <1>1, <1>7, <1>8

\* tfs_fs_move: the new name is refused.
LEMMA NameTakenAtomically ==
    ASSUME IInv, Tree, Course, NoEmptyName, NEW t \in Thread, RenameFails(t) \/ MoveFails(t)
    PROVE  Atomic!TakeEffect(t)
<1> DEFINE c == cmd[t]
           q == FullPath(c, "dest")
           n == DestName(c)
<1>1. /\ dir' = dir /\ type' = type /\ Ending(t) /\ pc[t] = "child" /\ c.op = "move"
    BY DEF RenameFails, MoveFails, Fail, tableVars, Ending, At, Renames, Transfers
<1>2. result'[t] \in {"RenameEntry", "AddEntry"}
    BY FinishOutcome DEF RenameFails, MoveFails, Fail
<1>3. /\ c \in Command /\ q \in EntryPath /\ c.path # c.dest
      /\ DestParent(t) \in Inode /\ Leads(dir, q, DestParent(t))
      /\ Atomic!Exists(FullPath(c, "common"))
    BY <1>1, MoveReached
<1>4. /\ n \in EntryName /\ (n # NoName <=> DestRest(c) # <<>>)
      /\ DestRest(c) = <<>> => c.dest = FullPath(c, "common")
      /\ DestRest(c) # <<>> => c.dest = Extend(q, n)
    BY <1>1, <1>3, ParentsAreWalked
<1>5. n = NoName \/ n \in Names(dir[DestParent(t)])
    <2>1. RenameFails(t) => Cur(t) = DestParent(t)
        BY <1>1, ChildInCur DEF RenameFails, Renames
    <2> QED
        BY <2>1 DEF RenameFails, MoveFails, RenameRefused, AddRefused
<1>6. Atomic!Exists(Extend(q, n)) <=> n \in Names(dir[DestParent(t)])
    BY <1>3, <1>4, NameExists DEF Tree
<1>7. Atomic!Exists(c.dest)
    BY <1>3, <1>4, <1>5, <1>6
<1>8. "RenameEntry" \in Atomic!Errors(c) /\ "AddEntry" \in Atomic!Errors(c)
    BY <1>1, <1>3, <1>7, MoveErrors
<1> QED
    BY <1>1, <1>2, <1>8, FailsAtomically

\* The commands that succeed and change nothing.
\* tfs_fs_find
LEMMA SearchAtomically ==
    ASSUME IInv, Tree, Course, NEW t \in Thread, Search(t)
    PROVE  Atomic!TakeEffect(t)
<1> DEFINE c == cmd[t]
<1>1. /\ dir' = dir /\ type' = type /\ Ending(t) /\ pc[t] \in Walking \ {"lock", "walk"} /\ c.op = "search"
    BY DEF Search, tableVars, Ending, At, Walking
<1>2. result'[t] = "success"
    BY FinishOutcome DEF Search
<1>3. stage[t] = "common" /\ "common" \in Stage /\ Structure /\ Way(t) /\ Complete(t)
    BY <1>1, FirstStretch DEF Stage, Tree, Course
<1>4. FullPath(c, "common") = c.path
    BY <1>1 DEF FullPath, Stretch
<1>5. c.path \in EntryPath /\ Foot(t, "common") \in Inode /\ Leads(dir, c.path, Foot(t, "common"))
    BY <1>1, <1>3, <1>4, EndLeads
<1>6. Atomic!Exists(c.path)
    BY <1>3, <1>5, ExistsIfLeads
<1>7. \A p \in DOMAIN Namespace : IsStrictPrefix(p, c.path) => Atomic!IsDir(p)
    <2> SUFFICES ASSUME NEW p \in DOMAIN Namespace, IsStrictPrefix(p, c.path)
                 PROVE Atomic!IsDir(p)
        OBVIOUS
    <2>1. p \in EntryPath
        BY <1>3, TreeIsTidy, NamespaceIs DEF Namespace, Paths
    <2>2. Under(p, c.path) /\ p # c.path
        BY <1>5, <2>1, PrefixIsUnder DEF IsStrictPrefix
    <2> QED
        BY <1>3, <1>5, <2>1, <2>2, PrefixIsDir
<1>8. Atomic!Errors(c) = {}
    <2>1. "NameNotFound" \notin Atomic!Errors(c)
        BY <1>1, <1>6, SearchErrors
    <2>2. "ParentsNotDir" \notin Atomic!Errors(c)
        BY <1>1, <1>7, SearchErrors
    <2> QED
        BY <1>1, <2>1, <2>2, SearchErrors
<1>9. Namespace' = Atomic!Effect(c)
    BY <1>1 DEF Atomic!Effect, Namespace
<1> QED
    BY <1>1, <1>2, <1>8, <1>9, SucceedsAtomically

\* tfs_fs_print
LEMMA PrintAtomically ==
    ASSUME IInv, Tree, Course, NEW t \in Thread, PrintDone(t)
    PROVE  Atomic!TakeEffect(t)
<1>1. dir' = dir /\ type' = type /\ Ending(t) /\ pc[t] = "print"
    BY DEF PrintDone, tableVars, Ending, At
<1>2. result'[t] = "success"
    BY FinishOutcome DEF PrintDone
<1>3. cmd[t].op = "print"
    BY <1>1 DEF Tree, Way, Ready
<1>4. Atomic!Errors(cmd[t]) = {}
    BY <1>3, PrintErrors
<1>5. Namespace' = Atomic!Effect(cmd[t])
    BY <1>1, <1>3 DEF Atomic!Effect, Namespace
<1> QED
    BY <1>1, <1>2, <1>4, <1>5, SucceedsAtomically

\* Every step keeps the types of new inodes.
LEMMA TypedStays ==
    ASSUME IInv, NEW t \in Thread, Step(t), \A u \in Thread : Typed(u)
    PROVE  \A u \in Thread : Typed(u)'
<1>1. ThreadTypeOK /\ TableTypeOK /\ OthersStay(t)
    BY StepFacts
<1>2. \A u \in Thread \ {t} : Typed(u)'
    <2> SUFFICES ASSUME NEW u \in Thread \ {t}, pc'[u] = "add"
                 PROVE  type'[target'[u]] = cmd'[u].type
        BY DEF Typed
    <2>1. pc[u] = "add" /\ target'[u] = target[u] /\ cmd'[u] = cmd[u]
        BY <1>1 DEF OthersStay
    <2>2. target[u] \in Inode /\ u \in Holders(target[u])
        BY <2>1, IInvParts DEF Part, Located, Owned, Holders
    <2>3. type'[target[u]] = type[target[u]]
        BY <2>2, OthersHold
    <2> QED
        BY <2>1, <2>3 DEF Typed
<1>3. CASE TakeSlot(t)
    <2>1. /\ target'[t] = target[t] /\ cmd' = cmd
          /\ type' = [type EXCEPT ![target[t]] = cmd[t].type]
        <3>1. Goto(t, "add", target[t]) /\ TakeInode(t, target[t], cmd[t].type)
            BY <1>3 DEF TakeSlot
        <3>2. target'[t] = target[t] /\ cmd' = cmd
            BY <1>1, <3>1 DEF Goto, ThreadTypeOK
        <3> QED
            BY <3>1, <3>2 DEF TakeInode
    <2>2. target[t] \in Inode
        BY <1>1, <1>3, BaseAssumption DEF TakeSlot, ThreadTypeOK, Inode
    <2>3. type'[target'[t]] = cmd'[t].type
        BY <1>1, <2>1, <2>2 DEF TableTypeOK
    <2>4. Typed(t)'
        BY <2>3 DEF Typed
    <2> QED
        BY <1>2, <2>4
<1>4. CASE ~TakeSlot(t)
    <2>1. pc'[t] # "add"
        <3>1. CASE Ending(t)
            BY <3>1, EndingDecides
        <3>2. CASE LettingGo(t)
            BY <3>2, LetsGo DEF Walking
        <3>3. CASE Receive(t) \/ ReceiveRejected(t) \/ Reply(t)
            BY <1>1, <3>3 DEF Receive, ReceiveRejected, Reply, ThreadTypeOK
        <3>4. CASE Stopping(t)
            BY <1>1, <3>4 DEF Stopping, LockErrno, TableFull, Abort, threadVars, At
        <3>5. CASE WalkingOn(t)
            BY <1>1, <1>4, <3>5 DEF WalkingOn, Lock, Walk, CreateScan, SkipSlot, MoveLeg,
               FindChild, LockChild, PrintStart, PrintVisit, Goto, At, ThreadTypeOK
        <3> QED
            BY <3>1, <3>2, <3>3, <3>4, <3>5, StepKinds
    <2>2. Typed(t)'
        BY <2>1 DEF Typed
    <2> QED
        BY <1>2, <2>2
<1> QED
    BY <1>3, <1>4

\* Course is inductive.
LEMMA CourseStays ==
    ASSUME IInv, Tree, Course, NEW t \in Thread, Step(t)
    PROVE  Course'
<1>1. \A u \in Thread : Decided(u)'
    BY DecidedStays DEF Course
<1>2. \A u \in Thread : Complete(u)'
    BY CompleteStays DEF Course, Tree, Way
<1>3. \A u \in Thread : Typed(u)'
    BY TypedStays DEF Course
<1> QED
    BY <1>1, <1>2, <1>3 DEF Course

\* It holds at the beginning.
LEMMA InitCourse == Init => Course
<1> SUFFICES ASSUME Init, NEW t \in Thread PROVE Decided(t) /\ Complete(t) /\ Typed(t)
    BY DEF Course
<1>1. pc[t] = "idle" /\ cmd[t] = NoCommand /\ result[t] = "none"
    BY DEF Init, ThreadInit
<1> QED
    BY <1>1 DEF Decided, Complete, Typed, Walking

\* It holds after a step of nobody.
LEMMA StutterCourse == Course /\ UNCHANGED vars => Course'
BY DEF Course, Decided, Complete, Typed, LegsLeft, vars, threadVars, tableVars

\* A function that has the type of each inode at the path to it is the namespace.
LEMMA NamespaceBecomes ==
    ASSUME NEW D \in [Inode -> Dir], Tidy(D), NEW T, NEW S, NEW f, f = [p \in S |-> f[p]],
           \A p : p \in S <=> p \in EntryPath /\ \E i \in Inode : Leads(D, p, i),
           \A p \in EntryPath, i \in Inode : Leads(D, p, i) => f[p] = T[i]
    PROVE  NamespaceOf(D, T) = f
<1> DEFINE g == NamespaceOf(D, T)
<1>1. /\ g = [p \in Paths(D) |-> g[p]]
      /\ \A p \in EntryPath, i \in Inode : Leads(D, p, i) => g[p] = T[i]
    BY NamespaceIs
<1>2. S = Paths(D)
    BY DEF Paths
<1>3. \A p \in S : g[p] = f[p]
    BY <1>1
<1> HIDE DEF g
<1>4. g = f
    BY <1>1, <1>2, <1>3
<1> QED
    BY <1>4 DEF g

\* What exists, as the provers need it.
LEMMA TreeOfPaths ==
    ASSUME IInv, Structure
    PROVE  /\ Namespace = [p \in DOMAIN Namespace |-> Namespace[p]]
           /\ \A p : p \in DOMAIN Namespace <=> p \in EntryPath /\ \E i \in Inode : Leads(dir, p, i)
           /\ \A p : p \in DOMAIN Namespace <=> p \in EntryPath /\ Atomic!Exists(p)
           /\ \A p \in EntryPath, i \in Inode : Leads(dir, p, i) => Namespace[p] = type[i]
<1>1. /\ Namespace = [p \in Paths(dir) |-> Namespace[p]]
      /\ DOMAIN Namespace = Paths(dir)
      /\ \A p \in EntryPath, i \in Inode : Leads(dir, p, i) => Namespace[p] = type[i]
    BY TreeIsTidy, NamespaceIs DEF Namespace
<1> QED
    BY <1>1 DEF Paths, Atomic!Exists

\* The namespace after a step, by the paths that lead somewhere.
LEMMA TreeBecomes ==
    ASSUME IInv', Structure', NEW S, NEW f, f = [p \in S |-> f[p]],
           \A p : p \in S <=> p \in EntryPath /\ \E i \in Inode : Leads(dir', p, i),
           \A p \in EntryPath, i \in Inode : Leads(dir', p, i) => f[p] = type'[i]
    PROVE  Namespace' = f
<1>1. dir' \in [Inode -> Dir] /\ Tidy(dir')
    BY TreeStaysTidy
<1>2. NamespaceOf(dir', type') = f
    BY <1>1, NamespaceBecomes
<1> QED
    BY <1>2 DEF Namespace

\* tfs_fs_create
LEMMA CreateAtomically ==
    ASSUME IInv, Tree, Course, IInv', Structure', NEW t \in Thread, CreateEntry(t)
    PROVE  Atomic!TakeEffect(t)
<1> DEFINE c == cmd[t]
           p == FullPath(c, "common")
           n == EntryOf(c)
           x == target[t]
           f == Atomic!Effect(c)
<1>1. /\ Ending(t) /\ pc[t] = "add" /\ pc[t] \in Walking \ {"lock", "walk"}
    BY DEF CreateEntry, Ending, At, Walking
<1>2. result'[t] = "success"
    BY FinishOutcome DEF CreateEntry
<1>3. c.op = "create"
    BY <1>1, IInvParts DEF Part, Located
<1>4. c \in Command /\ Cur(t) \in Inode /\ p \in EntryPath /\ Leads(dir, p, Cur(t))
    BY <1>1, <1>3, ParentReached
<1>5. Structure /\ Ready(t) /\ dir \in [Inode -> Dir] /\ Tidy(dir)
    BY TreeIsTidy DEF Tree, Way
<1>6. /\ LinkMade(t) /\ type' = type
      /\ x \in Inode /\ x # Cur(t) /\ n \in EntryName /\ n # NoName
      /\ type[Cur(t)] = "dir" /\ \A i : ~HasEntry(dir[Cur(t)], n, i)
      /\ \A m \in EntryName, i \in Inode : ~HasEntry(dir[x], m, i)
    BY <1>5, CreateEntryLinks
<1>7. c.path \in EntryPath /\ ParentPath(c.path) = p /\ c.path = Extend(p, n) /\ c.path # <<>>
    BY <1>3, <1>4, <1>6, ParentIsWalked
<1>8. type[x] = c.type
    BY <1>1 DEF Course, Typed
<1>9. ~Atomic!Exists(c.path)
    <2>1. n \notin Names(dir[Cur(t)])
        BY <1>6 DEF HasEntry
    <2> QED
        BY <1>4, <1>5, <1>6, <1>7, <2>1, NameExists
<1>10. Atomic!Errors(c) = {}
    <2>1. Atomic!Exists(p) /\ Atomic!IsDir(p)
        BY <1>4, <1>5, <1>6, ExistsIfLeads
    <2>2. "InexistentParentDir" \notin Atomic!Errors(c)
        BY <1>3, <1>7, <2>1, CreateErrors
    <2>3. "ParentNotDir" \notin Atomic!Errors(c)
        BY <1>3, <1>7, <2>1, CreateErrors
    <2>4. "AddEntry" \notin Atomic!Errors(c)
        BY <1>3, <1>7, <1>9, CreateErrors
    <2> QED
        BY <1>3, <2>2, <2>3, <2>4, CreateErrors
<1>11. \A q \in EntryPath, i \in Inode :
           Leads(dir', q, i) <=> Leads(dir, q, i) \/ (q = c.path /\ i = x)
    <2>1. \A e, j \in Inode, m \in EntryName :
              HasEntry(dir'[e], m, j) <=> HasEntry(dir[e], m, j) \/ (e = Cur(t) /\ m = n /\ j = x)
        BY <1>6 DEF LinkMade
    <2> SUFFICES ASSUME NEW q \in EntryPath, NEW i \in Inode
                 PROVE  Leads(dir', q, i) <=> Leads(dir, q, i) \/ (q = c.path /\ i = x)
        OBVIOUS
    <2>2. \A j \in Inode, m \in EntryName : ~HasEntry(dir[x], m, j)
        BY <1>6
    <2>3. /\ Tidy(dir) /\ Cur(t) \in Inode /\ n \in EntryName /\ x \in Inode /\ x # Cur(t)
          /\ p \in EntryPath /\ Leads(dir, p, Cur(t)) /\ c.path = Extend(p, n)
        BY <1>4, <1>5, <1>6, <1>7
    <2> HIDE DEF c, p, n, x
    <2>4. Leads(dir', q, i) <=> Leads(dir, q, i) \/ (q = Extend(p, n) /\ i = x)
        BY <2>1, <2>2, <2>3, LeadsAdded
    <2> QED
        BY <2>3, <2>4
<1> DEFINE S == DOMAIN Namespace \cup {c.path}
<1>12. f = [q \in S |-> IF q = c.path THEN c.type ELSE Namespace[q]]
    BY <1>3 DEF Atomic!Effect
<1> HIDE DEF S, f
<1>13. \A q : q \in S <=> q \in EntryPath /\ \E i \in Inode : Leads(dir', q, i)
    <2>1. \A q : q \in S <=> q \in DOMAIN Namespace \/ q = c.path
        BY DEF S
    <2>2. \A q : q \in DOMAIN Namespace <=> q \in EntryPath /\ \E i \in Inode : Leads(dir, q, i)
        BY <1>5, TreeOfPaths
    <2> QED
        BY <1>6, <1>7, <1>11, <2>1, <2>2
<1>14. \A q \in EntryPath, i \in Inode : Leads(dir', q, i) => f[q] = type'[i]
    <2> SUFFICES ASSUME NEW q \in EntryPath, NEW i \in Inode, Leads(dir', q, i)
                 PROVE  f[q] = type'[i]
        OBVIOUS
    <2>1. q \in S
        BY <1>13
    <2>2. CASE q = c.path
        <3>1. ~Leads(dir, q, i)
            BY <1>5, <1>7, <1>9, <2>2, ExistsIfLeads
        <3> QED
            BY <1>6, <1>8, <1>11, <1>12, <2>1, <2>2, <3>1
    <2>3. CASE q # c.path
        <3>1. Leads(dir, q, i)
            BY <1>11, <2>3
        <3>2. Namespace[q] = type[i]
            BY <1>5, <3>1, TreeOfPaths
        <3> QED
            BY <1>6, <1>12, <2>1, <2>3, <3>2
    <2> QED
        BY <2>2, <2>3
<1>15. f = [q \in S |-> f[q]]
    BY <1>12
<1>16. Namespace' = f
    BY <1>13, <1>14, <1>15, TreeBecomes
<1> QED
    BY <1>1, <1>2, <1>10, <1>16, SucceedsAtomically DEF f

\* tfs_fs_remove
LEMMA RemoveAtomically ==
    ASSUME IInv, Tree, Course, NoEmptyName, IInv', Structure', NEW t \in Thread, RemoveChild(t)
    PROVE  Atomic!TakeEffect(t)
<1> DEFINE c == cmd[t]
           p == FullPath(c, "common")
           n == EntryOf(c)
           x == target[t]
           f == Atomic!Effect(c)
<1>1. Ending(t) /\ pc[t] = "child" /\ c.op = "remove"
    BY DEF RemoveChild, Ending, At
<1>2. result'[t] = "success"
    BY FinishOutcome DEF RemoveChild
<1>3. /\ c \in Command /\ p \in EntryPath /\ Cur(t) \in Inode /\ Leads(dir, p, Cur(t))
      /\ ParentPath(c.path) = p /\ n \in EntryName
      /\ c.path = Extend(p, n) /\ c.path # <<>> /\ c.path \in EntryPath
      /\ x \in Inode /\ HasEntry(dir[Cur(t)], n, x) /\ Leads(dir, c.path, x)
    BY <1>1, RemoveReached
<1>4. Structure /\ dir \in [Inode -> Dir] /\ Tidy(dir)
    BY TreeIsTidy DEF Tree
<1>5. LinkCut(t) /\ type' = type /\ \A m \in EntryName, i \in Inode : ~HasEntry(dir[x], m, i)
    BY <1>4, RemoveChildLinks
<1>6. Atomic!Below(c.path) \subseteq {c.path}
    <2> SUFFICES ASSUME NEW q \in Atomic!Below(c.path), q # c.path PROVE FALSE
        OBVIOUS
    <2>1. q \in DOMAIN Namespace /\ IsPrefix(c.path, q)
        BY SamePathOps DEF Atomic!Below
    <2>2. q \in EntryPath /\ \E j \in Inode : Leads(dir, q, j)
        BY <1>4, <2>1, TreeOfPaths
    <2>3. Under(c.path, q)
        BY <1>3, <2>1, <2>2, PrefixIsUnder
    <2>4. PICK i \in Inode : /\ Leads(dir, c.path, i)
                             /\ \E m \in EntryName, j \in Inode : HasEntry(dir[i], m, j)
        BY <1>3, <1>4, <2>2, <2>3, PrefixGoesOn
    <2>5. i = x
        BY <1>3, <2>4, LeadsToOne
    <2> QED
        BY <1>5, <2>4, <2>5
<1>7. Atomic!Errors(c) = {}
    <2>1. type[Cur(t)] = "dir"
        BY <1>3, <1>4 DEF Structure, EntriesFit
    <2>2. Atomic!Exists(p) /\ Atomic!IsDir(p) /\ Atomic!Exists(c.path)
        BY <1>3, <1>4, <2>1, ExistsIfLeads
    <2>3. "InexistentParentDir" \notin Atomic!Errors(c)
        BY <1>1, <1>3, <2>2, RemoveErrors
    <2>4. "ParentNotDir" \notin Atomic!Errors(c)
        BY <1>1, <1>3, <2>2, RemoveErrors
    <2>5. "NameNotFound" \notin Atomic!Errors(c)
        BY <1>1, <1>3, <2>2, RemoveErrors
    <2>6. "RemoveNonEmptyDir" \notin Atomic!Errors(c)
        BY <1>1, <1>6, RemoveErrors
    <2> QED
        BY <1>1, <2>3, <2>4, <2>5, <2>6, RemoveErrors
<1>8. \A q \in EntryPath, i \in Inode : Leads(dir', q, i) <=> Leads(dir, q, i) /\ q # c.path
    <2>1. \A e, j \in Inode, m \in EntryName :
              HasEntry(dir'[e], m, j) <=> HasEntry(dir[e], m, j) /\ ~(e = Cur(t) /\ m = n)
        BY <1>5 DEF LinkCut
    <2> SUFFICES ASSUME NEW q \in EntryPath, NEW i \in Inode
                 PROVE  Leads(dir', q, i) <=> Leads(dir, q, i) /\ q # c.path
        OBVIOUS
    <2>2. \A j \in Inode, m \in EntryName : ~HasEntry(dir[x], m, j)
        BY <1>5
    <2>3. /\ Tidy(dir) /\ Cur(t) \in Inode /\ n \in EntryName /\ x \in Inode
          /\ HasEntry(dir[Cur(t)], n, x)
          /\ p \in EntryPath /\ Leads(dir, p, Cur(t)) /\ c.path = Extend(p, n)
        BY <1>3, <1>4
    <2> HIDE DEF c, p, n, x
    <2>4. Leads(dir', q, i) <=> Leads(dir, q, i) /\ q # Extend(p, n)
        BY <2>1, <2>2, <2>3, LeadsRemoved
    <2> QED
        BY <2>3, <2>4
<1> DEFINE S == DOMAIN Namespace \ {c.path}
<1>9. f = [q \in S |-> Namespace[q]]
    BY <1>1 DEF Atomic!Effect
<1> HIDE DEF S, f
<1>10. \A q : q \in S <=> q \in EntryPath /\ \E i \in Inode : Leads(dir', q, i)
    <2>1. \A q : q \in S <=> q \in DOMAIN Namespace /\ q # c.path
        BY DEF S
    <2>2. \A q : q \in DOMAIN Namespace <=> q \in EntryPath /\ \E i \in Inode : Leads(dir, q, i)
        BY <1>4, TreeOfPaths
    <2> QED
        BY <1>8, <2>1, <2>2
<1>11. \A q \in EntryPath, i \in Inode : Leads(dir', q, i) => f[q] = type'[i]
    <2> SUFFICES ASSUME NEW q \in EntryPath, NEW i \in Inode, Leads(dir', q, i)
                 PROVE  f[q] = type'[i]
        OBVIOUS
    <2>1. q \in S
        BY <1>10
    <2>2. Leads(dir, q, i)
        BY <1>8
    <2>3. Namespace[q] = type[i]
        BY <1>4, <2>2, TreeOfPaths
    <2> QED
        BY <1>5, <1>9, <2>1, <2>3
<1>12. f = [q \in S |-> f[q]]
    BY <1>9
<1>13. Namespace' = f
    BY <1>10, <1>11, <1>12, TreeBecomes
<1> QED
    BY <1>1, <1>2, <1>7, <1>13, SucceedsAtomically DEF f

\* A move, as a change of the tree: what is at or below its path goes to the
\* destination.
Moves(c, p) == \E s \in EntryPath : p = Join(c.dest, s) /\ Atomic!Exists(Join(c.path, s))
\* What Effect makes of the paths, for a move.
LEMMA MoveEffect ==
    ASSUME IInv, Structure, NEW c \in Command, c.op = "move"
    PROVE  \E S :
              /\ Atomic!Effect(c) = [p \in S |-> Atomic!Effect(c)[p]]
              /\ \A p : p \in S <=> p \in EntryPath /\ ((Atomic!Exists(p) /\ ~Under(c.path, p)) \/ Moves(c, p))
              /\ \A s \in EntryPath : Atomic!Exists(Join(c.path, s)) =>
                    Atomic!Effect(c)[Join(c.dest, s)] = Namespace[Join(c.path, s)]
              /\ \A p \in EntryPath : Atomic!Exists(p) /\ ~Under(c.path, p) /\ ~Moves(c, p) =>
                    Atomic!Effect(c)[p] = Namespace[p]
<1> DEFINE Rest(p) == SubSeq(p, Len(c.path) + 1, Len(p))
           Tail_(p) == SubSeq(p, Len(c.dest) + 1, Len(p))
           Back(p) == Join(c.path, Tail_(p))
           B == Atomic!Below(c.path)
           M == {Join(c.dest, Rest(p)) : p \in B}
           S == (DOMAIN Namespace \ B) \cup M
           f == Atomic!Effect(c)
<1>1. c.path \in EntryPath /\ c.dest \in EntryPath
    BY CommandFields, PathIsEntryPath
<1>2. f = [p \in S |-> IF p \in M THEN Namespace[Back(p)] ELSE Namespace[p]]
    BY DEF Atomic!Effect, Join
<1>3. \A p : p \in B <=> p \in EntryPath /\ Atomic!Exists(p) /\ Under(c.path, p)
    <2>1. \A p : p \in B <=> p \in DOMAIN Namespace /\ IsPrefix(c.path, p)
        BY SamePathOps DEF Atomic!Below
    <2>2. \A p : p \in DOMAIN Namespace <=> p \in EntryPath /\ Atomic!Exists(p)
        BY TreeOfPaths
    <2>3. \A p \in EntryPath : IsPrefix(c.path, p) <=> Under(c.path, p)
        BY <1>1, PrefixIsUnder
    <2> QED
        BY <2>1, <2>2, <2>3
<1>4. \A s \in EntryPath : /\ Rest(Join(c.path, s)) = s /\ Tail_(Join(c.dest, s)) = s
                           /\ Join(c.path, s) \in EntryPath /\ Join(c.dest, s) \in EntryPath
    BY <1>1, AfterJoin, JoinPath
<1> HIDE DEF B, Rest, Tail_, f
<1>5. \A p : p \in M <=> Moves(c, p)
    <2>1. ASSUME NEW p, p \in M PROVE Moves(c, p)
        <3>1. PICK q \in B : p = Join(c.dest, Rest(q))
            BY <2>1
        <3>2. q \in EntryPath /\ Atomic!Exists(q) /\ Under(c.path, q)
            BY <1>3, <3>1
        <3>3. PICK s \in EntryPath : q = Join(c.path, s)
            BY <3>2 DEF Under
        <3>4. Rest(q) = s
            BY <1>4, <3>3
        <3> QED
            BY <3>1, <3>2, <3>3, <3>4 DEF Moves
    <2>2. ASSUME NEW p, Moves(c, p) PROVE p \in M
        <3>1. PICK s \in EntryPath : p = Join(c.dest, s) /\ Atomic!Exists(Join(c.path, s))
            BY <2>2 DEF Moves
        <3>2. Under(c.path, Join(c.path, s))
            BY DEF Under
        <3>3. Join(c.path, s) \in B /\ Rest(Join(c.path, s)) = s
            BY <1>3, <1>4, <3>1, <3>2
        <3> QED
            BY <3>1, <3>3
    <2> QED
        BY <2>1, <2>2
<1>6. \A p : p \in S <=> p \in EntryPath /\ ((Atomic!Exists(p) /\ ~Under(c.path, p)) \/ Moves(c, p))
    <2>1. \A p : p \in S <=> (p \in DOMAIN Namespace /\ p \notin B) \/ p \in M
        OBVIOUS
    <2>2. \A p : p \in DOMAIN Namespace <=> p \in EntryPath /\ Atomic!Exists(p)
        BY TreeOfPaths
    <2>3. \A p : Moves(c, p) => p \in EntryPath
        BY <1>4 DEF Moves
    <2> HIDE DEF S, M
    <2> QED
        BY <1>3, <1>5, <2>1, <2>2, <2>3
<1> HIDE DEF S, M
<1>7. \A s \in EntryPath : Atomic!Exists(Join(c.path, s)) => f[Join(c.dest, s)] = Namespace[Join(c.path, s)]
    <2> SUFFICES ASSUME NEW s \in EntryPath, Atomic!Exists(Join(c.path, s))
                 PROVE  f[Join(c.dest, s)] = Namespace[Join(c.path, s)]
        OBVIOUS
    <2>1. Moves(c, Join(c.dest, s)) /\ Join(c.dest, s) \in EntryPath
        BY <1>4 DEF Moves
    <2>2. Join(c.dest, s) \in M /\ Join(c.dest, s) \in S
        BY <1>5, <1>6, <2>1
    <2>3. Back(Join(c.dest, s)) = Join(c.path, s)
        BY <1>4
    <2> QED
        BY <1>2, <2>2, <2>3
<1>8. \A p \in EntryPath : Atomic!Exists(p) /\ ~Under(c.path, p) /\ ~Moves(c, p) => f[p] = Namespace[p]
    BY <1>2, <1>5, <1>6
<1>9. f = [p \in S |-> f[p]]
    BY <1>2
<1> QED
    BY <1>6, <1>7, <1>8, <1>9 DEF f

\* tfs_fs_move onto itself leaves the tree as it is.
LEMMA MoveSelfAtomically ==
    ASSUME IInv, Tree, Course, NEW t \in Thread, MoveSelf(t)
    PROVE  Atomic!TakeEffect(t)
<1> DEFINE c == cmd[t]
           a == FullPath(c, "common")
           f == Atomic!Effect(c)
<1>1. /\ dir' = dir /\ type' = type /\ Ending(t) /\ pc[t] \in Walking \ {"lock", "walk"}
      /\ c.op = "move" /\ stage[t] = "common" /\ MovesToSelf(c)
    BY DEF MoveSelf, tableVars, Ending, At, Walking
<1>2. result'[t] = "success"
    BY FinishOutcome DEF MoveSelf
<1>3. c \in Command /\ Structure
    BY <1>1, IInvParts, Standing DEF Tree
<1>4. c.path = a /\ c.path = c.dest /\ c.path \in EntryPath
    BY <1>1, <1>3, ParentsAreWalked DEF MovesToSelf
<1>5. Atomic!Exists(a)
    <2>1. "common" \in Stage /\ Way(t) /\ Complete(t)
        BY DEF Stage, Tree, Course
    <2>2. Foot(t, "common") \in Inode /\ Leads(dir, a, Foot(t, "common"))
        BY <1>1, <1>3, <2>1, EndLeads
    <2> QED
        BY <1>3, <1>4, <2>2, ExistsIfLeads
<1>6. Atomic!Errors(c) = {}
    <2>1. "InexistentCommonAncestor" \notin Atomic!Errors(c)
        BY <1>1, <1>4, <1>5, SelfMoveErrors
    <2> QED
        BY <1>1, <1>4, <2>1, SelfMoveErrors
<1>7. PICK S : /\ f = [p \in S |-> f[p]]
               /\ \A p : p \in S <=> p \in EntryPath /\ ((Atomic!Exists(p) /\ ~Under(c.path, p)) \/ Moves(c, p))
               /\ \A s \in EntryPath : Atomic!Exists(Join(c.path, s)) =>
                     f[Join(c.dest, s)] = Namespace[Join(c.path, s)]
               /\ \A p \in EntryPath : Atomic!Exists(p) /\ ~Under(c.path, p) /\ ~Moves(c, p) =>
                     f[p] = Namespace[p]
    BY <1>1, <1>3, MoveEffect
<1> HIDE DEF f
<1>8. \A p \in EntryPath : Moves(c, p) <=> Atomic!Exists(p) /\ Under(c.path, p)
    BY <1>4 DEF Moves, Under
<1>9. /\ Namespace = [p \in DOMAIN Namespace |-> Namespace[p]]
      /\ \A p : p \in DOMAIN Namespace <=> p \in EntryPath /\ Atomic!Exists(p)
    BY <1>3, TreeOfPaths
<1>10. S = DOMAIN Namespace
    BY <1>7, <1>8, <1>9
<1>11. \A p \in S : f[p] = Namespace[p]
    <2> SUFFICES ASSUME NEW p \in S PROVE f[p] = Namespace[p]
        OBVIOUS
    <2>1. p \in EntryPath /\ Atomic!Exists(p)
        BY <1>9, <1>10
    <2>2. CASE Under(c.path, p)
        <3>1. PICK s \in EntryPath : p = Join(c.path, s)
            BY <2>2 DEF Under
        <3> QED
            BY <1>4, <1>7, <2>1, <3>1
    <2>3. CASE ~Under(c.path, p)
        BY <1>7, <1>8, <2>1, <2>3
    <2> QED
        BY <2>2, <2>3
<1>12. f = Namespace
    BY <1>7, <1>9, <1>10, <1>11
<1>13. Namespace' = f
    BY <1>1, <1>12 DEF Namespace
<1> QED
    BY <1>1, <1>2, <1>6, <1>13, SucceedsAtomically DEF f

\* A move that has found its child.  The child is on neither of the paths to
\* the parents, and the destination is free.
LEMMA NotOntoItself ==
    ASSUME IInv, Tree, Course, NoEmptyName, NEW t \in Thread, pc[t] = "child", cmd[t].op = "move"
    PROVE  ~Under(cmd[t].path, FullPath(cmd[t], "dest"))
<1> DEFINE c == cmd[t]
           p == c.path
           q == FullPath(c, "dest")
<1> SUFFICES ASSUME Under(p, q) PROVE FALSE
    OBVIOUS
<1>1. pc[t] \in Walking \ {"lock", "walk"} /\ LegsLeft(t) = <<>>
    BY IInvParts DEF Walking, Part, Located
<1>2. p \in EntryPath /\ q \in EntryPath /\ target[t] \in Inode /\ Leads(dir, p, target[t])
    BY MoveReached
<1>3. PICK w : IsWay(dir, q, w) /\ \A k \in 0 .. Len(q) : w[k] \in Held(t)
    BY <1>1, ParentsReached
<1>4. Len(p) \in 0 .. Len(q) /\ p = SubSeq(q, 1, Len(p))
    BY <1>2, UnderPart
<1>5. Leads(dir, p, w[Len(p)])
    <2> DEFINE k == Len(p)
    <2>1. k \in 0 .. Len(q) /\ p = SubSeq(q, 1, k) /\ q \in EntryPath /\ IsWay(dir, q, w)
        BY <1>2, <1>3, <1>4
    <2> HIDE DEF k, q
    <2>2. Leads(dir, SubSeq(q, 1, k), w[k])
        BY <2>1, PartLeads
    <2> QED
        BY <2>1, <2>2 DEF k
<1>6. w[Len(p)] = target[t]
    BY <1>2, <1>5, LeadsToOne
<1>7. target[t] \in Held(t)
    BY <1>3, <1>4, <1>6
<1> QED
    BY <1>7 DEF Tree, Way, Ready

\* Nothing is to be reported against it.
LEMMA MoveHasNoErrors ==
    ASSUME IInv, Tree, Course, NoEmptyName, NEW t \in Thread, pc[t] = "child", cmd[t].op = "move",
           DestName(cmd[t]) # NoName,
           \A i \in Inode : HasEntry(dir[DestParent(t)], DestName(cmd[t]), i) => i = target[t]
    PROVE  /\ Atomic!Errors(cmd[t]) = {} /\ ~Atomic!Exists(cmd[t].dest)
           /\ cmd[t].dest = Extend(FullPath(cmd[t], "dest"), DestName(cmd[t])) /\ DestName(cmd[t]) \in EntryName
           /\ cmd[t].dest \in EntryPath
<1> DEFINE c == cmd[t]
           p == FullPath(c, "orig")
           q == FullPath(c, "dest")
           n == DestName(c)
<1>1. /\ c \in Command /\ p \in EntryPath /\ q \in EntryPath /\ c.path # c.dest
      /\ OrigParent(t) \in Inode /\ Leads(dir, p, OrigParent(t))
      /\ DestParent(t) \in Inode /\ Leads(dir, q, DestParent(t))
      /\ OrigRest(c) # <<>> /\ ParentPath(c.path) = p /\ c.path \in EntryPath
      /\ target[t] \in Inode /\ Leads(dir, c.path, target[t])
    BY MoveReached
<1>2. Structure /\ Tidy(dir) /\ type[OrigParent(t)] = "dir" /\ type[DestParent(t)] = "dir"
    BY TreeIsTidy DEF Tree, Way, Ready
<1>3. /\ n \in EntryName /\ ParentPath(c.dest) = q /\ c.dest = Extend(q, n)
      /\ FullPath(c, "common") = CommonAncestor(c.path, c.dest) /\ FullPath(c, "common") \in EntryPath
      /\ c.path = Join(FullPath(c, "common"), OrigRest(c)) /\ OrigRest(c) \in EntryPath
    BY <1>1, ParentsAreWalked
<1>4. c.dest \in EntryPath
    BY <1>1, <1>3, ExtendPath
<1>5. ~Atomic!Exists(c.dest)
    <2> SUFFICES ASSUME Atomic!Exists(c.dest) PROVE FALSE
        OBVIOUS
    <2>1. PICK i \in Inode : Leads(dir, c.dest, i)
        BY <1>2, <1>4, ExistsIfLeads
    <2>2. PICK e \in Inode : Leads(dir, q, e) /\ HasEntry(dir[e], n, i)
        BY <1>1, <1>3, <2>1, LeadsExtend
    <2>3. e = DestParent(t)
        BY <1>1, <2>2, LeadsToOne
    <2>4. i = target[t]
        BY <2>2, <2>3
    <2> QED
        BY <1>1, <1>2, <1>4, <2>1, <2>4, OnePath
<1>6. Atomic!Exists(c.path) /\ Atomic!IsDir(p) /\ Atomic!IsDir(q)
    BY <1>1, <1>2, ExistsIfLeads
<1>7. Atomic!IsDir(FullPath(c, "common"))
    <2>1. Under(FullPath(c, "common"), c.path)
        BY <1>3 DEF Under
    <2>2. FullPath(c, "common") # c.path
        BY <1>1, <1>3, JoinPath
    <2> QED
        BY <1>1, <1>2, <1>3, <2>1, <2>2, PrefixIsDir
<1>8. ~IsPrefix(c.path, c.dest)
    <2>1. ~Under(c.path, q)
        BY NotOntoItself
    <2>2. ~Under(c.path, c.dest)
        BY <1>1, <1>3, <2>1, UnderParent
    <2> QED
        BY <1>1, <1>4, <2>2, PrefixIsUnder
<1>9. Atomic!Errors(c) = {}
    <2>1. \A r : Atomic!IsDir(r) => Atomic!Exists(r)
        BY DEF Atomic!IsDir
    <2>2. /\ "InexistentCommonAncestor" \notin Atomic!Errors(c)
          /\ "CommonAncestorNotDir" \notin Atomic!Errors(c)
        BY <1>1, <1>3, <1>7, <2>1, MoveErrors
    <2>3. /\ "InexistentOriginParentDir" \notin Atomic!Errors(c)
          /\ "OriginParentNotDir" \notin Atomic!Errors(c)
        BY <1>1, <1>3, <1>6, <2>1, MoveErrors
    <2>4. /\ "InexistentDestinationParentDir" \notin Atomic!Errors(c)
          /\ "DestinationParentNotDir" \notin Atomic!Errors(c)
        BY <1>1, <1>3, <1>6, <2>1, MoveErrors
    <2>5. "OriginNotFound" \notin Atomic!Errors(c)
        BY <1>1, <1>6, <1>8, MoveErrors
    <2>6. "RenameEntry" \notin Atomic!Errors(c) /\ "AddEntry" \notin Atomic!Errors(c)
        BY <1>1, <1>5, MoveErrors
    <2> QED
        BY <1>1, <2>2, <2>3, <2>4, <2>5, <2>6, MoveErrors
<1> QED
    BY <1>3, <1>4, <1>5, <1>9

\* What a path that is not the root's leads to has a name.
LEMMA LeadsByEntry ==
    ASSUME NEW D, NEW p \in EntryPath, p # <<>>, NEW i \in Inode, Leads(D, p, i)
    PROVE  \E d \in Inode, n \in EntryName : HasEntry(D[d], n, i)
<1>1. ParentPath(p) \in EntryPath /\ LastName(p) \in EntryName /\ p = Extend(ParentPath(p), LastName(p))
    BY ParentLast
<1> QED
    BY <1>1, LeadsExtend

\* The same entries, the same paths.
LEMMA LeadsSame ==
    ASSUME NEW D, NEW E,
           \A d, i \in Inode, n \in EntryName : HasEntry(E[d], n, i) <=> HasEntry(D[d], n, i),
           NEW p \in EntryPath, NEW i \in Inode
    PROVE  Leads(D, p, i) <=> Leads(E, p, i)
<1> DEFINE P == {a \in EntryPath : \A k \in Inode : Leads(E, a, k) <=> Leads(D, a, k)}
<1>1. <<>> \in P
    <2>1. <<>> \in EntryPath
        BY DEF EntryPath
    <2> QED
        BY <2>1, LeadsToRoot
<1>2. ASSUME NEW a \in EntryPath, NEW m \in EntryName, a \in P PROVE Extend(a, m) \in P
    <2>1. Extend(a, m) \in EntryPath
        BY ExtendPath
    <2>2. \A k \in Inode : Leads(E, Extend(a, m), k) <=> \E e \in Inode : Leads(E, a, e) /\ HasEntry(E[e], m, k)
        BY LeadsExtend
    <2>3. \A k \in Inode : Leads(D, Extend(a, m), k) <=> \E e \in Inode : Leads(D, a, e) /\ HasEntry(D[e], m, k)
        BY LeadsExtend
    <2> QED
        BY <1>2, <2>1, <2>2, <2>3
<1> HIDE DEF P
<1>3. p \in P
    BY <1>1, <1>2, PathInduction DEF Extend
<1> QED
    BY <1>3 DEF P

\* tfs_fs_move, in both its forms.
LEMMA RelinkAtomically ==
    ASSUME NoMoveToParent, IInv, Tree, Course, NoEmptyName, IInv', Structure',
           NEW t \in Thread, Relinking(t)
    PROVE  Atomic!TakeEffect(t)
<1> DEFINE c == cmd[t]
           p == FullPath(c, "orig")
           r == FullPath(c, "dest")
           n == EntryOf(c)
           l == DestName(c)
           x == target[t]
           d == OrigParent(t)
           e == DestParent(t)
           f == Atomic!Effect(c)
<1>1. Ending(t) /\ result'[t] = "success"
    BY FinishOutcome DEF Relinking, RenameChild, MoveChild, Ending
<1>2. /\ Relinked(t) /\ type' = type /\ pc[t] = "child" /\ c.op = "move"
      /\ \A i : HasEntry(dir[e], l, i) => i = x
    BY RenameChildLinks, MoveChildLinks DEF Relinking
<1>3. /\ c \in Command /\ p \in EntryPath /\ r \in EntryPath
      /\ d \in Inode /\ Leads(dir, p, d) /\ e \in Inode /\ Leads(dir, r, e)
      /\ n \in EntryName /\ c.path = Extend(p, n) /\ c.path \in EntryPath
      /\ x \in Inode /\ HasEntry(dir[d], n, x)
    BY <1>2, MoveReached
<1>4. Structure /\ dir \in [Inode -> Dir] /\ Tidy(dir)
    BY TreeIsTidy DEF Tree
<1>5. l # NoName
    <2>1. MoveChild(t) => l # NoName
        BY MoveChildLinks
    <2>2. RenameChild(t) => l # NoName
        <3>1. n # NoName
            BY <1>2, EntryNotEmpty
        <3> QED
            BY <1>2, <1>3, <3>1, DestNameNotEmpty DEF RenameChild, Renames
    <2> QED
        BY <2>1, <2>2 DEF Relinking
<1>6. /\ Atomic!Errors(c) = {} /\ ~Atomic!Exists(c.dest)
      /\ c.dest = Extend(r, l) /\ l \in EntryName /\ c.dest \in EntryPath
    BY <1>2, <1>5, MoveHasNoErrors
<1>7. ~Under(c.path, r)
    BY <1>2, NotOntoItself
<1>8. \A q \in EntryPath, i \in Inode :
          Leads(dir', q, i) <=>
              \/ Leads(dir, q, i) /\ ~Under(c.path, q)
              \/ \E s \in EntryPath : q = Join(c.dest, s) /\ Leads(dir, Join(c.path, s), i)
    <2>1. \A g, j \in Inode, m \in EntryName :
              HasEntry(dir[g], m, j) => ((g = d /\ m = n) <=> j = x)
        <3> SUFFICES ASSUME NEW g \in Inode, NEW j \in Inode, NEW m \in EntryName, HasEntry(dir[g], m, j)
                     PROVE  (g = d /\ m = n) <=> j = x
            OBVIOUS
        <3>1. j = x => g = d /\ m = n
            BY <1>3, <1>4 DEF Tidy
        <3>2. g = d /\ m = n => j = x
            BY <1>3 DEF HasEntry
        <3> QED
            BY <3>1, <3>2
    <2>2. \A g, j \in Inode, m \in EntryName :
              HasEntry(dir'[g], m, j) <=>
                  (HasEntry(dir[g], m, j) /\ j # x) \/ (g = e /\ m = l /\ j = x)
        <3> SUFFICES ASSUME NEW g \in Inode, NEW j \in Inode, NEW m \in EntryName
                     PROVE  HasEntry(dir'[g], m, j) <=>
                                (HasEntry(dir[g], m, j) /\ j # x) \/ (g = e /\ m = l /\ j = x)
            OBVIOUS
        <3>1. HasEntry(dir'[g], m, j) <=>
                  \/ HasEntry(dir[g], m, j) /\ ~(g = d /\ m = n)
                  \/ g = e /\ m = l /\ j = x
            BY <1>2 DEF Relinked
        <3>2. HasEntry(dir[g], m, j) => ((g = d /\ m = n) <=> j = x)
            BY <2>1
        <3> QED
            BY <3>1, <3>2
    <2>3. /\ Tidy(dir) /\ d \in Inode /\ n \in EntryName /\ x \in Inode /\ e \in Inode /\ l \in EntryName
          /\ HasEntry(dir[d], n, x) /\ p \in EntryPath /\ Leads(dir, p, d) /\ r \in EntryPath /\ Leads(dir, r, e)
          /\ ~Under(c.path, r) /\ c.path = Extend(p, n) /\ c.dest = Extend(r, l)
        BY <1>3, <1>4, <1>6, <1>7
    <2>4. Puts(dir, dir', x, e, l)
        BY <2>2 DEF Puts
    <2> HIDE DEF c, p, r, n, l, x, d, e
    <2>5. \A q \in EntryPath, i \in Inode : Leads(dir', q, i) <=> LeadsAfter(dir, c.path, c.dest, q, i)
        BY <2>3, <2>4, LeadsMoved
    <2> QED
        BY <2>5 DEF LeadsAfter
<1>9. PICK S : /\ f = [q \in S |-> f[q]]
               /\ \A q : q \in S <=> q \in EntryPath /\ ((Atomic!Exists(q) /\ ~Under(c.path, q)) \/ Moves(c, q))
               /\ \A s \in EntryPath : Atomic!Exists(Join(c.path, s)) =>
                     f[Join(c.dest, s)] = Namespace[Join(c.path, s)]
               /\ \A q \in EntryPath : Atomic!Exists(q) /\ ~Under(c.path, q) /\ ~Moves(c, q) =>
                     f[q] = Namespace[q]
    BY <1>2, <1>3, <1>4, MoveEffect
<1> HIDE DEF f
<1>10. \A q \in EntryPath : Atomic!Exists(q) <=> \E i \in Inode : Leads(dir, q, i)
    BY <1>4, ExistsIfLeads
<1>11. \A s \in EntryPath : Join(c.path, s) \in EntryPath /\ Join(c.dest, s) \in EntryPath
    BY <1>3, <1>6, JoinPath
<1>12. \A q : q \in S <=> q \in EntryPath /\ \E i \in Inode : Leads(dir', q, i)
    <2>1. \A q \in EntryPath : Moves(c, q) <=>
              \E i \in Inode : \E s \in EntryPath : q = Join(c.dest, s) /\ Leads(dir, Join(c.path, s), i)
        BY <1>10, <1>11 DEF Moves
    <2> QED
        BY <1>8, <1>9, <1>10, <2>1
<1>13. \A q \in EntryPath : Moves(c, q) => ~Atomic!Exists(q)
    <2> SUFFICES ASSUME NEW q \in EntryPath, Moves(c, q), Atomic!Exists(q) PROVE FALSE
        OBVIOUS
    <2>1. PICK s \in EntryPath : q = Join(c.dest, s)
        BY DEF Moves
    <2>2. \E i \in Inode : Leads(dir, Join(c.dest, s), i)
        BY <1>10, <2>1
    <2>3. \E i \in Inode : Leads(dir, c.dest, i)
        BY <1>6, <2>2, LeadsFirst
    <2> QED
        BY <1>6, <1>10, <2>3
<1>14. \A q \in EntryPath, i \in Inode : Leads(dir', q, i) => f[q] = type'[i]
    <2> SUFFICES ASSUME NEW q \in EntryPath, NEW i \in Inode, Leads(dir', q, i)
                 PROVE  f[q] = type'[i]
        OBVIOUS
    <2>1. CASE Leads(dir, q, i) /\ ~Under(c.path, q)
        <3>1. Atomic!Exists(q) /\ ~Moves(c, q)
            BY <1>10, <1>13, <2>1
        <3>2. f[q] = Namespace[q]
            BY <1>9, <2>1, <3>1
        <3>3. Namespace[q] = type[i]
            BY <1>4, <2>1, TreeOfPaths
        <3> QED
            BY <1>2, <3>2, <3>3
    <2>2. CASE \E s \in EntryPath : q = Join(c.dest, s) /\ Leads(dir, Join(c.path, s), i)
        <3>1. PICK s \in EntryPath : q = Join(c.dest, s) /\ Leads(dir, Join(c.path, s), i)
            BY <2>2
        <3>2. Join(c.path, s) \in EntryPath /\ Atomic!Exists(Join(c.path, s))
            BY <1>10, <1>11, <3>1
        <3>3. f[Join(c.dest, s)] = Namespace[Join(c.path, s)]
            BY <1>9, <3>2
        <3>4. Namespace[Join(c.path, s)] = type[i]
            BY <1>4, <3>1, <3>2, TreeOfPaths
        <3> QED
            BY <1>2, <3>1, <3>3, <3>4
    <2> QED
        BY <1>8, <2>1, <2>2
<1>15. f = [q \in S |-> f[q]]
    BY <1>9
<1>16. Namespace' = f
    BY <1>12, <1>14, <1>15, TreeBecomes
<1> QED
    BY <1>1, <1>6, <1>16, SucceedsAtomically DEF f

\* Every ending is the instant at which the command takes effect.
LEMMA EndingAtomically ==
    ASSUME NoMoveToParent, IInv, Tree, Course, NoEmptyName, IInv', Tree', NEW t \in Thread, Ending(t)
    PROVE  Atomic!TakeEffect(t)
BY WalkFailsAtomically, SearchAtomically, ParentNotDirAtomically, CreateAtomically,
   CreateFailsAtomically, MoveSelfAtomically, CommonNotDirAtomically, MoveParentAtomically,
   ChildMissingAtomically, RemoveNonEmptyAtomically, RemoveAtomically, RelinkAtomically,
   NameTakenAtomically, PrintAtomically DEF Ending, Relinking, Tree

\* The other steps leave the tree the clients see alone.
LEMMA NamespaceStays ==
    ASSUME IInv, Tree, IInv', Tree', NEW t \in Thread, Step(t), ~Ending(t)
    PROVE  Namespace' = Namespace
<1>1. Structure /\ Grounded /\ dir \in [Inode -> Dir] /\ Tidy(dir)
    BY TreeIsTidy DEF Tree
<1>2. dir' \in [Inode -> Dir] /\ Tidy(dir')
    BY TreeStaysTidy DEF Tree
<1>3. CASE ~Growing(t) /\ ~Shrinking(t) /\ ~Relinking(t)
    BY <1>3, QuietSteps DEF Namespace
<1>4. CASE TakeSlot(t) \/ FreeInode(t)
    <2>1. EntriesSame
        BY <1>1, <1>4, TakeSlotStructure, FreeInodeStructure
    <2>2. \A i \in Inode : type'[i] # type[i] => ~\E d \in Inode, n \in EntryName : HasEntry(dir[d], n, i)
        <3> SUFFICES ASSUME NEW i \in Inode, type'[i] # type[i],
                            NEW d \in Inode, NEW n \in EntryName, HasEntry(dir[d], n, i)
                     PROVE  FALSE
            OBVIOUS
        <3>1. type[i] # "none" /\ ~InTransit(i)
            BY <1>1 DEF Structure, EntriesFit
        <3>2. CASE TakeSlot(t)
            <4>1. i = target[t] /\ type[target[t]] = "none"
                BY <3>2, IInvParts DEF TakeSlot, TakeInode, SlotFree, TableTypeOK
            <4> QED
                BY <3>1, <4>1
        <3>3. CASE FreeInode(t)
            <4>1. i = target[t] /\ pc[t] \in {"free", "undo"}
                BY <3>3, IInvParts DEF FreeInode, RemoveInode, TableTypeOK, At
            <4> QED
                BY <3>1, <4>1 DEF InTransit
        <3> QED
            BY <1>4, <3>2, <3>3
    <2>3. type'[Root] = type[Root]
        <3>1. type[Root] = "dir" /\ type'[Root] = "dir"
            BY DEF Tree, Structure
        <3> QED
            BY <3>1
    <2>4. \A p \in EntryPath, i \in Inode : Leads(dir, p, i) <=> Leads(dir', p, i)
        BY <2>1, LeadsSame DEF EntriesSame
    <2>5. \A p \in EntryPath, i \in Inode : Leads(dir, p, i) => type[i] = type'[i]
        <3> SUFFICES ASSUME NEW p \in EntryPath, NEW i \in Inode, Leads(dir, p, i)
                     PROVE  type[i] = type'[i]
            OBVIOUS
        <3>1. CASE p = <<>>
            BY <2>3, <3>1, LeadsToRoot
        <3>2. CASE p # <<>>
            <4>1. PICK d \in Inode, n \in EntryName : HasEntry(dir[d], n, i)
                BY <3>2, LeadsByEntry
            <4> QED
                BY <2>2, <4>1
        <3> QED
            BY <3>1, <3>2
    <2>6. NamespaceOf(dir, type) = NamespaceOf(dir', type')
        BY <1>1, <1>2, <2>4, <2>5, NamespaceSame
    <2> QED
        BY <2>6 DEF Namespace
<1> QED
    BY <1>3, <1>4 DEF Growing, Shrinking, Relinking, Ending

-----------------------------------------------------------------------------
\* Every step is one of the atomic file system, or none.

\* At first there is the root, and nothing else.
LEMMA InitAtomically == Init => Atomic!AtomicInit
<1> SUFFICES ASSUME Init PROVE Atomic!AtomicInit
    OBVIOUS
<1>1. IInv /\ Tree
    BY InitIInv, InitTree
<1>2. dir \in [Inode -> Dir] /\ Tidy(dir)
    BY <1>1, TreeIsTidy DEF Tree
<1>3. dir = [i \in Inode |-> EmptyDir] /\ type[Root] = "dir" /\ Root \in Inode
    BY BaseAssumption DEF Init, TableInit, Root, Inode
<1>4. \A d, i \in Inode, n \in EntryName : ~HasEntry(dir[d], n, i)
    BY <1>3, EmptyDirHas
<1>5. \A p \in EntryPath, i \in Inode : Leads(dir, p, i) <=> p = <<>> /\ i = Root
    BY <1>4, LeadsByEntry, LeadsToRoot
<1>6. <<>> \in EntryPath
    BY DEF EntryPath
<1> DEFINE f == [p \in {<<>>} |-> "dir"]
<1>7. f = [p \in {<<>>} |-> f[p]]
    OBVIOUS
<1>8. \A p : p \in {<<>>} <=> p \in EntryPath /\ \E i \in Inode : Leads(dir, p, i)
    BY <1>3, <1>5, <1>6
<1>9. \A p \in EntryPath, i \in Inode : Leads(dir, p, i) => f[p] = type[i]
    BY <1>3, <1>5
<1>10. NamespaceOf(dir, type) = f
    <2> HIDE DEF f
    <2> QED
        BY <1>2, <1>7, <1>8, <1>9, NamespaceBecomes
<1> QED
    BY <1>10 DEF Init, ThreadInit, Namespace, Atomic!AtomicInit, Atomic!Idle, NoCommand

\* worker_thread_fn takes a command, and answers it.
LEMMA ReceiveAtomically ==
    ASSUME IInv, Course, NEW t \in Thread, Receive(t), Namespace' = Namespace
    PROVE  Atomic!Call(t)
BY DEF Receive, At, Course, Decided, Atomic!Call, Atomic!Idle, NoCommand

\* A command refused before any inode is locked.
LEMMA RejectAtomically ==
    ASSUME IInv, Course, NEW t \in Thread, ReceiveRejected(t), Namespace' = Namespace
    PROVE  Atomic!Refuse(t)
<1>1. cmd[t] = Atomic!Idle /\ result[t] = "none"
    BY DEF ReceiveRejected, At, Course, Decided, Atomic!Idle, NoCommand
<1>2. PICK c \in Command :
          /\ c.op = "print" \/ (c.op = "move" /\ MoveRejected(c) # "none")
          /\ cmd' = [cmd EXCEPT ![t] = c]
          /\ result' = [result EXCEPT ![t] = IF c.op = "print" THEN "Create" ELSE MoveRejected(c)]
    BY DEF ReceiveRejected
<1>3. (IF c.op = "print" THEN "Create" ELSE MoveRejected(c)) \in Atomic!Refusals(c)
    BY <1>2 DEF MoveRejected, Atomic!Refusals
<1> QED
    BY <1>1, <1>2, <1>3 DEF Atomic!Refuse

\* An answer.
LEMMA ReplyAtomically ==
    ASSUME IInv, Course, NEW t \in Thread, Reply(t), Namespace' = Namespace
    PROVE  Atomic!Answer(t)
<1>1. result[t] # "none"
    BY DEF Reply, At, Course, Decided, Walking
<1> QED
    BY <1>1 DEF Reply, Atomic!Answer, Atomic!Idle, NoCommand

\* Every step is one of the atomic file system, or none of its.
LEMMA StepAtomically ==
    ASSUME NoMoveToParent, IInv, Tree, Course, NoEmptyName, NEW t \in Thread, Step(t)
    PROVE  Atomic!AtomicNext \/ UNCHANGED Atomic!atomicVars
<1>1. IInv' /\ Tree'
    BY NextIInv, NextTree DEF Step
<1>2. CASE Ending(t)
    BY <1>1, <1>2, EndingAtomically DEF Atomic!AtomicNext
<1>3. CASE ~Ending(t)
    <2>1. Namespace' = Namespace
        BY <1>1, <1>3, NamespaceStays
    <2>2. CASE WalkingOn(t) \/ LettingGo(t)
        BY <2>1, <2>2, WalksOn, LetsGo DEF Atomic!atomicVars
    <2>3. CASE Stopping(t)
        BY <2>1, <2>3 DEF Stopping, LockErrno, TableFull, Abort, threadVars, Atomic!atomicVars
    <2>4. CASE Receive(t) \/ ReceiveRejected(t) \/ Reply(t)
        BY <2>1, <2>4, ReceiveAtomically, RejectAtomically, ReplyAtomically DEF Atomic!AtomicNext
    <2> QED
        BY <1>3, <2>2, <2>3, <2>4, StepKinds
<1> QED
    BY <1>2, <1>3

\* The course of every command: an outcome once, for good, and no stretch
\* left out.
THEOREM CourseInvariance == Spec => []Course
<1>1. Init => Course
    BY InitCourse
<1>2. IInv /\ Tree /\ Course /\ [Next]_vars => Course'
    BY CourseStays, StutterCourse DEF Next, Step
<1> QED
    BY <1>1, <1>2, TreeInvariance, PTL DEF Spec

\* The file system is linearizable (fs.h:24): whatever the threads, the
\* commands and the size of the table, every command takes effect, or fails
\* for a reason that holds, at one instant between its arrival and its
\* answer; as long as nobody moves an entry onto its own directory.
THEOREM FsIsLinearizable == ASSUME NoMoveToParent PROVE Spec => Linearizable
<1>1. Init => Atomic!AtomicInit
    BY InitAtomically
<1>2. IInv /\ Tree /\ Course /\ NoEmptyName /\ [Next]_vars => [Atomic!AtomicNext]_(Atomic!atomicVars)
    <2> SUFFICES ASSUME IInv, Tree, Course, NoEmptyName, [Next]_vars
                 PROVE  Atomic!AtomicNext \/ UNCHANGED Atomic!atomicVars
        OBVIOUS
    <2>1. CASE UNCHANGED vars
        BY <2>1 DEF vars, tableVars, threadVars, Namespace, Atomic!atomicVars
    <2>2. CASE Next
        <3>1. PICK t \in Thread : Step(t)
            BY <2>2 DEF Next, Step
        <3> QED
            BY <3>1, StepAtomically
    <2> QED
        BY <2>1, <2>2
<1>3. Spec => []NoEmptyName
    BY NoNameIsEmpty
<1> QED
    BY <1>1, <1>2, <1>3, TreeInvariance, CourseInvariance, PTL DEF Spec, Linearizable, Atomic!AtomicSpec
=============================================================================
