------------------------------- MODULE TfsPrint -------------------------------
(***************************************************************************)
(* The files tfs_fs_print writes (fs.c:578).  TfsFs has the locks of a     *)
(* print; here are the steps around them: fopen empties the file before    *)
(* the root is locked, stdio writes its buffer whenever it is full, at the *)
(* offset of its own file descriptor, and fclose writes the rest after the *)
(* root was unlocked.                                                      *)
(*                                                                         *)
(* The file system is what a print of it would say: the lines of the tree. *)
(* TfsFsProps.PrintStable is why it stays as it is while the root is       *)
(* locked.                                                                 *)
(***************************************************************************)
EXTENDS Naturals, Sequences, SequencesExt, FiniteSetsExt

CONSTANTS
    Thread,       \* workers
    File,         \* file names
    Trees         \* what the file system may be, as sequences of lines

\* What a line of a print may be.
Line == UNION {Range(lines) : lines \in Trees}

ASSUME PrintAssumption == Trees # {} /\ Trees \subseteq Seq(Line)

VARIABLES
    tree,         \* the lines a print would write now
    root,         \* who has locked the root: a thread, or "nobody"
    at,           \* at[t]: "idle", "opened", "locked" or "unlocked"
    file,         \* file[t]: the file it has opened
    todo,         \* todo[t]: the lines it has yet to print
    buffer,       \* buffer[t]: those printed and not written
    offset,       \* offset[t]: how many it has written
    content,      \* content[f]: the lines in a file
    aborted,      \* an assertion has failed: the process has ended
    printed,      \* history: printed[t]: the tree when it locked the root
    alone         \* history: alone[t]: nobody else had the file open meanwhile

vars == <<tree, root, at, file, todo, buffer, offset, content, aborted, printed, alone>>

NoFile == "none"
Hole == "hole"    \* bytes nobody has written

Init ==
    /\ tree \in Trees
    /\ root = "nobody"
    /\ at = [t \in Thread |-> "idle"]
    /\ file = [t \in Thread |-> NoFile]
    /\ todo = [t \in Thread |-> <<>>]
    /\ buffer = [t \in Thread |-> <<>>]
    /\ offset = [t \in Thread |-> 0]
    /\ content = [f \in File |-> <<>>]
    /\ aborted = FALSE
    /\ printed = [t \in Thread |-> <<>>]
    /\ alone = [t \in Thread |-> TRUE]

-----------------------------------------------------------------------------
Goto(t, place) == ~aborted /\ at' = [at EXCEPT ![t] = place]

\* Who else has a file open.
Others(t, f) == {u \in Thread \ {t} : file[u] = f}

\* fopen(file_name, "w")
Open(t, f) ==
    /\ at[t] = "idle" /\ Goto(t, "opened")
    /\ content' = [content EXCEPT ![f] = <<>>]
    /\ file' = [file EXCEPT ![t] = f]
    /\ offset' = [offset EXCEPT ![t] = 0]
    /\ alone' = [u \in Thread |-> IF u \in Others(t, f) THEN FALSE
                                  ELSE IF u = t THEN Others(t, f) = {} ELSE alone[u]]
    /\ UNCHANGED <<tree, root, todo, buffer, aborted, printed>>

LockRoot(t) ==
    /\ at[t] = "opened" /\ root = "nobody" /\ Goto(t, "locked")
    /\ root' = t
    /\ todo' = [todo EXCEPT ![t] = tree]
    /\ printed' = [printed EXCEPT ![t] = tree]
    /\ UNCHANGED <<tree, file, buffer, offset, content, aborted, alone>>

\* fprintf
PrintLine(t) ==
    /\ at[t] = "locked" /\ todo[t] # <<>> /\ Goto(t, "locked")
    /\ buffer' = [buffer EXCEPT ![t] = Append(@, Head(todo[t]))]
    /\ todo' = [todo EXCEPT ![t] = Tail(@)]
    /\ UNCHANGED <<tree, root, file, offset, content, aborted, printed, alone>>

\* A fault of Written, for the mutants of the runs: at the start of the file.
Written_AtStart(t, old) == buffer[t] \o SubSeq(old, Len(buffer[t]) + 1, Len(old))

\* What the buffer makes of a file: it replaces what is at the offset.
Written(t, old) ==
    LET end == offset[t] + Len(buffer[t]) IN
    IF buffer[t] = <<>> THEN old
    ELSE [k \in 1 .. Max({Len(old), end}) |->
             IF k > offset[t] /\ k <= end THEN buffer[t][k - offset[t]]
             ELSE IF k <= Len(old) THEN old[k] ELSE Hole]

Write(t) ==
    /\ content' = [content EXCEPT ![file[t]] = Written(t, @)]
    /\ offset' = [offset EXCEPT ![t] = @ + Len(buffer[t])]
    /\ buffer' = [buffer EXCEPT ![t] = <<>>]

\* The buffer is full.  How many lines that takes is left open.
Flush(t) ==
    /\ at[t] = "locked" /\ buffer[t] # <<>> /\ Goto(t, "locked")
    /\ Write(t)
    /\ UNCHANGED <<tree, root, file, todo, aborted, printed, alone>>

UnlockRoot(t) ==
    /\ at[t] = "locked" /\ todo[t] = <<>> /\ Goto(t, "unlocked")
    /\ root' = "nobody"
    /\ UNCHANGED <<tree, file, todo, buffer, offset, content, aborted, printed, alone>>

\* fclose: the rest is written, and the print is done.
Close(t) ==
    /\ at[t] = "unlocked" /\ Goto(t, "idle")
    /\ Write(t)
    /\ file' = [file EXCEPT ![t] = NoFile]
    /\ UNCHANGED <<tree, root, todo, aborted, printed, alone>>

\* It cannot be written: assert(fclose(out) == 0).
CloseFails(t) ==
    /\ at[t] = "unlocked" /\ ~aborted
    /\ aborted' = TRUE
    /\ UNCHANGED <<tree, root, at, file, todo, buffer, offset, content, printed, alone>>

\* Any other command, at some moment when nobody holds the root for a print.
Change ==
    /\ root = "nobody" /\ ~aborted
    /\ tree' \in Trees
    /\ UNCHANGED <<root, at, file, todo, buffer, offset, content, aborted, printed, alone>>

Next ==
    \/ \E t \in Thread :
          \/ \E f \in File : Open(t, f)
          \/ LockRoot(t) \/ PrintLine(t) \/ Flush(t) \/ UnlockRoot(t) \/ Close(t) \/ CloseFails(t)
    \/ Change

Spec == Init /\ [][Next]_vars

-----------------------------------------------------------------------------
\* A print that had its file to itself leaves the tree of one moment in it,
\* although the file was emptied before that moment, and written after it.
\* (fs.h:369: "Prints the contents of the filesystem".)
AloneIsSnapshot ==
    [][\A t \in Thread :
          at[t] = "unlocked" /\ at'[t] = "idle" /\ alone[t] => content'[file[t]] = printed[t]]_vars
=============================================================================
