------------------------------- MODULE AtomicFs -------------------------------
(***************************************************************************)
(* The file system as its clients see it: a set of paths, each a directory *)
(* or a file, on which every command takes effect at one instant between   *)
(* its call and its answer (fs.h:24: a call "is completed as-if            *)
(* sequentially in relation to any further calls").  TfsFs implements it.  *)
(***************************************************************************)
EXTENDS TfsPath

CONSTANTS Thread, Command

VARIABLES
    tree,       \* tree[p]: "dir" or "file", for every path p that exists
    cmd,        \* cmd[t]: the command t has been given
    outcome     \* outcome[t]: "none" until it has taken effect

atomicVars == <<tree, cmd, outcome>>

Idle == [op |-> "none"]
Exists(p) == p \in DOMAIN tree
IsDir(p) == Exists(p) /\ tree[p] = "dir"
Below(p) == {q \in DOMAIN tree : IsPrefix(p, q)}
SameDir(c) == ParentPath(c.path) = ParentPath(c.dest)

\* What may be reported against a command: every error whose condition holds.
Errors(c) ==
    LET Cause ==
        CASE c.op = "create" ->
              [InexistentParentDir |-> ~Exists(ParentPath(c.path)),
               ParentNotDir |-> Exists(ParentPath(c.path)) /\ ~IsDir(ParentPath(c.path)),
               AddEntry |-> c.path = <<>> \/ Exists(c.path)]
          [] c.op = "remove" ->
              [InexistentParentDir |-> ~Exists(ParentPath(c.path)),
               ParentNotDir |-> Exists(ParentPath(c.path)) /\ ~IsDir(ParentPath(c.path)),
               NameNotFound |-> c.path = <<>> \/ ~Exists(c.path),
               RemoveNonEmptyDir |-> Below(c.path) \ {c.path} # {}]
          [] c.op = "search" ->
              [NameNotFound |-> ~Exists(c.path),
               ParentsNotDir |-> \E p \in DOMAIN tree :
                                    IsStrictPrefix(p, c.path) /\ ~IsDir(p)]
          [] c.op = "move" /\ c.path = c.dest ->
              [InexistentCommonAncestor |-> ~Exists(c.path)]
          [] c.op = "move" /\ c.path # c.dest ->
              [InexistentCommonAncestor |-> ~Exists(CommonAncestor(c.path, c.dest)),
               CommonAncestorNotDir |-> /\ Exists(CommonAncestor(c.path, c.dest))
                                        /\ ~IsDir(CommonAncestor(c.path, c.dest)),
               InexistentOriginParentDir |-> ~Exists(ParentPath(c.path)),
               InexistentDestinationParentDir |-> ~Exists(ParentPath(c.dest)),
               OriginParentNotDir |-> Exists(ParentPath(c.path)) /\ ~IsDir(ParentPath(c.path)),
               DestinationParentNotDir |-> Exists(ParentPath(c.dest)) /\ ~IsDir(ParentPath(c.dest)),
               OriginNotFound |-> ~Exists(c.path) \/ IsPrefix(c.path, c.dest),
               RenameEntry |-> Exists(c.dest),
               AddEntry |-> Exists(c.dest)]
          [] c.op = "print" -> <<>>
    IN  {e \in DOMAIN Cause : Cause[e]}

\* The tree after a command that succeeds.
Effect(c) ==
    CASE c.op = "create" ->
            [p \in DOMAIN tree \cup {c.path} |-> IF p = c.path THEN c.type ELSE tree[p]]
      [] c.op = "remove" -> [p \in DOMAIN tree \ {c.path} |-> tree[p]]
      [] c.op = "move" ->
            LET Back(p) == c.path \o SubSeq(p, Len(c.dest) + 1, Len(p))
                moved == {c.dest \o SubSeq(p, Len(c.path) + 1, Len(p)) : p \in Below(c.path)}
            IN  [p \in (DOMAIN tree \ Below(c.path)) \cup moved |->
                    IF p \in moved THEN tree[Back(p)] ELSE tree[p]]
      [] c.op \in {"search", "print"} -> tree

AtomicInit ==
    /\ tree = [p \in {<<>>} |-> "dir"]
    /\ cmd = [t \in Thread |-> Idle]
    /\ outcome = [t \in Thread |-> "none"]

Call(t) ==
    /\ cmd[t] = Idle
    /\ \E c \in Command : cmd' = [cmd EXCEPT ![t] = c]
    /\ UNCHANGED <<tree, outcome>>

\* The command takes effect, or fails for a reason that holds right now.
TakeEffect(t) ==
    /\ cmd[t] # Idle /\ outcome[t] = "none"
    /\ IF Errors(cmd[t]) = {}
       THEN tree' = Effect(cmd[t]) /\ outcome' = [outcome EXCEPT ![t] = "success"]
       ELSE /\ \E e \in Errors(cmd[t]) : outcome' = [outcome EXCEPT ![t] = e]
            /\ UNCHANGED tree
    /\ UNCHANGED cmd

\* A print whose file cannot be opened, and a move the code refuses by the
\* form of its paths, have no effect.  They may be refused as soon as they
\* arrive.
Refusals(c) ==
    CASE c.op = "print" -> {"Create"}
      [] c.op = "move" -> {"OriginDestinationParent", "DestinationOriginParent"}
      [] OTHER -> {}

Refuse(t) ==
    /\ outcome[t] = "none"
    /\ \E c \in Command :
          /\ cmd[t] \in {Idle, c}
          /\ cmd' = [cmd EXCEPT ![t] = c]
          /\ \E e \in Refusals(c) : outcome' = [outcome EXCEPT ![t] = e]
    /\ UNCHANGED tree

Answer(t) ==
    /\ outcome[t] # "none"
    /\ cmd' = [cmd EXCEPT ![t] = Idle]
    /\ outcome' = [outcome EXCEPT ![t] = "none"]
    /\ UNCHANGED tree

AtomicNext == \E t \in Thread : Call(t) \/ TakeEffect(t) \/ Refuse(t) \/ Answer(t)

AtomicSpec == AtomicInit /\ [][AtomicNext]_atomicVars
=============================================================================
