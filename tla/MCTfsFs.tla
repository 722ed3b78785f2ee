-------------------------------- MODULE MCTfsFs --------------------------------
(***************************************************************************)
(* TfsFs on two names: the sets of commands of the runs, chosen so that    *)
(* the interesting cases meet on small trees.                              *)
(***************************************************************************)
EXTENDS TfsFsProps

CONSTANTS a, b

OneCharacter == [n \in Name |-> 1]
AlphabeticOrder == [n \in Name |-> IF n = a THEN 1 ELSE 2]
ThreadSymmetry == Permutations(Thread)

Mkdir(p) == [op |-> "create", path |-> p, type |-> "dir"]
Touch(p) == [op |-> "create", path |-> p, type |-> "file"]
Rm(p) == [op |-> "remove", path |-> p]
Find(p) == [op |-> "search", path |-> p]
Mv(p, q) == [op |-> "move", path |-> p, dest |-> q]
PrintAll == [op |-> "print"]

\* Everything but moves: on the root, on two levels of directories, below
\* them, and under a file.
TreeCommands ==
    {Mkdir(<<a>>), Touch(<<a>>), Mkdir(<<a, b>>), Touch(<<>>),
     Rm(<<a>>), Rm(<<a, b>>), Rm(<<a, b, a>>), Find(<<>>), Find(<<a, b>>), PrintAll}

\* Moves between and within directories, into nothing, onto an existing entry
\* and onto the origin; what is moved is a directory, which the other worker
\* may be creating in.
MoveCommands ==
    {Mkdir(<<a>>), Touch(<<b>>), Mkdir(<<a, b>>), Touch(<<b, a, a>>), Mv(<<a>>, <<b>>),
     Mv(<<a, b>>, <<b, a>>), Mv(<<b, a>>, <<b, b>>), Mv(<<a>>, <<a>>), PrintAll}

\* A move to a name that is taken.
TakenNameCommands ==
    {Mkdir(<<a>>), Mkdir(<<b>>), Touch(<<a, b>>), Touch(<<b, a>>), Mv(<<a, b>>, <<b, a>>)}

\* Two moves in opposite directions, each to a deeper parent.
CrossingCommands ==
    {Mkdir(<<a>>), Mkdir(<<b>>), Mv(<<a, a>>, <<b, b, b>>), Mv(<<b, a>>, <<a, a, a>>)}
=============================================================================
