------------------------------ MODULE MCTfsRemote ------------------------------
(***************************************************************************)
(* TfsRemote with few clients and workers: the commands of the runs.       *)
(***************************************************************************)
EXTENDS TfsRemoteProps

CONSTANTS a, b, c1

OneCharacter == [n \in Name |-> 1]
AlphabeticOrder == [n \in Name |-> IF n = a THEN 1 ELSE 2]

Touch(p) == [op |-> "create", path |-> p, type |-> "file"]
Rm(p) == [op |-> "remove", path |-> p]
Find(p) == [op |-> "search", path |-> p]

\* "l " with nothing behind it has too few words.
Unparsable == {Find(<<>>)}

\* Commands whose answers tell in which order they ran.
OneFile == {Touch(<<a>>), Rm(<<a>>), Find(<<>>)}

\* Creating the same file again tells which answer is which.
SameFile == {Touch(<<a>>), Find(<<>>)}

\* One client calls more often than the others.
OneBusy == [c \in Client |-> IF c = c1 THEN 3 ELSE 1]
Twice == [c \in Client |-> 2]
=============================================================================
