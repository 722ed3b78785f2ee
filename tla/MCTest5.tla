-------------------------------- MODULE MCTest5 --------------------------------
(***************************************************************************)
(* TfsFs on the commands of resources/in/test5.txt, "a test of deadlocks   *)
(* of the command 'move'", cut to one entry of each directory; and on a    *)
(* directory that is exactly full.                                         *)
(***************************************************************************)
EXTENDS TfsFsProps

CONSTANTS a, b, c, d, e, f

OneCharacter == [n \in Name |-> 1]
AlphabeticOrder == [n \in Name |-> CHOOSE k \in 1 .. 6 : <<a, b, c, d, e, f>>[k] = n]
ThreadSymmetry == Permutations(Thread)

Mkdir(p) == [op |-> "create", path |-> p, type |-> "dir"]
Touch(p) == [op |-> "create", path |-> p, type |-> "file"]
Mv(p, q) == [op |-> "move", path |-> p, dest |-> q]

\* The tree the create commands of the test leave: /a/b, /c/d and /e/f.
Test5Init ==
    /\ ThreadInit
    /\ type = [i \in Inode |-> IF i < 4 THEN "dir" ELSE "file"]
    /\ dir = [i \in Inode |->
          CASE i = 0 -> AddEntry(AddEntry(AddEntry(EmptyDir, a, 1), c, 2), e, 3)
            [] i = 1 -> AddEntry(EmptyDir, b, 4)
            [] i = 2 -> AddEntry(EmptyDir, d, 5)
            [] i = 3 -> AddEntry(EmptyDir, f, 6)
            [] OTHER -> EmptyDir]
    /\ shared = [i \in Inode |-> {}]
    /\ unique = [i \in Inode |-> {}]
Test5Spec == Test5Init /\ [][Next]_vars

\* The moves of the test, around the three directories, and back again.
Test5Commands ==
    {Mv(<<a, b>>, <<e, b>>), Mv(<<e, f>>, <<c, f>>), Mv(<<c, d>>, <<a, d>>),
     Mv(<<e, b>>, <<a, b>>), Mv(<<c, f>>, <<e, f>>), Mv(<<a, d>>, <<c, d>>)}

\* Four entries fill the first allocation of /a; one is then renamed "to /a".
FullDirCommands ==
    {Mkdir(<<a>>), Touch(<<a, a>>), Touch(<<a, b>>), Touch(<<a, c>>), Touch(<<a, d>>),
     Mv(<<a, b>>, <<a>>)}
=============================================================================
