------------------------------- MODULE PathText -------------------------------
(***************************************************************************)
(* Paths of tfs/path.c as they are: slices of a text, of which no copy is  *)
(* made.  Each loop of path.c is a machine of its own, one action for each *)
(* turn; TfsPath says what they compute in terms of components.            *)
(***************************************************************************)
EXTENDS Integers, Sequences, FiniteSets, FiniteSetsExt, SequencesExt

CONSTANTS
    Texts,        \* the texts paths are made of
    Char          \* the characters in them, '/' and ' ' among them

ASSUME TextAssumption == Texts \subseteq Seq(Char) /\ {"/", " "} \subseteq Char

VARIABLES
    call,         \* the function that runs: "eq", "len", "ancestor", or "order"
    lhs, rhs,     \* its arguments
    curLhs, curRhs,    \* what is left of them
    count,        \* turns so far
    result        \* what it has returned, Running before

vars == <<call, lhs, rhs, curLhs, curRhs, count, result>>

Running == [kind |-> "running"]

\* tfs_path_from_cstr; the characters of a path, and how many they are.
PathOf(text) == [text |-> text, from |-> 1, to |-> Len(text)]
Chars(p) == SubSeq(p.text, p.from, p.to)
Length(p) == p.to - p.from + 1
Places(p, chars) == {k \in p.from .. p.to : p.text[k] \in chars}

Init ==
    /\ call \in {"eq", "len", "ancestor", "order"}
    /\ lhs \in {PathOf(text) : text \in Texts}
    /\ rhs \in {PathOf(text) : text \in IF call = "len" THEN {<<>>} ELSE Texts}
    /\ curLhs = lhs /\ curRhs = rhs
    /\ count = 0
    /\ result = Running

-----------------------------------------------------------------------------
\* A fault of Trim, for the mutants of the runs: blanks stay.
Trim_Slashes(p) ==
    LET solid == Places(p, Char \ {"/"}) IN
    IF solid = {} THEN [p EXCEPT !.from = p.to + 1]
                  ELSE [p EXCEPT !.from = Min(solid), !.to = Max(solid)]

\* tfs_path_trim: no '/' and no blank at either end.
Trim(p) ==
    LET solid == Places(p, Char \ {"/", " "}) IN
    IF solid = {} THEN [p EXCEPT !.from = p.to + 1]
                  ELSE [p EXCEPT !.from = Min(solid), !.to = Max(solid)]

\* A fault of Split, for the mutants of the runs: a piece is not trimmed.
Split_Untrimmed(p, at) ==
    [before |-> [p EXCEPT !.to = at - 1], after |-> Trim([p EXCEPT !.from = at])]

\* The two pieces of a path around one of its separators.
Split(p, at) ==
    [before |-> Trim([p EXCEPT !.to = at - 1]), after |-> Trim([p EXCEPT !.from = at])]

\* tfs_path_pop_first and tfs_path_pop_last: a component, and the rest.
Nothing(p) == [p EXCEPT !.from = p.to + 1]
PopFirst(p) ==
    LET self == Trim(p)
        pieces == Split(self, Min(Places(self, {"/"})))
    IN  IF Places(self, {"/"}) = {} THEN [component |-> self, rest |-> Nothing(self)]
        ELSE [component |-> pieces.before, rest |-> pieces.after]
PopLast(p) ==
    LET self == Trim(p)
        pieces == Split(self, Max(Places(self, {"/"})))
    IN  IF Places(self, {"/"}) = {} THEN [component |-> self, rest |-> Nothing(self)]
        ELSE [component |-> pieces.after, rest |-> pieces.before]

\* tfs_str_cmp(p, q) < 0: the shorter text, then the order of the bytes.
Byte(ch) == CASE ch = " " -> 32 [] ch = "/" -> 47 [] ch = "a" -> 97 [] ch = "b" -> 98
BytesBefore(v, w) ==
    \E k \in 1 .. Min({Len(v), Len(w)}) :
        SubSeq(v, 1, k - 1) = SubSeq(w, 1, k - 1) /\ Byte(v[k]) < Byte(w[k])

\* A fault of ComesBefore, for the mutants of the runs: bytes alone.
ComesBefore_Bytes(p, q) == BytesBefore(Chars(p), Chars(q))

ComesBefore(p, q) ==
    Length(p) < Length(q) \/ (Length(p) = Length(q) /\ BytesBefore(Chars(p), Chars(q)))

-----------------------------------------------------------------------------
First(p) == Chars(PopFirst(p).component)

\* A turn of tfs_path_eq or of tfs_path_common_ancestor: the first components
\* are the same, and not empty.
Alike == First(curLhs) = First(curRhs)

PopBoth ==
    /\ result = Running /\ call \in {"eq", "ancestor"}
    /\ Alike /\ First(curLhs) # <<>>
    /\ curLhs' = PopFirst(curLhs).rest
    /\ curRhs' = PopFirst(curRhs).rest
    /\ count' = count + 1
    /\ UNCHANGED <<call, lhs, rhs, result>>

\* Its last turn.
EqReturns ==
    /\ result = Running /\ call = "eq"
    /\ ~Alike \/ First(curLhs) = <<>>
    /\ result' = [kind |-> "eq", equal |-> Alike]
    /\ UNCHANGED <<call, lhs, rhs, curLhs, curRhs, count>>

\* The ancestor is the text of lhs up to where the rest begins.
AncestorReturns ==
    /\ result = Running /\ call = "ancestor"
    /\ ~Alike \/ First(curLhs) = <<>>
    /\ result' = [kind |-> "ancestor", lhsRest |-> curLhs, rhsRest |-> curRhs,
                  ancestor |-> Trim([lhs EXCEPT !.to = curLhs.from - 1])]
    /\ UNCHANGED <<call, lhs, rhs, curLhs, curRhs, count>>

\* tfs_path_components_len: it trims once, and pops the last component until
\* nothing is left.
Left == IF count = 0 THEN Trim(curLhs) ELSE curLhs

LenPops ==
    /\ result = Running /\ call = "len"
    /\ Length(Left) # 0
    /\ curLhs' = PopLast(Left).rest
    /\ count' = count + 1
    /\ UNCHANGED <<call, lhs, rhs, curRhs, result>>

LenReturns ==
    /\ result = Running /\ call = "len"
    /\ Length(Left) = 0
    /\ result' = [kind |-> "len", len |-> count]
    /\ UNCHANGED <<call, lhs, rhs, curLhs, curRhs, count>>

\* tfs_fs_move: which of the two parents it locks first, when its paths have
\* no common ancestor below the root.
MoveOrders ==
    /\ result = Running /\ call = "order"
    /\ result' = [kind |-> "order",
                  originFirst |-> ComesBefore(PopLast(lhs).rest, PopLast(rhs).rest)]
    /\ UNCHANGED <<call, lhs, rhs, curLhs, curRhs, count>>

Next == PopBoth \/ EqReturns \/ AncestorReturns \/ LenPops \/ LenReturns \/ MoveOrders

Spec == Init /\ [][Next]_vars
=============================================================================
