------------------------------- MODULE MCTfsWire -------------------------------
(***************************************************************************)
(* TfsWire with buffers of few characters: the files and calls of the      *)
(* runs.                                                                   *)
(***************************************************************************)
EXTENDS TfsWireProps

CONSTANT FileLen

Alphabet == {"c", "d", "m", " ", "\n", "#"}

\* Every short file, and files of three lines.
ShortFiles == UNION {[1 .. n -> Alphabet] : n \in 1 .. FileLen}
SomeLines == {
    <<"l", " ", "d">>, <<"l", "d", " ">>, <<"d", " ", "d", "d", "d">>, <<"d">>, <<" ">>, <<>>,
    <<"c", " ", "d", "d", "d", " ", "f">>, <<"c", " ", "d", " ", "f">>, <<"c", "c", " ", "d", " ", "d">>, <<"c", " ", "d", " ", "c">>,
    <<"m", " ", "c", " ", "d", "d">>, <<"m", "c", " ", "d">>, <<"p", " ", "c", " ", "d">>,
    <<"m", " ", "c", "c", "c", " ", "d", "d", "d">>, <<"#", "c">>, <<" ", "#">>, <<"p", "#">>, <<"?", "d">>}
LongFiles == {j \o <<"\n">> \o k \o <<"\n">> \o l : j, k, l \in SomeLines}
AllFiles == {<<>>} \cup ShortFiles \cup LongFiles

AllChars == Alphabet \cup {"l", "p", "f", "?"}

ShortWords == UNION {[1 .. n -> {"c", "d"}] : n \in 1 .. 4}
WordCalls ==
    [op : {"search", "remove", "print"}, path : ShortWords]
        \cup [op : {"create"}, path : ShortWords, type : DOMAIN TypeLetter]
        \cup [op : {"move"}, path : ShortWords, dest : ShortWords]
=============================================================================
