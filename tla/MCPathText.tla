------------------------------ MODULE MCPathText ------------------------------
(***************************************************************************)
(* PathText with short texts over two letters, '/' and ' '.                *)
(***************************************************************************)
EXTENDS PathTextProps

CONSTANT MaxText

LongTexts == {
    <<"a", "/", "b", "/", "a">>, <<"/", "a", "/", "b", "/", "b", "/">>,
    <<"a", "/", "/", "b", "/", "b">>, <<"a", " ", "/", "b", "/", " ", "a">>,
    <<"a", "/", " ", "/", "b">>, <<"b", "/", "a", "a", "/", "b">>, <<"b", "a", "/", "a", "/", "b">>,
    <<"b", "/", "a", "/", "a", "b">>, <<"a", "/", "b", "/", "a", "/", "b">>, <<"b", " ", "b", "/", "a">>}
AllTexts == UNION {[1 .. n -> Char] : n \in 0 .. MaxText} \cup LongTexts
=============================================================================
