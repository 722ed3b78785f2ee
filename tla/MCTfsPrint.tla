------------------------------ MODULE MCTfsPrint ------------------------------
(***************************************************************************)
(* TfsPrint with a small tree that grows and shrinks.                      *)
(***************************************************************************)
EXTENDS TfsPrint

SmallTrees == {<<"">>, <<"", "/a">>, <<"", "/b">>, <<"", "/a", "/a/b">>}
=============================================================================
