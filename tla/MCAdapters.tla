---------------------------- MODULE MCAdapters ----------------------------
(* Adapters.tla over two tools, one of whose names begins with the other's. *)
EXTENDS Adapters

TwoTools  == {<<"a">>, <<"a", "a">>}
TheTool   == <<"a">>
OtherName == <<"a", "a", "a">>
============================================================================
