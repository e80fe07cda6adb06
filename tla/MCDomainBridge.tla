---------------------------- MODULE MCDomainBridge ----------------------------
(* Two publishers on the orin, one on the master, for model checking.      *)
EXTENDS DomainBridge

SomeAuthors == {<<"orin", "x">>, <<"orin", "y">>, <<"master", "z">>}
=============================================================================
