------------------------------- MODULE MCCApi -------------------------------
(* CApi for TLC: a body that fits and one that does not. *)
EXTENDS CApi

MCBodies == {<<"type", "end">>, <<"jiggle", "space", "end">>}
=============================================================================
