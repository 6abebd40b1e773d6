------------------------------ MODULE MCApiGate ------------------------------
(***************************************************************************)
(* ApiGate for TLC: two clients, an allowance of two requests in three     *)
(* ticks, and a clock long enough for three disjoint windows.              *)
(***************************************************************************)
EXTENDS ApiGate, TLC

Clients == Permutations(Client)
=============================================================================
