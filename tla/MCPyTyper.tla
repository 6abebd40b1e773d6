------------------------------ MODULE MCPyTyper ------------------------------
(***************************************************************************)
(* PyTyper for TLC.  The characters are a letter with a neighbour, that    *)
(* neighbour, and one without a key.  The texts hold a doubled letter and  *)
(* the unmapped character at every position.                               *)
(***************************************************************************)
EXTENDS PyTyper

MCChar == {"a", "s", "~"}
MCMapped == {"a", "s"}
MCNear == [c \in MCChar |-> CASE c = "a" -> {"s"} [] c = "s" -> {"a"} [] OTHER -> {}]
MCTexts == UNION {[1 .. n -> MCChar] : n \in 1 .. 3}
=============================================================================
