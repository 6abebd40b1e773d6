----------------------------- MODULE MCRsRuntime -----------------------------
(***************************************************************************)
(* RsRuntime for TLC: a letter with a neighbour, that neighbour, and a     *)
(* character without a key, at every position of a text.                   *)
(***************************************************************************)
EXTENDS RsRuntime

MCChar == {"a", "s", "~"}
MCMapped == {"a", "s"}
MCNear == [c \in MCChar |-> CASE c = "a" -> {"s"} [] c = "s" -> {"a"} [] OTHER -> {}]
MCTexts == UNION {[1 .. n -> MCChar] : n \in 1 .. 2}
=============================================================================
