----------------------------- MODULE MCCDaemon -----------------------------
(* CDaemon for TLC: a text with blanks around it and a doubled letter, one  *)
(* with a character without a key, and one of nothing but a blank.          *)
EXTENDS CDaemon

MCChar == {"h", "l", "?", " "}
MCMapped == {"h", "l", " "}
MCBlank == {" "}
MCNear == [c \in MCChar |-> CASE c = "h" -> {"l"} [] c = "l" -> {"h"} [] OTHER -> {}]
MCAnswers == {<<" ", "l", "l", " ">>, <<"h", "?">>, <<" ">>}
MCDocuments == {<<"h">>}
=============================================================================
