------------------------------ MODULE MCCHid ------------------------------
(* CHid for TLC: the ends of every range, and what lies next to them. *)
EXTENDS CHid

MCMaxDeltas == {-126, 0, 5, 126, 127, 256}
MCSample == {-256, -127, -126, -125, -20, -10, -5, -1, 0, 1, 5, 10, 20, 125, 126, 127, 256}
=============================================================================
