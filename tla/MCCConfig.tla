------------------------------ MODULE MCCConfig ------------------------------
(***************************************************************************)
(* CConfig for TLC: the three sections with a sequence or a mapping, a     *)
(* field or two each, and a value that is spelled like a key.              *)
(***************************************************************************)
EXTENDS CConfig

MCSection == {"typer", "llm", "api"}
MCHandled == [s \in MCSection \cup {"tls"} |->
                CASE s = "llm" -> {"url"}
                  [] s = "api" -> {"enabled", "rate_limit"}
                  [] OTHER -> {"enabled"}]
MCKey == {"enabled", "url", "rate_limit", "prompts", "think_pause_secs", "tls", "allowed_origins"}
MCValue == {"v", "enabled"}
=============================================================================
