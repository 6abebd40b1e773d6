----------------------------- MODULE CLlmClient -----------------------------
(***************************************************************************)
(* llm_fetch_text of the C port (c/src/llm_client.c): one request to the   *)
(* LLM, and what it holds meanwhile.  There are seven things to give back, *)
(* eight places where the function can go wrong, and one label all but the *)
(* first of them jump to, which frees what is not NULL.  Two more it never *)
(* gives back, because nobody has a pointer to them any more.              *)
(*                                                                         *)
(* A step is the code between two of those places.  What the request and   *)
(* the answer look like is left out, except for the text of the answer and *)
(* the blanks around it.                                                   *)
(***************************************************************************)
EXTENDS Integers, Sequences

CONSTANTS
  Answers, \* texts of the LLM's answers, as they come
  Blank    \* space, newline, return and tab

VARIABLES
  stage, \* where llm_fetch_text is; out: nobody has called it
  named, \* the variables of the function that are not NULL
  live,  \* what is allocated
  text   \* the text at result

fetch == <<stage, named, live, text>>

FetchInit ==
  /\ stage = "out"
  /\ named = {} /\ live = {}
  /\ text = <<>>

\* The code from one place to the next sets gained and frees dropped.
Pass(from, to, gained, dropped) ==
  /\ stage = from /\ stage' = to
  /\ named' = (named \cup gained) \ dropped
  /\ live' = (live \cup gained) \ dropped

\* The caller's pointer is the result; the URL is set, or the typer had not
\* been started.
Call ==
  /\ Pass("out", "curl", {}, {})
  /\ text' = <<>>

NoCurl ==
  /\ Pass("curl", "returned", {}, {})
  /\ UNCHANGED text

InitCurl ==
  /\ Pass("curl", "payload", {"curl"}, {})
  /\ UNCHANGED text

NoPayload ==
  /\ Pass("payload", "cleanup", {}, {})
  /\ UNCHANGED text

CreatePayload ==
  /\ Pass("payload", "print", {"payload"}, {})
  /\ UNCHANGED text

\* There is no memory for the array of messages, and then there is some for
\* the message: cJSON_AddItemToArray(NULL, msg) does nothing.
MessagesMissing ==
  /\ stage = "payload" /\ stage' = "print"
  /\ named' = named \cup {"payload"}
  /\ live' = live \cup {"payload", "msg"}
  /\ UNCHANGED text

\* The payload is deleted and its pointer set to NULL, printed or not.
Deleted(place, gained) ==
  /\ Pass("print", place, gained, {"payload"})
  /\ UNCHANGED text

PayloadUnprinted == Deleted("cleanup", {})
PayloadPrinted == Deleted("perform", {"json", "headers"})

\* curl_easy_perform: the answer comes in pieces, which write_callback adds to
\* data; no memory, an error of the network or the timeout may end it after
\* any number of them.
PerformFails ==
  /\ \E got \in SUBSET {"data"} : Pass("perform", "cleanup", got, {})
  /\ UNCHANGED text

\* Any status, with or without data.
Perform ==
  /\ \E got \in SUBSET {"data"} : Pass("perform", "status", got, {})
  /\ UNCHANGED text

\* Not 200, or no data.
BadAnswer ==
  /\ Pass("status", "cleanup", {}, {})
  /\ UNCHANGED text

\* cJSON_Parse returns NULL.  parse_object deletes the item whose key it cannot
\* read, but returns without the one whose colon or value is missing, with all
\* that was parsed of it, unless it is the first of the object.
BadJson ==
  /\ "data" \in live
  /\ stage = "status" /\ stage' = "cleanup"
  /\ live' \in {live, live \cup {"tree"}}
  /\ UNCHANGED <<named, text>>

Parse ==
  /\ "data" \in live
  /\ Pass("status", "extract", {"root"}, {})
  /\ UNCHANGED text

\* The JSON has no string where the text should be, or strdup fails.
NoText ==
  /\ Pass("extract", "cleanup", {}, {"root"})
  /\ UNCHANGED text

Extract ==
  /\ Pass("extract", "trim", {"result"}, {"root"})
  /\ text' \in Answers

Solid(s) == {i \in DOMAIN s : s[i] \notin Blank}

\* The text from its first to its last character that is no blank.
Trimmed(s) ==
  IF Solid(s) = {} THEN <<>>
  ELSE LET first == CHOOSE i \in Solid(s) : \A j \in Solid(s) : i <= j
           last == CHOOSE i \in Solid(s) : \A j \in Solid(s) : j <= i
       IN SubSeq(s, first, last)

\* Blanks at the end are cut off in place, blanks at the beginning by copying
\* what follows them.
Trim ==
  /\ Pass("trim", "cleanup", {}, {})
  /\ text' = Trimmed(text)

\* The copy fails: the answer is dropped.
TrimFails ==
  /\ text # <<>> /\ Head(text) \in Blank
  /\ Pass("trim", "cleanup", {}, {"result"})
  /\ UNCHANGED text

Cleanup ==
  /\ stage = "cleanup" /\ stage' = "returned"
  /\ named' = named \ {"json", "data", "headers", "curl", "payload"}
  /\ live' = live \ (named \cap {"json", "data", "headers", "curl", "payload"})
  /\ UNCHANGED text

FetchStep ==
  \/ NoCurl \/ InitCurl \/ NoPayload \/ CreatePayload \/ MessagesMissing
  \/ PayloadUnprinted \/ PayloadPrinted
  \/ PerformFails \/ Perform \/ BadAnswer \/ BadJson \/ Parse \/ NoText \/ Extract
  \/ Trim \/ TrimFails \/ Cleanup

\* The caller has what it wants of the result and frees it.
Done ==
  /\ named' = {} /\ live' = live \ {"result"}
  /\ stage' = "out"

-----------------------------------------------------------------------------
Held == {"curl", "payload", "json", "headers", "data", "root", "result"}

\* What the function has lost, or never had a pointer to.
Stray == {"msg", "tree"}

FetchTypeOK ==
  /\ stage \in {"out", "curl", "payload", "print", "perform", "status",
                "extract", "trim", "cleanup", "returned"}
  /\ named \subseteq Held /\ live \subseteq Held \cup Stray

\* Whatever goes wrong, and in whatever order, nothing is freed that is not
\* allocated, and between two fetches at most the text is, which is the
\* caller's to free, and what is lost for good.
FetchIsTidy ==
  /\ named \subseteq live
  /\ stage \in {"out", "returned"} => live \subseteq {"result"} \cup Stray
=============================================================================
