------------------------------- MODULE CConfig -------------------------------
(***************************************************************************)
(* parse_config of the C port (c/src/config.c): a loop over the events of  *)
(* libyaml that keeps the section it is in and the last key it saw, and no *)
(* stack.  The document is written event by event, as any nesting of       *)
(* mappings, sequences and scalars; beside it the model keeps what the     *)
(* document says, in the sense of load_config of the Python port, whose    *)
(* file format the C port shares.                                          *)
(*                                                                         *)
(* Scalars are tokens.  A key may occur once in a mapping.  The numbers    *)
(* and Booleans the tokens are converted to are left out, and so is a      *)
(* document that is not well-formed: the parser gives up and so does main. *)
(***************************************************************************)
EXTENDS Integers, Sequences, SequencesExt

CONSTANTS
  Section,    \* sections of both ports
  Handled,    \* Handled[s]: the keys of s with a scalar that parse_config reads
  Key,        \* keys that may be written in a section or below
  Value,      \* values; some may be spelled like keys
  MaxPrompts, \* MAX_PROMPTS
  MaxEvents   \* bound on the length of the document

\* current_key while no key is at hand.
NoKey == ""

ASSUME ConfigAssumption ==
  /\ {"typer", "llm", "api"} \subseteq Section
  /\ Section \subseteq {"device", "jiggler", "typer", "llm", "api"}
  /\ Handled \in [Section \cup {"tls"} -> SUBSET Key]
  /\ {"prompts", "think_pause_secs", "tls"} \subseteq Key \ UNION Range(Handled)
  /\ NoKey \notin Key \cup Section
  /\ MaxPrompts \in Nat \ {0} /\ MaxEvents \in Nat

VARIABLES
  state,         \* parse_state_t; "pause" is the inner loop of think_pause_secs
  current_key,
  cfg,           \* the fields read so far; "default" if untouched
  prompts,       \* llm.prompts[0 .. num_prompts - 1]
  prompts_reset,
  idx,           \* how many pauses the inner loop has read
  nodes,         \* the document: collections not yet closed, innermost last
  events,        \* its length
  meant,         \* what it says of the fields
  listed,        \* and of the prompts
  strange        \* the forms it has beside those parse_config knows

parser == <<state, current_key, cfg, prompts, prompts_reset, idx>>
config == <<parser, nodes, events, meant, listed, strange>>

\* The two pauses are given by position, all other fields by a key.
Pause == << <<"typer", "pause_min">>, <<"typer", "pause_max">> >>
Field == (UNION {{s} \X Handled[s] : s \in Section \cup {"tls"}}) \cup Range(Pause)
Unset == [f \in Field |-> "default"]

\* A collection: what it is the value of, its last key, the keys it has had or
\* the number of its items.
Node(of) == [of |-> of, key |-> NoKey, used |-> {}, items |-> 0]

ConfigInit ==
  /\ state = "root" /\ current_key = NoKey /\ cfg = Unset
  /\ prompts = <<"default">> /\ prompts_reset = FALSE /\ idx = 0
  /\ nodes = <<Node("document")>> /\ events = 0
  /\ meant = Unset /\ listed = <<"default">> /\ strange = {}

-----------------------------------------------------------------------------
\* The parser's answer to an event.

\* A scalar that comes with a key at hand is its value.
Assign(v) ==
  /\ current_key' = NoKey
  /\ state' = IF <<state, current_key>> = <<"api", "tls">> THEN "tls" ELSE state
  /\ cfg' = IF <<state, current_key>> \in Field
            THEN [cfg EXCEPT ![<<state, current_key>>] = v] ELSE cfg
  /\ UNCHANGED <<prompts, prompts_reset, idx>>

\* At the top level a scalar is a section or some key, which stays at hand.
TopScalar(v) ==
  /\ state' = IF v \in Section THEN v ELSE state
  /\ current_key' = IF v \in Section THEN current_key ELSE v
  /\ UNCHANGED <<cfg, prompts, prompts_reset, idx>>

\* Mutant of Prompt: without the bound.
PromptUnbounded(v) ==
  /\ prompts' = Append(prompts, v)
  /\ UNCHANGED <<state, current_key, cfg, prompts_reset, idx>>

Prompt(v) ==
  /\ prompts' = IF Len(prompts) < MaxPrompts THEN Append(prompts, v) ELSE prompts
  /\ UNCHANGED <<state, current_key, cfg, prompts_reset, idx>>

\* The inner loop takes the first two scalars and passes over the rest.
PauseItem(v) ==
  /\ idx' = idx + 1
  /\ cfg' = IF idx < 2 THEN [cfg EXCEPT ![Pause[idx + 1]] = v] ELSE cfg
  /\ UNCHANGED <<state, current_key, prompts, prompts_reset>>

Scalar(v) ==
  \/ state = "root" /\ TopScalar(v)
  \/ state = "prompts" /\ Prompt(v)
  \/ state = "pause" /\ PauseItem(v)
  \/ /\ state \in Section \cup {"tls"}
     /\ IF current_key # NoKey THEN Assign(v)
        ELSE current_key' = v /\ UNCHANGED <<state, cfg, prompts, prompts_reset, idx>>

SequenceStart ==
  LET to == CASE <<state, current_key>> = <<"llm", "prompts">> -> "prompts"
              [] <<state, current_key>> = <<"typer", "think_pause_secs">> -> "pause"
              [] OTHER -> state
  IN
  /\ state' = to
  /\ current_key' = IF to = state THEN current_key ELSE NoKey
  /\ prompts' = IF to = "prompts" /\ ~prompts_reset THEN <<>> ELSE prompts
  /\ prompts_reset' = (prompts_reset \/ to = "prompts")
  /\ idx' = IF to = "pause" THEN 0 ELSE idx
  /\ UNCHANGED cfg

SequenceEnd ==
  /\ state' = CASE state = "prompts" -> "llm"
                [] state = "pause" -> "typer"
                [] OTHER -> state
  /\ UNCHANGED <<current_key, cfg, prompts, prompts_reset, idx>>

\* Mutant of MappingEnd: the key at hand outlives the tls mapping.
MappingEndKeepsKey ==
  /\ state' = IF state = "tls" THEN "api" ELSE "root"
  /\ current_key' = IF state \in {"tls", "root"} THEN current_key ELSE NoKey
  /\ UNCHANGED <<cfg, prompts, prompts_reset, idx>>

MappingEnd ==
  /\ state' = IF state = "tls" THEN "api"
              ELSE IF state \in {"prompts", "root"} THEN state ELSE "root"
  /\ current_key' = IF state \in {"prompts", "root"} THEN current_key ELSE NoKey
  /\ UNCHANGED <<cfg, prompts, prompts_reset, idx>>

-----------------------------------------------------------------------------
\* The document.

Inner == Last(nodes)
Under(of, k) == Inner.of = of /\ Inner.key = k
OneMore == events < MaxEvents /\ events' = events + 1
WithInner(n) == [nodes EXCEPT ![Len(nodes)] = n]
\* The innermost collection ends, and with it the value of a key.
Closed == LET outer == Front(nodes) IN
          [outer EXCEPT ![Len(outer)].key = NoKey]
InSequence == Inner.of \in {"prompts", "think_pause_secs", "sequence"}

WriteKey(k) ==
  /\ OneMore
  /\ ~InSequence /\ Inner.key = NoKey /\ k \notin Inner.used
  /\ k \in IF Inner.of = "document" THEN Section \cup {"unknown"} ELSE Key
  /\ Scalar(k)
  /\ nodes' = WithInner([Inner EXCEPT !.key = k, !.used = @ \cup {k}])
  /\ strange' = IF k = "unknown" THEN strange \cup {"section"} ELSE strange
  /\ UNCHANGED <<meant, listed>>

WriteValue(v) ==
  /\ OneMore
  /\ ~InSequence /\ Inner.key # NoKey
  /\ Scalar(v)
  /\ nodes' = WithInner([Inner EXCEPT !.key = NoKey])
  /\ meant' = IF <<Inner.of, Inner.key>> \in Field
              THEN [meant EXCEPT ![<<Inner.of, Inner.key>>] = v] ELSE meant
  /\ strange' = IF (Inner.of = "document" /\ Inner.key # "unknown") \/ Under("api", "tls")
                THEN strange \cup {"empty"} ELSE strange
  /\ UNCHANGED listed

BeginSequence ==
  LET known == Under("llm", "prompts") \/ Under("typer", "think_pause_secs") IN
  /\ OneMore
  /\ ~InSequence /\ Inner.key # NoKey
  /\ SequenceStart
  /\ nodes' = Append(nodes, Node(IF known THEN Inner.key ELSE "sequence"))
  /\ listed' = IF Under("llm", "prompts") THEN <<>> ELSE listed
  /\ strange' = IF known THEN strange
                ELSE strange \cup {IF Under("api", "allowed_origins") THEN "origins" ELSE "sequence"}
  /\ UNCHANGED meant

WriteItem(v) ==
  /\ OneMore
  /\ InSequence
  /\ Scalar(v)
  /\ nodes' = WithInner([Inner EXCEPT !.items = @ + 1])
  /\ listed' = IF Inner.of = "prompts" THEN Append(listed, v) ELSE listed
  /\ meant' = IF Inner.of = "think_pause_secs" /\ Inner.items < 2
              THEN [meant EXCEPT ![Pause[Inner.items + 1]] = v] ELSE meant
  /\ UNCHANGED strange

EndSequence ==
  /\ OneMore
  /\ InSequence
  /\ SequenceEnd
  /\ nodes' = Closed
  /\ UNCHANGED <<meant, listed, strange>>

\* A mapping begins; parse_config does nothing.
BeginMapping ==
  LET known == (Inner.of = "document" /\ Inner.key \in Section) \/ Under("api", "tls") IN
  /\ OneMore
  /\ ~InSequence /\ Inner.key # NoKey /\ Len(nodes) < 3
  /\ nodes' = Append(nodes, Node(IF known THEN Inner.key ELSE "mapping"))
  /\ strange' = IF known THEN strange ELSE strange \cup {"mapping"}
  /\ UNCHANGED <<parser, meant, listed>>

EndMapping ==
  /\ OneMore
  /\ ~InSequence /\ Inner.key = NoKey /\ Len(nodes) > 1
  /\ MappingEnd
  /\ nodes' = Closed
  /\ strange' = IF Inner.of = "tls" /\ Inner.used = {} THEN strange \cup {"empty"} ELSE strange
  /\ UNCHANGED <<meant, listed>>

ConfigNext ==
  \/ \E k \in Key \cup Section \cup {"unknown"} : WriteKey(k)
  \/ \E v \in Value : WriteValue(v) \/ WriteItem(v)
  \/ BeginSequence \/ EndSequence \/ BeginMapping \/ EndMapping

ConfigSpec == ConfigInit /\ [][ConfigNext]_config

-----------------------------------------------------------------------------
\* The type of every variable; the prompts fit their array.
ConfigTypeOK ==
  /\ state \in Section \cup {"root", "tls", "prompts", "pause"}
  /\ current_key \in Key \cup Section \cup Value \cup {NoKey, "unknown"}
  /\ cfg \in [Field -> Key \cup Section \cup Value \cup {"default", "unknown"}]
  /\ meant \in [Field -> Value \cup {"default"}]
  /\ Len(prompts) <= MaxPrompts \/ prompts = <<"default">>
  /\ prompts_reset \in BOOLEAN /\ idx \in 0 .. MaxEvents
  /\ events \in 0 .. MaxEvents
  /\ strange \subseteq {"section", "empty", "origins", "sequence", "mapping"}

\* Between two sections of the document.
Between == Len(nodes) = 1 /\ Inner.key = NoKey

FieldsAsWritten == \A f \in Field : f[1] # "tls" => cfg[f] = meant[f]
PromptsAsWritten ==
  prompts = SubSeq(listed, 1, IF Len(listed) < MaxPrompts THEN Len(listed) ELSE MaxPrompts)

\* Without a stack, the parser is in step with every document made of the
\* sections it knows, whatever scalars they hold and in whatever order, and
\* whatever keys it does not know: between two sections each field has the
\* value the document gives it and no other, and the prompts are those of the
\* document, in order, up to the size of the array: the pauses, another section
\* or a later value add none.  A tls mapping is skipped without harm to its
\* neighbours.
ReadAsWritten == strange = {} /\ Between => FieldsAsWritten /\ PromptsAsWritten

\* c/README.md:80, "Uses the same `config.yaml` format as the Python version":
\* so it is with the list allowed_origins, which that format has.
SameFormat == strange \subseteq {"origins"} /\ Between => FieldsAsWritten
=============================================================================
