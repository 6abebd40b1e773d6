# TLA+ models and proofs for PiKey

PiKey makes a Raspberry Pi act as a Bluetooth or USB keyboard and mouse. It
jiggles the pointer, types text it gets from an LLM, and offers a small REST API.
The repository holds the program three times: in Python (`src/`), in C
(`c/src/`) and in Rust (`rust/src/`). This directory models the parts of the
three ports in which order, failure, concurrency or arithmetic matter, checks
the models with TLC, and proves with TLAPS what matters most of them for every
value of their constants.

    tlc -config MCApiGate.cfg MCApiGate.tla      # any run of the table below
    tlapm RsRuntimeProofs.tla                    # any proof module

## The system

| part | state it keeps | operations | talks to |
|---|---|---|---|
| main | worker handles, a stop flag/event/channel | start, signal, shutdown | everything |
| typing engine | place in the text, place in the keystroke | wait, fetch, type, correct, stop | LLM client, transport |
| jiggler | place in the jiggle | wait, move out, move back, stop | transport |
| transport (Bluetooth, USB gadget) | sockets or file descriptors, connected flag | connect, listen, send, disconnect | the host |
| REST API | rate limiter, bodies being read, mode, last session, the shared configuration | gate, status, mode, type, jiggle, config, reconnect | transport, configuration |
| LLM client | what it holds during one request | fetch with retries | a remote service |
| configuration, keymap, descriptors | constants | load, look up | all |

The ports differ where it is hard:

* **Python** is one event loop. The workers are tasks, cancelled at an `await`;
  the blocking socket calls of the Bluetooth transport run in executor threads,
  which cancellation does not reach, beside the event loop that calls
  `disconnect()`.
* **C** has one POSIX thread per worker, a thread of libmicrohttpd for the API,
  and a signal handler that itself stops and joins the workers. It looks at the
  result of few calls: a report that is not sent is not noticed.
* **Rust** has tokio tasks that are never cancelled: they look at a stop channel
  at certain awaits, and main awaits their handles.

What must hold: a key that was pressed is released; the document receives the
text and nothing else; a stop, whenever it comes, ends the workers before the
transport goes and ends the process; the connected flag and the replies of
`/reconnect` say what is the case; a restarted daemon gets its USB gadget up
whatever the last one left in the kernel; the limiter bounds what it claims to
bound; what is allocated is given back; the host understands the descriptor and the
reports; the configuration is read as it is written. `PROJECT.json` lists the
hazards with their lines and the properties that cover each.

## The modules

| module | models | state and actions in the code |
|---|---|---|
| `TypingSession` | what a typing session promises | abstract specification: `Begin`, `Type` one character, `GiveUp` leaving at most one wrong neighbour. |
| `HostKeyboard` | the host (external) | `doc`, the focused document, and `held`, the key the host believes is down. |
| `PyTyper` | `src/typer.py`, `fetch_text` of `src/llm_client.py` | `pc` is the await the task waits at; `rest` the loop's remainder; an action is the code between two awaits. `refused` and `swallowed` are history: a release the device refused, and a press of the key it left down. |
| `RsTyper` | `rust/src/typer.rs`, the keyboard helpers of `transport.rs` | as `PyTyper`, with the stop channel in the place of cancellation; `polls` is whether the USB host takes reports, without which a send waits. |
| `CTyper` | `typer_thread`, `type_text`, `send_char`, `send_backspace` of `c/src/typer.c` | a step runs from one `usleep` or system call to the next; `SendPress` and `SendRelease` reach the host or not, and the typer goes on. |
| `CLlmClient` | `llm_fetch_text` of `c/src/llm_client.c` | `stage` is the place, `named` the pointers that are not NULL, `live` what is allocated; one action per way out of each place. What the JSON parser loses of a broken answer stays in `live`. |
| `CBtTransport` | `bt_connect`, `bt_disconnect` of `c/src/transport.c` | `calls` is the list of system calls `bt_connect` has still to make, `fd` its four descriptors. |
| `CDaemon` | `main.c` around the three above | `main` is where main is: connect, start, loop, join, disconnect, destroy. |
| `BtTransport` | `src/bt_hid.py` | one call of `connect()` per request; its thread opens a socket (`Open`), reads the attribute again (`Read`), blocks (`wait`), and sets the flag (`SetFlag`); `Disconnect` is one step on the event loop. `crossed` is history: the calls a `disconnect()` fell into, and those that began beside another. |
| `PyRuntime` | `_run` of `src/main.py` over `BtTransport` | `main` is where `_run` is, `task` the tasks; `ApiReconnect` and `PatchConfig` are the API handlers that reach other parts. |
| `RsRuntime` | `rust/src/main.rs`, `jiggler.rs`, `serve` of `api.rs`, over `RsTyper` | `jiggler`, `api` are where the tasks wait, `main` the handle it awaits. |
| `CWorkers` | `main`, `shutdown_handler`, start/stop/destroy of `jiggler.c` and `typer.c` | each thread has a stack of frames, a frame the list of instructions left; a delivered signal pushes the handler's. `printing` and the instructions `lock`, `unlock` are the lock of `stderr`, which every `fprintf` takes. |
| `ApiGate` | `AuthRateLimitMiddleware`, `RateLimiter` of `src/api.py`, and the same of `rust/src/api.rs` | `hits` is `_hits`; `Health`, `TooManyRequests`, `Admit` are the ways through `dispatch`. One request is one step, since the limiter has no `await` (Rust: holds its mutex). `admitted` is history. |
| `CApiGate` | `rate_limiter_check` of `c/src/api.c` | `entries` is the table, keyed by what `handler` passes: the address of the connection's sockaddr. Connections open and close (libmicrohttpd); the wall clock ticks and may be set. |
| `CApi` | `handler`, its endpoints, `api_start`, `api_stop` | one action per call libmicrohttpd makes of `handler`: `FirstCall` allocates, `Upload` appends, the last call answers; `request[a]` is `*con_cls` of the connection, `live` counts the `post_data`. |
| `ConfigFs` | the kernel's gadget directory (external) | `here`, `written`, `linked`, `bound`: directories, attributes, links, UDC; one action per system call, with what the kernel refuses. |
| `UsbTransport` | `src/usb_hid.py`, `UsbGadgetTransport` of `rust/src/transport.rs`, `usb_*` of `c/src/transport.c`, restart by `setup.sh` | `todo` is the list of operations a call still has to do; `Step`, `Skip`, `GiveUpTeardown`, `Raise` are what a port does when one succeeds or fails; `job` says which list it is. |
| `HidDescriptor` | the descriptor of `c/src/transport.c`, byte for byte, and the host's parser (external) | `HostReads` takes one item; `fields` are the report fields found so far. |
| `CKeymap` | `c/src/keymap.c` and the report of a character | pure operators: `char_to_hid_report`, `Neighbors`, and `Keys`, what the host reads from a report. |
| `CJiggler` | `jiggle_once` and its thread in `c/src/jiggler.c` | `Move` and `Return` with the deltas as ints and as bytes of the report; `pointer` is the host's. |
| `CHid` | the three above together | the host reads the descriptor, then the reports. |
| `CConfig` | `parse_config` of `c/src/config.c` | the parser's variables and its answer to each event of libyaml; beside it the document as it is written and what it says. |

How they fit together: `CDaemon` extends `CTyper`, which extends `HostKeyboard`,
`CLlmClient` and `CBtTransport`; `PyRuntime` extends `BtTransport`; `RsRuntime`
extends `RsTyper`; `CApi` extends `CApiGate`; `UsbTransport` extends `ConfigFs`;
`CHid` extends `CKeymap` and `CJiggler`, both over `HidDescriptor`. The three
typers implement `TypingSession` under the mapping `doc <- Shown,
rest <- Remaining`, which takes out of the document the typo being corrected
and out of the rest the character already down; the C typer does so as long as
every report has reached the host.

Modules named `MC...` give constants their values. `...Proofs` hold the
theorems. Definitions commented "Mutant of X" are plausible bugs; replacing `X`
by one must violate the property `PROJECT.json` pairs it with.

## The runs

| run | question | bounds, and why they are enough |
|---|---|---|
| `api_gate` | does the sliding window bound every window, and is every 429 earned? | 2 clients, limit 2, window of 3 ticks, 7 ticks, 5 requests: three disjoint windows, hits exactly one window old, one client full while the other is not. Symmetric in the clients. |
| `py_typer` | does the engine type the text and leave no key down? | texts of up to 3 characters over a letter, its neighbour and an unmapped character (doubled letters, every position); 2 sessions; the link goes once; the device may refuse any press and any release on a live link. |
| `py_runtime` | transport, replies and shutdown of the Python daemon | two reconnect requests beside main's own call, one drop by the peer, one worker and the API; with and without a target. Three calls are enough for a thread to find its socket closed, replaced, or taken by another; for a call after two that overlap it takes one more, and 3 million states: there the theorem `ReconnectHealsHolds` says what the run cannot. |
| `c_workers` | is a shutdown in order, and does it always come? | both workers, each started, disabled, or without its thread; three SIGINTs at any moment. A worker gets one only while main's handler runs, so that handlers on both workers, which then join each other, take three. A SIGTERM in the middle of a SIGINT's handler on the same thread is left out: with both signals three are 3 million states. |
| `rs_runtime` | does Ctrl+C leave the host tidy and end the tasks? | texts of up to 2 characters, 2 sessions, one loss of the link, USB (whose host may sleep and wake up) and Bluetooth, each task spawned or not, every range of the configuration good or one of them empty. |
| `usb_gadget` | does `connect` cope with whatever was left behind? | the three ports, each call at any place of its list; two failed operations, two kills, one reconnect beside main: debris of debris, a thread of a request at work while main disconnects. |
| `c_config` | does a parser without a stack stay in step? | documents of up to 12 events: the three sections with a sequence or a mapping, values spelled like keys; room for one prompt, so that a second does not fit. Two sections one after the other, or most of the keys of one. |
| `c_api` | are bodies accounted for, does only a whole and authorized request change anything, and what does the fixed window bound? | 2 connections of one address whose calls alternate, a table of 1 and a limit of 1, a buffer of 3 pieces with a body that fits and one that does not, 2 bodies, 3 counted requests, 3 ticks at 2 per second, one change of the clock: a burst on both sides of a window's edge, a client without an entry, a body cut so that its JSON is not complete. |
| `c_daemon` | what do failing calls, lost reports and a stop leave behind? | answers with blanks around a doubled letter, with an unmapped character, and of blanks only; 2 sessions, so that what the first leaves meets the second; one press and any releases fail on a live link, the host goes; connecting to a target and listening for one. |
| `c_hid` | does the host read one key per character, and does the pointer come back? | the whole descriptor and the whole keymap; deltas at both ends of a byte and of every range, `max_delta` on both sides of 126. |

Each of the remaining runs checks one statement of a comment or a document of
the repository and finds it violated; `PROJECT.json` "findings" has the quote.

| run | what TLC finds |
|---|---|
| `c_config_format` | the C parser gets out of step at `allowed_origins`, which `config.example.yaml` has |
| `c_usb_descriptor` | the C port cuts the combined descriptor at byte 63, but the keyboard's part is 65 bytes long: the first half ends in an Output item without its data and a collection without an end; in the second the leftover `0x03` is read as the head of an item of five bytes, which swallows the beginning of the mouse's collection, so that its last end closes nothing. A host rejects both. The Rust port cuts at the same place; the Python port writes separate descriptors. |

Some properties are stated with an exception that the code makes necessary.
Each exception is something TLC finds when it is left out:

* `ConnectedMeansOpen`, `ReplyIsTruthful`, `StartsClean` (Python): not once a
  `disconnect()` has come in the middle of a `connect()` (`overlapped`). Two
  overlapping `/reconnect` can leave `is_connected` true over a closed channel.
  `ReconnectHeals` says that it does not last: the next reconnect that nothing
  falls into (`crossed`) answers truly again, has both channels or none, and
  leaves no socket of the calls before it.
* `IdleReleased` (Python): a key whose release the device refused (the USB files
  are non-blocking) stays down until some later report gets through or the link
  goes (`refused`). `TypesTheText` excepts a text that begins with that very key:
  the host does not see it go down (`swallowed`).
* `ShutdownEnds` of `PyRuntime`: without a target a reconnect sits in `accept()`,
  and the process does not exit after a signal until a host connects.
* `ShutdownEnds` of `RsRuntime`: with the API on, main awaits `axum::serve`,
  which nothing tells to stop; Ctrl+C ends the workers but not the process. And
  while a USB host sleeps, the task that sends waits, and main for the task.
* `ShutdownEnds` of `CWorkers`: a handler above a print of its own thread
  (`Buried`) may wait for ever for a worker that waits for `stderr`, and a USB
  host that takes no more reports keeps a worker in its write (`Writing`).
  Both happen with one Ctrl+C, the first when it comes while main prints
  "Running". Otherwise a signal ends the process, whatever others follow.
* `GivesBack` (C): `parse_object` of `cJSON.c` returns without the member of a
  broken object it was parsing, and a message without an array for it is
  lost, too. `Stray` names the two; nothing else is lost, and nothing is freed twice.
  It is for one stop: a second signal may make main close the sockets under a
  typer that is still at work (see `TornDownInOrder`).
* `LeavesHostTidy` of `RsRuntime`: an empty range in the configuration makes
  `random_range` panic, which ends the task; if that is after a typo the wrong
  character stays. No key stays down even then: no press is waiting for its
  release where the code samples a range.
* `TornDownInOrder` and `NoStrayJoin` of `CWorkers` are for a single signal in
  main's loop. With a second one during the first handler, a worker's flag is
  cleared on the worker's own thread, and main frees its struct while the thread
  still runs.
* `TypesTheText` and `DamageBounded` (C): nobody looks at the result of a send.
  While every report arrives the typer implements `TypingSession`; each lost
  press costs at most one edit of the document; a release lost on a live link
  may swallow a doubled letter, too, and `DamageBounded` says nothing then.
* `FixedWindowBound` of `CApiGate` is per entry of the table, and the entries are
  connections: a peer has the allowance once per open connection, although
  `c/src/api.h` speaks of client IPs. A limit of 0 works as 1; once the table is
  full new clients pass uncounted; every change of the clock is worth one more
  window.
* `BodiesAccounted` counts as dropped the bodies of requests that got 429 or 401
  or whose client hung up: those structs are never freed. The property says
  that no other is lost and none is freed twice.
* `FailureIsEarned` and `ComesUp` of `UsbTransport`: the Rust port cannot connect
  a second time since boot, because it writes the attributes of functions that
  are linked; the C port, which ignores all errors, may be stuck after one.
* `JiggleSeenAndUndone`: `max_delta` from −126 to 126. From 127 on the way back
  may wrap around in its byte.
* `ReadAsWritten` of `CConfig`: sequences, mappings and top-level keys that
  `parse_config` does not know, sections that are no mapping, and an empty `tls`.
  The fields of `tls` itself are never read (the first key of the mapping is
  taken for the value of `tls`); the C API does not use them.

Deadlock is checked in `usb_gadget`, whose daemon can always be started again. In
the other runs it is not: those models have bounded counters and may stop when
they are used up, and a daemon that has exited takes no step.

## Fairness

Every fairness assumption is on the program's own steps, and weak, but for two:
the lock of `stderr` in `CWorkers` and the sends of `RsRuntime`.

* `PyTyper`: the event loop runs a task whose timer or request is done; sleeps
  are finite and the HTTP client has a timeout. After a cancel main disconnects.
  Links that come back and cancellations are free.
* `PyRuntime`: main, each task and each executor thread run. `connect()` of a
  socket ends, if only with the kernel's timeout; `accept()` has none and gets no
  fairness. Signals, requests and the peer are free. The signal handler that
  `add_signal_handler` installs still runs when uvicorn (0.34 or later) installs
  its own with `signal.signal`, because the loop's wakeup descriptor stays set.
* `CWorkers`: each thread runs when it can and the kernel delivers a pending
  signal. A thread that finds the lock of `stderr` free again and again gets it
  (strong): a worker waits for seconds between two prints. The work of a round
  has no fairness, because a write to a USB device file may wait for ever.
* `CDaemon`: main and the typer thread run; a fetch ends within
  `CURLOPT_TIMEOUT`. That a host ever connects, or that anybody stops the daemon,
  is not assumed, and so the steps of `bt_connect` and `Stop` have none.
* `RsRuntime`: tokio runs each task; a fetch has a timeout. The typer and the
  jiggler have strong fairness: a send gets through if the host polls again
  and again. That it does is not assumed, `ShutdownEnds` says what is if it stops.
* `UsbTransport`: a call at work goes on (system calls return), and a process that
  failed or was killed is started again (`Restart=on-failure`); one that was
  stopped is not. Faults and kills are free, and bounded in number: `ComesUp`
  says what holds once they come to an end.

`ApiGate`, `CApi`, `CHid` and `CConfig` state safety only.

## What is proved

All proofs assume the named assumptions on the constants and nothing else.

**The limiter of the Python and Rust API** (the last part of `PyRuntimeProofs`),
for any clients, limit, window and number of requests: types, `RateBound`, and
that refusals are earned. `RateBound` speaks of windows in the past, about which
the code has forgotten the hits, so it is not inductive. The invariant adds that every
admitted request that is still inside the window that ends now is among `hits`
(*Remembered*: pruning never loses one that counts), that `hits` and `admitted`
hold finitely many records, none from the future, and that a serial number is
used once. The Rust limiter has the same algorithm, but derives a client's key
differently; "client" is what each port takes for one.

**The C API** (`CApiProofs`), for any addresses, bodies, limit,
table, resolution of the clock and bounds: types, `FixedWindowBound`,
`RefusalIsEarned`, `BodiesAccounted`, `StateFollowsRequests`. The fixed window
forgets all but one window per client. The invariant of the limiter (*GateInv*)
says where the clock can be (*Clock*), that what the open window counts was let
through after it began (*Counted*), that no earlier window took more than the
allowance, and that windows begin at later and later seconds (*Spent*,
*Calendar*); the bound of a span is the number of windows it can touch times the
allowance. For the bodies it says that the buffer holds the beginning of the
body as far as there is room (*Buffered*): so a buffer that names a mode and is
complete is a body that does.

**The Python typer** (`PyTyperProofs`), for any alphabet, keymap, neighbours and
texts, and whichever reports the device refuses: `IdleReleased`, and that the
engine implements `TypingSession` (`TypesTheTextHolds`). The invariant adds that a
session under way has a rest to type (*Midway*), that a wrong character is the
last one of the document while it is being corrected (*WrongIsLast*: so the
backspace takes that one) unless a press of this text was swallowed, that a
dead link holds no key, and the range of the attempts.

**The Rust daemon** (`RsRuntimeProofs`): the same refinement without any
exception, because a send fails only without a link, and
`LeavesHostTidy`. The invariant adds the order in which main awaits the tasks
(*InOrder*) and, for a link that never went and unless a range of the
configuration is empty, that the document is what was wanted at every step
(*NeverLost*).

**The C daemon** (`CDaemonProofs`), for any answers, documents and faults:
`GivesBack`, `KeyDownOnlyIfLost`, and `TypesTheText` while no report is lost.
The invariant says what `llm_fetch_text` may hold at each place and that a
pointer is not NULL exactly if its memory is allocated, apart from what is lost
(*Holdings*), that its
text is the trimmed text of an answer (*TextTrimmed*), how far the sockets are
(*Sockets*), and *Clean*, which is *WrongIsLast* and an idle keyboard while the
link is unharmed. And `DamageBounded`, for any number of presses that fail:
*Damage* says that a typo to be corrected is on top of a document as many edits
away as presses have failed, or that its own press is the one that failed, so that
the backspace will remove a good character for it. How far two texts are apart is
stated by the characters that are found in both, in order (`EditsAway`), not by
counting edits one by one: so the lemmas (`AppendToBoth`, `AppendToFirst`,
`EndStays`, `EndGoes`) need no induction over the number of edits.

**The Python daemon** (`PyRuntimeProofs`), for any number of requests, drops and
workers: `ConnectedMeansOpen`, `StartsClean`, `ReplyIsTruthful` while no call has
been overlapped, and `ReconnectHeals` after any overlap. The invariant follows a
call that nothing has crossed, and that is therefore alone, through its channels
(*Clear*, *Stage*). Of the sockets it says, whatever the threads did to each
other, that one that is not closed is in its attribute, where the next
`disconnect()` finds it, or in the `connect()` of a thread that is still at work
(*Known*). So once a call is alone, no socket of another is left.

**The USB gadget** (`TransportProofs`), for the three ports and any number of
requests, faults and kills: `ReadyWhenConnected`, `FailureIsEarned`,
`TidyAfterDisconnect`. While no two calls have overlapped one at most is at work
(*Alone*). The invariant says at which place of its list it is and that what it
has done before that place still stands (*Progress*), for nobody undoes it; a
call of the Python port that met no fault finds nothing linked that it has not
linked itself (*Fresh*). Of the debris it says only what the kernel enforces and
what no port can leave otherwise: a directory has those above it (*Closure*),
the keyboard was made before the mouse, and what is linked has its attributes
(*Ordered*). Lemmas about the lists say which operation comes before which; the
theorems come down to these.

**The reports of the C port** (`TransportProofs`), for `max_delta` from −126 to
126 and any values of `rand()`: `JiggleSeenAndUndone`. The host, which reads the descriptor
byte by byte, is always at a place where an item begins, or where it takes one to
begin because of the cut (*Placed*), and has from the items before that place what
the table says (*Inherited*, *Length*). Hence one field of the mouse carries
movements (*PointerFound*), and it reads the bytes of `jiggle_once` as the numbers
they were made from (`Moves`).

**The workers of the C daemon** (`CRuntimeProofs`), for each of the modes, when
one signal at most ends the daemon and comes in main's loop (`Calm`):
`TornDownInOrder`, `NoStrayJoin`. Main then runs the only handler, on top of its
loop. The invariant says that the stack of main holds what is left of its code
from some place on, and of the handler's from another (*Frames*, *Stacked*), and
for each worker what these two places make of it: created, armed, running, being
stopped, ended, freed (*State*). A step of main moves the places; a step of the
worker itself stays within what its state allows.

**The configuration of the C daemon** (`CRuntimeProofs`), for any sections, keys,
values, size of the array and length of the document: the prompts fit
(`ConfigTypeOK`), and `ReadAsWritten`. That speaks of the moments between two
sections only; the invariant says at every event, from where it stands in the
document, what `state` and `current_key` of the parser are (*InStep*): this is the stack
the parser does not have. No key comes twice in a mapping, hence the array of the
prompts is emptied where their sequence begins and never again (*ResetOnce*). A
`tls` mapping leaves the parser in step because its first key is taken for the
value of `tls`, and its end puts the parser back into `api`.

`HostKeyboardProofs` has the lemmas about editing a document at its end that the
typers share. Each refinement proof has one step per action: which abstract
action, or a stutter, it maps to.

Only model-checked:

* every liveness property (outside the prover's reach, like `ENABLED`);
* `KeystrokesArrive` of `CHid`: a statement about one table of constants, which
  TLC evaluates whole.

## What is not modelled, and what is left

* `cJSON.c`: a bundled parser of strings, written to the interface of the cJSON
  library. `CApi` and `CLlmClient` model what its callers see of it: it does not
  look at what follows the JSON, and it loses memory over a broken object. A
  broken body of `PATCH /config` loses some in the same way; `CApi` counts
  its bodies, not that.
* A report counts as received once the kernel has taken it: what is in the
  queue of the link when it goes, or of a gadget whose host sleeps, is not told
  from what the host has read.
* In `CWorkers` the threads of libmicrohttpd, which print too and take signals;
  prints that follow one another are one, and a round of a worker is one step.
* The Bluetooth set-up of the Rust port (`transport.rs`): it connects once, keeps
  its descriptors in locals until both channels are up, and a failure ends the
  process, so that no later step meets what a failed one left. In all ports the
  SDP record and BlueZ. The Bluetooth sends and the disconnect are in the typers.
* In the C transport, that the host that connects to the control channel and the
  one that connects to the interrupt channel may be different ones
  (`c/src/transport.c:149`); the model has one peer.
* The 8-byte keyboard report with a report ID has room for five keys, the
  descriptor declares six. The typers press one, so that nothing depends on it.
* Loading the configuration in Python and Rust: a record of defaults.
  `validate_for_api` looks only at the file's `api_key`, although the key may
  come from the environment (`src/config.py:118`); that is a single decision
  with nothing for a model to explore.
* That the modes and jiggles the API accepts reach no worker, in all three
  ports: a feature that is missing.
* Markdown stripping and HTTP requests, command lines, installation scripts,
  the auto-repeat of a key that is left down on the host.
* Time enters only where a property is about it (the limiters); typing delays
  are left out, because nothing but the pace depends on them.

What would come next: the lifetime of `CApi`'s daemon thread beside the signal
handler (`api_stop` while a handler call is under way), which `CWorkers` and
`CApi` now treat apart; and the Bluetooth set-up of the Rust port as a module of
its own.
