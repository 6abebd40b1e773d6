---------------------------- MODULE CBtTransport ----------------------------
(***************************************************************************)
(* The Bluetooth transport of the C port (c/src/transport.c): bt_connect,  *)
(* as the list of system calls it makes for its four sockets, and          *)
(* bt_disconnect.  main connects once; POST /reconnect only answers.  When *)
(* the peer goes away the sockets stay, and every later send fails.        *)
(***************************************************************************)
EXTENDS Integers, Sequences

VARIABLES
  calls, \* the system calls bt_connect has still to make
  fd,    \* fd[s]: none (-1), new, or up: connected, accepted or listening
  alive  \* whether the peer is there

bt == <<calls, fd, alive>>

Socket == {"ctrl", "intr", "ctrl_server", "intr_server"}

\* bt_connect with a target
Active ==
  << <<"socket", "ctrl">>, <<"connect", "ctrl">>,
     <<"socket", "intr">>, <<"connect", "intr">> >>

\* and without.  The results of setsockopt and listen are not looked at.
Listening ==
  << <<"socket", "ctrl_server">>, <<"bind", "ctrl_server">>,
     <<"socket", "intr_server">>, <<"bind", "intr_server">>,
     <<"accept", "ctrl">>, <<"accept", "intr">> >>

BtInit ==
  /\ calls \in {Active, Listening}
  /\ fd = [s \in Socket |-> "none"]
  /\ alive = TRUE

SystemCall(result) ==
  /\ calls # <<>>
  /\ calls' = Tail(calls)
  /\ fd' = [fd EXCEPT ![Head(calls)[2]] = result]
  /\ alive' = alive

OpenSocket == SystemCall("new") /\ Head(calls)[1] = "socket"
ConnectSocket == SystemCall("up") /\ Head(calls)[1] = "connect"
BindSocket == SystemCall("up") /\ Head(calls)[1] = "bind"
AcceptSocket == SystemCall("up") /\ Head(calls)[1] = "accept"

\* return -1: no socket, an address in use, a host that refuses or times out.
\* What was opened before stays in the struct.
ConnectFails ==
  /\ calls # <<>>
  /\ calls' = <<>>
  /\ UNCHANGED <<fd, alive>>

\* Mutant of CloseSockets: the listening sockets are forgotten.
CloseChannels ==
  /\ fd' = [s \in Socket |-> IF s \in {"ctrl", "intr"} THEN "none" ELSE fd[s]]
  /\ UNCHANGED <<calls, alive>>

\* bt_disconnect
CloseSockets ==
  /\ fd' = [s \in Socket |-> "none"]
  /\ UNCHANGED <<calls, alive>>

PeerGoes ==
  /\ alive /\ fd["intr"] = "up"
  /\ alive' = FALSE
  /\ UNCHANGED <<calls, fd>>

\* Whether bt_send_keyboard can reach the host.
Up == alive /\ fd["intr"] = "up"

-----------------------------------------------------------------------------
BtTypeOK ==
  /\ calls \in Seq({"socket", "connect", "bind", "accept"} \X Socket)
  /\ fd \in [Socket -> {"none", "new", "up"}]
  /\ alive \in BOOLEAN
=============================================================================
