---------------------------- MODULE PortForward ----------------------------
(***************************************************************************)
(* A port-forwarding connection: it logs in with framed messages, and then *)
(* both sides call set_raw and pass on what the local application and the  *)
(* forwarded port send, byte for byte, on the same stream.                 *)
(*                                                                         *)
(* Controlling side: port_forward.rs, connect_and_login and run_forward.   *)
(* Controlled side: server/connection.rs, the loop of Connection::start,   *)
(* then try_port_forward_loop.  Each side switches on its own; whatever is *)
(* under way in the mode the receiver has left ends up in the stream of    *)
(* the application, and data read as a frame is lost.  The bytes of a      *)
(* message are one item of a channel here (Framing cuts them out).         *)
(***************************************************************************)
EXTENDS Integers, Sequences

CONSTANTS
  MaxData,      \* bound: pieces of data each application sends
  MaxLogins,    \* bound: login requests
  MaxDelays,    \* bound: TestDelay messages of the controlled side
  MaxTalk       \* bound: messages of the connection manager to the peer

ASSUME PortForwardAssumption == {MaxData, MaxLogins, MaxDelays, MaxTalk} \subseteq Nat

VARIABLES
  portOpen,         \* whether the forwarded port can be reached
  client,           \* the controlling side: login, raw or closed
  logins,           \* login requests it has sent
  dialog,           \* it shows a password dialog
  appSent,          \* pieces of data read from the local application
  buffer,           \* those read before it is logged in
  appGot,           \* what the application has been sent
  server,           \* the controlled side: login, raw or closed
  socket,           \* port_forward_socket is some
  authorized,       \* Connection.authorized
  last_test_delay,  \* Connection.last_test_delay is some
  cm,               \* the connection manager shows the connection
  delays, talk,     \* counters for the bounds
  portSent,         \* pieces of data read from the forwarded port
  portGot,          \* what the port has been sent
  up, down,         \* the stream: to the controlled side and back
  misread,          \* data was read as a frame (history)
  byHand,           \* the user of the controlled side let the connection in
                    \* (history)
  talkedLate        \* the connection manager talked to a logged-in peer (history)

clientVars == <<client, logins, dialog, appSent, buffer, appGot>>
serverVars == <<server, socket, authorized, last_test_delay, cm, delays, talk,
                portSent, portGot, byHand, talkedLate>>
forwardVars == <<portOpen, clientVars, serverVars, up, down, misread>>

Phases == {"login", "raw", "closed"}
Frames == {"Hash", "LoginRight", "LoginWrong", "LoginEmpty", "LoginResponse",
           "LoginError", "TestDelay", "Misc"}
Items == [kind : Frames, n : {0}] \cup [kind : {"Data"}, n : 1 .. MaxData]
Frame(kind) == [kind |-> kind, n |-> 0]
Piece(n) == [kind |-> "Data", n |-> n]
IsFrame(item) == item.kind # "Data"

PortForwardTypeOK ==
  /\ portOpen \in BOOLEAN
  /\ client \in Phases /\ server \in Phases
  /\ logins \in 0 .. MaxLogins
  /\ appSent \in 0 .. MaxData /\ portSent \in 0 .. MaxData
  /\ {buffer, appGot, portGot, up, down} \subseteq Seq(Items)
  /\ {dialog, socket, authorized, last_test_delay, cm, misread, byHand, talkedLate} \subseteq BOOLEAN
  /\ delays \in 0 .. MaxDelays /\ talk \in 0 .. MaxTalk
  /\ client = "raw" => buffer = <<>>

\* Connection::start sends a Hash on opening.
PortForwardInit ==
  /\ portOpen \in BOOLEAN
  /\ client = "login" /\ logins = 0 /\ dialog = FALSE
  /\ appSent = 0 /\ buffer = <<>> /\ appGot = <<>>
  /\ server = "login"
  /\ socket = FALSE /\ authorized = FALSE /\ last_test_delay = FALSE
  /\ cm = FALSE /\ delays = 0 /\ talk = 0
  /\ portSent = 0 /\ portGot = <<>>
  /\ up = <<>> /\ down = <<Frame("Hash")>>
  /\ misread = FALSE /\ byHand = FALSE /\ talkedLate = FALSE

-----------------------------------------------------------------------------
(* The controlling side.                                                   *)

\* a login request: with the right password or another, or with none to have
\* the user of the other side asked
LogIn(request) ==
  /\ logins < MaxLogins
  /\ logins' = logins + 1
  /\ up' = Append(up, Frame(request))

\* forward.next(): the local application sends.  Before the login the data is
\* buffered, afterwards it is sent as it is.
ApplicationSends ==
  /\ client # "closed" /\ appSent < MaxData
  /\ appSent' = appSent + 1
  /\ IF client = "login"
       THEN buffer' = Append(buffer, Piece(appSent')) /\ UNCHANGED up
       ELSE up' = Append(up, Piece(appSent')) /\ UNCHANGED buffer
  /\ UNCHANGED <<portOpen, client, logins, dialog, appGot, serverVars, down, misread>>

\* handle_login_from_ui: the user answers the dialog.
UserLogsIn ==
  /\ client = "login" /\ dialog
  /\ \E request \in {"LoginRight", "LoginWrong"} : LogIn(request)
  /\ dialog' = FALSE
  /\ UNCHANGED <<portOpen, client, appSent, buffer, appGot, serverVars, down, misread>>

\* the reply of handle_test_delay
Reply == Append(up, Frame("TestDelay"))

\* what is left in the buffer after the login
UnsentBug == buffer
Unsent == <<>>

\* connect_and_login, one message: handle_hash logs in with the password it has
\* or without one, and then asks for it; handle_login_error asks again or gives
\* up; LoginResponse ends the loop and switches to raw.
ClientReceives ==
  /\ client = "login" /\ down # <<>>
  /\ down' = Tail(down)
  /\ LET item == Head(down) IN
       /\ misread' = (misread \/ ~IsFrame(item))
       /\ CASE item.kind = "Hash" ->
                 /\ \E request \in {"LoginRight", "LoginWrong", "LoginEmpty"} :
                      /\ LogIn(request)
                      /\ dialog' = (request = "LoginEmpty")
                 /\ UNCHANGED <<client, buffer>>
            [] item.kind = "TestDelay" ->
                 /\ up' = Reply
                 /\ UNCHANGED <<client, logins, dialog, buffer>>
            [] item.kind = "LoginError" ->
                 /\ \/ dialog' = TRUE /\ UNCHANGED client
                    \/ client' = "closed" /\ UNCHANGED dialog
                 /\ UNCHANGED <<logins, up, buffer>>
            [] item.kind = "LoginResponse" ->
                 /\ client' = "raw"
                 /\ up' = up \o buffer
                 /\ buffer' = Unsent
                 /\ UNCHANGED <<logins, dialog>>
            [] OTHER -> UNCHANGED <<client, logins, dialog, up, buffer>>
  /\ UNCHANGED <<portOpen, appSent, appGot, serverVars>>

\* run_forward: what comes from the stream goes to the application.
ClientForwards ==
  /\ client = "raw" /\ down # <<>>
  /\ down' = Tail(down)
  /\ appGot' = Append(appGot, Head(down))
  /\ UNCHANGED <<portOpen, client, logins, dialog, appSent, buffer, serverVars, up, misread>>

\* The application or the user closes the connection, or nothing came for the
\* READ_TIMEOUT.
ClientCloses ==
  /\ client # "closed"
  /\ client' = "closed"
  /\ UNCHANGED <<portOpen, logins, dialog, appSent, buffer, appGot, serverVars, up, down, misread>>

-----------------------------------------------------------------------------
(* The controlled side.                                                    *)

\* the test in front of sending a TestDelay
MayTest == ~last_test_delay /\ ~(socket /\ authorized)

\* test_delay_timer
TestDelayTick ==
  /\ server = "login" /\ MayTest /\ delays < MaxDelays
  /\ last_test_delay' = TRUE
  /\ delays' = delays + 1
  /\ down' = Append(down, Frame("TestDelay"))
  /\ UNCHANGED <<portOpen, clientVars, server, socket, authorized, cm, talk, portSent,
                 portGot, byHand, talkedLate, up, misread>>

\* what follows on_message in the loop: leave it for the forwarding once the
\* connection is let in and no reply to a TestDelay is under way
BreaksBug(testing) == socket' /\ authorized'
Breaks(testing) == socket' /\ authorized' /\ ~testing

\* on_message: the reply of the peer ends the wait for it
TestingBug(item) == last_test_delay
Testing(item) == last_test_delay /\ item.kind # "TestDelay"

\* on_message, a login request of a connection that is not let in yet: the port
\* is connected to first.
HandleLogin(request) ==
  /\ portOpen
  /\ socket' = TRUE
  /\ cm' = TRUE
  /\ authorized' = (request = "LoginRight")
  /\ down' = CASE request = "LoginRight" -> Append(down, Frame("LoginResponse"))
               [] request = "LoginWrong" -> Append(down, Frame("LoginError"))
               [] request = "LoginEmpty" -> down

IsLogin(item) == item.kind \in {"LoginRight", "LoginWrong", "LoginEmpty"}

\* The loop takes one message; data that comes before the switch is no message
\* and is dropped.
ServerReceives ==
  /\ server = "login" /\ up # <<>>
  /\ up' = Tail(up)
  /\ LET item == Head(up) IN
       /\ IF IsLogin(item) /\ ~authorized
            THEN HandleLogin(item.kind)
            ELSE UNCHANGED <<socket, authorized, cm, down>>
       /\ last_test_delay' = Testing(item)
       /\ server' = IF Breaks(last_test_delay') THEN "raw" ELSE "login"
       /\ misread' = (misread \/ ~IsFrame(item))
  /\ UNCHANGED <<portOpen, clientVars, delays, talk, portSent, portGot, byHand, talkedLate>>

\* The port cannot be connected to: an error, and the loop ends.
LoginFails ==
  /\ server = "login" /\ up # <<>> /\ IsLogin(Head(up)) /\ ~authorized
  /\ ~portOpen
  /\ up' = Tail(up)
  /\ down' = Append(down, Frame("LoginError"))
  /\ server' = "closed"
  /\ UNCHANGED <<portOpen, clientVars, socket, authorized, last_test_delay, cm, delays, talk,
                 portSent, portGot, byHand, talkedLate, misread>>

\* ipc::Data::Authorize: the user of the controlled side lets the connection in.
Authorize ==
  /\ server = "login" /\ cm /\ socket /\ ~authorized
  /\ authorized' = TRUE
  /\ down' = Append(down, Frame("LoginResponse"))
  /\ server' = "raw"
  /\ byHand' = TRUE
  /\ UNCHANGED <<portOpen, clientVars, socket, last_test_delay, cm, delays, talk, portSent,
                 portGot, talkedLate, up, misread>>

\* Other messages of the connection manager that are passed on to the peer.
CmTalks ==
  /\ server = "login" /\ cm /\ talk < MaxTalk
  /\ talk' = talk + 1
  /\ down' = Append(down, Frame("Misc"))
  /\ talkedLate' = (talkedLate \/ authorized)
  /\ UNCHANGED <<portOpen, clientVars, server, socket, authorized, last_test_delay, cm, delays,
                 portSent, portGot, byHand, up, misread>>

\* try_port_forward_loop
PortSends ==
  /\ server = "raw" /\ portSent < MaxData
  /\ portSent' = portSent + 1
  /\ down' = Append(down, Piece(portSent'))
  /\ UNCHANGED <<portOpen, clientVars, server, socket, authorized, last_test_delay, cm, delays,
                 talk, portGot, byHand, talkedLate, up, misread>>

ServerForwards ==
  /\ server = "raw" /\ up # <<>>
  /\ up' = Tail(up)
  /\ portGot' = Append(portGot, Head(up))
  /\ UNCHANGED <<portOpen, clientVars, server, socket, authorized, last_test_delay, cm, delays,
                 talk, portSent, byHand, talkedLate, down, misread>>

\* The peer is gone, the port closes, the connection manager or a timeout ends
\* the connection.
ServerCloses ==
  /\ server # "closed"
  /\ server' = "closed"
  /\ UNCHANGED <<portOpen, clientVars, socket, authorized, last_test_delay, cm, delays, talk,
                 portSent, portGot, byHand, talkedLate, up, down, misread>>

-----------------------------------------------------------------------------
ClientStep ==
  ApplicationSends \/ UserLogsIn \/ ClientReceives \/ ClientForwards \/ ClientCloses
ServerStep ==
  \/ TestDelayTick \/ ServerReceives \/ LoginFails \/ Authorize \/ CmTalks
  \/ PortSends \/ ServerForwards \/ ServerCloses
PortForwardNext == ClientStep \/ ServerStep

PortForwardSpec == PortForwardInit /\ [][PortForwardNext]_forwardVars

\* Both loops take what comes; nothing is assumed of the users, of the
\* applications or of the timer.
PortForwardFairness ==
  /\ WF_forwardVars(ClientReceives) /\ WF_forwardVars(ServerReceives)
-----------------------------------------------------------------------------
(* Properties.                                                             *)

\* "Avoid TestDelay reply injection into rdp data stream", the comment at the
\* test that keeps the loop from ending: no message of the login ever reaches
\* the port.
NoReplyInjected == \A i \in DOMAIN portGot : ~IsFrame(portGot[i])

\* what was got is the beginning of the sent pieces, after whatever messages got
\* into the stream before them
FromTheStart(got, sent) ==
  \E k \in 0 .. Len(got) :
    /\ \A i \in 1 .. k : IsFrame(got[i])
    /\ Len(got) - k <= sent
    /\ \A i \in 1 .. Len(got) - k : got[k + i] = Piece(i)

\* The port and the application get what the other one sent, from the first byte
\* and in order, although both sides switch on their own: no data is taken for a
\* message, and no message for data, unless the user let the connection in by
\* hand or the connection manager talked to a peer that was already logged in.
DataPassesThrough ==
  /\ ~misread
  /\ FromTheStart(portGot, appSent)
  /\ FromTheStart(appGot, portSent)
  /\ ~byHand => NoReplyInjected
  /\ ~talkedLate => \A i \in DOMAIN appGot : ~IsFrame(appGot[i])

\* Waiting for the reply to a TestDelay does not keep a connection that was let
\* in from being forwarded: the reply comes before the peer turns raw.
ForwardingStarts == authorized ~> (server # "login" \/ client = "closed")
=============================================================================
