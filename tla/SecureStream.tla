---------------------------- MODULE SecureStream ----------------------------
(***************************************************************************)
(* hbb_common/tcp.rs, FramedStream: the connection between the two sides,  *)
(* after the handshake of server.rs, create_tcp_connection, and client.rs, *)
(* secure_connection.  A side that has a key seals every message with the  *)
(* number of the message as the nonce, and opens every frame with the      *)
(* number of frames it has received; neither number is given.               *)
(*                                                                         *)
(* A send has a time-out.  It can strike while the frame is written, which *)
(* goes out later all the same, or before it is taken, and then the frame  *)
(* is gone although its number is used up.  Some callers end the           *)
(* connection, others log the error and go on.                             *)
(***************************************************************************)
EXTENDS Naturals, Sequences

CONSTANT MaxSends  \* bound: messages each side sends after the handshake

ASSUME SecureStreamAssumption == MaxSends \in Nat

VARIABLES
  secure,   \* create_tcp_connection(.., secure) with a valid key pair
  trusts,   \* the controlling side has the public key of the other (sign_pk)
  verified, \* ... and the id it is sent is signed with it
  stage,    \* of each side: greet, answer, open or closed
  key,      \* FramedStream.2 is some
  sealed,   \* Encrypt.1: messages sealed by each side
  opened,   \* Encrypt.2: frames opened by each side
  wire,     \* frames on their way from each side
  given,     \* messages each side was given to send (history)
  got,      \* messages each side returned to its caller (history)
  lost,     \* sides whose send timed out before the frame was taken (history)
  confused  \* a frame was read in another mode than it was written in (history)

secureVars ==
  <<secure, trusts, verified, stage, key, sealed, opened, wire, given, got, lost, confused>>

Sides == {"ctl", "srv"}
Peer(e) == IF e = "ctl" THEN "srv" ELSE "ctl"
SecurePhases == {"greet", "answer", "open", "closed"}
\* what the handshake sends: an id, a key, an empty key, or an empty message
Greetings == {"SignedId", "PublicKey", "EmptyKey", "Nothing"}

\* nonce 0: not sealed
SecureFrames == [kind : Greetings \cup {"Message"}, nonce : Nat, number : Nat]
Unsealed(kind) == [kind |-> kind, nonce |-> 0, number |-> 0]

SecureTypeOK ==
  /\ {secure, trusts, verified, confused} \subseteq BOOLEAN
  /\ stage \in [Sides -> SecurePhases]
  /\ key \in [Sides -> BOOLEAN]
  /\ sealed \in [Sides -> Nat] /\ opened \in [Sides -> Nat]
  /\ wire \in [Sides -> Seq(SecureFrames)]
  /\ given \in [Sides -> 0 .. MaxSends]
  /\ got \in [Sides -> Seq(Nat)]
  /\ lost \subseteq Sides
  /\ \A e \in Sides : ~key[e] => sealed[e] = 0 /\ opened[e] = 0

\* A side that asks for a secure connection does so because it has the key, and
\* the other one is told (the relay), or secures it anyway (direct and local).
SecureInit ==
  /\ secure \in BOOLEAN /\ trusts \in BOOLEAN /\ verified \in BOOLEAN
  /\ trusts => secure
  /\ stage = [e \in Sides |-> "greet"]
  /\ key = [e \in Sides |-> FALSE]
  /\ sealed = [e \in Sides |-> 0] /\ opened = [e \in Sides |-> 0]
  /\ wire = [e \in Sides |-> <<>>]
  /\ given = [e \in Sides |-> 0] /\ got = [e \in Sides |-> <<>>]
  /\ lost = {} /\ confused = FALSE

-----------------------------------------------------------------------------
(* The handshake.                                                          *)

Enter(e, p) == stage' = [stage EXCEPT ![e] = p]

Greeted(e, kind) == wire' = [wire EXCEPT ![e] = Append(@, Unsealed(kind))]

\* create_tcp_connection: SignedId, or nothing to negotiate
OfferKey ==
  /\ stage["srv"] = "greet"
  /\ IF secure
       THEN Greeted("srv", "SignedId") /\ Enter("srv", "answer")
       ELSE Enter("srv", "open") /\ UNCHANGED wire
  /\ UNCHANGED <<secure, trusts, verified, key, sealed, opened, given, got, lost, confused>>

\* secure_connection without the public key of the peer: an empty message, in
\* case the other side waits for the first one
DeclineKey ==
  /\ stage["ctl"] = "greet" /\ ~trusts
  /\ Greeted("ctl", "Nothing") /\ Enter("ctl", "open")
  /\ UNCHANGED <<secure, trusts, verified, key, sealed, opened, given, got, lost, confused>>

\* ... with it: the answer is a new symmetric key, if the id is signed as it
\* should be, and the key is used from the next message on
AnswerKey ==
  /\ stage["ctl"] = "greet" /\ trusts /\ wire["srv"] # <<>>
  /\ LET signed == Head(wire["srv"]).kind = "SignedId" /\ verified IN
       /\ \E kind \in IF signed THEN {"PublicKey"} ELSE {"EmptyKey", "Nothing"} :
            wire' = [wire EXCEPT !["srv"] = Tail(@), !["ctl"] = Append(@, Unsealed(kind))]
       /\ key' = [key EXCEPT !["ctl"] = signed]
  /\ Enter("ctl", "open")
  /\ UNCHANGED <<secure, trusts, verified, sealed, opened, given, got, lost, confused>>

\* whether the controlled side uses a key after the answer
TakesKey(answer) == answer.kind = "PublicKey"

\* create_tcp_connection, the answer: a key, an empty key or something else
AcceptKey ==
  /\ stage["srv"] = "answer" /\ wire["ctl"] # <<>>
  /\ key' = [key EXCEPT !["srv"] = TakesKey(Head(wire["ctl"]))]
  /\ wire' = [wire EXCEPT !["ctl"] = Tail(@)]
  /\ Enter("srv", "open")
  /\ UNCHANGED <<secure, trusts, verified, sealed, opened, given, got, lost, confused>>

-----------------------------------------------------------------------------
(* Messages.                                                               *)

\* enc: the counter goes first; without a key nothing is counted
Nonce(e) == IF key[e] THEN sealed[e] + 1 ELSE 0

\* send_raw; the frame is taken, at once or after the caller gave up
Send(e) ==
  /\ stage[e] = "open" /\ given[e] < MaxSends
  /\ given' = [given EXCEPT ![e] = @ + 1]
  /\ sealed' = [sealed EXCEPT ![e] = Nonce(e)]
  /\ wire' = [wire EXCEPT ![e] =
       Append(@, [kind |-> "Message", nonce |-> Nonce(e), number |-> given[e] + 1])]
  /\ UNCHANGED <<secure, trusts, verified, stage, key, opened, got, lost, confused>>

\* send_raw; the time-out strikes before the frame is taken
SendTimesOut(e) ==
  /\ stage[e] = "open" /\ given[e] < MaxSends
  /\ given' = [given EXCEPT ![e] = @ + 1]
  /\ sealed' = [sealed EXCEPT ![e] = Nonce(e)]
  /\ lost' = lost \cup {e}
  /\ UNCHANGED <<secure, trusts, verified, stage, key, opened, wire, got, confused>>

\* dec: a frame of less than two bytes passes, another one opens with the next
\* number only
OpensBug(e, frame) == frame.nonce > opened[e]
Opens(e, frame) == frame.kind = "Nothing" \/ frame.nonce = opened[e] + 1

\* next(); a frame that does not open ends the connection, as does the end of it.
\* The empty message of the handshake is no message to Connection::on_message.
Receive(e) ==
  /\ stage[e] = "open" /\ wire[Peer(e)] # <<>>
  /\ wire' = [wire EXCEPT ![Peer(e)] = Tail(@)]
  /\ LET frame == Head(wire[Peer(e)]) IN
       /\ confused' = (confused \/ (key[e] /\ frame.nonce = 0) \/ (~key[e] /\ frame.nonce # 0))
       /\ opened' = [opened EXCEPT ![e] = IF key[e] /\ frame.kind # "Nothing" THEN @ + 1 ELSE @]
       /\ IF key[e] /\ ~Opens(e, frame)
            THEN Enter(e, "closed") /\ UNCHANGED got
            ELSE /\ got' = [got EXCEPT ![e] =
                              IF frame.kind = "Message" THEN Append(@, frame.number) ELSE @]
                 /\ UNCHANGED stage
  /\ UNCHANGED <<secure, trusts, verified, key, sealed, given, lost>>

\* The caller gives up: a time-out of the handshake or of a send, or its own end.
Close(e) ==
  /\ stage[e] # "closed"
  /\ Enter(e, "closed")
  /\ UNCHANGED <<secure, trusts, verified, key, sealed, opened, wire, given, got, lost, confused>>

SecureNext ==
  \/ OfferKey \/ DeclineKey \/ AnswerKey \/ AcceptKey
  \/ \E e \in Sides : Send(e) \/ SendTimesOut(e) \/ Receive(e) \/ Close(e)

SecureSpec == SecureInit /\ [][SecureNext]_secureVars

\* Both sides read what has come.
SecureFairness == \A e \in Sides : WF_secureVars(Receive(e))
-----------------------------------------------------------------------------
(* Properties.                                                             *)

\* Both sides change to the key at the same place of the stream: no frame is
\* read in another mode than it was written in.  And with a key, what a side
\* gets are the first messages of the other, in order and without a gap,
\* although sends time out and go on: a message after one that was dropped does
\* not open.
SealedWithoutGap ==
  /\ ~confused
  /\ \A e \in Sides : key[e] =>
       Len(got[e]) <= given[Peer(e)] /\ \A i \in 1 .. Len(got[e]) : got[e][i] = i

\* A gap is noticed at the next message that comes: no side stays open with an
\* unread frame after a dropped one.
GapNoticed ==
  \A e \in Sides :
    key[e] /\ stage[e] = "open" /\ (\E i \in 1 .. Len(wire[Peer(e)]) :
                 wire[Peer(e)][i].nonce > opened[e] + Len(wire[Peer(e)]))
      ~> stage[e] = "closed"
=============================================================================
