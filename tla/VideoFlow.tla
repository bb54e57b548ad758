----------------------------- MODULE VideoFlow -----------------------------
(***************************************************************************)
(* server/video_service.rs: one thread per display captures, encodes and   *)
(* sends frames to the connections that subscribed, and after each frame   *)
(* waits until they have acknowledged it, or for three seconds at most.    *)
(*                                                                         *)
(* Every connection acknowledges into one global channel                   *)
(* (FRAME_FETCHED_NOTIFIER) with nothing but its id: an acknowledgement    *)
(* names neither the display nor the frame, and the thread that happens to *)
(* hold the receiver's lock takes it.                                      *)
(*                                                                         *)
(* The subscription tables are those of module Service, whose critical     *)
(* sections are coarser here; pixels, codecs and bit rates are left out.   *)
(***************************************************************************)
EXTENDS Naturals, Sequences, FiniteSets, FiniteSetsExt

CONSTANTS
  Conns,         \* connection ids
  Displays,      \* video services, one thread each
  Nobody,        \* no display
  MaxQueue,      \* bound: frames told apart in the queue of a connection
  MaxAcks,       \* bound: acknowledgements in the channel
  MaxRefreshes,  \* bound: refresh requests
  MaxChanges,    \* bound: changes of the codec or of the privacy mode
  MaxFails,      \* bound: failures to capture or to encode
  MaxForgiven    \* bound: acknowledgements given up on that are counted

ASSUME VideoFlowAssumption ==
  /\ Nobody \notin Displays /\ IsFiniteSet(Displays)
  /\ IsFiniteSet(Conns)
  /\ {MaxQueue, MaxAcks, MaxRefreshes, MaxChanges, MaxFails, MaxForgiven} \subseteq Nat

VARIABLES
  subs,       \* subscribes of each service
  news,       \* new_subscribes of each service
  loc,        \* where the thread of a service is
  encoder,    \* its encoder: none, fresh (no frame out yet) or running
  refresh,    \* OPTION_REFRESH of the service
  outdated,   \* what changed since the encoder was set up
  awaiting,   \* frame_controller.send_conn_ids
  fetched,    \* fetched_conn_ids
  expired,    \* the three seconds of the wait are over
  receiver,   \* the thread that holds the lock of the channel's receiver
  acks,       \* the channel
  frames,     \* frames sent to a connection and not acknowledged, by display
  ended,      \* connections whose loop has ended
  removed,    \* those that were removed from the services as well
  refreshes, changes, fails,  \* counters for the bounds
  owed,       \* services asked for a refresh and not having sent a key frame
              \* since (history)
  forgiven    \* acknowledgements a thread stopped waiting for (history)

control == <<loc, encoder, awaiting, fetched, expired, receiver>>
tables == <<subs, news>>
requests == <<refresh, outdated, refreshes, changes>>
connVars == <<ended, removed>>
vars == <<control, tables, requests, connVars, acks, frames, fails, owed, forgiven>>

Locations == {"idle", "ready", "top", "snapshot", "encode", "wait", "queue", "receive"}
Changes == {"codec", "privacy"}

TypeOK ==
  /\ subs \in [Displays -> SUBSET Conns]
  /\ news \in [Displays -> SUBSET Conns]
  /\ loc \in [Displays -> Locations]
  /\ encoder \in [Displays -> {"none", "fresh", "running"}]
  /\ refresh \in [Displays -> BOOLEAN]
  /\ outdated \in [Displays -> SUBSET Changes]
  /\ awaiting \in [Displays -> SUBSET Conns]
  /\ fetched \in [Displays -> SUBSET Conns]
  /\ expired \in [Displays -> BOOLEAN]
  /\ receiver \in Displays \cup {Nobody}
  /\ \A s \in Displays : receiver = s <=> loc[s] = "receive"
  /\ acks \in Seq(Conns)
  /\ frames \in [Conns -> Seq(Displays)]
  /\ ended \subseteq Conns
  /\ removed \subseteq ended
  /\ refreshes \in 0 .. MaxRefreshes
  /\ changes \in 0 .. MaxChanges
  /\ fails \in 0 .. MaxFails
  /\ owed \subseteq Displays
  /\ forgiven \in 0 .. MaxForgiven

Init ==
  /\ subs = [s \in Displays |-> {}]
  /\ news = [s \in Displays |-> {}]
  /\ loc = [s \in Displays |-> "idle"]
  /\ encoder = [s \in Displays |-> "none"]
  /\ refresh = [s \in Displays |-> FALSE]
  /\ outdated = [s \in Displays |-> {}]
  /\ awaiting = [s \in Displays |-> {}]
  /\ fetched = [s \in Displays |-> {}]
  /\ expired = [s \in Displays |-> FALSE]
  /\ receiver = Nobody
  /\ acks = <<>>
  /\ frames = [c \in Conns |-> <<>>]
  /\ ended = {} /\ removed = {}
  /\ refreshes = 0 /\ changes \in 0 .. MaxChanges /\ fails \in 0 .. MaxFails
  /\ owed = {}
  /\ forgiven = 0

-----------------------------------------------------------------------------
(* The connections.                                                        *)

\* Server::subscribe and capture_displays: on_subscribe of a video service
Subscribe(c, s) ==
  /\ c \notin ended \cup subs[s] \cup news[s]
  /\ news' = [news EXCEPT ![s] = @ \cup {c}]
  /\ UNCHANGED <<control, subs, requests, connVars, acks, frames, fails, owed, forgiven>>

Unsubscribe(c, s) ==
  /\ c \in (subs[s] \cup news[s]) \ ended
  /\ subs' = [subs EXCEPT ![s] = @ \ {c}]
  /\ news' = [news EXCEPT ![s] = @ \ {c}]
  /\ UNCHANGED <<control, requests, connVars, acks, frames, fails, owed, forgiven>>

\* refresh_video_display: for one display, or for all of them (older peers).
Refresh(c, asked) ==
  /\ c \notin ended /\ refreshes < MaxRefreshes
  /\ refresh' = [s \in Displays |-> refresh[s] \/ s \in asked]
  /\ owed' = owed \cup asked
  /\ refreshes' = refreshes + 1
  /\ UNCHANGED <<control, tables, outdated, connVars, acks, frames, changes, fails, forgiven>>

\* The loop takes the next frame from rx_video and acknowledges it, or passes
\* it on and acknowledges it when the peer says VideoReceived.
Acknowledge(c) ==
  /\ c \notin ended /\ frames[c] # <<>> /\ Len(acks) < MaxAcks
  /\ frames' = [frames EXCEPT ![c] = Tail(@)]
  /\ acks' = Append(acks, c)
  /\ UNCHANGED <<control, tables, requests, connVars, fails, owed, forgiven>>

\* The loop ends: what waits in rx_video is never taken, and one last
\* notify_video_frame_fetched(id, None) releases a thread that waits for it.
EndLoop(c) ==
  /\ c \notin ended /\ Len(acks) < MaxAcks
  /\ ended' = ended \cup {c}
  /\ acks' = Append(acks, c)
  /\ frames' = [frames EXCEPT ![c] = <<>>]
  /\ UNCHANGED <<control, tables, requests, removed, fails, owed, forgiven>>

\* remove_connection comes later, after the audit and the port forwarding.
RemoveConnection(c) ==
  /\ c \in ended \ removed
  /\ removed' = removed \cup {c}
  /\ subs' = [s \in Displays |-> subs[s] \ {c}]
  /\ news' = [s \in Displays |-> news[s] \ {c}]
  /\ UNCHANGED <<control, requests, ended, acks, frames, fails, owed, forgiven>>

\* The negotiated codec or the owner of the privacy mode changes, for all.
Change(what) ==
  /\ changes < MaxChanges
  /\ changes' = changes + 1
  /\ outdated' = [s \in Displays |-> outdated[s] \cup {what}]
  /\ UNCHANGED <<control, tables, connVars, refresh, refreshes, acks, frames, fails,
                 owed, forgiven>>

-----------------------------------------------------------------------------
(* The thread of a display: ServiceTmpl::run around video_service::run.    *)

At(s, location) == loc[s] = location
Goto(s, location) == loc' = [loc EXCEPT ![s] = location]

HasSubscribes(s) == subs[s] \cup news[s] # {}

\* what thread s gives up waiting for
Missing(s) == Cardinality(awaiting[s]) - Cardinality(fetched[s])
GiveUp(s) == forgiven' = Min({MaxForgiven, forgiven + Missing(s)})

\* run returns, with bail!("SWITCH"), another error or because nobody is left:
\* the encoder and the frame controller are dropped.
Leave(s) ==
  /\ Goto(s, "idle")
  /\ encoder' = [encoder EXCEPT ![s] = "none"]
  /\ awaiting' = [awaiting EXCEPT ![s] = {}]
  /\ fetched' = [fetched EXCEPT ![s] = {}]
  /\ expired' = [expired EXCEPT ![s] = FALSE]

\* what setup_encoder returns
NewEncoderBug(s) == "running"
NewEncoder(s) == "fresh"

\* run enters: get_capturer and setup_encoder, with its fall-back to VP9.
SetUp(s) ==
  /\ At(s, "idle") /\ HasSubscribes(s)
  /\ Goto(s, "ready")
  /\ encoder' = [encoder EXCEPT ![s] = NewEncoder(s)]
  /\ outdated' = [outdated EXCEPT ![s] = {}]
  /\ UNCHANGED <<tables, connVars, awaiting, fetched, expired, receiver, acks, frames,
                 refresh, refreshes, changes, fails, owed, forgiven>>

\* Either fails: the error goes up to ServiceTmpl::run, which tries again.
SetUpFails(s) ==
  /\ At(s, "idle") /\ HasSubscribes(s) /\ fails < MaxFails
  /\ fails' = fails + 1
  /\ UNCHANGED <<control, tables, requests, connVars, acks, frames, owed, forgiven>>

\* OPTION_REFRESH is cleared once the encoder is there.
ClearRefresh(s) ==
  /\ At(s, "ready")
  /\ Goto(s, "top")
  /\ refresh' = [refresh EXCEPT ![s] = FALSE]
  /\ UNCHANGED <<tables, connVars, encoder, awaiting, fetched, expired, receiver, acks,
                 frames, outdated, refreshes, changes, fails, owed, forgiven>>

\* reasons to bail out at the top of the loop
MustSwitchBug(s) == outdated[s] # {}
MustSwitch(s) == refresh[s] \/ outdated[s] # {}

\* while sp.ok() { ... the tests before the capture.
Quit(s) ==
  /\ At(s, "top")
  /\ ~HasSubscribes(s) \/ MustSwitch(s)
  /\ Leave(s)
  /\ UNCHANGED <<tables, requests, connVars, receiver, acks, frames, fails, owed, forgiven>>

\* c.frame(spf) gives a frame, or the last one is encoded once more.
Capture(s) ==
  /\ At(s, "top") /\ HasSubscribes(s) /\ ~MustSwitch(s)
  /\ Goto(s, "snapshot")
  /\ awaiting' = [awaiting EXCEPT ![s] = {}]
  /\ UNCHANGED <<tables, requests, connVars, encoder, fetched, expired, receiver, acks,
                 frames, fails, owed, forgiven>>

\* WouldBlock: nothing new on the screen, nothing to wait for.
NoFrame(s) ==
  /\ At(s, "top") /\ HasSubscribes(s) /\ ~MustSwitch(s)
  /\ Goto(s, "wait")
  /\ awaiting' = [awaiting EXCEPT ![s] = {}]
  /\ UNCHANGED <<tables, requests, connVars, encoder, fetched, expired, receiver, acks,
                 frames, fails, owed, forgiven>>

\* Capturing fails for good, or an encoder that fails has to be replaced.
Fail(s) ==
  /\ At(s, "top") \/ At(s, "encode")
  /\ fails < MaxFails
  /\ fails' = fails + 1
  /\ Leave(s)
  /\ UNCHANGED <<tables, requests, connVars, receiver, acks, frames, owed, forgiven>>

\* handle_one_frame, sp.snapshot: new subscribers become subscribers, and if
\* there were others the encoder starts over for all.
Snapshot(s) ==
  /\ At(s, "snapshot")
  /\ subs' = [subs EXCEPT ![s] = @ \cup news[s]]
  /\ news' = [news EXCEPT ![s] = {}]
  /\ IF news[s] # {} /\ subs[s] # {}
       THEN Leave(s)
       ELSE /\ Goto(s, "encode")
            /\ UNCHANGED <<encoder, awaiting, fetched, expired>>
  /\ UNCHANGED <<requests, connVars, receiver, acks, frames, fails, owed, forgiven>>

\* sp.send_video_frame appends to the queue of a connection; a queue at the
\* bound does not grow, which only forgets how far behind the connection is.
Queued(c, s) ==
  IF c \in subs[s] \ ended /\ Len(frames[c]) < MaxQueue
    THEN Append(frames[c], s) ELSE frames[c]

\* what set_send remembers: those send_video_frame sent to
Remembered(s) == subs[s]

\* handle_one_frame, the rest: encode and send.
EncodeAndSend(s) ==
  /\ At(s, "encode")
  /\ frames' = [c \in Conns |-> Queued(c, s)]
  /\ awaiting' = [awaiting EXCEPT ![s] = Remembered(s)]
  /\ encoder' = [encoder EXCEPT ![s] = "running"]
  /\ owed' = IF encoder[s] = "fresh" THEN owed \ {s} ELSE owed
  /\ Goto(s, "wait")
  /\ UNCHANGED <<tables, requests, connVars, fetched, expired, receiver, acks, fails, forgiven>>

\* An encoding error that keeps the encoder: no frame, nothing to wait for.
EncodeFails(s) ==
  /\ At(s, "encode") /\ fails < MaxFails
  /\ fails' = fails + 1
  /\ Goto(s, "wait")
  /\ UNCHANGED <<tables, requests, connVars, encoder, awaiting, fetched, expired,
                 receiver, acks, frames, owed, forgiven>>

-----------------------------------------------------------------------------
(* The wait for acknowledgements, and VideoFrameController::try_wait_next. *)

Waiting(s) == loc[s] \in {"wait", "queue", "receive"}

\* The wait loop is left; reset follows before the next capture.
Proceed(s) ==
  /\ Goto(s, "top")
  /\ fetched' = [fetched EXCEPT ![s] = {}]
  /\ expired' = [expired EXCEPT ![s] = FALSE]
  /\ UNCHANGED <<encoder, awaiting>>

\* wait_begin.elapsed() reaches timeout_millis
Expire(s) ==
  /\ Waiting(s) /\ ~expired[s]
  /\ expired' = [expired EXCEPT ![s] = TRUE]
  /\ UNCHANGED <<loc, encoder, awaiting, fetched, receiver, tables, requests, connVars,
                 acks, frames, fails, owed, forgiven>>

\* the condition of the wait loop is false
OutOfTimeBug(s) == FALSE
OutOfTime(s) == expired[s]

\* The three seconds are over: on with the next frame.
GiveUpWaiting(s) ==
  /\ At(s, "wait") /\ OutOfTime(s)
  /\ Proceed(s)
  /\ GiveUp(s)
  /\ UNCHANGED <<receiver, tables, requests, connVars, acks, frames, fails, owed>>

\* check_privacy_mode_changed bails out of the wait.
PrivacySwitch(s) ==
  /\ At(s, "wait") /\ ~OutOfTime(s) /\ "privacy" \in outdated[s]
  /\ Leave(s)
  /\ GiveUp(s)
  /\ UNCHANGED <<receiver, tables, requests, connVars, acks, frames, fails, owed>>

\* try_wait_next returns at once when nothing was sent; otherwise it queues for
\* the lock of the receiver, outside of its own timeout.
TryWaitNext(s) ==
  /\ At(s, "wait") /\ ~OutOfTime(s) /\ "privacy" \notin outdated[s]
  /\ IF awaiting[s] = {}
       THEN Proceed(s)
       ELSE /\ Goto(s, "queue")
            /\ UNCHANGED <<encoder, awaiting, fetched, expired>>
  /\ UNCHANGED <<receiver, tables, requests, connVars, acks, frames, fails, owed, forgiven>>

LockReceiver(s) ==
  /\ At(s, "queue") /\ receiver = Nobody
  /\ Goto(s, "receive")
  /\ receiver' = s
  /\ UNCHANGED <<encoder, awaiting, fetched, expired, tables, requests, connVars, acks,
                 frames, fails, owed, forgiven>>

\* the test that ends the wait: it compares how many, not who
SatisfiedBug(s, got) == got # {}
Satisfied(s, got) == Cardinality(got) >= Cardinality(awaiting[s])

\* the guard of the lock goes at the end of try_wait_next
ReleasedBug == receiver
Released == Nobody

\* Whoever acknowledged is inserted in fetched_conn_ids.
Receive(s) ==
  /\ At(s, "receive") /\ acks # <<>>
  /\ acks' = Tail(acks)
  /\ receiver' = Released
  /\ LET got == fetched[s] \cup {Head(acks)} IN
       IF Satisfied(s, got)
         THEN Proceed(s)
         ELSE /\ Goto(s, "wait")
              /\ fetched' = [fetched EXCEPT ![s] = got]
              /\ UNCHANGED <<encoder, awaiting, expired>>
  /\ UNCHANGED <<tables, requests, connVars, frames, fails, owed, forgiven>>

\* 300 ms without an acknowledgement
NothingComes == acks = <<>>

ReceiveTimeout(s) ==
  /\ At(s, "receive") /\ NothingComes
  /\ receiver' = Released
  /\ Goto(s, "wait")
  /\ UNCHANGED <<encoder, awaiting, fetched, expired, tables, requests, connVars, acks,
                 frames, fails, owed, forgiven>>

-----------------------------------------------------------------------------
Thread(s) ==
  \/ SetUp(s) \/ SetUpFails(s) \/ ClearRefresh(s)
  \/ Quit(s) \/ Capture(s) \/ NoFrame(s) \/ Fail(s)
  \/ Snapshot(s) \/ EncodeAndSend(s) \/ EncodeFails(s)
  \/ GiveUpWaiting(s) \/ PrivacySwitch(s) \/ TryWaitNext(s)
  \/ LockReceiver(s) \/ Receive(s) \/ ReceiveTimeout(s)

Connection(c) ==
  \/ \E s \in Displays : Subscribe(c, s) \/ Unsubscribe(c, s) \/ Refresh(c, {s})
  \/ Refresh(c, Displays)
  \/ Acknowledge(c) \/ EndLoop(c) \/ RemoveConnection(c)

Next ==
  \/ \E c \in Conns : Connection(c)
  \/ \E s \in Displays : Thread(s) \/ Expire(s)
  \/ \E what \in Changes : Change(what)

Spec == Init /\ [][Next]_vars

\* Threads are scheduled and the clock goes on; the lock of the receiver is
\* granted in the order of the requests (tokio's Mutex); a capturer in use
\* delivers a frame again and again.  Nothing is assumed of the connections.
ThreadFairness(s) ==
  /\ WF_vars(Thread(s)) /\ WF_vars(Expire(s))
  /\ SF_vars(LockReceiver(s)) /\ SF_vars(Capture(s))

Fairness == \A s \in Displays : ThreadFairness(s)

FairSpec == Spec /\ Fairness
-----------------------------------------------------------------------------
(* Properties.                                                             *)

\* frames sent to a connection that lives and not acknowledged
InFlight == {p \in Conns \X (1 .. MaxQueue) : p[1] \notin ended /\ p[2] <= Len(frames[p[1]])}

\* acknowledgements the waiting threads wait for, and those they have got
Awaited == {p \in Displays \X Conns : Waiting(p[1]) /\ p[2] \in awaiting[p[1]]}
Taken == {p \in Displays \X Conns : Waiting(p[1]) /\ p[2] \in fetched[p[1]]}

\* The capture never runs ahead of the connections, whichever thread takes
\* whose acknowledgement: the frames not acknowledged, with the acknowledgements
\* in the channel, are those some thread still waits for, but for what threads
\* gave up on and the last word of each ended connection.
FlowControlled ==
  forgiven < MaxForgiven =>
    Cardinality(InFlight) + Len(acks) + Cardinality(Taken)
      <= Cardinality(Awaited) + forgiven + Cardinality(ended)

\* An acknowledged frame of s, in the channel or not, is the current one.
Received(s, c) == \A i \in DOMAIN frames[c] : frames[c][i] # s

\* "break if all connections have received current frame", the comment at the
\* test that ends the wait.
BreakMeansReceived ==
  [][\A s \in Displays : Receive(s) /\ loc'[s] = "top" =>
       \A c \in awaiting[s] \ ended : Received(s, c)]_vars

\* With a single display, that is so until a wait is given up or a connection
\* ends.
AloneBreakMeansReceived ==
  [][\A s \in Displays : Receive(s) /\ loc'[s] = "top" /\ forgiven = 0 /\ ended = {} =>
       \A c \in awaiting[s] : Received(s, c)]_vars

\* A refresh request is still there, or the next frame is a key frame: the
\* option, set at any moment by a connection and cleared by the thread without
\* a common lock, does not get lost.
RefreshNotLost ==
  \A s \in owed : refresh[s] \/ encoder[s] # "running"

\* Where the code has a case for a thread: everywhere, but for one that has nobody
\* to serve or queues for the lock of the receiver.  NeverBlocked, what fairness
\* is worth, follows from the guards of the actions; it is no property of a run
\* but the hypothesis under which the liveness is proved in VideoFlowProofs.
CanGoOn(s) ==
  /\ At(s, "idle") => HasSubscribes(s)
  /\ At(s, "queue") => receiver = Nobody
NeverBlocked ==
  \A s \in Displays :
    /\ ENABLED <<Thread(s)>>_vars <=> CanGoOn(s)
    /\ ENABLED <<Expire(s)>>_vars <=> Waiting(s) /\ ~expired[s]
    /\ ENABLED <<LockReceiver(s)>>_vars <=> At(s, "queue") /\ receiver = Nobody
    /\ ENABLED <<Capture(s)>>_vars <=> At(s, "top") /\ HasSubscribes(s) /\ ~MustSwitch(s)

\* No thread waits for ever, although connections may never acknowledge and
\* threads take each other's acknowledgements and wait for each other's lock.
WaitEnds == \A s \in Displays : Waiting(s) ~> ~Waiting(s)

\* Once subscribers stop joining, a refresh request is answered by a key frame,
\* unless nobody is left.
RefreshServed ==
  <>[](\A s \in Displays : news[s] = {}) =>
    \A s \in Displays : s \in owed ~> (s \notin owed \/ ~HasSubscribes(s))
=============================================================================
