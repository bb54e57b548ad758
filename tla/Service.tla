------------------------------ MODULE Service ------------------------------
(***************************************************************************)
(* server/service.rs: ServiceTmpl<T>, the subscription table every capture *)
(* service of the controlled side shares (Arc<RwLock<ServiceInner>>)       *)
(* between the connections and the service's own thread.                   *)
(*                                                                         *)
(* A connection subscribes or unsubscribes in one critical section of the  *)
(* table's lock; the thread goes through its callback in several, and a    *)
(* connection can come or go between any two of them.  What a service      *)
(* sends is abstracted to versions of what it watches (the cursor image,   *)
(* the audio format, the list of displays, the stream of one encoder):     *)
(* `known' is the last version a subscriber has been sent.                 *)
(*                                                                         *)
(* Here and in the other modules, an operator whose name ends in Bug is a  *)
(* broken variant of the operator below it.  The specification does not    *)
(* use it; putting it in the place of the correct one must make TLC report *)
(* the property it is meant to break.                                      *)
(***************************************************************************)
EXTENDS Naturals, FiniteSets

CONSTANTS
  Conns,         \* connection ids
  Services,      \* service names
  NeedSnapshot,  \* services created with need_snapshot = true
  Restarting,    \* those whose snapshot callback restarts the service for
                 \* everybody instead of sending (the video services)
  MaxVersion,    \* bound: how often the watched thing changes
  MaxFails       \* bound: how many callbacks return an error

ASSUME ServiceAssumption ==
  /\ NeedSnapshot \subseteq Services
  /\ Restarting \subseteq NeedSnapshot
  /\ MaxVersion \in Nat \ {0}
  /\ MaxFails \in Nat

VARIABLES
  present,         \* services that exist, each with its thread
  subscribes,      \* ServiceInner.subscribes, per service
  new_subscribes,  \* ServiceInner.new_subscribes, per service
  active,          \* ServiceInner.active, per service
  pc,              \* where the thread of a service is
  source,          \* version of the watched thing
  cached,          \* version the thread has last broadcast (state.hcursor)
  known,           \* version last sent to a subscriber during its subscription
  late,            \* subscribers a snapshot has passed over (history)
  fails            \* callbacks that returned an error so far

serviceVars == <<present, subscribes, new_subscribes, active, pc,
                 source, cached, known, late, fails>>

NoVersion == 0
Versions == NoVersion .. MaxVersion
Locations == {"loop", "callback", "check", "snapshot", "drop", "dropErr",
              "fail", "exited"}

Subscribers(s) == subscribes[s] \cup new_subscribes[s]

\* ServiceInner::has_subscribes
HasSubscribes(s) == Subscribers(s) # {}

ServiceTypeOK ==
  /\ present \subseteq Services
  /\ subscribes \in [Services -> SUBSET Conns]
  /\ new_subscribes \in [Services -> SUBSET Conns]
  /\ active \in [Services -> BOOLEAN]
  /\ pc \in [Services -> Locations]
  /\ source \in [Services -> 1 .. MaxVersion]
  /\ cached \in [Services -> Versions]
  /\ known \in [Services -> [Conns -> Versions]]
  /\ late \in [Services -> SUBSET Conns]
  /\ fails \in 0 .. MaxFails

ServiceInit ==
  /\ present \in SUBSET Services
  /\ subscribes = [s \in Services |-> {}]
  /\ new_subscribes = [s \in Services |-> {}]
  /\ active = [s \in Services |-> TRUE]
  /\ pc = [s \in Services |-> "loop"]
  /\ source = [s \in Services |-> 1]
  /\ cached = [s \in Services |-> NoVersion]
  /\ known = [s \in Services |-> [c \in Conns |-> NoVersion]]
  /\ late = [s \in Services |-> {}]
  /\ fails = 0

-----------------------------------------------------------------------------
(* The operations of trait Service, each one critical section.             *)

\* the early return of on_subscribe
AlreadySubscribed(s, c) == c \in subscribes[s]

\* on_subscribe: a known subscriber is left alone; one of a service that
\* takes snapshots waits in new_subscribes for the thread to swap it in.
OnSubscribe(s, c) ==
  /\ IF AlreadySubscribed(s, c)
       THEN UNCHANGED <<subscribes, new_subscribes, late>>
       ELSE /\ IF s \in NeedSnapshot
                 THEN /\ new_subscribes' = [new_subscribes EXCEPT ![s] = @ \cup {c}]
                      /\ UNCHANGED subscribes
                 ELSE /\ subscribes' = [subscribes EXCEPT ![s] = @ \cup {c}]
                      /\ UNCHANGED new_subscribes
            /\ late' = IF pc[s] = "drop" /\ c \notin new_subscribes[s]
                         THEN [late EXCEPT ![s] = @ \cup {c}]
                         ELSE late
  /\ UNCHANGED <<present, active, pc, source, cached, known, fails>>

\* who still waits when c, not in subscribes, has unsubscribed
StillWaitingBug(s, c) == new_subscribes[s]
StillWaiting(s, c) == new_subscribes[s] \ {c}

\* on_unsubscribe: looks into new_subscribes only when subscribes had nothing
\* to remove.
OnUnsubscribe(s, c) ==
  /\ IF c \in subscribes[s]
       THEN /\ subscribes' = [subscribes EXCEPT ![s] = @ \ {c}]
            /\ UNCHANGED new_subscribes
       ELSE /\ new_subscribes' = [new_subscribes EXCEPT ![s] = StillWaiting(s, c)]
            /\ UNCHANGED subscribes
  /\ known' = [known EXCEPT ![s][c] = NoVersion]
  /\ late' = [late EXCEPT ![s] = @ \ {c}]
  /\ UNCHANGED <<present, active, pc, source, cached, fails>>

-----------------------------------------------------------------------------
(* The thread of a service (ServiceTmpl::repeat and ::run).                *)

At(s, location) == s \in present /\ pc[s] = location
Goto(s, location) == pc' = [pc EXCEPT ![s] = location]

\* ServiceTmpl::active, the condition of the loop of the thread
IsActiveBug(s) == TRUE
IsActive(s) == active[s]

\* run_cursor broadcasts and then takes the snapshot, handle_one_frame takes the
\* snapshot and then broadcasts; the iteration ends after the second.
AfterBroadcast(s) == IF s \in Restarting THEN "loop" ELSE "check"
AfterSnapshot(s) == IF s \in Restarting THEN "callback" ELSE "loop"

\* while sp.active() { if sp.has_subscribes() { callback ...
Iterate(s) ==
  /\ At(s, "loop") /\ IsActive(s) /\ HasSubscribes(s)
  /\ Goto(s, IF s \in Restarting THEN "check" ELSE "callback")
  /\ UNCHANGED <<present, subscribes, new_subscribes, active, source, cached,
                 known, late, fails>>

\* ... } else if may_reset { state.reset() }: nobody is left to serve.
Reset(s) ==
  /\ At(s, "loop") /\ IsActive(s) /\ ~HasSubscribes(s) /\ cached[s] # NoVersion
  /\ cached' = [cached EXCEPT ![s] = NoVersion]
  /\ UNCHANGED <<present, subscribes, new_subscribes, active, pc, source,
                 known, late, fails>>

\* The loop of an inactive service ends.
Exit(s) ==
  /\ At(s, "loop") /\ ~IsActive(s)
  /\ Goto(s, "exited")
  /\ UNCHANGED <<present, subscribes, new_subscribes, active, source, cached,
                 known, late, fails>>

\* what get_cursor and its like report
Watched(s) == source[s]

\* ServiceTmpl::send and its variants only serve the first table.
AudienceBug(s) == {}
Audience(s) == subscribes[s]

\* The callback looks at what the service watches and, if it changed, sends it
\* to `subscribes' (run_cursor's hcursor != state.hcursor, send_shared).
Broadcast(s) ==
  /\ At(s, "callback")
  /\ IF Watched(s) # cached[s]
       THEN /\ cached' = [cached EXCEPT ![s] = Watched(s)]
            /\ known' = [known EXCEPT ![s] =
                 [c \in Conns |-> IF c \in Audience(s) THEN Watched(s) ELSE @[c]]]
            /\ late' = [late EXCEPT ![s] = @ \ Audience(s)]
       ELSE UNCHANGED <<cached, known, late>>
  /\ Goto(s, AfterBroadcast(s))
  /\ UNCHANGED <<present, subscribes, new_subscribes, active, source, fails>>

\* The callback returns an error before it sends anything (get_cursor()?); a
\* service that restarts also loses what it had broadcast (its encoder).
CallbackFails(s) ==
  /\ At(s, "callback") /\ fails < MaxFails
  /\ fails' = fails + 1
  /\ Goto(s, "fail")
  /\ cached' = IF s \in Restarting THEN [cached EXCEPT ![s] = NoVersion] ELSE cached
  /\ UNCHANGED <<present, subscribes, new_subscribes, active, source, known, late>>

SomebodyWaits(s) == new_subscribes[s] # {}

\* sp.snapshot(..): the test of new_subscribes, a critical section of its own.
CheckSnapshot(s) ==
  /\ At(s, "check")
  /\ Goto(s, IF SomebodyWaits(s) THEN "snapshot" ELSE AfterSnapshot(s))
  /\ UNCHANGED <<present, subscribes, new_subscribes, active, source, cached,
                 known, late, fails>>

\* ServiceInner::send_new_subscribes only serves the second table.
NewAudience(s) == new_subscribes[s]

\* The snapshot callback of a service that sends: sps.send(..).
SendSnapshot(s) ==
  /\ At(s, "snapshot") /\ s \notin Restarting
  /\ known' = [known EXCEPT ![s] =
       [c \in Conns |-> IF c \in NewAudience(s) THEN cached[s] ELSE @[c]]]
  /\ Goto(s, "drop")
  /\ UNCHANGED <<present, subscribes, new_subscribes, active, source, cached,
                 late, fails>>

\* what is left of the broadcasts when the service starts over
AfterSwitchBug(s) == cached[s]
AfterSwitch(s) == NoVersion

\* The snapshot callback of a video service: with old subscribers around it
\* bails out, and the service starts over with a new encoder for all of them
\* (bail!("SWITCH")); otherwise it does nothing at all.
RestartSnapshot(s) ==
  /\ At(s, "snapshot") /\ s \in Restarting
  /\ IF subscribes[s] # {}
       THEN /\ cached' = [cached EXCEPT ![s] = AfterSwitch(s)]
            /\ Goto(s, "dropErr")
            /\ UNCHANGED late
       ELSE /\ Goto(s, "drop")
            /\ late' = [late EXCEPT ![s] = @ \cup new_subscribes[s]]
            /\ UNCHANGED cached
  /\ UNCHANGED <<present, subscribes, new_subscribes, active, source, known, fails>>

\* ServiceInner::swap_new_subscribes
SwappedBug(s) == subscribes[s]
Swapped(s) == subscribes[s] \cup new_subscribes[s]

\* ServiceSwap::drop, on the way out of the callback, with or without an error.
Swap(s) ==
  /\ At(s, "drop") \/ At(s, "dropErr")
  /\ subscribes' = [subscribes EXCEPT ![s] = Swapped(s)]
  /\ new_subscribes' = [new_subscribes EXCEPT ![s] = {}]
  /\ Goto(s, IF pc[s] = "drop" THEN AfterSnapshot(s) ELSE "fail")
  /\ UNCHANGED <<present, active, source, cached, known, late, fails>>

\* The sleep after an error is over.
Recover(s) ==
  /\ At(s, "fail")
  /\ Goto(s, "loop")
  /\ UNCHANGED <<present, subscribes, new_subscribes, active, source, cached,
                 known, late, fails>>

Thread(s) ==
  \/ Iterate(s) \/ Reset(s) \/ Exit(s) \/ Broadcast(s) \/ CallbackFails(s)
  \/ CheckSnapshot(s) \/ SendSnapshot(s) \/ RestartSnapshot(s)
  \/ Swap(s) \/ Recover(s)

\* The world changes: the user moves to another cursor, plugs a monitor, ...
SourceChanges(s) ==
  /\ s \in present /\ source[s] < MaxVersion
  /\ source' = [source EXCEPT ![s] = @ + 1]
  /\ UNCHANGED <<present, subscribes, new_subscribes, active, pc, cached,
                 known, late, fails>>
=============================================================================
