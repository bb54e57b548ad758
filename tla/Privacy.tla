------------------------------ MODULE Privacy ------------------------------
(***************************************************************************)
(* privacy_mode.rs and privacy_mode/win_*.rs: a connection turns the       *)
(* screens of the controlled machine dark and blocks its local input.      *)
(* PRIVACY_MODE holds the one implementation in use and, in it, the one    *)
(* connection that has the mode.  Whatever is done to it is done under its *)
(* lock, but a connection looks and acts under separate ones, and turning  *)
(* on may go on in a thread after the connection stopped waiting for it.   *)
(*                                                                         *)
(* Two implementations exist on Windows: one covers the screens with a     *)
(* window (both of win_mag and win_exclude_from_capture), the other one    *)
(* switches them off in favour of a virtual display.  The operating system *)
(* is external: what turning on asks of it fails or does not.              *)
(***************************************************************************)
EXTENDS Naturals, FiniteSets

CONSTANTS
  Peers,        \* connections of remote control
  InvalidConn,  \* INVALID_PRIVACY_MODE_CONN_ID
  MaxLate       \* threads at a time that nobody waits for

ASSUME PrivacyAssumption == InvalidConn \notin Peers /\ MaxLate \in Nat

VARIABLES
  impl,         \* the key of the implementation in use
  owner,        \* its conn_id
  hookThread,   \* the thread of the input hooks (CUR_HOOK_THREAD_ID): none, on,
                \* or told to exit
  pressed,      \* it has met Ctrl+P and waits for the lock
  loop,         \* where a connection is
  asked,        \* the implementation it asked for
  threads,      \* threads of turn_on_privacy_async nobody waits for any more
  notices,         \* Off messages under way to it from the connection manager
  shown,        \* config.privacy_mode of the peer
  deprived,     \* connections that lost the mode without a word (history)
  excuse        \* why the owner may not know that it has the mode (history):
                \* a late thread, or an Off message that came after its turning on

modeVars == <<impl, owner, hookThread, pressed>>
peerSideVars == <<notices, shown>>
privacyHistory == <<deprived, excuse>>
privacyVars == <<modeVars, loop, asked, threads, peerSideVars, privacyHistory>>

Impls == {"window", "display"}
Stages == {"new", "checked", "open", "waiting", "granted", "refused", "revoking", "plugin",
           "ending", "leaving", "resetting", "gone"}
There == {c \in Peers : loop[c] \in {"open", "waiting", "granted", "refused", "revoking", "plugin"}}

PrivacyTypeOK ==
  /\ impl \in Impls /\ owner \in Peers \cup {InvalidConn}
  /\ hookThread \in {"none", "on", "exiting"} /\ pressed \in BOOLEAN
  /\ pressed => hookThread # "none"
  /\ loop \in [Peers -> Stages] /\ asked \in [Peers -> Impls]
  /\ threads \subseteq Peers \X Impls
  /\ notices \in [Peers -> BOOLEAN] /\ shown \in [Peers -> BOOLEAN]
  /\ deprived \subseteq Peers /\ excuse \in {"none", "late", "overtaken"}

PrivacyInit ==
  /\ impl \in Impls /\ owner = InvalidConn
  /\ hookThread = "none" /\ pressed = FALSE
  /\ loop = [c \in Peers |-> "new"] /\ asked = [c \in Peers |-> "window"]
  /\ threads = {}
  /\ notices = [c \in Peers |-> FALSE] /\ shown = [c \in Peers |-> FALSE]
  /\ deprived = {} /\ excuse = "none"

Stage(c, s) == loop' = [loop EXCEPT ![c] = s]

-----------------------------------------------------------------------------
(* Under the lock of PRIVACY_MODE.                                         *)

\* win_input::unhook posts a message to it
Unhooked == IF hookThread = "on" THEN "exiting" ELSE hookThread

\* Whoever has the mode and will go on showing it if it is not told.
Unaware == {c \in There : c = owner /\ (shown[c] \/ loop[c] = "granted")}

\* check_off_conn_id
MayTurnOff(id) == owner = InvalidConn \/ id = InvalidConn \/ owner = id

\* turn_off_privacy of either implementation; whoever has the mode is told, or
\* told by his own loop, or not at all
TurnOff(id, told) ==
  IF MayTurnOff(id)
    THEN /\ hookThread' = Unhooked
         /\ owner' = InvalidConn
         /\ deprived' = IF told THEN deprived ELSE deprived \cup Unaware
         /\ excuse' = "none"
         /\ UNCHANGED impl
    ELSE UNCHANGED <<impl, owner, hookThread, privacyHistory>>

\* check_on_conn_id, and the same implementation: nothing to do
AlreadyOn(c, key) == owner = c /\ impl = key
Occupied(c) == owner \notin {c, InvalidConn}

\* turn_on_privacy_sync, up to the call of the implementation: another one
\* takes the place of the one in use, which is cleared; while the new one
\* prepares, the thread of the hooks may be done.
Replaced(key) ==
  LET left == IF impl # key THEN Unhooked ELSE hookThread IN
  {left} \cup IF left = "exiting" /\ ~pressed THEN {"none"} ELSE {}

\* turn_on_privacy of the implementation: the window is not there without its
\* hooks ("Already hooked"), while the switched-off screens go without them.
TurnedOn(c, key) ==
  /\ \E left \in Replaced(key) :
       \/ left = "none" /\ hookThread' = "on"
       \/ key = "display" /\ hookThread' = left
  /\ impl' = key /\ owner' = c
  /\ deprived' = deprived \ {c}

\* It fails, in the window's case for want of its library (then with a result of
\* its own), a window or the hooks; TurnOnGuard undoes what was done.
NotTurnedOn(key, told) ==
  /\ hookThread' \in Replaced(key)
  /\ impl' = key /\ owner' = InvalidConn
  /\ deprived' = IF told THEN deprived ELSE deprived \cup Unaware
  /\ excuse' = "none"

\* turn_on_privacy_sync, in the thread of a connection that hears the result:
\* Ok(true), Ok(false) or Err; or in one nobody waits for.
TurnOn(c, key, result, heard) ==
  \/ /\ \/ AlreadyOn(c, key) /\ result = "granted"
        \/ Occupied(c) /\ result = "refused"
     /\ UNCHANGED <<impl, owner, hookThread, privacyHistory>>
  \/ /\ ~AlreadyOn(c, key) /\ ~Occupied(c)
     /\ \/ /\ result = "granted" /\ TurnedOn(c, key)
           /\ excuse' = IF heard THEN "none" ELSE "late"
        \/ /\ result \in IF key = "window" THEN {"refused", "plugin"} ELSE {"refused"}
           /\ NotTurnedOn(key, heard)

-----------------------------------------------------------------------------
(* The thread of the hooks.                                                *)

\* Somebody at the machine presses Ctrl+P, as long as the thread lives.
Press ==
  /\ hookThread # "none" /\ ~pressed
  /\ pressed' = TRUE
  /\ UNCHANGED <<impl, owner, hookThread, loop, asked, threads, peerSideVars, privacyHistory>>

\* privacy_mode_hook_keyboard turns the mode off, whoever has it, and by way of
\* the connection manager tells all connections, if that can be reached.
TurnOffPressed ==
  /\ pressed /\ pressed' = FALSE
  /\ \E told \in BOOLEAN :
       /\ TurnOff(InvalidConn, told)
       /\ notices' = IF told /\ owner # InvalidConn THEN [c \in Peers |-> notices[c] \/ c \in There]
                                                 ELSE notices
  /\ UNCHANGED <<loop, asked, threads, shown>>

HookExits ==
  /\ hookThread = "exiting" /\ ~pressed
  /\ hookThread' = "none"
  /\ UNCHANGED <<impl, owner, pressed, loop, asked, threads, peerSideVars, privacyHistory>>

-----------------------------------------------------------------------------
(* A connection.                                                           *)

\* check_privacy_mode_on: nobody is let in while somebody has the mode.
Checks(c) ==
  /\ loop[c] = "new" /\ owner = InvalidConn
  /\ Stage(c, "checked")
  /\ UNCHANGED <<modeVars, asked, threads, peerSideVars, privacyHistory>>
LetIn(c) ==
  /\ loop[c] = "checked" /\ Stage(c, "open")
  /\ UNCHANGED <<modeVars, asked, threads, peerSideVars, privacyHistory>>

\* handle_back_msg_privacy_mode of the peer
TellPeer(c, on) ==
  /\ shown' = [shown EXCEPT ![c] = on]
  /\ UNCHANGED notices

\* toggle_privacy_mode, on: in this thread or, as the implementation in use says,
\* in another one.
AskOn(c) ==
  /\ loop[c] = "open"
  /\ \E key \in Impls :
       \/ /\ impl = "display"
          /\ Stage(c, "waiting") /\ asked' = [asked EXCEPT ![c] = key]
          /\ UNCHANGED <<modeVars, privacyHistory>>
       \/ /\ impl # "display"
          /\ \E result \in {"granted", "refused", "plugin"} :
               TurnOn(c, key, result, TRUE) /\ Stage(c, result)
          /\ UNCHANGED <<pressed, asked>>
  /\ UNCHANGED <<threads, peerSideVars>>

\* turn_on_privacy_async: the thread is done in time ...
ThreadDone(c) ==
  /\ loop[c] = "waiting"
  /\ \E result \in {"granted", "refused", "plugin"} :
       TurnOn(c, asked[c], result, TRUE) /\ Stage(c, result)
  /\ asked' = [asked EXCEPT ![c] = "window"]
  /\ UNCHANGED <<pressed, threads, peerSideVars>>

\* ... or after 7.5 seconds nobody waits for it any more, ...
WaitTimesOut(c) ==
  /\ loop[c] = "waiting" /\ Stage(c, "refused")
  /\ Cardinality(threads) < MaxLate
  /\ threads' = threads \cup {<<c, asked[c]>>}
  /\ asked' = [asked EXCEPT ![c] = "window"]
  /\ UNCHANGED <<modeVars, peerSideVars, privacyHistory>>

\* ... and it turns the mode on or does not.
LateThread(c, key) ==
  /\ <<c, key>> \in threads
  /\ \E result \in {"granted", "refused", "plugin"} : TurnOn(c, key, result, FALSE)
  /\ threads' = threads \ {<<c, key>>}
  /\ UNCHANGED <<pressed, loop, asked, peerSideVars>>

-----------------------------------------------------------------------------
\* The rest of Connection::turn_on_privacy: the mode is on, ...
Granted(c) ==
  /\ loop[c] = "granted" /\ Stage(c, "open")
  /\ TellPeer(c, TRUE)
  /\ UNCHANGED <<modeVars, asked, threads, privacyHistory>>

\* ... or nothing can be captured with it (check_privacy_mode_err) ...
CannotCapture(c) ==
  /\ loop[c] = "granted" /\ impl = "window"
  /\ TurnOff(c, TRUE)
  /\ Stage(c, "open") /\ TellPeer(c, FALSE)
  /\ UNCHANGED <<pressed, asked, threads>>

\* ... or there is no plug-in, ...
NoPlugin(c) ==
  /\ loop[c] = "plugin" /\ Stage(c, "open")
  /\ TellPeer(c, FALSE)
  /\ UNCHANGED <<modeVars, asked, threads, privacyHistory>>

\* ... or it failed: what is on now is turned off, whoever has it.
AfterRefusalBug(c) == "open"
AfterRefusal(c) == IF owner # InvalidConn THEN "revoking" ELSE "open"
Refused(c) ==
  /\ loop[c] = "refused"
  /\ Stage(c, AfterRefusal(c))
  /\ IF AfterRefusal(c) = "open" THEN TellPeer(c, FALSE) ELSE UNCHANGED peerSideVars
  /\ UNCHANGED <<modeVars, asked, threads, privacyHistory>>
Revoke(c) ==
  /\ loop[c] = "revoking" /\ Stage(c, "open")
  /\ TurnOff(InvalidConn, owner = c)
  /\ TellPeer(c, FALSE)
  /\ UNCHANGED <<pressed, asked, threads>>

\* toggle_privacy_mode, off
AskOff(c) ==
  /\ loop[c] = "open"
  /\ TurnOff(c, TRUE)
  /\ IF MayTurnOff(c) THEN TellPeer(c, FALSE) ELSE UNCHANGED peerSideVars
  /\ UNCHANGED <<pressed, loop, asked, threads>>

\* The connection manager's message arrives.
Notice(c) ==
  /\ loop[c] = "open" /\ notices[c]
  /\ notices' = [notices EXCEPT ![c] = FALSE] /\ shown' = [shown EXCEPT ![c] = FALSE]
  /\ excuse' = IF owner = c THEN "overtaken" ELSE excuse
  /\ UNCHANGED <<modeVars, loop, asked, threads, deprived>>

\* The loop ends: is the mode that of this connection? ...
AfterLoopBug(c) == "leaving"
AfterLoop(c) == IF owner = c THEN "ending" ELSE "leaving"
LoopEnds(c) ==
  /\ loop[c] = "open"
  /\ Stage(c, AfterLoop(c))
  /\ notices' = [notices EXCEPT ![c] = FALSE] /\ shown' = [shown EXCEPT ![c] = FALSE]
  /\ deprived' = deprived \ {c}
  /\ UNCHANGED <<modeVars, asked, threads, excuse>>
\* ... then off with it.
EndMode(c) ==
  /\ loop[c] = "ending" /\ Stage(c, "leaving")
  /\ TurnOff(c, TRUE)
  /\ UNCHANGED <<pressed, asked, threads, peerSideVars>>

\* The guard is dropped: with the last one of remote control, reset_all turns the
\* mode off, whoever has it by then.
Authed == {c \in Peers : loop[c] \notin {"new", "checked", "resetting", "gone"}}
DropGuard(c) ==
  /\ loop[c] = "leaving"
  /\ Stage(c, IF Authed = {c} THEN "resetting" ELSE "gone")
  /\ UNCHANGED <<modeVars, asked, threads, peerSideVars, privacyHistory>>
ResetAll(c) ==
  /\ loop[c] = "resetting" /\ Stage(c, "gone")
  /\ TurnOff(InvalidConn, owner \notin There)
  /\ UNCHANGED <<pressed, asked, threads, peerSideVars>>

\* The option of the implementation is set (switch): the old one is dropped, and
\* on the way turned off.
SwitchImpl(key) ==
  /\ impl # key /\ impl' = key
  /\ hookThread' = IF owner # InvalidConn THEN Unhooked ELSE hookThread
  /\ owner' = InvalidConn
  /\ deprived' = deprived \cup Unaware
  /\ excuse' = "none"
  /\ UNCHANGED <<pressed, loop, asked, threads, peerSideVars>>

-----------------------------------------------------------------------------
PrivacyNext ==
  \/ Press \/ TurnOffPressed \/ HookExits
  \/ \E c \in Peers :
       \/ Checks(c) \/ LetIn(c) \/ AskOn(c) \/ AskOff(c)
       \/ ThreadDone(c) \/ WaitTimesOut(c)
       \/ Granted(c) \/ CannotCapture(c) \/ NoPlugin(c) \/ Refused(c) \/ Revoke(c)
       \/ Notice(c) \/ LoopEnds(c) \/ EndMode(c) \/ DropGuard(c) \/ ResetAll(c)
  \/ \E c \in Peers, key \in Impls : LateThread(c, key)
  \/ \E key \in Impls : SwitchImpl(key)

PrivacySpec == PrivacyInit /\ [][PrivacyNext]_privacyVars
-----------------------------------------------------------------------------
(* Properties.                                                             *)

\* The machine is given back: its local input is not blocked but for somebody
\* who has the mode, and whoever has it is there to turn it off again, or just
\* does, unless a thread nobody waited for turned it on.
MachineFreed ==
  /\ hookThread = "on" => owner # InvalidConn
  /\ owner # InvalidConn => loop[owner] = "ending" \/ owner \in There \/ excuse = "late"

\* The peer of a connection shows the mode when it has it and only then, whatever
\* failed or interfered, but for the ways the code has to take it or to give
\* it without a word.
PeerKnows ==
  \A c \in Peers : loop[c] = "open" /\ ~notices[c] =>
    /\ shown[c] => owner = c \/ c \in deprived
    /\ owner = c => shown[c] \/ excuse # "none"
=============================================================================
