------------------------------- MODULE Authed -------------------------------
(***************************************************************************)
(* server/connection.rs, mod raii: AuthedConnID, the guard a connection    *)
(* holds from its login to its end, and what the guards do to the machine  *)
(* when connections come and go: the wake lock, the wallpaper, the screen  *)
(* resolutions and the users of VIDEO_QOS.                                 *)
(*                                                                         *)
(* AUTHED_CONNS is locked anew for every push, retain and count, and what  *)
(* a count decides is done after its lock was released, so the starts and  *)
(* the ends of several connections interleave step by step.                *)
(***************************************************************************)
EXTENDS Naturals, Sequences, FiniteSets

CONSTANTS
  Conns,        \* connections, each of which logs in once
  Resizables,   \* displays whose resolution can be changed
  Kinds,        \* AuthConnType: those that occur
  MaxChanges,   \* bound: resolution changes asked for
  MaxQueue      \* bound: messages the wake lock thread is behind

ASSUME AuthedAssumption ==
  /\ IsFiniteSet(Conns)
  /\ Kinds \subseteq {"Remote", "ViewCamera", "FileTransfer", "PortForward", "Terminal"}
  /\ MaxChanges \in Nat /\ MaxQueue \in Nat \ {0}

VARIABLES
  conn_type,    \* AuthConnType of a connection
  at,           \* where its task is
  authed,       \* AUTHED_CONNS
  counted,      \* the counts check_wake_lock has read for it
  changing,     \* the display whose resolution it is changing
  users,        \* VIDEO_QOS.users
  queue,        \* the channel to the wake lock thread
  wakelock,     \* start_wakelock_thread: wakelock is Some
  display,      \* ... and keeps the display on, too
  last_display, \* ... last_display
  linux,        \* the platform, where a lock keeps the display on for good
  removed,      \* WALLPAPER_REMOVER is Some
  changed,      \* CHANGED_RESOLUTIONS
  altered,      \* displays that are not in their original resolution
  changes,      \* resolution changes so far
  stale,        \* the last counts sent were not those of that moment (history)
  lost          \* displays changed between a restore and its clear (history)

connVars == <<conn_type, at, authed, counted, changing, users>>
lockVars == <<queue, wakelock, display, last_display, linux>>
screenVars == <<removed, changed, altered, changes>>
authedVars == <<connVars, lockVars, screenVars, stale, lost>>

Watching == {"Remote", "ViewCamera"}
Checking == {"conns", "remotes", "send"}               \* check_wake_lock
Inside == {"users", "welcome", "on", "change", "retain"}
Leaving == {"reckon", "wallpaper", "restore", "clear"}
Locations == {"new", "gone"} \cup Checking \cup Inside \cup Leaving
NoDisplay == "none"
ASSUME DisplayAssumption == NoDisplay \notin Resizables

Remotes(conns) == {c \in conns : conn_type[c] = "Remote"}
Counts(conns) == <<Cardinality(conns), Cardinality(Remotes(conns))>>

AuthedTypeOK ==
  /\ conn_type \in [Conns -> Kinds]
  /\ at \in [Conns -> Locations]
  /\ authed \subseteq Conns
  /\ \A c \in Conns : at[c] \notin Checking => (c \in authed <=> at[c] \in Inside)
  /\ \A c \in Conns : counted[c] \in (0 .. Cardinality(Conns)) \X (0 .. Cardinality(Conns))
  /\ changing \in [Conns -> Resizables \cup {NoDisplay}]
  /\ \A c \in Conns : changing[c] # NoDisplay <=> at[c] = "change"
  /\ users \subseteq Conns
  /\ Len(queue) <= MaxQueue
  /\ {wakelock, display, last_display, linux, removed, stale} \subseteq BOOLEAN
  /\ changed \subseteq Resizables /\ altered \subseteq Resizables /\ lost \subseteq Resizables
  /\ changes \in 0 .. MaxChanges

AuthedInit ==
  /\ conn_type \in [Conns -> Kinds]
  /\ at = [c \in Conns |-> "new"]
  /\ authed = {} /\ users = {}
  /\ counted = [c \in Conns |-> <<0, 0>>]
  /\ changing = [c \in Conns |-> NoDisplay]
  /\ queue = <<>>
  /\ wakelock = FALSE /\ display = FALSE /\ last_display = FALSE
  /\ linux \in BOOLEAN
  /\ removed = FALSE /\ changed = {} /\ altered = {} /\ changes = 0
  /\ stale = FALSE /\ lost = {}

-----------------------------------------------------------------------------
(* The task of a connection.                                               *)

At(c, location) == at[c] = location
Goto(c, location) == at' = [at EXCEPT ![c] = location]

\* AuthedConnID::new: AUTHED_CONNS.lock().push(..)
Push(c) ==
  /\ At(c, "new")
  /\ authed' = authed \cup {c}
  /\ Goto(c, "conns")
  /\ UNCHANGED <<conn_type, counted, changing, users, lockVars, screenVars, stale, lost>>

\* check_wake_lock: two counts under two locks, then the message, under a third.
CountConns(c) ==
  /\ At(c, "conns")
  /\ counted' = [counted EXCEPT ![c][1] = Cardinality(authed)]
  /\ Goto(c, "remotes")
  /\ UNCHANGED <<conn_type, authed, changing, users, lockVars, screenVars, stale, lost>>

CountRemotes(c) ==
  /\ At(c, "remotes")
  /\ counted' = [counted EXCEPT ![c][2] = Cardinality(Remotes(authed))]
  /\ Goto(c, "send")
  /\ UNCHANGED <<conn_type, authed, changing, users, lockVars, screenVars, stale, lost>>

SendCounts(c) ==
  /\ At(c, "send") /\ Len(queue) < MaxQueue
  /\ queue' = Append(queue, counted[c])
  /\ stale' = (counted[c] # Counts(authed))
  /\ counted' = [counted EXCEPT ![c] = <<0, 0>>]
  /\ Goto(c, IF c \in authed THEN "users" ELSE "gone")
  /\ UNCHANGED <<conn_type, authed, changing, users, wakelock, display,
                 last_display, linux, screenVars, lost>>

\* VIDEO_QOS.on_connection_open
OpenUser(c) ==
  /\ At(c, "users")
  /\ users' = IF conn_type[c] \in Watching THEN users \cup {c} ELSE users
  /\ Goto(c, "welcome")
  /\ UNCHANGED <<conn_type, authed, counted, changing, lockVars, screenVars, stale, lost>>

\* The rest of send_logon_response; on_remote_authorized removes the wallpaper
\* if nobody has, unless the platform refuses (WallPaperRemover::new fails, the
\* option is off) or the login ends with an error before that.
Welcome(c) ==
  /\ At(c, "welcome")
  /\ removed' \in IF conn_type[c] = "Remote" THEN {removed, TRUE} ELSE {removed}
  /\ Goto(c, "on")
  /\ UNCHANGED <<conn_type, authed, counted, changing, users, lockVars, changed,
                 altered, changes, stale, lost>>

\* Some task has restored the resolutions and not yet cleared their record.
Clearing == \E k \in Conns : At(k, "clear")

\* change_resolution of a remote connection: it is recorded first ...
RecordResolution(c) ==
  /\ At(c, "on") /\ conn_type[c] = "Remote" /\ changes < MaxChanges
  /\ \E d \in Resizables :
       /\ changed' = changed \cup {d}
       /\ changing' = [changing EXCEPT ![c] = d]
       /\ lost' = IF Clearing THEN lost \cup {d} ELSE lost
  /\ changes' = changes + 1
  /\ Goto(c, "change")
  /\ UNCHANGED <<conn_type, authed, counted, users, lockVars, removed, altered, stale>>

\* ... and made then; the platform may refuse it.
ChangeResolution(c) ==
  /\ At(c, "change")
  /\ altered' \in {altered, altered \cup {changing[c]}}
  /\ changing' = [changing EXCEPT ![c] = NoDisplay]
  /\ lost' = IF Clearing THEN lost \cup {changing[c]} ELSE lost
  /\ Goto(c, "on")
  /\ UNCHANGED <<conn_type, authed, counted, users, lockVars, removed, changed,
                 changes, stale>>

\* who is no user of VIDEO_QOS any more when c is closed
ClosedUsersBug(c) == IF conn_type[c] = "Remote" THEN {c} ELSE {}
ClosedUsers(c) == IF conn_type[c] \in Watching THEN {c} ELSE {}

\* AuthedConnID::drop: Encoder::update(Remove) and on_connection_close first;
\* the connection can end as soon as it is logged in.
CloseUser(c) ==
  /\ At(c, "on")
  /\ users' = users \ ClosedUsers(c)
  /\ Goto(c, "retain")
  /\ UNCHANGED <<conn_type, authed, counted, changing, lockVars, screenVars, stale, lost>>

\* the connections retain(..) drops
Dropped(c) == {c}

\* ... then AUTHED_CONNS.retain(..)
Retain(c) ==
  /\ At(c, "retain")
  /\ authed' = authed \ Dropped(c)
  /\ Goto(c, "reckon")
  /\ UNCHANGED <<conn_type, counted, changing, users, lockVars, screenVars, stale, lost>>

\* where the end of a connection goes on after the count of the remote ones
LastOneOutBug == Cardinality(Remotes(authed)) = 1
LastOneOut == Remotes(authed) = {}

\* ... then remote_count, under a lock of its own; with none left the machine is
\* put back into its former state.
Reckon(c) ==
  /\ At(c, "reckon")
  /\ Goto(c, IF LastOneOut THEN "wallpaper" ELSE "conns")
  /\ UNCHANGED <<conn_type, authed, counted, changing, users, lockVars, screenVars,
                 stale, lost>>

\* *WALLPAPER_REMOVER.lock() = None: its drop sets the old wallpaper.
ResetWallpaper(c) ==
  /\ At(c, "wallpaper")
  /\ removed' = FALSE
  /\ Goto(c, "restore")
  /\ UNCHANGED <<conn_type, authed, counted, changing, users, lockVars, changed,
                 altered, changes, stale, lost>>

\* what restore_resolutions puts back
Restored == altered \cap changed

\* restore_resolutions: the loop, under the read lock of CHANGED_RESOLUTIONS ...
RestoreResolutions(c) ==
  /\ At(c, "restore")
  /\ altered' = altered \ Restored
  /\ Goto(c, "clear")
  /\ UNCHANGED <<conn_type, authed, counted, changing, users, lockVars, removed,
                 changed, changes, stale, lost>>

\* ... and the clear, under the write lock; a display whose change is still to
\* come loses its record, too.
ClearResolutions(c) ==
  /\ At(c, "clear")
  /\ changed' = {}
  /\ lost' = lost \cup ({changing[k] : k \in Conns} \ {NoDisplay})
  /\ Goto(c, "conns")
  /\ UNCHANGED <<conn_type, authed, counted, changing, users, lockVars, removed,
                 altered, changes, stale>>

-----------------------------------------------------------------------------
(* start_wakelock_thread.                                                  *)

\* The lock is dropped when no connection is left ...
NobodyLeft(counts) == counts[1] = 0
\* ... and keeps the display on while a remote one is there.
DisplayOnBug(counts) == counts[2] > 1
DisplayOn(counts) == counts[2] > 0

Receive ==
  /\ queue # <<>>
  /\ LET counts == Head(queue) IN
       IF NobodyLeft(counts)
         THEN /\ wakelock' = FALSE
              /\ display' = FALSE
              /\ UNCHANGED last_display
         ELSE /\ wakelock' = TRUE
              /\ \/ /\ wakelock /\ DisplayOn(counts) # last_display /\ ~linux
                    /\ display' = DisplayOn(counts)
                 \/ /\ wakelock /\ (DisplayOn(counts) = last_display \/ linux)
                    /\ UNCHANGED display
                 \/ /\ ~wakelock
                    /\ display' = (DisplayOn(counts) \/ linux)
              /\ last_display' = IF wakelock THEN DisplayOn(counts) ELSE display'
  /\ queue' = Tail(queue)
  /\ UNCHANGED <<connVars, linux, screenVars, stale, lost>>

-----------------------------------------------------------------------------
Task(c) ==
  \/ Push(c) \/ CountConns(c) \/ CountRemotes(c) \/ SendCounts(c)
  \/ OpenUser(c) \/ Welcome(c) \/ RecordResolution(c) \/ ChangeResolution(c)
  \/ CloseUser(c) \/ Retain(c) \/ Reckon(c) \/ ResetWallpaper(c)
  \/ RestoreResolutions(c) \/ ClearResolutions(c)

\* Everybody has gone and the thread waits for connections to come.
Idle ==
  /\ \A c \in Conns : At(c, "gone")
  /\ queue = <<>>
  /\ UNCHANGED authedVars

AuthedNext == (\E c \in Conns : Task(c)) \/ Receive \/ Idle

AuthedSpec == AuthedInit /\ [][AuthedNext]_authedVars
-----------------------------------------------------------------------------
(* Properties.                                                             *)

\* Nobody is on its way in or out, and the thread has read all messages.
Settled == queue = <<>> /\ \A c \in Conns : at[c] \in {"new", "on", "change", "gone"}

\* The wake lock is what the connections call for once they have settled,
\* however their checks interleaved, unless the very last message was counted
\* before another connection came or went (check_wake_lock counts and sends
\* under different locks).
WakeLockFollows ==
  Settled /\ ~stale =>
    /\ wakelock = (authed # {})
    /\ Remotes(authed) # {} => display
    /\ ~linux /\ Remotes(authed) = {} => ~display

\* The wallpaper is back when no remote connection is left and the ends under
\* way have come past the wallpaper, whoever removed it and however many
\* connections end at once.
WallpaperRestored ==
  Remotes(authed) = {} /\ (\A c \in Conns : at[c] \notin {"reckon", "wallpaper"})
    => ~removed

\* So are the resolutions: every change is undone when the last remote
\* connection has gone, but for those the clearing of the record overtook.
ResolutionsRestored ==
  Remotes(authed) = {} /\ (\A c \in Conns : at[c] \notin Leaving)
    => altered \subseteq lost

\* The machine is left as it was found.
LeftAsFound == WallpaperRestored /\ ResolutionsRestored

\* VIDEO_QOS has no users but authorised connections that watch: nobody's
\* entry outlives its guard, so the bitrate adapts to those present.
UsersAreAuthed == users \subseteq {c \in authed : conn_type[c] \in Watching}

\* What restore_resolutions says of its clear(): "Can be cleared because restore
\* resolutions is called when there is no client connected".
ClearedWhenNobodyConnected ==
  [][\A c \in Conns : ClearResolutions(c) => Remotes(authed) = {}]_authedVars
=============================================================================
