---------------------------- MODULE AuthedProofs ----------------------------
(***************************************************************************)
(* What the guards of the connections do to the machine, for any number of *)
(* connections and displays: the wallpaper and the resolutions come back,  *)
(* and VIDEO_QOS keeps no user whose guard is gone.                        *)
(*                                                                         *)
(* For those no count is compared with another one; all that matters is    *)
(* whether a remote connection is left, and who is still on its way out.   *)
(* The wake lock does go by the counts, and is treated by itself.          *)
(***************************************************************************)
EXTENDS Authed, FiniteSetTheorems, SequenceTheorems, TLAPS

\* The part of AuthedTypeOK the properties depend on.
Shape ==
  /\ conn_type \in [Conns -> Kinds]
  /\ at \in [Conns -> Locations]
  /\ authed \subseteq Conns
  /\ \A c \in Conns : at[c] \notin Checking => (c \in authed <=> at[c] \in Inside)
  /\ changing \in [Conns -> Resizables \cup {NoDisplay}]
  /\ \A c \in Conns : changing[c] # NoDisplay <=> at[c] = "change"

\* Every altered display is on record or lost, also those about to be altered,
\* ...
AlteredRecorded ==
  /\ altered \subseteq changed \cup lost
  /\ \A c \in Conns : changing[c] # NoDisplay => changing[c] \in changed \cup lost

\* ... what is about to be cleared has been restored, but for the lost ones,
\* ...
RestoredBeforeClear ==
  Clearing => altered \cap changed \subseteq lost

\* ... and somebody is there to clear the record.
RecordIsOwned ==
  \/ changed = {}
  \/ Remotes(authed) # {}
  \/ \E c \in Conns : at[c] \in Leaving

\* UsersAreAuthed, and an ending connection has closed its user before it leaves
\* AUTHED_CONNS.
UsersClosedFirst ==
  /\ UsersAreAuthed
  /\ \A c \in Conns : at[c] = "retain" => c \notin users

AuthedInv ==
  /\ Shape
  /\ WallpaperRestored
  /\ AlteredRecorded
  /\ RestoredBeforeClear
  /\ RecordIsOwned
  /\ UsersClosedFirst

-----------------------------------------------------------------------------
LEMMA AuthedBegins == AuthedInit => AuthedInv
BY DisplayAssumption DEF AuthedInit, AuthedInv, Shape, WallpaperRestored, AlteredRecorded,
   RestoredBeforeClear, RecordIsOwned, UsersClosedFirst, UsersAreAuthed, Clearing, At,
   Locations, Checking, Inside, Leaving, Remotes

\* One step per action of a connection, and under it one per conjunct.
LEMMA TaskInv ==
  ASSUME AuthedInv, NEW c \in Conns, Task(c)
  PROVE  AuthedInv'
<1> USE DisplayAssumption DEF AuthedInv, At, Goto
<1>1. CASE Push(c)
  <2> USE <1>1 DEF Push
  <2>1. Shape'
    BY DEF Shape, Locations, Checking, Inside, Leaving
  <2>2. WallpaperRestored'
    BY DEF Shape, WallpaperRestored, Remotes, lockVars, screenVars, Checking, Inside, Leaving
  <2>3. AlteredRecorded'
    BY DEF Shape, AlteredRecorded, RestoredBeforeClear, Clearing, lockVars, screenVars
  <2>4. RestoredBeforeClear'
    BY DEF Shape, RestoredBeforeClear, Clearing, lockVars, screenVars
  <2>5. RecordIsOwned'
    BY DEF Shape, RecordIsOwned, Remotes, lockVars, screenVars, Checking, Inside, Leaving
  <2>6. UsersClosedFirst'
    BY DEF Shape, UsersClosedFirst, UsersAreAuthed, lockVars, screenVars, Watching, Checking, Inside, Leaving
  <2> QED BY <2>1, <2>2, <2>3, <2>4, <2>5, <2>6
<1>2. CASE CountConns(c)
  <2> USE <1>2 DEF CountConns
  <2>1. Shape'
    BY DEF Shape, Locations, Checking, Inside, Leaving
  <2>2. WallpaperRestored'
    BY DEF Shape, WallpaperRestored, Remotes, lockVars, screenVars, Checking, Inside, Leaving
  <2>3. AlteredRecorded'
    BY DEF Shape, AlteredRecorded, RestoredBeforeClear, Clearing, lockVars, screenVars
  <2>4. RestoredBeforeClear'
    BY DEF Shape, RestoredBeforeClear, Clearing, lockVars, screenVars
  <2>5. RecordIsOwned'
    BY DEF Shape, RecordIsOwned, Remotes, lockVars, screenVars, Checking, Inside, Leaving
  <2>6. UsersClosedFirst'
    BY DEF Shape, UsersClosedFirst, UsersAreAuthed, lockVars, screenVars, Watching, Checking, Inside, Leaving
  <2> QED BY <2>1, <2>2, <2>3, <2>4, <2>5, <2>6
<1>3. CASE CountRemotes(c)
  <2> USE <1>3 DEF CountRemotes
  <2>1. Shape'
    BY DEF Shape, Locations, Checking, Inside, Leaving
  <2>2. WallpaperRestored'
    BY DEF Shape, WallpaperRestored, Remotes, lockVars, screenVars, Checking, Inside, Leaving
  <2>3. AlteredRecorded'
    BY DEF Shape, AlteredRecorded, RestoredBeforeClear, Clearing, lockVars, screenVars
  <2>4. RestoredBeforeClear'
    BY DEF Shape, RestoredBeforeClear, Clearing, lockVars, screenVars
  <2>5. RecordIsOwned'
    BY DEF Shape, RecordIsOwned, Remotes, lockVars, screenVars, Checking, Inside, Leaving
  <2>6. UsersClosedFirst'
    BY DEF Shape, UsersClosedFirst, UsersAreAuthed, lockVars, screenVars, Watching, Checking, Inside, Leaving
  <2> QED BY <2>1, <2>2, <2>3, <2>4, <2>5, <2>6
<1>4. CASE SendCounts(c)
  <2> USE <1>4 DEF SendCounts
  <2>1. Shape'
    BY DEF Shape, Locations, Checking, Inside, Leaving
  <2>2. WallpaperRestored'
    BY DEF Shape, WallpaperRestored, Remotes, lockVars, screenVars, Checking, Inside, Leaving
  <2>3. AlteredRecorded'
    BY DEF Shape, AlteredRecorded, RestoredBeforeClear, Clearing, lockVars, screenVars
  <2>4. RestoredBeforeClear'
    BY DEF Shape, RestoredBeforeClear, Clearing, lockVars, screenVars
  <2>5. RecordIsOwned'
    BY DEF Shape, RecordIsOwned, Remotes, lockVars, screenVars, Checking, Inside, Leaving
  <2>6. UsersClosedFirst'
    BY DEF Shape, UsersClosedFirst, UsersAreAuthed, lockVars, screenVars, Watching, Checking, Inside, Leaving
  <2> QED BY <2>1, <2>2, <2>3, <2>4, <2>5, <2>6
<1>5. CASE OpenUser(c)
  <2> USE <1>5 DEF OpenUser
  <2>1. Shape'
    BY DEF Shape, Locations, Checking, Inside, Leaving
  <2>2. WallpaperRestored'
    BY DEF Shape, WallpaperRestored, Remotes, lockVars, screenVars, Checking, Inside, Leaving
  <2>3. AlteredRecorded'
    BY DEF Shape, AlteredRecorded, RestoredBeforeClear, Clearing, lockVars, screenVars
  <2>4. RestoredBeforeClear'
    BY DEF Shape, RestoredBeforeClear, Clearing, lockVars, screenVars
  <2>5. RecordIsOwned'
    BY DEF Shape, RecordIsOwned, Remotes, lockVars, screenVars, Checking, Inside, Leaving
  <2>6. UsersClosedFirst'
    BY DEF Shape, UsersClosedFirst, UsersAreAuthed, lockVars, screenVars, Watching, Checking, Inside, Leaving
  <2> QED BY <2>1, <2>2, <2>3, <2>4, <2>5, <2>6
<1>6. CASE Welcome(c)
  <2> USE <1>6 DEF Welcome
  <2>1. Shape'
    BY DEF Shape, Locations, Checking, Inside, Leaving
  <2>2. WallpaperRestored'
    BY DEF Shape, WallpaperRestored, Remotes, lockVars, screenVars, Checking, Inside, Leaving
  <2>3. AlteredRecorded'
    BY DEF Shape, AlteredRecorded, RestoredBeforeClear, Clearing, lockVars, screenVars
  <2>4. RestoredBeforeClear'
    BY DEF Shape, RestoredBeforeClear, Clearing, lockVars, screenVars
  <2>5. RecordIsOwned'
    BY DEF Shape, RecordIsOwned, Remotes, lockVars, screenVars, Checking, Inside, Leaving
  <2>6. UsersClosedFirst'
    BY DEF Shape, UsersClosedFirst, UsersAreAuthed, lockVars, screenVars, Watching, Checking, Inside, Leaving
  <2> QED BY <2>1, <2>2, <2>3, <2>4, <2>5, <2>6
<1>7. CASE RecordResolution(c)
  <2> USE <1>7 DEF RecordResolution, Clearing
  <2>1. Shape'
    BY DEF Shape, Locations, Checking, Inside, Leaving
  <2>2. WallpaperRestored'
    BY DEF Shape, WallpaperRestored, Remotes, lockVars, screenVars, Checking, Inside, Leaving
  <2>3. AlteredRecorded'
    BY DEF Shape, AlteredRecorded, RestoredBeforeClear, Clearing, lockVars, screenVars
  <2>4. RestoredBeforeClear'
    BY DEF Shape, RestoredBeforeClear, Clearing, lockVars, screenVars
  <2>5. RecordIsOwned'
    BY DEF Shape, RecordIsOwned, Remotes, lockVars, screenVars, Checking, Inside, Leaving
  <2>6. UsersClosedFirst'
    BY DEF Shape, UsersClosedFirst, UsersAreAuthed, lockVars, screenVars, Watching, Checking, Inside, Leaving
  <2> QED BY <2>1, <2>2, <2>3, <2>4, <2>5, <2>6
<1>8. CASE ChangeResolution(c)
  <2> USE <1>8 DEF ChangeResolution, Clearing
  <2>1. Shape'
    BY DEF Shape, Locations, Checking, Inside, Leaving
  <2>2. WallpaperRestored'
    BY DEF Shape, WallpaperRestored, Remotes, lockVars, screenVars, Checking, Inside, Leaving
  <2>3. AlteredRecorded'
    <3>1. altered' \subseteq altered \cup {changing[c]} /\ changed' = changed
      OBVIOUS
    <3>2. changing[c] \in changed \cup lost
      BY DEF Shape, AlteredRecorded
    <3>3. lost \subseteq lost'
      OBVIOUS
    <3>4. \A k \in Conns : changing'[k] = changing[k] \/ changing'[k] = NoDisplay
      BY DEF Shape
    <3> QED BY <3>1, <3>2, <3>3, <3>4 DEF AlteredRecorded
  <2>4. RestoredBeforeClear'
    BY DEF Shape, RestoredBeforeClear, Clearing, lockVars, screenVars
  <2>5. RecordIsOwned'
    BY DEF Shape, RecordIsOwned, Remotes, lockVars, screenVars, Checking, Inside, Leaving
  <2>6. UsersClosedFirst'
    BY DEF Shape, UsersClosedFirst, UsersAreAuthed, lockVars, screenVars, Watching, Checking, Inside, Leaving
  <2> QED BY <2>1, <2>2, <2>3, <2>4, <2>5, <2>6
<1>9. CASE CloseUser(c)
  <2> USE <1>9 DEF CloseUser, ClosedUsers
  <2>1. Shape'
    BY DEF Shape, Locations, Checking, Inside, Leaving
  <2>2. WallpaperRestored'
    BY DEF Shape, WallpaperRestored, Remotes, lockVars, screenVars, Checking, Inside, Leaving
  <2>3. AlteredRecorded'
    BY DEF Shape, AlteredRecorded, RestoredBeforeClear, Clearing, lockVars, screenVars
  <2>4. RestoredBeforeClear'
    BY DEF Shape, RestoredBeforeClear, Clearing, lockVars, screenVars
  <2>5. RecordIsOwned'
    BY DEF Shape, RecordIsOwned, Remotes, lockVars, screenVars, Checking, Inside, Leaving
  <2>6. UsersClosedFirst'
    BY DEF Shape, UsersClosedFirst, UsersAreAuthed, lockVars, screenVars, Watching, Checking, Inside, Leaving
  <2> QED BY <2>1, <2>2, <2>3, <2>4, <2>5, <2>6
<1>10. CASE Retain(c)
  <2> USE <1>10 DEF Retain, Dropped
  <2>1. Shape'
    BY DEF Shape, Locations, Checking, Inside, Leaving
  <2>2. WallpaperRestored'
    BY DEF Shape, WallpaperRestored, Remotes, lockVars, screenVars, Checking, Inside, Leaving
  <2>3. AlteredRecorded'
    BY DEF Shape, AlteredRecorded, RestoredBeforeClear, Clearing, lockVars, screenVars
  <2>4. RestoredBeforeClear'
    BY DEF Shape, RestoredBeforeClear, Clearing, lockVars, screenVars
  <2>5. RecordIsOwned'
    BY DEF Shape, RecordIsOwned, Remotes, lockVars, screenVars, Checking, Inside, Leaving
  <2>6. UsersClosedFirst'
    BY DEF Shape, UsersClosedFirst, UsersAreAuthed, lockVars, screenVars, Watching, Checking, Inside, Leaving
  <2> QED BY <2>1, <2>2, <2>3, <2>4, <2>5, <2>6
<1>11. CASE Reckon(c)
  <2> USE <1>11 DEF Reckon, LastOneOut
  <2>1. Shape'
    BY DEF Shape, Locations, Checking, Inside, Leaving
  <2>2. WallpaperRestored'
    BY DEF Shape, WallpaperRestored, Remotes, lockVars, screenVars, Checking, Inside, Leaving
  <2>3. AlteredRecorded'
    BY DEF Shape, AlteredRecorded, RestoredBeforeClear, Clearing, lockVars, screenVars
  <2>4. RestoredBeforeClear'
    BY DEF Shape, RestoredBeforeClear, Clearing, lockVars, screenVars
  <2>5. RecordIsOwned'
    BY DEF Shape, RecordIsOwned, Remotes, lockVars, screenVars, Checking, Inside, Leaving
  <2>6. UsersClosedFirst'
    BY DEF Shape, UsersClosedFirst, UsersAreAuthed, lockVars, screenVars, Watching, Checking, Inside, Leaving
  <2> QED BY <2>1, <2>2, <2>3, <2>4, <2>5, <2>6
<1>12. CASE ResetWallpaper(c)
  <2> USE <1>12 DEF ResetWallpaper
  <2>1. Shape'
    BY DEF Shape, Locations, Checking, Inside, Leaving
  <2>2. WallpaperRestored'
    BY DEF Shape, WallpaperRestored, Remotes, lockVars, screenVars, Checking, Inside, Leaving
  <2>3. AlteredRecorded'
    BY DEF Shape, AlteredRecorded, RestoredBeforeClear, Clearing, lockVars, screenVars
  <2>4. RestoredBeforeClear'
    BY DEF Shape, RestoredBeforeClear, Clearing, lockVars, screenVars
  <2>5. RecordIsOwned'
    BY DEF Shape, RecordIsOwned, Remotes, lockVars, screenVars, Checking, Inside, Leaving
  <2>6. UsersClosedFirst'
    BY DEF Shape, UsersClosedFirst, UsersAreAuthed, lockVars, screenVars, Watching, Checking, Inside, Leaving
  <2> QED BY <2>1, <2>2, <2>3, <2>4, <2>5, <2>6
<1>13. CASE RestoreResolutions(c)
  <2> USE <1>13 DEF RestoreResolutions, Restored
  <2>1. Shape'
    BY DEF Shape, Locations, Checking, Inside, Leaving
  <2>2. WallpaperRestored'
    BY DEF Shape, WallpaperRestored, Remotes, lockVars, screenVars, Checking, Inside, Leaving
  <2>3. AlteredRecorded'
    BY DEF Shape, AlteredRecorded, RestoredBeforeClear, Clearing, lockVars, screenVars
  <2>4. RestoredBeforeClear'
    BY DEF Shape, RestoredBeforeClear, Clearing, lockVars, screenVars
  <2>5. RecordIsOwned'
    BY DEF Shape, RecordIsOwned, Remotes, lockVars, screenVars, Checking, Inside, Leaving
  <2>6. UsersClosedFirst'
    BY DEF Shape, UsersClosedFirst, UsersAreAuthed, lockVars, screenVars, Watching, Checking, Inside, Leaving
  <2> QED BY <2>1, <2>2, <2>3, <2>4, <2>5, <2>6
<1>14. CASE ClearResolutions(c)
  <2> USE <1>14 DEF ClearResolutions
  <2>1. Shape'
    BY DEF Shape, Locations, Checking, Inside, Leaving
  <2>2. WallpaperRestored'
    BY DEF Shape, WallpaperRestored, Remotes, lockVars, screenVars, Checking, Inside, Leaving
  <2>3. AlteredRecorded'
    BY DEF Shape, AlteredRecorded, RestoredBeforeClear, Clearing, lockVars, screenVars
  <2>4. RestoredBeforeClear'
    BY DEF Shape, RestoredBeforeClear, Clearing, lockVars, screenVars
  <2>5. RecordIsOwned'
    BY DEF Shape, RecordIsOwned, Remotes, lockVars, screenVars, Checking, Inside, Leaving
  <2>6. UsersClosedFirst'
    BY DEF Shape, UsersClosedFirst, UsersAreAuthed, lockVars, screenVars, Watching, Checking, Inside, Leaving
  <2> QED BY <2>1, <2>2, <2>3, <2>4, <2>5, <2>6
<1> QED BY <1>1, <1>2, <1>3, <1>4, <1>5, <1>6, <1>7, <1>8, <1>9, <1>10, <1>11, <1>12, <1>13, <1>14 DEF Task

\* Steps that leave alone all the invariant speaks of.
LEMMA OtherInv ==
  ASSUME AuthedInv, UNCHANGED <<connVars, screenVars, lost>>
  PROVE  AuthedInv'
BY DEF AuthedInv, connVars, screenVars, Shape, WallpaperRestored, AlteredRecorded,
   RestoredBeforeClear, RecordIsOwned, UsersClosedFirst, UsersAreAuthed, Clearing, At,
   Remotes

LEMMA AuthedStep == AuthedInv /\ [AuthedNext]_authedVars => AuthedInv'
<1> SUFFICES ASSUME AuthedInv, [AuthedNext]_authedVars
             PROVE  AuthedInv'
  OBVIOUS
<1>1. ASSUME NEW c \in Conns, Task(c)
      PROVE  AuthedInv'
  BY <1>1, TaskInv
<1>2. CASE Receive
  BY <1>2, OtherInv DEF Receive
<1>3. CASE Idle
  BY <1>3, OtherInv DEF Idle, authedVars
<1>4. CASE UNCHANGED authedVars
  BY <1>4, OtherInv DEF authedVars
<1> QED BY <1>1, <1>2, <1>3, <1>4 DEF AuthedNext

THEOREM AuthedInvariance == AuthedSpec => []AuthedInv
BY AuthedBegins, AuthedStep, PTL DEF AuthedSpec

-----------------------------------------------------------------------------
\* The wallpaper comes back (AuthedConnID::drop, on_remote_authorized).
THEOREM WallpaperAlwaysRestored == AuthedSpec => []WallpaperRestored
<1>1. AuthedInv => WallpaperRestored
  BY DEF AuthedInv
<1> QED BY <1>1, AuthedInvariance, PTL

\* The resolutions come back (restore_resolutions, change_resolution).
THEOREM ResolutionsAlwaysRestored == AuthedSpec => []ResolutionsRestored
<1>1. AuthedInv => ResolutionsRestored
  BY DEF AuthedInv, ResolutionsRestored, RecordIsOwned, AlteredRecorded
<1> QED BY <1>1, AuthedInvariance, PTL

\* The machine is left as it was found (AuthedConnID::drop).
THEOREM AlwaysLeftAsFound == AuthedSpec => []LeftAsFound
<1>1. WallpaperRestored /\ ResolutionsRestored => LeftAsFound
  BY DEF LeftAsFound
<1> QED BY <1>1, WallpaperAlwaysRestored, ResolutionsAlwaysRestored, PTL

\* VIDEO_QOS has no users but authorised connections (AuthedConnID::new, drop).
THEOREM UsersAlwaysAuthed == AuthedSpec => []UsersAreAuthed
<1>1. AuthedInv => UsersAreAuthed
  BY DEF AuthedInv, UsersClosedFirst
<1> QED BY <1>1, AuthedInvariance, PTL
-----------------------------------------------------------------------------
(* The wake lock.  What the thread makes of a message depends on the one    *)
(* before; the counts of the last message are those of now unless they were *)
(* stale or somebody is between a push or retain and the next message.      *)

\* c has changed AUTHED_CONNS, or is about to, and has not sent its counts.
Between(c) == at[c] \in Checking \cup Leaving

\* The lock is what a message with these counts makes of it.
Matches(counts) ==
  /\ wakelock = ~NobodyLeft(counts)
  /\ wakelock /\ ~linux => display = DisplayOn(counts)

\* The types the thread depends on, and what last_display is good for.
LockShape ==
  /\ counted \in [Conns -> Nat \X Nat]
  /\ queue \in Seq(Nat \X Nat)
  /\ {wakelock, display, last_display, linux, stale} \subseteq BOOLEAN
  /\ ~wakelock => ~display
  /\ wakelock /\ linux => display
  /\ wakelock /\ ~linux => display = last_display

\* The last message, under way or received, told the counts of now.
LastCounted ==
  ~stale /\ (\A c \in Conns : ~Between(c)) =>
    IF queue = <<>> THEN Matches(Counts(authed)) ELSE queue[Len(queue)] = Counts(authed)

LockInv == LockShape /\ LastCounted

LEMMA CountsType ==
  ASSUME NEW conns \in SUBSET Conns
  PROVE  /\ Counts(conns) \in Nat \X Nat
         /\ NobodyLeft(Counts(conns)) <=> conns = {}
         /\ DisplayOn(Counts(conns)) <=> Remotes(conns) # {}
<1>1. IsFiniteSet(conns) /\ IsFiniteSet(Remotes(conns))
  BY AuthedAssumption, FS_Subset DEF Remotes
<1>2. Cardinality(conns) \in Nat /\ Cardinality(Remotes(conns)) \in Nat
  BY <1>1, FS_CardinalityType
<1>3. (Cardinality(conns) = 0 <=> conns = {}) /\ (Cardinality(Remotes(conns)) = 0 <=> Remotes(conns) = {})
  BY <1>1, FS_EmptySet
<1> QED BY <1>2, <1>3 DEF Counts, NobodyLeft, DisplayOn

\* The last element of a queue that grows, and of one that is read.
LEMMA LastOfAppend ==
  ASSUME NEW S, NEW s \in Seq(S), NEW e \in S
  PROVE  /\ Append(s, e) \in Seq(S) /\ Append(s, e) # <<>>
         /\ Append(s, e)[Len(Append(s, e))] = e
<1>1. Len(Append(s, e)) = Len(s) + 1 /\ Append(s, e) \in Seq(S)
  OBVIOUS
<1>2. Append(s, e)[Len(s) + 1] = e
  OBVIOUS
<1> QED BY <1>1, <1>2

LEMMA LastOfTail ==
  ASSUME NEW S, NEW s \in Seq(S), s # <<>>
  PROVE  /\ Head(s) \in S /\ Tail(s) \in Seq(S)
         /\ Tail(s) = <<>> => Head(s) = s[Len(s)]
         /\ Tail(s) # <<>> => Tail(s)[Len(Tail(s))] = s[Len(s)]
<1>1. Len(s) \in Nat \ {0} /\ Head(s) = s[1] /\ Len(Tail(s)) = Len(s) - 1
  OBVIOUS
<1>2. Tail(s) \in Seq(S) /\ \A i \in 1 .. Len(s) - 1 : Tail(s)[i] = s[i + 1]
  OBVIOUS
<1>3. Tail(s) = <<>> => Len(s) = 1
  <2>1. Tail(s) = <<>> => Len(Tail(s)) = 0
    BY EmptySeq
  <2> QED BY <2>1, <1>1
<1>4. Tail(s) # <<>> => Len(s) - 1 \in 1 .. Len(s) - 1
  BY <1>1, <1>2
<1> QED BY <1>1, <1>2, <1>3, <1>4

LEMMA GuardsUpdated ==
  ASSUME NEW p \in Nat \X Nat, NEW n \in Nat
  PROVE  [p EXCEPT ![1] = n] \in Nat \X Nat /\ [p EXCEPT ![2] = n] \in Nat \X Nat
OBVIOUS

LEMMA InitLock == AuthedInit => LockInv
<1> SUFFICES ASSUME AuthedInit PROVE LockInv
  OBVIOUS
<1>1. NobodyLeft(Counts(authed))
  BY CountsType DEF AuthedInit
<1>2. LockShape
  <2>1. counted \in [Conns -> Nat \X Nat] /\ queue \in Seq(Nat \X Nat)
    BY DEF AuthedInit
  <2>2. {wakelock, display, last_display, linux, stale} \subseteq BOOLEAN
    BY Zenon DEF AuthedInit
  <2> QED BY <2>1, <2>2 DEF AuthedInit, LockShape
<1>3. LastCounted
  BY <1>1 DEF AuthedInit, LastCounted, Matches
<1> QED BY <1>2, <1>3 DEF LockInv

\* A step that sends no message, and after which somebody is between.
LEMMA BetweenLock ==
  ASSUME LockInv, UNCHANGED <<lockVars, stale>>,
         counted' \in [Conns -> Nat \X Nat],
         NEW c \in Conns, Between(c)'
  PROVE  LockInv'
BY DEF LockInv, LockShape, LastCounted, lockVars

\* A step that changes neither AUTHED_CONNS nor who is between.
LEMMA SameLock ==
  ASSUME LockInv, UNCHANGED <<lockVars, stale, authed, counted, conn_type>>,
         \A k \in Conns : Between(k)' <=> Between(k)
  PROVE  LockInv'
BY DEF LockInv, LockShape, LastCounted, lockVars, Matches, Counts, Remotes

LEMMA TaskLock ==
  ASSUME AuthedInv, LockInv, NEW c \in Conns, Task(c)
  PROVE  LockInv'
<1> USE DEF AuthedInv, Shape, At, Goto
<1>1. CASE Push(c) \/ Retain(c)
  <2>1. Between(c)' /\ UNCHANGED <<lockVars, stale, counted>>
    BY <1>1 DEF Push, Retain, Between, Checking, Leaving
  <2> QED BY <2>1, BetweenLock DEF LockInv, LockShape
<1>2. CASE CountConns(c)
  <2>1. Between(c)' /\ UNCHANGED <<lockVars, stale>>
    BY <1>2 DEF CountConns, Between, Checking
  <2>2. Cardinality(authed) \in Nat
    BY AuthedAssumption, FS_Subset, FS_CardinalityType
  <2>3. counted' \in [Conns -> Nat \X Nat]
    BY <1>2, <2>2, GuardsUpdated DEF CountConns, LockInv, LockShape
  <2> QED BY <2>1, <2>3, BetweenLock
<1>3. CASE CountRemotes(c)
  <2>1. Between(c)' /\ UNCHANGED <<lockVars, stale>>
    BY <1>3 DEF CountRemotes, Between, Checking
  <2>2. Cardinality(Remotes(authed)) \in Nat
    BY AuthedAssumption, FS_Subset, FS_CardinalityType DEF Remotes
  <2>3. counted' \in [Conns -> Nat \X Nat]
    BY <1>3, <2>2, GuardsUpdated DEF CountRemotes, LockInv, LockShape
  <2> QED BY <2>1, <2>3, BetweenLock
<1>4. CASE SendCounts(c)
  <2>1. LockShape'
    BY <1>4, LastOfAppend DEF SendCounts, LockInv, LockShape
  <2>2. queue' # <<>> /\ queue'[Len(queue')] = counted[c]
    <3>1. queue \in Seq(Nat \X Nat) /\ counted[c] \in Nat \X Nat /\ queue' = Append(queue, counted[c])
      BY <1>4 DEF SendCounts, LockInv, LockShape
    <3>2. /\ Append(queue, counted[c]) # <<>>
          /\ Append(queue, counted[c])[Len(Append(queue, counted[c]))] = counted[c]
      BY <3>1, LastOfAppend
    <3> QED BY <3>1, <3>2
  <2>3. stale' = (counted[c] # Counts(authed)) /\ Counts(authed)' = Counts(authed)
    BY <1>4 DEF SendCounts, Counts, Remotes
  <2> QED BY <2>1, <2>2, <2>3 DEF LockInv, LastCounted
<1>5. CASE Reckon(c) \/ ResetWallpaper(c) \/ RestoreResolutions(c) \/ ClearResolutions(c)
  <2>1. Between(c)' /\ UNCHANGED <<lockVars, stale, counted>>
    BY <1>5 DEF Reckon, ResetWallpaper, RestoreResolutions, ClearResolutions, Between,
       Checking, Leaving
  <2> QED BY <2>1, BetweenLock DEF LockInv, LockShape
<1>6. CASE \/ OpenUser(c) \/ Welcome(c) \/ RecordResolution(c) \/ ChangeResolution(c)
           \/ CloseUser(c)
  <2>1. UNCHANGED <<lockVars, stale, authed, counted, conn_type>>
    BY <1>6 DEF OpenUser, Welcome, RecordResolution, ChangeResolution, CloseUser, screenVars
  <2>2. \A k \in Conns : Between(k)' <=> Between(k)
    BY <1>6 DEF OpenUser, Welcome, RecordResolution, ChangeResolution, CloseUser, Between,
       Checking, Leaving
  <2> QED BY <2>1, <2>2, SameLock
<1> QED BY <1>1, <1>2, <1>3, <1>4, <1>5, <1>6 DEF Task

\* The thread takes a message: the lock is as its counts say.
LEMMA ReceiveLock ==
  ASSUME LockInv, AuthedInv, Receive
  PROVE  LockInv'
<1> PICK counts : counts = Head(queue)
  OBVIOUS
<1>1. /\ queue \in Seq(Nat \X Nat) /\ queue # <<>> /\ counts \in Nat \X Nat
      /\ Tail(queue) \in Seq(Nat \X Nat)
      /\ Tail(queue) = <<>> => counts = queue[Len(queue)]
      /\ Tail(queue) # <<>> => Tail(queue)[Len(Tail(queue))] = queue[Len(queue)]
  BY LastOfTail DEF LockInv, LockShape, Receive
<1>2. /\ queue' = Tail(queue) /\ UNCHANGED <<authed, conn_type, at, counted, linux, stale>>
      /\ Counts(authed)' = Counts(authed)
  BY DEF Receive, connVars, Counts, Remotes
<1>3. NobodyLeft(counts) \in BOOLEAN /\ DisplayOn(counts) \in BOOLEAN
  BY DEF NobodyLeft, DisplayOn
<1>4. LockShape' /\ Matches(counts)'
  <2>0. {wakelock, display, last_display, linux, stale}' \subseteq BOOLEAN
    BY <1>3 DEF Receive, LockInv, LockShape
  <2>1. CASE NobodyLeft(counts)
    <3>1. ~wakelock' /\ ~display' /\ last_display' = last_display /\ wakelock' \in BOOLEAN /\ display' \in BOOLEAN
      BY <2>1 DEF Receive
    <3> QED BY <2>1, <3>1, <1>1, <1>2 DEF LockInv, LockShape, Matches, NobodyLeft
  <2>2. CASE ~NobodyLeft(counts)
    <3>1. /\ wakelock' = TRUE
          /\ \/ /\ wakelock /\ DisplayOn(counts) # last_display /\ ~linux
                /\ display' = DisplayOn(counts)
             \/ /\ wakelock /\ (DisplayOn(counts) = last_display \/ linux)
                /\ display' = display
             \/ /\ ~wakelock
                /\ display' = (DisplayOn(counts) \/ linux)
          /\ last_display' = IF wakelock THEN DisplayOn(counts) ELSE display'
      BY <2>2 DEF Receive
    <3> QED BY <2>2, <3>1, <1>1, <1>2, <1>3 DEF LockInv, LockShape, Matches, NobodyLeft, DisplayOn
  <2> QED BY <2>1, <2>2
<1>5. LastCounted'
  <2> SUFFICES ASSUME ~stale', \A c \in Conns : ~Between(c)'
               PROVE  IF queue' = <<>> THEN Matches(Counts(authed))'
                                       ELSE queue'[Len(queue')] = Counts(authed)'
    BY DEF LastCounted
  <2>1. queue[Len(queue)] = Counts(authed)
    BY <1>1, <1>2 DEF LockInv, LastCounted, Between
  <2>2. CASE queue' = <<>>
    <3>1. counts = Counts(authed)
      BY <2>1, <2>2, <1>1, <1>2
    <3> QED BY <3>1, <2>2, <1>2, <1>4 DEF Matches, NobodyLeft, DisplayOn
  <2>3. CASE queue' # <<>>
    BY <2>1, <2>3, <1>1, <1>2
  <2> QED BY <2>2, <2>3
<1> QED BY <1>4, <1>5 DEF LockInv

THEOREM LockInvariance == AuthedSpec => []LockInv
<1>1. ASSUME AuthedInv, LockInv, [AuthedNext]_authedVars
      PROVE  LockInv'
  <2> USE <1>1
  <2>1. ASSUME NEW c \in Conns, Task(c) PROVE LockInv'
    BY <2>1, TaskLock
  <2>2. CASE Receive
    BY <2>2, ReceiveLock
  <2>3. CASE Idle \/ UNCHANGED authedVars
    BY <2>3, SameLock DEF Idle, authedVars, connVars, Between
  <2> QED BY <2>1, <2>2, <2>3 DEF AuthedNext
<1> QED BY <1>1, InitLock, AuthedInvariance, PTL DEF AuthedSpec

\* The wake lock follows the connections, but for a stale last count
\* (check_wake_lock, start_wakelock_thread).
THEOREM WakeLockAlwaysFollows == AuthedSpec => []WakeLockFollows
<1>1. ASSUME AuthedInv, LockInv PROVE WakeLockFollows
  <2> SUFFICES ASSUME Settled, ~stale
               PROVE  /\ wakelock = (authed # {})
                      /\ Remotes(authed) # {} => display
                      /\ ~linux /\ Remotes(authed) = {} => ~display
    BY DEF WakeLockFollows
  <2>1. Matches(Counts(authed))
    BY <1>1 DEF LockInv, LastCounted, Settled, Between, Checking, Leaving
  <2>2. /\ NobodyLeft(Counts(authed)) <=> authed = {}
        /\ DisplayOn(Counts(authed)) <=> Remotes(authed) # {}
    BY <1>1, CountsType DEF AuthedInv, Shape
  <2>3. Remotes(authed) \subseteq authed
    BY DEF Remotes
  <2> QED BY <1>1, <2>1, <2>2, <2>3 DEF LockInv, LockShape, Matches
<1> QED BY <1>1, AuthedInvariance, LockInvariance, PTL
-----------------------------------------------------------------------------
(* The rest of the types.                                                  *)

\* Counts are bounded by the connections there are, the queue and the changes by
\* their bounds.
Bounded ==
  /\ counted \in [Conns -> (0 .. Cardinality(Conns)) \X (0 .. Cardinality(Conns))]
  /\ Len(queue) <= MaxQueue
  /\ changes \in 0 .. MaxChanges

DisplaysTyped ==
  /\ users \subseteq Conns
  /\ removed \in BOOLEAN
  /\ changed \subseteq Resizables /\ altered \subseteq Resizables /\ lost \subseteq Resizables

LEMMA CountBound ==
  ASSUME NEW conns \in SUBSET Conns
  PROVE  Cardinality(conns) \in 0 .. Cardinality(Conns)
<1>1. /\ Cardinality(conns) \in Nat /\ Cardinality(Conns) \in Nat
      /\ Cardinality(conns) <= Cardinality(Conns)
  BY AuthedAssumption, FS_Subset, FS_CardinalityType
<1> QED BY <1>1

LEMMA PairUpdated ==
  ASSUME NEW S, NEW p \in S \X S, NEW n \in S
  PROVE  [p EXCEPT ![1] = n] \in S \X S /\ [p EXCEPT ![2] = n] \in S \X S
OBVIOUS

LEMMA TaskBounded ==
  ASSUME AuthedInv, LockInv, Bounded, NEW c \in Conns, Task(c)
  PROVE  Bounded'
<1> DEFINE Upto == 0 .. Cardinality(Conns)
<1>0. /\ counted \in [Conns -> Upto \X Upto] /\ Len(queue) <= MaxQueue /\ changes \in 0 .. MaxChanges
      /\ authed \in SUBSET Conns /\ Remotes(authed) \in SUBSET Conns
  BY DEF Bounded, AuthedInv, Shape, Remotes
<1>1. CASE CountConns(c)
  <2>1. Cardinality(authed) \in Upto
    BY <1>0, CountBound
  <2>2. [counted[c] EXCEPT ![1] = Cardinality(authed)] \in Upto \X Upto
    BY <1>0, <2>1, PairUpdated
  <2>3. counted' \in [Conns -> Upto \X Upto]
    BY <1>0, <1>1, <2>2 DEF CountConns
  <2> QED BY <1>0, <1>1, <2>3 DEF CountConns, Bounded, lockVars, screenVars
<1>2. CASE CountRemotes(c)
  <2>1. Cardinality(Remotes(authed)) \in Upto
    BY <1>0, CountBound
  <2>2. [counted[c] EXCEPT ![2] = Cardinality(Remotes(authed))] \in Upto \X Upto
    BY <1>0, <2>1, PairUpdated
  <2>3. counted' \in [Conns -> Upto \X Upto]
    BY <1>0, <1>2, <2>2 DEF CountRemotes
  <2> QED BY <1>0, <1>2, <2>3 DEF CountRemotes, Bounded, lockVars, screenVars
<1>3. CASE SendCounts(c)
  <2>1. queue \in Seq(Nat \X Nat) /\ counted[c] \in Nat \X Nat /\ MaxQueue \in Nat
    BY AuthedAssumption DEF LockInv, LockShape
  <2>2. Len(Append(queue, counted[c])) = Len(queue) + 1 /\ Len(queue) \in Nat
    BY <2>1
  <2>3. Len(queue') <= MaxQueue
    BY <1>3, <2>1, <2>2 DEF SendCounts
  <2>4. 0 \in Upto
    BY AuthedAssumption, FS_CardinalityType
  <2>5. counted' \in [Conns -> Upto \X Upto]
    BY <1>0, <1>3, <2>4 DEF SendCounts
  <2> QED BY <1>0, <1>3, <2>3, <2>5 DEF SendCounts, Bounded, screenVars
<1>4. CASE RecordResolution(c)
  <2>1. changes' \in 0 .. MaxChanges
    BY <1>0, <1>4, AuthedAssumption DEF RecordResolution
  <2> QED BY <1>0, <1>4, <2>1 DEF RecordResolution, Bounded, lockVars
<1>5. CASE ~(CountConns(c) \/ CountRemotes(c) \/ SendCounts(c) \/ RecordResolution(c))
  <2>1. UNCHANGED <<counted, queue, changes>>
    BY <1>5 DEF Task, Push, OpenUser, Welcome, ChangeResolution, CloseUser, Retain, Reckon,
       ResetWallpaper, RestoreResolutions, ClearResolutions, lockVars, screenVars
  <2> QED BY <2>1 DEF Bounded
<1> QED BY <1>1, <1>2, <1>3, <1>4, <1>5

LEMMA TaskDisplays ==
  ASSUME AuthedInv, DisplaysTyped, NEW c \in Conns, Task(c)
  PROVE  DisplaysTyped'
<1> USE DEF DisplaysTyped, AuthedInv, Shape, connVars, lockVars, screenVars
<1>1. CASE RecordResolution(c) \/ ClearResolutions(c)
  BY <1>1 DEF RecordResolution, ClearResolutions
<1>2. CASE ChangeResolution(c)
  <2>1. changing[c] \in Resizables
    BY <1>2, DisplayAssumption DEF ChangeResolution, At
  <2> QED BY <1>2, <2>1 DEF ChangeResolution
<1>3. CASE RestoreResolutions(c) \/ ResetWallpaper(c) \/ Welcome(c)
  BY <1>3 DEF RestoreResolutions, ResetWallpaper, Welcome
<1>4. CASE OpenUser(c) \/ CloseUser(c)
  BY <1>4 DEF OpenUser, CloseUser
<1>5. CASE Push(c) \/ CountConns(c) \/ CountRemotes(c) \/ SendCounts(c) \/ Retain(c) \/ Reckon(c)
  BY <1>5 DEF Push, CountConns, CountRemotes, SendCounts, Retain, Reckon
<1> QED BY <1>1, <1>2, <1>3, <1>4, <1>5 DEF Task

\* The variables of the guards keep their types, and AUTHED_CONNS has the connections
\* that are between their push and their retain (AuthedConnID).
THEOREM AuthedTypes == AuthedSpec => []AuthedTypeOK
<1>1. AuthedInit => Bounded /\ DisplaysTyped
  <2> SUFFICES ASSUME AuthedInit PROVE Bounded /\ DisplaysTyped
    OBVIOUS
  <2>1. 0 \in 0 .. Cardinality(Conns)
    BY AuthedAssumption, FS_CardinalityType
  <2>2. Bounded
    BY <2>1, AuthedAssumption DEF AuthedInit, Bounded
  <2> QED BY <2>2 DEF AuthedInit, DisplaysTyped
<1>2. ASSUME AuthedInv, LockInv, Bounded, DisplaysTyped, [AuthedNext]_authedVars
      PROVE  Bounded' /\ DisplaysTyped'
  <2> USE <1>2
  <2>1. ASSUME NEW c \in Conns, Task(c) PROVE Bounded' /\ DisplaysTyped'
    BY <2>1, TaskBounded, TaskDisplays
  <2>2. CASE Receive
    <3>1. Len(queue') <= MaxQueue
      <4>1. queue \in Seq(Nat \X Nat) /\ queue # <<>> /\ queue' = Tail(queue) /\ MaxQueue \in Nat
        BY <2>2, AuthedAssumption DEF Receive, LockInv, LockShape
      <4>2. Len(Tail(queue)) = Len(queue) - 1 /\ Len(queue) \in Nat
        BY <4>1
      <4> QED BY <4>1, <4>2 DEF Bounded
    <3> QED BY <2>2, <3>1 DEF Receive, Bounded, DisplaysTyped, connVars, screenVars
  <2>3. CASE Idle \/ UNCHANGED authedVars
    BY <2>3 DEF Idle, authedVars, connVars, lockVars, screenVars, Bounded, DisplaysTyped
  <2> QED BY <2>1, <2>2, <2>3 DEF AuthedNext
<1>3. AuthedInv /\ LockInv /\ Bounded /\ DisplaysTyped => AuthedTypeOK
  <2> SUFFICES ASSUME AuthedInv, LockInv, Bounded, DisplaysTyped PROVE AuthedTypeOK
    OBVIOUS
  <2>1. {wakelock, display, last_display, linux, removed, stale} \subseteq BOOLEAN
    <3>1. {wakelock, display, last_display, linux, stale} \subseteq BOOLEAN /\ removed \in BOOLEAN
      BY DEF LockInv, LockShape, DisplaysTyped
    <3> QED BY ONLY <3>1
  <2> QED BY <2>1 DEF AuthedInv, Shape, Bounded, DisplaysTyped, AuthedTypeOK
<1> QED BY <1>1, <1>2, <1>3, AuthedInvariance, LockInvariance, PTL DEF AuthedSpec
=============================================================================
