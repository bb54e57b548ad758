------------------------------- MODULE Server -------------------------------
(***************************************************************************)
(* server.rs, impl Server: the connections of the controlled side and the  *)
(* services they subscribe to.  Every operation runs under the write lock  *)
(* of the one Server, so operations do not interleave with each other; but *)
(* an operation makes several calls on several services, in the order of a *)
(* hash map, and the threads of the services run in between.  In           *)
(* particular is_subed reads the two tables of a service under two locks.  *)
(***************************************************************************)
EXTENDS Service

CONSTANTS
  Video,    \* names of the video services, created when they are first needed
            \* (CLIENT_SERVER, which only records the local audio, has none)
  Primary,  \* the video service of the primary display
  Nobody    \* no connection

ASSUME ServerAssumption ==
  /\ Video \subseteq NeedSnapshot
  /\ Video # {} => Primary \in Video
  /\ Nobody \notin Conns

VARIABLES
  connections,  \* Server.connections: those that called add_connection
  closed,       \* connections whose loop has ended with remove_connection
  lock,         \* the connection that holds the Server write lock, or Nobody
  kind,         \* the operation it is in
  todo,         \* calls on services the operation has still to make
  reread,       \* calls whose is_subed has only looked into subscribes yet
  decided,      \* calls whose is_subed said that something is to be done
  stopping,     \* Server::drop has begun
  wanted,       \* <<service, connection>> pairs last asked to be subscribed
  missed        \* pairs whose is_subed looked between the two tables (history)

serverVars == <<connections, closed, lock, kind, todo, reread, decided,
                stopping, wanted, missed>>
vars == <<serviceVars, serverVars>>

Kinds == {"none", "add", "remove", "subscribe", "capture"}

\* A call on a service: on_(un)subscribe, when checked guarded by is_subed.
Calls == [svc : Services, sub : BOOLEAN, checked : BOOLEAN]
Call(s, b, checked) == [svc |-> s, sub |-> b, checked |-> checked]

TypeOK ==
  /\ ServiceTypeOK
  /\ connections \subseteq Conns
  /\ closed \subseteq Conns
  /\ lock \in Conns \cup {Nobody}
  /\ kind \in Kinds
  /\ todo \subseteq Calls
  /\ reread \subseteq Calls
  /\ decided \subseteq Calls
  /\ stopping \in BOOLEAN
  /\ wanted \subseteq Services \X Conns
  /\ missed \subseteq Services \X Conns

Init ==
  /\ ServiceInit
  /\ present = Services \ Video
  /\ connections = {}
  /\ closed = {}
  /\ lock = Nobody
  /\ kind = "none"
  /\ todo = {} /\ reread = {} /\ decided = {}
  /\ stopping = FALSE
  /\ wanted = {}
  /\ missed = {}

-----------------------------------------------------------------------------
(* Taking the write lock for an operation.                                 *)

Free == lock = Nobody /\ ~stopping
Open(c) == c \notin closed

\* What the calls of an operation ask for, for its connection.
Asked(c, calls) == {<<k.svc, c>> : k \in {j \in calls : j.sub}}
Cancelled(c, calls) == {<<k.svc, c>> : k \in {j \in calls : ~j.sub}}

\* Services that did not exist are created (add_service), with their thread.
Begin(c, operation, created, calls) ==
  /\ lock' = c
  /\ kind' = operation
  /\ present' = present \cup created
  /\ todo' = calls
  /\ wanted' = (wanted \cup Asked(c, calls)) \ Cancelled(c, calls)
  /\ missed' = missed \ (Asked(c, calls) \cup Cancelled(c, calls))
  /\ UNCHANGED <<subscribes, new_subscribes, active, pc, source, cached, known,
                 late, fails, connections, closed, reread, decided, stopping>>

\* try_add_primay_video_service and add_connection, as try_sub_monitor_services
\* calls them, once per connection: every service but those the connection has
\* no permission for and the video services of other displays.
AddConnection(c) ==
  /\ Free /\ Open(c) /\ c \notin connections
  /\ \E noperms \in SUBSET (Services \ Video) :
       LET created == Video \cap {Primary} IN
       Begin(c, "add", created,
             {Call(s, TRUE, FALSE) :
                s \in (present \cup created) \ (noperms \cup (Video \ {Primary}))})

\* the calls of remove_connection, here not guarded by is_subed
RemoveCallsBug == {Call(s, FALSE, TRUE) : s \in present}
RemoveCalls == {Call(s, FALSE, FALSE) : s \in present}

\* remove_connection, when the loop of the connection has ended.
RemoveConnection(c) ==
  /\ Free /\ Open(c)
  /\ Begin(c, "remove", {}, RemoveCalls)

\* Server::subscribe: a permission or an option of the connection was switched.
\* A name without a service is ignored.
Subscribe(c) ==
  /\ Free /\ Open(c)
  /\ \E s \in present, b \in BOOLEAN :
       Begin(c, "subscribe", {}, {Call(s, b, TRUE)})

\* capture_displays with (include, exclude) = (add, nothing), (nothing, others)
\* or (set, others); the caller has created the services of add and set.
CaptureDisplays(c) ==
  /\ Free /\ Open(c)
  /\ \E displays \in SUBSET Video, include \in BOOLEAN, exclude \in BOOLEAN :
       /\ include \/ exclude
       /\ LET created == IF include THEN displays ELSE {}
              names == Video \cap (present \cup created)
          IN  Begin(c, "capture", created,
                    {Call(s, TRUE, TRUE) : s \in IF include THEN names \cap displays ELSE {}}
                    \cup {Call(s, FALSE, TRUE) : s \in IF exclude THEN names \ displays ELSE {}})

-----------------------------------------------------------------------------
(* The calls of an operation, one critical section of a service at a time. *)

Busy == lock # Nobody
Between == reread = {} /\ decided = {}

ApplyBug(k) == IF k.sub THEN OnUnsubscribe(k.svc, lock) ELSE OnSubscribe(k.svc, lock)
\* on_subscribe or on_unsubscribe for the holder of the lock.
Apply(k) == IF k.sub THEN OnSubscribe(k.svc, lock) ELSE OnUnsubscribe(k.svc, lock)

\* add_connection and remove_connection do not ask is_subed.
CallDirectly ==
  /\ Busy /\ Between
  /\ \E k \in todo :
       /\ ~k.checked
       /\ Apply(k)
       /\ todo' = todo \ {k}
  /\ UNCHANGED <<connections, closed, lock, kind, reread, decided, stopping,
                 wanted, missed>>

\* is_subed, first operand of the ||: subscribes.get(&id).is_some().
ReadSubscribes ==
  /\ Busy /\ Between
  /\ \E k \in todo :
       /\ k.checked
       /\ todo' = todo \ {k}
       /\ IF lock \in subscribes[k.svc]
            THEN /\ decided' = IF k.sub THEN {} ELSE {k}
                 /\ UNCHANGED reread
            ELSE /\ reread' = {k}
                 /\ UNCHANGED decided
  /\ UNCHANGED <<serviceVars, connections, closed, lock, kind, stopping,
                 wanted, missed>>

\* is_subed, second operand, under a read lock of its own; the result is
\* compared with what is asked, and nothing is done if it is the same.
ReadNewSubscribes ==
  /\ Busy
  /\ \E k \in reread :
       LET subed == lock \in new_subscribes[k.svc] IN
       /\ decided' = IF subed = k.sub THEN {} ELSE {k}
       /\ missed' = IF ~subed /\ ~k.sub /\ lock \in subscribes[k.svc]
                      THEN missed \cup {<<k.svc, lock>>} ELSE missed
  /\ reread' = {}
  /\ UNCHANGED <<serviceVars, connections, closed, lock, kind, todo, stopping,
                 wanted>>

\* ... otherwise on_subscribe or on_unsubscribe follows.
CallDecided ==
  /\ Busy
  /\ \E k \in decided : Apply(k)
  /\ decided' = {}
  /\ UNCHANGED <<connections, closed, lock, kind, todo, reread, stopping,
                 wanted, missed>>

\* The operation ends: add_connection and remove_connection update the map of
\* connections, and the write lock is released.
Finish ==
  /\ Busy /\ Between /\ todo = {}
  /\ connections' = CASE kind = "add" -> connections \cup {lock}
                      [] kind = "remove" -> connections \ {lock}
                      [] OTHER -> connections
  /\ closed' = IF kind = "remove" THEN closed \cup {lock} ELSE closed
  /\ lock' = Nobody
  /\ kind' = "none"
  /\ UNCHANGED <<serviceVars, todo, reread, decided, stopping, wanted, missed>>

-----------------------------------------------------------------------------
(* Server::drop: the last reference goes away, every service is joined.    *)

StopServer ==
  /\ Free
  /\ stopping' = TRUE
  /\ UNCHANGED <<serviceVars, connections, closed, lock, kind, todo, reread,
                 decided, wanted, missed>>

\* Service::join, one service after the other: active = false, then wait for
\* the thread.
Join(s) ==
  /\ stopping /\ s \in present /\ active[s]
  /\ \A t \in present : ~active[t] => pc[t] = "exited"
  /\ active' = [active EXCEPT ![s] = FALSE]
  /\ UNCHANGED <<present, subscribes, new_subscribes, pc, source, cached, known,
                 late, fails>>
  /\ UNCHANGED serverVars

\* All services joined; nothing is left to happen.
Stopped ==
  /\ stopping
  /\ \A s \in present : pc[s] = "exited"
  /\ UNCHANGED vars

-----------------------------------------------------------------------------
Operation ==
  \/ CallDirectly \/ ReadSubscribes \/ ReadNewSubscribes \/ CallDecided \/ Finish

Request(c) ==
  \/ AddConnection(c) \/ RemoveConnection(c) \/ Subscribe(c) \/ CaptureDisplays(c)

ThreadStep(s) == Thread(s) /\ UNCHANGED serverVars

Next ==
  \/ \E c \in Conns : Request(c)
  \/ Operation
  \/ \E s \in Services : ThreadStep(s)
  \/ \E s \in Services : SourceChanges(s) /\ UNCHANGED serverVars
  \/ StopServer
  \/ \E s \in Services : Join(s)
  \/ Stopped

Spec == Init /\ [][Next]_vars

\* A thread that can go on is scheduled again; a holder of the write lock
\* finishes its operation; Server::drop joins the next service.
ThreadFairness(s) == WF_vars(ThreadStep(s))

Fairness ==
  /\ \A s \in Services : ThreadFairness(s)
  /\ WF_vars(Operation)
  /\ \A s \in Services : WF_vars(Join(s))

FairSpec == Spec /\ Fairness
-----------------------------------------------------------------------------
(* Properties.                                                             *)

\* A subscriber is in one of the two tables only.  on_unsubscribe relies on
\* this: it leaves new_subscribes alone when subscribes had the connection.
TablesDisjoint ==
  \A s \in Services : subscribes[s] \cap new_subscribes[s] = {}

\* Nobody is swapped into subscribes without the current version, except the
\* connections a snapshot passed over (late): those that subscribed between
\* sps.send and the swap, and those that joined a video service in the middle
\* of a stream whose last subscriber had just left.
SnapshotComplete ==
  \A s \in NeedSnapshot : \A c \in subscribes[s] \ late[s] :
    cached[s] # NoVersion => known[s][c] = cached[s]

\* When no operation is under way, every subscription that was asked for and
\* not cancelled since is in force: swaps, errors, snapshots and the operations
\* of other connections lose none.
AskedIsSubscribed ==
  lock = Nobody => \A s \in Services : \A c \in Conns :
                     <<s, c>> \in wanted => c \in Subscribers(s)

\* The converse, but for cancellations whose is_subed looked into subscribes
\* before and into new_subscribes after the thread swapped the tables.
SubscribedIsAsked ==
  lock = Nobody => \A s \in Services : \A c \in Subscribers(s) :
                     <<s, c>> \in wanted \cup missed

\* remove_connection takes the connection out of every service, whatever the
\* threads do meanwhile and whatever is_subed said before.
ClosedIsGone ==
  \A c \in closed : /\ c \notin connections
                    /\ \A s \in Services : c \notin Subscribers(s)

\* What the comment in Connection::switch_display_to says of CaptureDisplays,
\* the message that follows a display switch: "Unnecessary capturers will be
\* removed then".
UnnecessaryCapturersRemoved ==
  [][Finish /\ kind = "capture" =>
       \A s \in Video : lock \in Subscribers(s) => <<s, lock>> \in wanted]_vars

\* Where the code has a case for the thread of a service: everywhere until it has
\* ended, but for the place where one that nobody subscribes to rests, once its
\* state is reset and while it is active.  NeverBlocked, what the fairness of the
\* threads is worth, follows from the guards of ThreadStep; it is no property of
\* a run but the hypothesis under which the liveness is proved in ServerProofs,
\* to whose provers ENABLED is an unknown.
CanGoOn(s) ==
  /\ s \in present /\ pc[s] # "exited"
  /\ At(s, "loop") /\ active[s] => HasSubscribes(s) \/ cached[s] # NoVersion
NeverBlocked ==
  \A s \in Services : ENABLED <<ThreadStep(s)>>_vars <=> CanGoOn(s)

\* A subscriber of a service that sends, unless a snapshot passed over it, ends
\* up with what the service watches, however its subscription, the changes and
\* the errors interleave.
SubscriberCatchesUp ==
  \A s \in NeedSnapshot \ Restarting, c \in Conns :
    c \in Subscribers(s) ~>
      \/ c \notin Subscribers(s) \/ stopping
      \/ c \in late[s] \/ known[s][c] = source[s]

\* A service that restarts for every newcomer only promises as much once the
\* connections stop coming and going: each newcomer that meets a subscriber
\* puts the next broadcast off again.
SubscriberCatchesUpWhenQuiet ==
  <>[](lock = Nobody) =>
    \A s \in Restarting, c \in Conns :
      <>[](\/ c \notin Subscribers(s) \/ stopping
           \/ c \in late[s] \/ known[s][c] = source[s])

\* Server::drop terminates: every thread sees that it is not active any more,
\* whatever it was doing, and its join returns.
DropTerminates == stopping ~> \A s \in present : pc[s] = "exited"

\* The tables, threads and locks implement the plain registry of members.
R == INSTANCE Registry WITH
       members <- [s \in Services |-> Subscribers(s)],
       gone <- closed,
       received <- known
ImplementsRegistry == R!Spec
=============================================================================
