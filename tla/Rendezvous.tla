----------------------------- MODULE Rendezvous -----------------------------
(***************************************************************************)
(* rendezvous_mediator.rs: start_all runs one task per configured          *)
(* rendezvous server, each of which keeps this machine's id registered     *)
(* over UDP; restart() makes them all end so that the next round reads the *)
(* servers again.  common.rs: test_rendezvous_server, whenever some process *)
(* asks for it, connects to all servers over TCP, and shares ONLINE with   *)
(* the tasks, which do not look at what is there.                          *)
(*                                                                         *)
(* Datagrams are lost, delayed, reordered and doubled, and an answer does  *)
(* not say which request it is for.  Time is what a task tells apart: an   *)
(* answer within a second, a request due for repetition.  The rendezvous   *)
(* server (hbbs) is external.                                              *)
(***************************************************************************)
EXTENDS Naturals, Integers, FiniteSets

CONSTANTS
  Hosts,          \* the rendezvous servers there are
  NoHost,         \* the empty SOLVING_PK_MISMATCH
  MaxIds,         \* bound: ids this machine tries
  Fails1, Fails2, \* MAX_FAILS1 and MAX_FAILS2
  Probes,         \* bound: tests of the servers, each made once
  MaxChanges,     \* bound: changes of the configured servers
  MaxFaults       \* bound: losses, delays, doubles, errors and crashes of servers

ASSUME RendezvousAssumption ==
  /\ NoHost \notin Hosts /\ IsFiniteSet(Hosts)
  /\ MaxIds \in Nat \ {0}
  /\ Fails1 \in Nat /\ Fails2 \in Nat /\ 0 < Fails1 /\ Fails1 < Fails2
  /\ {MaxChanges, MaxFaults} \subseteq Nat

VARIABLES
  option,         \* the configured servers; none with stop-service
  asked,          \* they changed and restart() is still to be called
  shouldExit,     \* SHOULD_EXIT
  phase,          \* start_all: idle, read or run
  servers,        \* the servers it read
  running,        \* the servers whose task runs
  id, key_confirmed, keys_confirmed,        \* Config
  solving,        \* SOLVING_PK_MISMATCH
  sent,           \* last_register_sent of a task: none, fast or late
  fails, measured,                          \* fails, ema_latency > 0
  old,            \* a task's old_latency > 0
  latency,        \* ONLINE: the sign of the latency, or Unset
  test, pending,  \* the tests, and the servers they still wait for
  registered, taken, silent,                \* the servers: the ids they hold for
                  \* this machine and for others, the one that answers no more
  answers,        \* answers under way
  changes, faults,                          \* counters for the bounds
  missed,         \* a restart fell between the reading and the start (history)
  overwritten     \* entries of ONLINE that were a task's or none until a test
                  \* wrote over them or removed them (history)

configVars == <<id, key_confirmed, keys_confirmed, solving>>
shownVars == <<old, latency, overwritten>>
taskVars == <<sent, fails, measured, shownVars>>
testVars == <<test, pending>>
hostVars == <<registered, taken, silent, answers>>
roundVars == <<option, asked, shouldExit, phase, servers, running, changes, missed>>
rendezvousVars == <<roundVars, configVars, taskVars, testVars, hostVars, faults>>

Unset == -2
Ids == 1 .. MaxIds
Answers == {"peer", "request_pk", "ok", "mismatch"}

RendezvousTypeOK ==
  /\ {option, servers, running} \subseteq SUBSET Hosts
  /\ {asked, shouldExit, key_confirmed, missed} \subseteq BOOLEAN
  /\ phase \in {"idle", "read", "run"}
  /\ id \in Ids
  /\ keys_confirmed \in [Hosts -> BOOLEAN]
  /\ {solving, silent} \subseteq Hosts \cup {NoHost}
  /\ sent \in [Hosts -> {"none", "fast", "late"}]
  /\ fails \in [Hosts -> 0 .. Fails2] /\ measured \in [Hosts -> BOOLEAN]
  /\ old \in [Hosts -> BOOLEAN] /\ latency \in [Hosts -> {Unset, -1, 0, 1}]
  /\ test \in [Probes -> {"new", "on", "over"}] /\ pending \subseteq Probes \X Hosts
  /\ overwritten \subseteq Hosts
  /\ registered \in [Hosts -> SUBSET Ids] /\ taken \in [Hosts -> SUBSET Ids]
  /\ answers \in [Hosts -> SUBSET Answers]
  /\ changes \in 0 .. MaxChanges /\ faults \in 0 .. MaxFaults
  /\ key_confirmed \/ \A h \in Hosts : ~keys_confirmed[h]
  /\ running \subseteq servers /\ (running # {} => phase = "run")

\* A machine that was never registered, whose first id may be another's, or one
\* that was; the service may be stopped.
RendezvousInit ==
  /\ option \in {Hosts, {}} /\ asked = FALSE /\ shouldExit = FALSE
  /\ phase = "idle" /\ servers = {} /\ running = {}
  /\ id = 1 /\ solving = NoHost
  /\ \/ /\ key_confirmed = FALSE /\ keys_confirmed = [h \in Hosts |-> FALSE]
        /\ registered = [h \in Hosts |-> {}]
        /\ taken \in [Hosts -> {{}, {1}}]
     \/ /\ key_confirmed = TRUE /\ keys_confirmed = [h \in Hosts |-> TRUE]
        /\ registered = [h \in Hosts |-> {1}]
        /\ taken = [h \in Hosts |-> {}]
  /\ sent = [h \in Hosts |-> "none"] /\ fails = [h \in Hosts |-> 0]
  /\ measured = [h \in Hosts |-> FALSE] /\ old = [h \in Hosts |-> FALSE]
  /\ latency = [h \in Hosts |-> Unset] /\ overwritten = {}
  /\ test \in [Probes -> {"new", "over"}] /\ pending = {}
  /\ silent = NoHost /\ answers = [h \in Hosts |-> {}]
  /\ changes \in 0 .. MaxChanges /\ faults \in 0 .. MaxFaults
  /\ missed = FALSE

Fault == faults < MaxFaults /\ faults' = faults + 1

-----------------------------------------------------------------------------
(* The servers and the network.                                            *)

\* A request of register_pk or register_peer: the server's answer gets under
\* way, or one of the two is lost.
Request(h, kind, number) ==
  \/ /\ \/ h = silent /\ UNCHANGED faults
        \/ Fault
     /\ UNCHANGED <<registered, answers>>
  \/ /\ h # silent
     /\ UNCHANGED faults
     /\ LET free == number \notin taken[h]
            answer == CASE kind = "pk" -> IF free THEN "ok" ELSE "mismatch"
                        [] kind = "peer" -> IF number \in registered[h] THEN "peer"
                                                                        ELSE "request_pk"
        IN  /\ answers' = [answers EXCEPT ![h] = @ \cup {answer}]
            /\ registered' = IF answer = "ok" THEN [registered EXCEPT ![h] = @ \cup {number}]
                                              ELSE registered

Nothing == UNCHANGED <<registered, answers, faults>>

\* A server goes away for good, or comes back without what it knew.
GoesSilent(h) ==
  /\ silent = NoHost /\ silent' = h
  /\ Fault
  /\ UNCHANGED <<roundVars, configVars, taskVars, testVars, registered, taken, answers>>
Forgets(h) ==
  /\ Fault /\ registered[h] # {}
  /\ registered' = [registered EXCEPT ![h] = {}]
  /\ UNCHANGED <<roundVars, configVars, taskVars, testVars, taken, silent, answers>>

-----------------------------------------------------------------------------
(* A task: start_udp.                                                      *)

Confirmed(h) == key_confirmed /\ keys_confirmed[h]
MaySolve(h) == solving \in {NoHost, h}

\* register_peer: nothing at all while another server's mismatch is solved
RegisterPeer(h) ==
  IF MaySolve(h) THEN Request(h, IF Confirmed(h) THEN "peer" ELSE "pk", id) ELSE Nothing

\* More than a second went by since the request (a delay when an answer is
\* under way).
Late(h) ==
  /\ h \in running /\ sent[h] = "fast"
  /\ IF answers[h] = {} THEN UNCHANGED faults ELSE Fault
  /\ sent' = [sent EXCEPT ![h] = "late"]
  /\ UNCHANGED <<roundVars, configVars, fails, measured, shownVars, testVars, hostVars>>

\* Config::update_latency, by a task
Writes(h, value) ==
  /\ latency' = [latency EXCEPT ![h] = value]
  /\ overwritten' = overwritten \ {h}

\* the latency shown after n failures, if they show
ShownAfter(n) == IF n >= Fails2 THEN -1 ELSE 0

FailedBug(h, n) ==
  IF n = Fails2 THEN Writes(h, -1) /\ old' = [old EXCEPT ![h] = FALSE]
                ELSE UNCHANGED shownVars
Failed(h, n) ==
  IF n >= Fails1 THEN Writes(h, ShownAfter(n)) /\ old' = [old EXCEPT ![h] = FALSE]
                 ELSE UNCHANGED shownVars

\* timer.tick(): the registration is due, or the last one is not answered.
Tick(h) ==
  /\ h \in running /\ ~shouldExit
  /\ sent[h] # "fast"
  /\ sent' = [sent EXCEPT ![h] = "fast"]
  /\ IF sent[h] = "late"
       THEN LET n == IF fails[h] < Fails2 THEN fails[h] + 1 ELSE Fails2 IN
            /\ fails' = [fails EXCEPT ![h] = n]
            /\ Failed(h, n)
       ELSE UNCHANGED <<fails, shownVars>>
  /\ RegisterPeer(h)
  /\ UNCHANGED <<roundVars, configVars, measured, testVars, taken, silent>>

\* After four failures and a minute the socket is bound anew: what is under way
\* to the old one is lost.
Rebind(h) ==
  /\ h \in running /\ fails[h] = Fails2 /\ answers[h] # {}
  /\ Fault
  /\ answers' = [answers EXCEPT ![h] = {}]
  /\ UNCHANGED <<roundVars, configVars, taskVars, testVars, registered, taken, silent>>

\* the closure update_latency: an answer after a second counts as an answer, but
\* the latency stays; one to no request counts with the latency before; and one
\* like old_latency is not shown again
UpdateLatency(h) ==
  /\ fails' = [fails EXCEPT ![h] = 0]
  /\ sent' = [sent EXCEPT ![h] = "none"]
  /\ measured' = [measured EXCEPT ![h] = @ \/ sent[h] = "fast"]
  /\ \/ (sent[h] = "late" \/ old[h]) /\ UNCHANGED shownVars
     \/ /\ sent[h] # "late"
        /\ old' = [old EXCEPT ![h] = measured'[h]]
        /\ Writes(h, IF measured'[h] THEN 1 ELSE 0)

\* the datagram is taken from the network, or there is a double of it
Take(h, answer, double) ==
  /\ h \in running /\ answer \in answers[h]
  /\ double => faults < MaxFaults

\* what was under way, with one answer taken from it, and a request sent
Resend(h, answer, double, number) ==
  LET left == IF double THEN answers[h] ELSE answers[h] \ {answer}
      reply == IF number \in taken[h] THEN "mismatch" ELSE "ok" IN
  \/ /\ h = silent \/ faults + (IF double THEN 1 ELSE 0) < MaxFaults
     /\ faults' = faults + (IF double THEN 1 ELSE 0) + (IF h = silent THEN 0 ELSE 1)
     /\ answers' = [answers EXCEPT ![h] = left]
     /\ UNCHANGED registered
  \/ /\ h # silent
     /\ faults' = faults + (IF double THEN 1 ELSE 0)
     /\ answers' = [answers EXCEPT ![h] = left \cup {reply}]
     /\ registered' = IF reply = "ok" THEN [registered EXCEPT ![h] = @ \cup {number}]
                                      ELSE registered

Received(h, answer, double) ==
  /\ answers' = IF double THEN answers ELSE [answers EXCEPT ![h] = @ \ {answer}]
  /\ faults' = faults + (IF double THEN 1 ELSE 0)
  /\ UNCHANGED registered

PeerResponse(h, double) ==
  /\ Take(h, "peer", double) /\ Received(h, "peer", double)
  /\ UpdateLatency(h)
  /\ UNCHANGED <<roundVars, configVars, testVars, taken, silent>>

\* request_pk: the server does not know the id.
PkRequested(h, double) ==
  /\ Take(h, "request_pk", double)
  /\ UpdateLatency(h)
  /\ Resend(h, "request_pk", double, id)
  /\ UNCHANGED <<roundVars, configVars, testVars, taken, silent>>

PkRegistered(h, double) ==
  /\ Take(h, "ok", double) /\ Received(h, "ok", double)
  /\ UpdateLatency(h)
  /\ key_confirmed' = TRUE
  /\ keys_confirmed' = [keys_confirmed EXCEPT ![h] = TRUE]
  /\ solving' = NoHost
  /\ UNCHANGED <<roundVars, id, testVars, taken, silent>>

\* Config::set_key_confirmed(false)
ForgetKeys == key_confirmed' = FALSE
              /\ keys_confirmed' = IF key_confirmed THEN [h \in Hosts |-> FALSE]
                                                    ELSE keys_confirmed

\* UUID_MISMATCH, and handle_uuid_mismatch: another id, for every server.
Mismatch(h, double) ==
  /\ Take(h, "mismatch", double)
  /\ UpdateLatency(h)
  /\ IF MaySolve(h)
       THEN /\ id < MaxIds /\ id' = id + 1
            /\ solving' = h
            /\ ForgetKeys
            /\ Resend(h, "mismatch", double, id')
       ELSE Received(h, "mismatch", double) /\ UNCHANGED configVars
  /\ UNCHANGED <<roundVars, testVars, taken, silent>>

Answered(h, double) ==
  PeerResponse(h, double) \/ PkRequested(h, double) \/ PkRegistered(h, double) \/ Mismatch(h, double)

-----------------------------------------------------------------------------
(* start_all and restart.                                                  *)

ResetOnline == latency' = [h \in Hosts |-> Unset]

\* the beginning of a round; with stop-service ONLINE is reset again and again
ReadServers ==
  /\ phase = "idle" /\ servers' = option
  /\ solving' = NoHost
  /\ option # servers \/ option # {} \/ \E h \in Hosts : latency[h] # Unset
  /\ phase' = IF option = {} THEN "idle" ELSE "read"
  /\ IF option = {} THEN ResetOnline /\ overwritten' = {}
                    ELSE UNCHANGED <<latency, overwritten>>
  /\ UNCHANGED <<option, asked, shouldExit, running, changes, missed, id, key_confirmed,
                 keys_confirmed, sent, fails, measured, old, testVars, hostVars, faults>>

StartTasks ==
  /\ phase = "read" /\ phase' = "run"
  /\ shouldExit' = FALSE
  /\ running' = servers
  /\ sent' = [h \in Hosts |-> "none"] /\ fails' = [h \in Hosts |-> 0]
  /\ measured' = [h \in Hosts |-> FALSE] /\ old' = [h \in Hosts |-> FALSE]
  /\ answers' = [h \in Hosts |-> {}]
  /\ UNCHANGED <<option, asked, servers, changes, missed, configVars, latency, overwritten,
                 testVars, registered, taken, silent, faults>>

TaskEndsBug(h) == running' = running \ {h} /\ UNCHANGED shouldExit
\* a task is over: the others are told to end too
TaskEnds(h) == running' = running \ {h} /\ shouldExit' = TRUE

\* It sees SHOULD_EXIT, or its socket or the name of the server fails.
TaskExits(h) ==
  /\ h \in running /\ shouldExit
  /\ TaskEnds(h)
  /\ UNCHANGED <<option, asked, phase, servers, changes, missed, configVars, taskVars, testVars,
                 hostVars, faults>>
TaskFails(h) ==
  /\ h \in running /\ Fault
  /\ TaskEnds(h)
  /\ UNCHANGED <<option, asked, phase, servers, changes, missed, configVars, taskVars, testVars, hostVars>>

\* join_all, then reset_online; the pause before the next round is left out.
RoundEnds ==
  /\ phase = "run" /\ running = {}
  /\ phase' = "idle"
  /\ ResetOnline /\ overwritten' = {}
  /\ UNCHANGED <<option, asked, shouldExit, servers, running, changes, missed, configVars, sent,
                 fails, measured, old, testVars, hostVars, faults>>

\* The option is set, by the user or by a ConfigureUpdate, and then restart() is
\* called.  Between the reading of the servers and the store of false in
\* SHOULD_EXIT that has no effect.
ChangeServers(new) ==
  /\ changes < MaxChanges /\ ~asked
  /\ new # option
  /\ option' = new /\ asked' = TRUE /\ changes' = changes + 1
  /\ UNCHANGED <<shouldExit, phase, servers, running, missed, configVars, taskVars, testVars, hostVars, faults>>
Restart ==
  /\ asked /\ asked' = FALSE
  /\ shouldExit' = TRUE
  /\ missed' = (phase = "read" /\ servers # option)
  /\ UNCHANGED <<option, phase, servers, running, changes, configVars, taskVars, testVars, hostVars, faults>>

-----------------------------------------------------------------------------
(* test_rendezvous_server: by start_all, when it begins with stop-service, *)
(* and by Data::TestRendezvousServer at any time, in a thread of its own.  *)

\* Several servers that are configured, with stop-service too; a single one is
\* not tested.
TestBegins(t) ==
  /\ test[t] = "new" /\ test' = [test EXCEPT ![t] = "on"]
  /\ \E hs \in SUBSET Hosts :
       /\ Cardinality(hs) > 1 /\ option \in {{}, hs}
       /\ pending' = pending \cup {<<t, h>> : h \in hs}
  /\ UNCHANGED <<roundVars, configVars, taskVars, hostVars, faults>>

\* It connects, or fails to within CONNECT_TIMEOUT.  The entry is the task's one
\* when the server is configured with its port, and else one of its own.
TestResult(t, h) ==
  /\ <<t, h>> \in pending /\ pending' = pending \ {<<t, h>>}
  /\ \/ /\ \E value \in {-1, 1} : latency' = [latency EXCEPT ![h] = value]
        /\ overwritten' = overwritten \cup {h}
     \/ UNCHANGED <<latency, overwritten>>
  /\ UNCHANGED <<roundVars, configVars, sent, fails, measured, old, test, hostVars, faults>>

\* join_all, then reset_online, of what the tasks wrote too
TestEnds(t) ==
  /\ test[t] = "on" /\ \A h \in Hosts : <<t, h>> \notin pending
  /\ test' = [test EXCEPT ![t] = "over"]
  /\ ResetOnline
  /\ overwritten' = overwritten \cup {h \in Hosts : latency[h] # Unset}
  /\ UNCHANGED <<roundVars, configVars, sent, fails, measured, old, pending, hostVars, faults>>

TestGoesOn(t) == TestEnds(t) \/ \E h \in Hosts : TestResult(t, h)

-----------------------------------------------------------------------------
\* the loop of start_all, and what the loop of a task does by itself
Round == ReadServers \/ StartTasks \/ RoundEnds
Task(h) == TaskExits(h) \/ Late(h) \/ Tick(h) \/ Answered(h, FALSE)

RendezvousNext ==
  \/ Round \/ Restart
  \/ \E new \in SUBSET Hosts : ChangeServers(new)
  \/ \E h \in Hosts :
       \/ Task(h) \/ TaskFails(h) \/ Rebind(h)
       \/ GoesSilent(h) \/ Forgets(h)
       \/ Answered(h, TRUE)
  \/ \E t \in Probes : TestBegins(t) \/ TestGoesOn(t)

RendezvousSpec == RendezvousInit /\ [][RendezvousNext]_rendezvousVars

\* The loops run; restart() is called; to connect takes CONNECT_TIMEOUT at most.
RendezvousFairness ==
  /\ WF_rendezvousVars(Round) /\ WF_rendezvousVars(Restart)
  /\ \A h \in Hosts : WF_rendezvousVars(Task(h))
  /\ \A t \in Probes : WF_rendezvousVars(TestGoesOn(t))

-----------------------------------------------------------------------------
(* Properties.                                                             *)

\* A server shown as reachable has a task that was not left without an answer
\* twice in a row, across rounds, doubled answers and answers to no request; or a
\* test wrote so, and then the test is not over yet: no result outlives its test.
OnlineIsAnswering ==
  \A h \in Hosts : latency[h] = 1 =>
    \/ (h \in running => fails[h] < Fails1) /\ phase = "run"
    \/ h \in overwritten /\ \E t \in Probes : test[t] = "on"

\* A change of the servers reaches the tasks, whatever they wait for, unless the
\* restart fell between the reading of the servers and the start of the tasks.
RestartTakesEffect == <>[](missed \/ running = option)

\* Whatever is lost, late, doubled or forgotten, every server that answers
\* comes to hold the id the machine goes by and is shown as reachable, unless a
\* test removed its entry (the task writes one like it no more), and one that is
\* silent is not; unless the silent one keeps the others from registering: its
\* mismatch is not solved.
RegistrationSettles ==
  <>[](\A h \in Hosts :
         \/ missed \/ (silent # NoHost /\ solving = silent /\ h # silent)
         \/ IF h = silent \/ h \notin option THEN latency[h] # 1
            ELSE id \in registered[h] /\ (latency[h] = 1 \/ h \in overwritten))
=============================================================================
