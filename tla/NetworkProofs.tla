--------------------------- MODULE NetworkProofs ---------------------------
(***************************************************************************)
(* Proofs about Rendezvous, for any number of servers, ids, changes and    *)
(* faults: the types, and who is shown as reachable; and about             *)
(* FileTransfer, for any number of files, blocks, errors, resumptions and  *)
(* failures of the disk: what is sent was agreed to, done means complete,  *)
(* and what happens to the files is what Copying allows.                   *)
(***************************************************************************)
EXTENDS MCNetwork, StreamProofs

-----------------------------------------------------------------------------
(* Rendezvous: what a request and an answer do to the types.               *)

\* What of the types a task may change, beside its timers.
Wire ==
  /\ registered \in [Hosts -> SUBSET Ids]
  /\ answers \in [Hosts -> SUBSET Answers]
  /\ faults \in 0 .. MaxFaults

Keys ==
  /\ key_confirmed \in BOOLEAN /\ keys_confirmed \in [Hosts -> BOOLEAN]
  /\ key_confirmed \/ \A h \in Hosts : ~keys_confirmed[h]
  /\ id \in Ids /\ solving \in Hosts \cup {NoHost}

Timers ==
  /\ sent \in [Hosts -> {"none", "fast", "late"}]
  /\ fails \in [Hosts -> 0 .. Fails2] /\ measured \in [Hosts -> BOOLEAN]
  /\ old \in [Hosts -> BOOLEAN] /\ latency \in [Hosts -> {Unset, -1, 0, 1}]
  /\ overwritten \subseteq Hosts

\* A test is under way as long as it waits for a server.
Probing ==
  /\ test \in [Probes -> {"new", "on", "over"}] /\ pending \subseteq Probes \X Hosts
  /\ \A p \in pending : test[p[1]] = "on"

RoundType ==
  /\ option \subseteq Hosts /\ servers \subseteq Hosts /\ running \subseteq Hosts
  /\ asked \in BOOLEAN /\ shouldExit \in BOOLEAN /\ missed \in BOOLEAN
  /\ phase \in {"idle", "read", "run"}
  /\ changes \in 0 .. MaxChanges
  /\ running \subseteq servers /\ (running # {} => phase = "run")
  /\ silent \in Hosts \cup {NoHost} /\ taken \in [Hosts -> SUBSET Ids]

\* Every h separately: failing to answer and being shown as reachable exclude
\* each other but for a test, and a round or a test that ends has shown nobody.
RendezvousInv == Wire /\ Keys /\ Timers /\ Probing /\ RoundType /\ OnlineIsAnswering

LEMMA Bounds ==
  /\ MaxChanges \in Nat /\ MaxFaults \in Nat /\ MaxIds \in Nat \ {0} /\ 1 \in Ids
  /\ Fails1 \in Nat /\ Fails2 \in Nat /\ 0 < Fails1 /\ Fails1 < Fails2
BY RendezvousAssumption DEF Ids

LEMMA Types == RendezvousInv => RendezvousTypeOK
BY DEF RendezvousInv, Wire, Keys, Timers, Probing, RoundType, RendezvousTypeOK

LEMMA RendezvousBegins == RendezvousInit => RendezvousInv
<1> SUFFICES ASSUME RendezvousInit PROVE RendezvousInv
  OBVIOUS
<1> USE Bounds
<1>1. Wire
  BY DEF RendezvousInit, Wire
<1>2. Keys
  BY DEF RendezvousInit, Keys, Ids
<1>3. Timers /\ Probing
  BY DEF RendezvousInit, Timers, Probing
<1>4. RoundType
  <2>1. taken \in [Hosts -> SUBSET Ids]
    BY DEF RendezvousInit
  <2>2. option \subseteq Hosts
    BY DEF RendezvousInit
  <2> QED BY <2>1, <2>2 DEF RendezvousInit, RoundType
<1>5. OnlineIsAnswering
  BY DEF RendezvousInit, OnlineIsAnswering, Unset
<1> QED BY <1>1, <1>2, <1>3, <1>4, <1>5 DEF RendezvousInv

LEMMA RequestType ==
  ASSUME Wire, NEW h \in Hosts, NEW kind \in {"pk", "peer"}, NEW number \in Ids,
         Request(h, kind, number)
  PROVE  Wire'
BY Bounds DEF Request, Fault, Wire, Answers

LEMMA ResendType ==
  ASSUME Wire, NEW h \in Hosts, NEW double \in BOOLEAN, NEW answer \in Answers,
         NEW number \in Ids, Take(h, answer, double), Resend(h, answer, double, number)
  PROVE  Wire'
BY Bounds DEF Take, Resend, Wire, Answers

LEMMA ReceivedType ==
  ASSUME Wire, NEW h \in Hosts, NEW double \in BOOLEAN, NEW answer \in Answers,
         Take(h, answer, double), Received(h, answer, double)
  PROVE  Wire'
BY Bounds DEF Take, Received, Wire, Answers

\* An answer makes the server reachable, or leaves it as it was.
LEMMA AnswerCounts ==
  ASSUME Timers, Probing, RoundType, OnlineIsAnswering, NEW h \in Hosts, h \in running,
         UpdateLatency(h), UNCHANGED <<roundVars, testVars>>
  PROVE  Timers' /\ Probing' /\ OnlineIsAnswering'
<1> USE Bounds
<1>1. Probing'
  BY DEF testVars, Probing
<1>2. Timers'
  <2>1. /\ sent' \in [Hosts -> {"none", "fast", "late"}] /\ fails' \in [Hosts -> 0 .. Fails2]
        /\ measured' \in [Hosts -> BOOLEAN]
    BY DEF UpdateLatency, Timers
  <2>2. \/ UNCHANGED shownVars
        \/ \E b \in BOOLEAN, value \in {0, 1} :
             old' = [old EXCEPT ![h] = b] /\ Writes(h, value)
    BY <2>1 DEF UpdateLatency
  <2> QED BY <2>1, <2>2 DEF Writes, shownVars, Timers
<1>3. OnlineIsAnswering'
  <2> SUFFICES ASSUME NEW g \in Hosts, latency'[g] = 1
               PROVE  \/ (g \in running' => fails'[g] < Fails1) /\ phase' = "run"
                      \/ g \in overwritten' /\ \E t \in Probes : test'[t] = "on"
    BY DEF OnlineIsAnswering
  <2>1. CASE g = h
    BY <2>1 DEF UpdateLatency, Timers, RoundType, roundVars
  <2>2. CASE g # h
    <3>1. /\ latency'[g] = latency[g] /\ fails'[g] = fails[g]
          /\ g \in overwritten' <=> g \in overwritten
      BY <2>2 DEF UpdateLatency, Writes, shownVars, Timers
    <3> QED BY <3>1 DEF OnlineIsAnswering, roundVars, testVars
  <2> QED BY <2>1, <2>2
<1> QED BY <1>1, <1>2, <1>3

-----------------------------------------------------------------------------
(* Rendezvous: the steps.                                                  *)

LEMMA AnsweredKeeps ==
  ASSUME RendezvousInv, NEW h \in Hosts, NEW double \in BOOLEAN, Answered(h, double)
  PROVE  RendezvousInv'
<1> USE Bounds DEF RendezvousInv
<1>1. CASE PeerResponse(h, double)
  <2>1. Wire'
    BY <1>1, ReceivedType DEF PeerResponse, Answers
  <2>2. Timers' /\ Probing' /\ OnlineIsAnswering'
    BY <1>1, AnswerCounts DEF PeerResponse, Take
  <2>3. Keys' /\ RoundType'
    BY <1>1 DEF PeerResponse, Keys, RoundType, configVars, roundVars
  <2> QED BY <2>1, <2>2, <2>3
<1>2. CASE PkRequested(h, double)
  <2>1. Wire'
    BY <1>2, ResendType DEF PkRequested, Answers, Keys
  <2>2. Timers' /\ Probing' /\ OnlineIsAnswering'
    BY <1>2, AnswerCounts DEF PkRequested, Take
  <2>3. Keys' /\ RoundType'
    BY <1>2 DEF PkRequested, Keys, RoundType, configVars, roundVars
  <2> QED BY <2>1, <2>2, <2>3
<1>3. CASE PkRegistered(h, double)
  <2>1. Wire'
    BY <1>3, ReceivedType DEF PkRegistered, Answers
  <2>2. Timers' /\ Probing' /\ OnlineIsAnswering'
    BY <1>3, AnswerCounts DEF PkRegistered, Take
  <2>3. Keys' /\ RoundType'
    BY <1>3 DEF PkRegistered, Keys, RoundType, roundVars
  <2> QED BY <2>1, <2>2, <2>3
<1>4. CASE Mismatch(h, double)
  <2>1. Keys'
    <3>1. CASE MaySolve(h)
      <4>1. id' \in Ids /\ solving' = h /\ ForgetKeys
        BY <1>4, <3>1 DEF Mismatch, Keys, Ids
      <4> QED BY <4>1 DEF Keys, ForgetKeys
    <3>2. CASE ~MaySolve(h)
      BY <1>4, <3>2 DEF Mismatch, Keys, configVars
    <3> QED BY <3>1, <3>2
  <2>4. RoundType'
    BY <1>4 DEF Mismatch, RoundType, roundVars
  <2>2. Wire'
    BY <1>4, <2>1, ResendType, ReceivedType DEF Mismatch, Answers, Keys
  <2>3. Timers' /\ Probing' /\ OnlineIsAnswering'
    BY <1>4, AnswerCounts DEF Mismatch, Take
  <2> QED BY <2>1, <2>2, <2>3, <2>4
<1> QED BY <1>1, <1>2, <1>3, <1>4 DEF Answered

\* A request that is not answered twice in a row takes its server off the list.
LEMMA TickKeeps ==
  ASSUME RendezvousInv, NEW h \in Hosts, Tick(h)
  PROVE  RendezvousInv'
<1> USE Bounds DEF RendezvousInv
<1>1. Keys' /\ RoundType'
  BY DEF Tick, Keys, RoundType, configVars, roundVars
<1>2. Wire'
  BY RequestType DEF Tick, RegisterPeer, Nothing, Keys, Wire
<1>3. Timers' /\ Probing'
  <2>1. /\ sent' \in [Hosts -> {"none", "fast", "late"}] /\ fails' \in [Hosts -> 0 .. Fails2]
        /\ measured' \in [Hosts -> BOOLEAN] /\ Probing'
    BY DEF Tick, Timers, Probing, testVars
  <2>2. \/ UNCHANGED shownVars
        \/ old' = [old EXCEPT ![h] = FALSE] /\ \E value \in {-1, 0} : Writes(h, value)
    BY DEF Tick, Failed, ShownAfter, shownVars
  <2> QED BY <2>1, <2>2 DEF Writes, shownVars, Timers
<1>4. OnlineIsAnswering'
  <2> SUFFICES ASSUME NEW g \in Hosts, latency'[g] = 1
               PROVE  \/ (g \in running' => fails'[g] < Fails1) /\ phase' = "run"
                      \/ g \in overwritten' /\ \E t \in Probes : test'[t] = "on"
    BY DEF OnlineIsAnswering
  <2>1. CASE g # h
    <3>1. /\ latency'[g] = latency[g] /\ fails'[g] = fails[g]
          /\ g \in overwritten' <=> g \in overwritten
      BY <2>1 DEF Tick, Failed, Writes, shownVars, Timers
    <3> QED BY <3>1 DEF Tick, OnlineIsAnswering, roundVars, testVars
  <2>2. CASE g = h
    <3>1. fails'[h] < Fails1 \/ UNCHANGED <<fails, shownVars>>
      BY <2>2 DEF Tick, Failed, ShownAfter, Writes, Timers
    <3> QED BY <2>2, <3>1 DEF Tick, OnlineIsAnswering, roundVars, testVars, shownVars, RoundType
  <2> QED BY <2>1, <2>2
<1> QED BY <1>1, <1>2, <1>3, <1>4

LEMMA TaskKeeps ==
  ASSUME RendezvousInv, NEW h \in Hosts, \/ Late(h) \/ TaskExits(h) \/ TaskFails(h) \/ Rebind(h)
  PROVE  RendezvousInv'
<1> USE Bounds DEF RendezvousInv
<1>1. Keys'
  BY DEF Late, TaskExits, TaskFails, Rebind, Keys, configVars
<1>2. RoundType'
  BY DEF Late, TaskExits, TaskFails, Rebind, RoundType, roundVars, TaskEnds, hostVars
<1>3. Wire'
  BY DEF Late, TaskExits, TaskFails, Rebind, Wire, hostVars, Fault
<1>4. Timers' /\ Probing'
  BY DEF Late, TaskExits, TaskFails, Rebind, Timers, Probing, taskVars, shownVars, testVars
<1>5. OnlineIsAnswering'
  BY DEF Late, TaskExits, TaskFails, Rebind, OnlineIsAnswering, taskVars, shownVars, testVars,
     roundVars, TaskEnds
<1> QED BY <1>1, <1>2, <1>3, <1>4, <1>5

\* The loop of start_all: a round begins and ends with nobody reachable.
LEMMA RoundKeeps == ASSUME RendezvousInv, Round \/ Restart PROVE RendezvousInv'
<1> USE Bounds DEF RendezvousInv
<1>1. Keys'
  BY DEF Round, ReadServers, StartTasks, RoundEnds, Restart, Keys, configVars
<1>2. RoundType'
  BY DEF Round, ReadServers, StartTasks, RoundEnds, Restart, RoundType, hostVars
<1>3. Wire'
  BY DEF Round, ReadServers, StartTasks, RoundEnds, Restart, Wire, hostVars
<1>4. Timers' /\ Probing'
  <2>1. CASE ReadServers \/ RoundEnds
    BY <2>1 DEF ReadServers, RoundEnds, ResetOnline, Timers, Probing, testVars
  <2>2. CASE StartTasks
    <3>1. 0 \in 0 .. Fails2
      OBVIOUS
    <3>2. /\ sent' \in [Hosts -> {"none", "fast", "late"}] /\ measured' \in [Hosts -> BOOLEAN]
          /\ old' \in [Hosts -> BOOLEAN]
      BY <2>2 DEF StartTasks
    <3> QED BY <2>2, <3>1, <3>2 DEF StartTasks, Timers, Probing, testVars
  <2>3. CASE Restart
    BY <2>3 DEF Restart, Timers, Probing, taskVars, shownVars, testVars
  <2> QED BY <2>1, <2>2, <2>3 DEF Round
<1>5. OnlineIsAnswering'
  BY DEF Round, ReadServers, StartTasks, RoundEnds, ResetOnline, Restart, OnlineIsAnswering,
     taskVars, shownVars, testVars, Unset, Timers, RoundType
<1> QED BY <1>1, <1>2, <1>3, <1>4, <1>5

LEMMA OutsideKeeps ==
  ASSUME RendezvousInv,
         \/ \E new \in SUBSET Hosts : ChangeServers(new)
         \/ \E h \in Hosts : GoesSilent(h) \/ Forgets(h)
         \/ UNCHANGED rendezvousVars
  PROVE  RendezvousInv'
<1> USE Bounds DEF RendezvousInv
<1>1. Keys' /\ Timers' /\ Probing'
  BY DEF ChangeServers, GoesSilent, Forgets, Keys, Timers, Probing, configVars, taskVars,
     shownVars, testVars, rendezvousVars
<1>2. RoundType'
  <2>1. CASE \E new \in SUBSET Hosts : ChangeServers(new)
    BY <2>1 DEF ChangeServers, RoundType, hostVars
  <2>2. CASE \E h \in Hosts : GoesSilent(h) \/ Forgets(h)
    BY <2>2 DEF GoesSilent, Forgets, RoundType, roundVars
  <2>3. CASE UNCHANGED rendezvousVars
    BY <2>3 DEF RoundType, roundVars, hostVars, rendezvousVars
  <2> QED BY <2>1, <2>2, <2>3
<1>3. Wire'
  BY DEF ChangeServers, GoesSilent, Forgets, Wire, hostVars, Fault, rendezvousVars
<1>4. OnlineIsAnswering'
  BY DEF ChangeServers, GoesSilent, Forgets, OnlineIsAnswering, taskVars, shownVars,
     testVars, roundVars, rendezvousVars
<1> QED BY <1>1, <1>2, <1>3, <1>4

\* A test shows a server as reachable only while it is under way, and a test that
\* ends shows nobody.
LEMMA TestKeeps ==
  ASSUME RendezvousInv, NEW t \in Probes, TestBegins(t) \/ TestGoesOn(t)
  PROVE  RendezvousInv'
<1> USE Bounds DEF RendezvousInv
<1>1. Keys' /\ RoundType' /\ Wire'
  BY DEF TestBegins, TestGoesOn, TestResult, TestEnds, Keys, RoundType, Wire, configVars,
     roundVars, hostVars
<1>2. CASE TestBegins(t)
  <2>1. test' = [test EXCEPT ![t] = "on"]
    BY <1>2 DEF TestBegins
  <2>2. PICK hs \in SUBSET Hosts : pending' = pending \cup {<<t, h>> : h \in hs}
    BY <1>2 DEF TestBegins
  <2>3. Probing'
    BY <2>1, <2>2 DEF Probing
  <2>4. Timers' /\ OnlineIsAnswering'
    BY <1>2, <2>1 DEF TestBegins, Timers, Probing, OnlineIsAnswering, taskVars, shownVars, roundVars
  <2> QED BY <1>1, <2>3, <2>4
<1>3. ASSUME NEW h \in Hosts, TestResult(t, h) PROVE RendezvousInv'
  <2>1. Probing' /\ test[t] = "on" /\ test' = test
    BY <1>3 DEF TestResult, Probing
  <2>2. Timers'
    BY <1>3 DEF TestResult, Timers
  <2>3. OnlineIsAnswering'
    BY <1>3, <2>1 DEF TestResult, Timers, OnlineIsAnswering, roundVars
  <2> QED BY <1>1, <2>1, <2>2, <2>3
<1>4. CASE TestEnds(t)
  <2>1. Probing'
    BY <1>4 DEF TestEnds, Probing
  <2>2. Timers' /\ OnlineIsAnswering'
    BY <1>4 DEF TestEnds, ResetOnline, Timers, OnlineIsAnswering, Unset
  <2> QED BY <1>1, <2>1, <2>2
<1> QED BY <1>2, <1>3, <1>4 DEF TestGoesOn

LEMMA RendezvousStep == RendezvousInv /\ [RendezvousNext]_rendezvousVars => RendezvousInv'
<1> SUFFICES ASSUME RendezvousInv, [RendezvousNext]_rendezvousVars
             PROVE  RendezvousInv'
  OBVIOUS
<1>1. CASE Round \/ Restart
  BY <1>1, RoundKeeps
<1>2. ASSUME NEW h \in Hosts, Task(h) \/ TaskFails(h) \/ Rebind(h) \/ Answered(h, TRUE)
      PROVE  RendezvousInv'
  BY <1>2, TaskKeeps, TickKeeps, AnsweredKeeps DEF Task
<1>3. CASE \/ \E new \in SUBSET Hosts : ChangeServers(new)
           \/ \E h \in Hosts : GoesSilent(h) \/ Forgets(h)
           \/ UNCHANGED rendezvousVars
  BY <1>3, OutsideKeeps
<1>4. ASSUME NEW t \in Probes, TestBegins(t) \/ TestGoesOn(t) PROVE RendezvousInv'
  BY <1>4, TestKeeps
<1> QED BY <1>1, <1>2, <1>3, <1>4 DEF RendezvousNext

THEOREM RendezvousInvariance == RendezvousSpec => []RendezvousInv
BY RendezvousBegins, RendezvousStep, PTL DEF RendezvousSpec

\* The variables of the mediator, of the servers and of the network keep their
\* types; no server's key is confirmed unless the machine's is (Config).
THEOREM RendezvousTypes == RendezvousSpec => []RendezvousTypeOK
BY RendezvousInvariance, Types, PTL

\* A server shown as reachable has a task that was not left without an answer twice
\* in a row, or was written down so by a test that is not over (start_udp,
\* update_latency, reset_online, test_rendezvous_server).
THEOREM OnlineAlwaysAnswering == RendezvousSpec => []OnlineIsAnswering
<1>1. RendezvousInv => OnlineIsAnswering
  BY DEF RendezvousInv
<1> QED BY <1>1, RendezvousInvariance, PTL

\* The order of the kinds, when a message is added at the end ...
LEMMA AppendHas ==
  ASSUME NEW S, NEW s \in Seq(S), NEW x \in S
  PROVE  /\ Append(s, x) \in Seq(S)
         /\ \A A : Has(Append(s, x), A) <=> Has(s, A) \/ x.kind \in A
         /\ \A A, B : Before(s, A, B) /\ (x.kind \in A => ~Has(s, B) /\ x.kind \notin B)
                        => Before(Append(s, x), A, B)
         /\ \A A : AtMostOne(s, A) /\ (x.kind \in A => ~Has(s, A))
                        => AtMostOne(Append(s, x), A)
<1>1. PICK t \in Seq(S) : t = Append(s, x)
  BY AppendProperties
<1>2. PICK n \in Nat : n = Len(s)
  BY LenProperties
<1>3. Len(t) = n + 1 /\ t[n + 1] = x /\ \A i \in 1 .. n : t[i] = s[i]
  BY <1>1, <1>2, AppendProperties
<1>4. \A i : i \in 1 .. n + 1 <=> i \in 1 .. n \/ i = n + 1
  OBVIOUS
<1>5. \A A : Has(t, A) <=> Has(s, A) \/ x.kind \in A
  BY <1>2, <1>3, <1>4 DEF Has
<1>6. ASSUME NEW A, NEW B, Before(s, A, B), x.kind \in A => ~Has(s, B) /\ x.kind \notin B
      PROVE  Before(t, A, B)
  <2> SUFFICES ASSUME NEW i \in 1 .. Len(t), NEW j \in 1 .. Len(t),
                      t[i].kind \in A, t[j].kind \in B
               PROVE  i < j
    BY DEF Before
  <2>1. CASE i = n + 1
    BY <1>2, <1>3, <1>4, <1>6, <2>1 DEF Has
  <2>2. CASE i \in 1 .. n /\ j = n + 1
    BY <2>2
  <2>3. CASE i \in 1 .. n /\ j \in 1 .. n
    BY <1>2, <1>3, <1>6, <2>3 DEF Before
  <2> QED BY <1>3, <1>4, <2>1, <2>2, <2>3
<1>7. ASSUME NEW A, AtMostOne(s, A), x.kind \in A => ~Has(s, A)
      PROVE  AtMostOne(t, A)
  <2> SUFFICES ASSUME NEW i \in 1 .. Len(t), NEW j \in 1 .. Len(t),
                      t[i].kind \in A, t[j].kind \in A
               PROVE  i = j
    BY DEF AtMostOne
  <2> QED BY <1>2, <1>3, <1>4, <1>7 DEF AtMostOne, Has
<1> QED BY <1>1, <1>5, <1>6, <1>7

\* ... and when the first is taken.
LEMMA TailHas ==
  ASSUME NEW S, NEW s \in Seq(S), s # <<>>
  PROVE  /\ Tail(s) \in Seq(S) /\ Head(s) \in S
         /\ \A A : Has(s, A) <=> Head(s).kind \in A \/ Has(Tail(s), A)
         /\ \A A, B : Before(s, A, B) =>
              Before(Tail(s), A, B) /\ (Head(s).kind \in B => ~Has(Tail(s), A))
         /\ \A A : AtMostOne(s, A) =>
              AtMostOne(Tail(s), A) /\ (Head(s).kind \in A => ~Has(Tail(s), A))
<1>1. PICK t \in Seq(S), n \in Nat : t = Tail(s) /\ n = Len(t)
  BY HeadTailProperties, LenProperties
<1>2. /\ Head(s) \in S /\ Head(s) = s[1] /\ Len(s) = n + 1
      /\ \A i \in 1 .. n : t[i] = s[i + 1]
  BY <1>1, HeadTailProperties, LenProperties
<1>3. \A i \in 1 .. n : i + 1 \in 1 .. n + 1 /\ i + 1 # 1 /\ 1 < i + 1
  OBVIOUS
<1>4. \A i \in 1 .. n + 1 : i = 1 \/ \E j \in 1 .. n : i = j + 1
  <2> SUFFICES ASSUME NEW i \in 1 .. n + 1, i # 1 PROVE \E j \in 1 .. n : i = j + 1
    OBVIOUS
  <2>1. i - 1 \in 1 .. n /\ i = (i - 1) + 1
    OBVIOUS
  <2> QED BY <2>1
<1>5. \A A : Has(s, A) <=> Head(s).kind \in A \/ Has(t, A)
  <2> SUFFICES ASSUME NEW A PROVE Has(s, A) <=> Head(s).kind \in A \/ Has(t, A)
    OBVIOUS
  <2>0. 1 \in 1 .. n + 1
    OBVIOUS
  <2>1. ASSUME Has(s, A) PROVE Head(s).kind \in A \/ Has(t, A)
    <3>1. PICK i \in 1 .. n + 1 : s[i].kind \in A
      BY <1>2, <2>1 DEF Has
    <3> QED BY <1>1, <1>2, <1>4, <3>1 DEF Has
  <2>2. ASSUME Has(t, A) PROVE Has(s, A)
    <3>1. PICK i \in 1 .. n : t[i].kind \in A
      BY <1>1, <2>2 DEF Has
    <3>2. s[i + 1].kind \in A /\ i + 1 \in 1 .. Len(s)
      BY <1>2, <1>3, <3>1
    <3> QED BY <3>2 DEF Has
  <2>3. Head(s).kind \in A => Has(s, A)
    BY <1>2, <2>0 DEF Has
  <2> QED BY <2>1, <2>2, <2>3
<1>6. ASSUME NEW A, NEW B, Before(s, A, B)
      PROVE  Before(t, A, B) /\ (Head(s).kind \in B => ~Has(t, A))
  <2>1. ASSUME NEW i \in 1 .. n, NEW j \in 1 .. n, t[i].kind \in A, t[j].kind \in B
        PROVE  i < j
    <3>1. s[i + 1].kind \in A /\ s[j + 1].kind \in B /\ i + 1 \in 1 .. Len(s)
          /\ j + 1 \in 1 .. Len(s)
      BY <1>2, <1>3, <2>1
    <3>2. i + 1 < j + 1
      BY <1>6, <3>1 DEF Before
    <3> QED BY <3>2
  <2>2. ASSUME Head(s).kind \in B, NEW i \in 1 .. n, t[i].kind \in A PROVE FALSE
    <3>1. s[i + 1].kind \in A /\ s[1].kind \in B /\ i + 1 \in 1 .. Len(s) /\ 1 \in 1 .. Len(s)
      BY <1>2, <1>3, <2>2
    <3>2. i + 1 < 1
      BY <1>6, <3>1 DEF Before
    <3> QED BY <3>2
  <2> QED BY <1>1, <2>1, <2>2 DEF Before, Has
<1>7. ASSUME NEW A, AtMostOne(s, A)
      PROVE  AtMostOne(t, A) /\ (Head(s).kind \in A => ~Has(t, A))
  <2>1. ASSUME NEW i \in 1 .. n, NEW j \in 1 .. n, t[i].kind \in A, t[j].kind \in A
        PROVE  i = j
    <3>1. s[i + 1].kind \in A /\ s[j + 1].kind \in A /\ i + 1 \in 1 .. Len(s)
          /\ j + 1 \in 1 .. Len(s)
      BY <1>2, <1>3, <2>1
    <3>2. i + 1 = j + 1
      BY <1>7, <3>1 DEF AtMostOne
    <3> QED BY <3>2
  <2>2. ASSUME Head(s).kind \in A, NEW i \in 1 .. n, t[i].kind \in A PROVE FALSE
    <3>1. s[i + 1].kind \in A /\ s[1].kind \in A /\ i + 1 \in 1 .. Len(s) /\ 1 \in 1 .. Len(s)
      BY <1>2, <1>3, <2>2
    <3>2. i + 1 = 1
      BY <1>7, <3>1 DEF AtMostOne
    <3> QED BY <3>2
  <2> QED BY <1>1, <2>1, <2>2 DEF AtMostOne, Has
<1> QED BY <1>1, <1>2, <1>5, <1>6, <1>7

-----------------------------------------------------------------------------
(* FileTransfer: the invariant.                                            *)

\* The types of the two jobs, of the disk and of what is under way.
JobTypes ==
  /\ download \in BOOLEAN
  /\ file \in [Files -> Contents] /\ part \in [Files -> Contents]
  /\ stamp \in [Files -> {"none", "current", "other"}]
  /\ reader \in Readers /\ writer \in Writers
  /\ is_resume \in BOOLEAN /\ strategy \in {"ask", "overwrite", "skip"}
  /\ question \in 0 .. N /\ meta \in 0 .. N + 1
  /\ toWriter \in Seq(Messages) /\ toReader \in Seq(Messages)
  /\ resumes \in 0 .. MaxResumes /\ errors \in 0 .. MaxErrors /\ failures \in 0 .. MaxFailures
  /\ excused \subseteq Files /\ refused \subseteq Files /\ agreed \subseteq Files
  /\ cancelled \in BOOLEAN /\ done \in BOOLEAN

\* A place in what the reader sends: before a file, when it has asked about one,
\* so many blocks into one, or on the way to there; or where nothing matters.
Place(k, f, n) == [k |-> k, f |-> f, n |-> n]
Over == Place("over", 0, 0)
ToBegin(f) == Place("begin", f, 0)
Asked(f) == Place("asked", f, 0)
Sending(f, n) == Place("sending", f, n)
Told(f, n) == Place("told", f, n)

\* The place a message is sent at, and the one it leads to.
From(m) ==
  IF m.kind = "digest" THEN ToBegin(m.f)
  ELSE IF m.kind = "confirm" THEN Told(m.f, m.n)
  ELSE IF m.kind = "block" THEN Sending(m.f, IF m.n = 0 THEN Size ELSE m.n - 1)
  ELSE IF m.kind = "done" THEN ToBegin(N + 1)
  ELSE Over
To(m) ==
  IF m.kind = "digest" THEN Asked(m.f)
  ELSE IF m.kind = "confirm" THEN IF m.n = Skip THEN ToBegin(m.f + 1) ELSE Sending(m.f, m.n)
  ELSE IF m.kind = "block" THEN IF m.n = 0 THEN ToBegin(m.f + 1) ELSE Sending(m.f, m.n)
  ELSE Over
Joined(p, q) == p = q \/ p = Over \/ q = Over
Linked(s) == \A i \in 1 .. Len(s) - 1 : Joined(To(s[i]), From(s[i + 1]))
LeadsTo(s, p) == s # <<>> => Joined(To(s[Len(s)]), p)

\* Where the reader is ...
Stage(r) ==
  IF ~r.there THEN Over
  ELSE IF r.confirmed THEN Sending(r.num, r.pos)
  ELSE IF r.waiting THEN Asked(r.num) ELSE ToBegin(r.num)

\* ... and where the writer is: what it gets next is under way, or what the reader
\* sends once it has got an answer, or by itself.
Token(a) == IF a = <<>> THEN Plain("cancel") ELSE a[1]
WriterAt(s, a, r) ==
  IF s # <<>> THEN From(s[1])
  ELSE IF r.there /\ Token(a).kind = "confirm" THEN To(Token(a)) ELSE Stage(r)

\* What the writer's side has.
Counts == download \/ resumes = 0
Have == [file |-> file, part |-> part, refused |-> refused, excused |-> excused,
         counts |-> Counts]
Mine(h) == Files \ h.excused

\* The files before the writer's have arrived, or are to be kept ...
Behind(h, w) ==
  h.counts => \A g \in Mine(h) : g < w.num => h.file[g] = Source \/ g \in h.refused
\* ... and so have those up to f.
Arrived(h, w, f) ==
  h.counts => \A g \in Mine(h) : w.num <= g /\ g < f =>
    g \in h.refused \/ (g = w.num /\ Source = IF h.part[g] = NoFile THEN h.file[g] ELSE h.part[g])

\* The writer's file can be renamed.
Settled(h, w) == w.num \in Mine(h) => h.part[w.num] \in {NoFile, Source}

\* The writer may begin with f, or go on with it after n blocks.
MayBegin(h, w, f) ==
  /\ w.num <= f /\ Arrived(h, w, f)
  /\ w.num = f => ~w.open
  /\ w.num < f => Settled(h, w)
MayGoOn(h, w, f, n) ==
  /\ w.num <= f /\ Arrived(h, w, f)
  /\ w.num = f /\ w.open /\ w.into = f =>
       h.part[f] # NoFile /\ Len(h.part[f]) <= n /\ (f \in Mine(h) => Len(h.part[f]) = n)
  /\ w.num = f /\ w.open /\ w.into # f => f \notin Mine(h)
  /\ ~(w.num = f /\ w.open) =>
       (f \in Mine(h) => n = 0 /\ h.part[f] = NoFile) /\ (w.num < f => Settled(h, w))

Fits(h, w, p) ==
  /\ p.k \in {"begin", "asked"} => MayBegin(h, w, p.f)
  /\ p.k = "sending" => MayGoOn(h, w, p.f, p.n)
  /\ p.k = "told" =>
       IF p.n = Skip THEN MayBegin(h, WriterConfirm(w, p.f, Skip), p.f + 1)
                     ELSE MayGoOn(h, WriterConfirm(w, p.f, p.n), p.f, p.n)

\* Every message under way begins where the one before it leads, the last leads to
\* where the reader is, and the writer can go on from where the first begins.
Chain ==
  /\ Linked(toWriter) /\ LeadsTo(toWriter, Stage(reader))
  /\ writer.there => Fits(Have, writer, WriterAt(toWriter, toReader, reader))

\* The kinds of the messages.
Digests == {"digest"}
Cancels == {"cancel"}
Dones == {"done"}
Verdicts == {"digest", "confirm"}
Works == {"block", "confirm", "done", "error"}

\* One question about one file at a time.
Alone(a) == a = <<>> \/ (Len(a) = 1 /\ a[1].kind \in Verdicts)
OneTalk ==
  /\ Before(toWriter, Works, Digests) /\ AtMostOne(toWriter, Digests)
  /\ \A i \in 2 .. Len(toReader) : toReader[i] = Plain("cancel")
  /\ Token(toReader).kind \in Verdicts \cup Cancels
  /\ Token(toReader).kind \in Verdicts => question = 0
  /\ question # 0 \/ Token(toReader).kind \in Verdicts => ~Has(toWriter, Works \cup Digests)
  /\ reader.there /\ (reader.confirmed \/ ~reader.waiting) =>
       question = 0 /\ Token(toReader).kind = "cancel" /\ ~Has(toWriter, Digests)
  /\ reader.there /\ question # 0 => question = reader.num
  /\ reader.there /\ Token(toReader).kind \in Verdicts => Token(toReader).f = reader.num
  /\ Has(toWriter, Cancels) => ~download /\ ~reader.there
  /\ download => Token(toReader).kind # "digest" /\ (question # 0 => writer.there)
  /\ writer.there => Alone(toReader)
  /\ meta # 0 =>
       toWriter = <<>> /\ toReader = <<>> /\ question = 0 /\ ~reader.there /\ ~writer.there

\* What is known of a file when it is decided about.
Known ==
  writer.there =>
    /\ question # 0 => MayBegin(Have, writer, question) /\ Transferred(question) = 0
    /\ Token(toReader).kind = "digest" => Token(toReader).n = Transferred(Token(toReader).f)

\* The reader's job: what is confirmed is open, what is open waits for its answer.
Shape ==
  /\ reader.confirmed => reader.open /\ reader.there /\ reader.num \in Files
  /\ reader.there => (reader.waiting <=> reader.open)
  /\ ~reader.confirmed => reader.pos = 0
  /\ reader.there /\ reader.waiting => reader.num \in Files

\* Agreement reaches from the answers to the blocks under way.
Agreeing ==
  /\ \A m \in Range(toWriter) : m.kind = "block" =>
       m.f \in agreed /\ m.n # Skip /\ (reader.there => m.f <= reader.num)
  /\ \A m \in Range(toWriter) : m.kind = "confirm" /\ m.n = Skip => m.f \in refused
  /\ reader.confirmed => reader.num \in agreed
  /\ Token(toReader).kind = "confirm" /\ Token(toReader).n # Skip => Token(toReader).f \in agreed

\* A file fi and its x.download pa: unless it is excused, what this transfer wrote
\* is a beginning of the source, and what it renamed is all of it.
Good(f, fi, pa, st, out) ==
  /\ pa # NoFile => pa \in Seq(0 .. Size) /\ Len(pa) <= Size
  /\ fi \in {NoFile, Old} \/ (fi \in Seq(0 .. Size) /\ Len(fi) <= Size)
  /\ f \notin out => (pa = NoFile <=> st = "none")
  /\ f \notin out /\ pa # NoFile =>
       st = "current" /\ Len(pa) > 0 /\ \A i \in 1 .. Len(pa) : pa[i] = i
  /\ f \notin out => fi \in {NoFile, Old, Source}

\* Nothing is begun of the files after k.
Blanks(h, k) == \A g \in Mine(h) : g > k => h.part[g] = NoFile

\* The writer's disk, as far as the jobs have got.
Disk ==
  /\ \A f \in Files : Good(f, file[f], part[f], stamp[f], excused)
  /\ writer.there => Blanks(Have, writer.num) /\ Behind(Have, writer)
  /\ reader.there => Blanks(Have, reader.num)
  /\ meta # 0 => Blanks(Have, meta) /\ resumes # 0
  /\ meta # 0 /\ download => \A g \in Mine(Have) : g < meta => Whole(g) \/ g \in refused
  /\ writer.there /\ writer.open =>
       writer.num \in Files /\ writer.into \in Files /\ writer.into <= writer.num
  /\ writer.there /\ ~writer.open /\ ~is_resume /\ writer.num \in Mine(Have)
       => part[writer.num] = NoFile

\* Nothing comes after the end of a job.
Ended ==
  /\ Has(toWriter, Dones) => ~reader.there /\ question = 0
  /\ done /\ Counts =>
       ~reader.there /\ ~writer.there /\ question = 0 /\ meta = 0 /\ DoneIsComplete

\* The inductive invariant of FileTransfer.
TransferInv == JobTypes /\ Shape /\ OneTalk /\ Known /\ Agreeing /\ Disk /\ Chain /\ Ended
-----------------------------------------------------------------------------
(* FileTransfer: the operators.                                            *)

\* The numbers of files, blocks and faults.
LEMMA Numbers ==
  /\ N \in Nat /\ N >= 1 /\ Size \in Nat /\ Size >= 1 /\ MaxResumes \in Nat /\ MaxErrors \in Nat
  /\ MaxFailures \in Nat
  /\ \A f : f \in Files <=> f \in Nat /\ 1 <= f /\ f <= N
  /\ \A n : n \in Hows <=> n = -1 \/ n \in 0 .. Size
  /\ Skip = -1 /\ Skip \notin Nat
BY FileTransferAssumption DEF Files, Hows, Skip

\* The messages, the places, and how they hang together.
LEMMA MessageFields ==
  /\ \A kind \in {"digest", "block", "confirm"}, f \in Files, n \in Hows :
       /\ Message(kind, f, n) \in Messages
       /\ Message(kind, f, n).kind = kind /\ Message(kind, f, n).f = f /\ Message(kind, f, n).n = n
  /\ \A kind \in {"done", "error", "cancel"} :
       Plain(kind) \in Messages /\ Plain(kind).kind = kind
  /\ \A m \in Messages :
       \/ m.kind \in {"digest", "block", "confirm"} /\ m.f \in Files /\ m.n \in Hows
       \/ m.kind \in {"done", "error", "cancel"}
BY DEF Messages, Message, Plain

LEMMA Places ==
  /\ \A f : ToBegin(f).k = "begin" /\ ToBegin(f).f = f
  /\ \A f : Asked(f).k = "asked" /\ Asked(f).f = f
  /\ \A f, n : Sending(f, n).k = "sending" /\ Sending(f, n).f = f /\ Sending(f, n).n = n
  /\ \A f, n : Told(f, n).k = "told" /\ Told(f, n).f = f /\ Told(f, n).n = n
  /\ Over.k = "over"
BY DEF ToBegin, Asked, Sending, Told, Over, Place

LEMMA FromTo ==
  /\ \A f \in Files :
       From(Message("digest", f, 0)) = ToBegin(f) /\ To(Message("digest", f, 0)) = Asked(f)
  /\ \A f \in Files, n \in Hows :
       /\ From(Message("confirm", f, n)) = Told(f, n)
       /\ To(Message("confirm", f, n)) = IF n = Skip THEN ToBegin(f + 1) ELSE Sending(f, n)
  /\ \A f \in Files, n \in 0 .. Size :
       /\ From(Message("block", f, n)) = Sending(f, IF n = 0 THEN Size ELSE n - 1)
       /\ To(Message("block", f, n)) = IF n = 0 THEN ToBegin(f + 1) ELSE Sending(f, n)
  /\ From(Plain("done")) = ToBegin(N + 1) /\ To(Plain("done")) = Over
  /\ \A kind \in {"error", "cancel"} : From(Plain(kind)) = Over /\ To(Plain(kind)) = Over
<1>1. 0 \in Hows /\ \A n \in 0 .. Size : n \in Hows
  BY Numbers
<1>2. \A f \in Files :
       From(Message("digest", f, 0)) = ToBegin(f) /\ To(Message("digest", f, 0)) = Asked(f)
  BY <1>1, MessageFields DEF From, To
<1>3. \A f \in Files, n \in Hows :
       /\ From(Message("confirm", f, n)) = Told(f, n)
       /\ To(Message("confirm", f, n)) = IF n = Skip THEN ToBegin(f + 1) ELSE Sending(f, n)
  BY MessageFields DEF From, To
<1>4. \A f \in Files, n \in 0 .. Size :
       /\ From(Message("block", f, n)) = Sending(f, IF n = 0 THEN Size ELSE n - 1)
       /\ To(Message("block", f, n)) = IF n = 0 THEN ToBegin(f + 1) ELSE Sending(f, n)
  BY <1>1, MessageFields DEF From, To
<1>5. /\ From(Plain("done")) = ToBegin(N + 1) /\ To(Plain("done")) = Over
      /\ \A kind \in {"error", "cancel"} : From(Plain(kind)) = Over /\ To(Plain(kind)) = Over
  BY MessageFields DEF From, To
<1> QED BY <1>2, <1>3, <1>4, <1>5

LEMMA FitsPlaces ==
  ASSUME NEW h, NEW w
  PROVE  /\ \A f : Fits(h, w, ToBegin(f)) <=> MayBegin(h, w, f)
         /\ \A f : Fits(h, w, Asked(f)) <=> MayBegin(h, w, f)
         /\ \A f, n : Fits(h, w, Sending(f, n)) <=> MayGoOn(h, w, f, n)
         /\ \A f : Fits(h, w, Told(f, Skip)) <=> MayBegin(h, WriterConfirm(w, f, Skip), f + 1)
         /\ \A f, n : n # Skip =>
              (Fits(h, w, Told(f, n)) <=> MayGoOn(h, WriterConfirm(w, f, n), f, n))
         /\ Fits(h, w, Over)
BY Places DEF Fits

\* A message is added at the end, or taken from the beginning.
LEMMA LinkAppend ==
  ASSUME NEW s \in Seq(Messages), NEW x \in Messages, NEW p, NEW q,
         Linked(s), LeadsTo(s, p), From(x) = p \/ From(x) = Over \/ s = <<>>, Joined(To(x), q)
  PROVE  /\ Linked(Append(s, x)) /\ LeadsTo(Append(s, x), q)
         /\ Append(s, x) # <<>> /\ Append(s, x)[1] = IF s = <<>> THEN x ELSE s[1]
<1>1. PICK t \in Seq(Messages), n \in Nat : t = Append(s, x) /\ n = Len(s)
  BY AppendProperties, LenProperties
<1>2. Len(t) = n + 1 /\ t[n + 1] = x /\ \A i \in 1 .. n : t[i] = s[i]
  BY <1>1, AppendProperties
<1>3. t # <<>> /\ (s = <<>> <=> n = 0)
  BY <1>1, <1>2, EmptySeq
<1>4. t[1] = IF s = <<>> THEN x ELSE s[1]
  BY <1>2, <1>3
<1>5. ASSUME NEW i \in 1 .. n PROVE Joined(To(t[i]), From(t[i + 1]))
  <2>1. CASE i = n
    BY <1>1, <1>2, <1>3, <2>1 DEF LeadsTo, Joined
  <2>2. CASE i # n
    <3>1. i \in 1 .. n - 1 /\ i + 1 \in 1 .. n
      BY <2>2
    <3> QED BY <1>1, <1>2, <3>1 DEF Linked
  <2> QED BY <2>1, <2>2
<1> QED BY <1>1, <1>2, <1>3, <1>4, <1>5 DEF Linked, LeadsTo

LEMMA LinkTail ==
  ASSUME NEW s \in Seq(Messages), s # <<>>, NEW p, Linked(s), LeadsTo(s, p)
  PROVE  /\ Linked(Tail(s)) /\ LeadsTo(Tail(s), p)
         /\ Tail(s) # <<>> => Tail(s)[1] \in Messages /\ Joined(To(Head(s)), From(Tail(s)[1]))
         /\ Tail(s) = <<>> => Joined(To(Head(s)), p)
         /\ Head(s) = s[1]
<1>1. PICK t \in Seq(Messages), n \in Nat : t = Tail(s) /\ n = Len(t)
  BY HeadTailProperties, LenProperties
<1>2. Len(s) = n + 1 /\ (\A i \in 1 .. n : t[i] = s[i + 1]) /\ Head(s) = s[1]
  BY <1>1, HeadTailProperties, LenProperties
<1>3. t = <<>> <=> n = 0
  BY <1>1, EmptySeq
<1>4. \A i \in 1 .. n - 1 : i + 1 \in 1 .. n /\ (i + 1) + 1 = i + 2 /\ i \in 1 .. n
  OBVIOUS
<1>5. ASSUME NEW i \in 1 .. n PROVE Joined(To(s[i]), From(s[i + 1]))
  BY <1>2 DEF Linked
<1>6. Linked(t)
  BY <1>1, <1>2, <1>4, <1>5 DEF Linked
<1>7. LeadsTo(t, p)
  BY <1>1, <1>2, <1>3 DEF LeadsTo
<1>8. t # <<>> => t[1] \in Messages /\ Joined(To(Head(s)), From(t[1]))
  <2> SUFFICES ASSUME t # <<>> PROVE t[1] \in Messages /\ Joined(To(Head(s)), From(t[1]))
    OBVIOUS
  <2>1. 1 \in 1 .. n /\ 1 + 1 = 2
    BY <1>3
  <2> QED BY <1>1, <1>2, <1>5, <2>1, ElementOfSeq
<1>9. t = <<>> => Joined(To(Head(s)), p)
  BY <1>2, <1>3 DEF LeadsTo
<1> QED BY <1>1, <1>2, <1>6, <1>7, <1>8, <1>9

\* The messages under way, when one is added or taken.
LEMMA RangeAppend ==
  ASSUME NEW s \in Seq(Messages), NEW x \in Messages
  PROVE  \A m : m \in Range(Append(s, x)) <=> m \in Range(s) \/ m = x
<1>1. PICK t \in Seq(Messages), n \in Nat : t = Append(s, x) /\ n = Len(s)
  BY AppendProperties, LenProperties
<1>2. Len(t) = n + 1 /\ t[n + 1] = x /\ \A i \in 1 .. n : t[i] = s[i]
  BY <1>1, AppendProperties
<1>3. DOMAIN t = 1 .. n + 1 /\ DOMAIN s = 1 .. n
  BY <1>1, <1>2, LenProperties
<1>4. \A i : i \in 1 .. n + 1 <=> i \in 1 .. n \/ i = n + 1
  OBVIOUS
<1> QED BY <1>1, <1>2, <1>3, <1>4 DEF Range

LEMMA RangeTail ==
  ASSUME NEW s \in Seq(Messages), s # <<>>
  PROVE  /\ Head(s) \in Range(s) /\ Head(s) \in Messages /\ Tail(s) \in Seq(Messages)
         /\ \A m : m \in Range(Tail(s)) => m \in Range(s)
<1>1. PICK t \in Seq(Messages), n \in Nat : t = Tail(s) /\ n = Len(t)
  BY HeadTailProperties, LenProperties
<1>2. Len(s) = n + 1 /\ (\A i \in 1 .. n : t[i] = s[i + 1]) /\ Head(s) = s[1] /\ Head(s) \in Messages
  BY <1>1, HeadTailProperties, LenProperties
<1>3. DOMAIN t = 1 .. n /\ DOMAIN s = 1 .. n + 1
  BY <1>1, <1>2, LenProperties
<1>4. 1 \in 1 .. n + 1 /\ \A i \in 1 .. n : i + 1 \in 1 .. n + 1
  OBVIOUS
<1> QED BY <1>1, <1>2, <1>3, <1>4 DEF Range

\* Nothing is under way, or something of a kind is.
LEMMA HasSome ==
  ASSUME NEW s \in Seq(Messages)
  PROVE  /\ s # <<>> => s[1] \in Messages /\ s[1] = Head(s)
         /\ s # <<>> => \A A : s[1].kind \in A => Has(s, A)
         /\ s # <<>> => Has(s, Works) \/ Has(s, Digests) \/ Has(s, Cancels)
         /\ s = <<>> => \A A : ~Has(s, A)
         /\ s = <<>> => Range(s) = {}
         /\ \A A, B : Has(s, A \cup B) <=> Has(s, A) \/ Has(s, B)
<1>1. s = <<>> => 1 .. Len(s) = {} /\ DOMAIN s = {}
  BY LenProperties, EmptySeq
<1>2. s # <<>> => 1 \in 1 .. Len(s) /\ s[1] \in Messages /\ s[1] = Head(s)
  BY HeadTailProperties, LenProperties, EmptySeq
<1>3. s # <<>> => \A A : s[1].kind \in A => Has(s, A)
  BY <1>2 DEF Has
<1>4. \A m \in Messages : m.kind \in Works \/ m.kind \in Digests \/ m.kind \in Cancels
  BY MessageFields DEF Works, Digests, Cancels
<1>5. s = <<>> => (\A A : ~Has(s, A)) /\ Range(s) = {}
  BY <1>1 DEF Has, Range
<1>6. \A A, B : Has(s, A \cup B) <=> Has(s, A) \/ Has(s, B)
  BY DEF Has
<1> QED BY <1>2, <1>3, <1>4, <1>5, <1>6

\* What an answer under way is after a step.
LEMMA TokenSteps ==
  ASSUME NEW a \in Seq(Messages)
  PROVE  /\ a # <<>> => Token(a) = Head(a) /\ Token(a) \in Messages
         /\ a = <<>> => Token(a) = Plain("cancel")
         /\ Token(a) \in Messages
         /\ Alone(a) /\ Token(a).kind = "cancel" => a = <<>>
         /\ a = <<>> => \A x \in Messages :
              /\ Token(Append(a, x)) = x
              /\ x.kind \in Verdicts => Alone(Append(a, x))
              /\ \A i \in 2 .. Len(Append(a, x)) : Append(a, x)[i] = Plain("cancel")
         /\ Token(Append(a, Plain("cancel"))) = Token(a)
         /\ (\A i \in 2 .. Len(a) : a[i] = Plain("cancel")) =>
              /\ \A i \in 2 .. Len(Append(a, Plain("cancel"))) :
                   Append(a, Plain("cancel"))[i] = Plain("cancel")
              /\ a # <<>> =>
                   /\ Token(Tail(a)) = Plain("cancel")
                   /\ \A i \in 2 .. Len(Tail(a)) : Tail(a)[i] = Plain("cancel")
                   /\ Alone(a) => Tail(a) = <<>>
<1> DEFINE c == Plain("cancel")
<1>1. c \in Messages /\ c.kind = "cancel"
  BY MessageFields
<1> HIDE DEF c
<1>2. PICK n \in Nat : n = Len(a)
  BY LenProperties
<1>3. a = <<>> <=> n = 0
  BY <1>2, EmptySeq
<1>4. a # <<>> => Token(a) = Head(a) /\ Token(a) \in Messages /\ Head(a) = a[1]
  BY HeadTailProperties DEF Token
<1>5. a = <<>> => Token(a) = c
  BY DEF Token, c
<1>6. Alone(a) /\ Token(a).kind = "cancel" => a = <<>>
  BY <1>4 DEF Alone, Verdicts
<1>7. ASSUME NEW x \in Messages
      PROVE  /\ Append(a, x) \in Seq(Messages) /\ Len(Append(a, x)) = n + 1 /\ Append(a, x) # <<>>
             /\ Append(a, x)[n + 1] = x /\ \A i \in 1 .. n : Append(a, x)[i] = a[i]
  BY <1>2, AppendProperties
<1>8. ASSUME a = <<>>, NEW x \in Messages
      PROVE  /\ Token(Append(a, x)) = x
             /\ x.kind \in Verdicts => Alone(Append(a, x))
             /\ \A i \in 2 .. Len(Append(a, x)) : Append(a, x)[i] = c
  <2>1. n = 0 /\ Len(Append(a, x)) = 1 /\ Append(a, x)[1] = x /\ Append(a, x) # <<>>
    BY <1>3, <1>7, <1>8
  <2> QED BY <2>1 DEF Token, Alone
<1>9. Token(Append(a, c)) = Token(a)
  <2>1. CASE a = <<>>
    BY <1>1, <1>5, <1>8, <2>1
  <2>2. CASE a # <<>>
    <3>1. 1 \in 1 .. n
      BY <1>3, <2>2
    <3> QED BY <1>1, <1>7, <2>2, <3>1 DEF Token
  <2> QED BY <2>1, <2>2
<1>10. ASSUME \A i \in 2 .. n : a[i] = c
       PROVE  /\ \A i \in 2 .. n + 1 : Append(a, c)[i] = c
              /\ a # <<>> => /\ Token(Tail(a)) = c
                             /\ \A i \in 2 .. Len(Tail(a)) : Tail(a)[i] = c
                             /\ Alone(a) => Tail(a) = <<>>
  <2>1. \A i \in 2 .. n + 1 : Append(a, c)[i] = c
    <3> SUFFICES ASSUME NEW i \in 2 .. n + 1 PROVE Append(a, c)[i] = c
      OBVIOUS
    <3>1. i = n + 1 \/ (i \in 2 .. n /\ i \in 1 .. n)
      OBVIOUS
    <3> QED BY <1>1, <1>7, <1>10, <3>1
  <2>2. ASSUME a # <<>>
        PROVE  /\ Token(Tail(a)) = c
               /\ \A i \in 2 .. Len(Tail(a)) : Tail(a)[i] = c
               /\ Alone(a) => Tail(a) = <<>>
    <3>1. PICK t \in Seq(Messages), k \in Nat : t = Tail(a) /\ k = Len(t)
      BY <2>2, HeadTailProperties, LenProperties
    <3>2. n = k + 1 /\ \A i \in 1 .. k : t[i] = a[i + 1]
      BY <1>2, <2>2, <3>1, HeadTailProperties, LenProperties
    <3>3. \A i \in 1 .. k : t[i] = c
      <4> SUFFICES ASSUME NEW i \in 1 .. k PROVE t[i] = c
        OBVIOUS
      <4>1. i + 1 \in 2 .. n
        BY <3>2
      <4> QED BY <1>10, <3>2, <4>1
    <3>4. t = <<>> <=> k = 0
      BY <3>1, EmptySeq
    <3>5. Token(t) = c
      BY <3>3, <3>4 DEF Token, c
    <3>6. Alone(a) => t = <<>>
      BY <1>2, <2>2, <3>2, <3>4 DEF Alone
    <3> QED BY <3>1, <3>3, <3>5, <3>6
  <2> QED BY <2>1, <2>2
<1> QED BY <1>1, <1>2, <1>4, <1>5, <1>6, <1>7, <1>8, <1>9, <1>10 DEF c

\* The readers and the writers there are.
LEMMA ReaderFields ==
  /\ \A r \in Readers :
       /\ r.num \in 1 .. N + 1 /\ r.pos \in 0 .. Size
       /\ r.there \in BOOLEAN /\ r.open \in BOOLEAN /\ r.confirmed \in BOOLEAN /\ r.waiting \in BOOLEAN
  /\ \A n \in 1 .. N + 1 :
       /\ ReadsFrom(n) \in Readers /\ ReadsFrom(n).there /\ ReadsFrom(n).num = n
       /\ ~ReadsFrom(n).open /\ ~ReadsFrom(n).confirmed /\ ~ReadsFrom(n).waiting
       /\ ReadsFrom(n).pos = 0
  /\ NoReader \in Readers /\ ~NoReader.there /\ ~NoReader.confirmed /\ NoReader.pos = 0
  /\ \A r \in Readers : r.num \in Files =>
       /\ ToNext(r) \in Readers /\ ToNext(r).there /\ ToNext(r).num = r.num + 1
       /\ ~ToNext(r).open /\ ~ToNext(r).confirmed /\ ~ToNext(r).waiting /\ ToNext(r).pos = 0
<1>1. \A n \in 1 .. N + 1 :
       /\ ReadsFrom(n) \in Readers /\ ReadsFrom(n).there /\ ReadsFrom(n).num = n
       /\ ~ReadsFrom(n).open /\ ~ReadsFrom(n).confirmed /\ ~ReadsFrom(n).waiting
       /\ ReadsFrom(n).pos = 0 /\ ~ReadsFrom(n).skipped
  BY Numbers DEF ReadsFrom, Readers
<1>2. 1 \in 1 .. N + 1
  BY Numbers
<1>3. NoReader \in Readers /\ ~NoReader.there /\ ~NoReader.confirmed /\ NoReader.pos = 0
  BY <1>1, <1>2 DEF NoReader, Readers
<1>4. ASSUME NEW r \in Readers, r.num \in Files
      PROVE  /\ ToNext(r) \in Readers /\ ToNext(r).there /\ ToNext(r).num = r.num + 1
             /\ ~ToNext(r).open /\ ~ToNext(r).confirmed /\ ~ToNext(r).waiting /\ ToNext(r).pos = 0
  <2>1. r.num + 1 \in 1 .. N + 1 /\ r.skipped \in BOOLEAN
    BY <1>4, Numbers DEF Readers
  <2> QED BY <1>1, <2>1 DEF ToNext, Readers
<1>5. \A r \in Readers :
       /\ r.num \in 1 .. N + 1 /\ r.pos \in 0 .. Size
       /\ r.there \in BOOLEAN /\ r.open \in BOOLEAN /\ r.confirmed \in BOOLEAN /\ r.waiting \in BOOLEAN
  BY DEF Readers
<1> QED BY <1>1, <1>3, <1>4, <1>5

LEMMA WriterFields ==
  /\ \A w \in Writers : /\ w.num \in 1 .. N + 1 /\ w.there \in BOOLEAN /\ w.open \in BOOLEAN
                       /\ w.into \in 0 .. N
  /\ \A n \in 1 .. N + 1 : /\ WritesFrom(n) \in Writers /\ WritesFrom(n).there
                           /\ WritesFrom(n).num = n /\ ~WritesFrom(n).open
  /\ NoWriter \in Writers /\ ~NoWriter.there
<1>1. \A n \in 1 .. N + 1 : /\ WritesFrom(n) \in Writers /\ WritesFrom(n).there
                            /\ WritesFrom(n).num = n /\ ~WritesFrom(n).open
  BY Numbers DEF Writers, WritesFrom
<1>2. 1 \in 1 .. N + 1
  BY Numbers
<1>3. NoWriter \in Writers /\ ~NoWriter.there
  BY <1>1, <1>2 DEF NoWriter, Writers
<1> QED BY <1>1, <1>3 DEF Writers

\* A confirmation reaches the reader ...
LEMMA ReaderConfirms ==
  ASSUME NEW r \in Readers, NEW f \in Files, NEW how \in Hows
  PROVE  /\ ReaderConfirm(r, f, how) \in Readers
         /\ ReaderConfirm(r, f, how).there = r.there
         /\ ~r.there \/ r.num # f => ReaderConfirm(r, f, how) = r
         /\ r.there /\ r.num = f /\ how = Skip =>
              /\ ReaderConfirm(r, f, how).num = f + 1
              /\ ~ReaderConfirm(r, f, how).open /\ ~ReaderConfirm(r, f, how).confirmed
              /\ ~ReaderConfirm(r, f, how).waiting /\ ReaderConfirm(r, f, how).pos = 0
         /\ r.there /\ r.num = f /\ how # Skip /\ r.pos = 0 =>
              /\ ReaderConfirm(r, f, how).num = f /\ ReaderConfirm(r, f, how).confirmed
              /\ ReaderConfirm(r, f, how).open /\ ReaderConfirm(r, f, how).pos = how
              /\ ReaderConfirm(r, f, how).waiting = r.waiting
<1>1. how # Skip => how \in 0 .. Size
  BY Numbers
<1>2. CASE ~r.there \/ r.num # f
  BY <1>2 DEF ReaderConfirm
<1>3. CASE r.there /\ r.num = f /\ how = Skip
  <2>1. ReaderConfirm(r, f, how) = [ToNext(r) EXCEPT !.skipped = TRUE]
    BY <1>3 DEF ReaderConfirm
  <2>2. ToNext(r) \in Readers /\ ToNext(r).there /\ ToNext(r).num = r.num + 1
        /\ ~ToNext(r).open /\ ~ToNext(r).confirmed /\ ~ToNext(r).waiting /\ ToNext(r).pos = 0
    BY <1>3, ReaderFields
  <2> QED BY <1>3, <2>1, <2>2 DEF Readers
<1>4. CASE r.there /\ r.num = f /\ how # Skip
  <2>1. ReaderConfirm(r, f, how) = [r EXCEPT !.confirmed = TRUE, !.open = TRUE, !.skipped = FALSE,
                                            !.pos = IF how > 0 THEN how ELSE r.pos]
    BY <1>4 DEF ReaderConfirm
  <2>2. how \in 0 .. Size
    BY <1>1, <1>4
  <2>3. PICK p : p = IF how > 0 THEN how ELSE r.pos
    OBVIOUS
  <2>4. p \in 0 .. Size /\ (r.pos = 0 => p = how)
    BY <2>2, <2>3, Numbers DEF Readers
  <2>5. ReaderConfirm(r, f, how) = [r EXCEPT !.confirmed = TRUE, !.open = TRUE, !.skipped = FALSE,
                                            !.pos = p]
    BY <2>1, <2>3
  <2> QED BY <1>4, <2>4, <2>5 DEF Readers
<1> QED BY <1>2, <1>3, <1>4

\* A reader that has asked goes to where the confirmation leads.
LEMMA ConfirmStage ==
  ASSUME NEW r \in Readers, NEW f \in Files, NEW how \in Hows,
         r.there, r.num = f, ~r.confirmed, r.pos = 0
  PROVE  Stage(ReaderConfirm(r, f, how)) = To(Message("confirm", f, how))
BY ReaderConfirms, FromTo DEF Stage

\* ... or the writer.
LEMMA WriterConfirms ==
  ASSUME NEW w \in Writers, NEW f \in Files, NEW how \in Hows
  PROVE  /\ WriterConfirm(w, f, how) \in Writers
         /\ WriterConfirm(w, f, how).there = w.there
         /\ ~w.there \/ w.num # f \/ how = 0 => WriterConfirm(w, f, how) = w
         /\ w.there /\ w.num = f /\ how = Skip =>
              WriterConfirm(w, f, how).num = f + 1 /\ ~WriterConfirm(w, f, how).open
         /\ w.there /\ w.num = f /\ how # Skip /\ how # 0 =>
              /\ WriterConfirm(w, f, how).num = f /\ WriterConfirm(w, f, how).open
              /\ WriterConfirm(w, f, how).into = f
<1>1. f + 1 \in 1 .. N + 1 /\ 0 # Skip /\ f \in 0 .. N
  BY Numbers
<1>2. CASE ~w.there \/ w.num # f \/ how = 0
  BY <1>1, <1>2 DEF WriterConfirm
<1>3. CASE w.there /\ w.num = f /\ how = Skip
  <2>1. WriterConfirm(w, f, how) = [w EXCEPT !.num = w.num + 1, !.open = FALSE]
    BY <1>3 DEF WriterConfirm
  <2> QED BY <1>1, <1>3, <2>1 DEF Writers
<1>4. CASE w.there /\ w.num = f /\ how # Skip /\ how # 0
  <2>1. how > 0
    BY <1>4, Numbers
  <2>2. WriterConfirm(w, f, how) = [w EXCEPT !.open = TRUE, !.into = f]
    BY <1>4, <2>1 DEF WriterConfirm
  <2> QED BY <1>1, <1>4, <2>2 DEF Writers
<1> QED BY <1>2, <1>3, <1>4

-----------------------------------------------------------------------------
(* FileTransfer: what a step that leaves the disk alone keeps.             *)

\* What depends on the writer's disk and on what is decided alone.
DiskSame == UNCHANGED <<download, file, part, stamp, failures, excused, is_resume, resumes, refused>>
LEMMA SameHave ==
  ASSUME DiskSame
  PROVE  Have' = Have /\ Counts' = Counts
BY DEF DiskSame, diskVars, failureVars, Have, Counts

\* The parts that only the reader ...
Shaped(r) ==
  /\ r.confirmed => r.open /\ r.there /\ r.num \in Files
  /\ r.there => (r.waiting <=> r.open)
  /\ ~r.confirmed => r.pos = 0
  /\ r.there /\ r.waiting => r.num \in Files
LEMMA ShapedReaders ==
  /\ \A n \in 1 .. N + 1 : Shaped(ReadsFrom(n))
  /\ Shaped(NoReader)
  /\ \A r \in Readers : r.num \in Files => Shaped(ToNext(r))
  /\ \A r \in Readers, f \in Files, how \in Hows :
       Shaped(r) /\ (r.there => r.waiting) /\ ~r.confirmed => Shaped(ReaderConfirm(r, f, how))
<1>1. \A n \in 1 .. N + 1 : Shaped(ReadsFrom(n))
  BY ReaderFields DEF Shaped
<1>2. Shaped(NoReader)
  BY ReaderFields DEF Shaped
<1>3. \A r \in Readers : r.num \in Files => Shaped(ToNext(r))
  BY ReaderFields DEF Shaped
<1>4. ASSUME NEW r \in Readers, NEW f \in Files, NEW how \in Hows,
             Shaped(r), r.there => r.waiting, ~r.confirmed
      PROVE  Shaped(ReaderConfirm(r, f, how))
  BY <1>4, ReaderConfirms, ReaderFields DEF Shaped
<1> QED BY <1>1, <1>2, <1>3, <1>4

\* The reader sends something: from where it is, or when nothing is under way.
LEMMA Sends ==
  ASSUME JobTypes, Chain, NEW x \in Messages, toWriter' = Append(toWriter, x),
         From(x) = Stage(reader) \/ From(x) = Over \/ toWriter = <<>>,
         Joined(To(x), Stage(reader')),
         toWriter # <<>> => Have' = Have /\ writer' = writer,
         toWriter = <<>> /\ writer'.there => Fits(Have', writer', From(x))
  PROVE  Chain'
<1>1. /\ Linked(toWriter') /\ LeadsTo(toWriter', Stage(reader'))
      /\ toWriter' # <<>> /\ toWriter'[1] = IF toWriter = <<>> THEN x ELSE toWriter[1]
  BY LinkAppend DEF JobTypes, Chain
<1>2. WriterAt(toWriter', toReader', reader') = From(toWriter'[1])
  BY <1>1 DEF WriterAt
<1>3. CASE toWriter = <<>>
  BY <1>1, <1>2, <1>3 DEF Chain
<1>4. CASE toWriter # <<>>
  <2>1. WriterAt(toWriter, toReader, reader) = From(toWriter[1])
    BY <1>4 DEF WriterAt
  <2> QED BY <1>1, <1>2, <1>4, <2>1 DEF Chain
<1> QED BY <1>3, <1>4

\* The writer takes what comes first.
LEMMA Takes ==
  ASSUME JobTypes, Chain, toWriter # <<>>, toWriter' = Tail(toWriter), reader' = reader,
         writer'.there => To(Head(toWriter)) # Over,
         writer'.there => Fits(Have', writer', To(Head(toWriter))),
         writer'.there /\ toWriter' = <<>> /\ reader.there /\ Token(toReader').kind = "confirm"
           => Fits(Have', writer', To(Token(toReader')))
  PROVE  Chain'
<1>1. /\ Linked(toWriter') /\ LeadsTo(toWriter', Stage(reader'))
      /\ toWriter' # <<>> => Joined(To(Head(toWriter)), From(toWriter'[1]))
      /\ toWriter' = <<>> => Joined(To(Head(toWriter)), Stage(reader))
  BY LinkTail DEF JobTypes, Chain
<1>2. ASSUME writer'.there PROVE Fits(Have', writer', WriterAt(toWriter', toReader', reader'))
  <2>1. CASE toWriter' # <<>>
    BY <1>1, <1>2, <2>1, FitsPlaces DEF WriterAt, Joined
  <2>2. CASE toWriter' = <<>> /\ reader.there /\ Token(toReader').kind = "confirm"
    BY <1>2, <2>2 DEF WriterAt
  <2>3. CASE toWriter' = <<>> /\ ~(reader.there /\ Token(toReader').kind = "confirm")
    BY <1>1, <1>2, <2>3, FitsPlaces DEF WriterAt, Joined
  <2> QED BY <2>1, <2>2, <2>3
<1> QED BY <1>1, <1>2 DEF Chain

\* What is under way to the writer and may no longer be asked or answered.
LEMMA TalkAppend ==
  ASSUME JobTypes, NEW x \in Messages, toWriter' = Append(toWriter, x)
  PROVE  /\ toWriter' \in Seq(Messages)
         /\ \A A : Has(toWriter', A) <=> Has(toWriter, A) \/ x.kind \in A
         /\ \A A, B : Before(toWriter, A, B) /\ (x.kind \in A => ~Has(toWriter, B) /\ x.kind \notin B)
                        => Before(toWriter', A, B)
         /\ \A A : AtMostOne(toWriter, A) /\ (x.kind \in A => ~Has(toWriter, A))
                        => AtMostOne(toWriter', A)
BY AppendHas DEF JobTypes

\* Only what is under way and the jobs change, and neither job goes back.
LEMMA DiskKept ==
  ASSUME JobTypes, JobTypes', Disk, DiskSame, meta' = meta, writer' = writer \/ ~writer'.there,
         reader'.there => reader.there /\ reader.num <= reader'.num
  PROVE  Disk'
<1>1. Have' = Have
  BY SameHave
<1>2. \A f \in Files : Good(f, file[f], part[f], stamp[f], excused)'
  BY DEF Disk, DiskSame, diskVars, failureVars
<1>3. ASSUME reader'.there PROVE Blanks(Have, reader'.num)
  <2>1. reader.num \in Nat /\ reader'.num \in Nat
    BY ReaderFields, Numbers DEF JobTypes
  <2>2. Blanks(Have, reader.num)
    BY <1>3 DEF Disk
  <2>3. \A g \in Mine(Have) : g \in Nat
    BY Numbers DEF Mine
  <2> QED BY <1>3, <2>1, <2>2, <2>3 DEF Blanks
<1>4. writer'.there => Blanks(Have, writer'.num) /\ Behind(Have, writer')
  BY DEF Disk
<1>5. meta' # 0 => Blanks(Have, meta') /\ resumes' # 0
  BY DEF Disk, DiskSame
<1>6. meta' # 0 /\ download' => \A g \in Mine(Have) : g < meta' => Whole(g)' \/ g \in refused'
  BY DEF Disk, DiskSame, diskVars, failureVars, Whole
<1>7. writer'.there /\ writer'.open =>
        writer'.num \in Files /\ writer'.into \in Files /\ writer'.into <= writer'.num
  BY DEF Disk, DiskSame, diskVars, failureVars
<1>8. writer'.there /\ ~writer'.open /\ ~is_resume' /\ writer'.num \in Mine(Have)
        => part'[writer'.num] = NoFile
  BY DEF Disk, DiskSame, diskVars, failureVars
<1> QED BY <1>1, <1>2, <1>3, <1>4, <1>5, <1>6, <1>7, <1>8 DEF Disk

\* What is known of a file stays known when nothing changes on the disk ...
LEMMA KnownKept ==
  ASSUME Known, DiskSame, writer' = writer \/ ~writer'.there, question' \in {question, 0},
         Token(toReader') = Token(toReader) \/ Token(toReader').kind # "digest"
  PROVE  Known'
<1>1. Have' = Have
  BY SameHave
<1>2. \A f : Transferred(f)' = Transferred(f)
  BY DEF DiskSame, diskVars, failureVars, Transferred
<1> QED BY <1>1, <1>2 DEF Known

\* ... and an ended job stays ended.
LEMMA EndedKept ==
  ASSUME Ended, DiskSame, Has(toWriter', Dones) => ~reader'.there /\ question' = 0,
         reader'.there => reader.there, writer'.there => writer.there,
         question' \in {question, 0}, meta' = meta, done' = done
  PROVE  Ended'
<1>1. DoneIsComplete => DoneIsComplete'
  BY DEF DiskSame, diskVars, failureVars, DoneIsComplete, Whole
<1> QED BY <1>1, SameHave DEF Ended

-----------------------------------------------------------------------------
(* FileTransfer: the reader.                                               *)

\* The reader goes on by itself.
SendsOn(x) ==
  /\ toWriter' = Append(toWriter, x) /\ x \in Messages
  /\ x.kind \in {"digest", "block", "done", "error"}
  /\ reader.there /\ (reader.confirmed \/ ~reader.waiting)
  /\ reader' \in Readers /\ Shaped(reader')
  /\ reader'.there => reader.num <= reader'.num
  /\ reader'.confirmed => reader'.num \in agreed
  /\ From(x) \in {Stage(reader), Over} /\ Joined(To(x), Stage(reader'))
  /\ x.kind = "digest" => reader'.waiting /\ ~reader'.confirmed
  /\ x.kind = "block" => x.f \in agreed /\ x.f = reader.num /\ x.n # Skip
  /\ x.kind = "done" => ~reader'.there
  /\ errors' \in 0 .. MaxErrors
  /\ DiskSame /\ UNCHANGED <<writer, question, toReader, meta, agreed, done, strategy, cancelled>>

\* So the invariant is kept, whatever the message.
LEMMA ReaderSends ==
  ASSUME TransferInv, NEW x, SendsOn(x) PROVE TransferInv'
<1> USE DEF TransferInv
<1>1. /\ DiskSame /\ UNCHANGED <<writer, question, toReader, meta, agreed, done, strategy, cancelled>>
      /\ toWriter' = Append(toWriter, x) /\ x \in Messages
      /\ x.kind \in {"digest", "block", "done", "error"}
      /\ reader' \in Readers /\ reader \in Readers /\ reader.there
  BY DEF SendsOn, JobTypes
<1>2. /\ question = 0 /\ Token(toReader).kind = "cancel" /\ ~Has(toWriter, Digests)
      /\ ~Has(toWriter, Cancels)
  BY DEF OneTalk, SendsOn
<1>3. reader.num \in Nat /\ reader'.num \in Nat /\ (reader'.there => reader.num <= reader'.num)
  BY <1>1, ReaderFields, Numbers DEF SendsOn
<1>4. JobTypes'
  BY <1>1, TalkAppend DEF JobTypes, DiskSame, diskVars, failureVars, SendsOn
<1>5. Shape'
  BY DEF Shape, SendsOn, Shaped
<1>6. OneTalk'
  <2>1. /\ Before(toWriter', Works, Digests) /\ AtMostOne(toWriter', Digests)
        /\ ~Has(toWriter', Cancels)
        /\ Has(toWriter', Digests) => x.kind = "digest"
    BY <1>1, <1>2, TalkAppend DEF OneTalk, Works, Digests, Cancels
  <2>2. Has(toWriter', Digests) => reader'.waiting /\ ~reader'.confirmed
    BY <2>1 DEF SendsOn
  <2> QED BY <1>1, <1>2, <2>1, <2>2 DEF OneTalk, Verdicts, DiskSame
<1>7. Known'
  BY <1>1, KnownKept
<1>8. Agreeing'
  <2>1. \A m : m \in Range(toWriter') <=> m \in Range(toWriter) \/ m = x
    BY <1>1, RangeAppend DEF JobTypes
  <2>2. ASSUME NEW m \in Range(toWriter'), m.kind = "block"
        PROVE  m.f \in agreed /\ m.n # Skip /\ m.f \in Nat /\ m.f <= reader.num
    <3>1. m \in Range(toWriter) => m.f \in agreed /\ m.n # Skip /\ m.f <= reader.num
      BY <1>1, <2>2 DEF Agreeing
    <3>2. m = x => m.f \in agreed /\ m.n # Skip /\ m.f <= reader.num
      BY <1>3, <2>2 DEF SendsOn
    <3>3. \A f \in agreed : f \in Nat
      BY Numbers DEF JobTypes
    <3> QED BY <2>1, <3>1, <3>2, <3>3
  <2>3. reader'.confirmed => reader'.num \in agreed
    BY DEF SendsOn
  <2>4. \A m \in Range(toWriter') : m.kind = "confirm" /\ m.n = Skip => m.f \in refused'
    BY <1>1, <2>1 DEF Agreeing, DiskSame
  <2> QED BY <1>1, <1>2, <1>3, <2>2, <2>3, <2>4 DEF Agreeing
<1>9. Disk'
  BY <1>1, <1>3, <1>4, DiskKept
<1>10. Chain'
  <2>1. Have' = Have
    BY <1>1, SameHave
  <2>2. From(x) \in {Stage(reader), Over} /\ Joined(To(x), Stage(reader'))
    BY DEF SendsOn
  <2>3. toWriter = <<>> /\ writer'.there => Fits(Have', writer', From(x))
    BY <1>1, <1>2, <2>1, <2>2, FitsPlaces DEF Chain, WriterAt
  <2> QED BY <1>1, <2>1, <2>2, <2>3, Sends
<1>11. Ended'
  <2>1. Has(toWriter', Dones) <=> Has(toWriter, Dones) \/ x.kind = "done"
    BY <1>1, TalkAppend DEF Dones
  <2>2. Has(toWriter', Dones) => ~reader'.there
    BY <1>1, <2>1 DEF SendsOn, Ended
  <2> QED BY <1>1, <1>2, <2>2, EndedKept
<1> QED BY <1>4, <1>5, <1>6, <1>7, <1>8, <1>9, <1>10, <1>11

\* send_current_digest: the reader opens the next file and asks about it.
LEMMA SendDigestKeeps ==
  ASSUME TransferInv, SendDigest PROVE TransferInv'
<1>1. /\ reader \in Readers /\ reader.there /\ reader.num \in Files /\ ~reader.confirmed
      /\ ~reader.waiting /\ ~reader.open /\ reader.pos = 0
  <2>1. reader \in Readers
    BY DEF TransferInv, JobTypes
  <2> QED BY <2>1, ReaderFields, Numbers DEF SendDigest, Shape, TransferInv
<1>2. /\ reader' \in Readers /\ reader'.there /\ reader'.num = reader.num /\ ~reader'.confirmed
      /\ reader'.waiting /\ reader'.open /\ reader'.pos = 0
  BY <1>1 DEF SendDigest, Readers
<1> DEFINE x == Message("digest", reader.num, 0)
<1>3. /\ x \in Messages /\ x.kind = "digest" /\ toWriter' = Append(toWriter, x)
      /\ From(x) = Stage(reader) /\ To(x) = Stage(reader')
  <2>1. 0 \in Hows
    BY Numbers
  <2>2. x \in Messages /\ x.kind = "digest"
    BY <1>1, <2>1, MessageFields
  <2>3. From(x) = ToBegin(reader.num) /\ To(x) = Asked(reader.num)
    BY <1>1, FromTo
  <2> QED BY <1>1, <1>2, <2>2, <2>3 DEF SendDigest, Stage
<1> HIDE DEF x
<1>4. Shaped(reader') /\ reader.num <= reader'.num
  BY <1>1, <1>2, Numbers DEF Shaped
<1>5. errors' \in 0 .. MaxErrors
  BY DEF TransferInv, JobTypes, SendDigest
<1>6. /\ DiskSame
      /\ UNCHANGED <<writer, question, toReader, meta, agreed, done, strategy, cancelled>>
  BY DEF SendDigest, DiskSame, historyVars, diskVars, failureVars
<1> QED BY <1>1, <1>2, <1>3, <1>4, <1>5, <1>6, ReaderSends DEF SendsOn, Joined

\* read: the next block of the file, or, at its end, the empty one.
LEMMA SendBlockKeeps ==
  ASSUME TransferInv, SendBlock PROVE TransferInv'
<1>1. /\ reader \in Readers /\ reader.there /\ reader.num \in Files /\ reader.confirmed
      /\ reader.waiting /\ reader.open /\ reader.pos \in 0 .. Size /\ reader.num \in agreed
  <2>1. reader \in Readers
    BY DEF TransferInv, JobTypes
  <2> QED BY <2>1, ReaderFields, Numbers DEF SendBlock, Shape, TransferInv, Agreeing
<1>2. /\ DiskSame /\ errors' \in 0 .. MaxErrors
      /\ UNCHANGED <<writer, question, toReader, meta, agreed, done, strategy, cancelled>>
  BY DEF SendBlock, DiskSame, historyVars, TransferInv, JobTypes, diskVars, failureVars
<1>3. CASE reader.pos < Size
  <2>1. reader.pos + 1 \in 0 .. Size /\ reader.pos + 1 # 0 /\ reader.pos + 1 \in Hows
        /\ (reader.pos + 1) - 1 = reader.pos
    BY <1>1, <1>3, Numbers
  <2>2. /\ reader' = [reader EXCEPT !.pos = reader.pos + 1]
        /\ toWriter' = Append(toWriter, Message("block", reader.num, reader.pos + 1))
    BY <1>3 DEF SendBlock
  <2>3. /\ reader' \in Readers /\ reader'.there /\ reader'.num = reader.num /\ reader'.confirmed
        /\ reader'.waiting /\ reader'.open /\ reader'.pos = reader.pos + 1
    BY <1>1, <2>1, <2>2 DEF Readers
  <2> DEFINE x == Message("block", reader.num, reader.pos + 1)
  <2>4. x \in Messages /\ x.kind = "block" /\ x.f = reader.num /\ x.n # Skip
    BY <1>1, <2>1, MessageFields, Numbers
  <2>5. From(x) = Sending(reader.num, reader.pos) /\ To(x) = Sending(reader.num, reader.pos + 1)
    BY <1>1, <2>1, FromTo
  <2>6. From(x) = Stage(reader) /\ To(x) = Stage(reader')
    BY <1>1, <2>3, <2>5 DEF Stage
  <2> HIDE DEF x
  <2>7. Shaped(reader') /\ reader.num <= reader'.num
    BY <1>1, <2>3, Numbers DEF Shaped
  <2>8. toWriter' = Append(toWriter, x)
    BY <2>2 DEF x
  <2> QED BY <1>1, <1>2, <2>3, <2>4, <2>6, <2>7, <2>8, ReaderSends DEF SendsOn, Joined
<1>4. CASE ~(reader.pos < Size)
  <2>1. reader.pos = Size /\ 0 \in Hows /\ 0 \in 0 .. Size
    BY <1>1, <1>4, Numbers
  <2>2. reader' = ToNext(reader) /\ toWriter' = Append(toWriter, Message("block", reader.num, 0))
    BY <1>4 DEF SendBlock
  <2>3. /\ reader' \in Readers /\ reader'.there /\ reader'.num = reader.num + 1
        /\ ~reader'.confirmed /\ ~reader'.waiting /\ Shaped(reader')
    BY <1>1, <2>2, ReaderFields, ShapedReaders
  <2> DEFINE x == Message("block", reader.num, 0)
  <2>4. x \in Messages /\ x.kind = "block" /\ x.f = reader.num /\ x.n # Skip
    BY <1>1, <2>1, MessageFields, Numbers
  <2>5. From(x) = Sending(reader.num, Size) /\ To(x) = ToBegin(reader.num + 1)
    BY <1>1, <2>1, FromTo
  <2>6. From(x) = Stage(reader) /\ To(x) = Stage(reader')
    BY <1>1, <2>1, <2>3, <2>5 DEF Stage
  <2> HIDE DEF x
  <2>7. reader.num <= reader'.num
    BY <1>1, <2>3, Numbers
  <2>8. toWriter' = Append(toWriter, x)
    BY <2>2 DEF x
  <2> QED BY <1>1, <1>2, <2>3, <2>4, <2>6, <2>7, <2>8, ReaderSends DEF SendsOn, Joined
<1> QED BY <1>3, <1>4

\* A file cannot be opened or read: an error, and the next file.
LEMMA ReadFailsKeeps ==
  ASSUME TransferInv, ReadFails PROVE TransferInv'
<1>1. /\ reader \in Readers /\ reader.there /\ reader.num \in Files
      /\ (reader.confirmed \/ ~reader.waiting)
  <2>1. reader \in Readers
    BY DEF TransferInv, JobTypes
  <2> QED BY <2>1, ReaderFields, Numbers DEF ReadFails, Shape, TransferInv
<1>2. /\ DiskSame
      /\ UNCHANGED <<writer, question, toReader, meta, agreed, done, strategy, cancelled>>
  BY DEF ReadFails, DiskSame, historyVars, diskVars, failureVars
<1>3. errors' \in 0 .. MaxErrors
  <2>1. errors \in 0 .. MaxErrors
    BY DEF TransferInv, JobTypes
  <2> QED BY <2>1, Numbers DEF ReadFails
<1>4. /\ reader' \in Readers /\ reader'.num = reader.num + 1 /\ ~reader'.confirmed
      /\ Shaped(reader')
  BY <1>1, ReaderFields, ShapedReaders DEF ReadFails
<1> DEFINE x == Plain("error")
<1>5. /\ x \in Messages /\ x.kind = "error" /\ From(x) = Over /\ To(x) = Over
      /\ toWriter' = Append(toWriter, x)
  BY MessageFields, FromTo DEF ReadFails
<1> HIDE DEF x
<1>6. reader.num <= reader'.num
  BY <1>1, <1>4, Numbers
<1> QED BY <1>1, <1>2, <1>3, <1>4, <1>5, <1>6, ReaderSends DEF SendsOn, Joined

\* handle_read_jobs: after the last file the job is done.
LEMMA ReadDoneKeeps ==
  ASSUME TransferInv, ReadDone PROVE TransferInv'
<1>1. /\ reader \in Readers /\ reader.there /\ reader.num = N + 1 /\ ~reader.confirmed
      /\ ~reader.waiting
  <2>1. reader \in Readers
    BY DEF TransferInv, JobTypes
  <2>2. reader.num = N + 1 /\ reader.num \notin Files
    BY <2>1, ReaderFields, Numbers DEF ReadDone
  <2> QED BY <2>1, <2>2 DEF ReadDone, Shape, TransferInv
<1>2. /\ DiskSame /\ errors' \in 0 .. MaxErrors
      /\ UNCHANGED <<writer, question, toReader, meta, agreed, done, strategy, cancelled>>
  BY DEF ReadDone, DiskSame, historyVars, TransferInv, JobTypes, diskVars, failureVars
<1>3. reader' \in Readers /\ ~reader'.there /\ ~reader'.confirmed /\ Shaped(reader')
  BY ReaderFields, ShapedReaders DEF ReadDone
<1>4. PICK kind \in {"error", "done"} : toWriter' = Append(toWriter, Plain(kind))
  BY DEF ReadDone
<1> DEFINE x == Plain(kind)
<1>5. /\ x \in Messages /\ x.kind \in {"error", "done"} /\ From(x) \in {ToBegin(N + 1), Over}
      /\ To(x) = Over /\ toWriter' = Append(toWriter, x)
  BY <1>4, MessageFields, FromTo
<1> HIDE DEF x
<1>6. Stage(reader) = ToBegin(N + 1)
  BY <1>1 DEF Stage
<1> QED BY <1>1, <1>2, <1>3, <1>5, <1>6, ReaderSends DEF SendsOn, Joined

-----------------------------------------------------------------------------
(* FileTransfer: the writer gets a block.                                  *)

\* What a file and its x.download may be after the steps of the writer.
LEMMA PieceFacts ==
  /\ \A s \in Seq(0 .. Size) : s # NoFile /\ s # Old /\ (Len(s) <= Size => s \in Contents)
  /\ NoFile \in Contents /\ Old \in Contents /\ NoFile # Old
  /\ Source \in Seq(0 .. Size) /\ Len(Source) = Size
  /\ \A s \in Seq(0 .. Size) : Len(s) = Size /\ (\A i \in 1 .. Len(s) : s[i] = i) => s = Source
  /\ Source # NoFile
<1>1. ASSUME NEW s \in Seq(0 .. Size)
      PROVE  s # NoFile /\ s # Old /\ (Len(s) <= Size => s \in Contents)
  <2>1. PICK n \in Nat : n = Len(s) /\ DOMAIN s = 1 .. n /\ s \in [1 .. n -> 0 .. Size]
    BY LenProperties
  <2>2. NoFile[1] = -2 /\ Old[1] = -1 /\ DOMAIN NoFile = 1 .. 1 /\ DOMAIN Old = 1 .. 1
    BY DEF NoFile, Old
  <2>3. 1 \in 1 .. 1 /\ -2 \notin 0 .. Size /\ -1 \notin 0 .. Size
    BY Numbers
  <2>4. s # NoFile /\ s # Old
    BY <2>1, <2>2, <2>3
  <2>5. n <= Size => n \in 0 .. Size
    BY Numbers
  <2>6. n <= Size => s \in UNION {[1 .. k -> 0 .. Size] : k \in 0 .. Size}
    BY <2>1, <2>5
  <2> QED BY <2>1, <2>4, <2>6 DEF Contents
<1>2. NoFile \in Contents /\ Old \in Contents /\ NoFile # Old
  <2>1. NoFile[1] = -2 /\ Old[1] = -1
    BY DEF NoFile, Old
  <2> QED BY <2>1 DEF Contents
<1>3. Source \in Seq(0 .. Size) /\ Len(Source) = Size /\ DOMAIN Source = 1 .. Size
      /\ \A i \in 1 .. Size : Source[i] = i
  BY Numbers DEF Source
<1>4. ASSUME NEW s \in Seq(0 .. Size), Len(s) = Size, \A i \in 1 .. Len(s) : s[i] = i
      PROVE  s = Source
  BY <1>3, <1>4, SeqEqual
<1> QED BY <1>1, <1>2, <1>3, <1>4

\* x.download becomes x, if it is all of the file or of an earlier transfer.
LEMMA GoodFinalised ==
  ASSUME NEW f, NEW fi, NEW pa, NEW st, NEW out, Good(f, fi, pa, st, out),
         f \notin out => pa \in {NoFile, Source}
  PROVE  Good(f, IF pa = NoFile THEN fi ELSE pa, NoFile, "none", out)
BY PieceFacts DEF Good

\* x.download is removed.
LEMMA GoodRemoved ==
  ASSUME NEW f, NEW fi, NEW pa, NEW st, NEW out, Good(f, fi, pa, st, out)
  PROVE  Good(f, fi, NoFile, "none", out)
BY DEF Good

\* Of an excused file only the types are known, and that remains so when more are
\* excused.
LEMMA GoodExcused ==
  ASSUME NEW f, NEW fi, NEW pa, NEW st, NEW out, Good(f, fi, pa, st, out),
         NEW more, f \in out => f \in more
  PROVE  Good(f, fi, pa, st, more) /\ (f \in more => \A mark : Good(f, fi, pa, mark, more))
BY DEF Good

\* x.download begins with its first block, if there is one and it is stored ...
Begins(n, begun) == begun = <<>> \/ (n # 0 /\ begun = <<n>>)
LEMMA GoodBegun ==
  ASSUME NEW f, NEW fi, NEW out, NEW st, NEW pa, Good(f, fi, pa, st, out), NEW n \in 0 .. Size,
         NEW begun, Begins(n, begun), NEW mark,
         f \notin out => n = 1 /\ begun = <<n>> /\ mark = "current"
  PROVE  /\ Good(f, fi, begun, mark, out)
         /\ begun # NoFile /\ (n # 0 => Len(begun) <= n)
         /\ f \notin out => Len(begun) = n
<1>1. begun \in Seq(0 .. Size) /\ (Len(begun) = 0 \/ Len(begun) = 1)
  <2>1. CASE begun = <<>>
    BY <2>1
  <2>2. CASE begun = <<n>>
    <3>1. <<n>> \in Seq(0 .. Size) /\ Len(<<n>>) = 1
      OBVIOUS
    <3> QED BY <2>2, <3>1
  <2> QED BY <2>1, <2>2 DEF Begins
<1>2. f \notin out => begun[1] = 1 /\ Len(begun) = 1
  OBVIOUS
<1>3. Len(begun) <= Size /\ (n # 0 => Len(begun) <= n)
  <2>1. PICK len : len = Len(begun)
    OBVIOUS
  <2>2. len \in {0, 1}
    BY <1>1, <2>1
  <2>3. len <= Size /\ (n # 0 => len <= n)
    BY <2>2, Numbers
  <2> QED BY <2>1, <2>3
<1>4. begun # NoFile
  BY <1>1, PieceFacts
<1>5. f \notin out => \A i \in 1 .. Len(begun) : begun[i] = i
  <2>1. \A i \in 1 .. 1 : i = 1
    OBVIOUS
  <2> QED BY <1>2, <2>1
<1>6. Good(f, fi, begun, mark, out)
  BY <1>1, <1>2, <1>3, <1>4, <1>5 DEF Good
<1> QED BY <1>2, <1>3, <1>4, <1>6

\* ... goes on with the next ...
LEMMA GoodGoesOn ==
  ASSUME NEW f, NEW fi, NEW pa, NEW st, NEW out, Good(f, fi, pa, st, out), pa # NoFile,
         NEW n \in 1 .. Size, Len(pa) < n, f \notin out => Len(pa) + 1 = n
  PROVE  Good(f, fi, Append(pa, n), st, out) /\ Append(pa, n) # NoFile
         /\ Append(pa, n) \in Seq(0 .. Size) /\ Len(Append(pa, n)) = Len(pa) + 1
<1>1. pa \in Seq(0 .. Size) /\ Len(pa) <= Size
  BY DEF Good
<1>2. PICK k \in Nat : k = Len(pa)
  BY <1>1, LenProperties
<1>3. PICK q \in Seq(0 .. Size) : q = Append(pa, n)
  <2>1. n \in 0 .. Size
    OBVIOUS
  <2> QED BY <1>1, <2>1, AppendProperties
<1>4. Len(q) = k + 1 /\ q[k + 1] = n /\ \A i \in 1 .. k : q[i] = pa[i]
  BY <1>1, <1>2, <1>3, AppendProperties
<1>5. q # NoFile
  BY PieceFacts
<1>6. Len(q) <= Size
  BY <1>2, <1>4, Numbers
<1>7. f \notin out => Len(q) > 0 /\ \A i \in 1 .. Len(q) : q[i] = i
  BY <1>2, <1>4 DEF Good
<1>8. Good(f, fi, q, st, out)
  BY <1>5, <1>6, <1>7 DEF Good
<1> QED BY <1>2, <1>3, <1>4, <1>5, <1>8

\* Either way both are contents of a file.
LEMMA GoodTypes ==
  ASSUME NEW f, NEW fi, NEW pa, NEW st, NEW out, Good(f, fi, pa, st, out)
  PROVE  fi \in Contents /\ pa \in Contents /\ (pa # NoFile => Len(pa) \in 0 .. Size)
<1>1. \A s \in Seq(0 .. Size) : Len(s) \in Nat /\ (Len(s) <= Size => Len(s) \in 0 .. Size)
  BY LenProperties, Numbers
<1> QED BY <1>1, PieceFacts DEF Good

\* A step in which the disk may have failed for some files.
LEMMA FailsFor ==
  ASSUME JobTypes, NEW some \in SUBSET Files, Fails(some)
  PROVE  /\ excused' = excused \cup some /\ excused' \subseteq Files
         /\ failures' \in 0 .. MaxFailures
BY Numbers DEF JobTypes, Fails, failureVars

\* The last file is renamed, or cannot be: what becomes of the files ...
Renames(u, renamed, d, out) ==
  /\ d.file \in [Files -> Contents] /\ d.part \in [Files -> Contents]
  /\ d.stamp \in [Files -> {"none", "current", "other"}]
  /\ \A g \in Files : Good(g, d.file[g], d.part[g], d.stamp[g], out)
  /\ \A g \in Files \ {u} :
       d.file[g] = file[g] /\ d.part[g] = part[g] /\ d.stamp[g] = stamp[g]
  /\ renamed => /\ d.part[u] = NoFile
                /\ d.file[u] = IF part[u] = NoFile THEN file[u] ELSE part[u]
  /\ part[u] = NoFile => d.file[u] = file[u]
  /\ out \subseteq Files /\ (renamed => out = excused) /\ (~renamed => u \in out)
LEMMA Finalises ==
  ASSUME JobTypes, Disk, NEW u \in Files, NEW renamed \in BOOLEAN,
         renamed \/ MayNotRename(u), u \notin excused => part[u] \in {NoFile, Source},
         NEW d, d = Finalised(u, renamed), NEW out, out = excused \cup NotRenamed(u, renamed)
  PROVE  Renames(u, renamed, d, out)
<1>1. /\ file \in [Files -> Contents] /\ part \in [Files -> Contents]
      /\ stamp \in [Files -> {"none", "current", "other"}]
      /\ \A g \in Files : Good(g, file[g], part[g], stamp[g], excused)
      /\ NoFile \in Contents
  BY PieceFacts DEF JobTypes, Disk
<1>2. out \subseteq Files /\ (renamed => out = excused) /\ (~renamed => out = excused \cup {u})
  BY DEF JobTypes, NotRenamed
<1> DEFINE new == IF part[u] = NoFile THEN file[u] ELSE part[u]
<1>3. CASE renamed
  <2>1. new \in Contents
    BY <1>1
  <2>2. Good(u, new, NoFile, "none", excused)
    BY <1>1, GoodFinalised
  <2>3. /\ d.file = [file EXCEPT ![u] = new] /\ d.part = [part EXCEPT ![u] = NoFile]
        /\ d.stamp = [stamp EXCEPT ![u] = "none"]
    <3>1. file = [file EXCEPT ![u] = file[u]]
      BY <1>1
    <3> QED BY <1>3, <3>1 DEF Finalised
  <2> HIDE DEF new
  <2>4. /\ d.file[u] = new /\ d.part[u] = NoFile /\ d.stamp[u] = "none"
        /\ \A g \in Files \ {u} :
             d.file[g] = file[g] /\ d.part[g] = part[g] /\ d.stamp[g] = stamp[g]
    BY <1>1, <2>3
  <2>5. \A g \in Files : Good(g, d.file[g], d.part[g], d.stamp[g], out)
    BY <1>1, <1>2, <1>3, <2>2, <2>4
  <2>6. /\ d.file \in [Files -> Contents] /\ d.part \in [Files -> Contents]
        /\ d.stamp \in [Files -> {"none", "current", "other"}]
    BY <1>1, <2>1, <2>3
  <2>7. d.file[u] = IF part[u] = NoFile THEN file[u] ELSE part[u]
    BY <2>4 DEF new
  <2> QED BY <1>2, <1>3, <2>4, <2>5, <2>6, <2>7 DEF Renames
<1>4. CASE ~renamed
  <2>1. d.file = file /\ d.part = part /\ d.stamp = [stamp EXCEPT ![u] = "none"]
    BY <1>4 DEF Finalised
  <2>2. d.stamp \in [Files -> {"none", "current", "other"}]
        /\ \A g \in Files \ {u} : d.stamp[g] = stamp[g]
    BY <1>1, <2>1
  <2>3. Good(u, d.file[u], d.part[u], d.stamp[u], out)
    BY <1>1, <1>2, <1>4, <2>1, GoodExcused
  <2>4. \A g \in Files : Good(g, d.file[g], d.part[g], d.stamp[g], out)
    <3> SUFFICES ASSUME NEW g \in Files, g # u
                 PROVE  Good(g, d.file[g], d.part[g], d.stamp[g], out)
      BY <2>3
    <3>1. Good(g, file[g], part[g], d.stamp[g], excused)
      BY <1>1, <2>2
    <3> QED BY <1>2, <1>4, <2>1, <3>1, GoodExcused
  <2> QED BY <1>1, <1>2, <1>4, <2>1, <2>2, <2>4 DEF Renames
<1> QED BY <1>3, <1>4

\* A block of a file is written: what becomes of the files, those apart for which
\* the disk has failed ...
Written(f, n) ==
  /\ file' \in [Files -> Contents] /\ part' \in [Files -> Contents]
  /\ stamp' \in [Files -> {"none", "current", "other"}]
  /\ excused \subseteq excused' /\ excused' \subseteq Files /\ failures' \in 0 .. MaxFailures
  /\ \A g \in Files : Good(g, file'[g], part'[g], stamp'[g], excused')
  /\ \A g \in Files \ excused' :
       g \notin {f, writer.num} => file'[g] = file[g] /\ part'[g] = part[g]
  /\ writer.num \notin excused' /\ writer.num # f =>
       /\ part'[writer.num] = NoFile
       /\ file'[writer.num] =
            IF part[writer.num] = NoFile THEN file[writer.num] ELSE part[writer.num]
  /\ f \notin excused' =>
       /\ writer'.num = f /\ writer'.open /\ writer'.into = f /\ file'[f] = file[f]
       /\ part'[f] # NoFile /\ (n # 0 => Len(part'[f]) = n) /\ (n = 0 => part'[f] = Source)
  /\ writer'.num = f /\ writer'.open /\ writer'.into = f =>
       part'[f] # NoFile /\ (n # 0 => Len(part'[f]) <= n)
  /\ writer' \in Writers /\ writer'.there /\ writer'.num \in {f, writer.num}
  /\ writer'.open => writer'.into \in Files /\ writer'.into <= writer'.num

\* ... when it is the first of the file ...
LEMMA BeginsEffect ==
  ASSUME JobTypes, Disk, NEW f \in Files, NEW n \in 0 .. Size, NEW k \in 0 .. Size,
         k = IF n = 0 THEN Size ELSE n - 1, Write(f, n), writer.there,
         MayGoOn(Have, writer, f, k), MovesOn(f)
  PROVE  Written(f, n)
<1> DEFINE u == writer.num
<1>1. /\ file \in [Files -> Contents] /\ writer \in Writers /\ u \in Nat /\ u <= f /\ u \in Files
      /\ excused \subseteq Files /\ f \in 1 .. N + 1 /\ f \in 0 .. N
  <2>1. writer \in Writers /\ writer.num <= f
    BY DEF JobTypes, MayGoOn
  <2>2. u \in Nat /\ u <= f /\ u \in Files
    BY <2>1, WriterFields, Numbers
  <2>3. f \in 1 .. N + 1 /\ f \in 0 .. N
    BY Numbers
  <2> QED BY <2>1, <2>2, <2>3 DEF JobTypes
<1>2. ~(u = f /\ writer.open)
  BY DEF MovesOn
<1>3. f \notin excused => n = 1 /\ part[f] = NoFile
  <2>1. f \notin excused => k = 0 /\ part[f] = NoFile
    BY <1>2 DEF MayGoOn, Mine, Have
  <2> QED BY <2>1, Numbers
<1>4. u \notin excused => part[u] \in {NoFile, Source}
  <2>1. u < f => Settled(Have, writer)
    BY <1>2 DEF MayGoOn
  <2>2. u # f /\ u \notin excused => part[u] \in {NoFile, Source}
    BY <1>1, <2>1, Numbers DEF Settled, Mine, Have
  <2> QED BY <1>3, <2>2
<1>0. PICK renamed \in BOOLEAN :
        \E d, failed :
          /\ d = Finalised(u, renamed) /\ failed = NotRenamed(u, renamed)
          /\ renamed \/ MayNotRename(u)
          /\ file' = d.file
          /\ Creates(f, n, d, failed) \/ DoesNotCreate(f, d, failed)
  BY DEF Write
<1>5. PICK d, failed :
        /\ d = Finalised(u, renamed) /\ failed = NotRenamed(u, renamed)
        /\ renamed \/ MayNotRename(u)
        /\ file' = d.file
        /\ Creates(f, n, d, failed) \/ DoesNotCreate(f, d, failed)
  BY <1>0
<1>6. PICK out : out = excused \cup failed
  OBVIOUS
<1>7. /\ d.file \in [Files -> Contents] /\ d.part \in [Files -> Contents]
      /\ d.stamp \in [Files -> {"none", "current", "other"}]
      /\ \A g \in Files : Good(g, d.file[g], d.part[g], d.stamp[g], out)
      /\ \A g \in Files \ {u} :
           d.file[g] = file[g] /\ d.part[g] = part[g] /\ d.stamp[g] = stamp[g]
      /\ renamed => /\ d.part[u] = NoFile
                    /\ d.file[u] = IF part[u] = NoFile THEN file[u] ELSE part[u]
      /\ part[u] = NoFile => d.file[u] = file[u]
      /\ out \subseteq Files /\ (renamed => out = excused) /\ (~renamed => u \in out)
  BY <1>1, <1>4, <1>5, <1>6, Finalises DEF Renames
<1>8. failed \subseteq Files
  BY <1>6, <1>7
<1>9. f \notin out => d.file[f] = file[f]
  BY <1>1, <1>3, <1>6, <1>7
<1>10. CASE Creates(f, n, d, failed)
  <2>1. PICK begun, mark, more :
          /\ part' = [d.part EXCEPT ![f] = begun] /\ stamp' = [d.stamp EXCEPT ![f] = mark]
          /\ Begins(n, begun) /\ mark \in {"current", "none"}
          /\ more \subseteq Files
          /\ f \notin more => mark = "current" /\ (n # 0 => begun = <<n>>)
          /\ Fails(failed \cup more)
    <3>1. PICK noted \in BOOLEAN, stored \in {n # 0, FALSE} :
            /\ part' = [d.part EXCEPT ![f] = IF stored THEN <<n>> ELSE <<>>]
            /\ stamp' = [d.stamp EXCEPT ![f] = IF noted THEN "current" ELSE "none"]
            /\ Fails(failed \cup IF noted /\ stored = (n # 0) THEN {} ELSE {f})
      BY <1>10 DEF Creates
    <3> DEFINE begun == IF stored THEN <<n>> ELSE <<>>
               mark == IF noted THEN "current" ELSE "none"
               more == IF noted /\ stored = (n # 0) THEN {} ELSE {f}
    <3>2. Begins(n, begun) /\ mark \in {"current", "none"} /\ more \subseteq Files
      BY DEF Begins
    <3>3. f \notin more => mark = "current" /\ (n # 0 => begun = <<n>>)
      OBVIOUS
    <3> HIDE DEF begun, mark, more
    <3>4. /\ part' = [d.part EXCEPT ![f] = begun] /\ stamp' = [d.stamp EXCEPT ![f] = mark]
          /\ Fails(failed \cup more)
      BY <3>1 DEF begun, mark, more
    <3> QED BY <3>2, <3>3, <3>4
  <2>3. /\ excused' = out \cup more /\ excused' \subseteq Files /\ excused \subseteq excused'
        /\ failures' \in 0 .. MaxFailures
    <3>1. failed \cup more \in SUBSET Files
      BY <1>8, <2>1
    <3>2. /\ excused' = excused \cup (failed \cup more) /\ excused' \subseteq Files
          /\ failures' \in 0 .. MaxFailures
      BY <2>1, <3>1, FailsFor
    <3> QED BY <1>6, <3>2
  <2>4. writer' = [writer EXCEPT !.num = f, !.open = TRUE, !.into = f]
    BY <1>10 DEF Creates
  <2>5. /\ writer' \in Writers /\ writer'.there /\ writer'.num = f /\ writer'.open
        /\ writer'.into = f /\ f <= f
    <3>1. /\ writer' = [writer EXCEPT !.num = f, !.open = TRUE, !.into = f]
          /\ writer \in Writers /\ f \in 1 .. N + 1 /\ f \in 0 .. N
      BY <1>1, <2>4
    <3>2. f <= f
      BY Numbers
    <3> QED BY <3>1, <3>2 DEF Writers
  <2>7. /\ Good(f, d.file[f], begun, mark, excused')
        /\ begun # NoFile /\ (n # 0 => Len(begun) <= n)
        /\ f \notin excused' => Len(begun) = n /\ n = 1
    <3>1. f \notin excused' => n = 1 /\ begun = <<n>> /\ mark = "current"
      BY <1>3, <2>1, <2>3
    <3>2. Good(f, d.file[f], d.part[f], d.stamp[f], excused')
      <4>1. Good(f, d.file[f], d.part[f], d.stamp[f], out) /\ (f \in out => f \in excused')
        BY <1>7, <2>3
      <4> QED BY <4>1, GoodExcused
    <3>3. /\ Good(f, d.file[f], begun, mark, excused')
          /\ begun # NoFile /\ (n # 0 => Len(begun) <= n)
          /\ f \notin excused' => Len(begun) = n
      BY <2>1, <3>1, <3>2, GoodBegun
    <3> QED BY <3>1, <3>3
  <2>8. begun \in Contents
    BY <2>7, GoodTypes
  <2>9. /\ part' \in [Files -> Contents] /\ stamp' \in [Files -> {"none", "current", "other"}]
        /\ part'[f] = begun /\ stamp'[f] = mark
        /\ \A g \in Files \ {f} : part'[g] = d.part[g] /\ stamp'[g] = d.stamp[g]
    BY <1>7, <2>1, <2>8
  <2>10. \A g \in Files : Good(g, file'[g], part'[g], stamp'[g], excused')
    <3> SUFFICES ASSUME NEW g \in Files, g # f
                 PROVE  Good(g, file'[g], part'[g], stamp'[g], excused')
      BY <1>5, <2>7, <2>9
    <3>1. Good(g, file'[g], part'[g], stamp'[g], out)
      BY <1>5, <1>7, <2>9
    <3>2. g \in out => g \in excused'
      BY <2>3
    <3> QED BY <3>1, <3>2, GoodExcused
  <2>11. u \notin excused' /\ u # f =>
           part'[u] = NoFile /\ file'[u] = IF part[u] = NoFile THEN file[u] ELSE part[u]
    BY <1>1, <1>5, <1>7, <2>3, <2>9
  <2>12. \A g \in Files \ excused' : g \notin {f, u} => file'[g] = file[g] /\ part'[g] = part[g]
    BY <1>5, <1>7, <2>9
  <2>13. f \notin excused' =>
           file'[f] = file[f] /\ part'[f] # NoFile /\ (n # 0 => Len(part'[f]) = n) /\ n # 0
    BY <1>5, <1>9, <2>3, <2>7, <2>9
  <2>14. part'[f] # NoFile /\ (n # 0 => Len(part'[f]) <= n)
    BY <2>7, <2>9
  <2>15. file' \in [Files -> Contents]
    BY <1>5, <1>7
  <2> QED
    BY <2>3, <2>5, <2>9, <2>10, <2>11, <2>12, <2>13, <2>14, <2>15, Numbers DEF Written
<1>11. CASE DoesNotCreate(f, d, failed)
  <2>1. /\ excused' = out \cup {f} /\ excused' \subseteq Files /\ excused \subseteq excused'
        /\ failures' \in 0 .. MaxFailures
    <3>1. failed \cup {f} \in SUBSET Files
      BY <1>8
    <3> QED BY <1>6, <1>11, <3>1, FailsFor DEF DoesNotCreate
  <2>2. PICK mark : /\ part' = d.part /\ stamp' = mark
                    /\ mark \in {d.stamp, [d.stamp EXCEPT ![f] = "none"]}
    BY <1>11 DEF DoesNotCreate
  <2>3. /\ stamp' \in [Files -> {"none", "current", "other"}]
        /\ \A g \in Files \ {f} : stamp'[g] = d.stamp[g]
    BY <1>7, <2>2
  <2>4. /\ writer' \in Writers /\ writer'.there
        /\ \/ writer' = writer /\ writer.open
           \/ writer'.num = f /\ writer'.into = writer.into /\ writer'.open = writer.open
    BY <1>1, <1>11 DEF DoesNotCreate, Writers
  <2>5. /\ writer'.num \in {f, u}
        /\ writer'.open => writer'.into \in Files /\ writer'.into <= writer'.num
        /\ writer'.num = f /\ writer'.open => writer'.into # f
    <3>1. writer.open => writer.into \in Files /\ writer.into <= u
      BY DEF Disk
    <3>2. writer.open => writer.into \in Nat /\ writer.into <= f /\ (writer.into = f => u = f)
      BY <1>1, <3>1, Numbers
    <3> QED BY <1>2, <2>4, <3>1, <3>2
  <2>6. \A g \in Files : Good(g, file'[g], part'[g], stamp'[g], excused')
    <3> SUFFICES ASSUME NEW g \in Files
                 PROVE  Good(g, file'[g], part'[g], stamp'[g], excused')
      OBVIOUS
    <3>1. /\ Good(g, file'[g], part'[g], d.stamp[g], out) /\ (g \in out => g \in excused')
          /\ f \in excused' /\ (g # f => stamp'[g] = d.stamp[g])
      BY <1>5, <1>7, <2>1, <2>2, <2>3
    <3>2. /\ Good(g, file'[g], part'[g], d.stamp[g], excused')
          /\ g \in excused' => Good(g, file'[g], part'[g], stamp'[g], excused')
      BY <3>1, GoodExcused
    <3> QED BY <3>1, <3>2
  <2>7. writer'.num = f /\ writer'.open /\ writer'.into = f =>
          part'[f] # NoFile /\ (n # 0 => Len(part'[f]) <= n)
    BY <2>5
  <2> QED BY <1>1, <1>5, <1>7, <2>1, <2>2, <2>3, <2>4, <2>5, <2>6, <2>7 DEF Written
<1> QED BY <1>5, <1>10, <1>11

\* ... and when it follows others.
LEMMA GoesOnEffect ==
  ASSUME JobTypes, Disk, NEW f \in Files, NEW n \in 0 .. Size, NEW k \in 0 .. Size,
         k = IF n = 0 THEN Size ELSE n - 1, Write(f, n), writer.there,
         MayGoOn(Have, writer, f, k), ~MovesOn(f)
  PROVE  Written(f, n)
<1> DEFINE new == Append(part[f], n)
<1>1. /\ file \in [Files -> Contents] /\ part \in [Files -> Contents]
      /\ stamp \in [Files -> {"none", "current", "other"}]
      /\ writer \in Writers /\ excused \subseteq Files /\ failures \in 0 .. MaxFailures
      /\ \A g \in Files : Good(g, file[g], part[g], stamp[g], excused)
  BY DEF JobTypes, Disk
<1>2. /\ writer.num = f /\ writer.open /\ writer' = writer /\ stamp' = stamp
      /\ writer.into \in Files /\ writer.into <= writer.num
  BY DEF MovesOn, Write, Continues, Disk
<1>3. /\ writer.into = f => /\ part[f] # NoFile /\ Len(part[f]) <= k
                            /\ f \notin excused => Len(part[f]) = k
      /\ writer.into # f => f \in excused
  BY <1>2 DEF MayGoOn, Mine, Have
<1>4. part[f] # NoFile => Len(part[f]) \in 0 .. Size
  BY <1>1, GoodTypes
<1>5. n # 0 => n \in 1 .. Size /\ k = n - 1
  OBVIOUS
<1>6. CASE n = 0 /\ UNCHANGED <<file, part, failureVars>>
  <2>1. f \notin excused => part[f] = Source
    <3> SUFFICES ASSUME f \notin excused PROVE part[f] = Source
      OBVIOUS
    <3>1. part[f] # NoFile /\ Len(part[f]) = Size
      BY <1>3, <1>6
    <3> QED BY <1>1, <3>1, PieceFacts DEF Good
  <2> QED BY <1>1, <1>2, <1>3, <1>6, <2>1 DEF Written, failureVars
<1>7. CASE n # 0 /\ Fails({f}) /\ UNCHANGED <<file, part>>
  <2>1. /\ excused' = excused \cup {f} /\ excused' \subseteq Files /\ failures' \in 0 .. MaxFailures
    BY <1>7, FailsFor
  <2>2. \A g \in Files : Good(g, file'[g], part'[g], stamp'[g], excused')
    <3> SUFFICES ASSUME NEW g \in Files
                 PROVE  Good(g, file'[g], part'[g], stamp'[g], excused')
      OBVIOUS
    <3>1. Good(g, file'[g], part'[g], stamp'[g], excused) /\ (g \in excused => g \in excused')
      BY <1>1, <1>2, <1>7, <2>1
    <3> QED BY <3>1, GoodExcused
  <2>3. writer.into = f => part[f] # NoFile /\ Len(part[f]) <= n
    BY <1>3, <1>4, <1>5, <1>7
  <2> QED BY <1>1, <1>2, <1>7, <2>1, <2>2, <2>3 DEF Written
<1>8. CASE /\ n # 0 /\ writer.into = f
           /\ part' = [part EXCEPT ![f] = new] /\ UNCHANGED <<file, failureVars>>
  <2>1. Len(part[f]) < n /\ (f \notin excused => Len(part[f]) + 1 = n) /\ n \in 1 .. Size
    BY <1>3, <1>4, <1>5, <1>8
  <2>2. /\ Good(f, file[f], new, stamp[f], excused) /\ new # NoFile
        /\ Len(new) = Len(part[f]) + 1
    <3>1. Good(f, file[f], part[f], stamp[f], excused) /\ part[f] # NoFile
      BY <1>1, <1>3, <1>8
    <3> QED BY <2>1, <3>1, GoodGoesOn
  <2>3. Len(new) <= n /\ (f \notin excused => Len(new) = n) /\ new \in Contents
    BY <1>3, <1>4, <1>8, <2>1, <2>2, GoodTypes
  <2> HIDE DEF new
  <2>4. part' \in [Files -> Contents] /\ part'[f] = new /\ \A g \in Files \ {f} : part'[g] = part[g]
    BY <1>1, <1>8, <2>3
  <2> QED BY <1>1, <1>2, <1>8, <2>2, <2>3, <2>4 DEF Written, failureVars
<1>9. CASE n # 0 /\ writer.into # f /\ Mixes(writer.into)
  <2>1. PICK v \in Files : v = writer.into /\ v # f
    BY <1>2, <1>9
  <2>2. excused' = excused \cup {v} /\ failures' = failures
    BY <1>9, <2>1 DEF Mixes
  <2>3. Mixed \in Seq(0 .. Size) /\ Len(Mixed) = 1 /\ Len(Mixed) <= Size
    BY Numbers DEF Mixed
  <2>4. Mixed \in Contents /\ Mixed # NoFile
    BY <2>3, PieceFacts
  <2>5. PICK fi \in [Files -> Contents], pa \in [Files -> Contents] :
          /\ file' = fi /\ part' = pa
          /\ \A g \in Files \ {v} : fi[g] = file[g] /\ pa[g] = part[g]
          /\ Good(v, fi[v], pa[v], stamp[v], excused')
    <3>1. CASE part[v] = NoFile
      <4>1. file' = [file EXCEPT ![v] = Mixed] /\ part' = part
        BY <1>9, <2>1, <3>1 DEF Mixes
      <4>2. file' \in [Files -> Contents] /\ file'[v] = Mixed
            /\ \A g \in Files \ {v} : file'[g] = file[g]
        BY <1>1, <2>4, <4>1
      <4>3. Good(v, file'[v], part'[v], stamp[v], excused')
        BY <2>2, <2>3, <3>1, <4>1, <4>2 DEF Good
      <4> QED BY <1>1, <4>1, <4>2, <4>3
    <3>2. CASE part[v] # NoFile
      <4>1. part' = [part EXCEPT ![v] = Mixed] /\ file' = file
        BY <1>9, <2>1, <3>2 DEF Mixes
      <4>2. part' \in [Files -> Contents] /\ part'[v] = Mixed
            /\ \A g \in Files \ {v} : part'[g] = part[g]
        BY <1>1, <2>4, <4>1
      <4>3. Good(v, file'[v], part'[v], stamp[v], excused')
        BY <1>1, <2>2, <2>3, <4>1, <4>2 DEF Good
      <4> QED BY <1>1, <4>1, <4>2, <4>3
    <3> QED BY <3>1, <3>2
  <2>6. \A g \in Files : Good(g, file'[g], part'[g], stamp'[g], excused')
    <3> SUFFICES ASSUME NEW g \in Files, g # v
                 PROVE  Good(g, file'[g], part'[g], stamp'[g], excused')
      BY <1>2, <2>5
    <3>1. Good(g, file'[g], part'[g], stamp'[g], excused) /\ (g \in excused => g \in excused')
      BY <1>1, <1>2, <2>2, <2>5
    <3> QED BY <3>1, GoodExcused
  <2> QED BY <1>1, <1>2, <1>3, <1>9, <2>1, <2>2, <2>5, <2>6 DEF Written
<1> QED BY <1>2, <1>6, <1>7, <1>8, <1>9 DEF Write, Continues

LEMMA WriteEffect ==
  ASSUME JobTypes, Disk, NEW f \in Files, NEW n \in 0 .. Size, NEW k \in 0 .. Size,
         k = IF n = 0 THEN Size ELSE n - 1, Write(f, n), writer.there,
         MayGoOn(Have, writer, f, k)
  PROVE  Written(f, n)
BY BeginsEffect, GoesOnEffect

\* ... and what may follow.
LEMMA WriterGetsBlockKeeps ==
  ASSUME TransferInv, WriterGetsBlock PROVE TransferInv'
<1> USE DEF TransferInv
<1>1. /\ toWriter \in Seq(Messages) /\ toReader \in Seq(Messages) /\ toWriter # <<>>
      /\ toWriter' = Tail(toWriter) /\ toWriter' \in Seq(Messages)
      /\ Head(toWriter) \in Messages /\ Head(toWriter) = toWriter[1]
      /\ Head(toWriter) \in Range(toWriter)
  BY RangeTail, HeadTailProperties DEF JobTypes, WriterGetsBlock, Handled
<1>2. PICK f \in Files, n \in 0 .. Size : Head(toWriter) = Message("block", f, n)
  <2>1. Head(toWriter).kind = "block"
    BY DEF WriterGetsBlock
  <2>2. PICK f \in Files, n \in Hows : Head(toWriter) = Message("block", f, n)
    BY <1>1, <2>1 DEF Messages, Message
  <2>3. Head(toWriter).n = n /\ n # Skip
    BY <1>1, <2>1, <2>2, MessageFields DEF Agreeing
  <2>4. n \in 0 .. Size
    BY <2>3, Numbers
  <2> QED BY <2>2, <2>4
<1>3. 0 \in 0 .. Size /\ \A i \in 0 .. Size : i \in Hows /\ i # Skip
  BY Numbers
<1>4. /\ Head(toWriter).kind = "block" /\ Head(toWriter).f = f /\ Head(toWriter).n = n
      /\ f \in agreed /\ (reader.there => f <= reader.num)
  BY <1>1, <1>2, <1>3, MessageFields DEF Agreeing
<1>5. /\ UNCHANGED <<download, reader, is_resume, strategy, meta, resumes, errors, question, toReader,
                     refused, agreed, cancelled, done>>
      /\ IF writer.there THEN Write(f, n)
                         ELSE UNCHANGED <<file, part, stamp, failures, excused, writer>>
  BY <1>4 DEF WriterGetsBlock, OverWriter, diskVars, failureVars
<1>6. /\ Has(toWriter, Works)
      /\ question = 0 /\ Token(toReader).kind \notin Verdicts /\ meta = 0
  <2>1. Has(toWriter, Works)
    BY <1>1, <1>4, HasSome DEF Works
  <2>2. Has(toWriter, Works \cup Digests)
    BY <1>1, <2>1, HasSome
  <2> QED BY <1>1, <2>1, <2>2 DEF OneTalk
<1>7. \A A : Has(toWriter', A) => Has(toWriter, A)
  BY <1>1, TailHas
<1>8. Agreeing'
  <2>1. \A m : m \in Range(toWriter') => m \in Range(toWriter)
    BY <1>1, RangeTail
  <2> QED BY <1>5, <2>1 DEF Agreeing
<1>9. Shape'
  BY <1>5 DEF Shape
<1> DEFINE k == IF n = 0 THEN Size ELSE n - 1
<1>16. writer.there => MayGoOn(Have, writer, f, k) /\ Written(f, n)
  <2> SUFFICES ASSUME writer.there PROVE MayGoOn(Have, writer, f, k) /\ Written(f, n)
    OBVIOUS
  <2>1. Write(f, n)
    BY <1>5
  <2>2. k \in 0 .. Size
    BY Numbers
  <2>3. MayGoOn(Have, writer, f, k)
    <3>1. WriterAt(toWriter, toReader, reader) = Sending(f, k)
      BY <1>1, <1>2, FromTo DEF WriterAt
    <3> QED BY <3>1, FitsPlaces DEF Chain
  <2> QED BY <2>1, <2>2, <2>3, WriteEffect
<1>10. writer'.there = writer.there /\ writer' \in Writers
  BY <1>5, <1>16 DEF Written, JobTypes
<1>11. OneTalk'
  <2>1. Before(toWriter', Works, Digests) /\ AtMostOne(toWriter', Digests)
    BY <1>1, TailHas DEF OneTalk
  <2>2. /\ \A i \in 2 .. Len(toReader') : toReader'[i] = Plain("cancel")
        /\ Token(toReader') = Token(toReader) /\ Alone(toReader') = Alone(toReader)
    BY <1>5 DEF OneTalk
  <2> QED BY <1>5, <1>6, <1>7, <1>10, <2>1, <2>2 DEF OneTalk
<1>12. Known'
  BY <1>5, <1>6 DEF Known, Verdicts
<1>13. CASE ~writer.there
  <2>1. DiskSame /\ writer' = writer
    BY <1>5, <1>13 DEF DiskSame, diskVars, failureVars
  <2>2. JobTypes'
    BY <1>1, <1>5, <2>1 DEF JobTypes, DiskSame, diskVars, failureVars
  <2>3. Disk'
    <3>1. reader'.num = reader.num /\ reader.num \in Nat /\ reader.num <= reader.num
      BY <1>5, ReaderFields, Numbers DEF JobTypes
    <3> QED BY <1>5, <2>1, <2>2, <3>1, DiskKept
  <2>4. Chain'
    BY <1>1, <1>5, <1>10, <1>13, Takes
  <2>5. Ended'
    <3>1. Has(toWriter', Dones) => ~reader'.there /\ question' = 0
      BY <1>5, <1>7 DEF Ended
    <3> QED BY <1>5, <2>1, <3>1, EndedKept
  <2> QED BY <1>8, <1>9, <1>11, <1>12, <2>2, <2>3, <2>4, <2>5
<1>14. CASE writer.there
  <2> DEFINE u == writer.num
             w == writer'
  <2>1. Written(f, n) /\ MayGoOn(Have, writer, f, k)
    BY <1>14, <1>16
  <2>2. excused \subseteq excused' /\ excused' \subseteq Files
    BY <2>1 DEF Written
  <2>3. w \in Writers /\ w.there /\ w.num \in {f, u} /\ (f \notin excused' => w.num = f /\ w.open)
    BY <2>1 DEF Written
  <2>4. /\ Have'.file = file' /\ Have'.part = part' /\ Have'.refused = refused
        /\ Have'.excused = excused' /\ Have'.counts = Have.counts /\ Mine(Have') = Files \ excused'
        /\ Have.file = file /\ Have.part = part /\ Have.refused = refused
        /\ Have.excused = excused /\ Mine(Have) = Files \ excused
    BY <1>5 DEF Have, Counts, Mine
  <2>5. u <= f /\ u \in Nat /\ f \in Nat /\ w.num \in Nat /\ \A g \in Files : g \in Nat
    BY <2>1, <2>3, WriterFields, Numbers DEF MayGoOn, JobTypes
  \* what is written of the files of which something is known
  <2>6. \A g \in Files \ excused' : g \notin {f, u} => file'[g] = file[g] /\ part'[g] = part[g]
    BY <2>1 DEF Written
  <2>7. u \notin excused' /\ u # f =>
          part'[u] = NoFile /\ file'[u] = IF part[u] = NoFile THEN file[u] ELSE part[u]
    BY <2>1 DEF Written
  <2>8. f \notin excused' =>
          /\ file'[f] = file[f] /\ part'[f] # NoFile /\ (n = 0 => part'[f] = Source)
          /\ n # 0 => Len(part'[f]) = n
    BY <2>1 DEF Written
  <2>9. JobTypes'
    BY <1>1, <1>5, <1>10, <2>1 DEF JobTypes, Written
  <2>10. Blanks(Have', w.num)
    <3> SUFFICES ASSUME NEW g \in Files \ excused', g > w.num PROVE part'[g] = NoFile
      BY <2>4 DEF Blanks
    <3>1. g # f /\ g > u
      BY <2>3, <2>5
    <3>2. part[g] = NoFile
      BY <1>14, <2>2, <2>4, <3>1 DEF Disk, Blanks
    <3>3. g # u
      BY <2>5, <3>1
    <3> QED BY <2>6, <3>1, <3>2, <3>3
  \* what has arrived stays, and the last file has arrived when it is renamed
  <2>11. ASSUME Have.counts, NEW g \in Files \ excused', g < f
         PROVE  g \in refused \/ file'[g] = Source
    <3>1. g < u => file[g] = Source \/ g \in refused
      BY <1>14, <2>2, <2>4, <2>11 DEF Disk, Behind
    <3>2. u <= g => g \in refused \/ (g = u /\ Source = IF part[u] = NoFile THEN file[u] ELSE part[u])
      BY <2>1, <2>2, <2>4, <2>11 DEF MayGoOn, Arrived
    <3>3. CASE g < u
      <4>1. g # u /\ g # f
        BY <2>5, <2>11, <3>3
      <4> QED BY <2>6, <3>1, <3>3, <4>1
    <3>4. CASE ~(g < u)
      BY <2>5, <2>7, <2>11, <3>2, <3>4
    <3> QED BY <3>3, <3>4
  <2>12. Behind(Have', w)
    <3> SUFFICES ASSUME Have.counts, NEW g \in Files \ excused', g < w.num
                 PROVE  file'[g] = Source \/ g \in refused
      BY <2>4 DEF Behind
    <3>1. g < f
      BY <2>3, <2>5
    <3> QED BY <2>11, <3>1
  <2>13. Arrived(Have', w, f)
    <3> SUFFICES ASSUME Have.counts, NEW g \in Files \ excused', w.num <= g, g < f
                 PROVE  \/ g \in refused
                        \/ g = w.num /\ Source = IF part'[g] = NoFile THEN file'[g] ELSE part'[g]
      BY <2>4 DEF Arrived
    <3>1. w.num = u /\ u # f /\ u <= g
      BY <2>3, <2>5
    <3>2. g \in refused \/ g = u
      BY <2>1, <2>2, <2>4, <3>1 DEF MayGoOn, Arrived
    <3> QED BY <2>7, <2>11, <3>1, <3>2
  <2>14. w.num # f => f \notin Mine(Have') /\ Settled(Have', w)
    BY <2>3, <2>4, <2>7 DEF Settled
  <2>15. Disk'
    <3>1. reader'.there => Blanks(Have', reader'.num)
      <4> SUFFICES ASSUME reader.there, NEW g \in Files \ excused', g > reader.num
                   PROVE  part'[g] = NoFile
        BY <1>5, <2>4 DEF Blanks
      <4>1. reader.num \in Nat /\ f <= reader.num /\ Blanks(Have, reader.num)
        BY <1>4, ReaderFields, Numbers DEF JobTypes, Disk
      <4>2. g # f /\ g # u
        BY <2>5, <4>1
      <4>3. part[g] = NoFile
        BY <2>2, <2>4, <4>1 DEF Blanks
      <4> QED BY <2>6, <4>2, <4>3
    <3>2. \A g \in Files : Good(g, file[g], part[g], stamp[g], excused)'
      BY <2>1 DEF Written
    <3>3. w.open => w.num \in Files /\ w.into \in Files /\ w.into <= w.num
      <4>1. w.open => w.into \in Files /\ w.into <= w.num
        BY <2>1 DEF Written
      <4>2. u \in Files
        BY <2>5, WriterFields, Numbers DEF JobTypes
      <4> QED BY <2>3, <4>1, <4>2
    <3>4. ~w.open /\ ~is_resume' /\ w.num \in Mine(Have') => part'[w.num] = NoFile
      BY <2>3, <2>4, <2>7
    <3> QED BY <1>5, <1>6, <2>3, <2>10, <2>12, <3>1, <3>2, <3>3, <3>4 DEF Disk
  <2>16. Fits(Have', w, To(Head(toWriter))) /\ To(Head(toWriter)) # Over
    <3>1. CASE n = 0
      <4>1. To(Head(toWriter)) = ToBegin(f + 1)
        BY <1>2, <1>3, <3>1, FromTo
      <4>2. Arrived(Have', w, f + 1)
        <5> SUFFICES ASSUME Have.counts, NEW g \in Files \ excused', w.num <= g, g < f + 1
                     PROVE  \/ g \in refused
                            \/ g = w.num /\ Source = IF part'[g] = NoFile THEN file'[g] ELSE part'[g]
          BY <2>4 DEF Arrived
        <5>1. CASE g = f
          BY <2>3, <2>8, <3>1, <5>1, PieceFacts
        <5>2. CASE g # f
          <6>1. g < f
            BY <2>5, <5>2
          <6> QED BY <2>4, <2>13, <6>1 DEF Arrived
        <5> QED BY <5>1, <5>2
      <4>3. Settled(Have', w)
        BY <2>4, <2>8, <2>14, <3>1 DEF Settled
      <4>4. w.num <= f + 1 /\ w.num # f + 1
        BY <2>3, <2>5
      <4>5. MayBegin(Have', w, f + 1)
        BY <4>2, <4>3, <4>4 DEF MayBegin
      <4>6. Fits(Have', w, ToBegin(f + 1)) /\ ToBegin(f + 1) # Over
        BY <4>5, FitsPlaces, Places
      <4> QED BY <4>1, <4>6
    <3>2. CASE n # 0
      <4>1. To(Head(toWriter)) = Sending(f, n)
        BY <1>2, <1>3, <3>2, FromTo
      <4>2. w.num <= f /\ (w.num = f => ~(w.num < f))
        BY <2>3, <2>5
      <4>3. w.num = f /\ w.open /\ w.into = f =>
              part'[f] # NoFile /\ Len(part'[f]) <= n /\ (f \notin excused' => Len(part'[f]) = n)
        BY <2>1, <2>8, <3>2 DEF Written
      <4>4. f \notin excused' => w.num = f /\ w.open /\ w.into = f
        BY <2>1 DEF Written
      <4>5. MayGoOn(Have', w, f, n)
        BY <2>3, <2>4, <2>13, <2>14, <4>2, <4>3, <4>4 DEF MayGoOn
      <4>6. Fits(Have', w, Sending(f, n)) /\ Sending(f, n) # Over
        BY <4>5, Places DEF Fits
      <4> QED BY <4>1, <4>6
    <3> QED BY <3>1, <3>2
  <2>17. Chain'
    BY <1>1, <1>5, <1>6, <2>16, Takes DEF Verdicts
  <2>18. Ended'
    <3>1. ~(done /\ Counts)
      BY <1>14 DEF Ended
    <3>2. Counts' = Counts
      BY <1>5 DEF Counts
    <3> QED BY <1>5, <1>7, <3>1, <3>2 DEF Ended
  <2> QED BY <1>8, <1>9, <1>11, <1>12, <2>9, <2>15, <2>17, <2>18
<1> QED BY <1>13, <1>14

-----------------------------------------------------------------------------
(* FileTransfer: a file is decided about.                                  *)

\* A file is decided about that the writer may begin with: to skip it, to send
\* it, or, if some of it was transferred, to go on with it.
DecidesAbout(f, how) ==
  /\ f \in Files /\ how \in Hows
  /\ writer.there =>
       /\ MayBegin(Have, writer, f)
       /\ Transferred(f) > 0 => how = Transferred(f)
       /\ Transferred(f) = 0 => how \in {0, Skip}
  /\ Decide(f, how)
  /\ UNCHANGED <<download, file, part, stamp, is_resume, resumes>>
  /\ excused \subseteq excused' /\ excused' \subseteq Files

\* A decision changes nothing on the disk, though the disk may fail; the file is
\* refused or no longer is.
LEMMA DecisionHave ==
  ASSUME NEW f, NEW how, DecidesAbout(f, how)
  PROVE  /\ Have'.file = file /\ Have'.part = part /\ Have'.excused = excused'
         /\ Have'.counts = Have.counts /\ Mine(Have') = Files \ excused' /\ Counts' = Counts
         /\ Have'.refused = IF how = Skip THEN refused \cup {f} ELSE refused \ {f}
         /\ Have.file = file /\ Have.part = part /\ Have.refused = refused
         /\ Have.excused = excused /\ Mine(Have) = Files \ excused
         /\ Mine(Have') \subseteq Mine(Have)
BY DEF DecidesAbout, Decide, Have, Counts, Mine

\* What was transferred of a file, and what was not.
LEMMA TransferredFacts ==
  ASSUME JobTypes, Disk, NEW f \in Files
  PROVE  /\ Transferred(f) \in 0 .. Size
         /\ Transferred(f) > 0 => part[f] # NoFile /\ Len(part[f]) = Transferred(f)
         /\ writer.there /\ MayBegin(Have, writer, f) /\ Transferred(f) = 0 /\ f \notin excused
              => part[f] = NoFile
<1>1. Good(f, file[f], part[f], stamp[f], excused)
  BY DEF Disk
<1>2. part[f] # NoFile => Len(part[f]) \in 0 .. Size
  BY <1>1, GoodTypes
<1>3. Transferred(f) \in 0 .. Size
  BY <1>2, Numbers DEF Transferred
<1>4. Transferred(f) > 0 => part[f] # NoFile /\ Len(part[f]) = Transferred(f)
  BY DEF Transferred
<1>5. ASSUME writer.there, MayBegin(Have, writer, f), Transferred(f) = 0, f \notin excused
      PROVE  part[f] = NoFile
  <2>1. CASE is_resume
    <3>1. part[f] # NoFile => stamp[f] = "current" /\ Len(part[f]) > 0
      BY <1>1, <1>5 DEF Good
    <3> QED BY <1>2, <1>5, <2>1, <3>1 DEF Transferred
  <2>2. CASE ~is_resume
    <3>1. writer.num <= f /\ (writer.num = f => ~writer.open) /\ writer.num \in Nat /\ f \in Nat
      BY <1>5, WriterFields, Numbers DEF JobTypes, MayBegin
    <3>2. Mine(Have) = Files \ excused /\ Have.part = part
      BY DEF Mine, Have
    <3>3. CASE writer.num = f
      BY <1>5, <2>2, <3>1, <3>2, <3>3 DEF Disk
    <3>4. CASE writer.num < f
      BY <1>5, <3>1, <3>2, <3>4 DEF Disk, Blanks
    <3> QED BY <3>1, <3>3, <3>4
  <2> QED BY <2>1, <2>2 DEF JobTypes
<1> QED BY <1>3, <1>4, <1>5

\* Whoever hears of the decision, the writer can go on from where it leads.
LEMMA DecisionFits ==
  ASSUME JobTypes, Disk, NEW f, NEW how, DecidesAbout(f, how), writer.there, NEW w,
         w = WriterConfirm(writer, f, how)
  PROVE  /\ Fits(Have', w, To(Message("confirm", f, how)))
         /\ Fits(Have', writer, From(Message("confirm", f, how)))
         /\ how \in {0, Skip} \/ f \in excused' => Fits(Have', writer, To(Message("confirm", f, how)))
         /\ To(Message("confirm", f, how)) # Over
         /\ Blanks(Have', w.num) /\ Behind(Have', w)
         /\ Blanks(Have', writer.num) /\ Behind(Have', writer)
         /\ w \in Writers /\ w.there
         /\ w.open => w.num \in Files /\ w.into \in Files /\ w.into <= w.num
         /\ ~w.open /\ ~is_resume /\ w.num \in Mine(Have') => part[w.num] = NoFile
<1>1. /\ f \in Files /\ how \in Hows /\ MayBegin(Have, writer, f) /\ writer \in Writers
      /\ Transferred(f) > 0 => how = Transferred(f)
      /\ Transferred(f) = 0 => how \in {0, Skip}
  BY DEF DecidesAbout, JobTypes
<1>2. /\ writer.num \in Nat /\ f \in Nat /\ writer.num <= f /\ (\A g \in Files : g \in Nat)
      /\ writer.num \in 1 .. N + 1 /\ writer.num \in Files
  BY <1>1, WriterFields, Numbers DEF MayBegin
<1> DEFINE M == Files \ excused'
<1>3. /\ Have'.file = file /\ Have'.part = part /\ Have'.excused = excused'
      /\ Have'.counts = Have.counts /\ Mine(Have') = M
      /\ \A g \in M : g # f => (g \in Have'.refused <=> g \in refused)
      /\ how = Skip => f \in Have'.refused
      /\ Have.file = file /\ Have.part = part /\ Have.refused = refused
      /\ Have.excused = excused /\ M \subseteq Mine(Have) /\ (writer.num \in M => writer.num \in Mine(Have))
  <2>1. /\ Have'.file = file /\ Have'.part = part /\ Have'.excused = excused'
        /\ Have'.counts = Have.counts /\ Mine(Have') = M
        /\ Have'.refused = IF how = Skip THEN refused \cup {f} ELSE refused \ {f}
        /\ Have.file = file /\ Have.part = part /\ Have.refused = refused
        /\ Have.excused = excused /\ M \subseteq Mine(Have)
    BY DecisionHave
  <2>2. /\ \A g \in M : g # f => (g \in Have'.refused <=> g \in refused)
        /\ how = Skip => f \in Have'.refused
    BY <2>1
  <2> QED BY <2>1, <2>2
<1> HIDE DEF M
<1>4. \A g \in M : g \in Nat /\ g \in Files
  BY <1>2 DEF M
<1>5. PICK h : h = Have'
  OBVIOUS
<1>6. /\ h.counts => \A g \in M : g < writer.num => file[g] = Source \/ g \in h.refused
      /\ h.counts => \A g \in M : writer.num <= g /\ g < f =>
           g \in h.refused
           \/ (g = writer.num /\ Source = IF part[g] = NoFile THEN file[g] ELSE part[g])
      /\ \A g \in M : g > writer.num => part[g] = NoFile
      /\ writer.num < f /\ writer.num \in M => part[writer.num] \in {NoFile, Source}
      /\ writer.num = f => ~writer.open
  <2>1. Behind(Have, writer) /\ Blanks(Have, writer.num)
    BY DEF Disk
  <2>2. /\ Have.counts => \A g \in M : g < writer.num => file[g] = Source \/ g \in refused
        /\ \A g \in M : g > writer.num => part[g] = NoFile
    BY <1>3, <2>1 DEF Behind, Blanks
  <2>3. /\ Have.counts => \A g \in M : writer.num <= g /\ g < f =>
             g \in refused
             \/ (g = writer.num /\ Source = IF part[g] = NoFile THEN file[g] ELSE part[g])
        /\ writer.num < f /\ writer.num \in M => part[writer.num] \in {NoFile, Source}
        /\ writer.num = f => ~writer.open
    BY <1>1, <1>3 DEF MayBegin, Arrived, Settled
  <2>4. \A g \in M : g < f => g # f
    BY <1>2, <1>4
  <2>5. \A g \in M : g < writer.num => g # f
    BY <1>2, <1>4
  <2> QED BY <1>3, <1>5, <2>2, <2>3, <2>4, <2>5
<1>7. Transferred(f) = 0 /\ f \in M => part[f] = NoFile
  BY <1>1, TransferredFacts DEF M, DecidesAbout
<1>8. Transferred(f) > 0 => part[f] # NoFile /\ Len(part[f]) = how
  BY <1>1, TransferredFacts
<1>9. Transferred(f) \in Nat /\ (Transferred(f) = 0 \/ Transferred(f) > 0)
  BY <1>1, TransferredFacts
<1>10. h.file = file /\ h.part = part /\ Mine(h) = M /\ (how = Skip => f \in h.refused)
  BY <1>3, <1>5
<1>11. /\ w \in Writers /\ w.there
       /\ writer.num # f \/ how = 0 => w = writer
       /\ writer.num = f /\ how = Skip => w.num = f + 1 /\ ~w.open
       /\ writer.num = f /\ how # Skip /\ how # 0 => w.num = f /\ w.open /\ w.into = f
  BY <1>1, WriterConfirms
<1>12. how # Skip => how \in Nat /\ 0 # Skip
  BY <1>1, Numbers
\* The file is begun, or gone on with ...
<1>13. ASSUME how # Skip PROVE MayGoOn(h, w, f, how)
  <2>1. w.num = writer.num
    BY <1>11, <1>13
  <2>2. Arrived(h, w, f)
    BY <1>6, <1>10, <2>1 DEF Arrived
  <2>3. CASE Transferred(f) = 0
    <3>1. how = 0 /\ w = writer
      BY <1>1, <1>11, <1>13, <2>3
    <3> QED BY <1>2, <1>6, <1>7, <1>10, <2>2, <2>3, <3>1 DEF MayGoOn, Settled
  <2>4. CASE Transferred(f) > 0
    <3>1. how # 0 /\ part[f] # NoFile /\ Len(part[f]) = how
      BY <1>1, <1>8, <2>4
    <3>2. CASE writer.num = f
      BY <1>2, <1>10, <1>11, <1>12, <1>13, <2>2, <3>1, <3>2 DEF MayGoOn
    <3>3. CASE writer.num < f
      <4>1. f \notin M
        BY <1>2, <1>6, <3>1, <3>3
      <4> QED BY <1>2, <1>6, <1>10, <1>11, <2>1, <2>2, <3>3, <4>1 DEF MayGoOn, Settled
    <3> QED BY <1>2, <3>2, <3>3
  <2> QED BY <1>9, <2>3, <2>4
\* ... also by a writer that cannot open what there is ...
<1>22. ASSUME how # Skip, f \in excused' PROVE MayGoOn(h, writer, f, how)
  <2>1. Arrived(h, writer, f)
    BY <1>6, <1>10 DEF Arrived
  <2>2. f \notin M
    BY <1>22 DEF M
  <2> QED BY <1>2, <1>6, <1>10, <2>1, <2>2 DEF MayGoOn, Settled
\* ... or skipped.
<1>14. ASSUME how = Skip, NEW v \in {writer, w} PROVE MayBegin(h, v, f + 1)
  <2>1. Transferred(f) = 0
    <3>1. ~(Transferred(f) > 0)
      BY <1>1, <1>14, TransferredFacts, Numbers
    <3> QED BY <1>9, <3>1
  <2>2. CASE v = writer
    <3>1. Arrived(h, v, f + 1)
      <4>1. \A g \in M : g < f + 1 => g < f \/ g = f
        BY <1>2, <1>4
      <4> QED BY <1>6, <1>10, <1>14, <2>2, <4>1 DEF Arrived
    <3>2. Settled(h, v)
      BY <1>2, <1>6, <1>7, <1>10, <2>1, <2>2 DEF Settled
    <3> QED BY <1>2, <2>2, <3>1, <3>2 DEF MayBegin
  <2>3. CASE v = w /\ writer.num = f
    <3>1. v.num = f + 1 /\ ~v.open
      BY <1>11, <1>14, <2>3
    <3>2. Arrived(h, v, f + 1)
      <4>1. \A g \in M : ~(f + 1 <= g /\ g < f + 1)
        BY <1>2, <1>4
      <4> QED BY <1>10, <3>1, <4>1 DEF Arrived
    <3> QED BY <1>2, <3>1, <3>2 DEF MayBegin
  <2>4. v = w /\ writer.num # f => v = writer
    BY <1>11
  <2> QED BY <1>14, <2>2, <2>3, <2>4
<1> DEFINE x == Message("confirm", f, how)
<1>15. From(x) = Told(f, how) /\ To(x) = IF how = Skip THEN ToBegin(f + 1) ELSE Sending(f, how)
  BY <1>1, FromTo
<1>16. Fits(h, w, To(x)) /\ To(x) # Over
  <2>1. CASE how = Skip
    BY <1>14, <1>15, <2>1, FitsPlaces, Places
  <2>2. CASE how # Skip
    <3>1. To(x) = Sending(f, how)
      BY <1>15, <2>2
    <3>2. Fits(h, w, Sending(f, how)) /\ Sending(f, how) # Over
      BY <1>13, <2>2, Places DEF Fits
    <3> QED BY <3>1, <3>2
  <2> QED BY <2>1, <2>2
<1>17. Fits(h, writer, From(x))
  <2>1. CASE how = Skip
    BY <1>14, <1>15, <2>1, FitsPlaces
  <2>2. CASE how # Skip
    <3>1. Fits(h, writer, Told(f, how))
      BY <1>13, <2>2, Places DEF Fits
    <3> QED BY <1>15, <3>1
  <2> QED BY <2>1, <2>2
<1>18. how \in {0, Skip} \/ f \in excused' => Fits(h, writer, To(x))
  <2>1. CASE how = Skip
    BY <1>14, <1>15, <2>1, FitsPlaces
  <2>2. CASE how = 0
    BY <1>11, <1>16, <2>2
  <2>3. CASE how # Skip /\ f \in excused'
    <3>1. To(x) = Sending(f, how)
      BY <1>15, <2>3
    <3> QED BY <1>22, <2>3, <3>1, FitsPlaces
  <2> QED BY <2>1, <2>2, <2>3
<1>19. /\ Behind(h, w) /\ Behind(h, writer) /\ Blanks(h, w.num) /\ Blanks(h, writer.num)
  <2>1. Behind(h, writer) /\ Blanks(h, writer.num)
    BY <1>6, <1>10 DEF Behind, Blanks
  <2>2. CASE w.num = writer.num
    BY <2>1, <2>2 DEF Behind
  <2>3. CASE w.num # writer.num
    <3>1. writer.num = f /\ how = Skip /\ w.num = f + 1
      BY <1>11, <2>3
    <3>2. \A g \in M : (g < f + 1 => g < f \/ g = f) /\ (g > f + 1 => g > f)
      BY <1>2, <1>4
    <3> QED BY <1>6, <1>10, <3>1, <3>2 DEF Behind, Blanks
  <2> QED BY <2>2, <2>3
<1>20. w.open => w.num \in Files /\ w.into \in Files /\ w.into <= w.num
  <2>1. CASE w = writer
    BY <2>1 DEF Disk
  <2>2. CASE w # writer
    <3>1. w.open => w.num = f /\ w.into = f /\ f <= f
      BY <1>2, <1>11, <2>2
    <3> QED BY <1>1, <3>1
  <2> QED BY <2>1, <2>2
<1>21. ~w.open /\ ~is_resume /\ w.num \in M => part[w.num] = NoFile
  <2>1. CASE w = writer
    BY <1>3, <2>1 DEF Disk
  <2>2. CASE w # writer
    <3>1. ~w.open => w.num = f + 1 /\ f + 1 > writer.num
      BY <1>2, <1>11, <2>2
    <3> QED BY <1>6, <3>1
  <2> QED BY <2>1, <2>2
<1> QED BY <1>3, <1>5, <1>11, <1>16, <1>17, <1>18, <1>19, <1>20, <1>21

\* So what is on the disk stays in order.
LEMMA DecisionDisk ==
  ASSUME JobTypes, JobTypes', Disk, NEW f, NEW how, DecidesAbout(f, how), meta' = 0,
         writer' \in {writer, WriterConfirm(writer, f, how)},
         reader'.there => reader.there /\ reader.num <= reader'.num
  PROVE  Disk'
<1>1. /\ Have'.part = part /\ Have.part = part /\ Mine(Have') \subseteq Mine(Have)
      /\ Mine(Have') \subseteq Files
  BY DecisionHave DEF Mine
<1>2. /\ UNCHANGED <<download, file, part, stamp, is_resume, resumes>>
      /\ excused \subseteq excused'
  BY DEF DecidesAbout
<1>3. \A g \in Files : Good(g, file[g], part[g], stamp[g], excused)'
  <2> SUFFICES ASSUME NEW g \in Files PROVE Good(g, file[g], part[g], stamp[g], excused')
    BY <1>2
  <2>1. Good(g, file[g], part[g], stamp[g], excused) /\ (g \in excused => g \in excused')
    BY <1>2 DEF Disk
  <2> QED BY <2>1, GoodExcused
<1>4. reader'.there => Blanks(Have', reader'.num)
  <2> SUFFICES ASSUME reader'.there PROVE Blanks(Have', reader'.num)
    OBVIOUS
  <2>1. reader.num \in Nat /\ reader'.num \in Nat /\ Blanks(Have, reader.num)
        /\ \A g \in Files : g \in Nat
    BY ReaderFields, Numbers DEF JobTypes, Disk
  <2>2. \A g \in Files : g > reader'.num => g > reader.num
    BY <2>1
  <2> QED BY <1>1, <2>1, <2>2 DEF Blanks
<1>5. CASE ~writer.there
  <2>1. writer' = writer
    BY <1>5, WriterConfirms DEF DecidesAbout, JobTypes
  <2> QED BY <1>3, <1>4, <1>5, <2>1 DEF Disk
<1>6. CASE writer.there
  <2>1. /\ Blanks(Have', writer'.num) /\ Behind(Have', writer')
        /\ writer'.open =>
             writer'.num \in Files /\ writer'.into \in Files /\ writer'.into <= writer'.num
        /\ ~writer'.open /\ ~is_resume /\ writer'.num \in Mine(Have') => part[writer'.num] = NoFile
    <3>1. CASE writer' = WriterConfirm(writer, f, how)
      BY <1>6, <3>1, DecisionFits
    <3>2. CASE writer' = writer
      <4>1. PICK w : w = WriterConfirm(writer, f, how)
        OBVIOUS
      <4>2. Blanks(Have', writer.num) /\ Behind(Have', writer)
        BY <1>6, <4>1, DecisionFits
      <4> QED BY <1>1, <1>6, <3>2, <4>2 DEF Disk
    <3> QED BY <3>1, <3>2
  <2> QED BY <1>2, <1>3, <1>4, <2>1 DEF Disk
<1> QED BY <1>5, <1>6

\* What follows when the writer takes what comes first.
LEMMA TakeTalk ==
  ASSUME JobTypes, OneTalk, toWriter # <<>>, toWriter' = Tail(toWriter)
  PROVE  /\ Head(toWriter) \in Messages /\ Head(toWriter) = toWriter[1]
         /\ Head(toWriter) \in Range(toWriter) /\ toWriter' \in Seq(Messages) /\ meta = 0
         /\ \A m : m \in Range(toWriter') => m \in Range(toWriter)
         /\ \A A : Has(toWriter', A) => Has(toWriter, A)
         /\ Before(toWriter', Works, Digests) /\ AtMostOne(toWriter', Digests)
         /\ Head(toWriter).kind \in Works \cup Digests =>
              question = 0 /\ Token(toReader).kind = "cancel"
         /\ Head(toWriter).kind \in Digests => ~Has(toWriter', Works) /\ ~Has(toWriter', Digests)
<1>1. /\ toWriter \in Seq(Messages) /\ Head(toWriter) \in Messages /\ Head(toWriter) = toWriter[1]
      /\ Head(toWriter) \in Range(toWriter) /\ toWriter' \in Seq(Messages)
      /\ \A m : m \in Range(toWriter') => m \in Range(toWriter)
  BY RangeTail, HeadTailProperties DEF JobTypes
<1>2. /\ \A A : Has(toWriter', A) => Has(toWriter, A)
      /\ Before(toWriter', Works, Digests) /\ AtMostOne(toWriter', Digests)
      /\ Head(toWriter).kind \in Digests => ~Has(toWriter', Works) /\ ~Has(toWriter', Digests)
  BY <1>1, TailHas DEF OneTalk
<1>3. \A A : Head(toWriter).kind \in A => Has(toWriter, A)
  BY <1>1, HasSome
<1>4. Head(toWriter).kind \in Works \cup Digests => question = 0 /\ Token(toReader).kind = "cancel"
  BY <1>3 DEF OneTalk, Verdicts, Cancels
<1>5. meta = 0
  BY DEF OneTalk
<1> QED BY <1>1, <1>2, <1>4, <1>5

-----------------------------------------------------------------------------
(* FileTransfer: the writer gets what is not a block.                      *)

\* set_file_confirm on the writer's side, which opens the file to go on with it ...
LEMMA ConfirmTaken ==
  ASSUME TransferInv, WriterGetsConfirm,
         writer' = WriterConfirm(writer, Head(toWriter).f, Head(toWriter).n), UNCHANGED failureVars
  PROVE  TransferInv'
<1> USE DEF TransferInv
<1>1. /\ toWriter # <<>> /\ toWriter' = Tail(toWriter) /\ Head(toWriter).kind = "confirm"
      /\ writer' = WriterConfirm(writer, Head(toWriter).f, Head(toWriter).n)
      /\ DiskSame
      /\ UNCHANGED <<reader, strategy, meta, errors, question, toReader, agreed, cancelled, done>>
  BY DEF WriterGetsConfirm, Handled, OverWriter, WriterIsTold, DiskSame, failureVars
<1>2. /\ Head(toWriter) \in Messages /\ Head(toWriter) = toWriter[1]
      /\ Head(toWriter) \in Range(toWriter) /\ toWriter' \in Seq(Messages) /\ meta = 0
      /\ \A m : m \in Range(toWriter') => m \in Range(toWriter)
      /\ \A A : Has(toWriter', A) => Has(toWriter, A)
      /\ Before(toWriter', Works, Digests) /\ AtMostOne(toWriter', Digests)
      /\ question = 0 /\ Token(toReader).kind = "cancel"
  BY <1>1, TakeTalk DEF Works
<1>3. PICK f \in Files, how \in Hows : Head(toWriter) = Message("confirm", f, how)
  BY <1>1, <1>2 DEF Messages, Message
<1>4. /\ Head(toWriter).f = f /\ Head(toWriter).n = how /\ writer' = WriterConfirm(writer, f, how)
      /\ how = Skip => f \in refused
  BY <1>1, <1>2, <1>3, MessageFields DEF Agreeing
<1>5. /\ writer \in Writers /\ writer' \in Writers /\ writer'.there = writer.there
      /\ ~writer.there \/ writer.num # f \/ how = 0 => writer' = writer
      /\ writer.there /\ writer.num = f /\ how = Skip => writer'.num = f + 1 /\ ~writer'.open
      /\ writer.there /\ writer.num = f /\ how # Skip /\ how # 0 =>
           writer'.num = f /\ writer'.open /\ writer'.into = f
  BY <1>4, WriterConfirms DEF JobTypes
<1>6. JobTypes'
  BY <1>1, <1>2, <1>5 DEF JobTypes, DiskSame, diskVars, failureVars
<1>7. Shape'
  BY <1>1 DEF Shape
<1>8. OneTalk'
  <2>1. /\ \A i \in 2 .. Len(toReader') : toReader'[i] = Plain("cancel")
        /\ Token(toReader') = Token(toReader) /\ Alone(toReader') = Alone(toReader)
    BY <1>1 DEF OneTalk
  <2>2. download' = download
    BY <1>1 DEF DiskSame
  <2> QED BY <1>1, <1>2, <1>5, <2>1, <2>2 DEF OneTalk, Verdicts
<1>9. Known'
  BY <1>1, <1>2 DEF Known
<1>10. Agreeing'
  BY <1>1, <1>2 DEF Agreeing, DiskSame
<1>11. Have' = Have
  BY <1>1, SameHave
<1>12. reader.num <= reader.num /\ reader'.num = reader.num
  BY <1>1, ReaderFields, Numbers DEF JobTypes
<1>13. Ended'
  BY <1>1, <1>2, <1>5, EndedKept DEF Ended
<1>14. CASE ~writer.there
  <2>1. Disk'
    BY <1>1, <1>5, <1>6, <1>12, <1>14, DiskKept
  <2>2. Chain'
    BY <1>1, <1>5, <1>14, Takes
  <2> QED BY <1>6, <1>7, <1>8, <1>9, <1>10, <1>13, <2>1, <2>2
<1>15. CASE writer.there
  <2>1. Fits(Have, writer, Told(f, how))
    <3>1. WriterAt(toWriter, toReader, reader) = Told(f, how)
      BY <1>1, <1>2, <1>3, FromTo DEF WriterAt
    <3> QED BY <1>15, <3>1 DEF Chain
  <2>2. IF how = Skip THEN MayBegin(Have, writer', f + 1) ELSE MayGoOn(Have, writer', f, how)
    BY <1>4, <2>1, Places DEF Fits
  <2>3. Chain'
    <3>1. Fits(Have, writer', To(Head(toWriter))) /\ To(Head(toWriter)) # Over
      <4>1. CASE how = Skip
        <5>1. To(Head(toWriter)) = ToBegin(f + 1)
          BY <1>3, <4>1, FromTo
        <5>2. Fits(Have, writer', ToBegin(f + 1)) /\ ToBegin(f + 1) # Over
          BY <2>2, <4>1, FitsPlaces, Places
        <5> QED BY <5>1, <5>2
      <4>2. CASE how # Skip
        <5>1. To(Head(toWriter)) = Sending(f, how)
          BY <1>3, <4>2, FromTo
        <5>2. Fits(Have, writer', Sending(f, how)) /\ Sending(f, how) # Over
          BY <2>2, <4>2, Places DEF Fits
        <5> QED BY <5>1, <5>2
      <4> QED BY <4>1, <4>2
    <3> QED BY <1>1, <1>2, <1>11, <3>1, Takes
  <2>4. Disk'
    <3>1. CASE writer' = writer
      BY <1>1, <1>6, <1>12, <3>1, DiskKept
    <3>2. CASE writer' # writer
      <4>1. /\ writer.num = f /\ how # 0 /\ f \in Nat /\ (\A g \in Files : g \in Nat)
            /\ how = Skip => writer'.num = f + 1 /\ ~writer'.open
            /\ how # Skip => writer'.num = f /\ writer'.open /\ writer'.into = f /\ f <= f
        BY <1>5, <1>15, <3>2, Numbers
      <4>2. Blanks(Have, f) /\ Behind(Have, writer)
        BY <1>15, <4>1 DEF Disk
      <4>3. /\ Mine(Have) = Files \ excused /\ Have.part = part /\ Have.file = file
            /\ Have.refused = refused
        BY DEF Have, Mine
      <4>4. CASE how = Skip
        <5>1. \A g \in Files : (g > f + 1 => g > f) /\ (g < f + 1 => g < f \/ g = f)
          BY <4>1
        <5>2. Blanks(Have, writer'.num) /\ Behind(Have, writer')
          BY <1>4, <4>1, <4>2, <4>3, <4>4, <5>1 DEF Blanks, Behind
        <5>3. writer'.num \in Files \ excused => part[writer'.num] = NoFile
          <6>1. f + 1 > f
            BY <4>1
          <6> QED BY <4>1, <4>2, <4>3, <4>4, <6>1 DEF Blanks
        <5> QED BY <1>1, <1>2, <1>11, <4>1, <4>3, <4>4, <5>2, <5>3 DEF Disk, DiskSame, diskVars, failureVars, Whole
      <4>5. CASE how # Skip
        <5>1. Behind(Have, writer')
          BY <4>1, <4>2, <4>5 DEF Behind
        <5> QED BY <1>1, <1>2, <1>11, <4>1, <4>2, <4>5, <5>1
             DEF Disk, DiskSame, diskVars, failureVars, Whole
      <4> QED BY <4>4, <4>5
    <3> QED BY <3>1, <3>2
  <2> QED BY <1>6, <1>7, <1>8, <1>9, <1>10, <1>13, <2>3, <2>4
<1> QED BY <1>14, <1>15

\* ... or cannot, and then the blocks that follow are lost.
LEMMA ConfirmFails ==
  ASSUME TransferInv, WriterGetsConfirm, writer.there, writer.num = Head(toWriter).f,
         Head(toWriter).n > 0, Fails({Head(toWriter).f}), writer' = writer
  PROVE  TransferInv'
<1> USE DEF TransferInv
<1>1. /\ toWriter # <<>> /\ toWriter' = Tail(toWriter) /\ Head(toWriter).kind = "confirm"
      /\ UNCHANGED <<download, file, part, stamp, is_resume, resumes, refused>>
      /\ UNCHANGED <<reader, strategy, meta, errors, question, toReader, agreed, cancelled, done>>
  BY DEF WriterGetsConfirm, Handled, OverWriter, WriterIsTold
<1>2. /\ Head(toWriter) \in Messages /\ Head(toWriter) = toWriter[1]
      /\ Head(toWriter) \in Range(toWriter) /\ toWriter' \in Seq(Messages) /\ meta = 0
      /\ \A m : m \in Range(toWriter') => m \in Range(toWriter)
      /\ \A A : Has(toWriter', A) => Has(toWriter, A)
      /\ Before(toWriter', Works, Digests) /\ AtMostOne(toWriter', Digests)
      /\ question = 0 /\ Token(toReader).kind = "cancel"
  BY <1>1, TakeTalk DEF Works
<1>3. PICK f \in Files, how \in Hows : Head(toWriter) = Message("confirm", f, how)
  BY <1>1, <1>2 DEF Messages, Message
<1>4. Head(toWriter).f = f /\ Head(toWriter).n = how /\ f \in Nat
  BY <1>3, MessageFields, Numbers
<1>5. writer.num = f /\ how > 0 /\ how # Skip /\ how # 0 /\ writer \in Writers
  BY <1>4, Numbers DEF JobTypes
<1>6. excused' = excused \cup {f} /\ excused' \subseteq Files /\ failures' \in 0 .. MaxFailures
  BY <1>3, <1>4, FailsFor
<1>7. JobTypes'
  BY <1>1, <1>2, <1>6 DEF JobTypes
<1>8. Shape' /\ Known' /\ Agreeing'
  BY <1>1, <1>2 DEF Shape, Known, Agreeing
<1>9. OneTalk'
  <2>1. /\ \A i \in 2 .. Len(toReader') : toReader'[i] = Plain("cancel")
        /\ Token(toReader') = Token(toReader) /\ Alone(toReader') = Alone(toReader)
    BY <1>1 DEF OneTalk
  <2> QED BY <1>1, <1>2, <2>1 DEF OneTalk, Verdicts
<1>10. /\ Have'.file = file /\ Have'.part = part /\ Have'.refused = refused
       /\ Have'.counts = Have.counts /\ Counts' = Counts /\ Mine(Have') = Mine(Have) \ {f}
       /\ Have.file = file /\ Have.part = part /\ Have.refused = refused
  BY <1>1, <1>6 DEF Have, Mine, Counts
<1>11. Ended'
  <2>1. ~(done /\ Counts)
    BY DEF Ended
  <2> QED BY <1>1, <1>2, <1>10, <2>1 DEF Ended
<1>12. Chain'
  <2>1. WriterAt(toWriter, toReader, reader) = Told(f, how)
    BY <1>1, <1>2, <1>3, FromTo DEF WriterAt
  <2>2. MayGoOn(Have, WriterConfirm(writer, f, how), f, how)
    BY <1>5, <2>1, FitsPlaces DEF Chain
  <2>3. /\ WriterConfirm(writer, f, how).num = f /\ WriterConfirm(writer, f, how).open
        /\ WriterConfirm(writer, f, how).into = f
    BY <1>3, <1>5, WriterConfirms
  <2>4. part[f] # NoFile /\ Len(part[f]) <= how
    BY <1>10, <2>2, <2>3 DEF MayGoOn
  <2>5. ~(f < f) /\ f <= f /\ \A g \in Files : ~(f <= g /\ g < f)
    BY <1>4, Numbers
  <2>6. f \notin Mine(Have') /\ Arrived(Have', writer, f)
    <3>1. Mine(Have') \subseteq Files
      BY DEF Mine
    <3> QED BY <1>5, <1>10, <2>5, <3>1 DEF Arrived
  <2>7. MayGoOn(Have', writer, f, how)
    BY <1>5, <1>10, <2>4, <2>5, <2>6 DEF MayGoOn
  <2>8. To(Head(toWriter)) = Sending(f, how) /\ Sending(f, how) # Over
        /\ Fits(Have', writer, Sending(f, how))
    BY <1>3, <1>5, <2>7, FromTo, Places DEF Fits
  <2> QED BY <1>1, <1>2, <2>8, Takes
<1>13. Disk'
  <2>1. \A g \in Files : Good(g, file[g], part[g], stamp[g], excused)'
    <3> SUFFICES ASSUME NEW g \in Files PROVE Good(g, file[g], part[g], stamp[g], excused')
      BY <1>1
    <3>1. Good(g, file[g], part[g], stamp[g], excused) /\ (g \in excused => g \in excused')
      BY <1>6 DEF Disk
    <3> QED BY <3>1, GoodExcused
  <2>2. Blanks(Have', writer.num) /\ Behind(Have', writer)
    <3>1. Blanks(Have, writer.num) /\ Behind(Have, writer)
      BY DEF Disk
    <3> QED BY <1>10, <3>1 DEF Blanks, Behind
  <2>3. reader.there => Blanks(Have', reader.num)
    BY <1>10 DEF Disk, Blanks
  <2>4. writer.open => writer.num \in Files /\ writer.into \in Files /\ writer.into <= writer.num
    BY DEF Disk
  <2>5. writer.num \notin Mine(Have')
    BY <1>5, <1>10
  <2> QED BY <1>1, <1>2, <2>1, <2>2, <2>3, <2>4, <2>5 DEF Disk
<1> QED BY <1>7, <1>8, <1>9, <1>11, <1>12, <1>13

LEMMA WriterGetsConfirmKeeps ==
  ASSUME TransferInv, WriterGetsConfirm PROVE TransferInv'
BY ConfirmTaken, ConfirmFails DEF WriterGetsConfirm, WriterIsTold

\* done, error or cancel reach the writer: its last file is renamed or removed.
LEMMA WriterEndsKeeps ==
  ASSUME TransferInv, WriterEnds PROVE TransferInv'
<1> USE DEF TransferInv
<1> DEFINE m == Head(toWriter)
<1>1. /\ toWriter # <<>> /\ toWriter' = Tail(toWriter) /\ m.kind \in {"done", "error", "cancel"}
      /\ writer' = NoWriter /\ done' = (done \/ (writer.there /\ m.kind = "done"))
      /\ UNCHANGED <<download, reader, is_resume, strategy, meta, resumes, errors, question,
                     toReader, refused, agreed, cancelled>>
  BY DEF WriterEnds, Handled, OverWriter
<1>2. \/ /\ ~writer.there \/ m.kind = "error"
         /\ UNCHANGED <<file, part, stamp, failures, excused>>
      \/ /\ writer.there /\ m.kind = "done"
         /\ \E renamed \in BOOLEAN :
              /\ renamed \/ MayNotRename(writer.num)
              /\ file' = Finalised(writer.num, renamed).file
              /\ part' = Finalised(writer.num, renamed).part
              /\ stamp' = Finalised(writer.num, renamed).stamp
              /\ Fails(NotRenamed(writer.num, renamed))
      \/ /\ writer.there /\ m.kind = "cancel" /\ Removed(writer.num)
         /\ UNCHANGED <<file, failures, excused>>
  BY <1>1 DEF WriterEnds, Removed, diskVars, failureVars
<1>3. /\ m \in Messages /\ m = toWriter[1]
      /\ toWriter' \in Seq(Messages) /\ meta = 0
      /\ \A x : x \in Range(toWriter') => x \in Range(toWriter)
      /\ \A A : Has(toWriter', A) => Has(toWriter, A)
      /\ Before(toWriter', Works, Digests) /\ AtMostOne(toWriter', Digests)
      /\ m.kind \in Works \cup Digests => question = 0 /\ Token(toReader).kind = "cancel"
  BY <1>1, TakeTalk
<1>4. /\ m.kind = "done" => ~reader.there /\ question = 0
      /\ m.kind = "cancel" => ~download /\ ~reader.there
      /\ download => question = 0
  <2>1. \A A : m.kind \in A => Has(toWriter, A)
    BY <1>1, <1>3, HasSome DEF JobTypes
  <2>2. m.kind = "done" => ~reader.there /\ question = 0
    BY <2>1 DEF Ended, Dones
  <2>3. m.kind = "cancel" => ~download /\ ~reader.there
    BY <2>1 DEF OneTalk, Cancels
  <2>4. m.kind # "cancel" => question = 0
    BY <1>1, <1>3 DEF Works
  <2> QED BY <2>2, <2>3, <2>4
<1>5. writer' \in Writers /\ ~writer'.there /\ writer.num \in Nat /\ writer \in Writers
      /\ \A g \in Files : g \in Nat
  BY <1>1, WriterFields, Numbers DEF JobTypes
<1> HIDE DEF m
<1>6. Shape' /\ Known' /\ Agreeing'
  BY <1>1, <1>3, <1>5 DEF Shape, Known, Agreeing
<1>7. OneTalk'
  <2>1. /\ \A i \in 2 .. Len(toReader') : toReader'[i] = Plain("cancel")
        /\ Token(toReader') = Token(toReader)
    BY <1>1 DEF OneTalk
  <2>2. \A A, B : Has(toWriter', A \cup B) => Has(toWriter, A \cup B)
    BY <1>3
  <2> QED BY <1>1, <1>3, <1>4, <1>5, <2>1, <2>2 DEF OneTalk
<1>8. Chain'
  BY <1>1, <1>5, Takes
<1>9. \A f \in Files : Good(f, file[f], part[f], stamp[f], excused)
  BY DEF Disk
<1>10. CASE /\ UNCHANGED <<file, part, stamp, failures, excused>>
            /\ ~writer.there \/ m.kind = "error"
  <2>1. DiskSame /\ done' = done
    <3>1. ~(writer.there /\ m.kind = "done")
      BY <1>10
    <3>2. done \in BOOLEAN
      BY DEF JobTypes
    <3> QED BY <1>1, <1>10, <3>1, <3>2 DEF DiskSame, diskVars, failureVars
  <2>2. JobTypes'
    BY <1>1, <1>3, <1>5, <2>1 DEF JobTypes, DiskSame, diskVars, failureVars
  <2>3. reader.num <= reader.num
    BY ReaderFields, Numbers DEF JobTypes
  <2>4. Disk'
    BY <1>1, <1>5, <2>1, <2>2, <2>3, DiskKept
  <2>5. Has(toWriter', Dones) => ~reader'.there /\ question' = 0
    BY <1>1, <1>3 DEF Ended
  <2>6. Ended'
    BY <1>1, <1>5, <2>1, <2>5, EndedKept
  <2> QED BY <1>6, <1>7, <1>8, <2>2, <2>4, <2>6
<1>11. ASSUME writer.there, ~reader.there, file' \in [Files -> Contents],
              part' \in [Files -> Contents], stamp' \in [Files -> {"none", "current", "other"}],
              \A g \in Files : Good(g, file'[g], part'[g], stamp'[g], excused'),
              excused' \subseteq Files, failures' \in 0 .. MaxFailures
       PROVE  Disk' /\ JobTypes'
  <2>1. done' \in BOOLEAN
    BY <1>1 DEF JobTypes
  <2>2. JobTypes'
    BY <1>1, <1>3, <1>5, <1>11, <2>1 DEF JobTypes
  <2> QED BY <1>1, <1>3, <1>5, <1>11, <2>2 DEF Disk
<1>12. CASE writer.there /\ m.kind = "done"
  <2>1. MayBegin(Have, writer, N + 1)
    <3>1. WriterAt(toWriter, toReader, reader) = ToBegin(N + 1)
      BY <1>1, <1>3, <1>12 DEF WriterAt, From
    <3> QED BY <1>12, <3>1, FitsPlaces DEF Chain
  <2>2. PICK renamed \in BOOLEAN :
              /\ renamed \/ MayNotRename(writer.num)
              /\ file' = Finalised(writer.num, renamed).file
              /\ part' = Finalised(writer.num, renamed).part
              /\ stamp' = Finalised(writer.num, renamed).stamp
              /\ Fails(NotRenamed(writer.num, renamed))
    BY <1>2, <1>12
  <2>3. /\ Mine(Have) = Files \ excused /\ Have.part = part /\ Have.file = file
        /\ Have.refused = refused /\ Have.counts = Counts
    BY DEF Have, Mine
  <2>4. writer.num <= N + 1 /\ writer.num >= 1
    BY <1>5, WriterFields, Numbers
  <2>5. /\ Counts => \A g \in Files \ excused : g < writer.num => file[g] = Source \/ g \in refused
        /\ Counts => \A g \in Files \ excused : writer.num <= g =>
             g \in refused
             \/ (g = writer.num /\ Source = IF part[g] = NoFile THEN file[g] ELSE part[g])
    <3>1. \A g \in Files : g < N + 1
      BY Numbers
    <3>2. Behind(Have, writer) /\ Arrived(Have, writer, N + 1)
      BY <1>12, <2>1 DEF Disk, MayBegin
    <3> QED BY <2>3, <3>1, <3>2 DEF Behind, Arrived
  <2>6. CASE writer.num \in Files
    <3>1. PICK u \in Files : u = writer.num
      BY <2>6
    <3>2. PICK out : out = excused \cup NotRenamed(u, renamed)
      OBVIOUS
    <3>3. PICK d : d = Finalised(u, renamed)
      OBVIOUS
    <3>4. u \notin excused => part[u] \in {NoFile, Source}
      <4>1. u < N + 1
        BY Numbers
      <4> QED BY <2>1, <2>3, <3>1, <4>1 DEF MayBegin, Settled
    <3>5. renamed \/ MayNotRename(u)
      BY <2>2, <3>1
    <3>6. /\ d.file \in [Files -> Contents] /\ d.part \in [Files -> Contents]
          /\ d.stamp \in [Files -> {"none", "current", "other"}]
          /\ \A g \in Files : Good(g, d.file[g], d.part[g], d.stamp[g], out)
          /\ \A g \in Files \ {u} :
               d.file[g] = file[g] /\ d.part[g] = part[g] /\ d.stamp[g] = stamp[g]
          /\ renamed => /\ d.part[u] = NoFile
                        /\ d.file[u] = IF part[u] = NoFile THEN file[u] ELSE part[u]
          /\ part[u] = NoFile => d.file[u] = file[u]
          /\ out \subseteq Files /\ (renamed => out = excused) /\ (~renamed => u \in out)
      <4>1. Renames(u, renamed, d, out)
        BY <3>2, <3>3, <3>4, <3>5, Finalises
      <4> QED BY <4>1 DEF Renames
    <3>7. /\ excused' = out /\ out \subseteq Files /\ failures' \in 0 .. MaxFailures
          /\ excused \subseteq out
      <4>1. NotRenamed(u, renamed) \in SUBSET Files
        BY DEF NotRenamed
      <4> QED BY <2>2, <3>1, <3>2, <4>1, FailsFor
    <3>8. file' = d.file /\ part' = d.part /\ stamp' = d.stamp
      BY <2>2, <3>1, <3>3
    <3>9. Disk' /\ JobTypes'
      BY <1>4, <1>11, <1>12, <3>6, <3>7, <3>8
    <3>10. Ended'
      <4>1. Counts => \A g \in Files \ out : file'[g] = Source \/ g \in refused
        <5> SUFFICES ASSUME Counts, NEW g \in Files \ out, g \notin refused
                     PROVE  file'[g] = Source
          OBVIOUS
        <5>1. g \in Files \ excused
          BY <3>7
        <5>2. CASE g < u
          <6>1. g # u
            BY <1>5, <3>1, <5>2
          <6> QED BY <2>5, <3>1, <3>6, <3>8, <5>1, <5>2, <6>1
        <5>3. CASE ~(g < u)
          <6>1. u <= g
            BY <1>5, <3>1, <5>3
          <6>2. g = u /\ Source = IF part[g] = NoFile THEN file[g] ELSE part[g]
            BY <2>5, <3>1, <5>1, <6>1
          <6> QED BY <3>6, <3>8, <6>2
        <5> QED BY <5>2, <5>3
      <4>2. Counts' = Counts
        BY <1>1 DEF Counts
      <4> QED BY <1>1, <1>3, <1>4, <1>5, <1>12, <3>7, <4>1, <4>2 DEF Ended, DoneIsComplete, Whole
    <3> QED BY <1>6, <1>7, <1>8, <3>9, <3>10
  <2>7. CASE writer.num \notin Files
    <3>1. UNCHANGED <<file, part, stamp, failures, excused>>
      BY <2>2, <2>7 DEF Finalised, MayNotRename, NotRenamed, Fails, failureVars
    <3>2. DiskSame /\ done' \in BOOLEAN
      BY <1>1, <3>1 DEF DiskSame, diskVars, failureVars, JobTypes
    <3>3. JobTypes'
      BY <1>1, <1>3, <1>5, <3>1, <3>2 DEF JobTypes
    <3>4. reader.num <= reader.num
      BY ReaderFields, Numbers DEF JobTypes
    <3>5. Disk'
      BY <1>1, <1>5, <3>2, <3>3, <3>4, DiskKept
    <3>6. Counts => \A g \in Files \ excused : file[g] = Source \/ g \in refused
      <4>1. \A g \in Files : g # writer.num
        BY <2>7
      <4>2. \A g \in Files : g < writer.num \/ writer.num <= g
        BY <1>5
      <4> QED BY <2>5, <4>1, <4>2
    <3>7. Counts' = Counts
      BY <1>1 DEF Counts
    <3>8. Ended'
      BY <1>1, <1>3, <1>4, <1>5, <3>1, <3>6, <3>7 DEF Ended, DoneIsComplete, Whole
    <3> QED BY <1>6, <1>7, <1>8, <3>3, <3>5, <3>8
  <2> QED BY <2>6, <2>7
<1>13. CASE /\ writer.there /\ m.kind = "cancel" /\ Removed(writer.num)
            /\ UNCHANGED <<file, failures, excused>>
  <2>1. done' = done
    BY <1>1, <1>13 DEF JobTypes
  <2>2. ~(done /\ Counts)
    BY <1>13 DEF Ended
  <2>3. Counts' = Counts
    BY <1>1 DEF Counts
  <2>4. Ended'
    BY <1>1, <1>3, <1>4, <1>5, <2>1, <2>2, <2>3 DEF Ended
  <2>5. CASE writer.num \in Files
    <3>1. /\ part' = [part EXCEPT ![writer.num] = NoFile]
          /\ stamp' = [stamp EXCEPT ![writer.num] = "none"]
      BY <1>13, <2>5 DEF Removed
    <3>2. /\ part' \in [Files -> Contents] /\ stamp' \in [Files -> {"none", "current", "other"}]
          /\ \A g \in Files : Good(g, file'[g], part'[g], stamp'[g], excused')
      <4>1. Good(writer.num, file[writer.num], NoFile, "none", excused)
        BY <1>9, <2>5, GoodRemoved
      <4>2. /\ part' \in [Files -> Contents]
            /\ stamp' \in [Files -> {"none", "current", "other"}]
        BY <3>1, PieceFacts DEF JobTypes
      <4> QED BY <1>9, <1>13, <2>5, <3>1, <4>1, <4>2 DEF JobTypes
    <3>3. ~reader.there
      BY <1>4, <1>13
    <3>4. Disk' /\ JobTypes'
      <4>1. /\ file' \in [Files -> Contents] /\ excused' \subseteq Files
            /\ failures' \in 0 .. MaxFailures
        BY <1>13 DEF JobTypes
      <4> QED BY <1>11, <1>13, <3>2, <3>3, <4>1
    <3> QED BY <1>6, <1>7, <1>8, <2>4, <3>4
  <2>6. CASE writer.num \notin Files
    <3>1. DiskSame
      BY <1>1, <1>13, <2>6 DEF Removed, DiskSame, diskVars, failureVars
    <3>2. JobTypes'
      BY <1>1, <1>3, <1>5, <2>1, <3>1 DEF JobTypes, DiskSame, diskVars, failureVars
    <3>3. reader.num <= reader.num
      BY ReaderFields, Numbers DEF JobTypes
    <3>4. Disk'
      BY <1>1, <1>5, <3>1, <3>2, <3>3, DiskKept
    <3> QED BY <1>6, <1>7, <1>8, <2>4, <3>2, <3>4
  <2> QED BY <2>5, <2>6
<1> QED BY <1>2, <1>10, <1>12, <1>13

\* A file is decided about, or asked about, when nothing is written any more.
LEMMA DecisionAgreeing ==
  ASSUME JobTypes, NEW f, NEW how, Decide(f, how),
         \A m \in Range(toWriter') : m.kind = "block" => FALSE,
         \A m \in Range(toWriter') : m.kind = "confirm" => m.f = f /\ m.n = how,
         reader'.confirmed => reader'.num = f /\ how # Skip,
         Token(toReader').kind = "confirm" => Token(toReader').f = f /\ Token(toReader').n = how
  PROVE  Agreeing'
BY DEF Decide, Agreeing

\* Every message under way is of a kind that is under way.
LEMMA NoWorks ==
  ASSUME NEW s \in Seq(Messages)
  PROVE  /\ \A m \in Range(s) : \A A : m.kind \in A => Has(s, A)
         /\ ~Has(s, Works) => \A m \in Range(s) : m.kind # "block" /\ m.kind # "confirm"
<1>1. \A i : i \in DOMAIN s <=> i \in 1 .. Len(s)
  BY LenProperties
<1>2. \A m \in Range(s) : \A A : m.kind \in A => Has(s, A)
  BY <1>1 DEF Range, Has
<1> QED BY <1>2 DEF Works

\* The only answer under way is the one just sent.
LEMMA FirstAnswer ==
  ASSUME NEW a \in Seq(Messages), a = <<>>, NEW x \in Messages, x.kind \in Verdicts,
         NEW b, b = Append(a, x)
  PROVE  /\ Token(b) = x /\ Alone(b) /\ b \in Seq(Messages)
         /\ \A i \in 2 .. Len(b) : b[i] = Plain("cancel")
<1>1. Token(b) = x /\ Alone(b)
  BY TokenSteps
<1>2. \A i \in 2 .. Len(b) : b[i] = Plain("cancel")
  BY TokenSteps
<1>3. b \in Seq(Messages)
  BY AppendProperties
<1> QED BY <1>1, <1>2, <1>3

\* is_write_need_confirmation on the writer's side: the digest of a file.
LEMMA WriterGetsDigestKeeps ==
  ASSUME TransferInv, WriterGetsDigest PROVE TransferInv'
<1> USE DEF TransferInv
<1> DEFINE f == Head(toWriter).f
<1>1. /\ toWriter # <<>> /\ toWriter' = Tail(toWriter) /\ Head(toWriter).kind = "digest"
      /\ UNCHANGED <<download, reader, is_resume, strategy, meta, resumes, errors,
                     file, part, stamp, cancelled, done>>
      /\ IF ~writer.there
           THEN NothingDecided /\ UNCHANGED <<writer, question, toReader, failures, excused>>
         ELSE IF download THEN DigestAtClient(f) ELSE DigestAtManager(f)
  BY DEF WriterGetsDigest, Handled, OverWriter, DigestAtClient, DigestAtManager, WriterIsTold,
         diskVars, failureVars
<1>2. /\ Head(toWriter) \in Messages /\ Head(toWriter) = toWriter[1]
      /\ toWriter' \in Seq(Messages) /\ meta = 0
      /\ \A m : m \in Range(toWriter') => m \in Range(toWriter)
      /\ \A A : Has(toWriter', A) => Has(toWriter, A)
      /\ Before(toWriter', Works, Digests) /\ AtMostOne(toWriter', Digests)
      /\ question = 0 /\ Token(toReader).kind = "cancel"
      /\ ~Has(toWriter', Works) /\ ~Has(toWriter', Digests) /\ ~Has(toWriter', Works \cup Digests)
  <2>1. /\ Head(toWriter) \in Messages /\ Head(toWriter) = toWriter[1]
        /\ toWriter' \in Seq(Messages) /\ meta = 0
        /\ \A m : m \in Range(toWriter') => m \in Range(toWriter)
        /\ \A A : Has(toWriter', A) => Has(toWriter, A)
        /\ Before(toWriter', Works, Digests) /\ AtMostOne(toWriter', Digests)
        /\ question = 0 /\ Token(toReader).kind = "cancel"
        /\ ~Has(toWriter', Works) /\ ~Has(toWriter', Digests)
    BY <1>1, TakeTalk DEF Digests
  <2>2. ~Has(toWriter', Works \cup Digests)
    BY <2>1, HasSome
  <2> QED BY <2>1, <2>2
<1>3. f \in Files /\ f # 0 /\ 0 # Skip /\ 0 \in Hows
  BY <1>1, <1>2, MessageFields, Numbers
<1>4. reader.there => reader.waiting /\ ~reader.confirmed /\ reader.num = f /\ toWriter' = <<>>
  <2> SUFFICES ASSUME reader.there
               PROVE  reader.waiting /\ ~reader.confirmed /\ reader.num = f /\ toWriter' = <<>>
    OBVIOUS
  <2>1. Has(toWriter, Digests)
    BY <1>1, <1>2, HasSome DEF JobTypes, Digests
  <2>2. reader.waiting /\ ~reader.confirmed
    BY <2>1 DEF OneTalk, JobTypes, Readers
  <2>3. ~Has(toWriter', Cancels)
    BY <1>2 DEF OneTalk
  <2>4. toWriter' = <<>>
    BY <1>2, <2>3, HasSome
  <2>5. Joined(To(Head(toWriter)), Stage(reader))
    BY <1>1, <2>4, LinkTail DEF JobTypes, Chain
  <2>6. To(Head(toWriter)) = Asked(f) /\ Stage(reader) = Asked(reader.num)
    BY <1>1, <2>2 DEF To, Stage
  <2>7. Asked(f) = Asked(reader.num)
    BY <2>5, <2>6, Places DEF Joined
  <2> QED BY <2>2, <2>4, <2>7, Places
<1>5. /\ To(Head(toWriter)) = Asked(f) /\ To(Head(toWriter)) # Over
      /\ writer.there => MayBegin(Have, writer, f) /\ toReader = <<>>
  <2>1. To(Head(toWriter)) = Asked(f) /\ From(Head(toWriter)) = ToBegin(f)
    BY <1>1 DEF To, From
  <2>2. WriterAt(toWriter, toReader, reader) = ToBegin(f)
    BY <1>1, <1>2, <2>1 DEF WriterAt
  <2>3. writer.there => MayBegin(Have, writer, f)
    BY <2>2, FitsPlaces DEF Chain
  <2>4. writer.there => toReader = <<>>
    BY <1>2, TokenSteps DEF OneTalk, JobTypes
  <2> QED BY <2>1, <2>3, <2>4, Places
<1>6. Transferred(f) \in 0 .. Size /\ Transferred(f) \in Hows /\ Transferred(f) \in Nat
  <2>1. f \in Files
    BY <1>3
  <2>2. Transferred(f) \in 0 .. Size
    BY <2>1, TransferredFacts
  <2> QED BY <2>2, Numbers
<1> HIDE DEF f
<1>7. Shape'
  BY <1>1 DEF Shape
<1>8. reader.num <= reader.num
  BY ReaderFields, Numbers DEF JobTypes
<1>9. Has(toWriter', Dones) => ~reader'.there /\ question = 0
  BY <1>1, <1>2 DEF Ended
\* Nobody is there to take it.
<1>10. CASE ~writer.there
  <2>1. UNCHANGED <<writer, question, toReader, refused, agreed, failures, excused>>
    BY <1>1, <1>10 DEF NothingDecided
  <2>2. DiskSame
    BY <1>1, <2>1 DEF DiskSame, diskVars, failureVars
  <2>3. JobTypes'
    BY <1>1, <1>2, <2>1 DEF JobTypes
  <2>4. OneTalk'
    <3>1. /\ \A i \in 2 .. Len(toReader') : toReader'[i] = Plain("cancel")
          /\ Token(toReader') = Token(toReader)
      BY <2>1 DEF OneTalk
    <3> QED BY <1>1, <1>2, <1>10, <2>1, <3>1 DEF OneTalk, Verdicts
  <2>5. Known'
    BY <1>10, <2>1 DEF Known
  <2>6. Agreeing'
    BY <1>1, <1>2, <2>1 DEF Agreeing
  <2>7. Disk'
    BY <1>1, <1>8, <2>1, <2>2, <2>3, DiskKept
  <2>8. Chain'
    BY <1>1, <1>10, <2>1, Takes
  <2>9. Ended'
    BY <1>1, <1>9, <2>1, <2>2, EndedKept
  <2> QED BY <1>7, <2>3, <2>4, <2>5, <2>6, <2>7, <2>8, <2>9
\* The writer's side answers.
<1>11. ASSUME writer.there, NEW how \in Hows,
              \/ writer' = WriterConfirm(writer, f, how)
              \/ writer' = writer /\ f \in excused',
              excused \subseteq excused', excused' \subseteq Files, failures' \in 0 .. MaxFailures,
              question' = question,
              toReader' = Append(toReader, Message("confirm", f, how)), Decide(f, how),
              Transferred(f) > 0 => how = Transferred(f), Transferred(f) = 0 => how \in {0, Skip}
       PROVE  TransferInv'
  <2>1. DecidesAbout(f, how)
    BY <1>1, <1>3, <1>5, <1>11 DEF DecidesAbout
  <2> DEFINE x == Message("confirm", f, how)
  <2>2. x \in Messages /\ x.kind = "confirm" /\ x.f = f /\ x.n = how /\ x.kind \in Verdicts
    BY <1>3, <1>11, MessageFields DEF Verdicts
  <2> HIDE DEF x
  <2>3. /\ Token(toReader') = x /\ Alone(toReader') /\ toReader' \in Seq(Messages)
        /\ \A i \in 2 .. Len(toReader') : toReader'[i] = Plain("cancel")
    <3>1. toReader' = Append(toReader, x) /\ toReader = <<>> /\ toReader \in Seq(Messages)
      BY <1>5, <1>11 DEF x, JobTypes
    <3> QED BY <2>2, <3>1, FirstAnswer
  <2>4. Fits(Have', writer', To(x)) /\ writer' \in Writers /\ writer'.there
    <3>1. PICK w : w = WriterConfirm(writer, f, how)
      OBVIOUS
    <3>2. /\ Fits(Have', w, To(x)) /\ w \in Writers /\ w.there
          /\ f \in excused' => Fits(Have', writer, To(x))
      BY <1>11, <2>1, <3>1, DecisionFits DEF x
    <3> QED BY <1>11, <3>1, <3>2 DEF JobTypes
  <2>5. JobTypes'
    <3>1. refused' \subseteq Files /\ agreed' \subseteq Files
      BY <1>3, <1>11 DEF Decide, JobTypes
    <3> QED BY <1>1, <1>2, <1>11, <2>3, <2>4, <3>1 DEF JobTypes
  <2>6. OneTalk'
    BY <1>1, <1>2, <1>4, <1>11, <2>2, <2>3, <2>4 DEF OneTalk, Verdicts, Cancels
  <2>7. Known'
    BY <1>2, <1>11, <2>2, <2>3 DEF Known
  <2>8. Agreeing'
    <3>1. \A m \in Range(toWriter') : m.kind # "block" /\ m.kind # "confirm"
      BY <1>2, NoWorks
    <3>2. ~reader'.confirmed
      BY <1>1, <1>4 DEF Shape
    <3> QED BY <1>11, <2>2, <2>3, <3>1, <3>2, DecisionAgreeing
  <2>9. Disk'
    BY <1>1, <1>2, <1>8, <1>11, <2>1, <2>5, DecisionDisk
  <2>10. Chain'
    <3>1. Linked(toWriter') /\ LeadsTo(toWriter', Stage(reader'))
      BY <1>1, LinkTail DEF JobTypes, Chain
    <3>2. Fits(Have', writer', WriterAt(toWriter', toReader', reader'))
      <4>1. CASE reader.there
        <5>1. WriterAt(toWriter', toReader', reader') = To(x)
          BY <1>1, <1>4, <2>2, <2>3, <4>1 DEF WriterAt
        <5> QED BY <2>4, <5>1
      <4>2. CASE ~reader.there
        <5>1. toWriter' # <<>> => From(toWriter'[1]) = Over
          <6>1. toWriter' # <<>> => toWriter'[1].kind = "cancel"
            BY <1>2, HasSome, MessageFields DEF Works, Digests
          <6> QED BY <6>1 DEF From
        <5>2. WriterAt(toWriter', toReader', reader') = Over
          BY <1>1, <4>2, <5>1 DEF WriterAt, Stage
        <5> QED BY <5>2, FitsPlaces
      <4> QED BY <4>1, <4>2
    <3> QED BY <3>1, <3>2 DEF Chain
  <2>11. Ended'
    <3>1. ~(done /\ Counts)
      BY <1>11 DEF Ended
    <3>2. Counts' = Counts
      BY <1>1 DEF Counts
    <3> QED BY <1>1, <1>2, <1>9, <1>11, <3>1, <3>2 DEF Ended
  <2> QED BY <1>7, <2>5, <2>6, <2>7, <2>8, <2>9, <2>10, <2>11
\* Nothing is decided: the user is asked, or the client.
<1>12. ASSUME writer.there, UNCHANGED <<writer, refused, agreed, failures, excused>>, toReader' \in Seq(Messages),
              Alone(toReader'), \A i \in 2 .. Len(toReader') : toReader'[i] = Plain("cancel"),
              \/ /\ download /\ question' = f /\ Token(toReader').kind = "cancel"
                 /\ Transferred(f) = 0
              \/ /\ ~download /\ question' = 0 /\ Token(toReader').kind = "digest"
                 /\ Token(toReader').f = f /\ Token(toReader').n = Transferred(f)
       PROVE  TransferInv'
  <2>1. DiskSame
    BY <1>1, <1>12 DEF DiskSame, diskVars, failureVars
  <2>2. Have' = Have
    BY <2>1, SameHave
  <2>3. question' \in 0 .. N /\ (question' # 0 => question' = f)
    BY <1>3, <1>12, Numbers
  <2>4. JobTypes'
    BY <1>1, <1>2, <1>12, <2>3 DEF JobTypes
  <2>5. OneTalk'
    BY <1>1, <1>2, <1>3, <1>4, <1>12 DEF OneTalk, Verdicts, Cancels
  <2>6. Known'
    <3>1. \A g : Transferred(g)' = Transferred(g)
      BY <1>1 DEF Transferred
    <3> QED BY <1>3, <1>5, <1>12, <2>2, <3>1 DEF Known
  <2>7. Agreeing'
    BY <1>1, <1>2, <1>12 DEF Agreeing
  <2>8. Disk'
    BY <1>1, <1>8, <1>12, <2>1, <2>4, DiskKept
  <2>9. Chain'
    <3>1. Fits(Have', writer', To(Head(toWriter)))
      BY <1>5, <1>12, <2>2, FitsPlaces
    <3>2. Token(toReader').kind # "confirm"
      BY <1>12
    <3> QED BY <1>1, <1>5, <3>1, <3>2, Takes
  <2>10. Ended'
    <3>1. ~(done /\ Counts)
      BY <1>12 DEF Ended
    <3>2. Counts' = Counts
      BY <1>1 DEF Counts
    <3>3. ~Has(toWriter', Dones)
      <4>1. Has(toWriter', Dones) => Has(toWriter', Works)
        BY DEF Has, Dones, Works
      <4> QED BY <1>2, <4>1
    <3> QED BY <1>1, <1>12, <3>1, <3>2, <3>3 DEF Ended
  <2> QED BY <1>7, <2>4, <2>5, <2>6, <2>7, <2>8, <2>9, <2>10
<1>13. CASE writer.there /\ download
  <2> DEFINE how == IF NeedsConfirmation(f) THEN Decision(Transferred(f)) ELSE 0
  <2>1. DigestAtClient(f)
    BY <1>1, <1>13
  <2>2. CASE ~NeedsConfirmation(f) \/ Decided(Transferred(f))
    <3>1. /\ WriterIsTold(f, how) /\ Decide(f, how) /\ question' = question
          /\ toReader' = Append(toReader, Message("confirm", f, how))
      BY <2>1, <2>2 DEF DigestAtClient, TellReader
    <3>2. /\ how \in Hows
          /\ Transferred(f) > 0 => how = Transferred(f)
          /\ Transferred(f) = 0 => how \in {0, Skip}
      BY <1>3, <1>6, Numbers DEF Decision, NeedsConfirmation
    <3> HIDE DEF how
    <3>3. /\ \/ writer' = WriterConfirm(writer, f, how)
             \/ writer' = writer /\ f \in excused'
          /\ excused \subseteq excused' /\ excused' \subseteq Files
          /\ failures' \in 0 .. MaxFailures
      <4>1. CASE writer' = WriterConfirm(writer, f, how) /\ UNCHANGED failureVars
        BY <4>1 DEF JobTypes, failureVars
      <4>2. CASE Fails({f}) /\ UNCHANGED writer
        <5>1. {f} \in SUBSET Files
          BY <1>3
        <5> QED BY <4>2, <5>1, FailsFor
      <4> QED BY <3>1, <4>1, <4>2 DEF WriterIsTold
    <3> QED BY <1>11, <1>13, <3>1, <3>2, <3>3
  <2>3. CASE ~(~NeedsConfirmation(f) \/ Decided(Transferred(f)))
    <3>1. question' = f /\ NothingDecided /\ UNCHANGED <<writer, toReader, failures, excused>>
      BY <2>1, <2>3 DEF DigestAtClient, diskVars, failureVars
    <3>2. Transferred(f) = 0
      BY <1>6, <2>3 DEF Decided
    <3>3. toReader' = toReader /\ toReader \in Seq(Messages)
          /\ \A i \in 2 .. Len(toReader) : toReader[i] = Plain("cancel")
      BY <3>1 DEF JobTypes, OneTalk
    <3>4. Alone(toReader') /\ Token(toReader').kind = "cancel"
      BY <1>2, <1>5, <1>13, <3>3 DEF Alone
    <3> QED BY <1>12, <1>13, <3>1, <3>2, <3>3, <3>4 DEF NothingDecided
  <2> QED BY <2>2, <2>3
<1>14. CASE writer.there /\ ~download
  <2>1. DigestAtManager(f)
    BY <1>1, <1>14
  <2>2. CASE NeedsConfirmation(f)
    <3> DEFINE x == Message("digest", f, Transferred(f))
    <3>1. toReader' = Append(toReader, x) /\ NothingDecided
          /\ UNCHANGED <<writer, question, failures, excused>>
      BY <2>1, <2>2 DEF DigestAtManager, diskVars, failureVars
    <3>2. x \in Messages /\ x.kind = "digest" /\ x.f = f /\ x.n = Transferred(f)
          /\ x.kind \in Verdicts
      BY <1>3, <1>6, MessageFields DEF Verdicts
    <3> HIDE DEF x
    <3>3. /\ Token(toReader') = x /\ Alone(toReader') /\ toReader' \in Seq(Messages)
          /\ \A i \in 2 .. Len(toReader') : toReader'[i] = Plain("cancel")
      <4>1. toReader = <<>> /\ toReader \in Seq(Messages)
        BY <1>5, <1>14 DEF JobTypes
      <4> QED BY <3>1, <3>2, <4>1, FirstAnswer
    <3> QED BY <1>2, <1>12, <1>14, <3>1, <3>2, <3>3 DEF NothingDecided
  <2>3. CASE ~NeedsConfirmation(f)
    <3>1. /\ toReader' = Append(toReader, Message("confirm", f, 0)) /\ Decide(f, 0)
          /\ UNCHANGED <<writer, question, failures, excused>>
      BY <2>1, <2>3 DEF DigestAtManager, TellReader, diskVars, failureVars
    <3>2. writer' = WriterConfirm(writer, f, 0)
      BY <1>3, <3>1, WriterConfirms DEF JobTypes
    <3>3. ~(Transferred(f) > 0)
      BY <2>3 DEF NeedsConfirmation
    <3>4. excused' \subseteq Files /\ failures' \in 0 .. MaxFailures
      BY <3>1 DEF JobTypes
    <3> QED BY <1>3, <1>11, <1>14, <3>1, <3>2, <3>3, <3>4
  <2> QED BY <2>2, <2>3
<1>15. writer.there \in BOOLEAN
  BY WriterFields DEF JobTypes
<1> QED BY <1>10, <1>13, <1>14

-----------------------------------------------------------------------------
(* FileTransfer: the reader and the user get their answers.                *)

\* The reader that waits is told about its file.
LEMMA ReaderTold ==
  ASSUME NEW r \in Readers, Shaped(r), r.there, r.waiting, ~r.confirmed,
         NEW f \in Files, r.num = f, NEW how \in Hows, NEW q, q = ReaderConfirm(r, f, how)
  PROVE  /\ q \in Readers /\ q.there /\ Shaped(q) /\ r.num <= q.num
         /\ q.confirmed => q.num = f /\ how # Skip
         /\ Stage(q) = To(Message("confirm", f, how))
<1>1. r.pos = 0 /\ f \in Nat /\ f <= f + 1 /\ f <= f
  BY Numbers DEF Shaped
<1>2. q \in Readers /\ q.there /\ Shaped(q)
  BY ReaderConfirms, ShapedReaders
<1>3. CASE how = Skip
  <2>1. q.num = f + 1 /\ ~q.confirmed /\ ~q.waiting
    BY <1>3, ReaderConfirms
  <2>2. Stage(q) = ToBegin(f + 1)
    BY <1>2, <2>1 DEF Stage
  <2>3. To(Message("confirm", f, how)) = ToBegin(f + 1)
    BY <1>3, FromTo
  <2> QED BY <1>1, <1>2, <2>1, <2>2, <2>3
<1>4. CASE how # Skip
  <2>1. q.num = f /\ q.confirmed /\ q.pos = how
    BY <1>1, <1>4, ReaderConfirms
  <2>2. Stage(q) = Sending(f, how)
    BY <1>2, <2>1 DEF Stage
  <2>3. To(Message("confirm", f, how)) = Sending(f, how)
    BY <1>4, FromTo
  <2> QED BY <1>1, <1>2, <1>4, <2>1, <2>2, <2>3
<1> QED BY <1>3, <1>4

\* The reader gets a confirmation, the writer's digest or a cancellation.
LEMMA ReaderGetsKeeps ==
  ASSUME TransferInv, ReaderGets PROVE TransferInv'
<1> USE DEF TransferInv
<1> DEFINE m == Head(toReader)
<1>1. /\ toReader # <<>> /\ toReader' = Tail(toReader)
      /\ UNCHANGED <<download, file, part, stamp, writer, is_resume, strategy, meta, resumes, errors,
                     failures, excused, cancelled, done>>
  BY DEF ReaderGets, diskVars, failureVars
<1>2. \/ /\ m.kind = "confirm" /\ reader' = ReaderConfirm(reader, m.f, m.n)
         /\ NothingDecided /\ UNCHANGED <<toWriter, question>>
      \/ m.kind = "cancel" /\ reader' = NoReader /\ NothingDecided /\ UNCHANGED <<toWriter, question>>
      \/ m.kind = "digest" /\ ~reader.there /\ NothingDecided /\ UNCHANGED <<reader, toWriter, question>>
      \/ /\ m.kind = "digest" /\ reader.there /\ Decided(m.n)
         /\ reader' = ReaderConfirm(reader, m.f, Decision(m.n))
         /\ toWriter' = Append(toWriter, Message("confirm", m.f, Decision(m.n)))
         /\ Decide(m.f, Decision(m.n)) /\ UNCHANGED question
      \/ /\ m.kind = "digest" /\ reader.there /\ ~Decided(m.n)
         /\ question' = m.f /\ NothingDecided /\ UNCHANGED <<reader, toWriter>>
  <2>1. m.kind \in {"confirm", "cancel", "digest"}
    <3>1. Token(toReader) = m
      BY <1>1, TokenSteps DEF JobTypes
    <3> QED BY <3>1 DEF OneTalk, Verdicts, Cancels
  <2>2. CASE m.kind = "confirm"
    BY <2>2 DEF ReaderGets
  <2>3. CASE m.kind = "cancel"
    BY <2>3 DEF ReaderGets
  <2>4. CASE m.kind = "digest" /\ ~reader.there
    BY <2>4 DEF ReaderGets
  <2>5. CASE m.kind = "digest" /\ reader.there /\ Decided(m.n)
    BY <2>5 DEF ReaderGets
  <2>6. CASE m.kind = "digest" /\ reader.there /\ ~Decided(m.n)
    BY <2>6 DEF ReaderGets
  <2> QED BY <2>1, <2>2, <2>3, <2>4, <2>5, <2>6
<1> HIDE DEF m
<1>3. /\ Token(toReader) = m /\ m \in Messages /\ toReader' \in Seq(Messages)
      /\ Token(toReader').kind = "cancel"
      /\ \A i \in 2 .. Len(toReader') : toReader'[i] = Plain("cancel")
      /\ Alone(toReader) => toReader' = <<>> /\ Alone(toReader')
  <2>1. Token(toReader) = m /\ m \in Messages /\ toReader' \in Seq(Messages)
    BY <1>1, TokenSteps, HeadTailProperties DEF JobTypes, m
  <2>2. /\ Token(toReader') = Plain("cancel")
        /\ \A i \in 2 .. Len(toReader') : toReader'[i] = Plain("cancel")
        /\ Alone(toReader) => toReader' = <<>>
    BY <1>1, TokenSteps DEF JobTypes, OneTalk
  <2> QED BY <2>1, <2>2, MessageFields DEF Alone
<1>4. /\ meta = 0 /\ (writer.there => Alone(toReader) /\ m.kind \in Verdicts)
      /\ m.kind \in Verdicts =>
           question = 0 /\ ~Has(toWriter, Works \cup Digests) /\ (reader.there => m.f = reader.num)
  <2>1. writer.there => m.kind \in Verdicts
    BY <1>1, <1>3 DEF OneTalk, Alone, Token
  <2> QED BY <1>1, <1>3, <2>1 DEF OneTalk
<1>5. m.kind \in Verdicts =>
        ~Has(toWriter, Works) /\ ~Has(toWriter, Digests) /\ m.f \in Files /\ m.n \in Hows
  BY <1>3, <1>4, HasSome, MessageFields DEF JobTypes, Verdicts
<1>6. m.kind \in Verdicts /\ reader.there =>
        /\ reader.waiting /\ ~reader.confirmed /\ reader.pos = 0 /\ toWriter = <<>>
  <2> SUFFICES ASSUME m.kind \in Verdicts, reader.there
               PROVE  reader.waiting /\ ~reader.confirmed /\ reader.pos = 0 /\ toWriter = <<>>
    OBVIOUS
  <2>1. reader.waiting /\ ~reader.confirmed
    BY <1>3 DEF OneTalk, Verdicts
  <2>2. reader.pos = 0
    BY <2>1 DEF Shape
  <2>3. ~Has(toWriter, Cancels)
    BY DEF OneTalk
  <2> QED BY <1>5, <2>1, <2>2, <2>3, HasSome DEF JobTypes
<1>7. "digest" \in Verdicts /\ "confirm" \in Verdicts /\ "cancel" \notin Verdicts
  BY DEF Verdicts
\* Nothing is decided.
<1>8. ASSUME UNCHANGED <<toWriter, refused, agreed>>, reader' \in Readers, Shaped(reader'),
              question' = question \/ (m.kind = "digest" /\ reader.there /\ question' = m.f),
              reader'.there => /\ reader.there /\ reader.num <= reader'.num
                               /\ (reader'.confirmed \/ ~reader'.waiting) => question' = 0
                               /\ m.kind \in Verdicts
                               /\ question' # 0 => question' = reader'.num,
              reader'.confirmed => reader'.num \in agreed,
              question' # question /\ writer.there =>
                MayBegin(Have, writer, question') /\ Transferred(question') = 0,
              LeadsTo(toWriter, Stage(reader')),
              writer.there => Fits(Have, writer, WriterAt(toWriter, toReader', reader'))
       PROVE  TransferInv'
  <2>1. DiskSame
    BY <1>1, <1>8 DEF DiskSame, diskVars, failureVars
  <2>2. Have' = Have
    BY <2>1, SameHave
  <2>3. question' \in 0 .. N
    BY <1>5, <1>7, <1>8, Numbers DEF JobTypes
  <2>4. JobTypes'
    BY <1>1, <1>3, <1>8, <2>3 DEF JobTypes
  <2>5. Shape'
    BY <1>8 DEF Shape, Shaped
  <2>6. OneTalk'
    <3>1. question' # question => ~download
      BY <1>3, <1>8 DEF OneTalk
    <3>2. /\ Before(toWriter', Works, Digests) /\ AtMostOne(toWriter', Digests)
          /\ Has(toWriter', Cancels) => ~download' /\ ~reader'.there
          /\ \A A : Has(toWriter', A) <=> Has(toWriter, A)
      BY <1>1, <1>8 DEF OneTalk
    <3>3. question' # 0 => ~Has(toWriter', Works \cup Digests)
      BY <1>4, <1>7, <1>8, <3>2 DEF OneTalk
    <3>4. reader'.there => ~Has(toWriter', Digests)
      BY <1>5, <1>8, <3>2
    <3>5. download' => (question' # 0 => writer'.there)
      BY <1>1, <1>8, <3>1 DEF OneTalk
    <3>6. (writer'.there => Alone(toReader')) /\ meta' = 0
      BY <1>1, <1>3, <1>4
    <3>7. Token(toReader').kind \in Cancels /\ Token(toReader').kind \notin Verdicts
          /\ Token(toReader').kind # "digest"
      BY <1>3, <1>7 DEF Cancels
    <3> QED BY <1>3, <1>8, <3>2, <3>3, <3>4, <3>5, <3>6, <3>7 DEF OneTalk
  <2>7. Known'
    <3>1. \A g : Transferred(g)' = Transferred(g)
      BY <1>1 DEF Transferred
    <3> QED BY <1>1, <1>3, <1>8, <2>2, <3>1 DEF Known
  <2>8. Agreeing'
    <3>1. \A k \in Range(toWriter') : k.kind = "block" =>
            k.f \in agreed' /\ k.n # Skip /\ (reader'.there => k.f <= reader'.num)
      <4> SUFFICES ASSUME NEW k \in Range(toWriter), k.kind = "block"
                   PROVE  k.f \in agreed /\ k.n # Skip /\ (reader'.there => k.f <= reader'.num)
        BY <1>8
      <4>1. k.f \in agreed /\ k.n # Skip
        BY DEF Agreeing
      <4>2. Has(toWriter, Works)
        BY NoWorks DEF Works, JobTypes
      <4>3. ~reader'.there
        BY <1>5, <1>8, <4>2
      <4> QED BY <4>1, <4>3
    <3> QED BY <1>3, <1>8, <3>1 DEF Agreeing
  <2>9. Disk'
    BY <1>1, <1>8, <2>1, <2>4, DiskKept
  <2>10. Chain'
    BY <1>1, <1>8, <2>2 DEF Chain
  <2>11. Ended'
    <3>1. question' # question => reader.there /\ ~Has(toWriter, Dones)
      <4>1. Has(toWriter, Dones) => Has(toWriter, Works)
        BY DEF Has, Dones, Works
      <4> QED BY <1>5, <1>7, <1>8, <4>1
    <3>2. reader.there \/ writer.there => ~(done /\ Counts)
      BY DEF Ended
    <3>3. Counts' = Counts
      BY <2>1, SameHave
    <3>4. DoneIsComplete => DoneIsComplete'
      BY <1>1, <1>8 DEF DoneIsComplete, Whole
    <3> QED BY <1>1, <1>8, <3>1, <3>2, <3>3, <3>4 DEF Ended
  <2> QED BY <2>4, <2>5, <2>6, <2>7, <2>8, <2>9, <2>10, <2>11
\* The reader is told.
<1>9. CASE m.kind = "confirm" /\ reader.there
  <2>1. /\ reader' = ReaderConfirm(reader, m.f, m.n) /\ NothingDecided
        /\ UNCHANGED <<toWriter, question>>
    BY <1>2, <1>9
  <2>2. /\ reader \in Readers /\ m.f \in Files /\ m.n \in Hows /\ m = Message("confirm", m.f, m.n)
        /\ reader.num = m.f /\ question = 0
    <3>1. m = Message("confirm", m.f, m.n)
      BY <1>3, <1>9 DEF Messages, Message
    <3> QED BY <1>4, <1>5, <1>7, <1>9, <3>1 DEF JobTypes
  <2>3. /\ reader' \in Readers /\ reader'.there /\ Shaped(reader') /\ reader.num <= reader'.num
        /\ reader'.confirmed => reader'.num = m.f /\ m.n # Skip
        /\ Stage(reader') = To(m)
    <3>1. PICK f \in Files, how \in Hows : f = m.f /\ how = m.n
      BY <2>2
    <3>2. Shaped(reader)
      BY DEF Shape, Shaped
    <3>3. /\ reader' \in Readers /\ reader'.there /\ Shaped(reader') /\ reader.num <= reader'.num
          /\ reader'.confirmed => reader'.num = f /\ how # Skip
          /\ Stage(reader') = To(Message("confirm", f, how))
      BY <1>6, <1>7, <1>9, <2>1, <2>2, <3>1, <3>2, ReaderTold
    <3> QED BY <2>2, <3>1, <3>3
  <2>4. m.n # Skip => m.f \in agreed
    BY <1>3, <1>9 DEF Agreeing
  <2>5. Stage(reader') = To(m) /\ toWriter = <<>>
    BY <1>6, <1>7, <1>9, <2>3
  <2>6. writer.there => Fits(Have, writer, WriterAt(toWriter, toReader', reader'))
    BY <1>3, <1>9, <2>5 DEF Chain, WriterAt
  <2> QED BY <1>7, <1>8, <1>9, <2>1, <2>2, <2>3, <2>4, <2>5, <2>6 DEF NothingDecided, LeadsTo
\* Nobody is there to take it, or the reader is to stop.
<1>10. CASE ~reader'.there /\ (~reader.there \/ m.kind = "cancel")
            /\ UNCHANGED <<toWriter, question, refused, agreed>>
            /\ reader' \in Readers /\ Shaped(reader')
  <2>1. Stage(reader') = Over
    BY <1>10 DEF Stage
  <2>2. LeadsTo(toWriter, Stage(reader'))
    BY <2>1 DEF LeadsTo, Joined
  <2>3. writer.there => Fits(Have, writer, WriterAt(toWriter, toReader', reader'))
    BY <1>10, <2>1, FitsPlaces DEF Chain, WriterAt
  <2>4. ~reader'.confirmed
    BY <1>10 DEF Shaped
  <2> QED BY <1>8, <1>10, <2>2, <2>3, <2>4
<1>11. CASE m.kind = "cancel"
  <2>1. reader' = NoReader /\ NothingDecided /\ UNCHANGED <<toWriter, question>>
    BY <1>2, <1>11
  <2> QED BY <1>10, <1>11, <2>1, ReaderFields, ShapedReaders DEF NothingDecided
<1>12. CASE m.kind \in Verdicts /\ ~reader.there
  <2>1. reader' = reader /\ NothingDecided /\ UNCHANGED <<toWriter, question>>
    BY <1>2, <1>5, <1>7, <1>12, ReaderConfirms DEF JobTypes
  <2>2. Shaped(reader) /\ reader \in Readers
    BY DEF Shape, Shaped, JobTypes
  <2> QED BY <1>10, <1>12, <2>1, <2>2 DEF NothingDecided
\* A digest: the writer may begin with the file.
<1>13. m.kind = "digest" /\ reader.there /\ writer.there =>
         MayBegin(Have, writer, m.f) /\ m.n = Transferred(m.f)
  <2> SUFFICES ASSUME m.kind = "digest", reader.there, writer.there
               PROVE  MayBegin(Have, writer, m.f) /\ m.n = Transferred(m.f)
    OBVIOUS
  <2>1. toWriter = <<>> /\ Stage(reader) = Asked(m.f)
    BY <1>4, <1>6, <1>7 DEF Stage
  <2>2. WriterAt(toWriter, toReader, reader) = Asked(m.f)
    BY <1>3, <2>1 DEF WriterAt
  <2>3. MayBegin(Have, writer, m.f)
    BY <2>2, FitsPlaces DEF Chain
  <2> QED BY <1>3, <2>3 DEF Known
<1>14. m.kind \in Verdicts => Transferred(m.f) \in Nat
  BY <1>5, TransferredFacts
<1>15. CASE m.kind = "digest" /\ reader.there /\ ~Decided(m.n)
  <2>1. question' = m.f /\ NothingDecided /\ UNCHANGED <<reader, toWriter>>
    BY <1>2, <1>15
  <2>2. ~(m.n > 0)
    BY <1>15 DEF Decided
  <2>3. writer.there => MayBegin(Have, writer, m.f) /\ Transferred(m.f) = 0
    BY <1>7, <1>13, <1>14, <1>15, <2>2
  <2>4. LeadsTo(toWriter, Stage(reader'))
    BY <1>6, <1>7, <1>15 DEF LeadsTo, JobTypes
  <2>5. writer.there => Fits(Have, writer, WriterAt(toWriter, toReader', reader'))
    BY <1>3, <1>15, <2>1 DEF Chain, WriterAt
  <2>6. Shaped(reader) /\ reader \in Readers /\ reader.num <= reader.num
    BY ReaderFields, Numbers DEF Shape, Shaped, JobTypes
  <2>7. LeadsTo(toWriter, Stage(reader))
    BY DEF Chain
  <2> QED BY <1>4, <1>6, <1>7, <1>8, <1>15, <2>1, <2>3, <2>5, <2>6, <2>7 DEF NothingDecided
<1>16. CASE m.kind = "digest" /\ reader.there /\ Decided(m.n)
  <2> DEFINE how == Decision(m.n)
             f == m.f
             x == Message("confirm", f, how)
  <2>1. /\ reader' = ReaderConfirm(reader, f, how) /\ toWriter' = Append(toWriter, x)
        /\ Decide(f, how) /\ UNCHANGED question
    BY <1>2, <1>16
  <2>2. f \in Files /\ how \in Hows /\ reader \in Readers /\ reader.num = f
    <3>1. m.f \in Files /\ m.n \in Hows /\ Skip \in Hows /\ 0 \in Hows
      BY <1>5, <1>7, <1>16, Numbers
    <3>2. how \in Hows
      BY <3>1 DEF Decision
    <3> QED BY <1>4, <1>7, <1>16, <3>1, <3>2 DEF JobTypes
  <2>3. DecidesAbout(f, how)
    <3>1. m.n > 0 => how = m.n
      BY DEF Decision
    <3>2. ~(m.n > 0) => how \in {0, Skip}
      BY DEF Decision
    <3>3. writer.there => /\ MayBegin(Have, writer, f)
                          /\ Transferred(f) > 0 => how = Transferred(f)
                          /\ Transferred(f) = 0 => how \in {0, Skip}
      BY <1>13, <1>16, <3>1, <3>2
    <3>4. excused \subseteq Files
      BY DEF JobTypes
    <3> QED BY <1>1, <2>1, <2>2, <3>3, <3>4 DEF DecidesAbout
  <2>4. x \in Messages /\ x.kind = "confirm" /\ x.f = f /\ x.n = how
    BY <2>2, MessageFields
  <2>5. toWriter = <<>>
    BY <1>6, <1>7, <1>16
  <2>6. /\ reader' \in Readers /\ reader'.there /\ Shaped(reader') /\ reader.num <= reader'.num
        /\ reader'.confirmed => reader'.num = f /\ how # Skip
        /\ Stage(reader') = To(x)
    <3>1. PICK g \in Files, k \in Hows : g = f /\ k = how
      BY <2>2
    <3>2. Shaped(reader)
      BY DEF Shape, Shaped
    <3>3. /\ reader' \in Readers /\ reader'.there /\ Shaped(reader') /\ reader.num <= reader'.num
          /\ reader'.confirmed => reader'.num = g /\ k # Skip
          /\ Stage(reader') = To(Message("confirm", g, k))
      BY <1>6, <1>7, <1>16, <2>1, <2>2, <3>1, <3>2, ReaderTold
    <3> QED BY <3>1, <3>3
  <2>7. writer.there => Fits(Have', writer, From(x))
    <3>1. PICK w : w = WriterConfirm(writer, f, how)
      OBVIOUS
    <3> QED BY <2>3, <3>1, DecisionFits
  <2> HIDE DEF x, how, f
  <2>8. JobTypes'
    <3>1. refused' \subseteq Files /\ agreed' \subseteq Files
      BY <2>1, <2>2 DEF Decide, JobTypes
    <3>2. toWriter' \in Seq(Messages)
      BY <2>1, <2>4, AppendProperties DEF JobTypes
    <3> QED BY <1>1, <1>3, <2>1, <2>6, <3>1, <3>2 DEF JobTypes
  <2>9. Shape'
    BY <2>6 DEF Shape, Shaped
  <2>10. OneTalk'
    <3>1. /\ Before(toWriter', Works, Digests) /\ AtMostOne(toWriter', Digests)
          /\ ~Has(toWriter', Digests) /\ ~Has(toWriter', Cancels)
      <4>1. ~Has(toWriter, Cancels) /\ ~Has(toWriter, Digests)
        BY <2>5, HasSome DEF JobTypes
      <4> QED BY <2>1, <2>4, <4>1, TalkAppend DEF OneTalk, Works, Digests, Cancels
    <3>2. question' = 0 /\ meta' = 0
      BY <1>1, <1>4, <1>7, <1>16, <2>1
    <3>3. writer'.there => Alone(toReader')
      BY <1>1, <1>3, <1>4
    <3> QED BY <1>1, <1>3, <1>4, <1>7, <2>6, <3>1, <3>2, <3>3 DEF OneTalk, Cancels
  <2>11. Known'
    BY <1>1, <1>3, <1>4, <1>7, <1>16, <2>1 DEF Known
  <2>12. Agreeing'
    <3>1. \A k : k \in Range(toWriter') <=> k \in Range(toWriter) \/ k = x
      BY <2>1, <2>4, RangeAppend DEF JobTypes
    <3>2. Range(toWriter) = {}
      BY <2>5, HasSome DEF JobTypes
    <3> QED BY <1>3, <2>1, <2>4, <2>6, <2>8, <3>1, <3>2, DecisionAgreeing
  <2>13. Disk'
    BY <1>1, <1>4, <1>16, <2>3, <2>6, <2>8, DecisionDisk
  <2>14. Chain'
    BY <1>1, <2>1, <2>4, <2>5, <2>6, <2>7, Sends DEF Joined
  <2>15. Ended'
    <3>1. ~(done /\ Counts)
      BY <1>16 DEF Ended
    <3>2. Counts' = Counts
      BY <1>1 DEF Counts
    <3>3. ~Has(toWriter', Dones)
      <4>1. ~Has(toWriter, Dones)
        BY <2>5, HasSome DEF JobTypes
      <4> QED BY <2>1, <2>4, <4>1, TalkAppend DEF Dones
    <3> QED BY <1>1, <3>1, <3>2, <3>3 DEF Ended
  <2> QED BY <2>8, <2>9, <2>10, <2>11, <2>12, <2>13, <2>14, <2>15
<1> QED BY <1>2, <1>7, <1>9, <1>11, <1>12, <1>15, <1>16

\* The user decides about the file he was asked about.
LEMMA UserAnswersKeeps ==
  ASSUME TransferInv, NEW overwrite \in BOOLEAN, NEW remember \in BOOLEAN,
         UserAnswers(overwrite, remember)
  PROVE  TransferInv'
<1> USE DEF TransferInv
<1>1. PICK f, how : f = question /\ how = IF overwrite THEN 0 ELSE Skip
  OBVIOUS
<1> DEFINE x == Message("confirm", f, how)
<1>2. /\ question # 0 /\ question' = 0 /\ Decide(f, how)
      /\ IF download
           THEN /\ writer' = WriterConfirm(writer, f, how)
                /\ toReader' = Append(toReader, x) /\ UNCHANGED reader
           ELSE reader' = ReaderConfirm(reader, f, how) /\ UNCHANGED <<writer, toReader>>
      /\ UNCHANGED <<download, file, part, stamp, is_resume, toWriter, meta, resumes, errors,
                     failures, excused, cancelled, done>>
  BY <1>1 DEF UserAnswers, TellReader, diskVars, failureVars
<1>3. strategy' \in {"ask", "overwrite", "skip"}
  BY DEF UserAnswers, JobTypes
<1>4. f \in Files /\ how \in Hows /\ how \in {0, Skip} /\ f # 0
  <2>1. question \in 0 .. N /\ question # 0
    BY <1>2 DEF JobTypes
  <2>2. f \in Files /\ f # 0
    BY <1>1, <2>1, Numbers
  <2>3. how \in {0, Skip} /\ 0 \in Hows /\ Skip \in Hows
    BY <1>1, Numbers
  <2> QED BY <2>2, <2>3
<1>5. /\ Token(toReader).kind = "cancel" /\ ~Has(toWriter, Works \cup Digests) /\ meta = 0
      /\ reader.there => reader.num = f /\ reader.waiting /\ ~reader.confirmed
      /\ download => writer.there /\ ~Has(toWriter, Cancels)
      /\ writer.there => toReader = <<>>
  <2>1. Token(toReader).kind = "cancel" /\ ~Has(toWriter, Works \cup Digests) /\ meta = 0
    BY <1>2 DEF OneTalk, Verdicts, Cancels
  <2>2. /\ reader.there => reader.num = f /\ reader.waiting /\ ~reader.confirmed
        /\ download => writer.there /\ ~Has(toWriter, Cancels)
    BY <1>1, <1>2 DEF OneTalk, JobTypes, Readers
  <2>3. writer.there => toReader = <<>>
    BY <2>1, TokenSteps DEF OneTalk, JobTypes
  <2> QED BY <2>1, <2>2, <2>3
<1>6. ~Has(toWriter, Works) /\ ~Has(toWriter, Digests) /\ ~Has(toWriter, Dones)
      /\ (~Has(toWriter, Cancels) => toWriter = <<>>)
  <2>1. ~Has(toWriter, Works) /\ ~Has(toWriter, Digests)
        /\ (~Has(toWriter, Cancels) => toWriter = <<>>)
    BY <1>5, HasSome DEF JobTypes
  <2>2. Has(toWriter, Dones) => Has(toWriter, Works)
    BY DEF Has, Dones, Works
  <2> QED BY <2>1, <2>2
<1>7. reader.there => toWriter = <<>>
  BY <1>6 DEF OneTalk
<1>8. ~reader.confirmed
  BY <1>5 DEF Shape
<1>9. DecidesAbout(f, how)
  <2>1. excused \subseteq Files
    BY DEF JobTypes
  <2> QED BY <1>1, <1>2, <1>4, <2>1 DEF DecidesAbout, Known
<1>10. x \in Messages /\ x.kind = "confirm" /\ x.f = f /\ x.n = how /\ x.kind \in Verdicts
  BY <1>4, MessageFields DEF Verdicts
<1>11. \A m \in Range(toWriter') : m.kind # "block" /\ m.kind # "confirm"
  BY <1>2, <1>6, NoWorks DEF JobTypes
<1>12. refused' \subseteq Files /\ agreed' \subseteq Files
  BY <1>2, <1>4 DEF Decide, JobTypes
<1>13. Ended'
  <2>1. ~(done /\ Counts)
    BY <1>2 DEF Ended
  <2>2. Counts' = Counts
    BY <1>2 DEF Counts
  <2> QED BY <1>2, <1>6, <2>1, <2>2 DEF Ended
<1>14. toWriter # <<>> => From(toWriter[1]) = Over
  <2>1. toWriter # <<>> => toWriter[1].kind = "cancel"
    BY <1>6, HasSome, MessageFields DEF JobTypes, Works, Digests
  <2> QED BY <2>1 DEF From
\* In a download the writer goes on, and the reader is told.
<1>15. CASE download
  <2>1. /\ writer' = WriterConfirm(writer, f, how) /\ toReader' = Append(toReader, x)
        /\ reader' = reader
    BY <1>2, <1>15
  <2> HIDE DEF x
  <2>2. /\ Token(toReader') = x /\ Alone(toReader') /\ toReader' \in Seq(Messages)
        /\ \A i \in 2 .. Len(toReader') : toReader'[i] = Plain("cancel")
    <3>1. toReader = <<>> /\ toReader \in Seq(Messages)
      BY <1>5, <1>15 DEF JobTypes
    <3> QED BY <1>10, <2>1, <3>1, FirstAnswer
  <2>3. Fits(Have', writer', To(x)) /\ writer' \in Writers /\ writer'.there
    BY <1>5, <1>9, <1>15, <2>1, DecisionFits DEF x
  <2>4. JobTypes'
    BY <1>2, <1>3, <1>12, <2>1, <2>2, <2>3, Numbers DEF JobTypes
  <2>5. Shape'
    BY <2>1 DEF Shape
  <2>6. OneTalk'
    <3>1. /\ Before(toWriter', Works, Digests) /\ AtMostOne(toWriter', Digests)
          /\ ~Has(toWriter', Works \cup Digests) /\ ~Has(toWriter', Cancels)
      BY <1>2, <1>5, <1>15 DEF OneTalk
    <3> QED BY <1>2, <1>5, <1>10, <1>15, <2>1, <2>2, <2>3, <3>1 DEF OneTalk, Verdicts, Cancels
  <2>7. Known'
    BY <1>2, <1>10, <2>2 DEF Known
  <2>8. Agreeing'
    BY <1>2, <1>8, <1>10, <1>11, <2>1, <2>2, DecisionAgreeing
  <2>9. Disk'
    <3>1. reader.num <= reader.num
      BY ReaderFields, Numbers DEF JobTypes
    <3> QED BY <1>2, <1>5, <1>9, <2>1, <2>4, <3>1, DecisionDisk
  <2>10. Chain'
    <3>1. Fits(Have', writer', WriterAt(toWriter', toReader', reader'))
      <4>1. CASE reader.there
        <5>1. WriterAt(toWriter', toReader', reader') = To(x)
          BY <1>2, <1>7, <1>10, <2>1, <2>2, <4>1 DEF WriterAt
        <5> QED BY <2>3, <5>1
      <4>2. CASE ~reader.there
        <5>1. WriterAt(toWriter', toReader', reader') = Over
          BY <1>2, <1>14, <2>1, <4>2 DEF WriterAt, Stage
        <5> QED BY <5>1, FitsPlaces
      <4> QED BY <4>1, <4>2
    <3> QED BY <1>2, <2>1, <3>1 DEF Chain
  <2> QED BY <1>13, <2>4, <2>5, <2>6, <2>7, <2>8, <2>9, <2>10
\* In an upload the reader goes on, and the writer is not told.
<1>16. CASE ~download
  <2>1. reader' = ReaderConfirm(reader, f, how) /\ UNCHANGED <<writer, toReader>>
    BY <1>2, <1>16
  <2>2. /\ reader' \in Readers /\ reader'.there = reader.there /\ Shaped(reader')
        /\ reader'.there => reader.num <= reader'.num
        /\ reader'.confirmed => reader'.num = f /\ how # Skip
        /\ reader'.there => Stage(reader') = To(x)
    <3>1. Shaped(reader) /\ reader \in Readers
      BY DEF Shape, Shaped, JobTypes
    <3>2. CASE reader.there
      <4>1. reader.waiting /\ ~reader.confirmed /\ reader.num = f
        BY <1>5, <3>2
      <4>2. /\ reader' \in Readers /\ reader'.there /\ Shaped(reader') /\ reader.num <= reader'.num
            /\ reader'.confirmed => reader'.num = f /\ how # Skip
            /\ Stage(reader') = To(Message("confirm", f, how))
        BY <1>4, <2>1, <3>1, <3>2, <4>1, ReaderTold
      <4> QED BY <3>2, <4>2
    <3>3. CASE ~reader.there
      <4>1. reader' = reader
        BY <2>1, <3>3 DEF ReaderConfirm
      <4> QED BY <1>8, <3>1, <3>3, <4>1
    <3> QED BY <3>2, <3>3
  <2>3. writer.there => Fits(Have', writer, To(x))
    <3>1. PICK w : w = WriterConfirm(writer, f, how)
      OBVIOUS
    <3> QED BY <1>4, <1>9, <3>1, DecisionFits
  <2> HIDE DEF x
  <2>4. JobTypes'
    BY <1>2, <1>3, <1>12, <2>1, <2>2, Numbers DEF JobTypes
  <2>5. Shape'
    BY <2>2 DEF Shape, Shaped
  <2>6. OneTalk'
    <3>1. /\ Before(toWriter', Works, Digests) /\ AtMostOne(toWriter', Digests)
          /\ ~Has(toWriter', Works \cup Digests) /\ ~Has(toWriter', Digests)
          /\ Has(toWriter', Cancels) => ~download' /\ ~reader'.there
      BY <1>2, <1>5, <1>6, <2>2 DEF OneTalk
    <3>2. /\ \A i \in 2 .. Len(toReader') : toReader'[i] = Plain("cancel")
          /\ Token(toReader') = Token(toReader) /\ Alone(toReader') = Alone(toReader)
      BY <2>1 DEF OneTalk
    <3>3. writer'.there => Alone(toReader')
      BY <2>1, <3>2 DEF OneTalk
    <3> QED BY <1>2, <1>5, <1>16, <2>1, <3>1, <3>2, <3>3 DEF OneTalk, Verdicts, Cancels
  <2>7. Known'
    BY <1>2, <1>5, <2>1 DEF Known
  <2>8. Agreeing'
    <3>1. Token(toReader').kind # "confirm"
      BY <1>5, <2>1
    <3> QED BY <1>2, <1>11, <2>2, <3>1, DecisionAgreeing
  <2>9. Disk'
    BY <1>2, <1>5, <1>9, <2>1, <2>2, <2>4, DecisionDisk
  <2>10. Chain'
    <3>1. CASE reader.there
      <4>1. toWriter' = <<>> /\ Linked(toWriter') /\ LeadsTo(toWriter', Stage(reader'))
        BY <1>2, <1>7, <3>1 DEF Chain, LeadsTo
      <4>2. WriterAt(toWriter', toReader', reader') = To(x)
        BY <1>5, <2>1, <2>2, <3>1, <4>1 DEF WriterAt
      <4> QED BY <2>1, <2>3, <4>1, <4>2 DEF Chain
    <3>2. CASE ~reader.there
      <4>1. Stage(reader') = Over
        BY <2>2, <3>2 DEF Stage
      <4>2. WriterAt(toWriter', toReader', reader') = Over
        BY <1>2, <1>14, <2>2, <3>2, <4>1 DEF WriterAt
      <4>3. Linked(toWriter') /\ LeadsTo(toWriter', Stage(reader'))
        BY <1>2, <4>1 DEF Chain, LeadsTo, Joined
      <4> QED BY <4>2, <4>3, FitsPlaces DEF Chain
    <3> QED BY <3>1, <3>2
  <2> QED BY <1>13, <2>4, <2>5, <2>6, <2>7, <2>8, <2>9, <2>10
<1> QED BY <1>15, <1>16 DEF JobTypes

\* cancel_job, on the client's side.
LEMMA UserCancelsKeeps ==
  ASSUME TransferInv, UserCancels PROVE TransferInv'
<1> USE DEF TransferInv
<1>1. /\ meta = 0 /\ question' = 0
      /\ UNCHANGED <<download, file, is_resume, strategy, meta, resumes, errors, failures, excused,
                     refused, agreed, done>>
      /\ cancelled' \in BOOLEAN
  BY DEF UserCancels, Removed, diskVars, failureVars
<1>2. Plain("cancel") \in Messages /\ Plain("cancel").kind = "cancel"
  BY MessageFields
<1>3. reader.num <= reader.num /\ reader \in Readers
  BY ReaderFields, Numbers DEF JobTypes
<1>4. Counts' = Counts
  BY <1>1 DEF Counts
<1>5. CASE download
  <2>1. /\ writer.there /\ writer' = NoWriter /\ Removed(writer.num)
        /\ toReader' = Append(toReader, Plain("cancel")) /\ UNCHANGED <<reader, toWriter>>
    BY <1>5 DEF UserCancels
  <2>2. /\ toReader' \in Seq(Messages) /\ Token(toReader') = Token(toReader)
        /\ \A i \in 2 .. Len(toReader') : toReader'[i] = Plain("cancel")
    <3>1. toReader \in Seq(Messages) /\ \A i \in 2 .. Len(toReader) : toReader[i] = Plain("cancel")
      BY DEF JobTypes, OneTalk
    <3>2. Append(toReader, Plain("cancel")) \in Seq(Messages)
      BY <1>2, <3>1, AppendProperties
    <3>3. Token(Append(toReader, Plain("cancel"))) = Token(toReader)
      BY <3>1, TokenSteps
    <3>4. \A i \in 2 .. Len(Append(toReader, Plain("cancel"))) :
            Append(toReader, Plain("cancel"))[i] = Plain("cancel")
      BY <3>1, TokenSteps
    <3> QED BY <2>1, <3>2, <3>3, <3>4
  <2>3. writer' \in Writers /\ ~writer'.there /\ writer \in Writers
    BY <2>1, WriterFields DEF JobTypes
  <2>4. /\ part' \in [Files -> Contents] /\ stamp' \in [Files -> {"none", "current", "other"}]
        /\ \A g \in Files : Good(g, file[g], part'[g], stamp'[g], excused)
        /\ \A g \in Files : part'[g] \in {part[g], NoFile}
    <3>1. \A g \in Files : Good(g, file[g], part[g], stamp[g], excused)
      BY DEF Disk
    <3>2. \A g \in Files : Good(g, file[g], NoFile, "none", excused)
      BY <3>1, GoodRemoved
    <3>3. NoFile \in Contents
      BY PieceFacts
    <3>4. CASE writer.num \in Files
      BY <2>1, <3>1, <3>2, <3>3, <3>4 DEF Removed, JobTypes
    <3>5. CASE writer.num \notin Files
      BY <2>1, <3>1, <3>5 DEF Removed, JobTypes
    <3> QED BY <3>4, <3>5
  <2>5. JobTypes'
    BY <1>1, <2>1, <2>2, <2>3, <2>4, Numbers DEF JobTypes
  <2>6. Shape' /\ Known' /\ Agreeing'
    BY <1>1, <2>1, <2>2, <2>3 DEF Shape, Known, Agreeing
  <2>7. OneTalk'
    BY <1>1, <2>1, <2>2, <2>3 DEF OneTalk
  <2>8. Disk'
    <3>1. Mine(Have') = Mine(Have) /\ Mine(Have) = Files \ excused /\ Have'.part = part'
          /\ Have.part = part
      BY <1>1 DEF Have, Mine
    <3>2. reader.there => Blanks(Have', reader.num)
      BY <2>4, <3>1 DEF Disk, Blanks
    <3> QED BY <1>1, <2>1, <2>3, <2>4, <3>2 DEF Disk
  <2>9. Chain'
    BY <2>1, <2>3 DEF Chain
  <2>10. Ended'
    <3>1. ~(done /\ Counts)
      BY <2>1 DEF Ended
    <3> QED BY <1>1, <1>4, <2>1, <3>1 DEF Ended
  <2> QED BY <2>5, <2>6, <2>7, <2>8, <2>9, <2>10
<1>6. CASE ~download
  <2> DEFINE x == Plain("cancel")
  <2>1. /\ reader.there /\ reader' = NoReader
        /\ toWriter' = Append(toWriter, x) /\ UNCHANGED <<part, stamp, writer, toReader>>
    BY <1>6 DEF UserCancels, diskVars, failureVars
  <2>2. x \in Messages /\ x.kind = "cancel" /\ From(x) = Over /\ To(x) = Over
    BY <1>2, FromTo
  <2> HIDE DEF x
  <2>3. DiskSame
    BY <1>1, <2>1 DEF DiskSame, diskVars, failureVars
  <2>4. reader' \in Readers /\ ~reader'.there /\ ~reader'.confirmed /\ Shaped(reader')
    BY <2>1, ReaderFields, ShapedReaders
  <2>5. JobTypes'
    BY <1>1, <2>1, <2>2, <2>4, TalkAppend, Numbers DEF JobTypes
  <2>6. Shape'
    BY <2>4 DEF Shape, Shaped
  <2>7. OneTalk'
    <3>1. /\ Before(toWriter', Works, Digests) /\ AtMostOne(toWriter', Digests)
          /\ Has(toWriter', Works \cup Digests) <=> Has(toWriter, Works \cup Digests)
      BY <2>1, <2>2, TalkAppend DEF OneTalk, Works, Digests
    <3>2. /\ \A i \in 2 .. Len(toReader') : toReader'[i] = Plain("cancel")
          /\ Token(toReader') = Token(toReader) /\ Alone(toReader') = Alone(toReader)
      BY <2>1 DEF OneTalk
    <3>3. Token(toReader) = Token(toReader') /\ (writer'.there => Alone(toReader'))
      BY <2>1, <3>2 DEF OneTalk
    <3> QED BY <1>1, <1>6, <2>1, <2>4, <3>1, <3>2, <3>3 DEF OneTalk
  <2>8. Known'
    BY <1>1, <2>1, <2>3, KnownKept
  <2>9. Agreeing'
    <3>1. \A m : m \in Range(toWriter') <=> m \in Range(toWriter) \/ m = x
      BY <2>1, <2>2, RangeAppend DEF JobTypes
    <3> QED BY <1>1, <2>1, <2>2, <2>4, <3>1 DEF Agreeing
  <2>10. Disk'
    BY <1>1, <2>1, <2>3, <2>4, <2>5, DiskKept
  <2>11. Chain'
    <3>1. Have' = Have
      BY <2>3, SameHave
    <3> QED BY <2>1, <2>2, <3>1, Sends, FitsPlaces DEF Joined
  <2>12. Ended'
    BY <1>1, <2>1, <2>3, <2>4, EndedKept
  <2> QED BY <2>5, <2>6, <2>7, <2>8, <2>9, <2>10, <2>11, <2>12
<1> QED BY <1>5, <1>6 DEF JobTypes

-----------------------------------------------------------------------------
(* FileTransfer: connections.                                              *)

\* A new connection, or none.
LEMMA NothingUnderWay ==
  /\ <<>> \in Seq(Messages) /\ Range(<<>>) = {} /\ Linked(<<>>) /\ \A p : LeadsTo(<<>>, p)
  /\ Before(<<>>, Works, Digests) /\ AtMostOne(<<>>, Digests) /\ \A A : ~Has(<<>>, A)
  /\ Token(<<>>).kind = "cancel" /\ Alone(<<>>)
  /\ \A i \in 2 .. Len(<<>>) : <<>>[i] = Plain("cancel")
<1>1. <<>> \in Seq(Messages) /\ 1 .. Len(<<>>) = {} /\ 1 .. Len(<<>>) - 1 = {}
      /\ 2 .. Len(<<>>) = {} /\ DOMAIN <<>> = {}
  OBVIOUS
<1>2. Token(<<>>).kind = "cancel"
  BY MessageFields DEF Token
<1> QED BY <1>1, <1>2 DEF Range, Linked, LeadsTo, Before, AtMostOne, Has, Alone

\* The connection ends with the jobs under way; the client keeps the job's meta.
LEMMA InterruptKeeps ==
  ASSUME TransferInv, Interrupt PROVE TransferInv'
<1> USE DEF TransferInv
<1>1. /\ reader' = NoReader /\ writer' = NoWriter /\ toWriter' = <<>> /\ toReader' = <<>>
      /\ question' = 0 /\ resumes' = resumes + 1 /\ resumes < MaxResumes
      /\ UNCHANGED <<download, file, part, stamp, is_resume, strategy, errors, failures, excused,
                     refused, agreed, cancelled, done>>
      /\ meta' = IF download THEN writer.num ELSE reader.num
      /\ IF download THEN writer.there ELSE reader.there
  BY DEF Interrupt, diskVars, failureVars, historyVars
<1>2. /\ reader' \in Readers /\ ~reader'.there /\ ~reader'.confirmed /\ Shaped(reader')
      /\ writer' \in Writers /\ ~writer'.there
  BY <1>1, ReaderFields, ShapedReaders, WriterFields
<1>3. resumes' \in 0 .. MaxResumes /\ resumes' # 0
  <2>1. resumes \in 0 .. MaxResumes
    BY DEF JobTypes
  <2> QED BY <1>1, <2>1, Numbers
<1>4. meta' \in 1 .. N + 1 /\ meta' \in 0 .. N + 1
  <2>1. writer.num \in 1 .. N + 1 /\ reader.num \in 1 .. N + 1
    BY ReaderFields, WriterFields DEF JobTypes
  <2> QED BY <1>1, <2>1, Numbers
<1>5. JobTypes'
  BY <1>1, <1>2, <1>3, <1>4, NothingUnderWay, Numbers DEF JobTypes
<1>6. Shape'
  BY <1>2 DEF Shape, Shaped
<1>7. OneTalk'
  BY <1>1, <1>2, NothingUnderWay DEF OneTalk, Verdicts, Cancels
<1>8. Known' /\ Agreeing'
  BY <1>1, <1>2, NothingUnderWay DEF Known, Agreeing
<1>9. Chain'
  BY <1>1, <1>2, NothingUnderWay DEF Chain
<1>10. /\ Mine(Have') = Files \ excused /\ Mine(Have) = Files \ excused
       /\ Have'.part = part /\ Have.part = part /\ Have.file = file /\ Have.refused = refused
       /\ Have.counts = Counts
  BY <1>1 DEF Have, Mine
<1>11. Disk'
  <2>1. Blanks(Have', meta')
    BY <1>1, <1>10 DEF Disk, Blanks
  <2>2. download => \A g \in Files \ excused : g < writer.num => file[g] = Source \/ g \in refused
    BY <1>1, <1>10 DEF Disk, Behind, Counts
  <2> QED BY <1>1, <1>2, <1>3, <1>10, <2>1, <2>2 DEF Disk, Whole
<1>12. Ended'
  <2>1. ~(done /\ Counts)
    BY <1>1 DEF Ended
  <2>2. Counts' => Counts
    BY <1>1, <1>3 DEF Counts
  <2> QED BY <1>1, <2>1, <2>2, NothingUnderWay DEF Ended
<1> QED BY <1>5, <1>6, <1>7, <1>8, <1>9, <1>11, <1>12

\* resume_job: both sides begin again at the file of the meta.
LEMMA ResumeKeeps ==
  ASSUME TransferInv, Resume PROVE TransferInv'
<1> USE DEF TransferInv
<1>1. /\ meta # 0 /\ meta' = 0 /\ reader' = ReadsFrom(meta) /\ writer' = WritesFrom(meta)
      /\ is_resume' = TRUE /\ strategy' = "ask"
      /\ toWriter' = <<>> /\ toReader' = <<>> /\ question' = 0
      /\ UNCHANGED <<download, file, part, stamp, resumes, errors, failures, excused, refused,
                     agreed, cancelled, done>>
  BY DEF Resume, diskVars, failureVars, historyVars, OneTalk
<1>2. meta \in 1 .. N + 1 /\ meta \in Nat /\ 0 \in 0 .. N /\ 0 \in 0 .. N + 1
  BY <1>1, Numbers DEF JobTypes
<1>3. /\ reader' \in Readers /\ reader'.there /\ reader'.num = meta /\ ~reader'.confirmed
      /\ ~reader'.waiting /\ Shaped(reader')
      /\ writer' \in Writers /\ writer'.there /\ writer'.num = meta /\ ~writer'.open
  BY <1>1, <1>2, ReaderFields, ShapedReaders, WriterFields
<1>4. JobTypes'
  BY <1>1, <1>2, <1>3, NothingUnderWay DEF JobTypes
<1>5. Shape'
  BY <1>3 DEF Shape, Shaped
<1>6. OneTalk'
  BY <1>1, <1>3, NothingUnderWay DEF OneTalk, Verdicts, Cancels
<1>7. Known' /\ Agreeing'
  BY <1>1, <1>3, NothingUnderWay DEF Known, Agreeing
<1>8. Have' = Have /\ Mine(Have) = Files \ excused /\ Have.part = part /\ Have.file = file
      /\ Have.refused = refused /\ Have.counts = Counts
  BY <1>1 DEF Have, Mine, Counts
<1>9. Chain'
  <2>1. Stage(reader') = ToBegin(meta)
    BY <1>3 DEF Stage
  <2>2. WriterAt(toWriter', toReader', reader') = ToBegin(meta)
    BY <1>1, <2>1, NothingUnderWay DEF WriterAt
  <2>3. MayBegin(Have', writer', meta)
    <3>1. \A g : g \in Nat => ~(meta <= g /\ g < meta)
      BY <1>2
    <3>2. Arrived(Have', writer', meta)
      BY <1>3, <1>8, <3>1, Numbers DEF Arrived
    <3> QED BY <1>2, <1>3, <3>2 DEF MayBegin
  <2> QED BY <1>1, <2>2, <2>3, FitsPlaces, NothingUnderWay DEF Chain
<1>10. Disk'
  <2>1. Blanks(Have, meta)
    BY <1>1 DEF Disk
  <2>2. Behind(Have, writer')
    <3>1. Counts => download
      BY <1>1 DEF Disk, Counts
    <3> QED BY <1>1, <1>3, <1>8, <3>1 DEF Disk, Behind, Whole
  <2>3. \A g \in Files : Good(g, file[g], part[g], stamp[g], excused)'
    BY <1>1 DEF Disk
  <2> QED BY <1>1, <1>3, <1>8, <2>1, <2>2, <2>3 DEF Disk
<1>11. Ended'
  <2>1. ~(done /\ Counts)
    BY <1>1 DEF Ended
  <2>2. Counts' = Counts
    BY <1>1 DEF Counts
  <2> QED BY <1>1, <2>1, <2>2, NothingUnderWay DEF Ended
<1> QED BY <1>4, <1>5, <1>6, <1>7, <1>9, <1>10, <1>11

\* The invariant holds at the beginning, and after every step.
LEMMA TransferBegins == ASSUME TransferInit PROVE TransferInv
<1>1. /\ download \in BOOLEAN /\ file \in [Files -> {NoFile, Old}]
      /\ part \in [Files -> {NoFile, <<1>>}] /\ stamp \in [Files -> {"none", "current", "other"}]
      /\ \A f \in Files : part[f] = NoFile <=> stamp[f] = "none"
      /\ reader = ReadsFrom(1) /\ writer = WritesFrom(1)
      /\ is_resume = FALSE /\ strategy = "ask" /\ question = 0 /\ toWriter = <<>> /\ toReader = <<>>
      /\ meta = 0 /\ resumes = 0 /\ errors = 0 /\ failures \in 0 .. MaxFailures
      /\ excused = {f \in Files : part[f] # NoFile}
      /\ refused = {} /\ agreed = {} /\ cancelled = FALSE /\ done = FALSE
  BY DEF TransferInit
<1>2. 1 \in 1 .. N + 1 /\ 0 \in 0 .. N /\ 0 \in 0 .. N + 1 /\ 0 \in 0 .. MaxResumes
      /\ 0 \in 0 .. MaxErrors /\ \A g \in Files : ~(g < 1) /\ g \in Nat
  BY Numbers
<1>3. /\ reader \in Readers /\ reader.there /\ reader.num = 1 /\ ~reader.confirmed
      /\ ~reader.waiting /\ Shaped(reader)
      /\ writer \in Writers /\ writer.there /\ writer.num = 1 /\ ~writer.open
  BY <1>1, <1>2, ReaderFields, ShapedReaders, WriterFields
<1>4. <<1>> \in Seq(0 .. Size) /\ Len(<<1>>) = 1 /\ Len(<<1>>) <= Size /\ <<1>> # NoFile
      /\ <<1>> \in Contents /\ NoFile \in Contents /\ Old \in Contents
  <2>1. <<1>> \in Seq(0 .. Size) /\ Len(<<1>>) = 1 /\ Len(<<1>>) <= Size
    <3>1. 1 \in 1 .. Size /\ 1 <= Size
      BY Numbers
    <3> QED BY <3>1
  <2> QED BY <2>1, PieceFacts
<1>5. JobTypes
  <2>1. file \in [Files -> Contents] /\ part \in [Files -> Contents]
    BY <1>1, <1>4
  <2>2. excused \subseteq Files /\ refused \subseteq Files /\ agreed \subseteq Files
    BY <1>1
  <2> QED BY <1>1, <1>2, <1>3, <2>1, <2>2, NothingUnderWay DEF JobTypes
<1>6. Shape
  BY <1>3 DEF Shape, Shaped
<1>7. OneTalk
  BY <1>1, <1>3, NothingUnderWay DEF OneTalk, Verdicts, Cancels
<1>8. Known /\ Agreeing
  BY <1>1, <1>3, NothingUnderWay DEF Known, Agreeing
<1>9. Mine(Have) = Files \ excused /\ Have.part = part /\ Have.file = file
      /\ \A g \in Files \ excused : part[g] = NoFile /\ stamp[g] = "none"
  BY <1>1 DEF Have, Mine
<1>10. Chain
  <2>1. WriterAt(toWriter, toReader, reader) = ToBegin(1)
    BY <1>1, <1>3, NothingUnderWay DEF WriterAt, Stage
  <2>2. MayBegin(Have, writer, 1)
    <3>1. \A g \in Files : ~(1 <= g /\ g < 1)
      BY <1>2
    <3> QED BY <1>3, <1>9, <3>1 DEF MayBegin, Arrived
  <2>3. Fits(Have, writer, ToBegin(1))
    BY <2>2, FitsPlaces
  <2>4. Linked(toWriter) /\ LeadsTo(toWriter, Stage(reader))
    BY <1>1, NothingUnderWay
  <2> QED BY <2>1, <2>3, <2>4 DEF Chain
<1>11. Disk
  <2>1. \A g \in Files : Good(g, file[g], part[g], stamp[g], excused)
    <3> SUFFICES ASSUME NEW g \in Files PROVE Good(g, file[g], part[g], stamp[g], excused)
      OBVIOUS
    <3>1. file[g] \in {NoFile, Old} /\ part[g] \in {NoFile, <<1>>}
          /\ (part[g] = NoFile <=> stamp[g] = "none") /\ (g \in excused <=> part[g] # NoFile)
      BY <1>1
    <3> QED BY <1>4, <3>1 DEF Good
  <2>2. Blanks(Have, 1) /\ Behind(Have, writer)
    BY <1>2, <1>3, <1>9 DEF Blanks, Behind
  <2> QED BY <1>1, <1>3, <1>9, <2>1, <2>2 DEF Disk
<1>12. Ended
  BY <1>1, NothingUnderWay DEF Ended
<1> QED BY <1>5, <1>6, <1>7, <1>8, <1>10, <1>11, <1>12 DEF TransferInv

LEMMA TransferStays == TransferSpec => []TransferInv
<1>1. ASSUME TransferInv, TransferNext PROVE TransferInv'
  BY <1>1, SendDigestKeeps, SendBlockKeeps, ReadFailsKeeps, ReadDoneKeeps, ReaderGetsKeeps,
     WriterGetsDigestKeeps, WriterGetsBlockKeeps, WriterGetsConfirmKeeps, WriterEndsKeeps,
     UserAnswersKeeps, UserCancelsKeeps, InterruptKeeps, ResumeKeeps
     DEF TransferNext, ReaderStep, WriterStep, Answer
<1>2. ASSUME TransferInv, UNCHANGED transferVars PROVE TransferInv'
  <2>1. Have' = Have /\ Counts' = Counts /\ \A f : Transferred(f)' = Transferred(f)
    BY <1>2 DEF transferVars, diskVars, failureVars, jobVars, historyVars, Have, Counts, Transferred
  <2>2. JobTypes' /\ Shape' /\ Agreeing'
    BY <1>2 DEF transferVars, diskVars, failureVars, jobVars, historyVars, TransferInv, JobTypes, Shape, Agreeing
  <2>3. OneTalk'
    BY <1>2 DEF transferVars, diskVars, failureVars, jobVars, historyVars, TransferInv, OneTalk
  <2>4. Known'
    BY <1>2, <2>1 DEF transferVars, diskVars, failureVars, jobVars, historyVars, TransferInv, Known
  <2>5. Disk' /\ Chain'
    BY <1>2, <2>1 DEF transferVars, diskVars, failureVars, jobVars, historyVars, TransferInv, Disk, Chain, Whole
  <2>6. Ended'
    BY <1>2, <2>1 DEF transferVars, diskVars, failureVars, jobVars, historyVars, TransferInv, Ended,
                     DoneIsComplete, Whole
  <2> QED BY <2>2, <2>3, <2>4, <2>5, <2>6 DEF TransferInv
<1> QED BY <1>1, <1>2, TransferBegins, PTL DEF TransferSpec

-----------------------------------------------------------------------------
(* FileTransfer: what is begun was agreed to.                              *)

\* Whoever decides does so while the writing job is there ...
Attended ==
  /\ question # 0 => writer.there
  /\ reader.there /\ Token(toReader).kind = "digest" => writer.there
  /\ Has(toWriter, Cancels) => question = 0

\* ... which has not begun what it is told to leave.
BegunAgreed == \A f \in Files \ excused : part[f] # NoFile => f \in agreed

\* Only a cancellation is a cancellation.
LEMMA CancelsAppended ==
  ASSUME NEW s \in Seq(Messages), NEW x, x.kind # "cancel"
  PROVE  Has(Append(s, x), Cancels) <=> Has(s, Cancels)
<1>1. s \in Seq(Messages \cup {x})
  BY SeqDef
<1> QED BY <1>1, AppendHas DEF Cancels

LEMMA SendersAttended ==
  ASSUME TransferInv, Attended, SendDigest \/ SendBlock \/ ReadFails \/ ReadDone
  PROVE  Attended'
<1>1. \A k, f, n : Message(k, f, n).kind = k /\ Plain(k).kind = k
  BY DEF Message, Plain
<1>2. PICK x : x.kind # "cancel" /\ toWriter' = Append(toWriter, x)
  BY <1>1 DEF SendDigest, SendBlock, ReadFails, ReadDone
<1>3. reader.there /\ UNCHANGED <<writer, question, toReader>>
  BY DEF SendDigest, SendBlock, ReadFails, ReadDone
<1> QED BY <1>2, <1>3, CancelsAppended DEF Attended, TransferInv, JobTypes

LEMMA ReaderGetsAttended ==
  ASSUME TransferInv, Attended, ReaderGets
  PROVE  Attended'
<1> DEFINE m == Head(toReader)
<1>0. toReader # <<>> /\ toReader' = Tail(toReader) /\ writer' = writer
  BY DEF ReaderGets
<1>2. Token(toReader).kind = m.kind /\ Token(toReader').kind = "cancel"
      /\ m.kind \in {"confirm", "cancel", "digest"}
  <2>1. /\ toReader \in Seq(Messages)
        /\ \A i \in 2 .. Len(toReader) : toReader[i] = Plain("cancel")
        /\ Token(toReader).kind \in Verdicts \cup Cancels
    BY DEF TransferInv, JobTypes, OneTalk
  <2>2. Token(toReader) = m
    BY <1>0, <2>1, TokenSteps
  <2>3. Token(Tail(toReader)) = Plain("cancel")
    BY <1>0, <2>1, TokenSteps
  <2>4. Token(toReader').kind = "cancel"
    BY <1>0, <2>3, MessageFields
  <2> QED BY <2>1, <2>2, <2>4 DEF Verdicts, Cancels
<1>1. question' = question \/ (m.kind = "digest" /\ reader.there)
  <2>1. CASE m.kind \in {"confirm", "cancel"}
    BY <2>1 DEF ReaderGets
  <2>2. CASE m.kind = "digest"
    BY <2>2 DEF ReaderGets
  <2> QED BY <1>2, <2>1, <2>2
<1>3. /\ Has(toWriter', Cancels) <=> Has(toWriter, Cancels)
      /\ Has(toWriter, Cancels) => ~reader.there
  <2>1. toWriter' = toWriter
        \/ \E f, n : toWriter' = Append(toWriter, Message("confirm", f, n))
    BY <1>2 DEF ReaderGets
  <2>2. \A f, n : Message("confirm", f, n).kind # "cancel"
    BY DEF Message
  <2>3. toWriter \in Seq(Messages) /\ (Has(toWriter, Cancels) => ~reader.there)
    BY DEF TransferInv, JobTypes, OneTalk
  <2> QED BY <2>1, <2>2, <2>3, CancelsAppended
<1> QED BY <1>0, <1>1, <1>2, <1>3 DEF Attended

LEMMA WriterGetsAttended ==
  ASSUME TransferInv, Attended, WriterGetsDigest \/ WriterGetsBlock \/ WriterGetsConfirm
  PROVE  Attended'
<1>1. toWriter # <<>> /\ toWriter' = Tail(toWriter) /\ reader' = reader
      /\ toWriter \in Seq(Messages)
  BY DEF WriterGetsDigest, WriterGetsBlock, WriterGetsConfirm, Handled, OverWriter,
         TransferInv, JobTypes
<1>2. Has(toWriter', Cancels) => Has(toWriter, Cancels)
  BY <1>1, TailHas
<1>3. Has(toWriter, Cancels) => ~download /\ ~reader.there
  BY DEF TransferInv, OneTalk
<1>4. writer'.there = writer.there
  <2>1. \A f, how : WriterIsTold(f, how) => writer'.there = writer.there
    <3>1. writer \in Writers
      BY DEF TransferInv, JobTypes
    <3>2. \A f, how : WriterConfirm(writer, f, how).there = writer.there
      BY <3>1 DEF WriterConfirm, Writers
    <3> QED BY <3>2 DEF WriterIsTold
  <2>2. \A f, n : Write(f, n) => writer'.there = writer.there
    <3>1. writer \in Writers
      BY DEF TransferInv, JobTypes
    <3>2. \A f, n, disk, failed :
            Creates(f, n, disk, failed) \/ DoesNotCreate(f, disk, failed)
              => writer'.there = writer.there
      BY <3>1 DEF Creates, DoesNotCreate, Writers
    <3>3. \A f, n : Continues(f, n) => writer' = writer
      BY DEF Continues
    <3> QED BY <3>2, <3>3 DEF Write
  <2>3. CASE WriterGetsDigest
    BY <2>1, <2>3 DEF WriterGetsDigest, DigestAtClient, DigestAtManager
  <2>4. CASE WriterGetsBlock
    BY <2>2, <2>4 DEF WriterGetsBlock
  <2>5. CASE WriterGetsConfirm
    BY <2>1, <2>5 DEF WriterGetsConfirm
  <2> QED BY <2>3, <2>4, <2>5
<1>5. CASE writer.there
  <2>1. question' = question \/ download
    BY DEF WriterGetsDigest, WriterGetsBlock, WriterGetsConfirm, DigestAtClient, DigestAtManager
  <2> QED BY <1>1, <1>2, <1>3, <1>4, <1>5, <2>1 DEF Attended
<1>6. CASE ~writer.there
  <2>1. UNCHANGED <<question, toReader>>
    BY <1>6 DEF WriterGetsDigest, WriterGetsBlock, WriterGetsConfirm
  <2> QED BY <1>1, <1>2, <1>4, <1>6, <2>1 DEF Attended
<1> QED BY <1>5, <1>6

LEMMA WriterEndsAttended ==
  ASSUME TransferInv, Attended, WriterEnds
  PROVE  Attended'
<1>1. /\ toWriter # <<>> /\ toWriter' = Tail(toWriter)
      /\ Head(toWriter).kind \in {"done", "error", "cancel"}
      /\ UNCHANGED <<reader, question, toReader>>
  BY DEF WriterEnds, Handled, OverWriter
<1>2. JobTypes /\ OneTalk
  BY DEF TransferInv
<1>3. CASE Head(toWriter).kind = "cancel"
  <2>1. Has(toWriter, Cancels)
    BY <1>1, <1>2, <1>3, TailHas DEF JobTypes, Cancels
  <2>2. ~reader.there /\ question = 0
    BY <1>2, <2>1 DEF OneTalk, Attended
  <2> QED BY <1>1, <2>2 DEF Attended
<1>4. CASE Head(toWriter).kind # "cancel"
  <2>1. question = 0 /\ Token(toReader).kind = "cancel"
    BY <1>1, <1>2, <1>4, TakeTalk DEF Works
  <2> QED BY <1>1, <2>1 DEF Attended
<1> QED BY <1>3, <1>4

LEMMA UserAttended ==
  ASSUME TransferInv, Attended, Answer \/ UserCancels \/ Interrupt \/ Resume
  PROVE  Attended'
<1>1. JobTypes /\ OneTalk
  BY DEF TransferInv
<1>2. ASSUME NEW overwrite \in BOOLEAN, NEW remember \in BOOLEAN, UserAnswers(overwrite, remember)
      PROVE  Attended'
  <2>1. question # 0 /\ question' = 0 /\ writer.there
    BY <1>2 DEF UserAnswers, Attended
  <2>2. Token(toReader).kind = "cancel" /\ toReader = <<>> /\ toReader \in Seq(Messages)
    <3>1. Token(toReader).kind = "cancel"
      BY <1>1, <2>1 DEF OneTalk, Verdicts, Cancels
    <3> QED BY <1>1, <2>1, <3>1, TokenSteps DEF OneTalk, JobTypes
  <2>3. toReader' = toReader \/ \E f, n : toReader' = Append(toReader, Message("confirm", f, n))
    BY <1>2 DEF UserAnswers, TellReader
  <2>4. Token(toReader').kind # "digest"
    <3>1. ASSUME NEW f, NEW n, toReader' = Append(toReader, Message("confirm", f, n))
          PROVE  Token(toReader').kind = "confirm"
      <4>1. toReader' = <<Message("confirm", f, n)>>
        BY <2>2, <3>1
      <4> QED BY <4>1 DEF Token, Message
    <3> QED BY <2>2, <2>3, <3>1
  <2> QED BY <2>1, <2>4 DEF Attended
<1>3. CASE UserCancels
  <2>1. question' = 0
    BY <1>3 DEF UserCancels
  <2>2. CASE download
    <3>1. Token(toReader').kind # "digest"
      <4>1. toReader' = Append(toReader, Plain("cancel")) /\ toReader \in Seq(Messages)
        BY <1>1, <1>3, <2>2 DEF UserCancels, JobTypes
      <4>2. Token(toReader') = Token(toReader)
        BY <4>1, TokenSteps
      <4> QED BY <1>1, <2>2, <4>2 DEF OneTalk
    <3> QED BY <2>1, <3>1 DEF Attended
  <2>3. CASE ~download
    <3>1. ~reader'.there
      BY <1>3, <2>3, ReaderFields DEF UserCancels
    <3> QED BY <2>1, <3>1 DEF Attended
  <2> QED BY <2>2, <2>3
<1>4. CASE Interrupt
  <2>1. question' = 0 /\ ~reader'.there
    BY <1>4, ReaderFields DEF Interrupt
  <2> QED BY <2>1 DEF Attended
<1>5. CASE Resume
  <2>1. toReader' = <<>> /\ question' = 0
    BY <1>1, <1>5 DEF Resume, OneTalk
  <2>2. Token(toReader').kind = "cancel"
    BY <2>1, MessageFields DEF Token
  <2> QED BY <2>1, <2>2 DEF Attended
<1> QED BY <1>2, <1>3, <1>4, <1>5 DEF Answer

LEMMA StaysAttended ==
  ASSUME TransferInv, Attended, [TransferNext]_transferVars
  PROVE  Attended'
<1>1. CASE UNCHANGED transferVars
  BY <1>1 DEF transferVars, jobVars, Attended
<1> QED
  BY <1>1, SendersAttended, ReaderGetsAttended, WriterGetsAttended, WriterEndsAttended, UserAttended
     DEF TransferNext, ReaderStep, WriterStep

\* A decision not to send is about a file that is not begun.
LEMMA RefusedIsNotBegun ==
  ASSUME TransferInv, BegunAgreed, writer.there, NEW f \in Files, MayBegin(Have, writer, f),
         NEW how, Transferred(f) > 0 => how # Skip, Decide(f, how), UNCHANGED part,
         excused \subseteq excused'
  PROVE  BegunAgreed'
<1>1. Transferred(f) \in 0 .. Size
      /\ (Transferred(f) = 0 /\ f \notin excused => part[f] = NoFile)
  BY TransferredFacts DEF TransferInv
<1>2. Transferred(f) = 0 \/ Transferred(f) > 0
  BY <1>1
<1>3. how = Skip => part[f] = NoFile \/ f \in excused
  BY <1>1, <1>2
<1> QED BY <1>3 DEF Decide, BegunAgreed

\* x.download of the files not in what changes is as it was.
LEMMA LessIsBegun ==
  ASSUME BegunAgreed, UNCHANGED agreed, excused \subseteq excused',
         \A g \in Files \ excused' : part'[g] \in {NoFile, part[g]} \/ g \in agreed
  PROVE  BegunAgreed'
BY DEF BegunAgreed

LEMMA BlockBegun ==
  ASSUME TransferInv, BegunAgreed, WriterGetsBlock
  PROVE  BegunAgreed'
<1>1. JobTypes /\ Agreeing
  BY DEF TransferInv
<1>2. toWriter \in Seq(Messages) /\ toWriter # <<>> /\ Head(toWriter).kind = "block"
  BY <1>1 DEF JobTypes, WriterGetsBlock
<1>3. Head(toWriter) \in Messages /\ Head(toWriter) \in Range(toWriter)
  BY <1>2, RangeTail, HeadTailProperties
<1>4. PICK f : f = Head(toWriter).f
  OBVIOUS
<1>5. f \in agreed /\ f \in Files
  BY <1>1, <1>2, <1>3, <1>4 DEF Agreeing, JobTypes
<1>6. UNCHANGED agreed
  BY DEF WriterGetsBlock, OverWriter
<1>7. CASE ~writer.there
  <2>1. UNCHANGED <<part, excused>>
    BY <1>7 DEF WriterGetsBlock, diskVars, failureVars
  <2> QED BY <1>6, <2>1 DEF BegunAgreed
<1>8. CASE writer.there
  <2>1. PICK n \in 0 .. Size : Head(toWriter) = Message("block", f, n)
    <3>1. PICK g \in Files, n \in Hows : Head(toWriter) = Message("block", g, n)
      BY <1>2, <1>3 DEF Messages, Message
    <3>2. Head(toWriter).n = n /\ n # Skip /\ g = f
      BY <1>1, <1>2, <1>3, <1>4, <3>1, MessageFields DEF Agreeing
    <3>3. n \in 0 .. Size
      BY <3>2, Numbers
    <3> QED BY <3>1, <3>2, <3>3
  <2>2. PICK k \in 0 .. Size : k = IF n = 0 THEN Size ELSE n - 1
    BY <2>1, Numbers
  <2>3. MayGoOn(Have, writer, f, k)
    <3>1. WriterAt(toWriter, toReader, reader) = Sending(f, k)
      <4>1. Head(toWriter) = toWriter[1]
        BY <1>2, HeadTailProperties
      <4> QED BY <1>2, <1>5, <2>1, <2>2, <4>1, FromTo DEF WriterAt
    <3> QED BY <1>8, <3>1, FitsPlaces DEF TransferInv, Chain
  <2>4. Write(f, n)
    <3>1. 0 \in Hows /\ \A i \in 0 .. Size : i \in Hows
      BY Numbers
    <3> QED BY <1>4, <1>5, <1>8, <2>1, <3>1, MessageFields DEF WriterGetsBlock
  <2>5. Written(f, n)
    BY <1>1, <1>5, <1>8, <2>2, <2>3, <2>4, WriteEffect DEF TransferInv
  <2>6. excused \subseteq excused'
        /\ \A g \in Files \ excused' : part'[g] \in {NoFile, part[g]} \/ g = f
    BY <2>5 DEF Written
  <2> QED BY <1>5, <1>6, <2>6, LessIsBegun
<1> QED BY <1>7, <1>8

LEMMA StaysAgreed ==
  ASSUME TransferInv, Attended, BegunAgreed, [TransferNext]_transferVars
  PROVE  BegunAgreed'
<1>1. JobTypes /\ OneTalk /\ Known /\ Chain
  BY DEF TransferInv
<1>2. CASE UNCHANGED <<part, excused, agreed>>
  BY <1>2 DEF BegunAgreed
<1>3. CASE SendDigest \/ SendBlock \/ ReadFails \/ ReadDone \/ Interrupt \/ Resume
           \/ UNCHANGED transferVars
  BY <1>2, <1>3 DEF SendDigest, SendBlock, ReadFails, ReadDone, Interrupt, Resume,
     transferVars, diskVars, failureVars, historyVars
<1>9. \A f, how : WriterIsTold(f, how) => part' = part /\ excused \subseteq excused'
  BY DEF WriterIsTold, Fails, failureVars
<1>10. CASE WriterGetsConfirm
  <2>1. agreed' = agreed /\ part' = part /\ excused \subseteq excused'
    BY <1>9, <1>10 DEF WriterGetsConfirm
  <2> QED BY <2>1 DEF BegunAgreed
<1>4. CASE WriterGetsBlock
  BY <1>4, BlockBegun
<1>5. CASE WriterEnds \/ UserCancels
  <2>1. UNCHANGED agreed /\ excused \subseteq excused'
    BY <1>5 DEF WriterEnds, UserCancels, Removed, Fails, diskVars, failureVars
  <2>2. part' = part \/ part' = [part EXCEPT ![writer.num] = NoFile]
    <3>1. \A renamed \in BOOLEAN :
            \/ Finalised(writer.num, renamed).part = part
            \/ Finalised(writer.num, renamed).part = [part EXCEPT ![writer.num] = NoFile]
      BY DEF Finalised
    <3>2. CASE UserCancels
      BY <3>2 DEF UserCancels, Removed, diskVars
    <3>3. CASE WriterEnds
      <4>1. \/ part' = part
            \/ \E renamed \in BOOLEAN : part' = Finalised(writer.num, renamed).part
            \/ part' = IF writer.num \in Files THEN [part EXCEPT ![writer.num] = NoFile] ELSE part
        BY <3>3 DEF WriterEnds, Removed, diskVars
      <4> QED BY <3>1, <4>1
    <3> QED BY <1>5, <3>2, <3>3
  <2>3. part \in [Files -> Contents]
    BY <1>1 DEF JobTypes
  <2>4. \A g \in Files : part'[g] \in {NoFile, part[g]}
    BY <2>2, <2>3
  <2> QED BY <2>1, <2>4, LessIsBegun
<1>6. CASE WriterGetsDigest
  <2> DEFINE f == Head(toWriter).f
  <2>1. /\ toWriter # <<>> /\ Head(toWriter).kind = "digest" /\ UNCHANGED part
        /\ excused \subseteq excused'
    BY <1>6, <1>9 DEF WriterGetsDigest, DigestAtClient, DigestAtManager, diskVars, failureVars
  <2>2. f \in Files /\ (writer.there => MayBegin(Have, writer, f))
    <3>1. Head(toWriter) \in Messages /\ Head(toWriter) = toWriter[1]
      BY <1>1, <2>1, HeadTailProperties DEF JobTypes
    <3>2. From(Head(toWriter)) = ToBegin(f)
      BY <2>1 DEF From
    <3>3. WriterAt(toWriter, toReader, reader) = ToBegin(f)
      BY <2>1, <3>1, <3>2 DEF WriterAt
    <3>4. f \in Files
      BY <2>1, <3>1, MessageFields
    <3> HIDE DEF f
    <3>5. writer.there => Fits(Have, writer, ToBegin(f))
      BY <1>1, <3>3 DEF Chain
    <3> QED BY <3>4, <3>5, FitsPlaces
  <2>3. \/ UNCHANGED agreed
        \/ /\ writer.there /\ NeedsConfirmation(f)
           /\ Decided(Transferred(f)) /\ Decide(f, Decision(Transferred(f)))
        \/ writer.there /\ ~NeedsConfirmation(f) /\ Decide(f, 0)
    BY <1>6 DEF WriterGetsDigest, DigestAtClient, DigestAtManager, NothingDecided
  <2> HIDE DEF f
  <2>4. Transferred(f) > 0 => Decision(Transferred(f)) # Skip
    <3>1. Transferred(f) \in 0 .. Size
      BY <2>2, TransferredFacts DEF TransferInv
    <3> QED BY <3>1, Numbers DEF Decision
  <2>5. 0 # Skip
    BY DEF Skip
  <2>6. UNCHANGED agreed => BegunAgreed'
    BY <2>1 DEF BegunAgreed
  <2> QED BY <2>1, <2>2, <2>3, <2>4, <2>5, <2>6, RefusedIsNotBegun
<1>7. CASE ReaderGets
  <2> DEFINE m == Head(toReader)
  <2>1. toReader # <<>> /\ UNCHANGED <<part, excused>>
    BY <1>7 DEF ReaderGets, diskVars, failureVars
  <2>2. /\ Token(toReader) = m /\ m \in Messages
        /\ m.kind \in {"confirm", "cancel", "digest"}
    <3>1. Token(toReader) = m /\ m \in Messages
      BY <1>1, <2>1, TokenSteps DEF JobTypes
    <3>2. Token(toReader).kind \in Verdicts \cup Cancels
      BY <1>1 DEF OneTalk
    <3> QED BY <3>1, <3>2 DEF Verdicts, Cancels
  <2>3. \/ UNCHANGED agreed
        \/ /\ m.kind = "digest" /\ reader.there
           /\ Decided(m.n) /\ Decide(m.f, Decision(m.n))
    <3>1. CASE m.kind \in {"confirm", "cancel"}
      BY <1>7, <3>1 DEF ReaderGets, NothingDecided
    <3>2. CASE m.kind = "digest"
      BY <1>7, <3>2 DEF ReaderGets, NothingDecided
    <3> QED BY <2>2, <3>1, <3>2
  <2> HIDE DEF m
  <2>4. CASE m.kind = "digest" /\ reader.there /\ Decide(m.f, Decision(m.n))
    <3>1. writer.there /\ m.f \in Files
      BY <2>2, <2>4, MessageFields DEF Attended
    <3>2. m.n = Transferred(m.f) /\ MayBegin(Have, writer, m.f)
      <4>1. m.n = Transferred(m.f)
        BY <1>1, <2>2, <2>4, <3>1 DEF Known
      <4>2. reader.num = m.f /\ reader.waiting /\ ~reader.confirmed
        BY <1>1, <2>2, <2>4 DEF OneTalk, Verdicts, JobTypes, Readers
      <4>3. toWriter = <<>>
        <5>1. ~Has(toWriter, Works \cup Digests) /\ ~Has(toWriter, Cancels)
          BY <1>1, <2>2, <2>4 DEF OneTalk, Verdicts
        <5> QED BY <1>1, <5>1, HasSome DEF JobTypes
      <4>4. WriterAt(toWriter, toReader, reader) = Asked(m.f)
        BY <2>2, <2>4, <4>2, <4>3 DEF WriterAt, Stage
      <4> QED BY <1>1, <3>1, <4>1, <4>4, FitsPlaces DEF Chain
    <3>3. Transferred(m.f) > 0 => Decision(m.n) # Skip
      <4>1. Transferred(m.f) \in 0 .. Size
        BY <3>1, TransferredFacts DEF TransferInv
      <4> QED BY <3>2, <4>1, Numbers DEF Decision
    <3> QED BY <2>1, <2>4, <3>1, <3>2, <3>3, RefusedIsNotBegun
  <2> QED BY <1>2, <2>1, <2>3, <2>4
<1>8. ASSUME NEW overwrite \in BOOLEAN, NEW remember \in BOOLEAN, UserAnswers(overwrite, remember)
      PROVE  BegunAgreed'
  <2>1. PICK how : how = IF overwrite THEN 0 ELSE Skip
    OBVIOUS
  <2>2. question # 0 /\ writer.there /\ Decide(question, how) /\ UNCHANGED <<part, excused>>
    BY <1>8, <2>1 DEF UserAnswers, Attended, diskVars, failureVars
  <2>3. question \in Files
    <3>1. question \in 0 .. N
      BY <1>1 DEF JobTypes
    <3> QED BY <2>2, <3>1, Numbers
  <2>4. MayBegin(Have, writer, question) /\ Transferred(question) = 0
    BY <1>1, <2>2 DEF Known
  <2> QED BY <2>2, <2>3, <2>4, RefusedIsNotBegun
<1> QED
  BY <1>3, <1>4, <1>5, <1>6, <1>7, <1>8, <1>10
     DEF TransferNext, ReaderStep, WriterStep, Answer

\* With TransferInv, that what is begun was agreed to is inductive.
CopyInv == TransferInv /\ Attended /\ BegunAgreed

LEMMA CopyStays == TransferSpec => []CopyInv
<1>1. TransferInit => Attended /\ BegunAgreed
  <2> SUFFICES ASSUME TransferInit PROVE Attended /\ BegunAgreed
    OBVIOUS
  <2>1. toReader = <<>> /\ toWriter = <<>> /\ question = 0
        /\ excused = {f \in Files : part[f] # NoFile}
    BY DEF TransferInit
  <2>2. Token(toReader).kind = "cancel"
    BY <2>1, MessageFields DEF Token
  <2> QED BY <2>1, <2>2 DEF Attended, BegunAgreed
<1>2. TransferInv /\ Attended /\ BegunAgreed /\ [TransferNext]_transferVars
      => Attended' /\ BegunAgreed'
  BY StaysAttended, StaysAgreed
<1> QED BY <1>1, <1>2, TransferStays, PTL DEF TransferSpec, CopyInv

\* Of the files for which the disk fails nothing is known, and of those that are not
\* written nothing changes ...
LEMMA SeenFails ==
  ASSUME JobTypes', excused \subseteq excused', \A g \in Files \ excused' : file'[g] = file[g]
  PROVE  C!Fail(excused') /\ excused' \in SUBSET Files
<1>1. Seen' = C!Without(Seen, excused')
  BY DEF Seen, C!Without
<1> QED BY <1>1 DEF C!Fail, JobTypes

\* ... the renamed file is the copy of an agreed one ...
LEMMA RenamedIsCopied ==
  ASSUME CopyInv, TransferInv', excused \subseteq excused', agreed' = agreed, NEW u,
         \A g \in Files \ excused' : file'[g] = file[g] \/ (g = u /\ part[u] # NoFile /\ file'[u] = part[u])
  PROVE  C!Next
<1>1. JobTypes /\ JobTypes' /\ Disk /\ Disk' /\ BegunAgreed
  BY DEF CopyInv, TransferInv
<1>2. CASE \A g \in Files \ excused' : file'[g] = file[g]
  <2>1. C!Fail(excused') /\ excused' \in SUBSET Files
    BY <1>1, <1>2, SeenFails
  <2>2. 1 \in Files
    BY Numbers
  <2> QED BY <2>1, <2>2 DEF C!Next
<1>3. CASE ~\A g \in Files \ excused' : file'[g] = file[g]
  <2>1. /\ u \in Files \ excused' /\ u \notin excused /\ part[u] # NoFile /\ file'[u] = part[u]
        /\ \A g \in Files \ excused' : g # u => file'[g] = file[g]
    BY <1>3
  <2>2. u \in agreed
    BY <1>1, <2>1 DEF BegunAgreed
  <2>3. file'[u] \in {NoFile, Old, Source} /\ file[u] \in {NoFile, Old, Source}
    BY <1>1, <2>1 DEF Disk, Good
  <2>4. part[u] \in Seq(0 .. Size)
    BY <1>1, <2>1 DEF Disk, Good
  <2>5. part[u] = Source
    BY <2>1, <2>3, <2>4, PieceFacts
  <2>6. Mixed \notin {NoFile, Old, Source}
    <3>1. Mixed[1] = 0 /\ NoFile[1] = -2 /\ Old[1] = -1 /\ Source[1] = 1
      BY Numbers DEF Mixed, NoFile, Old, Source
    <3> QED BY <3>1
  <2>7. Seen[u] # Mixed
    BY <2>1, <2>3, <2>6 DEF Seen
  <2>8. Seen' = C!Without([Seen EXCEPT ![u] = Source], excused')
    BY <2>1, <2>5 DEF Seen, C!Without
  <2>9. C!Replace(u, excused') /\ u \in Files /\ excused' \in SUBSET Files
    BY <1>1, <2>1, <2>2, <2>7, <2>8 DEF C!Replace, JobTypes
  <2> QED BY <2>9 DEF C!Next
<1> QED BY <1>2, <1>3

\* ... a decision about a file allows or forbids it ...
LEMMA DecidedIsAllowed ==
  ASSUME JobTypes', file' = file, excused \subseteq excused', NEW f \in Files, NEW how, Decide(f, how)
  PROVE  C!Next
<1>1. C!Fail(excused') /\ excused' \in SUBSET Files
  BY SeenFails
<1>2. C!Allow(f) \/ C!Forbid(f)
  BY DEF Decide, C!Allow, C!Forbid
<1> QED BY <1>1, <1>2 DEF C!Next

\* ... and nothing else is seen.
LEMMA CopyStep ==
  ASSUME CopyInv, TransferInv', [TransferNext]_transferVars
  PROVE  C!Next \/ UNCHANGED C!copyingVars
<1>1. JobTypes /\ JobTypes'
  BY DEF CopyInv, TransferInv
<1>2. CASE UNCHANGED <<file, excused, agreed>>
  BY <1>2 DEF Seen, C!copyingVars
<1>3. CASE SendDigest \/ SendBlock \/ ReadFails \/ ReadDone \/ Interrupt \/ Resume
           \/ UserCancels \/ UNCHANGED transferVars
  BY <1>2, <1>3 DEF SendDigest, SendBlock, ReadFails, ReadDone, Interrupt, Resume,
     UserCancels, Removed, transferVars, diskVars, failureVars, historyVars
<1>4. CASE WriterGetsBlock \/ WriterEnds
  <2> DEFINE u == writer.num
  <2>1. agreed' = agreed
    BY <1>4 DEF WriterGetsBlock, WriterEnds
  <2>2. ASSUME NEW renamed, file' = Finalised(u, renamed).file
        PROVE  \A g \in Files : file'[g] = file[g] \/ (g = u /\ part[u] # NoFile /\ file'[u] = part[u])
    BY <1>1, <2>2 DEF Finalised, JobTypes
  <2>3. ASSUME NEW some, Fails(some) PROVE excused \subseteq excused'
    BY <2>3 DEF Fails, failureVars
  <2>4. ASSUME NEW f, NEW n, Write(f, n)
        PROVE  /\ excused \subseteq excused'
               /\ \A g \in Files \ excused' :
                    file'[g] = file[g] \/ (g = u /\ part[u] # NoFile /\ file'[u] = part[u])
    <3>1. CASE MovesOn(f)
      BY <2>2, <2>3, <2>4, <3>1 DEF Write, Creates, DoesNotCreate
    <3>2. CASE ~MovesOn(f)
      <4>1. Continues(f, n)
        BY <2>4, <3>2 DEF Write
      <4>2. CASE Mixes(writer.into)
        BY <1>1, <4>2 DEF Mixes, JobTypes
      <4>3. CASE ~Mixes(writer.into)
        BY <2>3, <4>1, <4>3 DEF Continues, failureVars
      <4> QED BY <4>2, <4>3
    <3> QED BY <3>1, <3>2
  <2>5. ASSUME WriterGetsBlock, ~writer.there PROVE UNCHANGED <<file, excused>>
    BY <2>5 DEF WriterGetsBlock, diskVars, failureVars
  <2>6. ASSUME WriterEnds
        PROVE  \/ UNCHANGED <<file, excused>>
               \/ \E renamed : file' = Finalised(u, renamed).file /\ excused \subseteq excused'
    <3>1. CASE writer.there /\ Head(toWriter).kind = "done"
      <4>1. PICK renamed : file' = Finalised(u, renamed).file /\ Fails(NotRenamed(u, renamed))
        BY <2>6, <3>1 DEF WriterEnds
      <4> QED BY <2>3, <4>1
    <3>2. CASE ~(writer.there /\ Head(toWriter).kind = "done")
      BY <2>6, <3>2 DEF WriterEnds, Removed, diskVars, failureVars
    <3> QED BY <3>1, <3>2
  <2>7. /\ excused \subseteq excused'
        /\ \A g \in Files \ excused' :
             file'[g] = file[g] \/ (g = u /\ part[u] # NoFile /\ file'[u] = part[u])
    <3>1. CASE WriterGetsBlock
      <4>1. writer.there => Write(Head(toWriter).f, Head(toWriter).n)
        BY <3>1 DEF WriterGetsBlock
      <4> QED BY <2>4, <2>5, <3>1, <4>1
    <3>2. CASE WriterEnds
      BY <2>2, <2>6, <3>2
    <3> QED BY <1>4, <3>1, <3>2
  <2> QED BY <1>1, <2>1, <2>7, RenamedIsCopied
<1>5. CASE WriterGetsDigest \/ WriterGetsConfirm
  <2>1. file' = file /\ excused \subseteq excused'
    BY <1>5 DEF WriterGetsDigest, WriterGetsConfirm, DigestAtClient, DigestAtManager, WriterIsTold,
       Fails, diskVars, failureVars
  <2>2. CASE WriterGetsConfirm
    BY <2>1, <2>2, RenamedIsCopied DEF WriterGetsConfirm
  <2>3. CASE WriterGetsDigest
    <3>1. Head(toWriter) \in Messages /\ Head(toWriter).kind = "digest"
      BY <1>1, <2>3, HeadTailProperties DEF JobTypes, WriterGetsDigest
    <3>2. PICK f \in Files : f = Head(toWriter).f
      BY <3>1, MessageFields
    <3>3. UNCHANGED agreed \/ \E how : Decide(f, how)
      BY <2>3, <3>2 DEF WriterGetsDigest, DigestAtClient, DigestAtManager, NothingDecided
    <3> QED BY <1>1, <2>1, <3>3, DecidedIsAllowed, RenamedIsCopied
  <2> QED BY <1>5, <2>2, <2>3
<1>6. CASE ReaderGets
  <2> DEFINE m == Head(toReader)
  <2>1. toReader # <<>> /\ UNCHANGED <<file, excused>>
    BY <1>6 DEF ReaderGets, diskVars, failureVars
  <2>2. m \in Messages /\ m.kind \in {"confirm", "cancel", "digest"}
    <3>1. Token(toReader) = m /\ m \in Messages
      BY <1>1, <2>1, TokenSteps DEF JobTypes
    <3>2. Token(toReader).kind \in Verdicts \cup Cancels
      BY DEF CopyInv, TransferInv, OneTalk
    <3> QED BY <3>1, <3>2 DEF Verdicts, Cancels
  <2>3. UNCHANGED agreed \/ (m.kind = "digest" /\ \E how : Decide(m.f, how))
    <3>1. CASE m.kind \in {"confirm", "cancel"}
      BY <1>6, <3>1 DEF ReaderGets, NothingDecided
    <3>2. CASE m.kind = "digest"
      BY <1>6, <3>2 DEF ReaderGets, NothingDecided
    <3> QED BY <2>2, <3>1, <3>2
  <2> HIDE DEF m
  <2>4. m.kind = "digest" => m.f \in Files
    BY <2>2, MessageFields
  <2> QED BY <1>1, <1>2, <2>1, <2>3, <2>4, DecidedIsAllowed
<1>7. ASSUME NEW overwrite \in BOOLEAN, NEW remember \in BOOLEAN, UserAnswers(overwrite, remember)
      PROVE  C!Next \/ UNCHANGED C!copyingVars
  <2>1. question \in 0 .. N /\ question # 0
    BY <1>1, <1>7 DEF UserAnswers, JobTypes
  <2>2. question \in Files
    BY <2>1, Numbers
  <2>3. UNCHANGED <<file, excused>> /\ \E how : Decide(question, how)
    BY <1>7 DEF UserAnswers, diskVars, failureVars
  <2> QED BY <1>1, <2>2, <2>3, DecidedIsAllowed
<1> QED
  BY <1>3, <1>4, <1>5, <1>6, <1>7 DEF TransferNext, ReaderStep, WriterStep, Answer

-----------------------------------------------------------------------------
(* FileTransfer: the theorems.                                             *)

\* The jobs of both sides, the files, and the messages under way keep their types;
\* only an open file is confirmed (TransferJob, set_file_confirm).
THEOREM TransferTypes == TransferSpec => []TransferTypeOK
<1>1. ASSUME TransferInv PROVE TransferTypeOK
  <2>1. JobTypes /\ (reader.confirmed => reader.open)
    BY <1>1 DEF TransferInv, Shape
  <2>2. \A i : (i \in DOMAIN toWriter => toWriter[i] \in Messages)
               /\ (i \in DOMAIN toReader => toReader[i] \in Messages)
    BY <2>1, LenProperties, ElementOfSeq DEF JobTypes
  <2>3. \A f \in Files : file[f] \in Contents /\ part[f] \in Contents
    BY <2>1 DEF JobTypes
  <2> QED BY <2>1, <2>2, <2>3 DEF JobTypes, TransferTypeOK
<1> QED BY <1>1, TransferStays, PTL

\* Every block on its way is of a file whose overwriting was agreed to, or needed
\* no agreement (set_file_confirm, is_write_need_confirmation, default_overwrite).
THEOREM SentAlwaysAgreed == TransferSpec => []SentWhenAgreed
<1>1. ASSUME TransferInv PROVE SentWhenAgreed
  <2>1. \A i \in DOMAIN toWriter : toWriter[i] \in Range(toWriter)
    BY DEF Range
  <2> QED BY <1>1, <2>1 DEF TransferInv, Agreeing, SentWhenAgreed
<1> QED BY <1>1, TransferStays, PTL

\* A file that no earlier transfer left an x.download of, and for which no operation
\* of the disk failed, is what it was before the transfer or all of the source: never
\* the blocks of two attempts, or some of them only, whatever failed for other files
\* (write, modify_time, remove_download_file, set_stream_offset).
THEOREM NeverBroken == TransferSpec => []NoBrokenFile
<1>1. ASSUME TransferInv PROVE NoBrokenFile
  BY <1>1 DEF TransferInv, Disk, Good, NoBrokenFile, Whole, Untouched
<1> QED BY <1>1, TransferStays, PTL

\* When the done of a job that was not cut off reaches the writer, every file that no
\* earlier transfer left an x.download of, and for which no operation of the disk
\* failed, has arrived or was refused (the `done' arms of io_loop and
\* ui_cm_interface, which rename the last file whatever became of its blocks).
THEOREM DoneAlwaysComplete == TransferSpec => []DoneIsComplete
<1>1. ASSUME TransferInv PROVE DoneIsComplete
  BY <1>1 DEF TransferInv, Ended, Counts, DoneIsComplete
<1> QED BY <1>1, TransferStays, PTL

\* However a job asks, skips, is cancelled or cut off and resumed, and for whichever
\* other files its disk fails, all it does to the files that no earlier transfer left
\* an x.download of and that the disk does not fail is to replace them, each in one
\* step and by all of the source, while it is decided that they may be: it implements
\* Copying (write and modify_time, which renames only what was begun after an answer
\* of set_file_confirm or is_write_need_confirmation).
THEOREM TransferImplementsCopying == TransferSpec => ImplementsCopying
<1>1. TransferInit => C!Init
  BY DEF TransferInit, C!Init, Seen
<1>2. CopyInv /\ CopyInv' /\ [TransferNext]_transferVars => [C!Next]_(C!copyingVars)
  BY CopyStep DEF CopyInv
<1> QED BY <1>1, <1>2, CopyStays, PTL DEF TransferSpec, ImplementsCopying, C!Spec

-----------------------------------------------------------------------------
(* The parts together.                                                     *)

\* The parts of MCNetwork run by themselves: each of its behaviours is one of every
\* part, and a part that keeps still stutters.
LEMMA PartsRunAlone ==
  NetworkSpec =>
    FramingSpec /\ SecureSpec /\ PortForwardSpec /\ RendezvousSpec /\ TransferSpec
<1>1. NetworkInit =>
        FramingInit /\ SecureInit /\ PortForwardInit /\ RendezvousInit /\ TransferInit
  BY DEF NetworkInit
<1>2. [NetworkNext]_networkVars => [FramingNext]_framingVars
  BY DEF NetworkNext, networkVars
<1>3. [NetworkNext]_networkVars => [SecureNext]_secureVars
  BY DEF NetworkNext, networkVars
<1>4. [NetworkNext]_networkVars => [PortForwardNext]_forwardVars
  BY DEF NetworkNext, networkVars
<1>5. [NetworkNext]_networkVars => [RendezvousNext]_rendezvousVars
  BY DEF NetworkNext, networkVars
<1>6. [NetworkNext]_networkVars => [TransferNext]_transferVars
  BY DEF NetworkNext, networkVars
<1> QED
  BY <1>1, <1>2, <1>3, <1>4, <1>5, <1>6, PTL
     DEF NetworkSpec, FramingSpec, SecureSpec, PortForwardSpec, RendezvousSpec, TransferSpec

\* What the run `network' checks of the types of all five parts (bytes_codec, tcp,
\* port_forward, rendezvous_mediator, fs).
THEOREM NetworkTypes == NetworkSpec => []NetworkTypeOK
<1>1. /\ FramingTypeOK /\ SecureTypeOK /\ PortForwardTypeOK /\ RendezvousTypeOK /\ TransferTypeOK
      => NetworkTypeOK
  BY DEF NetworkTypeOK
<1> QED BY <1>1, PartsRunAlone, FramingTypes, SecureTypes, PortForwardTypes, RendezvousTypes,
           TransferTypes, PTL

\* Whatever part runs, every promise of the five that is an invariant holds: frames
\* come out as they went in, no sealed message is missing, forwarded data is
\* complete and in order, who is shown as reachable was last answered, and files are
\* sent as agreed, whole, and all of them that the disk takes; the frame codec stays a channel, and the transfer
\* a copying of files.
THEOREM NetworkPromises ==
  NetworkSpec => /\ []FramesPreserved /\ []SealedWithoutGap /\ []DataPassesThrough
                 /\ []OnlineIsAnswering
                 /\ []SentWhenAgreed /\ []NoBrokenFile /\ []DoneIsComplete
                 /\ ImplementsChannels /\ ImplementsCopying
BY PartsRunAlone, FramesAlwaysPreserved, StreamIsSealed, DataAlwaysPassesThrough,
   OnlineAlwaysAnswering, SentAlwaysAgreed, NeverBroken, DoneAlwaysComplete,
   FramingImplementsChannels, TransferImplementsCopying, PTL
=============================================================================
