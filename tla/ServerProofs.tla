---------------------------- MODULE ServerProofs ----------------------------
(***************************************************************************)
(* Proofs about Server, for any number of connections and services.        *)
(*                                                                         *)
(* First, the tables.  They are disjoint and the snapshots complete        *)
(* because of how the thread and the connections share the table, and the  *)
(* server only touches it through on_subscribe and on_unsubscribe.  So     *)
(* ServiceInv is stated over the variables of Service, each critical       *)
(* section of Service is shown to keep it, and the steps of Server are     *)
(* reduced to these.                                                       *)
(*                                                                         *)
(* Second, remove_connection leaves nothing of a connection behind.  The   *)
(* services of the operation are those that exist; only an operation       *)
(* creates one; a service that does not exist has no subscribers; and a    *)
(* call of on_unsubscribe that does not depend on is_subed takes the       *)
(* connection out of its service for good, as nothing else is done on its  *)
(* behalf until the lock is free, and nothing is accepted from then on.    *)
(*                                                                         *)
(* Third, between two operations, who is asked to be subscribed and who is *)
(* subscribed agree, but for the cancellations is_subed has missed; and    *)
(* tables, threads and locks implement the plain Registry.                 *)
(*                                                                         *)
(* Fourth, under the fairness of the threads, joins return and subscribers *)
(* catch up.                                                               *)
(***************************************************************************)
EXTENDS Server, TLAPS

\* A service without snapshots never has anybody waiting for one.
NobodyWaitsForNothing ==
  \A s \in Services \ NeedSnapshot : new_subscribes[s] = {}

\* Between sps.send and the swap, those who wait have been sent the snapshot,
\* but for the late ones; when the callback has bailed out, the next broadcast
\* is bound to go to everybody.
SnapshotReady ==
  \A s \in Services :
    /\ pc[s] = "drop" => \A c \in new_subscribes[s] \ late[s] :
                            cached[s] # NoVersion => known[s][c] = cached[s]
    /\ pc[s] = "dropErr" => cached[s] = NoVersion

ServiceInv ==
  /\ ServiceTypeOK
  /\ NobodyWaitsForNothing
  /\ TablesDisjoint
  /\ SnapshotReady
  /\ SnapshotComplete

Inv == TypeOK /\ ServiceInv

-----------------------------------------------------------------------------
(* Every critical section of a service keeps ServiceInv.                   *)

LEMMA OnSubscribeInv ==
  ASSUME ServiceInv, NEW s \in Services, NEW c \in Conns, OnSubscribe(s, c)
  PROVE  ServiceInv'
<1> USE ServiceAssumption DEF OnSubscribe, AlreadySubscribed
<1>1. ServiceTypeOK'
  <2> USE DEF ServiceInv, ServiceTypeOK
  <2>1. /\ subscribes[s] \cup {c} \in SUBSET Conns
        /\ new_subscribes[s] \cup {c} \in SUBSET Conns
        /\ late[s] \cup {c} \in SUBSET Conns
    OBVIOUS
  <2>2. /\ subscribes' \in [Services -> SUBSET Conns]
        /\ new_subscribes' \in [Services -> SUBSET Conns]
    <3>1. CASE c \in subscribes[s]
      BY <3>1
    <3>2. CASE c \notin subscribes[s] /\ s \in NeedSnapshot
      BY <2>1, <3>2
    <3>3. CASE c \notin subscribes[s] /\ s \notin NeedSnapshot
      BY <2>1, <3>3
    <3> QED BY <3>1, <3>2, <3>3
  <2>3. late' \in [Services -> SUBSET Conns]
    <3>1. late' = late \/ late' = [late EXCEPT ![s] = @ \cup {c}]
      BY Zenon
    <3> HIDE DEF OnSubscribe
    <3> QED BY <2>1, <3>1
  <2>4. UNCHANGED <<present, active, pc, source, cached, known, fails>>
    OBVIOUS
  <2> HIDE DEF OnSubscribe
  <2> QED BY <2>2, <2>3, <2>4
<1>2. NobodyWaitsForNothing'
  BY DEF ServiceInv, ServiceTypeOK, NobodyWaitsForNothing
<1>3. TablesDisjoint'
  <2> SUFFICES ASSUME NEW t \in Services
               PROVE  subscribes'[t] \cap new_subscribes'[t] = {}
    BY DEF TablesDisjoint
  <2> USE DEF ServiceInv, ServiceTypeOK, NobodyWaitsForNothing, TablesDisjoint
  <2>1. CASE c \in subscribes[s] \/ t # s
    BY <2>1
  <2>2. CASE c \notin subscribes[s] /\ t = s /\ s \in NeedSnapshot
    BY <2>2
  <2>3. CASE c \notin subscribes[s] /\ t = s /\ s \notin NeedSnapshot
    BY <2>3
  <2> QED BY <2>1, <2>2, <2>3
<1>4. SnapshotReady'
  BY DEF ServiceInv, ServiceTypeOK, SnapshotReady
<1>5. SnapshotComplete'
  BY DEF ServiceInv, ServiceTypeOK, SnapshotComplete
<1> QED BY <1>1, <1>2, <1>3, <1>4, <1>5 DEF ServiceInv

LEMMA OnUnsubscribeInv ==
  ASSUME ServiceInv, NEW s \in Services, NEW c \in Conns, OnUnsubscribe(s, c)
  PROVE  ServiceInv'
<1> USE ServiceAssumption DEF OnUnsubscribe, StillWaiting
<1>1. ServiceTypeOK'
  BY DEF ServiceInv, ServiceTypeOK, Versions, NoVersion
<1>2. NobodyWaitsForNothing'
  BY DEF ServiceInv, ServiceTypeOK, NobodyWaitsForNothing
<1>3. TablesDisjoint'
  BY DEF ServiceInv, ServiceTypeOK, TablesDisjoint
<1>4. SnapshotReady'
  BY DEF ServiceInv, ServiceTypeOK, SnapshotReady, TablesDisjoint
<1>5. SnapshotComplete'
  BY DEF ServiceInv, ServiceTypeOK, SnapshotComplete
<1> QED BY <1>1, <1>2, <1>3, <1>4, <1>5 DEF ServiceInv

\* One step per action of the thread; each says which parts it can disturb.
LEMMA ThreadInv ==
  ASSUME ServiceInv, NEW s \in Services, Thread(s)
  PROVE  ServiceInv'
<1> USE ServiceAssumption DEF At, Goto, Locations, IsActive
<1>1. CASE Iterate(s)
  BY <1>1 DEF Iterate, ServiceInv, ServiceTypeOK, NobodyWaitsForNothing,
     TablesDisjoint, SnapshotReady, SnapshotComplete
<1>2. CASE Reset(s)
  BY <1>2 DEF Reset, ServiceInv, ServiceTypeOK, NobodyWaitsForNothing,
     TablesDisjoint, SnapshotReady, SnapshotComplete, Versions, NoVersion
<1>3. CASE Exit(s)
  BY <1>3 DEF Exit, ServiceInv, ServiceTypeOK, NobodyWaitsForNothing,
     TablesDisjoint, SnapshotReady, SnapshotComplete
<1>4. CASE Broadcast(s)
  <2> USE <1>4 DEF Broadcast, AfterBroadcast, Watched, Audience
  <2>1. ServiceTypeOK'
    <3>1. source[s] \in Versions
      BY DEF ServiceInv, ServiceTypeOK, Versions, NoVersion
    <3>2. [c \in Conns |-> IF c \in subscribes[s] THEN source[s] ELSE known[s][c]]
            \in [Conns -> Versions]
      BY <3>1 DEF ServiceInv, ServiceTypeOK
    <3>3. CASE source[s] # cached[s]
      <4>1. late[s] \ subscribes[s] \in SUBSET Conns
        BY DEF ServiceInv, ServiceTypeOK
      <4>2. cached' \in [Services -> Versions]
        BY <3>1, <3>3 DEF ServiceInv, ServiceTypeOK
      <4>3. known' \in [Services -> [Conns -> Versions]]
        BY <3>2, <3>3 DEF ServiceInv, ServiceTypeOK
      <4>4. late' \in [Services -> SUBSET Conns]
        BY <3>3, <4>1 DEF ServiceInv, ServiceTypeOK
      <4>5. pc' \in [Services -> Locations]
        BY DEF ServiceInv, ServiceTypeOK
      <4> QED BY <4>2, <4>3, <4>4, <4>5 DEF ServiceInv, ServiceTypeOK
    <3>4. CASE source[s] = cached[s]
      BY <3>4 DEF ServiceInv, ServiceTypeOK
    <3> QED BY <3>3, <3>4
  <2>2. NobodyWaitsForNothing' /\ TablesDisjoint'
    BY DEF ServiceInv, NobodyWaitsForNothing, TablesDisjoint
  <2>3. SnapshotReady'
    BY DEF ServiceInv, ServiceTypeOK, SnapshotReady
  <2>4. SnapshotComplete'
    <3> USE DEF ServiceInv, ServiceTypeOK
    <3> SUFFICES ASSUME NEW t \in NeedSnapshot, NEW c \in subscribes'[t] \ late'[t],
                        cached'[t] # NoVersion
                 PROVE  known'[t][c] = cached'[t]
      BY DEF SnapshotComplete
    <3>0. t \in Services /\ c \in Conns /\ subscribes' = subscribes
      OBVIOUS
    <3>1. CASE t # s
      <4>1. cached'[t] = cached[t] /\ late'[t] = late[t] /\ known'[t] = known[t]
        BY <3>0, <3>1
      <4> QED BY <3>0, <4>1 DEF SnapshotComplete
    <3>2. CASE t = s /\ source[s] # cached[s]
      <4>1. cached'[s] = source[s]
        BY <3>2
      <4>2. known'[s][c] = source[s]
        BY <3>0, <3>2
      <4> QED BY <3>2, <4>1, <4>2
    <3>3. CASE t = s /\ source[s] = cached[s]
      <4>1. cached' = cached /\ late' = late /\ known' = known
        BY <3>3
      <4> QED BY <3>0, <4>1 DEF SnapshotComplete
    <3> QED BY <3>1, <3>2, <3>3
  <2> QED BY <2>1, <2>2, <2>3, <2>4 DEF ServiceInv
<1>5. CASE CallbackFails(s)
  BY <1>5 DEF CallbackFails, ServiceInv, ServiceTypeOK, NobodyWaitsForNothing,
     TablesDisjoint, SnapshotReady, SnapshotComplete, Versions, NoVersion
<1>6. CASE CheckSnapshot(s)
  BY <1>6 DEF CheckSnapshot, SomebodyWaits, AfterSnapshot, ServiceInv, ServiceTypeOK,
     NobodyWaitsForNothing, TablesDisjoint, SnapshotReady, SnapshotComplete
<1>7. CASE SendSnapshot(s)
  <2> USE <1>7 DEF SendSnapshot, NewAudience
  <2>1. ServiceTypeOK'
    BY DEF ServiceInv, ServiceTypeOK
  <2>2. NobodyWaitsForNothing' /\ TablesDisjoint'
    BY DEF ServiceInv, NobodyWaitsForNothing, TablesDisjoint
  <2>3. SnapshotReady'
    BY DEF ServiceInv, ServiceTypeOK, SnapshotReady
  <2>4. SnapshotComplete'
    BY DEF ServiceInv, ServiceTypeOK, SnapshotComplete
  <2> QED BY <2>1, <2>2, <2>3, <2>4 DEF ServiceInv
<1>8. CASE RestartSnapshot(s)
  <2> USE <1>8 DEF RestartSnapshot, AfterSwitch
  <2>1. ServiceTypeOK'
    <3> USE DEF ServiceInv, ServiceTypeOK, Versions, NoVersion
    <3>1. CASE subscribes[s] # {}
      <4>1. 0 \in 0 .. MaxVersion
        OBVIOUS
      <4>2. cached' \in [Services -> Versions]
        BY <3>1, <4>1
      <4>3. pc' \in [Services -> Locations] /\ late' = late
        BY <3>1
      <4> QED BY <4>2, <4>3
    <3>2. CASE subscribes[s] = {}
      <4>1. late[s] \cup new_subscribes[s] \in SUBSET Conns
        OBVIOUS
      <4>2. late' \in [Services -> SUBSET Conns]
        BY <3>2, <4>1
      <4>3. pc' \in [Services -> Locations] /\ cached' = cached
        BY <3>2
      <4> QED BY <4>2, <4>3
    <3> QED BY <3>1, <3>2
  <2>2. NobodyWaitsForNothing' /\ TablesDisjoint'
    BY DEF ServiceInv, NobodyWaitsForNothing, TablesDisjoint
  <2>3. SnapshotReady'
    <3> USE DEF ServiceInv, ServiceTypeOK
    <3> SUFFICES ASSUME NEW t \in Services
                 PROVE  /\ pc'[t] = "drop" => \A c \in new_subscribes'[t] \ late'[t] :
                              cached'[t] # NoVersion => known'[t][c] = cached'[t]
                        /\ pc'[t] = "dropErr" => cached'[t] = NoVersion
      BY DEF SnapshotReady
    <3>1. CASE t # s
      <4>1. pc'[t] = pc[t] /\ cached'[t] = cached[t] /\ late'[t] = late[t]
        BY <3>1
      <4> QED BY <4>1 DEF SnapshotReady
    <3>2. CASE t = s /\ subscribes[s] # {}
      <4>1. pc'[t] = "dropErr" /\ cached'[t] = NoVersion
        BY <3>2
      <4> QED BY <4>1
    <3>3. CASE t = s /\ subscribes[s] = {}
      <4>1. pc'[t] = "drop" /\ new_subscribes'[t] \ late'[t] = {}
        BY <3>3
      <4> QED BY <4>1
    <3> QED BY <3>1, <3>2, <3>3
  <2>4. SnapshotComplete'
    BY DEF ServiceInv, ServiceTypeOK, SnapshotComplete
  <2> QED BY <2>1, <2>2, <2>3, <2>4 DEF ServiceInv
<1>9. CASE Swap(s)
  <2> USE <1>9 DEF Swap, Swapped, AfterSnapshot
  <2>1. ServiceTypeOK'
    BY DEF ServiceInv, ServiceTypeOK
  <2>2. NobodyWaitsForNothing' /\ TablesDisjoint'
    BY DEF ServiceInv, ServiceTypeOK, NobodyWaitsForNothing, TablesDisjoint
  <2>3. SnapshotReady'
    <3> SUFFICES ASSUME NEW t \in Services
                 PROVE  /\ pc'[t] = "drop" => \A c \in new_subscribes'[t] \ late'[t] :
                             cached'[t] # NoVersion => known'[t][c] = cached'[t]
                        /\ pc'[t] = "dropErr" => cached'[t] = NoVersion
      BY DEF SnapshotReady
    <3>1. CASE t = s
      BY <3>1 DEF ServiceInv, ServiceTypeOK
    <3>2. CASE t # s
      BY <3>2 DEF ServiceInv, ServiceTypeOK, SnapshotReady
    <3> QED BY <3>1, <3>2
  <2>4. SnapshotComplete'
    BY DEF ServiceInv, ServiceTypeOK, SnapshotReady, SnapshotComplete
  <2> QED BY <2>1, <2>2, <2>3, <2>4 DEF ServiceInv
<1>10. CASE Recover(s)
  BY <1>10 DEF Recover, ServiceInv, ServiceTypeOK, NobodyWaitsForNothing,
     TablesDisjoint, SnapshotReady, SnapshotComplete
<1> QED
  BY <1>1, <1>2, <1>3, <1>4, <1>5, <1>6, <1>7, <1>8, <1>9, <1>10 DEF Thread

LEMMA SourceChangesInv ==
  ASSUME ServiceInv, NEW s \in Services, SourceChanges(s)
  PROVE  ServiceInv'
BY ServiceAssumption DEF SourceChanges, ServiceInv, ServiceTypeOK,
   NobodyWaitsForNothing, TablesDisjoint, SnapshotReady, SnapshotComplete

\* Creating services and joining them leaves the tables alone.
LEMMA CreateInv ==
  ASSUME ServiceInv, NEW created \in SUBSET Services,
         present' = present \cup created,
         UNCHANGED <<subscribes, new_subscribes, active, pc, source, cached,
                     known, late, fails>>
  PROVE  ServiceInv'
BY DEF ServiceInv, ServiceTypeOK, NobodyWaitsForNothing, TablesDisjoint,
   SnapshotReady, SnapshotComplete

LEMMA UnchangedInv == ServiceInv /\ UNCHANGED serviceVars => ServiceInv'
BY DEF serviceVars, ServiceInv, ServiceTypeOK, NobodyWaitsForNothing,
   TablesDisjoint, SnapshotReady, SnapshotComplete

-----------------------------------------------------------------------------
(* The steps of Server.                                                    *)

LEMMA CallType ==
  ASSUME NEW s \in Services, NEW b \in BOOLEAN, NEW checked \in BOOLEAN
  PROVE  Call(s, b, checked) \in Calls
BY DEF Call, Calls

\* Taking the lock for an operation.
LEMMA BeginInv ==
  ASSUME Inv, NEW c \in Conns, NEW operation \in Kinds,
         NEW created \in SUBSET Services, NEW calls \in SUBSET Calls,
         Begin(c, operation, created, calls)
  PROVE  Inv'
<1>1. ServiceInv'
  BY CreateInv DEF Inv, Begin
<1>2. Asked(c, calls) \subseteq Services \X Conns
  BY DEF Asked, Calls
<1>3. /\ wanted' \subseteq Services \X Conns
      /\ missed' \subseteq Services \X Conns
  BY <1>2 DEF Inv, TypeOK, Begin
<1> QED
  BY <1>1, <1>3 DEF Inv, ServiceInv, TypeOK, Begin

LEMMA RequestInv ==
  ASSUME Inv, NEW c \in Conns, Request(c)
  PROVE  Inv'
<1> USE ServiceAssumption, ServerAssumption
<1>0. present \subseteq Services /\ Video \subseteq Services
  BY DEF Inv, TypeOK, ServiceTypeOK
<1>1. CASE AddConnection(c)
  <2>1. PICK noperms \in SUBSET (Services \ Video) :
          LET created == Video \cap {Primary} IN
          Begin(c, "add", created,
                {Call(s, TRUE, FALSE) :
                   s \in (present \cup created) \ (noperms \cup (Video \ {Primary}))})
    BY <1>1 DEF AddConnection
  <2>2. {Call(s, TRUE, FALSE) :
           s \in (present \cup (Video \cap {Primary})) \ (noperms \cup (Video \ {Primary}))}
          \in SUBSET Calls
    BY <1>0, CallType
  <2>3. "add" \in Kinds /\ Video \cap {Primary} \in SUBSET Services
    BY <1>0 DEF Kinds
  <2> QED BY <2>1, <2>2, <2>3, BeginInv
<1>2. CASE RemoveConnection(c)
  <2>1. RemoveCalls \in SUBSET Calls
    BY <1>0, CallType DEF RemoveCalls
  <2> QED BY <1>2, <2>1, BeginInv DEF RemoveConnection, Kinds
<1>3. CASE Subscribe(c)
  <2>1. PICK s \in present, b \in BOOLEAN :
          Begin(c, "subscribe", {}, {Call(s, b, TRUE)})
    BY <1>3 DEF Subscribe
  <2>2. {Call(s, b, TRUE)} \in SUBSET Calls
    BY <1>0, CallType
  <2> QED BY <2>1, <2>2, BeginInv DEF Kinds
<1>4. CASE CaptureDisplays(c)
  <2>1. PICK displays \in SUBSET Video, include \in BOOLEAN, exclude \in BOOLEAN :
          LET created == IF include THEN displays ELSE {}
              names == Video \cap (present \cup created)
          IN  Begin(c, "capture", created,
                    {Call(s, TRUE, TRUE) : s \in IF include THEN names \cap displays ELSE {}}
                    \cup {Call(s, FALSE, TRUE) : s \in IF exclude THEN names \ displays ELSE {}})
    BY <1>4 DEF CaptureDisplays
  <2> DEFINE created == IF include THEN displays ELSE {}
             names == Video \cap (present \cup created)
             calls == {Call(s, TRUE, TRUE) : s \in IF include THEN names \cap displays ELSE {}}
                      \cup {Call(s, FALSE, TRUE) : s \in IF exclude THEN names \ displays ELSE {}}
  <2>2. Begin(c, "capture", created, calls)
    BY <2>1
  <2>3. created \in SUBSET Services
    BY <1>0
  <2>4. calls \in SUBSET Calls
    <3>1. \A s \in Services : Call(s, TRUE, TRUE) \in Calls /\ Call(s, FALSE, TRUE) \in Calls
      BY CallType
    <3> QED BY <1>0, <3>1
  <2> HIDE DEF created, calls
  <2> QED BY <2>2, <2>3, <2>4, BeginInv DEF Kinds
<1> QED BY <1>1, <1>2, <1>3, <1>4 DEF Request

LEMMA ApplyInv ==
  ASSUME Inv, Busy, NEW k \in Calls, Apply(k)
  PROVE  ServiceInv'
BY OnSubscribeInv, OnUnsubscribeInv, ServerAssumption
   DEF Apply, Inv, TypeOK, Busy, Calls

LEMMA OperationInv ==
  ASSUME Inv, Operation
  PROVE  Inv'
<1> USE DEF Inv, TypeOK
<1>0. Calls = [svc : Services, sub : BOOLEAN, checked : BOOLEAN]
  BY DEF Calls
<1>1. CASE CallDirectly
  <2>1. ServiceInv'
    BY <1>1, ApplyInv DEF CallDirectly
  <2> QED BY <1>1, <2>1 DEF CallDirectly, ServiceInv
<1>2. CASE ReadSubscribes
  <2>1. ServiceInv'
    BY <1>2, UnchangedInv DEF ReadSubscribes
  <2>2. todo' \subseteq Calls /\ reread' \subseteq Calls /\ decided' \subseteq Calls
    BY <1>2 DEF ReadSubscribes
  <2> QED BY <1>2, <2>1, <2>2 DEF ReadSubscribes, ServiceInv
<1>3. CASE ReadNewSubscribes
  <2>1. ServiceInv'
    BY <1>3, UnchangedInv DEF ReadNewSubscribes
  <2>2. PICK k \in reread :
          LET subed == lock \in new_subscribes[k.svc] IN
          /\ decided' = IF subed = k.sub THEN {} ELSE {k}
          /\ missed' = IF ~subed /\ ~k.sub /\ lock \in subscribes[k.svc]
                         THEN missed \cup {<<k.svc, lock>>} ELSE missed
    BY <1>3 DEF ReadNewSubscribes
  <2>3. k.svc \in Services /\ lock \in Conns
    BY <1>3, <1>0 DEF ReadNewSubscribes, Busy
  <2>4. decided' \subseteq Calls /\ missed' \subseteq Services \X Conns
    BY <2>2, <2>3
  <2> QED BY <1>3, <2>1, <2>4 DEF ReadNewSubscribes, ServiceInv
<1>4. CASE CallDecided
  <2>1. ServiceInv'
    BY <1>4, ApplyInv DEF CallDecided
  <2> QED BY <1>4, <2>1 DEF CallDecided, ServiceInv
<1>5. CASE Finish
  <2>1. ServiceInv'
    BY <1>5, UnchangedInv DEF Finish
  <2>2. lock \in Conns
    BY <1>5 DEF Finish, Busy
  <2>3. connections' \subseteq Conns /\ closed' \subseteq Conns
    BY <1>5, <2>2 DEF Finish
  <2> QED BY <1>5, <2>1, <2>3 DEF Finish, ServiceInv, Kinds
<1> QED BY <1>1, <1>2, <1>3, <1>4, <1>5 DEF Operation

\* The inductive step: one case per disjunct of Next.
LEMMA NextInv == Inv /\ [Next]_vars => Inv'
<1> SUFFICES ASSUME Inv, [Next]_vars PROVE Inv'
  OBVIOUS
<1>1. ASSUME UNCHANGED serverVars, ServiceInv' PROVE Inv'
  BY <1>1 DEF serverVars, Inv, ServiceInv, TypeOK
<1>2. ASSUME NEW c \in Conns, Request(c) PROVE Inv'
  BY <1>2, RequestInv
<1>3. CASE Operation
  BY <1>3, OperationInv
<1>4. ASSUME NEW s \in Services, ThreadStep(s) PROVE Inv'
  BY <1>1, <1>4, ThreadInv DEF ThreadStep, Inv
<1>5. ASSUME NEW s \in Services, SourceChanges(s), UNCHANGED serverVars PROVE Inv'
  BY <1>1, <1>5, SourceChangesInv DEF Inv
<1>6. CASE StopServer
  BY <1>6, UnchangedInv DEF StopServer, Inv, ServiceInv, TypeOK
<1>7. ASSUME NEW s \in Services, Join(s) PROVE Inv'
  <2>1. ServiceInv'
    BY <1>7 DEF Join, Inv, ServiceInv, ServiceTypeOK, NobodyWaitsForNothing,
       TablesDisjoint, SnapshotReady, SnapshotComplete
  <2> QED BY <1>1, <1>7, <2>1 DEF Join
<1>8. CASE UNCHANGED vars
  BY <1>1, <1>8, UnchangedInv DEF vars, Inv
<1> QED
  BY <1>2, <1>3, <1>4, <1>5, <1>6, <1>7, <1>8 DEF Next, Stopped

LEMMA InitInv == Init => Inv
<1> SUFFICES ASSUME Init PROVE Inv
  OBVIOUS
<1> USE ServiceAssumption DEF Init, ServiceInit, NoVersion
<1>1. /\ 1 \in 1 .. MaxVersion
      /\ 0 \in Versions
      /\ 0 \in 0 .. MaxFails
  BY DEF Versions
<1>2. [c \in Conns |-> 0] \in [Conns -> Versions]
  BY <1>1
<1>3. ServiceTypeOK
  BY <1>1, <1>2 DEF ServiceTypeOK, Locations
<1>4. NobodyWaitsForNothing /\ TablesDisjoint /\ SnapshotReady
  BY DEF NobodyWaitsForNothing, TablesDisjoint, SnapshotReady
<1>5. SnapshotComplete
  BY DEF SnapshotComplete
<1>6. TypeOK
  BY <1>3 DEF TypeOK, Kinds
<1> QED BY <1>3, <1>4, <1>5, <1>6 DEF Inv, ServiceInv

-----------------------------------------------------------------------------
(* The theorems.                                                           *)

\* The invariant of the service tables holds throughout.
THEOREM Invariance == Spec => []Inv
<1> QED BY InitInv, NextInv, PTL DEF Spec

\* Type correctness of the server and of its services.
THEOREM TypeCorrect == Spec => []TypeOK
<1>1. Inv => TypeOK
  BY DEF Inv
<1> QED BY Invariance, <1>1, PTL

\* A subscriber is never in both tables of a service, which is what
\* on_unsubscribe relies on when it looks into the second one only if the first
\* one did not have it.
THEOREM TablesAlwaysDisjoint == Spec => []TablesDisjoint
<1>1. Inv => TablesDisjoint
  BY DEF Inv, ServiceInv
<1> QED BY Invariance, <1>1, PTL

\* Only those who subscribed between the sending of a snapshot and the swap, or
\* joined a stream nobody else was watching any more, can be in subscribes
\* without the version the service has broadcast last.
THEOREM SnapshotsComplete == Spec => []SnapshotComplete
<1>1. Inv => SnapshotComplete
  BY DEF Inv, ServiceInv
<1> QED BY Invariance, <1>1, PTL

-----------------------------------------------------------------------------
(* The operations.                                                         *)

\* Subscribers only gather where there is a service.
AbsentHaveNone == \A s \in Services \ present : Subscribers(s) = {}

\* Between two operations nothing is left to be called.
IdleHasNoCalls == lock = Nobody => todo = {} /\ reread = {} /\ decided = {}

\* A connection whose removal has ended does not operate any more.
HolderIsOpen == lock # Nobody => lock \notin closed

\* While a connection is removed, every service it still subscribes to has a
\* call to come, and the calls do not ask is_subed.
RemovalUnderway ==
  lock # Nobody /\ kind = "remove" =>
    /\ reread = {} /\ decided = {}
    /\ \A k \in todo : ~k.sub /\ ~k.checked
    /\ \A s \in Services : lock \in Subscribers(s) => Call(s, FALSE, FALSE) \in todo

\* Every call is on a service that exists.
CallsArePresent == \A k \in todo \cup reread \cup decided : k.svc \in present

RemovalInv ==
  /\ ClosedIsGone
  /\ AbsentHaveNone
  /\ IdleHasNoCalls
  /\ HolderIsOpen
  /\ RemovalUnderway
  /\ CallsArePresent

-----------------------------------------------------------------------------
(* What a call and a thread do to the subscribers of a service.            *)

\* A call only concerns the holder of the lock and one service; with the two
\* tables disjoint, on_unsubscribe takes the holder out of both.
LEMMA ApplyEffect ==
  ASSUME Inv, Busy, NEW k \in Calls, Apply(k)
  PROVE  /\ present' = present
         /\ \A s \in Services : s # k.svc => Subscribers(s)' = Subscribers(s)
         /\ \A s \in Services : Subscribers(s)' \ {lock} = Subscribers(s) \ {lock}
         /\ IF k.sub THEN lock \in Subscribers(k.svc)'
                     ELSE lock \notin Subscribers(k.svc)'
<1>1. k.svc \in Services /\ k.sub \in BOOLEAN /\ lock \in Conns
  BY DEF Calls, Busy, Inv, TypeOK
<1>2. /\ subscribes \in [Services -> SUBSET Conns]
      /\ new_subscribes \in [Services -> SUBSET Conns]
      /\ TablesDisjoint
  BY DEF Inv, TypeOK, ServiceTypeOK, ServiceInv
<1>3. CASE k.sub
  <2>1. OnSubscribe(k.svc, lock)
    BY <1>3 DEF Apply
  <2>2. present' = present
    BY <2>1 DEF OnSubscribe
  <2>3. CASE lock \in subscribes[k.svc]
    <3>1. UNCHANGED <<subscribes, new_subscribes>>
      BY <2>1, <2>3 DEF OnSubscribe, AlreadySubscribed
    <3> QED BY <1>3, <2>2, <2>3, <3>1 DEF Subscribers
  <2>4. CASE lock \notin subscribes[k.svc] /\ k.svc \in NeedSnapshot
    <3>1. /\ new_subscribes' = [new_subscribes EXCEPT ![k.svc] = @ \cup {lock}]
          /\ subscribes' = subscribes
      BY <2>1, <2>4 DEF OnSubscribe, AlreadySubscribed
    <3> QED BY <1>1, <1>2, <1>3, <2>2, <3>1 DEF Subscribers
  <2>5. CASE lock \notin subscribes[k.svc] /\ k.svc \notin NeedSnapshot
    <3>1. /\ subscribes' = [subscribes EXCEPT ![k.svc] = @ \cup {lock}]
          /\ new_subscribes' = new_subscribes
      BY <2>1, <2>5 DEF OnSubscribe, AlreadySubscribed
    <3> QED BY <1>1, <1>2, <1>3, <2>2, <3>1 DEF Subscribers
  <2> QED BY <2>3, <2>4, <2>5
<1>4. CASE ~k.sub
  <2>1. OnUnsubscribe(k.svc, lock)
    BY <1>4 DEF Apply
  <2>2. present' = present
    BY <2>1 DEF OnUnsubscribe
  <2>3. CASE lock \in subscribes[k.svc]
    <3>1. /\ subscribes' = [subscribes EXCEPT ![k.svc] = @ \ {lock}]
          /\ new_subscribes' = new_subscribes
      BY <2>1, <2>3 DEF OnUnsubscribe
    <3>2. lock \notin new_subscribes[k.svc]
      BY <1>1, <1>2, <2>3 DEF TablesDisjoint
    <3> QED BY <1>1, <1>2, <1>4, <2>2, <3>1, <3>2 DEF Subscribers
  <2>4. CASE lock \notin subscribes[k.svc]
    <3>1. /\ new_subscribes' = [new_subscribes EXCEPT ![k.svc] = @ \ {lock}]
          /\ subscribes' = subscribes
      BY <2>1, <2>4 DEF OnUnsubscribe, StillWaiting
    <3> QED BY <1>1, <1>2, <1>4, <2>2, <2>4, <3>1 DEF Subscribers
  <2> QED BY <2>3, <2>4
<1> QED BY <1>1, <1>3, <1>4

\* The swap moves subscribers from one table to the other; the other steps of
\* a thread leave the tables alone.
LEMMA ThreadEffect ==
  ASSUME Inv, NEW s \in Services, Thread(s)
  PROVE  present' = present /\ \A t \in Services : Subscribers(t)' = Subscribers(t)
<1>1. CASE Swap(s)
  <2>1. /\ subscribes \in [Services -> SUBSET Conns]
        /\ new_subscribes \in [Services -> SUBSET Conns]
    BY DEF Inv, TypeOK, ServiceTypeOK
  <2> QED BY <1>1, <2>1 DEF Swap, Swapped, Subscribers
<1>2. CASE ~Swap(s)
  <2>1. UNCHANGED <<present, subscribes, new_subscribes>>
    BY <1>2 DEF Thread, Iterate, Reset, Exit, Broadcast, CallbackFails,
       CheckSnapshot, SendSnapshot, RestartSnapshot, Recover
  <2> QED BY <2>1 DEF Subscribers
<1> QED BY <1>1, <1>2

\* RemovalInv only speaks of the subscribers, the services and the operation.
LEMMA SameSubscribers ==
  ASSUME RemovalInv, present' = present,
         UNCHANGED <<connections, closed, lock, kind, todo, reread, decided>>,
         \A t \in Services : Subscribers(t)' = Subscribers(t)
  PROVE  RemovalInv'
<1>1. ClosedIsGone' /\ AbsentHaveNone'
  BY DEF RemovalInv, ClosedIsGone, AbsentHaveNone
<1>2. IdleHasNoCalls' /\ HolderIsOpen' /\ CallsArePresent'
  BY DEF RemovalInv, IdleHasNoCalls, HolderIsOpen, CallsArePresent
<1>3. RemovalUnderway'
  BY DEF RemovalInv, RemovalUnderway, Call
<1> QED BY <1>1, <1>2, <1>3 DEF RemovalInv

-----------------------------------------------------------------------------
(* Taking the lock.                                                        *)

LEMMA BeginRemovalInv ==
  ASSUME Inv, RemovalInv, Free, NEW c \in Conns, Open(c),
         NEW operation, NEW created, NEW calls,
         Begin(c, operation, created, calls),
         \A k \in calls : k.svc \in present \cup created,
         operation = "remove" => calls = RemoveCalls
  PROVE  RemovalInv'
<1> USE DEF Begin
<1>0. \A s \in Services : Subscribers(s)' = Subscribers(s)
  BY DEF Subscribers
<1>1. ClosedIsGone'
  BY <1>0 DEF RemovalInv, ClosedIsGone
<1>2. AbsentHaveNone'
  BY <1>0 DEF RemovalInv, AbsentHaveNone
<1>3. lock = Nobody /\ reread = {} /\ decided = {}
  BY DEF RemovalInv, IdleHasNoCalls, Free
<1>4. IdleHasNoCalls' /\ HolderIsOpen'
  BY ServerAssumption DEF IdleHasNoCalls, HolderIsOpen, Open
<1>5. CallsArePresent'
  BY <1>3 DEF CallsArePresent
<1>6. RemovalUnderway'
  <2> SUFFICES ASSUME operation = "remove" PROVE RemovalUnderway'
    BY DEF RemovalUnderway
  <2>1. todo' = RemoveCalls
    OBVIOUS
  <2>2. \A k \in RemoveCalls : ~k.sub /\ ~k.checked
    BY DEF RemoveCalls, Call
  <2>3. \A s \in Services : c \in Subscribers(s) => s \in present
    BY DEF RemovalInv, AbsentHaveNone
  <2>4. \A s \in present : Call(s, FALSE, FALSE) \in RemoveCalls
    BY DEF RemoveCalls
  <2>5. \A s \in Services : c \in Subscribers(s)' => Call(s, FALSE, FALSE) \in todo'
    BY <1>0, <2>1, <2>3, <2>4
  <2>6. reread' = {} /\ decided' = {} /\ lock' = c
    BY <1>3
  <2> QED BY <2>1, <2>2, <2>5, <2>6 DEF RemovalUnderway, Call
<1> QED BY <1>1, <1>2, <1>4, <1>5, <1>6 DEF RemovalInv

LEMMA RequestRemovalInv ==
  ASSUME Inv, RemovalInv, NEW c \in Conns, Request(c)
  PROVE  RemovalInv'
<1>1. CASE AddConnection(c)
  <2>1. PICK noperms \in SUBSET (Services \ Video) :
          Begin(c, "add", Video \cap {Primary},
                {Call(s, TRUE, FALSE) :
                   s \in (present \cup (Video \cap {Primary}))
                           \ (noperms \cup (Video \ {Primary}))})
    BY <1>1 DEF AddConnection
  <2> DEFINE calls == {Call(s, TRUE, FALSE) :
                         s \in (present \cup (Video \cap {Primary}))
                                 \ (noperms \cup (Video \ {Primary}))}
  <2>2. \A k \in calls : k.svc \in present \cup (Video \cap {Primary})
    BY DEF Call
  <2>3. Begin(c, "add", Video \cap {Primary}, calls)
    BY <2>1
  <2> HIDE DEF calls
  <2> QED BY <1>1, <2>2, <2>3, BeginRemovalInv DEF AddConnection
<1>2. CASE RemoveConnection(c)
  <2>1. \A k \in RemoveCalls : k.svc \in present \cup {}
    BY DEF RemoveCalls, Call
  <2> QED BY <1>2, <2>1, BeginRemovalInv DEF RemoveConnection
<1>3. CASE Subscribe(c)
  <2>1. PICK s \in present, b \in BOOLEAN :
          Begin(c, "subscribe", {}, {Call(s, b, TRUE)})
    BY <1>3 DEF Subscribe
  <2> DEFINE calls == {Call(s, b, TRUE)}
  <2>2. \A k \in calls : k.svc \in present \cup {}
    BY DEF Call
  <2>3. Begin(c, "subscribe", {}, calls)
    BY <2>1
  <2>4. Free /\ Open(c)
    BY <1>3 DEF Subscribe
  <2> HIDE DEF calls
  <2> QED BY <2>2, <2>3, <2>4, BeginRemovalInv
<1>4. CASE CaptureDisplays(c)
  <2>1. PICK displays \in SUBSET Video, include \in BOOLEAN, exclude \in BOOLEAN :
          LET created == IF include THEN displays ELSE {}
              names == Video \cap (present \cup created)
          IN  Begin(c, "capture", created,
                    {Call(s, TRUE, TRUE) : s \in IF include THEN names \cap displays ELSE {}}
                    \cup {Call(s, FALSE, TRUE) : s \in IF exclude THEN names \ displays ELSE {}})
    BY <1>4 DEF CaptureDisplays
  <2> DEFINE created == IF include THEN displays ELSE {}
             names == Video \cap (present \cup created)
             asked == {Call(s, TRUE, TRUE) : s \in IF include THEN names \cap displays ELSE {}}
             cancelled == {Call(s, FALSE, TRUE) : s \in IF exclude THEN names \ displays ELSE {}}
  <2>2. Begin(c, "capture", created, asked \cup cancelled)
    BY <2>1
  <2>3. \A k \in asked \cup cancelled : k.svc \in present \cup created
    BY DEF Call
  <2> HIDE DEF created, asked, cancelled
  <2> QED BY <1>4, <2>2, <2>3, BeginRemovalInv DEF CaptureDisplays
<1> QED BY <1>1, <1>2, <1>3, <1>4 DEF Request

-----------------------------------------------------------------------------
(* The steps of an operation.                                              *)

\* Subscribing or unsubscribing the holder keeps everything that is not about
\* the calls to come.
LEMMA ApplyRemovalInv ==
  ASSUME Inv, RemovalInv, Busy, NEW k \in Calls, k.svc \in present, Apply(k),
         UNCHANGED <<connections, closed, lock>>
  PROVE  ClosedIsGone' /\ AbsentHaveNone' /\ HolderIsOpen'
<1>1. /\ present' = present
      /\ \A s \in Services : s # k.svc => Subscribers(s)' = Subscribers(s)
      /\ \A s \in Services : Subscribers(s)' \ {lock} = Subscribers(s) \ {lock}
  BY ApplyEffect
<1>2. ClosedIsGone'
  BY <1>1 DEF RemovalInv, ClosedIsGone, HolderIsOpen, Busy
<1>3. AbsentHaveNone'
  BY <1>1 DEF RemovalInv, AbsentHaveNone
<1>4. HolderIsOpen'
  BY DEF RemovalInv, HolderIsOpen
<1> QED BY <1>2, <1>3, <1>4

LEMMA OperationRemovalInv ==
  ASSUME Inv, RemovalInv, Operation
  PROVE  RemovalInv'
<1>0. /\ todo \subseteq Calls /\ reread \subseteq Calls /\ decided \subseteq Calls
      /\ \A k \in todo \cup reread \cup decided : k.svc \in present
  BY DEF Inv, TypeOK, RemovalInv, CallsArePresent
<1>1. CASE CallDirectly
  <2>1. PICK k \in todo : ~k.checked /\ Apply(k) /\ todo' = todo \ {k}
    BY <1>1 DEF CallDirectly
  <2>2. /\ Busy /\ Between
        /\ UNCHANGED <<connections, closed, lock, kind, reread, decided>>
    BY <1>1 DEF CallDirectly
  <2>3. k \in Calls /\ k.svc \in present
    BY <1>0
  <2>4. ClosedIsGone' /\ AbsentHaveNone' /\ HolderIsOpen'
    BY <2>1, <2>2, <2>3, ApplyRemovalInv
  <2>5. /\ present' = present
        /\ \A s \in Services : s # k.svc => Subscribers(s)' = Subscribers(s)
        /\ ~k.sub => lock \notin Subscribers(k.svc)'
    BY <2>1, <2>2, <2>3, ApplyEffect
  <2>6. IdleHasNoCalls' /\ CallsArePresent'
    BY <1>0, <2>1, <2>2, <2>5 DEF IdleHasNoCalls, CallsArePresent, Busy
  <2>7. RemovalUnderway'
    <3> SUFFICES ASSUME kind = "remove" PROVE RemovalUnderway'
      BY <2>2 DEF RemovalUnderway
    <3>1. /\ reread = {} /\ decided = {}
          /\ \A j \in todo : ~j.sub /\ ~j.checked
          /\ \A s \in Services : lock \in Subscribers(s) => Call(s, FALSE, FALSE) \in todo
      BY <2>2 DEF RemovalInv, RemovalUnderway, Busy
    <3>2. ASSUME NEW s \in Services, lock \in Subscribers(s)'
          PROVE  Call(s, FALSE, FALSE) \in todo'
      <4>1. s # k.svc
        BY <2>5, <3>1, <3>2
      <4>2. Call(s, FALSE, FALSE) # k
        BY <4>1 DEF Call
      <4> QED BY <2>1, <2>5, <3>1, <3>2, <4>1, <4>2
    <3>3. reread' = {} /\ decided' = {} /\ \A j \in todo' : ~j.sub /\ ~j.checked
      BY <2>1, <2>2, <3>1
    <3> QED BY <2>2, <3>2, <3>3 DEF RemovalUnderway, Call
  <2> QED BY <2>4, <2>6, <2>7 DEF RemovalInv
<1>2. CASE ReadSubscribes
  <2>1. PICK k \in todo :
          /\ k.checked
          /\ todo' = todo \ {k}
          /\ reread' \subseteq {k} \cup reread /\ decided' \subseteq {k} \cup decided
    BY <1>2 DEF ReadSubscribes
  <2>2. /\ Busy /\ UNCHANGED <<present, connections, closed, lock, kind>>
        /\ \A s \in Services : Subscribers(s)' = Subscribers(s)
    BY <1>2 DEF ReadSubscribes, serviceVars, Subscribers
  <2>3. kind # "remove"
    BY <2>1, <2>2 DEF RemovalInv, RemovalUnderway, Busy
  <2>4. ClosedIsGone' /\ AbsentHaveNone' /\ HolderIsOpen'
    BY <2>2 DEF RemovalInv, ClosedIsGone, AbsentHaveNone, HolderIsOpen
  <2>5. IdleHasNoCalls' /\ RemovalUnderway'
    BY <2>2, <2>3 DEF IdleHasNoCalls, RemovalUnderway, Busy
  <2>6. CallsArePresent'
    BY <1>0, <2>1, <2>2 DEF CallsArePresent
  <2> QED BY <2>4, <2>5, <2>6 DEF RemovalInv
<1>3. CASE ReadNewSubscribes
  <2>1. PICK k \in reread :
          decided' \subseteq {k} /\ reread' = {} /\ todo' = todo
    BY <1>3 DEF ReadNewSubscribes
  <2>2. /\ Busy /\ UNCHANGED <<present, connections, closed, lock, kind>>
        /\ \A s \in Services : Subscribers(s)' = Subscribers(s)
    BY <1>3 DEF ReadNewSubscribes, serviceVars, Subscribers
  <2>3. kind # "remove"
    BY <2>1, <2>2 DEF RemovalInv, RemovalUnderway, Busy
  <2>4. ClosedIsGone' /\ AbsentHaveNone' /\ HolderIsOpen'
    BY <2>2 DEF RemovalInv, ClosedIsGone, AbsentHaveNone, HolderIsOpen
  <2>5. IdleHasNoCalls' /\ RemovalUnderway'
    BY <2>2, <2>3 DEF IdleHasNoCalls, RemovalUnderway, Busy
  <2>6. CallsArePresent'
    BY <1>0, <2>1, <2>2 DEF CallsArePresent
  <2> QED BY <2>4, <2>5, <2>6 DEF RemovalInv
<1>4. CASE CallDecided
  <2>1. PICK k \in decided : Apply(k)
    BY <1>4 DEF CallDecided
  <2>2. /\ Busy /\ decided' = {}
        /\ UNCHANGED <<connections, closed, lock, kind, todo, reread>>
    BY <1>4 DEF CallDecided
  <2>3. k \in Calls /\ k.svc \in present
    BY <1>0
  <2>4. ClosedIsGone' /\ AbsentHaveNone' /\ HolderIsOpen'
    BY <2>1, <2>2, <2>3, ApplyRemovalInv
  <2>5. kind # "remove"
    BY <2>1, <2>2 DEF RemovalInv, RemovalUnderway, Busy
  <2>6. IdleHasNoCalls' /\ RemovalUnderway'
    BY <2>2, <2>5 DEF IdleHasNoCalls, RemovalUnderway, Busy
  <2>7. present' = present
    BY <2>1, <2>2, <2>3, ApplyEffect
  <2>8. CallsArePresent'
    BY <1>0, <2>2, <2>7 DEF CallsArePresent
  <2> QED BY <2>4, <2>6, <2>8 DEF RemovalInv
<1>5. CASE Finish
  <2> USE <1>5 DEF Finish, Busy, Between
  <2>1. /\ present' = present
        /\ \A s \in Services : Subscribers(s)' = Subscribers(s)
    BY DEF serviceVars, Subscribers
  <2>2. kind = "remove" => \A s \in Services : lock \notin Subscribers(s)
    BY DEF RemovalInv, RemovalUnderway
  <2>3. ClosedIsGone'
    <3>1. CASE kind = "remove"
      <4>1. connections' = connections \ {lock} /\ closed' = closed \cup {lock}
        BY <3>1
      <4> QED BY <2>1, <2>2, <3>1, <4>1 DEF RemovalInv, ClosedIsGone
    <3>2. CASE kind # "remove"
      <4>1. connections' \subseteq connections \cup {lock} /\ closed' = closed
        BY <3>2
      <4> QED BY <2>1, <4>1 DEF RemovalInv, ClosedIsGone, HolderIsOpen
    <3> QED BY <3>1, <3>2
  <2>4. AbsentHaveNone'
    BY <2>1 DEF RemovalInv, AbsentHaveNone
  <2>5. IdleHasNoCalls' /\ HolderIsOpen' /\ RemovalUnderway' /\ CallsArePresent'
    BY DEF IdleHasNoCalls, HolderIsOpen, RemovalUnderway, CallsArePresent
  <2> QED BY <2>3, <2>4, <2>5 DEF RemovalInv
<1> QED BY <1>1, <1>2, <1>3, <1>4, <1>5 DEF Operation

-----------------------------------------------------------------------------
(* The first theorem.                                                      *)

LEMMA InitRemovalInv == Init => RemovalInv
<1> SUFFICES ASSUME Init PROVE RemovalInv
  OBVIOUS
<1>1. \A s \in Services : Subscribers(s) = {}
  BY DEF Init, ServiceInit, Subscribers
<1> QED
  BY <1>1 DEF Init, RemovalInv, ClosedIsGone, AbsentHaveNone, IdleHasNoCalls,
     HolderIsOpen, RemovalUnderway, CallsArePresent

LEMMA NextRemovalInv == Inv /\ RemovalInv /\ [Next]_vars => RemovalInv'
<1> SUFFICES ASSUME Inv, RemovalInv, [Next]_vars PROVE RemovalInv'
  OBVIOUS
<1>1. ASSUME UNCHANGED <<present, subscribes, new_subscribes>>,
             UNCHANGED <<connections, closed, lock, kind, todo, reread, decided>>
      PROVE  RemovalInv'
  BY <1>1, SameSubscribers DEF Subscribers
<1>2. ASSUME NEW c \in Conns, Request(c) PROVE RemovalInv'
  BY <1>2, RequestRemovalInv
<1>3. CASE Operation
  BY <1>3, OperationRemovalInv
<1>4. ASSUME NEW s \in Services, ThreadStep(s) PROVE RemovalInv'
  BY <1>4, ThreadEffect, SameSubscribers DEF ThreadStep, serverVars
<1>5. ASSUME NEW s \in Services, SourceChanges(s), UNCHANGED serverVars
      PROVE  RemovalInv'
  BY <1>1, <1>5 DEF SourceChanges, serverVars
<1>6. CASE StopServer
  BY <1>1, <1>6 DEF StopServer, serviceVars
<1>7. ASSUME NEW s \in Services, Join(s) PROVE RemovalInv'
  BY <1>1, <1>7 DEF Join, serverVars
<1>8. CASE UNCHANGED vars
  BY <1>1, <1>8 DEF vars, serviceVars, serverVars
<1> QED
  BY <1>2, <1>3, <1>4, <1>5, <1>6, <1>7, <1>8 DEF Next, Stopped

\* A connection whose loop has ended with remove_connection is in no table of
\* any service and not in the map of connections, whatever the threads did
\* between the calls of the removal.
THEOREM ClosedAreGone == Spec => []ClosedIsGone
<1>1. Inv /\ RemovalInv => ClosedIsGone
  BY DEF RemovalInv
<1>2. Init => Inv /\ RemovalInv
  BY InitInv, InitRemovalInv
<1>3. Inv /\ RemovalInv /\ [Next]_vars => Inv' /\ RemovalInv'
  BY NextInv, NextRemovalInv
<1> QED BY <1>1, <1>2, <1>3, PTL DEF Spec

-----------------------------------------------------------------------------
(* Who is asked to be subscribed and who is.                               *)

Pending == todo \cup reread \cup decided

\* At most one call is being made.
OneAtATime ==
  /\ reread = {} \/ decided = {}
  /\ todo \cap (reread \cup decided) = {}
  /\ \A j, k \in reread : j = k
  /\ \A j, k \in decided : j = k

\* The calls to come are what the operation asks for.
PendingIsAsked == \A k \in Pending : k.sub <=> <<k.svc, lock>> \in wanted

\* A subscription asked for is in force, or a call to come will see to it.
AskedOrPending ==
  \A s \in Services : \A c \in Conns :
    <<s, c>> \in wanted =>
      \/ c \in Subscribers(s)
      \/ c = lock /\ \E k \in Pending : k.svc = s /\ k.sub

\* A subscription in force is asked for, or a call to come will cancel it, or
\* its cancellation was missed.
SubscribedOrPending ==
  \A s \in Services : \A c \in Subscribers(s) :
    \/ <<s, c>> \in wanted \cup missed
    \/ c = lock /\ \E k \in Pending : k.svc = s /\ ~k.sub

WantedInv ==
  /\ OneAtATime
  /\ PendingIsAsked
  /\ AskedOrPending
  /\ SubscribedOrPending

\* An operation never asks for and cancels the same subscription.
Consistent(calls) == \A j, k \in calls : j.svc = k.svc => j.sub = k.sub

LEMMA BeginWantedInv ==
  ASSUME Inv, RemovalInv, WantedInv, Free, NEW c \in Conns,
         NEW operation, NEW created, NEW calls \in SUBSET Calls, Consistent(calls),
         Begin(c, operation, created, calls)
  PROVE  WantedInv'
<1>1. lock = Nobody /\ todo = {} /\ reread = {} /\ decided = {} /\ Nobody \notin Conns
  BY ServerAssumption DEF RemovalInv, IdleHasNoCalls, Free
<1>2. /\ lock' = c /\ Pending' = calls /\ reread' = {} /\ decided' = {}
      /\ wanted' = (wanted \cup Asked(c, calls)) \ Cancelled(c, calls)
      /\ missed' = missed \ (Asked(c, calls) \cup Cancelled(c, calls))
      /\ \A s \in Services : Subscribers(s)' = Subscribers(s)
  BY <1>1 DEF Begin, Pending, Subscribers
<1>3. \A k \in calls : k.svc \in Services /\ k.sub \in BOOLEAN
  BY DEF Calls
<1>4. /\ \A s, d : <<s, d>> \in Asked(c, calls) <=>
                     d = c /\ \E k \in calls : k.svc = s /\ k.sub
      /\ \A s, d : <<s, d>> \in Cancelled(c, calls) <=>
                     d = c /\ \E k \in calls : k.svc = s /\ ~k.sub
  BY DEF Asked, Cancelled
<1>5. OneAtATime'
  BY <1>2 DEF OneAtATime
<1>6. PendingIsAsked'
  <2> SUFFICES ASSUME NEW k \in calls
               PROVE  k.sub <=> <<k.svc, c>> \in wanted'
    BY <1>2 DEF PendingIsAsked
  <2>1. CASE k.sub
    <3>1. <<k.svc, c>> \in Asked(c, calls)
      BY <1>4, <2>1
    <3>2. <<k.svc, c>> \notin Cancelled(c, calls)
      BY <1>4, <2>1 DEF Consistent
    <3> QED BY <1>2, <2>1, <3>1, <3>2
  <2>2. CASE ~k.sub
    <3>1. <<k.svc, c>> \in Cancelled(c, calls)
      BY <1>4, <2>2
    <3> QED BY <1>2, <2>2, <3>1
  <2> QED BY <1>3, <2>1, <2>2
<1>7. AskedOrPending'
  <2> SUFFICES ASSUME NEW s \in Services, NEW d \in Conns, <<s, d>> \in wanted'
               PROVE  \/ d \in Subscribers(s)
                      \/ d = c /\ \E k \in calls : k.svc = s /\ k.sub
    BY <1>2 DEF AskedOrPending
  <2>1. CASE <<s, d>> \in wanted
    BY <1>1, <2>1 DEF WantedInv, AskedOrPending
  <2>2. CASE <<s, d>> \in Asked(c, calls)
    BY <1>4, <2>2
  <2> QED BY <1>2, <2>1, <2>2
<1>8. SubscribedOrPending'
  <2> SUFFICES ASSUME NEW s \in Services, NEW d \in Subscribers(s)'
               PROVE  \/ <<s, d>> \in wanted' \cup missed'
                      \/ d = lock' /\ \E k \in Pending' : k.svc = s /\ ~k.sub
    BY DEF SubscribedOrPending
  <2>0. d \in Subscribers(s) /\ lock' = c /\ Pending' = calls
    BY <1>2
  <2>1. <<s, d>> \in wanted \cup missed
    <3>1. d \in Conns
      BY <2>0 DEF Inv, TypeOK, ServiceTypeOK, Subscribers
    <3> QED BY <1>1, <2>0, <3>1 DEF WantedInv, SubscribedOrPending
  <2>2. CASE <<s, d>> \in Cancelled(c, calls)
    BY <1>4, <2>0, <2>2
  <2>3. CASE <<s, d>> \notin Cancelled(c, calls)
    BY <1>2, <2>1, <2>3
  <2> QED BY <2>2, <2>3
<1> QED BY <1>5, <1>6, <1>7, <1>8 DEF WantedInv

LEMMA RequestWantedInv ==
  ASSUME Inv, RemovalInv, WantedInv, NEW c \in Conns, Request(c)
  PROVE  WantedInv'
<1>0. present \subseteq Services /\ Video \subseteq Services
  BY ServiceAssumption, ServerAssumption DEF Inv, TypeOK, ServiceTypeOK
<1>1. CASE AddConnection(c)
  <2>1. PICK noperms \in SUBSET (Services \ Video) :
          Begin(c, "add", Video \cap {Primary},
                {Call(s, TRUE, FALSE) :
                   s \in (present \cup (Video \cap {Primary}))
                           \ (noperms \cup (Video \ {Primary}))})
    BY <1>1 DEF AddConnection
  <2> DEFINE calls == {Call(s, TRUE, FALSE) :
                         s \in (present \cup (Video \cap {Primary}))
                                 \ (noperms \cup (Video \ {Primary}))}
  <2>2. calls \in SUBSET Calls
    BY <1>0, CallType
  <2>3. Consistent(calls)
    <3>1. \A k \in calls : k.sub = TRUE
      BY DEF Call
    <3> HIDE DEF calls
    <3> QED BY <3>1 DEF Consistent
  <2>4. Begin(c, "add", Video \cap {Primary}, calls) /\ Free
    BY <1>1, <2>1 DEF AddConnection
  <2> HIDE DEF calls
  <2> QED BY <2>2, <2>3, <2>4, BeginWantedInv
<1>2. CASE RemoveConnection(c)
  <2>1. RemoveCalls \in SUBSET Calls
    BY <1>0, CallType DEF RemoveCalls
  <2>2. Consistent(RemoveCalls)
    <3>1. \A k \in RemoveCalls : k.sub = FALSE
      BY DEF RemoveCalls, Call
    <3> QED BY <3>1 DEF Consistent
  <2> QED BY <1>2, <2>1, <2>2, BeginWantedInv DEF RemoveConnection
<1>3. CASE Subscribe(c)
  <2>1. PICK s \in present, b \in BOOLEAN :
          Begin(c, "subscribe", {}, {Call(s, b, TRUE)})
    BY <1>3 DEF Subscribe
  <2> DEFINE calls == {Call(s, b, TRUE)}
  <2>2. calls \in SUBSET Calls
    BY <1>0, CallType
  <2>3. Consistent(calls)
    BY DEF Consistent
  <2>4. Begin(c, "subscribe", {}, calls) /\ Free
    BY <1>3, <2>1 DEF Subscribe
  <2> HIDE DEF calls
  <2> QED BY <2>2, <2>3, <2>4, BeginWantedInv
<1>4. CASE CaptureDisplays(c)
  <2>1. PICK displays \in SUBSET Video, include \in BOOLEAN, exclude \in BOOLEAN :
          LET created == IF include THEN displays ELSE {}
              names == Video \cap (present \cup created)
          IN  Begin(c, "capture", created,
                    {Call(s, TRUE, TRUE) : s \in IF include THEN names \cap displays ELSE {}}
                    \cup {Call(s, FALSE, TRUE) : s \in IF exclude THEN names \ displays ELSE {}})
    BY <1>4 DEF CaptureDisplays
  <2> DEFINE created == IF include THEN displays ELSE {}
             names == Video \cap (present \cup created)
             asked == {Call(s, TRUE, TRUE) : s \in IF include THEN names \cap displays ELSE {}}
             cancelled == {Call(s, FALSE, TRUE) : s \in IF exclude THEN names \ displays ELSE {}}
  <2>2. Begin(c, "capture", created, asked \cup cancelled) /\ Free
    BY <1>4, <2>1 DEF CaptureDisplays
  <2>3. /\ \A k \in asked : k \in Calls /\ k.sub = TRUE /\ k.svc \in displays
        /\ \A k \in cancelled : k \in Calls /\ k.sub = FALSE /\ k.svc \notin displays
    <3>1. /\ \A s \in Services : Call(s, TRUE, TRUE) \in Calls /\ Call(s, FALSE, TRUE) \in Calls
          /\ \A s : /\ Call(s, TRUE, TRUE).svc = s /\ Call(s, TRUE, TRUE).sub = TRUE
                   /\ Call(s, FALSE, TRUE).svc = s /\ Call(s, FALSE, TRUE).sub = FALSE
      BY CallType DEF Call
    <3>2. names \subseteq Services
      BY <1>0
    <3> HIDE DEF names
    <3> QED BY <3>1, <3>2
  <2> HIDE DEF created, asked, cancelled
  <2>4. Consistent(asked \cup cancelled) /\ asked \cup cancelled \in SUBSET Calls
    BY <2>3 DEF Consistent
  <2> QED BY <2>2, <2>4, BeginWantedInv
<1> QED BY <1>1, <1>2, <1>3, <1>4 DEF Request

\* Making a pending call, with or without is_subed before it, does what the
\* call was to do; the others stay pending.
LEMMA ApplyWantedInv ==
  ASSUME Inv, WantedInv, Busy, NEW k \in Pending, Apply(k), OneAtATime',
         Pending' = Pending \ {k}, UNCHANGED <<lock, wanted, missed>>
  PROVE  WantedInv'
<1>1. k \in Calls /\ k.svc \in Services /\ lock \in Conns
  BY DEF Pending, Inv, TypeOK, Busy, Calls
<1>2. /\ \A s \in Services : s # k.svc => Subscribers(s)' = Subscribers(s)
      /\ \A s \in Services : Subscribers(s)' \ {lock} = Subscribers(s) \ {lock}
      /\ IF k.sub THEN lock \in Subscribers(k.svc)'
                  ELSE lock \notin Subscribers(k.svc)'
  BY <1>1, ApplyEffect
<1>3. PendingIsAsked'
  BY DEF WantedInv, PendingIsAsked
<1>4. k.sub <=> <<k.svc, lock>> \in wanted
  BY DEF WantedInv, PendingIsAsked
<1>5. AskedOrPending'
  <2> SUFFICES ASSUME NEW s \in Services, NEW c \in Conns, <<s, c>> \in wanted,
                      c \notin Subscribers(s)'
               PROVE  c = lock /\ \E j \in Pending \ {k} : j.svc = s /\ j.sub
    BY DEF AskedOrPending
  <2>1. ~(s = k.svc /\ c = lock)
    BY <1>2, <1>4
  <2>2. c \notin Subscribers(s)
    BY <1>2, <2>1
  <2>3. c = lock /\ \E j \in Pending : j.svc = s /\ j.sub
    BY <2>2 DEF WantedInv, AskedOrPending
  <2> QED BY <2>1, <2>3
<1>6. SubscribedOrPending'
  <2> SUFFICES ASSUME NEW s \in Services, NEW c \in Subscribers(s)',
                      <<s, c>> \notin wanted \cup missed
               PROVE  c = lock /\ \E j \in Pending \ {k} : j.svc = s /\ ~j.sub
    BY DEF SubscribedOrPending
  <2>1. ~(s = k.svc /\ c = lock)
    BY <1>2, <1>4
  <2>2. c \in Subscribers(s)
    BY <1>2, <2>1
  <2>3. c = lock /\ \E j \in Pending : j.svc = s /\ ~j.sub
    BY <2>2 DEF WantedInv, SubscribedOrPending
  <2> QED BY <2>1, <2>3
<1> QED BY <1>3, <1>5, <1>6 DEF WantedInv

\* When nothing happens to the subscribers, a pending call may be dropped if it
\* asks for what is so already, or if it is recorded as missed.
LEMMA DropWantedInv ==
  ASSUME WantedInv, NEW k \in Pending, OneAtATime',
         Pending' \subseteq Pending, Pending \ {k} \subseteq Pending',
         \A s \in Services : Subscribers(s)' = Subscribers(s),
         UNCHANGED <<lock, wanted>>, missed \subseteq missed',
         k \in Pending'
           \/ (k.sub /\ lock \in Subscribers(k.svc))
           \/ (~k.sub /\ (lock \notin Subscribers(k.svc) \/ <<k.svc, lock>> \in missed'))
  PROVE  WantedInv'
<1>1. PendingIsAsked'
  BY DEF WantedInv, PendingIsAsked
<1>2. AskedOrPending'
  BY DEF WantedInv, AskedOrPending
<1>3. SubscribedOrPending'
  <2> SUFFICES ASSUME NEW s \in Services, NEW c \in Subscribers(s)',
                      <<s, c>> \notin wanted' \cup missed'
               PROVE  c = lock' /\ \E j \in Pending' : j.svc = s /\ ~j.sub
    BY DEF SubscribedOrPending
  <2>0. c \in Subscribers(s) /\ <<s, c>> \notin wanted \cup missed /\ lock' = lock
    OBVIOUS
  <2>1. c = lock /\ \E j \in Pending : j.svc = s /\ ~j.sub
    BY <2>0 DEF WantedInv, SubscribedOrPending
  <2> QED BY <2>0, <2>1
<1> QED BY <1>1, <1>2, <1>3 DEF WantedInv

LEMMA OperationWantedInv ==
  ASSUME Inv, RemovalInv, WantedInv, Operation
  PROVE  WantedInv'
<1> USE DEF Pending
<1>0. \A k \in Pending : k \in Calls /\ k.svc \in Services /\ k.sub \in BOOLEAN
  BY DEF Inv, TypeOK, Calls
<1>1. CASE CallDirectly
  <2>1. PICK k \in todo : Apply(k) /\ todo' = todo \ {k}
    BY <1>1 DEF CallDirectly
  <2>2. /\ Busy /\ reread = {} /\ decided = {}
        /\ UNCHANGED <<lock, reread, decided, wanted, missed>>
    BY <1>1 DEF CallDirectly, Between
  <2>3. OneAtATime'
    BY <2>2 DEF OneAtATime
  <2>4. Pending' = Pending \ {k} /\ k \in Pending
    BY <2>1, <2>2
  <2> HIDE DEF Pending
  <2> QED BY <2>1, <2>2, <2>3, <2>4, ApplyWantedInv
<1>2. CASE ReadSubscribes
  <2>1. PICK k \in todo :
          /\ todo' = todo \ {k}
          /\ IF lock \in subscribes[k.svc]
               THEN decided' = (IF k.sub THEN {} ELSE {k}) /\ reread' = reread
               ELSE reread' = {k} /\ decided' = decided
    BY <1>2 DEF ReadSubscribes
  <2>2. /\ reread = {} /\ decided = {} /\ UNCHANGED <<lock, wanted, missed>>
        /\ \A s \in Services : Subscribers(s)' = Subscribers(s)
    BY <1>2 DEF ReadSubscribes, Between, serviceVars, Subscribers
  <2>3. OneAtATime'
    BY <2>1, <2>2 DEF OneAtATime
  <2>4. /\ k \in Pending /\ Pending' \subseteq Pending /\ Pending \ {k} \subseteq Pending'
        /\ k \in Pending' \/ (k.sub /\ lock \in Subscribers(k.svc))
    BY <2>1, <2>2 DEF Subscribers
  <2> HIDE DEF Pending
  <2> QED BY <2>2, <2>3, <2>4, DropWantedInv
<1>3. CASE ReadNewSubscribes
  <2>1. PICK k \in reread :
          LET subed == lock \in new_subscribes[k.svc] IN
          /\ decided' = IF subed = k.sub THEN {} ELSE {k}
          /\ missed' = IF ~subed /\ ~k.sub /\ lock \in subscribes[k.svc]
                         THEN missed \cup {<<k.svc, lock>>} ELSE missed
    BY <1>3 DEF ReadNewSubscribes
  <2>2. /\ reread' = {} /\ UNCHANGED <<lock, todo, wanted>>
        /\ \A s \in Services : Subscribers(s)' = Subscribers(s)
    BY <1>3 DEF ReadNewSubscribes, serviceVars, Subscribers
  <2>3. decided = {} /\ reread = {k}
    BY <2>1 DEF WantedInv, OneAtATime
  <2>4. decided' \in {{}, {k}}
    BY <2>1
  <2>5. OneAtATime'
    <3>1. k \notin todo
      BY <2>1 DEF WantedInv, OneAtATime
    <3> QED BY <2>2, <2>4, <3>1 DEF OneAtATime
  <2>6. k \in Pending /\ Pending' \subseteq Pending /\ Pending \ {k} \subseteq Pending'
    BY <2>2, <2>3, <2>4
  <2>7. missed \subseteq missed'
    BY <2>1
  <2>8. \/ k \in Pending'
        \/ k.sub /\ lock \in Subscribers(k.svc)
        \/ ~k.sub /\ (lock \notin Subscribers(k.svc) \/ <<k.svc, lock>> \in missed')
    <3>1. k.sub \in BOOLEAN
      BY <1>0, <2>6
    <3>2. CASE lock \in new_subscribes[k.svc]
      BY <2>1, <3>1, <3>2 DEF Subscribers
    <3>3. CASE lock \notin new_subscribes[k.svc]
      BY <2>1, <3>1, <3>3 DEF Subscribers
    <3> QED BY <3>2, <3>3
  <2> HIDE DEF Pending
  <2> QED BY <2>2, <2>5, <2>6, <2>7, <2>8, DropWantedInv
<1>4. CASE CallDecided
  <2>1. PICK k \in decided : Apply(k)
    BY <1>4 DEF CallDecided
  <2>2. Busy /\ decided' = {} /\ UNCHANGED <<lock, todo, reread, wanted, missed>>
    BY <1>4 DEF CallDecided
  <2>3. decided = {k} /\ reread = {}
    BY <2>1 DEF WantedInv, OneAtATime
  <2>4. k \notin todo
    BY <2>1 DEF WantedInv, OneAtATime
  <2>5. OneAtATime' /\ Pending' = Pending \ {k} /\ k \in Pending
    BY <2>2, <2>3, <2>4 DEF OneAtATime
  <2> HIDE DEF Pending
  <2> QED BY <2>1, <2>2, <2>5, ApplyWantedInv
<1>5. CASE Finish
  <2>1. /\ todo = {} /\ reread = {} /\ decided = {}
        /\ UNCHANGED <<todo, reread, decided, wanted, missed>>
        /\ \A s \in Services : Subscribers(s)' = Subscribers(s)
    BY <1>5 DEF Finish, Between, serviceVars, Subscribers
  <2> QED
    BY <2>1 DEF WantedInv, OneAtATime, PendingIsAsked, AskedOrPending,
       SubscribedOrPending
<1> QED BY <1>1, <1>2, <1>3, <1>4, <1>5 DEF Operation

\* WantedInv only speaks of the subscribers, the calls and what was asked.
LEMMA SameWanted ==
  ASSUME WantedInv, UNCHANGED <<lock, todo, reread, decided, wanted, missed>>,
         \A t \in Services : Subscribers(t)' = Subscribers(t)
  PROVE  WantedInv'
<1>1. OneAtATime' /\ PendingIsAsked'
  BY DEF WantedInv, OneAtATime, PendingIsAsked, Pending
<1>2. AskedOrPending'
  BY DEF WantedInv, AskedOrPending, Pending
<1>3. SubscribedOrPending'
  <2> SUFFICES ASSUME NEW s \in Services, NEW c \in Subscribers(s)',
                      <<s, c>> \notin wanted' \cup missed'
               PROVE  c = lock' /\ \E j \in Pending' : j.svc = s /\ ~j.sub
    BY DEF SubscribedOrPending
  <2>1. /\ c \in Subscribers(s) /\ <<s, c>> \notin wanted \cup missed
        /\ lock' = lock /\ Pending' = Pending
    BY DEF Pending
  <2> QED BY <2>1 DEF WantedInv, SubscribedOrPending
<1> QED BY <1>1, <1>2, <1>3 DEF WantedInv

LEMMA InitWantedInv == Init => WantedInv
<1> SUFFICES ASSUME Init PROVE WantedInv
  OBVIOUS
<1>1. \A s \in Services : Subscribers(s) = {}
  BY DEF Init, ServiceInit, Subscribers
<1> QED
  BY <1>1 DEF Init, WantedInv, OneAtATime, PendingIsAsked, AskedOrPending,
     SubscribedOrPending, Pending

LEMMA NextWantedInv ==
  Inv /\ RemovalInv /\ WantedInv /\ [Next]_vars => WantedInv'
<1> SUFFICES ASSUME Inv, RemovalInv, WantedInv, [Next]_vars PROVE WantedInv'
  OBVIOUS
<1>1. ASSUME UNCHANGED <<subscribes, new_subscribes>>,
             UNCHANGED <<lock, todo, reread, decided, wanted, missed>>
      PROVE  WantedInv'
  BY <1>1, SameWanted DEF Subscribers
<1>2. ASSUME NEW c \in Conns, Request(c) PROVE WantedInv'
  BY <1>2, RequestWantedInv
<1>3. CASE Operation
  BY <1>3, OperationWantedInv
<1>4. ASSUME NEW s \in Services, ThreadStep(s) PROVE WantedInv'
  BY <1>4, ThreadEffect, SameWanted DEF ThreadStep, serverVars
<1>5. ASSUME NEW s \in Services, SourceChanges(s), UNCHANGED serverVars
      PROVE  WantedInv'
  BY <1>1, <1>5 DEF SourceChanges, serverVars
<1>6. CASE StopServer
  BY <1>1, <1>6 DEF StopServer, serviceVars
<1>7. ASSUME NEW s \in Services, Join(s) PROVE WantedInv'
  BY <1>1, <1>7 DEF Join, serverVars
<1>8. CASE UNCHANGED vars
  BY <1>1, <1>8 DEF vars, serviceVars, serverVars
<1> QED
  BY <1>2, <1>3, <1>4, <1>5, <1>6, <1>7, <1>8 DEF Next, Stopped

\* All three invariants together.
THEOREM OperationInvariance == Spec => [](Inv /\ RemovalInv /\ WantedInv)
<1>1. Init => Inv /\ RemovalInv /\ WantedInv
  BY InitInv, InitRemovalInv, InitWantedInv
<1>2. Inv /\ RemovalInv /\ WantedInv /\ [Next]_vars => (Inv /\ RemovalInv /\ WantedInv)'
  BY NextInv, NextRemovalInv, NextWantedInv
<1> QED BY <1>1, <1>2, PTL DEF Spec

\* When no operation is under way, a subscription that was asked for and not
\* cancelled since is in force: neither the swaps of the threads nor the answers
\* of is_subed lose one.
THEOREM AskedAreSubscribed == Spec => []AskedIsSubscribed
<1>1. Inv /\ RemovalInv /\ WantedInv => AskedIsSubscribed
  BY DEF RemovalInv, IdleHasNoCalls, WantedInv, AskedOrPending, Pending,
     AskedIsSubscribed
<1> QED BY OperationInvariance, <1>1, PTL

\* And nobody is subscribed who was not asked to be, but for cancellations that
\* is_subed missed between the two tables.
THEOREM SubscribedAreAsked == Spec => []SubscribedIsAsked
<1>1. Inv /\ RemovalInv /\ WantedInv => SubscribedIsAsked
  BY DEF RemovalInv, IdleHasNoCalls, WantedInv, SubscribedOrPending, Pending,
     SubscribedIsAsked
<1> QED BY OperationInvariance, <1>1, PTL

-----------------------------------------------------------------------------
(* Server implements Registry.                                             *)

Members == [s \in Services |-> Subscribers(s)]

LEMMA InitImplements == Init => R!Init
BY DEF Init, ServiceInit, R!Init, Subscribers

\* A step that leaves subscribers, closed connections and versions alone is a
\* stuttering step of the registry.
LEMMA StutterImplements ==
  ASSUME \A s \in Services : Subscribers(s)' = Subscribers(s), UNCHANGED <<closed, known>>
  PROVE  UNCHANGED R!registryVars
BY DEF R!registryVars

\* A call on behalf of the holder of the lock is a Join or a Leave.
LEMMA ApplyImplements ==
  ASSUME Inv, RemovalInv, Busy, NEW k \in Calls, Apply(k), UNCHANGED closed
  PROVE  R!Next
<1>1. k.svc \in Services /\ lock \in Conns
  BY DEF Calls, Busy, Inv, TypeOK
<1>2. /\ \A s \in Services : s # k.svc => Subscribers(s)' = Subscribers(s)
      /\ \A s \in Services : Subscribers(s)' \ {lock} = Subscribers(s) \ {lock}
      /\ IF k.sub THEN lock \in Subscribers(k.svc)'
                  ELSE lock \notin Subscribers(k.svc)'
  BY ApplyEffect
<1>3. CASE k.sub
  <2>1. Members' = [Members EXCEPT ![k.svc] = @ \cup {lock}]
    <3>1. Subscribers(k.svc)' = Subscribers(k.svc) \cup {lock}
      BY <1>1, <1>2, <1>3
    <3> QED BY <1>1, <1>2, <3>1 DEF Members
  <2>2. known' = known
    BY <1>3 DEF Apply, OnSubscribe
  <2>3. lock \notin closed
    BY DEF RemovalInv, HolderIsOpen, Busy
  <2> QED BY <1>1, <2>1, <2>2, <2>3 DEF R!Next, R!Join, Members
<1>4. CASE ~k.sub
  <2>1. Members' = [Members EXCEPT ![k.svc] = @ \ {lock}]
    <3>1. Subscribers(k.svc)' = Subscribers(k.svc) \ {lock}
      BY <1>1, <1>2, <1>4
    <3> QED BY <1>1, <1>2, <3>1 DEF Members
  <2>2. known' = [known EXCEPT ![k.svc][lock] = NoVersion]
    BY <1>4 DEF Apply, OnUnsubscribe
  <2> QED BY <1>1, <2>1, <2>2 DEF R!Next, R!Leave, Members
<1> QED BY <1>3, <1>4

\* The thread of a service only sends to its subscribers, all of one table.
LEMMA ThreadImplements ==
  ASSUME Inv, NEW s \in Services, Thread(s), UNCHANGED closed
  PROVE  R!Next \/ UNCHANGED R!registryVars
<1>1. \A t \in Services : Subscribers(t)' = Subscribers(t)
  BY ThreadEffect
<1>2. Members' = Members
  BY <1>1 DEF Members
<1>3. ASSUME NEW audience \in SUBSET Subscribers(s), NEW v \in Versions,
             known' = [known EXCEPT ![s] =
                        [c \in Conns |-> IF c \in audience THEN v ELSE @[c]]]
      PROVE  R!Next
  <2>1. audience \in SUBSET Members[s]
    BY DEF Members
  <2>2. R!Send(s)
    BY <1>2, <1>3, <2>1 DEF R!Send, Members
  <2> QED BY <2>2 DEF R!Next
<1>4. CASE known' = known
  BY <1>1, <1>4, StutterImplements
<1>5. CASE Broadcast(s)
  <2>1. CASE Watched(s) # cached[s]
    <3>1. source[s] \in Versions
      BY DEF Inv, TypeOK, ServiceTypeOK, Versions, NoVersion
    <3>2. subscribes[s] \in SUBSET Subscribers(s)
      BY DEF Subscribers
    <3> QED BY <1>3, <1>5, <2>1, <3>1, <3>2 DEF Broadcast, Watched, Audience
  <2>2. CASE Watched(s) = cached[s]
    BY <1>4, <1>5, <2>2 DEF Broadcast
  <2> QED BY <2>1, <2>2
<1>6. CASE SendSnapshot(s)
  <2>1. cached[s] \in Versions
    BY DEF Inv, TypeOK, ServiceTypeOK
  <2>2. new_subscribes[s] \in SUBSET Subscribers(s)
    BY DEF Subscribers
  <2> QED BY <1>3, <1>6, <2>1, <2>2 DEF SendSnapshot, NewAudience
<1>7. CASE ~Broadcast(s) /\ ~SendSnapshot(s)
  <2>1. known' = known
    BY <1>7 DEF Thread, Iterate, Reset, Exit, CallbackFails, CheckSnapshot,
       RestartSnapshot, Swap, Recover
  <2> QED BY <1>4, <2>1
<1> QED BY <1>5, <1>6, <1>7

LEMMA OperationImplements ==
  ASSUME Inv, RemovalInv, Operation
  PROVE  R!Next \/ UNCHANGED R!registryVars
<1>0. todo \subseteq Calls /\ decided \subseteq Calls
  BY DEF Inv, TypeOK
<1>1. CASE CallDirectly
  BY <1>0, <1>1, ApplyImplements DEF CallDirectly
<1>2. CASE ReadSubscribes
  BY <1>2, StutterImplements DEF ReadSubscribes, serviceVars, Subscribers
<1>3. CASE ReadNewSubscribes
  BY <1>3, StutterImplements DEF ReadNewSubscribes, serviceVars, Subscribers
<1>4. CASE CallDecided
  BY <1>0, <1>4, ApplyImplements DEF CallDecided
<1>5. CASE Finish
  <2>1. \A s \in Services : Subscribers(s)' = Subscribers(s)
    BY <1>5 DEF Finish, serviceVars, Subscribers
  <2>2. known' = known /\ lock \in Conns
    BY <1>5 DEF Finish, serviceVars, Busy, Inv, TypeOK
  <2>3. CASE kind = "remove"
    <3>1. \A s \in Services : lock \notin Subscribers(s)
      BY <1>5, <2>3 DEF Finish, Busy, RemovalInv, RemovalUnderway
    <3>2. \A s \in Services : lock \notin Members[s]
      BY <3>1 DEF Members
    <3>3. Members' = Members
      BY <2>1 DEF Members
    <3>4. closed' = closed \cup {lock}
      BY <1>5, <2>3 DEF Finish
    <3>5. R!Close(lock)
      BY <2>2, <3>2, <3>3, <3>4 DEF R!Close, Members
    <3> QED BY <2>2, <3>5 DEF R!Next
  <2>4. CASE kind # "remove"
    <3>1. closed' = closed
      BY <1>5, <2>4 DEF Finish
    <3> QED BY <2>1, <2>2, <3>1, StutterImplements
  <2> QED BY <2>3, <2>4
<1> QED BY <1>1, <1>2, <1>3, <1>4, <1>5 DEF Operation

LEMMA NextImplements ==
  Inv /\ RemovalInv /\ [Next]_vars => [R!Next]_(R!registryVars)
<1> SUFFICES ASSUME Inv, RemovalInv, [Next]_vars
             PROVE  R!Next \/ UNCHANGED R!registryVars
  OBVIOUS
<1>1. ASSUME UNCHANGED <<subscribes, new_subscribes, known, closed>>
      PROVE  UNCHANGED R!registryVars
  BY <1>1, StutterImplements DEF Subscribers
<1>2. ASSUME NEW c \in Conns, Request(c) PROVE UNCHANGED R!registryVars
  <2>1. UNCHANGED <<subscribes, new_subscribes, known, closed>>
    <3>1. CASE AddConnection(c)
      BY <3>1 DEF AddConnection, Begin
    <3>2. CASE RemoveConnection(c)
      BY <3>2 DEF RemoveConnection, Begin
    <3>3. CASE Subscribe(c)
      BY <3>3 DEF Subscribe, Begin
    <3>4. CASE CaptureDisplays(c)
      <4>1. PICK displays \in SUBSET Video, include \in BOOLEAN, exclude \in BOOLEAN :
              LET created == IF include THEN displays ELSE {}
                  names == Video \cap (present \cup created)
              IN  Begin(c, "capture", created,
                        {Call(s, TRUE, TRUE) : s \in IF include THEN names \cap displays ELSE {}}
                        \cup {Call(s, FALSE, TRUE) : s \in IF exclude THEN names \ displays ELSE {}})
        BY <3>4 DEF CaptureDisplays
      <4> QED BY <4>1 DEF Begin
    <3> QED BY <1>2, <3>1, <3>2, <3>3, <3>4 DEF Request
  <2> QED BY <1>1, <2>1
<1>3. CASE Operation
  BY <1>3, OperationImplements
<1>4. ASSUME NEW s \in Services, ThreadStep(s)
      PROVE  R!Next \/ UNCHANGED R!registryVars
  BY <1>4, ThreadImplements DEF ThreadStep, serverVars
<1>5. ASSUME NEW s \in Services, SourceChanges(s), UNCHANGED serverVars
      PROVE  UNCHANGED R!registryVars
  BY <1>1, <1>5 DEF SourceChanges, serverVars
<1>6. CASE StopServer
  BY <1>1, <1>6 DEF StopServer, serviceVars
<1>7. ASSUME NEW s \in Services, Join(s) PROVE UNCHANGED R!registryVars
  BY <1>1, <1>7 DEF Join, serverVars
<1>8. CASE UNCHANGED vars
  BY <1>1, <1>8 DEF vars, serviceVars, serverVars
<1> QED
  BY <1>2, <1>3, <1>4, <1>5, <1>6, <1>7, <1>8 DEF Next, Stopped

\* The two tables, the threads, the locks and is_subed implement the plain
\* registry: connections join and leave one service at a time, only subscribers
\* are sent anything, and a connection is only gone when it is subscribed to
\* nothing, and subscribes to nothing from then on.
THEOREM Implementation == Spec => ImplementsRegistry
<1>1. Spec => [](Inv /\ RemovalInv)
  <2>1. Inv /\ RemovalInv /\ WantedInv => Inv /\ RemovalInv
    OBVIOUS
  <2> QED BY OperationInvariance, <2>1, PTL
<1> QED
  BY <1>1, InitImplements, NextImplements, PTL
     DEF Spec, ImplementsRegistry, R!Spec
-----------------------------------------------------------------------------
(* Liveness.  ENABLED is an unknown to the provers: that a thread can go on *)
(* comes in as the hypothesis []NeverBlocked, a fact of the guards.  That   *)
(* failures cease, as the bound makes them in the runs, is a hypothesis as  *)
(* well.                                                                    *)

\* A server that is not being dropped has active services, and only the thread
\* of an inactive one ends.
LifeInv ==
  /\ ~stopping => \A s \in Services : active[s]
  /\ \A s \in Services : pc[s] = "exited" => ~active[s]

LEMMA InitLifeInv == Init => LifeInv
BY DEF Init, ServiceInit, LifeInv

LEMMA ThreadLifeInv ==
  ASSUME Inv, LifeInv, NEW s \in Services, ThreadStep(s)
  PROVE  LifeInv'
<1> USE DEF Inv, TypeOK, ServiceTypeOK, LifeInv, ThreadStep, serverVars, At, Goto
<1>1. UNCHANGED <<active, stopping>>
  BY DEF Thread, Iterate, Reset, Exit, Broadcast, CallbackFails, CheckSnapshot, SendSnapshot,
     RestartSnapshot, Swap, Recover
<1>2. CASE Exit(s)
  BY <1>1, <1>2 DEF Exit, IsActive
<1>3. CASE ~Exit(s)
  <2>1. pc'[s] # "exited" \/ pc' = pc
    BY <1>3 DEF Thread, Iterate, Reset, Broadcast, CallbackFails, CheckSnapshot, SendSnapshot,
       RestartSnapshot, Swap, Recover, AfterBroadcast, AfterSnapshot
  <2>2. \A t \in Services \ {s} : pc'[t] = pc[t]
    BY DEF Thread, Iterate, Reset, Exit, Broadcast, CallbackFails, CheckSnapshot, SendSnapshot,
       RestartSnapshot, Swap, Recover
  <2> QED BY <1>1, <2>1, <2>2
<1> QED BY <1>2, <1>3

\* What the connections and the drop of the server leave alone.
LEMMA RequestKeeps ==
  ASSUME NEW c \in Conns, Request(c)
  PROVE  /\ UNCHANGED <<pc, active, subscribes, new_subscribes, source, known, late, cached, fails>>
         /\ lock' = c /\ stopping' = stopping /\ present \subseteq present'
BY DEF Request, AddConnection, RemoveConnection, Subscribe, CaptureDisplays, Begin

LEMMA OperationKeeps ==
  ASSUME Operation
  PROVE  UNCHANGED <<present, pc, active, source, cached, fails, stopping>> /\ Busy
BY DEF Operation, CallDirectly, ReadSubscribes, ReadNewSubscribes, CallDecided, Finish, Apply,
   OnSubscribe, OnUnsubscribe, serviceVars, Busy

LEMMA NextLifeInv == Inv /\ LifeInv /\ [Next]_vars => LifeInv'
<1> SUFFICES ASSUME Inv, LifeInv, [Next]_vars PROVE LifeInv'
  OBVIOUS
<1>1. ASSUME UNCHANGED <<pc, active, stopping>> PROVE LifeInv'
  BY <1>1 DEF LifeInv
<1>2. ASSUME NEW c \in Conns, Request(c) PROVE LifeInv'
  BY <1>1, <1>2, RequestKeeps
<1>3. CASE Operation
  BY <1>1, <1>3, OperationKeeps
<1>4. ASSUME NEW s \in Services, ThreadStep(s) PROVE LifeInv'
  BY <1>4, ThreadLifeInv
<1>5. ASSUME NEW s \in Services, SourceChanges(s), UNCHANGED serverVars PROVE LifeInv'
  BY <1>1, <1>5 DEF SourceChanges, serverVars
<1>6. CASE StopServer
  BY <1>6 DEF StopServer, LifeInv, serviceVars
<1>7. ASSUME NEW s \in Services, Join(s) PROVE LifeInv'
  BY <1>7 DEF Join, LifeInv, Inv, TypeOK, ServiceTypeOK, serverVars
<1>8. CASE UNCHANGED vars
  BY <1>1, <1>8 DEF vars, serviceVars, serverVars
<1> QED BY <1>2, <1>3, <1>4, <1>5, <1>6, <1>7, <1>8 DEF Next, Stopped

\* A behaviour, seen by the thread of one service.
LiveInv == Inv /\ RemovalInv /\ LifeInv
Runs(s) == [][Next]_vars /\ []LiveInv /\ []NeverBlocked /\ ThreadFairness(s)

LEMMA FairThreads == Fairness => \A s \in Services : ThreadFairness(s)
BY PTL DEF Fairness

LEMMA FairRuns ==
  ASSUME NEW s \in Services
  PROVE  FairSpec /\ []NeverBlocked => Runs(s)
<1>1. Fairness => ThreadFairness(s)
  <2>1. (\A t \in Services : ThreadFairness(t)) => ThreadFairness(s)
    OBVIOUS
  <2> QED BY <2>1, FairThreads
<1>2. FairSpec => Spec /\ Fairness
  BY DEF FairSpec
<1>3. Spec => []LiveInv
  BY InitLifeInv, NextLifeInv, OperationInvariance, PTL DEF Spec, LiveInv
<1>4. Spec /\ ThreadFairness(s) /\ []NeverBlocked => Runs(s)
  BY <1>3, PTL DEF Spec, Runs
<1> QED BY <1>1, <1>2, <1>4

\* The other steps leave a thread where it is.
LEMMA OthersLeave ==
  ASSUME LiveInv, [Next]_vars, NEW s \in Services, ~ThreadStep(s)
  PROVE  /\ pc'[s] = pc[s]
         /\ s \in present => s \in present'
         /\ ~active[s] => ~active'[s]
<1> USE DEF LiveInv, Inv, TypeOK, ServiceTypeOK
<1>1. ASSUME NEW c \in Conns, Request(c)
      PROVE  pc' = pc /\ active' = active /\ present \subseteq present'
  BY <1>1, RequestKeeps
<1>2. CASE Operation
  BY <1>2, OperationKeeps
<1>3. ASSUME NEW t \in Services \ {s}, ThreadStep(t)
      PROVE  pc'[s] = pc[s] /\ UNCHANGED <<present, active>>
  BY <1>3 DEF ThreadStep, Thread, Iterate, Reset, Exit, Broadcast, CallbackFails, CheckSnapshot,
     SendSnapshot, RestartSnapshot, Swap, Recover, Goto
<1>4. ASSUME NEW t \in Services, SourceChanges(t) PROVE UNCHANGED <<pc, present, active>>
  BY <1>4 DEF SourceChanges
<1>5. CASE StopServer
  BY <1>5 DEF StopServer, serviceVars
<1>6. ASSUME NEW t \in Services, Join(t)
      PROVE  UNCHANGED <<pc, present>> /\ (~active[s] => ~active'[s])
  BY <1>6 DEF Join
<1>7. CASE UNCHANGED vars
  BY <1>7 DEF vars, serviceVars
<1> QED BY <1>1, <1>2, <1>3, <1>4, <1>5, <1>6, <1>7 DEF Next, Stopped
-----------------------------------------------------------------------------
(* Joins return.                                                           *)

\* the service is told to stop, and joined
Joined(s) == s \in present /\ ~active[s]
In(s, location) == pc[s] = location
JoinEnds(s) == Joined(s) ~> In(s, "exited")

\* Where a thread told to stop goes.
LEMMA StoppingSteps ==
  ASSUME LiveInv, NEW s \in Services, ThreadStep(s), Joined(s)
  PROVE  /\ Joined(s)'
         /\ In(s, "loop") => In(s, "exited")'
         /\ In(s, "callback") => In(s, AfterBroadcast(s))' \/ In(s, "fail")'
         /\ In(s, "check") => In(s, "snapshot")' \/ In(s, AfterSnapshot(s))'
         /\ In(s, "snapshot") => In(s, "drop")' \/ In(s, "dropErr")'
         /\ In(s, "drop") => In(s, AfterSnapshot(s))'
         /\ In(s, "dropErr") => In(s, "fail")'
         /\ In(s, "fail") => In(s, "loop")'
         /\ ~In(s, "exited")
<1> USE DEF LiveInv, Inv, TypeOK, ServiceTypeOK, ThreadStep, At, Goto, In, Joined, IsActive
<1>1. CASE Iterate(s) \/ Reset(s) \/ Exit(s)
  BY <1>1 DEF Iterate, Reset, Exit
<1>2. CASE Broadcast(s) \/ CallbackFails(s)
  BY <1>2 DEF Broadcast, CallbackFails
<1>3. CASE CheckSnapshot(s) \/ SendSnapshot(s) \/ RestartSnapshot(s)
  BY <1>3 DEF CheckSnapshot, SendSnapshot, RestartSnapshot
<1>4. CASE Swap(s) \/ Recover(s)
  BY <1>4 DEF Swap, Recover
<1> QED BY <1>1, <1>2, <1>3, <1>4 DEF Thread

LEMMA JoinReturns ==
  ASSUME NEW s \in Services
  PROVE  Runs(s) => JoinEnds(s)
<1> DEFINE Step == LiveInv /\ [Next]_vars /\ Joined(s)
<1> DEFINE Broadcasted == In(s, AfterBroadcast(s))
<1> DEFINE Snapshotted == In(s, AfterSnapshot(s))
<1>2. Step => Joined(s)'
  BY OthersLeave, StoppingSteps DEF Joined
<1>3. Step => /\ In(s, "loop") => In(s, "loop")' \/ In(s, "exited")'
              /\ In(s, "fail") => In(s, "fail")' \/ In(s, "loop")'
              /\ In(s, "dropErr") => In(s, "dropErr")' \/ In(s, "fail")'
              /\ In(s, "drop") => In(s, "drop")' \/ Snapshotted'
              /\ In(s, "snapshot") => In(s, "snapshot")' \/ In(s, "drop")' \/ In(s, "dropErr")'
              /\ In(s, "callback") => In(s, "callback")' \/ Broadcasted' \/ In(s, "fail")'
              /\ In(s, "check") => In(s, "check")' \/ In(s, "snapshot")' \/ Snapshotted'
  BY OthersLeave, StoppingSteps DEF In
<1>4. Step /\ <<ThreadStep(s)>>_vars
        => /\ In(s, "loop") => In(s, "exited")'
           /\ In(s, "fail") => In(s, "loop")'
           /\ In(s, "dropErr") => In(s, "fail")'
           /\ In(s, "drop") => Snapshotted'
           /\ In(s, "snapshot") => In(s, "drop")' \/ In(s, "dropErr")'
           /\ In(s, "callback") => Broadcasted' \/ In(s, "fail")'
           /\ In(s, "check") => In(s, "snapshot")' \/ Snapshotted'
  BY StoppingSteps
<1>5. LiveInv => \/ In(s, "loop") \/ In(s, "fail") \/ In(s, "dropErr") \/ In(s, "drop")
                 \/ In(s, "snapshot") \/ In(s, "callback") \/ In(s, "check")
                 \/ In(s, "exited")
  BY DEF LiveInv, Inv, TypeOK, ServiceTypeOK, Locations, In
<1>6. NeverBlocked /\ Joined(s) /\ ~In(s, "exited") => ENABLED <<ThreadStep(s)>>_vars
  BY DEF NeverBlocked, CanGoOn, Joined, In, At
<1> HIDE DEF Broadcasted, Snapshotted
<1>7. Runs(s) => [](Joined(s) => []Joined(s))
  BY <1>2, PTL DEF Runs
<1>8. Runs(s) => (Joined(s) /\ In(s, "loop") ~> In(s, "exited"))
  BY <1>3, <1>4, <1>6, <1>7, PTL DEF Runs, ThreadFairness
<1>9. Runs(s) => (Joined(s) /\ In(s, "fail") ~> In(s, "loop") \/ In(s, "exited"))
  BY <1>3, <1>4, <1>6, <1>7, PTL DEF Runs, ThreadFairness
<1>10. Runs(s) => (Joined(s) /\ In(s, "dropErr") ~> In(s, "fail") \/ In(s, "exited"))
  BY <1>3, <1>4, <1>6, <1>7, PTL DEF Runs, ThreadFairness
<1>11. Runs(s) => (Joined(s) /\ In(s, "drop") ~> Snapshotted \/ In(s, "exited"))
  BY <1>3, <1>4, <1>6, <1>7, PTL DEF Runs, ThreadFairness
<1>12. Runs(s) => (Joined(s) /\ In(s, "snapshot")
                     ~> In(s, "drop") \/ In(s, "dropErr") \/ In(s, "exited"))
  BY <1>3, <1>4, <1>6, <1>7, PTL DEF Runs, ThreadFairness
<1>13. Runs(s) => (Joined(s) /\ In(s, "callback")
                     ~> Broadcasted \/ In(s, "fail") \/ In(s, "exited"))
  BY <1>3, <1>4, <1>6, <1>7, PTL DEF Runs, ThreadFairness
<1>14. Runs(s) => (Joined(s) /\ In(s, "check")
                     ~> In(s, "snapshot") \/ Snapshotted \/ In(s, "exited"))
  BY <1>3, <1>4, <1>6, <1>7, PTL DEF Runs, ThreadFairness
<1>15. Runs(s) => []LiveInv
  BY PTL DEF Runs
<1>16. CASE s \in Restarting
  <2>1. (Broadcasted <=> In(s, "loop")) /\ (Snapshotted <=> In(s, "callback"))
    BY <1>16 DEF AfterBroadcast, AfterSnapshot, Broadcasted, Snapshotted
  <2> QED BY <2>1, <1>5, <1>7, <1>8, <1>9, <1>10, <1>11, <1>12, <1>13, <1>14, <1>15, PTL
          DEF JoinEnds
<1>17. CASE s \notin Restarting
  <2>1. (Broadcasted <=> In(s, "check")) /\ (Snapshotted <=> In(s, "loop"))
    BY <1>17 DEF AfterBroadcast, AfterSnapshot, Broadcasted, Snapshotted
  <2> QED BY <2>1, <1>5, <1>7, <1>8, <1>9, <1>10, <1>11, <1>12, <1>13, <1>14, <1>15, PTL
          DEF JoinEnds
<1> QED BY <1>16, <1>17

\* A thread that is told to stop ends, wherever it is, whether its callback
\* fails or not and whoever comes and goes meanwhile: the join of its service
\* returns.
THEOREM EveryJoinReturns ==
  FairSpec /\ []NeverBlocked => \A s \in Services : JoinEnds(s)
<1>1. ASSUME NEW s \in Services
      PROVE  FairSpec /\ []NeverBlocked => JoinEnds(s)
  <2>1. FairSpec /\ []NeverBlocked => Runs(s)
    BY FairRuns
  <2>2. Runs(s) => JoinEnds(s)
    BY JoinReturns
  <2> QED BY <2>1, <2>2
<1> QED BY <1>1
-----------------------------------------------------------------------------
(* Subscribers catch up.                                                   *)

\* callbacks do not return errors any more
FailuresCease == UNCHANGED fails

\* c is subscribed to s and has not got what s watches.
Behind(s, c) ==
  /\ c \in Subscribers(s) /\ ~stopping
  /\ c \notin late[s] /\ known[s][c] # source[s]
InFirst(s, c) == c \in subscribes[s]
InSecond(s, c) == c \in new_subscribes[s]

LEMMA StutterFailures == [FailuresCease]_vars => FailuresCease
BY DEF FailuresCease, vars, serviceVars

\* The thread of a service with subscribers goes on and on.
LEMMA BehindGoesOn ==
  ASSUME LiveInv, NEW s \in Services, NEW c \in Conns, Behind(s, c)
  PROVE  CanGoOn(s) /\ s \in present /\ active[s] /\ (InFirst(s, c) \/ InSecond(s, c))
<1>1. s \in present
  BY DEF LiveInv, RemovalInv, AbsentHaveNone, Behind
<1> QED BY <1>1 DEF LiveInv, LifeInv, Behind, CanGoOn, At, HasSubscribes, Subscribers, InFirst,
        InSecond

\* The steps of the others move a subscriber from neither table.
LEMMA OthersKeepTables ==
  ASSUME LiveInv, [Next]_vars, NEW s \in Services, NEW c \in Conns, ~ThreadStep(s),
         Behind(s, c), Behind(s, c)'
  PROVE  /\ InFirst(s, c) => InFirst(s, c)'
         /\ InSecond(s, c) => InSecond(s, c)'
<1> USE DEF LiveInv, Inv, TypeOK, ServiceTypeOK, InFirst, InSecond
<1> DEFINE Kept == subscribes'[s] = subscribes[s] /\ new_subscribes'[s] = new_subscribes[s]
<1>1. ASSUME NEW d \in Conns, Request(d) PROVE Kept
  BY <1>1, RequestKeeps
<1>2. ASSUME NEW k \in Calls, Apply(k), Busy
      PROVE  /\ InFirst(s, c) => InFirst(s, c)'
             /\ InSecond(s, c) => InSecond(s, c)'
  <2>1. CASE OnSubscribe(k.svc, lock)
    BY <2>1 DEF OnSubscribe, Calls
  <2>2. CASE OnUnsubscribe(k.svc, lock)
    <3>1. c \in subscribes'[s] \cup new_subscribes'[s]
      BY DEF Behind, Subscribers
    <3>2. ~(c \in subscribes[s] /\ c \in new_subscribes[s])
      BY DEF ServiceInv, TablesDisjoint
    <3> QED BY <2>2, <3>1, <3>2 DEF OnUnsubscribe, StillWaiting, Calls
  <2> QED BY <1>2, <2>1, <2>2 DEF Apply
<1>3. CASE Operation
  BY <1>2, <1>3 DEF Operation, CallDirectly, ReadSubscribes, ReadNewSubscribes, CallDecided,
     Finish, serviceVars
<1>4. ASSUME NEW t \in Services \ {s}, ThreadStep(t) PROVE Kept
  BY <1>4 DEF ThreadStep, Thread, Iterate, Reset, Exit, Broadcast, CallbackFails, CheckSnapshot,
     SendSnapshot, RestartSnapshot, Swap, Recover
<1>5. ASSUME NEW t \in Services, SourceChanges(t) PROVE Kept
  BY <1>5 DEF SourceChanges
<1>6. CASE StopServer
  BY <1>6 DEF StopServer, serviceVars
<1>7. ASSUME NEW t \in Services, Join(t) PROVE Kept
  BY <1>7 DEF Join
<1>8. CASE UNCHANGED vars
  BY <1>8 DEF vars, serviceVars
<1> QED BY <1>1, <1>3, <1>4, <1>5, <1>6, <1>7, <1>8 DEF Next, Stopped

\* A subscriber in the first table is served by the next callback: if what is
\* watched has not changed since the last broadcast, the subscriber has it.
LEMMA CallbackServes ==
  ASSUME LiveInv, NEW s \in NeedSnapshot, NEW c \in Conns, ThreadStep(s), FailuresCease,
         Behind(s, c), Behind(s, c)', In(s, "callback"), InFirst(s, c)
  PROVE  FALSE
<1> USE ServiceAssumption DEF LiveInv, Inv, TypeOK, ServiceTypeOK, InFirst, In
<1>1. Broadcast(s)
  <2>1. fails' = fails /\ fails \in Nat
    BY DEF FailuresCease
  <2> QED BY <2>1 DEF ThreadStep, Thread, Iterate, Reset, Exit, CallbackFails,
          CheckSnapshot, SendSnapshot, RestartSnapshot, Swap, Recover, At
<1>2. CASE source[s] # cached[s]
  <2>1. known'[s][c] = source[s]
    BY <1>1, <1>2 DEF Broadcast, Watched, Audience
  <2>2. source'[s] = source[s]
    BY <1>1 DEF Broadcast
  <2> QED BY <2>1, <2>2 DEF Behind
<1>3. CASE source[s] = cached[s]
  <2>1. cached[s] # NoVersion
    BY <1>3 DEF NoVersion
  <2>2. known[s][c] = cached[s]
    BY <2>1 DEF ServiceInv, SnapshotComplete, Behind
  <2> QED BY <1>3, <2>2 DEF Behind
<1> QED BY <1>2, <1>3

\* Where the thread of a service that sends goes with a subscriber behind.
LEMMA SendingSteps ==
  ASSUME LiveInv, NEW s \in NeedSnapshot \ Restarting, NEW c \in Conns, ThreadStep(s),
         FailuresCease, Behind(s, c), Behind(s, c)'
  PROVE  /\ In(s, "loop") => In(s, "callback")'
         /\ In(s, "callback") => In(s, "check")' /\ ~InFirst(s, c)
         /\ In(s, "check") => In(s, "snapshot")' \/ (In(s, "loop")' /\ ~InSecond(s, c))
         /\ In(s, "snapshot") => In(s, "drop")'
         /\ In(s, "drop") => In(s, "loop")' /\ InFirst(s, c)'
         /\ In(s, "dropErr") => In(s, "fail")' /\ InFirst(s, c)'
         /\ In(s, "fail") => In(s, "loop")'
         /\ InFirst(s, c) => InFirst(s, c)'
         /\ InSecond(s, c) => InSecond(s, c)' \/ InFirst(s, c)'
         /\ ~In(s, "exited")
<1> USE ServiceAssumption, BehindGoesOn
        DEF LiveInv, Inv, TypeOK, ServiceTypeOK, InFirst, InSecond, In, At, Goto, IsActive
<1>1. ~(In(s, "callback") /\ InFirst(s, c))
  BY CallbackServes
<1>2. CASE Iterate(s) \/ Reset(s) \/ Exit(s)
  <2>1. HasSubscribes(s)
    BY DEF Behind, HasSubscribes
  <2> QED BY <1>2, <2>1 DEF Iterate, Reset, Exit
<1>3. CASE Broadcast(s)
  BY <1>1, <1>3 DEF Broadcast, AfterBroadcast
<1>4. CASE CallbackFails(s)
  <2>1. fails' = fails /\ fails \in Nat
    BY DEF FailuresCease
  <2> QED BY <1>4, <2>1 DEF CallbackFails
<1>5. CASE CheckSnapshot(s) \/ SendSnapshot(s) \/ RestartSnapshot(s)
  BY <1>5 DEF CheckSnapshot, SendSnapshot, RestartSnapshot, SomebodyWaits, AfterSnapshot
<1>6. CASE Swap(s)
  BY <1>6 DEF Swap, Swapped, AfterSnapshot
<1>7. CASE Recover(s)
  BY <1>7 DEF Recover
<1> QED BY <1>2, <1>3, <1>4, <1>5, <1>6, <1>7 DEF ThreadStep, Thread

\* Whoever is behind gets from the second table into the first one, and is served
\* there.
LEMMA NobodyStaysBehind ==
  ASSUME NEW s \in NeedSnapshot \ Restarting, NEW c \in Conns
  PROVE  ~(Runs(s) /\ [][FailuresCease]_vars /\ []Behind(s, c))
<1> USE ServiceAssumption
<1> DEFINE Step == /\ LiveInv /\ [Next]_vars /\ [FailuresCease]_vars
                   /\ Behind(s, c) /\ Behind(s, c)'
<1> DEFINE First == InFirst(s, c)
<1>1. Step => /\ In(s, "loop") => In(s, "loop")' \/ In(s, "callback")'
              /\ In(s, "callback") => In(s, "callback")' \/ In(s, "check")'
              /\ In(s, "check") /\ InSecond(s, c) => In(s, "check")' \/ In(s, "snapshot")'
              /\ In(s, "check") => \/ In(s, "check")' \/ In(s, "snapshot")' \/ In(s, "loop")'
              /\ In(s, "snapshot") => In(s, "snapshot")' \/ In(s, "drop")'
              /\ In(s, "drop") => In(s, "drop")' \/ (In(s, "loop")' /\ First')
              /\ In(s, "dropErr") => In(s, "dropErr")' \/ In(s, "fail")'
              /\ In(s, "fail") => In(s, "fail")' \/ In(s, "loop")'
              /\ First => First'
  BY StutterFailures, SendingSteps, OthersLeave, OthersKeepTables DEF In
<1>2. Step /\ <<ThreadStep(s)>>_vars
        => /\ In(s, "loop") => In(s, "callback")'
           /\ In(s, "callback") => In(s, "check")' /\ ~First
           /\ In(s, "check") => In(s, "snapshot")' \/ In(s, "loop")'
           /\ In(s, "check") /\ InSecond(s, c) => In(s, "snapshot")'
           /\ In(s, "snapshot") => In(s, "drop")'
           /\ In(s, "drop") => In(s, "loop")' /\ First'
           /\ In(s, "dropErr") => In(s, "fail")'
           /\ In(s, "fail") => In(s, "loop")'
  BY StutterFailures, SendingSteps
<1>3. LiveInv => \/ In(s, "loop") \/ In(s, "fail") \/ In(s, "dropErr") \/ In(s, "drop")
                 \/ In(s, "snapshot") \/ In(s, "callback") \/ In(s, "check")
                 \/ In(s, "exited")
  BY DEF LiveInv, Inv, TypeOK, ServiceTypeOK, Locations, In
<1>4. LiveInv /\ Behind(s, c) => ~In(s, "exited") /\ (First \/ InSecond(s, c))
  BY BehindGoesOn DEF In, CanGoOn
<1>5. LiveInv /\ NeverBlocked /\ Behind(s, c) => ENABLED <<ThreadStep(s)>>_vars
  <2>1. LiveInv /\ Behind(s, c) => CanGoOn(s)
    BY BehindGoesOn
  <2>2. NeverBlocked /\ CanGoOn(s) => ENABLED <<ThreadStep(s)>>_vars
    BY DEF NeverBlocked, CanGoOn, At
  <2> QED BY <2>1, <2>2
<1>6. Step /\ First /\ In(s, "callback") => In(s, "callback")'
  BY StutterFailures, SendingSteps, OthersLeave DEF In
<1> HIDE DEF First
<1> DEFINE Stays == Runs(s) /\ [][FailuresCease]_vars /\ []Behind(s, c)
<1>11. Stays => (In(s, "loop") ~> In(s, "callback"))
  BY <1>1, <1>2, <1>5, PTL DEF Runs, ThreadFairness
<1>12. Stays => (In(s, "callback") ~> In(s, "check"))
  BY <1>1, <1>2, <1>5, PTL DEF Runs, ThreadFairness
<1>13. Stays => (In(s, "check") ~> In(s, "snapshot") \/ First)
  BY <1>1, <1>2, <1>4, <1>5, PTL DEF Runs, ThreadFairness
<1>14. Stays => (In(s, "snapshot") ~> In(s, "drop"))
  BY <1>1, <1>2, <1>5, PTL DEF Runs, ThreadFairness
<1>15. Stays => (In(s, "drop") ~> First /\ In(s, "loop"))
  BY <1>1, <1>2, <1>5, PTL DEF Runs, ThreadFairness
<1>16. Stays => (In(s, "dropErr") ~> In(s, "fail"))
  BY <1>1, <1>2, <1>5, PTL DEF Runs, ThreadFairness
<1>17. Stays => (In(s, "fail") ~> In(s, "loop"))
  BY <1>1, <1>2, <1>5, PTL DEF Runs, ThreadFairness
<1>18. Stays => (In(s, "check") ~> In(s, "snapshot") \/ In(s, "loop"))
  BY <1>1, <1>2, <1>5, PTL DEF Runs, ThreadFairness
<1>19. Stays => ~<>(First /\ In(s, "callback"))
  BY <1>1, <1>2, <1>5, <1>6, PTL DEF Runs, ThreadFairness
<1>20. Stays => [](First => []First)
  BY <1>1, PTL DEF Runs
<1>21. Stays => []LiveInv /\ []~In(s, "exited")
  BY <1>4, PTL DEF Runs
<1>22. Stays => []<>In(s, "callback")
  BY <1>3, <1>11, <1>14, <1>15, <1>16, <1>17, <1>18, <1>21, PTL
<1> QED BY <1>12, <1>13, <1>14, <1>15, <1>19, <1>20, <1>22, PTL

CaughtUp(s, c) ==
  c \in Subscribers(s) ~>
    \/ c \notin Subscribers(s) \/ stopping
    \/ c \in late[s] \/ known[s][c] = source[s]

LEMMA CatchesUp ==
  ASSUME NEW s \in NeedSnapshot \ Restarting, NEW c \in Conns
  PROVE  Runs(s) /\ <>[][FailuresCease]_vars => CaughtUp(s, c)
<1>1. ~(Runs(s) /\ [][FailuresCease]_vars /\ []Behind(s, c))
  BY NobodyStaysBehind
<1>2. Runs(s) => []Runs(s)
  BY PTL DEF Runs, ThreadFairness
<1>3. ~Behind(s, c) <=> \/ c \notin Subscribers(s) \/ stopping
                        \/ c \in late[s] \/ known[s][c] = source[s]
  BY DEF Behind
<1> QED BY <1>1, <1>2, <1>3, PTL DEF CaughtUp

\* A subscriber of a service that sends ends up with what the service watches,
\* for any number of services and connections that come and go as they like, and
\* however often what it watches changes, if callbacks fail finitely often.
THEOREM SubscribersCatchUp ==
  FairSpec /\ []NeverBlocked /\ <>[][FailuresCease]_vars => SubscriberCatchesUp
<1>1. ASSUME NEW s \in NeedSnapshot \ Restarting, NEW c \in Conns
      PROVE  FairSpec /\ []NeverBlocked /\ <>[][FailuresCease]_vars => CaughtUp(s, c)
  <2>1. s \in Services
    BY ServiceAssumption
  <2>2. FairSpec /\ []NeverBlocked => Runs(s)
    BY <2>1, FairRuns
  <2>3. Runs(s) /\ <>[][FailuresCease]_vars => CaughtUp(s, c)
    BY CatchesUp
  <2> QED BY <2>2, <2>3
<1>2. FairSpec /\ []NeverBlocked /\ <>[][FailuresCease]_vars
        => \A s \in NeedSnapshot \ Restarting, c \in Conns : CaughtUp(s, c)
  BY <1>1
<1> QED BY <1>2 DEF SubscriberCatchesUp, CaughtUp
-----------------------------------------------------------------------------
(* Subscribers of a service that restarts catch up when nobody comes or    *)
(* goes.                                                                   *)

\* what is watched does not change any more, nor do callbacks return errors
WorldRests == UNCHANGED <<source, fails>>
NobodyOperates == lock = Nobody

LEMMA StutterRests == [WorldRests]_vars => WorldRests
BY DEF WorldRests, vars, serviceVars

NoneWait(s) == new_subscribes[s] = {}

\* With nobody at the lock only the thread of a service touches its tables.
LEMMA QuietTables ==
  ASSUME LiveInv, [Next]_vars, NEW s \in Services, ~ThreadStep(s),
         NobodyOperates, NobodyOperates', WorldRests
  PROVE  /\ subscribes'[s] = subscribes[s] /\ new_subscribes'[s] = new_subscribes[s]
         /\ known'[s] = known[s] /\ late'[s] = late[s] /\ source'[s] = source[s]
         /\ stopping => stopping'
<1> USE DEF LiveInv, Inv, TypeOK, ServiceTypeOK
<1>1. ASSUME NEW d \in Conns PROVE ~Request(d)
  BY RequestKeeps, ServerAssumption DEF NobodyOperates
<1>2. ~Operation
  BY OperationKeeps DEF Busy, NobodyOperates
<1>3. ASSUME NEW t \in Services \ {s}, ThreadStep(t)
      PROVE  /\ subscribes'[s] = subscribes[s] /\ new_subscribes'[s] = new_subscribes[s]
             /\ known'[s] = known[s] /\ late'[s] = late[s] /\ source' = source
             /\ stopping' = stopping
  BY <1>3 DEF ThreadStep, Thread, Iterate, Reset, Exit, Broadcast, CallbackFails, CheckSnapshot,
     SendSnapshot, RestartSnapshot, Swap, Recover, serverVars
<1>4. ASSUME NEW t \in Services PROVE ~SourceChanges(t)
  BY DEF SourceChanges, WorldRests
<1>5. CASE StopServer
  BY <1>5 DEF StopServer, serviceVars
<1>6. ASSUME NEW t \in Services, Join(t) PROVE UNCHANGED <<stopping, subscribes, new_subscribes, known, late, source>>
  BY <1>6 DEF Join, serverVars
<1>7. CASE UNCHANGED vars
  BY <1>7 DEF vars, serviceVars, serverVars
<1> QED BY <1>1, <1>2, <1>3, <1>4, <1>5, <1>6, <1>7 DEF Next, Stopped

\* Where the thread of a service that restarts goes with a subscriber behind.
LEMMA RestartingSteps ==
  ASSUME LiveInv, NEW s \in Restarting, NEW c \in Conns, ThreadStep(s), WorldRests,
         Behind(s, c), Behind(s, c)'
  PROVE  /\ In(s, "loop") => In(s, "check")'
         /\ In(s, "callback") => In(s, "loop")' /\ ~InFirst(s, c)
         /\ In(s, "check") /\ NoneWait(s) => In(s, "callback")'
         /\ In(s, "check") /\ ~NoneWait(s) => In(s, "snapshot")'
         /\ In(s, "snapshot") => In(s, "dropErr")'
         /\ In(s, "drop") => In(s, "callback")' /\ InFirst(s, c)'
         /\ In(s, "dropErr") => In(s, "fail")' /\ InFirst(s, c)' /\ NoneWait(s)'
         /\ In(s, "fail") => In(s, "loop")'
         /\ InFirst(s, c) => InFirst(s, c)'
         /\ NoneWait(s) => NoneWait(s)'
         /\ ~In(s, "exited")
<1> USE ServiceAssumption, BehindGoesOn
        DEF LiveInv, Inv, TypeOK, ServiceTypeOK, InFirst, InSecond, In, At, Goto, IsActive, NoneWait
<1>1. ~(In(s, "callback") /\ InFirst(s, c))
  <2>1. FailuresCease
    BY DEF WorldRests, FailuresCease
  <2> QED BY <2>1, CallbackServes
<1>2. CASE Iterate(s) \/ Reset(s) \/ Exit(s)
  <2>1. HasSubscribes(s)
    BY DEF Behind, HasSubscribes
  <2> QED BY <1>2, <2>1 DEF Iterate, Reset, Exit
<1>3. CASE Broadcast(s)
  BY <1>1, <1>3 DEF Broadcast, AfterBroadcast
<1>4. CASE CallbackFails(s)
  <2>1. fails' = fails /\ fails \in Nat
    BY DEF WorldRests
  <2> QED BY <1>4, <2>1 DEF CallbackFails
<1>5. CASE CheckSnapshot(s) \/ SendSnapshot(s)
  BY <1>5 DEF CheckSnapshot, SendSnapshot, SomebodyWaits, AfterSnapshot
<1>6. CASE RestartSnapshot(s)
  <2>1. CASE subscribes[s] # {}
    BY <1>6, <2>1 DEF RestartSnapshot
  <2>2. CASE subscribes[s] = {}
    <3>1. c \in new_subscribes[s]
      BY <2>2
    <3>2. c \in late'[s]
      BY <1>6, <2>2, <3>1 DEF RestartSnapshot
    <3> QED BY <3>2 DEF Behind
  <2> QED BY <2>1, <2>2
<1>7. CASE Swap(s)
  BY <1>7 DEF Swap, Swapped, AfterSnapshot
<1>8. CASE Recover(s)
  BY <1>8 DEF Recover
<1> QED BY <1>2, <1>3, <1>4, <1>5, <1>6, <1>7, <1>8 DEF ThreadStep, Thread

\* Who has caught up stays so: the thread only sends the version that is there.
LEMMA StaysCaughtUp ==
  ASSUME LiveInv, [Next]_vars, NEW s \in Restarting, NEW c \in Conns,
         NobodyOperates, NobodyOperates', WorldRests, ~Behind(s, c)
  PROVE  ~Behind(s, c)'
<1> USE ServiceAssumption DEF LiveInv, Inv, TypeOK, ServiceTypeOK
<1>1. CASE ~ThreadStep(s)
  BY <1>1, QuietTables DEF Behind, Subscribers
<1>2. CASE ThreadStep(s)
  <2>1. Subscribers(s)' = Subscribers(s)
    BY <1>2, ThreadEffect DEF ThreadStep
  <2>2. stopping' = stopping /\ source' = source
    BY <1>2 DEF ThreadStep, serverVars, WorldRests
  <2>3. CASE Broadcast(s)
    BY <2>1, <2>2, <2>3 DEF Broadcast, Watched, Audience, Behind
  <2>4. CASE ~Broadcast(s)
    <3>1. known' = known /\ late[s] \subseteq late'[s]
      BY <1>2, <2>4 DEF ThreadStep, Thread, Iterate, Reset, Exit, CallbackFails, CheckSnapshot,
         SendSnapshot, RestartSnapshot, Swap, Recover
    <3> QED BY <2>1, <2>2, <3>1 DEF Behind
  <2> QED BY <2>3, <2>4
<1> QED BY <1>1, <1>2

\* Whoever is behind is swapped into the first table, nobody waits from then on,
\* and the next broadcast goes to all.
LEMMA NobodyStaysBehindForGood ==
  ASSUME NEW s \in Restarting, NEW c \in Conns
  PROVE  ~(Runs(s) /\ [][WorldRests]_vars /\ []NobodyOperates /\ []Behind(s, c))
<1> USE ServiceAssumption
<1> DEFINE Step == /\ LiveInv /\ [Next]_vars /\ [WorldRests]_vars
                   /\ NobodyOperates /\ NobodyOperates' /\ Behind(s, c) /\ Behind(s, c)'
<1> DEFINE First == InFirst(s, c)
<1> DEFINE None == NoneWait(s)
<1>1. Step => /\ In(s, "loop") => In(s, "loop")' \/ In(s, "check")'
              /\ In(s, "callback") => In(s, "callback")' \/ In(s, "loop")'
              /\ In(s, "callback") /\ First => In(s, "callback")'
              /\ In(s, "check") /\ ~None => In(s, "check")' \/ In(s, "snapshot")'
              /\ In(s, "check") /\ None => In(s, "check")' \/ In(s, "callback")'
              /\ In(s, "snapshot") => In(s, "snapshot")' \/ In(s, "dropErr")'
              /\ In(s, "drop") => In(s, "drop")' \/ In(s, "callback")'
              /\ In(s, "dropErr") => In(s, "dropErr")' \/ (In(s, "fail")' /\ First' /\ None')
              /\ In(s, "fail") => In(s, "fail")' \/ In(s, "loop")'
              /\ First => First'
              /\ None => None'
  <2>1. LiveInv /\ [Next]_vars /\ WorldRests /\ NobodyOperates /\ NobodyOperates' /\ ~ThreadStep(s)
          => (First => First') /\ (None => None')
    BY QuietTables DEF InFirst, NoneWait
  <2> QED BY <2>1, StutterRests, RestartingSteps, OthersLeave DEF In
<1>2. Step /\ <<ThreadStep(s)>>_vars
        => /\ In(s, "loop") => In(s, "check")'
           /\ In(s, "callback") => In(s, "loop")' /\ ~First
           /\ In(s, "check") /\ None => In(s, "callback")'
           /\ In(s, "check") /\ ~None => In(s, "snapshot")'
           /\ In(s, "snapshot") => In(s, "dropErr")'
           /\ In(s, "drop") => In(s, "callback")'
           /\ In(s, "dropErr") => In(s, "fail")' /\ First' /\ None'
           /\ In(s, "fail") => In(s, "loop")'
  BY StutterRests, RestartingSteps
<1>3. LiveInv => \/ In(s, "loop") \/ In(s, "fail") \/ In(s, "dropErr") \/ In(s, "drop")
                 \/ In(s, "snapshot") \/ In(s, "callback") \/ In(s, "check")
                 \/ In(s, "exited")
  BY DEF LiveInv, Inv, TypeOK, ServiceTypeOK, Locations, In
<1>4. LiveInv /\ Behind(s, c) => ~In(s, "exited") /\ (First \/ ~None)
  BY BehindGoesOn DEF In, CanGoOn, InFirst, InSecond, NoneWait
<1>5. LiveInv /\ NeverBlocked /\ Behind(s, c) => ENABLED <<ThreadStep(s)>>_vars
  <2>1. LiveInv /\ Behind(s, c) => CanGoOn(s)
    BY BehindGoesOn
  <2>2. NeverBlocked /\ CanGoOn(s) => ENABLED <<ThreadStep(s)>>_vars
    BY DEF NeverBlocked, CanGoOn, At
  <2> QED BY <2>1, <2>2
<1> HIDE DEF First, None
<1> DEFINE Stays == Runs(s) /\ [][WorldRests]_vars /\ []NobodyOperates /\ []Behind(s, c)
<1>11. Stays => (In(s, "loop") ~> In(s, "check"))
  BY <1>1, <1>2, <1>5, PTL DEF Runs, ThreadFairness
<1>12. Stays => (In(s, "callback") ~> In(s, "loop"))
  BY <1>1, <1>2, <1>5, PTL DEF Runs, ThreadFairness
<1>13. Stays => (In(s, "check") ~> In(s, "snapshot") \/ (In(s, "callback") /\ First))
  BY <1>1, <1>2, <1>4, <1>5, PTL DEF Runs, ThreadFairness
<1>14. Stays => (In(s, "snapshot") ~> In(s, "dropErr"))
  BY <1>1, <1>2, <1>5, PTL DEF Runs, ThreadFairness
<1>15. Stays => (In(s, "drop") ~> In(s, "callback"))
  BY <1>1, <1>2, <1>5, PTL DEF Runs, ThreadFairness
<1>16. Stays => (In(s, "dropErr") ~> In(s, "fail") /\ First /\ None)
  BY <1>1, <1>2, <1>5, PTL DEF Runs, ThreadFairness
<1>17. Stays => (In(s, "fail") ~> In(s, "loop"))
  BY <1>1, <1>2, <1>5, PTL DEF Runs, ThreadFairness
<1>18. Stays => ~<>(First /\ In(s, "callback"))
  BY <1>1, <1>2, <1>5, PTL DEF Runs, ThreadFairness
<1>19. Stays => [](First => []First) /\ [](None => []None)
  BY <1>1, PTL DEF Runs
<1>20. Stays => []LiveInv /\ []~In(s, "exited")
  BY <1>4, PTL DEF Runs
<1>21. Stays => (First /\ None /\ In(s, "check") ~> In(s, "callback"))
  BY <1>1, <1>2, <1>5, PTL DEF Runs, ThreadFairness
<1>22. Stays => []<>In(s, "check")
  BY <1>3, <1>11, <1>12, <1>14, <1>15, <1>16, <1>17, <1>20, PTL
<1>23. Stays => <>(First /\ None)
  BY <1>13, <1>14, <1>16, <1>18, <1>22, PTL
<1> QED BY <1>18, <1>19, <1>21, <1>22, <1>23, PTL

CaughtUpForGood(s, c) ==
  <>[](\/ c \notin Subscribers(s) \/ stopping
       \/ c \in late[s] \/ known[s][c] = source[s])

LEMMA CatchesUpForGood ==
  ASSUME NEW s \in Restarting, NEW c \in Conns
  PROVE  Runs(s) /\ <>[][WorldRests]_vars /\ <>[]NobodyOperates => CaughtUpForGood(s, c)
<1>1. ~(Runs(s) /\ [][WorldRests]_vars /\ []NobodyOperates /\ []Behind(s, c))
  BY NobodyStaysBehindForGood
<1>2. Runs(s) => []Runs(s)
  BY PTL DEF Runs, ThreadFairness
<1>3. ~Behind(s, c) <=> \/ c \notin Subscribers(s) \/ stopping
                        \/ c \in late[s] \/ known[s][c] = source[s]
  BY DEF Behind
<1>4. LiveInv /\ [Next]_vars /\ NobodyOperates /\ NobodyOperates' /\ [WorldRests]_vars /\ ~Behind(s, c)
        => ~Behind(s, c)'
  BY StaysCaughtUp, StutterRests
<1>5. Runs(s) => []LiveInv /\ [][Next]_vars
  BY PTL DEF Runs
<1> QED BY <1>1, <1>2, <1>3, <1>4, <1>5, PTL DEF CaughtUpForGood

\* So do the subscribers of a service that starts over for every newcomer, once
\* connections stop coming and going, if what it watches and the failures come to
\* rest.
THEOREM SubscribersCatchUpWhenQuiet ==
  FairSpec /\ []NeverBlocked /\ <>[][WorldRests]_vars => SubscriberCatchesUpWhenQuiet
<1>1. ASSUME NEW s \in Restarting, NEW c \in Conns
      PROVE  FairSpec /\ []NeverBlocked /\ <>[][WorldRests]_vars /\ <>[]NobodyOperates
               => CaughtUpForGood(s, c)
  <2>1. s \in Services
    BY ServiceAssumption
  <2>2. FairSpec /\ []NeverBlocked => Runs(s)
    BY <2>1, FairRuns
  <2>3. Runs(s) /\ <>[][WorldRests]_vars /\ <>[]NobodyOperates => CaughtUpForGood(s, c)
    BY CatchesUpForGood
  <2> QED BY <2>2, <2>3
<1>2. FairSpec /\ []NeverBlocked /\ <>[][WorldRests]_vars /\ <>[]NobodyOperates
        => \A s \in Restarting, c \in Conns : CaughtUpForGood(s, c)
  BY <1>1
<1> QED BY <1>2 DEF SubscriberCatchesUpWhenQuiet, CaughtUpForGood, NobodyOperates
=============================================================================
