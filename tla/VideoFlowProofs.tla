-------------------------- MODULE VideoFlowProofs --------------------------
(***************************************************************************)
(* Proofs about VideoFlow, for any number of connections and displays:     *)
(* first what every state and step keeps, then, under the fairness of the  *)
(* threads, that waits end and refresh requests are served.                *)
(***************************************************************************)
EXTENDS VideoFlow, FiniteSetTheorems, SequenceTheorems, TLAPS

LEMMA Bounds ==
  /\ MaxQueue \in Nat /\ MaxAcks \in Nat /\ MaxRefreshes \in Nat /\ MaxChanges \in Nat
  /\ MaxFails \in Nat /\ MaxForgiven \in Nat /\ Nobody \notin Displays
BY VideoFlowAssumption

\* What one thread is at.
ThreadType ==
  /\ loc \in [Displays -> Locations]
  /\ encoder \in [Displays -> {"none", "fresh", "running"}]
  /\ awaiting \in [Displays -> SUBSET Conns]
  /\ fetched \in [Displays -> SUBSET Conns]
  /\ expired \in [Displays -> BOOLEAN]
  /\ receiver \in Displays \cup {Nobody}
  /\ \A s \in Displays : receiver = s <=> loc[s] = "receive"

\* What goes between the threads and the connections.
ChannelType ==
  /\ acks \in Seq(Conns)
  /\ frames \in [Conns -> Seq(Displays)]
  /\ \A c \in Conns : Len(frames[c]) <= MaxQueue

TableType ==
  /\ subs \in [Displays -> SUBSET Conns]
  /\ news \in [Displays -> SUBSET Conns]
  /\ refresh \in [Displays -> BOOLEAN]
  /\ outdated \in [Displays -> SUBSET Changes]
  /\ ended \subseteq Conns
  /\ removed \subseteq ended
  /\ refreshes \in 0 .. MaxRefreshes
  /\ changes \in 0 .. MaxChanges
  /\ fails \in 0 .. MaxFails
  /\ owed \subseteq Displays

\* A wait that is not over still needs an acknowledgement, and the next one
\* starts from none.
WaitsForSome ==
  \A s \in Displays :
    IF Waiting(s) THEN Cardinality(fetched[s]) <= Cardinality(awaiting[s])
                  ELSE fetched[s] = {}

\* OPTION_REFRESH is only cleared where the encoder has not sent a frame yet.
EncoderFollows ==
  \A s \in Displays :
    encoder[s] \in CASE loc[s] = "idle" -> {"none"}
                     [] loc[s] = "ready" -> {"fresh"}
                     [] OTHER -> {"fresh", "running"}

VideoInv ==
  /\ ThreadType /\ ChannelType /\ TableType /\ WaitsForSome /\ EncoderFollows
  /\ forgiven \in 0 .. MaxForgiven
  /\ RefreshNotLost

-----------------------------------------------------------------------------
(* Finite sets and sequences.                                              *)

LEMMA Finite ==
  ASSUME NEW set \in SUBSET Conns
  PROVE  IsFiniteSet(set) /\ Cardinality(set) \in Nat
BY VideoFlowAssumption, FS_Subset, FS_CardinalityType

LEMMA Growing ==
  ASSUME NEW set \in SUBSET Conns, NEW c \in Conns
  PROVE  /\ Cardinality(set \cup {c}) \in {Cardinality(set), Cardinality(set) + 1}
         /\ Cardinality({}) = 0
BY Finite, FS_AddElement, FS_EmptySet

LEMMA MinOfTwo ==
  ASSUME NEW a \in Nat, NEW b \in Nat
  PROVE  Min({a, b}) = IF a <= b THEN a ELSE b
<1>1. PICK m \in {a, b} : \A y \in {a, b} : m =< y
  OBVIOUS
<1>2. Min({a, b}) \in {a, b} /\ \A y \in {a, b} : Min({a, b}) =< y
  BY <1>1 DEF Min
<1> QED BY <1>2

LEMMA Appending ==
  ASSUME NEW S, NEW seq \in Seq(S), NEW x \in S
  PROVE  /\ Append(seq, x) \in Seq(S) /\ Len(Append(seq, x)) = Len(seq) + 1
         /\ Len(seq) \in Nat
         /\ Append(seq, x)[Len(seq) + 1] = x
         /\ \A i \in 1 .. Len(seq) : Append(seq, x)[i] = seq[i]
OBVIOUS

LEMMA Taking ==
  ASSUME NEW S, NEW seq \in Seq(S), seq # <<>>
  PROVE  /\ Tail(seq) \in Seq(S) /\ Len(Tail(seq)) = Len(seq) - 1 /\ Len(seq) \in Nat \ {0}
         /\ Head(seq) \in S /\ Head(seq) = seq[1]
         /\ \A i \in 1 .. Len(Tail(seq)) : Tail(seq)[i] = seq[i + 1]
BY EmptySeq, HeadTailProperties

LEMMA Empty == ASSUME NEW S PROVE <<>> \in Seq(S) /\ Len(<<>>) = 0
BY EmptySeq

-----------------------------------------------------------------------------
(* The steps of a thread.                                                  *)

\* A thread that gives up forgives what it still waited for.
LEMMA Forgiving ==
  ASSUME VideoInv, NEW s \in Displays, Waiting(s), GiveUp(s)
  PROVE  /\ forgiven' \in 0 .. MaxForgiven
         /\ Missing(s) \in Nat
         /\ forgiven' < MaxForgiven => forgiven' = forgiven + Missing(s) /\ forgiven < MaxForgiven
<1>1. Cardinality(awaiting[s]) \in Nat /\ Cardinality(fetched[s]) \in Nat
  BY Finite DEF VideoInv, ThreadType
<1>2. Missing(s) \in Nat
  BY <1>1 DEF Missing, VideoInv, WaitsForSome
<1>3. forgiven' = IF MaxForgiven <= forgiven + Missing(s) THEN MaxForgiven
                                                         ELSE forgiven + Missing(s)
  BY <1>2, Bounds, MinOfTwo DEF GiveUp, VideoInv
<1> QED BY <1>2, <1>3, Bounds DEF VideoInv

LEMMA InitHolds == Init => VideoInv
<1> SUFFICES ASSUME Init PROVE VideoInv
  OBVIOUS
<1> USE Bounds
<1>1. ThreadType
  BY DEF Init, ThreadType, Locations
<1>2. ChannelType
  BY Empty DEF Init, ChannelType
<1>3. TableType
  BY DEF Init, TableType
<1>4. WaitsForSome
  BY DEF Init, WaitsForSome, Waiting
<1>6. EncoderFollows
  BY DEF Init, EncoderFollows
<1>5. RefreshNotLost /\ forgiven \in 0 .. MaxForgiven
  BY DEF Init, RefreshNotLost
<1> QED BY <1>1, <1>2, <1>3, <1>4, <1>5, <1>6 DEF VideoInv
-----------------------------------------------------------------------------
(* The steps of a thread, conjunct by conjunct.                            *)

LEMMA ThreadTypeKept ==
  ASSUME VideoInv, NEW s \in Displays, Thread(s) \/ Expire(s)
  PROVE  ThreadType' /\ EncoderFollows'
<1> USE Bounds DEF VideoInv, ThreadType, EncoderFollows, Locations, At, Goto
<1>1. CASE SetUp(s)
  BY <1>1 DEF SetUp, NewEncoder, control
<1>2. CASE SetUpFails(s)
  BY <1>2 DEF SetUpFails, control
<1>3. CASE ClearRefresh(s)
  BY <1>3 DEF ClearRefresh, control
<1>4. CASE Quit(s)
  BY <1>4 DEF Quit, Leave, control
<1>5. CASE Capture(s)
  BY <1>5 DEF Capture, control
<1>6. CASE NoFrame(s)
  BY <1>6 DEF NoFrame, control
<1>7. CASE Fail(s)
  BY <1>7 DEF Fail, Leave, control
<1>8. CASE Snapshot(s)
  <2>1. CASE news[s] # {} /\ subs[s] # {}
    <3>1. Leave(s) /\ At(s, "snapshot") /\ receiver' = receiver
      BY <1>8, <2>1 DEF Snapshot
    <3> QED BY <3>1 DEF Leave
  <2>2. CASE ~(news[s] # {} /\ subs[s] # {})
    BY <1>8, <2>2 DEF Snapshot, control
  <2> QED BY <2>1, <2>2
<1>9. CASE EncodeAndSend(s)
  <2>1. subs[s] \in SUBSET Conns
    BY DEF TableType
  <2> QED BY <1>9, <2>1 DEF EncodeAndSend, Remembered, control
<1>10. CASE EncodeFails(s)
  BY <1>10 DEF EncodeFails, control
<1>11. CASE GiveUpWaiting(s)
  BY <1>11 DEF GiveUpWaiting, Proceed, control
<1>12. CASE PrivacySwitch(s)
  BY <1>12 DEF PrivacySwitch, Leave, control
<1>13. CASE TryWaitNext(s)
  BY <1>13 DEF TryWaitNext, Proceed, control
<1>14. CASE LockReceiver(s)
  BY <1>14 DEF LockReceiver, control
<1>15. CASE Receive(s)
  <2>1. Head(acks) \in Conns
    BY <1>15, Taking DEF ChannelType, Receive
  <2>2. fetched[s] \cup {Head(acks)} \in SUBSET Conns
    BY <2>1
  <2>3. CASE Satisfied(s, fetched[s] \cup {Head(acks)})
    BY <1>15, <2>3 DEF Receive, Released, Proceed, control
  <2>4. CASE ~Satisfied(s, fetched[s] \cup {Head(acks)})
    BY <1>15, <2>2, <2>4 DEF Receive, Released, control
  <2> QED BY <2>3, <2>4
<1>16. CASE ReceiveTimeout(s)
  BY <1>16 DEF ReceiveTimeout, Released, control
<1>17. CASE Expire(s)
  BY <1>17 DEF Expire, Waiting, control
<1> QED BY <1>1, <1>2, <1>3, <1>4, <1>5, <1>6, <1>7, <1>8, <1>9, <1>10, <1>11, <1>12, <1>13, <1>14, <1>15, <1>16, <1>17 DEF Thread

LEMMA ThreadTables ==
  ASSUME VideoInv, NEW s \in Displays, Thread(s) \/ Expire(s)
  PROVE  TableType'
<1> USE Bounds DEF VideoInv, TableType, Locations
<1>1. CASE SetUp(s)
  BY <1>1 DEF SetUp, NewEncoder, control, tables, requests, connVars
<1>2. CASE SetUpFails(s)
  BY <1>2 DEF SetUpFails, control, tables, requests, connVars
<1>3. CASE ClearRefresh(s)
  BY <1>3 DEF ClearRefresh, control, tables, requests, connVars
<1>4. CASE Quit(s)
  BY <1>4 DEF Quit, Leave, control, tables, requests, connVars
<1>5. CASE Capture(s)
  BY <1>5 DEF Capture, control, tables, requests, connVars
<1>6. CASE NoFrame(s)
  BY <1>6 DEF NoFrame, control, tables, requests, connVars
<1>7. CASE Fail(s)
  BY <1>7 DEF Fail, Leave, control, tables, requests, connVars
<1>8. CASE Snapshot(s)
  BY <1>8 DEF Snapshot, Leave, control, tables, requests, connVars
<1>9. CASE EncodeAndSend(s)
  BY <1>9 DEF EncodeAndSend, Remembered, control, tables, requests, connVars
<1>10. CASE EncodeFails(s)
  BY <1>10 DEF EncodeFails, control, tables, requests, connVars
<1>11. CASE GiveUpWaiting(s)
  BY <1>11 DEF GiveUpWaiting, Proceed, control, tables, requests, connVars
<1>12. CASE PrivacySwitch(s)
  BY <1>12 DEF PrivacySwitch, Leave, control, tables, requests, connVars
<1>13. CASE TryWaitNext(s)
  BY <1>13 DEF TryWaitNext, Proceed, control, tables, requests, connVars
<1>14. CASE LockReceiver(s)
  BY <1>14 DEF LockReceiver, control, tables, requests, connVars
<1>15. CASE Receive(s)
  BY <1>15 DEF Receive, Released, Proceed, control, tables, requests, connVars
<1>16. CASE ReceiveTimeout(s)
  BY <1>16 DEF ReceiveTimeout, Released, control, tables, requests, connVars
<1>17. CASE Expire(s)
  BY <1>17 DEF Expire, control, tables, requests, connVars
<1> QED BY <1>1, <1>2, <1>3, <1>4, <1>5, <1>6, <1>7, <1>8, <1>9, <1>10, <1>11, <1>12, <1>13, <1>14, <1>15, <1>16, <1>17 DEF Thread

LEMMA ThreadChannel ==
  ASSUME VideoInv, NEW s \in Displays, Thread(s) \/ Expire(s)
  PROVE  ChannelType'
<1> USE Bounds DEF VideoInv, ChannelType
<1>1. CASE SetUp(s)
  BY <1>1 DEF SetUp, NewEncoder, control
<1>2. CASE SetUpFails(s)
  BY <1>2 DEF SetUpFails, control
<1>3. CASE ClearRefresh(s)
  BY <1>3 DEF ClearRefresh, control
<1>4. CASE Quit(s)
  BY <1>4 DEF Quit, Leave, control
<1>5. CASE Capture(s)
  BY <1>5 DEF Capture, control
<1>6. CASE NoFrame(s)
  BY <1>6 DEF NoFrame, control
<1>7. CASE Fail(s)
  BY <1>7 DEF Fail, Leave, control
<1>8. CASE Snapshot(s)
  BY <1>8 DEF Snapshot, Leave, control
<1>9. CASE EncodeAndSend(s)
  <2>1. \A c \in Conns : Queued(c, s) \in Seq(Displays) /\ Len(Queued(c, s)) <= MaxQueue
    BY Appending DEF Queued
  <2> QED BY <1>9, <2>1 DEF EncodeAndSend
<1>10. CASE EncodeFails(s)
  BY <1>10 DEF EncodeFails, control
<1>11. CASE GiveUpWaiting(s)
  BY <1>11 DEF GiveUpWaiting, Proceed, control
<1>12. CASE PrivacySwitch(s)
  BY <1>12 DEF PrivacySwitch, Leave, control
<1>13. CASE TryWaitNext(s)
  BY <1>13 DEF TryWaitNext, Proceed, control
<1>14. CASE LockReceiver(s)
  BY <1>14 DEF LockReceiver, control
<1>15. CASE Receive(s)
  BY <1>15, Taking DEF Receive
<1>16. CASE ReceiveTimeout(s)
  BY <1>16 DEF ReceiveTimeout, Released, control
<1>17. CASE Expire(s)
  BY <1>17 DEF Expire, control
<1> QED BY <1>1, <1>2, <1>3, <1>4, <1>5, <1>6, <1>7, <1>8, <1>9, <1>10, <1>11, <1>12, <1>13, <1>14, <1>15, <1>16, <1>17 DEF Thread

LEMMA ThreadRefresh ==
  ASSUME VideoInv, NEW s \in Displays, Thread(s) \/ Expire(s)
  PROVE  RefreshNotLost'
<1> USE DEF VideoInv, ThreadType, TableType, EncoderFollows, RefreshNotLost, At, Goto
<1>1. CASE SetUp(s)
  BY <1>1 DEF SetUp, NewEncoder, control, requests
<1>2. CASE SetUpFails(s)
  BY <1>2 DEF SetUpFails, control, requests
<1>3. CASE ClearRefresh(s)
  BY <1>3 DEF ClearRefresh, control, requests
<1>4. CASE Quit(s)
  BY <1>4 DEF Quit, Leave, control, requests
<1>5. CASE Capture(s)
  BY <1>5 DEF Capture, control, requests
<1>6. CASE NoFrame(s)
  BY <1>6 DEF NoFrame, control, requests
<1>7. CASE Fail(s)
  BY <1>7 DEF Fail, Leave, control, requests
<1>8. CASE Snapshot(s)
  BY <1>8 DEF Snapshot, Leave, control, requests
<1>9. CASE EncodeAndSend(s)
  BY <1>9 DEF EncodeAndSend, Remembered, control, requests
<1>10. CASE EncodeFails(s)
  BY <1>10 DEF EncodeFails, control, requests
<1>11. CASE GiveUpWaiting(s)
  BY <1>11 DEF GiveUpWaiting, Proceed, control, requests
<1>12. CASE PrivacySwitch(s)
  BY <1>12 DEF PrivacySwitch, Leave, control, requests
<1>13. CASE TryWaitNext(s)
  BY <1>13 DEF TryWaitNext, Proceed, control, requests
<1>14. CASE LockReceiver(s)
  BY <1>14 DEF LockReceiver, control, requests
<1>15. CASE Receive(s)
  BY <1>15 DEF Receive, Released, Proceed, control, requests
<1>16. CASE ReceiveTimeout(s)
  BY <1>16 DEF ReceiveTimeout, Released, control, requests
<1>17. CASE Expire(s)
  BY <1>17 DEF Expire, control, requests
<1> QED BY <1>1, <1>2, <1>3, <1>4, <1>5, <1>6, <1>7, <1>8, <1>9, <1>10, <1>11, <1>12, <1>13, <1>14, <1>15, <1>16, <1>17 DEF Thread

\* What the wait of a thread needs and has got.
OwnAwaited(s) == IF Waiting(s) THEN awaiting[s] ELSE {}
OwnTaken(s) == IF Waiting(s) THEN fetched[s] ELSE {}

\* A step of s leaves what the others wait for alone.
Alone(s) ==
  \A t \in Displays \ {s} :
    loc'[t] = loc[t] /\ awaiting'[t] = awaiting[t] /\ fetched'[t] = fetched[t]

LEMMA ThreadAlone ==
  ASSUME VideoInv, NEW s \in Displays, Thread(s) \/ Expire(s)
  PROVE  Alone(s)
<1> USE DEF VideoInv, ThreadType, Alone, Goto
<1>1. CASE SetUp(s)
  BY <1>1 DEF SetUp, NewEncoder, control
<1>2. CASE SetUpFails(s)
  BY <1>2 DEF SetUpFails, control
<1>3. CASE ClearRefresh(s)
  BY <1>3 DEF ClearRefresh, control
<1>4. CASE Quit(s)
  BY <1>4 DEF Quit, Leave, control
<1>5. CASE Capture(s)
  BY <1>5 DEF Capture, control
<1>6. CASE NoFrame(s)
  BY <1>6 DEF NoFrame, control
<1>7. CASE Fail(s)
  BY <1>7 DEF Fail, Leave, control
<1>8. CASE Snapshot(s)
  BY <1>8 DEF Snapshot, Leave, control
<1>9. CASE EncodeAndSend(s)
  BY <1>9 DEF EncodeAndSend, Remembered, control
<1>10. CASE EncodeFails(s)
  BY <1>10 DEF EncodeFails, control
<1>11. CASE GiveUpWaiting(s)
  BY <1>11 DEF GiveUpWaiting, Proceed, control
<1>12. CASE PrivacySwitch(s)
  BY <1>12 DEF PrivacySwitch, Leave, control
<1>13. CASE TryWaitNext(s)
  BY <1>13 DEF TryWaitNext, Proceed, control
<1>14. CASE LockReceiver(s)
  BY <1>14 DEF LockReceiver, control
<1>15. CASE Receive(s)
  BY <1>15 DEF Receive, Released, Proceed, control
<1>16. CASE ReceiveTimeout(s)
  BY <1>16 DEF ReceiveTimeout, Released, control
<1>17. CASE Expire(s)
  BY <1>17 DEF Expire, control
<1> QED BY <1>1, <1>2, <1>3, <1>4, <1>5, <1>6, <1>7, <1>8, <1>9, <1>10, <1>11, <1>12, <1>13, <1>14, <1>15, <1>16, <1>17 DEF Thread

\* The balance of a wait, before and after a step of its thread: what it still
\* needs only grows with the connections a frame was sent to, and shrinks by
\* one with each acknowledgement taken, or by what is given up.
Needs(s) == Cardinality(OwnAwaited(s)) - Cardinality(OwnTaken(s))

LEMMA OwnTypes ==
  ASSUME VideoInv, NEW s \in Displays
  PROVE  /\ OwnAwaited(s) \in SUBSET Conns /\ OwnTaken(s) \in SUBSET Conns
         /\ Needs(s) \in Nat
         /\ ~Waiting(s) => Needs(s) = 0
         /\ Waiting(s) => Needs(s) = Missing(s)
<1>1. awaiting[s] \in SUBSET Conns /\ fetched[s] \in SUBSET Conns
  BY DEF VideoInv, ThreadType
<1>2. Cardinality(awaiting[s]) \in Nat /\ Cardinality(fetched[s]) \in Nat /\ Cardinality({}) = 0
  BY <1>1, Finite, FS_EmptySet
<1> QED BY <1>1, <1>2 DEF OwnAwaited, OwnTaken, Needs, VideoInv, WaitsForSome, Missing


\* Relations between displays and connections, one display at a time.
LEMMA Fibre ==
  ASSUME NEW R \in SUBSET (Displays \X Conns), NEW s \in Displays, NEW A \in SUBSET Conns,
         \A c \in Conns : <<s, c>> \in R <=> c \in A
  PROVE  /\ IsFiniteSet(R) /\ Cardinality(R) \in Nat /\ Cardinality(A) \in Nat
         /\ Cardinality({p \in R : p[1] # s}) \in Nat
         /\ Cardinality(R) = Cardinality({p \in R : p[1] # s}) + Cardinality(A)
<1> DEFINE Others == {p \in R : p[1] # s}
           Own == {s} \X A
<1>1. IsFiniteSet(R)
  BY FS_Product, FS_Subset, VideoFlowAssumption
<1>2. IsFiniteSet(A) /\ Cardinality(A) \in Nat
  BY Finite
<1>3. IsFiniteSet(Own) /\ Cardinality(Own) = Cardinality(A)
  <2>1. IsFiniteSet({s}) /\ Cardinality({s}) = 1
    BY FS_Singleton
  <2>2. IsFiniteSet(Own) /\ Cardinality(Own) = Cardinality({s}) * Cardinality(A)
    BY <1>2, <2>1, FS_Product
  <2> QED BY <1>2, <2>1, <2>2
<1>4. IsFiniteSet(Others)
  BY <1>1, FS_Subset
<1>5. R = Others \cup Own /\ Others \cap Own = {}
  <2>1. \A p \in R : p = <<p[1], p[2]>> /\ p[2] \in Conns
    OBVIOUS
  <2>2. \A p \in Own : p = <<s, p[2]>> /\ p[2] \in A /\ p[1] = s
    OBVIOUS
  <2>3. \A p \in R : p[1] = s => p \in Own
    <3> SUFFICES ASSUME NEW p \in R, p[1] = s PROVE p \in Own
      OBVIOUS
    <3>1. p = <<s, p[2]>> /\ p[2] \in Conns
      BY <2>1
    <3>2. p[2] \in A
      BY <3>1
    <3> QED BY <3>1, <3>2
  <2>4. \A p \in Own : p \in R /\ p[1] = s
    BY <2>2
  <2> QED BY <2>3, <2>4
<1>6. Cardinality(R) = Cardinality(Others) + Cardinality(Own) - Cardinality({})
  BY <1>3, <1>4, <1>5, FS_Union
<1> HIDE DEF Others, Own
<1>7. Cardinality(R) = Cardinality(Others) + Cardinality(A)
  BY <1>2, <1>3, <1>4, <1>6, FS_EmptySet, FS_CardinalityType
<1> QED BY <1>1, <1>2, <1>4, <1>7, FS_CardinalityType DEF Others

OfOthers(R, s) == {p \in R : p[1] # s}
Of(R, s) == {c \in Conns : <<s, c>> \in R}

LEMMA Replacing ==
  ASSUME NEW R \in SUBSET (Displays \X Conns), NEW s \in Displays
  PROVE  /\ Cardinality(R) \in Nat /\ Cardinality(Of(R, s)) \in Nat
         /\ Cardinality(OfOthers(R, s)) \in Nat
         /\ Cardinality(R) = Cardinality(OfOthers(R, s)) + Cardinality(Of(R, s))
<1>1. PICK A \in SUBSET Conns : A = Of(R, s)
  BY DEF Of
<1>2. \A c \in Conns : <<s, c>> \in R <=> c \in A
  BY <1>1 DEF Of
<1> QED BY <1>1, <1>2, Fibre DEF OfOthers

LEMMA Balance ==
  ASSUME VideoInv, ThreadType', NEW s \in Displays, Alone(s)
  PROVE  /\ Cardinality(Awaited) \in Nat /\ Cardinality(Taken) \in Nat
         /\ Cardinality(Awaited') \in Nat /\ Cardinality(Taken') \in Nat
         /\ Cardinality(Awaited') - Cardinality(Taken')
              = Cardinality(Awaited) - Cardinality(Taken) + (Needs(s)' - Needs(s))
<1>1. /\ OwnAwaited(s) \in SUBSET Conns /\ OwnTaken(s) \in SUBSET Conns
      /\ OwnAwaited(s)' \in SUBSET Conns /\ OwnTaken(s)' \in SUBSET Conns
  BY DEF VideoInv, ThreadType, OwnAwaited, OwnTaken
<1>2. /\ Awaited \in SUBSET (Displays \X Conns) /\ Awaited' \in SUBSET (Displays \X Conns)
      /\ Taken \in SUBSET (Displays \X Conns) /\ Taken' \in SUBSET (Displays \X Conns)
  BY DEF Awaited, Taken
<1>3. /\ Of(Awaited, s) = OwnAwaited(s) /\ Of(Taken, s) = OwnTaken(s)
      /\ Of(Awaited', s) = OwnAwaited(s)' /\ Of(Taken', s) = OwnTaken(s)'
  BY <1>1 DEF Of, Awaited, Taken, OwnAwaited, OwnTaken
<1>4. \A t \in Displays : t # s => 
        /\ Waiting(t)' = Waiting(t)
        /\ awaiting'[t] = awaiting[t] /\ fetched'[t] = fetched[t]
  BY DEF Alone, Waiting
<1>5. OfOthers(Awaited', s) = OfOthers(Awaited, s)
  BY <1>4 DEF OfOthers, Awaited
<1>6. OfOthers(Taken', s) = OfOthers(Taken, s)
  BY <1>4 DEF OfOthers, Taken
<1>7. /\ Cardinality(Awaited) \in Nat /\ Cardinality(OwnAwaited(s)) \in Nat
      /\ Cardinality(OfOthers(Awaited, s)) \in Nat
      /\ Cardinality(Awaited) = Cardinality(OfOthers(Awaited, s)) + Cardinality(OwnAwaited(s))
  BY <1>2, <1>3, Replacing
<1>8. /\ Cardinality(Awaited') \in Nat /\ Cardinality(OwnAwaited(s)') \in Nat
      /\ Cardinality(Awaited') = Cardinality(OfOthers(Awaited', s)) + Cardinality(OwnAwaited(s)')
  BY <1>2, <1>3, Replacing
<1>9. /\ Cardinality(Taken) \in Nat /\ Cardinality(OwnTaken(s)) \in Nat
      /\ Cardinality(OfOthers(Taken, s)) \in Nat
      /\ Cardinality(Taken) = Cardinality(OfOthers(Taken, s)) + Cardinality(OwnTaken(s))
  BY <1>2, <1>3, Replacing
<1>10. /\ Cardinality(Taken') \in Nat /\ Cardinality(OwnTaken(s)') \in Nat
       /\ Cardinality(Taken') = Cardinality(OfOthers(Taken', s)) + Cardinality(OwnTaken(s)')
  BY <1>2, <1>3, Replacing
<1> QED BY <1>5, <1>6, <1>7, <1>8, <1>9, <1>10 DEF Needs

\* What is outstanding is what is still needed, but for what was forgiven.
LEMMA OthersWait ==
  ASSUME VideoInv, NEW s \in Displays, Alone(s),
         IF Waiting(s)' THEN Cardinality(fetched'[s]) <= Cardinality(awaiting'[s])
                        ELSE fetched'[s] = {}
  PROVE  WaitsForSome'
<1> SUFFICES ASSUME NEW t \in Displays
             PROVE  IF Waiting(t)' THEN Cardinality(fetched'[t]) <= Cardinality(awaiting'[t])
                                   ELSE fetched'[t] = {}
  BY DEF WaitsForSome, Waiting
<1>1. CASE t = s
  BY <1>1
<1>2. CASE t # s
  BY <1>2 DEF Alone, Waiting, VideoInv, WaitsForSome
<1> QED BY <1>1, <1>2

LEMMA ThreadWaits ==
  ASSUME VideoInv, NEW s \in Displays, Thread(s) \/ Expire(s)
  PROVE  WaitsForSome'
<1> DEFINE Own == IF Waiting(s)' THEN Cardinality(fetched'[s]) <= Cardinality(awaiting'[s])
                                 ELSE fetched'[s] = {}
<1>a. Alone(s) /\ ThreadType'
  BY ThreadAlone, ThreadTypeKept
<1>b. IF Waiting(s) THEN Cardinality(fetched[s]) <= Cardinality(awaiting[s])
                    ELSE fetched[s] = {}
  BY DEF VideoInv, WaitsForSome
<1>c. Cardinality(awaiting'[s]) \in Nat /\ Cardinality({}) = 0
  BY <1>a, Finite, FS_EmptySet DEF ThreadType
<1> SUFFICES Own
  BY <1>a, OthersWait
<1>d. loc \in [Displays -> Locations] /\ fetched \in [Displays -> SUBSET Conns]
      /\ awaiting \in [Displays -> SUBSET Conns]
  BY DEF VideoInv, ThreadType
<1> USE <1>b, <1>c, <1>d DEF Waiting, At, Goto, Locations
<1>1. CASE SetUp(s)
  BY <1>1 DEF SetUp, NewEncoder, control
<1>2. CASE SetUpFails(s)
  BY <1>2 DEF SetUpFails, control
<1>3. CASE ClearRefresh(s)
  BY <1>3 DEF ClearRefresh, control
<1>4. CASE Quit(s)
  BY <1>4 DEF Quit, Leave, control
<1>5. CASE Capture(s)
  BY <1>5 DEF Capture, control
<1>6. CASE NoFrame(s)
  BY <1>6 DEF NoFrame, control
<1>7. CASE Fail(s)
  BY <1>7 DEF Fail, Leave, control
<1>8. CASE Snapshot(s)
  BY <1>8 DEF Snapshot, Leave, control
<1>9. CASE EncodeAndSend(s)
  <2>1. loc'[s] = "wait" /\ fetched'[s] = {}
    BY <1>9 DEF EncodeAndSend
  <2> QED BY <2>1
<1>10. CASE EncodeFails(s)
  BY <1>10 DEF EncodeFails, control
<1>11. CASE GiveUpWaiting(s)
  BY <1>11 DEF GiveUpWaiting, Proceed, control
<1>12. CASE PrivacySwitch(s)
  BY <1>12 DEF PrivacySwitch, Leave, control
<1>13. CASE TryWaitNext(s)
  BY <1>13 DEF TryWaitNext, Proceed, control
<1>14. CASE LockReceiver(s)
  BY <1>14 DEF LockReceiver, control
<1>15. CASE Receive(s)
  <2> DEFINE got == fetched[s] \cup {Head(acks)}
  <2>1. Cardinality(got) \in Nat
    BY <1>15, Taking, Finite DEF Receive, VideoInv, ChannelType
  <2>2. CASE Satisfied(s, got)
    BY <1>15, <2>2 DEF Receive, Proceed
  <2>3. CASE ~Satisfied(s, got)
    <3>1. loc'[s] = "wait" /\ fetched'[s] = got /\ awaiting' = awaiting
      BY <1>15, <2>3 DEF Receive
    <3>2. Cardinality(got) <= Cardinality(awaiting[s])
      BY <2>1, <2>3, <3>1, <1>c DEF Satisfied
    <3> QED BY <3>1, <3>2
  <2> QED BY <2>2, <2>3
<1>16. CASE ReceiveTimeout(s)
  BY <1>16 DEF ReceiveTimeout, Released, control
<1>17. CASE Expire(s)
  BY <1>17 DEF Expire, control
<1> QED BY <1>1, <1>2, <1>3, <1>4, <1>5, <1>6, <1>7, <1>8, <1>9, <1>10, <1>11, <1>12, <1>13, <1>14, <1>15, <1>16, <1>17 DEF Thread

-----------------------------------------------------------------------------
(* Frames under way.                                                       *)

LEMMA Counted ==
  ASSUME NEW set \in SUBSET (Conns \X (1 .. MaxQueue))
  PROVE  IsFiniteSet(set) /\ Cardinality(set) \in Nat
<1>1. IsFiniteSet(1 .. MaxQueue)
  BY FS_Interval, Bounds
<1>2. IsFiniteSet(Conns \X (1 .. MaxQueue))
  BY <1>1, FS_Product, VideoFlowAssumption
<1> QED BY <1>2, FS_Subset, FS_CardinalityType

\* Sending adds at most one frame for each subscriber.
LEMMA Sending ==
  ASSUME VideoInv, NEW s \in Displays, EncodeAndSend(s)
  PROVE  /\ Cardinality(InFlight) \in Nat /\ Cardinality(InFlight') \in Nat
         /\ Cardinality(InFlight') <= Cardinality(InFlight) + Cardinality(subs[s])
<1> DEFINE new == InFlight' \ InFlight
<1>1. InFlight \in SUBSET (Conns \X (1 .. MaxQueue)) /\ InFlight' \in SUBSET (Conns \X (1 .. MaxQueue))
  BY DEF InFlight
<1>2. new \in SUBSET (Conns \X (1 .. MaxQueue))
  BY <1>1
<1>3. ASSUME NEW p \in new
      PROVE  p[1] \in subs[s] /\ p[2] = Len(frames[p[1]]) + 1
  <2>1. p[1] \in Conns /\ p[2] \in 1 .. MaxQueue /\ ended' = ended
    BY <1>2 DEF EncodeAndSend, connVars
  <2>2. p[2] <= Len(frames'[p[1]]) /\ p[1] \notin ended
    BY <2>1 DEF InFlight
  <2>3. p \in Conns \X (1 .. MaxQueue)
    BY <1>2
  <2>4. ~(p[2] <= Len(frames[p[1]]))
    BY <2>2, <2>3 DEF InFlight
  <2>5. frames'[p[1]] = Queued(p[1], s)
    BY <2>1 DEF EncodeAndSend
  <2>6. p[1] \in subs[s] /\ frames'[p[1]] = Append(frames[p[1]], s)
    BY <2>2, <2>4, <2>5 DEF Queued
  <2>7. Len(frames[p[1]]) \in Nat /\ Len(frames'[p[1]]) = Len(frames[p[1]]) + 1
    BY <2>1, <2>6, Appending DEF VideoInv, ChannelType
  <2> QED BY <2>1, <2>2, <2>4, <2>6, <2>7
<1>4. [p \in new |-> p[1]] \in Injection(new, subs[s])
  <2>1. \A p, q \in new : p[1] = q[1] => p = q
    <3> SUFFICES ASSUME NEW p \in new, NEW q \in new, p[1] = q[1] PROVE p = q
      OBVIOUS
    <3>1. p[2] = q[2]
      BY <1>3
    <3>2. p = <<p[1], p[2]>> /\ q = <<q[1], q[2]>>
      BY <1>2
    <3> QED BY <3>1, <3>2
  <2>2. [p \in new |-> p[1]] \in [new -> subs[s]]
    BY <1>3
  <2> HIDE DEF new
  <2> QED BY <2>1, <2>2 DEF Injection, IsInjective
<1>5. IsFiniteSet(subs[s]) /\ Cardinality(subs[s]) \in Nat
  BY Finite DEF VideoInv, TableType
<1>6. Cardinality(new) <= Cardinality(subs[s])
  BY <1>4, <1>5, FS_Injection
<1>7. /\ IsFiniteSet(InFlight) /\ IsFiniteSet(new) /\ IsFiniteSet(InFlight \cup new)
      /\ Cardinality(InFlight) \in Nat /\ Cardinality(new) \in Nat
      /\ Cardinality(InFlight \cup new) = Cardinality(InFlight) + Cardinality(new) - Cardinality({})
  <2>1. InFlight \cap new = {}
    OBVIOUS
  <2> QED BY <1>1, <1>2, <2>1, Counted, FS_Union
<1>8. InFlight' \subseteq InFlight \cup new
  OBVIOUS
<1>9. Cardinality(InFlight') <= Cardinality(InFlight \cup new) /\ Cardinality(InFlight') \in Nat
  BY <1>1, <1>7, <1>8, Counted, FS_Subset
<1> QED BY <1>5, <1>6, <1>7, <1>9, FS_EmptySet

\* What a thread needs is never negative, and what it does between two waits, or
\* while it goes on waiting, does not make it need less.
LEMMA NeedsLater ==
  ASSUME VideoInv, NEW s \in Displays, Thread(s) \/ Expire(s)
  PROVE  /\ Needs(s) \in Nat /\ Needs(s)' \in Nat
         /\ ~Waiting(s)' => Needs(s)' = 0
         /\ Waiting(s)' => Needs(s)' = Cardinality(awaiting'[s]) - Cardinality(fetched'[s])
<1>1. ThreadType' /\ WaitsForSome'
  BY ThreadTypeKept, ThreadWaits
<1>2. awaiting'[s] \in SUBSET Conns /\ fetched'[s] \in SUBSET Conns
  BY <1>1 DEF ThreadType
<1>3. /\ Cardinality(awaiting'[s]) \in Nat /\ Cardinality(fetched'[s]) \in Nat
      /\ Cardinality({}) = 0
  BY <1>2, Finite, FS_EmptySet
<1>4. Waiting(s)' => Cardinality(fetched'[s]) <= Cardinality(awaiting'[s])
  BY <1>1 DEF WaitsForSome
<1>5. CASE Waiting(s)'
  BY <1>3, <1>4, <1>5, OwnTypes DEF Needs, OwnAwaited, OwnTaken
<1>6. CASE ~Waiting(s)'
  BY <1>3, <1>6, OwnTypes DEF Needs, OwnAwaited, OwnTaken
<1> QED BY <1>5, <1>6

Quiet(s) ==
  \/ SetUp(s) \/ SetUpFails(s) \/ ClearRefresh(s) \/ Quit(s) \/ Capture(s) \/ NoFrame(s)
  \/ Fail(s) \/ Snapshot(s) \/ EncodeFails(s) \/ TryWaitNext(s) \/ LockReceiver(s)
  \/ ReceiveTimeout(s) \/ Expire(s)

LEMMA QuietNeeds ==
  ASSUME VideoInv, NEW s \in Displays, Quiet(s)
  PROVE  /\ acks' = acks /\ frames' = frames /\ ended' = ended /\ forgiven' = forgiven
         /\ Needs(s)' >= Needs(s)
<1>a. Thread(s) \/ Expire(s)
  BY DEF Quiet, Thread
<1>b. /\ Needs(s) \in Nat /\ Needs(s)' \in Nat
      /\ ~Waiting(s) => Needs(s) = 0
      /\ Waiting(s) => Needs(s) = Cardinality(awaiting[s]) - Cardinality(fetched[s])
      /\ Waiting(s)' => Needs(s)' = Cardinality(awaiting'[s]) - Cardinality(fetched'[s])
  BY <1>a, NeedsLater, OwnTypes DEF Missing
<1>c. acks' = acks /\ frames' = frames /\ ended' = ended /\ forgiven' = forgiven
  BY DEF Quiet, SetUp, SetUpFails, ClearRefresh, Quit, Capture, NoFrame, Fail, Snapshot, EncodeFails, TryWaitNext, LockReceiver, ReceiveTimeout, Expire, control, connVars
<1>d. CASE ~Waiting(s)
  BY <1>b, <1>c, <1>d
<1>e. CASE Waiting(s) /\ (TryWaitNext(s) \/ LockReceiver(s) \/ ReceiveTimeout(s) \/ Expire(s))
  <2>1. loc \in [Displays -> Locations]
    BY DEF VideoInv, ThreadType
  <2>2. CASE TryWaitNext(s) /\ awaiting[s] = {}
    <3>1. Cardinality(awaiting[s]) = 0 /\ fetched[s] \in SUBSET Conns
      BY <2>2, FS_EmptySet DEF VideoInv, ThreadType
    <3>2. Cardinality(fetched[s]) \in Nat /\ Cardinality(fetched[s]) <= Cardinality(awaiting[s])
      BY <1>e, <3>1, Finite DEF VideoInv, WaitsForSome
    <3>3. Needs(s) = 0
      BY <1>b, <1>e, <3>1, <3>2
    <3> QED BY <1>b, <1>c, <3>3
  <2>3. CASE TryWaitNext(s) /\ awaiting[s] # {}
    BY <1>b, <1>c, <1>e, <2>1, <2>3 DEF TryWaitNext, Goto, Waiting
  <2>4. CASE LockReceiver(s) \/ ReceiveTimeout(s) \/ Expire(s)
    BY <1>b, <1>c, <1>e, <2>1, <2>4 DEF LockReceiver, ReceiveTimeout, Expire, Goto, Waiting
  <2> QED BY <1>e, <2>2, <2>3, <2>4
<1>f. Waiting(s) => TryWaitNext(s) \/ LockReceiver(s) \/ ReceiveTimeout(s) \/ Expire(s)
  BY DEF Quiet, Waiting, At, SetUp, SetUpFails, ClearRefresh, Quit, Capture, NoFrame, Fail, Snapshot, EncodeFails, TryWaitNext, LockReceiver, ReceiveTimeout, Expire
<1> QED BY <1>d, <1>e, <1>f

LEMMA ThreadFlow ==
  ASSUME VideoInv, FlowControlled, NEW s \in Displays, Thread(s) \/ Expire(s)
  PROVE  FlowControlled'
<1>a. /\ Cardinality(Awaited) \in Nat /\ Cardinality(Taken) \in Nat
      /\ Cardinality(Awaited') \in Nat /\ Cardinality(Taken') \in Nat
      /\ Cardinality(Awaited') - Cardinality(Taken')
              = Cardinality(Awaited) - Cardinality(Taken) + (Needs(s)' - Needs(s))
  BY ThreadTypeKept, ThreadAlone, Balance
<1>b. Needs(s) \in Nat /\ Needs(s)' \in Nat
  BY NeedsLater
<1>c. /\ Cardinality(InFlight) \in Nat /\ Len(acks) \in Nat /\ Cardinality(ended) \in Nat
      /\ forgiven \in Nat /\ MaxForgiven \in Nat
  <2>1. InFlight \in SUBSET (Conns \X (1 .. MaxQueue)) /\ ended \in SUBSET Conns
    BY DEF InFlight, VideoInv, TableType
  <2> QED BY <2>1, Counted, Finite, Appending, Bounds DEF VideoInv, ChannelType
<1>d. frames' = frames /\ ended' = ended => InFlight' = InFlight
  BY DEF InFlight
<1>e. ASSUME NEW d \in Int, Cardinality(InFlight') \in Nat, Len(acks') \in Nat,
             Cardinality(ended') \in Nat, forgiven' \in Nat,
             Needs(s)' >= Needs(s) + d,
             forgiven' < MaxForgiven =>
               /\ forgiven < MaxForgiven
               /\ (Cardinality(InFlight') + Len(acks')) + (forgiven + Cardinality(ended))
                    <= (Cardinality(InFlight) + Len(acks)) + (forgiven' + Cardinality(ended')) + d
      PROVE  FlowControlled'
  <2> SUFFICES ASSUME forgiven' < MaxForgiven
               PROVE  Cardinality(InFlight') + Len(acks') + Cardinality(Taken')
                        <= Cardinality(Awaited') + forgiven' + Cardinality(ended')
    BY DEF FlowControlled
  <2>1. Cardinality(InFlight) + Len(acks) + Cardinality(Taken)
          <= Cardinality(Awaited) + forgiven + Cardinality(ended)
    BY <1>e DEF FlowControlled
  <2>2. /\ (Cardinality(InFlight') + Len(acks')) + (forgiven + Cardinality(ended))
             <= (Cardinality(InFlight) + Len(acks)) + (forgiven' + Cardinality(ended')) + d
        /\ d \in Int /\ Needs(s)' >= Needs(s) + d
        /\ Cardinality(InFlight') \in Nat /\ Len(acks') \in Nat
        /\ Cardinality(ended') \in Nat /\ forgiven' \in Nat
    BY <1>e
  <2>3. PICK a \in Nat, b \in Nat, a1 \in Nat, b1 \in Nat :
          /\ a = Cardinality(Awaited) /\ b = Cardinality(Taken)
          /\ a1 = Cardinality(Awaited') /\ b1 = Cardinality(Taken')
    BY <1>a
  <2>4. PICK n \in Nat, n1 \in Nat : n = Needs(s) /\ n1 = Needs(s)'
    BY <1>b
  <2>5. PICK x \in Nat, x1 \in Nat : x = Cardinality(InFlight) + Len(acks)
                                  /\ x1 = Cardinality(InFlight') + Len(acks')
    BY <1>c, <2>2
  <2>6. PICK g \in Nat, e \in Nat, g1 \in Nat, e1 \in Nat :
          /\ g = forgiven /\ e = Cardinality(ended)
          /\ g1 = forgiven' /\ e1 = Cardinality(ended')
    BY <1>c, <2>2
  <2>7. a1 - b1 = a - b + (n1 - n) /\ n1 >= n + d
    BY <1>a, <2>2, <2>3, <2>4
  <2>8. x + b <= a + g + e
    <3>1. x + b = Cardinality(InFlight) + Len(acks) + Cardinality(Taken)
      BY <2>3, <2>5
    <3>2. a + g + e = Cardinality(Awaited) + forgiven + Cardinality(ended)
      BY <2>3, <2>6
    <3> QED BY <2>1, <3>1, <3>2
  <2>9. x1 + (g + e) <= x + (g1 + e1) + d
    BY <2>2, <2>5, <2>6
  <2>10. x1 + b1 <= a1 + g1 + e1
    BY <2>7, <2>8, <2>9
  <2>11. x1 + b1 = Cardinality(InFlight') + Len(acks') + Cardinality(Taken')
    BY <2>3, <2>5
  <2>12. a1 + g1 + e1 = Cardinality(Awaited') + forgiven' + Cardinality(ended')
    BY <2>3, <2>6
  <2> QED BY <2>10, <2>11, <2>12
<1>1. CASE Quiet(s)
  <2>1. /\ acks' = acks /\ InFlight' = InFlight /\ ended' = ended /\ forgiven' = forgiven
        /\ Needs(s)' >= Needs(s)
    BY <1>1, <1>d, QuietNeeds
  <2>2. Needs(s)' >= Needs(s) + 0
    BY <1>b, <2>1
  <2> QED BY <1>c, <1>e, <2>1, <2>2
<1>2. CASE EncodeAndSend(s)
  <2>1. /\ Cardinality(InFlight') \in Nat
        /\ Cardinality(InFlight') <= Cardinality(InFlight) + Cardinality(subs[s])
    BY <1>2, Sending
  <2>2. Needs(s) = 0 /\ Needs(s)' = Cardinality(subs[s])
    <3>1. ~Waiting(s) /\ fetched[s] = {}
      BY <1>2 DEF EncodeAndSend, At, Waiting, VideoInv, WaitsForSome
    <3>2. Waiting(s)' /\ awaiting'[s] = subs[s] /\ fetched'[s] = {}
      BY <1>2, <3>1 DEF EncodeAndSend, Remembered, Goto, Waiting, VideoInv, ThreadType
    <3>3. Cardinality(subs[s]) \in Nat
      BY Finite DEF VideoInv, TableType
    <3> QED BY <3>1, <3>2, <3>3, NeedsLater, OwnTypes, FS_EmptySet
  <2>3. acks' = acks /\ ended' = ended /\ forgiven' = forgiven
    BY <1>2 DEF EncodeAndSend, connVars
  <2>4. Cardinality(subs[s]) \in Nat
    BY <1>b, <2>2
  <2>5. Needs(s)' >= Needs(s) + Cardinality(subs[s])
    BY <2>2, <2>4
  <2> QED BY <1>c, <1>e, <2>1, <2>3, <2>4, <2>5
<1>3. CASE GiveUpWaiting(s) \/ PrivacySwitch(s)
  <2>1. Waiting(s) /\ GiveUp(s)
    BY <1>3 DEF GiveUpWaiting, PrivacySwitch, At, Waiting
  <2>2. /\ forgiven' \in 0 .. MaxForgiven
        /\ forgiven' < MaxForgiven => forgiven' = forgiven + Needs(s) /\ forgiven < MaxForgiven
    BY <2>1, Forgiving, OwnTypes
  <2>3. acks' = acks /\ InFlight' = InFlight /\ ended' = ended
    BY <1>3, <1>d DEF GiveUpWaiting, PrivacySwitch, connVars
  <2>4. Needs(s)' >= Needs(s) + (0 - Needs(s)) /\ 0 - Needs(s) \in Int
    BY <1>b
  <2> QED BY <1>b, <1>c, <1>e, <2>2, <2>3, <2>4
<1>4. CASE Receive(s)
  <2>1. Len(acks') = Len(acks) - 1
    BY <1>4, Taking DEF Receive, VideoInv, ChannelType
  <2>2. InFlight' = InFlight /\ ended' = ended /\ forgiven' = forgiven
    BY <1>4, <1>d DEF Receive, connVars
  <2>3. Needs(s)' >= Needs(s) - 1
    <3> DEFINE got == fetched[s] \cup {Head(acks)}
    <3>1. Head(acks) \in Conns /\ fetched[s] \in SUBSET Conns /\ awaiting[s] \in SUBSET Conns
      BY <1>4, Taking DEF Receive, VideoInv, ChannelType, ThreadType
    <3>2. /\ Cardinality(got) \in {Cardinality(fetched[s]), Cardinality(fetched[s]) + 1}
          /\ Cardinality(fetched[s]) \in Nat /\ Cardinality(awaiting[s]) \in Nat
      BY <3>1, Growing, Finite
    <3>3. Needs(s) = Cardinality(awaiting[s]) - Cardinality(fetched[s])
      BY <1>4, OwnTypes DEF Receive, At, Waiting, Missing
    <3>4. CASE Satisfied(s, got)
      BY <1>b, <3>2, <3>3, <3>4 DEF Satisfied
    <3>5. CASE ~Satisfied(s, got)
      <4>1. Waiting(s)' /\ awaiting'[s] = awaiting[s] /\ fetched'[s] = got
        BY <1>4, <3>5 DEF Receive, Goto, Waiting, VideoInv, ThreadType
      <4>2. Needs(s)' = Cardinality(awaiting[s]) - Cardinality(got)
        BY <4>1, NeedsLater
      <4> QED BY <3>2, <3>3, <4>2
    <3> QED BY <3>4, <3>5
  <2>4. Needs(s)' >= Needs(s) + (0 - 1) /\ 0 - 1 \in Int /\ Len(acks') \in Nat
    BY <1>4, <1>b, <2>3, Taking DEF Receive, VideoInv, ChannelType
  <2> QED BY <1>c, <1>e, <2>1, <2>2, <2>4
<1> QED BY <1>1, <1>2, <1>3, <1>4 DEF Thread, Quiet

-----------------------------------------------------------------------------
(* The steps of a connection, and changes for all.                         *)

Outside ==
  \/ \E c \in Conns : Connection(c)
  \/ \E what \in Changes : Change(what)
  \/ UNCHANGED vars

\* None of them touches a thread.
LEMMA OutsideControl ==
  ASSUME VideoInv, Outside
  PROVE  /\ UNCHANGED control
         /\ ThreadType' /\ EncoderFollows' /\ WaitsForSome'
         /\ Awaited' = Awaited /\ Taken' = Taken
         /\ forgiven' = forgiven
<1>1. UNCHANGED control /\ forgiven' = forgiven
  BY DEF Outside, Connection, Subscribe, Unsubscribe, Refresh, Acknowledge, EndLoop,
     RemoveConnection, Change, vars
<1> QED BY <1>1 DEF control, VideoInv, ThreadType, EncoderFollows, WaitsForSome, Waiting,
     Awaited, Taken

LEMMA OutsideTables ==
  ASSUME VideoInv, Outside
  PROVE  TableType'
<1> USE Bounds DEF VideoInv, TableType, requests, tables, connVars
<1>1. ASSUME NEW c \in Conns, NEW s \in Displays, Subscribe(c, s) PROVE TableType'
  BY <1>1 DEF Subscribe
<1>2. ASSUME NEW c \in Conns, NEW s \in Displays, Unsubscribe(c, s) PROVE TableType'
  BY <1>2 DEF Unsubscribe
<1>3. ASSUME NEW c \in Conns, NEW asked \in SUBSET Displays, Refresh(c, asked) PROVE TableType'
  BY <1>3 DEF Refresh
<1>4. ASSUME NEW c \in Conns, Acknowledge(c) PROVE TableType'
  BY <1>4 DEF Acknowledge
<1>5. ASSUME NEW c \in Conns, EndLoop(c) PROVE TableType'
  BY <1>5 DEF EndLoop
<1>6. ASSUME NEW c \in Conns, RemoveConnection(c) PROVE TableType'
  BY <1>6 DEF RemoveConnection
<1>7. ASSUME NEW what \in Changes, Change(what) PROVE TableType'
  BY <1>7 DEF Change
<1>8. CASE UNCHANGED vars
  BY <1>8 DEF vars
<1>9. \A s \in Displays : {s} \in SUBSET Displays
  OBVIOUS
<1> QED BY <1>1, <1>2, <1>3, <1>4, <1>5, <1>6, <1>7, <1>8, <1>9 DEF Outside, Connection

LEMMA OutsideRefresh ==
  ASSUME VideoInv, Outside
  PROVE  RefreshNotLost'
<1> USE DEF VideoInv, TableType, RefreshNotLost, requests, control
<1>1. ASSUME NEW c \in Conns, NEW asked \in SUBSET Displays, Refresh(c, asked)
      PROVE  RefreshNotLost'
  BY <1>1 DEF Refresh
<1>2. CASE UNCHANGED <<owed, refresh, encoder>>
  BY <1>2
<1>3. ASSUME ~UNCHANGED <<owed, refresh, encoder>>
      PROVE  \E c \in Conns : Refresh(c, Displays) \/ \E s \in Displays : Refresh(c, {s})
  BY <1>3 DEF Outside, Connection, Subscribe, Unsubscribe, Acknowledge, EndLoop,
     RemoveConnection, Change, vars
<1>4. \A s \in Displays : {s} \in SUBSET Displays
  OBVIOUS
<1> QED BY <1>1, <1>2, <1>3, <1>4

\* An acknowledgement moves from a queue to the channel; a loop that ends adds
\* its last word there, and drops its queue.
LEMMA OutsideChannel ==
  ASSUME VideoInv, Outside
  PROVE  /\ ChannelType'
         /\ Cardinality(InFlight) \in Nat /\ Cardinality(InFlight') \in Nat
         /\ Cardinality(ended) \in Nat /\ Cardinality(ended') \in Nat
         /\ Len(acks) \in Nat /\ Len(acks') \in Nat
         /\ Cardinality(InFlight') + Len(acks') + Cardinality(ended)
              <= Cardinality(InFlight) + Len(acks) + Cardinality(ended')
<1>a. /\ InFlight \in SUBSET (Conns \X (1 .. MaxQueue))
      /\ InFlight' \in SUBSET (Conns \X (1 .. MaxQueue))
  BY DEF InFlight
<1>b. /\ IsFiniteSet(InFlight) /\ Cardinality(InFlight) \in Nat
      /\ IsFiniteSet(InFlight') /\ Cardinality(InFlight') \in Nat
  BY <1>a, Counted
<1>c. /\ ended \in SUBSET Conns /\ IsFiniteSet(ended) /\ Cardinality(ended) \in Nat
      /\ Cardinality(ended') \in Nat /\ Len(acks) \in Nat
  BY OutsideTables, Finite, Appending DEF VideoInv, TableType, ChannelType
<1>1. ASSUME NEW c \in Conns, Acknowledge(c)
      PROVE  /\ ChannelType' /\ Len(acks') = Len(acks) + 1 /\ ended' = ended
             /\ Cardinality(InFlight') = Cardinality(InFlight) - 1
  <2>1. /\ frames[c] \in Seq(Displays) /\ frames[c] # <<>> /\ ended' = ended
        /\ Len(frames[c]) <= MaxQueue /\ c \notin ended
    BY <1>1 DEF Acknowledge, connVars, VideoInv, ChannelType
  <2>2. /\ Tail(frames[c]) \in Seq(Displays) /\ Len(Tail(frames[c])) = Len(frames[c]) - 1
        /\ Len(frames[c]) \in Nat \ {0}
    BY <2>1, Taking
  <2>3. /\ frames' = [frames EXCEPT ![c] = Tail(frames[c])]
        /\ acks' = Append(acks, c)
    BY <1>1 DEF Acknowledge
  <2>4. acks' \in Seq(Conns) /\ Len(acks') = Len(acks) + 1
    BY <2>3, Appending DEF VideoInv, ChannelType
  <2>5. ChannelType'
    BY <2>1, <2>2, <2>3, <2>4, Bounds DEF VideoInv, ChannelType
  <2>6. InFlight' = InFlight \ {<<c, Len(frames[c])>>} /\ <<c, Len(frames[c])>> \in InFlight
    <3>1. \A d \in Conns, i \in 1 .. MaxQueue :
            <<d, i>> \in InFlight' <=> <<d, i>> \in InFlight /\ <<d, i>> # <<c, Len(frames[c])>>
      <4> SUFFICES ASSUME NEW d \in Conns, NEW i \in 1 .. MaxQueue
                   PROVE  <<d, i>> \in InFlight' <=>
                            <<d, i>> \in InFlight /\ <<d, i>> # <<c, Len(frames[c])>>
        OBVIOUS
      <4>1. CASE d = c
        <5>1. frames'[c] = Tail(frames[c])
          BY <2>3 DEF VideoInv, ChannelType
        <5>2. PICK n \in Nat \ {0} : n = Len(frames[c]) /\ Len(frames'[c]) = n - 1
          BY <2>2, <5>1
        <5>3. <<c, i>> \in InFlight' <=> i <= n - 1
          BY <2>1, <5>2 DEF InFlight
        <5>4. <<c, i>> \in InFlight <=> i <= n
          BY <2>1, <5>2 DEF InFlight
        <5>5. i \in Nat /\ (<<c, i>> = <<c, n>> <=> i = n)
          BY Bounds
        <5> QED BY <4>1, <5>2, <5>3, <5>4, <5>5
      <4>2. CASE d # c
        BY <2>1, <2>3, <4>2 DEF InFlight, VideoInv, ChannelType
      <4> QED BY <4>1, <4>2
    <3>2. <<c, Len(frames[c])>> \in InFlight
      BY <2>1, <2>2 DEF InFlight
    <3>3. \A p \in Conns \X (1 .. MaxQueue) :
            p \in InFlight' <=> p \in InFlight /\ p # <<c, Len(frames[c])>>
      BY <3>1
    <3> QED BY <1>a, <3>2, <3>3
  <2> QED BY <1>b, <2>1, <2>4, <2>5, <2>6, FS_RemoveElement
<1>2. ASSUME NEW c \in Conns, EndLoop(c)
      PROVE  /\ ChannelType' /\ Len(acks') = Len(acks) + 1
             /\ Cardinality(ended') = Cardinality(ended) + 1
             /\ Cardinality(InFlight') <= Cardinality(InFlight)
  <2>1. /\ acks' \in Seq(Conns) /\ Len(acks') = Len(acks) + 1
        /\ c \notin ended /\ ended' = ended \cup {c}
        /\ frames' = [frames EXCEPT ![c] = <<>>]
    BY <1>2, Appending DEF EndLoop, VideoInv, ChannelType
  <2>2. <<>> \in Seq(Displays) /\ Len(<<>>) = 0
    BY Empty
  <2>3. ChannelType'
    BY <2>1, <2>2, Bounds DEF VideoInv, ChannelType
  <2>4. Cardinality(ended') = Cardinality(ended) + 1
    BY <1>c, <2>1, FS_AddElement
  <2>5. InFlight' \subseteq InFlight
    <3> SUFFICES ASSUME NEW p \in InFlight' PROVE p \in InFlight
      OBVIOUS
    <3>1. p \in Conns \X (1 .. MaxQueue) /\ p[1] \in Conns /\ p[1] \notin ended'
          /\ p[2] <= Len(frames'[p[1]])
      BY DEF InFlight
    <3>2. p[1] # c /\ p[1] \notin ended
      BY <2>1, <3>1
    <3>3. frames'[p[1]] = frames[p[1]]
      BY <2>1, <3>1, <3>2 DEF VideoInv, ChannelType
    <3> QED BY <3>1, <3>2, <3>3 DEF InFlight
  <2> QED BY <1>b, <2>1, <2>3, <2>4, <2>5, FS_Subset
<1>3. CASE UNCHANGED <<acks, frames, ended>>
  BY <1>b, <1>c, <1>3 DEF VideoInv, ChannelType, InFlight
<1>4. ASSUME ~UNCHANGED <<acks, frames, ended>>
      PROVE  \E c \in Conns : Acknowledge(c) \/ EndLoop(c)
  BY <1>4 DEF Outside, Connection, Subscribe, Unsubscribe, Refresh, RemoveConnection, Change,
     vars, connVars
<1>5. CASE \E c \in Conns : Acknowledge(c)
  BY <1>b, <1>c, <1>1, <1>5
<1>6. CASE \E c \in Conns : EndLoop(c)
  BY <1>b, <1>c, <1>2, <1>6
<1> QED BY <1>3, <1>4, <1>5, <1>6

LEMMA OutsideFlow ==
  ASSUME VideoInv, FlowControlled, Outside
  PROVE  FlowControlled'
<1>1. /\ Awaited' = Awaited /\ Taken' = Taken /\ forgiven' = forgiven
  BY OutsideControl
<1>2. PICK a \in Nat, b \in Nat, g \in Nat :
        a = Cardinality(Awaited) /\ b = Cardinality(Taken) /\ g = forgiven
  <2>1. Awaited \in SUBSET (Displays \X Conns) /\ Taken \in SUBSET (Displays \X Conns)
    BY DEF Awaited, Taken
  <2>2. Cardinality(Awaited) \in Nat /\ Cardinality(Taken) \in Nat
    BY <2>1, FS_Product, FS_Subset, FS_CardinalityType, VideoFlowAssumption
  <2> QED BY <2>2, Bounds DEF VideoInv
<1>3. PICK f \in Nat, f1 \in Nat, l \in Nat, l1 \in Nat, e \in Nat, e1 \in Nat :
        /\ f = Cardinality(InFlight) /\ f1 = Cardinality(InFlight')
        /\ l = Len(acks) /\ l1 = Len(acks')
        /\ e = Cardinality(ended) /\ e1 = Cardinality(ended')
  BY OutsideChannel
<1>4. f1 + l1 + e <= f + l + e1
  BY <1>3, OutsideChannel
<1>5. forgiven < MaxForgiven => f + l + b <= a + g + e
  BY <1>2, <1>3 DEF FlowControlled
<1>6. forgiven < MaxForgiven => f1 + l1 + b <= a + g + e1
  BY <1>4, <1>5
<1> QED BY <1>1, <1>2, <1>3, <1>6 DEF FlowControlled

-----------------------------------------------------------------------------
LEMMA InitFlow == Init => FlowControlled
<1> SUFFICES ASSUME Init PROVE FlowControlled
  OBVIOUS
<1>1. InFlight = {} /\ Taken = {} /\ Awaited = {}
  BY DEF Init, InFlight, Taken, Awaited
<1> QED BY <1>1, FS_EmptySet, Empty, Bounds DEF Init, FlowControlled

LEMMA StepCases == [Next]_vars => Outside \/ \E s \in Displays : Thread(s) \/ Expire(s)
BY DEF Next, Outside

\* What is forgiven is counted up to the bound.
LEMMA ThreadForgives ==
  ASSUME VideoInv, NEW s \in Displays, Thread(s) \/ Expire(s)
  PROVE  forgiven' \in 0 .. MaxForgiven
<1>1. CASE Quiet(s)
  BY <1>1, QuietNeeds DEF VideoInv
<1>2. CASE EncodeAndSend(s) \/ Receive(s)
  BY <1>2 DEF EncodeAndSend, Receive, VideoInv
<1>3. CASE GiveUpWaiting(s) \/ PrivacySwitch(s)
  BY <1>3, Forgiving DEF GiveUpWaiting, PrivacySwitch, At, Waiting
<1> QED BY <1>1, <1>2, <1>3 DEF Thread, Quiet

\* The invariant of the video services holds in every state.
THEOREM VideoInvariance == Spec => [](VideoInv /\ FlowControlled)
<1>1. Init => VideoInv /\ FlowControlled
  BY InitHolds, InitFlow
<1>2. VideoInv /\ FlowControlled /\ [Next]_vars => (VideoInv /\ FlowControlled)'
  <2> SUFFICES ASSUME VideoInv, FlowControlled, [Next]_vars
               PROVE  VideoInv' /\ FlowControlled'
    OBVIOUS
  <2>1. CASE Outside
    BY <2>1, OutsideControl, OutsideTables, OutsideRefresh, OutsideChannel, OutsideFlow
       DEF VideoInv
  <2>2. ASSUME NEW s \in Displays, Thread(s) \/ Expire(s)
        PROVE  VideoInv' /\ FlowControlled'
    BY <2>2, ThreadTypeKept, ThreadChannel, ThreadTables, ThreadWaits, ThreadRefresh,
       ThreadFlow, ThreadForgives DEF VideoInv
  <2> QED BY <2>1, <2>2, StepCases
<1> QED BY <1>1, <1>2, PTL DEF Spec

\* Every variable of the video services has its type.
THEOREM VideoTypes == Spec => []TypeOK
<1>1. VideoInv => TypeOK
  BY DEF VideoInv, ThreadType, ChannelType, TableType, TypeOK
<1> QED BY <1>1, VideoInvariance, PTL

\* However many displays and connections share the channel, the capture never
\* runs ahead of the acknowledgements.
THEOREM AlwaysFlowControlled == Spec => []FlowControlled
BY VideoInvariance, PTL

\* No request for a key frame gets lost between a connection that sets the option
\* and the thread that clears it.
THEOREM NoRefreshLost == Spec => []RefreshNotLost
<1>1. VideoInv => RefreshNotLost
  BY DEF VideoInv
<1> QED BY <1>1, VideoInvariance, PTL

-----------------------------------------------------------------------------
(* A single display.                                                       *)

\* Nothing was given up and no connection has ended.
Undisturbed == forgiven = 0 /\ ended = {}

\* Then a connection owes nothing, or the thread waits for it and has either its
\* frame under way or its acknowledgement in the channel.
OwesOne(s) ==
  /\ fetched[s] \subseteq awaiting[s]
  /\ \A i \in 1 .. Len(acks) :
       /\ Waiting(s) /\ acks[i] \in awaiting[s] \ fetched[s]
       /\ frames[acks[i]] = <<>>
  /\ \A i, j \in 1 .. Len(acks) : acks[i] = acks[j] => i = j
  /\ \A c \in Conns : frames[c] # <<>> =>
       Len(frames[c]) = 1 /\ Waiting(s) /\ c \in awaiting[s] \ fetched[s]

AloneInv(s) == Undisturbed => OwesOne(s)

LEMMA AloneInit ==
  ASSUME NEW s \in Displays, Init
  PROVE  AloneInv(s)
BY Empty DEF Init, AloneInv, OwesOne

\* Nothing is under way between two waits.
LEMMA NothingOwed ==
  ASSUME VideoInv, NEW s \in Displays, OwesOne(s), ~Waiting(s) \/ awaiting[s] = fetched[s]
  PROVE  acks = <<>> /\ (\A c \in Conns : frames[c] = <<>>)
<1>1. \A c \in Conns : frames[c] = <<>>
  BY DEF OwesOne
<1>2. ~(1 \in 1 .. Len(acks))
  BY DEF OwesOne
<1>3. acks \in Seq(Conns)
  BY DEF VideoInv, ChannelType
<1>4. acks # <<>> => Len(acks) \in Nat \ {0}
  BY <1>3, Taking
<1> QED BY <1>1, <1>2, <1>4

LEMMA NothingOwes ==
  ASSUME NEW s \in Displays, fetched'[s] \subseteq awaiting'[s], acks' = <<>>,
         \A c \in Conns : frames'[c] = <<>>
  PROVE  OwesOne(s)'
BY Empty DEF OwesOne

\* A step that leaves the queues and the wait alone.
LEMMA OwesAsBefore ==
  ASSUME NEW s \in Displays, OwesOne(s), acks' = acks, frames' = frames,
         Waiting(s)' = Waiting(s), awaiting'[s] = awaiting[s], fetched'[s] = fetched[s]
  PROVE  OwesOne(s)'
BY DEF OwesOne

\* All the awaited have acknowledged, counted without repetition.
LEMMA SameSets ==
  ASSUME NEW A \in SUBSET Conns, NEW B \in SUBSET A, Cardinality(B) >= Cardinality(A)
  PROVE  A = B
<1>1. IsFiniteSet(A) /\ Cardinality(A) \in Nat /\ Cardinality(B) \in Nat
  BY Finite
<1>2. Cardinality(B) <= Cardinality(A) /\ (Cardinality(A) = Cardinality(B) => A = B)
  BY <1>1, FS_Subset
<1> QED BY <1>1, <1>2

\* The acknowledgement taken is awaited, and its connection owes nothing more.
LEMMA Taken1 ==
  ASSUME VideoInv, NEW s \in Displays, OwesOne(s), Receive(s)
  PROVE  /\ Head(acks) \in awaiting[s] \ fetched[s] /\ frames[Head(acks)] = <<>>
         /\ Tail(acks) \in Seq(Conns)
         /\ \A i \in 1 .. Len(Tail(acks)) :
              /\ Tail(acks)[i] \in awaiting[s] \ (fetched[s] \cup {Head(acks)})
              /\ frames[Tail(acks)[i]] = <<>>
         /\ \A i, j \in 1 .. Len(Tail(acks)) : Tail(acks)[i] = Tail(acks)[j] => i = j
<1>1. acks \in Seq(Conns) /\ acks # <<>>
  BY DEF VideoInv, ChannelType, Receive
<1>2. /\ Tail(acks) \in Seq(Conns) /\ Len(Tail(acks)) = Len(acks) - 1
      /\ Len(acks) \in Nat \ {0} /\ Head(acks) = acks[1]
      /\ \A i \in 1 .. Len(Tail(acks)) : Tail(acks)[i] = acks[i + 1]
  BY <1>1, Taking
<1>3. 1 \in 1 .. Len(acks)
  BY <1>2
<1>4. Head(acks) \in awaiting[s] \ fetched[s] /\ frames[Head(acks)] = <<>>
  BY <1>2, <1>3 DEF OwesOne
<1>5. \A i \in 1 .. Len(Tail(acks)) : i + 1 \in 1 .. Len(acks) /\ i + 1 # 1 /\ i \in Nat
  BY <1>2
<1>6. ASSUME NEW i \in 1 .. Len(Tail(acks))
      PROVE  /\ Tail(acks)[i] \in awaiting[s] \ (fetched[s] \cup {Head(acks)})
             /\ frames[Tail(acks)[i]] = <<>>
  <2>1. i + 1 \in 1 .. Len(acks) /\ i + 1 # 1 /\ Tail(acks)[i] = acks[i + 1]
    BY <1>2, <1>5
  <2>2. acks[i + 1] # acks[1]
    BY <1>3, <2>1 DEF OwesOne
  <2> QED BY <1>2, <2>1, <2>2 DEF OwesOne
<1>7. ASSUME NEW i \in 1 .. Len(Tail(acks)), NEW j \in 1 .. Len(Tail(acks)),
             Tail(acks)[i] = Tail(acks)[j]
      PROVE  i = j
  <2>1. i + 1 \in 1 .. Len(acks) /\ j + 1 \in 1 .. Len(acks) /\ acks[i + 1] = acks[j + 1]
    BY <1>2, <1>5, <1>7
  <2>2. i + 1 = j + 1
    BY <2>1 DEF OwesOne
  <2> QED BY <1>5, <2>2
<1> QED BY <1>2, <1>4, <1>6, <1>7

LEMMA AloneReceive ==
  ASSUME VideoInv, NEW s \in Displays, OwesOne(s), Receive(s)
  PROVE  /\ OwesOne(s)'
         /\ loc'[s] = "top" => \A c \in awaiting[s] : frames[c] = <<>>
<1> DEFINE got == fetched[s] \cup {Head(acks)}
<1>1. /\ acks' = Tail(acks) /\ frames' = frames
      /\ awaiting[s] \in SUBSET Conns /\ Waiting(s) /\ loc \in [Displays -> Locations]
      /\ fetched \in [Displays -> SUBSET Conns]
      /\ \A c \in Conns : frames[c] # <<>> => c \in awaiting[s] \ got
  BY Taken1 DEF Receive, At, Waiting, VideoInv, ThreadType, OwesOne
<1>2. got \in SUBSET awaiting[s]
  BY Taken1 DEF OwesOne
<1>3. CASE Satisfied(s, got)
  <2>1. awaiting[s] = got
    BY <1>1, <1>2, <1>3, SameSets DEF Satisfied
  <2>2. \A c \in Conns : frames[c] = <<>>
    BY <1>1, <2>1
  <2>3. ~(1 \in 1 .. Len(Tail(acks)))
    BY <2>1, Taken1
  <2>4. Tail(acks) = <<>>
    BY <2>3, Taken1, Taking
  <2>5. fetched'[s] = {}
    BY <1>1, <1>3 DEF Receive, Proceed
  <2>6. OwesOne(s)'
    BY <1>1, <2>2, <2>4, <2>5, NothingOwes
  <2> QED BY <1>1, <2>2, <2>6
<1>4. CASE ~Satisfied(s, got)
  <2>1. loc'[s] = "wait" /\ fetched'[s] = got /\ awaiting'[s] = awaiting[s]
    BY <1>1, <1>4 DEF Receive, Goto
  <2>2. Waiting(s)'
    BY <2>1 DEF Waiting
  <2>3. \A c \in Conns : frames[c] # <<>> => Len(frames[c]) = 1
    BY DEF OwesOne
  <2> QED BY <1>1, <1>2, <2>1, <2>2, <2>3, Taken1 DEF OwesOne
<1> QED BY <1>3, <1>4

LEMMA AloneQuiet ==
  ASSUME VideoInv, NEW s \in Displays, OwesOne(s), Quiet(s)
  PROVE  OwesOne(s)'
<1>1. acks' = acks /\ frames' = frames
  BY QuietNeeds
<1>2. /\ loc \in [Displays -> Locations] /\ fetched \in [Displays -> SUBSET Conns]
      /\ awaiting \in [Displays -> SUBSET Conns]
      /\ ~Waiting(s) => fetched[s] = {}
  BY DEF VideoInv, ThreadType, WaitsForSome
<1>3. CASE ~Waiting(s)
  <2>1. fetched'[s] = {}
    <3> USE <1>2, <1>3 DEF At, Goto, Waiting
    <3>1. CASE SetUp(s) \/ SetUpFails(s) \/ ClearRefresh(s) \/ Capture(s) \/ NoFrame(s)
      BY <3>1 DEF SetUp, SetUpFails, ClearRefresh, Capture, NoFrame, control
    <3>2. CASE Quit(s) \/ Fail(s)
      BY <3>2 DEF Quit, Fail, Leave
    <3>3. CASE Snapshot(s)
      BY <3>3 DEF Snapshot, Leave
    <3>4. CASE EncodeFails(s)
      BY <3>4 DEF EncodeFails
    <3>5. ~(TryWaitNext(s) \/ LockReceiver(s) \/ ReceiveTimeout(s) \/ Expire(s))
      BY DEF TryWaitNext, LockReceiver, ReceiveTimeout, Expire
    <3> QED BY <3>1, <3>2, <3>3, <3>4, <3>5 DEF Quiet
  <2> QED BY <1>1, <1>3, <2>1, NothingOwed, NothingOwes
<1>4. CASE TryWaitNext(s) /\ awaiting[s] = {}
  <2>1. fetched[s] = awaiting[s]
    BY <1>4 DEF OwesOne
  <2>2. fetched'[s] = {}
    BY <1>2, <1>4 DEF TryWaitNext, Proceed
  <2> QED BY <1>1, <2>1, <2>2, NothingOwed, NothingOwes
<1>5. CASE Waiting(s) /\ ~(TryWaitNext(s) /\ awaiting[s] = {})
  <2>1. TryWaitNext(s) \/ LockReceiver(s) \/ ReceiveTimeout(s) \/ Expire(s)
    BY <1>5 DEF Quiet, Waiting, At, SetUp, SetUpFails, ClearRefresh, Quit, Capture, NoFrame, Fail, Snapshot, EncodeFails
  <2>2. Waiting(s)' /\ awaiting'[s] = awaiting[s] /\ fetched'[s] = fetched[s]
    BY <1>2, <1>5, <2>1 DEF TryWaitNext, LockReceiver, ReceiveTimeout, Expire, Goto, Waiting
  <2> QED BY <1>1, <1>5, <2>2, OwesAsBefore
<1> QED BY <1>3, <1>4, <1>5

LEMMA AloneSend ==
  ASSUME VideoInv, NEW s \in Displays, OwesOne(s), EncodeAndSend(s)
  PROVE  OwesOne(s)'
<1>1. ~Waiting(s) /\ fetched[s] = {} /\ subs[s] \in SUBSET Conns
  BY DEF EncodeAndSend, At, Waiting, VideoInv, WaitsForSome, TableType
<1>2. acks = <<>> /\ (\A c \in Conns : frames[c] = <<>>)
  BY <1>1, NothingOwed
<1>3. /\ Waiting(s)' /\ awaiting'[s] = subs[s] /\ fetched'[s] = {} /\ acks' = <<>>
  BY <1>1, <1>2 DEF EncodeAndSend, Remembered, Goto, Waiting, VideoInv, ThreadType
<1>4. \A c \in Conns : frames'[c] # <<>> => Len(frames'[c]) = 1 /\ c \in subs[s]
  <2> SUFFICES ASSUME NEW c \in Conns, frames'[c] # <<>>
               PROVE  Len(frames'[c]) = 1 /\ c \in subs[s]
    OBVIOUS
  <2>1. frames'[c] = Queued(c, s)
    BY DEF EncodeAndSend
  <2>2. frames'[c] = Append(frames[c], s) /\ c \in subs[s]
    BY <1>2, <2>1 DEF Queued
  <2>3. frames[c] \in Seq(Displays) /\ Len(frames[c]) = 0
    BY <1>2, Empty
  <2> QED BY <2>2, <2>3, Appending
<1> QED BY <1>3, <1>4, Empty DEF OwesOne

LEMMA AloneThread ==
  ASSUME VideoInv, MaxForgiven > 0, NEW s \in Displays, AloneInv(s), Thread(s) \/ Expire(s)
  PROVE  AloneInv(s)'
<1>1. CASE Quiet(s)
  BY <1>1, QuietNeeds, AloneQuiet DEF AloneInv, Undisturbed
<1>2. CASE EncodeAndSend(s)
  BY <1>2, AloneSend DEF AloneInv, Undisturbed, EncodeAndSend, connVars
<1>3. CASE Receive(s)
  BY <1>3, AloneReceive DEF AloneInv, Undisturbed, Receive, connVars
<1>4. CASE GiveUpWaiting(s) \/ PrivacySwitch(s)
  <2> SUFFICES ASSUME Undisturbed' PROVE OwesOne(s)'
    BY DEF AloneInv
  <2>1. /\ Waiting(s) /\ GiveUp(s) /\ acks' = acks /\ frames' = frames /\ ended' = ended
        /\ fetched'[s] = {}
    BY <1>4 DEF GiveUpWaiting, PrivacySwitch, At, Waiting, Proceed, Leave, connVars, VideoInv,
       ThreadType
  <2>2. forgiven = 0 /\ Missing(s) = 0
    BY <2>1, Forgiving, Bounds DEF Undisturbed, VideoInv
  <2>3. OwesOne(s)
    BY <2>1, <2>2 DEF AloneInv, Undisturbed
  <2>4. awaiting[s] = fetched[s]
    <3>1. awaiting[s] \in SUBSET Conns /\ fetched[s] \in SUBSET awaiting[s]
      BY <2>3 DEF OwesOne, VideoInv, ThreadType
    <3>2. Cardinality(awaiting[s]) \in Nat /\ Cardinality(fetched[s]) \in Nat
      BY <3>1, Finite
    <3>3. Cardinality(fetched[s]) >= Cardinality(awaiting[s])
      BY <2>2, <3>2 DEF Missing
    <3> QED BY <3>1, <3>3, SameSets
  <2> QED BY <2>1, <2>3, <2>4, NothingOwed, NothingOwes
<1> QED BY <1>1, <1>2, <1>3, <1>4 DEF Thread, Quiet

LEMMA AloneOutside ==
  ASSUME VideoInv, NEW s \in Displays, AloneInv(s), Outside
  PROVE  AloneInv(s)'
<1> SUFFICES ASSUME Undisturbed' PROVE OwesOne(s)'
  BY DEF AloneInv
<1>a. UNCHANGED control /\ Waiting(s)' = Waiting(s)
  BY OutsideControl DEF control, Waiting
<1>1. CASE UNCHANGED <<acks, frames, ended>>
  BY <1>1, <1>a, OutsideControl, OwesAsBefore DEF AloneInv, Undisturbed, control
<1>2. ASSUME NEW c \in Conns, EndLoop(c) PROVE FALSE
  BY <1>2 DEF EndLoop, Undisturbed
<1>3. ASSUME NEW c \in Conns, Acknowledge(c) PROVE OwesOne(s)'
  <2>1. /\ frames[c] # <<>> /\ frames' = [frames EXCEPT ![c] = Tail(frames[c])]
        /\ acks' = Append(acks, c) /\ ended' = ended
    BY <1>3 DEF Acknowledge, connVars
  <2>2. OwesOne(s)
    BY <2>1, OutsideControl DEF AloneInv, Undisturbed
  <2>3. Waiting(s) /\ c \in awaiting[s] \ fetched[s] /\ Len(frames[c]) = 1
    BY <2>1, <2>2 DEF OwesOne
  <2>4. frames'[c] = <<>> /\ (\A d \in Conns \ {c} : frames'[d] = frames[d])
    <3>1. frames[c] \in Seq(Displays) /\ frames \in [Conns -> Seq(Displays)]
      BY DEF VideoInv, ChannelType
    <3>2. Tail(frames[c]) \in Seq(Displays) /\ Len(Tail(frames[c])) = 0
      BY <2>1, <2>3, <3>1, Taking
    <3>3. Tail(frames[c]) = <<>>
      BY <3>2, Taking
    <3> QED BY <2>1, <3>1, <3>3
  <2>5. \A i \in 1 .. Len(acks) : acks[i] # c
    BY <2>1, <2>2 DEF OwesOne
  <2>6. /\ Len(acks') = Len(acks) + 1 /\ Len(acks) \in Nat /\ acks'[Len(acks) + 1] = c
        /\ \A i \in 1 .. Len(acks) : acks'[i] = acks[i]
    BY <2>1, Appending DEF VideoInv, ChannelType
  <2>7. \A i \in 1 .. Len(acks') : i = Len(acks) + 1 \/ i \in 1 .. Len(acks)
    BY <2>6
  <2>8. \A i \in 1 .. Len(acks') :
          acks'[i] \in awaiting[s] \ fetched[s] /\ frames'[acks'[i]] = <<>>
    <3> SUFFICES ASSUME NEW i \in 1 .. Len(acks')
                 PROVE  acks'[i] \in awaiting[s] \ fetched[s] /\ frames'[acks'[i]] = <<>>
      OBVIOUS
    <3>1. CASE i = Len(acks) + 1
      BY <2>3, <2>4, <2>6, <3>1
    <3>2. CASE i \in 1 .. Len(acks)
      <4>1. acks[i] \in Conns
        BY <3>2 DEF VideoInv, ChannelType
      <4> QED BY <2>2, <2>4, <2>5, <2>6, <3>2, <4>1 DEF OwesOne
    <3> QED BY <2>7, <3>1, <3>2
  <2>9. \A i, j \in 1 .. Len(acks') : acks'[i] = acks'[j] => i = j
    <3> SUFFICES ASSUME NEW i \in 1 .. Len(acks'), NEW j \in 1 .. Len(acks'), acks'[i] = acks'[j]
                 PROVE  i = j
      OBVIOUS
    <3>1. CASE i \in 1 .. Len(acks) /\ j \in 1 .. Len(acks)
      BY <2>2, <2>6, <3>1 DEF OwesOne
    <3>2. CASE i = Len(acks) + 1 \/ j = Len(acks) + 1
      BY <2>5, <2>6, <2>7, <3>2
    <3> QED BY <2>7, <3>1, <3>2
  <2>10. \A d \in Conns : frames'[d] # <<>> =>
           Len(frames'[d]) = 1 /\ d \in awaiting[s] \ fetched[s]
    BY <2>2, <2>4 DEF OwesOne
  <2>11. awaiting'[s] = awaiting[s] /\ fetched'[s] = fetched[s] /\ fetched[s] \subseteq awaiting[s]
    BY <1>a, <2>2 DEF control, OwesOne
  <2> QED BY <1>a, <2>3, <2>8, <2>9, <2>10, <2>11 DEF OwesOne
<1>4. ASSUME ~UNCHANGED <<acks, frames, ended>>
      PROVE  \E c \in Conns : Acknowledge(c) \/ EndLoop(c)
  BY <1>4 DEF Outside, Connection, Subscribe, Unsubscribe, Refresh, RemoveConnection, Change,
     vars, connVars
<1> QED BY <1>1, <1>2, <1>3, <1>4

\* "break if all connections have received current frame" is true of a single
\* display, as long as no wait was given up and no connection has ended.
THEOREM AloneBreaksWhenReceived ==
  ASSUME NEW only, Displays = {only}, MaxForgiven > 0
  PROVE  Spec => AloneBreakMeansReceived
<1>1. Init => AloneInv(only)
  BY AloneInit
<1>2. VideoInv /\ AloneInv(only) /\ [Next]_vars => AloneInv(only)'
  BY StepCases, AloneThread, AloneOutside
<1>3. VideoInv /\ AloneInv(only) /\ [Next]_vars =>
        [\A s \in Displays : Receive(s) /\ loc'[s] = "top" /\ forgiven = 0 /\ ended = {} =>
           \A c \in awaiting[s] : Received(s, c)]_vars
  <2> SUFFICES ASSUME VideoInv, AloneInv(only), NEW s \in Displays, Receive(s),
                      loc'[s] = "top", forgiven = 0, ended = {}
               PROVE  \A c \in awaiting[s] : Received(s, c)
    OBVIOUS
  <2>1. \A c \in awaiting[s] : frames[c] = <<>>
    BY AloneReceive DEF AloneInv, Undisturbed
  <2> QED BY <2>1 DEF Received
<1> QED BY <1>1, <1>2, <1>3, VideoInvariance, PTL DEF Spec, AloneBreakMeansReceived

-----------------------------------------------------------------------------
(* Liveness.  The provers take ENABLED for an unknown, so what the fairness *)
(* of the threads is worth comes in as the hypothesis []NeverBlocked, a     *)
(* fact of the guards of its actions.  Numbers of steps cannot be counted   *)
(* below a temporal operator either: that requests, changes and failures    *)
(* cease, which the bounds bring about in the runs, is a hypothesis.        *)

\* A behaviour, seen by the thread of one display.
Runs(s) ==
  /\ [][Next]_vars /\ []VideoInv /\ []NeverBlocked
  /\ ThreadFairness(s)

LEMMA FairRuns ==
  ASSUME NEW s \in Displays
  PROVE  FairSpec /\ []NeverBlocked => Runs(s)
<1>1. Fairness => ThreadFairness(s)
  BY DEF Fairness
<1>2. FairSpec => Spec /\ Fairness
  BY DEF FairSpec
<1>3. Spec /\ ThreadFairness(s) /\ []NeverBlocked => Runs(s)
  BY VideoInvariance, PTL DEF Spec, Runs
<1> QED BY <1>1, <1>2, <1>3

\* The steps of the others leave a thread where it is.
LEMMA OthersLeave ==
  ASSUME VideoInv, [Next]_vars, NEW s \in Displays, ~Thread(s)
  PROVE  /\ loc'[s] = loc[s] /\ encoder'[s] = encoder[s]
         /\ expired[s] => expired'[s]
<1> USE DEF VideoInv, ThreadType, At, Goto
<1>1. CASE Outside
  BY <1>1, OutsideControl DEF control
<1>2. CASE Expire(s)
  BY <1>2 DEF Expire
<1>3. ASSUME NEW t \in Displays \ {s}, Expire(t)
      PROVE  loc'[s] = loc[s] /\ encoder'[s] = encoder[s] /\ expired'[s] = expired[s]
  BY <1>3 DEF Expire
<1>4. ASSUME NEW t \in Displays \ {s}, Thread(t)
      PROVE  loc'[s] = loc[s] /\ encoder'[s] = encoder[s] /\ expired'[s] = expired[s]
  <2>1. CASE SetUp(t) \/ SetUpFails(t) \/ ClearRefresh(t)
    BY <2>1 DEF SetUp, SetUpFails, ClearRefresh, control
  <2>2. CASE Quit(t) \/ Capture(t) \/ NoFrame(t) \/ Fail(t)
    BY <2>2 DEF Quit, Capture, NoFrame, Fail, Leave
  <2>3. CASE Snapshot(t) \/ EncodeAndSend(t) \/ EncodeFails(t)
    BY <2>3 DEF Snapshot, EncodeAndSend, EncodeFails, Leave
  <2>4. CASE GiveUpWaiting(t) \/ PrivacySwitch(t) \/ TryWaitNext(t)
    BY <2>4 DEF GiveUpWaiting, PrivacySwitch, TryWaitNext, Leave, Proceed
  <2>5. CASE LockReceiver(t) \/ Receive(t) \/ ReceiveTimeout(t)
    BY <2>5 DEF LockReceiver, Receive, ReceiveTimeout, Proceed
  <2> QED BY <1>4, <2>1, <2>2, <2>3, <2>4, <2>5 DEF Thread
<1> QED BY <1>1, <1>2, <1>3, <1>4, StepCases

\* Where a step of a waiting thread leads.
LEMMA WaitSteps ==
  ASSUME VideoInv, NEW s \in Displays, Thread(s)
  PROVE  /\ At(s, "wait") => At(s, "queue")' \/ ~Waiting(s)'
         /\ At(s, "wait") /\ expired[s] => ~Waiting(s)'
         /\ At(s, "queue") => At(s, "receive")' /\ LockReceiver(s)
         /\ At(s, "receive") => At(s, "wait")' \/ ~Waiting(s)'
         /\ At(s, "receive") => receiver' = Nobody
         /\ expired[s] => expired'[s] \/ ~Waiting(s)'
<1> USE DEF VideoInv, ThreadType, At, Goto, Waiting
<1>1. CASE SetUp(s) \/ SetUpFails(s) \/ ClearRefresh(s)
  BY <1>1 DEF SetUp, SetUpFails, ClearRefresh, control
<1>2. CASE Quit(s) \/ Capture(s) \/ NoFrame(s) \/ Fail(s)
  BY <1>2 DEF Quit, Capture, NoFrame, Fail, Leave
<1>3. CASE Snapshot(s) \/ EncodeAndSend(s) \/ EncodeFails(s)
  BY <1>3 DEF Snapshot, EncodeAndSend, EncodeFails, Leave
<1>4. CASE GiveUpWaiting(s) \/ PrivacySwitch(s) \/ TryWaitNext(s)
  BY <1>4 DEF GiveUpWaiting, PrivacySwitch, TryWaitNext, Leave, Proceed, OutOfTime
<1>5. CASE LockReceiver(s) \/ Receive(s) \/ ReceiveTimeout(s)
  BY <1>5 DEF LockReceiver, Receive, ReceiveTimeout, Proceed, Released
<1> QED BY <1>1, <1>2, <1>3, <1>4, <1>5 DEF Thread

\* Whoever has the lock of the receiver gives it back, to nobody.
LockGoes(t) == receiver = t => <>(receiver = Nobody)
LockAlwaysGoes(t) == []LockGoes(t)

LEMMA LockStays ==
  ASSUME VideoInv, [Next]_vars, NEW t \in Displays, receiver = t
  PROVE  receiver' = t \/ receiver' = Nobody
<1>1. CASE Outside
  BY <1>1, OutsideControl DEF control
<1>2. ASSUME NEW s \in Displays, Expire(s) PROVE receiver' = t
  BY <1>2 DEF Expire
<1>3. ASSUME NEW s \in Displays, Thread(s) PROVE receiver' = t \/ receiver' = Nobody
  <2>1. CASE At(s, "receive")
    BY <1>3, <2>1, WaitSteps
  <2>2. CASE ~At(s, "receive")
    <3>1. receiver # Nobody
      BY Bounds
    <3> QED BY <1>3, <2>2, <3>1 DEF Thread, SetUp, SetUpFails, ClearRefresh, Quit, Capture,
            NoFrame, Fail, Snapshot, EncodeAndSend, EncodeFails, GiveUpWaiting, PrivacySwitch,
            TryWaitNext, LockReceiver, Receive, ReceiveTimeout, control, Goto, Leave, Proceed
  <2> QED BY <2>1, <2>2
<1> QED BY <1>1, <1>2, <1>3, StepCases

LEMMA LockIsGiven ==
  ASSUME NEW s \in Displays
  PROVE  Runs(s) => LockAlwaysGoes(s)
<1>1. VideoInv /\ receiver = s /\ [Next]_vars => (receiver = s)' \/ (receiver = Nobody)'
  BY LockStays
<1>2. VideoInv /\ receiver = s /\ <<Thread(s)>>_vars => (receiver = Nobody)'
  <2> SUFFICES ASSUME VideoInv, receiver = s, Thread(s) PROVE receiver' = Nobody
    OBVIOUS
  <2>1. At(s, "receive")
    BY DEF VideoInv, ThreadType, At
  <2> QED BY <2>1, WaitSteps
<1>3. VideoInv /\ receiver = s => CanGoOn(s)
  BY DEF VideoInv, ThreadType, CanGoOn, At
<1>4. NeverBlocked /\ CanGoOn(s) => ENABLED <<Thread(s)>>_vars
  BY DEF NeverBlocked, CanGoOn, At
<1> QED BY <1>1, <1>2, <1>3, <1>4, PTL DEF Runs, ThreadFairness, LockAlwaysGoes, LockGoes

\* The lock is free again and again.
LEMMA LockIsFree == FairSpec /\ []NeverBlocked => []<>(receiver = Nobody)
<1>1. FairSpec /\ []NeverBlocked => \A t \in Displays : LockAlwaysGoes(t)
  <2>1. ASSUME NEW s \in Displays
        PROVE  FairSpec /\ []NeverBlocked => LockAlwaysGoes(s)
    <3>1. FairSpec /\ []NeverBlocked => Runs(s)
      BY FairRuns
    <3>2. Runs(s) => LockAlwaysGoes(s)
      BY LockIsGiven
    <3> QED BY <3>1, <3>2
  <2> QED BY <2>1
<1>2. (\A t \in Displays : LockAlwaysGoes(t)) => [](\A t \in Displays : LockGoes(t))
  BY DEF LockAlwaysGoes
<1>3. VideoInv => receiver = Nobody \/ receiver \in Displays
  BY DEF VideoInv, ThreadType
<1>4. receiver \in Displays /\ (\A t \in Displays : LockGoes(t)) => <>(receiver = Nobody)
  BY DEF LockGoes
<1> QED BY <1>1, <1>2, <1>3, <1>4, VideoInvariance, PTL DEF FairSpec

WaitGoes(s) == Waiting(s) ~> ~Waiting(s)
Over(s) == Waiting(s) /\ expired[s]

\* Once its three seconds are over, a thread that waits goes on: at once, or
\* after its turn at the receiver.
LEMMA WaitIsOver ==
  ASSUME NEW s \in Displays
  PROVE  Runs(s) /\ []<>(receiver = Nobody) => WaitGoes(s)
<1>1. VideoInv /\ Over(s) /\ At(s, "wait") /\ [Next]_vars
        => (Over(s) /\ At(s, "wait"))' \/ ~Waiting(s)'
  BY OthersLeave, WaitSteps DEF Over, At, Waiting
<1>2. VideoInv /\ Over(s) /\ At(s, "wait") /\ <<Thread(s)>>_vars => ~Waiting(s)'
  BY WaitSteps DEF Over
<1>3. VideoInv /\ Over(s) /\ At(s, "queue") /\ [Next]_vars
        => (Over(s) /\ At(s, "queue"))' \/ (Over(s) /\ At(s, "receive"))' \/ ~Waiting(s)'
  BY OthersLeave, WaitSteps DEF Over, At, Waiting
<1>4. VideoInv /\ Over(s) /\ At(s, "queue") /\ <<LockReceiver(s)>>_vars
        => (Over(s) /\ At(s, "receive"))' \/ ~Waiting(s)'
  BY WaitSteps DEF Over, At, Waiting, Thread
<1>5. VideoInv /\ Over(s) /\ At(s, "receive") /\ [Next]_vars
        => (Over(s) /\ At(s, "receive"))' \/ (Over(s) /\ At(s, "wait"))' \/ ~Waiting(s)'
  BY OthersLeave, WaitSteps DEF Over, At, Waiting
<1>6. VideoInv /\ Over(s) /\ At(s, "receive") /\ <<Thread(s)>>_vars
        => (Over(s) /\ At(s, "wait"))' \/ ~Waiting(s)'
  BY WaitSteps DEF Over, At, Waiting
<1>7. /\ NeverBlocked /\ At(s, "wait") => ENABLED <<Thread(s)>>_vars
      /\ NeverBlocked /\ At(s, "receive") => ENABLED <<Thread(s)>>_vars
      /\ NeverBlocked /\ At(s, "queue") /\ receiver = Nobody => ENABLED <<LockReceiver(s)>>_vars
      /\ NeverBlocked /\ Waiting(s) /\ ~Over(s) => ENABLED <<Expire(s)>>_vars
  BY DEF NeverBlocked, CanGoOn, At, Over
<1>8. <<Expire(s)>>_vars /\ VideoInv => Over(s)'
  BY DEF Expire, Over, Waiting, VideoInv, ThreadType
<1>9. Over(s) => At(s, "wait") \/ At(s, "queue") \/ At(s, "receive")
  BY DEF Over, Waiting, At
<1>10. Runs(s) => (Waiting(s) ~> ~Waiting(s) \/ Over(s))
  BY <1>7, <1>8, PTL DEF Runs, ThreadFairness
<1>11. Runs(s) => (Over(s) /\ At(s, "wait") ~> ~Waiting(s))
  BY <1>1, <1>2, <1>7, PTL DEF Runs, ThreadFairness
<1>12. Runs(s) => (Over(s) /\ At(s, "receive") ~> (Over(s) /\ At(s, "wait")) \/ ~Waiting(s))
  BY <1>5, <1>6, <1>7, PTL DEF Runs, ThreadFairness
<1>13. Runs(s) /\ []<>(receiver = Nobody)
         => (Over(s) /\ At(s, "queue") ~> (Over(s) /\ At(s, "receive")) \/ ~Waiting(s))
  BY <1>3, <1>4, <1>7, PTL DEF Runs, ThreadFairness
<1> QED BY <1>9, <1>10, <1>11, <1>12, <1>13, PTL DEF WaitGoes

\* No thread waits for ever, for any number of displays, whatever the connections
\* acknowledge and whichever thread takes it.
THEOREM EveryWaitEnds == FairSpec /\ []NeverBlocked => WaitEnds
<1>1. ASSUME NEW s \in Displays
      PROVE  FairSpec /\ []NeverBlocked => WaitGoes(s)
  <2>1. FairSpec /\ []NeverBlocked => Runs(s)
    BY FairRuns
  <2>2. Runs(s) /\ []<>(receiver = Nobody) => WaitGoes(s)
    BY WaitIsOver
  <2> QED BY <2>1, <2>2, LockIsFree
<1>2. FairSpec /\ []NeverBlocked => \A s \in Displays : WaitGoes(s)
  BY <1>1
<1>3. (\A s \in Displays : WaitGoes(s)) => WaitEnds
  BY DEF WaitEnds, WaitGoes
<1> QED BY <1>2, <1>3
-----------------------------------------------------------------------------
(* Refresh requests are served.                                            *)

\* No request, change of codec or privacy mode, or failure comes any more.
Ceased == UNCHANGED <<refreshes, changes, fails>>

LEMMA StutterCeased == [Ceased]_vars => Ceased
BY DEF Ceased, vars, requests

\* s owes somebody a key frame, and nobody else joins.
Unserved(s) == s \in owed /\ HasSubscribes(s) /\ news[s] = {}

\* The next frame is a key frame, and nothing keeps it from being sent.
KeyFrameNext(s) ==
  /\ ~MustSwitch(s) /\ encoder[s] = "fresh"
  /\ loc[s] \notin {"idle", "ready"}

\* ... or it will be once OPTION_REFRESH is cleared.
JustSetUp(s) == At(s, "ready") /\ outdated[s] = {}

LEMMA OthersAskNothing ==
  ASSUME VideoInv, [Next]_vars, NEW s \in Displays, ~Thread(s), Ceased
  PROVE  refresh'[s] = refresh[s] /\ outdated'[s] = outdated[s]
<1> USE DEF VideoInv, TableType
<1>1. ASSUME NEW c \in Conns, NEW asked \in SUBSET Displays PROVE ~Refresh(c, asked)
  BY DEF Refresh, Ceased
<1>2. ASSUME NEW what \in Changes PROVE ~Change(what)
  BY DEF Change, Ceased
<1>3. CASE Outside
  <2>1. ASSUME NEW c \in Conns, Connection(c) PROVE UNCHANGED requests
    <3>1. ~Refresh(c, Displays) /\ \A t \in Displays : ~Refresh(c, {t})
      BY <1>1
    <3> QED BY <2>1, <3>1 DEF Connection, Subscribe, Unsubscribe, Acknowledge, EndLoop,
            RemoveConnection
  <2> QED BY <1>2, <1>3, <2>1 DEF Outside, requests, vars
<1>4. ASSUME NEW t \in Displays, Expire(t) PROVE UNCHANGED <<refresh, outdated>>
  BY <1>4 DEF Expire, requests
<1>5. ASSUME NEW t \in Displays \ {s}, Thread(t)
      PROVE  refresh'[s] = refresh[s] /\ outdated'[s] = outdated[s]
  BY <1>5 DEF Thread, SetUp, SetUpFails, ClearRefresh, Quit, Capture, NoFrame, Fail, Snapshot,
     EncodeAndSend, EncodeFails, GiveUpWaiting, PrivacySwitch, TryWaitNext, LockReceiver,
     Receive, ReceiveTimeout, requests
<1> QED BY <1>3, <1>4, <1>5, StepCases

\* Where a step of a thread leads that owes a key frame.
LEMMA OwingSteps ==
  ASSUME VideoInv, NEW s \in Displays, Thread(s), Ceased, Unserved(s), Unserved(s)'
  PROVE  /\ At(s, "idle") => JustSetUp(s)'
         /\ At(s, "ready") => At(s, "top")' /\ ~refresh'[s] /\ outdated'[s] = outdated[s]
                              /\ encoder'[s] = "fresh"
         /\ At(s, "top") /\ MustSwitch(s) => At(s, "idle")'
         /\ At(s, "top") /\ ~MustSwitch(s) => At(s, "snapshot")' \/ Waiting(s)'
         /\ At(s, "snapshot") => At(s, "encode")'
         /\ At(s, "encode") => Waiting(s)' /\ encoder[s] # "fresh"
         /\ Waiting(s) => Waiting(s)' \/ At(s, "top")' \/ At(s, "idle")'
         /\ KeyFrameNext(s) => KeyFrameNext(s)'
<1> USE DEF VideoInv, ThreadType, TableType, Locations, At, Goto, Waiting, Unserved, JustSetUp,
            KeyFrameNext, MustSwitch, Ceased
<1>1. CASE SetUp(s) \/ SetUpFails(s) \/ ClearRefresh(s)
  BY <1>1 DEF SetUp, SetUpFails, ClearRefresh, EncoderFollows, control
<1>2. CASE Quit(s) \/ Capture(s) \/ NoFrame(s) \/ Fail(s)
  BY <1>2 DEF Quit, Capture, NoFrame, Fail, Leave, requests
<1>3. CASE Snapshot(s) \/ EncodeFails(s)
  BY <1>3 DEF Snapshot, EncodeFails, Leave, requests
<1>4. CASE EncodeAndSend(s)
  BY <1>4 DEF EncodeAndSend, requests
<1>5. CASE GiveUpWaiting(s) \/ PrivacySwitch(s) \/ TryWaitNext(s)
  BY <1>5 DEF GiveUpWaiting, PrivacySwitch, TryWaitNext, Leave, Proceed, requests
<1>6. CASE LockReceiver(s) \/ Receive(s) \/ ReceiveTimeout(s)
  BY <1>6 DEF LockReceiver, Receive, ReceiveTimeout, Proceed, requests
<1> QED BY <1>1, <1>2, <1>3, <1>4, <1>5, <1>6 DEF Thread

\* A key frame that is to come next is sent: the capturer delivers in the end.
LEMMA KeyFrameSent ==
  ASSUME NEW s \in Displays
  PROVE  ~(/\ Runs(s) /\ WaitGoes(s) /\ [][Ceased]_vars /\ []Unserved(s)
           /\ []KeyFrameNext(s))
<1> DEFINE Step == /\ VideoInv /\ [Next]_vars /\ [Ceased]_vars
                   /\ Unserved(s) /\ Unserved(s)' /\ KeyFrameNext(s)
<1>1. Step /\ At(s, "encode") => At(s, "encode")'
  BY StutterCeased, OwingSteps, OthersLeave DEF KeyFrameNext, At
<1>2. Step /\ At(s, "encode") => ~<<Thread(s)>>_vars
  BY StutterCeased, OwingSteps DEF KeyFrameNext
<1>3. Step /\ At(s, "snapshot") => At(s, "snapshot")' \/ At(s, "encode")'
  BY StutterCeased, OwingSteps, OthersLeave DEF At
<1>4. Step /\ At(s, "snapshot") /\ <<Thread(s)>>_vars => At(s, "encode")'
  BY StutterCeased, OwingSteps
<1>5. <<Capture(s)>>_vars /\ VideoInv => At(s, "snapshot")'
  BY DEF Capture, At, Goto, VideoInv, ThreadType
<1>6. KeyFrameNext(s) /\ VideoInv
        => At(s, "top") \/ At(s, "snapshot") \/ At(s, "encode") \/ Waiting(s)
  BY DEF KeyFrameNext, At, Waiting, VideoInv, ThreadType, Locations
<1>7. /\ NeverBlocked /\ At(s, "encode") => ENABLED <<Thread(s)>>_vars
      /\ NeverBlocked /\ At(s, "snapshot") => ENABLED <<Thread(s)>>_vars
      /\ NeverBlocked /\ At(s, "top") /\ Unserved(s) /\ KeyFrameNext(s)
           => ENABLED <<Capture(s)>>_vars
  BY DEF NeverBlocked, CanGoOn, At, Unserved, KeyFrameNext
<1> QED BY <1>1, <1>2, <1>3, <1>4, <1>5, <1>6, <1>7, PTL DEF Runs, ThreadFairness, WaitGoes

LEMMA KeyFrameComes ==
  ASSUME NEW s \in Displays
  PROVE  Runs(s) /\ WaitGoes(s) /\ [][Ceased]_vars /\ []Unserved(s) => <>KeyFrameNext(s)
<1> DEFINE Step == /\ VideoInv /\ [Next]_vars /\ [Ceased]_vars
                   /\ Unserved(s) /\ Unserved(s)'
<1> DEFINE MustLeave == At(s, "top") /\ MustSwitch(s)
<1>1. Step /\ At(s, "idle") => At(s, "idle")' \/ JustSetUp(s)'
  BY StutterCeased, OwingSteps, OthersLeave DEF At
<1>2. Step /\ At(s, "idle") /\ <<Thread(s)>>_vars => JustSetUp(s)'
  BY StutterCeased, OwingSteps
<1>3. Step /\ JustSetUp(s) => JustSetUp(s)' \/ KeyFrameNext(s)'
  BY StutterCeased, OwingSteps, OthersLeave, OthersAskNothing
     DEF At, JustSetUp, KeyFrameNext, MustSwitch
<1>4. Step /\ JustSetUp(s) /\ <<Thread(s)>>_vars => KeyFrameNext(s)'
  BY StutterCeased, OwingSteps DEF At, JustSetUp, KeyFrameNext, MustSwitch
<1>5. Step /\ At(s, "ready") => At(s, "ready")' \/ At(s, "top")'
  BY StutterCeased, OwingSteps, OthersLeave DEF At
<1>6. Step /\ At(s, "ready") /\ <<Thread(s)>>_vars => At(s, "top")'
  BY StutterCeased, OwingSteps
<1>7. Step /\ MustLeave => MustLeave' \/ At(s, "idle")'
  BY StutterCeased, OwingSteps, OthersLeave, OthersAskNothing DEF At, MustSwitch
<1>8. Step /\ MustLeave /\ <<Thread(s)>>_vars => At(s, "idle")'
  BY StutterCeased, OwingSteps
<1>9. Step /\ At(s, "snapshot") => At(s, "snapshot")' \/ At(s, "encode")'
  BY StutterCeased, OwingSteps, OthersLeave DEF At
<1>10. Step /\ At(s, "snapshot") /\ <<Thread(s)>>_vars => At(s, "encode")'
  BY StutterCeased, OwingSteps
<1>11. Step /\ At(s, "encode") => At(s, "encode")' \/ Waiting(s)'
  BY StutterCeased, OwingSteps, OthersLeave DEF At
<1>12. Step /\ At(s, "encode") /\ <<Thread(s)>>_vars => Waiting(s)'
  BY StutterCeased, OwingSteps
\* the request is not lost, so an encoder that runs is to be replaced
<1>13. VideoInv /\ Unserved(s) /\ At(s, "top") => MustLeave \/ KeyFrameNext(s)
  BY DEF VideoInv, Unserved, RefreshNotLost, EncoderFollows, MustSwitch, KeyFrameNext, At
<1>14. VideoInv => \/ At(s, "idle") \/ At(s, "ready") \/ At(s, "top") \/ At(s, "snapshot")
                   \/ At(s, "encode") \/ Waiting(s)
  BY DEF VideoInv, ThreadType, Locations, At, Waiting
<1>15. NeverBlocked /\ Unserved(s) /\ ~Waiting(s) => ENABLED <<Thread(s)>>_vars
  BY DEF NeverBlocked, CanGoOn, At, Unserved, Waiting
<1>16. /\ At(s, "idle") => ~Waiting(s)
       /\ At(s, "ready") => ~Waiting(s)
       /\ JustSetUp(s) => ~Waiting(s)
       /\ At(s, "top") => ~Waiting(s)
       /\ MustLeave => ~Waiting(s) /\ At(s, "top")
       /\ At(s, "snapshot") => ~Waiting(s)
       /\ At(s, "encode") => ~Waiting(s)
  BY DEF At, JustSetUp, Waiting
<1>17. Step /\ Waiting(s) => Waiting(s)' \/ At(s, "top")' \/ At(s, "idle")'
  BY StutterCeased, OwingSteps, OthersLeave DEF At, Waiting
<1> HIDE DEF MustLeave
<1> DEFINE Quietly == Runs(s) /\ [][Ceased]_vars /\ []Unserved(s)
<1>20. Quietly => (At(s, "idle") ~> KeyFrameNext(s))
  BY <1>1, <1>2, <1>3, <1>4, <1>15, <1>16, PTL DEF Runs, ThreadFairness
<1>21. Quietly => (MustLeave ~> At(s, "idle"))
  BY <1>7, <1>8, <1>15, <1>16, PTL DEF Runs, ThreadFairness
<1>22. Quietly => (At(s, "ready") ~> At(s, "top"))
  BY <1>5, <1>6, <1>15, <1>16, PTL DEF Runs, ThreadFairness
<1>23. Quietly => (At(s, "snapshot") ~> At(s, "encode"))
  BY <1>9, <1>10, <1>15, <1>16, PTL DEF Runs, ThreadFairness
<1>24. Quietly => (At(s, "encode") ~> Waiting(s))
  BY <1>11, <1>12, <1>15, <1>16, PTL DEF Runs, ThreadFairness
<1>25. Quietly /\ WaitGoes(s)
         => <>(KeyFrameNext(s) \/ At(s, "top") \/ At(s, "idle"))
  BY <1>14, <1>17, <1>22, <1>23, <1>24, PTL DEF Runs, WaitGoes
<1> QED BY <1>13, <1>20, <1>21, <1>25, PTL DEF Runs

NobodyJoins == \A s \in Displays : news[s] = {}
NoneJoins(s) == <>[](news[s] = {})
ServedOrLeft(s) == s \in owed ~> (s \notin owed \/ ~HasSubscribes(s))

LEMMA RefreshIsServed ==
  ASSUME NEW s \in Displays
  PROVE  Runs(s) /\ WaitGoes(s) /\ <>[][Ceased]_vars /\ NoneJoins(s)
           => ServedOrLeft(s)
<1>1. news[s] = {} => Unserved(s) \/ s \notin owed \/ ~HasSubscribes(s)
  BY DEF Unserved
<1>2. VideoInv /\ [Next]_vars /\ [Ceased]_vars /\ Unserved(s) /\ Unserved(s)' /\ KeyFrameNext(s)
        => KeyFrameNext(s)'
  <2> SUFFICES ASSUME VideoInv, [Next]_vars, Ceased, Unserved(s), Unserved(s)', KeyFrameNext(s)
               PROVE  KeyFrameNext(s)'
    BY StutterCeased
  <2>1. CASE Thread(s)
    BY <2>1, OwingSteps
  <2>2. CASE ~Thread(s)
    BY <2>2, OthersLeave, OthersAskNothing DEF KeyFrameNext, MustSwitch
  <2> QED BY <2>1, <2>2
<1> DEFINE Steady == Runs(s) /\ WaitGoes(s)
<1>3. Steady => []Steady
  BY PTL DEF Runs, ThreadFairness, WaitGoes
<1>4. Steady => [][Next]_vars /\ []VideoInv
  BY PTL DEF Runs
<1>5. ~(Steady /\ [][Ceased]_vars /\ []Unserved(s) /\ []KeyFrameNext(s))
  BY KeyFrameSent
<1>6. Steady /\ [][Ceased]_vars /\ []Unserved(s) => <>KeyFrameNext(s)
  BY KeyFrameComes
<1> HIDE DEF Steady
<1>7. ~(Steady /\ [][Ceased]_vars /\ []Unserved(s))
  BY <1>2, <1>3, <1>4, <1>5, <1>6, PTL
<1>8. Steady /\ <>[][Ceased]_vars /\ NoneJoins(s) => ServedOrLeft(s)
  BY <1>1, <1>3, <1>7, PTL DEF NoneJoins, ServedOrLeft
<1> QED BY <1>8 DEF Steady

\* Once subscribers stop joining, a refresh request is answered by a key frame
\* unless nobody is left, for any number of displays and connections and at
\* whatever point of the thread's loop it came, if requests, changes and failures
\* cease.
THEOREM EveryRefreshServed ==
  FairSpec /\ []NeverBlocked /\ <>[][Ceased]_vars => RefreshServed
<1>1. ASSUME NEW t \in Displays
      PROVE  FairSpec /\ []NeverBlocked /\ <>[][Ceased]_vars /\ <>[]NobodyJoins
               => ServedOrLeft(t)
  <2>1. NobodyJoins => news[t] = {}
    BY DEF NobodyJoins
  <2>2. FairSpec /\ []NeverBlocked => Runs(t) /\ WaitGoes(t)
    <3>1. FairSpec /\ []NeverBlocked => Runs(t)
      BY FairRuns
    <3>2. Runs(t) /\ []<>(receiver = Nobody) => WaitGoes(t)
      BY WaitIsOver
    <3> QED BY <3>1, <3>2, LockIsFree
  <2>3. Runs(t) /\ WaitGoes(t) /\ <>[][Ceased]_vars /\ NoneJoins(t) => ServedOrLeft(t)
    BY RefreshIsServed
  <2> QED BY <2>1, <2>2, <2>3, PTL DEF NoneJoins
<1>2. FairSpec /\ []NeverBlocked /\ <>[][Ceased]_vars /\ <>[]NobodyJoins
        => \A s \in Displays : ServedOrLeft(s)
  BY <1>1
<1>3. (\A s \in Displays : ServedOrLeft(s))
        => \A s \in Displays : s \in owed ~> (s \notin owed \/ ~HasSubscribes(s))
  BY DEF ServedOrLeft
<1> QED BY <1>2, <1>3 DEF RefreshServed, NobodyJoins

=============================================================================
