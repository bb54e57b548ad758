------------------------------ MODULE Registry ------------------------------
(***************************************************************************)
(* What the subscription machinery of server.rs and service.rs promises,   *)
(* with one set of members per service and no thread, lock or snapshot: a  *)
(* connection joins and leaves a service in one step, only members are     *)
(* sent anything, and a connection that is gone is a member of nothing and *)
(* stays that way.                                                         *)
(***************************************************************************)
EXTENDS Naturals

CONSTANTS Conns, Services, Versions, NoVersion

VARIABLES
  members,   \* connections a service serves
  gone,      \* connections whose loop has ended
  received   \* last version a member was sent since it joined

registryVars == <<members, gone, received>>

Init ==
  /\ members = [s \in Services |-> {}]
  /\ gone = {}
  /\ received = [s \in Services |-> [c \in Conns |-> NoVersion]]

Join(s, c) ==
  /\ c \notin gone
  /\ members' = [members EXCEPT ![s] = @ \cup {c}]
  /\ UNCHANGED <<gone, received>>

Leave(s, c) ==
  /\ members' = [members EXCEPT ![s] = @ \ {c}]
  /\ received' = [received EXCEPT ![s][c] = NoVersion]
  /\ UNCHANGED gone

\* A service sends one version to some of its members.
Send(s) ==
  /\ \E audience \in SUBSET members[s], v \in Versions :
       received' = [received EXCEPT ![s] =
         [c \in Conns |-> IF c \in audience THEN v ELSE @[c]]]
  /\ UNCHANGED <<members, gone>>

Close(c) ==
  /\ \A s \in Services : c \notin members[s]
  /\ gone' = gone \cup {c}
  /\ UNCHANGED <<members, received>>

Next ==
  \/ \E s \in Services, c \in Conns : Join(s, c) \/ Leave(s, c)
  \/ \E s \in Services : Send(s)
  \/ \E c \in Conns : Close(c)

Spec == Init /\ [][Next]_registryVars
=============================================================================
