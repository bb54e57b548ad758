----------------------------- MODULE MCNetwork -----------------------------
(* What the network carries, for TLC, one part at a time: in a behaviour    *)
(* the part `about' runs and the others keep still.                         *)
EXTENDS Framing, SecureStream, PortForward, Rendezvous, FileTransfer

VARIABLE about

networkVars ==
  <<about, framingVars, secureVars, forwardVars, rendezvousVars, transferVars>>

SomeLengths == {0, 1, 3, 4, 15, 16, 64}

FirstHost == CHOOSE h \in Hosts : TRUE

\* Where there is a choice, a part that keeps still takes one value; the
\* servers are alike.
StillChosen ==
  /\ about # "secure" => ~secure /\ ~trusts /\ ~verified
  /\ about # "forward" => portOpen
  /\ about # "rendezvous" =>
       /\ option = {} /\ key_confirmed /\ changes = MaxChanges /\ faults = MaxFaults
       /\ \A t \in Probes : test[t] = "over"
  /\ (\E h \in Hosts : taken[h] # {}) => taken[FirstHost] # {}
  /\ about # "transfer" =>
       download /\ failures = MaxFailures /\ \A f \in Files : file[f] = NoFile /\ part[f] = NoFile

\* Either the servers change, or faults happen, or a test is made, of servers
\* that know this machine, and one fault happens.  Either something is left of an
\* earlier transfer, or the disk fails, or files are there and others are not.
NetworkInit ==
  /\ about \in {"framing", "secure", "forward", "rendezvous", "transfer"}
  /\ FramingInit /\ SecureInit /\ PortForwardInit /\ RendezvousInit /\ TransferInit
  /\ changes = MaxChanges \/ faults = MaxFaults
  /\ \/ \A t \in Probes : test[t] = "over"
     \/ changes = MaxChanges /\ faults >= MaxFaults - 1 /\ key_confirmed
  /\ excused = {} \/ failures = MaxFailures
  /\ (excused = {} /\ failures = MaxFailures) \/ \A f, g \in Files : file[f] = file[g]
  /\ StillChosen

NetworkNext ==
  /\ UNCHANGED about
  /\ \/ /\ about = "framing" /\ FramingNext
        /\ UNCHANGED <<secureVars, forwardVars, rendezvousVars, transferVars>>
     \/ /\ about = "secure" /\ SecureNext
        /\ UNCHANGED <<framingVars, forwardVars, rendezvousVars, transferVars>>
     \/ /\ about = "forward" /\ PortForwardNext
        /\ UNCHANGED <<framingVars, secureVars, rendezvousVars, transferVars>>
     \/ /\ about = "rendezvous" /\ RendezvousNext
        /\ UNCHANGED <<framingVars, secureVars, forwardVars, transferVars>>
     \/ /\ about = "transfer" /\ TransferNext
        /\ UNCHANGED <<framingVars, secureVars, forwardVars, rendezvousVars>>

\* The fairness of each part, while it is the one that runs.
NetworkFairness ==
  /\ \A e \in Sides : WF_secureVars(about = "secure" /\ Receive(e))
  /\ WF_forwardVars(about = "forward" /\ ClientReceives)
  /\ WF_forwardVars(about = "forward" /\ ServerReceives)
  /\ WF_rendezvousVars(about = "rendezvous" /\ Round)
  /\ WF_rendezvousVars(about = "rendezvous" /\ Restart)
  /\ \A h \in Hosts : WF_rendezvousVars(about = "rendezvous" /\ Task(h))
  /\ \A t \in Probes : WF_rendezvousVars(about = "rendezvous" /\ TestGoesOn(t))
  /\ WF_transferVars(about = "transfer" /\ ReaderStep)
  /\ WF_transferVars(about = "transfer" /\ WriterStep)
  /\ WF_transferVars(about = "transfer" /\ Answer)
  /\ WF_transferVars(about = "transfer" /\ Resume)

NetworkSpec == NetworkInit /\ [][NetworkNext]_networkVars /\ NetworkFairness

\* The same with nothing but one part, and no liveness.
ForwardOnly == NetworkInit /\ about = "forward" /\ [][NetworkNext]_networkVars
TransferOnly == NetworkInit /\ about = "transfer" /\ [][NetworkNext]_networkVars

\* The type invariants of the parts.
NetworkTypeOK ==
  /\ FramingTypeOK /\ SecureTypeOK /\ PortForwardTypeOK /\ RendezvousTypeOK /\ TransferTypeOK
=============================================================================
