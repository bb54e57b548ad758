------------------------------ MODULE MCScreen ------------------------------
(* What becomes of the picture of the screens, for TLC: its flow to the     *)
(* connections, or the privacy mode that hides it on the spot.  In a        *)
(* behaviour the part `about' runs and the other keeps still.               *)
EXTENDS VideoFlow, Privacy

VARIABLE about

screenVars == <<about, vars, privacyVars>>

\* Where there is a choice, a part that keeps still takes one value.
ScreenInit ==
  /\ about \in {"video", "late", "pressed"}
  /\ Init /\ PrivacyInit
  /\ about = "video" => impl = "window"

\* Either threads are late, or somebody at the machine presses Ctrl+P.
ScreenNext ==
  /\ UNCHANGED about
  /\ \/ about = "video" /\ Next /\ UNCHANGED privacyVars
     \/ about = "late" /\ PrivacyNext /\ ~pressed' /\ UNCHANGED vars
     \/ about = "pressed" /\ PrivacyNext /\ threads' = {} /\ UNCHANGED vars

\* The fairness of VideoFlow, while it is the part that runs.
ScreenFairness ==
  \A s \in Displays :
    /\ WF_vars(about = "video" /\ Thread(s)) /\ WF_vars(about = "video" /\ Expire(s))
    /\ SF_vars(about = "video" /\ LockReceiver(s)) /\ SF_vars(about = "video" /\ Capture(s))

ScreenSpec == ScreenInit /\ [][ScreenNext]_screenVars /\ ScreenFairness

\* The type invariants of the parts.
ScreenTypeOK == TypeOK /\ PrivacyTypeOK
=============================================================================
