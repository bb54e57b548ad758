------------------------------ MODULE Channel ------------------------------
(***************************************************************************)
(* What a stream promises the two that use it, with no bytes, heads or     *)
(* buffers: what is sent comes out in the order of sending, nothing of it  *)
(* is missing, changed or doubled, and what came out is not taken back.    *)
(***************************************************************************)
EXTENDS Integers, Sequences, SequencesExt

VARIABLES
  sent,  \* what the sender has sent
  got    \* what the receiver has been given

channelVars == <<sent, got>>

Init == sent = <<>> /\ got = <<>>

\* one message more
Send ==
  /\ IsPrefix(sent, sent') /\ Len(sent') = Len(sent) + 1
  /\ UNCHANGED got

\* some of what was sent and not given yet
Deliver ==
  /\ IsPrefix(got, got') /\ IsPrefix(got', sent)
  /\ UNCHANGED sent

Spec == Init /\ [][Send \/ Deliver]_channelVars
=============================================================================
