---------------------------- MODULE MCVideoFlow ----------------------------
(* VideoFlow for TLC: connections and displays are interchangeable.         *)
EXTENDS VideoFlow, TLC

Symmetry == Permutations(Conns) \cup Permutations(Displays)

\* Beyond the bound FlowControlled says nothing; no need to go on.
Counted == forgiven < MaxForgiven

\* Either the codec or the privacy mode changes, or something fails.
AloneInit == Init /\ (changes = MaxChanges \/ fails = MaxFails)

AloneSpec == AloneInit /\ [][Next]_vars /\ Fairness
=============================================================================
