------------------------------ MODULE MCServer ------------------------------
(* Server with small sets of model values, for TLC.                        *)
EXTENDS Server

\* Two connections on one display whose picture changes and whose callback
\* fails, or one connection that switches between two displays: all of it at
\* once is out of TLC's reach.
Switcher == CHOOSE c \in Conns : TRUE

SeveralDisplays == \E s \in Video \ {Primary} : s \in present
OnlySwitcher ==
  /\ closed \cup connections \subseteq {Switcher}
  /\ lock \in {Switcher, Nobody}
  /\ \A pair \in wanted \cup missed : pair[2] = Switcher
NothingChanges == fails = 0 /\ \A s \in Services : source[s] = 1

VideoSpec ==
  Init /\ [][Next /\ (SeveralDisplays => OnlySwitcher /\ NothingChanges)']_vars /\ Fairness
=============================================================================
