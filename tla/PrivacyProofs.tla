--------------------------- MODULE PrivacyProofs ---------------------------
(* The privacy mode is given back and its peer knows of it, for any number  *)
(* of connections.                                                          *)
EXTENDS MCScreen, VideoFlowProofs

-----------------------------------------------------------------------------
(* The invariant.                                                          *)

Shapes ==
  /\ owner \in Peers \cup {InvalidConn}
  /\ loop \in [Peers -> Stages]
  /\ shown \in [Peers -> BOOLEAN] /\ notices \in [Peers -> BOOLEAN]

HooksOwned == hookThread = "on" => owner # InvalidConn

\* Who has the mode is there, or ends with the turning off still to come.
OwnerLives(c) == owner = c => loop[c] = "ending" \/ c \in There \/ excuse = "late"

\* Who was told that it has the mode has it, or did not hear of the loss.
ShowsIt(c) ==
  /\ loop[c] \in {"new", "checked"} => ~shown[c]
  /\ loop[c] \in {"open", "waiting"} /\ ~notices[c] /\ shown[c] => owner = c \/ c \in deprived
  /\ loop[c] = "granted" /\ ~notices[c] => owner = c \/ c \in deprived

\* Who has the mode was told so, or there is an excuse; after a failure for want
\* of the plug-in nobody looks again.
HasIt(c) ==
  /\ loop[c] \in {"open", "waiting"} /\ ~notices[c] /\ owner = c => shown[c] \/ excuse # "none"
  /\ loop[c] = "plugin" /\ owner = c => excuse # "none"

PeerInv(c) == OwnerLives(c) /\ ShowsIt(c) /\ HasIt(c)

PrivacyInv == Shapes /\ HooksOwned /\ \A c \in Peers : PeerInv(c)

-----------------------------------------------------------------------------
(* What turning off and turning on amount to.                              *)

Kept == UNCHANGED <<owner, hookThread, deprived, excuse>>

Freed(told) ==
  /\ owner' = InvalidConn /\ hookThread' # "on" /\ excuse' = "none"
  /\ deprived' = IF told THEN deprived ELSE deprived \cup Unaware

HandedTo(c, heard) ==
  /\ owner' = c /\ deprived' = deprived \ {c}
  /\ excuse' = IF heard THEN "none" ELSE "late"

ThereStages == {"open", "waiting", "granted", "refused", "revoking", "plugin"}

LEMMA ThereIs == ASSUME NEW c \in Peers PROVE c \in There <=> loop[c] \in ThereStages
BY DEF There, ThereStages

LEMMA ThereWillBe == ASSUME NEW c \in Peers PROVE (c \in There)' <=> loop'[c] \in ThereStages
BY DEF There, ThereStages

LEMMA UnawareIs ==
  ASSUME NEW c \in Peers
  PROVE  c \in Unaware <=> c = owner /\ loop[c] \in ThereStages /\ (shown[c] \/ loop[c] = "granted")
BY ThereIs DEF Unaware

\* A connection is not the lack of one.
LEMMA NotInvalid == ASSUME NEW c \in Peers PROVE c # InvalidConn
BY PrivacyAssumption

LEMMA TurnOffEffect ==
  ASSUME NEW id, NEW told, TurnOff(id, told)
  PROVE  IF MayTurnOff(id) THEN Freed(told) ELSE Kept
BY DEF TurnOff, Freed, Kept, Unhooked, privacyHistory

LEMMA TurnOnEffect ==
  ASSUME HooksOwned, NEW c \in Peers, NEW key, NEW result, NEW heard,
         TurnOn(c, key, result, heard)
  PROVE  \/ Kept /\ result = "granted" /\ owner = c
         \/ Kept /\ result = "refused" /\ owner \notin {c, InvalidConn}
         \/ result = "granted" /\ owner \in {c, InvalidConn} /\ HandedTo(c, heard)
         \/ result \in {"refused", "plugin"} /\ owner \in {c, InvalidConn} /\ Freed(heard)
<1>1. CASE UNCHANGED <<impl, owner, hookThread, privacyHistory>> /\ AlreadyOn(c, key) /\ result = "granted"
  BY <1>1 DEF Kept, AlreadyOn, privacyHistory
<1>2. CASE UNCHANGED <<impl, owner, hookThread, privacyHistory>> /\ Occupied(c) /\ result = "refused"
  BY <1>2 DEF Kept, Occupied, privacyHistory
<1>3. ASSUME ~AlreadyOn(c, key), ~Occupied(c), result = "granted", TurnedOn(c, key),
             excuse' = IF heard THEN "none" ELSE "late"
      PROVE  owner \in {c, InvalidConn} /\ HandedTo(c, heard)
  BY <1>3 DEF Occupied, TurnedOn, HandedTo
<1>4. ASSUME ~AlreadyOn(c, key), ~Occupied(c), NotTurnedOn(key, heard)
      PROVE  owner \in {c, InvalidConn} /\ Freed(heard)
  <2>1. owner \in {c, InvalidConn}
    BY <1>4 DEF Occupied
  <2>2. impl = key => hookThread # "on"
    BY <1>4, <2>1 DEF AlreadyOn, HooksOwned
  <2>3. \A left \in Replaced(key) : left # "on"
    BY <2>2 DEF Replaced, Unhooked
  <2> QED BY <1>4, <2>1, <2>3 DEF NotTurnedOn, Freed
<1>5. result \in (IF key = "window" THEN {"refused", "plugin"} ELSE {"refused"})
        => result \in {"refused", "plugin"}
  OBVIOUS
<1> QED BY <1>1, <1>2, <1>3, <1>4, <1>5 DEF TurnOn

-----------------------------------------------------------------------------
(* The steps.                                                              *)

LEMMA PressKeeps == ASSUME PrivacyInv, Press PROVE PrivacyInv'
<1> USE DEF Press, modeVars, peerSideVars, privacyHistory, Stage, TellPeer, ThereStages
<1>1. Shapes /\ HooksOwned
  BY DEF PrivacyInv
<1>2. Kept
  BY <1>1 DEF Kept
<1>3. Shapes'
  BY <1>1, <1>2 DEF Shapes, Stages, Impls, Kept, Freed, HandedTo
<1>4. HooksOwned'
  BY <1>1, <1>2, NotInvalid DEF HooksOwned, Kept, Freed, HandedTo
<1>5. ASSUME NEW d \in Peers PROVE PeerInv(d)'
  <2>1. PeerInv(d)
    BY DEF PrivacyInv
  <2>2. OwnerLives(d)'
    BY <1>1, <1>2, <2>1, ThereIs, ThereWillBe, UnawareIs, NotInvalid
    DEF Shapes, PeerInv, OwnerLives, ShowsIt, HasIt, Kept, Freed, HandedTo, MayTurnOff
  <2>3. ShowsIt(d)'
    BY <1>1, <1>2, <2>1, ThereIs, ThereWillBe, UnawareIs, NotInvalid
    DEF Shapes, PeerInv, OwnerLives, ShowsIt, HasIt, Kept, Freed, HandedTo, MayTurnOff
  <2>4. HasIt(d)'
    BY <1>1, <1>2, <2>1, ThereIs, ThereWillBe, UnawareIs, NotInvalid
    DEF Shapes, PeerInv, OwnerLives, ShowsIt, HasIt, Kept, Freed, HandedTo, MayTurnOff
  <2> QED BY <2>2, <2>3, <2>4 DEF PeerInv
<1> QED BY <1>3, <1>4, <1>5 DEF PrivacyInv

LEMMA TurnOffPressedKeeps == ASSUME PrivacyInv, TurnOffPressed PROVE PrivacyInv'
<1> USE DEF TurnOffPressed, modeVars, peerSideVars, privacyHistory, Stage, TellPeer, ThereStages
<1>1. Shapes /\ HooksOwned
  BY DEF PrivacyInv
<1>2. \E told \in BOOLEAN :
        /\ Freed(told)
        /\ told /\ owner # InvalidConn => notices' = [c \in Peers |-> notices[c] \/ c \in There]
        /\ ~(told /\ owner # InvalidConn) => notices' = notices
  BY TurnOffEffect DEF MayTurnOff
<1>3. Shapes'
  BY <1>1, <1>2 DEF Shapes, Stages, Impls, Kept, Freed, HandedTo
<1>4. HooksOwned'
  BY <1>1, <1>2, NotInvalid DEF HooksOwned, Kept, Freed, HandedTo
<1>5. ASSUME NEW d \in Peers PROVE PeerInv(d)'
  <2>1. PeerInv(d)
    BY DEF PrivacyInv
  <2>2. OwnerLives(d)'
    BY <1>1, <1>2, <2>1, ThereIs, ThereWillBe, UnawareIs, NotInvalid
    DEF Shapes, PeerInv, OwnerLives, ShowsIt, HasIt, Kept, Freed, HandedTo, MayTurnOff
  <2>3. ShowsIt(d)'
    BY <1>1, <1>2, <2>1, ThereIs, ThereWillBe, UnawareIs, NotInvalid
    DEF Shapes, PeerInv, OwnerLives, ShowsIt, HasIt, Kept, Freed, HandedTo, MayTurnOff
  <2>4. HasIt(d)'
    BY <1>1, <1>2, <2>1, ThereIs, ThereWillBe, UnawareIs, NotInvalid
    DEF Shapes, PeerInv, OwnerLives, ShowsIt, HasIt, Kept, Freed, HandedTo, MayTurnOff
  <2> QED BY <2>2, <2>3, <2>4 DEF PeerInv
<1> QED BY <1>3, <1>4, <1>5 DEF PrivacyInv

LEMMA HookExitsKeeps == ASSUME PrivacyInv, HookExits PROVE PrivacyInv'
<1> USE DEF HookExits, modeVars, peerSideVars, privacyHistory, Stage, TellPeer, ThereStages
<1>1. Shapes /\ HooksOwned
  BY DEF PrivacyInv
<1>2. UNCHANGED <<owner, deprived, excuse>> /\ hookThread' # "on"
  BY <1>1 DEF Kept
<1>3. Shapes'
  BY <1>1, <1>2 DEF Shapes, Stages, Impls, Kept, Freed, HandedTo
<1>4. HooksOwned'
  BY <1>1, <1>2, NotInvalid DEF HooksOwned, Kept, Freed, HandedTo
<1>5. ASSUME NEW d \in Peers PROVE PeerInv(d)'
  <2>1. PeerInv(d)
    BY DEF PrivacyInv
  <2>2. OwnerLives(d)'
    BY <1>1, <1>2, <2>1, ThereIs, ThereWillBe, UnawareIs, NotInvalid
    DEF Shapes, PeerInv, OwnerLives, ShowsIt, HasIt, Kept, Freed, HandedTo, MayTurnOff
  <2>3. ShowsIt(d)'
    BY <1>1, <1>2, <2>1, ThereIs, ThereWillBe, UnawareIs, NotInvalid
    DEF Shapes, PeerInv, OwnerLives, ShowsIt, HasIt, Kept, Freed, HandedTo, MayTurnOff
  <2>4. HasIt(d)'
    BY <1>1, <1>2, <2>1, ThereIs, ThereWillBe, UnawareIs, NotInvalid
    DEF Shapes, PeerInv, OwnerLives, ShowsIt, HasIt, Kept, Freed, HandedTo, MayTurnOff
  <2> QED BY <2>2, <2>3, <2>4 DEF PeerInv
<1> QED BY <1>3, <1>4, <1>5 DEF PrivacyInv

LEMMA ChecksKeeps == ASSUME PrivacyInv, NEW c \in Peers, Checks(c) PROVE PrivacyInv'
<1> USE DEF Checks, modeVars, peerSideVars, privacyHistory, Stage, TellPeer, ThereStages
<1>1. Shapes /\ HooksOwned
  BY DEF PrivacyInv
<1>2. Kept
  BY <1>1 DEF Kept
<1>3. Shapes'
  BY <1>1, <1>2 DEF Shapes, Stages, Impls, Kept, Freed, HandedTo
<1>4. HooksOwned'
  BY <1>1, <1>2, NotInvalid DEF HooksOwned, Kept, Freed, HandedTo
<1>5. ASSUME NEW d \in Peers PROVE PeerInv(d)'
  <2>1. PeerInv(d)
    BY DEF PrivacyInv
  <2>2. OwnerLives(d)'
    BY <1>1, <1>2, <2>1, ThereIs, ThereWillBe, UnawareIs, NotInvalid
    DEF Shapes, PeerInv, OwnerLives, ShowsIt, HasIt, Kept, Freed, HandedTo, MayTurnOff
  <2>3. ShowsIt(d)'
    BY <1>1, <1>2, <2>1, ThereIs, ThereWillBe, UnawareIs, NotInvalid
    DEF Shapes, PeerInv, OwnerLives, ShowsIt, HasIt, Kept, Freed, HandedTo, MayTurnOff
  <2>4. HasIt(d)'
    BY <1>1, <1>2, <2>1, ThereIs, ThereWillBe, UnawareIs, NotInvalid
    DEF Shapes, PeerInv, OwnerLives, ShowsIt, HasIt, Kept, Freed, HandedTo, MayTurnOff
  <2> QED BY <2>2, <2>3, <2>4 DEF PeerInv
<1> QED BY <1>3, <1>4, <1>5 DEF PrivacyInv

LEMMA LetInKeeps == ASSUME PrivacyInv, NEW c \in Peers, LetIn(c) PROVE PrivacyInv'
<1> USE DEF LetIn, modeVars, peerSideVars, privacyHistory, Stage, TellPeer, ThereStages
<1>1. Shapes /\ HooksOwned
  BY DEF PrivacyInv
<1>2. Kept
  BY <1>1 DEF Kept
<1>3. Shapes'
  BY <1>1, <1>2 DEF Shapes, Stages, Impls, Kept, Freed, HandedTo
<1>4. HooksOwned'
  BY <1>1, <1>2, NotInvalid DEF HooksOwned, Kept, Freed, HandedTo
<1>5. ASSUME NEW d \in Peers PROVE PeerInv(d)'
  <2>1. PeerInv(d)
    BY DEF PrivacyInv
  <2>2. OwnerLives(d)'
    BY <1>1, <1>2, <2>1, ThereIs, ThereWillBe, UnawareIs, NotInvalid
    DEF Shapes, PeerInv, OwnerLives, ShowsIt, HasIt, Kept, Freed, HandedTo, MayTurnOff
  <2>3. ShowsIt(d)'
    BY <1>1, <1>2, <2>1, ThereIs, ThereWillBe, UnawareIs, NotInvalid
    DEF Shapes, PeerInv, OwnerLives, ShowsIt, HasIt, Kept, Freed, HandedTo, MayTurnOff
  <2>4. HasIt(d)'
    BY <1>1, <1>2, <2>1, ThereIs, ThereWillBe, UnawareIs, NotInvalid
    DEF Shapes, PeerInv, OwnerLives, ShowsIt, HasIt, Kept, Freed, HandedTo, MayTurnOff
  <2> QED BY <2>2, <2>3, <2>4 DEF PeerInv
<1> QED BY <1>3, <1>4, <1>5 DEF PrivacyInv

LEMMA WaitTimesOutKeeps == ASSUME PrivacyInv, NEW c \in Peers, WaitTimesOut(c) PROVE PrivacyInv'
<1> USE DEF WaitTimesOut, modeVars, peerSideVars, privacyHistory, Stage, TellPeer, ThereStages
<1>1. Shapes /\ HooksOwned
  BY DEF PrivacyInv
<1>2. Kept
  BY <1>1 DEF Kept
<1>3. Shapes'
  BY <1>1, <1>2 DEF Shapes, Stages, Impls, Kept, Freed, HandedTo
<1>4. HooksOwned'
  BY <1>1, <1>2, NotInvalid DEF HooksOwned, Kept, Freed, HandedTo
<1>5. ASSUME NEW d \in Peers PROVE PeerInv(d)'
  <2>1. PeerInv(d)
    BY DEF PrivacyInv
  <2>2. OwnerLives(d)'
    BY <1>1, <1>2, <2>1, ThereIs, ThereWillBe, UnawareIs, NotInvalid
    DEF Shapes, PeerInv, OwnerLives, ShowsIt, HasIt, Kept, Freed, HandedTo, MayTurnOff
  <2>3. ShowsIt(d)'
    BY <1>1, <1>2, <2>1, ThereIs, ThereWillBe, UnawareIs, NotInvalid
    DEF Shapes, PeerInv, OwnerLives, ShowsIt, HasIt, Kept, Freed, HandedTo, MayTurnOff
  <2>4. HasIt(d)'
    BY <1>1, <1>2, <2>1, ThereIs, ThereWillBe, UnawareIs, NotInvalid
    DEF Shapes, PeerInv, OwnerLives, ShowsIt, HasIt, Kept, Freed, HandedTo, MayTurnOff
  <2> QED BY <2>2, <2>3, <2>4 DEF PeerInv
<1> QED BY <1>3, <1>4, <1>5 DEF PrivacyInv

LEMMA GrantedKeeps == ASSUME PrivacyInv, NEW c \in Peers, Granted(c) PROVE PrivacyInv'
<1> USE DEF Granted, modeVars, peerSideVars, privacyHistory, Stage, TellPeer, ThereStages
<1>1. Shapes /\ HooksOwned
  BY DEF PrivacyInv
<1>2. Kept
  BY <1>1 DEF Kept
<1>3. Shapes'
  BY <1>1, <1>2 DEF Shapes, Stages, Impls, Kept, Freed, HandedTo
<1>4. HooksOwned'
  BY <1>1, <1>2, NotInvalid DEF HooksOwned, Kept, Freed, HandedTo
<1>5. ASSUME NEW d \in Peers PROVE PeerInv(d)'
  <2>1. PeerInv(d)
    BY DEF PrivacyInv
  <2>2. OwnerLives(d)'
    BY <1>1, <1>2, <2>1, ThereIs, ThereWillBe, UnawareIs, NotInvalid
    DEF Shapes, PeerInv, OwnerLives, ShowsIt, HasIt, Kept, Freed, HandedTo, MayTurnOff
  <2>3. ShowsIt(d)'
    BY <1>1, <1>2, <2>1, ThereIs, ThereWillBe, UnawareIs, NotInvalid
    DEF Shapes, PeerInv, OwnerLives, ShowsIt, HasIt, Kept, Freed, HandedTo, MayTurnOff
  <2>4. HasIt(d)'
    BY <1>1, <1>2, <2>1, ThereIs, ThereWillBe, UnawareIs, NotInvalid
    DEF Shapes, PeerInv, OwnerLives, ShowsIt, HasIt, Kept, Freed, HandedTo, MayTurnOff
  <2> QED BY <2>2, <2>3, <2>4 DEF PeerInv
<1> QED BY <1>3, <1>4, <1>5 DEF PrivacyInv

LEMMA NoPluginKeeps == ASSUME PrivacyInv, NEW c \in Peers, NoPlugin(c) PROVE PrivacyInv'
<1> USE DEF NoPlugin, modeVars, peerSideVars, privacyHistory, Stage, TellPeer, ThereStages
<1>1. Shapes /\ HooksOwned
  BY DEF PrivacyInv
<1>2. Kept
  BY <1>1 DEF Kept
<1>3. Shapes'
  BY <1>1, <1>2 DEF Shapes, Stages, Impls, Kept, Freed, HandedTo
<1>4. HooksOwned'
  BY <1>1, <1>2, NotInvalid DEF HooksOwned, Kept, Freed, HandedTo
<1>5. ASSUME NEW d \in Peers PROVE PeerInv(d)'
  <2>1. PeerInv(d)
    BY DEF PrivacyInv
  <2>2. OwnerLives(d)'
    BY <1>1, <1>2, <2>1, ThereIs, ThereWillBe, UnawareIs, NotInvalid
    DEF Shapes, PeerInv, OwnerLives, ShowsIt, HasIt, Kept, Freed, HandedTo, MayTurnOff
  <2>3. ShowsIt(d)'
    BY <1>1, <1>2, <2>1, ThereIs, ThereWillBe, UnawareIs, NotInvalid
    DEF Shapes, PeerInv, OwnerLives, ShowsIt, HasIt, Kept, Freed, HandedTo, MayTurnOff
  <2>4. HasIt(d)'
    BY <1>1, <1>2, <2>1, ThereIs, ThereWillBe, UnawareIs, NotInvalid
    DEF Shapes, PeerInv, OwnerLives, ShowsIt, HasIt, Kept, Freed, HandedTo, MayTurnOff
  <2> QED BY <2>2, <2>3, <2>4 DEF PeerInv
<1> QED BY <1>3, <1>4, <1>5 DEF PrivacyInv

LEMMA RefusedKeeps == ASSUME PrivacyInv, NEW c \in Peers, Refused(c) PROVE PrivacyInv'
<1> USE DEF Refused, AfterRefusal, modeVars, peerSideVars, privacyHistory, Stage, TellPeer, ThereStages
<1>1. Shapes /\ HooksOwned
  BY DEF PrivacyInv
<1>2. Kept
  BY <1>1 DEF Kept
<1>3. Shapes'
  BY <1>1, <1>2 DEF Shapes, Stages, Impls, Kept, Freed, HandedTo
<1>4. HooksOwned'
  BY <1>1, <1>2, NotInvalid DEF HooksOwned, Kept, Freed, HandedTo
<1>5. ASSUME NEW d \in Peers PROVE PeerInv(d)'
  <2>1. PeerInv(d)
    BY DEF PrivacyInv
  <2>2. OwnerLives(d)'
    BY <1>1, <1>2, <2>1, ThereIs, ThereWillBe, UnawareIs, NotInvalid
    DEF Shapes, PeerInv, OwnerLives, ShowsIt, HasIt, Kept, Freed, HandedTo, MayTurnOff
  <2>3. ShowsIt(d)'
    BY <1>1, <1>2, <2>1, ThereIs, ThereWillBe, UnawareIs, NotInvalid
    DEF Shapes, PeerInv, OwnerLives, ShowsIt, HasIt, Kept, Freed, HandedTo, MayTurnOff
  <2>4. HasIt(d)'
    BY <1>1, <1>2, <2>1, ThereIs, ThereWillBe, UnawareIs, NotInvalid
    DEF Shapes, PeerInv, OwnerLives, ShowsIt, HasIt, Kept, Freed, HandedTo, MayTurnOff
  <2> QED BY <2>2, <2>3, <2>4 DEF PeerInv
<1> QED BY <1>3, <1>4, <1>5 DEF PrivacyInv

LEMMA DropGuardKeeps == ASSUME PrivacyInv, NEW c \in Peers, DropGuard(c) PROVE PrivacyInv'
<1> USE DEF DropGuard, modeVars, peerSideVars, privacyHistory, Stage, TellPeer, ThereStages
<1>1. Shapes /\ HooksOwned
  BY DEF PrivacyInv
<1>2. Kept
  BY <1>1 DEF Kept
<1>3. Shapes'
  BY <1>1, <1>2 DEF Shapes, Stages, Impls, Kept, Freed, HandedTo
<1>4. HooksOwned'
  BY <1>1, <1>2, NotInvalid DEF HooksOwned, Kept, Freed, HandedTo
<1>5. ASSUME NEW d \in Peers PROVE PeerInv(d)'
  <2>1. PeerInv(d)
    BY DEF PrivacyInv
  <2>2. OwnerLives(d)'
    BY <1>1, <1>2, <2>1, ThereIs, ThereWillBe, UnawareIs, NotInvalid
    DEF Shapes, PeerInv, OwnerLives, ShowsIt, HasIt, Kept, Freed, HandedTo, MayTurnOff
  <2>3. ShowsIt(d)'
    BY <1>1, <1>2, <2>1, ThereIs, ThereWillBe, UnawareIs, NotInvalid
    DEF Shapes, PeerInv, OwnerLives, ShowsIt, HasIt, Kept, Freed, HandedTo, MayTurnOff
  <2>4. HasIt(d)'
    BY <1>1, <1>2, <2>1, ThereIs, ThereWillBe, UnawareIs, NotInvalid
    DEF Shapes, PeerInv, OwnerLives, ShowsIt, HasIt, Kept, Freed, HandedTo, MayTurnOff
  <2> QED BY <2>2, <2>3, <2>4 DEF PeerInv
<1> QED BY <1>3, <1>4, <1>5 DEF PrivacyInv

LEMMA LoopEndsKeeps == ASSUME PrivacyInv, NEW c \in Peers, LoopEnds(c) PROVE PrivacyInv'
<1> USE DEF LoopEnds, AfterLoop, modeVars, peerSideVars, privacyHistory, Stage, TellPeer, ThereStages
<1>1. Shapes /\ HooksOwned
  BY DEF PrivacyInv
<1>2. UNCHANGED <<owner, hookThread, excuse>> /\ deprived' = deprived \ {c}
  BY <1>1 DEF Kept
<1>3. Shapes'
  BY <1>1, <1>2 DEF Shapes, Stages, Impls, Kept, Freed, HandedTo
<1>4. HooksOwned'
  BY <1>1, <1>2, NotInvalid DEF HooksOwned, Kept, Freed, HandedTo
<1>5. ASSUME NEW d \in Peers PROVE PeerInv(d)'
  <2>1. PeerInv(d)
    BY DEF PrivacyInv
  <2>2. OwnerLives(d)'
    BY <1>1, <1>2, <2>1, ThereIs, ThereWillBe, UnawareIs, NotInvalid
    DEF Shapes, PeerInv, OwnerLives, ShowsIt, HasIt, Kept, Freed, HandedTo, MayTurnOff
  <2>3. ShowsIt(d)'
    BY <1>1, <1>2, <2>1, ThereIs, ThereWillBe, UnawareIs, NotInvalid
    DEF Shapes, PeerInv, OwnerLives, ShowsIt, HasIt, Kept, Freed, HandedTo, MayTurnOff
  <2>4. HasIt(d)'
    BY <1>1, <1>2, <2>1, ThereIs, ThereWillBe, UnawareIs, NotInvalid
    DEF Shapes, PeerInv, OwnerLives, ShowsIt, HasIt, Kept, Freed, HandedTo, MayTurnOff
  <2> QED BY <2>2, <2>3, <2>4 DEF PeerInv
<1> QED BY <1>3, <1>4, <1>5 DEF PrivacyInv

LEMMA NoticeKeeps == ASSUME PrivacyInv, NEW c \in Peers, Notice(c) PROVE PrivacyInv'
<1> USE DEF Notice, modeVars, peerSideVars, privacyHistory, Stage, TellPeer, ThereStages
<1>1. Shapes /\ HooksOwned
  BY DEF PrivacyInv
<1>2. UNCHANGED <<owner, hookThread, deprived>>
  BY <1>1 DEF Kept
<1>3. Shapes'
  BY <1>1, <1>2 DEF Shapes, Stages, Impls, Kept, Freed, HandedTo
<1>4. HooksOwned'
  BY <1>1, <1>2, NotInvalid DEF HooksOwned, Kept, Freed, HandedTo
<1>5. ASSUME NEW d \in Peers PROVE PeerInv(d)'
  <2>1. PeerInv(d)
    BY DEF PrivacyInv
  <2>2. OwnerLives(d)'
    BY <1>1, <1>2, <2>1, ThereIs, ThereWillBe, UnawareIs, NotInvalid
    DEF Shapes, PeerInv, OwnerLives, ShowsIt, HasIt, Kept, Freed, HandedTo, MayTurnOff
  <2>3. ShowsIt(d)'
    BY <1>1, <1>2, <2>1, ThereIs, ThereWillBe, UnawareIs, NotInvalid
    DEF Shapes, PeerInv, OwnerLives, ShowsIt, HasIt, Kept, Freed, HandedTo, MayTurnOff
  <2>4. HasIt(d)'
    BY <1>1, <1>2, <2>1, ThereIs, ThereWillBe, UnawareIs, NotInvalid
    DEF Shapes, PeerInv, OwnerLives, ShowsIt, HasIt, Kept, Freed, HandedTo, MayTurnOff
  <2> QED BY <2>2, <2>3, <2>4 DEF PeerInv
<1> QED BY <1>3, <1>4, <1>5 DEF PrivacyInv

LEMMA CannotCaptureKeeps == ASSUME PrivacyInv, NEW c \in Peers, CannotCapture(c) PROVE PrivacyInv'
<1> USE DEF CannotCapture, modeVars, peerSideVars, privacyHistory, Stage, TellPeer, ThereStages
<1>1. Shapes /\ HooksOwned
  BY DEF PrivacyInv
<1>2. IF MayTurnOff(c) THEN Freed(TRUE) ELSE Kept
  BY TurnOffEffect
<1>3. Shapes'
  BY <1>1, <1>2 DEF Shapes, Stages, Impls, Kept, Freed, HandedTo
<1>4. HooksOwned'
  BY <1>1, <1>2, NotInvalid DEF HooksOwned, Kept, Freed, HandedTo
<1>5. ASSUME NEW d \in Peers PROVE PeerInv(d)'
  <2>1. PeerInv(d)
    BY DEF PrivacyInv
  <2>2. OwnerLives(d)'
    BY <1>1, <1>2, <2>1, ThereIs, ThereWillBe, UnawareIs, NotInvalid
    DEF Shapes, PeerInv, OwnerLives, ShowsIt, HasIt, Kept, Freed, HandedTo, MayTurnOff
  <2>3. ShowsIt(d)'
    BY <1>1, <1>2, <2>1, ThereIs, ThereWillBe, UnawareIs, NotInvalid
    DEF Shapes, PeerInv, OwnerLives, ShowsIt, HasIt, Kept, Freed, HandedTo, MayTurnOff
  <2>4. HasIt(d)'
    BY <1>1, <1>2, <2>1, ThereIs, ThereWillBe, UnawareIs, NotInvalid
    DEF Shapes, PeerInv, OwnerLives, ShowsIt, HasIt, Kept, Freed, HandedTo, MayTurnOff
  <2> QED BY <2>2, <2>3, <2>4 DEF PeerInv
<1> QED BY <1>3, <1>4, <1>5 DEF PrivacyInv

LEMMA AskOffKeeps == ASSUME PrivacyInv, NEW c \in Peers, AskOff(c) PROVE PrivacyInv'
<1> USE DEF AskOff, modeVars, peerSideVars, privacyHistory, Stage, TellPeer, ThereStages
<1>1. Shapes /\ HooksOwned
  BY DEF PrivacyInv
<1>2. IF MayTurnOff(c) THEN Freed(TRUE) ELSE Kept
  BY TurnOffEffect
<1>3. Shapes'
  BY <1>1, <1>2 DEF Shapes, Stages, Impls, Kept, Freed, HandedTo
<1>4. HooksOwned'
  BY <1>1, <1>2, NotInvalid DEF HooksOwned, Kept, Freed, HandedTo
<1>5. ASSUME NEW d \in Peers PROVE PeerInv(d)'
  <2>1. PeerInv(d)
    BY DEF PrivacyInv
  <2>2. OwnerLives(d)'
    BY <1>1, <1>2, <2>1, ThereIs, ThereWillBe, UnawareIs, NotInvalid
    DEF Shapes, PeerInv, OwnerLives, ShowsIt, HasIt, Kept, Freed, HandedTo, MayTurnOff
  <2>3. ShowsIt(d)'
    BY <1>1, <1>2, <2>1, ThereIs, ThereWillBe, UnawareIs, NotInvalid
    DEF Shapes, PeerInv, OwnerLives, ShowsIt, HasIt, Kept, Freed, HandedTo, MayTurnOff
  <2>4. HasIt(d)'
    BY <1>1, <1>2, <2>1, ThereIs, ThereWillBe, UnawareIs, NotInvalid
    DEF Shapes, PeerInv, OwnerLives, ShowsIt, HasIt, Kept, Freed, HandedTo, MayTurnOff
  <2> QED BY <2>2, <2>3, <2>4 DEF PeerInv
<1> QED BY <1>3, <1>4, <1>5 DEF PrivacyInv

LEMMA EndModeKeeps == ASSUME PrivacyInv, NEW c \in Peers, EndMode(c) PROVE PrivacyInv'
<1> USE DEF EndMode, modeVars, peerSideVars, privacyHistory, Stage, TellPeer, ThereStages
<1>1. Shapes /\ HooksOwned
  BY DEF PrivacyInv
<1>2. IF MayTurnOff(c) THEN Freed(TRUE) ELSE Kept
  BY TurnOffEffect
<1>3. Shapes'
  BY <1>1, <1>2 DEF Shapes, Stages, Impls, Kept, Freed, HandedTo
<1>4. HooksOwned'
  BY <1>1, <1>2, NotInvalid DEF HooksOwned, Kept, Freed, HandedTo
<1>5. ASSUME NEW d \in Peers PROVE PeerInv(d)'
  <2>1. PeerInv(d)
    BY DEF PrivacyInv
  <2>2. OwnerLives(d)'
    BY <1>1, <1>2, <2>1, ThereIs, ThereWillBe, UnawareIs, NotInvalid
    DEF Shapes, PeerInv, OwnerLives, ShowsIt, HasIt, Kept, Freed, HandedTo, MayTurnOff
  <2>3. ShowsIt(d)'
    BY <1>1, <1>2, <2>1, ThereIs, ThereWillBe, UnawareIs, NotInvalid
    DEF Shapes, PeerInv, OwnerLives, ShowsIt, HasIt, Kept, Freed, HandedTo, MayTurnOff
  <2>4. HasIt(d)'
    BY <1>1, <1>2, <2>1, ThereIs, ThereWillBe, UnawareIs, NotInvalid
    DEF Shapes, PeerInv, OwnerLives, ShowsIt, HasIt, Kept, Freed, HandedTo, MayTurnOff
  <2> QED BY <2>2, <2>3, <2>4 DEF PeerInv
<1> QED BY <1>3, <1>4, <1>5 DEF PrivacyInv

LEMMA RevokeKeeps == ASSUME PrivacyInv, NEW c \in Peers, Revoke(c) PROVE PrivacyInv'
<1> USE DEF Revoke, modeVars, peerSideVars, privacyHistory, Stage, TellPeer, ThereStages
<1>1. Shapes /\ HooksOwned
  BY DEF PrivacyInv
<1>2. IF MayTurnOff(InvalidConn) THEN Freed(owner = c) ELSE Kept
  BY TurnOffEffect
<1>3. Shapes'
  BY <1>1, <1>2 DEF Shapes, Stages, Impls, Kept, Freed, HandedTo
<1>4. HooksOwned'
  BY <1>1, <1>2, NotInvalid DEF HooksOwned, Kept, Freed, HandedTo
<1>5. ASSUME NEW d \in Peers PROVE PeerInv(d)'
  <2>1. PeerInv(d)
    BY DEF PrivacyInv
  <2>2. OwnerLives(d)'
    BY <1>1, <1>2, <2>1, ThereIs, ThereWillBe, UnawareIs, NotInvalid
    DEF Shapes, PeerInv, OwnerLives, ShowsIt, HasIt, Kept, Freed, HandedTo, MayTurnOff
  <2>3. ShowsIt(d)'
    BY <1>1, <1>2, <2>1, ThereIs, ThereWillBe, UnawareIs, NotInvalid
    DEF Shapes, PeerInv, OwnerLives, ShowsIt, HasIt, Kept, Freed, HandedTo, MayTurnOff
  <2>4. HasIt(d)'
    BY <1>1, <1>2, <2>1, ThereIs, ThereWillBe, UnawareIs, NotInvalid
    DEF Shapes, PeerInv, OwnerLives, ShowsIt, HasIt, Kept, Freed, HandedTo, MayTurnOff
  <2> QED BY <2>2, <2>3, <2>4 DEF PeerInv
<1> QED BY <1>3, <1>4, <1>5 DEF PrivacyInv

LEMMA ResetAllKeeps == ASSUME PrivacyInv, NEW c \in Peers, ResetAll(c) PROVE PrivacyInv'
<1> USE DEF ResetAll, modeVars, peerSideVars, privacyHistory, Stage, TellPeer, ThereStages
<1>1. Shapes /\ HooksOwned
  BY DEF PrivacyInv
<1>2. IF MayTurnOff(InvalidConn) THEN Freed(owner \notin There) ELSE Kept
  BY TurnOffEffect
<1>3. Shapes'
  BY <1>1, <1>2 DEF Shapes, Stages, Impls, Kept, Freed, HandedTo
<1>4. HooksOwned'
  BY <1>1, <1>2, NotInvalid DEF HooksOwned, Kept, Freed, HandedTo
<1>5. ASSUME NEW d \in Peers PROVE PeerInv(d)'
  <2>1. PeerInv(d)
    BY DEF PrivacyInv
  <2>2. OwnerLives(d)'
    BY <1>1, <1>2, <2>1, ThereIs, ThereWillBe, UnawareIs, NotInvalid
    DEF Shapes, PeerInv, OwnerLives, ShowsIt, HasIt, Kept, Freed, HandedTo, MayTurnOff
  <2>3. ShowsIt(d)'
    BY <1>1, <1>2, <2>1, ThereIs, ThereWillBe, UnawareIs, NotInvalid
    DEF Shapes, PeerInv, OwnerLives, ShowsIt, HasIt, Kept, Freed, HandedTo, MayTurnOff
  <2>4. HasIt(d)'
    BY <1>1, <1>2, <2>1, ThereIs, ThereWillBe, UnawareIs, NotInvalid
    DEF Shapes, PeerInv, OwnerLives, ShowsIt, HasIt, Kept, Freed, HandedTo, MayTurnOff
  <2> QED BY <2>2, <2>3, <2>4 DEF PeerInv
<1> QED BY <1>3, <1>4, <1>5 DEF PrivacyInv

LEMMA SwitchImplKeeps == ASSUME PrivacyInv, NEW key \in Impls, SwitchImpl(key) PROVE PrivacyInv'
<1> USE DEF SwitchImpl, modeVars, peerSideVars, privacyHistory, Stage, TellPeer, ThereStages
<1>1. Shapes /\ HooksOwned
  BY DEF PrivacyInv
<1>2. owner' = InvalidConn /\ excuse' = "none" /\ deprived' = deprived \cup Unaware
       /\ hookThread' # "on"
  BY <1>1 DEF HooksOwned, Unhooked
<1>3. Shapes'
  BY <1>1, <1>2 DEF Shapes, Stages, Impls, Kept, Freed, HandedTo
<1>4. HooksOwned'
  BY <1>1, <1>2, NotInvalid DEF HooksOwned, Kept, Freed, HandedTo
<1>5. ASSUME NEW d \in Peers PROVE PeerInv(d)'
  <2>1. PeerInv(d)
    BY DEF PrivacyInv
  <2>2. OwnerLives(d)'
    BY <1>1, <1>2, <2>1, ThereIs, ThereWillBe, UnawareIs, NotInvalid
    DEF Shapes, PeerInv, OwnerLives, ShowsIt, HasIt, Kept, Freed, HandedTo, MayTurnOff
  <2>3. ShowsIt(d)'
    BY <1>1, <1>2, <2>1, ThereIs, ThereWillBe, UnawareIs, NotInvalid
    DEF Shapes, PeerInv, OwnerLives, ShowsIt, HasIt, Kept, Freed, HandedTo, MayTurnOff
  <2>4. HasIt(d)'
    BY <1>1, <1>2, <2>1, ThereIs, ThereWillBe, UnawareIs, NotInvalid
    DEF Shapes, PeerInv, OwnerLives, ShowsIt, HasIt, Kept, Freed, HandedTo, MayTurnOff
  <2> QED BY <2>2, <2>3, <2>4 DEF PeerInv
<1> QED BY <1>3, <1>4, <1>5 DEF PrivacyInv

LEMMA AskOnKeeps == ASSUME PrivacyInv, NEW c \in Peers, AskOn(c) PROVE PrivacyInv'
<1> USE DEF AskOn, modeVars, peerSideVars, privacyHistory, Stage, TellPeer, ThereStages
<1>1. Shapes /\ HooksOwned
  BY DEF PrivacyInv
<1>2. \/ Stage(c, "waiting") /\ Kept
      \/ \E result \in {"granted", "refused", "plugin"} :
           /\ Stage(c, result)
           /\ \/ Kept /\ result = "granted" /\ owner = c
              \/ Kept /\ result = "refused" /\ owner \notin {c, InvalidConn}
              \/ result = "granted" /\ owner \in {c, InvalidConn} /\ HandedTo(c, TRUE)
              \/ result \in {"refused", "plugin"} /\ owner \in {c, InvalidConn} /\ Freed(TRUE)
  BY <1>1, TurnOnEffect DEF Kept
<1>3. Shapes'
  BY <1>1, <1>2 DEF Shapes, Stages, Impls, Kept, Freed, HandedTo
<1>4. HooksOwned'
  BY <1>1, <1>2, NotInvalid DEF HooksOwned, Kept, Freed, HandedTo
<1>5. ASSUME NEW d \in Peers PROVE PeerInv(d)'
  <2>1. PeerInv(d)
    BY DEF PrivacyInv
  <2>2. OwnerLives(d)'
    BY <1>1, <1>2, <2>1, ThereIs, ThereWillBe, UnawareIs, NotInvalid
    DEF Shapes, PeerInv, OwnerLives, ShowsIt, HasIt, Kept, Freed, HandedTo, MayTurnOff
  <2>3. ShowsIt(d)'
    BY <1>1, <1>2, <2>1, ThereIs, ThereWillBe, UnawareIs, NotInvalid
    DEF Shapes, PeerInv, OwnerLives, ShowsIt, HasIt, Kept, Freed, HandedTo, MayTurnOff
  <2>4. HasIt(d)'
    BY <1>1, <1>2, <2>1, ThereIs, ThereWillBe, UnawareIs, NotInvalid
    DEF Shapes, PeerInv, OwnerLives, ShowsIt, HasIt, Kept, Freed, HandedTo, MayTurnOff
  <2> QED BY <2>2, <2>3, <2>4 DEF PeerInv
<1> QED BY <1>3, <1>4, <1>5 DEF PrivacyInv

LEMMA ThreadDoneKeeps == ASSUME PrivacyInv, NEW c \in Peers, ThreadDone(c) PROVE PrivacyInv'
<1> USE DEF ThreadDone, modeVars, peerSideVars, privacyHistory, Stage, TellPeer, ThereStages
<1>1. Shapes /\ HooksOwned
  BY DEF PrivacyInv
<1>2. \E result \in {"granted", "refused", "plugin"} :
        /\ Stage(c, result)
        /\ \/ Kept /\ result = "granted" /\ owner = c
           \/ Kept /\ result = "refused" /\ owner \notin {c, InvalidConn}
           \/ result = "granted" /\ owner \in {c, InvalidConn} /\ HandedTo(c, TRUE)
           \/ result \in {"refused", "plugin"} /\ owner \in {c, InvalidConn} /\ Freed(TRUE)
  BY <1>1, TurnOnEffect
<1>3. Shapes'
  BY <1>1, <1>2 DEF Shapes, Stages, Impls, Kept, Freed, HandedTo
<1>4. HooksOwned'
  BY <1>1, <1>2, NotInvalid DEF HooksOwned, Kept, Freed, HandedTo
<1>5. ASSUME NEW d \in Peers PROVE PeerInv(d)'
  <2>1. PeerInv(d)
    BY DEF PrivacyInv
  <2>2. OwnerLives(d)'
    BY <1>1, <1>2, <2>1, ThereIs, ThereWillBe, UnawareIs, NotInvalid
    DEF Shapes, PeerInv, OwnerLives, ShowsIt, HasIt, Kept, Freed, HandedTo, MayTurnOff
  <2>3. ShowsIt(d)'
    BY <1>1, <1>2, <2>1, ThereIs, ThereWillBe, UnawareIs, NotInvalid
    DEF Shapes, PeerInv, OwnerLives, ShowsIt, HasIt, Kept, Freed, HandedTo, MayTurnOff
  <2>4. HasIt(d)'
    BY <1>1, <1>2, <2>1, ThereIs, ThereWillBe, UnawareIs, NotInvalid
    DEF Shapes, PeerInv, OwnerLives, ShowsIt, HasIt, Kept, Freed, HandedTo, MayTurnOff
  <2> QED BY <2>2, <2>3, <2>4 DEF PeerInv
<1> QED BY <1>3, <1>4, <1>5 DEF PrivacyInv

LEMMA LateThreadKeeps == ASSUME PrivacyInv, NEW c \in Peers, NEW key \in Impls, LateThread(c, key) PROVE PrivacyInv'
<1> USE DEF LateThread, modeVars, peerSideVars, privacyHistory, Stage, TellPeer, ThereStages
<1>1. Shapes /\ HooksOwned
  BY DEF PrivacyInv
<1>2. \E result \in {"granted", "refused", "plugin"} :
        /\ UNCHANGED loop
        /\ \/ Kept /\ result = "granted" /\ owner = c
           \/ Kept /\ result = "refused" /\ owner \notin {c, InvalidConn}
           \/ result = "granted" /\ owner \in {c, InvalidConn} /\ HandedTo(c, FALSE)
           \/ result \in {"refused", "plugin"} /\ owner \in {c, InvalidConn} /\ Freed(FALSE)
  BY <1>1, TurnOnEffect
<1>3. Shapes'
  BY <1>1, <1>2 DEF Shapes, Stages, Impls, Kept, Freed, HandedTo
<1>4. HooksOwned'
  BY <1>1, <1>2, NotInvalid DEF HooksOwned, Kept, Freed, HandedTo
<1>5. ASSUME NEW d \in Peers PROVE PeerInv(d)'
  <2>1. PeerInv(d)
    BY DEF PrivacyInv
  <2>2. OwnerLives(d)'
    BY <1>1, <1>2, <2>1, ThereIs, ThereWillBe, UnawareIs, NotInvalid
    DEF Shapes, PeerInv, OwnerLives, ShowsIt, HasIt, Kept, Freed, HandedTo, MayTurnOff
  <2>3. ShowsIt(d)'
    BY <1>1, <1>2, <2>1, ThereIs, ThereWillBe, UnawareIs, NotInvalid
    DEF Shapes, PeerInv, OwnerLives, ShowsIt, HasIt, Kept, Freed, HandedTo, MayTurnOff
  <2>4. HasIt(d)'
    BY <1>1, <1>2, <2>1, ThereIs, ThereWillBe, UnawareIs, NotInvalid
    DEF Shapes, PeerInv, OwnerLives, ShowsIt, HasIt, Kept, Freed, HandedTo, MayTurnOff
  <2> QED BY <2>2, <2>3, <2>4 DEF PeerInv
<1> QED BY <1>3, <1>4, <1>5 DEF PrivacyInv

-----------------------------------------------------------------------------
(* The theorems.                                                           *)

LEMMA InitInv == PrivacyInit => PrivacyInv
<1> SUFFICES ASSUME PrivacyInit PROVE PrivacyInv
  OBVIOUS
<1> USE DEF PrivacyInit
<1>1. Shapes /\ HooksOwned
  BY DEF Shapes, Stages, HooksOwned
<1>2. ASSUME NEW c \in Peers PROVE PeerInv(c)
  BY NotInvalid DEF PeerInv, OwnerLives, ShowsIt, HasIt
<1> QED BY <1>1, <1>2 DEF PrivacyInv

LEMMA StutterInv == ASSUME PrivacyInv, UNCHANGED privacyVars PROVE PrivacyInv'
<1> USE DEF privacyVars, modeVars, peerSideVars, privacyHistory
<1>1. Shapes' /\ HooksOwned'
  BY DEF PrivacyInv, Shapes, HooksOwned
<1>2. ASSUME NEW c \in Peers PROVE PeerInv(c)'
  BY DEF PrivacyInv, PeerInv, OwnerLives, ShowsIt, HasIt, There
<1> QED BY <1>1, <1>2 DEF PrivacyInv

LEMMA NextInv == PrivacyInv /\ [PrivacyNext]_privacyVars => PrivacyInv'
<1> SUFFICES ASSUME PrivacyInv, [PrivacyNext]_privacyVars PROVE PrivacyInv'
  OBVIOUS
<1>1. CASE Press \/ TurnOffPressed \/ HookExits
  BY <1>1, PressKeeps, TurnOffPressedKeeps, HookExitsKeeps
<1>2. ASSUME NEW c \in Peers, Checks(c) \/ LetIn(c) \/ AskOn(c) \/ AskOff(c) \/ ThreadDone(c) \/ WaitTimesOut(c)
      PROVE  PrivacyInv'
  BY <1>2, ChecksKeeps, LetInKeeps, AskOnKeeps, AskOffKeeps, ThreadDoneKeeps, WaitTimesOutKeeps
<1>3. ASSUME NEW c \in Peers, Granted(c) \/ CannotCapture(c) \/ NoPlugin(c) \/ Refused(c) \/ Revoke(c)
      PROVE  PrivacyInv'
  BY <1>3, GrantedKeeps, CannotCaptureKeeps, NoPluginKeeps, RefusedKeeps, RevokeKeeps
<1>4. ASSUME NEW c \in Peers, Notice(c) \/ LoopEnds(c) \/ EndMode(c) \/ DropGuard(c) \/ ResetAll(c)
      PROVE  PrivacyInv'
  BY <1>4, NoticeKeeps, LoopEndsKeeps, EndModeKeeps, DropGuardKeeps, ResetAllKeeps
<1>5. ASSUME NEW c \in Peers, NEW key \in Impls, LateThread(c, key) PROVE PrivacyInv'
  BY <1>5, LateThreadKeeps
<1>6. ASSUME NEW key \in Impls, SwitchImpl(key) PROVE PrivacyInv'
  BY <1>6, SwitchImplKeeps
<1>7. CASE UNCHANGED privacyVars
  BY <1>7, StutterInv
<1> QED BY <1>1, <1>2, <1>3, <1>4, <1>5, <1>6, <1>7 DEF PrivacyNext

\* The invariant holds whenever the privacy mode is turned on and off.
THEOREM PrivacyInvariance == PrivacySpec => []PrivacyInv
BY InitInv, NextInv, PTL DEF PrivacySpec

\* The machine is given back (turn_off_privacy and its callers, win_input).
THEOREM MachineAlwaysFreed == PrivacySpec => []MachineFreed
<1>1. PrivacyInv => MachineFreed
  BY DEF PrivacyInv, Shapes, HooksOwned, PeerInv, OwnerLives, MachineFreed
<1> QED BY <1>1, PrivacyInvariance, PTL

\* The peer knows whether it has the mode (Connection::turn_on_privacy).
THEOREM PeerAlwaysKnows == PrivacySpec => []PeerKnows
<1>1. PrivacyInv => PeerKnows
  BY DEF PrivacyInv, PeerInv, ShowsIt, HasIt, PeerKnows
<1> QED BY <1>1, PrivacyInvariance, PTL

-----------------------------------------------------------------------------
(* The types.                                                              *)

\* What of the types the calls under the lock of PRIVACY_MODE may change ...
ModeTypes ==
  /\ impl \in Impls /\ owner \in Peers \cup {InvalidConn}
  /\ hookThread \in {"none", "on", "exiting"} /\ pressed \in BOOLEAN
  /\ pressed => hookThread # "none"
  /\ deprived \subseteq Peers /\ excuse \in {"none", "late", "overtaken"}

\* ... and what only the connections change.
LoopTypes ==
  /\ loop \in [Peers -> Stages] /\ asked \in [Peers -> Impls]
  /\ threads \subseteq Peers \X Impls
  /\ notices \in [Peers -> BOOLEAN] /\ shown \in [Peers -> BOOLEAN]

LEMMA BothTypes == PrivacyTypeOK <=> ModeTypes /\ LoopTypes
BY DEF PrivacyTypeOK, ModeTypes, LoopTypes

LEMMA UnawarePeers == Unaware \subseteq Peers
BY DEF Unaware, There

LEMMA TurnOffTypes ==
  ASSUME ModeTypes, NEW id, NEW told, TurnOff(id, told), pressed' \in BOOLEAN, pressed' => pressed
  PROVE  ModeTypes'
BY UnawarePeers DEF ModeTypes, TurnOff, Unhooked, privacyHistory

LEMMA TurnOnTypes ==
  ASSUME ModeTypes, NEW c \in Peers, NEW key \in Impls, NEW result, NEW heard,
         TurnOn(c, key, result, heard), pressed' = pressed
  PROVE  ModeTypes'
<1>1. \A left \in Replaced(key) :
        left \in {"none", "on", "exiting"} /\ (pressed => left # "none")
  BY DEF ModeTypes, Replaced, Unhooked
<1>2. CASE UNCHANGED <<impl, owner, hookThread, privacyHistory>>
  BY <1>2 DEF ModeTypes, privacyHistory
<1>3. CASE TurnedOn(c, key) /\ excuse' = IF heard THEN "none" ELSE "late"
  BY <1>1, <1>3 DEF ModeTypes, TurnedOn
<1>4. CASE NotTurnedOn(key, heard)
  BY <1>1, <1>4, UnawarePeers DEF ModeTypes, NotTurnedOn
<1> QED BY <1>2, <1>3, <1>4 DEF TurnOn

LEMMA HooksTypes ==
  ASSUME ModeTypes, LoopTypes,
         Press \/ TurnOffPressed \/ HookExits \/ \E key \in Impls : SwitchImpl(key)
  PROVE  ModeTypes' /\ LoopTypes'
<1>0. CASE Press
  <2>1. ModeTypes'
    BY <1>0 DEF Press, ModeTypes, privacyHistory
  <2>2. LoopTypes'
    BY <1>0 DEF Press, LoopTypes, peerSideVars
  <2> QED BY <2>1, <2>2
<1>1. CASE HookExits
  <2>1. ModeTypes'
    BY <1>1 DEF HookExits, ModeTypes, privacyHistory
  <2>2. LoopTypes'
    BY <1>1 DEF HookExits, LoopTypes, peerSideVars
  <2> QED BY <2>1, <2>2
<1>2. CASE TurnOffPressed
  <2>1. ModeTypes'
    BY <1>2, TurnOffTypes DEF TurnOffPressed
  <2>2. LoopTypes'
    BY <1>2 DEF TurnOffPressed, LoopTypes
  <2> QED BY <2>1, <2>2
<1>3. CASE \E key \in Impls : SwitchImpl(key)
  BY <1>3, UnawarePeers DEF SwitchImpl, Unhooked, ModeTypes, LoopTypes, peerSideVars
<1> QED BY <1>0, <1>1, <1>2, <1>3

\* Where the stages of a connection lead.
LEMMA StageTypes ==
  ASSUME LoopTypes, NEW c \in Peers, NEW s \in Stages, Stage(c, s)
  PROVE  loop' \in [Peers -> Stages]
BY DEF LoopTypes, Stage

LEMMA ConnTypes ==
  ASSUME ModeTypes, LoopTypes, NEW c \in Peers,
         \/ Checks(c) \/ LetIn(c) \/ AskOn(c) \/ AskOff(c) \/ ThreadDone(c) \/ WaitTimesOut(c)
         \/ Granted(c) \/ CannotCapture(c) \/ NoPlugin(c) \/ Refused(c) \/ Revoke(c)
         \/ Notice(c) \/ LoopEnds(c) \/ EndMode(c) \/ DropGuard(c) \/ ResetAll(c)
         \/ \E key \in Impls : LateThread(c, key)
  PROVE  ModeTypes' /\ LoopTypes'
<1> USE DEF Stages, modeVars, peerSideVars, privacyHistory, TellPeer
<1>0. "window" \in Impls /\ asked[c] \in Impls
  BY DEF Impls, LoopTypes
<1>1. CASE Checks(c) \/ LetIn(c) \/ Granted(c) \/ NoPlugin(c) \/ DropGuard(c)
  <2>1. ModeTypes'
    BY <1>1 DEF Checks, LetIn, Granted, NoPlugin, DropGuard, ModeTypes
  <2>2. loop' \in [Peers -> Stages]
    BY <1>1, StageTypes DEF Checks, LetIn, Granted, NoPlugin, DropGuard
  <2>3. /\ notices' \in [Peers -> BOOLEAN] /\ shown' \in [Peers -> BOOLEAN]
        /\ UNCHANGED <<asked, threads>>
    BY <1>1 DEF Checks, LetIn, Granted, NoPlugin, DropGuard, LoopTypes
  <2> QED BY <2>1, <2>2, <2>3 DEF LoopTypes
<1>2. CASE AskOn(c)
  <2>1. ModeTypes'
    <3>1. CASE UNCHANGED <<modeVars, privacyHistory>>
      BY <3>1 DEF ModeTypes
    <3>2. CASE \E key \in Impls, result \in {"granted", "refused", "plugin"} :
                 TurnOn(c, key, result, TRUE) /\ pressed' = pressed
      BY <3>2, TurnOnTypes
    <3> QED BY <1>2, <3>1, <3>2 DEF AskOn
  <2>2. loop' \in [Peers -> Stages]
    BY <1>2, StageTypes DEF AskOn
  <2>3. asked' \in [Peers -> Impls]
    BY <1>2 DEF AskOn, LoopTypes
  <2> QED BY <1>2, <2>1, <2>2, <2>3 DEF AskOn, LoopTypes
<1>3. CASE ThreadDone(c)
  <2>1. ModeTypes'
    BY <1>0, <1>3, TurnOnTypes DEF ThreadDone
  <2>2. loop' \in [Peers -> Stages]
    BY <1>3, StageTypes DEF ThreadDone
  <2>3. asked' \in [Peers -> Impls]
    BY <1>0, <1>3 DEF ThreadDone, LoopTypes
  <2> QED BY <1>3, <2>1, <2>2, <2>3 DEF ThreadDone, LoopTypes
<1>4. CASE WaitTimesOut(c)
  <2>1. threads' \subseteq Peers \X Impls
    BY <1>0, <1>4 DEF WaitTimesOut, LoopTypes
  <2>2. asked' \in [Peers -> Impls]
    BY <1>0, <1>4 DEF WaitTimesOut, LoopTypes
  <2> QED BY <1>4, <2>1, <2>2 DEF WaitTimesOut, Stage, ModeTypes, LoopTypes
<1>5. CASE AskOff(c)
  <2>1. ModeTypes'
    BY <1>5, TurnOffTypes DEF AskOff, ModeTypes
  <2> QED BY <1>5, <2>1 DEF AskOff, LoopTypes
<1>6. CASE CannotCapture(c) \/ Revoke(c) \/ EndMode(c) \/ ResetAll(c)
  <2>1. ModeTypes'
    <3>1. pressed' = pressed /\ \E id \in {c, InvalidConn}, told \in BOOLEAN : TurnOff(id, told)
      BY <1>6 DEF CannotCapture, Revoke, EndMode, ResetAll
    <3> QED BY <3>1, TurnOffTypes DEF ModeTypes
  <2>2. loop' \in [Peers -> Stages]
    BY <1>6, StageTypes DEF CannotCapture, Revoke, EndMode, ResetAll
  <2>3. /\ notices' \in [Peers -> BOOLEAN] /\ shown' \in [Peers -> BOOLEAN]
        /\ UNCHANGED <<asked, threads>>
    BY <1>6 DEF CannotCapture, Revoke, EndMode, ResetAll, LoopTypes
  <2> QED BY <2>1, <2>2, <2>3 DEF LoopTypes
<1>7. CASE Refused(c)
  BY <1>7 DEF Refused, AfterRefusal, Stage, ModeTypes, LoopTypes
<1>8. CASE Notice(c)
  BY <1>8 DEF Notice, ModeTypes, LoopTypes
<1>9. CASE LoopEnds(c)
  BY <1>9 DEF LoopEnds, AfterLoop, Stage, ModeTypes, LoopTypes
<1>10. CASE \E key \in Impls : LateThread(c, key)
  <2>1. ModeTypes'
    BY <1>10, TurnOnTypes DEF LateThread
  <2> QED BY <1>10, <2>1 DEF LateThread, LoopTypes
<1> QED BY <1>1, <1>2, <1>3, <1>4, <1>5, <1>6, <1>7, <1>8, <1>9, <1>10

\* The variables of the privacy mode keep their types, and Ctrl+P is only met by a
\* thread that is there (privacy_mode, win_input).
THEOREM PrivacyTypes == PrivacySpec => []PrivacyTypeOK
<1>1. PrivacyInit => ModeTypes /\ LoopTypes
  BY DEF PrivacyInit, ModeTypes, LoopTypes, Impls, Stages
<1>2. ModeTypes /\ LoopTypes /\ [PrivacyNext]_privacyVars => ModeTypes' /\ LoopTypes'
  <2> SUFFICES ASSUME ModeTypes, LoopTypes, [PrivacyNext]_privacyVars
               PROVE  ModeTypes' /\ LoopTypes'
    OBVIOUS
  <2>1. CASE UNCHANGED privacyVars
    BY <2>1 DEF ModeTypes, LoopTypes, privacyVars, modeVars, peerSideVars, privacyHistory
  <2> QED BY <2>1, HooksTypes, ConnTypes DEF PrivacyNext
<1> QED BY <1>1, <1>2, BothTypes, PTL DEF PrivacySpec

-----------------------------------------------------------------------------
(* The parts together.                                                     *)

\* The parts of MCScreen run by themselves: each of its behaviours is one of either
\* part, and the part that keeps still stutters.
LEMMA ScreenPartsRunAlone == ScreenSpec => Spec /\ PrivacySpec
<1>1. ScreenInit => Init /\ PrivacyInit
  BY DEF ScreenInit
<1>2. [ScreenNext]_screenVars => [Next]_vars
  BY DEF ScreenNext, screenVars
<1>3. [ScreenNext]_screenVars => [PrivacyNext]_privacyVars
  BY DEF ScreenNext, screenVars
<1> QED BY <1>1, <1>2, <1>3, PTL DEF ScreenSpec, Spec, PrivacySpec

\* What the run `screen' checks of the types of both parts (video_service,
\* privacy_mode).
THEOREM ScreenTypes == ScreenSpec => []ScreenTypeOK
<1>1. TypeOK /\ PrivacyTypeOK => ScreenTypeOK
  BY DEF ScreenTypeOK
<1> QED BY <1>1, ScreenPartsRunAlone, VideoTypes, PrivacyTypes, PTL

\* Whatever part runs, the flow of the frames is controlled, no refresh is lost, the
\* machine is given back and the peer knows whether it has the mode.
THEOREM ScreenPromises ==
  ScreenSpec => []FlowControlled /\ []RefreshNotLost /\ []MachineFreed /\ []PeerKnows
BY ScreenPartsRunAlone, AlwaysFlowControlled, NoRefreshLost, MachineAlwaysFreed,
   PeerAlwaysKnows, PTL
=============================================================================
