---------------------------- MODULE LoginProofs ----------------------------
(* Why a connection is let in, and what a session outlives, for any number  *)
(* of connections of a peer.                                                *)
EXTENDS MCConnection, PermissionsProofs, AuthedProofs, FiniteSetTheorems, TLAPS

-----------------------------------------------------------------------------
(* The invariant.                                                          *)

Requests == {"none", "login", "code", "close"}

Shapes ==
  /\ window \in [Attempts -> Windows]
  /\ temporary \in Int
  /\ session \in [password : Int, tfa : BOOLEAN, old : BOOLEAN]
  /\ step \in [Attempts -> Steps]
  /\ lr \in [Attempts -> Int]
  /\ require_2fa \in [Attempts -> BOOLEAN]
  /\ request \in [Attempts -> Requests \X Int]
  /\ screen \in [Attempts -> Screens]
  /\ knows \in [Windows -> Int]

\* What a session remembers was given.
SessionCause ==
  /\ session.tfa => codeSince
  /\ session.password = None \/ session.password \in validated

\* Why the login of a connection may go on.
Admitted(c) == c \in clicked \/ c \in coded \/ lr[c] \in validated

\* A connection that needs no second factor has a reason, and so has one whose
\* login goes on.
Reasons(c) ==
  /\ ~require_2fa[c] /\ step[c] # "gone" => ~twofa \/ trusted \/ c \in clicked \/ c \in coded
  /\ step[c] = "logon" => Admitted(c)

\* The peer sends nothing to a connection that ends.
Ends(c) ==
  /\ step[c] \in {"end", "drop", "gone"} => screen[c] \in {"left", "closed"} /\ request[c][1] = "none"
  /\ screen[c] = "left" => request[c][1] = "none"
  /\ request[c][1] = "close" => screen[c] = "closed"
  /\ screen[c] = "closed" => request[c][1] \in {"none", "close"}
  /\ screen[c] = "none" => step[c] = "new"

Authorised(c) ==
  /\ c \in authedConns => step[c] \in {"attach", "on", "end", "drop"}
  /\ step[c] = "attach" => c \in authedConns

ConnInv(c) == Reasons(c) /\ Ends(c) /\ Authorised(c)

LoginInv ==
  /\ Shapes /\ SessionCause /\ refreshing \subseteq authedConns
  /\ \A c \in Attempts : ConnInv(c)

-----------------------------------------------------------------------------
(* What a step leaves alone.                                               *)

\* Nothing about connection d changes.
Same(d) ==
  /\ step'[d] = step[d] /\ lr'[d] = lr[d] /\ require_2fa'[d] = require_2fa[d]
  /\ request'[d] = request[d] /\ screen'[d] = screen[d]
  /\ d \in clicked' <=> d \in clicked
  /\ d \in coded' <=> d \in coded
  /\ d \in authedConns' <=> d \in authedConns

\* Causes that are not of one connection stay.
Grows == twofa' = twofa /\ (trusted => trusted') /\ validated \subseteq validated'

LEMMA Others ==
  ASSUME NEW d \in Attempts, ConnInv(d), Same(d), Grows
  PROVE  ConnInv(d)'
<1>1. Admitted(d) => Admitted(d)'
  BY DEF Admitted, Same, Grows
<1>2. Reasons(d)'
  BY <1>1 DEF ConnInv, Reasons, Same, Grows
<1>3. Ends(d)' /\ Authorised(d)'
  BY DEF ConnInv, Ends, Authorised, Same
<1> QED BY <1>2, <1>3 DEF ConnInv

\* It is enough to look at the connection a step is about.
LEMMA OneConnection ==
  ASSUME LoginInv, NEW c \in Attempts, Grows,
         \A d \in Attempts : d # c => Same(d),
         Shapes', SessionCause', (refreshing \subseteq authedConns)', ConnInv(c)'
  PROVE  LoginInv'
<1>1. ASSUME NEW d \in Attempts PROVE ConnInv(d)'
  BY Others, <1>1 DEF LoginInv
<1> QED BY <1>1 DEF LoginInv

LEMMA NoSessionTyped == NoSession \in [password : Int, tfa : BOOLEAN, old : BOOLEAN]
  BY DEF NoSession, None

-----------------------------------------------------------------------------
(* The steps of a connection.                                              *)

LEMMA ConnectKeeps == ASSUME LoginInv, NEW c \in Attempts, Connect(c) PROVE LoginInv'
<1> USE DEF Connect, Enter, Ask, Show, optionVars, sessionVars, loginConnVars, peerVars, causeVars
<1>1. Shapes
  BY DEF LoginInv
<1>2. ConnInv(c) /\ SessionCause /\ refreshing \subseteq authedConns
  BY DEF LoginInv
<1>3. Grows
  BY DEF Grows
<1>4. \A e \in Attempts : e # c => Same(e)
  BY <1>1 DEF Same, Shapes
<1>5. Shapes'
  BY <1>1 DEF Shapes, Steps, Screens, Requests, None, Wrong, Permanent, Unasked, NoRequest, NoSession
<1>6. SessionCause' /\ (refreshing \subseteq authedConns)'
  BY <1>1, <1>2 DEF SessionCause, Shapes, NoSession, None, ConnInv, Authorised
<1>7. Reasons(c)'
  BY <1>1, <1>2 DEF ConnInv, Shapes, Reasons, Admitted, SessionCause, Ends, NoRequest
<1>8. Ends(c)' /\ Authorised(c)'
  BY <1>1, <1>2 DEF ConnInv, Shapes, Ends, Authorised, NoRequest
<1> QED BY <1>3, <1>4, <1>5, <1>6, <1>7, <1>8, OneConnection DEF ConnInv

LEMMA TypesPasswordKeeps == ASSUME LoginInv, NEW c \in Attempts, TypesPassword(c) PROVE LoginInv'
<1> USE DEF TypesPassword, Ask, Show, ServerKeeps, optionVars, sessionVars, loginConnVars, peerVars, causeVars
<1>1. Shapes
  BY DEF LoginInv
<1>2. ConnInv(c) /\ SessionCause /\ refreshing \subseteq authedConns
  BY DEF LoginInv
<1>3. Grows
  BY DEF Grows
<1>4. \A e \in Attempts : e # c => Same(e)
  BY <1>1 DEF Same, Shapes
<1>5. Shapes'
  BY <1>1 DEF Shapes, Steps, Screens, Requests, None, Wrong, Permanent, Unasked, NoRequest, NoSession
<1>6. SessionCause' /\ (refreshing \subseteq authedConns)'
  BY <1>1, <1>2 DEF SessionCause, Shapes, NoSession, None, ConnInv, Authorised
<1>7. Reasons(c)'
  BY <1>1, <1>2 DEF ConnInv, Shapes, Reasons, Admitted, SessionCause, Ends, NoRequest
<1>8. Ends(c)' /\ Authorised(c)'
  BY <1>1, <1>2 DEF ConnInv, Shapes, Ends, Authorised, NoRequest
<1> QED BY <1>3, <1>4, <1>5, <1>6, <1>7, <1>8, OneConnection DEF ConnInv

LEMMA TypesCodeKeeps == ASSUME LoginInv, NEW c \in Attempts, TypesCode(c) PROVE LoginInv'
<1> USE DEF TypesCode, Open, Ask, Show, ServerKeeps, optionVars, sessionVars, loginConnVars, peerVars, causeVars
<1>1. Shapes
  BY DEF LoginInv
<1>2. ConnInv(c) /\ SessionCause /\ refreshing \subseteq authedConns
  BY DEF LoginInv
<1>3. Grows
  BY DEF Grows
<1>4. \A e \in Attempts : e # c => Same(e)
  BY <1>1 DEF Same, Shapes
<1>5. Shapes'
  BY <1>1 DEF Shapes, Steps, Screens, Requests, None, Wrong, Permanent, Unasked, NoRequest, NoSession
<1>6. SessionCause' /\ (refreshing \subseteq authedConns)'
  BY <1>1, <1>2 DEF SessionCause, Shapes, NoSession, None, ConnInv, Authorised
<1>7. Reasons(c)'
  BY <1>1, <1>2 DEF ConnInv, Shapes, Reasons, Admitted, SessionCause, Ends, NoRequest
<1>8. Ends(c)' /\ Authorised(c)'
  BY <1>1, <1>2 DEF ConnInv, Shapes, Ends, Authorised, NoRequest
<1> QED BY <1>3, <1>4, <1>5, <1>6, <1>7, <1>8, OneConnection DEF ConnInv

LEMMA BreaksKeeps == ASSUME LoginInv, NEW c \in Attempts, Breaks(c) PROVE LoginInv'
<1> USE DEF Breaks, Open, Show, ServerKeeps, optionVars, sessionVars, loginConnVars, peerVars, causeVars
<1>1. Shapes
  BY DEF LoginInv
<1>2. ConnInv(c) /\ SessionCause /\ refreshing \subseteq authedConns
  BY DEF LoginInv
<1>3. Grows
  BY DEF Grows
<1>4. \A e \in Attempts : e # c => Same(e)
  BY <1>1 DEF Same, Shapes
<1>5. Shapes'
  BY <1>1 DEF Shapes, Steps, Screens, Requests, None, Wrong, Permanent, Unasked, NoRequest, NoSession
<1>6. SessionCause' /\ (refreshing \subseteq authedConns)'
  BY <1>1, <1>2 DEF SessionCause, Shapes, NoSession, None, ConnInv, Authorised
<1>7. Reasons(c)'
  BY <1>1, <1>2 DEF ConnInv, Shapes, Reasons, Admitted, SessionCause, Ends, NoRequest
<1>8. Ends(c)' /\ Authorised(c)'
  BY <1>1, <1>2 DEF ConnInv, Shapes, Ends, Authorised, NoRequest
<1> QED BY <1>3, <1>4, <1>5, <1>6, <1>7, <1>8, OneConnection DEF ConnInv

LEMMA ClosesWindowKeeps == ASSUME LoginInv, NEW c \in Attempts, ClosesWindow(c) PROVE LoginInv'
<1> USE DEF ClosesWindow, Open, Show, Ask, ServerKeeps, optionVars, sessionVars, loginConnVars, peerVars, causeVars
<1>1. Shapes
  BY DEF LoginInv
<1>2. ConnInv(c) /\ SessionCause /\ refreshing \subseteq authedConns
  BY DEF LoginInv
<1>3. Grows
  BY DEF Grows
<1>4. \A e \in Attempts : e # c => Same(e)
  BY <1>1 DEF Same, Shapes
<1>5. Shapes'
  BY <1>1 DEF Shapes, Steps, Screens, Requests, None, Wrong, Permanent, Unasked, NoRequest, NoSession
<1>6. SessionCause' /\ (refreshing \subseteq authedConns)'
  BY <1>1, <1>2 DEF SessionCause, Shapes, NoSession, None, ConnInv, Authorised
<1>7. Reasons(c)'
  BY <1>1, <1>2 DEF ConnInv, Shapes, Reasons, Admitted, SessionCause, Ends, NoRequest
<1>8. Ends(c)' /\ Authorised(c)'
  BY <1>1, <1>2 DEF ConnInv, Shapes, Ends, Authorised, NoRequest
<1> QED BY <1>3, <1>4, <1>5, <1>6, <1>7, <1>8, OneConnection DEF ConnInv

LEMMA HandleLoginKeeps == ASSUME LoginInv, NEW c \in Attempts, HandleLogin(c) PROVE LoginInv'
<1> USE DEF HandleLogin, Enter, Taken, Tell, ShowInCm, DropOld, Retained, SameAs, Open, optionVars, sessionVars, loginConnVars, peerVars, causeVars
<1>1. Shapes
  BY DEF LoginInv
<1>2. ConnInv(c) /\ SessionCause /\ refreshing \subseteq authedConns
  BY DEF LoginInv
<1>3. Grows
  BY DEF Grows
<1>4. \A e \in Attempts : e # c => Same(e)
  BY <1>1 DEF Same, Shapes
<1>5. Shapes'
  <2>1. window' \in [Attempts -> Windows] /\ temporary' \in Int
    BY <1>1 DEF Shapes
  <2>2. session' \in [password : Int, tfa : BOOLEAN, old : BOOLEAN]
    <3>1. session' \in {session, NoSession}
      OBVIOUS
    <3>2. session \in [password : Int, tfa : BOOLEAN, old : BOOLEAN]
      BY <1>1 DEF Shapes
    <3> QED BY ONLY <3>1, <3>2, NoSessionTyped
  <2>3. step' \in [Attempts -> Steps] /\ screen' \in [Attempts -> Screens]
    BY <1>1 DEF Shapes, Steps, Screens
  <2>4. lr' \in [Attempts -> Int]
    BY <1>1 DEF Shapes, Unasked
  <2>5. require_2fa' \in [Attempts -> BOOLEAN]
    BY <1>1 DEF Shapes
  <2>6. request' \in [Attempts -> Requests \X Int]
    BY <1>1 DEF Shapes, Requests, NoRequest, None
  <2>7. knows' \in [Windows -> Int]
    BY <1>1 DEF Shapes, None
  <2> QED BY <2>1, <2>2, <2>3, <2>4, <2>5, <2>6, <2>7 DEF Shapes
<1>6. SessionCause' /\ (refreshing \subseteq authedConns)'
  BY <1>1, <1>2 DEF SessionCause, Shapes, NoSession, None, ConnInv, Authorised
<1>7. Reasons(c)'
  <2>1. ~require_2fa'[c] => ~twofa \/ trusted \/ c \in clicked \/ c \in coded
    BY <1>1, <1>2 DEF ConnInv, Shapes, Reasons, Ends
  <2>2. step'[c] = "logon" => lr'[c] \in validated
    BY <1>1, <1>2 DEF Shapes, SessionCause, None, NoSession
  <2> QED BY <2>1, <2>2 DEF Reasons, Admitted
<1>8. Ends(c)' /\ Authorised(c)'
  BY <1>1, <1>2 DEF ConnInv, Shapes, Ends, Authorised, NoRequest
<1> QED BY <1>3, <1>4, <1>5, <1>6, <1>7, <1>8, OneConnection DEF ConnInv

LEMMA ValidateKeeps == ASSUME LoginInv, NEW c \in Attempts, Validate(c) PROVE LoginInv'
<1> USE DEF Validate, Enter, Tell, Open, ShowInCm, Updated, TfaOfNew, optionVars, sessionVars, loginConnVars, peerVars, causeVars
<1>1. Shapes
  BY DEF LoginInv
<1>2. ConnInv(c) /\ SessionCause /\ refreshing \subseteq authedConns
  BY DEF LoginInv
<1>3. Grows
  BY DEF Grows
<1>4. \A e \in Attempts : e # c => Same(e)
  BY <1>1 DEF Same, Shapes
<1>5. Shapes'
  <2>1. window' \in [Attempts -> Windows] /\ temporary' \in Int
    BY <1>1 DEF Shapes
  <2>2. session' \in [password : Int, tfa : BOOLEAN, old : BOOLEAN]
    BY <1>1 DEF Shapes, None, NoSession
  <2>3. step' \in [Attempts -> Steps] /\ screen' \in [Attempts -> Screens]
    BY <1>1 DEF Shapes, Steps, Screens
  <2>4. lr' \in [Attempts -> Int]
    BY <1>1 DEF Shapes, Unasked
  <2>5. require_2fa' \in [Attempts -> BOOLEAN]
    BY <1>1 DEF Shapes
  <2>6. request' \in [Attempts -> Requests \X Int]
    BY <1>1 DEF Shapes, Requests, NoRequest, None
  <2>7. knows' \in [Windows -> Int]
    BY <1>1 DEF Shapes, None
  <2> QED BY <2>1, <2>2, <2>3, <2>4, <2>5, <2>6, <2>7 DEF Shapes
<1>6. SessionCause' /\ (refreshing \subseteq authedConns)'
  BY <1>1, <1>2 DEF SessionCause, Shapes, NoSession, None, ConnInv, Authorised
<1>7. Reasons(c)'
  BY <1>1, <1>2 DEF ConnInv, Shapes, Reasons, Admitted, SessionCause, Ends, NoRequest
<1>8. Ends(c)' /\ Authorised(c)'
  BY <1>1, <1>2 DEF ConnInv, Shapes, Ends, Authorised, NoRequest
<1> QED BY <1>3, <1>4, <1>5, <1>6, <1>7, <1>8, OneConnection DEF ConnInv

LEMMA HandleCodeKeeps == ASSUME LoginInv, NEW c \in Attempts, HandleCode(c) PROVE LoginInv'
<1> USE DEF HandleCode, Enter, Taken, Tell, Open, Without2fa, Updated, optionVars, sessionVars, loginConnVars, peerVars, causeVars
<1>1. Shapes
  BY DEF LoginInv
<1>2. ConnInv(c) /\ SessionCause /\ refreshing \subseteq authedConns
  BY DEF LoginInv
<1>3. Grows
  BY DEF Grows
<1>4. \A e \in Attempts : e # c => Same(e)
  BY <1>1 DEF Same, Shapes
<1>5. Shapes'
  <2>1. window' \in [Attempts -> Windows] /\ temporary' \in Int
    BY <1>1 DEF Shapes
  <2>2. session' \in [password : Int, tfa : BOOLEAN, old : BOOLEAN]
    BY <1>1 DEF Shapes, None, NoSession
  <2>3. step' \in [Attempts -> Steps] /\ screen' \in [Attempts -> Screens]
    BY <1>1 DEF Shapes, Steps, Screens
  <2>4. lr' \in [Attempts -> Int]
    BY <1>1 DEF Shapes, Unasked
  <2>5. require_2fa' \in [Attempts -> BOOLEAN]
    BY <1>1 DEF Shapes
  <2>6. request' \in [Attempts -> Requests \X Int]
    BY <1>1 DEF Shapes, Requests, NoRequest, None
  <2>7. knows' \in [Windows -> Int]
    BY <1>1 DEF Shapes, None
  <2> QED BY <2>1, <2>2, <2>3, <2>4, <2>5, <2>6, <2>7 DEF Shapes
<1>6. SessionCause' /\ (refreshing \subseteq authedConns)'
  BY <1>1, <1>2 DEF SessionCause, Shapes, NoSession, None, ConnInv, Authorised
<1>7. Reasons(c)'
  BY <1>1, <1>2 DEF ConnInv, Shapes, Reasons, Admitted, SessionCause, Ends, NoRequest
<1>8. Ends(c)' /\ Authorised(c)'
  BY <1>1, <1>2 DEF ConnInv, Shapes, Ends, Authorised, NoRequest
<1> QED BY <1>3, <1>4, <1>5, <1>6, <1>7, <1>8, OneConnection DEF ConnInv

LEMMA AuthorizeKeeps == ASSUME LoginInv, NEW c \in Attempts, Authorize(c) PROVE LoginInv'
<1> USE DEF Authorize, Without2fa, Enter, optionVars, sessionVars, loginConnVars, peerVars, causeVars
<1>1. Shapes
  BY DEF LoginInv
<1>2. ConnInv(c) /\ SessionCause /\ refreshing \subseteq authedConns
  BY DEF LoginInv
<1>3. Grows
  BY DEF Grows
<1>4. \A e \in Attempts : e # c => Same(e)
  BY <1>1 DEF Same, Shapes
<1>5. Shapes'
  BY <1>1 DEF Shapes, Steps, Screens, Requests, None, Wrong, Permanent, Unasked, NoRequest, NoSession
<1>6. SessionCause' /\ (refreshing \subseteq authedConns)'
  BY <1>1, <1>2 DEF SessionCause, Shapes, NoSession, None, ConnInv, Authorised
<1>7. Reasons(c)'
  BY <1>1, <1>2 DEF ConnInv, Shapes, Reasons, Admitted, SessionCause, Ends, NoRequest
<1>8. Ends(c)' /\ Authorised(c)'
  BY <1>1, <1>2 DEF ConnInv, Shapes, Ends, Authorised, NoRequest
<1> QED BY <1>3, <1>4, <1>5, <1>6, <1>7, <1>8, OneConnection DEF ConnInv

LEMMA LogonKeeps == ASSUME LoginInv, NEW c \in Attempts, Logon(c) PROVE LoginInv'
<1> USE DEF Logon, Enter, Tell, Open, ShowInCm, DropOld, Retained, optionVars, sessionVars, loginConnVars, peerVars, causeVars
<1>1. Shapes
  BY DEF LoginInv
<1>2. ConnInv(c) /\ SessionCause /\ refreshing \subseteq authedConns
  BY DEF LoginInv
<1>3. Grows
  BY DEF Grows
<1>4. \A e \in Attempts : e # c => Same(e)
  BY <1>1 DEF Same, Shapes
<1>5. Shapes'
  <2>1. window' \in [Attempts -> Windows] /\ temporary' \in Int
    BY <1>1 DEF Shapes
  <2>2. session' \in [password : Int, tfa : BOOLEAN, old : BOOLEAN]
    <3>1. session' \in {session, NoSession}
      OBVIOUS
    <3>2. session \in [password : Int, tfa : BOOLEAN, old : BOOLEAN]
      BY <1>1 DEF Shapes
    <3> QED BY ONLY <3>1, <3>2, NoSessionTyped
  <2>3. step' \in [Attempts -> Steps] /\ screen' \in [Attempts -> Screens]
    BY <1>1 DEF Shapes, Steps, Screens
  <2>4. lr' \in [Attempts -> Int]
    BY <1>1 DEF Shapes, Unasked
  <2>5. require_2fa' \in [Attempts -> BOOLEAN]
    BY <1>1 DEF Shapes
  <2>6. request' \in [Attempts -> Requests \X Int]
    BY <1>1 DEF Shapes, Requests, NoRequest, None
  <2>7. knows' \in [Windows -> Int]
    BY <1>1 DEF Shapes, None
  <2> QED BY <2>1, <2>2, <2>3, <2>4, <2>5, <2>6, <2>7 DEF Shapes
<1>6. SessionCause' /\ (refreshing \subseteq authedConns)'
  BY <1>1, <1>2 DEF SessionCause, Shapes, NoSession, None, ConnInv, Authorised
<1>7. Reasons(c)'
  BY <1>1, <1>2 DEF ConnInv, Shapes, Reasons, Admitted, SessionCause, Ends, NoRequest
<1>8. Ends(c)' /\ Authorised(c)'
  BY <1>1, <1>2 DEF ConnInv, Shapes, Ends, Authorised, NoRequest
<1> QED BY <1>3, <1>4, <1>5, <1>6, <1>7, <1>8, OneConnection DEF ConnInv

LEMMA PushAuthedKeeps == ASSUME LoginInv, NEW c \in Attempts, PushAuthed(c) PROVE LoginInv'
<1> USE DEF PushAuthed, Enter, optionVars, sessionVars, loginConnVars, peerVars, causeVars
<1>1. Shapes
  BY DEF LoginInv
<1>2. ConnInv(c) /\ SessionCause /\ refreshing \subseteq authedConns
  BY DEF LoginInv
<1>3. Grows
  BY DEF Grows
<1>4. \A e \in Attempts : e # c => Same(e)
  BY <1>1 DEF Same, Shapes
<1>5. Shapes'
  BY <1>1 DEF Shapes, Steps, Screens, Requests, None, Wrong, Permanent, Unasked, NoRequest, NoSession
<1>6. SessionCause' /\ (refreshing \subseteq authedConns)'
  BY <1>1, <1>2 DEF SessionCause, Shapes, NoSession, None, ConnInv, Authorised
<1>7. Reasons(c)'
  BY <1>1, <1>2 DEF ConnInv, Shapes, Reasons, Admitted, SessionCause, Ends, NoRequest
<1>8. Ends(c)' /\ Authorised(c)'
  BY <1>1, <1>2 DEF ConnInv, Shapes, Ends, Authorised, NoRequest
<1> QED BY <1>3, <1>4, <1>5, <1>6, <1>7, <1>8, OneConnection DEF ConnInv

LEMMA AttachKeeps == ASSUME LoginInv, NEW c \in Attempts, Attach(c) PROVE LoginInv'
<1> USE DEF Attach, Enter, Tell, Open, ShowInCm, optionVars, sessionVars, loginConnVars, peerVars, causeVars
<1>1. Shapes
  BY DEF LoginInv
<1>2. ConnInv(c) /\ SessionCause /\ refreshing \subseteq authedConns
  BY DEF LoginInv
<1>3. Grows
  BY DEF Grows
<1>4. \A e \in Attempts : e # c => Same(e)
  BY <1>1 DEF Same, Shapes
<1>5. Shapes'
  BY <1>1 DEF Shapes, Steps, Screens, Requests, None, Wrong, Permanent, Unasked, NoRequest, NoSession
<1>6. SessionCause' /\ (refreshing \subseteq authedConns)'
  BY <1>1, <1>2 DEF SessionCause, Shapes, NoSession, None, ConnInv, Authorised
<1>7. Reasons(c)'
  BY <1>1, <1>2 DEF ConnInv, Shapes, Reasons, Admitted, SessionCause, Ends, NoRequest
<1>8. Ends(c)' /\ Authorised(c)'
  BY <1>1, <1>2 DEF ConnInv, Shapes, Ends, Authorised, NoRequest
<1> QED BY <1>3, <1>4, <1>5, <1>6, <1>7, <1>8, OneConnection DEF ConnInv

LEMMA HandleCloseKeeps == ASSUME LoginInv, NEW c \in Attempts, HandleClose(c) PROVE LoginInv'
<1> USE DEF HandleClose, Enter, Taken, CheckRemove, EndsOnly, optionVars, sessionVars, loginConnVars, peerVars, causeVars
<1>1. Shapes
  BY DEF LoginInv
<1>2. ConnInv(c) /\ SessionCause /\ refreshing \subseteq authedConns
  BY DEF LoginInv
<1>3. Grows
  BY DEF Grows
<1>4. \A e \in Attempts : e # c => Same(e)
  BY <1>1 DEF Same, Shapes
<1>5. Shapes'
  <2>1. window' \in [Attempts -> Windows] /\ temporary' \in Int
    BY <1>1 DEF Shapes
  <2>2. session' \in [password : Int, tfa : BOOLEAN, old : BOOLEAN]
    <3>1. session' \in {session, NoSession}
      OBVIOUS
    <3>2. session \in [password : Int, tfa : BOOLEAN, old : BOOLEAN]
      BY <1>1 DEF Shapes
    <3> QED BY ONLY <3>1, <3>2, NoSessionTyped
  <2>3. step' \in [Attempts -> Steps] /\ screen' \in [Attempts -> Screens]
    BY <1>1 DEF Shapes, Steps, Screens
  <2>4. lr' \in [Attempts -> Int]
    BY <1>1 DEF Shapes, Unasked
  <2>5. require_2fa' \in [Attempts -> BOOLEAN]
    BY <1>1 DEF Shapes
  <2>6. request' \in [Attempts -> Requests \X Int]
    BY <1>1 DEF Shapes, Requests, NoRequest, None
  <2>7. knows' \in [Windows -> Int]
    BY <1>1 DEF Shapes, None
  <2> QED BY <2>1, <2>2, <2>3, <2>4, <2>5, <2>6, <2>7 DEF Shapes
<1>6. SessionCause' /\ (refreshing \subseteq authedConns)'
  BY <1>1, <1>2 DEF SessionCause, Shapes, NoSession, None, ConnInv, Authorised
<1>7. Reasons(c)'
  BY <1>1, <1>2 DEF ConnInv, Shapes, Reasons, Admitted, SessionCause, Ends, NoRequest
<1>8. Ends(c)' /\ Authorised(c)'
  BY <1>1, <1>2 DEF ConnInv, Shapes, Ends, Authorised, NoRequest
<1> QED BY <1>3, <1>4, <1>5, <1>6, <1>7, <1>8, OneConnection DEF ConnInv

LEMMA ClosesForGoodKeeps == ASSUME LoginInv, NEW c \in Attempts, ClosesForGood(c) PROVE LoginInv'
<1> USE DEF ClosesForGood, Enter, Taken, Tell, Open, CheckRemove, EndsOnly, optionVars, sessionVars, loginConnVars, peerVars, causeVars
<1>1. Shapes
  BY DEF LoginInv
<1>2. ConnInv(c) /\ SessionCause /\ refreshing \subseteq authedConns
  BY DEF LoginInv
<1>3. Grows
  BY DEF Grows
<1>4. \A e \in Attempts : e # c => Same(e)
  BY <1>1 DEF Same, Shapes
<1>5. Shapes'
  <2>1. window' \in [Attempts -> Windows] /\ temporary' \in Int
    BY <1>1 DEF Shapes
  <2>2. session' \in [password : Int, tfa : BOOLEAN, old : BOOLEAN]
    <3>1. session' \in {session, NoSession}
      OBVIOUS
    <3>2. session \in [password : Int, tfa : BOOLEAN, old : BOOLEAN]
      BY <1>1 DEF Shapes
    <3> QED BY ONLY <3>1, <3>2, NoSessionTyped
  <2>3. step' \in [Attempts -> Steps] /\ screen' \in [Attempts -> Screens]
    BY <1>1 DEF Shapes, Steps, Screens
  <2>4. lr' \in [Attempts -> Int]
    BY <1>1 DEF Shapes, Unasked
  <2>5. require_2fa' \in [Attempts -> BOOLEAN]
    BY <1>1 DEF Shapes
  <2>6. request' \in [Attempts -> Requests \X Int]
    BY <1>1 DEF Shapes, Requests, NoRequest, None
  <2>7. knows' \in [Windows -> Int]
    BY <1>1 DEF Shapes, None
  <2> QED BY <2>1, <2>2, <2>3, <2>4, <2>5, <2>6, <2>7 DEF Shapes
<1>6. SessionCause' /\ (refreshing \subseteq authedConns)'
  BY <1>1, <1>2 DEF SessionCause, Shapes, NoSession, None, ConnInv, Authorised
<1>7. Reasons(c)'
  BY <1>1, <1>2 DEF ConnInv, Shapes, Reasons, Admitted, SessionCause, Ends, NoRequest
<1>8. Ends(c)' /\ Authorised(c)'
  BY <1>1, <1>2 DEF ConnInv, Shapes, Ends, Authorised, NoRequest
<1> QED BY <1>3, <1>4, <1>5, <1>6, <1>7, <1>8, OneConnection DEF ConnInv

LEMMA NoticesBreakKeeps == ASSUME LoginInv, NEW c \in Attempts, NoticesBreak(c) PROVE LoginInv'
<1> USE DEF NoticesBreak, Enter, EndsOnly, optionVars, sessionVars, loginConnVars, peerVars, causeVars
<1>1. Shapes
  BY DEF LoginInv
<1>2. ConnInv(c) /\ SessionCause /\ refreshing \subseteq authedConns
  BY DEF LoginInv
<1>3. Grows
  BY DEF Grows
<1>4. \A e \in Attempts : e # c => Same(e)
  BY <1>1 DEF Same, Shapes
<1>5. Shapes'
  BY <1>1 DEF Shapes, Steps, Screens, Requests, None, Wrong, Permanent, Unasked, NoRequest, NoSession
<1>6. SessionCause' /\ (refreshing \subseteq authedConns)'
  BY <1>1, <1>2 DEF SessionCause, Shapes, NoSession, None, ConnInv, Authorised
<1>7. Reasons(c)'
  BY <1>1, <1>2 DEF ConnInv, Shapes, Reasons, Admitted, SessionCause, Ends, NoRequest
<1>8. Ends(c)' /\ Authorised(c)'
  BY <1>1, <1>2 DEF ConnInv, Shapes, Ends, Authorised, NoRequest
<1> QED BY <1>3, <1>4, <1>5, <1>6, <1>7, <1>8, OneConnection DEF ConnInv

LEMMA RotateKeeps == ASSUME LoginInv, NEW c \in Attempts, Rotate(c) PROVE LoginInv'
<1> USE DEF Rotate, Enter, Gone, optionVars, sessionVars, loginConnVars, peerVars, causeVars
<1>1. Shapes
  BY DEF LoginInv
<1>2. ConnInv(c) /\ SessionCause /\ refreshing \subseteq authedConns
  BY DEF LoginInv
<1>3. Grows
  BY DEF Grows
<1>4. \A e \in Attempts : e # c => Same(e)
  BY <1>1 DEF Same, Shapes
<1>5. Shapes'
  <2>1. window' \in [Attempts -> Windows] /\ temporary' \in Int
    BY <1>1 DEF Shapes
  <2>2. session' \in [password : Int, tfa : BOOLEAN, old : BOOLEAN]
    BY <1>1 DEF Shapes, None, NoSession
  <2>3. step' \in [Attempts -> Steps] /\ screen' \in [Attempts -> Screens]
    BY <1>1 DEF Shapes, Steps, Screens
  <2>4. lr' \in [Attempts -> Int]
    BY <1>1 DEF Shapes, Unasked
  <2>5. require_2fa' \in [Attempts -> BOOLEAN]
    BY <1>1 DEF Shapes
  <2>6. request' \in [Attempts -> Requests \X Int]
    BY <1>1 DEF Shapes, Requests, NoRequest, None
  <2>7. knows' \in [Windows -> Int]
    BY <1>1 DEF Shapes, None
  <2> QED BY <2>1, <2>2, <2>3, <2>4, <2>5, <2>6, <2>7 DEF Shapes
<1>6. SessionCause' /\ (refreshing \subseteq authedConns)'
  BY <1>1, <1>2 DEF SessionCause, Shapes, NoSession, None, ConnInv, Authorised
<1>7. Reasons(c)'
  BY <1>1, <1>2 DEF ConnInv, Shapes, Reasons, Admitted, SessionCause, Ends, NoRequest
<1>8. Ends(c)' /\ Authorised(c)'
  BY <1>1, <1>2 DEF ConnInv, Shapes, Ends, Authorised, NoRequest
<1> QED BY <1>3, <1>4, <1>5, <1>6, <1>7, <1>8, OneConnection DEF ConnInv

LEMMA DropConnKeeps == ASSUME LoginInv, NEW c \in Attempts, DropConn(c) PROVE LoginInv'
<1> USE DEF DropConn, Enter, Gone, optionVars, sessionVars, loginConnVars, peerVars, causeVars
<1>1. Shapes
  BY DEF LoginInv
<1>2. ConnInv(c) /\ SessionCause /\ refreshing \subseteq authedConns
  BY DEF LoginInv
<1>3. Grows
  BY DEF Grows
<1>4. \A e \in Attempts : e # c => Same(e)
  BY <1>1 DEF Same, Shapes
<1>5. Shapes'
  BY <1>1 DEF Shapes, Steps, Screens, Requests, None, Wrong, Permanent, Unasked, NoRequest, NoSession
<1>6. SessionCause' /\ (refreshing \subseteq authedConns)'
  BY <1>1, <1>2 DEF SessionCause, Shapes, NoSession, None, ConnInv, Authorised
<1>7. Reasons(c)'
  BY <1>1, <1>2 DEF ConnInv, Shapes, Reasons, Admitted, SessionCause, Ends, NoRequest
<1>8. Ends(c)' /\ Authorised(c)'
  BY <1>1, <1>2 DEF ConnInv, Shapes, Ends, Authorised, NoRequest
<1> QED BY <1>3, <1>4, <1>5, <1>6, <1>7, <1>8, OneConnection DEF ConnInv

-----------------------------------------------------------------------------
(* The other steps, and all of them.                                       *)

LEMMA AgeKeeps ==
  ASSUME LoginInv, SessionAges \/ Refreshes
  PROVE  LoginInv'
<1> USE DEF SessionAges, Refreshes, optionVars, loginConnVars, peerVars, causeVars
<1>1. Shapes'
  <2>1. PICK b \in BOOLEAN : session' = [session EXCEPT !.old = b]
    OBVIOUS
  <2>2. session \in [password : Int, tfa : BOOLEAN, old : BOOLEAN]
    BY DEF LoginInv, Shapes
  <2>3. session' \in [password : Int, tfa : BOOLEAN, old : BOOLEAN]
    BY ONLY <2>1, <2>2
  <2> QED BY <2>3 DEF LoginInv, Shapes
<1>2. SessionCause' /\ (refreshing \subseteq authedConns)'
  BY DEF LoginInv, SessionCause, Shapes
<1>3. ASSUME NEW d \in Attempts PROVE ConnInv(d)'
  <2>1. ConnInv(d)
    BY DEF LoginInv
  <2>2. Same(d) /\ Grows
    BY DEF Same, Grows
  <2> QED BY <2>1, <2>2, Others
<1> QED BY <1>1, <1>2, <1>3 DEF LoginInv

LEMMA StaysKeeps ==
  ASSUME LoginInv, UNCHANGED loginVars
  PROVE  LoginInv'
<1> USE DEF loginVars, optionVars, sessionVars, loginConnVars, peerVars, causeVars
<1>1. Shapes' /\ SessionCause' /\ (refreshing \subseteq authedConns)'
  BY DEF LoginInv, Shapes, SessionCause
<1>2. ASSUME NEW d \in Attempts PROVE ConnInv(d)'
  <2>1. ConnInv(d) /\ Same(d) /\ Grows
    BY DEF LoginInv, Same, Grows
  <2> QED BY <2>1, Others
<1> QED BY <1>1, <1>2 DEF LoginInv

LEMMA InitHolds == LoginInit => LoginInv
<1> SUFFICES ASSUME LoginInit PROVE LoginInv
  OBVIOUS
<1>1. Shapes
  BY DEF LoginInit, Shapes, NoSession, NoRequest, None, Unasked, Requests, Steps, Screens
<1>2. SessionCause /\ refreshing \subseteq authedConns
  BY DEF LoginInit, SessionCause, NoSession, None
<1>3. ASSUME NEW c \in Attempts PROVE ConnInv(c)
  BY DEF LoginInit, ConnInv, Reasons, Ends, Authorised, NoRequest
<1> QED BY <1>1, <1>2, <1>3 DEF LoginInv

LEMMA StepKeeps == LoginInv /\ [LoginNext]_loginVars => LoginInv'
<1> SUFFICES ASSUME LoginInv, [LoginNext]_loginVars PROVE LoginInv'
  OBVIOUS
<1>1. ASSUME NEW c \in Attempts,
             Connect(c) \/ TypesPassword(c) \/ TypesCode(c) \/ Breaks(c) \/ ClosesWindow(c)
      PROVE  LoginInv'
  BY <1>1, ConnectKeeps, TypesPasswordKeeps, TypesCodeKeeps, BreaksKeeps, ClosesWindowKeeps
<1>2. ASSUME NEW c \in Attempts,
             HandleLogin(c) \/ Validate(c) \/ HandleCode(c) \/ Authorize(c)
      PROVE  LoginInv'
  BY <1>2, HandleLoginKeeps, ValidateKeeps, HandleCodeKeeps, AuthorizeKeeps
<1>3. ASSUME NEW c \in Attempts, Logon(c) \/ PushAuthed(c) \/ Attach(c)
      PROVE  LoginInv'
  BY <1>3, LogonKeeps, PushAuthedKeeps, AttachKeeps
<1>4. ASSUME NEW c \in Attempts,
             HandleClose(c) \/ ClosesForGood(c) \/ NoticesBreak(c) \/ Rotate(c) \/ DropConn(c)
      PROVE  LoginInv'
  BY <1>4, HandleCloseKeeps, ClosesForGoodKeeps, NoticesBreakKeeps, RotateKeeps, DropConnKeeps
<1>5. CASE SessionAges \/ Refreshes
  BY <1>5, AgeKeeps
<1>6. CASE NobodyComes \/ UNCHANGED loginVars
  BY <1>6, StaysKeeps DEF NobodyComes
<1> QED BY <1>1, <1>2, <1>3, <1>4, <1>5, <1>6 DEF LoginNext

\* What the handlers of a login rely on.
THEOREM LoginInvariance == LoginSpec => []LoginInv
BY InitHolds, StepKeeps, PTL DEF LoginSpec

-----------------------------------------------------------------------------
(* Only send_logon_response lets a connection in.                          *)

LEMMA OnlyLogonLetsIn ==
  ASSUME LoginInv, LoginNext, NEW c \in Attempts, step[c] = "logon", step'[c] = "push"
  PROVE  Logon(c)
<1> USE DEF Enter, loginConnVars, ServerKeeps
<1>0. step \in [Attempts -> Steps]
  BY DEF LoginInv, Shapes
<1>1. ASSUME NEW d \in Attempts,
             Connect(d) \/ TypesPassword(d) \/ TypesCode(d) \/ Breaks(d) \/ ClosesWindow(d)
      PROVE  FALSE
  BY <1>0, <1>1 DEF Connect, TypesPassword, TypesCode, Breaks, ClosesWindow
<1>2. ASSUME NEW d \in Attempts, HandleLogin(d) PROVE FALSE
  BY <1>0, <1>2 DEF HandleLogin
<1>3. ASSUME NEW d \in Attempts, Validate(d) PROVE FALSE
  BY <1>0, <1>3 DEF Validate
<1>4. ASSUME NEW d \in Attempts, HandleCode(d) PROVE FALSE
  BY <1>0, <1>4 DEF HandleCode
<1>5. ASSUME NEW d \in Attempts, Authorize(d) PROVE FALSE
  BY <1>0, <1>5 DEF Authorize
<1>6. ASSUME NEW d \in Attempts, Logon(d) PROVE d = c
  BY <1>0, <1>6 DEF Logon
<1>7. ASSUME NEW d \in Attempts, PushAuthed(d) \/ Attach(d) PROVE FALSE
  BY <1>0, <1>7 DEF PushAuthed, Attach
<1>8. ASSUME NEW d \in Attempts, HandleClose(d) \/ ClosesForGood(d) \/ NoticesBreak(d)
      PROVE  FALSE
  BY <1>0, <1>8 DEF HandleClose, ClosesForGood, NoticesBreak
<1>9. ASSUME NEW d \in Attempts, Rotate(d) \/ DropConn(d) PROVE FALSE
  BY <1>0, <1>9 DEF Rotate, DropConn, Gone
<1>10. CASE SessionAges \/ Refreshes \/ NobodyComes
  BY <1>10 DEF SessionAges, Refreshes, NobodyComes, loginVars
<1> QED BY <1>1, <1>2, <1>3, <1>4, <1>5, <1>6, <1>7, <1>8, <1>9, <1>10 DEF LoginNext

\* Nobody is let in without a reason (handle_login_request.., send_logon_response,
\* on_message), for any number of connections.
THEOREM LetInOnlyForCause == LoginSpec => LetInForCause
<1> DEFINE LetIn ==
      \A c \in Attempts : step[c] = "logon" /\ step'[c] = "push" =>
        \/ c \in clicked \/ c \in coded
        \/ /\ lr[c] \in validated
           /\ twofa => trusted \/ (codeSince /\ Retained # NoSession)
<1>1. ASSUME LoginInv, LoginNext PROVE LetIn
  <2> SUFFICES ASSUME NEW c \in Attempts, step[c] = "logon", step'[c] = "push"
               PROVE  \/ c \in clicked \/ c \in coded
                      \/ /\ lr[c] \in validated
                         /\ twofa => trusted \/ (codeSince /\ Retained # NoSession)
    OBVIOUS
  <2>1. Logon(c)
    BY <1>1, OnlyLogonLetsIn
  <2>2. ~require_2fa[c] \/ Retained.tfa
    <3>1. step \in [Attempts -> Steps]
      BY <1>1 DEF LoginInv, Shapes
    <3> QED BY <2>1, <3>1 DEF Logon, Enter, TfaGiven
  <2>3. Retained.tfa => codeSince /\ Retained # NoSession
    BY <1>1 DEF LoginInv, SessionCause, Retained, NoSession
  <2>4. Reasons(c)
    BY <1>1 DEF LoginInv, ConnInv
  <2> QED BY <2>2, <2>3, <2>4 DEF Reasons, Admitted
<1>2. LoginInv /\ [LoginNext]_loginVars => [LetIn]_loginVars
  BY <1>1
<1> QED BY <1>2, LoginInvariance, PTL DEF LoginSpec, LetInForCause

-----------------------------------------------------------------------------
(* What ends a session.                                                    *)

\* A desktop connection of the session ends.
DesktopEnds == \E k \in Desktop : step[k] = "on" /\ step'[k] = "end"

\* check_remove_session, when k is closed for good: no connection that refreshes
\* the session is left over, unless it is the end of a desktop.
LEMMA RemovedByDesktop ==
  ASSUME LoginInv, NEW k \in Attempts, NEW c \in Desktop \cap refreshing, step[c] = "on",
         step[k] \in {"wait", "on"}, step'[k] = "end", CheckRemove(k)
  PROVE  c \in refreshing' \/ DesktopEnds
<1>1. c \in authedConns /\ c \in Attempts
  BY DEF LoginInv, Desktop
<1>2. k \in authedConns => step[k] = "on"
  BY DEF LoginInv, ConnInv, Authorised
<1>3. CASE UNCHANGED sessionVars
  BY <1>3 DEF sessionVars
<1>4. CASE k \in authedConns \cap Desktop
  BY <1>2, <1>4 DEF DesktopEnds
<1>5. CASE KeptFor(k) = {}
  <2>1. c = k
    BY <1>1, <1>5 DEF KeptFor
  <2> QED BY <2>1 DEF DesktopEnds
<1> QED BY <1>3, <1>4, <1>5 DEF CheckRemove

LEMMA RefreshingGoesOn ==
  ASSUME LoginInv, LoginNext, NEW c \in Desktop \cap refreshing, step[c] = "on", ~session.old
  PROVE  c \in refreshing' \/ DesktopEnds
<1> USE DEF sessionVars, ServerKeeps
<1>0. step \in [Attempts -> Steps]
  BY DEF LoginInv, Shapes
<1>1. ASSUME NEW k \in Attempts,
             Connect(k) \/ TypesPassword(k) \/ TypesCode(k) \/ Breaks(k) \/ ClosesWindow(k)
      PROVE  c \in refreshing'
  BY <1>1 DEF Connect, TypesPassword, TypesCode, Breaks, ClosesWindow
<1>2. ASSUME NEW k \in Attempts, HandleLogin(k) \/ Logon(k)
      PROVE  c \in refreshing'
  BY <1>2 DEF HandleLogin, Logon, DropOld
<1>3. ASSUME NEW k \in Attempts, Validate(k) \/ HandleCode(k) \/ Authorize(k)
      PROVE  c \in refreshing'
  BY <1>3 DEF Validate, HandleCode, Authorize, Updated
<1>4. ASSUME NEW k \in Attempts, PushAuthed(k) \/ Attach(k)
      PROVE  c \in refreshing'
  BY <1>4 DEF PushAuthed, Attach
<1>5. ASSUME NEW k \in Attempts, HandleClose(k) \/ ClosesForGood(k)
      PROVE  c \in refreshing' \/ DesktopEnds
  <2>1. step[k] \in {"wait", "on"} /\ step'[k] = "end" /\ CheckRemove(k)
    BY <1>0, <1>5 DEF HandleClose, ClosesForGood, Enter
  <2> QED BY <2>1, RemovedByDesktop
<1>6. ASSUME NEW k \in Attempts, NoticesBreak(k) \/ Rotate(k)
      PROVE  c \in refreshing'
  BY <1>6 DEF NoticesBreak, Rotate
<1>7. ASSUME NEW k \in Attempts, DropConn(k)
      PROVE  c \in refreshing'
  BY <1>7 DEF DropConn
<1>8. CASE SessionAges \/ Refreshes \/ NobodyComes
  BY <1>8 DEF SessionAges, Refreshes, NobodyComes, loginVars
<1> QED BY <1>1, <1>2, <1>3, <1>4, <1>5, <1>6, <1>7, <1>8 DEF LoginNext

\* A desktop that is there keeps its session (check_remove_session, retain), for
\* any number of connections.
THEOREM DesktopKeepsSession == LoginSpec => SessionKept
<1> DEFINE Kept ==
      \A c \in Desktop \cap refreshing :
        step[c] = "on" /\ Open(c) /\ ~session.old =>
          c \in refreshing' \/ \E k \in Desktop : step[k] = "on" /\ step'[k] = "end"
<1>1. LoginInv /\ [LoginNext]_loginVars => [Kept]_loginVars
  BY RefreshingGoesOn DEF DesktopEnds
<1> QED BY <1>1, LoginInvariance, PTL DEF LoginSpec, SessionKept
-----------------------------------------------------------------------------
(* The types: the temporary password changes once per connection at most.  *)

\* The connections that may have changed the temporary password.
Spent == {c \in Attempts : step[c] \in {"drop", "gone"}}

Counted == temporary \in Nat \ {0} /\ temporary <= Cardinality(Spent) + 1

LEMMA SpentFinite ==
  /\ IsFiniteSet(Spent) /\ Cardinality(Spent) \in Nat
  /\ Cardinality(Attempts) \in Nat /\ Cardinality(Spent) <= Cardinality(Attempts)
BY LoginAssumption, FS_Subset, FS_CardinalityType DEF Spent

LEMMA CountedTyped == ASSUME Counted PROVE temporary \in Temporary
BY SpentFinite DEF Counted, Temporary

LEMMA SecretsThereAre ==
  /\ None \in Secrets /\ Permanent \in Secrets /\ Wrong \in Secrets
  /\ \A t \in Temporary : t \in Secrets /\ t # None
BY DEF Secrets, Temporary, None

\* A step of a connection that does not change the password.
LEMMA CountedOnward ==
  ASSUME Counted, temporary' = temporary, Spent \subseteq Spent',
         IsFiniteSet(Spent'), Cardinality(Spent') \in Nat
  PROVE  Counted'
<1>1. Cardinality(Spent) <= Cardinality(Spent')
  BY FS_Subset
<1> QED BY <1>1, SpentFinite DEF Counted

LEMMA SpentFiniteNext == IsFiniteSet(Spent') /\ Cardinality(Spent') \in Nat
BY LoginAssumption, FS_Subset, FS_CardinalityType DEF Spent

LEMMA StepCounts ==
  ASSUME LoginInv, Counted, [LoginNext]_loginVars
  PROVE  Counted'
<1> USE DEF Enter, LoginInv, Shapes, optionVars, sessionVars, loginConnVars, peerVars, causeVars
<1>1. ASSUME NEW c \in Attempts, Rotate(c) PROVE Counted'
  <2>1. CASE c \notin authedConns
    <3>1. temporary' = temporary /\ Spent \subseteq Spent'
      BY <1>1, <2>1 DEF Rotate, Gone, Spent
    <3> QED BY <3>1, CountedOnward, SpentFiniteNext
  <2>2. CASE c \in authedConns
    <3>1. temporary' = temporary + 1 /\ c \notin Spent /\ Spent' = Spent \cup {c}
      BY <1>1, <2>2 DEF Rotate, Gone, Spent
    <3>2. Cardinality(Spent') = Cardinality(Spent) + 1
      BY <3>1, SpentFinite, FS_AddElement
    <3> QED BY <3>1, <3>2, SpentFinite DEF Counted
  <2> QED BY <2>1, <2>2
<1>2. ASSUME NEW c \in Attempts, DropConn(c) PROVE Counted'
  <2>1. temporary' = temporary /\ Spent \subseteq Spent'
    BY <1>2 DEF DropConn, Gone, Spent
  <2> QED BY <2>1, CountedOnward, SpentFiniteNext
<1>3. ASSUME NEW c \in Attempts,
             Connect(c) \/ TypesPassword(c) \/ TypesCode(c) \/ Breaks(c) \/ ClosesWindow(c)
      PROVE  Counted'
  <2>1. temporary' = temporary /\ Spent \subseteq Spent'
    BY <1>3 DEF Connect, TypesPassword, TypesCode, Breaks, ClosesWindow, ServerKeeps, Spent
  <2> QED BY <2>1, CountedOnward, SpentFiniteNext
<1>4. ASSUME NEW c \in Attempts, HandleLogin(c) \/ Validate(c) \/ HandleCode(c) \/ Authorize(c)
      PROVE  Counted'
  <2>1. temporary' = temporary /\ Spent \subseteq Spent'
    BY <1>4 DEF HandleLogin, Validate, HandleCode, Authorize, Spent
  <2> QED BY <2>1, CountedOnward, SpentFiniteNext
<1>5. ASSUME NEW c \in Attempts, Logon(c) \/ PushAuthed(c) \/ Attach(c)
      PROVE  Counted'
  <2>1. temporary' = temporary /\ Spent \subseteq Spent'
    BY <1>5 DEF Logon, PushAuthed, Attach, Spent
  <2> QED BY <2>1, CountedOnward, SpentFiniteNext
<1>6. ASSUME NEW c \in Attempts, HandleClose(c) \/ ClosesForGood(c) \/ NoticesBreak(c)
      PROVE  Counted'
  <2>1. temporary' = temporary /\ Spent \subseteq Spent'
    BY <1>6 DEF HandleClose, ClosesForGood, NoticesBreak, EndsOnly, Spent
  <2> QED BY <2>1, CountedOnward, SpentFiniteNext
<1>7. CASE SessionAges \/ Refreshes \/ NobodyComes \/ UNCHANGED loginVars
  <2>1. temporary' = temporary /\ Spent \subseteq Spent'
    BY <1>7 DEF SessionAges, Refreshes, NobodyComes, loginVars, Spent
  <2> QED BY <2>1, CountedOnward, SpentFiniteNext
<1> QED BY <1>1, <1>2, <1>3, <1>4, <1>5, <1>6, <1>7 DEF LoginNext
-----------------------------------------------------------------------------
(* The session and who refreshes it.                                       *)

SessionType == [password : Temporary \cup {None}, tfa : BOOLEAN, old : BOOLEAN]

\* An entry that is too old is an entry, and one that is refreshed, too.
SessionTyped ==
  /\ session \in SessionType
  /\ session = NoSession => refreshing = {}
  /\ session.old => session.password # None \/ session.tfa

LEMMA NoSessionThere == NoSession \in SessionType /\ ~NoSession.old
BY DEF NoSession, SessionType

\* Of an entry, exactly the one that is nothing is NoSession.
LEMMA SessionThere ==
  ASSUME NEW s \in SessionType
  PROVE  s = NoSession <=> s.password = None /\ ~s.tfa /\ ~s.old
BY DEF SessionType, NoSession

LEMMA DropOldTyped == ASSUME SessionTyped, DropOld PROVE SessionTyped'
BY NoSessionThere DEF SessionTyped, DropOld, Retained

LEMMA CheckRemoveTyped ==
  ASSUME SessionTyped, NEW c, CheckRemove(c) PROVE SessionTyped'
BY NoSessionThere DEF SessionTyped, CheckRemove, sessionVars

LEMMA UpdatedTyped ==
  ASSUME SessionTyped, NEW password \in Temporary \cup {None}, NEW tfa \in BOOLEAN,
         password # None \/ tfa, Updated(password, tfa)
  PROVE  SessionTyped'
<1>1. session' \in SessionType /\ session'.password = password /\ session'.tfa = tfa
  BY DEF SessionTyped, SessionType, Updated
<1>2. session' # NoSession
  BY <1>1, SessionThere
<1> QED BY <1>1, <1>2 DEF SessionTyped, Updated

LEMMA StepSession ==
  ASSUME SessionTyped, Counted, [LoginNext]_loginVars
  PROVE  SessionTyped'
<1>1. ASSUME NEW c \in Attempts, \/ Connect(c) \/ TypesPassword(c) \/ TypesCode(c)
                                 \/ Breaks(c) \/ ClosesWindow(c) \/ Authorize(c)
                                 \/ PushAuthed(c) \/ NoticesBreak(c) \/ Rotate(c)
      PROVE  SessionTyped'
  <2>1. UNCHANGED sessionVars
    BY <1>1 DEF Connect, TypesPassword, TypesCode, Breaks, ClosesWindow, Authorize, PushAuthed,
       NoticesBreak, Rotate, ServerKeeps
  <2> QED BY <2>1 DEF sessionVars, SessionTyped
<1>2. ASSUME NEW c \in Attempts, HandleLogin(c) \/ Logon(c)
      PROVE  SessionTyped'
  <2>1. DropOld \/ UNCHANGED sessionVars
    BY <1>2 DEF HandleLogin, Logon
  <2> QED BY <2>1, DropOldTyped DEF sessionVars, SessionTyped
<1>3. ASSUME NEW c \in Attempts, Validate(c)
      PROVE  SessionTyped'
  <2>1. CASE UNCHANGED sessionVars
    BY <2>1 DEF sessionVars, SessionTyped
  <2>2. CASE lr[c] = temporary /\ Updated(lr[c], FALSE)
    <3>1. temporary \in Temporary /\ temporary # None
      BY CountedTyped, SecretsThereAre
    <3> QED BY <2>2, <3>1, UpdatedTyped
  <2> QED BY <1>3, <2>1, <2>2 DEF Validate, TfaOfNew
<1>4. ASSUME NEW c \in Attempts, HandleCode(c)
      PROVE  SessionTyped'
  <2>1. CASE UNCHANGED sessionVars
    BY <2>1 DEF sessionVars, SessionTyped
  <2>2. CASE Updated(session.password, TRUE)
    <3>1. session.password \in Temporary \cup {None}
      BY DEF SessionTyped, SessionType
    <3> QED BY <2>2, <3>1, UpdatedTyped
  <2> QED BY <1>4, <2>1, <2>2 DEF HandleCode
<1>5. ASSUME NEW c \in Attempts, HandleClose(c) \/ ClosesForGood(c)
      PROVE  SessionTyped'
  BY <1>5, CheckRemoveTyped DEF HandleClose, ClosesForGood
<1>6. ASSUME NEW c \in Attempts, Attach(c) \/ DropConn(c)
      PROVE  SessionTyped'
  BY <1>6 DEF Attach, DropConn, SessionTyped
<1>7. CASE SessionAges
  <2>1. session' = [session EXCEPT !.old = TRUE] /\ session # NoSession /\ ~session.old
    BY <1>7 DEF SessionAges
  <2>2. session.password # None \/ session.tfa
    BY <2>1, SessionThere DEF SessionTyped
  <2>3. session' \in SessionType /\ session'.password = session.password /\ session'.tfa = session.tfa
    BY <2>1 DEF SessionTyped, SessionType
  <2> QED BY <2>2, <2>3, SessionThere DEF SessionTyped
<1>8. CASE Refreshes
  <2>1. session' = [session EXCEPT !.old = FALSE] /\ session.old
    BY <1>8 DEF Refreshes
  <2>2. session.password # None \/ session.tfa
    BY <2>1 DEF SessionTyped
  <2>3. session' \in SessionType /\ session'.password = session.password /\ session'.tfa = session.tfa
    BY <2>1 DEF SessionTyped, SessionType
  <2> QED BY <2>2, <2>3, SessionThere DEF SessionTyped
<1>9. CASE NobodyComes \/ UNCHANGED loginVars
  BY <1>9 DEF NobodyComes, loginVars, sessionVars, SessionTyped
<1> QED BY <1>1, <1>2, <1>3, <1>4, <1>5, <1>6, <1>7, <1>8, <1>9 DEF LoginNext

-----------------------------------------------------------------------------
(* The rest of the types.                                                  *)

\* What a connection and its peer have ...
PeerTyped ==
  /\ request \in [Attempts -> Requests \X Secrets]
  /\ lr \in [Attempts -> Secrets \cup {Unasked}]
  /\ require_2fa \in [Attempts -> BOOLEAN] /\ cmShown \in [Attempts -> BOOLEAN]
  /\ knows \in [Windows -> Secrets]

\* ... and what is known of all of them.
ListsTyped ==
  /\ approve_mode \in {"click", "both"} /\ twofa \in BOOLEAN
  /\ trusted \in BOOLEAN /\ codeSince \in BOOLEAN
  /\ authedConns \subseteq Attempts
  /\ \A c \in Attempts : step[c] \in {"attach", "on", "drop"} => c \in authedConns
  /\ clicked \subseteq Attempts /\ coded \subseteq Attempts
  /\ validated \subseteq Secrets

LEMMA RequestTyped ==
  ASSUME PeerTyped, NEW c \in Attempts, NEW kind \in Requests, NEW secret \in Secrets
  PROVE  [request EXCEPT ![c] = <<kind, secret>>] \in [Attempts -> Requests \X Secrets]
BY DEF PeerTyped

LEMMA TakenTyped ==
  ASSUME PeerTyped, NEW c \in Attempts, Taken(c)
  PROVE  request' \in [Attempts -> Requests \X Secrets]
BY RequestTyped, SecretsThereAre DEF Taken, NoRequest, Requests

LEMMA TypedByPeer ==
  ASSUME LoginInv, PeerTyped, Counted, NEW c \in Attempts,
         Connect(c) \/ TypesPassword(c) \/ TypesCode(c) \/ Breaks(c) \/ ClosesWindow(c)
  PROVE  PeerTyped'
<1> USE DEF Ask
<1>0. window[c] \in Windows
  BY DEF LoginInv, Shapes
<1>1. UNCHANGED <<lr, require_2fa, cmShown>>
  BY DEF Connect, TypesPassword, TypesCode, Breaks, ClosesWindow, ServerKeeps, loginConnVars
<1>2. CASE Connect(c)
  <2>1. knows[window[c]] \in Secrets
    BY <1>0 DEF PeerTyped
  <2>2. request' \in [Attempts -> Requests \X Secrets]
    BY <1>2, <2>1, RequestTyped DEF Connect, Requests
  <2> QED BY <1>1, <1>2, <2>2 DEF Connect, PeerTyped
<1>3. CASE TypesPassword(c)
  <2>1. PICK secret \in {temporary, Permanent} :
          Ask(c, "login", secret) /\ knows' = [knows EXCEPT ![window[c]] = secret]
    BY <1>3 DEF TypesPassword
  <2>2. secret \in Secrets
    BY CountedTyped, SecretsThereAre
  <2>3. request' \in [Attempts -> Requests \X Secrets]
    BY <2>1, <2>2, RequestTyped DEF Requests
  <2> QED BY <1>0, <1>1, <2>1, <2>2, <2>3 DEF PeerTyped
<1>4. CASE TypesCode(c)
  <2>1. request' \in [Attempts -> Requests \X Secrets]
    BY <1>4, RequestTyped, SecretsThereAre DEF TypesCode, Requests
  <2> QED BY <1>1, <1>4, <2>1 DEF TypesCode, PeerTyped
<1>5. CASE Breaks(c) \/ ClosesWindow(c)
  <2>1. \E kind \in Requests : request' = [request EXCEPT ![c] = <<kind, None>>]
    BY <1>5 DEF Breaks, ClosesWindow, NoRequest, Requests
  <2>2. request' \in [Attempts -> Requests \X Secrets]
    BY <2>1, RequestTyped, SecretsThereAre
  <2> QED BY <1>1, <1>5, <2>2 DEF Breaks, ClosesWindow, PeerTyped
<1> QED BY <1>2, <1>3, <1>4, <1>5

LEMMA TypedByLogin ==
  ASSUME LoginInv, PeerTyped, NEW c \in Attempts,
         \/ HandleLogin(c) \/ Validate(c) \/ HandleCode(c) \/ Authorize(c)
         \/ Logon(c) \/ PushAuthed(c) \/ Attach(c)
  PROVE  PeerTyped'
<1> USE DEF peerVars
<1>0. window[c] \in Windows
  BY DEF LoginInv, Shapes
<1>1. CASE HandleLogin(c)
  <2>1. request' \in [Attempts -> Requests \X Secrets]
    BY <1>1, TakenTyped DEF HandleLogin
  <2>2. lr' \in [Attempts -> Secrets \cup {Unasked}]
    BY <1>1 DEF HandleLogin, PeerTyped
  <2>3. /\ require_2fa' \in [Attempts -> BOOLEAN] /\ UNCHANGED knows
        /\ cmShown' \in [Attempts -> BOOLEAN]
    BY <1>1 DEF HandleLogin, ShowInCm, PeerTyped
  <2> QED BY <2>1, <2>2, <2>3 DEF PeerTyped
<1>2. CASE Validate(c)
  <2>1. cmShown' \in [Attempts -> BOOLEAN] /\ UNCHANGED <<request, lr, require_2fa>>
    BY <1>2 DEF Validate, ShowInCm, PeerTyped
  <2>2. knows' = knows \/ knows' = [knows EXCEPT ![window[c]] = None]
    BY <1>2 DEF Validate
  <2>3. knows' \in [Windows -> Secrets]
    BY <1>0, <2>2, SecretsThereAre DEF PeerTyped
  <2> QED BY <2>1, <2>3 DEF PeerTyped
<1>3. CASE HandleCode(c)
  <2>1. request' \in [Attempts -> Requests \X Secrets]
    BY <1>3, TakenTyped DEF HandleCode
  <2>2. require_2fa' \in [Attempts -> BOOLEAN] /\ UNCHANGED <<lr, cmShown, knows>>
    BY <1>3 DEF HandleCode, Without2fa, PeerTyped
  <2> QED BY <2>1, <2>2 DEF PeerTyped
<1>4. CASE Authorize(c) \/ Logon(c)
  <2>1. /\ require_2fa' \in [Attempts -> BOOLEAN] /\ cmShown' \in [Attempts -> BOOLEAN]
        /\ UNCHANGED <<request, lr, knows>>
    BY <1>4 DEF Authorize, Logon, Without2fa, ShowInCm, PeerTyped
  <2> QED BY <2>1 DEF PeerTyped
<1>5. CASE PushAuthed(c) \/ Attach(c)
  <2>1. cmShown' \in [Attempts -> BOOLEAN] /\ UNCHANGED <<request, lr, knows, require_2fa>>
    BY <1>5 DEF PushAuthed, Attach, ShowInCm, PeerTyped
  <2> QED BY <2>1 DEF PeerTyped
<1> QED BY <1>1, <1>2, <1>3, <1>4, <1>5

LEMMA TypedByEnd ==
  ASSUME PeerTyped, NEW c \in Attempts,
         HandleClose(c) \/ ClosesForGood(c) \/ NoticesBreak(c) \/ Rotate(c) \/ DropConn(c)
  PROVE  PeerTyped'
<1> USE DEF peerVars
<1>1. CASE HandleClose(c) \/ ClosesForGood(c)
  <2>1. request' \in [Attempts -> Requests \X Secrets]
    BY <1>1, TakenTyped DEF HandleClose, ClosesForGood
  <2> QED BY <1>1, <2>1 DEF HandleClose, ClosesForGood, EndsOnly, PeerTyped
<1>2. CASE NoticesBreak(c)
  BY <1>2 DEF NoticesBreak, EndsOnly, PeerTyped
<1>3. CASE Rotate(c) \/ DropConn(c)
  <2>1. /\ lr' \in [Attempts -> Secrets \cup {Unasked}]
        /\ require_2fa' \in [Attempts -> BOOLEAN] /\ cmShown' \in [Attempts -> BOOLEAN]
    BY <1>3 DEF Rotate, DropConn, Gone, PeerTyped
  <2> QED BY <1>3, <2>1 DEF Rotate, DropConn, PeerTyped
<1> QED BY <1>1, <1>2, <1>3

LEMMA StepLists ==
  ASSUME LoginInv, PeerTyped, ListsTyped, Counted, [LoginNext]_loginVars
  PROVE  ListsTyped'
<1> USE DEF Enter, LoginInv, Shapes, ListsTyped, optionVars, causeVars, loginConnVars
<1>1. ASSUME NEW c \in Attempts,
             Connect(c) \/ TypesPassword(c) \/ TypesCode(c) \/ Breaks(c) \/ ClosesWindow(c)
      PROVE  ListsTyped'
  BY <1>1 DEF Connect, TypesPassword, TypesCode, Breaks, ClosesWindow, ServerKeeps
<1>2. ASSUME NEW c \in Attempts, HandleLogin(c) PROVE ListsTyped'
  BY <1>2 DEF HandleLogin
<1>3. ASSUME NEW c \in Attempts, Validate(c) PROVE ListsTyped'
  <2>1. temporary \in Secrets /\ Permanent \in Secrets
    BY CountedTyped, SecretsThereAre
  <2>2. validated' \subseteq Secrets /\ codeSince' \in BOOLEAN
    BY <1>3, <2>1 DEF Validate
  <2>3. step' \in [Attempts -> Steps] /\ step'[c] \in {"logon", "wait"}
    BY <1>3 DEF Validate, Steps
  <2>4. \A d \in Attempts : d # c => step'[d] = step[d]
    BY <1>3 DEF Validate
  <2>5. UNCHANGED <<approve_mode, twofa, trusted, authedConns, clicked, coded>>
    BY <1>3 DEF Validate
  <2> QED BY <2>2, <2>3, <2>4, <2>5
<1>4. ASSUME NEW c \in Attempts, HandleCode(c) PROVE ListsTyped'
  BY <1>4 DEF HandleCode
<1>5. ASSUME NEW c \in Attempts, Authorize(c) \/ Logon(c) \/ PushAuthed(c) \/ Attach(c)
      PROVE  ListsTyped'
  BY <1>5 DEF Authorize, Logon, PushAuthed, Attach
<1>6. ASSUME NEW c \in Attempts, HandleClose(c) \/ ClosesForGood(c) \/ NoticesBreak(c)
      PROVE  ListsTyped'
  BY <1>6 DEF HandleClose, ClosesForGood, NoticesBreak, EndsOnly
<1>7. ASSUME NEW c \in Attempts, Rotate(c) \/ DropConn(c)
      PROVE  ListsTyped'
  BY <1>7 DEF Rotate, DropConn, Gone
<1>8. CASE SessionAges \/ Refreshes \/ NobodyComes \/ UNCHANGED loginVars
  BY <1>8 DEF SessionAges, Refreshes, NobodyComes, loginVars
<1> QED BY <1>1, <1>2, <1>3, <1>4, <1>5, <1>6, <1>7, <1>8 DEF LoginNext

\* The variables of the logins keep their types: the password changes at most once
\* per connection, nobody refreshes a session that is not there, and a connection
\* past its login is in AUTHED_CONNS until its guard is dropped.
THEOREM LoginTypes == LoginSpec => []LoginTypeOK
<1> DEFINE Typed == Counted /\ SessionTyped /\ PeerTyped /\ ListsTyped
<1>1. LoginInit => Typed
  <2> SUFFICES ASSUME LoginInit PROVE Typed
    OBVIOUS
  <2>1. Counted
    BY SpentFinite DEF LoginInit, Counted
  <2>2. SessionTyped
    BY NoSessionThere DEF LoginInit, SessionTyped
  <2>3. PeerTyped
    BY SecretsThereAre DEF LoginInit, PeerTyped, NoRequest, Requests
  <2>4. ListsTyped
    BY DEF LoginInit, ListsTyped
  <2> QED BY <2>1, <2>2, <2>3, <2>4
<1>2. LoginInv /\ Typed /\ [LoginNext]_loginVars => Typed'
  <2> SUFFICES ASSUME LoginInv, Typed, [LoginNext]_loginVars PROVE Typed'
    OBVIOUS
  <2>1. Counted' /\ SessionTyped' /\ ListsTyped'
    BY StepCounts, StepSession, StepLists
  <2>2. PeerTyped'
    <3>1. CASE SessionAges \/ Refreshes \/ NobodyComes \/ UNCHANGED loginVars
      BY <3>1 DEF SessionAges, Refreshes, NobodyComes, loginVars, loginConnVars, peerVars, PeerTyped
    <3> QED BY <3>1, TypedByPeer, TypedByLogin, TypedByEnd DEF LoginNext
  <2> QED BY <2>1, <2>2
<1>3. LoginInv /\ Typed => LoginTypeOK
  <2> SUFFICES ASSUME LoginInv, Typed PROVE LoginTypeOK
    OBVIOUS
  <2>1. temporary \in Temporary
    BY CountedTyped
  <2> QED BY <2>1 DEF LoginInv, Shapes, SessionTyped, SessionType, PeerTyped, Requests,
          ListsTyped, LoginTypeOK
<1> QED BY <1>1, <1>2, <1>3, LoginInvariance, PTL DEF LoginSpec

-----------------------------------------------------------------------------
(* The parts together.                                                     *)

\* The parts of MCConnection run by themselves: each of its behaviours is one of
\* every part, and the parts that keep still stutter.
LEMMA ConnectionPartsRunAlone == ConnectionSpec => PermissionsSpec /\ AuthedSpec /\ LoginSpec
<1>1. ConnectionInit => PermissionsInit /\ AuthedInit /\ LoginInit
  BY DEF ConnectionInit
<1>2. [ConnectionNext]_connectionVars => [PermissionsNext]_permissionVars
  BY DEF ConnectionNext, connectionVars
<1>3. [ConnectionNext]_connectionVars => [AuthedNext]_authedVars
  BY DEF ConnectionNext, connectionVars
<1>4. [ConnectionNext]_connectionVars => [LoginNext]_loginVars
  BY DEF ConnectionNext, connectionVars
<1> QED BY <1>1, <1>2, <1>3, <1>4, PTL DEF ConnectionSpec, PermissionsSpec, AuthedSpec, LoginSpec

\* What the run `connection' checks of the types of all parts of a connection
\* (server/connection.rs).
THEOREM ConnectionTypes == ConnectionSpec => []ConnectionTypeOK
<1>1. PermissionsSpec => []PermissionsTypeOK
  <2>1. PermissionsInv => PermissionsTypeOK
    BY DEF PermissionsInv
  <2> QED BY <2>1, PermissionsInvariance, PTL
<1>2. PermissionsTypeOK /\ AuthedTypeOK /\ LoginTypeOK => ConnectionTypeOK
  BY DEF ConnectionTypeOK
<1> QED BY <1>1, <1>2, ConnectionPartsRunAlone, AuthedTypes, LoginTypes, PTL

\* Whatever part runs, the services follow permissions and options, the machine is
\* left as it was found, nobody is let in without cause and sessions are kept.
THEOREM ConnectionPromises ==
  ConnectionSpec =>
    /\ []ExactlyWhenAllowed /\ []SentWithGrant
    /\ []WakeLockFollows /\ []LeftAsFound /\ []UsersAreAuthed
    /\ LetInForCause /\ SessionKept
BY ConnectionPartsRunAlone, ExactlyWhenAllowedAlways, SentWithGrantAlways,
   WakeLockAlwaysFollows, AlwaysLeftAsFound,
   UsersAlwaysAuthed, LetInOnlyForCause, DesktopKeepsSession, PTL
=============================================================================
