------------------------------- MODULE Login -------------------------------
(***************************************************************************)
(* server/connection.rs: how a connection is let in.  A peer has a desktop *)
(* window and others (file transfer) on the same session key; each takes   *)
(* up its connection anew when it breaks.  The temporary password changes  *)
(* whenever an authorised connection ends, so SESSIONS keeps the one the   *)
(* peer gave, for as long as a connection refreshes it and half a minute   *)
(* more, and whether a second factor was given with it.                    *)
(*                                                                         *)
(* The peer is that of client.rs (handle_hash, handle_login_error,         *)
(* handle_login_from_ui, send2fa): each connection begins with a login.    *)
(* Its user gives, when he is asked for it, a right password, which may be *)
(* an old one when it arrives, and at any time a code, right or wrong:     *)
(* send2fa does not ask what the window shows, nor Auth2fa whether a       *)
(* password was right.  SESSIONS and AUTHED_CONNS are locked anew for each *)
(* step of a login.  Both kinds of password are enabled; the approval by password  *)
(* differs from that by both in nothing that is modelled.  Refusals that   *)
(* do not depend on sessions (permissions, too many failures, a desktop    *)
(* that is not ready) just end the connection.                             *)
(***************************************************************************)
EXTENDS Integers, FiniteSets

CONSTANT
  Attempts       \* connections of the peer, each made once

ASSUME LoginAssumption == IsFiniteSet(Attempts)

VARIABLES
  window,        \* the window a connection is made for
  approve_mode, twofa,  \* options
  temporary,     \* temporary_password()
  session,       \* the entry of SESSIONS for the peer
  refreshing,    \* whose session_last_recv_time is that of the entry
  trusted,       \* the device is a trusted one
  authedConns,   \* AUTHED_CONNS
  step,          \* where a connection is
  lr,            \* the password of Connection.lr, or Unasked
  require_2fa,
  cmShown,       \* the connection manager shows the connection
  request,       \* what the peer has sent and the connection not handled
  screen,        \* what the peer's window shows
  knows,         \* LoginConfigHandler.password of the two windows
  clicked, coded, validated,   \* why somebody is let in (history)
  codeSince      \* a code was right since a temporary password last was (history)

optionVars == <<window, approve_mode, twofa>>
sessionVars == <<session, refreshing>>
loginConnVars == <<step, lr, require_2fa, cmShown>>
peerVars == <<request, screen, knows>>
causeVars == <<clicked, coded, validated, codeSince>>
loginVars == <<optionVars, temporary, sessionVars, trusted, authedConns, loginConnVars,
               peerVars, causeVars>>

None == 0
Permanent == -1
Wrong == -2
Unasked == -3
Temporary == 1 .. Cardinality(Attempts) + 1
Secrets == Temporary \cup {None, Permanent, Wrong}
Steps == {"new", "wait", "validate", "logon", "push", "attach", "on", "end", "drop", "gone"}
Screens == {"none", "waiting", "password", "code", "in", "left", "closed"}
Windows == {"desktop", "files"}
Desktop == {c \in Attempts : window[c] = "desktop"}

NoRequest == <<"none", None>>
NoSession == [password |-> None, tfa |-> FALSE, old |-> FALSE]

LoginTypeOK ==
  /\ window \in [Attempts -> Windows]
  /\ approve_mode \in {"click", "both"} /\ twofa \in BOOLEAN
  /\ temporary \in Temporary
  /\ session \in [password : Temporary \cup {None}, tfa : BOOLEAN, old : BOOLEAN]
  /\ refreshing \subseteq authedConns /\ authedConns \subseteq Attempts
  /\ session = NoSession => refreshing = {}
  /\ trusted \in BOOLEAN
  /\ step \in [Attempts -> Steps]
  /\ \A c \in Attempts : step[c] \in {"attach", "on", "drop"} => c \in authedConns
  /\ request \in [Attempts -> {"none", "login", "code", "close"} \X Secrets]
  /\ lr \in [Attempts -> Secrets \cup {Unasked}]
  /\ require_2fa \in [Attempts -> BOOLEAN] /\ cmShown \in [Attempts -> BOOLEAN]
  /\ screen \in [Attempts -> Screens]
  /\ knows \in [Windows -> Secrets]
  /\ clicked \subseteq Attempts /\ coded \subseteq Attempts
  /\ validated \subseteq Secrets /\ codeSince \in BOOLEAN

LoginInit ==
  /\ window \in [Attempts -> Windows]
  /\ approve_mode \in {"click", "both"} /\ twofa \in BOOLEAN
  /\ temporary = 1
  /\ session = NoSession /\ refreshing = {}
  /\ trusted = FALSE
  /\ authedConns = {}
  /\ step = [c \in Attempts |-> "new"]
  /\ lr = [c \in Attempts |-> Unasked]
  /\ require_2fa = [c \in Attempts |-> twofa]
  /\ cmShown = [c \in Attempts |-> FALSE]
  /\ request = [c \in Attempts |-> NoRequest]
  /\ screen = [c \in Attempts |-> "none"]
  /\ knows = [w \in Windows |-> None]
  /\ clicked = {} /\ coded = {} /\ validated = {} /\ codeSince = FALSE

-----------------------------------------------------------------------------
(* The peer.                                                               *)

Enter(c, s) == step' = [step EXCEPT ![c] = s]
Show(c, s) == screen' = [screen EXCEPT ![c] = s]
Ask(c, kind, secret) == request' = [request EXCEPT ![c] = <<kind, secret>>]
Open(c) == screen[c] \notin {"none", "left", "closed"}

\* What is sent to a peer that is no longer there does nothing.
Tell(c, s) == screen' = [screen EXCEPT ![c] = IF Open(c) THEN s ELSE @]

\* The window connects, for the first time or after its connection broke, and
\* handle_hash logs in with the password it has, or with none and asks for it.
Connect(c) ==
  /\ step[c] = "new"
  /\ \A k \in Attempts \ {c} : window[k] = window[c] => screen[k] \in {"none", "left"}
  /\ Enter(c, "wait")
  /\ Ask(c, "login", knows[window[c]])
  /\ Show(c, IF knows[window[c]] = None THEN "password" ELSE "waiting")
  /\ UNCHANGED <<optionVars, temporary, sessionVars, trusted, authedConns, lr, require_2fa,
                 cmShown, knows, causeVars>>

ServerKeeps == UNCHANGED <<optionVars, temporary, sessionVars, trusted, authedConns,
                           loginConnVars, causeVars>>

\* handle_login_from_ui
TypesPassword(c) ==
  /\ screen[c] = "password" /\ request[c] = NoRequest
  /\ \E secret \in {temporary, Permanent} :
       /\ Ask(c, "login", secret)
       /\ knows' = [knows EXCEPT ![window[c]] = secret]
  /\ Show(c, "waiting")
  /\ ServerKeeps

\* send2fa, whatever the window shows
TypesCode(c) ==
  /\ Open(c) /\ request[c] = NoRequest
  /\ \E code \in {None, Wrong} : Ask(c, "code", code)
  /\ Show(c, IF screen[c] = "code" THEN "waiting" ELSE screen[c])
  /\ ServerKeeps /\ UNCHANGED knows

\* The connection breaks for the peer, who may take it up again (check_if_retry);
\* the controlled side notices later.
Breaks(c) ==
  /\ Open(c)
  /\ Show(c, "left") /\ request' = [request EXCEPT ![c] = NoRequest]
  /\ ServerKeeps /\ UNCHANGED knows

\* The user closes the window: CloseReason.
ClosesWindow(c) ==
  /\ Open(c) /\ request[c] = NoRequest
  /\ Show(c, "closed") /\ Ask(c, "close", None)
  /\ ServerKeeps /\ UNCHANGED knows

-----------------------------------------------------------------------------
(* Sessions.                                                               *)

\* retain(..): a session nobody has refreshed for SESSION_TIMEOUT goes
Retained == IF session.old THEN NoSession ELSE session
DropOld == session' = Retained /\ refreshing' = IF session.old THEN {} ELSE refreshing

\* is_recent_session, for a login with that password
SameAs(password) == password # None /\ password = Retained.password
TfaGiven(password) == password \notin {None, Unasked} /\ Retained.tfa

\* update_or_insert_session and set_session_2fa: an entry that is there keeps
\* the time it was refreshed
Updated(password, tfa) ==
  /\ session' = [session EXCEPT !.password = password, !.tfa = tfa]
  /\ UNCHANGED refreshing

\* whether a second factor still counts when a temporary password is given
TfaOfNewBug == session.tfa
TfaOfNew == FALSE

\* who else keeps the session when c is closed for good
KeptForBug(c) == {}
KeptFor(c) == authedConns \cap (Desktop \ {c})

\* check_remove_session, with the key of the last login request
CheckRemove(c) ==
  IF lr[c] # Unasked /\ (c \in authedConns \cap Desktop \/ KeptFor(c) = {})
    THEN session' = NoSession /\ refreshing' = {}
    ELSE UNCHANGED sessionVars

\* A connection that is there receives something (replies to its TestDelay)
\* every second.
Refreshed == \E c \in refreshing : step[c] = "on" /\ Open(c)

\* SESSION_TIMEOUT goes by without that ...
SessionAges ==
  /\ session # NoSession /\ ~session.old /\ ~Refreshed
  /\ session' = [session EXCEPT !.old = TRUE]
  /\ UNCHANGED <<optionVars, temporary, refreshing, trusted, authedConns, loginConnVars,
                 peerVars, causeVars>>

\* ... and the loop gets a message nevertheless.
Refreshes ==
  /\ session.old /\ Refreshed
  /\ session' = [session EXCEPT !.old = FALSE]
  /\ UNCHANGED <<optionVars, temporary, refreshing, trusted, authedConns, loginConnVars,
                 peerVars, causeVars>>

-----------------------------------------------------------------------------
(* The login.                                                              *)

Taken(c) == request' = [request EXCEPT ![c] = NoRequest]
ShowInCm(c) == cmShown' = [cmShown EXCEPT ![c] = TRUE]
Without2fa(c) == require_2fa' = [require_2fa EXCEPT ![c] = FALSE]

\* on_message, a login request, up to the check of the password.  An authorised
\* connection just remembers it.
HandleLogin(c) ==
  /\ step[c] \in {"wait", "on"} /\ request[c][1] = "login" /\ Taken(c)
  /\ lr' = [lr EXCEPT ![c] = request[c][2]]
  /\ require_2fa' = [require_2fa EXCEPT ![c] = @ /\ ~trusted]
  /\ \/ /\ step[c] = "on"
        /\ UNCHANGED <<step, cmShown, sessionVars, screen>>
     \/ /\ step[c] = "wait" /\ approve_mode = "click"
        /\ ShowInCm(c) /\ Tell(c, "waiting")
        /\ UNCHANGED <<step, sessionVars>>
     \/ /\ step[c] = "wait" /\ approve_mode # "click"
        /\ DropOld
        /\ IF SameAs(request[c][2]) THEN Enter(c, "logon") /\ UNCHANGED cmShown
           ELSE IF request[c][2] = None THEN ShowInCm(c) /\ UNCHANGED step
           ELSE Enter(c, "validate") /\ UNCHANGED cmShown
        /\ UNCHANGED screen
  /\ UNCHANGED <<optionVars, temporary, trusted, authedConns, knows, causeVars>>

\* validate_password: the session remembers a temporary password, but no
\* permanent one.
Validate(c) ==
  /\ step[c] = "validate"
  /\ \/ /\ lr[c] = temporary
        /\ Updated(lr[c], TfaOfNew) /\ codeSince' = FALSE
        /\ validated' = validated \cup {lr[c]}
        /\ Enter(c, "logon")
        /\ UNCHANGED <<cmShown, screen, knows>>
     \/ /\ lr[c] = Permanent
        /\ validated' = validated \cup {lr[c]}
        /\ Enter(c, "logon")
        /\ UNCHANGED <<sessionVars, codeSince, cmShown, screen, knows>>
     \/ /\ lr[c] \notin {temporary, Permanent}
        /\ knows' = IF Open(c) THEN [knows EXCEPT ![window[c]] = None] ELSE knows
        /\ Tell(c, "password") /\ ShowInCm(c)
        /\ Enter(c, "wait")
        /\ UNCHANGED <<sessionVars, codeSince, validated>>
  /\ UNCHANGED <<optionVars, temporary, trusted, authedConns, lr, require_2fa, request,
                 clicked, coded>>

\* on_message, Auth2fa: a right code goes on with the login, whether or not a
\* password was right before.
HandleCode(c) ==
  /\ step[c] \in {"wait", "on"} /\ request[c][1] = "code" /\ Taken(c)
  /\ \/ /\ ~require_2fa[c]
        /\ UNCHANGED <<sessionVars, step, require_2fa, screen, coded, codeSince>>
     \/ /\ require_2fa[c] /\ request[c][2] = Wrong
        /\ Tell(c, "code")
        /\ UNCHANGED <<sessionVars, step, require_2fa, coded, codeSince>>
     \/ /\ require_2fa[c] /\ request[c][2] # Wrong
        /\ Without2fa(c)
        /\ Updated(session.password, TRUE) /\ codeSince' = TRUE
        /\ coded' = coded \cup {c}
        /\ Enter(c, IF step[c] = "on" THEN "on" ELSE "logon")
        /\ UNCHANGED screen
  /\ UNCHANGED <<optionVars, temporary, trusted, authedConns, lr, cmShown, knows, clicked,
                 validated>>

\* The user of the controlled side accepts the connection.
Authorize(c) ==
  /\ step[c] = "wait" /\ cmShown[c]
  /\ Without2fa(c)
  /\ clicked' = clicked \cup {c}
  /\ Enter(c, "logon")
  /\ UNCHANGED <<optionVars, temporary, sessionVars, trusted, authedConns, lr, cmShown, peerVars,
                 coded, validated, codeSince>>

\* send_logon_response asks for the second factor ...
Logon(c) ==
  /\ step[c] = "logon"
  /\ IF require_2fa[c] THEN DropOld ELSE UNCHANGED sessionVars
  /\ IF require_2fa[c] /\ ~TfaGiven(lr[c])
       THEN Tell(c, "code") /\ ShowInCm(c) /\ Enter(c, "wait")
       ELSE Enter(c, "push") /\ UNCHANGED <<screen, cmShown>>
  /\ UNCHANGED <<optionVars, temporary, trusted, authedConns, lr, require_2fa, request, knows,
                 causeVars>>

\* ... pushes the connection (AuthedConnID::new) ...
PushAuthed(c) ==
  /\ step[c] = "push"
  /\ authedConns' = authedConns \cup {c}
  /\ Enter(c, "attach")
  /\ UNCHANGED <<optionVars, temporary, sessionVars, trusted, lr, require_2fa, cmShown, peerVars,
                 causeVars>>

\* ... and looks up the session once more, for the time to refresh.  The device of
\* a right code may be trusted from now on.
Attach(c) ==
  /\ step[c] = "attach"
  /\ refreshing' = IF session = NoSession THEN refreshing ELSE refreshing \cup {c}
  /\ trusted' \in IF c \in coded THEN {trusted, TRUE} ELSE {trusted}
  /\ Tell(c, "in")
  /\ ShowInCm(c) /\ Enter(c, "on")
  /\ UNCHANGED <<optionVars, temporary, session, authedConns, lr, require_2fa, request,
                 knows, causeVars>>

-----------------------------------------------------------------------------
(* The end.                                                                *)

EndsOnly == UNCHANGED <<optionVars, temporary, trusted, authedConns, lr, require_2fa, cmShown,
                        knows, causeVars>>

\* on_message, CloseReason
HandleClose(c) ==
  /\ step[c] \in {"wait", "on"} /\ request[c][1] = "close" /\ Taken(c)
  /\ CheckRemove(c) /\ Enter(c, "end")
  /\ EndsOnly /\ UNCHANGED screen

\* send_close_reason_no_retry: by the connection manager, or for inactivity
ClosesForGood(c) ==
  /\ step[c] \in {"wait", "on"} /\ cmShown[c]
  /\ CheckRemove(c) /\ Tell(c, "closed") /\ Taken(c) /\ Enter(c, "end")
  /\ EndsOnly

\* The loop notices that the connection broke.
NoticesBreak(c) ==
  /\ step[c] \in {"wait", "on"} /\ screen[c] = "left"
  /\ Enter(c, "end")
  /\ EndsOnly /\ UNCHANGED <<sessionVars, request, screen>>

\* The Connection is dropped.
Gone(c) ==
  /\ Enter(c, "gone")
  /\ lr' = [lr EXCEPT ![c] = Unasked]
  /\ require_2fa' = [require_2fa EXCEPT ![c] = FALSE]
  /\ cmShown' = [cmShown EXCEPT ![c] = FALSE]
  /\ clicked' = clicked \ {c} /\ coded' = coded \ {c}

\* after the loop: update_temporary_password ...
Rotate(c) ==
  /\ step[c] = "end"
  /\ \/ /\ c \in authedConns /\ temporary' = temporary + 1 /\ Enter(c, "drop")
        /\ UNCHANGED <<lr, require_2fa, cmShown, clicked, coded>>
     \/ c \notin authedConns /\ Gone(c) /\ UNCHANGED temporary
  /\ UNCHANGED <<optionVars, sessionVars, trusted, authedConns, peerVars, validated, codeSince>>

\* ... and at last the drop of its AuthedConnID and its session_last_recv_time
DropConn(c) ==
  /\ step[c] = "drop" /\ Gone(c)
  /\ authedConns' = authedConns \ {c}
  /\ refreshing' = refreshing \ {c}
  /\ UNCHANGED <<optionVars, temporary, session, trusted, peerVars, validated, codeSince>>

-----------------------------------------------------------------------------
\* Nobody is connected, and perhaps nobody comes.
NobodyComes ==
  /\ \A c \in Attempts : step[c] \in {"new", "gone"}
  /\ UNCHANGED loginVars

LoginNext ==
  \/ \E c \in Attempts :
       \/ Connect(c) \/ TypesPassword(c) \/ TypesCode(c) \/ Breaks(c) \/ ClosesWindow(c)
       \/ HandleLogin(c) \/ Validate(c) \/ HandleCode(c) \/ Authorize(c)
       \/ Logon(c) \/ PushAuthed(c) \/ Attach(c)
       \/ HandleClose(c) \/ ClosesForGood(c) \/ NoticesBreak(c) \/ Rotate(c) \/ DropConn(c)
  \/ SessionAges \/ Refreshes \/ NobodyComes

LoginSpec == LoginInit /\ [][LoginNext]_loginVars
-----------------------------------------------------------------------------
(* Properties.                                                             *)

\* A connection gets past the login only because the user accepted it, or with a
\* right code given on it, or with a password that was right, now or when the
\* session began, and then, where a second factor is required, on a device trusted
\* since a code, or in a session that is still remembered and has been given a code
\* since a temporary password was last found right in it; however the logins of the
\* windows, the changes of the password and the ends of sessions interleave.
LetInForCause ==
  [][\A c \in Attempts : step[c] = "logon" /\ step'[c] = "push" =>
       \/ c \in clicked \/ c \in coded
       \/ /\ lr[c] \in validated
          /\ twofa => trusted \/ (codeSince /\ Retained # NoSession)]_loginVars

\* A session that a connected desktop refreshes is lost only when a desktop
\* connection is closed for good: "If the file transfer/port forward connection
\* is closed with no retry, the session should be kept for remote control menu
\* action" (check_remove_session), nor does any login drop it.
SessionKept ==
  [][\A c \in Desktop \cap refreshing :
       step[c] = "on" /\ Open(c) /\ ~session.old =>
         c \in refreshing' \/ \E k \in Desktop : step[k] = "on" /\ step'[k] = "end"]_loginVars
=============================================================================
