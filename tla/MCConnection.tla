---------------------------- MODULE MCConnection ----------------------------
(* Connections of the controlled side, for TLC, one part at a time: in a    *)
(* behaviour the part `about' runs and the others keep still.               *)
EXTENDS Permissions, Authed, Login, TLC

VARIABLE about

connectionVars == <<about, permissionVars, authedVars, loginVars>>

TwoDisplays == {0, 1}

\* One connection only views a camera, the others are interchangeable.
Viewer == CHOOSE c \in Conns : TRUE

\* One connection of a peer is of its desktop window.
First == CHOOSE c \in Attempts : TRUE

Symmetry == Permutations(Conns \ {Viewer})

\* Where there is a choice, a part that keeps still takes one value.
StillChosen ==
  /\ about # "calls" => view = "remote"
  /\ about \notin {"permissions", "calls"} => granted = {}
  /\ about # "authed" => ~linux
  /\ about # "login" => approve_mode = "both" /\ ~twofa
                      /\ \A c \in Attempts : window[c] = "desktop"

ConnectionInit ==
  /\ about \in {"permissions", "calls", "authed", "login"}
  /\ PermissionsInit /\ AuthedInit /\ LoginInit
  /\ \A c \in Conns : conn_type[c] = IF c = Viewer THEN "ViewCamera" ELSE "Remote"
  /\ window[First] = "desktop"
  /\ StillChosen

ConnectionNext ==
  /\ UNCHANGED about
  /\ \/ /\ about = "permissions" /\ PermissionsNext
        /\ UNCHANGED <<authedVars, loginVars>>
        \* calls and displays do not touch each other's variables
        /\ UNCHANGED <<calling, ringing>>
     \/ /\ about = "calls" /\ PermissionsNext
        /\ UNCHANGED <<authedVars, loginVars>>
        /\ captured' \subseteq {PrimaryDisplay} /\ UNCHANGED <<display_idx, multi_ui_session>>
     \/ /\ about = "authed" /\ AuthedNext
        /\ UNCHANGED <<permissionVars, loginVars>>
     \/ /\ about = "login" /\ LoginNext
        /\ UNCHANGED <<permissionVars, authedVars>>

ConnectionSpec == ConnectionInit /\ [][ConnectionNext]_connectionVars

\* The same with nothing but the guards.
AuthedOnly == ConnectionInit /\ about = "authed" /\ [][ConnectionNext]_connectionVars

\* The type invariants of the parts.
ConnectionTypeOK == PermissionsTypeOK /\ AuthedTypeOK /\ LoginTypeOK
=============================================================================
