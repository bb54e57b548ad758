------------------------- MODULE PermissionsProofs -------------------------
(***************************************************************************)
(* Proofs about module Permissions, for any set of displays.               *)
(*                                                                         *)
(* Before the login the switches of the connection manager have subscribed *)
(* to some services only, and during the login, and while the peer has     *)
(* still to select a session, the options to some more; the invariant      *)
(* therefore says in every phase that what is subscribed is allowed, and,  *)
(* once try_sub_monitor_services has run, that what is allowed is          *)
(* subscribed.                                                             *)
(***************************************************************************)
EXTENDS Permissions, TLAPS

\* Once the services have been subscribed, nothing allowed is missing.
Complete ==
  view = "remote" /\ services_subed =>
    /\ CanSubClipboard => "clipboard" \in subs
    /\ option.show_remote_cursor => "pos" \in subs
    /\ AudioEnabled => "audio" \in subs
    /\ WantsCursor => "cursor" \in subs
    /\ option.follow_remote_window /\ ~multi_ui_session => "focus" \in subs

OpenIsSubed == view = "remote" /\ phase = "open" => services_subed

PermissionsInv == PermissionsTypeOK /\ OpenIsSubed /\ NeverWithoutGrant /\ Complete /\ CameraHearsCalls

USE DEF ServiceNames, PermissionNames, OptionNames

LEMMA PermissionsBegin == PermissionsInit => PermissionsInv
BY PermissionsAssumption DEF PermissionsInit, PermissionsInv, PermissionsTypeOK, OpenIsSubed, NeverWithoutGrant, Complete, CameraHearsCalls

\* What Resubscribe does to one service.
LEMMA ResubscribeOne ==
  ASSUME NEW wish, NEW n, Resubscribe(wish)
  PROVE  n \in subs' <=> IF n \in DOMAIN wish THEN wish[n] = TRUE ELSE n \in subs
BY DEF Resubscribe

LEMMA ResubscribeType ==
  ASSUME PermissionsTypeOK, NEW wish, Resubscribe(wish), DOMAIN wish \subseteq ServiceNames
  PROVE  subs' \subseteq ServiceNames
BY DEF Resubscribe, PermissionsTypeOK

\* The switches and options one by one: first what becomes of each service,
\* then the invariant.

LEMMA SwitchKeyboardInv ==
  ASSUME PermissionsInv, NEW b \in BOOLEAN, SwitchKeyboard(b)
  PROVE  PermissionsInv'
<1> DEFINE wish == [clipboard |-> CanSubClipboard', file |-> CanSubFileClipboard', cursor |-> CursorAfterSwitch(b)]
<1>1. Resubscribe(wish)
  BY DEF SwitchKeyboard
<1>2. /\ "clipboard" \in subs' <=> CanSubClipboard'
      /\ "file" \in subs' <=> CanSubFileClipboard'
      /\ "cursor" \in subs' <=> CursorAfterSwitch(b)
      /\ \A n \in {"pos", "focus", "audio"} : n \in subs' <=> n \in subs
  <2>1. \A n : n \in subs' <=> IF n \in DOMAIN wish THEN wish[n] = TRUE ELSE n \in subs
    BY <1>1, ResubscribeOne
  <2> QED BY <2>1 DEF SwitchKeyboard, CursorAfterSwitch, CanSubClipboard, CanSubFileClipboard
<1>3. subs' \subseteq ServiceNames
  <2>1. DOMAIN wish \subseteq ServiceNames OBVIOUS
  <2> QED BY <1>1, <2>1, ResubscribeType DEF PermissionsInv
<1> HIDE DEF wish
<1>4. PermissionsTypeOK' /\ OpenIsSubed'
  <2>1. phase = "new" => "pos" \notin subs' /\ "focus" \notin subs' /\ "audio" \notin subs'
    BY <1>2 DEF PermissionsInv, PermissionsTypeOK
  <2>2. phase = "new" => subs' \subseteq {"cursor", "clipboard", "file"}
    BY <1>3, <2>1
  <2> QED BY <1>3, <2>2 DEF PermissionsInv, PermissionsTypeOK, OpenIsSubed, SwitchKeyboard, Switch, displayVars
<1>5. NeverWithoutGrant'
  BY <1>2 DEF PermissionsInv, PermissionsTypeOK, NeverWithoutGrant, SwitchKeyboard, Switch, displayVars, CursorAfterSwitch, CanSubClipboard, CanSubFileClipboard, ClipboardEnabled, PeerKeyboardEnabled, FileTransferEnabled, AudioEnabled, WantsCursor
<1>6. Complete'
  BY <1>2 DEF PermissionsInv, PermissionsTypeOK, Complete, SwitchKeyboard, Switch, displayVars, CursorAfterSwitch, CanSubClipboard, CanSubFileClipboard, ClipboardEnabled, PeerKeyboardEnabled, FileTransferEnabled, AudioEnabled, WantsCursor
<1>7. CameraHearsCalls'
  BY <1>2 DEF PermissionsInv, PermissionsTypeOK, CameraHearsCalls, SwitchKeyboard, Switch, displayVars, AudioEnabled
<1> QED BY <1>4, <1>5, <1>6, <1>7 DEF PermissionsInv

LEMMA SwitchClipboardInv ==
  ASSUME PermissionsInv, NEW b \in BOOLEAN, SwitchClipboard(b)
  PROVE  PermissionsInv'
<1> DEFINE wish == [clipboard |-> CanSubClipboard']
<1>1. Resubscribe(wish)
  BY DEF SwitchClipboard
<1>2. /\ "clipboard" \in subs' <=> CanSubClipboard'
      /\ \A n \in {"cursor", "pos", "focus", "file", "audio"} : n \in subs' <=> n \in subs
  <2>1. \A n : n \in subs' <=> IF n \in DOMAIN wish THEN wish[n] = TRUE ELSE n \in subs
    BY <1>1, ResubscribeOne
  <2> QED BY <2>1 DEF SwitchClipboard, CanSubClipboard
<1>3. subs' \subseteq ServiceNames
  <2>1. DOMAIN wish \subseteq ServiceNames OBVIOUS
  <2> QED BY <1>1, <2>1, ResubscribeType DEF PermissionsInv
<1> HIDE DEF wish
<1>4. PermissionsTypeOK' /\ OpenIsSubed'
  <2>1. phase = "new" => "pos" \notin subs' /\ "focus" \notin subs' /\ "audio" \notin subs'
    BY <1>2 DEF PermissionsInv, PermissionsTypeOK
  <2>2. phase = "new" => subs' \subseteq {"cursor", "clipboard", "file"}
    BY <1>3, <2>1
  <2> QED BY <1>3, <2>2 DEF PermissionsInv, PermissionsTypeOK, OpenIsSubed, SwitchClipboard, Switch, displayVars
<1>5. NeverWithoutGrant'
  BY <1>2 DEF PermissionsInv, PermissionsTypeOK, NeverWithoutGrant, SwitchClipboard, Switch, displayVars, CursorAfterSwitch, CanSubClipboard, CanSubFileClipboard, ClipboardEnabled, PeerKeyboardEnabled, FileTransferEnabled, AudioEnabled, WantsCursor
<1>6. Complete'
  BY <1>2 DEF PermissionsInv, PermissionsTypeOK, Complete, SwitchClipboard, Switch, displayVars, CursorAfterSwitch, CanSubClipboard, CanSubFileClipboard, ClipboardEnabled, PeerKeyboardEnabled, FileTransferEnabled, AudioEnabled, WantsCursor
<1>7. CameraHearsCalls'
  BY <1>2 DEF PermissionsInv, PermissionsTypeOK, CameraHearsCalls, SwitchClipboard, Switch, displayVars, AudioEnabled
<1> QED BY <1>4, <1>5, <1>6, <1>7 DEF PermissionsInv

LEMMA SwitchFileInv ==
  ASSUME PermissionsInv, NEW b \in BOOLEAN, SwitchFile(b)
  PROVE  PermissionsInv'
<1> DEFINE wish == [file |-> CanSubFileClipboard']
<1>1. Resubscribe(wish)
  BY DEF SwitchFile, FileWish
<1>2. /\ "file" \in subs' <=> CanSubFileClipboard'
      /\ \A n \in {"cursor", "pos", "focus", "clipboard", "audio"} : n \in subs' <=> n \in subs
  <2>1. \A n : n \in subs' <=> IF n \in DOMAIN wish THEN wish[n] = TRUE ELSE n \in subs
    BY <1>1, ResubscribeOne
  <2> QED BY <2>1 DEF SwitchFile, FileWish, CanSubFileClipboard
<1>3. subs' \subseteq ServiceNames
  <2>1. DOMAIN wish \subseteq ServiceNames OBVIOUS
  <2> QED BY <1>1, <2>1, ResubscribeType DEF PermissionsInv
<1> HIDE DEF wish
<1>4. PermissionsTypeOK' /\ OpenIsSubed'
  <2>1. phase = "new" => "pos" \notin subs' /\ "focus" \notin subs' /\ "audio" \notin subs'
    BY <1>2 DEF PermissionsInv, PermissionsTypeOK
  <2>2. phase = "new" => subs' \subseteq {"cursor", "clipboard", "file"}
    BY <1>3, <2>1
  <2> QED BY <1>3, <2>2 DEF PermissionsInv, PermissionsTypeOK, OpenIsSubed, SwitchFile, Switch, displayVars
<1>5. NeverWithoutGrant'
  BY <1>2 DEF PermissionsInv, PermissionsTypeOK, NeverWithoutGrant, SwitchFile, Switch, displayVars, CursorAfterSwitch, CanSubClipboard, CanSubFileClipboard, ClipboardEnabled, PeerKeyboardEnabled, FileTransferEnabled, AudioEnabled, WantsCursor
<1>6. Complete'
  BY <1>2 DEF PermissionsInv, PermissionsTypeOK, Complete, SwitchFile, Switch, displayVars, CursorAfterSwitch, CanSubClipboard, CanSubFileClipboard, ClipboardEnabled, PeerKeyboardEnabled, FileTransferEnabled, AudioEnabled, WantsCursor
<1>7. CameraHearsCalls'
  BY <1>2 DEF PermissionsInv, PermissionsTypeOK, CameraHearsCalls, SwitchFile, Switch, displayVars, AudioEnabled
<1> QED BY <1>4, <1>5, <1>6, <1>7 DEF PermissionsInv

LEMMA ShowRemoteCursorInv ==
  ASSUME PermissionsInv, NEW b \in BOOLEAN, ShowRemoteCursor(b)
  PROVE  PermissionsInv'
<1> DEFINE wish == [cursor |-> WantsCursor', pos |-> b]
<1>1. Resubscribe(wish)
  BY DEF ShowRemoteCursor
<1>2. /\ "cursor" \in subs' <=> WantsCursor'
      /\ "pos" \in subs' <=> b
      /\ \A n \in {"focus", "clipboard", "file", "audio"} : n \in subs' <=> n \in subs
  <2>1. \A n : n \in subs' <=> IF n \in DOMAIN wish THEN wish[n] = TRUE ELSE n \in subs
    BY <1>1, ResubscribeOne
  <2> QED BY <2>1 DEF ShowRemoteCursor, WantsCursor, PeerKeyboardEnabled
<1>3. subs' \subseteq ServiceNames
  <2>1. DOMAIN wish \subseteq ServiceNames OBVIOUS
  <2> QED BY <1>1, <2>1, ResubscribeType DEF PermissionsInv
<1> HIDE DEF wish
<1>4. PermissionsTypeOK' /\ OpenIsSubed'
  BY <1>3 DEF PermissionsInv, PermissionsTypeOK, OpenIsSubed, ShowRemoteCursor, Set, displayVars, Serving, LoggedIn
<1>5. NeverWithoutGrant'
  BY <1>2 DEF PermissionsInv, PermissionsTypeOK, NeverWithoutGrant, ShowRemoteCursor, Set, displayVars, CursorAfterSwitch, CanSubClipboard, CanSubFileClipboard, ClipboardEnabled, PeerKeyboardEnabled, FileTransferEnabled, AudioEnabled, WantsCursor
<1>6. Complete'
  BY <1>2 DEF PermissionsInv, PermissionsTypeOK, Complete, ShowRemoteCursor, Set, displayVars, CursorAfterSwitch, CanSubClipboard, CanSubFileClipboard, ClipboardEnabled, PeerKeyboardEnabled, FileTransferEnabled, AudioEnabled, WantsCursor
<1>7. CameraHearsCalls'
  BY <1>2 DEF PermissionsInv, PermissionsTypeOK, CameraHearsCalls, ShowRemoteCursor, Set, displayVars, AudioEnabled
<1> QED BY <1>4, <1>5, <1>6, <1>7 DEF PermissionsInv

LEMMA FollowRemoteWindowInv ==
  ASSUME PermissionsInv, NEW b \in BOOLEAN, FollowRemoteWindow(b)
  PROVE  PermissionsInv'
<1> DEFINE wish == [focus |-> b]
<1>1. Resubscribe(wish)
  BY DEF FollowRemoteWindow
<1>2. /\ "focus" \in subs' <=> b
      /\ \A n \in {"cursor", "pos", "clipboard", "file", "audio"} : n \in subs' <=> n \in subs
  <2>1. \A n : n \in subs' <=> IF n \in DOMAIN wish THEN wish[n] = TRUE ELSE n \in subs
    BY <1>1, ResubscribeOne
  <2> QED BY <2>1 DEF FollowRemoteWindow
<1>3. subs' \subseteq ServiceNames
  <2>1. DOMAIN wish \subseteq ServiceNames OBVIOUS
  <2> QED BY <1>1, <2>1, ResubscribeType DEF PermissionsInv
<1> HIDE DEF wish
<1>4. PermissionsTypeOK' /\ OpenIsSubed'
  BY <1>3 DEF PermissionsInv, PermissionsTypeOK, OpenIsSubed, FollowRemoteWindow, Set, displayVars, Serving, LoggedIn
<1>5. NeverWithoutGrant'
  BY <1>2 DEF PermissionsInv, PermissionsTypeOK, NeverWithoutGrant, FollowRemoteWindow, Set, displayVars, CursorAfterSwitch, CanSubClipboard, CanSubFileClipboard, ClipboardEnabled, PeerKeyboardEnabled, FileTransferEnabled, AudioEnabled, WantsCursor
<1>6. Complete'
  BY <1>2 DEF PermissionsInv, PermissionsTypeOK, Complete, FollowRemoteWindow, Set, displayVars, CursorAfterSwitch, CanSubClipboard, CanSubFileClipboard, ClipboardEnabled, PeerKeyboardEnabled, FileTransferEnabled, AudioEnabled, WantsCursor
<1>7. CameraHearsCalls'
  BY <1>2 DEF PermissionsInv, PermissionsTypeOK, CameraHearsCalls, FollowRemoteWindow, Set, displayVars, AudioEnabled
<1> QED BY <1>4, <1>5, <1>6, <1>7 DEF PermissionsInv

LEMMA EnableFileTransferInv ==
  ASSUME PermissionsInv, NEW b \in BOOLEAN, EnableFileTransfer(b)
  PROVE  PermissionsInv'
<1> DEFINE wish == [file |-> CanSubFileClipboard']
<1>1. Resubscribe(wish)
  BY DEF EnableFileTransfer, FileWish
<1>2. /\ "file" \in subs' <=> CanSubFileClipboard'
      /\ \A n \in {"cursor", "pos", "focus", "clipboard", "audio"} : n \in subs' <=> n \in subs
  <2>1. \A n : n \in subs' <=> IF n \in DOMAIN wish THEN wish[n] = TRUE ELSE n \in subs
    BY <1>1, ResubscribeOne
  <2> QED BY <2>1 DEF EnableFileTransfer, FileWish, CanSubFileClipboard
<1>3. subs' \subseteq ServiceNames
  <2>1. DOMAIN wish \subseteq ServiceNames OBVIOUS
  <2> QED BY <1>1, <2>1, ResubscribeType DEF PermissionsInv
<1> HIDE DEF wish
<1>4. PermissionsTypeOK' /\ OpenIsSubed'
  BY <1>3 DEF PermissionsInv, PermissionsTypeOK, OpenIsSubed, EnableFileTransfer, Set, displayVars, Serving, LoggedIn
<1>5. NeverWithoutGrant'
  BY <1>2 DEF PermissionsInv, PermissionsTypeOK, NeverWithoutGrant, EnableFileTransfer, Set, displayVars, CursorAfterSwitch, CanSubClipboard, CanSubFileClipboard, ClipboardEnabled, PeerKeyboardEnabled, FileTransferEnabled, AudioEnabled, WantsCursor
<1>6. Complete'
  BY <1>2 DEF PermissionsInv, PermissionsTypeOK, Complete, EnableFileTransfer, Set, displayVars, CursorAfterSwitch, CanSubClipboard, CanSubFileClipboard, ClipboardEnabled, PeerKeyboardEnabled, FileTransferEnabled, AudioEnabled, WantsCursor
<1>7. CameraHearsCalls'
  BY <1>2 DEF PermissionsInv, PermissionsTypeOK, CameraHearsCalls, EnableFileTransfer, Set, displayVars, AudioEnabled
<1> QED BY <1>4, <1>5, <1>6, <1>7 DEF PermissionsInv

LEMMA DisableClipboardInv ==
  ASSUME PermissionsInv, NEW b \in BOOLEAN, DisableClipboard(b)
  PROVE  PermissionsInv'
<1> DEFINE wish == [clipboard |-> CanSubClipboard']
<1>1. Resubscribe(wish)
  BY DEF DisableClipboard
<1>2. /\ "clipboard" \in subs' <=> CanSubClipboard'
      /\ \A n \in {"cursor", "pos", "focus", "file", "audio"} : n \in subs' <=> n \in subs
  <2>1. \A n : n \in subs' <=> IF n \in DOMAIN wish THEN wish[n] = TRUE ELSE n \in subs
    BY <1>1, ResubscribeOne
  <2> QED BY <2>1 DEF DisableClipboard, CanSubClipboard
<1>3. subs' \subseteq ServiceNames
  <2>1. DOMAIN wish \subseteq ServiceNames OBVIOUS
  <2> QED BY <1>1, <2>1, ResubscribeType DEF PermissionsInv
<1> HIDE DEF wish
<1>4. PermissionsTypeOK' /\ OpenIsSubed'
  BY <1>3 DEF PermissionsInv, PermissionsTypeOK, OpenIsSubed, DisableClipboard, Set, displayVars, Serving, LoggedIn
<1>5. NeverWithoutGrant'
  BY <1>2 DEF PermissionsInv, PermissionsTypeOK, NeverWithoutGrant, DisableClipboard, Set, displayVars, CursorAfterSwitch, CanSubClipboard, CanSubFileClipboard, ClipboardEnabled, PeerKeyboardEnabled, FileTransferEnabled, AudioEnabled, WantsCursor
<1>6. Complete'
  BY <1>2 DEF PermissionsInv, PermissionsTypeOK, Complete, DisableClipboard, Set, displayVars, CursorAfterSwitch, CanSubClipboard, CanSubFileClipboard, ClipboardEnabled, PeerKeyboardEnabled, FileTransferEnabled, AudioEnabled, WantsCursor
<1>7. CameraHearsCalls'
  BY <1>2 DEF PermissionsInv, PermissionsTypeOK, CameraHearsCalls, DisableClipboard, Set, displayVars, AudioEnabled
<1> QED BY <1>4, <1>5, <1>6, <1>7 DEF PermissionsInv

LEMMA DisableKeyboardInv ==
  ASSUME PermissionsInv, NEW b \in BOOLEAN, DisableKeyboard(b)
  PROVE  PermissionsInv'
<1> DEFINE wish == [clipboard |-> CanSubClipboard', file |-> CanSubFileClipboard', cursor |-> WantsCursor']
<1>1. Resubscribe(wish)
  BY DEF DisableKeyboard, KeyboardWish
<1>2. /\ "clipboard" \in subs' <=> CanSubClipboard'
      /\ "file" \in subs' <=> CanSubFileClipboard'
      /\ "cursor" \in subs' <=> WantsCursor'
      /\ \A n \in {"pos", "focus", "audio"} : n \in subs' <=> n \in subs
  <2>1. \A n : n \in subs' <=> IF n \in DOMAIN wish THEN wish[n] = TRUE ELSE n \in subs
    BY <1>1, ResubscribeOne
  <2> QED BY <2>1 DEF DisableKeyboard, KeyboardWish, CanSubClipboard, CanSubFileClipboard, WantsCursor
<1>3. subs' \subseteq ServiceNames
  <2>1. DOMAIN wish \subseteq ServiceNames OBVIOUS
  <2> QED BY <1>1, <2>1, ResubscribeType DEF PermissionsInv
<1> HIDE DEF wish
<1>4. PermissionsTypeOK' /\ OpenIsSubed'
  BY <1>3 DEF PermissionsInv, PermissionsTypeOK, OpenIsSubed, DisableKeyboard, Set, displayVars, Serving, LoggedIn
<1>5. NeverWithoutGrant'
  BY <1>2 DEF PermissionsInv, PermissionsTypeOK, NeverWithoutGrant, DisableKeyboard, Set, displayVars, CursorAfterSwitch, CanSubClipboard, CanSubFileClipboard, ClipboardEnabled, PeerKeyboardEnabled, FileTransferEnabled, AudioEnabled, WantsCursor
<1>6. Complete'
  BY <1>2 DEF PermissionsInv, PermissionsTypeOK, Complete, DisableKeyboard, Set, displayVars, CursorAfterSwitch, CanSubClipboard, CanSubFileClipboard, ClipboardEnabled, PeerKeyboardEnabled, FileTransferEnabled, AudioEnabled, WantsCursor
<1>7. CameraHearsCalls'
  BY <1>2 DEF PermissionsInv, PermissionsTypeOK, CameraHearsCalls, DisableKeyboard, Set, displayVars, AudioEnabled
<1> QED BY <1>4, <1>5, <1>6, <1>7 DEF PermissionsInv

LEMMA SwitchAudioInv ==
  ASSUME PermissionsInv, NEW b \in BOOLEAN, SwitchAudio(b)
  PROVE  PermissionsInv'
<1>0. CASE ~LoggedIn
  <2>1. phase = "new" /\ subs' = subs
    BY <1>0 DEF SwitchAudio, LoggedIn
  <2>2. /\ PermissionsTypeOK' /\ OpenIsSubed' /\ Complete'
    BY <2>1 DEF PermissionsInv, PermissionsTypeOK, OpenIsSubed, Complete, SwitchAudio, Switch, displayVars
  <2>3. NeverWithoutGrant'
    BY <2>1 DEF PermissionsInv, PermissionsTypeOK, NeverWithoutGrant, SwitchAudio, Switch, CanSubClipboard, ClipboardEnabled, PeerKeyboardEnabled, FileTransferEnabled
  <2>4. CameraHearsCalls'
    BY <2>1 DEF PermissionsInv, PermissionsTypeOK, CameraHearsCalls, SwitchAudio, Switch
  <2> QED BY <2>2, <2>3, <2>4 DEF PermissionsInv
<1> SUFFICES ASSUME LoggedIn PROVE PermissionsInv'
  BY <1>0
<1>1. Resubscribe(AudioWish')
  BY DEF SwitchAudio
<1>2. /\ view = "remote" => ("audio" \in subs' <=> AudioEnabled')
      /\ view = "camera" => ("audio" \in subs' <=> IF ~calling /\ AudioEnabled'
                                                      THEN "audio" \in subs ELSE AudioEnabled')
      /\ \A n \in {"cursor", "pos", "focus", "clipboard", "file"} : n \in subs' <=> n \in subs
  <2>1. \A n : n \in subs' <=> IF n \in DOMAIN AudioWish' THEN AudioWish'[n] = TRUE ELSE n \in subs
    BY <1>1, ResubscribeOne
  <2>2. view' = view /\ calling' = calling
    BY DEF SwitchAudio, Switch
  <2> QED BY <2>1, <2>2 DEF AudioWish, NoWish, AudioEnabled
<1>3. subs' \subseteq ServiceNames
  <2>1. DOMAIN AudioWish' \subseteq ServiceNames BY DEF AudioWish, NoWish
  <2> QED BY <1>1, <2>1, ResubscribeType DEF PermissionsInv
<1>4. PermissionsTypeOK' /\ OpenIsSubed'
  BY <1>3 DEF PermissionsInv, PermissionsTypeOK, OpenIsSubed, SwitchAudio, Switch, displayVars, LoggedIn
<1>5. NeverWithoutGrant'
  BY <1>2 DEF PermissionsInv, PermissionsTypeOK, NeverWithoutGrant, SwitchAudio, Switch, displayVars, CanSubClipboard, CanSubFileClipboard, ClipboardEnabled, PeerKeyboardEnabled, FileTransferEnabled, AudioEnabled, WantsCursor
<1>6. Complete'
  BY <1>2 DEF PermissionsInv, PermissionsTypeOK, Complete, SwitchAudio, Switch, displayVars, CanSubClipboard, CanSubFileClipboard, ClipboardEnabled, PeerKeyboardEnabled, FileTransferEnabled, AudioEnabled, WantsCursor
<1>7. CameraHearsCalls'
  BY <1>2 DEF PermissionsInv, PermissionsTypeOK, CameraHearsCalls, SwitchAudio, Switch, displayVars, AudioEnabled
<1> QED BY <1>4, <1>5, <1>6, <1>7 DEF PermissionsInv

LEMMA DisableAudioInv ==
  ASSUME PermissionsInv, NEW b \in BOOLEAN, DisableAudio(b)
  PROVE  PermissionsInv'
<1>1. Resubscribe(AudioWish')
  BY DEF DisableAudio
<1>2. /\ view = "remote" => ("audio" \in subs' <=> AudioEnabled')
      /\ view = "camera" => ("audio" \in subs' <=> IF ~calling /\ AudioEnabled'
                                                      THEN "audio" \in subs ELSE AudioEnabled')
      /\ \A n \in {"cursor", "pos", "focus", "clipboard", "file"} : n \in subs' <=> n \in subs
  <2>1. \A n : n \in subs' <=> IF n \in DOMAIN AudioWish' THEN AudioWish'[n] = TRUE ELSE n \in subs
    BY <1>1, ResubscribeOne
  <2>2. view' = view /\ calling' = calling
    BY DEF DisableAudio, Set
  <2> QED BY <2>1, <2>2 DEF AudioWish, NoWish, AudioEnabled
<1>3. subs' \subseteq ServiceNames
  <2>1. DOMAIN AudioWish' \subseteq ServiceNames BY DEF AudioWish, NoWish
  <2> QED BY <1>1, <2>1, ResubscribeType DEF PermissionsInv
<1>4. PermissionsTypeOK' /\ OpenIsSubed'
  BY <1>3 DEF PermissionsInv, PermissionsTypeOK, OpenIsSubed, DisableAudio, Set, displayVars, Serving, LoggedIn
<1>5. NeverWithoutGrant'
  BY <1>2 DEF PermissionsInv, PermissionsTypeOK, NeverWithoutGrant, DisableAudio, Set, displayVars, CanSubClipboard, CanSubFileClipboard, ClipboardEnabled, PeerKeyboardEnabled, FileTransferEnabled, AudioEnabled, WantsCursor
<1>6. Complete'
  BY <1>2 DEF PermissionsInv, PermissionsTypeOK, Complete, DisableAudio, Set, displayVars, CanSubClipboard, CanSubFileClipboard, ClipboardEnabled, PeerKeyboardEnabled, FileTransferEnabled, AudioEnabled, WantsCursor
<1>7. CameraHearsCalls'
  BY <1>2 DEF PermissionsInv, PermissionsTypeOK, CameraHearsCalls, DisableAudio, Set, displayVars, AudioEnabled
<1> QED BY <1>4, <1>5, <1>6, <1>7 DEF PermissionsInv

\* The services subscribed to at the end of the login are all that are allowed.
LEMMA SubServicesInv ==
  ASSUME PermissionsInv, SubServices, phase' = "open",
         view = "remote" => granted' = granted,
         view = "camera" => granted' \in {granted, granted \ {"keyboard"}},
         UNCHANGED <<view, option, display_idx, multi_ui_session, calling, ringing>>
  PROVE  PermissionsInv'
<1> USE DEF CanSubClipboard, CanSubFileClipboard, ClipboardEnabled, PeerKeyboardEnabled,
            FileTransferEnabled, AudioEnabled, WantsCursor
<1>1. CASE view = "camera"
  <2>1. UNCHANGED <<services_subed, subs>> /\ captured' \subseteq Displays
    BY <1>1, PermissionsAssumption DEF SubServices, PermissionsInv, PermissionsTypeOK
  <2> QED
    BY <1>1, <2>1 DEF PermissionsInv, PermissionsTypeOK, OpenIsSubed, NeverWithoutGrant, Complete, CameraHearsCalls
<1>2. CASE view = "remote"
  <2>1. services_subed' = TRUE /\ captured' \subseteq Displays
    BY <1>2, PermissionsAssumption DEF SubServices, PermissionsInv, PermissionsTypeOK
  <2>2. subs' = subs \cup (ServiceNames \ Withheld)
    BY <1>2 DEF SubServices
  <2>3. PermissionsTypeOK' /\ OpenIsSubed' /\ CameraHearsCalls'
    BY <1>2, <2>1, <2>2 DEF PermissionsInv, PermissionsTypeOK, OpenIsSubed, CameraHearsCalls
  <2>4. NeverWithoutGrant'
    BY <1>2, <2>2 DEF PermissionsInv, PermissionsTypeOK, NeverWithoutGrant, Withheld
  <2>5. Complete'
    BY <1>2, <2>2 DEF PermissionsInv, PermissionsTypeOK, Complete, Withheld
  <2> QED BY <2>3, <2>4, <2>5 DEF PermissionsInv
<1> QED BY <1>1, <1>2 DEF PermissionsInv, PermissionsTypeOK

\* Steps that leave permissions, options, subscriptions and calls alone.
Elsewhere == UNCHANGED <<view, granted, option, services_subed, subs, calling>>

LEMMA ElsewhereInv ==
  ASSUME PermissionsInv, Elsewhere, PermissionsTypeOK', UNCHANGED <<phase, multi_ui_session>>
  PROVE  PermissionsInv'
BY DEF PermissionsInv, OpenIsSubed, NeverWithoutGrant, Complete, CameraHearsCalls, Elsewhere,
       CanSubClipboard, CanSubFileClipboard, ClipboardEnabled, PeerKeyboardEnabled,
       FileTransferEnabled, AudioEnabled, WantsCursor

LEMMA LoginStepsInv ==
  ASSUME PermissionsInv, Login \/ EndLogin \/ SelectSession
  PROVE  PermissionsInv'
<1>1. CASE Login
  BY <1>1 DEF PermissionsInv, PermissionsTypeOK, OpenIsSubed, NeverWithoutGrant, Complete, CameraHearsCalls, Login,
       displayVars, CanSubClipboard, CanSubFileClipboard, ClipboardEnabled,
       PeerKeyboardEnabled, FileTransferEnabled, AudioEnabled, WantsCursor
<1>2. CASE EndLogin
  <2>1. CASE phase' = "open" /\ SubServices
    BY <1>2, <2>1, SubServicesInv DEF EndLogin, PermissionsInv, PermissionsTypeOK
  <2>2. CASE phase' = "confirm" /\ UNCHANGED <<services_subed, subs, captured>>
    BY <1>2, <2>2 DEF PermissionsInv, PermissionsTypeOK, OpenIsSubed, NeverWithoutGrant, Complete, CameraHearsCalls,
       EndLogin, displayVars, CanSubClipboard, CanSubFileClipboard, ClipboardEnabled,
       PeerKeyboardEnabled, FileTransferEnabled, AudioEnabled, WantsCursor
  <2> QED BY <1>2, <2>1, <2>2 DEF EndLogin
<1>3. CASE SelectSession
  <2>1. CASE services_subed
    BY <1>3, <2>1 DEF PermissionsInv, PermissionsTypeOK, OpenIsSubed, NeverWithoutGrant, Complete, CameraHearsCalls,
       SelectSession, displayVars, CanSubClipboard, CanSubFileClipboard, ClipboardEnabled,
       PeerKeyboardEnabled, FileTransferEnabled, AudioEnabled, WantsCursor
  <2>2. CASE ~services_subed
    BY <1>3, <2>2, SubServicesInv DEF SelectSession
  <2> QED BY <2>1, <2>2
<1> QED BY <1>1, <1>2, <1>3

LEMMA DisplayStepsInv ==
  ASSUME PermissionsInv,
         \/ \E d \in Displays, b \in BOOLEAN : SwitchDisplay(d, b)
         \/ \E list \in {"add", "sub", "set"}, ds \in SUBSET Displays : CaptureDisplays(list, ds)
  PROVE  PermissionsInv'
<1>1. ASSUME NEW d \in Displays, NEW b \in BOOLEAN, SwitchDisplay(d, b)
      PROVE  PermissionsInv'
  <2>1. PermissionsTypeOK'
    BY <1>1 DEF PermissionsInv, PermissionsTypeOK, SwitchDisplay, Serving
  <2> QED BY <1>1, <2>1, ElsewhereInv DEF SwitchDisplay, Elsewhere
<1>2. ASSUME NEW list \in {"add", "sub", "set"}, NEW ds \in SUBSET Displays,
             CaptureDisplays(list, ds)
      PROVE  PermissionsInv'
  <2> DEFINE wish == [focus |-> FocusAfterCount(multi_ui_session')]
  <2>1. captured' \subseteq Displays /\ multi_ui_session' \in BOOLEAN
    BY <1>2 DEF PermissionsInv, PermissionsTypeOK, CaptureDisplays, Capturing
  <2>2. CASE option.follow_remote_window
    <3>1. Resubscribe(wish) BY <1>2, <2>2 DEF CaptureDisplays
    <3>2. /\ "focus" \in subs' <=> ~multi_ui_session'
          /\ \A n \in {"cursor", "pos", "clipboard", "file", "audio"} : n \in subs' <=> n \in subs
      <4>1. \A n : n \in subs' <=> IF n \in DOMAIN wish THEN wish[n] = TRUE ELSE n \in subs
        BY <3>1, ResubscribeOne
      <4> QED BY <2>1, <4>1 DEF FocusAfterCount
    <3>3. subs' \subseteq ServiceNames
      <4>1. DOMAIN wish \subseteq ServiceNames OBVIOUS
      <4> QED BY <3>1, <4>1, ResubscribeType DEF PermissionsInv
    <3> HIDE DEF wish
    <3>4. PermissionsTypeOK' /\ OpenIsSubed'
      BY <1>2, <2>1, <3>3 DEF PermissionsInv, PermissionsTypeOK, OpenIsSubed, CaptureDisplays, Serving
    <3>5. NeverWithoutGrant' /\ Complete' /\ CameraHearsCalls'
      BY <1>2, <2>2, <3>2 DEF PermissionsInv, PermissionsTypeOK, NeverWithoutGrant, Complete, CameraHearsCalls,
         CaptureDisplays, CanSubClipboard, CanSubFileClipboard, ClipboardEnabled,
         PeerKeyboardEnabled, FileTransferEnabled, AudioEnabled, WantsCursor
    <3> QED BY <3>4, <3>5 DEF PermissionsInv
  <2>3. CASE ~option.follow_remote_window
    <3>1. PermissionsTypeOK' /\ OpenIsSubed'
      BY <1>2, <2>1, <2>3 DEF PermissionsInv, PermissionsTypeOK, OpenIsSubed, CaptureDisplays, Serving
    <3>2. NeverWithoutGrant' /\ Complete' /\ CameraHearsCalls'
      BY <1>2, <2>3 DEF PermissionsInv, PermissionsTypeOK, NeverWithoutGrant, Complete, CameraHearsCalls,
         CaptureDisplays, CanSubClipboard, CanSubFileClipboard, ClipboardEnabled,
         PeerKeyboardEnabled, FileTransferEnabled, AudioEnabled, WantsCursor
    <3> QED BY <3>1, <3>2 DEF PermissionsInv
  <2> QED BY <2>2, <2>3
<1> QED BY <1>1, <1>2

LEMMA CallStepsInv ==
  ASSUME PermissionsInv,
         RequestCall \/ (\E b \in BOOLEAN : AnswerCall(b)) \/ CloseCall
  PROVE  PermissionsInv'
<1> USE DEF CanSubClipboard, CanSubFileClipboard, ClipboardEnabled, PeerKeyboardEnabled,
            FileTransferEnabled, AudioEnabled, WantsCursor
<1>1. CASE RequestCall
  <2>1. PermissionsTypeOK'
    BY <1>1 DEF PermissionsInv, PermissionsTypeOK, RequestCall, displayVars, Serving
  <2> QED BY <1>1, <2>1, ElsewhereInv DEF RequestCall, Elsewhere, displayVars
<1>2. ASSUME NEW wish, Resubscribe(wish), NEW b \in BOOLEAN, calling' = b, ringing' \in BOOLEAN,
             wish = IF view = "camera" THEN [audio |-> AudioEnabled /\ b] ELSE NoWish,
             Serving, UNCHANGED <<view, phase, granted, option, services_subed, displayVars>>
      PROVE  PermissionsInv'
  <2>1. \A n : n \in subs' <=> IF n \in DOMAIN wish THEN wish[n] = TRUE ELSE n \in subs
    BY <1>2, ResubscribeOne
  <2>2. CASE view = "remote"
    <3>1. \A n : n \in subs' <=> n \in subs
      BY <1>2, <2>1, <2>2 DEF NoWish
    <3>2. PermissionsTypeOK' /\ OpenIsSubed' /\ CameraHearsCalls'
      BY <1>2, <2>2, <3>1 DEF PermissionsInv, PermissionsTypeOK, OpenIsSubed, CameraHearsCalls, displayVars, Serving
    <3> QED BY <1>2, <2>2, <3>1, <3>2 DEF PermissionsInv, NeverWithoutGrant, Complete, displayVars
  <2>3. CASE view = "camera"
    <3>1. wish = [audio |-> AudioEnabled /\ b]
      BY <1>2, <2>3
    <3>2. "audio" \in subs' <=> AudioEnabled /\ b
      BY <2>1, <3>1
    <3>3. subs' \subseteq ServiceNames
      <4>1. DOMAIN wish \subseteq ServiceNames BY <3>1
      <4> QED BY <1>2, <4>1, ResubscribeType DEF PermissionsInv
    <3> QED
      BY <1>2, <2>3, <3>2, <3>3 DEF PermissionsInv, PermissionsTypeOK, OpenIsSubed, NeverWithoutGrant, Complete,
         CameraHearsCalls, displayVars, Serving
  <2> QED BY <2>2, <2>3 DEF PermissionsInv, PermissionsTypeOK
<1>3. ASSUME NEW b \in BOOLEAN, AnswerCall(b)
      PROVE  PermissionsInv'
  BY <1>2, <1>3 DEF AnswerCall, CallWish
<1>4. CASE CloseCall
  <2>1. HangUpWish = IF view = "camera" THEN [audio |-> AudioEnabled /\ FALSE] ELSE NoWish
    BY DEF HangUpWish
  <2>2. ringing' \in BOOLEAN
    BY <1>4 DEF CloseCall, PermissionsInv, PermissionsTypeOK
  <2> QED BY <1>2, <1>4, <2>1, <2>2 DEF CloseCall
<1> QED BY <1>1, <1>3, <1>4

LEMMA PermissionsStep == PermissionsInv /\ [PermissionsNext]_permissionVars => PermissionsInv'
<1> SUFFICES ASSUME PermissionsInv, [PermissionsNext]_permissionVars PROVE PermissionsInv'
  OBVIOUS
<1>1. CASE Login \/ EndLogin \/ SelectSession
  BY <1>1, LoginStepsInv
<1>2. ASSUME NEW b \in BOOLEAN,
             \/ SwitchKeyboard(b) \/ SwitchClipboard(b) \/ SwitchAudio(b) \/ SwitchFile(b)
      PROVE  PermissionsInv'
  BY <1>2, SwitchKeyboardInv, SwitchClipboardInv, SwitchAudioInv, SwitchFileInv
<1>3. ASSUME NEW b \in BOOLEAN,
             \/ ShowRemoteCursor(b) \/ FollowRemoteWindow(b) \/ DisableAudio(b)
             \/ EnableFileTransfer(b) \/ DisableClipboard(b) \/ DisableKeyboard(b)
      PROVE  PermissionsInv'
  BY <1>3, ShowRemoteCursorInv, FollowRemoteWindowInv, DisableAudioInv,
     EnableFileTransferInv, DisableClipboardInv, DisableKeyboardInv
<1>4. CASE \/ \E d \in Displays, b \in BOOLEAN : SwitchDisplay(d, b)
           \/ \E list \in {"add", "sub", "set"}, ds \in SUBSET Displays : CaptureDisplays(list, ds)
  BY <1>4, DisplayStepsInv
<1>5. CASE RequestCall \/ (\E b \in BOOLEAN : AnswerCall(b)) \/ CloseCall
  BY <1>5, CallStepsInv
<1>6. CASE UNCHANGED permissionVars
  <2>1. PermissionsTypeOK'
    BY <1>6 DEF permissionVars, PermissionsInv, PermissionsTypeOK
  <2> QED BY <1>6, <2>1, ElsewhereInv DEF permissionVars, Elsewhere
<1> QED BY <1>1, <1>2, <1>3, <1>4, <1>5, <1>6 DEF PermissionsNext

\* The invariant holds in every run, for any set of displays.
THEOREM PermissionsInvariance == PermissionsSpec => []PermissionsInv
<1>1. PermissionsInit => PermissionsInv BY PermissionsBegin
<1>2. PermissionsInv /\ [PermissionsNext]_permissionVars => PermissionsInv' BY PermissionsStep
<1> QED BY <1>1, <1>2, PTL DEF PermissionsSpec

\* The clipboard, the position of the cursor and the sound are sent exactly when
\* permissions and options agree; who views the camera hears the machine exactly
\* during calls.
THEOREM ExactlyWhenAllowedAlways == PermissionsSpec => []ExactlyWhenAllowed
<1>1. PermissionsInv => ControlledExactly
  BY DEF PermissionsInv, PermissionsTypeOK, OpenIsSubed, NeverWithoutGrant, Complete, ControlledExactly, Controlling
<1>2. PermissionsInv => CameraHearsCalls
  BY DEF PermissionsInv
<1>3. PermissionsInv => ExactlyWhenAllowed
  BY <1>1, <1>2 DEF ExactlyWhenAllowed
<1> QED BY <1>3, PermissionsInvariance, PTL

\* The image of the cursor, the focused window and files: what is needed is sent,
\* and nothing is sent without a permission or an option of its own.
THEOREM SentWithGrantAlways == PermissionsSpec => []SentWithGrant
<1>1. PermissionsInv => SentWhenNeeded
  BY DEF PermissionsInv, PermissionsTypeOK, OpenIsSubed, Complete, SentWhenNeeded, Controlling
<1>2. PermissionsInv => NeverWithoutGrant
  BY DEF PermissionsInv
<1>3. PermissionsInv => SentWithGrant
  BY <1>1, <1>2 DEF SentWithGrant
<1> QED BY <1>3, PermissionsInvariance, PTL
=============================================================================
