---------------------------- MODULE Permissions ----------------------------
(***************************************************************************)
(* server/connection.rs: which services one connection is subscribed to.   *)
(*                                                                         *)
(* The connection manager grants and revokes permissions at any time       *)
(* (SwitchPermission), the peer sets options at any time, in its login and *)
(* later (update_options), captures displays and calls.  Each handler      *)
(* subscribes to and unsubscribes from the few services it thinks depend   *)
(* on what it changed; nothing ever looks at all of them again.            *)
(*                                                                         *)
(* The services themselves are module Server's: a subscription is here     *)
(* what that module calls wanted.                                          *)
(***************************************************************************)
EXTENDS Naturals, FiniteSets

CONSTANTS
  Displays,      \* display indices
  PrimaryDisplay \* display_service::PRIMARY_DISPLAY_IDX

ASSUME PermissionsAssumption ==
  IsFiniteSet(Displays) /\ PrimaryDisplay \in Displays

VARIABLES
  view,        \* remote control, or view of the camera
  phase,       \* before the login, within it, or after it
  granted,     \* the permissions keyboard, clipboard, audio, file
  option,      \* what the peer's options say, by option
  services_subed,  \* try_sub_monitor_services has run
  subs,        \* services subscribed to, but video
  captured,    \* video services subscribed to
  display_idx, \* the display shown
  multi_ui_session, \* more than one display is captured, as last counted
  calling,     \* voice_calling
  ringing      \* voice_call_request_timestamp is set

permissionVars == <<view, phase, granted, option, services_subed, subs, captured,
          display_idx, multi_ui_session, calling, ringing>>
displayVars == <<captured, display_idx, multi_ui_session>>

ServiceNames == {"cursor", "pos", "focus", "clipboard", "file", "audio"}
PermissionNames == {"keyboard", "clipboard", "audio", "file"}
OptionNames == {"show_remote_cursor", "follow_remote_window", "disable_audio",
                "enable_file_transfer", "disable_clipboard", "disable_keyboard"}

PermissionsTypeOK ==
  /\ view \in {"remote", "camera"}
  /\ phase \in {"new", "login", "confirm", "open"}
  /\ granted \subseteq PermissionNames
  /\ option \in [OptionNames -> BOOLEAN]
  /\ services_subed \in BOOLEAN
  /\ subs \subseteq ServiceNames
  /\ captured \subseteq Displays
  /\ display_idx \in Displays
  /\ multi_ui_session \in BOOLEAN
  /\ calling \in BOOLEAN /\ ringing \in BOOLEAN
  /\ phase = "new" => /\ subs \subseteq {"cursor", "clipboard", "file"}
                      /\ captured = {} /\ ~services_subed /\ ~calling

\* Config::get_option may withhold any permission from the beginning.
PermissionsInit ==
  /\ view \in {"remote", "camera"}
  /\ phase = "new"
  /\ granted \in SUBSET PermissionNames
  /\ option = [o \in OptionNames |-> FALSE]
  /\ services_subed = FALSE
  /\ subs = {} /\ captured = {}
  /\ display_idx = PrimaryDisplay
  /\ multi_ui_session = FALSE
  /\ calling = FALSE /\ ringing = FALSE

-----------------------------------------------------------------------------
(* What the permissions and the options allow.                             *)

PeerKeyboardEnabled == "keyboard" \in granted /\ ~option.disable_keyboard
ClipboardEnabled == "clipboard" \in granted /\ ~option.disable_clipboard
CanSubClipboard == ClipboardEnabled /\ PeerKeyboardEnabled
AudioEnabled == "audio" \in granted /\ ~option.disable_audio
FileTransferEnabled == "file" \in granted /\ option.enable_file_transfer
CanSubFileClipboard == ClipboardEnabled /\ FileTransferEnabled
WantsCursor == PeerKeyboardEnabled \/ option.show_remote_cursor

\* Server::subscribe for the services wish is defined for, the others stay.
Resubscribe(wish) ==
  subs' = (subs \ DOMAIN wish) \cup {n \in DOMAIN wish : wish[n]}

NoWish == [n \in {} |-> FALSE]

\* A connection that views the camera hears the machine during a call only.
AudioWish ==
  IF view = "camera" /\ ~calling /\ AudioEnabled THEN NoWish ELSE [audio |-> AudioEnabled]

-----------------------------------------------------------------------------
(* Login: send_logon_response applies the options of the login, and then   *)
(* subscribes to the rest.                                                 *)

Login ==
  /\ phase = "new"
  /\ phase' = "login"
  /\ UNCHANGED <<view, granted, option, services_subed, subs, displayVars, calling, ringing>>

\* the services left out, noperms in try_sub_monitor_services
Withheld ==
  {n \in ServiceNames :
    \/ n = "cursor" /\ ~WantsCursor
    \/ n = "pos" /\ ~option.show_remote_cursor
    \/ n = "focus" /\ ~option.follow_remote_window
    \/ n = "clipboard" /\ ~CanSubClipboard
    \/ n = "file" /\ ~CanSubFileClipboard
    \/ n = "audio" /\ ~AudioEnabled}

\* try_sub_monitor_services or try_sub_camera_displays: add_connection only
\* adds, and only the primary display.
SubServices ==
  /\ IF view = "camera" THEN UNCHANGED <<services_subed, subs>>
                        ELSE /\ services_subed' = TRUE
                             /\ subs' = subs \cup (ServiceNames \ Withheld)
  /\ captured' = captured \cup {PrimaryDisplay}

\* The end of send_logon_response; with several sessions on the machine the
\* peer first has to select one.
EndLogin ==
  /\ phase = "login"
  /\ \/ phase' = "open" /\ SubServices
     \/ phase' = "confirm" /\ UNCHANGED <<services_subed, subs, captured>>
  /\ granted' = IF view = "camera" THEN granted \ {"keyboard"} ELSE granted
  /\ UNCHANGED <<view, option, display_idx, multi_ui_session, calling, ringing>>

\* SelectedSid: the peer may select again, which for a remote control
\* connection subscribes to nothing more.
SelectSession ==
  /\ phase \in {"confirm", "open"}
  /\ phase' = "open"
  /\ IF services_subed THEN UNCHANGED <<services_subed, subs, captured>> ELSE SubServices
  /\ UNCHANGED <<view, granted, option, display_idx, multi_ui_session, calling, ringing>>

-----------------------------------------------------------------------------
(* Permissions and options.  The connection manager offers the switches of *)
(* a connection as soon as it shows it, while the peer still waits to be   *)
(* accepted too, and only that of the sound asks whether it is authorised. *)

\* update_options is only reached by an authorised peer
LoggedInBug == TRUE
LoggedIn == phase # "new"

Serving == phase \in {"confirm", "open"}

\* not in the middle of send_logon_response
Switch(name, enabled) ==
  /\ phase # "login"
  /\ granted' = IF enabled THEN granted \cup {name} ELSE granted \ {name}
  /\ UNCHANGED <<view, phase, option, services_subed, displayVars, calling, ringing>>

\* what the switch of the keyboard makes of the cursor: not WantsCursor
CursorAfterSwitch(enabled) == enabled \/ option.show_remote_cursor

SwitchKeyboard(enabled) ==
  /\ Switch("keyboard", enabled)
  /\ Resubscribe([clipboard |-> CanSubClipboard', file |-> CanSubFileClipboard',
                  cursor |-> CursorAfterSwitch(enabled)])

SwitchClipboard(enabled) ==
  /\ Switch("clipboard", enabled)
  /\ Resubscribe([clipboard |-> CanSubClipboard'])

SwitchAudio(enabled) ==
  /\ Switch("audio", enabled)
  /\ IF LoggedIn THEN Resubscribe(AudioWish') ELSE UNCHANGED subs

\* services the switch of the file permission concerns
FileWish == [file |-> CanSubFileClipboard]

SwitchFile(enabled) ==
  /\ Switch("file", enabled)
  /\ Resubscribe(FileWish')

\* update_options takes one option after the other: a message that sets several
\* is as good as several messages.
Set(name, yes) ==
  /\ LoggedIn
  /\ option' = [option EXCEPT ![name] = yes]
  /\ UNCHANGED <<view, phase, granted, services_subed, displayVars, calling, ringing>>

ShowRemoteCursor(yes) ==
  /\ Set("show_remote_cursor", yes)
  /\ Resubscribe([cursor |-> WantsCursor', pos |-> yes])

FollowRemoteWindow(yes) ==
  /\ Set("follow_remote_window", yes)
  /\ Resubscribe([focus |-> yes])

DisableAudio(yes) ==
  /\ Set("disable_audio", yes)
  /\ Resubscribe(AudioWish')

EnableFileTransfer(yes) ==
  /\ Set("enable_file_transfer", yes)
  /\ Resubscribe(FileWish')

DisableClipboard(yes) ==
  /\ Set("disable_clipboard", yes)
  /\ Resubscribe([clipboard |-> CanSubClipboard'])

\* services the option disable_keyboard concerns
KeyboardWishBug == [file |-> CanSubFileClipboard, cursor |-> WantsCursor]
KeyboardWish == [clipboard |-> CanSubClipboard, file |-> CanSubFileClipboard,
                 cursor |-> WantsCursor]

DisableKeyboard(yes) ==
  /\ Set("disable_keyboard", yes)
  /\ Resubscribe(KeyboardWish')

-----------------------------------------------------------------------------
(* Displays.                                                               *)

\* switch_display_to: an old peer (~multi_ui) sees one display at a time, a
\* newer one sends CaptureDisplays next.
SwitchDisplay(d, multi_ui) ==
  /\ Serving /\ d # display_idx
  /\ captured' = (IF multi_ui THEN captured ELSE captured \ {display_idx}) \cup {d}
  /\ display_idx' = d
  /\ UNCHANGED <<view, phase, granted, option, services_subed, subs,
                 multi_ui_session, calling, ringing>>

\* capture_displays with the list add, sub or set: note that with sub it is the
\* displays that are not listed that are unsubscribed.
Capturing(list, ds) ==
  CASE list = "add" -> captured \cup ds
    [] list = "sub" -> captured \cap ds
    [] list = "set" -> ds

\* whether the focus is followed after a count of the displays
FocusAfterCountBug(several) == several
FocusAfterCount(several) == ~several

CaptureDisplays(list, ds) ==
  /\ Serving /\ (list = "set" \/ ds # {})
  /\ captured' = Capturing(list, ds)
  /\ multi_ui_session' = (Cardinality(captured') > 1)
  /\ IF option.follow_remote_window
       THEN Resubscribe([focus |-> FocusAfterCount(multi_ui_session')])
       ELSE UNCHANGED subs
  /\ UNCHANGED <<view, phase, granted, option, services_subed, display_idx, calling, ringing>>

-----------------------------------------------------------------------------
(* Voice calls.                                                            *)

RequestCall ==
  /\ Serving
  /\ ringing' = TRUE
  /\ UNCHANGED <<view, phase, granted, option, services_subed, subs, displayVars, calling>>

CallWish(accepted) == IF view = "camera" THEN [audio |-> AudioEnabled /\ accepted] ELSE NoWish

\* handle_voice_call: the connection manager answers.
AnswerCall(accepted) ==
  /\ Serving /\ ringing
  /\ ringing' = FALSE
  /\ calling' = accepted
  /\ Resubscribe(CallWish(accepted))
  /\ UNCHANGED <<view, phase, granted, option, services_subed, displayVars>>

\* what close_voice_call does to the audio of a camera connection
HangUpWish == IF view = "camera" THEN [audio |-> FALSE] ELSE NoWish

CloseCall ==
  /\ Serving
  /\ calling' = FALSE
  /\ Resubscribe(HangUpWish)
  /\ UNCHANGED <<view, phase, granted, option, services_subed, displayVars, ringing>>

-----------------------------------------------------------------------------
PermissionsNext ==
  \/ Login \/ EndLogin \/ SelectSession
  \/ \E b \in BOOLEAN :
       \/ SwitchKeyboard(b) \/ SwitchClipboard(b) \/ SwitchAudio(b) \/ SwitchFile(b)
       \/ ShowRemoteCursor(b) \/ FollowRemoteWindow(b) \/ DisableAudio(b)
       \/ EnableFileTransfer(b) \/ DisableClipboard(b) \/ DisableKeyboard(b)
       \/ AnswerCall(b)
  \/ \E d \in Displays, b \in BOOLEAN : SwitchDisplay(d, b)
  \/ \E list \in {"add", "sub", "set"}, ds \in SUBSET Displays : CaptureDisplays(list, ds)
  \/ RequestCall \/ CloseCall

PermissionsSpec == PermissionsInit /\ [][PermissionsNext]_permissionVars
-----------------------------------------------------------------------------
(* Properties.                                                             *)

Controlling == view = "remote" /\ phase = "open"

\* The clipboard, the position of the cursor and the sound of a connection that
\* controls the machine
ControlledExactly ==
  Controlling =>
    /\ "clipboard" \in subs <=> CanSubClipboard
    /\ "pos" \in subs <=> option.show_remote_cursor
    /\ "audio" \in subs <=> AudioEnabled

\* A connection that views the camera hears the machine during a call it may
\* hear, and then only.
CameraHearsCalls ==
  view = "camera" => ("audio" \in subs <=> calling /\ AudioEnabled)

\* The clipboard, the position of the cursor and the sound are sent exactly
\* when permissions and options agree, however they were changed; to who views
\* the camera the sound, exactly during a call.
ExactlyWhenAllowed == ControlledExactly /\ CameraHearsCalls

\* The image of the cursor and the focused window are sent whenever they are
\* needed (a newcomer of several displays has no window to follow).
SentWhenNeeded ==
  Controlling =>
    /\ WantsCursor => "cursor" \in subs
    /\ option.follow_remote_window /\ ~multi_ui_session => "focus" \in subs

\* Nothing is sent without its own permission or option, to a peer that waits to
\* be accepted neither; of the cursor that is less than WantsCursor (a peer that
\* disabled its keyboard after all), and of files less than CanSubFileClipboard
\* (which is not asked again when the clipboard is disabled).
NeverWithoutGrant ==
  view = "remote" =>
    /\ "clipboard" \in subs => CanSubClipboard
    /\ "pos" \in subs => option.show_remote_cursor
    /\ "audio" \in subs => AudioEnabled
    /\ "cursor" \in subs => "keyboard" \in granted \/ option.show_remote_cursor
    /\ "file" \in subs => FileTransferEnabled
    /\ "focus" \in subs => option.follow_remote_window

\* What a peer is sent is bounded on both sides: all that it needs once it controls
\* the machine, and at no time anything it has no permission or option for, in
\* whatever order they change.
SentWithGrant == SentWhenNeeded /\ NeverWithoutGrant
=============================================================================
