----------------------------- MODULE VideoView -----------------------------
(***************************************************************************)
(* The picture of the remote side and the input given to it: the decoder   *)
(* threads of the sessions (RemoteVideoRenderer.OnFrame) post frames to a  *)
(* window; the ui thread takes them off its message queue and keeps the    *)
(* last one (VideoRenderWnd).  The window in the dialog can open a second  *)
(* one that covers the screen; from then on the decoders post to that, and *)
(* after it back to the first.  Mouse and keyboard messages of the window  *)
(* in front go to the active user while keyboard control is on.            *)
(*                                                                         *)
(* The ui thread's handlers are one action each, except for leaving full   *)
(* screen, where decoders may come between the steps.  Windows is          *)
(* external: messages posted by all threads are taken in order; those of a *)
(* window that is destroyed vanish.  A picture without pixels, which is    *)
(* what Clear posts, and no picture are the same here.  A second offer to  *)
(* a session that has a renderer is left out.                              *)
(***************************************************************************)
EXTENDS Integers, Sequences

CONSTANTS
    Users,      \* remote users
    Nobody,     \* no user is active; the user of an empty picture
    Buttons,    \* mouse buttons
    Doubles,    \* the buttons whose double click has a handler
    Keys,       \* keys that are forwarded
    MaxViews,   \* bound: times full screen is entered
    MaxFrames,  \* bound: frames decoded
    MaxPosted   \* bound: no hangup while so many messages wait (one, with input)

ASSUME ViewAssumption ==
    /\ Nobody \notin Users /\ Buttons \cap Keys = {}
    /\ MaxViews \in Nat \ {0} /\ MaxFrames \in Nat \ {0} /\ MaxPosted \in Nat

VARIABLES
    ui,         \* the ui thread's place in ExitFullscreen
    full,       \* the full-screen window (fullscreen_view_), by number; 0: none
    fullscreen, \* fullscreen_
    views,      \* full-screen windows opened so far
    picture,    \* frame_ of the dialog's window and of the full-screen one
    posted,     \* WM_VIDEO_FRAME messages in the thread's queue
    sessions,   \* users with a session
    active,     \* active_remote_user_id_
    target,     \* target_ of each session's renderer; 0 is the dialog's window
    inHand,     \* the frame each decoder converts, with the target it has read
    frames,     \* frames decoded so far
    control,    \* keyboard_control_active_
    original,   \* original_size_
    focus,      \* the window in front has the focus
    capture,    \* it has captured the mouse
    inside,     \* the pointer is over it
    pressed,    \* what the user holds down
    alt,        \* Alt is down without Ctrl: keys come as WM_SYSKEYDOWN, WM_SYSKEYUP
    clicked,    \* the button that would make a double click without handler
    held,       \* what the other side has been told is down
    steered,    \* this behaviour is about input
    strayed,    \* users whose target was closed while another was active
    overtaken,  \* a frame for the dialog's window was taken out of turn
    failed,     \* a session ended without a hangup
    excused     \* a release may have got lost: see each place that sets it

viewVars == <<ui, full, fullscreen, views, picture, posted>>
sessionVars == <<sessions, active, target>>
decoderVars == <<inHand, frames>>
inputVars == <<original, focus, capture, inside, pressed, alt, clicked>>
farVars == <<control, held, excused>>
ghostVars == <<steered, strayed, overtaken, failed>>
vars == <<viewVars, sessionVars, decoderVars, inputVars, farVars, ghostVars>>

Window == 0..MaxViews
Picture == [user : Users \cup {Nobody}, no : 0..MaxFrames]
Blank == [user |-> Nobody, no |-> 0]
Message == [to : Window, picture : Picture]

FlagsOK ==
    {fullscreen, control, original, focus, capture, inside, alt, steered,
     overtaken, failed, excused} \subseteq BOOLEAN

DataOK ==
    /\ ui \in {"free", "leaving", "drained"}
    /\ {full, views} \subseteq Window
    /\ picture \in [{"dialog", "full"} -> Picture]
    /\ posted \in Seq(Message)
    /\ sessions \subseteq Users /\ active \in Users \cup {Nobody}
    /\ target \in [Users -> Window]
    /\ inHand \in [Users -> Seq(Message)]
    /\ \A u \in Users : Len(inHand[u]) <= 1 /\ (u \notin sessions => inHand[u] = <<>>)
    /\ frames \in 0..MaxFrames
    /\ pressed \subseteq Buttons \cup Keys /\ held \subseteq Buttons \cup Keys
    /\ clicked \subseteq Buttons
    /\ strayed \subseteq Users

TypeOK == FlagsOK /\ DataOK

\* Bound: a behaviour has many frames, or one frame, one full screen and input.
Init ==
    /\ ui = "free" /\ full = 0 /\ fullscreen = FALSE
    /\ picture = [w \in {"dialog", "full"} |-> Blank] /\ posted = <<>>
    /\ sessions = {} /\ active = Nobody /\ target = [u \in Users |-> 0]
    /\ inHand = [u \in Users |-> <<>>]
    /\ steered \in BOOLEAN
    /\ frames = IF steered THEN MaxFrames - 1 ELSE 0
    /\ views = IF steered THEN MaxViews - 1 ELSE 0
    /\ control = FALSE /\ held = {} /\ excused = FALSE
    /\ original = FALSE /\ focus = FALSE /\ capture = FALSE /\ inside = FALSE
    /\ pressed = {} /\ alt = FALSE /\ clicked = {}
    /\ strayed = {} /\ overtaken = FALSE /\ failed = FALSE

Free == ui = "free"
Room == Len(posted) < IF steered THEN 1 ELSE MaxPosted
IsWindow(w) == w = 0 \/ w = full

-----------------------------------------------------------------------------
(* The dialog. *)

\* SetKeyboardControlActive(FALSE): nothing that is held is released.
ControlOff ==
    /\ control' = FALSE /\ UNCHANGED held
    /\ excused' = (excused \/ held # {})

\* A message of another user, or a call to one, makes that user active.
MakeActive(u) ==
    /\ active' = u
    /\ IF u = active THEN UNCHANGED farVars ELSE ControlOff

\* Call or offer: the session gets a renderer for the dialog's window.
BeginSession(u) ==
    /\ Free /\ u \notin sessions
    /\ sessions' = sessions \cup {u} /\ MakeActive(u)
    /\ target' = [target EXCEPT ![u] = 0]
    /\ strayed' = strayed \ {u}
    /\ UNCHANGED <<viewVars, decoderVars, inputVars, steered, overtaken,
                   failed>>

\* Any other message of a user.
Signal(u) ==
    /\ Free /\ u # active /\ MakeActive(u)
    /\ UNCHANGED <<viewVars, sessions, target, decoderVars, inputVars,
                   ghostVars>>

\* Submit: the frame is posted to the dialog's window.
Clear == posted' = Append(posted, [to |-> 0, picture |-> Blank])

\* Mutant: the picture is cleared while a decoder may still have one.
HangupClearsFirst(u) ==
    /\ Free /\ Room /\ Clear /\ excused' = (excused \/ held # {})
    /\ sessions' = sessions \ {u} /\ active' = Nobody
    /\ control' = (control /\ u = active) /\ UNCHANGED held
    /\ UNCHANGED <<ui, full, fullscreen, views, picture, target, decoderVars,
                   inputVars, ghostVars>>

\* A hangup from u.  Close waits for a decoder that is at work.  Control of an
\* active user stays on; nothing that is held is released.
RemoteHangup(u) ==
    /\ Free /\ Room /\ inHand[u] = <<>>
    /\ sessions' = sessions \ {u} /\ active' = Nobody
    /\ control' = (control /\ u = active) /\ UNCHANGED held
    /\ excused' = (excused \/ held # {})
    /\ Clear
    /\ UNCHANGED <<ui, full, fullscreen, views, picture, target, decoderVars,
                   inputVars, ghostVars>>

OnBnClickedHangup ==
    /\ Free /\ ControlOff /\ active' = Nobody
    /\ \/ active \notin sessions /\ UNCHANGED <<sessions, posted>>
       \/ /\ active \in sessions /\ inHand[active] = <<>>
          /\ Room /\ Clear /\ sessions' = sessions \ {active}
    /\ UNCHANGED <<ui, full, fullscreen, views, picture, target, decoderVars,
                   inputVars, ghostVars>>

\* The active user's connection is interrupted, or an earlier session's end
\* is heard of late.
Interrupted ==
    /\ Free /\ active # Nobody /\ ControlOff
    /\ UNCHANGED <<viewVars, sessionVars, decoderVars, inputVars, ghostVars>>

\* A session that failed is removed, and its last picture stays.
RemoveFailed(u) ==
    /\ Free /\ u \in sessions /\ inHand[u] = <<>> /\ failed' = TRUE
    /\ sessions' = sessions \ {u}
    /\ active' = IF active = u THEN Nobody ELSE active
    /\ IF active = u THEN ControlOff ELSE UNCHANGED farVars
    /\ UNCHANGED <<viewVars, target, decoderVars, inputVars, steered, strayed,
                   overtaken>>

-----------------------------------------------------------------------------
(* RemoteVideoRenderer.OnFrame, on a decoder thread. *)

\* The target is read first; without a window there, or if it cannot be
\* converted, the frame goes nowhere.
Decode(u) ==
    /\ u \in sessions /\ inHand[u] = <<>> /\ frames < MaxFrames
    /\ frames' = frames + 1
    /\ inHand' = IF IsWindow(target[u])
                 THEN [inHand EXCEPT ![u] =
                          <<[to |-> target[u],
                             picture |-> [user |-> u, no |-> frames']]>>]
                 ELSE inHand
    /\ UNCHANGED <<viewVars, sessionVars, inputVars, farVars, ghostVars>>

\* The frame is freed here if its window has gone.
PostFrame(u) ==
    /\ inHand[u] # <<>> /\ inHand' = [inHand EXCEPT ![u] = <<>>]
    /\ posted' = IF IsWindow(inHand[u][1].to) THEN posted \o inHand[u] ELSE posted
    /\ UNCHANGED <<ui, full, fullscreen, views, picture, frames, sessionVars,
                   inputVars, farVars, ghostVars>>

-----------------------------------------------------------------------------
(* VideoRenderWnd: frames. *)

\* What is left of the queue when the messages for w are taken out, and the
\* last one of those.
Others(w) ==
    LET left[i \in 0..Len(posted)] ==
            IF i = 0 THEN <<>>
            ELSE IF posted[i].to = w THEN left[i-1]
                                     ELSE Append(left[i-1], posted[i])
    IN  left[Len(posted)]

Last(w) == CHOOSE i \in DOMAIN posted :
              posted[i].to = w /\ \A j \in (i+1)..Len(posted) : posted[j].to # w

\* Some message for w lies behind one for another window.
OutOfTurn(w) == \E i, j \in DOMAIN posted :
                    i < j /\ posted[i].to # w /\ posted[j].to = w

\* The next message's window takes all its frames and keeps the newest; the
\* dialog's window hands it to the full-screen one if there is one.
OnFrame ==
    /\ Free /\ posted # <<>>
    /\ LET w == Head(posted).to
           shows == IF full # 0 THEN "full" ELSE "dialog"
       IN  /\ picture' = [picture EXCEPT ![shows] = posted[Last(w)].picture]
           /\ posted' = Others(w)
           /\ overtaken' = (overtaken \/ OutOfTurn(w))
    /\ UNCHANGED <<ui, full, fullscreen, views, sessionVars, decoderVars,
                   inputVars, farVars, steered, strayed, failed>>

-----------------------------------------------------------------------------
(* VideoRenderWnd: full screen. *)

\* fullscreen_changed_callback_: the active session's renderer alone is told.
Retarget(w) ==
    target' = IF active \in sessions THEN [target EXCEPT ![active] = w] ELSE target

\* The new window gets the picture, focus and mouse.
EnterFullscreen ==
    /\ Free /\ ~fullscreen /\ views < MaxViews
    /\ views' = views + 1 /\ full' = views' /\ fullscreen' = TRUE
    /\ picture' = [dialog |-> Blank, full |-> picture["dialog"]]
    /\ Retarget(full')
    /\ focus' = TRUE /\ capture' = TRUE /\ clicked' = {}
    /\ UNCHANGED <<ui, posted, sessions, active, decoderVars, original, inside,
                   pressed, alt, farVars, ghostVars>>

\* Mutant: the renderer is not told.
ExitUntold ==
    /\ Free /\ fullscreen /\ fullscreen' = FALSE /\ ui' = "leaving"
    /\ strayed' = strayed \cup {u \in sessions \ {active} : target[u] = full}
    /\ UNCHANGED <<full, views, picture, posted, sessionVars, decoderVars,
                   inputVars, farVars, steered, overtaken, failed>>

ExitFullscreen ==
    /\ Free /\ fullscreen /\ fullscreen' = FALSE /\ ui' = "leaving"
    /\ Retarget(0)
    /\ strayed' = strayed \cup {u \in sessions \ {active} : target[u] = full}
    /\ UNCHANGED <<full, views, picture, posted, sessions, active, decoderVars,
                   inputVars, farVars, steered, overtaken, failed>>

\* Mutant: the picture goes with its window.
PictureLeft ==
    /\ ui = "leaving" /\ ui' = "drained"
    /\ picture' = [picture EXCEPT !["full"] = Blank] /\ posted' = Others(full)
    /\ UNCHANGED <<full, fullscreen, views, sessionVars, decoderVars,
                   inputVars, farVars, ghostVars>>

\* The picture goes back; OnDestroy frees the frames that still wait.
DrainView ==
    /\ ui = "leaving" /\ ui' = "drained"
    /\ picture' = [dialog |-> picture["full"], full |-> Blank]
    /\ posted' = Others(full)
    /\ UNCHANGED <<full, fullscreen, views, sessionVars, decoderVars,
                   inputVars, farVars, ghostVars>>

\* The window is gone, with a frame a decoder has posted since.  The mouse is
\* no longer captured, so that a button's release may go elsewhere.
ViewGone ==
    /\ ui = "drained" /\ ui' = "free"
    /\ full' = 0 /\ posted' = Others(full)
    /\ focus' = TRUE /\ capture' = FALSE /\ clicked' = {}
    /\ excused' = (excused \/ held \cap Buttons # {})
    /\ UNCHANGED <<fullscreen, views, picture, sessionVars, decoderVars,
                   original, inside, pressed, alt, control, held, ghostVars>>

-----------------------------------------------------------------------------
(* VideoRenderWnd: input. *)

Steers == steered /\ Free
StillView == UNCHANGED <<viewVars, sessionVars, decoderVars, ghostVars>>

ToggleScaleMode ==
    /\ Steers /\ original' = ~original
    /\ StillView
    /\ UNCHANGED <<focus, capture, inside, pressed, alt, clicked, farVars>>

\* SendRemoteInput.
Sends == control /\ active \in sessions

\* NormalizeVideoPoint: there must be a picture, or all of the full screen.
Located ==
    \/ full # 0 /\ (~original \/ picture["full"] # Blank)
    \/ full = 0 /\ picture["dialog"] # Blank

\* The window in front gets what the mouse does.
HasMouse == capture \/ inside

Presses(b) == Steers /\ b \in Buttons \ pressed /\ pressed' = pressed \cup {b}

\* Mutant: the mouse is not captured.
ButtonDownOnly(b) ==
    /\ Presses(b) /\ focus' = HasMouse
    /\ held' = IF HasMouse /\ Sends /\ Located THEN held \cup {b} ELSE held
    /\ clicked' = IF HasMouse THEN {b} \ Doubles ELSE {}
    /\ StillView /\ UNCHANGED <<original, inside, alt, control, excused, capture>>

\* OnLButtonDown and its like, and OnLButtonDblClk for a second press; a click
\* beside the window takes its focus.
ButtonDown(b) ==
    /\ Presses(b)
    /\ focus' = HasMouse /\ capture' = HasMouse
    /\ held' = IF HasMouse /\ Sends /\ Located THEN held \cup {b} ELSE held
    /\ clicked' = IF HasMouse THEN {b} \ Doubles ELSE {}
    /\ excused' = (excused \/ (~HasMouse /\ held \cap Keys # {}))
    /\ StillView /\ UNCHANGED <<original, inside, alt, control>>

\* The second press of a double click of a button without a handler for it:
\* nothing is sent, and neither focus nor mouse is asked for.
ButtonDblClk(b) ==
    /\ Presses(b) /\ HasMouse /\ b \in clicked /\ clicked' = {}
    /\ StillView /\ UNCHANGED <<original, focus, capture, inside, alt, farVars>>

\* OnLButtonUp and its like: sent, then the mouse is let go, except by the
\* full-screen window, with the other button still down or not.
ButtonUp(b) ==
    /\ Steers /\ b \in Buttons \cap pressed /\ pressed' = pressed \ {b}
    /\ held' = IF HasMouse /\ Sends /\ Located THEN held \ {b} ELSE held
    /\ capture' = (capture /\ full # 0)
    /\ excused' = (\/ excused
                   \/ full = 0 /\ (held \ {b}) \cap Buttons # {}
                   \/ HasMouse /\ b \in held /\ ~Located)
    /\ StillView /\ UNCHANGED <<original, focus, inside, alt, clicked, control>>

\* The window's handlers for keys are called: there is none for a system key.
KeysHandled == focus /\ ~alt

\* Once, or again while the key is down.
KeyDown(k) ==
    /\ Steers /\ pressed' = pressed \cup {k}
    /\ held' = IF KeysHandled /\ Sends THEN held \cup {k} ELSE held
    /\ StillView /\ UNCHANGED <<original, focus, capture, inside, alt, clicked,
                                control, excused>>

\* A key let go while Alt is down is not released on the other side.
KeyUp(k) ==
    /\ Steers /\ k \in Keys \cap pressed /\ pressed' = pressed \ {k}
    /\ held' = IF KeysHandled /\ Sends THEN held \ {k} ELSE held
    /\ excused' = (excused \/ (alt /\ k \in held))
    /\ StillView /\ UNCHANGED <<original, focus, capture, inside, alt, clicked,
                                control>>

AltKey ==
    /\ Steers /\ alt' = ~alt
    /\ StillView
    /\ UNCHANGED <<original, focus, capture, inside, pressed, clicked, farVars>>

MovePointer ==
    /\ Steers /\ inside' = ~inside
    /\ StillView
    /\ UNCHANGED <<original, focus, capture, pressed, alt, clicked, farVars>>

\* Another window is activated, or the keyboard goes to another control or to
\* the menu that Alt opens: OnActivate of the full-screen window lets the mouse
\* go; the dialog's window may lose it.  Nothing held is released.
Deactivate ==
    /\ Steers /\ focus /\ focus' = FALSE
    /\ capture' \in {FALSE, capture} /\ (full # 0 => ~capture')
    /\ excused' = (excused \/ held # {})
    /\ StillView
    /\ UNCHANGED <<original, inside, pressed, alt, clicked, control, held>>

\* OnActivate of the full-screen window, and OnMouseActivate of either.
Activate ==
    /\ Steers /\ ~focus /\ focus' = TRUE
    /\ full # 0 \/ HasMouse
    /\ capture' = (capture \/ full # 0)
    /\ StillView /\ UNCHANGED <<original, inside, pressed, alt, clicked, farVars>>

\* The button in the dialog; the channel is open.
KeyboardControl ==
    /\ Steers /\ full = 0
    /\ \/ control /\ ControlOff /\ UNCHANGED focus
       \/ /\ ~control /\ active \in sessions
          /\ control' = TRUE /\ focus' = TRUE /\ UNCHANGED <<held, excused>>
    /\ StillView /\ UNCHANGED <<original, capture, inside, pressed, alt, clicked>>

Input ==
    \/ ToggleScaleMode \/ MovePointer \/ Deactivate \/ Activate
    \/ KeyboardControl \/ AltKey
    \/ \E b \in Buttons : ButtonDown(b) \/ ButtonDblClk(b) \/ ButtonUp(b)
    \/ \E k \in Keys : KeyDown(k) \/ KeyUp(k)

Next ==
    \/ \E u \in Users : \/ BeginSession(u) \/ Signal(u) \/ RemoteHangup(u)
                        \/ RemoveFailed(u) \/ Decode(u) \/ PostFrame(u)
    \/ OnBnClickedHangup \/ Interrupted
    \/ OnFrame \/ EnterFullscreen \/ ExitFullscreen \/ DrainView \/ ViewGone
    \/ Input

Spec == Init /\ [][Next]_vars

-----------------------------------------------------------------------------
(* Properties. *)

Shown == picture[IF full # 0 /\ ui # "drained" THEN "full" ELSE "dialog"]

\* The picture of a user never goes back to an earlier one, in the dialog, in
\* full screen and on the way between them, and it goes away by a message only.
\* Excepted is the dialog's window taking a frame out of turn: its PeekMessage
\* passes by what waits for the full-screen window, when a session posts to
\* one and then to the other.
PictureForward ==
    [][~overtaken' =>
         /\ Shown'.user = Shown.user => Shown'.no >= Shown.no
         /\ Shown' = Blank => Shown = Blank \/ (posted' # posted /\ ui = "free")]_vars

\* When all sessions have been hung up and all messages taken, no picture is
\* left, with the same exception; a session that fails leaves its last one.
NothingShownAfterHangup ==
    sessions = {} /\ posted = <<>> /\ ui = "free" /\ ~overtaken /\ ~failed =>
        picture = [w \in {"dialog", "full"} |-> Blank]

\* VideoRenderWnd.cpp:610: the decoders post to a window that exists, but for
\* a session that was not the active one when its full screen was left: that
\* one is not told, and stays without picture and recording.
TargetsExist ==
    ui = "free" => \A u \in sessions : IsWindow(target[u]) \/ u \in strayed

\* What the other side holds down is what the user holds down, wherever the
\* pointer goes and whether full screen is entered meanwhile.  Excepted are the
\* places where the code loses a release, each of which sets excused: control
\* is switched off, the session is hung up or fails, or the window loses the
\* focus or full screen is left with something held; a key is let go while Alt
\* is down (VideoRenderWnd.cpp:71-91 has no handler for system keys), or a
\* click goes beside the window while one is held; of two buttons the first
\* one let go lets the mouse go; a button is let go where there is no picture.
HeldIsPressed == held \subseteq pressed \/ excused
=============================================================================
