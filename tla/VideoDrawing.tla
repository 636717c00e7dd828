---------------------------- MODULE VideoDrawing ----------------------------
(***************************************************************************)
(* How the dialog's VideoRenderWnd draws the picture it keeps: a Direct3D  *)
(* device with the swap chain's buffers, of the window's size, and one     *)
(* texture, of the picture's size, into which the pixels are copied once.  *)
(* All of it runs on the ui thread, one handler per action; every call of  *)
(* Direct3D may fail.  Where the picture comes from is VideoView's matter. *)
(*                                                                         *)
(* Shaders, the sampler and a window without extent are left out: what     *)
(* fails on them fails as a device that cannot be made.                    *)
(***************************************************************************)
EXTENDS Naturals

CONSTANTS
    Sizes,      \* sizes of pictures and of the window
    NoSize,     \* the size 0 by 0
    MaxPictures \* bound: pictures that come

VARIABLES
    frame,    \* frame_: a picture; without pixels it is Blank
    dirty,    \* frame_dirty_
    away,     \* the full-screen window is open and has the pictures
    window,   \* the window's size
    device,   \* d3d_
    painted,  \* what became of the last OnPaint; "due" when another is due
    visible,  \* the picture that is seen, 0 for none
    arrived,  \* pictures that have come
    botched,  \* a texture or its view could not be created
    misfit    \* pixels were copied to a texture of another size, or to none

drawingVars == <<frame, dirty, away, window, device, painted, visible, arrived,
                 botched, misfit>>

Blank == [no |-> 0, size |-> NoSize]
Picture == [no : 1..MaxPictures, size : Sizes]
\* no is the picture whose pixels it holds; view is video_view_.
Texture == [size : Sizes, no : 0..MaxPictures, view : BOOLEAN]
NoTexture == [size |-> NoSize, no |-> 0, view |-> FALSE]
NoDevice == [buffers |-> NoSize, kept |-> NoSize, texture |-> NoTexture]
\* kept is texture_width and texture_height.
Device == [buffers : Sizes, kept : Sizes \cup {NoSize},
           texture : Texture \cup {NoTexture}]

TypeOK ==
    /\ frame \in Picture \cup {Blank} /\ window \in Sizes
    /\ {dirty, away, botched, misfit} \subseteq BOOLEAN
    /\ misfit \/ device \in Device \cup {NoDevice}
    /\ painted \in {"due", "presented", "busy", "grey"}
    /\ {visible, arrived} \subseteq 0..MaxPictures

Init ==
    /\ frame = Blank /\ dirty = FALSE /\ away = FALSE
    /\ window \in Sizes /\ device = NoDevice
    /\ painted = "due" /\ visible = 0 /\ arrived = 0
    /\ botched = FALSE /\ misfit = FALSE

-----------------------------------------------------------------------------
(* What changes the picture or the window. *)

Keep(picture) == frame' = picture /\ dirty' = TRUE /\ painted' = "due"

\* A picture of a size that has not been seen, or the empty one of a hangup.
Arrives(picture) ==
    \/ /\ arrived < MaxPictures /\ arrived' = arrived + 1
       /\ \E size \in Sizes : picture = [no |-> arrived', size |-> size]
    \/ picture = Blank /\ UNCHANGED arrived

\* Mutant: the texture is taken to be good for pictures of its size.
OnFrameSameSize ==
    /\ ~away /\ frame' \in Picture \cup {Blank} /\ Arrives(frame')
    /\ dirty' = (dirty \/ frame'.size # frame.size) /\ painted' = "due"
    /\ UNCHANGED <<away, window, device, visible, botched, misfit>>

OnFrame ==
    /\ ~away
    /\ \E picture \in Picture \cup {Blank} : Arrives(picture) /\ Keep(picture)
    /\ UNCHANGED <<away, window, device, visible, botched, misfit>>

ToggleScaleMode ==
    /\ dirty' = TRUE /\ painted' = "due"
    /\ UNCHANGED <<frame, away, window, device, visible, arrived, botched,
                   misfit>>

\* The picture goes to the full-screen window, and the device is released.
EnterFullscreen ==
    /\ ~away /\ away' = TRUE
    /\ frame' = Blank /\ dirty' = FALSE /\ device' = NoDevice
    /\ UNCHANGED <<window, painted, visible, arrived, botched, misfit>>

\* It comes back, counted anew, or a newer one does.
ExitFullscreen ==
    /\ away /\ away' = FALSE
    /\ \E picture \in Picture \cup {Blank} : Arrives(picture) /\ Keep(picture)
    /\ UNCHANGED <<window, device, visible, botched, misfit>>

\* What ResizeD3d makes of a device: it is released if the buffers fail.
Resized(d, size) ==
    IF d.buffers \in {size, NoSize} THEN {d}
    ELSE {[d EXCEPT !.buffers = size], NoDevice}

OnSize ==
    /\ window' \in Sizes \ {window} /\ device' \in Resized(device, window')
    /\ painted' = "due"
    /\ UNCHANGED <<frame, dirty, away, visible, arrived, botched, misfit>>

-----------------------------------------------------------------------------
(* OnPaint and RenderD3d. *)

\* EnsureD3d: the device to draw with; a new one has no texture.
Ensured ==
    IF device = NoDevice
    THEN {[NoDevice EXCEPT !.buffers = window], NoDevice}
    ELSE Resized(device, window)

\* A picture that has not been copied to this device, or was changed.
MustCopy(d) ==
    frame # Blank /\ (dirty \/ device = NoDevice \/ d.kept # frame.size)

\* The sizes are kept when texture and view have been created; a texture
\* without a view stays.
Created(d) == [d EXCEPT !.kept = frame.size,
                        !.texture = [size |-> frame.size, no |-> 0, view |-> TRUE]]
NotCreated(d) ==
    {[d EXCEPT !.texture = NoTexture],
     [d EXCEPT !.texture = [size |-> frame.size, no |-> 0, view |-> FALSE]]}

\* The window is filled with grey.
Grey(d) ==
    /\ device' = d /\ dirty' = (dirty \/ (device = NoDevice /\ d # NoDevice))
    /\ painted' = "grey" /\ visible' = 0

\* What Present does with what was drawn: if the queue is busy it is dropped;
\* a lost device is released.
Present(d) ==
    \/ /\ device' = d /\ painted' = "presented"
       /\ visible' = IF d.texture.view /\ frame # Blank THEN d.texture.no ELSE 0
    \/ device' = d /\ painted' = "busy" /\ UNCHANGED visible
    \/ device' \in {d, NoDevice} /\ painted' = "grey" /\ visible' = 0

\* Map and memcpy into the texture there is.
Copied(d) == [d EXCEPT !.texture.no = frame.no]

PaintFails(d) ==
    /\ \/ d = NoDevice /\ Grey(d) /\ UNCHANGED botched
       \/ /\ d # NoDevice /\ MustCopy(d) /\ d.kept # frame.size
          /\ \E e \in NotCreated(d) : Grey(e)
          /\ botched' = TRUE
       \/ /\ d # NoDevice /\ MustCopy(d) /\ UNCHANGED botched
          /\ Grey(IF d.kept = frame.size THEN d ELSE Created(d))
    /\ UNCHANGED misfit

PaintCopies(d) ==
    /\ d # NoDevice /\ MustCopy(d) /\ dirty' = FALSE
    /\ LET e == IF d.kept = frame.size THEN d ELSE Created(d)
       IN  Present(Copied(e)) /\ misfit' = (e.texture.size # frame.size)
    /\ UNCHANGED botched

PaintAgain(d) ==
    /\ d # NoDevice /\ ~MustCopy(d) /\ Present(d)
    /\ dirty' = (dirty \/ device = NoDevice)
    /\ UNCHANGED <<botched, misfit>>

\* After a misfit, which is undefined, nothing is modelled any more.
OnPaint ==
    /\ painted = "due" /\ ~misfit
    /\ \E d \in Ensured : PaintFails(d) \/ PaintCopies(d) \/ PaintAgain(d)
    /\ UNCHANGED <<frame, away, window, arrived>>

Next ==
    \/ OnFrame \/ ToggleScaleMode \/ EnterFullscreen \/ ExitFullscreen
    \/ OnSize \/ OnPaint

Spec == Init /\ [][Next]_drawingVars

-----------------------------------------------------------------------------
(* Properties. *)

\* VideoRenderWnd.cpp:418: what has been presented is the picture that is
\* kept, the newest one, whatever the device, the window's size and full
\* screen went through in between; and pixels are copied only to a texture of
\* their size.  Excepted from the second is the time after a texture or its
\* view could not be created: the sizes kept are still those of the texture
\* before, and a picture of that size goes to what is there now.
ShownIsFrame ==
    /\ painted = "presented" /\ ~away /\ ~misfit => visible = frame.no
    /\ misfit => botched
=============================================================================
