-------------------------- MODULE PointerGeometry --------------------------
(* Where the picture lies in its window, and how a point of it becomes a     *)
(* point of the other side's desktop.  Every operator is for one axis or     *)
(* for a rectangle at the origin: GetClientRect's left and top are 0.        *)
EXTENDS Integers

AtLeast(low, n) == IF n < low THEN low ELSE n
Clamp(n, low, high) == AtLeast(low, IF n > high THEN high ELSE n)

\* Integer division as C++ has it: towards zero.
Half(n) == IF n < 0 THEN -((-n) \div 2) ELSE n \div 2

\* To the nearest integer; a half goes away from zero.
MulDiv(n, by, over) ==
    IF n < 0 THEN -(((-n) * by + over \div 2) \div over)
             ELSE (n * by + over \div 2) \div over

-----------------------------------------------------------------------------
(* VideoRenderWnd: the picture in its window. *)

\* As large as the window's client area allows, sides in proportion.
Scaled(client, frame) ==
    LET height == (client.width * frame.height) \div frame.width
    IN  IF height > client.height
        THEN [width |-> (client.height * frame.width) \div frame.height,
              height |-> client.height]
        ELSE [width |-> client.width, height |-> height]

\* In the middle; the original size may be larger than the window.
CalculateVideoRect(client, frame, original) ==
    LET size   == IF original THEN frame ELSE Scaled(client, frame)
        width  == AtLeast(1, size.width)
        height == AtLeast(1, size.height)
    IN  [left |-> Half(client.width - width), width |-> width,
         top |-> Half(client.height - height), height |-> height]

\* A coordinate of the picture that begins at left: 0..65535 across it.
\* Beside the picture it is that of the nearest edge.
Normalized(x, left, width) ==
    MulDiv(Clamp(x, left, left + width - 1) - left, 65535,
           AtLeast(1, width - 1))

\* The full-screen view stretches the picture over the whole window.
NormalizeVideoPoint(point, client, frame, original, fullscreen) ==
    LET bounds == IF fullscreen /\ ~original
                  THEN [left |-> 0, top |-> 0,
                        width |-> client.width, height |-> client.height]
                  ELSE CalculateVideoRect(client, frame, original)
    IN  <<Normalized(point[1], bounds.left, bounds.width),
          Normalized(point[2], bounds.top, bounds.height)>>

-----------------------------------------------------------------------------
(* InputInjectorWin: FillAbsoluteMouseMove. *)

\* The pixel of the primary screen, which is the one that is captured.
PrimaryPixel(x, primary) == MulDiv(x, AtLeast(2, primary) - 1, 65535)

\* Its place across all screens, the leftmost of which begins at left.
AcrossScreens(pixel, left, all) ==
    MulDiv(pixel - left, 65535, AtLeast(2, all) - 1)

AbsoluteMove(x, primary, left, all) ==
    Clamp(AcrossScreens(PrimaryPixel(x, primary), left, all), 0, 65535)
=============================================================================
