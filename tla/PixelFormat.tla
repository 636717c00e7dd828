---------------------------- MODULE PixelFormat ----------------------------
(***************************************************************************)
(* The conversions of pictures on both sides: DxgiDesktopCapturer's        *)
(* ConvertBgraToI420, before a picture is pushed to the track, and         *)
(* RemoteVideoRenderer's ConvertI420ToBgra, which OnFrame falls back to    *)
(* when libwebrtc's own conversion fails.  No state.                       *)
(*                                                                         *)
(* A picture is a function from places <<x, y>> to pixels [b, g, r]; a     *)
(* plane has a stride and data, the bytes from 0 on.                       *)
(***************************************************************************)
EXTENDS Integers

Byte  == 0..255
Pixel == [b : Byte, g : Byte, r : Byte]

Places(width, height) == (0..width - 1) \X (0..height - 1)

Clamp(value) == IF value < 0 THEN 0 ELSE IF value > 255 THEN 255 ELSE value

-----------------------------------------------------------------------------
(* The capturer. *)

\* A shift to the right rounds down, of a negative number too, as \div does.
Luma(b, g, r) == Clamp((66 * r + 129 * g + 25 * b + 128) \div 256 + 16)
ChromaU(b, g, r) == Clamp((-38 * r - 74 * g + 112 * b + 128) \div 256 + 128)
ChromaV(b, g, r) == Clamp((112 * r - 94 * g - 18 * b + 128) \div 256 + 128)

Half(length) == (length + 1) \div 2

ChromaIndex(x, y, width) == (y \div 2) * Half(width) + x \div 2

\* The sum of a quantity over the two by two pixels from a place on, of which
\* those beyond the right and the lower edge do not exist.
OverBlock(amount, x, y, width, height) ==
    LET At(dx, dy) == IF x + dx < width /\ y + dy < height
                      THEN amount[<<x + dx, y + dy>>] ELSE 0
    IN  At(0, 0) + At(1, 0) + At(0, 1) + At(1, 1)

Mean(amount, x, y, width, height) ==
    OverBlock(amount, x, y, width, height)
        \div OverBlock([place \in Places(width, height) |-> 1], x, y, width, height)

MeanPixel(picture, x, y, width, height) ==
    LET Of(colour) == [place \in Places(width, height) |-> picture[place][colour]]
    IN  [colour \in {"b", "g", "r"} |-> Mean(Of(colour), x, y, width, height)]

\* A chroma byte is that of the block whose index it has.
ConvertBgraToI420(picture, width, height) ==
    LET size == Half(width) * Half(height)
        BlockOf(i) == CHOOSE place \in Places(width, height) :
            /\ place[1] % 2 = 0 /\ place[2] % 2 = 0
            /\ ChromaIndex(place[1], place[2], width) = i
        Chroma(Of(_, _, _)) == [i \in 0..size - 1 |->
            LET p == MeanPixel(picture, BlockOf(i)[1], BlockOf(i)[2], width, height)
            IN  Of(p.b, p.g, p.r)]
    IN  [y |-> [stride |-> width,
                data |-> [i \in 0..width * height - 1 |->
                    LET p == picture[<<i % width, i \div width>>]
                    IN  Luma(p.b, p.g, p.r)]],
         u |-> [stride |-> Half(width), data |-> Chroma(ChromaU)],
         v |-> [stride |-> Half(width), data |-> Chroma(ChromaV)]]

-----------------------------------------------------------------------------
(* The renderer. *)

LumaAbove(y) == IF y > 16 THEN y - 16 ELSE 0

Bgra(y, u, v) ==
    LET c == LumaAbove(y)
        d == u - 128
        e == v - 128
    IN  [b |-> Clamp((298 * c + 516 * d + 128) \div 256),
         g |-> Clamp((298 * c - 100 * d - 208 * e + 128) \div 256),
         r |-> Clamp((298 * c + 409 * e + 128) \div 256)]

\* A missing plane has no data.
Convertible(frame) ==
    \A plane \in {frame.y, frame.u, frame.v} :
        DOMAIN plane.data # {} /\ plane.stride > 0

ConvertI420ToBgra(frame, width, height) ==
    [place \in Places(width, height) |->
        LET x == place[1]
            y == place[2]
            At(plane, column, row) == plane.data[row * plane.stride + column]
        IN  Bgra(At(frame.y, x, y), At(frame.u, x \div 2, y \div 2),
                 At(frame.v, x \div 2, y \div 2))]
=============================================================================
