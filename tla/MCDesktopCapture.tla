-------------------------- MODULE MCDesktopCapture --------------------------
(* A desktop of two sizes; and the conversion of its pictures over bounded  *)
(* inputs.                                                                  *)
EXTENDS DesktopCapture, FiniteSets

P == INSTANCE PixelFormat

TwoSizes == {"small", "large"}

\* bound: pictures of at most 5 by 5 pixels, and three levels of each colour.
Sides  == 1..5
Levels == {0, 97, 255}

\* Every byte of a chroma plane is written, and by one block.
ASSUME EachBlockItsByte ==
    \A width, height \in Sides :
        \A i \in 0..P!Half(width) * P!Half(height) - 1 :
            Cardinality({place \in P!Places(width, height) :
                /\ place[1] % 2 = 0 /\ place[2] % 2 = 0
                /\ P!ChromaIndex(place[1], place[2], width) = i}) = 1

\* A picture of one colour that is captured and then rendered is that picture,
\* each colour within 3 of 255.
ASSUME PicturesSurvive ==
    \A width, height \in 1..3, p \in [b : Levels, g : Levels, r : Levels] :
        LET sent  == P!ConvertBgraToI420([place \in P!Places(width, height) |-> p],
                                         width, height)
            rendered == P!ConvertI420ToBgra(sent, width, height)
        IN  /\ P!Convertible(sent)
            /\ \A place \in P!Places(width, height), colour \in {"b", "g", "r"} :
                   rendered[place][colour] - p[colour] \in -3..3
=============================================================================
