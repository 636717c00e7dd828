---------------------------- MODULE MCVideoView ----------------------------
(* Users are alike; buttons are not.  A behaviour is one of VideoView or    *)
(* one of a window's drawing, VideoDrawing, which share no variable.        *)
EXTENDS VideoView, TLC

CONSTANTS Ann, Bob, Left, Right, Key, Sizes, NoSize, MaxPictures

ASSUME DrawingAssumption == NoSize \notin Sizes /\ MaxPictures \in Nat

VARIABLES frame, dirty, away, window, device, painted, visible, arrived,
          botched, misfit,
          draws       \* which of the two

D == INSTANCE VideoDrawing

drawing == <<frame, dirty, away, window, device, painted, visible, arrived,
             botched, misfit>>

EitherInit ==
    /\ Init /\ D!Init /\ draws \in BOOLEAN
    /\ IF draws THEN ~steered ELSE window = CHOOSE size \in Sizes : TRUE

EitherNext ==
    /\ UNCHANGED draws
    /\ \/ ~draws /\ Next /\ UNCHANGED drawing
       \/ draws /\ D!Next /\ UNCHANGED vars

EitherSpec == EitherInit /\ [][EitherNext]_<<vars, drawing, draws>>

ShownIsFrame == D!ShownIsFrame

\* Bound: nothing more is asked of a behaviour in which a release may be lost.
Unexcused == ~excused

Alike == Permutations({Ann, Bob})
=============================================================================
