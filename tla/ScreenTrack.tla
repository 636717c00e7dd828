---------------------------- MODULE ScreenTrack ----------------------------
(* What a screen capture promises the sessions that send its track: there  *)
(* is one track at a time, its picture only moves forward, and nothing is  *)
(* pushed into a track that has been given up.                             *)
EXTENDS Naturals

CONSTANTS Tracks, Pictures   \* numbers; 0 is no track, no picture

VARIABLES track, shown

Init == track = 0 /\ shown = 0

Open ==
    /\ track = 0 /\ track' \in Tracks
    /\ UNCHANGED shown

Show ==
    /\ track # 0 /\ shown' \in Pictures /\ shown' > shown
    /\ UNCHANGED track

Close == track # 0 /\ track' = 0 /\ shown' = 0

Next == Open \/ Show \/ Close

Spec == Init /\ [][Next]_<<track, shown>>
=============================================================================
