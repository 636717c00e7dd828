------------------------- MODULE MCVideoRecorder -------------------------
(* VideoRecorder with two decoders, three sizes of which two can be encoded *)
(* and a queue of two frames.                                               *)
EXTENDS VideoRecorder, TLC

CONSTANTS d1, d2, small, large, odd

MCDecoders == {d1, d2}
MCSizes == {small, large, odd}
MCEncodable == {small, large}

Symmetry == Permutations(MCDecoders) \cup Permutations(MCEncodable)
=============================================================================
