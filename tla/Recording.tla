---------------------------- MODULE Recording ----------------------------
(***************************************************************************)
(* What the recorder promises: recordings follow one another, each of them *)
(* has a file of its own, and only the file of the open recording grows.   *)
(***************************************************************************)
EXTENDS Naturals, Sequences

CONSTANTS Frames, Files, None

VARIABLES open,   \* the file being recorded, None between recordings
          files   \* the frames written to each file

Init == open = None /\ files = [k \in Files |-> <<>>]

\* A recording begins, in a file nothing has been written to.
Begin(k) == open = None /\ files[k] = <<>> /\ open' = k /\ UNCHANGED files

Write(f) ==
    /\ open # None
    /\ files' = [files EXCEPT ![open] = Append(@, f)]
    /\ UNCHANGED open

Finish == open # None /\ open' = None /\ UNCHANGED files

Next == (\E k \in Files : Begin(k)) \/ (\E f \in Frames : Write(f)) \/ Finish

Spec == Init /\ [][Next]_<<open, files>>
=============================================================================
