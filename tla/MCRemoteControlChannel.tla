----------------------- MODULE MCRemoteControlChannel -----------------------
(* What near's user does in the runs of RemoteControlChannel.               *)
EXTENDS RemoteControlChannel

Input(kind, arg, down) == [kind |-> kind, arg |-> arg, down |-> down]

\* Every kind of input; one button is unknown to Windows.
UserInputs == {Input("move", 0, 0), Input("wheel", 120, 0), Input("key", 65, 1),
               Input("button", 2, 1), Input("button", 1, 0),
               Input("button", 3, 1)}
NoInputs == {}
=============================================================================
