SPECIFICATION Spec
CONSTANTS
    Inputs <- NoInputs
    Word = 1
    MaxRtt = 1
    MaxInputs = 0
    MaxChoices = 1
    MaxPings = 0
INVARIANTS ControlIsAuthorized
CHECK_DEADLOCK TRUE
