SPECIFICATION Spec
CONSTANTS
    Inputs <- UserInputs
    Word = 3
    MaxRtt = 1
    MaxInputs = 2
    MaxChoices = 1
    MaxPings = 1
INVARIANTS AppliedFaithfully AtMostOneLate AuthorizationSettles
PROPERTIES RttIsElapsed
CHECK_DEADLOCK TRUE
