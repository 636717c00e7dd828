SPECIFICATION Spec
CONSTANTS
    MaxLocal = 0
    MaxRemote = 0
    MaxOffers = 2
    MaxAnswers = 0
    MaxEvents = 0
INVARIANT AnswersAreAnswers
CHECK_DEADLOCK FALSE
