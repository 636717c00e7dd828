SPECIFICATION Spec
CONSTANTS
    Ann = Ann
    Bob = Bob
    Cid = Cid
    Nobody = Nobody
    Users = {Ann, Bob}
    Operators = {Ann}
    Recorders = {Ann}
    Gatherers = {}
    Calls <- AnnThenEither
    Sends <- AnnSends
    MaxFaults = 1
INVARIANTS HangupReleasesUncrossed HalfOpenByFailureOnly
CHECK_DEADLOCK FALSE
