SPECIFICATION Spec
CONSTANTS
    Ann = Ann
    Bob = Bob
    Cid = Cid
    Nobody = Nobody
    Users = {Ann, Bob, Cid}
    Operators = {Ann}
    Recorders = {}
    Gatherers = {Bob}
    Calls <- BobThenCid
    Sends <- AnnSends
    MaxFaults = 0
INVARIANTS InputStaysWithItsCall MediaFollowsSessions
CHECK_DEADLOCK FALSE
