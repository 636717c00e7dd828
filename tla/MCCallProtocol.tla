--------------------------- MODULE MCCallProtocol ---------------------------
(* Ann sends her screen, controls and records.                              *)
EXTENDS CallProtocol

CONSTANTS Ann, Bob, Cid

\* Ann calls Bob, then one of them calls the other.
AnnThenEither == <<{<<Ann, Bob>>}, {<<Ann, Bob>>, <<Bob, Ann>>}>>

\* Bob calls Ann, then Cid does.
BobThenCid == <<{<<Bob, Ann>>}, {<<Cid, Ann>>}>>

AnnSends == [u \in Users |-> IF u = Ann THEN {"screen"} ELSE {}]
=============================================================================
