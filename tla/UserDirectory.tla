--------------------------- MODULE UserDirectory ---------------------------
(***************************************************************************)
(* What the signalling server promises about names, whatever the network   *)
(* does: a user id belongs to at most one connection, a connection holds   *)
(* at most one id, an id is only taken while it is free, and it only       *)
(* becomes free again by being released.  SignalingServer implements it.   *)
(***************************************************************************)
CONSTANTS Sockets,   \* connections
          Users,     \* user ids
          NoSocket   \* the owner of a free id

VARIABLE owner       \* owner[u]: the connection that is logged in as u

Held(s) == {u \in Users : owner[u] = s}

Init == owner = [u \in Users |-> NoSocket]

\* A connection without an id takes a free one.
Claim(s, u) ==
    /\ owner[u] = NoSocket
    /\ Held(s) = {}
    /\ owner' = [owner EXCEPT ![u] = s]

\* The connection that holds u gives it up.
Release(u) ==
    /\ owner[u] # NoSocket
    /\ owner' = [owner EXCEPT ![u] = NoSocket]

Next == \/ \E s \in Sockets, u \in Users : Claim(s, u)
        \/ \E u \in Users : Release(u)

Spec == Init /\ [][Next]_owner
=============================================================================
