------------------------- MODULE MCSignalingServer -------------------------
(***************************************************************************)
(* Instances of SignalingServer for TLC.                                   *)
(***************************************************************************)
EXTENDS SignalingServer, TLC

Symmetry == Permutations(Sockets) \cup Permutations(Users)

Login(u) == [type |-> "login", userId |-> u]
Signal(u) == [type |-> "signal", to |-> u, forged |-> FALSE, whole |-> TRUE]

\* Logins and messages between users, those that are refused included:
\* presence and routing.
RoutingTraffic ==
         {Login(u) : u \in Users}
    \cup {Signal(u) : u \in Users}
    \cup {[Signal(BadUser) EXCEPT !.forged = TRUE]}
    \cup {[Signal(u) EXCEPT !.whole = FALSE] : u \in Users}
    \cup {[type |-> "other"]}

\* Pings, logins good and bad, and lines that are too long.
OtherTraffic ==
         {[type |-> t] : t \in {"ping", "oversized"}}
    \cup {Login(u) : u \in Users \cup {BadUser}}

\* Texts of up to two parts, and of a field, with every character that is written as two,
\* or ends a message, or looks like a field; a text that is nothing but a
\* field's name is excepted, see NamesAreMistaken.
T == INSTANCE SignalingText

Parts == {"word", "sdp", "n", "\n", "\t", "}", ":", T!Quote, T!Backslash}
Texts == (UNION {[1..n -> Parts] : n \in 0..2} \ {<<"sdp">>})
             \cup {<<T!Quote, "sdp", c>> : c \in {T!Quote, ":"}}
Ids == {<<"ann">>, <<"bob", ":", "}">>}

\* A description reaches the session as it was written: the server finds out
\* the type and the receiver, puts in the sender, which a client cannot have
\* named, and cannot take the description for the end of the line or for a
\* field (SignalingProtocol.cpp:65, main.cpp:190-197, 214-241).
ASSUME DescriptionsAreRead ==
    \A to, from \in Ids, sdp \in Texts :
        LET sent == T!Offer(to, sdp)
            line == T!AddSender(sent, from)
        IN  /\ T!StringField(sent, "type") = <<"offer">>
            /\ T!StringField(sent, "toUserId") = to
            /\ T!StringField(sent, "fromUserId") = <<>>
            /\ T!StringField(line, "type") = <<"offer">>
            /\ T!StringField(line, "fromUserId") = from
            /\ T!StringField(line, "sdp") = sdp
            /\ "\n" \notin {line[i] : i \in DOMAIN line}

\* So does a candidate, with its index.
ASSUME CandidatesAreRead ==
    \A from \in Ids, text \in Texts, index \in 0..9 :
        LET line == T!AddSender(T!Candidate(<<"bob">>, <<"video">>, index, text), from)
        IN  /\ T!StringField(line, "mid") = <<"video">>
            /\ T!IntField(line, "mlineIndex", 0) = index
            /\ T!StringField(line, "candidate") = text
            /\ T!StringField(line, "fromUserId") = from

\* The list of users is read as it is written, whoever is online
\* (main.cpp:164-188, SignalingProtocol.cpp:52-63).
ASSUME PresenceIsRead ==
    /\ \A others \in {<<>>, <<<<"ann">>>>, <<<<"ann">>, <<"bob", ":", "}">>>>} :
           T!UserIds(T!BuildPresenceSnapshot(others)) = others
    /\ \A id \in Ids, online \in BOOLEAN :
           LET line == T!BroadcastPresence(id, online)
           IN  /\ T!StringField(line, "userId") = id
               /\ T!BoolField(line, "online", FALSE) = online

\* A login is read as the same user by the server.
ASSUME LoginIsRead ==
    \A id \in Ids : T!StringField(T!Login(id), "userId") = id

\* What the search for a name in quotes gets wrong (SignalingProtocol.cpp:9):
\* a user whose id is the name of a later field is taken for that field.  To
\* one called candidate no candidate can be sent, nor anything to one called
\* fromUserId, and a user called userId is missing from the list or doubles
\* the next one.
ASSUME NamesAreMistaken ==
    /\ \A text \in {<<"word">>, <<"n">>} :
           LET sent == T!Candidate(<<"candidate">>, <<"video">>, 0, text)
           IN  T!StringField(sent, "candidate") = <<"video">>
    /\ T!StringField(T!Hangup(<<"fromUserId">>), "fromUserId") = <<>>
    /\ T!StringField(T!Offer(<<"fromUserId">>, <<"word">>), "fromUserId") # <<>>
    /\ T!UserIds(T!BuildPresenceSnapshot(<<<<"userId">>, <<"zoe">>>>))
           = <<<<"userId">>, <<"zoe">>, <<"zoe">>>>
=============================================================================
