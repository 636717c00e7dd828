--------------------------- MODULE MCPeerSession ---------------------------
(* PeerSession, whose constants are numbers; and over bounded inputs the    *)
(* pair its statistics speak of, its ICE servers and its order of codecs.   *)
EXTENDS PeerSession, TLC

S == INSTANCE MediaStats
M == INSTANCE MediaSetup

\* bound: at most three reports; pairs of two names that are selected,
\* nominated, succeeded or none of it, and a transport that selects one.
Reports ==
    [type : {"candidate-pair"}, id : {"p", "q"},
     members : {<<>>, "state" :> "succeeded", "selected" :> TRUE,
                "state" :> "succeeded" @@ "nominated" :> TRUE}]
    \cup {[type |-> "transport", id |-> "t",
           members |-> "selectedCandidatePairId" :> "q"]}

\* The pair is the first of those with the highest score, and none when no
\* pair has one.
ASSUME SelectedIsFirstOfBest ==
    \A n \in 0..3 : \A reports \in [1..n -> Reports] :
        LET pairs    == S!OfType(reports, {"candidate-pair"})
            score[i \in DOMAIN pairs] ==
                S!Score(pairs[i], S!SelectedPairId(reports))
        IN  IF \E i \in DOMAIN pairs : score[i] >= 0
            THEN \E i \in DOMAIN pairs :
                 /\ S!SelectedPair(reports) = pairs[i]
                 /\ \A j \in DOMAIN pairs :
                        score[j] <= score[i] /\ (j < i => score[j] < score[i])
            ELSE S!SelectedPair(reports) = S!NoPair

\* No TURN server is used without credentials, wherever they are set, and the
\* dialog says that TURN is enabled exactly when it is; STUN is always used.
\* bound: what is set is "x".
ASSUME TurnHasCredentials ==
    \A environment, registry \in [DOMAIN M!BuiltIn -> {"", "x"}] :
        LET settings == M!Settings(environment, registry)
            servers  == M!ConfigureIceServers(settings)
            used     == {i \in 2..4 : servers[i].uri # ""}
        IN  /\ \A i \in used : servers[i].username # "" /\ servers[i].password # ""
            /\ M!IceServiceSummary(settings).enabled = (used # {})
            /\ servers[1].uri # ""

\* bound: up to three codecs of a few kinds.
Codecs == [mime : {"video/H264"}, mode1 : BOOLEAN, profile : {"", "42", "64", "7a"}]
          \cup {[mime |-> "video/VP8", mode1 |-> FALSE, profile |-> ""]}

\* No codec is lost or doubled; those preferred come first, the best of them
\* first of all, and codecs of one score keep libwebrtc's order.
ASSUME CodecsAreOrdered ==
    \A n \in 0..3 : \A codecs \in [1..n -> Codecs] :
        LET ordered == M!PreferCodec(codecs, "video/H264")
            Rank(c) == IF c.mime = "video/H264" THEN M!H264Score(c) ELSE 1000
        IN  \/ ordered = M!NoPreference
               /\ \A i \in 1..n : codecs[i].mime # "video/H264"
            \/ \E from \in Permutations(1..n) :
               /\ ordered = [i \in 1..n |-> codecs[from[i]]]
               /\ \A i, j \in 1..n : i < j =>
                      \/ Rank(ordered[i]) < Rank(ordered[j])
                      \/ Rank(ordered[i]) = Rank(ordered[j]) /\ from[i] < from[j]
=============================================================================
