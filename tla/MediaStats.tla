---------------------------- MODULE MediaStats -----------------------------
(***************************************************************************)
(* What a session's statistics say and what the dialog shows of them:      *)
(* PeerSession's CollectPeerConnectionStats and the dialog's OnMediaStats. *)
(* There is no state of its own here; the sample before is a parameter.    *)
(*                                                                         *)
(* A report is a record of type, id and members, a function on the names   *)
(* of the members that are defined and of the type that is asked for.      *)
(* Numbers are integers: times in microseconds, delays in milliseconds,    *)
(* percentages in hundredths; what is not to be shown is None.             *)
(***************************************************************************)
EXTENDS Integers, Sequences, SequencesExt

None == -1

-----------------------------------------------------------------------------
(* PeerSession: the members of a report. *)

Has(report, name) == name \in DOMAIN report.members

NumericMember(report, name) ==
    IF Has(report, name) THEN report.members[name] ELSE 0

NumericMemberFallback(report, name, fallback) ==
    NumericMember(report, IF Has(report, name) THEN name ELSE fallback)

UnsignedMember(report, name) ==
    IF NumericMember(report, name) > 0 THEN NumericMember(report, name) ELSE 0

StringMember(report, name) ==
    IF Has(report, name) THEN report.members[name] ELSE ""

BoolMember(report, name) == Has(report, name) /\ report.members[name]

OfType(reports, types) == SelectSeq(reports, LAMBDA r : r.type \in types)

Total(reports, Amount(_)) == FoldLeft(LAMBDA sum, r : sum + Amount(r), 0, reports)

\* What the last of the reports says, each of them overwriting the one before.
LastSays(reports, Says(_), otherwise) ==
    IF reports = <<>> THEN otherwise ELSE Says(Last(reports))

-----------------------------------------------------------------------------
(* PeerSession: the route. *)

SelectedPairId(reports) ==
    LastSays(SelectSeq(reports, LAMBDA r : r.type = "transport"
                             /\ StringMember(r, "selectedCandidatePairId") # ""),
             LAMBDA r : StringMember(r, "selectedCandidatePairId"), "")

\* How sure it is that a pair is the one in use; -1: not at all.
Score(pair, selected) ==
    IF selected # "" /\ pair.id = selected THEN 100
    ELSE IF BoolMember(pair, "selected")
            \/ StringMember(pair, "googActiveConnection") = "true" THEN 80
    ELSE IF StringMember(pair, "state") # "succeeded" THEN -1
    ELSE IF BoolMember(pair, "nominated") THEN 60 ELSE 20

NoPair == [type |-> "none", id |-> "", members |-> <<>>]

\* The first of the pairs with the highest score.
SelectedPair(reports) ==
    LET selected == SelectedPairId(reports)
        Better(best, pair) == IF Score(pair, selected) > best.score
                              THEN [score |-> Score(pair, selected), pair |-> pair]
                              ELSE best
    IN  FoldLeft(Better, [score |-> -1, pair |-> NoPair],
                 OfType(reports, {"candidate-pair", "googCandidatePair"})).pair

\* The first candidate of that id: emplace keeps it.
Candidate(reports, id) ==
    LET those == SelectSeq(OfType(reports, {"local-candidate", "remote-candidate"}),
                           LAMBDA r : r.id = id)
    IN  IF those = <<>> THEN [type |-> "", protocol |-> ""]
        ELSE [type |-> StringMember(those[1], "candidateType"),
              protocol |-> StringMember(those[1], "protocol")]

Route(types) ==
    IF "relay" \in types THEN "turn-relay"
    ELSE IF types \cap {"srflx", "prflx"} # {} THEN "stun-direct"
    ELSE "host-direct"

IceRoute(reports, pair) ==
    LET local  == Candidate(reports, StringMember(pair, "localCandidateId"))
        remote == Candidate(reports, StringMember(pair, "remoteCandidateId"))
    IN  IF pair = NoPair THEN [route |-> "", protocol |-> ""]
        ELSE [route |-> Route({local.type, remote.type}),
              protocol |-> IF local.protocol # "" THEN local.protocol
                                                  ELSE remote.protocol]

\* Round trips of the media count until one is positive; a pair's replaces
\* them, and so does its lack of one.
RoundTripTime(reports, pair) ==
    LET media == SelectSeq(OfType(reports, {"remote-inbound-rtp"}),
                           LAMBDA r : Has(r, "roundTripTime"))
        positive == SelectSeq(media, LAMBDA r : r.members["roundTripTime"] > 0)
        OfMedia(r) == 1000 * r.members["roundTripTime"]
    IN  IF pair # NoPair
        THEN IF Has(pair, "currentRoundTripTime")
             THEN 1000 * NumericMember(pair, "currentRoundTripTime")
             ELSE IF Has(pair, "googRtt") THEN NumericMember(pair, "googRtt")
             ELSE None
        ELSE IF positive # <<>> THEN OfMedia(positive[1])
        ELSE LastSays(media, OfMedia, None)

-----------------------------------------------------------------------------
(* PeerSession: what is received. *)

Kind(report) ==
    IF StringMember(report, "kind") # "" THEN StringMember(report, "kind")
                                         ELSE StringMember(report, "mediaType")

Received(reports, kind) ==
    SelectSeq(OfType(reports, {"inbound-rtp", "ssrc"}), LAMBDA r : Kind(r) = kind)

Jitter(report) ==
    IF Has(report, "jitter") THEN 1000 * NumericMember(report, "jitter")
                             ELSE NumericMember(report, "googJitterReceived")

Counters(received) ==
    [available |-> \E i \in DOMAIN received :
         \E name \in {"bytesReceived", "packetsReceived", "packetsLost"} :
             Has(received[i], name),
     bytes   |-> Total(received, LAMBDA r : UnsignedMember(r, "bytesReceived")),
     packets |-> Total(received, LAMBDA r : UnsignedMember(r, "packetsReceived")),
     lost    |-> Total(received, LAMBDA r : NumericMember(r, "packetsLost")),
     jitter  |-> LastSays(SelectSeq(received, LAMBDA r : Has(r, "jitter")
                                               \/ Has(r, "googJitterReceived")),
                          Jitter, None)]

HasBuffer(report) ==
    Has(report, "jitterBufferDelay") /\ Has(report, "jitterBufferEmittedCount")

\* Whether there is a buffer is what the last report says; the delays of all
\* are added up.
Buffer(received) ==
    LET with == SelectSeq(received, HasBuffer)
    IN  [available |-> LastSays(received, LAMBDA r :
             HasBuffer(r) \/ Has(r, "googCurrentDelayMs"), FALSE),
         delay   |-> Total(with, LAMBDA r : NumericMember(r, "jitterBufferDelay")),
         count   |-> Total(with, LAMBDA r :
                         UnsignedMember(r, "jitterBufferEmittedCount")),
         playout |-> LastSays(SelectSeq(received, LAMBDA r : ~HasBuffer(r)),
                         LAMBDA r : NumericMember(r, "googCurrentDelayMs"), 0)]

Picture(received) ==
    LET Of(name, fallback) ==
            LastSays(received, LAMBDA r : NumericMemberFallback(r, name, fallback), 0)
    IN  [fps    |-> Of("framesPerSecond", "googFrameRateReceived"),
         width  |-> Of("frameWidth", "googFrameWidthReceived"),
         height |-> Of("frameHeight", "googFrameHeightReceived"),
         frames |-> Total(received, LAMBDA r : UnsignedMember(r, "framesDecoded"))]

CollectPeerConnectionStats(reports, now) ==
    LET pair == SelectedPair(reports)
    IN  [time |-> now,
         video |-> Counters(Received(reports, "video")),
         audio |-> Counters(Received(reports, "audio")),
         picture |-> Picture(Received(reports, "video")),
         buffer |-> Buffer(Received(reports, "video")),
         rtt |-> RoundTripTime(reports, pair),
         incoming |-> IF \E name \in {"availableIncomingBitrate",
                                      "googAvailableReceiveBandwidth"} : Has(pair, name)
                      THEN NumericMemberFallback(pair, "availableIncomingBitrate",
                                                 "googAvailableReceiveBandwidth")
                      ELSE None,
         ice |-> IceRoute(reports, pair)]

-----------------------------------------------------------------------------
(* The dialog: what changed between two samples. *)

Second == 1000000

\* ResetMediaStats.
NoCounters == [available |-> FALSE, bytes |-> 0, packets |-> 0, lost |-> 0,
               jitter |-> None]
NoSample ==
    [time |-> 0, video |-> NoCounters, audio |-> NoCounters,
     picture |-> [fps |-> 0, width |-> 0, height |-> 0, frames |-> 0],
     buffer |-> [available |-> FALSE, delay |-> 0, count |-> 0, playout |-> 0],
     rtt |-> None, incoming |-> None, ice |-> [route |-> "", protocol |-> ""]]

\* 0 when there is no interval: no sample before, or one that is not older.
Elapsed(previous, sample) ==
    IF previous # NoSample /\ sample.time > previous.time
    THEN sample.time - previous.time ELSE 0

ValidInterval(elapsed) == Second \div 10 <= elapsed /\ elapsed <= 10 * Second

\* A counter that has gone back counts as one that has not moved.
Grown(now, before) == IF now >= before THEN now - before ELSE 0

BitRate(now, before, elapsed) == (Grown(now, before) * 8 * Second) \div elapsed

IntervalLossPercent(now, before) ==
    LET lost  == Grown(now.lost, before.lost)
        total == Grown(now.packets, before.packets) + lost
    IN  IF total = 0 THEN 0 ELSE (lost * 10000) \div total

FramesPerSecond(now, before, elapsed) ==
    IF now.fps > 0 THEN now.fps
    ELSE IF ~ValidInterval(elapsed) \/ now.frames <= before.frames THEN None
    ELSE (Grown(now.frames, before.frames) * Second) \div elapsed

BufferTime(now, before, elapsed) ==
    IF ~now.available THEN None
    ELSE IF /\ ValidInterval(elapsed)
            /\ now.delay >= before.delay /\ now.count > before.count
         THEN ((now.delay - before.delay) * 1000) \div (now.count - before.count)
    ELSE IF now.playout > 0 THEN now.playout ELSE None

Rates(now, before, elapsed) ==
    IF now.available /\ ValidInterval(elapsed)
    THEN [rate |-> BitRate(now.bytes, before.bytes, elapsed),
          loss |-> IntervalLossPercent(now, before)]
    ELSE [rate |-> None, loss |-> None]

If(available, value) == IF available THEN value ELSE None

\* What OnMediaStats writes; channelRtt is the control channel's round trip.
Shown(sample, previous, channelRtt) ==
    LET elapsed == Elapsed(previous, sample)
    IN  [video |-> Rates(sample.video, previous.video, elapsed),
         audio |-> Rates(sample.audio, previous.audio, elapsed),
         fps |-> If(sample.video.available,
                    FramesPerSecond(sample.picture, previous.picture, elapsed)),
         buffer |-> If(sample.video.available,
                       BufferTime(sample.buffer, previous.buffer, elapsed)),
         jitter |-> sample.video.jitter,
         audioJitter |-> If(sample.audio.available, sample.audio.jitter),
         rtt |-> IF sample.rtt # None THEN sample.rtt
                                      ELSE If(channelRtt > 0, channelRtt),
         incoming |-> sample.incoming, ice |-> sample.ice]

\* A sample of the active user is shown and becomes the one before.
OnMediaStats(message, active, previous) ==
    IF message.user = active THEN message.sample ELSE previous
=============================================================================
