---------------------------- MODULE MediaSetup -----------------------------
(***************************************************************************)
(* How PeerSession sets a connection up: the ICE servers from the settings *)
(* of the environment, the configuration, and for each local track the     *)
(* order of codecs and the limits of its encodings.  No state.             *)
(*                                                                         *)
(* Settings are functions from names to values, "" where none is set.      *)
(* A codec is a record of its mime type and of what PreferCodec looks for  *)
(* in its fmtp line: packetization mode 1, and the first two digits of the *)
(* profile, "" where there is none.                                        *)
(***************************************************************************)
EXTENDS Integers, Sequences, SequencesExt

-----------------------------------------------------------------------------
(* ICE servers. *)

\* The process's environment, then the registry's, then what is built in.
EnvironmentOrDefault(environment, registry, name, fallback) ==
    IF environment[name] # "" THEN environment[name]
    ELSE IF registry[name] # "" THEN registry[name] ELSE fallback

BuiltIn == [STUN_URI |-> "stun:3478", TURN_UDP_URI |-> "turn:3478?udp",
            TURN_TCP_URI |-> "turn:3478?tcp", TURNS_URI |-> "",
            TURN_USERNAME |-> "", TURN_PASSWORD |-> ""]

Settings(environment, registry) ==
    [name \in DOMAIN BuiltIn |->
        EnvironmentOrDefault(environment, registry, name, BuiltIn[name])]

TurnEnabled(settings) == settings.TURN_USERNAME # "" /\ settings.TURN_PASSWORD # ""

NoServer == [uri |-> "", username |-> "", password |-> ""]

\* TURN needs both credentials: the wrapper crashes without them.
ConfigureIceServers(settings) ==
    LET Turn(uri) == IF TurnEnabled(settings) /\ uri # ""
                     THEN [uri |-> uri, username |-> settings.TURN_USERNAME,
                           password |-> settings.TURN_PASSWORD]
                     ELSE NoServer
    IN  <<[NoServer EXCEPT !.uri = settings.STUN_URI], Turn(settings.TURN_UDP_URI),
          Turn(settings.TURN_TCP_URI), Turn(settings.TURNS_URI)>>

\* What the dialog shows, whether TURN is in use included.
IceServiceSummary(settings) ==
    [stun |-> settings.STUN_URI, udp |-> settings.TURN_UDP_URI,
     tcp |-> settings.TURN_TCP_URI, enabled |-> TurnEnabled(settings)]

\* Rates are in kbit/s.
Configuration(options, settings) ==
    [offer_to_receive_audio |-> options.receive_audio,
     offer_to_receive_video |-> options.receive_video,
     local_audio_bandwidth |-> 128, local_video_bandwidth |-> 20000,
     screencast_min_bitrate |-> 2000,
     ice_servers |-> ConfigureIceServers(settings)]

-----------------------------------------------------------------------------
(* Local tracks. *)

ProfileScore(profile) ==
    LET known == <<"64", "4d", "42">>
    IN  IF Contains(known, profile)
        THEN 10 * ((CHOOSE i \in 1..3 : known[i] = profile) - 1)
        ELSE IF profile = "" THEN 40 ELSE 30

H264Score(codec) == (IF codec.mode1 THEN 0 ELSE 100) + ProfileScore(codec.profile)

H264Scores == <<0, 10, 20, 30, 40, 100, 110, 120, 130, 140>>

\* The lowest score first; those of one score stay in their order.
ByScore(codecs) ==
    FlattenSeq([i \in DOMAIN H264Scores |->
        SelectSeq(codecs, LAMBDA c : H264Score(c) = H264Scores[i])])

NoPreference == <<>>

\* The codecs of the wanted type, then all others: none is left out.
PreferCodec(codecs, mime) ==
    LET wanted == SelectSeq(codecs, LAMBDA c : c.mime = mime)
        others == SelectSeq(codecs, LAMBDA c : c.mime # mime)
    IN  IF wanted = <<>> THEN NoPreference
        ELSE (IF mime = "video/H264" THEN ByScore(wanted) ELSE wanted) \o others

\* Every encoding gets the same limits; rates are in kbit/s.
DesktopEncoding(encoding) ==
    [encoding EXCEPT !.scale = 1, !.framerate = 30, !.min = 2500, !.max = 20000,
                     !.bitratePriority = 2, !.networkPriority = "high"]

\* What the sender of a desktop's track is set to.
AddLocalVideoTrack(codecs, encodings) ==
    [codecs |-> PreferCodec(codecs, "video/H264"),
     degradation |-> "maintain-resolution",
     encodings |-> [i \in DOMAIN encodings |-> DesktopEncoding(encodings[i])]]

AddLocalAudioTrack(codecs) == [codecs |-> PreferCodec(codecs, "audio/opus")]
=============================================================================
