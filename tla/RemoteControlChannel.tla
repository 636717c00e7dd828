------------------------ MODULE RemoteControlChannel ------------------------
(***************************************************************************)
(* The control channel between "near", whose user steers, and "far", which *)
(* is steered: packets of fixed size on an ordered, reliable data channel. *)
(* Near's dialog turns mouse and keyboard messages into packets; far's     *)
(* rtc thread takes them off the channel and injects them if far's user    *)
(* allows it.  Both sides ping, which measures the round trip and says     *)
(* that a side knows packet 5 (position and button in one).                *)
(*                                                                         *)
(* Three threads take part: near's ui thread, far's ui thread (the box     *)
(* "allow control") and far's rtc thread, which first creates the channel  *)
(* for the one near has opened.  The data channel and Windows' SendInput   *)
(* are external.  Normalised points, of 16 bits each, stand for            *)
(* themselves; the n-th input is made at Point(n).                         *)
(***************************************************************************)
EXTENDS Integers, Sequences, ControlPacket

CONSTANTS
    Inputs,     \* what near's user may do
    Word,       \* GetTickCount is modulo this (2^32)
    MaxRtt,     \* the longest round trip that is believed (60000)
    MaxInputs,  \* bound: inputs made
    MaxChoices, \* bound: changes of the box
    MaxPings    \* bound: pings under way

ASSUME ChannelAssumption ==
    /\ Inputs \subseteq [kind : {"move"}, arg : {0}, down : {0}]
                         \cup [kind : {"wheel"}, arg : 0..255, down : {0}]
                         \cup [kind : {"button", "key"}, arg : 0..255, down : {0, 1}]
    /\ {MaxInputs, MaxChoices, MaxPings} \subseteq Nat
    /\ {Word, MaxRtt} \subseteq Nat \ {0}

Peers == {"near", "far"}
Other(p) == IF p = "near" THEN "far" ELSE "near"
Point(n) == <<n % 65536, (n + 1) % 65536>>

VARIABLES
    wire,       \* the packets on their way to each side
    open,       \* near's end of the data channel is open
    supports,   \* remote_supports_synchronized_mouse_ of each side
    rtt,        \* round_trip_time_ms_ of each side
    clock,      \* GetTickCount()
    unsent,     \* the second packet of a button near is sending
    farIsCurrent, \* far's build knows packet 5; an older one says it does not
    allowed,    \* far's remote_control_authorized_
    authorized, \* authorized_ of far's channel
    making,     \* far's rtc thread in OnDataChannel
    loaded,     \* the authorization it has read there
    choosing,   \* far's ui thread is in SetRemoteControlAuthorized
    raced,      \* the box was used between that read and its store, and not since
    inHand,     \* the packet far has found authorized and is to inject
    cursor,     \* far's mouse pointer
    effects,    \* what has been injected
    inputs,     \* what near's user has done
    choices,    \* how often far's user has used the box
    touched,    \* somebody at far has moved the mouse
    late        \* what has been injected since far's user forbade it

farVars == <<farIsCurrent, allowed, authorized, making, loaded, choosing,
             raced>>
pingVars == <<supports, rtt, clock>>
effectVars == <<cursor, effects, late>>
userVars == <<inputs, choices, touched>>
vars == <<wire, open, pingVars, unsent, farVars, inHand, effectVars, userVars>>

Packet == [type : 1..7, arg1 : Nat, arg2 : Nat, n : 0..MaxInputs,
           age : 0..(Word - 1)]

TypeOK ==
    /\ wire \in [Peers -> Seq(Packet)]
    /\ open \in BOOLEAN /\ supports \in [Peers -> BOOLEAN]
    /\ rtt \in [Peers -> 0..MaxRtt] /\ clock \in 0..(Word - 1)
    /\ unsent \in Seq(Packet) /\ inHand \in Seq(Packet)
    /\ Len(unsent) <= 1 /\ Len(inHand) <= 1
    /\ making \in {"no", "created", "loaded", "attached"}
    /\ {farIsCurrent, allowed, authorized, loaded, choosing, raced, touched}
           \subseteq BOOLEAN
    /\ inputs \in Seq(Inputs) /\ Len(inputs) <= MaxInputs
    /\ Len(effects) <= Len(inputs) /\ choices \in 0..MaxChoices
    /\ late \in 0..MaxInputs

\* Near has created and attached its channel; far's session has taken the
\* state of the box.
Init ==
    /\ wire = [p \in Peers |-> <<>>] /\ open = FALSE
    /\ supports = [p \in Peers |-> FALSE] /\ rtt = [p \in Peers |-> 0]
    /\ clock \in 0..(Word - 1) /\ unsent = <<>> /\ inHand = <<>>
    /\ farIsCurrent \in BOOLEAN
    /\ allowed \in BOOLEAN /\ authorized = FALSE
    /\ making = "no" /\ loaded = FALSE /\ choosing = FALSE /\ raced = FALSE
    /\ cursor = <<0, 0>> /\ effects = <<>> /\ inputs = <<>>
    /\ choices = 0 /\ touched = FALSE /\ late = 0

Pkt(type, arg1, arg2) ==
    [type |-> type, arg1 |-> arg1, arg2 |-> arg2, n |-> 0, age |-> 0]

Put(p, packet) == [wire EXCEPT ![p] = Append(@, packet)]

-----------------------------------------------------------------------------
(* Near: SendRemoteInput. *)

\* A legacy button follows the move to its place.
LegacyButton(move, button) == <<move, button>>

\* The input as packets: a button with its position, or behind a move when
\* the other side does not know packet 5.
Packets(input, at) ==
    CASE input.kind = "move"  -> <<Pkt(1, at[1], at[2])>>
      [] input.kind = "wheel" -> <<Pkt(3, 0, input.arg)>>
      [] input.kind = "key"   -> <<Pkt(4, input.arg, input.down)>>
      [] input.kind = "button" /\ supports["near"] ->
             <<Pkt(5, at[1], Pack(at[2], input.arg, input.down))>>
      [] OTHER -> LegacyButton(Pkt(1, at[1], at[2]),
                               Pkt(2, input.arg, input.down))

SendInput(input) ==
    /\ open /\ unsent = <<>> /\ Len(inputs) < MaxInputs
    /\ inputs' = Append(inputs, input)
    /\ LET n == Len(inputs')
           packets == [i \in DOMAIN Packets(input, Point(n)) |->
                          [Packets(input, Point(n))[i] EXCEPT !.n = n]]
       IN  wire' = Put("far", Head(packets)) /\ unsent' = Tail(packets)
    /\ UNCHANGED <<open, pingVars, farVars, inHand, effectVars, choices,
                   touched>>

SendRest ==
    /\ unsent # <<>>
    /\ wire' = Put("far", Head(unsent)) /\ unsent' = <<>>
    /\ UNCHANGED <<open, pingVars, farVars, inHand, effectVars, userVars>>

-----------------------------------------------------------------------------
(* Pings. *)

\* Bit 0 of arg1 says that a side knows packet 5.
Capability(p) == IF p = "far" /\ ~farIsCurrent THEN 0 ELSE 1

\* The pings of a side that are on their way, and their answers.
InFlight(p) == Len(SelectSeq(wire[Other(p)], LAMBDA m : m.type = 6))
               + Len(SelectSeq(wire[p], LAMBDA m : m.type = 7))

UnderWay == InFlight("near") + InFlight("far")

\* The dialog's timer finds the channel open on its side.
PingDue(p) == IF p = "near" THEN open ELSE making = "attached"

SendPing(p) ==
    /\ PingDue(p) /\ UnderWay < MaxPings
    /\ wire' = Put(Other(p), Pkt(6, Capability(p), clock))
    /\ UNCHANGED <<open, pingVars, unsent, farVars, inHand, effectVars,
                   userVars>>

\* Mutant: the difference is not taken in the counter's arithmetic.
ElapsedPlain(now, then) == IF now < then THEN then - now ELSE now - then

\* The time since a ping was sent, in the counter's arithmetic.
Elapsed(now, then) == (now - then) % Word

\* A round trip is counted as at least 1; one that is too long is ignored.
Measured(p, elapsed) ==
    IF elapsed > MaxRtt THEN rtt[p] ELSE IF elapsed = 0 THEN 1 ELSE elapsed

\* Time is looked at only while a ping is under way (it begins anywhere).
\* Bound: a ping is answered, or given up, before the counter comes round.
Tick ==
    /\ UnderWay > 0
    /\ \A p \in Peers : \A i \in DOMAIN wire[p] :
           wire[p][i].type \in {6, 7} => wire[p][i].age < Word - 1
    /\ clock' = (clock + 1) % Word
    /\ wire' = [p \in Peers |-> [i \in DOMAIN wire[p] |->
                   IF wire[p][i].type \in {6, 7}
                   THEN [wire[p][i] EXCEPT !.age = @ + 1] ELSE wire[p][i]]]
    /\ UNCHANGED <<open, supports, rtt, unsent, farVars, inHand, effectVars,
                   userVars>>

-----------------------------------------------------------------------------
(* OnMessage. *)

\* Side p's rtc thread can take the next packet.
Takes(p, types) ==
    /\ wire[p] # <<>> /\ Head(wire[p]).type \in types
    /\ p = "far" => making = "attached" /\ inHand = <<>>

OnPing(p) ==
    /\ Takes(p, {6})
    /\ LET ping == Head(wire[p])
           pong == [Pkt(7, Capability(p), ping.arg2) EXCEPT !.age = ping.age]
       IN  /\ supports' = [supports EXCEPT ![p] = ping.arg1 % 2 = 1]
           /\ wire' = [Put(Other(p), pong) EXCEPT ![p] = Tail(@)]
    /\ UNCHANGED <<open, rtt, clock, unsent, farVars, inHand, effectVars,
                   userVars>>

OnPong(p) ==
    /\ Takes(p, {7})
    /\ LET pong == Head(wire[p])
       IN  /\ supports' = [supports EXCEPT ![p] = pong.arg1 % 2 = 1]
           /\ rtt' = [rtt EXCEPT ![p] = Measured(p, Elapsed(clock, pong.arg2))]
    /\ wire' = [wire EXCEPT ![p] = Tail(@)]
    /\ UNCHANGED <<open, clock, unsent, farVars, inHand, effectVars, userVars>>

\* An older build does not know packet 5.
Known == IF farIsCurrent THEN 1..5 ELSE 1..4

\* Mutant: the permission is not looked at.
PermittedAlways == TRUE

Permitted == authorized

\* Authorization is looked at first; the packet is injected afterwards.
OnInput ==
    /\ Takes("far", 1..5)
    /\ wire' = [wire EXCEPT !["far"] = Tail(@)]
    /\ inHand' = IF Permitted /\ Head(wire["far"]).type \in Known
                 THEN <<Head(wire["far"])>> ELSE <<>>
    /\ UNCHANGED <<open, pingVars, unsent, farVars, effectVars, userVars>>

\* The input a packet stands for, without its position.
Decoded(packet) ==
    LET In(kind, arg, down) == [kind |-> kind, arg |-> arg, down |-> down]
    IN  CASE packet.type = 1 -> In("move", 0, 0)
          [] packet.type = 2 -> In("button", packet.arg1 % 256, packet.arg2)
          [] packet.type = 3 -> In("wheel", packet.arg2, 0)
          [] packet.type = 4 -> In("key", packet.arg1, packet.arg2)
          [] packet.type = 5 -> In("button", PackedButton(packet.arg2),
                                   PackedDown(packet.arg2))

Position(packet) ==
    CASE packet.type = 1 -> <<packet.arg1, packet.arg2>>
      [] packet.type = 5 -> <<packet.arg1, PackedY(packet.arg2)>>
      [] OTHER -> cursor

\* Windows knows three buttons.
Injectable(input) == input.kind # "button" \/ input.arg <= 2

\* A move that only brings a legacy button to its place is not an input.
IsInput(packet) == packet.type # 1 \/ inputs[packet.n].kind = "move"

\* SendInput: the pointer is set and the button pressed in one call.  A
\* button that does not exist is refused before anything is injected.
Apply(packet, at) ==
    /\ cursor' = IF Injectable(Decoded(packet)) THEN at ELSE cursor
    /\ IF Injectable(Decoded(packet)) /\ IsInput(packet)
       THEN /\ effects' = Append(effects, [input |-> Decoded(packet),
                    n |-> packet.n, at |-> cursor', type |-> packet.type])
            /\ late' = IF ~allowed /\ ~choosing THEN late + 1 ELSE late
       ELSE UNCHANGED <<effects, late>>

\* Mutant: the button is pressed where the pointer is.
InjectInPlace ==
    /\ inHand # <<>> /\ inHand' = <<>>
    /\ Apply(Head(inHand), IF Head(inHand).type = 5 THEN cursor
                           ELSE Position(Head(inHand)))
    /\ UNCHANGED <<wire, open, pingVars, unsent, farVars, userVars>>
Inject ==
    /\ inHand # <<>> /\ inHand' = <<>>
    /\ Apply(Head(inHand), Position(Head(inHand)))
    /\ UNCHANGED <<wire, open, pingVars, unsent, farVars, userVars>>

\* Somebody at far moves the mouse.
MoveLocally ==
    /\ cursor' = <<0, 0>> /\ touched' = TRUE
    /\ UNCHANGED <<wire, open, pingVars, unsent, farVars, inHand, effects,
                   late, inputs, choices>>

-----------------------------------------------------------------------------
(* Far: the channel is made and the box is used. *)

\* PeerSession.OnDataChannel, with the steps another thread may come between.
CreateChannel ==
    /\ making = "no" /\ making' = "created"
    /\ UNCHANGED <<loaded, authorized>>
LoadAuthorization ==
    /\ making = "created" /\ making' = "loaded"
    /\ loaded' = allowed /\ UNCHANGED authorized

\* Mutant: the channel does not get what was read.
AttachOnly ==
    making = "loaded" /\ making' = "attached" /\ UNCHANGED <<loaded, authorized>>

Attach ==
    /\ making = "loaded" /\ making' = "attached"
    /\ authorized' = loaded /\ UNCHANGED loaded

OnDataChannel ==
    /\ CreateChannel \/ LoadAuthorization \/ Attach
    /\ UNCHANGED <<wire, open, pingVars, unsent, farIsCurrent, allowed,
                   choosing, raced, inHand, effectVars, userVars>>

\* The other end of the data channel opens.
OpenChannel ==
    /\ making # "no" /\ ~open /\ open' = TRUE
    /\ UNCHANGED <<wire, pingVars, unsent, farVars, inHand, effectVars, userVars>>

\* What far's user has chosen is the opposite of what it was.
ClickBox == allowed' = ~allowed

\* SetRemoteControlAuthorized: the session's flag, then the channel's if there
\* is one.
Choose ==
    /\ ~choosing /\ choices < MaxChoices
    /\ ClickBox /\ choosing' = TRUE /\ choices' = choices + 1
    /\ late' = 0 /\ raced' = (raced \/ making = "loaded")
    /\ UNCHANGED <<wire, open, pingVars, unsent, farIsCurrent, authorized,
                   making, loaded, inHand, cursor, effects, inputs, touched>>

ChooseForChannel ==
    /\ choosing /\ choosing' = FALSE
    /\ authorized' = IF making = "no" THEN authorized ELSE allowed
    /\ raced' = (raced /\ making # "attached")
    /\ UNCHANGED <<wire, open, pingVars, unsent, farIsCurrent, allowed,
                   making, loaded, inHand, effectVars, userVars>>

Next ==
    \/ \E input \in Inputs : SendInput(input)
    \/ SendRest
    \/ \E p \in Peers : SendPing(p) \/ OnPing(p) \/ OnPong(p)
    \/ Tick
    \/ OnInput \/ Inject \/ MoveLocally
    \/ OnDataChannel \/ OpenChannel \/ Choose \/ ChooseForChannel

Spec == Init /\ [][Next]_vars

-----------------------------------------------------------------------------
(* Properties. *)

InputsUnderWay ==
    \/ inHand # <<>> \/ unsent # <<>>
    \/ \E i \in DOMAIN wire["far"] : wire["far"][i].type \in 1..5

\* What is injected was done by near's user, in that order, none of it twice,
\* and is the same key or button going the same way, whichever packet carried
\* it and whatever far's user forbids in between.  A button is pressed where
\* near's user pressed it: with packet 5 whatever happens at far, with a legacy
\* packet as long as nobody moves far's mouse and the permission does not
\* change between the two packets.  With far's permission from the start
\* everything near's user does arrives, on older builds as well: packet 5 is
\* never sent to one that ignores it.
PressedAtItsPoint(effect) ==
    effect.input.kind = "button" /\ (effect.type = 5 \/ (~touched /\ choices = 0))
        => effect.at = Point(effect.n)

AppliedFaithfully ==
    /\ \A i, j \in DOMAIN effects : i < j => effects[i].n < effects[j].n
    /\ \A i \in DOMAIN effects : /\ effects[i].input = inputs[effects[i].n]
                                 /\ PressedAtItsPoint(effects[i])
    /\ choices = 0 /\ allowed /\ ~InputsUnderWay =>
           {effects[i].n : i \in DOMAIN effects}
               = {n \in DOMAIN inputs : Injectable(inputs[n])}

\* Once the box is cleared, at most the one packet that had already been found
\* authorized is injected, however many are on their way.  Excepted is a box
\* that was used while OnDataChannel stood between reading the session's flag
\* and storing it (PeerSession.cpp:798), until it is used again.
AtMostOneLate == late <= 1 \/ raced

\* When nobody is at it, the channel's flag is what far's user chose last, the
\* choices made while the channel is created included, with that exception.
AuthorizationSettles ==
    making = "attached" /\ ~choosing /\ ~raced => authorized = allowed

\* SECURITY.md:17: the side that is controlled must authorize it.  A channel
\* that obeys, with nobody at the box, belongs to a user who allows it.
ControlIsAuthorized ==
    making = "attached" /\ ~choosing /\ authorized => allowed

\* A round trip time that is recorded is the time that has really passed since
\* the ping was sent (1 if none has), though the counter may have come round.
RttIsElapsed ==
    [][\A p \in Peers : rtt'[p] # rtt[p] =>
           LET age == Head(wire[p]).age
           IN  rtt'[p] = IF age = 0 THEN 1 ELSE age]_vars
=============================================================================
