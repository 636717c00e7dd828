--------------------- MODULE RemoteControlChannelProofs ---------------------
(***************************************************************************)
(* The remote-control channel, for every length of the history:            *)
(*                                                                         *)
(*   - far's permission: the channel's flag is what far's user chose last, *)
(*     and at most one packet slips in after the box was cleared, unless   *)
(*     it was used between OnDataChannel's read and its store;             *)
(*   - what arrives: inputs are done once, in order, at their place, and   *)
(*     the round trip time is the time that has passed;                    *)
(*   - the numbers: the packed argument of packet 5, and the way of a      *)
(*     point from the picture to the desktop.                              *)
(*                                                                         *)
(* What arrives is kept for the packets that are still on their way        *)
(* (Under): they lie in the order of their inputs and behind those that    *)
(* were done (OrderKept), each says what its input was (CarriedKept), and  *)
(* what was done is what the inputs say (EffectsKept, PlacedKept).         *)
(***************************************************************************)
EXTENDS RemoteControlChannel, PointerGeometry, SequenceTheorems, TLAPS

\* What OnDataChannel has read is still what far's user wants when it is passed
\* on, unless the box was used meanwhile.
ChoiceKept ==
    /\ making \in {"no", "created", "loaded", "attached"}
    /\ allowed \in BOOLEAN
    /\ making = "loaded" /\ ~raced => loaded = allowed
    /\ AuthorizationSettles

\* The packet in hand is the one that may be late.
LateKept ==
    /\ late \in Nat
    /\ allowed \/ choosing => late = 0
    /\ ~allowed /\ ~choosing /\ ~raced =>
           late <= 1 /\ (inHand # <<>> => late = 0)

Permission == ChoiceKept /\ LateKept

LEMMA ChoiceInit == Init => ChoiceKept
BY DEF Init, ChoiceKept, AuthorizationSettles

LEMMA ChoiceStep ==
    ASSUME ChoiceKept, [Next]_vars
    PROVE  ChoiceKept'
<1> USE DEF ChoiceKept, AuthorizationSettles
<1>1. CASE UNCHANGED farVars
  BY <1>1 DEF farVars
<1>2. CASE OnDataChannel
  <2>1. CASE CreateChannel
    BY <1>2, <2>1 DEF OnDataChannel, CreateChannel
  <2>2. CASE LoadAuthorization
    BY <1>2, <2>2 DEF OnDataChannel, LoadAuthorization
  <2>3. CASE Attach
    BY <1>2, <2>3 DEF OnDataChannel, Attach
  <2> QED
    BY <1>2, <2>1, <2>2, <2>3 DEF OnDataChannel
<1>3. CASE Choose
  BY <1>3 DEF Choose, ClickBox
<1>4. CASE ChooseForChannel
  BY <1>4 DEF ChooseForChannel
<1>5. ~(OnDataChannel \/ Choose \/ ChooseForChannel) => UNCHANGED farVars
  BY DEF Next, vars, SendInput, SendRest, SendPing, OnPing, OnPong, Tick,
         OnInput, Inject, MoveLocally, OpenChannel
<1> QED
  BY <1>1, <1>2, <1>3, <1>4, <1>5

LEMMA LateInit == Init => LateKept
BY DEF Init, LateKept

LEMMA LateStep ==
    ASSUME ChoiceKept, LateKept, [Next]_vars
    PROVE  LateKept'
<1> USE DEF LateKept
<1>1. CASE OnInput
  <2>1. making = "attached"
    BY <1>1 DEF OnInput, Takes
  <2>2. ~allowed /\ ~choosing /\ ~raced => ~authorized
    BY <2>1 DEF ChoiceKept, AuthorizationSettles
  <2>3. ~allowed /\ ~choosing /\ ~raced => inHand' = <<>>
    BY <1>1, <2>2 DEF OnInput, Permitted
  <2> QED
    BY <1>1, <2>3 DEF OnInput, farVars, effectVars
<1>2. CASE Inject
  BY <1>2 DEF Inject, Apply, farVars
<1>3. CASE Choose
  BY <1>3 DEF Choose, ClickBox
<1>4. CASE ChooseForChannel
  BY <1>4 DEF ChooseForChannel, effectVars
<1>5. CASE OnDataChannel
  BY <1>5 DEF OnDataChannel, effectVars
<1>6. CASE UNCHANGED <<allowed, choosing, raced, inHand, late>>
  BY <1>6
<1>7. ~(OnInput \/ Inject \/ Choose \/ ChooseForChannel \/ OnDataChannel)
          => UNCHANGED <<allowed, choosing, raced, inHand, late>>
  BY DEF Next, vars, farVars, effectVars, SendInput, SendRest, SendPing,
         OnPing, OnPong, Tick, MoveLocally, OpenChannel
<1> QED
  BY <1>1, <1>2, <1>3, <1>4, <1>5, <1>6, <1>7

\* What far's flag, the packet in hand and the count of late ones are at every
\* step of OnDataChannel, SetRemoteControlAuthorized and OnMessage.
THEOREM PermissionKept == Spec => []Permission
<1>1. Init => Permission
  BY ChoiceInit, LateInit DEF Permission
<1>2. Permission /\ [Next]_vars => Permission'
  BY ChoiceStep, LateStep DEF Permission
<1> QED
  BY <1>1, <1>2, PTL DEF Spec

\* When nobody is at it, the channel's flag is what far's user chose last, unless
\* the box was used between OnDataChannel's read and its store, and not since.
THEOREM AuthorizationSettlesTheorem == Spec => []AuthorizationSettles
<1>1. Permission => AuthorizationSettles
  BY DEF Permission, ChoiceKept
<1> QED
  BY <1>1, PermissionKept, PTL

\* Once the box is cleared at most one packet is still injected, whatever is
\* on its way, with the same exception.
THEOREM AtMostOneLateTheorem == Spec => []AtMostOneLate
<1>1. Permission => AtMostOneLate
  BY DEF Permission, LateKept, AtMostOneLate
<1> QED
  BY <1>1, PermissionKept, PTL

-----------------------------------------------------------------------------
(* ControlPacket.                                                        *)

\* SendMouseButton packs a 16-bit y, an 8-bit button and the direction into
\* the argument of packet 5, and OnMessage gets the same three back.
THEOREM PackRoundTrip ==
    ASSUME NEW y \in Nat, NEW button \in Nat, NEW down \in Nat,
           y < 65536, button < 256, down < 2
    PROVE  /\ PackedY(Pack(y, button, down)) = y
           /\ PackedButton(Pack(y, button, down)) = button
           /\ PackedDown(Pack(y, button, down)) = down
<1>1. (y + button * 65536 + down * 16777216) % 65536 = y
  <2>1. (y + button * 65536) % 65536 = y
    BY SMT
  <2>2. CASE down = 0
    BY <2>1, <2>2, SMT
  <2>3. CASE down = 1
    <3>1. (y + button * 65536 + 16777216) % 65536 = y
      BY SMT
    <3> QED
      BY <2>3, <3>1, SMT
  <2> QED
    BY <2>2, <2>3, SMT
<1>2. ((y + button * 65536 + down * 16777216) \div 65536) % 256 = button
  BY SMT
<1>3. ((y + button * 65536 + down * 16777216) \div 16777216) % 2 = down
  BY SMT
<1> QED
  BY <1>1, <1>2, <1>3 DEF Pack, PackedY, PackedButton, PackedDown

\* The packed value is a non-negative 32-bit integer: the casts between int
\* and unsigned that carry it do not change it.
THEOREM PackedFits ==
    ASSUME NEW y \in Nat, NEW button \in Nat, NEW down \in Nat,
           y < 65536, button < 256, down < 2
    PROVE  Pack(y, button, down) \in Nat /\ Pack(y, button, down) < 2147483648
BY SMT DEF Pack

-----------------------------------------------------------------------------
(* What near's user does arrives. *)

Members(s) == {s[i] : i \in DOMAIN s}

\* The packets in a sequence that carry what near's user did.
Steering(s) == {m \in Members(s) : m.type \in 1..5}

\* Packets go in the order of the inputs, a legacy button's move first.
Before(a, b) == \/ a.n < b.n
                \/ a.n = b.n /\ a.type = 1 /\ b.type = 2

Ordered(s) == \A i, j \in DOMAIN s :
    i < j /\ s[i].type \in 1..5 /\ s[j].type \in 1..5 => Before(s[i], s[j])

\* All that is under way between near's user and far's screen.
Under == Steering(inHand) \cup Steering(wire["far"]) \cup Steering(unsent)

Effect == [input : Inputs, n : 1..MaxInputs, at : Nat \X Nat, type : 1..5]

Typed ==
    /\ wire \in [Peers -> Seq(Packet)]
    /\ unsent \in Seq(Packet) /\ Len(unsent) <= 1
    /\ \A m \in Members(unsent) : m.type = 2
    /\ inHand \in Seq(Packet) /\ Len(inHand) <= 1
    /\ \A m \in Members(inHand) : m.type \in 1..5
    /\ inputs \in Seq(Inputs) /\ Len(inputs) <= MaxInputs
    /\ cursor \in Nat \X Nat
    /\ clock \in 0..(Word - 1) /\ rtt \in [Peers -> 0..MaxRtt]
    /\ choices \in 0..MaxChoices

\* A ping, or its answer, carries the time it was sent at, and has the age
\* that the counter has counted since, which may have come round.
Timed(m) ==
    /\ m.arg2 \in 0..(Word - 1)
    /\ clock = m.arg2 + m.age \/ clock = m.arg2 + m.age - Word

TimesKept == \A p \in Peers : \A m \in Members(wire[p]) :
    m.type \in {6, 7} => Timed(m)

\* Near learns of packet 5 from a far that knows it.
CapabilityKept ==
    /\ supports \in [Peers -> BOOLEAN] /\ (supports["near"] => farIsCurrent)
    /\ \A m \in Members(wire["near"]) :
           m.type \in {6, 7} /\ (m.arg1 % 2 = 1 => farIsCurrent)

\* The packet is one of those an input becomes.
Carries(m, input) ==
    /\ m.type = 1 => /\ input.kind \in {"move", "button"}
                     /\ <<m.arg1, m.arg2>> = Point(m.n)
    /\ m.type = 2 => input.kind = "button" /\ m.arg1 = input.arg /\ m.arg2 = input.down
    /\ m.type = 3 => input.kind = "wheel" /\ m.arg2 = input.arg
    /\ m.type = 4 => input.kind = "key" /\ m.arg1 = input.arg /\ m.arg2 = input.down
    /\ m.type = 5 => /\ input.kind = "button" /\ farIsCurrent
                     /\ m.arg1 = Point(m.n)[1]
                     /\ m.arg2 = Pack(Point(m.n)[2], input.arg, input.down)

OrderKept ==
    /\ Ordered(wire["far"])
    /\ \A a \in Steering(inHand) : \A b \in Steering(wire["far"]) \cup Steering(unsent) : Before(a, b)
    /\ \A a \in Steering(wire["far"]) : \A b \in Steering(unsent) : Before(a, b)

CarriedKept == \A m \in Under :
    m.n \in DOMAIN inputs /\ Carries(m, inputs[m.n])

EffectsKept ==
    /\ effects \in Seq(Effect)
    /\ \A i, j \in DOMAIN effects : i < j => effects[i].n < effects[j].n
    /\ \A i \in DOMAIN effects :
           /\ effects[i].n \in DOMAIN inputs
           /\ effects[i].input = inputs[effects[i].n] /\ Injectable(effects[i].input)
           /\ PressedAtItsPoint(effects[i])
           /\ \A m \in Under : effects[i].n < m.n

\* Before the box is used the permission is what it was at the beginning.
Unchosen ==
    choices = 0 => /\ ~choosing
                   /\ making = "loaded" => loaded = allowed
                   /\ making = "attached" => authorized = allowed
                   /\ ~allowed => inHand = <<>>

\* A legacy button finds the pointer where its move has put it.
Leads(a, m) == a.type = 1 /\ a.n = m.n

PlacedKept ==
    ~touched /\ choices = 0 /\ allowed =>
        \A m \in Under : m.type = 2 =>
            \/ \E a \in Under : Leads(a, m)
            \/ cursor = Point(m.n) /\ \A a \in Under : a.n >= m.n

\* With the permission nothing is lost.
Arrived(n) == \E i \in DOMAIN effects : effects[i].n = n

NothingLost ==
    choices = 0 /\ allowed => \A n \in DOMAIN inputs :
        Injectable(inputs[n]) => Arrived(n) \/ \E m \in Under : m.n = n /\ IsInput(m)

Faithful == /\ OrderKept /\ CarriedKept /\ EffectsKept
            /\ PlacedKept /\ NothingLost

-----------------------------------------------------------------------------
(* Sequences of packets. *)

LEMMA AppendedMembers ==
    ASSUME NEW S, NEW s \in Seq(S), NEW m \in S
    PROVE  /\ Append(s, m) \in Seq(S)
           /\ Members(Append(s, m)) = Members(s) \cup {m}
           /\ Ordered(s) /\ (m.type \in 1..5 => \A a \in Steering(s) : Before(a, m))
                  => Ordered(Append(s, m))
<1> DEFINE t == Append(s, m)
           n == Len(s) + 1
<1>1. Len(s) \in Nat /\ DOMAIN s = 1..Len(s)
  BY LenProperties
<1>2. t \in Seq(S) /\ DOMAIN t = 1..n /\ t[n] = m /\ \A i \in 1..Len(s) : t[i] = s[i]
  BY <1>1, AppendProperties
<1> HIDE DEF t
<1>3. 1..n = 1..Len(s) \cup {n} /\ \A i \in 1..Len(s) : i \in Nat /\ i < n
  BY <1>1
<1>4. Members(t) = Members(s) \cup {m}
  BY <1>1, <1>2, <1>3 DEF Members
<1>5. ASSUME Ordered(s), m.type \in 1..5 => \A a \in Steering(s) : Before(a, m),
             NEW i \in DOMAIN t, NEW j \in DOMAIN t,
             i < j, t[i].type \in 1..5, t[j].type \in 1..5
      PROVE  Before(t[i], t[j])
  <2>1. i \in 1..Len(s)
    BY <1>1, <1>2, <1>3, <1>5
  <2>2. CASE j = n
    <3>1. s[i] \in Steering(s)
      BY <1>1, <1>2, <1>5, <2>1 DEF Steering, Members
    <3> QED
      BY <1>2, <1>5, <2>1, <2>2, <3>1
  <2>3. CASE j # n
    <3>1. j \in 1..Len(s)
      BY <1>2, <1>3, <2>3
    <3> QED
      BY <1>1, <1>2, <1>5, <2>1, <3>1 DEF Ordered
  <2> QED
    BY <2>2, <2>3
<1>6. Ordered(s) /\ (m.type \in 1..5 => \A a \in Steering(s) : Before(a, m)) => Ordered(t)
  BY <1>5 DEF Ordered
<1> QED
  BY <1>2, <1>4, <1>6 DEF t

LEMMA TakenMembers ==
    ASSUME NEW S, NEW s \in Seq(S), s # <<>>
    PROVE  /\ Head(s) \in S /\ Tail(s) \in Seq(S) /\ Len(Tail(s)) = Len(s) - 1
           /\ Members(s) = {Head(s)} \cup Members(Tail(s))
           /\ Ordered(s) => /\ Ordered(Tail(s))
                            /\ Head(s).type \in 1..5 =>
                                   \A b \in Steering(Tail(s)) : Before(Head(s), b)
<1> DEFINE m == Head(s)
           t == Tail(s)
<1>1. Len(s) \in Nat /\ Len(s) # 0 /\ DOMAIN s = 1..Len(s)
  BY LenProperties, EmptySeq
<1>2. /\ t \in Seq(S) /\ Len(t) = Len(s) - 1 /\ DOMAIN t = 1..(Len(s) - 1)
      /\ m = s[1] /\ m \in S /\ \A i \in 1..(Len(s) - 1) : t[i] = s[i + 1]
  BY <1>1, HeadTailProperties, LenProperties, ElementOfSeq
<1> HIDE DEF m, t
<1>3. /\ \A i \in 1..(Len(s) - 1) : i + 1 \in 1..Len(s)
      /\ \A i \in 1..Len(s) : i # 1 => i - 1 \in 1..(Len(s) - 1) /\ (i - 1) + 1 = i
      /\ 1 \in 1..Len(s)
  BY <1>1
<1>4. Members(s) = {m} \cup Members(t)
  <2>1. Members(s) \subseteq {m} \cup Members(t)
    <3> SUFFICES ASSUME NEW i \in 1..Len(s) PROVE s[i] \in {m} \cup Members(t)
      BY <1>1 DEF Members
    <3>1. CASE i = 1
      BY <1>2, <3>1
    <3>2. CASE i # 1
      <4>1. i - 1 \in DOMAIN t /\ t[i - 1] = s[i]
        BY <1>2, <1>3, <3>2
      <4> QED
        BY <4>1 DEF Members
    <3> QED
      BY <3>1, <3>2
  <2>2. m \in Members(s) /\ Members(t) \subseteq Members(s)
    BY <1>1, <1>2, <1>3 DEF Members
  <2> QED
    BY <2>1, <2>2
<1>5. ASSUME Ordered(s) PROVE Ordered(t)
  <2> SUFFICES ASSUME NEW i \in DOMAIN t, NEW j \in DOMAIN t,
                      i < j, t[i].type \in 1..5, t[j].type \in 1..5
               PROVE  Before(t[i], t[j])
    BY DEF Ordered
  <2>1. i + 1 \in 1..Len(s) /\ j + 1 \in 1..Len(s) /\ i + 1 < j + 1
    BY <1>1, <1>2
  <2>2. t[i] = s[i + 1] /\ t[j] = s[j + 1]
    BY <1>2
  <2> QED
    BY <1>1, <1>5, <2>1, <2>2 DEF Ordered
<1>6. ASSUME Ordered(s), m.type \in 1..5, NEW b \in Steering(t) PROVE Before(m, b)
  <2>1. PICK i \in DOMAIN t : b = t[i]
    BY DEF Steering, Members
  <2>2. b = s[i + 1] /\ i + 1 \in 1..Len(s) /\ 1 < i + 1 /\ b.type \in 1..5
    BY <1>1, <1>2, <2>1 DEF Steering
  <2> QED
    BY <1>1, <1>2, <1>3, <1>6, <2>2 DEF Ordered
<1> QED
  BY <1>2, <1>4, <1>5, <1>6 DEF m, t

LEMMA NoMembers == Members(<<>>) = {} /\ Steering(<<>>) = {}
BY DEF Members, Steering

LEMMA OneMember == \A m : Members(<<m>>) = {m}
BY DEF Members

LEMMA SteeringParts ==
    ASSUME NEW s, NEW t, NEW m, Members(t) = Members(s) \cup {m}
    PROVE  Steering(t) = Steering(s) \cup (IF m.type \in 1..5 THEN {m} ELSE {})
BY DEF Steering

\* What is aged by a tick steers as before.
Aged(s) == [i \in DOMAIN s |-> IF s[i].type \in {6, 7}
                               THEN [s[i] EXCEPT !.age = @ + 1] ELSE s[i]]

LEMMA AgedMembers ==
    ASSUME NEW s \in Seq(Packet),
           \A i \in DOMAIN s : s[i].type \in {6, 7} => s[i].age < Word - 1
    PROVE  /\ Aged(s) \in Seq(Packet)
           /\ Steering(Aged(s)) = Steering(s)
           /\ Ordered(s) => Ordered(Aged(s))
           /\ Members(Aged(s)) \subseteq Packet
           /\ \A m \in Members(Aged(s)) : \E a \in Members(s) :
                  /\ a \in Packet /\ a.type = m.type /\ a.arg1 = m.arg1 /\ a.arg2 = m.arg2
                  /\ m.type \in {6, 7} => m.age = a.age + 1
<1> DEFINE t == Aged(s)
<1>1. Len(s) \in Nat /\ DOMAIN s = 1..Len(s) /\ \A i \in DOMAIN s : s[i] \in Packet
  BY LenProperties, ElementOfSeq
<1>2. DOMAIN t = DOMAIN s
  BY DEF Aged
<1>3. \A i \in DOMAIN s : s[i].type \notin {6, 7} => t[i] = s[i]
  BY DEF Aged
<1>4. \A i \in DOMAIN s : s[i].type \in {6, 7} => t[i] = [s[i] EXCEPT !.age = s[i].age + 1]
  BY DEF Aged
<1> HIDE DEF t
<1>5. \A i \in DOMAIN s : t[i] \in Packet /\ t[i].type = s[i].type
  <2> SUFFICES ASSUME NEW i \in DOMAIN s PROVE t[i] \in Packet /\ t[i].type = s[i].type
    OBVIOUS
  <2>1. s[i] \in Packet
    BY <1>1
  <2>2. CASE s[i].type \in {6, 7}
    <3>1. /\ s[i].type \in 1..7 /\ s[i].arg1 \in Nat /\ s[i].arg2 \in Nat
          /\ s[i].n \in 0..MaxInputs /\ s[i].age \in 0..(Word - 1)
          /\ s[i] = [type |-> s[i].type, arg1 |-> s[i].arg1, arg2 |-> s[i].arg2,
                     n |-> s[i].n, age |-> s[i].age]
      BY <2>1 DEF Packet
    <3>2. s[i].age + 1 \in 0..(Word - 1)
      BY <2>2, <3>1, ChannelAssumption, SMTT(60)
    <3>3. t[i] = [type |-> s[i].type, arg1 |-> s[i].arg1, arg2 |-> s[i].arg2,
                  n |-> s[i].n, age |-> s[i].age + 1]
      BY <1>4, <2>1, <2>2, <3>1
    <3> QED
      BY <3>1, <3>2, <3>3 DEF Packet
  <2>3. CASE s[i].type \notin {6, 7}
    BY <1>3, <2>1, <2>3
  <2> QED
    BY <2>2, <2>3
<1>6. t \in Seq(Packet)
  <2>1. t = [i \in 1..Len(s) |-> t[i]]
    BY <1>1, <1>2 DEF t, Aged
  <2> QED
    BY <1>1, <1>5, <2>1, SeqDef
<1>7. \A i \in DOMAIN s : s[i].type \in 1..5 <=> t[i].type \in 1..5
  BY <1>5
<1>8. \A i \in DOMAIN s : s[i].type \in 1..5 => t[i] = s[i]
  BY <1>3
<1>9. Steering(t) = Steering(s)
  BY <1>2, <1>7, <1>8 DEF Steering, Members
<1>10. Ordered(s) => Ordered(t)
  BY <1>2, <1>7, <1>8 DEF Ordered
<1>11. ASSUME NEW m \in Members(t)
       PROVE  \E a \in Members(s) :
                  /\ a \in Packet /\ a.type = m.type /\ a.arg1 = m.arg1 /\ a.arg2 = m.arg2
                  /\ m.type \in {6, 7} => m.age = a.age + 1
  <2>1. PICK i \in DOMAIN s : m = t[i]
    BY <1>2, <1>11 DEF Members
  <2>2. s[i] \in Packet /\ s[i] \in Members(s)
    BY <1>1, <2>1 DEF Members
  <2>3. PICK a : a = s[i]
    OBVIOUS
  <2>4. CASE a.type \in {6, 7}
    <3>1. m = [a EXCEPT !.age = a.age + 1]
      BY <1>4, <2>1, <2>3, <2>4
    <3>2. m.type = a.type /\ m.arg1 = a.arg1 /\ m.arg2 = a.arg2 /\ m.age = a.age + 1
      BY <2>2, <2>3, <3>1 DEF Packet
    <3> QED
      BY <2>2, <2>3, <3>2
  <2>5. CASE a.type \notin {6, 7}
    <3>1. m = a
      BY <1>3, <2>1, <2>3, <2>5
    <3> QED
      BY <2>2, <2>3, <2>5, <3>1
  <2> QED
    BY <2>4, <2>5
<1>12. Members(t) \subseteq Packet
  BY <1>2, <1>5 DEF Members
<1> QED
  BY <1>6, <1>9, <1>10, <1>11, <1>12 DEF t

-----------------------------------------------------------------------------
(* The wire, step by step. *)

LEMMA PutPacket ==
    ASSUME Typed, NEW p \in Peers, NEW m \in Packet
    PROVE  /\ Put(p, m) \in [Peers -> Seq(Packet)]
           /\ Put(p, m)[p] = Append(wire[p], m)
           /\ \A q \in Peers \ {p} : Put(p, m)[q] = wire[q]
           /\ \A q \in Peers : Members(Put(p, m)[q]) \subseteq Members(wire[q]) \cup {m}
<1>1. wire[p] \in Seq(Packet) /\ wire \in [Peers -> Seq(Packet)]
  BY DEF Typed
<1>2. Append(wire[p], m) \in Seq(Packet) /\ Members(Append(wire[p], m)) = Members(wire[p]) \cup {m}
  BY <1>1, AppendedMembers
<1> QED
  BY <1>1, <1>2 DEF Put

LEMMA TakePacket ==
    ASSUME Typed, NEW p \in Peers, wire[p] # <<>>
    PROVE  /\ Head(wire[p]) \in Packet /\ Head(wire[p]) \in Members(wire[p])
           /\ Tail(wire[p]) \in Seq(Packet)
           /\ Members(Tail(wire[p])) \subseteq Members(wire[p])
           /\ Members(wire[p]) = {Head(wire[p])} \cup Members(Tail(wire[p]))
<1>1. wire[p] \in Seq(Packet)
  BY DEF Typed
<1> QED
  BY <1>1, TakenMembers

Made(type, arg1, arg2, n) ==
    [type |-> type, arg1 |-> arg1, arg2 |-> arg2, n |-> n, age |-> 0]

LEMMA MadeTyped ==
    ASSUME NEW type \in 1..7, NEW arg1 \in Nat, NEW arg2 \in Nat, NEW n \in 0..MaxInputs
    PROVE  Made(type, arg1, arg2, n) \in Packet
<1>1. 0 \in 0..(Word - 1)
  BY ChannelAssumption
<1> QED
  BY <1>1 DEF Packet, Made

LEMMA PktMade ==
    ASSUME NEW type, NEW arg1, NEW arg2, NEW n
    PROVE  /\ [Pkt(type, arg1, arg2) EXCEPT !.n = n] = Made(type, arg1, arg2, n)
           /\ Pkt(type, arg1, arg2) = Made(type, arg1, arg2, 0)
BY DEF Pkt, Made

LEMMA InputTyped ==
    ASSUME NEW input \in Inputs
    PROVE  /\ input.kind \in {"move", "wheel", "button", "key"}
           /\ input.arg \in 0..255 /\ input.down \in {0, 1}
           /\ input = [kind |-> input.kind, arg |-> input.arg, down |-> input.down]
           /\ input.kind = "move" => input.arg = 0 /\ input.down = 0
           /\ input.kind = "wheel" => input.down = 0
<1>1. CASE input \in [kind : {"move"}, arg : {0}, down : {0}]
  BY <1>1
<1>2. CASE input \in [kind : {"wheel"}, arg : 0..255, down : {0}]
  BY <1>2
<1>3. CASE input \in [kind : {"button", "key"}, arg : 0..255, down : {0, 1}]
  BY <1>3
<1> QED
  BY <1>1, <1>2, <1>3, ChannelAssumption

\* The packet of an input, and the one that may follow it.
Leading(first, input) ==
    first \in Packet /\ first.type \in 1..5 /\ Carries(first, input)

Sent(first, rest, input, n) ==
    /\ Leading(first, input) /\ first.n = n /\ first.type # 2
    /\ \/ rest = <<>> /\ (first.type = 1 => input.kind = "move")
       \/ /\ first.type = 1 /\ input.kind = "button"
          /\ \E second \in Packet : /\ rest = <<second>> /\ second.type = 2
                                    /\ second.n = n /\ Carries(second, input)

LEMMA PointTyped ==
    ASSUME NEW n \in Nat
    PROVE  \E x, y \in Nat : x < 65536 /\ y < 65536 /\ Point(n) = <<x, y>>
<1>1. \A k \in Nat : k % 65536 \in Nat /\ k % 65536 < 65536
  BY SMT
<1>2. n % 65536 \in Nat /\ n % 65536 < 65536
  BY <1>1
<1>3. (n + 1) % 65536 \in Nat /\ (n + 1) % 65536 < 65536
  BY <1>1
<1> QED
  BY <1>2, <1>3 DEF Point

\* The numbering of an input's packets.
NumberedAs(packets, n) == [i \in DOMAIN packets |-> [packets[i] EXCEPT !.n = n]]

LEMMA NumberedOne ==
    ASSUME NEW type, NEW arg1, NEW arg2, NEW n
    PROVE  NumberedAs(<<Pkt(type, arg1, arg2)>>, n) = <<Made(type, arg1, arg2, n)>>
<1> DEFINE a == Pkt(type, arg1, arg2)
<1>1. [a EXCEPT !.n = n] = Made(type, arg1, arg2, n)
  BY PktMade
<1> HIDE DEF a
<1>2. NumberedAs(<<a>>, n) = <<[a EXCEPT !.n = n]>>
  BY DEF NumberedAs
<1> QED
  BY <1>1, <1>2 DEF a

LEMMA NumberedTwo ==
    ASSUME NEW t1, NEW x1, NEW y1, NEW t2, NEW x2, NEW y2, NEW n
    PROVE  NumberedAs(<<Pkt(t1, x1, y1), Pkt(t2, x2, y2)>>, n)
               = <<Made(t1, x1, y1, n), Made(t2, x2, y2, n)>>
<1> DEFINE a == Pkt(t1, x1, y1)
           b == Pkt(t2, x2, y2)
<1>1. [a EXCEPT !.n = n] = Made(t1, x1, y1, n) /\ [b EXCEPT !.n = n] = Made(t2, x2, y2, n)
  BY PktMade
<1> HIDE DEF a, b
<1>2. NumberedAs(<<a, b>>, n) = <<[a EXCEPT !.n = n], [b EXCEPT !.n = n]>>
  BY DEF NumberedAs
<1> QED
  BY <1>1, <1>2 DEF a, b

LEMMA SentPackets ==
    ASSUME Typed, CapabilityKept, NEW input \in Inputs, SendInput(input)
    PROVE  \E first, rest : /\ Sent(first, rest, input, Len(inputs) + 1)
                            /\ wire' = Put("far", first) /\ unsent' = rest
<1> DEFINE n == Len(inputs) + 1
           ps == NumberedAs(Packets(input, Point(n)), n)
<1>1. /\ inputs' = Append(inputs, input) /\ Len(inputs) < MaxInputs /\ Len(inputs) \in Nat
      /\ inputs \in Seq(Inputs)
  BY LenProperties DEF SendInput, Typed
<1>2. Len(inputs') = n /\ n \in 0..MaxInputs /\ n \in Nat
  BY <1>1, AppendProperties, ChannelAssumption
<1>3. PICK x \in Nat, y \in Nat : x < 65536 /\ y < 65536 /\ Point(n) = <<x, y>>
  BY <1>2, PointTyped
<1>4. /\ input.kind \in {"move", "wheel", "button", "key"}
      /\ input.arg \in Nat /\ input.arg < 256 /\ input.down \in Nat /\ input.down < 2
  BY InputTyped
<1>5. Pack(y, input.arg, input.down) \in Nat
  BY <1>4 DEF Pack
<1>6. wire' = Put("far", Head(ps)) /\ unsent' = Tail(ps)
  BY <1>2 DEF SendInput, NumberedAs
<1> HIDE DEF n
<1>7. Point(n)[1] = x /\ Point(n)[2] = y
  BY <1>3
<1>8. ASSUME NEW type \in 1..5, NEW arg1 \in Nat, NEW arg2 \in Nat,
             Packets(input, Point(n)) = <<Pkt(type, arg1, arg2)>>,
             NEW m, m = Made(type, arg1, arg2, n), Carries(m, input), type # 2,
             type = 1 => input.kind = "move"
      PROVE  \E first, rest : /\ Sent(first, rest, input, n)
                              /\ wire' = Put("far", first) /\ unsent' = rest
  <2>1. ps = <<m>>
    BY <1>8, NumberedOne
  <2> HIDE DEF ps
  <2>2. Head(ps) = m /\ Tail(ps) = <<>>
    BY <2>1
  <2>3. type \in 1..7 /\ m.type = type /\ m.n = n
    BY <1>8 DEF Made
  <2>4. m \in Packet
    BY <1>2, <1>8, <2>3, MadeTyped
  <2>5. Sent(m, <<>>, input, n)
    BY <1>8, <2>3, <2>4 DEF Sent, Leading
  <2> QED
    BY <1>6, <2>2, <2>5
<1>9. CASE input.kind = "move"
  <2>1. Packets(input, Point(n)) = <<Pkt(1, x, y)>>
    BY <1>7, <1>9 DEF Packets
  <2>2. PICK m : m = Made(1, x, y, n)
    OBVIOUS
  <2>3. Carries(m, input)
    BY <1>3, <1>9, <2>2 DEF Carries, Made
  <2> QED
    BY <1>8, <1>9, <2>1, <2>2, <2>3 DEF n
<1>10. CASE input.kind = "wheel"
  <2>1. Packets(input, Point(n)) = <<Pkt(3, 0, input.arg)>>
    BY <1>10 DEF Packets
  <2>2. PICK m : m = Made(3, 0, input.arg, n)
    OBVIOUS
  <2>3. Carries(m, input)
    BY <1>10, <2>2 DEF Carries, Made
  <2> QED
    BY <1>4, <1>8, <1>10, <2>1, <2>2, <2>3 DEF n
<1>11. CASE input.kind = "key"
  <2>1. Packets(input, Point(n)) = <<Pkt(4, input.arg, input.down)>>
    BY <1>11 DEF Packets
  <2>2. PICK m : m = Made(4, input.arg, input.down, n)
    OBVIOUS
  <2>3. Carries(m, input)
    BY <1>11, <2>2 DEF Carries, Made
  <2> QED
    BY <1>4, <1>8, <1>11, <2>1, <2>2, <2>3 DEF n
<1>12. CASE input.kind = "button" /\ supports["near"]
  <2>1. Packets(input, Point(n)) = <<Pkt(5, x, Pack(y, input.arg, input.down))>>
    BY <1>7, <1>12 DEF Packets
  <2>2. PICK m : m = Made(5, x, Pack(y, input.arg, input.down), n)
    OBVIOUS
  <2>3. Carries(m, input)
    BY <1>7, <1>12, <2>2 DEF Carries, Made, CapabilityKept
  <2> QED
    BY <1>5, <1>8, <1>12, <2>1, <2>2, <2>3 DEF n
<1>13. CASE input.kind = "button" /\ ~supports["near"]
  <2>1. Packets(input, Point(n)) = <<Pkt(1, x, y), Pkt(2, input.arg, input.down)>>
    BY <1>7, <1>13 DEF Packets, LegacyButton
  <2>2. PICK a, b : a = Made(1, x, y, n) /\ b = Made(2, input.arg, input.down, n)
    OBVIOUS
  <2>3. ps = <<a, b>>
    BY <2>1, <2>2, NumberedTwo
  <2> HIDE DEF ps
  <2>4. Head(ps) = a /\ Tail(ps) = <<b>>
    BY <2>3
  <2>5. a \in Packet /\ b \in Packet
    BY <1>2, <1>4, <2>2, MadeTyped
  <2>6. a.type = 1 /\ a.n = n /\ b.type = 2 /\ b.n = n
    BY <2>2 DEF Made
  <2>7. Carries(a, input) /\ Carries(b, input)
    BY <1>3, <1>13, <2>2 DEF Carries, Made
  <2>8. Sent(a, <<b>>, input, n)
    BY <1>13, <2>5, <2>6, <2>7 DEF Sent, Leading
  <2> QED
    BY <1>6, <2>4, <2>8 DEF n
<1> QED
  BY <1>4, <1>9, <1>10, <1>11, <1>12, <1>13

-----------------------------------------------------------------------------
(* The counter comes round. *)

LEMMA Remainder ==
    ASSUME NEW w \in Nat, w > 0, NEW a \in Nat, a < w
    PROVE  a % w = a /\ (a - w) % w = a /\ w % w = 0
<1>1. a % w = a
  BY SMT
<1>2. (a - w) % w = a
  BY SMT
<1>3. w % w = 0
  BY SMT
<1> QED
  BY <1>1, <1>2, <1>3

LEMMA OtherPeer == \A p \in Peers : Other(p) \in Peers /\ Other(p) # p
                                   /\ \A q \in Peers : q = p \/ q = Other(p)
BY DEF Other, Peers

LEMMA CapabilityTyped == \A p \in Peers : Capability(p) \in {0, 1}
BY DEF Capability

\* A packet is answered: the ping is taken off the wire and the pong put on it.
LEMMA Answered ==
    ASSUME Typed, NEW p \in Peers, OnPing(p)
    PROVE  \E pong \in Packet :
               /\ pong.type = 7 /\ pong.arg1 = Capability(p)
               /\ pong.arg2 = Head(wire[p]).arg2 /\ pong.age = Head(wire[p]).age
               /\ wire' \in [Peers -> Seq(Packet)]
               /\ wire'[p] = Tail(wire[p])
               /\ wire'[Other(p)] = Append(wire[Other(p)], pong)
<1> DEFINE ping == Head(wire[p])
           pong == [Pkt(7, Capability(p), ping.arg2) EXCEPT !.age = ping.age]
           q == Other(p)
<1>1. wire[p] # <<>> /\ wire' = [Put(q, pong) EXCEPT ![p] = Tail(@)]
  BY DEF OnPing, Takes
<1>2. ping \in Packet /\ Tail(wire[p]) \in Seq(Packet)
  BY <1>1, TakePacket
<1>3. q \in Peers /\ q # p
  BY OtherPeer
<1>4. pong = [type |-> 7, arg1 |-> Capability(p), arg2 |-> ping.arg2, n |-> 0, age |-> ping.age]
  BY DEF Pkt
<1>5. Capability(p) \in Nat /\ 0 \in 0..MaxInputs
  BY CapabilityTyped, ChannelAssumption
<1>6. pong \in Packet
  BY <1>2, <1>4, <1>5 DEF Packet
<1> HIDE DEF pong, q
<1>7. /\ Put(q, pong) \in [Peers -> Seq(Packet)]
      /\ Put(q, pong)[q] = Append(wire[q], pong) /\ Put(q, pong)[p] = wire[p]
  BY <1>3, <1>6, PutPacket
<1>8. wire' \in [Peers -> Seq(Packet)] /\ wire'[p] = Tail(wire[p]) /\ wire'[q] = Append(wire[q], pong)
  BY <1>1, <1>2, <1>3, <1>7
<1>9. pong.type = 7 /\ pong.arg1 = Capability(p) /\ pong.arg2 = ping.arg2 /\ pong.age = ping.age
  BY <1>4
<1> QED
  BY <1>6, <1>8, <1>9 DEF q

LEMMA PingMade ==
    ASSUME Typed, NEW p \in Peers, SendPing(p)
    PROVE  \E ping \in Packet : /\ ping.type = 6 /\ ping.arg1 = Capability(p)
                                /\ ping.arg2 = clock /\ ping.age = 0
                                /\ wire' = Put(Other(p), ping)
<1> DEFINE ping == Pkt(6, Capability(p), clock)
<1>1. wire' = Put(Other(p), ping)
  BY DEF SendPing
<1>2. ping = Made(6, Capability(p), clock, 0)
  BY PktMade
<1>3. Capability(p) \in Nat /\ clock \in Nat /\ 0 \in 0..MaxInputs
  <2>1. clock \in Nat
    BY DEF Typed
  <2>2. Capability(p) \in Nat /\ 0 \in 0..MaxInputs
    BY CapabilityTyped, ChannelAssumption
  <2> QED
    BY <2>1, <2>2
<1> HIDE DEF ping
<1>4. ping \in Packet
  BY <1>2, <1>3, MadeTyped
<1>5. ping.type = 6 /\ ping.arg1 = Capability(p) /\ ping.arg2 = clock /\ ping.age = 0
  BY <1>2 DEF Made
<1> QED
  BY <1>1, <1>4, <1>5

LEMMA Ticked ==
    ASSUME Typed, Tick
    PROVE  /\ clock' \in 0..(Word - 1)
           /\ clock' = clock + 1 \/ clock' = clock + 1 - Word
           /\ \A p \in Peers :
                  /\ wire'[p] = Aged(wire[p])
                  /\ \A i \in DOMAIN wire[p] :
                         wire[p][i].type \in {6, 7} => wire[p][i].age < Word - 1
           /\ wire' \in [Peers -> Seq(Packet)]
<1>1. Word \in Nat /\ Word > 0 /\ clock \in 0..(Word - 1) /\ clock' = (clock + 1) % Word
  BY ChannelAssumption DEF Typed, Tick
<1>2. clock' \in 0..(Word - 1) /\ (clock' = clock + 1 \/ clock' = clock + 1 - Word)
  <2>1. CASE clock = Word - 1
    <3>1. clock + 1 = Word
      BY <1>1, <2>1
    <3>2. clock' = 0
      BY <1>1, <3>1, Remainder
    <3> QED
      BY <1>1, <3>1, <3>2
  <2>2. CASE clock # Word - 1
    <3>1. clock + 1 \in Nat /\ clock + 1 < Word
      BY <1>1, <2>2
    <3>2. clock' = clock + 1
      BY <1>1, <3>1, Remainder
    <3> QED
      BY <1>1, <3>1, <3>2
  <2> QED
    BY <2>1, <2>2
<1>4. wire' = [p \in Peers |-> Aged(wire[p])]
  BY DEF Tick, Aged
<1>5. \A p \in Peers : \A i \in DOMAIN wire[p] :
          wire[p][i].type \in {6, 7} => wire[p][i].age < Word - 1
  BY DEF Tick
<1>6. \A p \in Peers : Aged(wire[p]) \in Seq(Packet)
  BY <1>5, AgedMembers DEF Typed
<1> QED
  BY <1>2, <1>4, <1>5, <1>6

LEMMA Measures ==
    ASSUME Typed, NEW p \in Peers, NEW elapsed \in Nat
    PROVE  Measured(p, elapsed) \in 0..MaxRtt
BY ChannelAssumption, SMTT(60) DEF Measured, Typed

LEMMA PositionTyped ==
    ASSUME Typed, NEW m \in Packet
    PROVE  Position(m) \in Nat \X Nat
<1>1. m.arg1 \in Nat /\ m.arg2 \in Nat /\ cursor \in Nat \X Nat
  BY DEF Packet, Typed
<1>2. m.arg2 % 65536 \in Nat
  BY <1>1
<1> QED
  BY <1>1, <1>2 DEF Position, PackedY

LEMMA TypedInit == Init => Typed
BY ChannelAssumption, NoMembers DEF Init, Typed, Peers

LEMMA TypedStep ==
    ASSUME Typed, CapabilityKept, [Next]_vars
    PROVE  Typed'
<1> USE DEF pingVars, effectVars, userVars, farVars
<1>1. CASE UNCHANGED vars
  BY <1>1 DEF vars, Typed
<1>2. ASSUME NEW input \in Inputs, SendInput(input) PROVE Typed'
  <2>1. PICK first, rest : /\ Sent(first, rest, input, Len(inputs) + 1)
                           /\ wire' = Put("far", first) /\ unsent' = rest
    BY <1>2, SentPackets
  <2>2. first \in Packet
    BY <2>1 DEF Sent, Leading
  <2>3. rest \in Seq(Packet) /\ Len(rest) <= 1 /\ \A m \in Members(rest) : m.type = 2
    <3>1. CASE rest = <<>>
      BY <3>1, NoMembers
    <3>2. ASSUME NEW second \in Packet, rest = <<second>>, second.type = 2
          PROVE  rest \in Seq(Packet) /\ Len(rest) <= 1 /\ \A m \in Members(rest) : m.type = 2
      <4>1. <<second>> \in Seq(Packet) /\ Len(<<second>>) = 1
        OBVIOUS
      <4>2. Members(rest) = {second}
        BY <3>2, OneMember
      <4> QED
        BY <3>2, <4>1, <4>2
    <3> QED
      BY <2>1, <3>1, <3>2 DEF Sent
  <2>4. wire' \in [Peers -> Seq(Packet)]
    BY <2>1, <2>2, PutPacket DEF Peers
  <2>5. inputs' \in Seq(Inputs) /\ Len(inputs') <= MaxInputs
    <3>1. inputs \in Seq(Inputs) /\ Len(inputs) \in Nat /\ Len(inputs) < MaxInputs
          /\ inputs' = Append(inputs, input)
      BY <1>2, LenProperties DEF Typed, SendInput
    <3> QED
      BY <3>1, AppendProperties, ChannelAssumption
  <2> QED
    BY <1>2, <2>1, <2>3, <2>4, <2>5 DEF Typed, SendInput
<1>3. CASE SendRest
  <2>1. unsent # <<>> /\ unsent \in Seq(Packet)
    BY <1>3 DEF SendRest, Typed
  <2>2. Head(unsent) \in Packet
    BY <2>1, TakenMembers
  <2>3. wire' \in [Peers -> Seq(Packet)]
    BY <1>3, <2>2, PutPacket DEF Peers, SendRest
  <2> QED
    BY <1>3, <2>3, NoMembers DEF Typed, SendRest
<1>4. ASSUME NEW p \in Peers, SendPing(p) PROVE Typed'
  <2>1. wire' \in [Peers -> Seq(Packet)]
    BY <1>4, PingMade, PutPacket, OtherPeer
  <2> QED
    BY <1>4, <2>1 DEF Typed, SendPing
<1>5. ASSUME NEW p \in Peers, OnPing(p) PROVE Typed'
  <2>1. wire' \in [Peers -> Seq(Packet)]
    BY <1>5, Answered
  <2> QED
    BY <1>5, <2>1 DEF Typed, OnPing
<1>6. ASSUME NEW p \in Peers, OnPong(p) PROVE Typed'
  <2>1. wire[p] # <<>> /\ wire' = [wire EXCEPT ![p] = Tail(@)]
    BY <1>6 DEF OnPong, Takes
  <2>2. Head(wire[p]) \in Packet /\ Tail(wire[p]) \in Seq(Packet)
    BY <2>1, TakePacket
  <2>3. wire' \in [Peers -> Seq(Packet)]
    BY <2>1, <2>2 DEF Typed
  <2>4. Elapsed(clock, Head(wire[p]).arg2) \in Nat
    <3> DEFINE then == Head(wire[p]).arg2
    <3>1. then \in Nat
      BY <2>2 DEF Packet
    <3>2. clock \in Int /\ Word \in Nat /\ Word > 0
      BY ChannelAssumption DEF Typed
    <3> HIDE DEF then
    <3>3. clock - then \in Int
      BY <3>1, <3>2
    <3>4. (clock - then) % Word \in Nat
      BY <3>2, <3>3, SMT
    <3> QED
      BY <3>4 DEF Elapsed, then
  <2>5. Measured(p, Elapsed(clock, Head(wire[p]).arg2)) \in 0..MaxRtt
    BY <2>4, Measures
  <2>6. rtt' \in [Peers -> 0..MaxRtt]
    BY <1>6, <2>5 DEF OnPong, Typed
  <2> QED
    BY <1>6, <2>3, <2>6 DEF Typed, OnPong
<1>7. CASE Tick
  <2>1. wire' \in [Peers -> Seq(Packet)] /\ clock' \in 0..(Word - 1)
    BY <1>7, Ticked
  <2> QED
    BY <1>7, <2>1 DEF Typed, Tick
<1>8. CASE OnInput
  <2>1. wire["far"] # <<>> /\ wire' = [wire EXCEPT !["far"] = Tail(@)]
    BY <1>8 DEF OnInput, Takes
  <2>2. Head(wire["far"]) \in Packet /\ Tail(wire["far"]) \in Seq(Packet)
    BY <2>1, TakePacket DEF Peers
  <2>3. wire' \in [Peers -> Seq(Packet)]
    BY <2>1, <2>2 DEF Typed
  <2>4. inHand' \in Seq(Packet) /\ Len(inHand') <= 1 /\ \A m \in Members(inHand') : m.type \in 1..5
    <3> DEFINE m == Head(wire["far"])
    <3>1. inHand' = <<m>> \/ inHand' = <<>>
      BY <1>8 DEF OnInput
    <3>2. m \in Packet /\ m.type \in 1..5
      BY <1>8, <2>2 DEF OnInput, Takes
    <3> HIDE DEF m
    <3>3. <<m>> \in Seq(Packet) /\ Len(<<m>>) = 1
      BY <3>2
    <3>4. <<>> \in Seq(Packet) /\ Len(<<>>) = 0
      OBVIOUS
    <3>5. CASE inHand' = <<m>>
      <4>1. Members(inHand') = {m}
        BY <3>5, OneMember
      <4> QED
        BY <3>2, <3>3, <3>5, <4>1
    <3>6. CASE inHand' = <<>>
      BY <3>4, <3>6, NoMembers
    <3> QED
      BY <3>1, <3>5, <3>6
  <2> QED
    BY <1>8, <2>3, <2>4 DEF Typed, OnInput
<1>9. CASE Inject
  <2>1. inHand # <<>> /\ inHand \in Seq(Packet)
    BY <1>9 DEF Inject, Typed
  <2>2. Head(inHand) \in Packet
    BY <2>1, TakenMembers
  <2>3. cursor' \in Nat \X Nat
    BY <1>9, <2>2, PositionTyped DEF Inject, Apply, Typed
  <2> QED
    BY <1>9, <2>3, NoMembers DEF Typed, Inject
<1>10. CASE MoveLocally
  BY <1>10 DEF Typed, MoveLocally
<1>11. CASE OnDataChannel
  BY <1>11 DEF Typed, OnDataChannel
<1>12. CASE OpenChannel
  BY <1>12 DEF Typed, OpenChannel
<1>13. CASE Choose
  BY <1>13, ChannelAssumption DEF Typed, Choose
<1>14. CASE ChooseForChannel
  BY <1>14 DEF Typed, ChooseForChannel
<1> QED
  BY <1>1, <1>2, <1>3, <1>4, <1>5, <1>6, <1>7, <1>8, <1>9, <1>10, <1>11, <1>12, <1>13, <1>14
     DEF Next

LEMMA CapabilityInit == Init => CapabilityKept
BY NoMembers DEF Init, CapabilityKept, Peers, Members

LEMMA TimesInit == Init => TimesKept
<1> SUFFICES ASSUME Init, NEW p \in Peers PROVE Members(wire[p]) = {}
  BY DEF TimesKept
<1>1. wire[p] = <<>>
  BY DEF Init
<1> QED
  BY <1>1, NoMembers

\* What is newly on the wire to p.
Newly(p, m) == /\ wire' \in [Peers -> Seq(Packet)]
               /\ \A q \in Peers : Members(wire'[q])
                      \subseteq Members(wire[q]) \cup (IF q = p THEN {m} ELSE {})

LEMMA PutNewly ==
    ASSUME Typed, NEW p \in Peers, NEW m \in Packet, wire' = Put(p, m)
    PROVE  Newly(p, m)
<1>1. /\ Put(p, m) \in [Peers -> Seq(Packet)]
      /\ Put(p, m)[p] = Append(wire[p], m)
      /\ \A q \in Peers \ {p} : Put(p, m)[q] = wire[q]
      /\ \A q \in Peers : Members(Put(p, m)[q]) \subseteq Members(wire[q]) \cup {m}
  BY PutPacket
<1> QED
  BY <1>1 DEF Newly

LEMMA TakeNewly ==
    ASSUME Typed, NEW p \in Peers, wire[p] # <<>>, wire' = [wire EXCEPT ![p] = Tail(@)]
    PROVE  \A q \in Peers : Members(wire'[q]) \subseteq Members(wire[q])
<1>1. Members(Tail(wire[p])) \subseteq Members(wire[p]) /\ wire \in [Peers -> Seq(Packet)]
  BY TakePacket DEF Typed
<1> QED
  BY <1>1

\* Every step leaves the wires, adds one packet, takes one, answers one or is a tick.
LEMMA WireStep ==
    ASSUME Typed, CapabilityKept, Next
    PROVE  \/ Tick
           \/ /\ clock' = clock
              /\ \A q \in Peers : Members(wire'[q]) \subseteq Members(wire[q])
           \/ /\ clock' = clock
              /\ \E m \in Packet : m.type \in 1..5 /\ Newly("far", m)
           \/ /\ clock' = clock
              /\ \E p \in Peers : \E m \in Packet :
                     /\ Newly(Other(p), m) /\ m.type \in {6, 7} /\ m.arg1 = Capability(p)
                     /\ \/ m.arg2 = clock /\ m.age = 0
                        \/ \E ping \in Members(wire[p]) : /\ ping \in Packet /\ ping.type = 6
                                                          /\ m.arg2 = ping.arg2 /\ m.age = ping.age
<1>1. "far" \in Peers
  BY DEF Peers
<1>2. ASSUME NEW input \in Inputs, SendInput(input)
      PROVE  clock' = clock /\ \E m \in Packet : m.type \in 1..5 /\ Newly("far", m)
  <2>1. PICK first, rest : /\ Sent(first, rest, input, Len(inputs) + 1)
                           /\ wire' = Put("far", first) /\ unsent' = rest
    BY <1>2, SentPackets
  <2>2. first \in Packet /\ first.type \in 1..5
    BY <2>1 DEF Sent, Leading
  <2> QED
    BY <1>1, <1>2, <2>1, <2>2, PutNewly DEF SendInput, pingVars
<1>3. ASSUME SendRest
      PROVE  clock' = clock /\ \E m \in Packet : m.type \in 1..5 /\ Newly("far", m)
  <2>1. unsent # <<>> /\ unsent \in Seq(Packet) /\ wire' = Put("far", Head(unsent))
    BY <1>3 DEF SendRest, Typed
  <2>2. Head(unsent) \in Packet /\ Head(unsent) \in Members(unsent)
    BY <2>1, TakenMembers
  <2>3. Head(unsent).type = 2
    BY <2>2 DEF Typed
  <2> QED
    BY <1>1, <1>3, <2>1, <2>2, <2>3, PutNewly DEF SendRest, pingVars
<1>4. ASSUME NEW p \in Peers, SendPing(p)
      PROVE  /\ clock' = clock
             /\ \E m \in Packet : /\ Newly(Other(p), m) /\ m.type = 6 /\ m.arg1 = Capability(p)
                                   /\ m.arg2 = clock /\ m.age = 0
  <2>1. PICK ping \in Packet : /\ ping.type = 6 /\ ping.arg1 = Capability(p)
                               /\ ping.arg2 = clock /\ ping.age = 0
                               /\ wire' = Put(Other(p), ping)
    BY <1>4, PingMade
  <2>2. Newly(Other(p), ping)
    BY <2>1, OtherPeer, PutNewly
  <2> QED
    BY <1>4, <2>1, <2>2 DEF SendPing, pingVars
<1>5. ASSUME NEW p \in Peers, OnPing(p)
      PROVE  /\ clock' = clock
             /\ \E m \in Packet : \E ping \in Members(wire[p]) :
                    /\ Newly(Other(p), m) /\ m.type = 7 /\ m.arg1 = Capability(p)
                    /\ ping \in Packet /\ ping.type = 6
                    /\ m.arg2 = ping.arg2 /\ m.age = ping.age
  <2>1. PICK pong \in Packet :
               /\ pong.type = 7 /\ pong.arg1 = Capability(p)
               /\ pong.arg2 = Head(wire[p]).arg2 /\ pong.age = Head(wire[p]).age
               /\ wire' \in [Peers -> Seq(Packet)]
               /\ wire'[p] = Tail(wire[p])
               /\ wire'[Other(p)] = Append(wire[Other(p)], pong)
    BY <1>5, Answered
  <2>2. wire[p] # <<>> /\ Head(wire[p]).type = 6
    BY <1>5 DEF OnPing, Takes
  <2>3. /\ Head(wire[p]) \in Packet /\ Head(wire[p]) \in Members(wire[p])
        /\ Members(Tail(wire[p])) \subseteq Members(wire[p])
    BY <2>2, TakePacket
  <2>4. wire[Other(p)] \in Seq(Packet)
    BY OtherPeer DEF Typed
  <2>5. Members(wire'[Other(p)]) = Members(wire[Other(p)]) \cup {pong}
    BY <2>1, <2>4, AppendedMembers
  <2>6. Newly(Other(p), pong)
    BY <2>1, <2>3, <2>5, OtherPeer DEF Newly
  <2> QED
    BY <1>5, <2>1, <2>2, <2>3, <2>6 DEF OnPing
<1>6. ASSUME NEW p \in Peers, OnPong(p)
      PROVE  clock' = clock /\ \A q \in Peers : Members(wire'[q]) \subseteq Members(wire[q])
  <2>1. wire[p] # <<>> /\ wire' = [wire EXCEPT ![p] = Tail(@)]
    BY <1>6 DEF OnPong, Takes
  <2> QED
    BY <1>6, <2>1, TakeNewly DEF OnPong
<1>7. ASSUME OnInput
      PROVE  clock' = clock /\ \A q \in Peers : Members(wire'[q]) \subseteq Members(wire[q])
  <2>1. wire["far"] # <<>> /\ wire' = [wire EXCEPT !["far"] = Tail(@)]
    BY <1>7 DEF OnInput, Takes
  <2> QED
    BY <1>1, <1>7, <2>1, TakeNewly DEF OnInput, pingVars
<1>8. ASSUME Inject \/ MoveLocally \/ OnDataChannel \/ OpenChannel \/ Choose \/ ChooseForChannel
      PROVE  clock' = clock /\ wire' = wire
  BY <1>8 DEF Inject, MoveLocally, OnDataChannel, OpenChannel, Choose, ChooseForChannel, pingVars
<1>9. CASE \E input \in Inputs : SendInput(input)
  BY <1>2, <1>9
<1>10. CASE \E p \in Peers : SendPing(p) \/ OnPing(p) \/ OnPong(p)
  <2>1. PICK p \in Peers : SendPing(p) \/ OnPing(p) \/ OnPong(p)
    BY <1>10
  <2>2. CASE SendPing(p)
    BY <1>4, <2>2
  <2>3. CASE OnPing(p)
    BY <1>5, <2>3
  <2>4. CASE OnPong(p)
    BY <1>6, <2>4
  <2> QED
    BY <2>1, <2>2, <2>3, <2>4
<1> QED
  BY <1>3, <1>7, <1>8, <1>9, <1>10 DEF Next

LEMMA CapabilityStep ==
    ASSUME Typed, CapabilityKept, [Next]_vars
    PROVE  CapabilityKept'
<1>1. CASE UNCHANGED vars
  BY <1>1 DEF vars, CapabilityKept, farVars, pingVars
<1>2. CASE Next
  <2>1. farIsCurrent' = farIsCurrent
    BY <1>2 DEF Next, SendInput, SendRest, SendPing, OnPing, OnPong, Tick, OnInput, Inject,
             MoveLocally, OnDataChannel, OpenChannel, Choose, ChooseForChannel, farVars
  <2>2. supports' \in [Peers -> BOOLEAN] /\ (supports'["near"] => farIsCurrent)
    <3>1. CASE UNCHANGED supports
      BY <3>1 DEF CapabilityKept
    <3>2. ASSUME NEW p \in Peers, OnPing(p) \/ OnPong(p)
          PROVE  supports' \in [Peers -> BOOLEAN] /\ (supports'["near"] => farIsCurrent)
      <4>1. wire[p] # <<>> /\ Head(wire[p]).type \in {6, 7}
            /\ supports' = [supports EXCEPT ![p] = Head(wire[p]).arg1 % 2 = 1]
        BY <3>2 DEF OnPing, OnPong, Takes
      <4>2. Head(wire[p]) \in Members(wire[p])
        BY <4>1, TakePacket
      <4> DEFINE knows == Head(wire[p]).arg1 % 2 = 1
      <4>3. knows \in BOOLEAN /\ supports' = [supports EXCEPT ![p] = knows]
        BY <4>1
      <4>4. p = "near" => (knows => farIsCurrent)
        BY <4>1, <4>2 DEF CapabilityKept
      <4> HIDE DEF knows
      <4>5. supports \in [Peers -> BOOLEAN] /\ (supports["near"] => farIsCurrent) /\ "near" \in Peers
        BY DEF CapabilityKept, Peers
      <4>6. supports' \in [Peers -> BOOLEAN]
        BY <4>3, <4>5
      <4>7. CASE p = "near"
        <5>1. supports'["near"] = knows
          BY <4>3, <4>5, <4>7
        <5> QED
          BY <4>4, <4>6, <4>7, <5>1
      <4>8. CASE p # "near"
        <5>1. supports'["near"] = supports["near"]
          BY <4>3, <4>5, <4>8
        <5> QED
          BY <4>5, <4>6, <5>1
      <4> QED
        BY <4>7, <4>8
    <3>3. UNCHANGED supports \/ \E p \in Peers : OnPing(p) \/ OnPong(p)
      BY <1>2 DEF Next, SendInput, SendRest, SendPing, Tick, OnInput, Inject,
             MoveLocally, OnDataChannel, OpenChannel, Choose, ChooseForChannel, pingVars
    <3> QED
      BY <3>1, <3>2, <3>3
  <2>3. ASSUME NEW m \in Members(wire'["near"])
        PROVE  m.type \in {6, 7} /\ (m.arg1 % 2 = 1 => farIsCurrent)
    <3>0. "near" \in Peers /\ "far" \in Peers
      BY DEF Peers
    <3>1. CASE m \in Members(wire["near"])
      BY <3>1 DEF CapabilityKept
    <3>2. CASE Tick
      <4>1. wire["near"] \in Seq(Packet) /\ m \in Members(Aged(wire["near"]))
            /\ \A i \in DOMAIN wire["near"] :
                   wire["near"][i].type \in {6, 7} => wire["near"][i].age < Word - 1
        BY <2>3, <3>0, <3>2, Ticked DEF Typed
      <4>2. PICK a \in Members(wire["near"]) : a.type = m.type /\ a.arg1 = m.arg1
        BY <4>1, AgedMembers
      <4> QED
        BY <4>2 DEF CapabilityKept
    <3>3. ASSUME NEW q \in Peers, NEW k \in Packet, Newly(q, k), q # "near"
          PROVE  m \in Members(wire["near"])
      BY <2>3, <3>0, <3>3 DEF Newly
    <3>4. ASSUME NEW p \in Peers, NEW k \in Packet, Newly(Other(p), k),
                 k.type \in {6, 7}, k.arg1 = Capability(p), m \notin Members(wire["near"])
          PROVE  m.type \in {6, 7} /\ (m.arg1 % 2 = 1 => farIsCurrent)
      <4>1. Other(p) = "near" /\ m = k
        BY <2>3, <3>0, <3>4, OtherPeer DEF Newly
      <4>2. p = "far"
        BY <4>1 DEF Other, Peers
      <4> QED
        BY <3>4, <4>1, <4>2 DEF Capability
    <3>5. "far" # "near"
      OBVIOUS
    <3> QED
      BY <1>2, <2>3, <3>0, <3>1, <3>2, <3>3, <3>4, <3>5, WireStep
  <2> QED
    BY <2>1, <2>2, <2>3 DEF CapabilityKept
<1> QED
  BY <1>1, <1>2

LEMMA TimesStep ==
    ASSUME Typed, CapabilityKept, TimesKept, [Next]_vars
    PROVE  TimesKept'
<1>1. CASE UNCHANGED vars
  BY <1>1 DEF vars, TimesKept, Timed, pingVars
<1>2. CASE Next
  <2> SUFFICES ASSUME NEW p \in Peers, NEW m \in Members(wire'[p]), m.type \in {6, 7}
               PROVE  Timed(m)'
    BY DEF TimesKept
  <2>1. clock \in 0..(Word - 1) /\ clock' \in 0..(Word - 1) /\ Word \in Nat
    <3>1. Typed'
      BY <1>2, TypedStep
    <3> QED
      BY <3>1, ChannelAssumption DEF Typed
  <2>2. CASE clock' = clock /\ m \in Members(wire[p])
    BY <2>2 DEF TimesKept, Timed
  <2>3. CASE Tick
    <3>1. wire[p] \in Seq(Packet) /\ m \in Members(Aged(wire[p]))
          /\ (clock' = clock + 1 \/ clock' = clock + 1 - Word)
          /\ \A i \in DOMAIN wire[p] :
                 wire[p][i].type \in {6, 7} => wire[p][i].age < Word - 1
      BY <2>3, Ticked DEF Typed
    <3>2. PICK a \in Members(wire[p]) : /\ a \in Packet /\ a.type = m.type
                                        /\ a.arg2 = m.arg2 /\ m.age = a.age + 1
      BY <3>1, AgedMembers
    <3>3. a.arg2 \in 0..(Word - 1) /\ (clock = a.arg2 + a.age \/ clock = a.arg2 + a.age - Word)
      BY <3>2 DEF TimesKept, Timed
    <3>4. a.age \in Nat /\ a.arg2 \in Nat /\ m.age \in 0..(Word - 1)
      <4>1. m \in Packet /\ a \in Packet
        BY <3>1, <3>2, AgedMembers
      <4> QED
        BY <4>1 DEF Packet
    <3> DEFINE age == a.age
               then == a.arg2
    <3>5. m.age = age + 1 /\ m.arg2 = then /\ age \in Nat /\ then \in 0..(Word - 1)
          /\ (clock = then + age \/ clock = then + age - Word) /\ age + 1 <= Word - 1
      BY <2>1, <3>2, <3>3, <3>4
    <3> HIDE DEF age, then
    <3>6. clock' = then + (age + 1) \/ clock' = then + (age + 1) - Word
      BY <2>1, <3>1, <3>5
    <3> QED
      BY <3>5, <3>6 DEF Timed
  <2>4. ASSUME NEW q \in Peers, NEW k \in Packet, Newly(Other(q), k), clock' = clock,
               \/ k.arg2 = clock /\ k.age = 0
               \/ \E ping \in Members(wire[q]) : /\ ping \in Packet /\ ping.type = 6
                                                 /\ k.arg2 = ping.arg2 /\ k.age = ping.age
        PROVE  Timed(m)'
    <3>1. CASE m \in Members(wire[p])
      BY <2>2, <2>4, <3>1
    <3>2. CASE m \notin Members(wire[p])
      <4>1. m = k
        BY <2>4, <3>2 DEF Newly
      <4>2. CASE k.arg2 = clock /\ k.age = 0
        BY <2>1, <2>4, <4>1, <4>2 DEF Timed
      <4>3. ASSUME NEW ping \in Members(wire[q]), ping \in Packet, ping.type = 6,
                   k.arg2 = ping.arg2, k.age = ping.age
            PROVE  Timed(m)'
        BY <2>4, <4>1, <4>3 DEF TimesKept, Timed
      <4> QED
        BY <2>4, <4>2, <4>3
    <3> QED
      BY <3>1, <3>2
  <2>5. ASSUME NEW k \in Packet, k.type \in 1..5, Newly("far", k)
        PROVE  m \in Members(wire[p])
    <3>1. m # k
      BY <2>5
    <3> QED
      BY <2>5, <3>1 DEF Newly
  <2> QED
    BY <1>2, <2>2, <2>3, <2>4, <2>5, WireStep
<1> QED
  BY <1>1, <1>2

\* Types, times and what is known of packet 5, at every step of the two sides.
THEOREM ChannelInvariance == Spec => [](Typed /\ CapabilityKept /\ TimesKept)
<1>1. Init => Typed /\ CapabilityKept /\ TimesKept
  BY TypedInit, CapabilityInit, TimesInit
<1>2. Typed /\ CapabilityKept /\ TimesKept /\ [Next]_vars => (Typed /\ CapabilityKept /\ TimesKept)'
  BY TypedStep, CapabilityStep, TimesStep
<1> QED
  BY <1>1, <1>2, PTL DEF Spec

\* The round trip time recorded when a pong arrives is the time that has passed
\* since its ping was sent (OnMessage), although GetTickCount() comes round.
THEOREM RttIsElapsedTheorem == Spec => RttIsElapsed
<1>1. ASSUME Typed, TimesKept, Next, NEW p \in Peers, rtt'[p] # rtt[p]
      PROVE  rtt'[p] = IF Head(wire[p]).age = 0 THEN 1 ELSE Head(wire[p]).age
  <2>1. \E q \in Peers : OnPong(q)
    BY <1>1 DEF Next, SendInput, SendRest, SendPing, OnPing, Tick, OnInput, Inject, MoveLocally,
           OnDataChannel, OpenChannel, Choose, ChooseForChannel, pingVars
  <2>2. PICK q \in Peers : OnPong(q)
    BY <2>1
  <2> DEFINE pong == Head(wire[q])
  <2>3. /\ wire[q] # <<>> /\ pong.type = 7
        /\ rtt' = [rtt EXCEPT ![q] = Measured(q, Elapsed(clock, pong.arg2))]
    BY <2>2 DEF OnPong, Takes
  <2>4. rtt \in [Peers -> 0..MaxRtt]
    BY <1>1 DEF Typed
  <2>5. q = p /\ rtt'[p] = Measured(p, Elapsed(clock, pong.arg2))
    BY <1>1, <2>3, <2>4
  <2>6. pong \in Packet /\ pong \in Members(wire[q])
    BY <1>1, <2>3, TakePacket
  <2>7. Timed(pong)
    BY <1>1, <2>3, <2>6 DEF TimesKept
  <2>8. Elapsed(clock, pong.arg2) = pong.age
    <3> DEFINE then == pong.arg2
               age == pong.age
    <3>1. age \in Nat /\ age < Word /\ Word \in Nat /\ Word > 0
      BY <2>6, ChannelAssumption DEF Packet
    <3>2. then \in Nat /\ (clock = then + age \/ clock = then + age - Word)
      BY <2>7 DEF Timed
    <3> HIDE DEF then, age
    <3>3. clock - then = age \/ clock - then = age - Word
      BY <3>1, <3>2
    <3>4. (clock - then) % Word = age
      BY <3>1, <3>3, Remainder
    <3> QED
      BY <3>4 DEF Elapsed, then, age
  <2> HIDE DEF pong
  <2>9. rtt'[p] = IF pong.age = 0 THEN 1 ELSE pong.age
    BY <1>1, <2>5, <2>8 DEF Measured
  <2> QED
    BY <2>5, <2>9 DEF pong
<1>2. Typed /\ TimesKept /\ [Next]_vars =>
        [\A p \in Peers : rtt'[p] # rtt[p] =>
             LET age == Head(wire[p]).age
             IN  rtt'[p] = IF age = 0 THEN 1 ELSE age]_vars
  BY <1>1
<1> QED
  BY <1>2, ChannelInvariance, PTL DEF Spec, RttIsElapsed

-----------------------------------------------------------------------------
(* Nothing is reordered, altered or lost. *)

LEMMA UnchosenStep ==
    ASSUME Typed, Unchosen, [Next]_vars
    PROVE  Unchosen'
<1> USE DEF Unchosen
<1>1. CASE UNCHANGED <<choices, choosing, making, loaded, authorized, allowed, inHand>>
  BY <1>1
<1>2. CASE OnDataChannel
  BY <1>2 DEF OnDataChannel, CreateChannel, LoadAuthorization, Attach, userVars
<1>3. CASE Choose
  BY <1>3 DEF Choose, Typed
<1>4. CASE ChooseForChannel
  BY <1>4 DEF ChooseForChannel, userVars
<1>5. CASE OnInput
  <2>1. making = "attached" /\ (~authorized => inHand' = <<>>)
    BY <1>5 DEF OnInput, Takes, Permitted
  <2> QED
    BY <1>5, <2>1 DEF OnInput, farVars, userVars
<1>6. CASE Inject
  BY <1>6 DEF Inject, farVars, userVars
<1>7. \/ OnDataChannel \/ Choose \/ ChooseForChannel \/ OnInput \/ Inject
      \/ UNCHANGED <<choices, choosing, making, loaded, authorized, allowed, inHand>>
  BY DEF Next, vars, SendInput, SendRest, SendPing, OnPing, OnPong, Tick, MoveLocally,
         OpenChannel, farVars, userVars
<1> QED
  BY <1>1, <1>2, <1>3, <1>4, <1>5, <1>6, <1>7

\* Steps that neither send nor take an input.
LEMMA FarSame ==
    ASSUME Typed, [Next]_vars, ~(\E input \in Inputs : SendInput(input)), ~SendRest, ~OnInput
    PROVE  /\ Steering(wire'["far"]) = Steering(wire["far"])
           /\ Ordered(wire["far"]) => Ordered(wire'["far"])
           /\ unsent' = unsent /\ inputs' = inputs
<1> DEFINE Kept == /\ Steering(wire'["far"]) = Steering(wire["far"])
                   /\ Ordered(wire["far"]) => Ordered(wire'["far"])
<1>0. "far" \in Peers /\ wire["far"] \in Seq(Packet)
  BY DEF Peers, Typed
<1>1. ASSUME UNCHANGED wire PROVE Kept
  BY <1>1
<1>2. ASSUME NEW m \in Packet, m.type \in {6, 7}, wire'["far"] = Append(wire["far"], m)
      PROVE  Kept
  <2>1. m.type \notin 1..5
    BY <1>2
  <2>2. Members(wire'["far"]) = Members(wire["far"]) \cup {m} /\ (Ordered(wire["far"]) => Ordered(wire'["far"]))
    BY <1>0, <1>2, <2>1, AppendedMembers
  <2>3. Steering(wire'["far"]) = Steering(wire["far"])
    BY <2>1, <2>2 DEF Steering
  <2> QED
    BY <2>2, <2>3
<1>3. ASSUME wire["far"] # <<>>, Head(wire["far"]).type \in {6, 7}, wire'["far"] = Tail(wire["far"])
      PROVE  Kept
  <2>1. Head(wire["far"]).type \notin 1..5
    BY <1>3
  <2>2. Members(wire["far"]) = Members(wire'["far"]) \cup {Head(wire["far"])}
        /\ (Ordered(wire["far"]) => Ordered(wire'["far"]))
    BY <1>0, <1>3, TakenMembers
  <2>3. Steering(wire'["far"]) = Steering(wire["far"])
    BY <2>1, <2>2 DEF Steering
  <2> QED
    BY <2>2, <2>3
<1>4. ASSUME NEW p \in Peers, SendPing(p) PROVE Kept
  <2>1. PICK ping \in Packet : ping.type = 6 /\ wire' = Put(Other(p), ping)
    BY <1>4, PingMade
  <2>2. CASE Other(p) = "far"
    BY <1>0, <1>2, <2>1, <2>2, PutPacket, ZenonT(60)
  <2>3. CASE Other(p) # "far"
    BY <1>0, <1>1, <2>1, <2>3, PutPacket, OtherPeer
  <2> QED
    BY <2>2, <2>3
<1>5. ASSUME NEW p \in Peers, OnPing(p) PROVE Kept
  <2>1. PICK pong \in Packet : /\ pong.type = 7 /\ wire'[p] = Tail(wire[p])
                               /\ wire'[Other(p)] = Append(wire[Other(p)], pong)
    BY <1>5, Answered
  <2>2. wire[p] # <<>> /\ Head(wire[p]).type = 6
    BY <1>5 DEF OnPing, Takes
  <2>3. p = "far" \/ Other(p) = "far"
    BY <1>0, OtherPeer
  <2> QED
    BY <1>2, <1>3, <2>1, <2>2, <2>3
<1>6. ASSUME NEW p \in Peers, OnPong(p) PROVE Kept
  <2>1. wire[p] # <<>> /\ Head(wire[p]).type = 7 /\ wire' = [wire EXCEPT ![p] = Tail(@)]
        /\ wire \in [Peers -> Seq(Packet)]
    BY <1>6 DEF OnPong, Takes, Typed
  <2>2. CASE p = "far"
    BY <1>3, <2>1, <2>2
  <2>3. CASE p # "far"
    BY <1>0, <2>1, <2>3
  <2> QED
    BY <2>2, <2>3
<1>7. ASSUME Tick PROVE Kept
  <2>1. wire'["far"] = Aged(wire["far"])
        /\ \A i \in DOMAIN wire["far"] :
               wire["far"][i].type \in {6, 7} => wire["far"][i].age < Word - 1
    BY <1>0, <1>7, Ticked
  <2> QED
    BY <1>0, <2>1, AgedMembers
<1>8. UNCHANGED wire \/ Tick \/ \E p \in Peers : SendPing(p) \/ OnPing(p) \/ OnPong(p)
  BY DEF Next, vars, Inject, MoveLocally, OnDataChannel, OpenChannel, Choose, ChooseForChannel
<1>9. Kept
  BY <1>1, <1>4, <1>5, <1>6, <1>7, <1>8
<1>10. unsent' = unsent /\ inputs' = inputs
  BY DEF Next, vars, SendPing, OnPing, OnPong, Tick, Inject, MoveLocally, OnDataChannel,
         OpenChannel, Choose, ChooseForChannel, userVars
<1> QED
  BY <1>9, <1>10

LEMMA UnderTyped ==
    ASSUME Typed
    PROVE  \A m \in Under : m \in Packet /\ m.type \in 1..5
<1>1. \A s \in Seq(Packet) : \A m \in Steering(s) : m \in Packet /\ m.type \in 1..5
  BY ElementOfSeq DEF Steering, Members
<1>2. inHand \in Seq(Packet) /\ wire["far"] \in Seq(Packet) /\ unsent \in Seq(Packet)
  BY DEF Typed, Peers
<1> QED
  BY <1>1, <1>2 DEF Under

\* Steps that leave what is under way and what has been injected.
LEMMA SameUnder ==
    ASSUME Faithful, Under' = Under, UNCHANGED <<inputs, effects, farIsCurrent>>,
           touched => touched', choices' = 0 => choices = 0 /\ allowed' = allowed,
           ~touched' => cursor' = cursor
    PROVE  CarriedKept' /\ EffectsKept' /\ PlacedKept' /\ NothingLost'
<1> USE DEF Faithful
<1>1. CarriedKept'
  BY DEF CarriedKept, Carries
<1>2. EffectsKept'
  BY DEF EffectsKept, PressedAtItsPoint
<1>3. PlacedKept'
  BY DEF PlacedKept
<1>4. NothingLost'
  BY DEF NothingLost, Arrived, IsInput
<1> QED
  BY <1>1, <1>2, <1>3, <1>4

LEMMA FaithfulInit == Init => Faithful
<1> SUFFICES ASSUME Init PROVE Faithful
  OBVIOUS
<1>1. inHand = <<>> /\ unsent = <<>> /\ wire["far"] = <<>> /\ effects = <<>> /\ inputs = <<>>
  BY DEF Init, Peers
<1>2. Steering(inHand) = {} /\ Steering(unsent) = {} /\ Steering(wire["far"]) = {}
  BY <1>1, NoMembers
<1>3. Under = {}
  BY <1>2 DEF Under
<1>4. Ordered(wire["far"])
  BY <1>1 DEF Ordered
<1>5. effects \in Seq(Effect) /\ DOMAIN effects = {} /\ DOMAIN inputs = {}
  BY <1>1
<1> QED
  BY <1>2, <1>3, <1>4, <1>5
     DEF Faithful, OrderKept, CarriedKept, EffectsKept, PlacedKept, NothingLost

\* Steps that have nothing to do with inputs.
LEMMA FaithfulQuiet ==
    ASSUME Typed, Faithful, [Next]_vars,
           ~(\E input \in Inputs : SendInput(input)), ~SendRest, ~OnInput, ~Inject
    PROVE  Faithful'
<1>1. /\ Steering(wire'["far"]) = Steering(wire["far"])
      /\ Ordered(wire["far"]) => Ordered(wire'["far"])
      /\ unsent' = unsent /\ inputs' = inputs
  BY FarSame
<1>2. UNCHANGED <<inHand, effects, farIsCurrent>>
  BY DEF Next, vars, SendPing, OnPing, OnPong, Tick, MoveLocally, OnDataChannel, OpenChannel,
         Choose, ChooseForChannel, effectVars, farVars
<1>3. /\ touched => touched'
      /\ choices' = 0 => choices = 0 /\ allowed' = allowed
      /\ ~touched' => cursor' = cursor
  <2>1. CASE MoveLocally
    BY <2>1 DEF MoveLocally, farVars
  <2>2. CASE Choose
    BY <2>2 DEF Choose, Typed
  <2>3. CASE UNCHANGED <<touched, choices, allowed, cursor>>
    BY <2>3
  <2>4. MoveLocally \/ Choose \/ UNCHANGED <<touched, choices, allowed, cursor>>
    BY DEF Next, vars, SendPing, OnPing, OnPong, Tick, OnDataChannel, OpenChannel,
           ChooseForChannel, effectVars, farVars, userVars
  <2> QED
    BY <2>1, <2>2, <2>3, <2>4
<1>4. Under' = Under
  BY <1>1, <1>2 DEF Under
<1>5. OrderKept'
  BY <1>1, <1>2 DEF Faithful, OrderKept
<1>6. CarriedKept' /\ EffectsKept' /\ PlacedKept' /\ NothingLost'
  BY <1>1, <1>2, <1>3, <1>4, SameUnder
<1> QED
  BY <1>5, <1>6 DEF Faithful

LEMMA FaithfulRest ==
    ASSUME Typed, Faithful, SendRest
    PROVE  Faithful'
<1> DEFINE m == Head(unsent)
<1>1. /\ unsent # <<>> /\ unsent \in Seq(Packet) /\ wire' = Put("far", m) /\ unsent' = <<>>
      /\ UNCHANGED <<inHand, inputs, effects, farIsCurrent, touched, choices, allowed, cursor>>
  BY DEF SendRest, Typed, farVars, effectVars, userVars
<1>2. /\ m \in Packet /\ m \in Members(unsent) /\ Len(Tail(unsent)) = Len(unsent) - 1
      /\ Tail(unsent) \in Seq(Packet) /\ Members(unsent) = {m} \cup Members(Tail(unsent))
  BY <1>1, TakenMembers
<1>3. Members(unsent) = {m}
  <2>1. Tail(unsent) = <<>>
    <3>1. Len(unsent) <= 1 /\ Len(unsent) \in Nat /\ Len(Tail(unsent)) \in Nat
      BY <1>1, <1>2, LenProperties DEF Typed
    <3>2. Len(Tail(unsent)) = 0
      BY <1>2, <3>1
    <3> QED
      BY <1>2, <3>2, EmptySeq
  <2> QED
    BY <1>2, <2>1, NoMembers
<1>4. m.type = 2
  BY <1>2 DEF Typed
<1> HIDE DEF m
<1>5. Steering(unsent) = {m}
  BY <1>3, <1>4 DEF Steering
<1>6. wire["far"] \in Seq(Packet) /\ wire'["far"] = Append(wire["far"], m)
  BY <1>1, <1>2, PutPacket DEF Typed, Peers
<1>7. Members(wire'["far"]) = Members(wire["far"]) \cup {m}
  BY <1>2, <1>6, AppendedMembers
<1>8. Steering(wire'["far"]) = Steering(wire["far"]) \cup {m}
  BY <1>4, <1>7 DEF Steering
<1>9. Ordered(wire'["far"])
  <2>1. \A a \in Steering(wire["far"]) : Before(a, m)
    BY <1>5 DEF Faithful, OrderKept
  <2> QED
    BY <1>2, <1>6, <2>1, AppendedMembers DEF Faithful, OrderKept
<1>10. Steering(unsent') = {}
  BY <1>1, NoMembers
<1>11. OrderKept'
  BY <1>1, <1>5, <1>8, <1>9, <1>10 DEF Faithful, OrderKept
<1>12. Under' = Under
  BY <1>1, <1>5, <1>8, <1>10 DEF Under
<1>13. CarriedKept' /\ EffectsKept' /\ PlacedKept' /\ NothingLost'
  BY <1>1, <1>12, SameUnder
<1> QED
  BY <1>11, <1>13 DEF Faithful

LEMMA FaithfulTaken ==
    ASSUME Typed, CapabilityKept, Unchosen, Faithful, OnInput
    PROVE  Faithful'
<1> DEFINE m == Head(wire["far"])
<1>1. /\ wire["far"] # <<>> /\ wire["far"] \in Seq(Packet) /\ m.type \in 1..5
      /\ making = "attached" /\ inHand = <<>> /\ wire'["far"] = Tail(wire["far"])
      /\ inHand' = IF Permitted /\ m.type \in Known THEN <<m>> ELSE <<>>
      /\ UNCHANGED <<unsent, inputs, effects, farIsCurrent, touched, choices, allowed, cursor>>
  BY DEF OnInput, Takes, Typed, farVars, effectVars, userVars, Peers
<1>2. /\ Members(wire["far"]) = {m} \cup Members(wire'["far"])
      /\ Ordered(wire'["far"])
      /\ \A b \in Steering(wire'["far"]) : Before(m, b)
  BY <1>1, TakenMembers DEF Faithful, OrderKept
<1> HIDE DEF m
<1>3. Steering(wire["far"]) = {m} \cup Steering(wire'["far"])
  BY <1>1, <1>2 DEF Steering
<1>4. Under = {m} \cup Steering(wire'["far"]) \cup Steering(unsent)
  BY <1>1, <1>3, NoMembers DEF Under
<1>5. \A b \in Steering(wire'["far"]) \cup Steering(unsent) : Before(m, b)
  BY <1>2, <1>3 DEF Faithful, OrderKept
<1>6. CASE Permitted /\ m.type \in Known
  <2>1. inHand' = <<m>>
    BY <1>1, <1>6
  <2>2. Steering(inHand') = {m}
    BY <1>1, <2>1, OneMember DEF Steering
  <2>3. OrderKept'
    BY <1>1, <1>2, <1>3, <1>5, <2>2 DEF Faithful, OrderKept
  <2>4. Under' = Under
    BY <1>1, <1>4, <2>2 DEF Under
  <2>5. CarriedKept' /\ EffectsKept' /\ PlacedKept' /\ NothingLost'
    BY <1>1, <2>4, SameUnder
  <2> QED
    BY <2>3, <2>5 DEF Faithful
<1>7. CASE ~(Permitted /\ m.type \in Known)
  <2>1. inHand' = <<>> /\ Steering(inHand') = {}
    BY <1>1, <1>7, NoMembers
  <2>2. OrderKept'
    BY <1>1, <1>2, <1>3, <2>1 DEF Faithful, OrderKept
  <2>3. Under' \subseteq Under /\ m \in Under
    BY <1>1, <1>4, <2>1 DEF Under
  <2>4. CarriedKept'
    BY <1>1, <2>3 DEF Faithful, CarriedKept, Carries
  <2>5. EffectsKept'
    BY <1>1, <2>3 DEF Faithful, EffectsKept, PressedAtItsPoint
  <2>6. ~(choices = 0 /\ allowed)
    <3>1. m.type = 5 => farIsCurrent
      BY <2>3 DEF Faithful, CarriedKept, Carries
    <3>2. m.type \in Known
      <4>1. m.type \in 1..4 \/ m.type = 5
        BY <1>1
      <4> QED
        BY <3>1, <4>1 DEF Known
    <3> QED
      BY <1>1, <1>7, <3>2 DEF Permitted, Unchosen
  <2>7. PlacedKept' /\ NothingLost'
    BY <1>1, <2>6 DEF PlacedKept, NothingLost
  <2> QED
    BY <2>2, <2>4, <2>5, <2>7 DEF Faithful
<1> QED
  BY <1>6, <1>7

\* What is decoded is what was done.
LEMMA DecodedIsInput ==
    ASSUME NEW m \in Packet, m.type \in 1..5, NEW input \in Inputs, Carries(m, input)
    PROVE  /\ m.type # 1 \/ input.kind = "move" => Decoded(m) = input
           /\ m.type = 1 => Injectable(Decoded(m)) /\ Position(m) = Point(m.n)
           /\ m.type = 2 => Position(m) = cursor
           /\ m.type = 5 => Position(m) = Point(m.n)
           /\ input.kind = "button" /\ (m.type # 1 \/ input.kind = "move") => m.type \in {2, 5}
<1>1. /\ input.kind \in {"move", "wheel", "button", "key"}
      /\ input.arg \in Nat /\ input.arg < 256 /\ input.down \in Nat /\ input.down < 2
      /\ input = [kind |-> input.kind, arg |-> input.arg, down |-> input.down]
      /\ input.kind = "move" => input.arg = 0 /\ input.down = 0
      /\ input.kind = "wheel" => input.down = 0
  <2>1. input.arg \in 0..255 /\ input.down \in {0, 1}
    BY InputTyped
  <2>2. input.arg \in Nat /\ input.arg < 256 /\ input.down \in Nat /\ input.down < 2
    BY <2>1
  <2> QED
    BY <2>2, InputTyped
<1> USE DEF Carries
<1>2. CASE m.type = 1
  <2>1. Decoded(m) = [kind |-> "move", arg |-> 0, down |-> 0]
    BY <1>2 DEF Decoded
  <2>2. Injectable(Decoded(m))
    BY <2>1 DEF Injectable
  <2>3. Position(m) = Point(m.n)
    BY <1>2 DEF Position
  <2>4. input.kind = "move" => Decoded(m) = input
    BY <1>1, <2>1
  <2> QED
    BY <1>2, <2>2, <2>3, <2>4
<1>3. CASE m.type = 2
  <2>1. Decoded(m) = [kind |-> "button", arg |-> m.arg1 % 256, down |-> m.arg2]
    BY <1>3 DEF Decoded
  <2>2. m.arg1 % 256 = input.arg
    BY <1>1, <1>3, Remainder
  <2>3. Decoded(m) = input
    BY <1>1, <1>3, <2>1, <2>2
  <2> QED
    BY <1>3, <2>3 DEF Position
<1>4. CASE m.type = 3
  <2>1. Decoded(m) = [kind |-> "wheel", arg |-> m.arg2, down |-> 0]
    BY <1>4 DEF Decoded
  <2> QED
    BY <1>1, <1>4, <2>1
<1>5. CASE m.type = 4
  <2>1. Decoded(m) = [kind |-> "key", arg |-> m.arg1, down |-> m.arg2]
    BY <1>5 DEF Decoded
  <2> QED
    BY <1>1, <1>5, <2>1
<1>6. CASE m.type = 5
  <2>1. PICK x \in Nat, y \in Nat : y < 65536 /\ Point(m.n) = <<x, y>>
    BY PointTyped DEF Packet
  <2>2. Point(m.n)[1] = x /\ Point(m.n)[2] = y
    BY <2>1
  <2>3. m.arg1 = x /\ m.arg2 = Pack(y, input.arg, input.down)
    BY <1>6, <2>2
  <2>4. /\ PackedY(m.arg2) = y /\ PackedButton(m.arg2) = input.arg
        /\ PackedDown(m.arg2) = input.down
    BY <1>1, <2>1, <2>3, PackRoundTrip
  <2>5. Decoded(m) = [kind |-> "button", arg |-> input.arg, down |-> input.down]
    BY <1>6, <2>4 DEF Decoded
  <2>6. Decoded(m) = input
    BY <1>1, <1>6, <2>5
  <2>7. Position(m) = <<x, y>>
    BY <1>6, <2>3, <2>4 DEF Position
  <2> QED
    BY <1>6, <2>1, <2>6, <2>7
<1> QED
  BY <1>2, <1>3, <1>4, <1>5, <1>6

LEMMA FaithfulInjected ==
    ASSUME Typed, CapabilityKept, Unchosen, Faithful, Inject
    PROVE  Faithful'
<1> DEFINE m == Head(inHand)
           rest == Steering(wire["far"]) \cup Steering(unsent)
           input == inputs[m.n]
           effect == [input |-> Decoded(m), n |-> m.n, at |-> cursor', type |-> m.type]
           applied == Injectable(Decoded(m)) /\ IsInput(m)
<1>1. /\ inHand # <<>> /\ inHand \in Seq(Packet) /\ inHand' = <<>> /\ Len(inHand) <= 1
      /\ UNCHANGED <<wire, unsent, inputs, farIsCurrent, touched, choices, allowed>>
      /\ cursor' = IF Injectable(Decoded(m)) THEN Position(m) ELSE cursor
      /\ effects' = IF applied THEN Append(effects, effect) ELSE effects
  BY DEF Inject, Apply, Typed, farVars, userVars
<1>2. m \in Packet /\ m \in Members(inHand) /\ m.type \in 1..5
  <2>1. m \in Packet /\ m \in Members(inHand)
    BY <1>1, TakenMembers
  <2> QED
    BY <2>1 DEF Typed
<1>3. Steering(inHand) = {m}
  <2>1. Len(inHand) \in Nat /\ Tail(inHand) \in Seq(Packet) /\ Len(Tail(inHand)) = Len(inHand) - 1
        /\ Members(inHand) = {m} \cup Members(Tail(inHand))
    BY <1>1, TakenMembers, LenProperties
  <2>2. Len(Tail(inHand)) = 0
    <3>1. Len(Tail(inHand)) \in Nat
      BY <2>1, LenProperties
    <3> QED
      BY <1>1, <2>1, <3>1
  <2>3. Members(inHand) = {m}
    BY <2>1, <2>2, EmptySeq, NoMembers
  <2> QED
    BY <1>2, <2>3 DEF Steering
<1> HIDE DEF m
<1>4. Under = {m} \cup rest /\ Under' = rest
  BY <1>1, <1>3, NoMembers DEF Under
<1>5. \A b \in rest : Before(m, b) /\ b \in Packet /\ b.type \in 1..5
  BY <1>3, <1>4, UnderTyped DEF Faithful, OrderKept
<1> HIDE DEF rest
<1>6. /\ m.n \in DOMAIN inputs /\ Carries(m, input) /\ m \in Under
      /\ \A b \in rest : b.n \in DOMAIN inputs /\ Carries(b, inputs[b.n])
  BY <1>4 DEF Faithful, CarriedKept
<1>7. input \in Inputs /\ m.n \in 1..MaxInputs
  <2>1. inputs \in Seq(Inputs) /\ Len(inputs) <= MaxInputs /\ Len(inputs) \in Nat
        /\ DOMAIN inputs = 1..Len(inputs)
    BY LenProperties DEF Typed
  <2>2. m.n \in 1..Len(inputs)
    BY <1>6, <2>1
  <2>3. input \in Inputs
    BY <2>1, <2>2, ElementOfSeq
  <2>4. m.n \in 1..MaxInputs
    BY <2>1, <2>2, ChannelAssumption
  <2> QED
    BY <2>3, <2>4
<1>8. /\ IsInput(m) => Decoded(m) = input
      /\ m.type = 1 => Injectable(Decoded(m)) /\ Position(m) = Point(m.n)
      /\ m.type = 2 => Position(m) = cursor
      /\ m.type = 5 => Position(m) = Point(m.n)
      /\ input.kind = "button" /\ IsInput(m) => m.type \in {2, 5}
  BY <1>2, <1>6, <1>7, DecodedIsInput DEF IsInput
<1>9. m.n \in Nat /\ \A b \in rest : b.n \in Nat
  BY <1>2, <1>5 DEF Packet
<1>10. OrderKept'
  BY <1>1, NoMembers DEF Faithful, OrderKept
<1>11. CarriedKept'
  BY <1>1, <1>4, <1>6 DEF CarriedKept, Carries
<1>12. ASSUME NEW b \in rest, ~(m.n < b.n)
       PROVE  m.n = b.n /\ m.type = 1 /\ b.type = 2 /\ ~IsInput(m)
  <2>1. m.n = b.n /\ m.type = 1 /\ b.type = 2
    BY <1>5, <1>12 DEF Before
  <2>2. input.kind = "button"
    BY <1>6, <2>1 DEF Carries
  <2> QED
    BY <2>1, <2>2 DEF IsInput
<1>13. PlacedKept'
  <2> SUFFICES ASSUME ~touched, choices = 0, allowed, NEW b \in rest, b.type = 2,
                      ~\E a \in rest : Leads(a, b)
               PROVE  cursor' = Point(b.n) /\ \A a \in rest : a.n >= b.n
    BY <1>1, <1>4 DEF PlacedKept
  <2>1. \/ \E a \in Under : Leads(a, b)
        \/ cursor = Point(b.n) /\ \A a \in Under : a.n >= b.n
    BY <1>4 DEF Faithful, PlacedKept
  <2>2. CASE m.n < b.n /\ ~Leads(m, b)
    <3>1. ~\E a \in Under : Leads(a, b)
      BY <1>4, <2>2
    <3> QED
      BY <1>6, <1>9, <2>1, <2>2, <3>1
  <2>3. CASE ~(m.n < b.n) \/ Leads(m, b)
    <3>1. m.type = 1 /\ m.n = b.n
      BY <1>12, <2>3 DEF Leads
    <3>2. cursor' = Point(b.n)
      BY <1>1, <1>8, <3>1
    <3>3. \A a \in rest : a.n >= b.n
      BY <1>9, <1>12, <3>1
    <3> QED
      BY <3>2, <3>3
  <2> QED
    BY <2>2, <2>3
<1>14. CASE ~applied
  <2>1. effects' = effects
    BY <1>1, <1>14
  <2>2. EffectsKept'
    BY <1>1, <1>4, <2>1 DEF Faithful, EffectsKept, PressedAtItsPoint
  <2>3. NothingLost'
    <3> SUFFICES ASSUME choices = 0, allowed, NEW n \in DOMAIN inputs, Injectable(inputs[n]),
                        ~Arrived(n)
                 PROVE  \E b \in rest : b.n = n /\ (b.type # 1 \/ inputs[b.n].kind = "move")
      BY <1>1, <1>4, <2>1 DEF NothingLost, Arrived, IsInput
    <3>1. PICK b \in Under : b.n = n /\ IsInput(b)
      BY DEF Faithful, NothingLost
    <3>2. b # m
      BY <1>8, <1>14, <3>1
    <3> QED
      BY <1>4, <3>1, <3>2 DEF IsInput
  <2> QED
    BY <1>10, <1>11, <1>13, <2>2, <2>3 DEF Faithful
<1>15. CASE applied
  <2>1. Decoded(m) = input /\ Injectable(input) /\ cursor' = Position(m) /\ IsInput(m)
    BY <1>1, <1>8, <1>15
  <2>2. effect \in Effect
    <3>1. cursor' \in Nat \X Nat
      BY <1>2, <2>1, PositionTyped
    <3> QED
      BY <1>2, <1>7, <2>1, <3>1 DEF Effect
  <2>3. /\ effects' = Append(effects, effect) /\ effects \in Seq(Effect)
        /\ Len(effects) \in Nat /\ DOMAIN effects = 1..Len(effects)
    BY <1>1, <1>15, LenProperties DEF Faithful, EffectsKept
  <2> HIDE DEF effect
  <2>4. /\ effects' \in Seq(Effect) /\ DOMAIN effects' = 1..(Len(effects) + 1)
        /\ effects'[Len(effects) + 1] = effect
        /\ \A i \in DOMAIN effects : effects'[i] = effects[i]
    BY <2>2, <2>3, AppendProperties
  <2>5. \A i \in DOMAIN effects' : i \in DOMAIN effects \/ i = Len(effects) + 1
    BY <2>3, <2>4
  <2>6. /\ \A i, j \in DOMAIN effects : i < j => effects[i].n < effects[j].n
        /\ \A i \in DOMAIN effects :
               /\ effects[i].n \in DOMAIN inputs
               /\ effects[i].input = inputs[effects[i].n] /\ Injectable(effects[i].input)
               /\ PressedAtItsPoint(effects[i])
               /\ \A b \in Under : effects[i].n < b.n
    BY DEF Faithful, EffectsKept
  <2>7. effect.n = m.n /\ effect.input = input /\ effect.type = m.type /\ effect.at = cursor'
    BY <2>1 DEF effect
  <2>8. ASSUME NEW i \in DOMAIN effects', NEW j \in DOMAIN effects', i < j
        PROVE  effects'[i].n < effects'[j].n
    <3>1. i \in DOMAIN effects
      BY <2>3, <2>4, <2>8
    <3>2. CASE j \in DOMAIN effects
      BY <2>4, <2>6, <2>8, <3>1, <3>2
    <3>3. CASE j = Len(effects) + 1
      BY <1>6, <2>4, <2>6, <2>7, <3>1, <3>3
    <3> QED
      BY <2>5, <3>2, <3>3
  <2>9. effect.input.kind = "button" /\ (effect.type = 5 \/ (~touched /\ choices = 0))
            => effect.at = Point(effect.n)
    <3> SUFFICES ASSUME input.kind = "button", m.type = 5 \/ (~touched /\ choices = 0)
                 PROVE  Position(m) = Point(m.n)
      BY <2>1, <2>7
    <3>1. CASE m.type = 5
      BY <1>8, <3>1
    <3>2. CASE m.type # 5
      <4>1. m.type = 2 /\ Position(m) = cursor
        BY <1>8, <2>1, <3>2
      <4>2. allowed
        BY <1>1, <3>2 DEF Unchosen
      <4>3. ~\E a \in Under : Leads(a, m)
        <5> SUFFICES ASSUME NEW a \in rest, Leads(a, m) PROVE FALSE
          BY <1>4, <4>1 DEF Leads
        <5> QED
          BY <1>5, <1>9, <4>1 DEF Leads, Before
      <4> QED
        BY <1>6, <3>2, <4>1, <4>2, <4>3 DEF Faithful, PlacedKept
    <3> QED
      BY <3>1, <3>2
  <2>10. ASSUME NEW i \in DOMAIN effects'
         PROVE  /\ effects'[i].n \in DOMAIN inputs
                /\ effects'[i].input = inputs[effects'[i].n] /\ Injectable(effects'[i].input)
                /\ effects'[i].input.kind = "button"
                       /\ (effects'[i].type = 5 \/ (~touched /\ choices = 0))
                       => effects'[i].at = Point(effects'[i].n)
                /\ \A b \in rest : effects'[i].n < b.n
    <3>1. CASE i \in DOMAIN effects
      BY <1>4, <2>4, <2>6, <3>1 DEF PressedAtItsPoint
    <3>2. CASE i = Len(effects) + 1
      BY <1>6, <1>12, <2>1, <2>4, <2>7, <2>9, <3>2
    <3> QED
      BY <2>5, <3>1, <3>2
  <2>11. EffectsKept'
    BY <1>1, <1>4, <2>4, <2>8, <2>10 DEF EffectsKept, PressedAtItsPoint
  <2>12. NothingLost'
    <3> SUFFICES ASSUME choices = 0, allowed, NEW n \in DOMAIN inputs, Injectable(inputs[n])
                 PROVE  \/ \E i \in DOMAIN effects' : effects'[i].n = n
                        \/ \E b \in rest : b.n = n /\ (b.type # 1 \/ inputs[b.n].kind = "move")
      BY <1>1, <1>4 DEF NothingLost, Arrived, IsInput
    <3>1. CASE Arrived(n)
      <4>1. PICK i \in DOMAIN effects : effects[i].n = n
        BY <3>1 DEF Arrived
      <4>2. i \in DOMAIN effects' /\ effects'[i].n = n
        BY <2>3, <2>4, <4>1
      <4> QED
        BY <4>2
    <3>2. CASE ~Arrived(n)
      <4>1. PICK b \in Under : b.n = n /\ IsInput(b)
        BY <3>2 DEF Faithful, NothingLost
      <4>2. CASE b = m
        <5>1. Len(effects) + 1 \in DOMAIN effects' /\ effects'[Len(effects) + 1].n = n
          BY <2>3, <2>4, <2>7, <4>1, <4>2
        <5> QED
          BY <5>1
      <4>3. CASE b # m
        BY <1>4, <4>1, <4>3 DEF IsInput
      <4> QED
        BY <4>2, <4>3
    <3> QED
      BY <3>1, <3>2
  <2> QED
    BY <1>10, <1>11, <1>13, <2>11, <2>12 DEF Faithful
<1> QED
  BY <1>14, <1>15


LEMMA FaithfulSent ==
    ASSUME Typed, CapabilityKept, Faithful, NEW input \in Inputs, SendInput(input)
    PROVE  Faithful'
<1> DEFINE n == Len(inputs) + 1
<1>1. PICK first, rest : /\ Sent(first, rest, input, n)
                         /\ wire' = Put("far", first) /\ unsent' = rest
  BY SentPackets
<1>2. /\ unsent = <<>> /\ inputs' = Append(inputs, input) /\ inputs \in Seq(Inputs)
      /\ UNCHANGED <<inHand, effects, farIsCurrent, touched, choices, allowed, cursor>>
  BY DEF SendInput, Typed, farVars, effectVars
<1>3. /\ Len(inputs) \in Nat /\ DOMAIN inputs = 1..Len(inputs) /\ DOMAIN inputs' = 1..n
      /\ inputs'[n] = input /\ \A k \in DOMAIN inputs : inputs'[k] = inputs[k]
  BY <1>2, LenProperties, AppendProperties
<1>4. n \in Nat /\ n \in DOMAIN inputs' /\ \A k \in DOMAIN inputs : k \in DOMAIN inputs' /\ k < n /\ k \in Nat
  BY <1>3
<1>5. \A k \in DOMAIN inputs' : k \in DOMAIN inputs \/ k = n
  BY <1>3
<1> HIDE DEF n
<1>6. first \in Packet /\ first.type \in 1..5 /\ first.type # 2 /\ Carries(first, input) /\ first.n = n
  BY <1>1 DEF Sent, Leading
<1>7. \/ Steering(rest) = {} /\ (first.type = 1 => input.kind = "move")
      \/ \E second \in Packet : /\ Steering(rest) = {second} /\ second.type = 2 /\ second.n = n
                                /\ Carries(second, input) /\ first.type = 1
                                /\ input.kind = "button"
  <2>1. CASE rest = <<>> /\ (first.type = 1 => input.kind = "move")
    BY <2>1, NoMembers
  <2>2. ASSUME NEW second \in Packet, rest = <<second>>, second.type = 2
        PROVE  Steering(rest) = {second}
    BY <2>2, OneMember DEF Steering
  <2> QED
    BY <1>1, <2>1, <2>2 DEF Sent
<1>8. \A b \in Steering(rest) : /\ b.type = 2 /\ b.n = n /\ Carries(b, input)
                                /\ first.type = 1 /\ input.kind = "button"
  BY <1>7
<1>9. wire["far"] \in Seq(Packet) /\ wire'["far"] = Append(wire["far"], first)
  BY <1>1, <1>6, PutPacket DEF Typed, Peers
<1>10. Members(wire'["far"]) = Members(wire["far"]) \cup {first}
  BY <1>6, <1>9, AppendedMembers
<1>11. Steering(wire'["far"]) = Steering(wire["far"]) \cup {first}
  BY <1>6, <1>10 DEF Steering
<1>12. Steering(unsent) = {}
  BY <1>2, NoMembers
<1>13. Under' = Under \cup {first} \cup Steering(rest)
  BY <1>1, <1>2, <1>11, <1>12 DEF Under
<1>14. \A m \in Under : /\ m.n \in DOMAIN inputs /\ Carries(m, inputs[m.n]) /\ m.n < n
  BY <1>4 DEF Faithful, CarriedKept
<1>15. \A a \in Under : Before(a, first) /\ \A b \in Steering(rest) : Before(a, b)
  BY <1>6, <1>8, <1>14 DEF Before
<1>16. \A b \in Steering(rest) : Before(first, b)
  BY <1>6, <1>8 DEF Before
<1>17. OrderKept'
  <2>1. Steering(wire["far"]) \subseteq Under /\ Steering(inHand) \subseteq Under
    BY DEF Under
  <2>2. Ordered(wire'["far"])
    BY <1>6, <1>9, <1>15, <2>1, AppendedMembers DEF Faithful, OrderKept
  <2>3. \A a \in Steering(inHand) : \A b \in Steering(wire'["far"]) \cup Steering(rest) : Before(a, b)
    BY <1>11, <1>15, <2>1 DEF Faithful, OrderKept
  <2>4. \A a \in Steering(wire'["far"]) : \A b \in Steering(rest) : Before(a, b)
    BY <1>11, <1>15, <1>16, <2>1
  <2> QED
    BY <1>1, <1>2, <2>2, <2>3, <2>4 DEF OrderKept
<1>18. CarriedKept'
  <2> SUFFICES ASSUME NEW m \in Under'
               PROVE  m.n \in DOMAIN inputs' /\ Carries(m, inputs'[m.n])
    BY <1>2 DEF CarriedKept, Carries
  <2>1. CASE m \in Under
    BY <1>3, <1>4, <1>14, <2>1
  <2>2. CASE m = first \/ m \in Steering(rest)
    BY <1>3, <1>4, <1>6, <1>8, <2>2
  <2> QED
    BY <1>13, <2>1, <2>2
<1>19. EffectsKept'
  <2>1. \A i \in DOMAIN effects : effects[i].n \in DOMAIN inputs /\ effects[i].n < n
    BY <1>4 DEF Faithful, EffectsKept
  <2>2. \A i \in DOMAIN effects : \A m \in Under' : effects[i].n < m.n
    BY <1>6, <1>8, <1>13, <2>1 DEF Faithful, EffectsKept
  <2> QED
    BY <1>2, <1>3, <1>4, <2>1, <2>2 DEF Faithful, EffectsKept, PressedAtItsPoint
<1>20. PlacedKept'
  <2> SUFFICES ASSUME ~touched, choices = 0, allowed, NEW m \in Under', m.type = 2
               PROVE  \/ \E a \in Under' : Leads(a, m)
                      \/ cursor = Point(m.n) /\ \A a \in Under' : a.n >= m.n
    BY <1>2 DEF PlacedKept
  <2>1. CASE m \in Under
    <3>1. CASE \E a \in Under : Leads(a, m)
      BY <1>13, <3>1
    <3>2. CASE cursor = Point(m.n) /\ \A a \in Under : a.n >= m.n
      <4>1. n >= m.n
        <5>1. m.n < n /\ m.n \in Nat
          BY <1>4, <1>14, <2>1
        <5> QED
          BY <1>4, <5>1
      <4> QED
        BY <1>6, <1>8, <1>13, <3>2, <4>1
    <3> QED
      BY <2>1, <3>1, <3>2 DEF Faithful, PlacedKept
  <2>2. CASE m \in Steering(rest)
    <3>1. Leads(first, m)
      BY <1>6, <1>8, <2>2 DEF Leads
    <3> QED
      BY <1>13, <3>1
  <2> QED
    BY <1>6, <1>13, <2>1, <2>2
<1>21. NothingLost'
  <2> SUFFICES ASSUME choices = 0, allowed, NEW k \in DOMAIN inputs', Injectable(inputs'[k])
               PROVE  \/ \E i \in DOMAIN effects : effects[i].n = k
                      \/ \E m \in Under' : m.n = k /\ (m.type # 1 \/ inputs'[m.n].kind = "move")
    BY <1>2 DEF NothingLost, Arrived, IsInput
  <2>1. CASE k \in DOMAIN inputs
    <3>1. Arrived(k) \/ \E m \in Under : m.n = k /\ IsInput(m)
      BY <1>3, <2>1 DEF Faithful, NothingLost
    <3> QED
      BY <1>3, <1>13, <1>14, <3>1 DEF Arrived, IsInput
  <2>2. CASE k = n
    <3>1. CASE Steering(rest) = {} /\ (first.type = 1 => input.kind = "move")
      BY <1>3, <1>6, <1>13, <2>2, <3>1
    <3>2. CASE \E second \in Steering(rest) : TRUE
      BY <1>8, <1>13, <2>2, <3>2
    <3> QED
      BY <1>7, <3>1, <3>2
  <2> QED
    BY <1>5, <2>1, <2>2
<1> QED
  BY <1>17, <1>18, <1>19, <1>20, <1>21 DEF Faithful

LEMMA FaithfulStep ==
    ASSUME Typed, CapabilityKept, Unchosen, Faithful, [Next]_vars
    PROVE  Faithful'
<1>1. CASE \E input \in Inputs : SendInput(input)
  BY <1>1, FaithfulSent
<1>2. CASE SendRest
  BY <1>2, FaithfulRest
<1>3. CASE OnInput
  BY <1>3, FaithfulTaken
<1>4. CASE Inject
  BY <1>4, FaithfulInjected
<1>5. CASE /\ ~\E input \in Inputs : SendInput(input)
           /\ ~SendRest /\ ~OnInput /\ ~Inject
  BY <1>5, FaithfulQuiet
<1> QED
  BY <1>1, <1>2, <1>3, <1>4, <1>5

LEMMA FaithfulIsApplied == Typed /\ Faithful => AppliedFaithfully
<1> SUFFICES ASSUME Typed, Faithful PROVE AppliedFaithfully
  OBVIOUS
<1>1. /\ \A i, j \in DOMAIN effects : i < j => effects[i].n < effects[j].n
      /\ \A i \in DOMAIN effects : /\ effects[i].input = inputs[effects[i].n]
                                   /\ PressedAtItsPoint(effects[i])
  BY DEF Faithful, EffectsKept
<1>2. ASSUME choices = 0, allowed, ~InputsUnderWay
      PROVE  {effects[i].n : i \in DOMAIN effects} = {n \in DOMAIN inputs : Injectable(inputs[n])}
  <2>1. inHand = <<>> /\ unsent = <<>> /\ Steering(wire["far"]) = {}
    BY <1>2 DEF InputsUnderWay, Steering, Members
  <2>2. Under = {}
    BY <2>1, NoMembers DEF Under
  <2>3. \A n \in DOMAIN inputs : Injectable(inputs[n]) => Arrived(n)
    BY <1>2, <2>2 DEF Faithful, NothingLost
  <2>4. \A i \in DOMAIN effects : effects[i].n \in DOMAIN inputs /\ Injectable(inputs[effects[i].n])
    BY DEF Faithful, EffectsKept
  <2> QED
    BY <2>3, <2>4 DEF Arrived
<1> QED
  BY <1>1, <1>2 DEF AppliedFaithfully

\* What near's user does is done at far: in order, once, the same key or
\* button, a button at its place, and with the permission from the start all of
\* it (SendRemoteInput, OnMessage, FillMouseButton): for any number of inputs,
\* on current and older builds.
THEOREM AppliedFaithfullyTheorem == Spec => []AppliedFaithfully
<1>1. Init => Unchosen
  BY DEF Init, Unchosen
<1>2. Typed /\ CapabilityKept /\ Unchosen /\ Faithful /\ [Next]_vars => Unchosen' /\ Faithful'
  BY UnchosenStep, FaithfulStep
<1> QED
  BY <1>1, <1>2, FaithfulInit, FaithfulIsApplied, ChannelInvariance, PTL DEF Spec


\* No more is injected than there are inputs.
CountsKept == /\ late \in Nat /\ late <= Len(effects)
              /\ \A i \in DOMAIN effects : i <= effects[i].n

LEMMA CountsStep ==
    ASSUME Typed, CapabilityKept, Unchosen, Faithful, CountsKept, [Next]_vars
    PROVE  CountsKept'
<1> USE DEF CountsKept
<1>1. CASE UNCHANGED <<effects, late>>
  BY <1>1
<1>2. CASE UNCHANGED effects /\ late' = 0
  <2>1. Len(effects) \in Nat
    BY LenProperties DEF Faithful, EffectsKept
  <2> QED
    BY <1>2, <2>1
<1>3. CASE Inject
  <2> DEFINE m == Head(inHand)
             effect == [input |-> Decoded(m), n |-> m.n, at |-> cursor', type |-> m.type]
             L == Len(effects)
  <2>1. \/ UNCHANGED <<effects, late>>
        \/ effects' = Append(effects, effect) /\ late' \in {late, late + 1}
    BY <1>3 DEF Inject, Apply
  <2>2. CASE effects' = Append(effects, effect) /\ late' \in {late, late + 1}
    <3>1. effect.n = m.n
      OBVIOUS
    <3>2. inHand # <<>> /\ inHand \in Seq(Packet)
      BY <1>3 DEF Inject, Typed
    <3>3. m \in Members(inHand)
      BY <3>2, TakenMembers
    <3>4. m \in Under
      BY <3>3 DEF Under, Steering, Typed
    <3>5. m.n \in DOMAIN inputs /\ \A i \in DOMAIN effects : effects[i].n < m.n
      BY <3>4 DEF Faithful, CarriedKept, EffectsKept
    <3>6. m.n \in Nat /\ m.n >= 1
      <4>1. inputs \in Seq(Inputs)
        BY DEF Typed
      <4>2. DOMAIN inputs = 1..Len(inputs) /\ Len(inputs) \in Nat
        BY <4>1, LenProperties
      <4> QED
        BY <3>5, <4>2
    <3>7. effects \in Seq(Effect) /\ effects' \in Seq(Effect) /\ L \in Nat /\ DOMAIN effects = 1..L
      BY <1>3, FaithfulStep, LenProperties DEF Faithful, EffectsKept
    <3> HIDE DEF effect, m
    <3>8. /\ Len(effects') = L + 1 /\ DOMAIN effects' = 1..(L + 1) /\ effects'[L + 1] = effect
          /\ \A i \in 1..L : effects'[i] = effects[i]
      <4>1. \A i \in 1..L : Append(effects, effect)[i] = effects[i]
        BY <3>7
      <4>2. Len(Append(effects, effect)) = L + 1 /\ Append(effects, effect)[L + 1] = effect
        BY <3>7
      <4>3. DOMAIN effects' = 1..Len(effects')
        BY <3>7, LenProperties
      <4> QED
        BY <2>2, <4>1, <4>2, <4>3
    <3>9. L + 1 <= m.n
      <4>1. CASE L = 0
        BY <3>6, <4>1
      <4>2. CASE L # 0
        <5>1. L \in DOMAIN effects
          BY <3>7, <4>2
        <5>2. L <= effects[L].n /\ effects[L].n < m.n /\ effects[L].n \in Nat
          <6>1. effects[L] \in Effect
            BY <3>7, <5>1
          <6> QED
            BY <3>5, <5>1, <6>1, ChannelAssumption DEF Effect
        <5> QED
          BY <3>6, <3>7, <5>2
      <4> QED
        BY <4>1, <4>2
    <3>10. \A i \in DOMAIN effects' : i <= effects'[i].n
      <4>1. \A i \in DOMAIN effects' : i \in 1..L \/ i = L + 1
        BY <3>7, <3>8
      <4> QED
        BY <3>1, <3>7, <3>8, <3>9, <4>1
    <3>11. late' \in Nat /\ late' <= L + 1
      BY <2>2, <3>7
    <3> QED
      BY <3>8, <3>10, <3>11
  <2> QED
    BY <1>1, <2>1, <2>2
<1>4. CASE Choose
  <2>1. UNCHANGED effects /\ late' = 0
    BY <1>4 DEF Choose
  <2> QED
    BY <1>2, <2>1
<1>5. UNCHANGED <<effects, late>> \/ Inject \/ Choose
  BY DEF Next, vars, effectVars, SendInput, SendRest, SendPing, OnPing, OnPong, Tick, OnInput,
         MoveLocally, OnDataChannel, OpenChannel, ChooseForChannel
<1> QED
  BY <1>1, <1>3, <1>4, <1>5

Flags == /\ open \in BOOLEAN /\ making \in {"no", "created", "loaded", "attached"}
         /\ {farIsCurrent, allowed, authorized, loaded, choosing, raced, touched} \subseteq BOOLEAN

LEMMA FlagsStep == Flags /\ [Next]_vars => Flags'
<1> SUFFICES ASSUME Flags, [Next]_vars PROVE Flags'
  OBVIOUS
<1> USE DEF Flags, farVars, userVars
<1>1. CASE UNCHANGED vars
  BY <1>1 DEF vars
<1>2. CASE \E input \in Inputs : SendInput(input)
  BY <1>2 DEF SendInput
<1>3. CASE SendRest
  BY <1>3 DEF SendRest
<1>4. CASE \E p \in Peers : SendPing(p) \/ OnPing(p) \/ OnPong(p)
  BY <1>4 DEF SendPing, OnPing, OnPong
<1>5. CASE Tick
  BY <1>5 DEF Tick
<1>6. CASE OnInput
  BY <1>6 DEF OnInput
<1>7. CASE Inject
  BY <1>7 DEF Inject
<1>8. CASE MoveLocally
  BY <1>8 DEF MoveLocally
<1>9. CASE OnDataChannel
  BY <1>9 DEF OnDataChannel, CreateChannel, LoadAuthorization, Attach
<1>10. CASE OpenChannel
  BY <1>10 DEF OpenChannel
<1>11. CASE Choose
  BY <1>11 DEF Choose, ClickBox
<1>12. CASE ChooseForChannel
  BY <1>12 DEF ChooseForChannel
<1> QED
  BY <1>1, <1>2, <1>3, <1>4, <1>5, <1>6, <1>7, <1>8, <1>9, <1>10, <1>11, <1>12 DEF Next

\* Packets, flags and counters keep their types; no more is injected than was
\* done.
THEOREM ChannelTypeCorrect == Spec => []TypeOK
<1>1. Init => Unchosen /\ CountsKept /\ Flags
  <2>1. Init => Unchosen /\ Flags
    BY DEF Init, Unchosen, Flags
  <2>2. Init => CountsKept
    BY DEF Init, CountsKept
  <2> QED
    BY <2>1, <2>2
<1>2. Typed /\ CapabilityKept /\ Unchosen /\ Faithful /\ CountsKept /\ [Next]_vars
          => Unchosen' /\ Faithful' /\ CountsKept'
  BY UnchosenStep, FaithfulStep, CountsStep
<1>3. Typed /\ CapabilityKept /\ Faithful /\ CountsKept /\ Flags => TypeOK
  <2> SUFFICES ASSUME Typed, CapabilityKept, Faithful, CountsKept, Flags PROVE TypeOK
    OBVIOUS
  <2>1. effects \in Seq(Effect) /\ Len(effects) \in Nat /\ DOMAIN effects = 1..Len(effects)
    BY LenProperties DEF Faithful, EffectsKept
  <2>2. Len(inputs) \in Nat /\ DOMAIN inputs = 1..Len(inputs) /\ Len(inputs) <= MaxInputs
        /\ inputs \in Seq(Inputs)
    BY LenProperties DEF Typed
  <2>3. Len(effects) <= Len(inputs)
    <3> SUFFICES ASSUME Len(effects) # 0 PROVE Len(effects) <= Len(inputs)
      BY <2>1, <2>2
    <3>1. Len(effects) \in DOMAIN effects
      BY <2>1
    <3>2. Len(effects) <= effects[Len(effects)].n /\ effects[Len(effects)].n \in 1..Len(inputs)
      BY <2>2, <3>1 DEF CountsKept, Faithful, EffectsKept
    <3> QED
      BY <2>1, <2>2, <3>2
  <2>4. late \in 0..MaxInputs
    BY <2>1, <2>2, <2>3, ChannelAssumption DEF CountsKept
  <2>5. /\ wire \in [Peers -> Seq(Packet)] /\ rtt \in [Peers -> 0..MaxRtt]
        /\ clock \in 0..(Word - 1)
        /\ unsent \in Seq(Packet) /\ inHand \in Seq(Packet)
        /\ Len(unsent) <= 1 /\ Len(inHand) <= 1 /\ choices \in 0..MaxChoices
    BY DEF Typed
  <2>6. supports \in [Peers -> BOOLEAN]
    BY DEF CapabilityKept
  <2> QED
    BY <2>2, <2>3, <2>4, <2>5, <2>6 DEF TypeOK, Flags
<1> QED
  BY <1>1, <1>2, <1>3, FaithfulInit, FlagsStep, ChannelInvariance, PTL DEF Spec

-----------------------------------------------------------------------------
(* PointerGeometry.                                                      *)

-----------------------------------------------------------------------------
(* Division. *)

LEMMA Quotient ==
    ASSUME NEW n \in Nat, NEW d \in Nat, d > 0
    PROVE  /\ n \div d \in Nat
           /\ d * (n \div d) <= n
           /\ n < d * (n \div d) + d
BY SMT

LEMMA Product ==
    ASSUME NEW a \in Nat, NEW b \in Nat, NEW c \in Nat, a <= b
    PROVE  c * a <= c * b /\ c * a \in Nat /\ c * b \in Nat
BY SMT

\* A quotient is bounded by what bounds the numerator.
LEMMA QuotientAtMost ==
    ASSUME NEW n \in Nat, NEW d \in Nat, NEW q \in Nat, d > 0,
           n < d * q + d
    PROVE  n \div d <= q
<1> DEFINE r == n \div d
<1>1. r \in Nat /\ d * r <= n
  BY Quotient
<1>2. SUFFICES ASSUME r > q PROVE FALSE
  BY <1>1, SMT
<1>3. d * (q + 1) <= d * r
  BY <1>1, <1>2, Product
<1>4. d * (q + 1) = d * q + d
  BY SMT
<1> QED
  BY <1>1, <1>3, <1>4, SMT

LEMMA QuotientAtLeast ==
    ASSUME NEW n \in Nat, NEW d \in Nat, NEW q \in Nat, d > 0,
           d * q <= n
    PROVE  q <= n \div d
<1> DEFINE r == n \div d
<1>1. r \in Nat /\ n < d * r + d
  BY Quotient
<1>2. SUFFICES ASSUME r < q PROVE FALSE
  BY <1>1, SMT
<1>3. d * (r + 1) <= d * q
  BY <1>1, <1>2, Product
<1>4. d * (r + 1) = d * r + d
  BY <1>1, SMT
<1> QED
  BY <1>1, <1>3, <1>4, SMT

-----------------------------------------------------------------------------
(* One axis of the picture. *)

\* A coordinate that is sent fits its 16 bits, whether the user points at the
\* picture, beside it, or at one that is a single pixel wide.
THEOREM NormalizedFits ==
    ASSUME NEW x \in Int, NEW left \in Int, NEW width \in Nat, width > 0
    PROVE  Normalized(x, left, width) \in Nat
           /\ Normalized(x, left, width) < 65536
<1> DEFINE p == Clamp(x, left, left + width - 1) - left
           d == AtLeast(1, width - 1)
<1>1. p \in Nat /\ d \in Nat /\ d > 0 /\ p <= d
  BY SMT DEF Clamp, AtLeast
<1>2. d \div 2 \in Nat /\ d \div 2 < d
  BY <1>1, SMT
<1>3. p * 65535 + d \div 2 \in Nat /\ p * 65535 + d \div 2 < d * 65535 + d
  BY <1>1, <1>2, SMT
<1>4. (p * 65535 + d \div 2) \div d \in Nat
      /\ (p * 65535 + d \div 2) \div d <= 65535
  BY <1>1, <1>3, Quotient, QuotientAtMost
<1>5. Normalized(x, left, width) = (p * 65535 + d \div 2) \div d
  BY <1>1, SMT DEF Normalized, MulDiv
<1> QED
  BY <1>4, <1>5, SMT

\* When picture and screen have the same width, what is pressed is the very
\* pixel that was clicked, as long as 16 bits can tell the pixels apart.
THEOREM SamePixel ==
    ASSUME NEW size \in Nat, 2 <= size, size <= 65536,
           NEW left \in Int, NEW pixel \in Nat, pixel < size
    PROVE  PrimaryPixel(Normalized(left + pixel, left, size), size) = pixel
<1> DEFINE d == size - 1
           h == d \div 2
           q == (pixel * 65535 + h) \div d
           r == (q * d + 32767) \div 65535
<1>1. /\ d \in Nat /\ d > 0 /\ d <= 65535 /\ h \in Nat
      /\ h <= 32767 /\ d <= h + 32768
      /\ AtLeast(1, d) = d /\ AtLeast(2, size) = size
  BY SMT DEF AtLeast
<1>2. Clamp(left + pixel, left, left + size - 1) - left = pixel
  BY SMT DEF Clamp, AtLeast
<1>3. Normalized(left + pixel, left, size) = q
  BY <1>1, <1>2, SMT DEF Normalized, MulDiv
<1>4. q \in Nat /\ d * q <= pixel * 65535 + h /\ pixel * 65535 + h < d * q + d
  BY <1>1, Quotient, pixel * 65535 + h \in Nat
<1>5. PrimaryPixel(q, size) = r
  BY <1>1, <1>4, 65535 \div 2 = 32767, SMT DEF PrimaryPixel, MulDiv
<1>6. d * q \in Nat /\ q * d = d * q
  BY <1>1, <1>4, SMT
<1>7. 65535 * pixel <= d * q + 32767 /\ d * q + 32767 < 65535 * pixel + 65535
  BY <1>1, <1>4, <1>6, SMT
<1>8. pixel <= r /\ r <= pixel
  BY <1>6, <1>7, QuotientAtLeast, QuotientAtMost, d * q + 32767 \in Nat
<1> QED
  BY <1>3, <1>5, <1>6, <1>8, SMT

\* The clamp of the conversion to the virtual desktop moves no point of a
\* primary screen that lies within that desktop, left of others or right.
THEOREM PrimaryIsNotClamped ==
    ASSUME NEW x \in Nat, NEW primary \in Nat, NEW left \in Int,
           NEW all \in Nat, x < 65536, left <= 0, primary >= 2,
           primary - left <= all
    PROVE  AbsoluteMove(x, primary, left, all)
               = AcrossScreens(PrimaryPixel(x, primary), left, all)
<1> DEFINE e == primary - 1
           m == x * e + 32767
           pixel == PrimaryPixel(x, primary)
           p == pixel - left
           d == all - 1
           n == p * 65535 + d \div 2
<1>1. e \in Nat /\ m \in Nat /\ AtLeast(2, primary) - 1 = e
  BY SMT DEF AtLeast
<1>2. x * e <= 65535 * e
  BY <1>1, Product, SMT
<1>3. pixel = m \div 65535
  BY <1>1, 65535 \div 2 = 32767, SMT DEF PrimaryPixel, MulDiv
<1>4. pixel \in Nat /\ pixel <= e
  BY <1>1, <1>2, <1>3, Quotient, QuotientAtMost, m < 65535 * e + 65535
<1>5. p \in Nat /\ d \in Nat /\ d > 0 /\ p <= d /\ AtLeast(2, all) - 1 = d
  BY <1>4, SMT DEF AtLeast
<1>6. n \in Nat /\ n < d * 65535 + d
  BY <1>5, d \div 2 \in Nat, d \div 2 < d, SMT
<1>7. AcrossScreens(pixel, left, all) = n \div d
  BY <1>5, SMT DEF AcrossScreens, MulDiv
<1>8. n \div d \in Nat /\ n \div d <= 65535
  BY <1>5, <1>6, Quotient, QuotientAtMost
<1> QED
  BY <1>7, <1>8, SMT DEF AbsoluteMove, Clamp, AtLeast

-----------------------------------------------------------------------------
(* The whole picture. *)

\* A picture that is scaled never leaves its window, so that every pixel of
\* it can be pointed at, whatever the shapes of the two; one line or column
\* is kept of a picture so flat that nothing would be left.
THEOREM ScaledRectFits ==
    ASSUME NEW w \in Nat, NEW h \in Nat, NEW fw \in Nat, NEW fh \in Nat,
           w > 0, h > 0, fw > 0, fh > 0
    PROVE  LET rect == CalculateVideoRect([width |-> w, height |-> h],
                           [width |-> fw, height |-> fh], FALSE)
           IN  /\ rect.width > 0 /\ rect.height > 0
               /\ rect.left >= 0 /\ rect.left + rect.width <= w
               /\ rect.top >= 0 /\ rect.top + rect.height <= h
<1> DEFINE client == [width |-> w, height |-> h]
           frame == [width |-> fw, height |-> fh]
           tall == (w * fh) \div fw
           wide == (h * fw) \div fh
<1>1. w * fh \in Nat /\ h * fw \in Nat
  BY SMT
<1>2. tall \in Nat /\ wide \in Nat
  BY <1>1, Quotient
<1>3. tall > h => wide <= w
  <2>1. SUFFICES ASSUME tall > h PROVE wide <= w
    OBVIOUS
  <2>2. fw * tall <= w * fh
    BY <1>1, Quotient
  <2>3. fw * h <= fw * tall
    BY <1>2, <2>1, Product, h <= tall
  <2>4. h * fw <= fh * w
    BY <1>1, <1>2, <2>2, <2>3, SMT
  <2>5. h * fw < fh * w + fh
    BY <1>1, <2>4, SMT
  <2> QED
    BY <1>1, <2>5, QuotientAtMost
<1>4. /\ Scaled(client, frame).width \in Nat
      /\ Scaled(client, frame).width <= w
      /\ Scaled(client, frame).height \in Nat
      /\ Scaled(client, frame).height <= h
  BY <1>2, <1>3, SMT DEF Scaled
<1> QED
  BY <1>4, SMT DEF CalculateVideoRect, AtLeast, Half

=============================================================================
