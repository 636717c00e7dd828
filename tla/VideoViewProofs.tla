-------------------------- MODULE VideoViewProofs --------------------------
(***************************************************************************)
(* The remote picture and the input given to it, for any users, windows,   *)
(* frames, buttons and keys.                                               *)
(***************************************************************************)
EXTENDS MCVideoView, SequenceTheorems, WellFoundedInduction, TLAPS

-----------------------------------------------------------------------------
(* Taking the messages of a window out of the queue, which is a recursion  *)
(* over the queue.  Induction is over the least number that fails.         *)

LEMMA LeastNumber ==
    ASSUME NEW S, S \subseteq Nat, S # {}
    PROVE  \E least \in S : \A n \in S : least <= n
<1> DEFINE R == OpToRel(<, Nat)
<1>1. IsWellFoundedOn(R, Nat)
  BY NatLessThanWellFounded
<1>2. PICK least \in S : \A n \in S : <<n, least>> \notin R
  BY <1>1, WFMin
<1>3. \A n \in S : n < least => <<n, least>> \in R
  BY DEF OpToRel
<1>4. \A n \in S : ~(n < least)
  BY <1>2, <1>3
<1> QED
  BY <1>4

\* One step of the recursion of Others.
Taken(left, w, i) ==
    IF i = 0 THEN <<>>
    ELSE IF posted[i].to = w THEN left[i-1] ELSE Append(left[i-1], posted[i])

\* The function that Others defines exists.
LEMMA TakenExists ==
    ASSUME posted \in Seq(Message), NEW w
    PROVE  \E left : left = [i \in 0..Len(posted) |-> Taken(left, w, i)]
<1> DEFINE Upto(n) == \E left : left = [i \in 0..n |-> Taken(left, w, i)]
           Failing == {n \in 0..Len(posted) : ~Upto(n)}
<1>0. Len(posted) \in Nat
  OBVIOUS
<1>1. SUFFICES ASSUME Failing # {} PROVE FALSE
  BY <1>0
<1>2. PICK n \in Failing : \A m \in Failing : n <= m
  <2>1. Failing \subseteq Nat
    OBVIOUS
  <2> HIDE DEF Failing
  <2> QED
    BY <1>1, <2>1, LeastNumber
<1>3. n # 0
  <2>1. [i \in 0..0 |-> <<>>] = [i \in 0..0 |-> Taken([k \in 0..0 |-> <<>>], w, i)]
    BY DEF Taken
  <2>2. Upto(0)
    BY <2>1
  <2> QED
    BY <2>2
<1>4. n - 1 \in 0..Len(posted) /\ n \in Nat
  BY <1>0, <1>3
<1>5. Upto(n - 1)
  BY <1>2, <1>4
<1>6. PICK left : left = [i \in 0..(n - 1) |-> Taken(left, w, i)]
  BY <1>5
<1> DEFINE more == [i \in 0..n |-> IF i = n THEN Taken(left, w, n) ELSE left[i]]
<1>7. \A i \in 0..n : more[i] = Taken(more, w, i)
  <2> SUFFICES ASSUME NEW i \in 0..n PROVE more[i] = Taken(more, w, i)
    OBVIOUS
  <2>1. i # 0 => i - 1 \in 0..n /\ i - 1 # n
    BY <1>4
  <2>2. i # 0 => more[i-1] = left[i-1]
    BY <2>1
  <2>3. Taken(more, w, i) = Taken(left, w, i)
    BY <2>2 DEF Taken
  <2>4. i # n => left[i] = Taken(left, w, i)
    BY <1>4, <1>6
  <2> QED
    BY <2>3, <2>4
<1>8. more = [i \in 0..n |-> Taken(more, w, i)]
  BY <1>7
<1>9. Upto(n)
  BY <1>8
<1> QED
  BY <1>2, <1>9

\* rest is what the first n messages are without those for w: places tells
\* where each of its messages was.
Without(rest, places, w, n) ==
    /\ rest \in Seq(Message)
    /\ places \in [1..Len(rest) -> 1..n]
    /\ \A i \in 1..Len(rest) : rest[i] = posted[places[i]] /\ rest[i].to # w
    /\ \A i, j \in 1..Len(rest) : i < j => places[i] < places[j]
    /\ \A k \in 1..n : posted[k].to # w => \E i \in 1..Len(rest) : places[i] = k

LEMMA WithoutGrows ==
    ASSUME posted \in Seq(Message), NEW w, NEW n \in 1..Len(posted),
           NEW rest, NEW places, Without(rest, places, w, n - 1)
    PROVE  \E more : Without(IF posted[n].to = w THEN rest
                             ELSE Append(rest, posted[n]), more, w, n)
<1>0. n \in Nat /\ n - 1 \in Nat /\ Len(rest) \in Nat /\ posted[n] \in Message
  BY DEF Without
<1>1. CASE posted[n].to = w
  <2>0. \A k \in 1..n : k \in 1..(n - 1) \/ k = n
    BY <1>0
  <2>1. places \in [1..Len(rest) -> 1..n]
    BY <1>0 DEF Without
  <2>2. \A k \in 1..n : posted[k].to # w => \E i \in 1..Len(rest) : places[i] = k
    BY <1>1, <2>0 DEF Without
  <2>3. Without(rest, places, w, n)
    BY <2>1, <2>2 DEF Without
  <2> QED
    BY <1>1, <2>3
<1>2. CASE posted[n].to # w
  <2> DEFINE longer == Append(rest, posted[n])
             more == [i \in 1..Len(rest) + 1 |->
                         IF i = Len(rest) + 1 THEN n ELSE places[i]]
  <2>1. /\ longer \in Seq(Message) /\ Len(longer) = Len(rest) + 1
        /\ longer[Len(rest) + 1] = posted[n]
        /\ \A i \in 1..Len(rest) : longer[i] = rest[i]
    BY <1>0, AppendProperties DEF Without
  <2>2. more \in [1..Len(longer) -> 1..n]
    BY <1>0, <2>1 DEF Without
  <2>3. \A i \in 1..Len(longer) : longer[i] = posted[more[i]] /\ longer[i].to # w
    BY <1>0, <1>2, <2>1 DEF Without
  <2>4. \A i, j \in 1..Len(longer) : i < j => more[i] < more[j]
    <3> SUFFICES ASSUME NEW i \in 1..Len(longer), NEW j \in 1..Len(longer), i < j
                 PROVE  more[i] < more[j]
      OBVIOUS
    <3>1. i \in 1..Len(rest) /\ more[i] = places[i] /\ places[i] \in 1..(n - 1)
      BY <1>0, <2>1, SMTT(60) DEF Without
    <3>2. CASE j = Len(rest) + 1
      BY <1>0, <2>1, <3>1, <3>2
    <3>3. CASE j # Len(rest) + 1
      <4>1. j \in 1..Len(rest) /\ more[j] = places[j]
        BY <1>0, <2>1, <3>3
      <4> QED
        BY <3>1, <4>1 DEF Without
    <3> QED
      BY <3>2, <3>3
  <2>5. \A k \in 1..n : posted[k].to # w => \E i \in 1..Len(longer) : more[i] = k
    <3> SUFFICES ASSUME NEW k \in 1..n, posted[k].to # w
                 PROVE  \E i \in 1..Len(longer) : more[i] = k
      OBVIOUS
    <3>1. CASE k = n
      <4>1. Len(rest) + 1 \in 1..Len(longer) /\ more[Len(rest) + 1] = k
        BY <1>0, <2>1, <3>1
      <4> QED
        BY <4>1
    <3>2. CASE k # n
      <4>1. k \in 1..(n - 1)
        BY <1>0, <3>2
      <4>2. PICK i \in 1..Len(rest) : places[i] = k
        BY <4>1 DEF Without
      <4>3. i \in 1..Len(longer) /\ more[i] = k
        BY <1>0, <2>1, <4>2
      <4> QED
        BY <4>3
    <3> QED
      BY <3>1, <3>2
  <2>6. Without(longer, more, w, n)
    BY <2>1, <2>2, <2>3, <2>4, <2>5 DEF Without
  <2> QED
    BY <1>2, <2>6
<1> QED
  BY <1>1, <1>2

\* What OnFrame, DrainView and ViewGone leave in the queue.
LEMMA OthersEffect ==
    ASSUME posted \in Seq(Message), NEW w
    PROVE  \E places : Without(Others(w), places, w, Len(posted))
<1> DEFINE left == CHOOSE l : l = [i \in 0..Len(posted) |-> Taken(l, w, i)]
<1>0. Len(posted) \in Nat
  OBVIOUS
<1>1. left = [i \in 0..Len(posted) |-> Taken(left, w, i)]
  BY TakenExists
<1>2. Others(w) = left[Len(posted)]
  BY DEF Others, Taken
<1> HIDE DEF left
<1> DEFINE Good(n) == \E places : Without(left[n], places, w, n)
           Failing == {n \in 0..Len(posted) : ~Good(n)}
<1>3. SUFFICES ASSUME Failing # {} PROVE FALSE
  BY <1>0, <1>2
<1>4. PICK n \in Failing : \A m \in Failing : n <= m
  <2>1. Failing \subseteq Nat
    OBVIOUS
  <2> HIDE DEF Failing
  <2> QED
    BY <1>3, <2>1, LeastNumber
<1>5. n # 0
  <2>1. left[0] = <<>>
    BY <1>0, <1>1 DEF Taken
  <2>2. Without(<<>>, [i \in 1..0 |-> 0], w, 0)
    BY DEF Without
  <2> QED
    BY <2>1, <2>2
<1>6. n - 1 \in 0..Len(posted) /\ n \in 1..Len(posted)
  BY <1>0, <1>5
<1>7. PICK places : Without(left[n-1], places, w, n - 1)
  <2>1. n - 1 \notin Failing
    <3> HIDE DEF Failing
    <3> QED
      BY <1>4, <1>6
  <2>2. Good(n - 1)
    BY <1>6, <2>1
  <2> QED
    BY <2>2
<1>8. left[n] = IF posted[n].to = w THEN left[n-1] ELSE Append(left[n-1], posted[n])
  BY <1>1, <1>5, <1>6 DEF Taken
<1>9. Good(n)
  BY <1>6, <1>7, <1>8, WithoutGrows
<1> QED
  BY <1>4, <1>9

\* There is a last message for a window that has messages.
LEMMA LastEffect ==
    ASSUME posted \in Seq(Message), NEW w, NEW i \in 1..Len(posted), posted[i].to = w
    PROVE  /\ Last(w) \in 1..Len(posted) /\ posted[Last(w)].to = w
           /\ \A j \in 1..Len(posted) : j > Last(w) => posted[j].to # w
<1> DEFINE n == Len(posted)
           S == {n - k : k \in {k \in 1..n : posted[k].to = w}}
<1>0. n \in Nat /\ DOMAIN posted = 1..n
  OBVIOUS
<1>1. S \subseteq Nat /\ n - i \in S
  BY <1>0
<1>2. PICK least \in S : \A m \in S : least <= m
  BY <1>1, LeastNumber
<1>3. PICK k \in 1..n : posted[k].to = w /\ least = n - k
  BY <1>2
<1>4. \A j \in (k+1)..n : posted[j].to # w
  <2> SUFFICES ASSUME NEW j \in (k+1)..n, posted[j].to = w PROVE FALSE
    OBVIOUS
  <2>1. j \in 1..n /\ n - j < n - k
    BY <1>0
  <2>2. n - j \in S
    BY <2>1
  <2>3. n - k <= n - j
    BY <1>2, <1>3, <2>2
  <2> QED
    BY <1>0, <2>1, <2>3
<1>5. /\ Last(w) \in DOMAIN posted /\ posted[Last(w)].to = w
      /\ \A j \in (Last(w)+1)..n : posted[j].to # w
  BY <1>0, <1>3, <1>4 DEF Last
<1> QED
  BY <1>0, <1>5

-----------------------------------------------------------------------------
(* Types.                                                                  *)

LEMMA BlankIsPicture == Blank \in Picture /\ [to |-> 0, picture |-> Blank] \in Message
BY ViewAssumption DEF Blank, Picture, Message, Window

\* Steps that leave all but input, control and ghosts alone.
StillData == UNCHANGED <<ui, full, views, picture, posted, sessions, active, target,
                         inHand, frames, strayed>>

LEMMA InputStill ==
    ASSUME Input
    PROVE  StillData /\ UNCHANGED <<fullscreen, overtaken, failed>>
<1> USE DEF StillData, StillView, viewVars, sessionVars, decoderVars, ghostVars
<1>1. CASE ToggleScaleMode \/ MovePointer \/ Deactivate \/ Activate \/ KeyboardControl
               \/ AltKey
  BY <1>1 DEF ToggleScaleMode, MovePointer, Deactivate, Activate, KeyboardControl, AltKey
<1>2. ASSUME NEW b \in Buttons, ButtonDown(b) \/ ButtonDblClk(b) \/ ButtonUp(b)
      PROVE  StillData /\ UNCHANGED <<fullscreen, overtaken, failed>>
  BY <1>2 DEF Presses, ButtonDown, ButtonDblClk, ButtonUp
<1>3. ASSUME NEW k \in Keys, KeyDown(k) \/ KeyUp(k)
      PROVE  StillData /\ UNCHANGED <<fullscreen, overtaken, failed>>
  BY <1>3 DEF KeyDown, KeyUp
<1> QED
  BY <1>1, <1>2, <1>3 DEF Input

LEMMA DataInit == Init => DataOK
<1>1. <<>> \in Seq(Message) /\ Len(<<>>) <= 1
  OBVIOUS
<1>2. Init => {full, views} \subseteq Window /\ frames \in 0..MaxFrames
  BY ViewAssumption DEF Init, Window
<1>3. Init => target \in [Users -> Window]
  BY ViewAssumption DEF Init, Window
<1> QED
  BY <1>1, <1>2, <1>3, BlankIsPicture DEF Init, DataOK

LEMMA HeldTyped ==
    ASSUME DataOK, [Next]_vars
    PROVE  /\ pressed' \subseteq Buttons \cup Keys
           /\ held' \subseteq Buttons \cup Keys
           /\ clicked' \subseteq Buttons
<1> USE DEF DataOK
<1>1. CASE Input
  <2>1. CASE ToggleScaleMode \/ MovePointer \/ Deactivate \/ Activate \/ KeyboardControl
                 \/ AltKey
    BY <2>1 DEF ToggleScaleMode, MovePointer, Deactivate, Activate, KeyboardControl,
                AltKey, ControlOff, farVars
  <2>2. ASSUME NEW b \in Buttons, ButtonDown(b) \/ ButtonDblClk(b) \/ ButtonUp(b)
        PROVE  /\ pressed' \subseteq Buttons \cup Keys /\ held' \subseteq Buttons \cup Keys
               /\ clicked' \subseteq Buttons
    BY <2>2 DEF Presses, ButtonDown, ButtonDblClk, ButtonUp, farVars
  <2>3. ASSUME NEW k \in Keys, KeyDown(k) \/ KeyUp(k)
        PROVE  /\ pressed' \subseteq Buttons \cup Keys /\ held' \subseteq Buttons \cup Keys
               /\ clicked' \subseteq Buttons
    BY <2>3 DEF KeyDown, KeyUp
  <2> QED
    BY <1>1, <2>1, <2>2, <2>3 DEF Input
<1>2. CASE ~Input
  <2>1. UNCHANGED <<pressed, held>> /\ clicked' \in {clicked, {}}
    BY <1>2 DEF Next, vars, BeginSession, Signal, RemoteHangup, RemoveFailed, Decode,
         PostFrame, OnBnClickedHangup, Interrupted, OnFrame, EnterFullscreen,
         ExitFullscreen, DrainView, ViewGone, MakeActive, ControlOff, inputVars, farVars
  <2> QED
    BY <2>1
<1> QED
  BY <1>1, <1>2

\* The messages, wherever they are.
LEMMA MessagesTyped ==
    ASSUME DataOK, [Next]_vars
    PROVE  posted' \in Seq(Message)
<1>1. posted \in Seq(Message)
  BY DEF DataOK
<1>2. \A w : Others(w) \in Seq(Message)
  BY <1>1, OthersEffect DEF Without
<1>3. \A u \in Users : posted \o inHand[u] \in Seq(Message)
  BY <1>1, ConcatProperties DEF DataOK
<1>4. Append(posted, [to |-> 0, picture |-> Blank]) \in Seq(Message)
  BY <1>1, BlankIsPicture
<1>5. CASE Input
  BY <1>1, <1>5, InputStill DEF StillData
<1>6. ASSUME NEW u \in Users,
             \/ BeginSession(u) \/ Signal(u) \/ RemoteHangup(u)
             \/ RemoveFailed(u) \/ Decode(u) \/ PostFrame(u)
      PROVE  posted' \in Seq(Message)
  BY <1>1, <1>3, <1>4, <1>6 DEF BeginSession, Signal, RemoteHangup, RemoveFailed,
       Decode, PostFrame, Clear, viewVars
<1>7. CASE OnBnClickedHangup \/ Interrupted
  BY <1>1, <1>4, <1>7 DEF OnBnClickedHangup, Interrupted, Clear, viewVars
<1>8. CASE OnFrame \/ DrainView \/ ViewGone
  BY <1>2, <1>8 DEF OnFrame, DrainView, ViewGone
<1>9. CASE EnterFullscreen \/ ExitFullscreen \/ UNCHANGED vars
  BY <1>1, <1>9 DEF EnterFullscreen, ExitFullscreen, vars, viewVars
<1> QED
  BY <1>5, <1>6, <1>7, <1>8, <1>9 DEF Next

LEMMA DataStep == DataOK /\ [Next]_vars => DataOK'
<1> SUFFICES ASSUME DataOK, [Next]_vars PROVE DataOK'
  OBVIOUS
<1>1. posted' \in Seq(Message) /\ posted \in Seq(Message)
  BY MessagesTyped DEF DataOK
<1>2. /\ pressed' \subseteq Buttons \cup Keys /\ held' \subseteq Buttons \cup Keys
      /\ clicked' \subseteq Buttons
  BY HeldTyped
<1>3. <<>> \in Seq(Message) /\ Len(<<>>) <= 1
  OBVIOUS
<1> USE DEF viewVars, sessionVars, decoderVars, ghostVars
<1>4. CASE Input \/ UNCHANGED vars
  <2>1. StillData
    BY <1>4, InputStill DEF vars, StillData
  <2> QED
    BY <1>1, <1>2, <2>1 DEF StillData, DataOK
<1>5. ASSUME NEW u \in Users,
             \/ BeginSession(u) \/ Signal(u) \/ RemoteHangup(u) \/ RemoveFailed(u)
      PROVE  DataOK'
  <2>1. CASE BeginSession(u)
    BY <1>1, <1>2, <2>1, ViewAssumption DEF BeginSession, MakeActive, DataOK, Window
  <2>2. CASE Signal(u)
    BY <1>1, <1>2, <2>2 DEF Signal, MakeActive, DataOK
  <2>3. CASE RemoteHangup(u)
    BY <1>1, <1>2, <2>3 DEF RemoteHangup, DataOK
  <2>4. CASE RemoveFailed(u)
    BY <1>1, <1>2, <2>4 DEF RemoveFailed, DataOK
  <2> QED
    BY <1>5, <2>1, <2>2, <2>3, <2>4
<1>6. ASSUME NEW u \in Users, Decode(u)
      PROVE  DataOK'
  <2>1. frames' \in 0..MaxFrames /\ u \in sessions
    BY <1>6, ViewAssumption DEF Decode, DataOK
  <2>2. [to |-> target[u], picture |-> [user |-> u, no |-> frames']] \in Message
    BY <2>1 DEF DataOK, Message, Picture
  <2>3. /\ <<[to |-> target[u], picture |-> [user |-> u, no |-> frames']]>> \in Seq(Message)
        /\ Len(<<[to |-> target[u], picture |-> [user |-> u, no |-> frames']]>>) <= 1
    BY <2>2
  <2>4. /\ inHand' \in [Users -> Seq(Message)]
        /\ \A v \in Users : Len(inHand'[v]) <= 1 /\ (v \notin sessions => inHand'[v] = <<>>)
    BY <1>6, <2>1, <2>3 DEF Decode, DataOK
  <2> QED
    BY <1>1, <1>2, <1>6, <2>1, <2>4 DEF Decode, DataOK
<1>7. ASSUME NEW u \in Users, PostFrame(u)
      PROVE  DataOK'
  BY <1>1, <1>2, <1>3, <1>7 DEF PostFrame, DataOK
<1>8. CASE OnBnClickedHangup \/ Interrupted
  BY <1>1, <1>2, <1>8 DEF OnBnClickedHangup, Interrupted, DataOK
<1>9. CASE OnFrame
  <2>1. posted[Last(Head(posted).to)].picture \in Picture
    <3>1. posted # <<>> /\ 1 \in 1..Len(posted) /\ posted[1] = Head(posted)
      BY <1>1, <1>9, EmptySeq DEF OnFrame
    <3>2. Last(Head(posted).to) \in 1..Len(posted)
      BY <1>1, <3>1, LastEffect
    <3>3. posted[Last(Head(posted).to)] \in Message
      BY <1>1, <3>2, ElementOfSeq
    <3> QED
      BY <3>3 DEF Message
  <2> QED
    BY <1>1, <1>2, <1>9, <2>1 DEF OnFrame, DataOK
<1>10. CASE EnterFullscreen
  BY <1>1, <1>2, <1>10, BlankIsPicture, ViewAssumption
     DEF EnterFullscreen, Retarget, DataOK, Window
<1>11. CASE ExitFullscreen
  BY <1>1, <1>2, <1>11, ViewAssumption DEF ExitFullscreen, Retarget, DataOK, Window
<1>12. CASE DrainView \/ ViewGone
  BY <1>1, <1>2, <1>12, BlankIsPicture, ViewAssumption DEF DrainView, ViewGone, DataOK, Window
<1> QED
  BY <1>4, <1>5, <1>6, <1>7, <1>8, <1>9, <1>10, <1>11, <1>12 DEF Next

\* What every state's data are.
THEOREM ViewDataInvariance == Spec => []DataOK
<1> QED
  BY DataInit, DataStep, PTL DEF Spec

LEMMA FlagsStep == FlagsOK /\ [Next]_vars => FlagsOK'
<1> SUFFICES ASSUME FlagsOK, [Next]_vars PROVE FlagsOK'
  OBVIOUS
<1> USE DEF FlagsOK, viewVars, sessionVars, decoderVars, inputVars, farVars, ghostVars,
            StillView, ControlOff, MakeActive
<1>1. CASE UNCHANGED vars
  BY <1>1 DEF vars
<1>2. ASSUME NEW u \in Users, BeginSession(u) \/ Signal(u)
      PROVE  FlagsOK'
  BY <1>2 DEF BeginSession, Signal
<1>3. ASSUME NEW u \in Users, RemoteHangup(u) \/ RemoveFailed(u)
      PROVE  FlagsOK'
  BY <1>3 DEF RemoteHangup, RemoveFailed
<1>4. ASSUME NEW u \in Users, Decode(u) \/ PostFrame(u)
      PROVE  FlagsOK'
  BY <1>4 DEF Decode, PostFrame
<1>5. CASE OnBnClickedHangup \/ Interrupted
  BY <1>5 DEF OnBnClickedHangup, Interrupted
<1>6. CASE OnFrame
  BY <1>6 DEF OnFrame
<1>7. CASE EnterFullscreen \/ ExitFullscreen \/ DrainView
  BY <1>7 DEF EnterFullscreen, ExitFullscreen, DrainView
<1>8. CASE ViewGone
  BY <1>8, ZenonT(60) DEF ViewGone
<1>9. CASE ToggleScaleMode \/ MovePointer \/ Activate \/ KeyboardControl \/ AltKey
  BY <1>9 DEF ToggleScaleMode, MovePointer, Activate, KeyboardControl, AltKey
<1>10. CASE Deactivate
  BY <1>10, ZenonT(60) DEF Deactivate
<1>11. ASSUME NEW b \in Buttons, ButtonDown(b) \/ ButtonDblClk(b) PROVE FlagsOK'
  BY <1>11 DEF Presses, ButtonDown, ButtonDblClk, HasMouse
<1>12. ASSUME NEW b \in Buttons, ButtonUp(b) PROVE FlagsOK'
  BY <1>12 DEF ButtonUp
<1>13. ASSUME NEW k \in Keys, KeyDown(k) \/ KeyUp(k) PROVE FlagsOK'
  BY <1>13 DEF KeyDown, KeyUp
<1> QED
  BY <1>1, <1>2, <1>3, <1>4, <1>5, <1>6, <1>7, <1>8, <1>9, <1>10, <1>11, <1>12, <1>13
     DEF Next, Input

\* Flags and data keep their types: windows, pictures and what is held, and a
\* decoder has at most one frame in hand, and none without its session.
THEOREM ViewTypeCorrect == Spec => []TypeOK
<1>1. Init => FlagsOK
  BY DEF Init, FlagsOK
<1> QED
  BY <1>1, FlagsStep, ViewDataInvariance, PTL DEF Spec, TypeOK

-----------------------------------------------------------------------------
(* Targets.                                                                *)

WindowsKept ==
    /\ fullscreen <=> Free /\ full # 0
    /\ ~Free => full # 0

TargetsKept ==
    \A u \in sessions : \/ u \in strayed
                        \/ IF Free THEN IsWindow(target[u]) ELSE target[u] = 0

LEMMA WindowsStep == DataOK /\ WindowsKept /\ [Next]_vars => WindowsKept'
<1> SUFFICES ASSUME DataOK, WindowsKept, [Next]_vars PROVE WindowsKept'
  OBVIOUS
<1>1. CASE Input \/ UNCHANGED vars
  <2>1. StillData /\ UNCHANGED fullscreen
    BY <1>1, InputStill DEF vars, viewVars, sessionVars, decoderVars, ghostVars, StillData
  <2> QED
    BY <2>1 DEF StillData, WindowsKept, Free
<1>2. CASE ~Input /\ ~UNCHANGED vars
  BY <1>2, ViewAssumption
     DEF Next, viewVars, WindowsKept, Free, BeginSession, Signal,
         RemoteHangup, RemoveFailed, Decode, PostFrame, OnBnClickedHangup,
         Interrupted, OnFrame, EnterFullscreen, ExitFullscreen, DrainView,
         ViewGone, DataOK, Window
<1> QED
  BY <1>1, <1>2

LEMMA TargetsStep ==
    ASSUME DataOK, WindowsKept, TargetsKept, [Next]_vars
    PROVE  TargetsKept'
<1> USE DEF WindowsKept, TargetsKept, Free, IsWindow, viewVars, sessionVars,
            decoderVars, ghostVars
<1>1. CASE Input \/ UNCHANGED vars
  <2>1. StillData
    BY <1>1, InputStill DEF vars, StillData
  <2> QED
    BY <2>1 DEF StillData
<1>2. ASSUME NEW u \in Users,
             \/ BeginSession(u) \/ Signal(u) \/ RemoteHangup(u)
             \/ RemoveFailed(u) \/ Decode(u) \/ PostFrame(u)
      PROVE  TargetsKept'
  <2>1. CASE BeginSession(u)
    BY <2>1 DEF BeginSession, DataOK
  <2>2. CASE Signal(u) \/ Decode(u) \/ PostFrame(u)
    BY <2>2 DEF Signal, Decode, PostFrame
  <2>3. CASE RemoteHangup(u) \/ RemoveFailed(u)
    BY <2>3 DEF RemoteHangup, RemoveFailed
  <2> QED
    BY <1>2, <2>1, <2>2, <2>3
<1>3. CASE OnBnClickedHangup \/ Interrupted \/ OnFrame
  BY <1>3 DEF OnBnClickedHangup, Interrupted, OnFrame
<1>4. CASE EnterFullscreen
  <2>1. full = 0
    BY <1>4, ViewAssumption DEF EnterFullscreen, DataOK, Window
  <2>2. \A u \in sessions : u \in strayed \/ target'[u] = full' \/ target'[u] = 0
    BY <1>4, <2>1 DEF EnterFullscreen, Retarget, DataOK
  <2> QED
    BY <1>4, <2>1, <2>2 DEF EnterFullscreen
<1>5. CASE ExitFullscreen
  <2>1. \A u \in sessions : u \in strayed' \/ target'[u] = 0
    BY <1>5 DEF ExitFullscreen, Retarget, DataOK
  <2> QED
    BY <1>5, <2>1 DEF ExitFullscreen
<1>6. CASE DrainView \/ ViewGone
  BY <1>6 DEF DrainView, ViewGone
<1> QED
  BY <1>1, <1>2, <1>3, <1>4, <1>5, <1>6 DEF Next

\* The decoders post to a window that exists, but for a session that was not
\* told that its full-screen window was left (fullscreen_changed_callback_).
THEOREM TargetsExistTheorem == Spec => []TargetsExist
<1>1. Init => WindowsKept /\ TargetsKept
  BY DEF Init, WindowsKept, TargetsKept, Free
<1>2. DataOK /\ WindowsKept /\ TargetsKept /\ [Next]_vars => (WindowsKept /\ TargetsKept)'
  BY WindowsStep, TargetsStep
<1>3. TargetsKept => TargetsExist
  BY DEF TargetsKept, TargetsExist, Free
<1> QED
  BY <1>1, <1>2, <1>3, ViewDataInvariance, PTL DEF Spec

-----------------------------------------------------------------------------
(* Input.                                                                  *)

\* A button is held on the other side only while the mouse is captured, a key
\* only while the window has the focus, and anything only while the release
\* could still be sent.
HeldKept ==
    \/ excused
    \/ /\ held \subseteq pressed
       /\ held # {} => Sends
       /\ held \cap Buttons # {} => capture
       /\ held \cap Keys # {} => focus

LEMMA HeldInputStep ==
    ASSUME DataOK, HeldKept, Input
    PROVE  HeldKept'
<1> USE ViewAssumption DEF HeldKept, Sends, DataOK
<1>1. UNCHANGED <<active, sessions, full>>
  BY InputStill DEF StillData
<1>2. CASE ToggleScaleMode \/ MovePointer \/ AltKey
  BY <1>1, <1>2 DEF ToggleScaleMode, MovePointer, AltKey, farVars
<1>3. CASE Deactivate \/ Activate
  BY <1>1, <1>3 DEF Deactivate, Activate, farVars
<1>4. CASE KeyboardControl
  <2>1. held' = held /\ (held = {} \/ excused \/ excused')
    BY <1>4 DEF KeyboardControl, ControlOff
  <2>2. excused => excused'
    BY <1>4 DEF KeyboardControl, ControlOff
  <2> QED
    BY <2>1, <2>2
<1>5. ASSUME NEW b \in Buttons, ButtonDown(b) \/ ButtonDblClk(b)
      PROVE  HeldKept'
  BY <1>1, <1>5 DEF Presses, ButtonDown, ButtonDblClk, HasMouse, farVars
<1>6. ASSUME NEW b \in Buttons, ButtonUp(b)
      PROVE  HeldKept'
  <2>1. SUFFICES ASSUME ~excused' PROVE HeldKept'
    OBVIOUS
  <2>2. /\ ~excused /\ pressed' = pressed \ {b} /\ UNCHANGED <<focus, control>>
        /\ full = 0 => (held \ {b}) \cap Buttons = {}
    BY <1>6, <2>1 DEF ButtonUp
  <2>3. held' = held \ {b}
    BY <1>6, <2>1, <2>2 DEF ButtonUp, HasMouse
  <2>4. held' \cap Buttons # {} => capture'
    BY <1>6, <2>2, <2>3 DEF ButtonUp
  <2> QED
    BY <1>1, <2>2, <2>3, <2>4
<1>7. ASSUME NEW k \in Keys, KeyDown(k) \/ KeyUp(k)
      PROVE  HeldKept'
  BY <1>1, <1>7 DEF KeyDown, KeyUp, KeysHandled
<1> QED
  BY <1>2, <1>3, <1>4, <1>5, <1>6, <1>7 DEF Input

LEMMA HeldStep ==
    ASSUME DataOK, HeldKept, [Next]_vars
    PROVE  HeldKept'
<1> USE DEF HeldKept, Sends, viewVars, sessionVars, decoderVars, inputVars, farVars
<1>1. CASE Input
  BY <1>1, HeldInputStep
<1>2. ASSUME NEW u \in Users, BeginSession(u) \/ Signal(u)
      PROVE  HeldKept'
  BY <1>2 DEF BeginSession, Signal, MakeActive, ControlOff
<1>3. ASSUME NEW u \in Users, RemoteHangup(u) \/ RemoveFailed(u)
      PROVE  HeldKept'
  BY <1>3 DEF RemoteHangup, RemoveFailed, ControlOff
<1>4. ASSUME NEW u \in Users, Decode(u) \/ PostFrame(u)
      PROVE  HeldKept'
  BY <1>4 DEF Decode, PostFrame
<1>5. CASE OnBnClickedHangup \/ Interrupted
  BY <1>5 DEF OnBnClickedHangup, Interrupted, ControlOff
<1>6. CASE OnFrame \/ ExitFullscreen \/ DrainView
  BY <1>6 DEF OnFrame, ExitFullscreen, DrainView
<1>7. CASE EnterFullscreen
  BY <1>7 DEF EnterFullscreen
<1>8. CASE ViewGone
  <2>1. UNCHANGED <<active, sessions, pressed, control, held>> /\ focus'
    BY <1>8 DEF ViewGone
  <2>2. excused' = (excused \/ held \cap Buttons # {})
    BY <1>8 DEF ViewGone
  <2> QED
    BY <2>1, <2>2
<1>9. CASE UNCHANGED vars
  BY <1>9 DEF vars
<1> QED
  BY <1>1, <1>2, <1>3, <1>4, <1>5, <1>6, <1>7, <1>8, <1>9 DEF Next

\* Nothing stays down on the other side that the user has let go, but for the
\* places where the code does not release it.
THEOREM HeldIsPressedTheorem == Spec => []HeldIsPressed
<1>1. Init => HeldKept
  BY DEF Init, HeldKept
<1>2. DataOK /\ HeldKept /\ [Next]_vars => HeldKept'
  BY HeldStep
<1>3. HeldKept => HeldIsPressed
  BY DEF HeldKept, HeldIsPressed
<1> QED
  BY <1>1, <1>2, <1>3, ViewDataInvariance, PTL DEF Spec

-----------------------------------------------------------------------------
(* Pictures.                                                               *)

\* The window that is not seen has no picture.
OtherBlank == picture[IF full # 0 /\ ui # "drained" THEN "dialog" ELSE "full"] = Blank

\* The picture that is seen changes by OnFrame only: entering and leaving full
\* screen take it along.
LEMMA ShownStep ==
    ASSUME DataOK, WindowsKept, OtherBlank, [Next]_vars
    PROVE  /\ OtherBlank'
           /\ OnFrame => Shown' = posted[Last(Head(posted).to)].picture
           /\ ~OnFrame => Shown' = Shown
<1> USE DEF OtherBlank, Shown, WindowsKept, Free, viewVars, sessionVars
<1>0. picture \in [{"dialog", "full"} -> Picture]
  BY DEF DataOK
<1>1. ASSUME Input \/ UNCHANGED vars PROVE OtherBlank' /\ Shown' = Shown
  <2>1. StillData
    BY <1>1, InputStill DEF vars, StillData, decoderVars, ghostVars
  <2> QED
    BY <2>1 DEF StillData
<1>2. ASSUME NEW u \in Users,
             \/ BeginSession(u) \/ Signal(u) \/ RemoteHangup(u)
             \/ RemoveFailed(u) \/ Decode(u) \/ PostFrame(u)
      PROVE  OtherBlank' /\ Shown' = Shown
  <2>1. UNCHANGED <<ui, full, picture>>
    BY <1>2 DEF BeginSession, Signal, RemoteHangup, RemoveFailed, Decode, PostFrame
  <2> QED
    BY <2>1
<1>3. ASSUME OnBnClickedHangup \/ Interrupted \/ ExitFullscreen PROVE OtherBlank' /\ Shown' = Shown
  BY <1>3 DEF OnBnClickedHangup, Interrupted, ExitFullscreen
<1>4. CASE OnFrame
  BY <1>0, <1>4 DEF OnFrame
<1>5. ASSUME EnterFullscreen PROVE OtherBlank' /\ Shown' = Shown
  <2>1. full = 0 /\ full' # 0 /\ ui' = "free"
    BY <1>5, ViewAssumption DEF EnterFullscreen, DataOK, Window
  <2>2. picture' = [dialog |-> Blank, full |-> picture["dialog"]]
    BY <1>5 DEF EnterFullscreen
  <2> QED
    BY <2>1, <2>2
<1>6. ASSUME DrainView PROVE OtherBlank' /\ Shown' = Shown
  <2>1. full # 0 /\ full' = full /\ ui = "leaving" /\ ui' = "drained"
    BY <1>6 DEF DrainView
  <2>2. picture' = [dialog |-> picture["full"], full |-> Blank]
    BY <1>6 DEF DrainView
  <2> QED
    BY <2>1, <2>2
<1>7. ASSUME ViewGone PROVE OtherBlank' /\ Shown' = Shown
  BY <1>7 DEF ViewGone
<1> QED
  BY <1>1, <1>2, <1>3, <1>4, <1>5, <1>6, <1>7 DEF Next

\* p may be shown before q is.
NotAfter(p, q) == p.user = q.user => p.no <= q.no

Known(p) == p.no <= frames /\ (p.user = Nobody => p = Blank)

AllKnown ==
    /\ Known(Shown)
    /\ \A i \in 1..Len(posted) : Known(posted[i].picture)

InOrder ==
    \A i, j \in 1..Len(posted) : i < j => NotAfter(posted[i].picture, posted[j].picture)

\* What a decoder converts is newer than all that is posted or shown.
HandIsNewest ==
    \A u \in Users :
        inHand[u] # <<>> =>
            /\ inHand[u][1].picture.user = u /\ inHand[u][1].picture.no <= frames
            /\ NotAfter(Shown, inHand[u][1].picture)
            /\ \A i \in 1..Len(posted) :
                  NotAfter(posted[i].picture, inHand[u][1].picture)

ShownIsOldest ==
    overtaken \/ \A i \in 1..Len(posted) : NotAfter(Shown, posted[i].picture)

OrderKept == AllKnown /\ InOrder /\ HandIsNewest /\ ShownIsOldest

\* Where the messages that are left come from.
FromQueue(rest, w) ==
    \A i \in 1..Len(rest) : \E k \in 1..Len(posted) : rest[i] = posted[k] /\ posted[k].to # w

SameOrder(rest) ==
    \A i, j \in 1..Len(rest) : i < j =>
        \E k, l \in 1..Len(posted) : k < l /\ rest[i] = posted[k] /\ rest[j] = posted[l]

\* Nothing but the messages for w is taken, and what came after a message that
\* is left still does.
AllOthers(rest, w) ==
    /\ \A l \in 1..Len(posted) : posted[l].to # w => \E j \in 1..Len(rest) : rest[j] = posted[l]
    /\ \A i \in 1..Len(rest) : \E k \in 1..Len(posted) :
          /\ rest[i] = posted[k]
          /\ \A l \in 1..Len(posted) : k < l /\ posted[l].to # w =>
                \E j \in 1..Len(rest) : i < j /\ rest[j] = posted[l]

LEMMA OthersKeep ==
    ASSUME posted \in Seq(Message), NEW w
    PROVE  /\ Others(w) \in Seq(Message)
           /\ FromQueue(Others(w), w) /\ SameOrder(Others(w)) /\ AllOthers(Others(w), w)
<1>1. PICK places : Without(Others(w), places, w, Len(posted))
  BY OthersEffect
<1> DEFINE rest == Others(w)
<1> HIDE DEF rest
<1>2. /\ rest \in Seq(Message) /\ places \in [1..Len(rest) -> 1..Len(posted)]
      /\ \A i \in 1..Len(rest) : rest[i] = posted[places[i]] /\ rest[i].to # w
      /\ \A i, j \in 1..Len(rest) : i < j => places[i] < places[j]
      /\ \A k \in 1..Len(posted) : posted[k].to # w => \E i \in 1..Len(rest) : places[i] = k
  BY <1>1 DEF Without, rest
<1>3. ASSUME NEW i \in 1..Len(rest), NEW l \in 1..Len(posted), places[i] < l,
             posted[l].to # w
      PROVE  \E j \in 1..Len(rest) : i < j /\ rest[j] = posted[l]
  <2>1. PICK j \in 1..Len(rest) : places[j] = l
    BY <1>2, <1>3
  <2>2. Len(rest) \in Nat /\ places[i] \in Nat
    BY <1>2
  <2>3. ~(j < i) /\ i # j
    BY <1>2, <1>3, <2>1, <2>2
  <2> QED
    BY <1>2, <2>1, <2>2, <2>3
<1>4. FromQueue(rest, w)
  BY <1>2 DEF FromQueue
<1>5. SameOrder(rest)
  BY <1>2 DEF SameOrder
<1>6. AllOthers(rest, w)
  <2>1. \A l \in 1..Len(posted) : posted[l].to # w => \E j \in 1..Len(rest) : rest[j] = posted[l]
    BY <1>2
  <2>2. ASSUME NEW i \in 1..Len(rest)
        PROVE  \E k \in 1..Len(posted) :
                  /\ rest[i] = posted[k]
                  /\ \A l \in 1..Len(posted) : k < l /\ posted[l].to # w =>
                        \E j \in 1..Len(rest) : i < j /\ rest[j] = posted[l]
    <3>1. places[i] \in 1..Len(posted) /\ rest[i] = posted[places[i]]
      BY <1>2
    <3> QED
      BY <1>3, <3>1
  <2> QED
    BY <2>1, <2>2 DEF AllOthers
<1> QED
  BY <1>2, <1>4, <1>5, <1>6 DEF rest

\* A step that takes messages for w from the queue, and shows the same picture.
LEMMA OrderWithoutMessages ==
    ASSUME DataOK, OrderKept, NEW w, posted' = Others(w), Shown' = Shown,
           UNCHANGED <<inHand, frames, overtaken>>
    PROVE  OrderKept'
<1>1. posted \in Seq(Message)
  BY DEF DataOK
<1>2. FromQueue(posted', w) /\ SameOrder(posted')
  BY <1>1, OthersKeep
<1>3. AllKnown' /\ ShownIsOldest'
  BY <1>2, ZenonT(60) DEF OrderKept, AllKnown, ShownIsOldest, Known, NotAfter, FromQueue
<1>4. HandIsNewest'
  BY <1>2 DEF OrderKept, HandIsNewest, NotAfter, FromQueue
<1>5. InOrder'
  <2> SUFFICES ASSUME NEW i \in 1..Len(posted'), NEW j \in 1..Len(posted'), i < j
               PROVE  NotAfter(posted'[i].picture, posted'[j].picture)
    BY DEF InOrder, NotAfter
  <2>1. PICK k, l \in 1..Len(posted) : k < l /\ posted'[i] = posted[k] /\ posted'[j] = posted[l]
    BY <1>2 DEF SameOrder
  <2> QED
    BY <2>1 DEF OrderKept, InOrder
<1> QED
  BY <1>3, <1>4, <1>5 DEF OrderKept

\* A step that adds a message.
LEMMA OrderWithMessage ==
    ASSUME DataOK, OrderKept, NEW m \in Message, posted' = Append(posted, m),
           Shown' = Shown, UNCHANGED <<frames, overtaken>>,
           Known(m.picture), NotAfter(Shown, m.picture),
           \A i \in 1..Len(posted) : NotAfter(posted[i].picture, m.picture),
           \A u \in Users : inHand'[u] # <<>> =>
               inHand'[u] = inHand[u] /\ NotAfter(m.picture, inHand[u][1].picture)
    PROVE  OrderKept'
<1>1. /\ posted \in Seq(Message) /\ Len(posted) \in Nat /\ Len(posted') = Len(posted) + 1
      /\ posted'[Len(posted) + 1] = m
      /\ \A i \in 1..Len(posted) : posted'[i] = posted[i]
  BY AppendProperties DEF DataOK
<1>2. \A i \in 1..Len(posted') : i \in 1..Len(posted) \/ i = Len(posted) + 1
  BY <1>1
<1>3. \A i \in 1..Len(posted') : posted'[i] = m \/ (i \in 1..Len(posted) /\ posted'[i] = posted[i])
  BY <1>1, <1>2
<1>4. AllKnown' /\ ShownIsOldest'
  BY <1>3 DEF OrderKept, AllKnown, ShownIsOldest, Known, NotAfter
<1>5. HandIsNewest'
  BY <1>3 DEF OrderKept, HandIsNewest, NotAfter
<1>6. InOrder'
  <2> SUFFICES ASSUME NEW i \in 1..Len(posted'), NEW j \in 1..Len(posted'), i < j
               PROVE  NotAfter(posted'[i].picture, posted'[j].picture)
    BY DEF InOrder, NotAfter
  <2>1. i \in 1..Len(posted) /\ posted'[i] = posted[i]
    BY <1>1, <1>2
  <2>2. CASE j \in 1..Len(posted)
    BY <1>1, <2>1, <2>2 DEF OrderKept, InOrder
  <2>3. CASE j = Len(posted) + 1
    BY <1>1, <2>1, <2>3
  <2> QED
    BY <1>2, <2>2, <2>3
<1> QED
  BY <1>4, <1>5, <1>6 DEF OrderKept

\* A step that takes no message and adds none.
LEMMA OrderStill ==
    ASSUME OrderKept, Shown' = Shown, UNCHANGED <<posted, inHand, frames, overtaken>>
    PROVE  OrderKept'
<1>1. AllKnown' /\ ShownIsOldest' /\ InOrder'
  BY DEF OrderKept, AllKnown, ShownIsOldest, InOrder, Known, NotAfter
<1>2. HandIsNewest'
  BY DEF OrderKept, HandIsNewest, NotAfter
<1> QED
  BY <1>1, <1>2 DEF OrderKept

\* What a step of OnFrame shows is the last message for the window it is for.
LEMMA Shows ==
    ASSUME DataOK, OnFrame
    PROVE  LET w == Head(posted).to
           IN  /\ Last(w) \in 1..Len(posted) /\ posted[Last(w)].to = w
               /\ posted[Last(w)] \in Message
               /\ \A k \in 1..Len(posted) : k > Last(w) => posted[k].to # w
               /\ posted' = Others(w) /\ overtaken' = (overtaken \/ OutOfTurn(w))
               /\ ~OutOfTurn(w) => \A k \in 1..Len(posted) : posted[k].to # w => k > Last(w)
<1> DEFINE w == Head(posted).to
<1>1. posted \in Seq(Message)
  BY DEF DataOK
<1>2. posted # <<>> /\ 1 \in 1..Len(posted) /\ posted[1] = Head(posted)
  BY <1>1, EmptySeq DEF OnFrame
<1>3. /\ Last(w) \in 1..Len(posted) /\ posted[Last(w)].to = w
      /\ \A k \in 1..Len(posted) : k > Last(w) => posted[k].to # w
  BY <1>1, <1>2, LastEffect
<1>4. posted[Last(w)] \in Message /\ DOMAIN posted = 1..Len(posted)
  BY <1>1, <1>3, ElementOfSeq
<1>5. ~OutOfTurn(w) => \A k \in 1..Len(posted) : posted[k].to # w => k > Last(w)
  <2> SUFFICES ASSUME ~OutOfTurn(w), NEW k \in 1..Len(posted), posted[k].to # w
               PROVE  k > Last(w)
    OBVIOUS
  <2>1. ~(k < Last(w)) /\ k # Last(w)
    BY <1>3, <1>4 DEF OutOfTurn
  <2> QED
    BY <1>3, <2>1
<1>6. posted' = Others(w) /\ overtaken' = (overtaken \/ OutOfTurn(w))
  BY DEF OnFrame
<1> QED
  BY <1>3, <1>4, <1>5, <1>6

LEMMA OrderOnFrame ==
    ASSUME DataOK, OrderKept, OnFrame,
           Shown' = posted[Last(Head(posted).to)].picture
    PROVE  OrderKept'
<1> DEFINE w == Head(posted).to
           n == Last(w)
<1>1. /\ n \in 1..Len(posted) /\ posted' = Others(w)
      /\ overtaken' = (overtaken \/ OutOfTurn(w))
      /\ ~OutOfTurn(w) => \A k \in 1..Len(posted) : posted[k].to # w => k > n
  BY Shows
<1>2. FromQueue(posted', w) /\ SameOrder(posted')
  BY <1>1, OthersKeep DEF DataOK
<1>3. UNCHANGED <<inHand, frames>>
  BY DEF OnFrame, decoderVars
<1> HIDE DEF w, n
<1>4. AllKnown'
  BY <1>1, <1>2, <1>3 DEF OrderKept, AllKnown, Known, FromQueue, w, n
<1>5. HandIsNewest'
  <2> SUFFICES ASSUME NEW u \in Users, inHand[u] # <<>>
               PROVE  /\ inHand[u][1].picture.user = u /\ inHand[u][1].picture.no <= frames
                      /\ NotAfter(posted[n].picture, inHand[u][1].picture)
                      /\ \A i \in 1..Len(posted') :
                            NotAfter(posted'[i].picture, inHand[u][1].picture)
    BY <1>3 DEF HandIsNewest, NotAfter, w, n
  <2>1. /\ inHand[u][1].picture.user = u /\ inHand[u][1].picture.no <= frames
        /\ \A i \in 1..Len(posted) : NotAfter(posted[i].picture, inHand[u][1].picture)
    BY DEF OrderKept, HandIsNewest
  <2> QED
    BY <1>1, <1>2, <2>1 DEF FromQueue
<1>6. InOrder'
  <2> SUFFICES ASSUME NEW i \in 1..Len(posted'), NEW j \in 1..Len(posted'), i < j
               PROVE  NotAfter(posted'[i].picture, posted'[j].picture)
    BY DEF InOrder, NotAfter
  <2>1. PICK k, l \in 1..Len(posted) : k < l /\ posted'[i] = posted[k] /\ posted'[j] = posted[l]
    BY <1>2 DEF SameOrder
  <2> QED
    BY <2>1 DEF OrderKept, InOrder
<1>7. ShownIsOldest'
  <2> SUFFICES ASSUME ~overtaken', NEW i \in 1..Len(posted')
               PROVE  NotAfter(posted[n].picture, posted'[i].picture)
    BY DEF ShownIsOldest, NotAfter, w, n
  <2>1. PICK k \in 1..Len(posted) : posted'[i] = posted[k] /\ posted[k].to # w
    BY <1>2 DEF FromQueue
  <2>2. n < k
    BY <1>1, <2>1
  <2> QED
    BY <1>1, <2>1, <2>2 DEF OrderKept, InOrder
<1> QED
  BY <1>4, <1>5, <1>6, <1>7 DEF OrderKept

LEMMA OrderClear ==
    ASSUME DataOK, OrderKept, Clear, Shown' = Shown,
           UNCHANGED <<inHand, frames, overtaken>>
    PROVE  OrderKept'
<1> DEFINE m == [to |-> 0, picture |-> Blank]
<1>1. m \in Message /\ posted' = Append(posted, m) /\ m.picture = Blank
  BY BlankIsPicture DEF Clear
<1>2. \A q : Known(q) => NotAfter(q, Blank)
  BY DEF Known, NotAfter, Blank
<1>3. Known(Blank)
  BY DEF DataOK, Known, Blank
<1>4. \A u \in Users : inHand[u] # <<>> => NotAfter(Blank, inHand[u][1].picture)
  BY ViewAssumption DEF OrderKept, HandIsNewest, NotAfter, Blank
<1> HIDE DEF m
<1> QED
  BY <1>1, <1>2, <1>3, <1>4, OrderWithMessage DEF OrderKept, AllKnown

\* A frame is posted whole, by a decoder of a session.
LEMMA HandPosted ==
    ASSUME DataOK, OrderKept, NEW u \in Users, PostFrame(u)
    PROVE  /\ inHand[u][1] \in Message /\ inHand[u][1].picture.user = u
           /\ u \in sessions
           /\ posted' = posted \/ posted' = Append(posted, inHand[u][1])
<1> DEFINE m == inHand[u][1]
<1>1. inHand[u] # <<>> /\ (posted' = posted \o inHand[u] \/ posted' = posted)
  BY DEF PostFrame
<1>2. /\ posted \in Seq(Message) /\ inHand[u] \in Seq(Message) /\ Len(inHand[u]) = 1
      /\ u \in sessions
  <2>1. posted \in Seq(Message) /\ inHand[u] \in Seq(Message) /\ Len(inHand[u]) \in Nat
    BY DEF DataOK
  <2>2. Len(inHand[u]) # 0 /\ Len(inHand[u]) <= 1 /\ u \in sessions
    BY <1>1, <2>1, EmptySeq DEF DataOK
  <2>3. \A n \in Nat : n # 0 /\ n <= 1 => n = 1
    OBVIOUS
  <2>4. Len(inHand[u]) = 1
    BY ONLY <2>1, <2>2, <2>3, Zenon
  <2> QED
    BY <2>1, <2>2, <2>4
<1>3. m \in Message /\ posted \o inHand[u] = Append(posted, m)
  <2>1. m \in Message
    BY <1>2, ElementOfSeq
  <2>2. posted \o inHand[u] \in Seq(Message) /\ Append(posted, m) \in Seq(Message)
    BY <1>2, <2>1, ConcatProperties, AppendProperties
  <2>3. Len(posted \o inHand[u]) = Len(Append(posted, m))
    <3>1. Len(posted \o inHand[u]) = Len(posted) + Len(inHand[u])
      BY <1>2, ConcatProperties, Zenon
    <3>2. Len(Append(posted, m)) = Len(posted) + 1
      BY <1>2, <2>1, AppendProperties
    <3> QED
      BY <1>2, <3>1, <3>2
  <2>4. \A i \in 1..Len(posted \o inHand[u]) :
            (posted \o inHand[u])[i] = Append(posted, m)[i]
    BY <1>2, <2>1, ConcatProperties, AppendProperties
  <2> QED
    BY <2>1, <2>2, <2>3, <2>4, SeqEqual
<1>4. m.picture.user = u
  BY <1>1 DEF OrderKept, HandIsNewest
<1> QED
  BY <1>1, <1>2, <1>3, <1>4

LEMMA OrderStep ==
    ASSUME DataOK, WindowsKept, OtherBlank, OrderKept, [Next]_vars
    PROVE  OrderKept'
<1>1. CASE OnFrame
  BY <1>1, ShownStep, OrderOnFrame
<1>2. CASE ~OnFrame
  <2>1. Shown' = Shown
    BY <1>2, ShownStep
  <2>2. CASE Input \/ UNCHANGED vars
    <3>1. StillData /\ UNCHANGED overtaken
      BY <2>2, InputStill DEF vars, viewVars, sessionVars, decoderVars, ghostVars, StillData
    <3> QED
      BY <2>1, <3>1, OrderStill DEF StillData
  <2>3. CASE Interrupted \/ EnterFullscreen \/ ExitFullscreen
    <3>1. UNCHANGED <<posted, inHand, frames, overtaken>>
      BY <2>3 DEF Interrupted, EnterFullscreen, ExitFullscreen, viewVars, decoderVars, ghostVars
    <3> QED
      BY <2>1, <3>1, OrderStill
  <2>4. ASSUME NEW u \in Users, BeginSession(u) \/ Signal(u) \/ RemoveFailed(u)
        PROVE  OrderKept'
    <3>1. UNCHANGED <<posted, inHand, frames, overtaken>>
      BY <2>4 DEF BeginSession, Signal, RemoveFailed, viewVars, decoderVars, ghostVars
    <3> QED
      BY <2>1, <3>1, OrderStill
  <2>5. CASE OnBnClickedHangup \/ \E u \in Users : RemoteHangup(u)
    <3>1. (UNCHANGED posted \/ Clear) /\ UNCHANGED <<inHand, frames, overtaken>>
      BY <2>5 DEF OnBnClickedHangup, RemoteHangup, decoderVars, ghostVars
    <3> QED
      BY <2>1, <3>1, OrderStill, OrderClear
  <2>6. ASSUME NEW u \in Users, Decode(u)
        PROVE  OrderKept'
    <3>1. UNCHANGED <<posted, overtaken>> /\ frames' = frames + 1 /\ frames \in Nat
      BY <2>6 DEF Decode, DataOK, viewVars, ghostVars
    <3>2. \A v \in Users : inHand'[v] = inHand[v] \/
             (v = u /\ inHand'[v] = <<[to |-> target[u],
                                       picture |-> [user |-> u, no |-> frames']]>>)
      BY <2>6 DEF Decode, DataOK
    <3>3. picture \in [{"dialog", "full"} -> Picture] /\ Shown \in Picture
      BY DEF DataOK, Shown
    <3>4. \A i \in 1..Len(posted) : posted[i].picture.no \in Nat
      <4>1. \A i \in 1..Len(posted) : posted[i] \in Message
        BY ElementOfSeq DEF DataOK
      <4> QED
        BY <4>1 DEF Message, Picture
    <3>5. Shown.no \in Nat
      BY <3>3 DEF Picture
    <3>6. AllKnown'
      BY <2>1, <3>1, <3>4, <3>5 DEF OrderKept, AllKnown, Known
    <3>7. ShownIsOldest' /\ InOrder'
      BY <2>1, <3>1 DEF OrderKept, ShownIsOldest, InOrder, NotAfter
    <3>8. HandIsNewest'
      <4> SUFFICES ASSUME NEW v \in Users, inHand'[v] # <<>>
                   PROVE  /\ inHand'[v][1].picture.user = v
                          /\ inHand'[v][1].picture.no <= frames'
                          /\ NotAfter(Shown, inHand'[v][1].picture)
                          /\ \A i \in 1..Len(posted) :
                                NotAfter(posted[i].picture, inHand'[v][1].picture)
        BY <2>1, <3>1 DEF HandIsNewest, NotAfter
      <4>1. CASE inHand'[v] = inHand[v]
        <5>1. inHand[v][1].picture.no <= frames' 
          <6>1. inHand[v] \in Seq(Message) /\ Len(inHand[v]) \in Nat /\ inHand[v] # <<>>
            BY <4>1 DEF DataOK
          <6>2. inHand[v][1] \in Message
            BY <6>1, EmptySeq, ElementOfSeq
          <6>3. inHand[v][1].picture.no \in Nat
            BY <6>2 DEF Message, Picture
          <6> QED
            BY <3>1, <4>1, <6>3 DEF OrderKept, HandIsNewest
        <5> QED
          BY <4>1, <5>1 DEF OrderKept, HandIsNewest
      <4>2. CASE inHand'[v] # inHand[v]
        <5>1. v = u /\ inHand'[v][1].picture = [user |-> u, no |-> frames']
          BY <3>2, <4>2
        <5>2. inHand'[v][1].picture.user = u /\ inHand'[v][1].picture.no = frames'
          BY <5>1
        <5>3. Shown.no <= frames' /\ \A i \in 1..Len(posted) : posted[i].picture.no <= frames'
          BY <3>1, <3>4, <3>5 DEF OrderKept, AllKnown, Known
        <5> QED
          BY <3>1, <5>1, <5>2, <5>3 DEF NotAfter
      <4> QED
        BY <4>1, <4>2
    <3> QED
      BY <3>6, <3>7, <3>8 DEF OrderKept
  <2>7. ASSUME NEW u \in Users, PostFrame(u)
        PROVE  OrderKept'
    <3> DEFINE m == inHand[u][1]
    <3>1. /\ inHand[u] # <<>> /\ inHand' = [inHand EXCEPT ![u] = <<>>]
          /\ UNCHANGED <<frames, overtaken>>
      BY <2>7 DEF PostFrame, ghostVars
    <3>3. m \in Message /\ (posted' = posted \/ posted' = Append(posted, m))
      BY <2>7, HandPosted
    <3>4. m.picture.user = u /\ Known(m.picture) /\ NotAfter(Shown, m.picture)
          /\ \A i \in 1..Len(posted) : NotAfter(posted[i].picture, m.picture)
      BY <3>1, ViewAssumption DEF OrderKept, HandIsNewest, Known
    <3>5. \A v \in Users : inHand'[v] # <<>> =>
              inHand'[v] = inHand[v] /\ NotAfter(m.picture, inHand[v][1].picture)
      <4>1. \A v \in Users : inHand'[v] # <<>> => inHand'[v] = inHand[v] /\ v # u
        BY <3>1 DEF DataOK
      <4> QED
        BY <3>4, <4>1 DEF OrderKept, HandIsNewest, NotAfter
    <3>6. CASE posted' = posted
      <4>1. AllKnown' /\ ShownIsOldest' /\ InOrder'
        BY <2>1, <3>1, <3>6 DEF OrderKept, AllKnown, ShownIsOldest, InOrder, Known, NotAfter
      <4>2. HandIsNewest'
        BY <2>1, <3>1, <3>5, <3>6 DEF OrderKept, HandIsNewest, NotAfter
      <4> QED
        BY <4>1, <4>2 DEF OrderKept
    <3>7. CASE posted' = Append(posted, m)
      <4> HIDE DEF m
      <4> QED
        BY <2>1, <3>1, <3>3, <3>4, <3>5, <3>7, OrderWithMessage DEF m
    <3> QED
      BY <3>1, <3>3, <3>6, <3>7
  <2>8. CASE DrainView \/ ViewGone
    <3>1. posted' = Others(full) /\ UNCHANGED <<inHand, frames, overtaken>>
      BY <2>8 DEF DrainView, ViewGone, decoderVars, ghostVars
    <3> QED
      BY <2>1, <3>1, OrderWithoutMessages
  <2> QED
    BY <1>2, <2>2, <2>3, <2>4, <2>5, <2>6, <2>7, <2>8 DEF Next
<1> QED
  BY <1>1, <1>2

\* Every step forward, as PictureForward has it.
LEMMA ForwardStep ==
    ASSUME DataOK, WindowsKept, OtherBlank, OrderKept, [Next]_vars, ~overtaken'
    PROVE  /\ Shown'.user = Shown.user => Shown'.no >= Shown.no
           /\ Shown' = Blank => Shown = Blank \/ (posted' # posted /\ ui = "free")
<1>1. CASE OnFrame
  <2> DEFINE w == Head(posted).to
             n == Last(w)
  <2>1. /\ n \in 1..Len(posted) /\ posted[n].to = w /\ posted[n] \in Message
        /\ posted' = Others(w) /\ overtaken' = (overtaken \/ OutOfTurn(w))
    BY <1>1, Shows
  <2>2. Shown' = posted[n].picture /\ ui = "free"
    BY <1>1, ShownStep DEF OnFrame, Free
  <2>3. FromQueue(posted', w)
    BY <2>1, OthersKeep DEF DataOK
  <2>4. Shown \in Picture /\ posted[n].picture \in Picture
    BY <2>1 DEF DataOK, Shown, Message
  <2>5. Shown.no \in Nat /\ posted[n].picture.no \in Nat
    BY <2>4 DEF Picture
  <2> HIDE DEF w, n
  <2>6. posted' # posted
    BY <2>1, <2>3 DEF FromQueue
  <2>7. Shown'.user = Shown.user => Shown'.no >= Shown.no
    BY <2>1, <2>2, <2>5 DEF OrderKept, ShownIsOldest, NotAfter
  <2> QED
    BY <2>2, <2>6, <2>7
<1>2. CASE ~OnFrame
  <2>1. Shown \in Picture /\ Shown' = Shown
    BY <1>2, ShownStep DEF DataOK, Shown
  <2> QED
    BY <2>1 DEF Picture
<1> QED
  BY <1>1, <1>2

ViewKept == DataOK /\ WindowsKept /\ OtherBlank /\ OrderKept

LEMMA ViewKeptInvariance == Spec => []ViewKept
<1>1. Init => WindowsKept /\ OtherBlank
  BY DEF Init, WindowsKept, OtherBlank, Free
<1>2. Init => OrderKept
  <2>1. Init => Len(posted) = 0 /\ Shown = Blank /\ (\A u \in Users : inHand[u] = <<>>)
    BY DEF Init, Shown
  <2> QED
    BY <2>1, DataInit DEF OrderKept, AllKnown, InOrder, HandIsNewest, ShownIsOldest,
                          Known, Blank, DataOK
<1>3. ViewKept /\ [Next]_vars => ViewKept'
  BY WindowsStep, DataStep, ShownStep, OrderStep DEF ViewKept
<1> QED
  BY <1>1, <1>2, <1>3, DataInit, PTL DEF Spec, ViewKept

\* A user's picture never goes back to an earlier one, in the dialog, in full
\* screen and between them, and goes away by a message only, unless the
\* dialog's window took a message out of turn (PeekMessage in OnFrame).
THEOREM PictureForwardTheorem == Spec => PictureForward
<1>1. ViewKept /\ [Next]_vars =>
        [~overtaken' =>
           /\ Shown'.user = Shown.user => Shown'.no >= Shown.no
           /\ Shown' = Blank => Shown = Blank \/ (posted' # posted /\ ui = "free")]_vars
  BY ForwardStep DEF ViewKept
<1> QED
  BY <1>1, ViewKeptInvariance, PTL DEF Spec, PictureForward

-----------------------------------------------------------------------------
(* Hangup.                                                                 *)

Departed(p) == p.user \notin sessions \cup {Nobody}

ClearAt(j) == posted[j].to = 0 /\ posted[j].picture = Blank

\* The picture of a user whose session has been hung up, shown or on its way,
\* is followed by the empty one.
GoesAway ==
    \/ overtaken \/ failed
    \/ /\ Departed(Shown) => \E j \in 1..Len(posted) : ClearAt(j)
       /\ \A i \in 1..Len(posted) :
             Departed(posted[i].picture) => \E j \in 1..Len(posted) : i < j /\ ClearAt(j)

LEMMA GoesAwayStill ==
    ASSUME GoesAway, Shown' = Shown, UNCHANGED posted, sessions \subseteq sessions',
           overtaken' = overtaken, failed' = failed
    PROVE  GoesAway'
BY DEF GoesAway, Departed, ClearAt

\* A message is added behind all others: the empty one, or of a user with a
\* session.
LEMMA GoesAwayAppend ==
    ASSUME DataOK, GoesAway, NEW m \in Message, posted' = Append(posted, m),
           Shown' = Shown, overtaken' = overtaken, failed' = failed,
           \/ m = [to |-> 0, picture |-> Blank]
           \/ m.picture.user \in sessions /\ sessions' = sessions
    PROVE  GoesAway'
<1>1. /\ Len(posted) \in Nat /\ Len(posted') = Len(posted) + 1
      /\ posted'[Len(posted) + 1] = m
      /\ \A i \in 1..Len(posted) : posted'[i] = posted[i]
  BY AppendProperties DEF DataOK
<1>2. \A i \in 1..Len(posted') : i \in 1..Len(posted) \/ i = Len(posted) + 1
  BY <1>1
<1>3. \A i \in 1..Len(posted) : i \in 1..Len(posted') /\ i < Len(posted) + 1
  BY <1>1
<1>4. CASE m = [to |-> 0, picture |-> Blank]
  <2>1. PICK n \in Nat : n = Len(posted) + 1
    BY <1>1
  <2>2. n \in 1..Len(posted') /\ ClearAt(n)'
    BY <1>1, <1>4, <2>1 DEF ClearAt
  <2>3. ~Departed(m.picture)'
    BY <1>4 DEF Departed, Blank
  <2>4. \A i \in 1..Len(posted') : i < n \/ posted'[i] = m
    BY <1>1, <1>2, <1>3, <2>1
  <2> QED
    BY <2>2, <2>3, <2>4 DEF GoesAway, Departed
<1>5. CASE m.picture.user \in sessions /\ sessions' = sessions
  <2>1. \A j \in 1..Len(posted) : ClearAt(j) => j \in 1..Len(posted') /\ ClearAt(j)'
    BY <1>1, <1>3 DEF ClearAt
  <2>2. \A i \in 1..Len(posted') : (i \in 1..Len(posted) /\ posted'[i] = posted[i]) \/ posted'[i] = m
    BY <1>1, <1>2
  <2>3. ~Departed(m.picture)'
    BY <1>5 DEF Departed
  <2> QED
    BY <1>5, <2>1, <2>2, <2>3 DEF GoesAway, Departed
<1> QED
  BY <1>4, <1>5

\* Messages for a window other than the dialog's are taken.
LEMMA GoesAwayTaken ==
    ASSUME DataOK, GoesAway, NEW w, w # 0, posted' = Others(w),
           \/ Shown' = Shown
           \/ \E n \in 1..Len(posted) : Shown' = posted[n].picture,
           UNCHANGED sessions, overtaken => overtaken', failed' = failed
    PROVE  GoesAway'
<1>1. FromQueue(posted', w) /\ AllOthers(posted', w)
  BY OthersKeep DEF DataOK
<1>2. SUFFICES ASSUME ~overtaken', ~failed
               PROVE  /\ Departed(Shown)' => \E j \in 1..Len(posted') : ClearAt(j)'
                      /\ \A i \in 1..Len(posted') :
                           Departed(posted'[i].picture) =>
                              \E j \in 1..Len(posted') : i < j /\ ClearAt(j)'
  BY DEF GoesAway, Departed
<1>3. /\ Departed(Shown) => \E j \in 1..Len(posted) : ClearAt(j)
      /\ \A i \in 1..Len(posted) :
            Departed(posted[i].picture) => \E j \in 1..Len(posted) : i < j /\ ClearAt(j)
  BY <1>2 DEF GoesAway
<1>4. ASSUME Departed(Shown)' PROVE \E j \in 1..Len(posted') : ClearAt(j)'
  <2>1. PICK l \in 1..Len(posted) : ClearAt(l)
    BY <1>3, <1>4 DEF Departed
  <2> QED
    BY <1>1, <2>1 DEF AllOthers, ClearAt
<1>5. ASSUME NEW i \in 1..Len(posted'), Departed(posted'[i].picture)
      PROVE  \E j \in 1..Len(posted') : i < j /\ ClearAt(j)'
  <2>1. PICK k \in 1..Len(posted) :
            /\ posted'[i] = posted[k]
            /\ \A l \in 1..Len(posted) : k < l /\ posted[l].to # w =>
                  \E j \in 1..Len(posted') : i < j /\ posted'[j] = posted[l]
    BY <1>1 DEF AllOthers
  <2>2. PICK l \in 1..Len(posted) : k < l /\ ClearAt(l)
    BY <1>3, <1>5, <2>1
  <2> QED
    BY <2>1, <2>2 DEF ClearAt
<1> QED
  BY <1>4, <1>5

LEMMA GoesAwayOnFrame ==
    ASSUME DataOK, GoesAway, OnFrame,
           Shown' = posted[Last(Head(posted).to)].picture
    PROVE  GoesAway'
<1> DEFINE w == Head(posted).to
           n == Last(w)
<1>1. /\ n \in 1..Len(posted) /\ posted' = Others(w)
      /\ \A k \in 1..Len(posted) : k > n => posted[k].to # w
      /\ overtaken' = (overtaken \/ OutOfTurn(w))
      /\ ~OutOfTurn(w) => \A k \in 1..Len(posted) : posted[k].to # w => k > n
  BY Shows
<1>2. UNCHANGED <<sessions, failed>> /\ Shown' = posted[n].picture
  BY DEF OnFrame, sessionVars
<1> HIDE DEF w, n
<1>3. CASE w # 0
  BY <1>1, <1>2, <1>3, GoesAwayTaken
<1>4. CASE w = 0
  <2> SUFFICES ASSUME ~overtaken', ~failed
               PROVE  /\ ~Departed(posted[n].picture)
                      /\ \A i \in 1..Len(posted') : ~Departed(posted'[i].picture)
    BY <1>2 DEF GoesAway, Departed
  <2>1. \A i \in 1..Len(posted) :
            Departed(posted[i].picture) => \E j \in 1..Len(posted) : i < j /\ ClearAt(j)
    BY <1>1 DEF GoesAway
  <2>2. \A j \in 1..Len(posted) : ClearAt(j) => j <= n
    BY <1>1, <1>4 DEF ClearAt
  <2>3. ~Departed(posted[n].picture)
    BY <1>1, <2>1, <2>2
  <2>4. ASSUME NEW i \in 1..Len(posted') PROVE ~Departed(posted'[i].picture)
    <3>1. PICK k \in 1..Len(posted) : posted'[i] = posted[k] /\ posted[k].to # w
      BY <1>1, OthersKeep DEF DataOK, FromQueue
    <3>2. k > n
      BY <1>1, <3>1
    <3> QED
      BY <1>1, <2>1, <2>2, <3>1, <3>2
  <2> QED
    BY <2>3, <2>4
<1> QED
  BY <1>3, <1>4

LEMMA GoesAwayStep ==
    ASSUME ViewKept, GoesAway, [Next]_vars
    PROVE  GoesAway'
<1> USE DEF ViewKept, viewVars, sessionVars, decoderVars, ghostVars
<1>1. CASE OnFrame
  BY <1>1, ShownStep, GoesAwayOnFrame
<1>2. CASE ~OnFrame
  <2>1. Shown' = Shown
    BY <1>2, ShownStep
  <2>2. CASE Input \/ UNCHANGED vars
    <3>1. UNCHANGED <<posted, sessions, overtaken, failed>>
      BY <2>2, InputStill DEF vars, StillData
    <3> QED
      BY <2>1, <3>1, GoesAwayStill
  <2>3. CASE Interrupted \/ EnterFullscreen \/ ExitFullscreen
    <3>1. UNCHANGED <<posted, sessions, overtaken, failed>>
      BY <2>3 DEF Interrupted, EnterFullscreen, ExitFullscreen
    <3> QED
      BY <2>1, <3>1, GoesAwayStill
  <2>4. ASSUME NEW u \in Users, BeginSession(u) \/ Signal(u) \/ Decode(u)
        PROVE  GoesAway'
    <3>1. UNCHANGED <<posted, overtaken, failed>> /\ sessions \subseteq sessions'
      BY <2>4 DEF BeginSession, Signal, Decode
    <3> QED
      BY <2>1, <3>1, GoesAwayStill
  <2>5. ASSUME NEW u \in Users, RemoveFailed(u)
        PROVE  GoesAway'
    BY <2>5 DEF RemoveFailed, GoesAway
  <2>6. CASE OnBnClickedHangup \/ \E u \in Users : RemoteHangup(u)
    <3>1. /\ UNCHANGED <<posted, sessions>> \/ Clear
          /\ UNCHANGED <<overtaken, failed>>
      BY <2>6 DEF OnBnClickedHangup, RemoteHangup
    <3> QED
      BY <2>1, <3>1, GoesAwayStill, GoesAwayAppend, BlankIsPicture DEF Clear
  <2>7. ASSUME NEW u \in Users, PostFrame(u)
        PROVE  GoesAway'
    <3>1. UNCHANGED <<sessions, overtaken, failed>>
      BY <2>7 DEF PostFrame
    <3>2. CASE posted' = posted
      BY <2>1, <3>1, <3>2, GoesAwayStill
    <3>3. CASE posted' # posted
      <4>1. /\ inHand[u][1] \in Message /\ posted' = Append(posted, inHand[u][1])
            /\ inHand[u][1].picture.user = u /\ u \in sessions
        BY <2>7, <3>3, HandPosted
      <4> QED
        BY <2>1, <3>1, <4>1, GoesAwayAppend
    <3> QED
      BY <3>2, <3>3
  <2>8. CASE DrainView \/ ViewGone
    <3>1. posted' = Others(full) /\ full # 0 /\ UNCHANGED <<sessions, overtaken, failed>>
      BY <2>8 DEF DrainView, ViewGone, WindowsKept, Free
    <3> QED
      BY <2>1, <3>1, GoesAwayTaken
  <2> QED
    BY <1>2, <2>2, <2>3, <2>4, <2>5, <2>6, <2>7, <2>8 DEF Next
<1> QED
  BY <1>1, <1>2

\* When all sessions have been hung up and all messages taken, no picture is
\* left in either window (Clear in RemoteHangup and OnBnClickedHangup).
THEOREM NothingShownAfterHangupTheorem == Spec => []NothingShownAfterHangup
<1>1. Init => GoesAway
  <2>1. Init => Len(posted) = 0 /\ Shown = Blank
    BY DEF Init, Shown
  <2> QED
    BY <2>1 DEF GoesAway, Departed, Blank
<1>2. ViewKept /\ GoesAway /\ [Next]_vars => GoesAway'
  BY GoesAwayStep
<1>3. ViewKept /\ GoesAway => NothingShownAfterHangup
  <2> SUFFICES ASSUME ViewKept, GoesAway, sessions = {}, posted = <<>>, ui = "free",
                      ~overtaken, ~failed
               PROVE  picture = [w \in {"dialog", "full"} |-> Blank]
    BY DEF NothingShownAfterHangup
  <2>1. Shown.user = Nobody
    BY DEF GoesAway, Departed
  <2>2. Shown = Blank
    BY <2>1 DEF ViewKept, OrderKept, AllKnown, Known
  <2>3. picture["dialog"] = Blank /\ picture["full"] = Blank
    BY <2>2 DEF ViewKept, OtherBlank, Shown
  <2>4. picture \in [{"dialog", "full"} -> Picture]
    BY DEF ViewKept, DataOK
  <2> QED
    BY <2>3, <2>4
<1> QED
  BY <1>1, <1>2, <1>3, ViewKeptInvariance, PTL DEF Spec

-----------------------------------------------------------------------------
(* Drawing.                                                                *)

\* Every behaviour of the run is one of VideoView.
THEOREM EitherIsView == EitherSpec => Spec
<1>1. EitherInit => Init
  BY DEF EitherInit
<1>2. [EitherNext]_<<vars, drawing, draws>> => [Next]_vars
  BY DEF EitherNext
<1> QED
  BY <1>1, <1>2, PTL DEF EitherSpec, Spec

Extent == Sizes \cup {NoSize}
Devices == [buffers : Extent, kept : Extent,
            texture : [size : Extent, no : 0..MaxPictures, view : {TRUE, FALSE}]]
Frames == D!Picture \cup {D!Blank}

DrawingTyped == frame \in Frames /\ device \in Devices /\ window \in Sizes

\* A texture of the size that was kept can be drawn, and there is one unless
\* its creation has failed.
Fits(d) ==
    /\ d.texture.size = d.kept /\ d.kept # NoSize => d.texture.view
    /\ botched \/ d.texture.size = d.kept

\* It has the pixels of the picture that is kept.
Holds(d) ==
    d.kept = frame.size /\ d.texture.no = frame.no /\ d.texture.view

DrawnKept ==
    /\ misfit => botched
    /\ painted = "presented" /\ ~away /\ ~misfit => visible = frame.no
    /\ misfit \/ Fits(device)
    /\ misfit \/ (~dirty /\ frame # D!Blank /\ device # D!NoDevice => Holds(device))

DrawingKept == DrawingTyped /\ DrawnKept

LEMMA NothingTyped ==
    /\ D!NoDevice \in Devices /\ D!NoDevice.kept = NoSize
    /\ D!NoDevice.texture.size = NoSize /\ D!Blank \in Frames
BY DrawingAssumption DEF D!NoDevice, D!NoTexture, D!Blank, Devices, Extent, Frames

LEMMA ResizedEffect ==
    ASSUME NEW d \in Devices, NEW size \in Sizes, NEW e \in D!Resized(d, size)
    PROVE  /\ e \in Devices
           /\ e = D!NoDevice \/ (e.kept = d.kept /\ e.texture = d.texture)
<1>1. CASE e = d
  BY <1>1
<1>2. CASE e = [d EXCEPT !.buffers = size]
  BY <1>2 DEF Devices, Extent
<1>3. CASE e = D!NoDevice
  BY <1>3, NothingTyped
<1> QED
  BY <1>1, <1>2, <1>3 DEF D!Resized

\* The device OnPaint draws with is the one there was, as far as the texture
\* goes, or a new one without.
LEMMA EnsuredEffect ==
    ASSUME DrawingTyped, NEW d \in D!Ensured
    PROVE  /\ d \in Devices
           /\ \/ d.kept = NoSize /\ d.texture.size = NoSize /\ (device = D!NoDevice \/ d = D!NoDevice)
              \/ device # D!NoDevice /\ d.kept = device.kept /\ d.texture = device.texture
<1>1. CASE device = D!NoDevice
  <2>1. [D!NoDevice EXCEPT !.buffers = window] \in Devices
    BY NothingTyped DEF Devices, Extent, DrawingTyped
  <2>2. /\ [D!NoDevice EXCEPT !.buffers = window].kept = NoSize
        /\ [D!NoDevice EXCEPT !.buffers = window].texture.size = NoSize
    BY DEF D!NoDevice, D!NoTexture
  <2>3. d = D!NoDevice \/ d = [D!NoDevice EXCEPT !.buffers = window]
    BY <1>1 DEF D!Ensured
  <2> QED
    BY <1>1, <2>1, <2>2, <2>3, NothingTyped
<1>2. CASE device # D!NoDevice
  <2>1. d \in D!Resized(device, window) /\ device \in Devices /\ window \in Sizes
    BY <1>2 DEF D!Ensured, DrawingTyped
  <2>2. d \in Devices /\ (d = D!NoDevice \/ (d.kept = device.kept /\ d.texture = device.texture))
    BY <2>1, ResizedEffect
  <2> QED
    BY <1>2, <2>2, NothingTyped
<1> QED
  BY <1>1, <1>2

LEMMA FrameHasSize ==
    ASSUME frame \in Frames
    PROVE  /\ frame.size \in Extent /\ frame.no \in 0..MaxPictures
           /\ frame # D!Blank => frame.size # NoSize
           /\ frame = D!Blank => frame.no = 0
BY DrawingAssumption DEF Frames, D!Picture, D!Blank, Extent

\* What OnPaint makes of a device.
LEMMA MadeTyped ==
    ASSUME NEW d \in Devices, frame \in Frames
    PROVE  /\ D!Created(d) \in Devices /\ D!Created(d).kept = frame.size
           /\ D!Created(d).texture = [size |-> frame.size, no |-> 0, view |-> TRUE]
           /\ D!Copied(d) \in Devices /\ D!Copied(d).kept = d.kept
           /\ D!Copied(d).texture.size = d.texture.size
           /\ D!Copied(d).texture.view = d.texture.view
           /\ D!Copied(d).texture.no = frame.no
           /\ \A e \in D!NotCreated(d) :
                 /\ e \in Devices /\ e.kept = d.kept
                 /\ e.texture.size \in {NoSize, frame.size}
                 /\ ~e.texture.view
<1>1. frame.size \in Extent /\ frame.no \in 0..MaxPictures /\ 0 \in 0..MaxPictures
  BY FrameHasSize, DrawingAssumption
<1>2. D!Created(d) \in Devices /\ D!Created(d).kept = frame.size
      /\ D!Created(d).texture = [size |-> frame.size, no |-> 0, view |-> TRUE]
  BY <1>1 DEF D!Created, Devices
<1>3. D!Copied(d) \in Devices /\ D!Copied(d).kept = d.kept
      /\ D!Copied(d).texture.size = d.texture.size
      /\ D!Copied(d).texture.view = d.texture.view
      /\ D!Copied(d).texture.no = frame.no
  BY <1>1 DEF D!Copied, Devices
<1>4. ASSUME NEW e \in D!NotCreated(d)
      PROVE  /\ e \in Devices /\ e.kept = d.kept
             /\ e.texture.size \in {NoSize, frame.size} /\ ~e.texture.view
  <2>1. CASE e = [d EXCEPT !.texture = D!NoTexture]
    BY <1>1, <2>1, DrawingAssumption DEF D!NoTexture, Devices, Extent
  <2>2. CASE e = [d EXCEPT !.texture = [size |-> frame.size, no |-> 0, view |-> FALSE]]
    BY <1>1, <2>2 DEF Devices
  <2> QED
    BY <2>1, <2>2 DEF D!NotCreated
<1> QED
  BY <1>2, <1>3, <1>4

\* The disjuncts of OnPaint, for the device d they draw with.
LEMMA PaintStep ==
    ASSUME DrawingKept, ~misfit, NEW d \in D!Ensured,
           D!PaintFails(d) \/ D!PaintCopies(d) \/ D!PaintAgain(d),
           UNCHANGED <<frame, away, window>>
    PROVE  DrawingKept'
<1>1. /\ frame \in Frames /\ frame.size \in Extent /\ frame.no \in 0..MaxPictures
      /\ frame # D!Blank => frame.size # NoSize
      /\ frame = D!Blank => frame.no = 0
  BY FrameHasSize DEF DrawingKept, DrawingTyped
<1>2. /\ d \in Devices
      /\ \/ d.kept = NoSize /\ d.texture.size = NoSize /\ (device = D!NoDevice \/ d = D!NoDevice)
         \/ device # D!NoDevice /\ d.kept = device.kept /\ d.texture = device.texture
  BY EnsuredEffect DEF DrawingKept
<1>3. Fits(d)
  BY <1>2 DEF DrawingKept, DrawnKept, Fits
<1>4. ~dirty /\ frame # D!Blank /\ device # D!NoDevice /\ d # D!NoDevice => Holds(d)
  BY <1>2 DEF DrawingKept, DrawnKept, Holds
<1>5. /\ D!Created(d) \in Devices /\ D!Created(d).kept = frame.size
      /\ D!Created(d).texture = [size |-> frame.size, no |-> 0, view |-> TRUE]
  BY <1>1, <1>2, MadeTyped
<1>6. D!NoDevice \in Devices /\ Fits(D!NoDevice)
  BY NothingTyped DEF Fits
<1>7. ASSUME NEW e \in Devices, D!Grey(e), botched => botched', misfit' = misfit,
             (Fits(e))', ~dirty /\ frame # D!Blank /\ device # D!NoDevice
                         /\ e # D!NoDevice => Holds(e)
      PROVE  DrawingKept'
  <2>1. device' = e /\ painted' = "grey"
    BY <1>7 DEF D!Grey
  <2>2. ~dirty' => ~dirty /\ (device # D!NoDevice \/ e = D!NoDevice)
    BY <1>7 DEF D!Grey
  <2>3. DrawingTyped'
    BY <2>1 DEF DrawingKept, DrawingTyped, Frames
  <2> QED
    BY <1>7, <2>1, <2>2, <2>3 DEF DrawingKept, DrawnKept, Fits, Holds
<1>8. CASE D!PaintFails(d)
  <2>1. CASE d = D!NoDevice /\ D!Grey(d) /\ UNCHANGED botched
    BY <1>2, <1>3, <1>7, <1>8, <2>1 DEF D!PaintFails, Fits
  <2>2. ASSUME d # D!NoDevice, D!MustCopy(d), d.kept # frame.size, botched',
               NEW e \in D!NotCreated(d), D!Grey(e)
        PROVE  DrawingKept'
    <3>1. /\ e \in Devices /\ e.kept = d.kept
          /\ e.texture.size \in {NoSize, frame.size} /\ ~e.texture.view
      BY <1>1, <1>2, MadeTyped
    <3>2. (Fits(e))'
      BY <2>2, <3>1 DEF Fits
    <3>3. ~(~dirty /\ frame # D!Blank /\ device # D!NoDevice)
      BY <1>4, <2>2 DEF Holds
    <3> QED
      BY <1>7, <1>8, <2>2, <3>1, <3>2, <3>3 DEF D!PaintFails
  <2>3. CASE /\ d # D!NoDevice /\ D!MustCopy(d) /\ UNCHANGED botched
             /\ d.kept = frame.size /\ D!Grey(d)
    BY <1>2, <1>3, <1>4, <1>7, <1>8, <2>3 DEF D!PaintFails, Fits
  <2>4. CASE /\ d # D!NoDevice /\ D!MustCopy(d) /\ UNCHANGED botched
             /\ d.kept # frame.size /\ D!Grey(D!Created(d))
    <3>1. PICK e \in Devices : e = D!Created(d)
      BY <1>5
    <3>2. (Fits(e))'
      BY <1>5, <3>1 DEF Fits
    <3>3. ~(~dirty /\ frame # D!Blank /\ device # D!NoDevice)
      BY <1>4, <2>4 DEF Holds
    <3> QED
      BY <1>7, <1>8, <2>4, <3>1, <3>2, <3>3 DEF D!PaintFails
  <2> QED
    BY <1>8, <2>1, <2>2, <2>3, <2>4 DEF D!PaintFails
<1>9. ASSUME NEW e \in Devices, D!Present(e), ~misfit', botched' = botched,
             Fits(e), Holds(e) \/ frame = D!Blank,
             dirty' = FALSE \/ dirty' = (dirty \/ device = D!NoDevice)
      PROVE  DrawingKept'
  <2>1. device' \in {e, D!NoDevice} /\ DrawingTyped'
    BY <1>6, <1>9 DEF D!Present, DrawingKept, DrawingTyped, Frames
  <2>2. painted' = "presented" => visible' = frame.no
    BY <1>1, <1>9 DEF D!Present, Holds
  <2>3. (Fits(device))'
    BY <1>6, <1>9, <2>1 DEF Fits
  <2> QED
    BY <1>9, <2>1, <2>2, <2>3 DEF DrawingKept, DrawnKept, Holds
<1>10. CASE D!PaintCopies(d)
  <2> DEFINE e == IF d.kept = frame.size THEN d ELSE D!Created(d)
             f == D!Copied(e)
  <2>1. e \in Devices /\ e.kept = frame.size /\ Fits(e)
    BY <1>2, <1>3, <1>5 DEF Fits
  <2>2. /\ d # D!NoDevice /\ frame # D!Blank /\ dirty' = FALSE /\ UNCHANGED botched
        /\ D!Present(f) /\ misfit' = (e.texture.size # frame.size)
    BY <1>10 DEF D!PaintCopies, D!MustCopy
  <2> HIDE DEF e
  <2>3. /\ f \in Devices /\ f.kept = frame.size /\ f.texture.size = e.texture.size
        /\ f.texture.view = e.texture.view /\ f.texture.no = frame.no
    BY <1>1, <2>1, MadeTyped
  <2> HIDE DEF f
  <2>4. CASE ~misfit'
    <3>1. Fits(f) /\ Holds(f)
      BY <1>1, <2>1, <2>2, <2>3, <2>4 DEF Fits, Holds
    <3> QED
      BY <1>9, <2>2, <2>3, <2>4, <3>1
  <2>5. CASE misfit'
    <3>1. botched'
      BY <1>1, <2>1, <2>2, <2>5 DEF Fits
    <3>2. DrawingTyped'
      BY <1>6, <2>2, <2>3 DEF D!Present, DrawingKept, DrawingTyped, Frames
    <3> QED
      BY <2>5, <3>1, <3>2 DEF DrawingKept, DrawnKept
  <2> QED
    BY <2>4, <2>5
<1>11. CASE D!PaintAgain(d)
  <2>1. d # D!NoDevice /\ D!Present(d) /\ UNCHANGED <<botched, misfit>>
        /\ dirty' = (dirty \/ device = D!NoDevice)
    BY <1>11 DEF D!PaintAgain
  <2>2. Holds(d) \/ frame = D!Blank
    BY <1>4, <1>11 DEF D!PaintAgain, D!MustCopy
  <2> QED
    BY <1>2, <1>3, <1>9, <2>1, <2>2
<1> QED
  BY <1>8, <1>10, <1>11

LEMMA DrawingStep ==
    ASSUME DrawingKept, [EitherNext]_<<vars, drawing, draws>>
    PROVE  DrawingKept'
<1> USE DEF DrawingKept, DrawnKept
<1>1. CASE UNCHANGED drawing
  BY <1>1 DEF drawing, DrawingTyped, Frames, Fits, Holds
<1>2. CASE D!OnFrame \/ D!ExitFullscreen
  <2>1. /\ frame' \in Frames /\ dirty' = TRUE /\ painted' = "due"
        /\ UNCHANGED <<window, device, botched, misfit>>
    BY <1>2 DEF D!OnFrame, D!ExitFullscreen, D!Keep, D!Arrives, Frames
  <2> QED
    BY <2>1 DEF DrawingTyped, Fits, Frames
<1>3. CASE D!ToggleScaleMode
  BY <1>3 DEF D!ToggleScaleMode, DrawingTyped, Fits, Frames
<1>4. CASE D!EnterFullscreen
  BY <1>4, NothingTyped DEF D!EnterFullscreen, DrawingTyped, Fits, Frames
<1>5. CASE D!OnSize
  <2>1. /\ window' \in Sizes /\ device' \in D!Resized(device, window') /\ painted' = "due"
        /\ UNCHANGED <<frame, dirty, botched, misfit>>
    BY <1>5 DEF D!OnSize
  <2>2. /\ device' \in Devices
        /\ device' = D!NoDevice \/ (device'.kept = device.kept /\ device'.texture = device.texture)
    BY <2>1, ResizedEffect DEF DrawingTyped
  <2>3. /\ device' = D!NoDevice \/ device' = device
           \/ (device # D!NoDevice /\ device'.kept = device.kept /\ device'.texture = device.texture)
    <3>1. CASE device.buffers \in {window', NoSize}
      BY <2>1, <3>1 DEF D!Resized
    <3>2. CASE device.buffers \notin {window', NoSize}
      <4>1. device # D!NoDevice
        BY <3>2 DEF D!NoDevice
      <4> QED
        BY <2>2, <4>1
    <3> QED
      BY <3>1, <3>2
  <2>4. DrawingTyped'
    BY <2>1, <2>2 DEF DrawingTyped, Frames
  <2>5. misfit \/ (Fits(device))'
    BY <2>1, <2>2, NothingTyped DEF Fits
  <2> QED
    BY <2>1, <2>2, <2>3, <2>4, <2>5 DEF Holds
<1>6. CASE D!OnPaint
  BY <1>6, PaintStep DEF D!OnPaint
<1> QED
  BY <1>1, <1>2, <1>3, <1>4, <1>5, <1>6 DEF EitherNext, D!Next, drawing

\* What has been presented is the picture that is kept, and pixels go to a
\* texture of their size unless one could not be created (RenderD3d).
THEOREM ShownIsFrameTheorem == EitherSpec => []ShownIsFrame
<1>1. EitherInit => DrawingKept
  BY NothingTyped DEF EitherInit, D!Init, DrawingKept, DrawingTyped, DrawnKept, Fits
<1>2. DrawingKept /\ [EitherNext]_<<vars, drawing, draws>> => DrawingKept'
  BY DrawingStep
<1>3. DrawingKept => ShownIsFrame
  BY DEF DrawingKept, DrawnKept, ShownIsFrame, D!ShownIsFrame
<1> QED
  BY <1>1, <1>2, <1>3, PTL DEF EitherSpec

=============================================================================
