----------------------- MODULE SignalingClientProofs -----------------------
(***************************************************************************)
(* The connection to the signalling server, for any number of connects,    *)
(* addresses, lines and parts: only open sockets are used, what the server *)
(* reads is whole lines, every line received is passed on, and what the    *)
(* dialog shows is the state there is.                                     *)
(*                                                                         *)
(* The argument: socket_, connected_ and the open socket are what the      *)
(* worker's place says (SocketKept), and who holds the mutex in Send keeps *)
(* the worker from going beyond ClearSocket.                               *)
(***************************************************************************)
EXTENDS SignalingClient, SequenceTheorems, TLAPS

\* Places of the worker: from SetConnected to ResetConnected, from StoreSocket
\* to ClearSocket, from ConnectAddress to CloseSocket.
Flagged == {"login", "welcome", "refused", "loop", "recv", "ping", "post",
            "unflag"}
Stored == Flagged \cup {"flag", "clear"}
Opened == Stored \cup {"store", "close"}
Closed == {"none", "start", "resolve", "connect", "farewell", "bye", "failed",
           "ended"}

PlacesKept ==
    /\ ui \in {"idle", "silence", "look", "shut", "join", "spawn", "gone"}
    /\ worker \in Opened \cup Closed
    /\ mutex \in Threads \cup {"free"}
    /\ ui \in {"spawn", "gone"} => worker = "none"
    /\ stop <=> ui \in {"look", "shut", "join", "spawn", "gone"}
    /\ leaving => ui \in {"silence", "look", "shut", "join", "gone"}

SocketKept ==
    /\ made \in Nat /\ own \in 0..made /\ seen \in 0..made /\ dead \subseteq 1..made
    /\ ui = "shut" => seen # 0
    /\ worker \in Opened => own # 0
    /\ open = IF worker \in Opened THEN {own} ELSE {}
    /\ socket = IF worker \in Stored THEN own ELSE 0
    /\ connected <=> worker \in Flagged
    /\ mutex # "free" => worker \in Flagged \cup {"clear"}
    /\ mutex = "worker" => worker \in {"login", "ping"}

\* The line that is being sent has left its first parts at the end of the wire;
\* when there is none the wire ends with a whole line, or in a dead socket.
WholeSoFar == wire # <<>> => wire[Len(wire)].part = Parts

LineKept ==
    /\ part \in 0..(Parts - 1)
    /\ wire \in Seq([from : Threads, line : Nat, part : 1..Parts])
    /\ lines \in [Threads -> Nat]
    /\ mutex = "free" => part = 0
    /\ own # 0 /\ own \notin dead =>
          IF part = 0 THEN WholeSoFar
          ELSE /\ wire # <<>>
               /\ wire[Len(wire)] = [from |-> mutex, line |-> lines[mutex],
                                     part |-> part]
    /\ LinesWhole

\* Pieces are numbered as they arrive: passed, then pending.
Passed == [piece : Nat, last : BOOLEAN]
Piece(i) == [piece |-> i, last |-> i \in arriving.ends]

PassedKept ==
    /\ arriving \in [sent : Nat, taken : Nat, ends : SUBSET Nat]
    /\ arriving.taken <= arriving.sent
    /\ passed \in Seq(Passed) /\ pending \in Seq(Nat)
    /\ Len(pending) <= arriving.taken
    /\ \A i \in 1..Len(pending) : pending[i] = arriving.taken - Len(pending) + i
    /\ worker # "post" => ~HoldsLine(pending)
    /\ "message" \in callbacks =>
          /\ Len(passed) + Len(pending) = arriving.taken
          /\ \A i \in 1..Len(passed) : passed[i] = Piece(i)

\* The last state the dialog will have been told of.
LastNews == IF posted = <<>> THEN shown ELSE posted[Len(posted)]

NewsKept ==
    /\ posted \in Seq(News)
    /\ worker \in {"loop", "recv", "ping", "post"} /\ ~leaving =>
          LastNews \in {"Connected", "Failed"}
    /\ worker = "ended" /\ ~stop /\ ~leaving =>
          LastNews \in {"Disconnected", "Failed"}

Control == PlacesKept /\ SocketKept

-----------------------------------------------------------------------------
(* Places, socket and flags.                                               *)

LEMMA ControlInit == Init => Control
BY DEF Init, Control, PlacesKept, SocketKept, Flagged, Stored, Opened, Closed,
       Threads

\* Sending never takes the worker out of the places where the socket is stored.
LEMMA ControlSend ==
    ASSUME Control, NEW t \in Threads,
           \/ (t = "worker" => worker \in {"login", "ping"}) /\ Send(t)
           \/ Sending(t)
    PROVE  Control'
<1> USE DEF Control, PlacesKept, SocketKept, Flagged, Stored, Opened, Closed,
            Threads, uiVars, netVars, SendReturns
<1>1. CASE Send(t)
  BY <1>1 DEF Send, Sending, SendPart, SendFails
<1>2. CASE SendPart(t)
  BY <1>2 DEF SendPart
<1>3. CASE SendFails(t)
  BY <1>3 DEF SendFails
<1> QED
  BY <1>1, <1>2, <1>3 DEF Sending

LEMMA ControlUi ==
    ASSUME Control, OnBnClickedConnect \/ OnDestroy \/ UI
    PROVE  Control'
<1> USE DEF Control, PlacesKept, SocketKept, Flagged, Stored, Opened, Closed,
            Threads, sendVars, workerVars, netVars
<1>1. CASE OnBnClickedConnect
  BY <1>1 DEF OnBnClickedConnect
<1>2. CASE OnDestroy
  BY <1>2 DEF OnDestroy
<1>3. CASE ClearCallback
  BY <1>3 DEF ClearCallback
<1>4. CASE LookAtSocket
  BY <1>4 DEF LookAtSocket
<1>5. CASE ShutSocket
  BY <1>5 DEF ShutSocket
<1>6. CASE Join
  BY <1>6 DEF Join, Go
<1>7. CASE StartWorker
  BY <1>7 DEF StartWorker, Go
<1>8. CASE OnSignalingState
  BY <1>8 DEF OnSignalingState
<1> QED
  BY <1>1, <1>2, <1>3, <1>4, <1>5, <1>6, <1>7, <1>8 DEF UI

LEMMA ControlConnecting ==
    ASSUME Control,
           \/ Reports("start", "Connecting", "resolve") \/ Resolve
           \/ ConnectAddress \/ AddressFails \/ NoAddress
           \/ StoreSocket \/ SetConnected
           \/ Reports("welcome", "Connected", "loop")
           \/ Reports("refused", "Failed", "loop")
           \/ Reports("failed", "Failed", "ended")
    PROVE  Control'
<1> USE DEF Control, PlacesKept, SocketKept, Flagged, Stored, Opened, Closed,
            Threads, uiVars, sendVars, netVars, Go
<1>1. CASE ConnectAddress
  BY <1>1 DEF ConnectAddress, TryAddress
<1>2. CASE AddressFails
  BY <1>2 DEF AddressFails, TryAddress
<1>3. CASE Resolve
  BY <1>3 DEF Resolve
<1>7. CASE NoAddress
  BY <1>7 DEF NoAddress
<1>4. CASE StoreSocket
  BY <1>4 DEF StoreSocket
<1>5. CASE SetConnected
  BY <1>5 DEF SetConnected
<1>6. CASE \/ Reports("start", "Connecting", "resolve")
           \/ Reports("welcome", "Connected", "loop")
           \/ Reports("refused", "Failed", "loop")
           \/ Reports("failed", "Failed", "ended")
  <2>1. CASE Reports("start", "Connecting", "resolve")
    BY <2>1 DEF Reports, ReportState
  <2>2. CASE Reports("welcome", "Connected", "loop")
    BY <2>2 DEF Reports, ReportState
  <2>3. CASE Reports("refused", "Failed", "loop")
    BY <2>3 DEF Reports, ReportState
  <2>4. CASE Reports("failed", "Failed", "ended")
    BY <2>4 DEF Reports, ReportState
  <2> QED
    BY <1>6, <2>1, <2>2, <2>3, <2>4
<1> QED
  BY <1>1, <1>2, <1>3, <1>4, <1>5, <1>6, <1>7

LEMMA ControlServing ==
    ASSUME Control, Serving \/ Ending
    PROVE  Control'
<1> USE DEF Control, PlacesKept, SocketKept, Flagged, Stored, Opened, Closed,
            Threads, uiVars, sendVars, netVars, Go
<1>1. CASE Loop
  BY <1>1 DEF Loop
<1>7. CASE ReceiveTimesOut
  BY <1>7 DEF ReceiveTimesOut
<1>8. CASE ReceiveEnds
  BY <1>8 DEF ReceiveEnds
<1>9. CASE PassLine
  BY <1>9 DEF PassLine
<1>2. CASE Receive
  BY <1>2 DEF Receive, Received
<1>3. CASE ResetConnected
  BY <1>3 DEF ResetConnected
<1>4. CASE ClearSocket
  BY <1>4 DEF ClearSocket
<1>5. CASE CloseSocket
  BY <1>5 DEF CloseSocket
<1>6. CASE End
  BY <1>6 DEF End
<1>10. CASE Reports("bye", "Disconnected", "ended")
  BY <1>10 DEF Reports, ReportState
<1> QED
  BY <1>1, <1>2, <1>3, <1>4, <1>5, <1>6, <1>7, <1>8, <1>9, <1>10
     DEF Serving, Ending

LEMMA ControlNet ==
    ASSUME Control, ServerSends \/ ServerEnds \/ UNCHANGED vars
    PROVE  Control'
BY DEF Control, PlacesKept, SocketKept, Flagged, Stored, Opened, Closed,
       Threads, ServerSends, ServerEnds, vars, uiVars, sendVars, workerVars, netVars

LEMMA ControlStep == Control /\ [Next]_vars => Control'
BY ControlSend, ControlUi, ControlConnecting, ControlServing, ControlNet
   DEF Next, UI, Worker, Connecting, SendBegins, Threads

\* The places of the threads, the flags and the sockets agree at every step of
\* Connect, Disconnect, Send and Run.
THEOREM ClientControl == Spec => []Control
BY ControlInit, ControlStep, PTL DEF Spec

\* Nothing is sent or received on a socket that is closed, and when no worker is
\* at work its socket is closed and nobody can send (Send, Run, Disconnect).
THEOREM SocketsAreSoundTheorem == Spec => []SocketsAreSound
<1>1. Control => SocketsAreSound
  BY DEF Control, PlacesKept, SocketKept, SocketsAreSound, Flagged, Stored, Opened, Closed
<1> QED
  BY <1>1, ClientControl, PTL

-----------------------------------------------------------------------------
(* Lines.                                                                  *)

Sent == [from : Threads, line : Nat, part : 1..Parts]

LEMMA LineInit == Init => LineKept
<1>1. <<>> \in Seq(Sent)
  OBVIOUS
<1>2. Init => lines \in [Threads -> Nat] /\ part \in 0..(Parts - 1)
  BY ClientAssumption DEF Init
<1> QED
  BY <1>1, <1>2 DEF Init, LineKept, LinesWhole, Sent

\* Part i of what is sent follows the part before it.
Follows(sent, i) ==
    /\ i = 1 => sent[i].part = 1
    /\ i > 1 => IF sent[i-1].part = Parts
                THEN sent[i].part = 1
                ELSE sent[i] = [sent[i-1] EXCEPT !.part = @ + 1]

\* A part more on the wire, after the last one of the same line, or as the
\* first of its own.
LEMMA OnePartMore ==
    ASSUME Control, LineKept, NEW t \in Threads, mutex = t, socket \notin dead,
           NEW e, e = [from |-> t, line |-> lines[t], part |-> part + 1]
    PROVE  /\ Append(wire, e) \in Seq(Sent) /\ Len(Append(wire, e)) = Len(wire) + 1
           /\ Append(wire, e)[Len(wire) + 1] = e
           /\ \A i \in 1..Len(wire) + 1 : Follows(Append(wire, e), i)
<1> DEFINE w == Append(wire, e)
<1>1. /\ wire \in Seq(Sent) /\ lines[t] \in Nat /\ Len(wire) \in Nat
      /\ part \in Nat /\ part + 1 \in 1..Parts /\ Parts \in Nat
  BY ClientAssumption DEF LineKept, Sent
<1>2. e \in Sent
  BY <1>1 DEF Sent
<1>3. /\ w \in Seq(Sent) /\ Len(w) = Len(wire) + 1 /\ w[Len(wire) + 1] = e
      /\ \A i \in 1..Len(wire) : w[i] = wire[i]
  BY <1>1, <1>2, AppendProperties
<1>4. own # 0 /\ own \notin dead
  BY DEF Control, PlacesKept, SocketKept, Threads, Opened, Stored
<1>5. \A i \in 1..Len(wire) : Follows(w, i)
  <2>0. DOMAIN wire = 1..Len(wire) /\ LinesWhole
    BY <1>1 DEF LineKept
  <2>1. \A i \in 1..Len(wire) : Follows(wire, i)
    BY <2>0 DEF LinesWhole, Follows
  <2>2. \A i \in 1..Len(wire) : i > 1 => i - 1 \in 1..Len(wire)
    BY <1>1
  <2> QED
    BY <1>3, <2>1, <2>2 DEF Follows
<1>6. IF part = 0 THEN wire # <<>> => wire[Len(wire)].part = Parts
      ELSE /\ wire # <<>>
           /\ wire[Len(wire)] = [from |-> t, line |-> lines[t], part |-> part]
  BY <1>4 DEF LineKept, WholeSoFar
<1>7. Follows(w, Len(wire) + 1)
  <2>1. CASE wire = <<>>
    <3>1. Len(wire) = 0 /\ e.part = 1
      BY <1>6, <2>1
    <3> QED
      BY <1>3, <3>1 DEF Follows
  <2>2. CASE wire # <<>>
    <3>1. Len(wire) \in 1..Len(wire)
      BY <1>1, <2>2
    <3>2. IF wire[Len(wire)].part = Parts THEN e.part = 1
          ELSE e = [wire[Len(wire)] EXCEPT !.part = @ + 1]
      BY <1>1, <1>6, <2>2
    <3>3. w[Len(wire) + 1 - 1] = wire[Len(wire)] /\ Len(wire) + 1 # 1
      BY <1>3, <3>1
    <3> QED
      BY <1>3, <3>2, <3>3 DEF Follows
  <2> QED
    BY <2>1, <2>2
<1>8. \A i \in 1..Len(wire) + 1 : i \in 1..Len(wire) \/ i = Len(wire) + 1
  BY <1>1
<1> QED
  BY <1>3, <1>5, <1>7, <1>8

LEMMA LineSendPart ==
    ASSUME Control, LineKept, NEW t \in Threads, SendPart(t)
    PROVE  LineKept'
<1> DEFINE e == [from |-> t, line |-> lines[t], part |-> part + 1]
<1>1. /\ mutex = t /\ socket \notin dead /\ wire' = Append(wire, e)
      /\ lines' = lines /\ own' = own /\ dead' = dead
      /\ \/ part + 1 = Parts /\ mutex' = "free" /\ part' = 0
         \/ part + 1 # Parts /\ mutex' = mutex /\ part' = part + 1
  BY DEF SendPart, SendReturns, netVars
<1>2. wire \in Seq(Sent) /\ Len(wire) \in Nat
  BY DEF LineKept, Sent
<1>3. part \in Nat /\ part < Parts /\ Parts \in Nat \ {0}
  BY ClientAssumption DEF LineKept
<1>4. /\ wire' \in Seq(Sent) /\ Len(wire') = Len(wire) + 1
      /\ wire'[Len(wire) + 1] = e
      /\ \A i \in 1..Len(wire) + 1 : Follows(wire', i)
  BY <1>1, OnePartMore
<1>5. LinesWhole'
  BY <1>4 DEF LinesWhole, Follows
<1>6. wire'[Len(wire')] = e /\ wire' # <<>>
  BY <1>2, <1>4
<1>7. part' \in 0..(Parts - 1) /\ (mutex' = "free" => part' = 0)
  BY <1>1, <1>3 DEF Threads
<1>8. IF part' = 0 THEN WholeSoFar'
      ELSE wire'[Len(wire')] = [from |-> mutex', line |-> lines'[mutex'],
                                part |-> part']
  BY <1>1, <1>3, <1>6 DEF WholeSoFar
<1> QED
  BY <1>1, <1>4, <1>5, <1>6, <1>7, <1>8 DEF LineKept, Sent

\* The line stays as it is on the wire: its socket is dead.
LEMMA LineSendFails ==
    ASSUME Control, LineKept, NEW t \in Threads, SendFails(t)
    PROVE  LineKept'
<1>1. /\ mutex = t /\ socket \in dead /\ mutex' = "free" /\ part' = 0
      /\ wire' = wire /\ lines' = lines /\ own' = own /\ dead' = dead
  BY DEF SendFails, SendReturns, netVars
<1>2. own \in dead
  BY <1>1 DEF Control, PlacesKept, SocketKept, Threads, Opened, Stored
<1>3. 0 \in 0..(Parts - 1)
  BY ClientAssumption
<1> QED
  BY <1>1, <1>2, <1>3 DEF LineKept, LinesWhole

LEMMA LineSend ==
    ASSUME Control, LineKept, NEW t \in Threads, Send(t)
    PROVE  LineKept'
<1>1. /\ mutex = "free" /\ part' = part /\ part = 0
      /\ wire' = wire /\ own' = own /\ dead' = dead
  BY DEF Send, SendReturns, netVars, LineKept
<1>2. lines' = lines \/ lines' = [lines EXCEPT ![t] = @ + 1]
  BY DEF Send
<1>3. lines' \in [Threads -> Nat]
  BY <1>2 DEF LineKept
<1> QED
  BY <1>1, <1>3 DEF LineKept, LinesWhole, WholeSoFar

LEMMA LineConnect ==
    ASSUME Control, LineKept, ConnectAddress
    PROVE  LineKept'
<1>1. mutex = "free" /\ part = 0
  BY DEF ConnectAddress, TryAddress, Control, PlacesKept, SocketKept, LineKept,
         Flagged
<1>2. <<>> \in Seq(Sent)
  OBVIOUS
<1> QED
  BY <1>1, <1>2 DEF ConnectAddress, LineKept, LinesWhole, WholeSoFar, Sent

\* What every other step leaves alone.
LEMMA LineRest ==
    ASSUME LineKept,
           UNCHANGED <<part, wire, lines, mutex, own>>, dead \subseteq dead'
    PROVE  LineKept'
BY DEF LineKept, LinesWhole, WholeSoFar

LEMMA RestOfSteps ==
    ASSUME [Next]_vars, ~ConnectAddress,
           \A t \in Threads : ~Send(t) /\ ~Sending(t)
    PROVE  UNCHANGED <<part, wire, lines, mutex, own>> /\ dead \subseteq dead'
<1> USE DEF sendVars, workerVars, netVars
<1>1. CASE OnBnClickedConnect \/ OnDestroy \/ UI
  BY <1>1 DEF OnBnClickedConnect, OnDestroy, UI, ClearCallback, LookAtSocket,
              ShutSocket, Join, StartWorker, OnSignalingState
<1>2. CASE Connecting
  BY <1>2 DEF Connecting, Reports, Resolve, AddressFails, TryAddress, NoAddress,
              StoreSocket, SetConnected, Threads
<1>3. CASE Serving \/ Ending
  BY <1>3 DEF Serving, Ending, Loop, Receive, Received, ReceiveTimesOut, ReceiveEnds,
              PassLine, ResetConnected, ClearSocket, CloseSocket, End, Reports
<1>4. CASE ServerSends \/ ServerEnds \/ UNCHANGED vars
  BY <1>4 DEF ServerSends, ServerEnds, vars
<1> QED
  BY <1>1, <1>2, <1>3, <1>4 DEF Next, Worker, SendBegins, Threads

LEMMA LineStep == Control /\ LineKept /\ [Next]_vars => LineKept'
<1> SUFFICES ASSUME Control, LineKept, [Next]_vars PROVE LineKept'
  OBVIOUS
<1>1. CASE ConnectAddress
  BY <1>1, LineConnect
<1>2. CASE \E t \in Threads : Send(t) \/ Sending(t)
  BY <1>2, LineSend, LineSendPart, LineSendFails DEF Sending
<1>3. CASE ~ConnectAddress /\ \A t \in Threads : ~Send(t) /\ ~Sending(t)
  BY <1>3, RestOfSteps, LineRest
<1> QED
  BY <1>1, <1>2, <1>3

\* Three threads send, and may be cut off anywhere; the server reads whole lines,
\* one after the other, of which only the last may be incomplete.
THEOREM LinesWholeTheorem == Spec => []LinesWhole
<1>1. LineKept => LinesWhole
  BY DEF LineKept
<1> QED
  BY <1>1, LineInit, LineStep, ClientControl, PTL DEF Spec

-----------------------------------------------------------------------------
(* What is received.                                                       *)

LEMMA PassedInit == Init => PassedKept
<1>1. <<>> \in Seq(Nat) /\ <<>> \in Seq(Passed) /\ Len(<<>>) = 0
  OBVIOUS
<1>2. NothingSent \in [sent : Nat, taken : Nat, ends : SUBSET Nat]
  BY DEF NothingSent
<1> QED
  BY <1>1, <1>2 DEF Init, PassedKept, NothingSent, HoldsLine

LEMMA Numbered ==
    ASSUME NEW first \in Nat, NEW k \in Nat
    PROVE  /\ [i \in 1..k |-> first + i] \in Seq(Nat)
           /\ Len([i \in 1..k |-> first + i]) = k
OBVIOUS

LEMMA PassedReceive ==
    ASSUME PassedKept, Receive
    PROVE  PassedKept'
<1>1. PICK n \in (arriving.taken + 1)..arriving.sent :
         /\ arriving' = [arriving EXCEPT !.taken = n]
         /\ pending' = pending \o Taken(n)
         /\ worker' = IF HoldsLine(pending') THEN "post" ELSE "loop"
         /\ UNCHANGED <<passed, callbacks>>
  BY DEF Receive, Received, Go, uiVars
<1>2. /\ arriving \in [sent : Nat, taken : Nat, ends : SUBSET Nat]
      /\ passed \in Seq(Passed) /\ pending \in Seq(Nat) /\ Len(pending) <= arriving.taken
      /\ \A i \in 1..Len(pending) : pending[i] = arriving.taken - Len(pending) + i
      /\ arriving.taken \in Nat /\ arriving.sent \in Nat /\ Len(pending) \in Nat
  BY DEF PassedKept
<1> DEFINE k == n - arriving.taken
           new == Taken(n)
<1>3. n \in Nat /\ k \in Nat /\ n <= arriving.sent /\ n = arriving.taken + k
  BY <1>2
<1>4. /\ arriving' \in [sent : Nat, taken : Nat, ends : SUBSET Nat]
      /\ arriving'.taken = n /\ arriving'.sent = arriving.sent /\ arriving'.ends = arriving.ends
  BY <1>1, <1>2, <1>3
<1>5. /\ new \in Seq(Nat) /\ Len(new) = k
      /\ \A i \in 1..k : new[i] = arriving.taken + i
  BY <1>2, <1>3, Numbered DEF Taken
<1> HIDE DEF new, k
<1>6. /\ pending' \in Seq(Nat) /\ Len(pending') = Len(pending) + k
      /\ \A i \in 1..Len(pending) + k :
            pending'[i] = IF i <= Len(pending) THEN pending[i] ELSE new[i - Len(pending)]
  BY <1>1, <1>2, <1>5, ConcatProperties DEF new
<1>7. ASSUME NEW i \in 1..Len(pending')
      PROVE  pending'[i] = arriving'.taken - Len(pending') + i
  <2>1. CASE i <= Len(pending)
    <3>1. i \in 1..Len(pending)
      BY <1>2, <1>3, <1>6, <2>1
    <3>2. pending'[i] = arriving.taken - Len(pending) + i
      BY <1>2, <1>3, <1>6, <2>1, <3>1
    <3> QED
      BY <1>2, <1>3, <1>4, <1>6, <3>2
  <2>2. CASE ~(i <= Len(pending))
    <3>1. i - Len(pending) \in 1..k
      BY <1>2, <1>3, <1>6, <2>2
    <3>2. pending'[i] = arriving.taken + (i - Len(pending))
      BY <1>2, <1>3, <1>5, <1>6, <2>2, <3>1
    <3> QED
      BY <1>2, <1>3, <1>4, <1>6, <3>2
  <2> QED
    BY <2>1, <2>2
<1>8. worker' # "post" => ~HoldsLine(pending)'
  BY <1>1, <1>4 DEF HoldsLine
<1>9. "message" \in callbacks' =>
        /\ Len(passed') + Len(pending') = arriving'.taken
        /\ \A i \in 1..Len(passed') : passed'[i] = Piece(i)'
  <2>1. \A i : Piece(i)' = Piece(i)
    BY <1>4 DEF Piece
  <2>2. "message" \in callbacks =>
          /\ Len(passed) + Len(pending) = arriving.taken /\ Len(passed) \in Nat
          /\ \A i \in 1..Len(passed) : passed[i] = Piece(i)
    BY <1>2 DEF PassedKept
  <2> QED
    BY SMTT(60), <1>1, <1>2, <1>3, <1>4, <1>6, <2>1, <2>2
<1>10. Len(pending') <= arriving'.taken /\ arriving'.taken <= arriving'.sent
  BY <1>2, <1>3, <1>4, <1>6
<1> QED
  BY <1>1, <1>2, <1>4, <1>6, <1>7, <1>8, <1>9, <1>10 DEF PassedKept

LEMMA Behind ==
    ASSUME NEW l \in Nat, NEW n \in 1..l, NEW i \in 1..(l - n)
    PROVE  n + i \in 1..l /\ i \in Nat /\ n \in Nat
OBVIOUS

\* A piece knows whether it is the last of its line.
LEMMA SamePiece ==
    ASSUME NEW i, NEW p, NEW q, p <=> q
    PROVE  [piece |-> i, last |-> p] = [piece |-> i, last |-> q]
<1>1. CASE p /\ q
  BY <1>1
<1>2. CASE ~p /\ ~q
  BY <1>2
<1> QED
  BY <1>1, <1>2

\* The first line that is pending is passed on.
LEMMA PassedPass ==
    ASSUME PassedKept, PassLine
    PROVE  PassedKept'
<1> DEFINE message(k) == [i \in 1..k |-> [piece |-> pending[i], last |-> i = k]]
<1>1. PICK n \in DOMAIN pending :
         /\ LineEnds(pending, n)
         /\ passed' = IF "message" \notin callbacks THEN passed ELSE passed \o message(n)
         /\ pending' = SubSeq(pending, n + 1, Len(pending))
         /\ worker' = IF HoldsLine(pending') THEN "post" ELSE "loop"
         /\ UNCHANGED <<callbacks, arriving>>
  BY DEF PassLine, Go, uiVars, netVars
<1>2. /\ passed \in Seq(Passed) /\ pending \in Seq(Nat) /\ Len(pending) <= arriving.taken
      /\ \A i \in 1..Len(pending) : pending[i] = arriving.taken - Len(pending) + i
      /\ arriving.taken \in Nat /\ Len(pending) \in Nat /\ n \in 1..Len(pending)
      /\ Len(passed) \in Nat
  BY DEF PassedKept
<1>3. /\ pending' \in Seq(Nat) /\ Len(pending') = Len(pending) - n
      /\ \A i \in 1..Len(pending') : pending'[i] = pending[n + i]
  <2>1. n + 1 \in Int /\ Len(pending) \in Int /\ \A i \in (n + 1)..Len(pending) : pending[i] \in Nat
    BY <1>2
  <2> DEFINE rest == SubSeq(pending, n + 1, Len(pending))
  <2>2. /\ rest \in Seq(Nat)
        /\ Len(rest) = IF n + 1 <= Len(pending) THEN Len(pending) - (n + 1) + 1 ELSE 0
        /\ \A i \in 1..(Len(pending) - (n + 1) + 1) : rest[i] = pending[(n + 1) + i - 1]
    BY <2>1, SubSeqProperties
  <2> HIDE DEF rest
  <2>3. pending' = rest
    BY <1>1 DEF rest
  <2>4. Len(pending) - (n + 1) + 1 = Len(pending) - n /\ Len(rest) = Len(pending) - n
    BY SMTT(60), <1>2, <2>2
  <2>5. ASSUME NEW i \in 1..Len(rest) PROVE rest[i] = pending[n + i]
    <3>1. i \in 1..(Len(pending) - (n + 1) + 1) /\ (n + 1) + i - 1 = n + i
      BY <1>2, <2>4
    <3> QED
      BY <2>2, <3>1
  <2> QED
    BY <2>2, <2>3, <2>4, <2>5
<1>4. \A i \in 1..Len(pending') : pending'[i] = arriving'.taken - Len(pending') + i
  <2> SUFFICES ASSUME NEW i \in 1..Len(pending')
               PROVE  pending'[i] = arriving'.taken - Len(pending') + i
    OBVIOUS
  <2>0. i \in 1..(Len(pending) - n)
    BY <1>3
  <2>1. n + i \in 1..Len(pending) /\ pending'[i] = pending[n + i] /\ i \in Nat /\ n \in Nat
    BY <1>2, <1>3, <2>0, Behind
  <2>2. pending[n + i] = arriving.taken - Len(pending) + (n + i)
    BY <1>2, <2>1
  <2>3. arriving'.taken = arriving.taken /\ Len(pending') = Len(pending) - n
    BY <1>1, <1>3
  <2> QED
    BY <1>2, <2>1, <2>2, <2>3
<1>5. Len(pending') <= arriving'.taken
  BY <1>1, <1>2, <1>3
<1>6. worker' # "post" => ~HoldsLine(pending)'
  BY <1>1 DEF HoldsLine
<1>7. CASE "message" \in callbacks
  <2>1. /\ Len(passed) + Len(pending) = arriving.taken
        /\ \A i \in 1..Len(passed) : passed[i] = Piece(i)
    BY <1>7 DEF PassedKept
  <2>2. ASSUME NEW i \in 1..n
        PROVE  [piece |-> pending[i], last |-> i = n] = Piece(Len(passed) + i)
    <3>1. i \in Nat /\ i \in 1..Len(pending)
      BY <1>2
    <3>2. pending[i] = arriving.taken - Len(pending) + i
      BY <1>2, <3>1
    <3>3. pending[i] = Len(passed) + i
      BY <1>2, <2>1, <3>1, <3>2
    <3>4. CASE i = n
      BY <1>1, <3>3, <3>4, SamePiece DEF LineEnds, Piece
    <3>5. CASE i # n
      <4>1. i \in 1..(n - 1)
        BY <1>2, <3>1, <3>5
      <4>2. pending[i] \notin arriving.ends
        BY <1>1, <4>1 DEF LineEnds
      <4> QED
        BY <3>3, <3>5, <4>2, SamePiece DEF Piece
    <3> QED
      BY <3>4, <3>5
  <2> DEFINE handed(i) == [piece |-> pending[i], last |-> i = n]
             added == message(n)
  <2>3. \A i \in 1..n : handed(i) \in Passed
    BY <1>2 DEF Passed
  <2>4. n \in Nat
    BY <1>2
  <2> HIDE DEF handed
  <2>5. [i \in 1..n |-> handed(i)] \in Seq(Passed) /\ Len([i \in 1..n |-> handed(i)]) = n
    <3>1. [i \in 1..n |-> handed(i)] \in Seq(Passed)
      BY <2>3, <2>4, IsASeq
    <3> QED
      BY <2>4, <3>1
  <2> USE DEF handed
  <2>6. /\ added \in Seq(Passed) /\ Len(added) = n
        /\ \A i \in 1..n : added[i] = [piece |-> pending[i], last |-> i = n]
    BY <2>5
  <2>7. passed' = passed \o added
    BY <1>1, <1>7
  <2> HIDE DEF added, handed, message
  <2>8. \A i \in 1..n : added[i] = Piece(Len(passed) + i)
    BY <2>2, <2>6
  <2>9. /\ passed' \in Seq(Passed) /\ Len(passed') = Len(passed) + n
        /\ \A i \in 1..Len(passed) + n :
              passed'[i] = IF i <= Len(passed) THEN passed[i] ELSE added[i - Len(passed)]
    BY <1>2, <2>6, <2>7, ConcatProperties
  <2>10. ASSUME NEW i \in 1..Len(passed') PROVE passed'[i] = Piece(i)
    <3>1. CASE i <= Len(passed)
      <4>1. i \in 1..Len(passed)
        BY <1>2, <2>9, <3>1
      <4> QED
        BY <2>1, <2>9, <3>1, <4>1
    <3>2. CASE ~(i <= Len(passed))
      <4>1. i - Len(passed) \in 1..n /\ Len(passed) + (i - Len(passed)) = i
        BY <1>2, <2>9, <3>2
      <4>2. passed'[i] = added[i - Len(passed)]
        BY <2>9, <3>2
      <4> QED
        BY <2>8, <4>1, <4>2
    <3> QED
      BY <3>1, <3>2
  <2>11. \A i \in 1..Len(passed') : passed'[i] = Piece(i)'
    BY <1>1, <2>10 DEF Piece
  <2>12. Len(passed') + Len(pending') = arriving'.taken
    BY <1>1, <1>2, <1>3, <2>1, <2>9
  <2> QED
    BY <1>1, <1>3, <1>4, <1>5, <1>6, <2>9, <2>11, <2>12 DEF PassedKept
<1>8. CASE "message" \notin callbacks
  BY <1>1, <1>3, <1>4, <1>5, <1>6, <1>8 DEF PassedKept
<1> QED
  BY <1>7, <1>8

LEMMA PassedConnect ==
    ASSUME PassedKept, ConnectAddress
    PROVE  PassedKept'
<1>1. <<>> \in Seq(Nat) /\ <<>> \in Seq(Passed) /\ Len(<<>>) = 0
  OBVIOUS
<1>2. passed' = <<>> /\ pending' = <<>> /\ arriving' = NothingSent
  BY DEF ConnectAddress
<1>3. NothingSent \in [sent : Nat, taken : Nat, ends : SUBSET Nat]
  BY DEF NothingSent
<1> QED
  BY <1>1, <1>2, <1>3 DEF PassedKept, NothingSent, HoldsLine

\* What the server sends comes behind all that has been received.
LEMMA PassedSends ==
    ASSUME PassedKept, ServerSends
    PROVE  PassedKept'
<1>1. PICK ends \in {arriving.ends, arriving.ends \cup {arriving.sent + 1}} :
         arriving' = [arriving EXCEPT !.sent = @ + 1, !.ends = ends]
  BY DEF ServerSends
<1>2. UNCHANGED <<callbacks, worker, passed, pending>>
  BY DEF ServerSends, uiVars, workerVars
<1>3. /\ arriving \in [sent : Nat, taken : Nat, ends : SUBSET Nat]
      /\ arriving.taken <= arriving.sent /\ Len(pending) <= arriving.taken
      /\ Len(pending) \in Nat /\ Len(passed) \in Nat
      /\ \A i \in 1..Len(pending) : pending[i] = arriving.taken - Len(pending) + i
  BY DEF PassedKept
<1>4. /\ arriving' \in [sent : Nat, taken : Nat, ends : SUBSET Nat]
      /\ arriving'.sent = arriving.sent + 1 /\ arriving'.taken = arriving.taken
      /\ arriving'.ends = ends
  <2>1. arriving.sent + 1 \in Nat /\ ends \in SUBSET Nat
    BY <1>3
  <2>2. arriving' = [arriving EXCEPT !.sent = arriving.sent + 1, !.ends = ends]
    BY <1>1
  <2> QED
    BY <1>3, <2>1, <2>2
<1>5. \A i \in Nat : i <= arriving.taken => (i \in arriving'.ends <=> i \in arriving.ends)
  BY <1>1, <1>3, <1>4
<1>6. HoldsLine(pending)' <=> HoldsLine(pending)
  <2>1. \A i \in 1..Len(pending) : pending[i] \in Nat /\ pending[i] <= arriving.taken
    BY <1>3
  <2>2. DOMAIN pending = 1..Len(pending)
    BY DEF PassedKept
  <2> QED
    BY <1>2, <1>5, <2>1, <2>2 DEF HoldsLine
<1>7. ASSUME NEW i \in Nat, i <= arriving.taken PROVE Piece(i)' = Piece(i)
  BY <1>5, <1>7, SamePiece DEF Piece
<1>8. "message" \in callbacks' =>
        /\ Len(passed') + Len(pending') = arriving'.taken
        /\ \A i \in 1..Len(passed') : passed'[i] = Piece(i)'
  <2> SUFFICES ASSUME "message" \in callbacks
               PROVE  /\ Len(passed) + Len(pending) = arriving'.taken
                      /\ \A i \in 1..Len(passed) : passed[i] = Piece(i)'
    BY <1>2
  <2>1. /\ Len(passed) + Len(pending) = arriving.taken
        /\ \A i \in 1..Len(passed) : passed[i] = Piece(i)
    BY DEF PassedKept
  <2>2. \A i \in 1..Len(passed) : i \in Nat /\ i <= arriving.taken
    BY <1>3, <2>1
  <2> QED
    BY <1>4, <1>7, <2>1, <2>2
<1>9. arriving'.taken <= arriving'.sent
  BY <1>3, <1>4
<1> QED
  BY <1>2, <1>3, <1>4, <1>6, <1>8, <1>9 DEF PassedKept

\* All other steps of the worker lead from places but "post" to such places.
LEMMA PassedRest ==
    ASSUME PassedKept, UNCHANGED <<passed, pending, arriving>>,
           callbacks' \subseteq callbacks, worker' = "post" <=> worker = "post"
    PROVE  PassedKept'
BY DEF PassedKept, HoldsLine, Piece

LEMMA RestNotReceiving ==
    ASSUME Control, [Next]_vars,
           ~Receive, ~PassLine, ~ConnectAddress, ~ServerSends
    PROVE  /\ UNCHANGED <<passed, pending, arriving>>
           /\ callbacks' \subseteq callbacks
           /\ worker' = "post" <=> worker = "post"
<1> USE DEF uiVars, sendVars, workerVars, netVars, Go
<1>1. CASE OnBnClickedConnect \/ OnDestroy \/ UI
  <2>1. CASE Join \/ StartWorker
    BY <2>1 DEF Join, StartWorker, Control, PlacesKept
  <2>2. CASE ~(Join \/ StartWorker)
    BY <1>1, <2>2 DEF OnBnClickedConnect, OnDestroy, UI, ClearCallback,
                      LookAtSocket, ShutSocket, OnSignalingState
  <2> QED
    BY <2>1, <2>2
<1>2. CASE Connecting /\ ~(worker \in {"login", "ping"} /\ Send("worker"))
  BY <1>2 DEF Connecting, Reports, Resolve, AddressFails, TryAddress, NoAddress,
              StoreSocket, SetConnected
<1>3. ASSUME NEW t \in Threads, Send(t) \/ Sending(t),
             t = "worker" => worker \in {"login", "ping"}
      PROVE  /\ UNCHANGED <<passed, pending, arriving, callbacks>>
             /\ worker' = "post" <=> worker = "post"
  BY <1>3 DEF Send, Sending, SendPart, SendFails, SendReturns
<1>4. CASE Serving \/ Ending
  BY <1>4 DEF Serving, Ending, Loop, ReceiveTimesOut, ReceiveEnds,
              ResetConnected, ClearSocket, CloseSocket, End, Reports
<1>5. CASE ServerEnds \/ UNCHANGED vars
  BY <1>5 DEF ServerEnds, vars
<1>6. \A t \in Threads : Sending(t) => (t = "worker" => worker \in {"login", "ping"})
  BY DEF Sending, SendPart, SendFails, Control, SocketKept
<1> QED
  BY <1>1, <1>2, <1>3, <1>4, <1>5, <1>6 DEF Next, Worker, SendBegins, Threads

LEMMA PassedStep == Control /\ PassedKept /\ [Next]_vars => PassedKept'
BY PassedReceive, PassedPass, PassedConnect, PassedSends, PassedRest,
   RestNotReceiving

\* Every line of a connection is passed on whole, once and in order (Run's inner
\* loop), however the network cuts the bytes up; what is kept back is less than
\* a line.
THEOREM EveryLinePassedTheorem == Spec => []EveryLinePassed
<1>1. ASSUME PassedKept, "message" \in callbacks
      PROVE  /\ \A i \in DOMAIN passed :
                   passed[i] = [piece |-> i, last |-> i \in arriving.ends]
             /\ pending = [i \in 1..(arriving.taken - Len(passed)) |-> Len(passed) + i]
             /\ worker # "post" => ~HoldsLine(pending)
  <2> DEFINE rest == [i \in 1..Len(pending) |-> Len(passed) + i]
  <2>1. /\ passed \in Seq(Passed) /\ pending \in Seq(Nat) /\ arriving.taken \in Nat
        /\ Len(passed) + Len(pending) = arriving.taken
        /\ \A i \in 1..Len(passed) : passed[i] = Piece(i)
        /\ \A i \in 1..Len(pending) : pending[i] = arriving.taken - Len(pending) + i
        /\ Len(passed) \in Nat /\ Len(pending) \in Nat
        /\ worker # "post" => ~HoldsLine(pending)
    BY <1>1 DEF PassedKept
  <2>2. rest \in Seq(Nat) /\ Len(rest) = Len(pending)
    BY <2>1, Numbered
  <2>3. \A i \in 1..Len(pending) : pending[i] = rest[i]
    BY <2>1
  <2>4. pending = rest
    BY <2>1, <2>2, <2>3, SeqEqual
  <2>5. arriving.taken - Len(passed) = Len(pending)
    BY <2>1
  <2>6. \A i \in DOMAIN passed : passed[i] = Piece(i)
    BY <2>1
  <2> QED
    BY <2>1, <2>4, <2>5, <2>6, Zenon DEF Piece
<1>2. PassedKept => EveryLinePassed
  BY <1>1 DEF EveryLinePassed
<1> QED
  BY <1>2, PassedInit, PassedStep, ClientControl, PTL DEF Spec

-----------------------------------------------------------------------------
(* News.                                                                   *)

Talking == {"loop", "recv", "ping", "post"}

LEMMA NewsInit == Init => NewsKept
<1>1. <<>> \in Seq(News)
  OBVIOUS
<1> QED
  BY <1>1 DEF Init, NewsKept

\* News that the dialog takes is not the last news, or is what it shows now.
LEMMA TakingNews ==
    ASSUME NewsKept, posted # <<>>, shown' = Head(posted), posted' = Tail(posted)
    PROVE  posted' \in Seq(News) /\ LastNews' = LastNews
<1>1. /\ posted \in Seq(News) /\ Len(posted) \in Nat \ {0}
      /\ Tail(posted) \in Seq(News) /\ Len(Tail(posted)) = Len(posted) - 1
      /\ \A i \in 1..Len(Tail(posted)) : Tail(posted)[i] = posted[i + 1]
      /\ Head(posted) = posted[1]
  BY HeadTailProperties, EmptySeq DEF NewsKept
<1>2. CASE Tail(posted) = <<>>
  <2>0. Len(Tail(posted)) = 0
    BY <1>2, EmptySeq
  <2>1. Len(posted) = 1
    BY <1>1, <2>0
  <2> QED
    BY <1>1, <1>2, <2>1 DEF LastNews
<1>3. CASE Tail(posted) # <<>>
  <2>1. Len(Tail(posted)) \in 1..Len(Tail(posted))
    BY <1>1, <1>3, EmptySeq
  <2>2. Tail(posted)[Len(Tail(posted))] = posted[Len(posted)]
    BY <1>1, <2>1
  <2> QED
    BY <1>1, <1>3, <2>2 DEF LastNews
<1> QED
  BY <1>2, <1>3

LEMMA PostingNews ==
    ASSUME NewsKept, NEW news \in News, ReportState(news), UNCHANGED leaving
    PROVE  posted' \in Seq(News) /\ (~leaving => LastNews' = news)
<1>1. CASE leaving
  BY <1>1 DEF ReportState, NewsKept
<1>2. CASE ~leaving
  <2>1. posted' = Append(posted, news) /\ posted \in Seq(News)
    BY <1>2 DEF ReportState, NewsKept
  <2>2. /\ posted' \in Seq(News) /\ Len(posted') = Len(posted) + 1
        /\ posted'[Len(posted) + 1] = news /\ Len(posted) \in Nat
    BY <2>1, AppendProperties
  <2>3. posted' # <<>> /\ posted'[Len(posted')] = news
    BY <2>2, EmptySeq
  <2> QED
    BY <2>2, <2>3 DEF LastNews
<1> QED
  BY <1>1, <1>2

LEMMA NewsReported ==
    ASSUME NewsKept,
           \/ Reports("start", "Connecting", "resolve")
           \/ Reports("welcome", "Connected", "loop")
           \/ Reports("refused", "Failed", "loop")
           \/ Reports("failed", "Failed", "ended")
           \/ Reports("bye", "Disconnected", "ended")
    PROVE  NewsKept'
<1> USE PostingNews DEF News, Reports, Go, uiVars, NewsKept
<1>1. CASE Reports("start", "Connecting", "resolve")
  BY <1>1
<1>2. CASE Reports("welcome", "Connected", "loop")
  BY <1>2
<1>3. CASE Reports("refused", "Failed", "loop")
  BY <1>3
<1>4. CASE Reports("failed", "Failed", "ended")
  BY <1>4
<1>5. CASE Reports("bye", "Disconnected", "ended")
  BY <1>5
<1> QED
  BY <1>1, <1>2, <1>3, <1>4, <1>5

LEMMA NewsTaken ==
    ASSUME NewsKept, OnSignalingState
    PROVE  NewsKept'
BY TakingNews DEF OnSignalingState, NewsKept, workerVars

LEMMA NewsClicked ==
    ASSUME Control, NewsKept, OnBnClickedConnect \/ OnDestroy
    PROVE  NewsKept'
<1>1. <<>> \in Seq(News)
  OBVIOUS
<1>2. CASE OnBnClickedConnect
  BY <1>2 DEF OnBnClickedConnect, Control, SocketKept, Flagged, NewsKept, workerVars
<1>3. CASE OnDestroy
  BY <1>1, <1>3 DEF OnDestroy, NewsKept
<1> QED
  BY <1>2, <1>3

\* All else posts and shows nothing, and brings the worker to its loop from its
\* loop only, and to its end only when a stop is requested.
LEMMA NewsRest ==
    ASSUME NewsKept, UNCHANGED <<posted, shown, leaving>>,
           worker' \in Talking => worker \in Talking,
           worker' = "ended" => stop' \/ (worker = "ended" /\ ~stop)
    PROVE  NewsKept'
BY DEF NewsKept, LastNews, Talking

LEMMA RestIsQuiet ==
    ASSUME Control, [Next]_vars,
           ~OnSignalingState, ~OnBnClickedConnect, ~OnDestroy,
           ~Reports("start", "Connecting", "resolve"),
           ~Reports("welcome", "Connected", "loop"),
           ~Reports("refused", "Failed", "loop"),
           ~Reports("failed", "Failed", "ended"),
           ~Reports("bye", "Disconnected", "ended")
    PROVE  /\ UNCHANGED <<posted, shown, leaving>>
           /\ worker' \in Talking => worker \in Talking
           /\ worker' = "ended" => stop' \/ (worker = "ended" /\ ~stop)
<1> USE DEF uiVars, sendVars, workerVars, netVars, Go, Talking
<1>1. CASE UI
  <2>1. CASE Join \/ StartWorker
    BY <2>1 DEF Join, StartWorker
  <2>2. CASE ClearCallback
    BY <2>2 DEF ClearCallback, Control, PlacesKept
  <2>3. CASE LookAtSocket \/ ShutSocket
    BY <2>3 DEF LookAtSocket, ShutSocket
  <2> QED
    BY <1>1, <2>1, <2>2, <2>3 DEF UI
<1>2. CASE Connecting /\ ~(worker \in {"login", "ping"} /\ Send("worker"))
  BY <1>2 DEF Connecting, Resolve, ConnectAddress, AddressFails, TryAddress,
              NoAddress, StoreSocket, SetConnected
<1>3. ASSUME NEW t \in Threads, Send(t) \/ Sending(t),
             t = "worker" => worker \in {"login", "ping"}
      PROVE  /\ UNCHANGED <<posted, shown, leaving, stop>>
             /\ worker' \in Talking => worker \in Talking
             /\ worker' = "ended" => worker = "ended"
  BY <1>3 DEF Send, Sending, SendPart, SendFails, SendReturns
<1>4. CASE Serving \/ Ending
  BY <1>4 DEF Serving, Ending, Loop, Receive, Received, ReceiveTimesOut, ReceiveEnds,
              PassLine, ResetConnected, ClearSocket, CloseSocket, End
<1>5. CASE ServerSends \/ ServerEnds \/ UNCHANGED vars
  BY <1>5 DEF ServerSends, ServerEnds, vars
<1>6. \A t \in Threads : Sending(t) => (t = "worker" => worker \in {"login", "ping"})
  BY DEF Sending, SendPart, SendFails, Control, SocketKept
<1> QED
  BY <1>1, <1>2, <1>3, <1>4, <1>5, <1>6 DEF Next, Worker, SendBegins, Threads

LEMMA NewsStep == Control /\ NewsKept /\ [Next]_vars => NewsKept'
BY NewsReported, NewsTaken, NewsClicked, NewsRest, RestIsQuiet

\* When the dialog has taken all news it shows the state there is, though old
\* connections end and new ones begin meanwhile (OnSignalingState).
THEOREM ShownIsTrueTheorem == Spec => []ShownIsTrue
<1>1. Control /\ NewsKept => ShownIsTrue
  BY DEF Control, PlacesKept, NewsKept, LastNews, ShownIsTrue
<1> QED
  BY <1>1, NewsInit, NewsStep, ClientControl, PTL DEF Spec

-----------------------------------------------------------------------------
(* Types.  The counters stay within the bounds of the instance: each       *)
(* connect has its addresses and its login still to come, which are        *)
(* counted before they happen.                                             *)

\* The ui thread is on its way to start a worker.
Clicked == ~leaving /\ ui \in {"look", "shut", "join", "spawn"}
FromClick(n) == IF Clicked THEN n ELSE 0

Addresses == CASE worker \in {"start", "resolve"} -> MaxTries
               [] worker = "connect" -> tries
               [] OTHER -> 0

Logins == IF \/ worker \in {"start", "resolve", "connect", "store", "flag"}
             \/ worker = "login" /\ mutex # "worker"
          THEN 1 ELSE 0

Budget == connects * MaxTries

CountsKept ==
    /\ connects \in 0..MaxConnects /\ tries \in 0..MaxTries
    /\ ui = "silence" => leaving
    /\ made + Addresses + FromClick(MaxTries) <= Budget
    /\ (IF worker = "none" THEN 0 ELSE 1) + FromClick(1) <= connects

LinesCounted ==
    /\ lines \in [Threads -> Nat] /\ lines["ui"] + lines["rtc"] <= MaxLines
    /\ lines["worker"] + Logins + FromClick(1) <= MaxLines + connects
    /\ worker = "ping" /\ mutex # "worker" => lines["worker"] <= MaxLines
    /\ mutex # "free" => lines[mutex] >= 1

LEMMA BudgetGrows ==
    ASSUME connects \in Nat
    PROVE  /\ Budget \in Nat
           /\ connects' = connects => Budget' = Budget
           /\ connects' = connects + 1 => Budget' = Budget + MaxTries
           /\ connects <= MaxConnects => Budget <= MaxSockets
<1>1. MaxTries \in Nat /\ MaxConnects \in Nat
  BY ClientAssumption
<1>2. \A a, b \in Nat : a <= b => a * MaxTries <= b * MaxTries
  BY <1>1
<1>3. (connects + 1) * MaxTries = connects * MaxTries + MaxTries
  BY <1>1
<1>4. connects * MaxTries \in Nat
  BY <1>1
<1> QED
  BY <1>1, <1>2, <1>3, <1>4 DEF Budget, MaxSockets

LEMMA CountsStep ==
    ASSUME Control, CountsKept, [Next]_vars
    PROVE  CountsKept'
<1> USE DEF CountsKept, Addresses, FromClick, Clicked, Control, PlacesKept, SocketKept,
            uiVars, sendVars, workerVars, netVars, Go
<1>0. /\ MaxTries \in Nat /\ MaxTries >= 1 /\ MaxConnects \in Nat /\ made \in Nat
      /\ connects \in Nat /\ Budget \in Nat
      /\ connects' = connects => Budget' = Budget
      /\ connects' = connects + 1 => Budget' = Budget + MaxTries
  BY ClientAssumption, BudgetGrows
<1>1. CASE OnBnClickedConnect
  <2>1. /\ connects' = connects + 1 /\ connects < MaxConnects
        /\ worker' = worker /\ tries' = tries /\ made' = made /\ ui' = "look"
    BY <1>1 DEF OnBnClickedConnect
  <2>2. connects' \in 0..MaxConnects /\ Budget' = Budget + MaxTries
    BY <1>0, <2>1
  <2>3. Addresses' = Addresses /\ Addresses \in Nat
    BY <1>0, <2>1
  <2>4. made + Addresses <= Budget
    BY <1>0, <1>1 DEF OnBnClickedConnect
  <2>5. (IF worker = "none" THEN 0 ELSE 1) <= connects
    BY <1>0, <1>1 DEF OnBnClickedConnect
  <2>6. /\ FromClick(MaxTries)' = 0 \/ FromClick(MaxTries)' = MaxTries
        /\ FromClick(1)' = 0 \/ FromClick(1)' = 1
    OBVIOUS
  <2> HIDE DEF Addresses, FromClick, Clicked
  <2> QED
    BY <1>0, <2>1, <2>2, <2>3, <2>4, <2>5, <2>6
<1>2. CASE OnDestroy \/ ClearCallback
  BY <1>0, <1>2 DEF OnDestroy, ClearCallback
<1>3. CASE LookAtSocket \/ ShutSocket \/ OnSignalingState
  BY <1>0, <1>3 DEF LookAtSocket, ShutSocket, OnSignalingState
<1>4. CASE Join
  BY <1>0, <1>4 DEF Join
<1>5. CASE StartWorker
  BY <1>0, <1>5 DEF StartWorker
<1>6. CASE Resolve
  BY <1>0, <1>6 DEF Resolve
<1>7. CASE ConnectAddress
  BY <1>0, <1>7 DEF ConnectAddress, TryAddress
<1>8. CASE AddressFails
  BY <1>0, <1>8 DEF AddressFails, TryAddress
<1>9. CASE NoAddress \/ StoreSocket \/ SetConnected
  BY <1>0, <1>9 DEF NoAddress, StoreSocket, SetConnected
<1>10. CASE \/ Reports("start", "Connecting", "resolve") \/ Reports("welcome", "Connected", "loop")
            \/ Reports("refused", "Failed", "loop") \/ Reports("failed", "Failed", "ended")
            \/ Reports("bye", "Disconnected", "ended")
  BY <1>0, <1>10 DEF Reports
<1>11. ASSUME NEW t \in Threads, Send(t) \/ Sending(t),
              t = "worker" => worker \in {"login", "ping"}
       PROVE  CountsKept'
  <2>1. /\ UNCHANGED <<connects, made, tries, ui, leaving>>
        /\ \/ worker' = worker
           \/ worker \in {"login", "ping"} /\ worker' \in {"welcome", "refused", "loop", "unflag"}
    BY <1>11 DEF Send, Sending, SendPart, SendFails, SendReturns
  <2> QED
    BY <1>0, <2>1
<1>12. CASE Serving
  BY <1>0, <1>12 DEF Serving, Loop, Receive, Received, ReceiveTimesOut, ReceiveEnds, PassLine
<1>13. CASE ResetConnected \/ ClearSocket \/ CloseSocket \/ End
  BY <1>0, <1>13 DEF ResetConnected, ClearSocket, CloseSocket, End
<1>14. CASE ServerSends \/ ServerEnds \/ UNCHANGED vars
  BY <1>0, <1>14 DEF ServerSends, ServerEnds, vars
<1>15. \A t \in Threads : Sending(t) => (t = "worker" => worker \in {"login", "ping"})
  BY DEF Sending, SendPart, SendFails
<1> HIDE DEF CountsKept, Control
<1> QED
  BY <1>1, <1>2, <1>3, <1>4, <1>5, <1>6, <1>7, <1>8, <1>9, <1>10, <1>11, <1>12, <1>13, <1>14, <1>15
     DEF Next, UI, Worker, Connecting, Ending, SendBegins, Threads

LEMMA LinesStep ==
    ASSUME Control, CountsKept, LinesCounted, [Next]_vars
    PROVE  LinesCounted'
<1> USE DEF LinesCounted, Logins, FromClick, Clicked, Control, PlacesKept, SocketKept,
            uiVars, sendVars, workerVars, netVars, Go
<1>0. /\ MaxLines \in Nat /\ connects \in Nat /\ lines["worker"] \in Nat
      /\ lines["ui"] \in Nat /\ lines["rtc"] \in Nat
  BY ClientAssumption DEF CountsKept, Threads
<1>1. CASE OnBnClickedConnect
  <2>1. /\ connects' = connects + 1 /\ UNCHANGED <<worker, lines, mutex>>
        /\ FromClick(1) = 0
    BY <1>1 DEF OnBnClickedConnect
  <2>2. FromClick(1)' = 0 \/ FromClick(1)' = 1
    OBVIOUS
  <2>3. Logins' = Logins /\ Logins \in Nat
    BY <2>1
  <2> HIDE DEF FromClick, Clicked, Logins
  <2> QED
    BY <1>0, <2>1, <2>2, <2>3
<1>2. CASE OnDestroy \/ ClearCallback
  BY <1>0, <1>2 DEF OnDestroy, ClearCallback, CountsKept
<1>3. CASE LookAtSocket \/ ShutSocket \/ OnSignalingState
  BY <1>0, <1>3, SMTT(60) DEF LookAtSocket, ShutSocket, OnSignalingState
<1>4. CASE Join
  BY <1>0, <1>4 DEF Join
<1>5. CASE StartWorker
  BY <1>0, <1>5 DEF StartWorker
<1>6. CASE Resolve \/ AddressFails \/ NoAddress
  BY <1>0, <1>6 DEF Resolve, AddressFails, TryAddress, NoAddress
<1>7. CASE ConnectAddress \/ StoreSocket \/ SetConnected
  BY <1>0, <1>7, SMTT(60) DEF ConnectAddress, TryAddress, StoreSocket, SetConnected
<1>8. CASE \/ Reports("start", "Connecting", "resolve") \/ Reports("welcome", "Connected", "loop")
           \/ Reports("refused", "Failed", "loop") \/ Reports("failed", "Failed", "ended")
           \/ Reports("bye", "Disconnected", "ended")
  BY <1>0, <1>8 DEF Reports
<1>9. ASSUME NEW t \in Threads, Send(t), t = "worker" => worker \in {"login", "ping"}
      PROVE  LinesCounted'
  <2>1. CASE ~(connected /\ socket # 0)
    <3>1. /\ UNCHANGED <<lines, connects, ui, leaving>> /\ mutex' = "free"
          /\ \/ worker' = worker /\ mutex = "free"
             \/ worker \in {"login", "ping"} /\ worker' \in {"welcome", "refused", "loop", "unflag"}
      BY <1>9, <2>1 DEF Send, SendReturns
    <3> QED
      BY <1>0, <3>1
  <2>2. CASE connected /\ socket # 0
    <3>1. /\ t # "worker" => lines["ui"] + lines["rtc"] < MaxLines
          /\ lines' = [lines EXCEPT ![t] = @ + 1] /\ mutex' = t /\ mutex = "free"
          /\ UNCHANGED <<worker, connects, ui, leaving>>
      BY <1>9, <2>2 DEF Send
    <3>2. lines' \in [Threads -> Nat] /\ lines'[t] = lines[t] + 1 /\ lines[t] \in Nat
      BY <3>1
    <3>3. CASE t = "worker"
      <4>1. /\ lines'["ui"] = lines["ui"] /\ lines'["rtc"] = lines["rtc"]
            /\ lines'["worker"] = lines["worker"] + 1
        BY <3>1, <3>2, <3>3 DEF Threads
      <4>2. worker \in {"login", "ping"} /\ (1 + FromClick(1) <= connects)
        BY <1>9, <3>3 DEF CountsKept
      <4> QED
        BY <1>0, <3>1, <3>2, <3>3, <4>1, <4>2
    <3>4. CASE t # "worker"
      <4>1. /\ lines'["ui"] + lines'["rtc"] = lines["ui"] + lines["rtc"] + 1
            /\ lines'["worker"] = lines["worker"]
        BY <1>0, <3>1, <3>2, <3>4 DEF Threads
      <4> QED
        BY <1>0, <3>1, <3>2, <3>4, <4>1
    <3> QED
      BY <3>3, <3>4
  <2> QED
    BY <2>1, <2>2
<1>10. ASSUME NEW t \in Threads, Sending(t) PROVE LinesCounted'
  <2>1. /\ mutex = t /\ UNCHANGED <<lines, connects, ui, leaving>>
        /\ \/ worker' = worker /\ mutex' = mutex
           \/ worker' = worker /\ mutex # "worker" /\ mutex' = "free"
           \/ /\ worker \in {"login", "ping"} /\ mutex' = "free"
              /\ worker' \in {"welcome", "refused", "loop", "unflag"}
    BY <1>10 DEF Sending, SendPart, SendFails, SendReturns
  <2>2. FromClick(1)' = FromClick(1) /\ FromClick(1) \in Nat
    BY <2>1
  <2>3. Logins' \in Nat /\ Logins \in Nat /\ Logins' <= Logins
    BY <2>1
  <2>4. worker' = "ping" /\ mutex' # "worker" => worker = "ping" /\ mutex # "worker"
    BY <2>1
  <2>5. mutex' # "free" => mutex' = mutex
    BY <2>1
  <2> HIDE DEF FromClick, Clicked, Logins
  <2> QED
    BY <1>0, <2>1, <2>2, <2>3, <2>4, <2>5
<1>11. CASE Serving
  <2>1. /\ UNCHANGED <<lines, connects, mutex, ui, leaving>>
        /\ worker \in {"loop", "recv", "post"}
    BY <1>11 DEF Serving, Loop, Receive, Received, ReceiveTimesOut, ReceiveEnds, PassLine
  <2>2. /\ worker' \in {"unflag", "recv", "loop", "post", "ping"}
        /\ worker' = "ping" => lines["worker"] <= MaxLines
    BY <1>11 DEF Serving, Loop, Receive, Received, ReceiveTimesOut, ReceiveEnds, PassLine
  <2> QED
    BY <1>0, <2>1, <2>2
<1>12. CASE ResetConnected \/ ClearSocket \/ CloseSocket \/ End
  BY <1>0, <1>12 DEF ResetConnected, ClearSocket, CloseSocket, End
<1>13. CASE ServerSends \/ ServerEnds \/ UNCHANGED vars
  BY <1>0, <1>13 DEF ServerSends, ServerEnds, vars
<1> HIDE DEF LinesCounted, Control
<1> QED
  BY <1>1, <1>2, <1>3, <1>4, <1>5, <1>6, <1>7, <1>8, <1>9, <1>10, <1>11, <1>12, <1>13
     DEF Next, UI, Worker, Connecting, Ending, SendBegins, Threads

-----------------------------------------------------------------------------
FlagsKept ==
    /\ leaving \in BOOLEAN /\ callbacks \subseteq {"state", "message"}
    /\ {stop, connected} \subseteq BOOLEAN
    /\ shown \in News \cup {"Clicked"} /\ posted \in Seq(News)

LEMMA FlagsStep ==
    ASSUME FlagsKept, [Next]_vars
    PROVE  FlagsKept'
<1> USE DEF FlagsKept, uiVars, sendVars, workerVars, netVars
<1>1. CASE OnBnClickedConnect \/ OnDestroy
  <2>1. posted' \in Seq(News)
    <3>1. <<>> \in Seq(News)
      OBVIOUS
    <3> QED
      BY <1>1, <3>1 DEF OnBnClickedConnect, OnDestroy
  <2>2. shown' \in News \cup {"Clicked"} /\ callbacks' = callbacks
    BY <1>1 DEF OnBnClickedConnect, OnDestroy
  <2>3. {stop', connected'} \subseteq BOOLEAN /\ leaving' \in BOOLEAN
    BY <1>1 DEF OnBnClickedConnect, OnDestroy
  <2> QED
    BY <2>1, <2>2, <2>3
<1>2. CASE ClearCallback
  BY <1>2 DEF ClearCallback
<1>3. CASE LookAtSocket \/ ShutSocket \/ Join \/ StartWorker
  BY <1>3 DEF LookAtSocket, ShutSocket, Join, StartWorker
<1>4. CASE OnSignalingState
  <2>1. Head(posted) \in News /\ Tail(posted) \in Seq(News)
    BY <1>4, HeadTailProperties DEF OnSignalingState
  <2> QED
    BY <1>4, <2>1 DEF OnSignalingState
<1>5. ASSUME NEW place, NEW news \in News, NEW next, Reports(place, news, next)
      PROVE  FlagsKept'
  <2>1. Append(posted, news) \in Seq(News)
    BY AppendProperties
  <2> QED
    BY <1>5, <2>1 DEF Reports, ReportState
<1>6. CASE \/ Reports("start", "Connecting", "resolve") \/ Reports("welcome", "Connected", "loop")
           \/ Reports("refused", "Failed", "loop") \/ Reports("failed", "Failed", "ended")
           \/ Reports("bye", "Disconnected", "ended")
  <2>1. {"Connecting", "Connected", "Failed", "Disconnected"} \subseteq News
    BY DEF News
  <2> QED
    BY <1>5, <1>6, <2>1
<1>7. CASE \/ Resolve \/ ConnectAddress \/ AddressFails \/ NoAddress
           \/ StoreSocket \/ SetConnected
  BY <1>7 DEF Resolve, ConnectAddress, AddressFails, TryAddress, NoAddress, StoreSocket, SetConnected
<1>8. ASSUME NEW t \in Threads, Send(t) \/ Sending(t) PROVE FlagsKept'
  BY <1>8 DEF Send, Sending, SendPart, SendFails
<1>9. CASE Serving
  BY <1>9 DEF Serving, Loop, Receive, Received, ReceiveTimesOut, ReceiveEnds, PassLine
<1>10. CASE ResetConnected \/ ClearSocket \/ CloseSocket \/ End
  BY <1>10 DEF ResetConnected, ClearSocket, CloseSocket, End
<1>11. CASE ServerSends \/ ServerEnds \/ UNCHANGED vars
  BY <1>11 DEF ServerSends, ServerEnds, vars
<1> QED
  BY <1>1, <1>2, <1>3, <1>4, <1>6, <1>7, <1>8, <1>9, <1>10, <1>11
     DEF Next, UI, Worker, Connecting, Ending, SendBegins, Threads

\* What arrives, and what has been sent.
Arrived == 1..MaxArrived

Handed == [piece : Arrived, last : BOOLEAN]

StreamsTyped ==
    /\ arriving \in [sent : 0..MaxArrived, taken : 0..MaxArrived, ends : SUBSET Arrived]
    /\ pending \in Seq(Arrived) /\ passed \in Seq(Handed)
    /\ wire \in Seq(Part)

LEMMA StreamsStep ==
    ASSUME Control, CountsKept, LinesCounted, LineKept, PassedKept, StreamsTyped, [Next]_vars
    PROVE  StreamsTyped'
<1> USE DEF StreamsTyped, sendVars, workerVars, netVars
<1>0. MaxArrived \in Nat /\ arriving.sent \in 0..MaxArrived /\ arriving.taken \in 0..MaxArrived
  BY ClientAssumption
<1>1. CASE Receive
  <2>1. PICK n \in (arriving.taken + 1)..arriving.sent :
           /\ arriving' = [arriving EXCEPT !.taken = n]
           /\ pending' = pending \o Taken(n)
           /\ passed' = passed /\ wire' = wire
    BY <1>1 DEF Receive, Received
  <2>2. n \in 0..MaxArrived /\ n - arriving.taken \in Nat
    BY <1>0
  <2>3. \A i \in 1..(n - arriving.taken) : arriving.taken + i \in Arrived
    BY <1>0, <2>2 DEF Arrived
  <2>4. Taken(n) \in Seq(Arrived)
    <3> DEFINE k == n - arriving.taken
               line(i) == arriving.taken + i
    <3>1. k \in Nat /\ \A i \in 1..k : line(i) \in Arrived
      BY <2>2, <2>3
    <3> HIDE DEF k, line
    <3>2. [i \in 1..k |-> line(i)] \in Seq(Arrived)
      BY <3>1, IsASeq
    <3> USE DEF k, line
    <3> QED
      BY <2>1, <3>2 DEF Taken
  <2>5. pending \o Taken(n) \in Seq(Arrived)
    BY <2>4, ConcatProperties
  <2> QED
    BY <2>1, <2>2, <2>5
<1>2. CASE PassLine
  <2> DEFINE message(k) == [i \in 1..k |-> [piece |-> pending[i], last |-> i = k]]
  <2>1. PICK n \in DOMAIN pending :
          /\ passed' = passed \/ passed' = passed \o message(n)
          /\ pending' = SubSeq(pending, n + 1, Len(pending))
          /\ UNCHANGED <<arriving, wire>>
    BY <1>2 DEF PassLine
  <2>2. n \in 1..Len(pending) /\ n \in Nat /\ Len(pending) \in Nat
    OBVIOUS
  <2>3. pending' \in Seq(Arrived)
    BY <2>1, <2>2
  <2>4. message(n) \in Seq(Handed)
    <3> DEFINE handed(i) == [piece |-> pending[i], last |-> i = n]
    <3>1. \A i \in 1..n : handed(i) \in Handed
      BY <2>2 DEF Handed
    <3> HIDE DEF handed
    <3>2. [i \in 1..n |-> handed(i)] \in Seq(Handed)
      BY <2>2, <3>1, IsASeq
    <3> USE DEF handed
    <3> QED
      BY <3>2
  <2> HIDE DEF message
  <2>5. passed' \in Seq(Handed)
    BY <2>1, <2>4, ConcatProperties
  <2> QED
    BY <2>1, <2>3, <2>5
<1>3. CASE ConnectAddress
  <2>1. <<>> \in Seq(Part) /\ <<>> \in Seq(Arrived) /\ <<>> \in Seq(Handed) /\ 0 \in 0..MaxArrived
    BY <1>0
  <2>2. NothingSent \in [sent : 0..MaxArrived, taken : 0..MaxArrived, ends : SUBSET Arrived]
    BY <1>0 DEF NothingSent
  <2> QED
    BY <1>3, <2>1, <2>2 DEF ConnectAddress
<1>4. CASE ServerSends
  <2>1. arriving.sent + 1 \in 0..MaxArrived /\ arriving.sent + 1 \in Arrived
    BY <1>0, <1>4 DEF ServerSends, Arrived
  <2>2. PICK ends \in {arriving.ends, arriving.ends \cup {arriving.sent + 1}} :
          arriving' = [arriving EXCEPT !.sent = @ + 1, !.ends = ends]
    BY <1>4 DEF ServerSends
  <2>3. ends \subseteq Arrived
    BY <2>1
  <2>4. arriving' \in [sent : 0..MaxArrived, taken : 0..MaxArrived, ends : SUBSET Arrived]
    BY <2>1, <2>2, <2>3
  <2> QED
    BY <1>4, <2>4 DEF ServerSends
<1>5. ASSUME NEW t \in Threads, SendPart(t) PROVE StreamsTyped'
  <2> DEFINE e == [from |-> t, line |-> lines[t], part |-> part + 1]
  <2>1. mutex = t /\ wire' = Append(wire, e) /\ UNCHANGED <<arriving, pending, passed>>
    BY <1>5 DEF SendPart
  <2>2. lines[t] >= 1 /\ lines \in [Threads -> Nat]
    BY <2>1 DEF LinesCounted, Threads
  <2>3. lines[t] <= MaxLines + MaxConnects
    <3>1. lines["ui"] \in Nat /\ lines["rtc"] \in Nat /\ lines["worker"] \in Nat
      BY <2>2 DEF Threads
    <3>2. MaxLines \in Nat /\ MaxConnects \in Nat /\ connects \in 0..MaxConnects
      BY ClientAssumption DEF CountsKept
    <3>3. lines["worker"] <= MaxLines + connects
      BY <3>1, <3>2 DEF LinesCounted, Logins, FromClick
    <3>4. lines["ui"] <= MaxLines /\ lines["rtc"] <= MaxLines
      BY <3>1, <3>2 DEF LinesCounted
    <3> QED
      BY <3>1, <3>2, <3>3, <3>4 DEF Threads
  <2>4. part + 1 \in 1..Parts
    BY ClientAssumption DEF LineKept
  <2>5. lines[t] \in 1..(MaxLines + MaxConnects)
    BY <2>2, <2>3, ClientAssumption
  <2>6. e \in Part
    BY <2>4, <2>5 DEF Part
  <2>7. Append(wire, e) \in Seq(Part)
    BY <2>6, AppendProperties
  <2> QED
    BY <2>1, <2>7
<1>6. ASSUME NEW t \in Threads, Send(t) \/ SendFails(t) PROVE StreamsTyped'
  BY <1>6 DEF Send, SendFails
<1>7. CASE OnBnClickedConnect \/ OnDestroy \/ UI
  BY <1>7 DEF OnBnClickedConnect, OnDestroy, UI, ClearCallback, LookAtSocket, ShutSocket,
              Join, StartWorker, OnSignalingState
<1>8. CASE \/ Reports("start", "Connecting", "resolve") \/ Reports("welcome", "Connected", "loop")
           \/ Reports("refused", "Failed", "loop") \/ Reports("failed", "Failed", "ended")
           \/ Reports("bye", "Disconnected", "ended")
  BY <1>8 DEF Reports
<1>9. CASE Resolve \/ AddressFails \/ NoAddress \/ StoreSocket \/ SetConnected
  BY <1>9 DEF Resolve, AddressFails, TryAddress, NoAddress, StoreSocket, SetConnected
<1>10. CASE \/ Loop \/ ReceiveTimesOut \/ ReceiveEnds
            \/ ResetConnected \/ ClearSocket \/ CloseSocket \/ End
  BY <1>10 DEF Loop, ReceiveTimesOut, ReceiveEnds, ResetConnected, ClearSocket, CloseSocket, End
<1>11. CASE ServerEnds \/ UNCHANGED vars
  BY <1>11 DEF ServerEnds, vars
<1> HIDE DEF StreamsTyped
<1> QED
  BY <1>1, <1>2, <1>3, <1>4, <1>5, <1>6, <1>7, <1>8, <1>9, <1>10, <1>11
     DEF Next, Worker, Connecting, Serving, Ending, SendBegins, Sending, Threads

\* Every variable of the client keeps its type, and each connect has its
\* addresses, its login and its sockets, however often the user connects.
THEOREM ClientTypeCorrect == Spec => []TypeOK
<1> DEFINE Kept == CountsKept /\ LinesCounted /\ FlagsKept /\ StreamsTyped
<1>1. Init => Kept
  <2> SUFFICES ASSUME Init PROVE Kept
    OBVIOUS
  <2>1. {MaxTries, MaxConnects, MaxLines, MaxArrived} \subseteq Nat
    BY ClientAssumption
  <2>2. CountsKept
    BY <2>1, BudgetGrows DEF Init, CountsKept, Addresses, FromClick, Clicked
  <2>3. LinesCounted
    BY <2>1 DEF Init, LinesCounted, Logins, FromClick, Clicked, Threads
  <2>4. <<>> \in Seq(News) /\ <<>> \in Seq(Arrived) /\ <<>> \in Seq(Handed) /\ <<>> \in Seq(Part)
    OBVIOUS
  <2>5. FlagsKept
    BY <2>4 DEF Init, FlagsKept, News
  <2>6. StreamsTyped
    BY <2>1, <2>4 DEF Init, StreamsTyped, NothingSent
  <2> QED
    BY <2>2, <2>3, <2>5, <2>6
<1>2. Control /\ LineKept /\ PassedKept /\ Kept /\ [Next]_vars => Kept'
  BY CountsStep, LinesStep, FlagsStep, StreamsStep
<1>3. Control /\ LineKept /\ Kept => TypeOK
  <2> SUFFICES ASSUME Control, LineKept, Kept PROVE TypeOK
    OBVIOUS
  <2>1. made \in 0..MaxSockets
    <3>1. connects \in Nat /\ connects <= MaxConnects /\ tries \in Nat
          /\ MaxTries \in Nat /\ MaxConnects \in Nat /\ made \in Nat
      BY ClientAssumption DEF CountsKept, Control, SocketKept
    <3>2. Budget \in Nat /\ Budget <= MaxSockets
      BY <3>1, BudgetGrows
    <3>3. made <= Budget
      BY <3>1, <3>2 DEF CountsKept, Addresses, FromClick
    <3>4. MaxSockets \in Nat
      BY <3>1 DEF MaxSockets
    <3> QED
      BY <3>1, <3>2, <3>3, <3>4
  <2>2. /\ seen \in 0..MaxSockets /\ own \in 0..MaxSockets /\ socket \in 0..MaxSockets
        /\ (socket # 0 => socket = own) /\ open \subseteq 1..made /\ dead \subseteq 1..made
    <3>1. MaxSockets \in Nat
      BY ClientAssumption DEF MaxSockets
    <3> QED
      BY <2>1, <3>1 DEF Control, SocketKept
  <2>3. lines \in [Threads -> 0..(MaxLines + MaxConnects)]
    <3>1. lines["ui"] \in Nat /\ lines["rtc"] \in Nat /\ lines["worker"] \in Nat
      BY DEF LinesCounted, Threads
    <3>2. MaxLines \in Nat /\ MaxConnects \in Nat /\ connects \in 0..MaxConnects
      BY ClientAssumption DEF CountsKept
    <3>3. lines["worker"] <= MaxLines + connects
      BY <3>1, <3>2 DEF LinesCounted, Logins, FromClick
    <3>4. lines["ui"] <= MaxLines /\ lines["rtc"] <= MaxLines
      BY <3>1, <3>2 DEF LinesCounted
    <3>5. \A t \in Threads : lines[t] \in 0..(MaxLines + MaxConnects)
      BY <3>1, <3>2, <3>3, <3>4 DEF Threads
    <3> QED
      BY <3>5 DEF LinesCounted
  <2>4. /\ ui \in {"idle", "silence", "look", "shut", "join", "spawn", "gone"}
        /\ mutex \in Threads \cup {"free"}
        /\ worker \in {"none", "start", "resolve", "connect", "store", "flag",
                       "login", "welcome", "refused", "loop", "recv", "ping",
                       "post", "unflag", "clear", "close", "farewell", "bye",
                       "failed", "ended"}
        /\ (mutex = "worker" => worker \in {"login", "ping"})
    BY DEF Control, PlacesKept, SocketKept, Opened, Closed, Stored, Flagged
  <2>5. part \in 0..(Parts - 1)
    BY DEF LineKept
  <2> QED
    BY <2>1, <2>2, <2>3, <2>4, <2>5
       DEF TypeOK, CountsKept, FlagsKept, StreamsTyped, Arrived, Handed
<1> HIDE DEF Kept
<1> QED
  BY <1>1, <1>2, <1>3, ControlInit, ControlStep, LineInit, LineStep, PassedInit, PassedStep,
     PTL DEF Spec

=============================================================================
