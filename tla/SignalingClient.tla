-------------------------- MODULE SignalingClient --------------------------
(***************************************************************************)
(* SignalingClient: the dialog's connection to the signalling server.      *)
(* Three threads use it:                                                   *)
(*   "ui"      the dialog connects (which begins with a Disconnect), sends *)
(*             and takes the states that are posted to it; it disconnects  *)
(*             and deletes the client when its window is destroyed;        *)
(*   "worker"  Run: connects, logs in, receives, pings, reports;           *)
(*   "rtc"     WebRTC's thread, which sends descriptions and candidates    *)
(*             of the sessions, older than the connection perhaps.         *)
(* mutex_ guards socket_ and the callbacks.  Send holds it until the whole *)
(* line is sent; all else holds it for one step.  A step is one section    *)
(* under the mutex or one access to shared state outside it.               *)
(*                                                                         *)
(* The server and the sockets are external.  A socket may take a part of a *)
(* line; it delivers the server's bytes in order, cut up anywhere; an      *)
(* ended or shut down one fails every call.  Bytes are numbered pieces of  *)
(* lines: the newline is the end of a piece, and no line is empty.         *)
(* Sockets are numbered in the order in which they are made.               *)
(***************************************************************************)
EXTENDS Integers, Sequences

CONSTANTS
    Parts,        \* how many calls of send() a line may take
    MaxTries,     \* bound: addresses a name has
    MaxConnects,  \* bound: how often the user connects
    MaxLines,     \* bound: lines sent by ui and rtc, and pings
    MaxArrived    \* bound: pieces the server sends on a connection

ASSUME ClientAssumption ==
    /\ {Parts, MaxTries} \subseteq Nat \ {0}
    /\ { MaxConnects, MaxLines, MaxArrived} \subseteq Nat

Threads == {"ui", "worker", "rtc"}
News == {"Connecting", "Connected", "Disconnected", "Failed"}
MaxSockets == MaxConnects * MaxTries

VARIABLES
    ui,           \* the ui thread's place in Connect and OnDestroy
    leaving,      \* shutting_down_
    callbacks,    \* those of state_callback_ and message_callback_ that are set
    seen,         \* the socket Disconnect has looked at
    shown,        \* the state shown, "Clicked" when the user has connected
    posted,       \* states on their way to the dialog
    stop,         \* stop_requested_
    connected,    \* connected_
    socket,       \* socket_, 0 for INVALID_SOCKET
    mutex,        \* the thread that holds mutex_ in Send
    part,         \* the parts of its line that are sent
    worker,       \* the worker's place in Run
    tries,        \* the addresses that are left
    own,          \* connected_socket
    pending,      \* pieces received and not yet passed on
    passed,       \* history: what was passed on, and where each message ended
    open,         \* sockets that are not closed
    dead,         \* sockets shut down, or ended by the server
    wire,         \* history: the parts sent on this connection
    arriving,     \* pieces sent on it, which of them end a line, those received
    lines,        \* lines begun by each thread
    connects,     \* how often the user has connected
    made          \* sockets made

uiVars == <<ui, leaving, callbacks, seen, shown, connects>>
sendVars == <<mutex, part, wire, lines>>
workerVars == <<worker, tries, own, pending, passed>>
netVars == <<open, dead, arriving, made>>
vars == <<uiVars, posted, stop, connected, socket, sendVars, workerVars,
          netVars>>

Part == [from : Threads, line : 1..(MaxLines + MaxConnects), part : 1..Parts]

TypeOK ==
    /\ ui \in {"idle", "silence", "look", "shut", "join", "spawn", "gone"}
    /\ leaving \in BOOLEAN /\ callbacks \subseteq {"state", "message"}
    /\ seen \in 0..MaxSockets /\ shown \in News \cup {"Clicked"}
    /\ posted \in Seq(News)
    /\ {stop, connected} \subseteq BOOLEAN
    /\ socket \in 0..MaxSockets /\ socket # 0 => socket = own
    /\ mutex \in Threads \cup {"free"} /\ part \in 0..(Parts - 1)
    /\ worker \in {"none", "start", "resolve", "connect", "store", "flag",
                   "login", "welcome", "refused", "loop", "recv", "ping",
                   "post", "unflag", "clear", "close", "farewell", "bye",
                   "failed", "ended"}
    /\ mutex = "worker" => worker \in {"login", "ping"}
    /\ tries \in 0..MaxTries /\ own \in 0..MaxSockets
    /\ pending \in Seq(1..MaxArrived)
    /\ passed \in Seq([piece : 1..MaxArrived, last : BOOLEAN])
    /\ open \subseteq 1..made /\ dead \subseteq 1..made
    /\ wire \in Seq(Part)
    /\ arriving \in [sent : 0..MaxArrived, taken : 0..MaxArrived,
                     ends : SUBSET (1..MaxArrived)]
    /\ lines \in [Threads -> 0..(MaxLines + MaxConnects)]
    /\ connects \in 0..MaxConnects /\ made \in 0..MaxSockets

NothingSent == [sent |-> 0, taken |-> 0, ends |-> {}]

Init ==
    /\ ui = "idle" /\ leaving = FALSE /\ callbacks = {"state", "message"}
    /\ seen = 0 /\ shown = "Disconnected" /\ posted = <<>>
    /\ stop = FALSE /\ connected = FALSE /\ socket = 0
    /\ mutex = "free" /\ part = 0
    /\ worker = "none" /\ tries = 0 /\ own = 0 /\ pending = <<>>
    /\ passed = <<>> /\ open = {} /\ dead = {} /\ wire = <<>>
    /\ arriving = NothingSent
    /\ lines = [t \in Threads |-> 0] /\ connects = 0 /\ made = 0

Go(place) == worker' = place

-----------------------------------------------------------------------------
(* Send, on any thread. *)

\* How Run goes on when Send returns.
SendReturns(t, ok) ==
    /\ mutex' = "free" /\ part' = 0
    /\ worker' = CASE t # "worker" -> worker
                   [] worker = "login" -> IF ok THEN "welcome" ELSE "refused"
                   [] worker = "ping" -> IF ok THEN "loop" ELSE "unflag"

\* The thread gets the mutex, and keeps it if there is a connection.
Send(t) ==
    /\ mutex = "free"
    /\ IF connected /\ socket # 0
       THEN /\ t # "worker" => lines["ui"] + lines["rtc"] < MaxLines
            /\ lines' = [lines EXCEPT ![t] = @ + 1]
            /\ mutex' = t /\ UNCHANGED <<part, worker>>
       ELSE SendReturns(t, FALSE) /\ UNCHANGED lines
    /\ UNCHANGED <<uiVars, posted, stop, connected, socket, wire, tries, own,
                   pending, passed, netVars>>

\* Mutant: send() is called once.
SendOnce(t) ==
    /\ mutex = t /\ socket \notin dead
    /\ wire' = Append(wire, [from |-> t, line |-> lines[t], part |-> 1])
    /\ SendReturns(t, TRUE)
    /\ UNCHANGED <<uiVars, posted, stop, connected, socket, lines, tries, own,
                   pending, passed, netVars>>

\* The socket takes another part of the line.
SendPart(t) ==
    /\ mutex = t /\ socket \notin dead
    /\ wire' = Append(wire, [from |-> t, line |-> lines[t],
                             part |-> part + 1])
    /\ IF part + 1 = Parts THEN SendReturns(t, TRUE)
                           ELSE part' = part + 1 /\ UNCHANGED <<mutex, worker>>
    /\ UNCHANGED <<uiVars, posted, stop, connected, socket, lines, tries, own,
                   pending, passed, netVars>>

SendFails(t) ==
    /\ mutex = t /\ socket \in dead
    /\ SendReturns(t, FALSE)
    /\ UNCHANGED <<uiVars, posted, stop, connected, socket, wire, lines, tries,
                   own, pending, passed, netVars>>

Sending(t) == SendPart(t) \/ SendFails(t)

-----------------------------------------------------------------------------
(* The ui thread. *)

\* The button can be used unless it says that a connection is being made; when
\* there is one it calls a user instead (CallProtocol).  Connect begins with a
\* Disconnect.
OnBnClickedConnect ==
    /\ ui = "idle" /\ mutex # "ui" /\ shown \notin {"Clicked", "Connecting"}
    /\ ~connected /\ connects < MaxConnects /\ connects' = connects + 1
    /\ shown' = "Clicked" /\ ui' = "look" /\ stop' = TRUE
    /\ UNCHANGED <<leaving, callbacks, seen, posted, connected, socket, sendVars, workerVars,
                   netVars>>

LookAtSocket ==
    /\ ui = "look" /\ mutex = "free"
    /\ seen' = socket /\ ui' = IF socket = 0 THEN "join" ELSE "shut"
    /\ UNCHANGED <<leaving, callbacks, shown, connects, posted, stop, connected, socket, sendVars,
                   workerVars, netVars>>

ShutSocket ==
    /\ ui = "shut" /\ ui' = "join"
    /\ dead' = dead \cup {seen} /\ seen' = 0
    /\ UNCHANGED <<leaving, callbacks, shown, connects, posted, stop, connected, socket,
                   sendVars, workerVars, open, arriving, made>>

Join ==
    /\ ui = "join" /\ worker \in {"none", "ended"}
    /\ Go("none") /\ connected' = FALSE
    /\ ui' = IF leaving THEN "gone" ELSE "spawn"
    /\ UNCHANGED <<leaving, callbacks, seen, shown, connects, posted, stop, socket, sendVars, tries,
                   own, pending, passed, netVars>>

StartWorker ==
    /\ ui = "spawn" /\ ui' = "idle"
    /\ stop' = FALSE /\ Go("start")
    /\ UNCHANGED <<leaving, callbacks, seen, shown, connects, posted, connected, socket, sendVars,
                   tries, own, pending, passed, netVars>>

OnSignalingState ==
    /\ ui = "idle" /\ mutex # "ui" /\ posted # <<>>
    /\ shown' = Head(posted) /\ posted' = Tail(posted)
    /\ UNCHANGED <<ui, leaving, callbacks, seen, connects, stop, connected, socket, sendVars,
                   workerVars, netVars>>

\* The window is destroyed: the callbacks are taken away, one after the other,
\* then Disconnect is called.
OnDestroy ==
    /\ ui = "idle" /\ mutex # "ui" /\ ui' = "silence" /\ leaving' = TRUE
    /\ posted' = <<>>
    /\ UNCHANGED <<callbacks, seen, shown, connects, stop, connected,
                   socket, sendVars, workerVars, netVars>>

ClearCallback ==
    /\ ui = "silence" /\ mutex = "free"
    /\ callbacks' = callbacks \ {IF "state" \in callbacks THEN "state"
                                                        ELSE "message"}
    /\ ui' = IF callbacks' = {} THEN "look" ELSE "silence"
    /\ stop' = (callbacks' = {})
    /\ UNCHANGED <<leaving, seen, shown, connects, posted, connected, socket,
                   sendVars, workerVars, netVars>>

UI == ClearCallback \/ LookAtSocket \/ ShutSocket \/ Join \/ StartWorker \/ OnSignalingState

-----------------------------------------------------------------------------
(* The worker: Run connects. *)

\* The callback is copied under the mutex; it posts the state, to a window that
\* may be gone.
ReportState(news) ==
    /\ mutex = "free"
    /\ posted' = IF leaving THEN posted ELSE Append(posted, news)

Reports(place, news, next) ==
    /\ worker = place /\ ReportState(news) /\ Go(next)
    /\ UNCHANGED <<uiVars, stop, connected, socket, sendVars, tries, own,
                   pending, passed, netVars>>

\* The name has addresses, or cannot be resolved.
Resolve ==
    /\ worker = "resolve"
    /\ \/ Go("failed") /\ UNCHANGED tries
       \/ Go("connect") /\ tries' \in 1..MaxTries
    /\ UNCHANGED <<uiVars, posted, stop, connected, socket, sendVars, own,
                   pending, passed, netVars>>

\* A socket for the next address; none is tried when a stop is requested.
TryAddress ==
    /\ worker = "connect" /\ tries > 0 /\ ~stop
    /\ made' = made + 1

ConnectAddress ==
    /\ TryAddress /\ Go("store")
    /\ own' = made' /\ open' = open \cup {made'} /\ tries' = 0
    /\ wire' = <<>> /\ pending' = <<>> /\ passed' = <<>>
    /\ arriving' = NothingSent
    /\ UNCHANGED <<uiVars, posted, stop, connected, socket, mutex, part, lines,
                   dead>>

\* It cannot connect and is closed.
AddressFails ==
    /\ TryAddress /\ tries' = tries - 1
    /\ UNCHANGED <<uiVars, posted, stop, connected, socket, sendVars, worker,
                   own, pending, passed, open, dead, arriving>>

NoAddress ==
    /\ worker = "connect" /\ (tries = 0 \/ stop)
    /\ Go(IF stop THEN "ended" ELSE "failed")
    /\ UNCHANGED <<uiVars, posted, stop, connected, socket, sendVars, tries,
                   own, pending, passed, netVars>>

StoreSocket ==
    /\ worker = "store" /\ mutex = "free"
    /\ socket' = own /\ Go("flag")
    /\ UNCHANGED <<uiVars, posted, stop, connected, sendVars, tries, own,
                   pending, passed, netVars>>

\* From here on other threads can send, though the login is not yet sent.
SetConnected ==
    /\ worker = "flag" /\ connected' = TRUE /\ Go("login")
    /\ UNCHANGED <<uiVars, posted, stop, socket, sendVars, tries, own, pending,
                   passed, netVars>>

Connecting ==
    \/ Reports("start", "Connecting", "resolve") \/ Resolve
    \/ ConnectAddress \/ AddressFails \/ NoAddress
    \/ StoreSocket \/ SetConnected
    \/ worker \in {"login", "ping"} /\ Send("worker")
    \/ Reports("welcome", "Connected", "loop")
    \/ Reports("refused", "Failed", "loop")
    \/ Reports("failed", "Failed", "ended")

-----------------------------------------------------------------------------
(* The worker: Run receives, and ends. *)

\* Mutant: only the connection is looked at.
LoopConnected ==
    /\ worker = "loop" /\ Go(IF ~connected THEN "unflag" ELSE "recv")
    /\ UNCHANGED <<uiVars, posted, stop, connected, socket, sendVars, tries,
                   own, pending, passed, netVars>>

Loop ==
    /\ worker = "loop" /\ Go(IF stop \/ ~connected THEN "unflag" ELSE "recv")
    /\ UNCHANGED <<uiVars, posted, stop, connected, socket, sendVars, tries,
                   own, pending, passed, netVars>>

\* The first line of s ends at n.
LineEnds(s, n) ==
    /\ n \in DOMAIN s /\ s[n] \in arriving.ends
    /\ \A i \in 1..(n - 1) : s[i] \notin arriving.ends

HoldsLine(s) == \E n \in DOMAIN s : s[n] \in arriving.ends

\* The pieces a recv() brings that takes all up to the n-th.
Taken(n) == [i \in 1..(n - arriving.taken) |-> arriving.taken + i]

\* recv() brings some of what has arrived, whether it ends in mid-line or not;
Received(n) ==
    /\ arriving' = [arriving EXCEPT !.taken = n]
    /\ Go(IF HoldsLine(pending') THEN "post" ELSE "loop")
    /\ UNCHANGED <<uiVars, posted, stop, connected, socket, sendVars, tries,
                   own, passed, open, dead, made>>

\* Mutant: an incomplete line is forgotten.
ReceiveAfresh ==
    /\ worker = "recv" /\ own \notin dead
    /\ \E n \in (arriving.taken + 1)..arriving.sent :
          pending' = Taken(n) /\ Received(n)

Receive ==
    /\ worker = "recv" /\ own \notin dead
    /\ \E n \in (arriving.taken + 1)..arriving.sent :
          pending' = pending \o Taken(n) /\ Received(n)

\* nothing for a second, when it may be time for a ping,
ReceiveTimesOut ==
    /\ worker = "recv" /\ own \notin dead
    /\ \/ Go("loop")
       \/ lines["worker"] <= MaxLines /\ Go("ping")
    /\ UNCHANGED <<uiVars, posted, stop, connected, socket, sendVars, tries,
                   own, pending, passed, netVars>>

\* or nothing any more.
ReceiveEnds ==
    /\ worker = "recv" /\ own \in dead /\ Go("unflag")
    /\ UNCHANGED <<uiVars, posted, stop, connected, socket, sendVars, tries,
                   own, pending, passed, netVars>>

\* The lines are passed on one by one, even if a stop is requested; what is
\* left of the last one waits for more.
PassLine ==
    /\ worker = "post" /\ mutex = "free"
    /\ \E n \in DOMAIN pending :
          /\ LineEnds(pending, n)
          /\ passed' = IF "message" \notin callbacks THEN passed
                       ELSE passed \o [i \in 1..n |-> [piece |-> pending[i],
                                                       last |-> i = n]]
          /\ pending' = SubSeq(pending, n + 1, Len(pending))
    /\ Go(IF HoldsLine(pending') THEN "post" ELSE "loop")
    /\ UNCHANGED <<uiVars, posted, stop, connected, socket, sendVars, tries,
                   own, netVars>>

ResetConnected ==
    /\ worker = "unflag" /\ connected' = FALSE /\ Go("clear")
    /\ UNCHANGED <<uiVars, posted, stop, socket, sendVars, tries, own, pending,
                   passed, netVars>>

\* Mutant: the mutex is not taken.
ClearUnlocked ==
    /\ worker = "clear" /\ socket' = 0 /\ Go("close")
    /\ UNCHANGED <<uiVars, posted, stop, connected, sendVars, tries, own,
                   pending, passed, netVars>>

ClearSocket ==
    /\ worker = "clear" /\ mutex = "free"
    /\ socket' = 0 /\ Go("close")
    /\ UNCHANGED <<uiVars, posted, stop, connected, sendVars, tries, own,
                   pending, passed, netVars>>

CloseSocket ==
    /\ worker = "close" /\ open' = open \ {own} /\ Go("farewell")
    /\ UNCHANGED <<uiVars, posted, stop, connected, socket, sendVars, tries,
                   own, pending, passed, dead, arriving, made>>

\* Mutant: the end of a connection is never reported.
EndQuietly ==
    /\ worker = "farewell" /\ Go("ended")
    /\ UNCHANGED <<uiVars, posted, stop, connected, socket, sendVars, tries,
                   own, pending, passed, netVars>>

\* The end is reported unless it was asked for.
End ==
    /\ worker = "farewell" /\ Go(IF stop THEN "ended" ELSE "bye")
    /\ UNCHANGED <<uiVars, posted, stop, connected, socket, sendVars, tries,
                   own, pending, passed, netVars>>

Serving ==
    \/ Loop \/ Receive \/ ReceiveTimesOut \/ ReceiveEnds \/ PassLine

Ending ==
    \/ ResetConnected \/ ClearSocket \/ CloseSocket \/ End
    \/ Reports("bye", "Disconnected", "ended")

Worker == Connecting \/ Serving \/ Ending

-----------------------------------------------------------------------------
(* The server and the network. *)

ServerSends ==
    /\ own \in open \ dead /\ arriving.sent < MaxArrived
    /\ \E ends \in {arriving.ends, arriving.ends \cup {arriving.sent + 1}} :
          arriving' = [arriving EXCEPT !.sent = @ + 1, !.ends = ends]
    /\ UNCHANGED <<uiVars, posted, stop, connected, socket, sendVars,
                   workerVars, open, dead, made>>

ServerEnds ==
    /\ own \in open \ dead /\ dead' = dead \cup {own}
    /\ UNCHANGED <<uiVars, posted, stop, connected, socket, sendVars,
                   workerVars, open, arriving, made>>

\* WebRTC's thread looks at shutting_down_ at best, and may come too late: that
\* it uses a client that is deleted is left out.
SendBegins ==
    \/ ui = "idle" /\ Send("ui")
    \/ ui # "gone" /\ Send("rtc")

Next ==
    \/ OnBnClickedConnect \/ OnDestroy \/ UI \/ Worker
    \/ SendBegins
    \/ \E t \in Threads : Sending(t)
    \/ ServerSends \/ ServerEnds

Spec == Init /\ [][Next]_vars

\* Both threads go on, and a line that is being sent is taken or fails: the
\* server reads.  Nobody has to connect, to send, or to end a connection.
FairSpec ==
    /\ Spec /\ WF_vars(UI) /\ WF_vars(Worker)
    /\ \A t \in Threads : WF_vars(Sending(t))

-----------------------------------------------------------------------------
(* Properties. *)

\* Three threads send; what the server reads is whole lines, one after the
\* other, of which only the last may be incomplete ("one object per line").
LinesWhole ==
    \A i \in DOMAIN wire :
        /\ i = 1 => wire[i].part = 1
        /\ i > 1 => IF wire[i-1].part = Parts
                    THEN wire[i].part = 1
                    ELSE wire[i] = [wire[i-1] EXCEPT !.part = @ + 1]

\* Nothing is sent or received on a socket that is closed, whoever closes or
\* reconnects meanwhile; and when there is no worker at work, its socket is
\* closed, nobody can send, and IsConnected (which decides what the connect
\* button does) says so.
SocketsAreSound ==
    /\ mutex # "free" => socket \in open
    /\ worker \in {"recv", "ping", "login"} => own \in open
    /\ worker \in {"none", "ended"} => open = {} /\ socket = 0 /\ ~connected

\* Every line of a connection is passed on whole, once and in order, however
\* the network cuts the bytes up, how many recv()s it takes and how the
\* connection ends; only a line that is not complete is kept back.
EveryLinePassed ==
    "message" \in callbacks =>
        /\ \A i \in DOMAIN passed :
              passed[i] = [piece |-> i, last |-> i \in arriving.ends]
        /\ pending = [i \in 1..(arriving.taken - Len(passed)) |->
                         Len(passed) + i]
        /\ worker # "post" => ~HoldsLine(pending)

\* When the dialog has taken all news it shows the state there is, though old
\* connections end, and new ones begin, while news is on its way.
ShownIsTrue ==
    ui = "idle" /\ posted = <<>> =>
        /\ worker = "ended" => shown \in {"Disconnected", "Failed"}
        /\ worker \in {"loop", "recv", "post"} => shown \in {"Connected", "Failed"}

\* Connect, and OnDestroy, come back although they wait for the worker, wherever
\* that is; a server that takes what is sent is assumed.
DisconnectReturns == ui \notin {"idle", "gone"} ~> ui \in {"idle", "gone"}
=============================================================================
