-------------------------- MODULE SignalingServer --------------------------
(***************************************************************************)
(* The signalling server (SignalingServer/main.cpp): one thread in a       *)
(* select loop over non-blocking sockets.  g_clients maps a socket handle  *)
(* to its Client, g_users maps a logged-in user id to a socket handle.     *)
(*                                                                         *)
(* One iteration of the loop is the sequence of control points             *)
(*   select -> accept -> service -> (read -> write)* -> disconnect -> ...  *)
(* and the clients and the network may act between any two of its steps.   *)
(* A step routes one line, accepts one connection, writes a prefix of one  *)
(* buffer, or disconnects one client.  The network's side (connections in  *)
(* the backlog, the lines a socket can deliver, how it ended) and what a   *)
(* client has learnt from its presence lines are external to the code.     *)
(*                                                                         *)
(* Data abstraction: a line is a record, a buffer a sequence of lines, and *)
(* every line occupies one unit of the send buffer's limit.  The four      *)
(* forwarded types (offer, answer, ice-candidate, hangup) are one, signal. *)
(***************************************************************************)
EXTENDS Integers, FiniteSets, Sequences

CONSTANTS
    Sockets,      \* socket handles, reused after they are closed
    Users,        \* user ids RegisterClient accepts
    NoSocket,     \* no handle: a free user id, or no client being served
    NoUser,       \* the empty user_id of a client that is not logged in
    BadUser,      \* a user id RegisterClient refuses (empty, long, control)
    MaxPending,   \* kMaxPendingSendBytes, in lines
    MaxClients,   \* kMaxClients
    Traffic,      \* the lines clients send in this instance
    MaxInFlight,  \* bound: lines of one client the server has not read yet
    MaxLines,     \* bound: lines the clients send in one behaviour
    MaxConnects   \* bound: connections opened in one behaviour

-----------------------------------------------------------------------------
(* Lines. *)

ClientLine ==
         [type : {"ping", "other", "oversized"}]
    \cup [type : {"login"}, userId : Users \cup {BadUser}]
    \cup [type : {"signal"}, to : Users \cup {BadUser},
          forged : BOOLEAN,      \* carries a fromUserId of its own
          whole : BOOLEAN]       \* has the closing brace AddSender looks for

ServerLine ==
         [type : {"pong"}]
    \cup [type : {"error"}, code : {"login_failed", "not_logged_in",
            "unsupported_message", "sender_field_forbidden",
            "target_offline", "route_failed"}]
    \cup [type : {"snapshot"}, users : SUBSET Users]
    \cup [type : {"changed"}, user : Users, online : BOOLEAN]
    \cup [type : {"signal"}, from : Users, to : Users]

Pong == [type |-> "pong"]
Error(code) == [type |-> "error", code |-> code]
Snapshot(us) == [type |-> "snapshot", users |-> us]
Changed(u, on) == [type |-> "changed", user |-> u, online |-> on]

ASSUME ServerAssumption ==
    /\ NoSocket \notin Sockets
    /\ NoUser \notin Users /\ BadUser \notin Users /\ NoUser # BadUser
    /\ MaxPending \in Nat
    /\ MaxClients \in Nat \ {0}
    /\ MaxInFlight \in Nat /\ MaxLines \in Nat /\ MaxConnects \in Nat
    /\ IsFiniteSet(Sockets)
    /\ Traffic \subseteq ClientLine

VARIABLES
    pc,           \* control point of the select loop
    cur,          \* the client being served, NoSocket between clients
    readable,     \* read_set left to serve in this iteration
    writable,     \* write_set left to serve in this iteration
    disconnected, \* the vector of the iteration, or `sockets' at shutdown
    stopping,     \* g_stopping
    clients,      \* the handles in g_clients
    userId,       \* Client::user_id
    users,        \* g_users, NoSocket for an id that is not a key
    sendBuf,      \* Client::send_buffer
    backlog,      \* connections the kernel has ready for accept
    inbox,        \* lines the socket can deliver (kernel and receive_buffer)
    ended,        \* how the peer ended the connection, if it did
    view,         \* the user ids the client shows as online
    refused,      \* history: clients that missed a presence line
    quiet,        \* history: ids whose login was not broadcast
    lines,        \* lines sent so far, for MaxLines
    connects      \* connections opened so far, for MaxConnects

loopVars == <<pc, cur, readable, writable, disconnected>>
dataVars == <<clients, userId, users>>
netVars == <<backlog, inbox, ended, lines, connects>>
history == <<refused, quiet>>
vars == <<loopVars, stopping, dataVars, sendBuf, netVars, view, history>>

TypeOK ==
    /\ pc \in {"select", "accept", "service", "read", "write",
               "disconnect", "shutdown", "done"}
    /\ cur \in Sockets \cup {NoSocket}
    /\ readable \subseteq Sockets /\ writable \subseteq Sockets
    /\ disconnected \subseteq Sockets
    /\ stopping \in BOOLEAN
    /\ clients \subseteq Sockets
    /\ userId \in [Sockets -> Users \cup {NoUser}]
    /\ users \in [Users -> Sockets \cup {NoSocket}]
    /\ sendBuf \in [Sockets -> Seq(ServerLine)]
    /\ backlog \subseteq Sockets
    /\ inbox \in [Sockets -> Seq(ClientLine)]
    /\ ended \in [Sockets -> {"no", "closed", "reset"}]
    /\ view \in [Sockets -> SUBSET Users]
    /\ refused \subseteq Sockets /\ quiet \subseteq Users
    /\ lines \in 0..MaxLines /\ connects \in 0..MaxConnects

Init ==
    /\ pc = "select" /\ cur = NoSocket
    /\ readable = {} /\ writable = {} /\ disconnected = {}
    /\ stopping = FALSE
    /\ clients = {}
    /\ userId = [s \in Sockets |-> NoUser]
    /\ users = [u \in Users |-> NoSocket]
    /\ sendBuf = [s \in Sockets |-> <<>>]
    /\ backlog = {}
    /\ inbox = [s \in Sockets |-> <<>>]
    /\ ended = [s \in Sockets |-> "no"]
    /\ view = [s \in Sockets |-> {}]
    /\ refused = {} /\ quiet = {}
    /\ lines = 0 /\ connects = 0

-----------------------------------------------------------------------------
(* The send buffers. *)

\* Mutant: the newline QueueLine appends is not counted.
FitsWithoutNewline(s) == 0 <= MaxPending - Len(sendBuf[s])

\* A line fits into s's buffer when it does not exceed what is left of it.
Fits(s) == 1 <= MaxPending - Len(sendBuf[s])

\* A long line may be refused, be it that a short one still fits: what waits
\* in the buffer is all the model knows of its room.
MayRefuse(s) == ~Fits(s) \/ sendBuf[s] # <<>>

Presence == {"snapshot", "changed"}

\* QueueLine of msg[s] to every s in DOMAIN msg: appended where it fits,
\* refused where it does not.
QueueLines(msg) ==
    /\ sendBuf' = [s \in Sockets |-> IF s \in DOMAIN msg /\ Fits(s)
                                     THEN Append(sendBuf[s], msg[s])
                                     ELSE sendBuf[s]]
    /\ refused' = refused \cup
                  {s \in DOMAIN msg : msg[s].type \in Presence /\ ~Fits(s)}

\* The one client s is told line.
Tell(s, line) == QueueLines([r \in {s} |-> line])

Online == {u \in Users : users[u] # NoSocket}

\* BroadcastPresence's recipients: clients logged in under another id.
Audience(S, u) == {s \in S : userId[s] \notin {NoUser, u}}

-----------------------------------------------------------------------------
(* RouteMessage for the first line of the client being read: one           *)
(* alternative per branch.                                                 *)

Line == Head(inbox[cur])

Consume ==
    /\ inbox' = [inbox EXCEPT ![cur] = Tail(@)]
    /\ UNCHANGED <<loopVars, stopping, backlog, ended, lines, connects, view>>

Answer(line) == Tell(cur, line) /\ UNCHANGED <<dataVars, quiet>>

RoutePing == Line.type = "ping" /\ Answer(Pong)

\* Mutant: RegisterClient without the look-up in g_users.
RegisterTaken(u) == u \in Users

\* RegisterClient's own conditions on the id.
MayRegister(u) == u \in Users /\ users[u] = NoSocket

RouteLoginRefused ==
    /\ Line.type = "login"
    /\ userId[cur] # NoUser \/ ~MayRegister(Line.userId)
    /\ Answer(Error("login_failed"))

\* RegisterClient's effect: the id is taken, and the lines in msg queued.
Register(u, msg) ==
    /\ userId' = [userId EXCEPT ![cur] = u]
    /\ users' = [users EXCEPT ![u] = cur]
    /\ UNCHANGED <<clients, quiet>>
    /\ QueueLines(msg)

\* Mutants: a second login of the same client, and a snapshot that lists the
\* client itself.
LoginTwice ==
    /\ Line.type = "login" /\ MayRegister(Line.userId)
    /\ Register(Line.userId, [r \in {cur} |-> Snapshot(Online)])
LoginListsSelf ==
    /\ Line.type = "login" /\ userId[cur] = NoUser /\ MayRegister(Line.userId)
    /\ Register(Line.userId,
                [r \in {cur} |-> Snapshot(Online \cup {Line.userId})])

\* A login goes through: the snapshot of the others to the client, the news
\* to everybody else.
RouteLogin ==
    /\ Line.type = "login" /\ userId[cur] = NoUser /\ MayRegister(Line.userId)
    /\ Fits(cur)
    /\ Register(Line.userId,
                [r \in {cur} \cup Audience(clients, Line.userId) |->
                    IF r = cur THEN Snapshot(Online)
                               ELSE Changed(Line.userId, TRUE)])

\* RegisterClient takes the id and then cannot queue the snapshot: it fails,
\* nothing is broadcast, and the id stays taken.  The caller's login_failed is
\* shorter and may still fit: the client is logged in and told that it is not.
RouteLoginCutShort ==
    /\ Line.type = "login" /\ userId[cur] = NoUser /\ MayRegister(Line.userId)
    /\ MayRefuse(cur)
    /\ userId' = [userId EXCEPT ![cur] = Line.userId]
    /\ users' = [users EXCEPT ![Line.userId] = cur]
    /\ quiet' = quiet \cup {Line.userId} /\ refused' = refused \cup {cur}
    /\ sendBuf' = IF Fits(cur)
                  THEN [sendBuf EXCEPT ![cur] = Append(@, Error("login_failed"))]
                  ELSE sendBuf
    /\ UNCHANGED clients

\* Every other type needs a login first.
Unknown == Line.type \notin {"ping", "login"} /\ userId[cur] = NoUser
Known == Line.type \notin {"ping", "login"} /\ userId[cur] # NoUser

RouteNotLoggedIn == Unknown /\ Answer(Error("not_logged_in"))

RouteUnsupported ==
    Known /\ Line.type # "signal" /\ Answer(Error("unsupported_message"))

RouteForbidden ==
    /\ Known /\ Line.type = "signal" /\ Line.forged
    /\ Answer(Error("sender_field_forbidden"))

\* The socket the line is for, if its user is online.
Target == IF Line.to \in Users THEN users[Line.to] ELSE NoSocket

RouteTargetOffline ==
    /\ Known /\ Line.type = "signal" /\ ~Line.forged
    /\ Target \notin clients
    /\ Answer(Error("target_offline"))

RouteSignal ==
    /\ Known /\ Line.type = "signal" /\ ~Line.forged
    /\ Target \in clients
    /\ Line.whole /\ Fits(Target)
    /\ Tell(Target, [type |-> "signal", from |-> userId[cur], to |-> Line.to])
    /\ UNCHANGED <<dataVars, quiet>>

RouteFailed ==
    /\ Known /\ Line.type = "signal" /\ ~Line.forged
    /\ Target \in clients
    /\ ~Line.whole \/ MayRefuse(Target)
    /\ Answer(Error("route_failed"))

RouteMessage ==
    \/ RoutePing \/ RouteLogin \/ RouteLoginRefused \/ RouteNotLoggedIn
    \/ RouteLoginCutShort
    \/ RouteUnsupported \/ RouteForbidden \/ RouteTargetOffline
    \/ RouteSignal \/ RouteFailed

-----------------------------------------------------------------------------
(* ReadClient: recv and route until the socket has nothing more to give.   *)

\* The client is pushed to `disconnected'; its write is skipped (else if).
Drop(s) ==
    /\ disconnected' = disconnected \cup {s}
    /\ readable' = readable \ {s}
    /\ writable' = writable \ {s}
    /\ cur' = NoSocket /\ pc' = "service"
    /\ UNCHANGED <<stopping, dataVars, sendBuf, netVars, view, history>>

ReadLine ==
    /\ pc = "read" /\ inbox[cur] # <<>> /\ Line.type # "oversized"
    /\ Consume /\ RouteMessage

\* A line that grows past kMaxMessageSize before its newline arrives.
ReadOversized ==
    /\ pc = "read" /\ inbox[cur] # <<>> /\ Line.type = "oversized"
    /\ Drop(cur)

\* Mutant: the end of the stream (recv returns 0) counts as nothing to read.
EndUnnoticed ==
    /\ pc = "read" /\ inbox[cur] = <<>> /\ ended[cur] # "no"
    /\ readable' = readable \ {cur}
    /\ cur' = NoSocket /\ pc' = "service"
    /\ UNCHANGED <<writable, disconnected, stopping, dataVars, sendBuf,
                   netVars, view, history>>

\* recv returns 0 behind the last line, or an error: a reset connection may
\* lose lines it had delivered to the kernel.
ReadEnd ==
    /\ pc = "read"
    /\ \/ ended[cur] = "closed" /\ inbox[cur] = <<>>
       \/ ended[cur] = "reset"
    /\ Drop(cur)

ReadWouldBlock ==
    /\ pc = "read" /\ ended[cur] = "no" /\ inbox[cur] = <<>>
    /\ readable' = readable \ {cur}
    /\ IF cur \in writable THEN pc' = "write" /\ cur' = cur
                           ELSE pc' = "service" /\ cur' = NoSocket
    /\ UNCHANGED <<writable, disconnected, stopping, dataVars, sendBuf,
                   netVars, view, history>>

-----------------------------------------------------------------------------
(* WriteClient, and what the client makes of the lines it receives.        *)

\* The client's list of online users: a snapshot resets it, a change adds
\* or removes one id, and every other line leaves it alone.
ApplyPresence(v, line) ==
    CASE line.type = "snapshot" -> line.users
      [] line.type = "changed" -> IF line.online THEN v \cup {line.user}
                                                 ELSE v \ {line.user}
      [] OTHER -> v

\* send takes the next line.
WriteLine ==
    /\ pc = "write" /\ ended[cur] # "reset" /\ sendBuf[cur] # <<>>
    /\ sendBuf' = [sendBuf EXCEPT ![cur] = Tail(@)]
    /\ view' = [view EXCEPT ![cur] = ApplyPresence(@, Head(sendBuf[cur]))]
    /\ UNCHANGED <<loopVars, stopping, dataVars, netVars, history>>

\* The buffer is empty, or send would block.
WriteReturns ==
    /\ pc = "write"
    /\ writable' = writable \ {cur}
    /\ cur' = NoSocket /\ pc' = "service"
    /\ UNCHANGED <<readable, disconnected, stopping, dataVars, sendBuf,
                   netVars, view, history>>

WriteFails == pc = "write" /\ ended[cur] # "no" /\ Drop(cur)

-----------------------------------------------------------------------------
(* The select loop. *)

Readable == {s \in clients : inbox[s] # <<>> \/ ended[s] # "no"}

\* Mutant: write_set only has the clients that are logged in.
PendingUsers == {s \in clients : sendBuf[s] # <<>> /\ userId[s] # NoUser}

Pending == {s \in clients : sendBuf[s] # <<>>}

\* select reports every client with something to read, and those of the
\* clients in write_set whose socket accepts bytes at the moment.
Select(w) ==
    /\ pc = "select" /\ ~stopping
    /\ w \subseteq Pending
    /\ backlog # {} \/ Readable # {} \/ w # {}
    /\ readable' = Readable /\ writable' = w
    /\ pc' = IF backlog # {} THEN "accept" ELSE "service"
    /\ UNCHANGED <<cur, disconnected, stopping, dataVars, sendBuf, netVars,
                   view, history>>

SelectReady == \E w \in SUBSET Pending : Select(w)

\* AcceptClients takes connections until the backlog is empty; it closes those
\* that find g_clients full, and one that cannot be made non-blocking.
AcceptClient(s) ==
    /\ pc = "accept" /\ s \in backlog
    /\ backlog' = backlog \ {s}
    /\ \/ /\ Cardinality(clients) < MaxClients
          /\ clients' = clients \cup {s} /\ UNCHANGED <<inbox, ended>>
       \/ /\ inbox' = [inbox EXCEPT ![s] = <<>>]
          /\ ended' = [ended EXCEPT ![s] = "no"]
          /\ UNCHANGED clients
    /\ pc' = IF backlog' = {} THEN "service" ELSE pc
    /\ UNCHANGED <<cur, readable, writable, disconnected, stopping, userId,
                   users, sendBuf, lines, connects, view, history>>

\* An error of accept ends it as well; the rest waits for the next iteration.
AcceptFails ==
    /\ pc = "accept" /\ pc' = "service"
    /\ UNCHANGED <<cur, readable, writable, disconnected, stopping, dataVars,
                   sendBuf, netVars, view, history>>

\* The loop over g_clients: the next client select has reported.
Serve(s) ==
    /\ pc = "service" /\ s \in readable \cup writable
    /\ cur' = s
    /\ pc' = IF s \in readable THEN "read" ELSE "write"
    /\ UNCHANGED <<readable, writable, disconnected, stopping, dataVars,
                   sendBuf, netVars, view, history>>

ServiceDone ==
    /\ pc = "service" /\ readable \cup writable = {}
    /\ pc' = IF disconnected = {} THEN "select" ELSE "disconnect"
    /\ UNCHANGED <<cur, readable, writable, disconnected, stopping, dataVars,
                   sendBuf, netVars, view, history>>

\* The Client is erased with its buffers, the handle is free for reuse, and
\* the others are told when a user was logged in on it.
Disconnect(s, usersNext) ==
    /\ pc \in {"disconnect", "shutdown"} /\ s \in disconnected
    /\ disconnected' = disconnected \ {s}
    /\ pc' = IF pc = "disconnect" /\ disconnected' = {} THEN "select" ELSE pc
    /\ users' = usersNext
    /\ clients' = clients \ {s}
    /\ userId' = [userId EXCEPT ![s] = NoUser]
    /\ inbox' = [inbox EXCEPT ![s] = <<>>]
    /\ ended' = [ended EXCEPT ![s] = "no"]
    /\ view' = [view EXCEPT ![s] = {}]
    /\ LET told == IF userId[s] = NoUser THEN {}
                   ELSE Audience(clients \ {s}, userId[s])
       IN /\ sendBuf' = [r \in Sockets |->
                CASE r = s -> <<>>
                  [] r \in told /\ Fits(r) ->
                        Append(sendBuf[r], Changed(userId[s], FALSE))
                  [] OTHER -> sendBuf[r]]
          /\ refused' = (refused \cup {r \in told : ~Fits(r)}) \ {s}
    /\ UNCHANGED <<cur, readable, writable, stopping, backlog, lines, connects,
                   quiet>>

\* Mutant: the entry of g_users is left behind.
DisconnectKeepsUser(s) == Disconnect(s, users)

DisconnectClient(s) ==
    Disconnect(s, [u \in Users |-> IF u = userId[s] /\ users[u] = s
                                   THEN NoSocket ELSE users[u]])

\* g_stopping, or a select that fails, ends the loop; then every client is
\* disconnected and the listening socket closed.
Shutdown ==
    /\ pc = "select"
    /\ pc' = "shutdown" /\ disconnected' = clients
    /\ UNCHANGED <<cur, readable, writable, stopping, dataVars, sendBuf,
                   netVars, view, history>>

StopLoop == stopping /\ Shutdown
SelectFails == ~stopping /\ Shutdown

ShutdownDone ==
    /\ pc = "shutdown" /\ disconnected = {}
    /\ pc' = "done" /\ backlog' = {}
    /\ inbox' = [s \in Sockets |-> <<>>]
    /\ ended' = [s \in Sockets |-> "no"]
    /\ UNCHANGED <<cur, readable, writable, disconnected, stopping, dataVars,
                   sendBuf, lines, connects, view, history>>

-----------------------------------------------------------------------------
(* The clients, the network and the operator: external to the code.        *)

Live(s) == s \in clients \cup backlog /\ ended[s] = "no"

Connect(s) ==
    /\ pc # "done" /\ connects < MaxConnects
    /\ s \notin clients \cup backlog
    /\ backlog' = backlog \cup {s}
    /\ connects' = connects + 1
    /\ UNCHANGED <<loopVars, stopping, dataVars, sendBuf, inbox, ended, lines,
                   view, history>>

ClientSends(s, line) ==
    /\ Live(s) /\ lines < MaxLines /\ Len(inbox[s]) < MaxInFlight
    /\ inbox' = [inbox EXCEPT ![s] = Append(@, line)]
    /\ lines' = lines + 1
    /\ UNCHANGED <<loopVars, stopping, dataVars, sendBuf, backlog, ended,
                   connects, view, history>>

ClientEnds(s, how) ==
    /\ Live(s)
    /\ ended' = [ended EXCEPT ![s] = how]
    /\ UNCHANGED <<loopVars, stopping, dataVars, sendBuf, backlog, inbox,
                   lines, connects, view, history>>

\* SIGINT, SIGTERM or a console event.
SignalHandler ==
    /\ ~stopping /\ stopping' = TRUE
    /\ UNCHANGED <<loopVars, dataVars, sendBuf, netVars, view, history>>

-----------------------------------------------------------------------------
Server ==
    \/ SelectReady \/ StopLoop
    \/ \E s \in Sockets : AcceptClient(s) \/ Serve(s) \/ DisconnectClient(s)
    \/ ReadLine \/ ReadOversized \/ ReadEnd \/ ReadWouldBlock
    \/ WriteLine \/ WriteReturns \/ WriteFails
    \/ AcceptFails \/ ServiceDone \/ ShutdownDone

Environment ==
    \/ SignalHandler \/ SelectFails
    \/ \E s \in Sockets :
          \/ Connect(s)
          \/ \E line \in Traffic : ClientSends(s, line)
          \/ \E how \in {"closed", "reset"} : ClientEnds(s, how)

\* select times out with nothing ready, or the process has ended.
Idle ==
    /\ \/ pc = "select" /\ ~stopping /\ backlog = {} /\ Readable = {}
       \/ pc = "done"
    /\ UNCHANGED vars

Next == Server \/ Environment \/ Idle

Spec == Init /\ [][Next]_vars

-----------------------------------------------------------------------------
(* Safety. *)

\* g_users and g_clients never disagree: an id that is a key of g_users
\* leads to a connected client logged in under that id, and a client's
\* user_id leads back to the client.  Handles are reused and ids change
\* hands, so a stale entry would give one user's messages to another.
RegistryConsistent ==
    /\ \A u \in Users : users[u] # NoSocket =>
          users[u] \in clients /\ userId[users[u]] = u
    /\ \A s \in Sockets : userId[s] # NoUser =>
          s \in clients /\ users[userId[s]] = s

\* The buffer never holds more than its limit, so that the unsigned
\* subtraction of QueueLine cannot wrap, and g_clients stays within fd_set.
WithinLimits ==
    /\ \A s \in Sockets : Len(sendBuf[s]) <= MaxPending
    /\ Cardinality(clients) <= MaxClients

\* A forwarded message waits only in the buffer of the client that is still
\* logged in as the user it names, whatever disconnects, relogins and reuse
\* of the handle came between routing and writing.
NoMisdelivery ==
    \A s \in Sockets : \A i \in 1..Len(sendBuf[s]) :
        LET line == sendBuf[s][i]
        IN line.type = "signal" => userId[s] = line.to

\* What a client that shows v will show after reading the first i lines.
ShownAfter(v, unread, i) ==
    LET shown[n \in 0..Len(unread)] ==
            IF n = 0 THEN v ELSE ApplyPresence(shown[n-1], unread[n])
    IN  shown[i]

ViewAfter(s, i) == ShownAfter(view[s], sendBuf[s], i)

\* Presence: a client that missed no presence line, once it has read what is
\* queued for it, shows no user who is offline, never itself, and every other
\* online user whose own login was not cut short; and it has been told that a
\* user is online before it reads a message from that user, and not that the
\* user left: presence and forwarded lines share one ordered buffer.
PresenceConverges ==
    \A s \in clients \ refused : userId[s] # NoUser =>
        LET final == ViewAfter(s, Len(sendBuf[s]))
            others == Online \ {userId[s]}
        IN /\ final \subseteq others
           /\ others \ quiet \subseteq final
           /\ \A i \in DOMAIN sendBuf[s] :
                LET line == sendBuf[s][i]
                IN line.type = "signal" /\ line.from \notin quiet \cup {userId[s]}
                   => line.from \in ViewAfter(s, i)

-----------------------------------------------------------------------------
(* Refinement: users is the owner function of the abstract directory. *)

Directory == INSTANCE UserDirectory WITH owner <- users

DirectorySpec == Directory!Spec

-----------------------------------------------------------------------------
(* Liveness.  The loop is one thread the operating system schedules, and    *)
(* select times out or returns: the server's steps are weakly fair.  A      *)
(* client that reads its socket lets it become writable and take what is    *)
(* queued again and again.                                                  *)

Reads(s) == SF_vars(\E w \in SUBSET Pending : s \in w /\ Select(w))
         /\ SF_vars(cur = s /\ WriteLine)

FairSpec == Spec /\ WF_vars(Server) /\ \A s \in Sockets : Reads(s)

\* A connection that ended is eventually erased, and its id released.
EndedClientLeaves ==
    \A s \in Sockets :
        (s \in clients /\ ended[s] # "no") ~> (s \notin clients)

\* What is queued for a reading client is eventually written out, unless the
\* client is disconnected first.
QueueDrains ==
    \A s \in Sockets :
        (sendBuf[s] # <<>>) ~> (sendBuf[s] = <<>> \/ s \notin clients)
=============================================================================
