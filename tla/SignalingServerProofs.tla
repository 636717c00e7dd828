----------------------- MODULE SignalingServerProofs -----------------------
(***************************************************************************)
(* Theorems about the signalling server, for every set of sockets and      *)
(* users and every limit.                                                  *)
(*                                                                         *)
(* The argument: the registry (g_users against Client::user_id) and the    *)
(* addresses of the queued messages are not inductive alone.  They need to *)
(* know that the loop only serves and disconnects clients that are still   *)
(* in g_clients (Control), and that a handle outside g_clients has an      *)
(* empty buffer (Buffers), so that a reused handle inherits nothing.       *)
(* With these presence is inductive: every line of presence brings what    *)
(* its reader will show in the end up to date.                             *)
(***************************************************************************)
EXTENDS SignalingServer, FiniteSetTheorems, SequenceTheorems, WellFoundedInduction, TLAPS

\* What the loop may rely on at each of its control points.
Control ==
    /\ readable \subseteq clients /\ writable \subseteq clients
    /\ disconnected \subseteq clients
    /\ backlog \cap clients = {}
    /\ pc \in {"read", "write"} => cur \in clients
    /\ pc \in {"select", "disconnect", "shutdown", "done"} =>
          readable = {} /\ writable = {}

\* What the buffer of s holds: nothing for a handle without a client, and
\* never a forwarded message for anybody but the user logged in on s.
BufferOK(s) ==
    /\ s \notin clients => sendBuf[s] = <<>>
    /\ Len(sendBuf[s]) <= MaxPending
    /\ \A i \in 1..Len(sendBuf[s]) :
          sendBuf[s][i].type = "signal" => userId[s] = sendBuf[s][i].to

Buffers == \A s \in Sockets : BufferOK(s)

IInv ==
    /\ TypeOK
    /\ Control
    /\ RegistryConsistent
    /\ Buffers
    /\ Cardinality(clients) <= MaxClients

-----------------------------------------------------------------------------
\* A queued line changes the buffers it fits into by one line at the end.
LEMMA QueueLinesEffect ==
    ASSUME NEW msg,
           sendBuf \in [Sockets -> Seq(ServerLine)], refused \subseteq Sockets,
           DOMAIN msg \subseteq Sockets,
           \A s \in DOMAIN msg : msg[s] \in ServerLine,
           QueueLines(msg)
    PROVE  /\ sendBuf' \in [Sockets -> Seq(ServerLine)]
           /\ refused' \subseteq Sockets
           /\ \A s \in Sockets :
                 \/ sendBuf'[s] = sendBuf[s]
                 \/ /\ s \in DOMAIN msg /\ Fits(s)
                    /\ sendBuf'[s] = Append(sendBuf[s], msg[s])
<1>1. \A s \in Sockets : s \in DOMAIN msg =>
          Append(sendBuf[s], msg[s]) \in Seq(ServerLine)
  BY AppendProperties
<1> QED
  BY <1>1 DEF QueueLines

\* Appending a line that fits, and that names the user of s if it is a
\* forwarded message, keeps a buffer in order.
LEMMA AppendOK ==
    ASSUME NEW s \in clients, NEW line \in ServerLine, TypeOK, BufferOK(s),
           Fits(s),
           clients' = clients \/ s \in clients',
           sendBuf'[s] = Append(sendBuf[s], line),
           userId'[s] = userId[s],
           line.type = "signal" => userId[s] = line.to
    PROVE  BufferOK(s)'
<1>1. s \in Sockets /\ sendBuf[s] \in Seq(ServerLine)
  BY DEF TypeOK
<1>2. /\ Len(sendBuf'[s]) = Len(sendBuf[s]) + 1
      /\ \A i \in 1..Len(sendBuf[s]) : sendBuf'[s][i] = sendBuf[s][i]
      /\ sendBuf'[s][Len(sendBuf[s]) + 1] = line
  BY <1>1, AppendProperties
<1>3. Len(sendBuf[s]) \in Nat /\ MaxPending \in Nat
  BY <1>1, LenProperties, ServerAssumption
<1>4. Len(sendBuf'[s]) <= MaxPending
  BY <1>2, <1>3 DEF Fits
<1>5. ASSUME NEW i \in 1..Len(sendBuf'[s]), sendBuf'[s][i].type = "signal"
      PROVE  userId'[s] = sendBuf'[s][i].to
  <2>1. i \in 1..Len(sendBuf[s]) \/ i = Len(sendBuf[s]) + 1
    BY <1>2, <1>3
  <2> QED
    BY <1>2, <1>5, <2>1 DEF BufferOK
<1> QED
  BY <1>4, <1>5 DEF BufferOK

-----------------------------------------------------------------------------
LEMMA InitIInv == Init => IInv
<1> SUFFICES ASSUME Init PROVE IInv
  OBVIOUS
<1>1. TypeOK
  <2>1. /\ sendBuf \in [Sockets -> Seq(ServerLine)]
        /\ inbox \in [Sockets -> Seq(ClientLine)]
    BY DEF Init
  <2>2. /\ lines \in 0..MaxLines /\ connects \in 0..MaxConnects
        /\ view \in [Sockets -> SUBSET Users]
        /\ ended \in [Sockets -> {"no", "closed", "reset"}]
    BY ServerAssumption DEF Init
  <2> QED
    BY <2>1, <2>2 DEF Init, TypeOK
<1>2. Cardinality(clients) <= MaxClients
  BY FS_EmptySet, ServerAssumption DEF Init
<1>3. Buffers
  BY ServerAssumption DEF Init, Buffers, BufferOK
<1> QED
  BY <1>1, <1>2, <1>3 DEF Init, IInv, Control, RegistryConsistent

\* Steps that leave the registry and the buffers alone only have to keep the
\* types and the loop's own bookkeeping.
LEMMA DataUnchanged ==
    ASSUME IInv, UNCHANGED <<dataVars, sendBuf>>, TypeOK', Control'
    PROVE  IInv'
BY DEF IInv, dataVars, RegistryConsistent, Buffers, BufferOK

\* The loop's bookkeeping: select, serve, drop, go on, stop.
LEMMA LoopSteps ==
    ASSUME IInv,
           \/ SelectReady \/ StopLoop \/ SelectFails
           \/ \E s \in Sockets : Serve(s)
           \/ ReadOversized \/ ReadEnd \/ ReadWouldBlock
           \/ WriteReturns \/ WriteFails
           \/ AcceptFails \/ ServiceDone \/ ShutdownDone
    PROVE  IInv'
<1> USE DEF IInv, vars, loopVars, dataVars, netVars, history
<1>1. CASE SelectReady
  <2>1. TypeOK'
    BY <1>1 DEF TypeOK, SelectReady, Select, Readable, Pending
  <2>2. Control'
    BY <1>1 DEF TypeOK, Control, SelectReady, Select, Readable, Pending
  <2> QED
    BY <1>1, <2>1, <2>2, DataUnchanged DEF SelectReady, Select
<1>2. CASE StopLoop \/ SelectFails
  <2>1. TypeOK' /\ Control'
    BY <1>2 DEF TypeOK, Control, StopLoop, SelectFails, Shutdown
  <2> QED
    BY <1>2, <2>1, DataUnchanged DEF StopLoop, SelectFails, Shutdown
<1>3. ASSUME NEW s \in Sockets, Serve(s) PROVE IInv'
  <2>1. TypeOK' /\ Control'
    BY <1>3 DEF TypeOK, Control, Serve
  <2> QED
    BY <1>3, <2>1, DataUnchanged DEF Serve
<1>4. CASE ReadOversized \/ ReadEnd \/ WriteFails
  <2>1. pc \in {"read", "write"} /\ Drop(cur)
    BY <1>4 DEF ReadOversized, ReadEnd, WriteFails
  <2>2. TypeOK' /\ Control'
    BY <2>1 DEF TypeOK, Control, Drop
  <2> QED
    BY <2>1, <2>2, DataUnchanged DEF Drop
<1>5. CASE ReadWouldBlock
  <2>1. TypeOK' /\ Control'
    BY <1>5 DEF TypeOK, Control, ReadWouldBlock
  <2> QED
    BY <1>5, <2>1, DataUnchanged DEF ReadWouldBlock
<1>6. CASE WriteReturns
  <2>1. TypeOK' /\ Control'
    BY <1>6 DEF TypeOK, Control, WriteReturns
  <2> QED
    BY <1>6, <2>1, DataUnchanged DEF WriteReturns
<1>7. CASE ServiceDone
  <2>1. TypeOK' /\ Control'
    BY <1>7 DEF TypeOK, Control, ServiceDone
  <2> QED
    BY <1>7, <2>1, DataUnchanged DEF ServiceDone
<1>8. CASE ShutdownDone
  <2>1. TypeOK' /\ Control'
    BY <1>8 DEF TypeOK, Control, ShutdownDone
  <2> QED
    BY <1>8, <2>1, DataUnchanged DEF ShutdownDone
<1>9. CASE AcceptFails
  <2>1. TypeOK' /\ Control'
    BY <1>9 DEF TypeOK, Control, AcceptFails
  <2> QED
    BY <1>9, <2>1, DataUnchanged DEF AcceptFails
<1> QED
  BY <1>1, <1>2, <1>3, <1>4, <1>5, <1>6, <1>7, <1>8, <1>9

\* Clients, network and operator act on the sockets, never on the server.
LEMMA EnvironmentSteps ==
    ASSUME IInv, Environment
    PROVE  IInv'
<1> USE DEF IInv, loopVars, dataVars, netVars, history
<1>0. CASE SelectFails
  BY <1>0, LoopSteps
<1>1. CASE SignalHandler
  <2>1. TypeOK' /\ Control'
    BY <1>1 DEF TypeOK, Control, SignalHandler
  <2> QED
    BY <1>1, <2>1, DataUnchanged DEF SignalHandler
<1>2. ASSUME NEW s \in Sockets, Connect(s) PROVE IInv'
  <2>1. TypeOK' /\ Control'
    BY <1>2, ServerAssumption DEF TypeOK, Control, Connect
  <2> QED
    BY <1>2, <2>1, DataUnchanged DEF Connect
<1>3. ASSUME NEW s \in Sockets, NEW line \in Traffic, ClientSends(s, line)
      PROVE  IInv'
  <2>1. Append(inbox[s], line) \in Seq(ClientLine)
    BY ServerAssumption, AppendProperties DEF TypeOK
  <2>2. TypeOK' /\ Control'
    BY <1>3, <2>1, ServerAssumption DEF TypeOK, Control, ClientSends
  <2> QED
    BY <1>3, <2>2, DataUnchanged DEF ClientSends
<1>4. ASSUME NEW s \in Sockets, NEW how \in {"closed", "reset"},
             ClientEnds(s, how)
      PROVE  IInv'
  <2>1. TypeOK' /\ Control'
    BY <1>4 DEF TypeOK, Control, ClientEnds
  <2> QED
    BY <1>4, <2>1, DataUnchanged DEF ClientEnds
<1> QED
  BY <1>0, <1>1, <1>2, <1>3, <1>4 DEF Environment

\* A connection joins g_clients with nothing but its handle.
LEMMA AcceptStep ==
    ASSUME IInv, NEW s \in Sockets, AcceptClient(s)
    PROVE  IInv'
<1> USE DEF IInv
<1>1. s \notin clients /\ userId[s] = NoUser
  BY DEF Control, RegistryConsistent, TypeOK, AcceptClient
<1>2. TypeOK' /\ Control'
  <2>0. inbox' \in [Sockets -> Seq(ClientLine)]
    <3>1. inbox' = inbox \/ inbox' = [inbox EXCEPT ![s] = <<>>]
      BY DEF AcceptClient
    <3>2. inbox \in [Sockets -> Seq(ClientLine)] /\ <<>> \in Seq(ClientLine)
      BY DEF TypeOK
    <3> QED
      BY <3>1, <3>2
  <2>1. ended' \in [Sockets -> {"no", "closed", "reset"}]
    BY DEF TypeOK, AcceptClient
  <2>2. TypeOK'
    BY <2>0, <2>1 DEF TypeOK, AcceptClient, history
  <2> QED
    BY <1>1, <2>2 DEF TypeOK, Control, AcceptClient
<1>3. RegistryConsistent'
  BY DEF RegistryConsistent, AcceptClient
<1>4. Buffers'
  BY DEF Buffers, BufferOK, AcceptClient
<1>5. Cardinality(clients') <= MaxClients
  <2>1. IsFiniteSet(clients)
    BY FS_Subset, ServerAssumption DEF TypeOK
  <2>2. CASE clients' = clients
    BY <2>2
  <2>3. CASE clients' = clients \cup {s} /\ Cardinality(clients) < MaxClients
    <3>1. Cardinality(clients') = Cardinality(clients) + 1
      BY <1>1, <2>1, <2>3, FS_AddElement
    <3>2. Cardinality(clients) \in Nat /\ MaxClients \in Nat
      BY <2>1, FS_CardinalityType, ServerAssumption
    <3> QED
      BY <2>3, <3>1, <3>2
  <2> QED
    BY <2>2, <2>3 DEF AcceptClient
<1> QED
  BY <1>2, <1>3, <1>4, <1>5

\* The client is erased with its entry and its buffer, so that its handle
\* can be reused; the users that stay get at most one line, a presence line.
LEMMA DisconnectStep ==
    ASSUME IInv, NEW s \in Sockets, DisconnectClient(s)
    PROVE  IInv'
<1> USE DEF IInv
<1> DEFINE told == IF userId[s] = NoUser THEN {}
                   ELSE Audience(clients \ {s}, userId[s])
           line == Changed(userId[s], FALSE)
<1>1. /\ pc \in {"disconnect", "shutdown"} /\ s \in disconnected
      /\ s \in clients /\ clients' = clients \ {s}
      /\ userId' = [userId EXCEPT ![s] = NoUser]
      /\ users' = [u \in Users |-> IF u = userId[s] /\ users[u] = s
                                   THEN NoSocket ELSE users[u]]
  BY DEF DisconnectClient, Disconnect, Control
<1>2. told \subseteq clients \ {s} /\ (told # {} => line \in ServerLine)
  BY DEF Audience, Changed, ServerLine, TypeOK
<1>3. /\ sendBuf'[s] = <<>>
      /\ \A r \in Sockets \ {s} :
            \/ sendBuf'[r] = sendBuf[r]
            \/ r \in told /\ Fits(r) /\ sendBuf'[r] = Append(sendBuf[r], line)
      /\ sendBuf' = [r \in Sockets |-> sendBuf'[r]]
  <2>1. sendBuf' = [r \in Sockets |->
                CASE r = s -> <<>>
                  [] r \in told /\ Fits(r) -> Append(sendBuf[r], line)
                  [] OTHER -> sendBuf[r]]
    BY DEF DisconnectClient, Disconnect
  <2> HIDE DEF told, line
  <2>2. sendBuf'[s] = <<>>
    BY <1>2, <2>1
  <2>3. ASSUME NEW r \in Sockets \ {s}
        PROVE  \/ sendBuf'[r] = sendBuf[r]
               \/ r \in told /\ Fits(r) /\ sendBuf'[r] = Append(sendBuf[r], line)
    BY <2>1
  <2> QED
    BY <2>1, <2>2, <2>3
<1>4. sendBuf' \in [Sockets -> Seq(ServerLine)]
  <2> HIDE DEF told, line
  <2>1. ASSUME NEW r \in Sockets PROVE sendBuf'[r] \in Seq(ServerLine)
    <3>1. sendBuf[r] \in Seq(ServerLine)
      BY DEF TypeOK
    <3>2. CASE r \in told /\ sendBuf'[r] = Append(sendBuf[r], line)
      BY <1>2, <3>1, <3>2, AppendProperties
    <3>3. CASE r = s
      BY <1>3, <3>3
    <3> QED
      BY <1>3, <3>1, <3>2, <3>3
  <2> QED
    BY <1>3, <2>1
<1>5. TypeOK'
  <2>1. /\ inbox' \in [Sockets -> Seq(ClientLine)]
        /\ ended' \in [Sockets -> {"no", "closed", "reset"}]
        /\ view' \in [Sockets -> SUBSET Users]
    BY DEF TypeOK, DisconnectClient, Disconnect
  <2>2. /\ refused' \subseteq Sockets
        /\ UNCHANGED <<cur, readable, writable, stopping, backlog, lines,
                       connects, quiet>>
        /\ disconnected' \subseteq disconnected
        /\ pc' \in {pc, "select"}
    BY <1>1, <1>2 DEF TypeOK, DisconnectClient, Disconnect
  <2>3. /\ userId' \in [Sockets -> Users \cup {NoUser}]
        /\ users' \in [Users -> Sockets \cup {NoSocket}]
        /\ clients' \subseteq Sockets
    BY <1>1 DEF TypeOK
  <2> QED
    BY <1>4, <2>1, <2>2, <2>3 DEF TypeOK
<1>6. Control'
  BY <1>1 DEF Control, DisconnectClient, Disconnect
<1>7. RegistryConsistent'
  BY <1>1, ServerAssumption DEF RegistryConsistent, TypeOK
<1>8. Buffers'
  <2>1. BufferOK(s)'
    BY <1>1, <1>3, ServerAssumption DEF BufferOK
  <2>2. ASSUME NEW r \in Sockets \ {s} PROVE BufferOK(r)'
    <3>1. userId'[r] = userId[r] /\ (r \in clients' <=> r \in clients)
      BY <1>1 DEF TypeOK
    <3>2. CASE sendBuf'[r] = sendBuf[r]
      BY <3>1, <3>2 DEF Buffers, BufferOK
    <3>3. CASE /\ r \in told /\ Fits(r)
               /\ sendBuf'[r] = Append(sendBuf[r], line)
      <4>1. r \in clients /\ r \in clients' /\ line \in ServerLine
        BY <1>1, <1>2, <3>3
      <4>2. line.type # "signal" /\ BufferOK(r)
        BY DEF Changed, Buffers
      <4> HIDE DEF line
      <4> QED
        BY <3>1, <3>3, <4>1, <4>2, AppendOK
    <3> QED
      BY <1>3, <3>2, <3>3
  <2> QED
    BY <2>1, <2>2 DEF Buffers
<1>9. Cardinality(clients') <= MaxClients
  <2>1. IsFiniteSet(clients)
    BY FS_Subset, ServerAssumption DEF TypeOK
  <2>2. Cardinality(clients') = Cardinality(clients) - 1
    BY <1>1, <2>1, FS_RemoveElement
  <2>3. Cardinality(clients) \in Nat /\ MaxClients \in Nat
    BY <2>1, FS_CardinalityType, ServerAssumption
  <2> QED
    BY <2>2, <2>3
<1> QED
  BY <1>5, <1>6, <1>7, <1>8, <1>9

\* The first line of a buffer goes out; the others stay in order.
LEMMA WriteStep ==
    ASSUME IInv, WriteLine
    PROVE  IInv'
<1> USE DEF IInv
<1>1. /\ pc = "write" /\ cur \in clients /\ cur \in Sockets
      /\ sendBuf[cur] \in Seq(ServerLine) /\ sendBuf[cur] # <<>>
      /\ sendBuf' = [sendBuf EXCEPT ![cur] = Tail(@)]
      /\ UNCHANGED <<dataVars, loopVars, netVars>>
  BY DEF WriteLine, Control, TypeOK
<1>2. /\ Head(sendBuf[cur]) \in ServerLine
      /\ Tail(sendBuf[cur]) \in Seq(ServerLine)
      /\ Len(Tail(sendBuf[cur])) = Len(sendBuf[cur]) - 1
      /\ \A i \in 1..Len(Tail(sendBuf[cur])) :
            Tail(sendBuf[cur])[i] = sendBuf[cur][i + 1]
  BY <1>1, HeadTailProperties
<1>3. Len(sendBuf[cur]) \in Nat /\ MaxPending \in Nat
  BY <1>1, LenProperties, ServerAssumption
<1>4. ApplyPresence(view[cur], Head(sendBuf[cur])) \in SUBSET Users
  BY <1>1, <1>2 DEF ApplyPresence, ServerLine, TypeOK
<1>5. TypeOK'
  BY <1>1, <1>2, <1>4
     DEF TypeOK, WriteLine, loopVars, dataVars, netVars, history
<1>6. Control' /\ RegistryConsistent' /\ clients' = clients
  BY <1>1 DEF Control, RegistryConsistent, loopVars, dataVars, netVars
<1>7. ASSUME NEW r \in Sockets PROVE BufferOK(r)'
  <2>0. userId' = userId /\ BufferOK(r)
    BY <1>1 DEF dataVars, Buffers
  <2>1. CASE r = cur
    <3>1. sendBuf'[r] = Tail(sendBuf[r])
      BY <1>1, <2>1 DEF TypeOK
    <3>2. ASSUME NEW i \in 1..Len(Tail(sendBuf[r])),
                 Tail(sendBuf[r])[i].type = "signal"
          PROVE  userId[r] = Tail(sendBuf[r])[i].to
      BY <1>2, <1>3, <2>0, <2>1, <3>2 DEF BufferOK
    <3> QED
      BY <1>1, <1>2, <1>3, <1>6, <2>0, <2>1, <3>1, <3>2 DEF BufferOK
  <2>2. CASE r # cur
    <3>1. sendBuf'[r] = sendBuf[r]
      BY <1>1, <2>2 DEF TypeOK
    <3> QED
      BY <1>6, <2>0, <3>1 DEF BufferOK
  <2> QED
    BY <2>1, <2>2
<1> QED
  BY <1>5, <1>6, <1>7 DEF Buffers

\* A routed line leaves the loop where it is and takes one line from the
\* inbox; what is left to show is about the registry and the buffers.
LEMMA Consumed ==
    ASSUME IInv, ReadLine,
           sendBuf' \in [Sockets -> Seq(ServerLine)],
           refused' \subseteq Sockets, quiet' \subseteq Users,
           userId' \in [Sockets -> Users \cup {NoUser}],
           users' \in [Users -> Sockets \cup {NoSocket}],
           clients' = clients, RegistryConsistent', Buffers'
    PROVE  IInv'
<1> USE DEF IInv
<1>1. /\ cur \in Sockets /\ inbox[cur] \in Seq(ClientLine) /\ inbox[cur] # <<>>
      /\ inbox' = [inbox EXCEPT ![cur] = Tail(@)]
      /\ UNCHANGED <<loopVars, stopping, backlog, ended, lines, connects, view>>
  BY DEF ReadLine, Consume, Control, TypeOK
<1>2. inbox' \in [Sockets -> Seq(ClientLine)]
  <2>1. Tail(inbox[cur]) \in Seq(ClientLine)
    BY <1>1, HeadTailProperties
  <2> QED
    BY <1>1, <2>1 DEF TypeOK
<1>3. TypeOK'
  BY <1>1, <1>2 DEF TypeOK, loopVars
<1>4. Control'
  BY <1>1 DEF Control, loopVars
<1> QED
  BY <1>3, <1>4

\* The line being routed, and the client it came from.
LEMMA RoutedLine ==
    ASSUME IInv, ReadLine
    PROVE  cur \in Sockets /\ cur \in clients /\ Line \in ClientLine
<1>1. cur \in clients /\ cur \in Sockets /\ inbox[cur] \in Seq(ClientLine)
      /\ inbox[cur] # <<>>
  BY DEF IInv, ReadLine, Control, TypeOK
<1> QED
  BY <1>1, HeadTailProperties DEF Line

\* One client is told something, and nothing else about the server changes.
\* A forwarded message goes to the client that is logged in as its target.
LEMMA ToldStep ==
    ASSUME IInv, ReadLine, NEW s \in clients, NEW line \in ServerLine,
           line.type = "signal" => userId[s] = line.to,
           Tell(s, line), UNCHANGED <<dataVars, quiet>>
    PROVE  IInv'
<1> USE DEF IInv
<1> DEFINE msg == [r \in {s} |-> line]
<1>1. s \in Sockets /\ DOMAIN msg = {s} /\ msg[s] = line /\ QueueLines(msg)
  BY DEF TypeOK, Tell
<1> HIDE DEF msg
<1>2. /\ sendBuf' \in [Sockets -> Seq(ServerLine)] /\ refused' \subseteq Sockets
      /\ \A r \in Sockets :
            \/ sendBuf'[r] = sendBuf[r]
            \/ r = s /\ Fits(r) /\ sendBuf'[r] = Append(sendBuf[r], line)
  <2>1. DOMAIN msg \subseteq Sockets /\ \A r \in DOMAIN msg : msg[r] \in ServerLine
    BY <1>1
  <2>2. sendBuf \in [Sockets -> Seq(ServerLine)] /\ refused \subseteq Sockets
    BY DEF TypeOK
  <2> QED
    BY <1>1, <2>1, <2>2, QueueLinesEffect
<1>3. userId' = userId /\ users' = users /\ clients' = clients /\ quiet' = quiet
  BY DEF dataVars
<1>4. RegistryConsistent'
  BY <1>3 DEF RegistryConsistent
<1>5. ASSUME NEW r \in Sockets PROVE BufferOK(r)'
  <2>1. BufferOK(r)
    BY DEF Buffers
  <2>2. CASE sendBuf'[r] = sendBuf[r]
    BY <1>3, <2>1, <2>2 DEF BufferOK
  <2>3. CASE r = s /\ Fits(r) /\ sendBuf'[r] = Append(sendBuf[r], line)
    BY <1>3, <2>1, <2>3, AppendOK
  <2> QED
    BY <1>2, <2>2, <2>3
<1> QED
  BY <1>2, <1>3, <1>4, <1>5, Consumed DEF Buffers, TypeOK

\* Every client is queued its line of msg, or nothing.
Queued(msg) ==
    /\ sendBuf' \in [Sockets -> Seq(ServerLine)] /\ refused' \subseteq Sockets
    /\ \A r \in Sockets :
          \/ sendBuf'[r] = sendBuf[r]
          \/ /\ r \in DOMAIN msg /\ Fits(r)
             /\ sendBuf'[r] = Append(sendBuf[r], msg[r])

\* A login: the free id goes to a client that had none, and whatever is
\* queued, to that client or to others, is no forwarded message.
LEMMA LoginStep ==
    ASSUME IInv, ReadLine, NEW u \in Users, NEW msg,
           userId[cur] = NoUser, users[u] = NoSocket,
           userId' = [userId EXCEPT ![cur] = u],
           users' = [users EXCEPT ![u] = cur],
           clients' = clients, quiet' \subseteq Users,
           DOMAIN msg \subseteq clients,
           \A s \in DOMAIN msg : msg[s] \in ServerLine /\ msg[s].type # "signal",
           Queued(msg)
    PROVE  IInv'
<1> USE DEF IInv
<1>1. cur \in Sockets /\ cur \in clients
  BY RoutedLine
<1>2. /\ sendBuf' \in [Sockets -> Seq(ServerLine)] /\ refused' \subseteq Sockets
      /\ \A r \in Sockets :
            \/ sendBuf'[r] = sendBuf[r]
            \/ /\ r \in DOMAIN msg /\ Fits(r)
               /\ sendBuf'[r] = Append(sendBuf[r], msg[r])
  BY DEF Queued
<1>3. /\ userId' \in [Sockets -> Users \cup {NoUser}]
      /\ users' \in [Users -> Sockets \cup {NoSocket}]
  BY <1>1 DEF TypeOK
<1>4. RegistryConsistent'
  BY <1>1, ServerAssumption DEF RegistryConsistent, TypeOK
\* The buffer of a client without an id holds no forwarded message.
<1>5. \A i \in 1..Len(sendBuf[cur]) : sendBuf[cur][i].type # "signal"
  <2>1. ASSUME NEW i \in 1..Len(sendBuf[cur]) PROVE sendBuf[cur][i] \in ServerLine
    BY <1>1, ElementOfSeq DEF TypeOK
  <2>2. \A i \in 1..Len(sendBuf[cur]) :
            sendBuf[cur][i].type = "signal" => sendBuf[cur][i].to = NoUser
    BY <1>1 DEF Buffers, BufferOK
  <2>3. \A line \in ServerLine : line.type = "signal" => line.to \in Users
    BY DEF ServerLine
  <2> QED
    BY <2>1, <2>2, <2>3, ServerAssumption
<1>6. ASSUME NEW r \in Sockets PROVE BufferOK(r)'
  <2>1. BufferOK(r) /\ sendBuf[r] \in Seq(ServerLine)
    BY DEF Buffers, TypeOK
  <2>2. CASE sendBuf'[r] = sendBuf[r]
    <3>1. CASE r = cur
      BY <1>1, <1>5, <2>1, <2>2, <3>1 DEF BufferOK
    <3>2. CASE r # cur
      BY <2>1, <2>2, <3>2 DEF BufferOK, TypeOK
    <3> QED
      BY <3>1, <3>2
  <2>3. CASE /\ r \in DOMAIN msg /\ Fits(r)
             /\ sendBuf'[r] = Append(sendBuf[r], msg[r])
    <3>1. r \in clients /\ msg[r] \in ServerLine /\ msg[r].type # "signal"
      BY <2>3
    <3>2. CASE r # cur
      <4>1. userId'[r] = userId[r]
        BY <3>2 DEF TypeOK
      <4> QED
        BY <2>1, <2>3, <3>1, <4>1, AppendOK
    <3>3. CASE r = cur
      <4>1. /\ Len(sendBuf'[r]) = Len(sendBuf[r]) + 1
            /\ \A i \in 1..Len(sendBuf[r]) : sendBuf'[r][i] = sendBuf[r][i]
            /\ sendBuf'[r][Len(sendBuf[r]) + 1] = msg[r]
        BY <2>1, <2>3, <3>1, AppendProperties
      <4>2. Len(sendBuf[r]) \in Nat /\ MaxPending \in Nat
        BY <2>1, LenProperties, ServerAssumption
      <4>3. ASSUME NEW i \in 1..Len(sendBuf'[r])
            PROVE  sendBuf'[r][i].type # "signal"
        <5>1. i \in 1..Len(sendBuf[r]) \/ i = Len(sendBuf[r]) + 1
          BY <4>1, <4>2
        <5> QED
          BY <1>5, <3>1, <3>3, <4>1, <5>1
      <4> QED
        BY <1>1, <2>3, <3>3, <4>1, <4>2, <4>3 DEF BufferOK, Fits
    <3> QED
      BY <3>2, <3>3
  <2> QED
    BY <1>2, <2>2, <2>3
<1> QED
  BY <1>2, <1>3, <1>4, <1>6, Consumed DEF Buffers

LEMMA ReadStep ==
    ASSUME IInv, ReadLine
    PROVE  IInv'
<1> USE DEF IInv
<1>1. cur \in Sockets /\ cur \in clients /\ Line \in ClientLine
  BY RoutedLine
<1>2. ASSUME NEW line \in ServerLine, line.type # "signal", Answer(line)
      PROVE  IInv'
  BY <1>1, <1>2, ToldStep DEF Answer
<1>3. CASE RoutePing
  <2>1. Pong \in ServerLine /\ Pong.type # "signal"
    BY DEF Pong, ServerLine
  <2> QED
    BY <1>2, <1>3, <2>1 DEF RoutePing
<1>4. CASE \/ RouteLoginRefused \/ RouteNotLoggedIn \/ RouteUnsupported
           \/ RouteForbidden \/ RouteTargetOffline \/ RouteFailed
  <2>1. PICK code \in {"login_failed", "not_logged_in", "unsupported_message",
                       "sender_field_forbidden", "target_offline",
                       "route_failed"} : Answer(Error(code))
    BY <1>4 DEF RouteLoginRefused, RouteNotLoggedIn, RouteUnsupported,
                RouteForbidden, RouteTargetOffline, RouteFailed
  <2>2. Error(code) \in ServerLine /\ Error(code).type # "signal"
    BY DEF Error, ServerLine
  <2> QED
    BY <1>2, <2>1, <2>2
<1>5. CASE RouteSignal
  <2> DEFINE line == [type |-> "signal", from |-> userId[cur], to |-> Line.to]
  <2>1. Target \in clients /\ Target = users[Line.to] /\ Line.to \in Users
    BY <1>5, ServerAssumption DEF RouteSignal, Target, TypeOK
  <2>2. userId[Target] = Line.to
    BY <2>1, ServerAssumption DEF RegistryConsistent, TypeOK
  <2>3. userId[cur] \in Users
    BY <1>1, <1>5 DEF RouteSignal, Known, TypeOK
  <2>4. line \in ServerLine /\ line.to = Line.to
    BY <2>1, <2>3 DEF ServerLine
  <2>5. Tell(Target, line) /\ UNCHANGED <<dataVars, quiet>>
    BY <1>5 DEF RouteSignal
  <2> HIDE DEF line
  <2> QED
    BY <2>1, <2>2, <2>4, <2>5, ToldStep
<1>6. CASE RouteLogin
  <2> DEFINE u == Line.userId
             msg == [r \in {cur} \cup Audience(clients, u) |->
                        IF r = cur THEN Snapshot(Online) ELSE Changed(u, TRUE)]
  <2>1. /\ u \in Users /\ userId[cur] = NoUser /\ users[u] = NoSocket
        /\ userId' = [userId EXCEPT ![cur] = u]
        /\ users' = [users EXCEPT ![u] = cur]
        /\ clients' = clients /\ quiet' = quiet /\ QueueLines(msg)
    BY <1>6 DEF RouteLogin, MayRegister, Register
  <2>2. DOMAIN msg \subseteq clients
    BY <1>1 DEF Audience
  <2>3. \A r \in DOMAIN msg : msg[r] \in ServerLine /\ msg[r].type # "signal"
    BY <2>1 DEF Snapshot, Changed, ServerLine, Online
  <2>4. quiet' \subseteq Users
    BY <2>1 DEF TypeOK
  <2>5. /\ sendBuf \in [Sockets -> Seq(ServerLine)] /\ refused \subseteq Sockets
        /\ clients \subseteq Sockets
    BY DEF TypeOK
  <2> HIDE DEF msg, u
  <2>6. Queued(msg)
    BY <2>1, <2>2, <2>3, <2>5, QueueLinesEffect DEF Queued
  <2> QED
    BY <2>1, <2>2, <2>3, <2>4, <2>6, LoginStep
<1>7. CASE RouteLoginCutShort
  <2> DEFINE u == Line.userId
             failed == Error("login_failed")
             msg == [r \in {cur} |-> failed]
  <2>1. /\ u \in Users /\ userId[cur] = NoUser /\ users[u] = NoSocket
        /\ userId' = [userId EXCEPT ![cur] = u]
        /\ users' = [users EXCEPT ![u] = cur]
        /\ clients' = clients /\ quiet' = quiet \cup {u}
        /\ refused' = refused \cup {cur}
        /\ sendBuf' = IF Fits(cur) THEN [sendBuf EXCEPT ![cur] = Append(@, failed)]
                                   ELSE sendBuf
    BY <1>7 DEF RouteLoginCutShort, MayRegister
  <2>2. failed \in ServerLine /\ failed.type # "signal"
    BY DEF Error, ServerLine
  <2>3. DOMAIN msg \subseteq clients
    BY <1>1
  <2>4. quiet' \subseteq Users
    BY <2>1 DEF TypeOK
  <2>5. sendBuf \in [Sockets -> Seq(ServerLine)] /\ refused \subseteq Sockets
    BY DEF TypeOK
  <2> HIDE DEF failed, u
  <2>6. Queued(msg)
    <3>1. Append(sendBuf[cur], failed) \in Seq(ServerLine)
      BY <1>1, <2>2, <2>5, AppendProperties
    <3> QED
      BY <1>1, <2>1, <2>5, <3>1 DEF Queued
  <2>7. \A r \in DOMAIN msg : msg[r] \in ServerLine /\ msg[r].type # "signal"
    BY <2>2
  <2> HIDE DEF msg
  <2> QED
    BY <2>1, <2>3, <2>4, <2>6, <2>7, LoginStep
<1> QED
  BY <1>3, <1>4, <1>5, <1>6, <1>7 DEF ReadLine, RouteMessage

LEMMA StutterStep == IInv /\ UNCHANGED vars => IInv'
<1> SUFFICES ASSUME IInv, UNCHANGED vars PROVE IInv'
  OBVIOUS
<1>1. TypeOK' /\ Control'
  BY DEF IInv, TypeOK, Control, vars, loopVars, dataVars, netVars, history
<1> QED
  BY <1>1, DataUnchanged DEF vars

-----------------------------------------------------------------------------
\* The invariant of the select loop: the types, what the loop relies on at
\* its control points, the registry, and the buffers.
THEOREM Invariance == Spec => []IInv
<1>1. Init => IInv
  BY InitIInv
<1>2. IInv /\ [Next]_vars => IInv'
  <2> SUFFICES ASSUME IInv, [Next]_vars PROVE IInv'
    OBVIOUS
  <2>1. CASE Server
    BY <2>1, LoopSteps, AcceptStep, DisconnectStep, ReadStep, WriteStep
       DEF Server
  <2>2. CASE Environment
    BY <2>2, EnvironmentSteps
  <2>3. CASE Idle \/ UNCHANGED vars
    BY <2>3, StutterStep DEF Idle
  <2> QED
    BY <2>1, <2>2, <2>3 DEF Next
<1> QED
  BY <1>1, <1>2, PTL DEF Spec

\* Every variable of the server keeps its type.
THEOREM TypeCorrect == Spec => []TypeOK
BY Invariance, PTL DEF IInv

\* g_users and g_clients agree in every reachable state of the server, for
\* any number of connections, ids, disconnects and reused handles.
THEOREM RegistryTheorem == Spec => []RegistryConsistent
BY Invariance, PTL DEF IInv

\* Send buffers and g_clients stay within their limits.
THEOREM LimitsTheorem == Spec => []WithinLimits
<1>1. IInv => WithinLimits
  BY DEF IInv, Buffers, BufferOK, WithinLimits
<1> QED
  BY <1>1, Invariance, PTL

\* No forwarded message ever waits for anybody but the user it names.
THEOREM DeliveryTheorem == Spec => []NoMisdelivery
<1>1. IInv => NoMisdelivery
  BY DEF IInv, Buffers, BufferOK, NoMisdelivery
<1> QED
  BY <1>1, Invariance, PTL

\* The server implements the directory of names: every step claims a free
\* id for a connection without one, releases an id, or leaves them alone.
THEOREM Refinement == Spec => DirectorySpec
<1>1. Init => Directory!Init
  BY DEF Init, Directory!Init
<1>2. IInv /\ [Next]_vars => [Directory!Next]_users
  <2> SUFFICES ASSUME IInv, [Next]_vars PROVE [Directory!Next]_users
    OBVIOUS
  <2>1. CASE users' = users
    BY <2>1
  <2>2. ASSUME NEW s \in Sockets, DisconnectClient(s)
        PROVE  [Directory!Next]_users
    <3>1. users' = [u \in Users |-> IF u = userId[s] /\ users[u] = s
                                    THEN NoSocket ELSE users[u]]
      BY <2>2 DEF DisconnectClient, Disconnect
    <3>2. CASE userId[s] \in Users /\ users[userId[s]] = s
      <4>1. users' = [users EXCEPT ![userId[s]] = NoSocket]
        BY <3>1, <3>2 DEF IInv, TypeOK
      <4>2. Directory!Release(userId[s])
        BY <3>2, <4>1, ServerAssumption DEF Directory!Release
      <4> QED
        BY <3>2, <4>2 DEF Directory!Next
    <3>3. CASE ~(userId[s] \in Users /\ users[userId[s]] = s)
      BY <3>1, <3>3 DEF IInv, TypeOK
    <3> QED
      BY <3>2, <3>3
  <2>3. CASE ReadLine /\ (RouteLogin \/ RouteLoginCutShort)
    <3> DEFINE u == Line.userId
    <3>1. /\ u \in Users /\ users[u] = NoSocket /\ userId[cur] = NoUser
          /\ users' = [users EXCEPT ![u] = cur]
      BY <2>3 DEF RouteLogin, RouteLoginCutShort, Register, MayRegister
    <3>2. cur \in Sockets
      BY <2>3, RoutedLine
    <3>3. Directory!Held(cur) = {}
      <4>1. ASSUME NEW w \in Users, users[w] = cur PROVE FALSE
        <5>1. users[w] # NoSocket
          BY <3>2, <4>1, ServerAssumption
        <5>2. userId[cur] = w
          BY <4>1, <5>1 DEF IInv, RegistryConsistent
        <5> QED
          BY <3>1, <5>2, ServerAssumption
      <4> QED
        BY <4>1 DEF Directory!Held
    <3>4. Directory!Claim(cur, u)
      BY <3>1, <3>3 DEF Directory!Claim
    <3> QED
      BY <3>1, <3>2, <3>4 DEF Directory!Next
  <2>4. CASE ReadLine /\ ~(RouteLogin \/ RouteLoginCutShort)
    <3>1. users' = users
      BY <2>4 DEF ReadLine, RouteMessage, RoutePing, RouteLoginRefused,
                  RouteNotLoggedIn, RouteUnsupported, RouteForbidden,
                  RouteTargetOffline, RouteSignal, RouteFailed, Answer, dataVars
    <3> QED
      BY <3>1
  <2>5. CASE \/ SelectReady \/ StopLoop \/ SelectFails
             \/ \E s \in Sockets : AcceptClient(s) \/ Serve(s)
             \/ AcceptFails \/ ReadOversized \/ ReadEnd \/ ReadWouldBlock
             \/ WriteLine \/ WriteReturns \/ WriteFails
             \/ ServiceDone \/ ShutdownDone
             \/ Environment \/ Idle \/ UNCHANGED vars
    <3>1. users' = users
      BY <2>5 DEF SelectReady, Select, StopLoop, SelectFails, Shutdown,
                  AcceptClient, AcceptFails, Serve, ReadOversized, ReadEnd, Drop,
                  ReadWouldBlock, WriteLine, WriteReturns, WriteFails,
                  ServiceDone, ShutdownDone, Environment, SignalHandler,
                  Connect, ClientSends, ClientEnds, Idle, vars, dataVars
    <3> QED
      BY <3>1
  <2> QED
    BY <2>2, <2>3, <2>4, <2>5 DEF Next, Server
<1> QED
  BY <1>1, <1>2, Invariance, PTL DEF Spec, DirectorySpec, Directory!Spec

-----------------------------------------------------------------------------
(* Presence.  What a client shows is a recursion over its buffer, so the   *)
(* lemmas about it are by induction on the number of lines read, told over *)
(* the least number that fails.                                            *)

LEMMA LeastNumber ==
    ASSUME NEW S, S \subseteq Nat, S # {}
    PROVE  \E least \in S : \A n \in S : least <= n
<1> DEFINE R == OpToRel(<, Nat)
<1>1. IsWellFoundedOn(R, Nat)
  BY NatLessThanWellFounded
<1>2. PICK least \in S : \A n \in S : <<n, least>> \notin R
  BY <1>1, WFMin
<1>3. \A n \in S : n < least => <<n, least>> \in R
  BY DEF OpToRel
<1>4. \A n \in S : ~(n < least)
  BY <1>2, <1>3
<1> QED
  BY <1>4

\* One step of the recursion of ShownAfter.
Shows(shown, v, unread, n) ==
    IF n = 0 THEN v ELSE ApplyPresence(shown[n-1], unread[n])

\* The function that ShownAfter defines exists.
LEMMA ShownExists ==
    ASSUME NEW v, NEW unread \in Seq(ServerLine)
    PROVE  \E shown : shown = [n \in 0..Len(unread) |-> Shows(shown, v, unread, n)]
<1> DEFINE Upto(n) == \E shown : shown = [i \in 0..n |-> Shows(shown, v, unread, i)]
           Failing == {n \in 0..Len(unread) : ~Upto(n)}
<1>0. Len(unread) \in Nat
  OBVIOUS
<1>1. SUFFICES ASSUME Failing # {} PROVE FALSE
  BY <1>0
<1>2. PICK n \in Failing : \A m \in Failing : n <= m
  <2>1. Failing \subseteq Nat
    OBVIOUS
  <2> HIDE DEF Failing
  <2> QED
    BY <1>1, <2>1, LeastNumber
<1>3. n # 0
  <2>1. [i \in 0..0 |-> v] = [i \in 0..0 |-> Shows([k \in 0..0 |-> v], v, unread, i)]
    BY DEF Shows
  <2>2. Upto(0)
    BY <2>1
  <2> QED
    BY <2>2
<1>4. n - 1 \in 0..Len(unread) /\ n \in Nat
  BY <1>0, <1>3
<1>5. Upto(n - 1)
  BY <1>2, <1>4
<1>6. PICK shown : shown = [i \in 0..(n - 1) |-> Shows(shown, v, unread, i)]
  BY <1>5
<1> DEFINE more == [i \in 0..n |-> IF i = n THEN Shows(shown, v, unread, n) ELSE shown[i]]
<1>7. \A i \in 0..n : more[i] = Shows(more, v, unread, i)
  <2> SUFFICES ASSUME NEW i \in 0..n PROVE more[i] = Shows(more, v, unread, i)
    OBVIOUS
  <2>1. i # 0 => i - 1 \in 0..n /\ i - 1 # n
    BY <1>4
  <2>2. i # 0 => more[i-1] = shown[i-1]
    BY <2>1
  <2>3. Shows(more, v, unread, i) = Shows(shown, v, unread, i)
    BY <2>2 DEF Shows
  <2>4. i # n => shown[i] = Shows(shown, v, unread, i)
    BY <1>4, <1>6
  <2> QED
    BY <2>3, <2>4
<1>8. more = [i \in 0..n |-> Shows(more, v, unread, i)]
  BY <1>7
<1>9. Upto(n)
  BY <1>8
<1> QED
  BY <1>2, <1>9

\* Reading nothing changes nothing; reading one line more applies it.
LEMMA ShownStep ==
    ASSUME NEW v, NEW unread \in Seq(ServerLine)
    PROVE  /\ ShownAfter(v, unread, 0) = v
           /\ \A n \in 1..Len(unread) :
                 ShownAfter(v, unread, n)
                     = ApplyPresence(ShownAfter(v, unread, n - 1), unread[n])
<1> DEFINE shown == CHOOSE f : f = [n \in 0..Len(unread) |-> Shows(f, v, unread, n)]
<1>0. Len(unread) \in Nat
  OBVIOUS
<1>1. shown = [n \in 0..Len(unread) |-> Shows(shown, v, unread, n)]
  BY ShownExists
<1>2. \A n : ShownAfter(v, unread, n) = shown[n]
  BY DEF ShownAfter, Shows
<1> HIDE DEF shown
<1>3. shown[0] = v
  BY <1>0, <1>1 DEF Shows
<1>4. ASSUME NEW n \in 1..Len(unread)
      PROVE  shown[n] = ApplyPresence(shown[n-1], unread[n])
  <2>1. n \in 0..Len(unread) /\ n # 0
    BY <1>0
  <2> QED
    BY <1>1, <2>1 DEF Shows
<1> QED
  BY <1>2, <1>3, <1>4

\* What is queued behind a line does not change what is shown before it.
LEMMA ShownAppend ==
    ASSUME NEW v, NEW unread \in Seq(ServerLine), NEW line \in ServerLine
    PROVE  LET more == Append(unread, line)
           IN  /\ \A n \in 0..Len(unread) :
                      ShownAfter(v, more, n) = ShownAfter(v, unread, n)
               /\ ShownAfter(v, more, Len(more))
                      = ApplyPresence(ShownAfter(v, unread, Len(unread)), line)
<1> DEFINE more == Append(unread, line)
           Failing == {n \in 0..Len(unread) :
                          ShownAfter(v, more, n) # ShownAfter(v, unread, n)}
<1>0. /\ Len(unread) \in Nat /\ more \in Seq(ServerLine) /\ Len(more) = Len(unread) + 1
      /\ more[Len(unread) + 1] = line
      /\ \A n \in 1..Len(unread) : more[n] = unread[n]
  BY AppendProperties
<1> HIDE DEF more
<1>1. /\ ShownAfter(v, unread, 0) = v /\ ShownAfter(v, more, 0) = v
      /\ \A n \in 1..Len(unread) :
             ShownAfter(v, unread, n) = ApplyPresence(ShownAfter(v, unread, n - 1), unread[n])
      /\ \A n \in 1..Len(more) :
             ShownAfter(v, more, n) = ApplyPresence(ShownAfter(v, more, n - 1), more[n])
  BY <1>0, ShownStep
<1>2. ASSUME Failing # {} PROVE FALSE
  <2>1. PICK n \in Failing : \A m \in Failing : n <= m
    <3>1. Failing \subseteq Nat
      OBVIOUS
    <3> HIDE DEF Failing
    <3> QED
      BY <1>2, <3>1, LeastNumber
  <2>2. n # 0 /\ n \in Nat /\ n \in 0..Len(unread)
    BY <1>1
  <2>3. n \in 1..Len(unread) /\ n \in 1..Len(more) /\ n - 1 \in 0..Len(unread) /\ ~(n <= n - 1)
    BY <1>0, <2>2
  <2>4. n - 1 \notin Failing
    <3> HIDE DEF Failing
    <3> QED
      BY <2>1, <2>3
  <2>5. ShownAfter(v, more, n - 1) = ShownAfter(v, unread, n - 1)
    BY <2>3, <2>4
  <2>6. ShownAfter(v, more, n) = ShownAfter(v, unread, n)
    BY <1>0, <1>1, <2>3, <2>5
  <2> QED
    BY <2>1, <2>6
<1>3. \A n \in 0..Len(unread) : ShownAfter(v, more, n) = ShownAfter(v, unread, n)
  BY <1>2
<1>4. ShownAfter(v, more, Len(more)) = ApplyPresence(ShownAfter(v, unread, Len(unread)), line)
  <2>1. Len(more) \in 1..Len(more) /\ Len(more) - 1 = Len(unread) /\ Len(unread) \in 0..Len(unread)
    BY <1>0
  <2> QED
    BY <1>0, <1>1, <1>3, <2>1
<1> QED
  BY <1>3, <1>4 DEF more

\* Reading the first line moves it from the buffer to what is shown.
LEMMA ShownTail ==
    ASSUME NEW v, NEW unread \in Seq(ServerLine), unread # <<>>
    PROVE  \A n \in 0..Len(Tail(unread)) :
               ShownAfter(ApplyPresence(v, Head(unread)), Tail(unread), n)
                   = ShownAfter(v, unread, n + 1)
<1> DEFINE rest == Tail(unread)
           next == ApplyPresence(v, Head(unread))
           Failing == {n \in 0..Len(rest) :
                          ShownAfter(next, rest, n) # ShownAfter(v, unread, n + 1)}
<1>0. /\ rest \in Seq(ServerLine) /\ Len(rest) = Len(unread) - 1 /\ Len(rest) \in Nat
      /\ Len(unread) \in Nat /\ Head(unread) = unread[1]
      /\ \A n \in 1..Len(rest) : rest[n] = unread[n + 1]
  BY HeadTailProperties, LenProperties
<1> HIDE DEF rest, next
<1>1. /\ ShownAfter(v, unread, 0) = v /\ ShownAfter(next, rest, 0) = next
      /\ \A n \in 1..Len(unread) :
             ShownAfter(v, unread, n) = ApplyPresence(ShownAfter(v, unread, n - 1), unread[n])
      /\ \A n \in 1..Len(rest) :
             ShownAfter(next, rest, n) = ApplyPresence(ShownAfter(next, rest, n - 1), rest[n])
  BY <1>0, ShownStep
<1>2. SUFFICES ASSUME Failing # {} PROVE FALSE
  BY DEF rest, next
<1>3. PICK n \in Failing : \A m \in Failing : n <= m
  <2>1. Failing \subseteq Nat
    OBVIOUS
  <2> HIDE DEF Failing
  <2> QED
    BY <1>2, <2>1, LeastNumber
<1>4. n \in Nat /\ n \in 0..Len(rest)
  OBVIOUS
<1>5. n # 0
  <2>1. 1 \in 1..Len(unread) /\ 1 - 1 = 0 /\ 0 + 1 = 1
    BY <1>0
  <2>2. ShownAfter(v, unread, 1) = ApplyPresence(v, Head(unread))
    BY <1>0, <1>1, <2>1
  <2>3. ShownAfter(v, unread, 0 + 1) = ShownAfter(next, rest, 0)
    BY <1>1, <2>1, <2>2 DEF next
  <2>4. 0 \notin Failing
    BY <2>3
  <2> QED
    BY <1>3, <2>4
<1>6. /\ n \in 1..Len(rest) /\ n - 1 \in 0..Len(rest) /\ ~(n <= n - 1)
      /\ n + 1 \in 1..Len(unread) /\ (n + 1) - 1 = n /\ (n - 1) + 1 = n
  BY <1>0, <1>4, <1>5
<1>7. n - 1 \notin Failing
  <2> HIDE DEF Failing
  <2> QED
    BY <1>3, <1>6
<1>8. ShownAfter(next, rest, n - 1) = ShownAfter(v, unread, n)
  BY <1>6, <1>7
<1>9. ShownAfter(next, rest, n) = ShownAfter(v, unread, n + 1)
  BY <1>0, <1>1, <1>6, <1>8
<1> QED
  BY <1>3, <1>9

-----------------------------------------------------------------------------
\* PresenceConverges for one client, told being that it missed nothing.
Final(s) == ViewAfter(s, Len(sendBuf[s]))

Informed(s) ==
    /\ Final(s) \subseteq Online \ {userId[s]}
    /\ (Online \ {userId[s]}) \ quiet \subseteq Final(s)
    /\ \A i \in DOMAIN sendBuf[s] :
          /\ sendBuf[s][i].type = "signal"
          /\ sendBuf[s][i].from \notin quiet \cup {userId[s]}
          => sendBuf[s][i].from \in ViewAfter(s, i)

Told(s) == s \in clients /\ s \notin refused /\ userId[s] # NoUser

LEMMA PresenceMeaning ==
    /\ PresenceConverges <=> \A s \in clients \ refused : userId[s] # NoUser => Informed(s)
    /\ TypeOK => (PresenceConverges <=> \A s \in Sockets : Told(s) => Informed(s))
BY DEF PresenceConverges, Informed, Final, Told, TypeOK

\* Nothing that a client shows or waits for has changed.
LEMMA InformedStill ==
    ASSUME NEW s \in Sockets, Informed(s),
           view'[s] = view[s], sendBuf'[s] = sendBuf[s], userId'[s] = userId[s],
           \/ Online' = Online
           \/ \E u \in quiet' : Online' = Online \cup {u} /\ u # userId[s],
           quiet \subseteq quiet'
    PROVE  Informed(s)'
<1>1. \A i : ViewAfter(s, i)' = ViewAfter(s, i)
  BY DEF ViewAfter
<1>2. Final(s)' = Final(s)
  BY <1>1 DEF Final, ViewAfter
<1>3. Final(s) \subseteq Online' \ {userId[s]}
  BY DEF Informed
<1>4. (Online' \ {userId[s]}) \ quiet' \subseteq Final(s)
  BY DEF Informed
<1> QED
  BY <1>1, <1>2, <1>3, <1>4 DEF Informed

\* One more line is queued for s.
LEMMA InformedMore ==
    ASSUME TypeOK, NEW s \in Sockets, NEW line \in ServerLine,
           view'[s] = view[s], sendBuf'[s] = Append(sendBuf[s], line),
           ApplyPresence(Final(s), line) \subseteq Online' \ {userId'[s]},
           (Online' \ {userId'[s]}) \ quiet' \subseteq ApplyPresence(Final(s), line),
           \A i \in DOMAIN sendBuf[s] :
              /\ sendBuf[s][i].type = "signal"
              /\ sendBuf[s][i].from \notin quiet' \cup {userId'[s]}
              => sendBuf[s][i].from \in ViewAfter(s, i),
           /\ line.type = "signal"
           /\ line.from \notin quiet' \cup {userId'[s]}
           => line.from \in ApplyPresence(Final(s), line)
    PROVE  Informed(s)'
<1>0. PICK L \in Nat : L = Len(sendBuf[s])
  BY LenProperties DEF TypeOK
<1>1. /\ sendBuf[s] \in Seq(ServerLine) /\ L = Len(sendBuf[s]) /\ DOMAIN sendBuf[s] = 1..L
      /\ sendBuf'[s] \in Seq(ServerLine) /\ Len(sendBuf'[s]) = L + 1
      /\ DOMAIN sendBuf'[s] = 1..(L + 1) /\ sendBuf'[s][L + 1] = line
      /\ \A i \in 1..L : sendBuf'[s][i] = sendBuf[s][i]
  <2>1. sendBuf[s] \in Seq(ServerLine)
    BY DEF TypeOK
  <2> QED
    BY <1>0, <2>1, AppendProperties, LenProperties
<1>2. /\ \A i \in 0..L : ViewAfter(s, i)' = ViewAfter(s, i)
      /\ Final(s)' = ApplyPresence(Final(s), line)
      /\ ViewAfter(s, L + 1)' = ApplyPresence(Final(s), line)
  BY <1>0, <1>1, ShownAppend DEF ViewAfter, Final
<1>3. \A i \in 1..(L + 1) : (i \in 1..L /\ i \in 0..L) \/ i = L + 1
  BY <1>0
<1>4. \A i \in DOMAIN sendBuf'[s] :
         /\ sendBuf'[s][i].type = "signal"
         /\ sendBuf'[s][i].from \notin quiet' \cup {userId'[s]}
         => sendBuf'[s][i].from \in ViewAfter(s, i)'
  <2> SUFFICES ASSUME NEW i \in DOMAIN sendBuf'[s], sendBuf'[s][i].type = "signal",
                      sendBuf'[s][i].from \notin quiet' \cup {userId'[s]}
               PROVE  sendBuf'[s][i].from \in ViewAfter(s, i)'
    OBVIOUS
  <2>1. CASE i \in 1..L /\ i \in 0..L
    BY <1>1, <1>2, <2>1
  <2>2. CASE i = L + 1
    BY <1>1, <1>2, <2>2
  <2> QED
    BY <1>1, <1>3, <2>1, <2>2
<1> QED
  BY <1>2, <1>4 DEF Informed

\* A line that is not about presence, and names no sender s does not know.
LEMMA InformedTold ==
    ASSUME TypeOK, NEW s \in Sockets, NEW line \in ServerLine, Informed(s),
           UNCHANGED <<dataVars, view, quiet>>,
           sendBuf'[s] = Append(sendBuf[s], line),
           line.type \notin Presence, line.type = "signal" => line.from \in Online
    PROVE  Informed(s)'
<1>1. ApplyPresence(Final(s), line) = Final(s)
  BY DEF ApplyPresence, Presence
<1>2. Online' = Online /\ userId' = userId /\ quiet' = quiet /\ view' = view
  BY DEF Online, dataVars
<1> QED
  BY <1>1, <1>2, InformedMore DEF Informed

\* The news that another user came or went.
LEMMA InformedChanged ==
    ASSUME TypeOK, NEW s \in Sockets, NEW u \in Users, NEW on \in BOOLEAN, Informed(s),
           u # userId[s], userId'[s] = userId[s], view'[s] = view[s], quiet' = quiet,
           Online' = IF on THEN Online \cup {u} ELSE Online \ {u},
           sendBuf'[s] = Append(sendBuf[s], Changed(u, on))
    PROVE  Informed(s)'
<1>1. Changed(u, on) \in ServerLine /\ Changed(u, on).type # "signal"
  BY DEF Changed, ServerLine
<1>2. ApplyPresence(Final(s), Changed(u, on)) =
          IF on THEN Final(s) \cup {u} ELSE Final(s) \ {u}
  BY DEF ApplyPresence, Changed
<1>3. /\ ApplyPresence(Final(s), Changed(u, on)) \subseteq Online' \ {userId'[s]}
      /\ (Online' \ {userId'[s]}) \ quiet' \subseteq ApplyPresence(Final(s), Changed(u, on))
  BY <1>2 DEF Informed
<1> QED
  BY <1>1, <1>3, InformedMore DEF Informed

-----------------------------------------------------------------------------
\* Nobody without an id waits for a forwarded message.
LEMMA NothingForwarded ==
    ASSUME IInv, NEW s \in Sockets, userId[s] = NoUser
    PROVE  \A i \in DOMAIN sendBuf[s] : sendBuf[s][i].type # "signal"
<1>1. sendBuf[s] \in Seq(ServerLine) /\ DOMAIN sendBuf[s] = 1..Len(sendBuf[s])
  BY LenProperties DEF IInv, TypeOK
<1>2. \A i \in 1..Len(sendBuf[s]) : sendBuf[s][i] \in ServerLine
  BY <1>1, ElementOfSeq
<1>3. \A line \in ServerLine : line.type = "signal" => line.to \in Users
  BY DEF ServerLine
<1>4. BufferOK(s)
  BY DEF IInv, Buffers
<1> QED
  BY <1>1, <1>2, <1>3, <1>4, ServerAssumption DEF BufferOK

\* Whoever is queued a line without room for it has missed it.
LEMMA QueuedOrRefused ==
    ASSUME TypeOK, NEW msg, DOMAIN msg \subseteq Sockets, QueueLines(msg),
           NEW s \in Sockets, s \notin refused'
    PROVE  /\ s \notin refused
           /\ s \notin DOMAIN msg => sendBuf'[s] = sendBuf[s]
           /\ s \in DOMAIN msg /\ msg[s].type \in Presence =>
                 sendBuf'[s] = Append(sendBuf[s], msg[s])
           /\ s \in DOMAIN msg => \/ sendBuf'[s] = sendBuf[s]
                                  \/ sendBuf'[s] = Append(sendBuf[s], msg[s])
BY DEF QueueLines

\* A login: the client learns who is online, the others learn of it.
LEMMA LoginPresence ==
    ASSUME IInv, PresenceConverges, ReadLine, RouteLogin
    PROVE  PresenceConverges'
<1> DEFINE u == Line.userId
           msg == [r \in {cur} \cup Audience(clients, u) |->
                      IF r = cur THEN Snapshot(Online) ELSE Changed(u, TRUE)]
<1>1. /\ u \in Users /\ userId[cur] = NoUser /\ users[u] = NoSocket /\ cur \in Sockets
      /\ userId' = [userId EXCEPT ![cur] = u] /\ users' = [users EXCEPT ![u] = cur]
      /\ clients' = clients /\ quiet' = quiet /\ view' = view /\ QueueLines(msg)
  BY RoutedLine DEF RouteLogin, MayRegister, Register, ReadLine, Consume
<1>2. TypeOK /\ DOMAIN msg \subseteq Sockets
  BY <1>1 DEF Audience, IInv, TypeOK
<1>3. Online' = Online \cup {u} /\ u \notin Online /\ Online \subseteq Users
  BY <1>1, <1>2, ServerAssumption DEF Online, TypeOK
<1>4. ASSUME NEW s \in Sockets, Told(s)' PROVE Informed(s)'
  <2>0. s \in clients /\ s \notin refused' /\ userId'[s] # NoUser
    BY <1>1, <1>4 DEF Told
  <2>1. CASE s = cur
    <3>1. s \in DOMAIN msg /\ msg[s] = Snapshot(Online) /\ msg[s].type \in Presence
      BY <2>1 DEF Snapshot, Presence
    <3>2. sendBuf'[s] = Append(sendBuf[s], Snapshot(Online))
      <4> HIDE DEF msg
      <4> QED
        BY <1>1, <1>2, <2>0, <3>1, QueuedOrRefused
    <3>3. ApplyPresence(Final(s), Snapshot(Online)) = Online
      BY DEF ApplyPresence, Snapshot
    <3>4. Snapshot(Online) \in ServerLine /\ Snapshot(Online).type # "signal"
      BY <1>3 DEF Snapshot, ServerLine
    <3>5. Online = Online' \ {userId'[s]}
      BY <1>1, <1>2, <1>3, <2>1 DEF TypeOK
    <3>6. \A i \in DOMAIN sendBuf[s] : sendBuf[s][i].type # "signal"
      BY <1>1, <2>1, NothingForwarded
    <3> QED
      BY <1>1, <1>2, <3>2, <3>3, <3>4, <3>5, <3>6, InformedMore
  <2>2. CASE s # cur
    <3>1. userId'[s] = userId[s] /\ userId[s] # NoUser
      BY <1>1, <1>2, <2>0, <2>2 DEF TypeOK
    <3>2. u # userId[s]
      BY <1>1, <1>2, <3>1, ServerAssumption DEF IInv, RegistryConsistent
    <3>3. s \in DOMAIN msg /\ msg[s] = Changed(u, TRUE) /\ msg[s].type \in Presence
      BY <2>0, <2>2, <3>1, <3>2 DEF Audience, Changed, Presence
    <3>4. s \notin refused /\ sendBuf'[s] = Append(sendBuf[s], Changed(u, TRUE))
      <4> HIDE DEF msg
      <4> QED
        BY <1>1, <1>2, <2>0, <3>3, QueuedOrRefused, ZenonT(60)
    <3>5. Informed(s)
      BY <2>0, <3>1, <3>4, PresenceMeaning
    <3> HIDE DEF u
    <3> QED
      BY <1>1, <1>2, <1>3, <3>1, <3>2, <3>4, <3>5, InformedChanged
  <2> QED
    BY <2>1, <2>2
<1>5. clients' \subseteq Sockets
  BY <1>1, <1>2 DEF TypeOK
<1> QED
  BY <1>4, <1>5 DEF PresenceConverges, Informed, Final, Told

\* The id is taken and nobody is told, the client itself included.
LEMMA CutShortPresence ==
    ASSUME IInv, PresenceConverges, ReadLine, RouteLoginCutShort
    PROVE  PresenceConverges'
<1> DEFINE u == Line.userId
<1>1. /\ u \in Users /\ userId[cur] = NoUser /\ users[u] = NoSocket /\ cur \in Sockets
      /\ userId' = [userId EXCEPT ![cur] = u] /\ users' = [users EXCEPT ![u] = cur]
      /\ clients' = clients /\ quiet' = quiet \cup {u} /\ view' = view
      /\ refused' = refused \cup {cur}
      /\ \A s \in Sockets \ {cur} : sendBuf'[s] = sendBuf[s]
  BY RoutedLine DEF RouteLoginCutShort, MayRegister, ReadLine, Consume, IInv, TypeOK
<1>2. TypeOK
  BY DEF IInv
<1>3. Online' = Online \cup {u} /\ u \in quiet'
  BY <1>1, <1>2, ServerAssumption DEF Online, TypeOK
<1>4. ASSUME NEW s \in Sockets, Told(s)' PROVE Informed(s)'
  <2>0. s \in clients /\ s \notin refused' /\ userId'[s] # NoUser
    BY <1>1, <1>4 DEF Told
  <2>1. s # cur
    BY <1>1, <2>0
  <2>2. s \notin refused /\ sendBuf'[s] = sendBuf[s]
    BY <1>1, <2>0, <2>1
  <2>3. userId'[s] = userId[s] /\ userId[s] # NoUser
    BY <1>1, <1>2, <2>0, <2>1 DEF TypeOK
  <2>4. u # userId[s]
    BY <1>1, <1>2, <2>3, ServerAssumption DEF IInv, RegistryConsistent
  <2>5. Informed(s)
    BY <2>0, <2>2, <2>3, PresenceMeaning
  <2> HIDE DEF u
  <2> QED
    BY <1>1, <1>3, <2>2, <2>3, <2>4, <2>5, InformedStill
<1>5. clients' \subseteq Sockets
  BY <1>1, <1>2 DEF TypeOK
<1> QED
  BY <1>4, <1>5 DEF PresenceConverges, Informed, Final, Told

\* An answer, or a message from a user who is online.
LEMMA ToldPresence ==
    ASSUME IInv, PresenceConverges, ReadLine, NEW r \in clients, NEW line \in ServerLine,
           Tell(r, line), UNCHANGED <<dataVars, quiet>>, line.type \notin Presence,
           line.type = "signal" => line.from \in Online
    PROVE  PresenceConverges'
<1> DEFINE msg == [q \in {r} |-> line]
<1>1. /\ r \in Sockets /\ TypeOK /\ DOMAIN msg = {r} /\ msg[r] = line
      /\ QueueLines(msg) /\ view' = view
  BY DEF Tell, IInv, TypeOK, ReadLine, Consume
<1> HIDE DEF msg
<1>2. /\ Online' = Online /\ userId' = userId /\ clients' = clients /\ quiet' = quiet
  BY DEF Online, dataVars
<1>3. ASSUME NEW s \in Sockets, Told(s)' PROVE Informed(s)'
  <2>1. s \in clients /\ s \notin refused' /\ userId[s] # NoUser
    BY <1>2, <1>3 DEF Told
  <2>2. /\ s \notin refused
        /\ \/ sendBuf'[s] = sendBuf[s]
           \/ sendBuf'[s] = Append(sendBuf[s], line)
    BY <1>1, <2>1, QueuedOrRefused
  <2>3. Informed(s)
    BY <1>1, <2>1, <2>2, PresenceMeaning
  <2>4. CASE sendBuf'[s] = sendBuf[s]
    BY <1>1, <1>2, <2>3, <2>4, InformedStill
  <2>5. CASE sendBuf'[s] = Append(sendBuf[s], line)
    BY <1>1, <1>2, <2>3, <2>5, InformedTold
  <2> QED
    BY <2>2, <2>4, <2>5
<1>4. clients' \subseteq Sockets
  BY <1>1, <1>2 DEF TypeOK
<1> QED
  BY <1>3, <1>4 DEF PresenceConverges, Informed, Final, Told

LEMMA ReadPresence ==
    ASSUME IInv, PresenceConverges, ReadLine
    PROVE  PresenceConverges'
<1>1. cur \in Sockets /\ cur \in clients /\ Line \in ClientLine
  BY RoutedLine
<1>2. ASSUME NEW line \in ServerLine, line.type \in {"pong", "error"}, Answer(line)
      PROVE  PresenceConverges'
  BY <1>1, <1>2, ToldPresence DEF Answer, Presence
<1>3. CASE RoutePing
  <2>1. Pong \in ServerLine /\ Pong.type = "pong"
    BY DEF Pong, ServerLine
  <2> QED
    BY <1>2, <1>3, <2>1 DEF RoutePing
<1>4. CASE \/ RouteLoginRefused \/ RouteNotLoggedIn \/ RouteUnsupported
           \/ RouteForbidden \/ RouteTargetOffline \/ RouteFailed
  <2>1. PICK code \in {"login_failed", "not_logged_in", "unsupported_message",
                       "sender_field_forbidden", "target_offline",
                       "route_failed"} : Answer(Error(code))
    BY <1>4 DEF RouteLoginRefused, RouteNotLoggedIn, RouteUnsupported,
                RouteForbidden, RouteTargetOffline, RouteFailed
  <2>2. Error(code) \in ServerLine /\ Error(code).type = "error"
    BY DEF Error, ServerLine
  <2> QED
    BY <1>2, <2>1, <2>2
<1>5. CASE RouteSignal
  <2> DEFINE line == [type |-> "signal", from |-> userId[cur], to |-> Line.to]
  <2>1. Target \in clients /\ Line.to \in Users
    BY <1>5, ServerAssumption DEF RouteSignal, Target, IInv, TypeOK
  <2>2. userId[cur] \in Users /\ userId[cur] # NoUser
    BY <1>1, <1>5 DEF RouteSignal, Known, IInv, TypeOK
  <2>3. userId[cur] \in Online
    BY <1>1, <2>2, ServerAssumption DEF Online, IInv, RegistryConsistent
  <2>4. line \in ServerLine /\ line.from = userId[cur] /\ line.type = "signal"
    BY <2>1, <2>2 DEF ServerLine
  <2>5. Tell(Target, line) /\ UNCHANGED <<dataVars, quiet>>
    BY <1>5 DEF RouteSignal
  <2> HIDE DEF line
  <2> QED
    BY <2>1, <2>3, <2>4, <2>5, ToldPresence DEF Presence
<1> QED
  BY <1>3, <1>4, <1>5, LoginPresence, CutShortPresence DEF ReadLine, RouteMessage

\* A user who leaves takes what was queued along; the others are told.
LEMMA DisconnectPresence ==
    ASSUME IInv, PresenceConverges, NEW s \in Sockets, DisconnectClient(s)
    PROVE  PresenceConverges'
<1> DEFINE u == userId[s]
           told == IF u = NoUser THEN {} ELSE Audience(clients \ {s}, u)
<1>1. /\ s \in clients /\ clients' = clients \ {s} /\ quiet' = quiet
      /\ userId' = [userId EXCEPT ![s] = NoUser] /\ view' = [view EXCEPT ![s] = {}]
      /\ users' = [v \in Users |-> IF v = u /\ users[v] = s THEN NoSocket ELSE users[v]]
      /\ refused' = (refused \cup {r \in told : ~Fits(r)}) \ {s}
      /\ sendBuf' = [r \in Sockets |->
                CASE r = s -> <<>>
                  [] r \in told /\ Fits(r) -> Append(sendBuf[r], Changed(u, FALSE))
                  [] OTHER -> sendBuf[r]]
  BY DEF DisconnectClient, Disconnect, IInv, Control
<1>2. TypeOK /\ u \in Users \cup {NoUser} /\ NoUser \notin Users
  BY ServerAssumption DEF IInv, TypeOK
<1>3. u # NoUser => u \in Users /\ users[u] = s
  BY <1>2 DEF IInv, RegistryConsistent
<1>4. Online' = IF u = NoUser THEN Online ELSE Online \ {u}
  BY <1>1, <1>2, <1>3, ServerAssumption DEF Online, TypeOK
<1>5. ASSUME NEW r \in Sockets, Told(r)' PROVE Informed(r)'
  <2>1. r \in clients /\ r # s /\ r \notin refused'
    BY <1>1, <1>5 DEF Told
  <2>2. userId'[r] = userId[r] /\ userId[r] # NoUser /\ view'[r] = view[r]
    BY <1>1, <1>2, <1>5, <2>1 DEF Told, TypeOK
  <2>3. r \notin refused /\ Informed(r)
    BY <1>1, <1>2, <2>1, <2>2, PresenceMeaning
  <2>4. CASE u = NoUser
    <3>1. sendBuf'[r] = sendBuf[r]
      BY <1>1, <2>1, <2>4
    <3> HIDE DEF u
    <3> QED
      BY <1>1, <1>4, <2>2, <2>3, <2>4, <3>1, InformedStill
  <2>5. CASE u # NoUser
    <3>1. u # userId[r]
      BY <1>2, <1>3, <2>1, <2>2, <2>5 DEF IInv, RegistryConsistent
    <3>2. r \in told /\ Fits(r)
      BY <1>1, <2>1, <2>2, <2>5, <3>1 DEF Audience
    <3> HIDE DEF told
    <3>3. sendBuf'[r] = Append(sendBuf[r], Changed(u, FALSE))
      BY <1>1, <2>1, <3>2
    <3> HIDE DEF u
    <3> QED
      BY <1>1, <1>2, <1>3, <1>4, <2>2, <2>3, <2>5, <3>1, <3>3, InformedChanged
  <2> QED
    BY <2>4, <2>5
<1>6. clients' \subseteq Sockets
  BY <1>1, <1>2 DEF TypeOK
<1> QED
  BY <1>5, <1>6 DEF PresenceConverges, Informed, Final, Told

\* A line that is written moves from the buffer to what the client shows.
LEMMA WritePresence ==
    ASSUME IInv, PresenceConverges, WriteLine
    PROVE  PresenceConverges'
<1>1. /\ cur \in Sockets /\ sendBuf[cur] \in Seq(ServerLine) /\ sendBuf[cur] # <<>>
      /\ TypeOK /\ sendBuf' = [sendBuf EXCEPT ![cur] = Tail(@)]
      /\ view' = [view EXCEPT ![cur] = ApplyPresence(@, Head(sendBuf[cur]))]
      /\ clients' = clients /\ userId' = userId /\ users' = users
      /\ refused' = refused /\ quiet' = quiet
  BY DEF WriteLine, IInv, Control, TypeOK, dataVars, history
<1>2. Online' = Online
  BY <1>1 DEF Online
<1>3. ASSUME NEW s \in Sockets, Told(s)' PROVE Informed(s)'
  <2>1. Informed(s)
    BY <1>1, <1>3, PresenceMeaning DEF Told
  <2>2. CASE s # cur
    <3>1. view'[s] = view[s] /\ sendBuf'[s] = sendBuf[s]
      BY <1>1, <2>2 DEF TypeOK
    <3> QED
      BY <1>1, <1>2, <2>1, <3>1, InformedStill
  <2>3. CASE s = cur
    <3>0. PICK L \in Nat : L = Len(Tail(sendBuf[s]))
      BY <1>1, <2>3, HeadTailProperties, LenProperties
    <3>1. /\ sendBuf'[s] = Tail(sendBuf[s])
          /\ view'[s] = ApplyPresence(view[s], Head(sendBuf[s]))
      BY <1>1, <2>3 DEF TypeOK
    <3>2. /\ Tail(sendBuf[s]) \in Seq(ServerLine) /\ L + 1 = Len(sendBuf[s])
          /\ DOMAIN Tail(sendBuf[s]) = 1..L /\ DOMAIN sendBuf[s] = 1..(L + 1)
          /\ \A i \in 1..L : Tail(sendBuf[s])[i] = sendBuf[s][i + 1]
      BY <1>1, <2>3, <3>0, HeadTailProperties, LenProperties
    <3>3. \A i \in 0..L : ViewAfter(s, i)' = ViewAfter(s, i + 1)
      BY <1>1, <2>3, <3>0, <3>1, ShownTail DEF ViewAfter
    <3>4. Final(s)' = Final(s)
      <4>1. L \in 0..L /\ Final(s)' = ViewAfter(s, L)' /\ Final(s) = ViewAfter(s, L + 1)
        BY <3>0, <3>1, <3>2 DEF Final, ViewAfter
      <4> QED
        BY <3>3, <4>1
    <3>5. \A i \in 1..L : i \in 0..L /\ i + 1 \in 1..(L + 1)
      BY <3>0
    <3>6. ASSUME NEW i \in DOMAIN sendBuf'[s], sendBuf'[s][i].type = "signal",
                 sendBuf'[s][i].from \notin quiet' \cup {userId'[s]}
          PROVE  sendBuf'[s][i].from \in ViewAfter(s, i)'
      <4>1. i \in 1..L /\ sendBuf'[s][i] = sendBuf[s][i + 1] /\ i + 1 \in DOMAIN sendBuf[s]
        BY <3>1, <3>2, <3>5
      <4>2. sendBuf[s][i + 1].from \in ViewAfter(s, i + 1)
        BY <1>1, <2>1, <3>6, <4>1 DEF Informed
      <4> QED
        BY <3>3, <3>5, <4>1, <4>2
    <3>7. /\ Final(s)' \subseteq Online' \ {userId'[s]}
          /\ (Online' \ {userId'[s]}) \ quiet' \subseteq Final(s)'
      BY <1>1, <1>2, <2>1, <3>4 DEF Informed
    <3> QED
      BY <3>6, <3>7 DEF Informed
  <2> QED
    BY <2>2, <2>3
<1>4. clients' \subseteq Sockets
  BY <1>1 DEF TypeOK
<1> QED
  BY <1>3, <1>4 DEF PresenceConverges, Informed, Final, Told

\* A client that joins has no id yet; all other steps leave presence alone.
LEMMA OtherPresence ==
    ASSUME IInv, PresenceConverges,
           UNCHANGED <<userId, users, sendBuf, view, refused, quiet>>,
           \A s \in clients' : s \in clients \/ userId[s] = NoUser
    PROVE  PresenceConverges'
<1>1. Online' = Online
  BY DEF Online
<1>2. \A s, i : ViewAfter(s, i)' = ViewAfter(s, i)
  BY DEF ViewAfter
<1> QED
  BY <1>1, <1>2 DEF PresenceConverges, ViewAfter

\* What a client has been told is true, and complete, for any number of
\* clients and ids: whoever missed no presence line will show, when it has
\* read what is queued for it, the others that are online, and hears of a
\* user before it hears from that user.
THEOREM PresenceTheorem == Spec => []PresenceConverges
<1>1. Init => PresenceConverges
  BY DEF Init, PresenceConverges
<1>2. IInv /\ PresenceConverges /\ [Next]_vars => PresenceConverges'
  <2> SUFFICES ASSUME IInv, PresenceConverges, [Next]_vars PROVE PresenceConverges'
    OBVIOUS
  <2> USE DEF loopVars, dataVars, netVars, history
  <2>1. CASE ReadLine
    BY <2>1, ReadPresence
  <2>2. CASE WriteLine
    BY <2>2, WritePresence
  <2>3. ASSUME NEW s \in Sockets, DisconnectClient(s) PROVE PresenceConverges'
    BY <2>3, DisconnectPresence
  <2>4. ASSUME NEW s \in Sockets, AcceptClient(s) PROVE PresenceConverges'
    <3>1. s \notin clients /\ userId[s] = NoUser
      BY <2>4 DEF IInv, Control, RegistryConsistent, TypeOK, AcceptClient
    <3> QED
      BY <2>4, <3>1, OtherPresence DEF AcceptClient
  <2>5. CASE \/ SelectReady \/ StopLoop \/ SelectFails
             \/ \E s \in Sockets : Serve(s)
             \/ AcceptFails \/ ReadOversized \/ ReadEnd \/ ReadWouldBlock
             \/ WriteReturns \/ WriteFails \/ ServiceDone \/ ShutdownDone
    <3>1. UNCHANGED <<clients, userId, users, sendBuf, view, refused, quiet>>
      BY <2>5 DEF SelectReady, Select, StopLoop, SelectFails, Shutdown, Serve,
                  AcceptFails, ReadOversized, ReadEnd, Drop, ReadWouldBlock, WriteReturns, WriteFails,
                  ServiceDone, ShutdownDone
    <3> QED
      BY <3>1, OtherPresence
  <2>6. CASE Environment \/ Idle \/ UNCHANGED vars
    <3>1. CASE SelectFails
      BY <2>5, <3>1
    <3>2. CASE Idle \/ UNCHANGED vars \/ SignalHandler
      BY <3>2, OtherPresence DEF Idle, SignalHandler, vars
    <3>3. ASSUME NEW s \in Sockets, Connect(s) PROVE PresenceConverges'
      BY <3>3, OtherPresence DEF Connect
    <3>4. ASSUME NEW s \in Sockets, NEW line \in Traffic, ClientSends(s, line)
          PROVE  PresenceConverges'
      BY <3>4, OtherPresence DEF ClientSends
    <3>5. ASSUME NEW s \in Sockets, NEW how \in {"closed", "reset"}, ClientEnds(s, how)
          PROVE  PresenceConverges'
      BY <3>5, OtherPresence DEF ClientEnds
    <3> QED
      BY <2>6, <3>1, <3>2, <3>3, <3>4, <3>5 DEF Environment
  <2> QED
    BY <2>1, <2>2, <2>3, <2>4, <2>5, <2>6 DEF Next, Server
<1> QED
  BY <1>1, <1>2, Invariance, PTL DEF Spec
=============================================================================
