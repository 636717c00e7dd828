------------------------- MODULE PeerSessionProofs -------------------------
(***************************************************************************)
(* The session of two peers, for any numbers of candidates, offers,        *)
(* answers and changes of the connection's state; and the statistics of    *)
(* its media that the dialog shows.                                        *)
(***************************************************************************)
EXTENDS PeerSession, MediaStats, SequenceTheorems, TLAPS

-----------------------------------------------------------------------------
(* Queues.                                                                 *)

LEMMA AppendSet ==
    ASSUME NEW S, NEW s \in Seq(S), NEW e \in S
    PROVE  /\ ToSet(Append(s, e)) = ToSet(s) \cup {e}
           /\ IsInjective(s) /\ e \notin ToSet(s) => IsInjective(Append(s, e))
<1> DEFINE t == Append(s, e)
<1>1. /\ t \in Seq(S) /\ Len(t) = Len(s) + 1 /\ t[Len(s) + 1] = e
      /\ \A i \in 1..Len(s) : t[i] = s[i]
  BY AppendProperties
<1> HIDE DEF t
<1>2. DOMAIN t = 1..Len(t) /\ DOMAIN s = 1..Len(s) /\ Len(s) \in Nat
  BY <1>1
<1>3. \A i : i \in 1..Len(t) <=> i \in 1..Len(s) \/ i = Len(s) + 1
  BY <1>1, <1>2
<1>4. ToSet(t) = ToSet(s) \cup {e}
  BY <1>1, <1>2, <1>3 DEF ToSet
<1>5. IsInjective(s) /\ e \notin ToSet(s) => IsInjective(t)
  BY <1>1, <1>2, <1>3 DEF ToSet, IsInjective
<1> QED
  BY <1>4, <1>5 DEF t

LEMMA TailSet ==
    ASSUME NEW S, NEW s \in Seq(S), s # <<>>
    PROVE  /\ ToSet(s) = {Head(s)} \cup ToSet(Tail(s))
           /\ IsInjective(s) => IsInjective(Tail(s)) /\ Head(s) \notin ToSet(Tail(s))
<1> DEFINE t == Tail(s)
<1>1. /\ t \in Seq(S) /\ Len(t) = Len(s) - 1 /\ Len(s) \in Nat \ {0}
      /\ \A i \in 1..Len(t) : t[i] = s[i+1]
  BY HeadTailProperties, EmptySeq
<1>2. Head(s) = s[1]
  OBVIOUS
<1> HIDE DEF t
<1>3. DOMAIN t = 1..Len(t) /\ DOMAIN s = 1..Len(s) /\ Len(t) \in Nat
  BY <1>1
<1>4. \A i \in 1..Len(t) : i + 1 \in 1..Len(s) /\ i + 1 # 1
  BY <1>1, <1>3
<1>5. 1 \in 1..Len(s) /\ \A i \in 1..Len(s) : i = 1 \/ (i - 1 \in 1..Len(t) /\ i = (i - 1) + 1)
  BY <1>1, <1>3
<1>6. ToSet(s) \subseteq {s[1]} \cup ToSet(t)
  <2> SUFFICES ASSUME NEW i \in 1..Len(s), i # 1 PROVE s[i] \in ToSet(t)
    BY <1>3 DEF ToSet
  <2>1. i - 1 \in 1..Len(t) /\ t[i-1] = s[i]
    BY <1>1, <1>5
  <2> QED
    BY <1>3, <2>1 DEF ToSet
<1>7. ToSet(t) \subseteq ToSet(s) /\ s[1] \in ToSet(s)
  BY SMTT(60), <1>1, <1>3, <1>4, <1>5 DEF ToSet
<1>8. ASSUME IsInjective(s) PROVE IsInjective(t) /\ s[1] \notin ToSet(t)
  <2>1. ASSUME NEW i \in 1..Len(t), NEW j \in 1..Len(t), t[i] = t[j] PROVE i = j
    <3>1. i + 1 = j + 1
      BY <1>1, <1>3, <1>4, <1>8, <2>1 DEF IsInjective
    <3> QED
      BY <1>3, <3>1
  <2>2. ASSUME NEW i \in 1..Len(t), t[i] = s[1] PROVE FALSE
    BY <1>1, <1>3, <1>4, <1>5, <1>8, <2>2 DEF IsInjective
  <2> QED
    BY <1>3, <2>1, <2>2 DEF IsInjective, ToSet
<1> QED
  BY <1>2, <1>6, <1>7, <1>8 DEF t

LEMMA EmptySet ==
    ASSUME NEW S, NEW s \in Seq(S)
    PROVE  /\ ToSet(<<>>) = {} /\ IsInjective(<<>>)
           /\ s = <<>> <=> ToSet(s) = {}
           /\ ToSet(s) \subseteq S
<1>1. ToSet(<<>>) = {} /\ IsInjective(<<>>)
  BY DEF ToSet, IsInjective
<1>2. s # <<>> => ToSet(s) # {}
  BY TailSet, ZenonT(60)
<1>3. ToSet(s) \subseteq S
  BY ElementOfSeq DEF ToSet
<1> QED
  BY <1>1, <1>2, <1>3

LEMMA SingleSet ==
    ASSUME NEW S, NEW e \in S
    PROVE  <<e>> \in Seq(S) /\ ToSet(<<e>>) = {e} /\ IsInjective(<<e>>)
BY DEF ToSet, IsInjective

-----------------------------------------------------------------------------
(* Types and control.                                                      *)

\* An operation is added to those of the connection, or the first is done.
LEMMA TodoTyped ==
    ASSUME pc \in Connection, NEW op \in Operation
    PROVE  /\ Append(pc.todo, op) \in Seq(Operation)
           /\ pc.todo # <<>> =>
                /\ Tail(pc.todo) \in Seq(Operation)
                /\ Append(Tail(pc.todo), op) \in Seq(Operation)
                /\ <<op>> \o Tail(pc.todo) \in Seq(Operation)
                /\ ToSet(Tail(pc.todo)) \subseteq ToSet(pc.todo)
                /\ ToSet(Append(Tail(pc.todo), op)) \subseteq ToSet(pc.todo) \cup {op}
                /\ ToSet(<<op>> \o Tail(pc.todo)) \subseteq ToSet(pc.todo) \cup {op}
           /\ ToSet(Append(pc.todo, op)) = ToSet(pc.todo) \cup {op}
<1>1. pc.todo \in Seq(Operation)
  BY DEF Connection
<1>2. Append(pc.todo, op) \in Seq(Operation) /\ ToSet(Append(pc.todo, op)) = ToSet(pc.todo) \cup {op}
  BY <1>1, AppendProperties, AppendSet
<1>3. ASSUME pc.todo # <<>>
      PROVE  /\ Tail(pc.todo) \in Seq(Operation)
             /\ Append(Tail(pc.todo), op) \in Seq(Operation)
             /\ <<op>> \o Tail(pc.todo) \in Seq(Operation)
             /\ ToSet(Tail(pc.todo)) \subseteq ToSet(pc.todo)
             /\ ToSet(Append(Tail(pc.todo), op)) \subseteq ToSet(pc.todo) \cup {op}
             /\ ToSet(<<op>> \o Tail(pc.todo)) \subseteq ToSet(pc.todo) \cup {op}
  <2> DEFINE t == Tail(pc.todo)
             more == <<op>> \o t
  <2>1. t \in Seq(Operation) /\ ToSet(t) \subseteq ToSet(pc.todo)
    BY <1>1, <1>3, HeadTailProperties, TailSet
  <2> HIDE DEF t
  <2>2. Append(t, op) \in Seq(Operation) /\ ToSet(Append(t, op)) = ToSet(t) \cup {op}
    BY <2>1, AppendProperties, AppendSet
  <2>3. <<op>> \in Seq(Operation) /\ Len(<<op>>) = 1 /\ <<op>>[1] = op
    OBVIOUS
  <2>4. /\ more \in Seq(Operation) /\ Len(more) = 1 + Len(t)
        /\ \A i \in 1..(1 + Len(t)) : more[i] = IF i <= 1 THEN <<op>>[i] ELSE t[i - 1]
    BY <2>1, <2>3, ConcatProperties
  <2> HIDE DEF more
  <2>5. DOMAIN more = 1..(1 + Len(t)) /\ DOMAIN t = 1..Len(t) /\ Len(t) \in Nat
    BY <2>1, <2>4
  <2>6. \A i \in 1..(1 + Len(t)) : more[i] = op \/ more[i] \in ToSet(t)
    <3> SUFFICES ASSUME NEW i \in 1..(1 + Len(t)), i # 1 PROVE more[i] \in ToSet(t)
      BY <2>3, <2>4, <2>5
    <3>1. i - 1 \in 1..Len(t) /\ more[i] = t[i - 1]
      BY <2>4, <2>5
    <3> QED
      BY <2>5, <3>1 DEF ToSet
  <2>7. ToSet(more) \subseteq ToSet(t) \cup {op}
    BY <2>5, <2>6 DEF ToSet
  <2> QED
    BY <2>1, <2>2, <2>4, <2>7 DEF t, more
<1> QED
  BY <1>2, <1>3

\* Where the threads, the connection and the flags are in step.
Control ==
    /\ place.rtc = "send" => outbox # <<>>
    /\ place.ui = "call" => call # "none"
    /\ ~closed /\ count.offers > 0 => sdpCallback # "none"
    /\ ToSet(pc.todo) \cap {"setLocal", "announce"} # {} => localSdp # "none"

\* Closing is not undone, and the connection outlives it until teardown.
Closing ==
    /\ ~pc.open => closed
    /\ place.ui = "teardown" => closed
    /\ closed => place.ui = "teardown" \/ ~pc.open
    /\ closed => pendingRemote = <<>>

\* Before the first negotiation nothing happens on the other thread.
Fresh ==
    count.offers = 0 =>
        /\ ~pc.local /\ pc.todo = <<>>
        /\ count.local = 0 /\ count.remote = 0 /\ call = "none"
        /\ sent = <<>> /\ outbox = <<>> /\ place.rtc = "idle" /\ ~announced

Typed == DataOK /\ Control /\ Closing /\ Fresh

LEMMA TypedInit == Init => Typed
<1>1. <<>> \in Seq(1..MaxRemote) /\ <<>> \in Seq(1..MaxLocal) /\ <<>> \in Seq(Message)
      /\ <<>> \in Seq(Operation)
  OBVIOUS
<1>2. Init => count \in Count
  BY SessionAssumption DEF Init, Count
<1>3. Init => pc \in Connection
  BY <1>1 DEF Init, Connection
<1>4. Init => DataOK
  BY <1>1, <1>2, <1>3 DEF Init, DataOK, Threads, SessionState
<1>5. Init => /\ place.rtc = "idle" /\ place.ui = "idle" /\ pc.todo = <<>> /\ pc.open
              /\ ~pc.local /\ count.offers = 0 /\ count.local = 0 /\ count.remote = 0
  BY DEF Init, Threads
<1>6. Init => Control /\ Closing /\ Fresh
  <2>1. ToSet(<<>>) = {}
    BY DEF ToSet
  <2> QED
    BY <1>5, <2>1 DEF Init, Control, Closing, Fresh
<1> QED
  BY <1>4, <1>6 DEF Typed

Updating == {"compare", "store", "report"}
Place == {"idle", "compare", "store", "report", "call", "add", "send", "teardown"}

\* What Go does.
LEMMA GoEffect ==
    ASSUME DataOK, NEW t \in Threads, NEW p \in Place, Go(t, p)
    PROVE  /\ place' \in [Threads -> Place] /\ place'[t] = p
           /\ \A other \in Threads \ {t} : place'[other] = place[other]
BY DEF DataOK, Go, Place

LEMMA CountEffect ==
    ASSUME DataOK, NEW kind \in {"local", "remote", "offers", "answers", "events"},
           NEW max, Another(kind, max),
           max = [local |-> MaxLocal, remote |-> MaxRemote, offers |-> MaxOffers,
                  answers |-> MaxAnswers, events |-> MaxEvents][kind]
    PROVE  /\ count' \in Count /\ count'[kind] = count[kind] + 1
           /\ \A other \in {"local", "remote", "offers", "answers", "events"} \ {kind} :
                 count'[other] = count[other]
<1>1. count \in Count
  BY DEF DataOK
<1>2. count' = [count EXCEPT ![kind] = count[kind] + 1] /\ count[kind] < max
  BY DEF Another
<1>3. CASE kind = "local"
  BY <1>1, <1>2, <1>3, SessionAssumption DEF Count
<1>4. CASE kind = "remote"
  BY <1>1, <1>2, <1>4, SessionAssumption DEF Count
<1>5. CASE kind = "offers"
  BY <1>1, <1>2, <1>5, SessionAssumption DEF Count
<1>6. CASE kind = "answers"
  BY <1>1, <1>2, <1>6, SessionAssumption DEF Count
<1>7. CASE kind = "events"
  BY <1>1, <1>2, <1>7, SessionAssumption DEF Count
<1> QED
  BY <1>3, <1>4, <1>5, <1>6, <1>7

LEMMA AfterIsPlace ==
    ASSUME NEW t \in Threads
    PROVE  /\ After(t) \in {"idle", "call"}
           /\ After(t) = "call" => t = "ui" /\ call # "none"
BY DEF After

\* UpdateState on either thread moves that thread on.
LEMMA UpdateEffect ==
    ASSUME Typed, NEW t \in Threads, UpdateState(t)
    PROVE  /\ place[t] \in Updating
           /\ \E p \in Place : Go(t, p) /\ p \in Updating \cup {"idle", "call"}
                               /\ (p = "call" => t = "ui" /\ call # "none")
           /\ {state', reported'} \subseteq SessionState
           /\ UNCHANGED <<target, toAdd, callVars, sessionVars, pc, count, peerVars>>
<1>1. After(t) \in {"idle", "call"} /\ (After(t) = "call" => t = "ui" /\ call # "none")
  BY AfterIsPlace
<1>2. target[t] \in SessionState /\ state \in SessionState /\ reported \in SessionState
  BY DEF Typed, DataOK
<1>3. UNCHANGED <<target, toAdd, callVars, sessionVars, pc, count, peerVars>>
  BY DEF UpdateState
<1>4. CASE Compare(t)
  BY <1>1, <1>2, <1>3, <1>4 DEF Compare, stateVars, Updating, Place
<1>5. CASE Store(t)
  BY <1>1, <1>2, <1>3, <1>5 DEF Store, Updating, Place
<1>6. CASE Report(t)
  BY <1>1, <1>2, <1>3, <1>6 DEF Report, Updating, Place
<1> QED
  BY <1>4, <1>5, <1>6 DEF UpdateState

LEMMA TypedUpdate ==
    ASSUME Typed, NEW t \in Threads, UpdateState(t)
    PROVE  Typed'
<1>1. PICK p \in Place : Go(t, p) /\ p \in Updating \cup {"idle", "call"}
                         /\ (p = "call" => t = "ui" /\ call # "none")
  BY UpdateEffect
<1>2. /\ place[t] \in Updating /\ {state', reported'} \subseteq SessionState
      /\ UNCHANGED <<target, toAdd, callVars, sessionVars, pc, count, peerVars>>
  BY UpdateEffect
<1>3. /\ place' \in [Threads -> Place] /\ place'[t] = p
      /\ \A other \in Threads \ {t} : place'[other] = place[other]
  BY <1>1, GoEffect DEF Typed
<1>4. UNCHANGED <<target, toAdd, call, outbox, closed, announced, remoteSet, sdpCallback,
                  localSdp, pendingLocal, pendingRemote, pc, count, sent, added>>
  BY <1>2 DEF callVars, sessionVars, peerVars
<1>5. DataOK'
  BY <1>1, <1>2, <1>3, <1>4 DEF Typed, DataOK, Threads, Place, Updating
<1>6. Control' /\ Closing' /\ Fresh'
  BY <1>1, <1>2, <1>3, <1>4 DEF Typed, Control, Closing, Fresh, Threads, Place, Updating
<1> QED
  BY <1>5, <1>6 DEF Typed

LEMMA TypedAdd ==
    ASSUME Typed, NEW t \in Threads, AddCandidate(t) \/ AddedAll(t)
    PROVE  Typed'
<1> USE DEF Typed
<1>1. CASE AddCandidate(t)
  <2>1. /\ toAdd[t] \in Seq(1..MaxRemote) /\ toAdd[t] # <<>> /\ place[t] = "add"
        /\ toAdd' = [toAdd EXCEPT ![t] = Tail(toAdd[t])]
        /\ added' = IF pc.open THEN Append(added, Head(toAdd[t])) ELSE added
    BY <1>1 DEF AddCandidate, DataOK
  <2>2. Head(toAdd[t]) \in 1..MaxRemote /\ Tail(toAdd[t]) \in Seq(1..MaxRemote)
    BY <2>1, HeadTailProperties
  <2>3. UNCHANGED <<place, target, call, outbox, state, reported, closed, announced, remoteSet,
                    sdpCallback, localSdp, pendingLocal, pendingRemote, pc, count, sent>>
    BY <1>1 DEF AddCandidate, callVars, stateVars, sessionVars
  <2>4. added' \in Seq(1..MaxRemote)
    BY <2>1, <2>2, AppendProperties DEF DataOK
  <2>5. DataOK'
    BY <2>1, <2>2, <2>3, <2>4 DEF DataOK
  <2> QED
    BY <2>3, <2>5 DEF Control, Closing, Fresh
<1>2. CASE AddedAll(t)
  <2>1. Go(t, "idle") /\ place[t] = "add"
        /\ UNCHANGED <<target, toAdd, call, outbox, state, reported, closed, announced, remoteSet,
                       sdpCallback, localSdp, pendingLocal, pendingRemote, count, sent, added>>
    BY <1>2 DEF AddedAll, callVars, stateVars, sessionVars, peerVars
  <2>2. /\ place' \in [Threads -> Place] /\ place'[t] = "idle"
        /\ \A other \in Threads \ {t} : place'[other] = place[other]
    BY <2>1, GoEffect DEF Place
  <2>3. /\ pc' \in Connection
        /\ pc'.open = pc.open /\ pc'.local = pc.local
        /\ pc'.todo = pc.todo \/ (pc'.todo = Append(pc.todo, "createAnswer") /\ t = "rtc")
    BY <1>2, TodoTyped DEF AddedAll, DataOK, Connection, Operation
  <2>4. ToSet(pc'.todo) \cap {"setLocal", "announce"} = ToSet(pc.todo) \cap {"setLocal", "announce"}
    BY <2>3, TodoTyped DEF DataOK, Operation
  <2>5. DataOK'
    BY <1>2, <2>1, <2>2, <2>3 DEF AddedAll, DataOK, Place, Threads
  <2> QED
    BY <2>1, <2>2, <2>3, <2>4, <2>5 DEF Control, Closing, Fresh, Threads
<1> QED
  BY <1>1, <1>2

LEMMA BeginUpdateEffect ==
    ASSUME DataOK, NEW t \in Threads, NEW s \in SessionState, BeginUpdate(t, s)
    PROVE  /\ place' \in [Threads -> Place] /\ place'[t] = "compare"
           /\ \A other \in Threads \ {t} : place'[other] = place[other]
           /\ target' \in [Threads -> SessionState] /\ target'[t] = s
BY GoEffect DEF BeginUpdate, DataOK, Place

LEMMA TypedBegin ==
    ASSUME Typed, NEW via \in {"offer", "answer"},
           NEW operation \in {"createOffer", "setRemoteOffer"},
           BeginNegotiation(via, operation),
           pendingRemote' = <<>> \/ pendingRemote' = pendingRemote
    PROVE  Typed'
<1> USE DEF Typed
<1>1. /\ place.ui = "idle" /\ pc.open /\ sdpCallback' = via /\ announced' = FALSE
      /\ remoteSet' = FALSE /\ pendingLocal' = <<>> /\ call' = operation
      /\ BeginUpdate("ui", "Connecting") /\ Another("offers", MaxOffers)
      /\ UNCHANGED <<toAdd, outbox, state, reported, closed, localSdp, pc, sent, added>>
  BY DEF BeginNegotiation, stateVars, peerVars
<1>2. /\ place' \in [Threads -> Place] /\ place'.ui = "compare" /\ place'.rtc = place.rtc
      /\ target' \in [Threads -> SessionState]
  BY <1>1, BeginUpdateEffect DEF Threads, SessionState
<1>3. count' \in Count /\ count'.offers = count.offers + 1 /\ count.offers \in Nat
  BY <1>1, CountEffect DEF DataOK, Count
<1>4. <<>> \in Seq(1..MaxRemote) /\ <<>> \in Seq(1..MaxLocal)
  OBVIOUS
<1>5. \A t \in Threads : toAdd[t] # <<>> => place'[t] = "add"
  BY <1>1, <1>2 DEF DataOK, Threads
<1>6. DataOK'
  BY <1>1, <1>2, <1>3, <1>4, <1>5 DEF DataOK, Place
<1>7. Control' /\ Closing' /\ Fresh'
  BY <1>1, <1>2, <1>3 DEF Control, Closing, Fresh
<1> QED
  BY <1>6, <1>7

LEMMA TypedUI ==
    ASSUME Typed, CallConnection \/ ApplyRemoteAnswer \/ AddRemoteCandidate
                  \/ Close \/ CloseConnection
    PROVE  Typed'
<1> USE DEF Typed, callVars, stateVars, sessionVars, peerVars
<1>1. CASE CallConnection
  <2>1. /\ place.ui = "call" /\ Go("ui", "idle") /\ call' = "none"
        /\ pc' = [pc EXCEPT !.todo = Append(pc.todo, call)]
        /\ UNCHANGED <<target, toAdd, outbox, state, reported, closed, announced, remoteSet,
                       sdpCallback, localSdp, pendingLocal, pendingRemote, count, sent, added>>
    BY <1>1 DEF CallConnection
  <2>2. /\ place' \in [Threads -> Place] /\ place'.ui = "idle" /\ place'.rtc = place.rtc
    BY <2>1, GoEffect DEF Threads, Place
  <2>3. call \in {"createOffer", "setRemoteOffer"} /\ call \in Operation /\ count.offers # 0
    BY <2>1 DEF Control, DataOK, Fresh, Operation
  <2>4. /\ pc' \in Connection /\ pc'.open = pc.open /\ pc'.local = pc.local
        /\ ToSet(pc'.todo) \cap {"setLocal", "announce"} = ToSet(pc.todo) \cap {"setLocal", "announce"}
    BY <2>1, <2>3, TodoTyped DEF DataOK, Connection
  <2>5. \A t \in Threads : toAdd[t] # <<>> => place'[t] = "add"
    BY <2>1, <2>2 DEF DataOK, Threads
  <2>6. DataOK'
    BY <2>1, <2>2, <2>4, <2>5 DEF DataOK, Place
  <2> QED
    BY <2>1, <2>2, <2>3, <2>4, <2>6 DEF Control, Closing, Fresh
<1>2. CASE ApplyRemoteAnswer
  <2>1. /\ pc' = [pc EXCEPT !.todo = Append(pc.todo, "setRemoteAnswer")]
        /\ Another("answers", MaxAnswers) /\ count.offers > 0
        /\ UNCHANGED <<place, call, target, toAdd, outbox, state, reported, closed, announced, remoteSet,
                       sdpCallback, localSdp, pendingLocal, pendingRemote, sent, added>>
    BY <1>2 DEF ApplyRemoteAnswer, Negotiating
  <2>2. count' \in Count /\ count'.offers = count.offers
    BY <2>1, CountEffect
  <2>3. /\ pc' \in Connection /\ pc'.open = pc.open /\ pc'.local = pc.local
        /\ ToSet(pc'.todo) \cap {"setLocal", "announce"} = ToSet(pc.todo) \cap {"setLocal", "announce"}
    BY <2>1, TodoTyped DEF DataOK, Connection, Operation
  <2>4. DataOK'
    BY <2>1, <2>2, <2>3 DEF DataOK
  <2> QED
    BY <2>1, <2>2, <2>3, <2>4 DEF Control, Closing, Fresh
<1>3. CASE AddRemoteCandidate
  <2>1. /\ Another("remote", MaxRemote) /\ count.offers > 0 /\ place.ui = "idle" /\ pc.open
        /\ UNCHANGED <<target, call, outbox, state, reported, closed, announced, remoteSet,
                       sdpCallback, localSdp, pendingLocal, pc, sent, added>>
    BY <1>3 DEF AddRemoteCandidate, Negotiating
  <2>2. /\ count' \in Count /\ count'.offers = count.offers /\ count'.remote \in 1..MaxRemote
    <3>1. count' \in Count /\ count'.offers = count.offers /\ count'.remote = count.remote + 1
      BY <2>1, CountEffect
    <3>2. count.remote \in Nat /\ count'.remote \in 0..MaxRemote
      BY <3>1 DEF DataOK, Count
    <3> QED
      BY <3>1, <3>2
  <2>3. CASE remoteSet
    <3>1. /\ toAdd' = [toAdd EXCEPT !.ui = <<count'.remote>>] /\ Go("ui", "add")
          /\ pendingRemote' = pendingRemote
      BY <1>3, <2>3 DEF AddRemoteCandidate
    <3>2. /\ place' \in [Threads -> Place] /\ place'.ui = "add" /\ place'.rtc = place.rtc
      BY <3>1, GoEffect DEF Threads, Place
    <3>3. <<count'.remote>> \in Seq(1..MaxRemote)
      BY <2>2
    <3>4. /\ toAdd' \in [Threads -> Seq(1..MaxRemote)] /\ toAdd'.rtc = toAdd.rtc
      BY <3>1, <3>3 DEF DataOK, Threads
    <3>5. \A t \in Threads : toAdd'[t] # <<>> => place'[t] = "add"
      BY <3>2, <3>4 DEF DataOK, Threads
    <3>6. DataOK'
      BY <2>1, <2>2, <3>1, <3>2, <3>4, <3>5 DEF DataOK, Place
    <3> QED
      BY <2>1, <2>2, <3>1, <3>2, <3>6 DEF Control, Closing, Fresh
  <2>4. CASE ~remoteSet
    <3>1. /\ pendingRemote' = Append(pendingRemote, count'.remote)
          /\ UNCHANGED <<toAdd, place>>
      BY <1>3, <2>4 DEF AddRemoteCandidate
    <3>2. pendingRemote' \in Seq(1..MaxRemote)
      BY <2>2, <3>1, AppendProperties DEF DataOK
    <3>3. ~closed
      BY <2>1 DEF Closing
    <3>4. DataOK'
      BY <2>1, <2>2, <3>1, <3>2 DEF DataOK
    <3> QED
      BY <2>1, <2>2, <3>1, <3>3, <3>4 DEF Control, Closing, Fresh
  <2> QED
    BY <2>3, <2>4
<1>4. CASE Close
  <2>1. /\ place.ui = "idle" /\ ~closed /\ closed' = TRUE /\ sdpCallback' = "none"
        /\ pendingLocal' = <<>> /\ pendingRemote' = <<>> /\ Go("ui", "teardown")
        /\ UNCHANGED <<target, toAdd, call, outbox, state, reported, announced, remoteSet,
                       localSdp, pc, count, sent, added>>
    BY <1>4 DEF Close
  <2>2. /\ place' \in [Threads -> Place] /\ place'.ui = "teardown" /\ place'.rtc = place.rtc
    BY <2>1, GoEffect DEF Threads, Place
  <2>3. <<>> \in Seq(1..MaxRemote) /\ <<>> \in Seq(1..MaxLocal)
    OBVIOUS
  <2>4. \A t \in Threads : toAdd[t] # <<>> => place'[t] = "add"
    BY <2>1, <2>2 DEF DataOK, Threads
  <2>5. DataOK'
    BY <2>1, <2>2, <2>3, <2>4 DEF DataOK, Place
  <2> QED
    BY <2>1, <2>2, <2>5 DEF Control, Closing, Fresh
<1>5. CASE CloseConnection
  <2>1. /\ place.ui = "teardown" /\ pc' = [pc EXCEPT !.open = FALSE]
        /\ BeginUpdate("ui", "Closed")
        /\ UNCHANGED <<toAdd, call, outbox, state, reported, closed, announced, remoteSet,
                       sdpCallback, localSdp, pendingLocal, pendingRemote, count, sent, added>>
    BY <1>5 DEF CloseConnection
  <2>2. /\ place' \in [Threads -> Place] /\ place'.ui = "compare" /\ place'.rtc = place.rtc
        /\ target' \in [Threads -> SessionState]
    BY <2>1, BeginUpdateEffect DEF Threads, SessionState
  <2>3. pc' \in Connection /\ ~pc'.open /\ pc'.local = pc.local /\ pc'.todo = pc.todo
    BY <2>1 DEF DataOK, Connection
  <2>4. \A t \in Threads : toAdd[t] # <<>> => place'[t] = "add"
    BY <2>1, <2>2 DEF DataOK, Threads
  <2>5. DataOK'
    BY <2>1, <2>2, <2>3, <2>4 DEF DataOK, Place
  <2> QED
    BY <2>1, <2>2, <2>3, <2>5 DEF Control, Closing, Fresh
<1> QED
  BY <1>1, <1>2, <1>3, <1>4, <1>5

\* What AnnounceLocalDescription sends.
LEMMA OutgoingEffect ==
    ASSUME DataOK, NEW via \in {"offer", "answer"}, NEW made \in {"offer", "answer"}
    PROVE  LET out == <<Sdp(via, made)>> \o Outgoing(pendingLocal)
           IN  /\ out \in Seq(Message) /\ Len(out) = 1 + Len(pendingLocal) /\ out # <<>>
               /\ out[1] = Sdp(via, made)
               /\ \A i \in 1..Len(pendingLocal) : out[i + 1] = Ice(pendingLocal[i])
<1> DEFINE p == pendingLocal
           ices == Outgoing(p)
           out == <<Sdp(via, made)>> \o ices
<1>1. p \in Seq(1..MaxLocal) /\ Len(p) \in Nat
  BY DEF DataOK
<1>2. \A i \in 1..Len(p) : Ice(p[i]) \in Message
  <2> HIDE DEF p
  <2> SUFFICES ASSUME NEW i \in 1..Len(p) PROVE Ice(p[i]) \in Message
    OBVIOUS
  <2>1. p[i] \in 1..MaxLocal
    BY <1>1, ElementOfSeq
  <2> QED
    BY <2>1 DEF Message
<1> HIDE DEF p
<1>3. ices = [i \in 1..Len(p) |-> Ice(p[i])]
  BY DEF Outgoing
<1>4. ices \in Seq(Message) /\ Len(ices) = Len(p)
  BY <1>1, <1>2, <1>3
<1>5. /\ <<Sdp(via, made)>> \in Seq(Message) /\ Len(<<Sdp(via, made)>>) = 1
      /\ <<Sdp(via, made)>>[1] = Sdp(via, made)
  BY DEF Message
<1> HIDE DEF ices
<1>6. /\ out \in Seq(Message) /\ Len(out) = 1 + Len(ices)
      /\ \A i \in 1..(1 + Len(ices)) :
            out[i] = IF i <= 1 THEN <<Sdp(via, made)>>[i] ELSE ices[i - 1]
  BY <1>4, <1>5, ConcatProperties
<1> HIDE DEF out
<1>7. out[1] = Sdp(via, made) /\ out # <<>>
  BY <1>1, <1>4, <1>5, <1>6
<1>8. \A i \in 1..Len(p) : out[i + 1] = Ice(p[i])
  <2> SUFFICES ASSUME NEW i \in 1..Len(p) PROVE out[i + 1] = Ice(p[i])
    OBVIOUS
  <2>1. i + 1 \in 1..(1 + Len(ices)) /\ ~(i + 1 <= 1) /\ (i + 1) - 1 = i
    BY <1>1, <1>4
  <2>2. out[i + 1] = ices[i]
    BY <1>6, <2>1
  <2> QED
    BY <1>3, <2>2
<1> QED
  BY <1>4, <1>6, <1>7, <1>8 DEF out, ices, p

LEMMA TypedOperations ==
    ASSUME Typed,
           \/ Created("offer", "createOffer") \/ Created("answer", "createAnswer")
           \/ LocalSet \/ FailNegotiation \/ AnnounceTooLate
    PROVE  Typed'
<1> USE DEF Typed, callVars, stateVars, sessionVars, peerVars
<1>0. pc \in Connection /\ pc.todo \in Seq(Operation)
  BY DEF DataOK, Connection
<1>1. ASSUME NEW made \in {"offer", "answer"}, NEW op \in Operation, Created(made, op)
      PROVE  Typed'
  <2>1. /\ pc.todo # <<>> /\ pc' = [pc EXCEPT !.todo = Append(Tail(pc.todo), "setLocal")]
        /\ localSdp' = made
        /\ UNCHANGED <<place, target, toAdd, call, outbox, state, reported, closed, announced,
                       remoteSet, sdpCallback, pendingLocal, pendingRemote, count, sent, added>>
    BY <1>1 DEF Created, Doing
  <2>2. Append(Tail(pc.todo), "setLocal") \in Seq(Operation)
    BY <1>0, <2>1, TodoTyped DEF Operation
  <2>3. pc' \in Connection /\ pc'.open = pc.open /\ pc'.local = pc.local
    BY <1>0, <2>1, <2>2 DEF Connection
  <2>4. DataOK'
    BY <2>1, <2>3 DEF DataOK
  <2> QED
    BY <2>1, <2>3, <2>4 DEF Control, Closing, Fresh
<1>2. CASE LocalSet
  <2>1. /\ pc.todo # <<>> /\ Head(pc.todo) = "setLocal"
        /\ pc' = [pc EXCEPT !.todo = <<"announce">> \o Tail(pc.todo), !.local = TRUE,
                            !.signalling = IF localSdp = "offer"
                                           THEN "haveLocalOffer" ELSE "stable"]
        /\ UNCHANGED <<place, target, toAdd, call, outbox, state, reported, closed, announced,
                       remoteSet, sdpCallback, localSdp, pendingLocal, pendingRemote, count,
                       sent, added>>
    BY <1>2 DEF LocalSet, Doing
  <2>2. <<"announce">> \o Tail(pc.todo) \in Seq(Operation) /\ Head(pc.todo) \in ToSet(pc.todo)
    BY <1>0, <2>1, TodoTyped, TailSet DEF Operation
  <2>3. pc' \in Connection /\ pc'.open = pc.open
    BY <1>0, <2>1, <2>2 DEF Connection
  <2>4. localSdp # "none" /\ count.offers # 0
    BY <2>1, <2>2 DEF Control, Fresh
  <2>5. DataOK'
    BY <2>1, <2>3 DEF DataOK
  <2> QED
    BY <2>1, <2>3, <2>4, <2>5 DEF Control, Closing, Fresh
<1>3. CASE FailNegotiation \/ AnnounceTooLate
  <2>1. /\ pc.todo # <<>> /\ pc' = [pc EXCEPT !.todo = Tail(pc.todo)] /\ place.rtc = "idle"
        /\ UNCHANGED <<place, target>> \/ BeginUpdate("rtc", "Failed")
        /\ UNCHANGED <<toAdd, call, outbox, state, reported, closed, announced,
                       remoteSet, sdpCallback, localSdp, pendingLocal, pendingRemote, count,
                       sent, added>>
    BY <1>3 DEF FailNegotiation, Fail, AnnounceTooLate, Doing
  <2>2. Tail(pc.todo) \in Seq(Operation) /\ ToSet(Tail(pc.todo)) \subseteq ToSet(pc.todo)
    BY <1>0, <2>1, TodoTyped DEF Operation
  <2>3. pc' \in Connection /\ pc'.open = pc.open /\ pc'.local = pc.local /\ pc'.todo = Tail(pc.todo)
    BY <1>0, <2>1, <2>2 DEF Connection
  <2>4. /\ place' \in [Threads -> Place] /\ place'.ui = place.ui
        /\ place'.rtc \in {"idle", "compare"} /\ target' \in [Threads -> SessionState]
    BY <2>1, BeginUpdateEffect DEF Threads, SessionState, DataOK, Place
  <2>5. count.offers # 0
    BY <2>1 DEF Fresh
  <2>6. \A t \in Threads : toAdd[t] # <<>> => place'[t] = "add"
    BY <2>1, <2>4 DEF DataOK, Threads
  <2>7. outbox = <<>>
    BY <2>1 DEF DataOK
  <2>8. DataOK'
    BY <2>1, <2>3, <2>4, <2>6, <2>7 DEF DataOK, Place
  <2> QED
    BY <2>1, <2>2, <2>3, <2>4, <2>5, <2>8 DEF Control, Closing, Fresh
<1> QED
  BY <1>1, <1>2, <1>3 DEF Operation

LEMMA TypedAnnounce ==
    ASSUME Typed, AnnounceLocalDescription \/ Send
    PROVE  Typed'
<1> USE DEF Typed, callVars, stateVars, sessionVars, peerVars
<1>0. pc \in Connection /\ pc.todo \in Seq(Operation)
  BY DEF DataOK, Connection
<1>1. CASE AnnounceLocalDescription
  <2> DEFINE out == <<Sdp(sdpCallback, localSdp)>> \o Outgoing(pendingLocal)
  <2>1. /\ pc.todo # <<>> /\ Head(pc.todo) = "announce" /\ place.rtc = "idle" /\ ~closed
        /\ pc' = [pc EXCEPT !.todo = Tail(pc.todo)]
        /\ announced' = TRUE /\ pendingLocal' = <<>> /\ outbox' = out /\ Go("rtc", "send")
        /\ UNCHANGED <<target, toAdd, call, state, reported, closed, remoteSet,
                       sdpCallback, localSdp, pendingRemote, count, sent, added>>
    BY <1>1 DEF AnnounceLocalDescription, Announce, Doing
  <2>2. /\ Tail(pc.todo) \in Seq(Operation) /\ ToSet(Tail(pc.todo)) \subseteq ToSet(pc.todo)
        /\ Head(pc.todo) \in ToSet(pc.todo)
    BY <1>0, <2>1, TodoTyped, TailSet DEF Operation
  <2>3. pc' \in Connection /\ pc'.open = pc.open /\ pc'.local = pc.local /\ pc'.todo = Tail(pc.todo)
    BY <1>0, <2>1, <2>2 DEF Connection
  <2>4. count.offers > 0 /\ localSdp # "none"
    <3>1. count.offers # 0
      BY <2>1 DEF Fresh
    <3>2. count.offers \in Nat
      BY DEF DataOK, Count
    <3>3. localSdp # "none"
      BY <2>1, <2>2 DEF Control
    <3> QED
      BY <3>1, <3>2, <3>3
  <2>5. sdpCallback \in {"offer", "answer"} /\ localSdp \in {"offer", "answer"}
    BY <2>1, <2>4 DEF Control, DataOK
  <2>6. out \in Seq(Message) /\ out # <<>>
    BY <2>5, OutgoingEffect
  <2> HIDE DEF out
  <2>7. /\ place' \in [Threads -> Place] /\ place'.ui = place.ui /\ place'.rtc = "send"
    BY <2>1, GoEffect DEF Threads, Place
  <2>8. \A t \in Threads : toAdd[t] # <<>> => place'[t] = "add"
    BY <2>1, <2>7 DEF DataOK, Threads
  <2>9. <<>> \in Seq(1..MaxLocal)
    OBVIOUS
  <2>10. DataOK'
    BY <2>1, <2>3, <2>6, <2>7, <2>8, <2>9 DEF DataOK, Place
  <2> QED
    BY <2>1, <2>2, <2>3, <2>4, <2>6, <2>7, <2>10 DEF Control, Closing, Fresh
<1>2. CASE Send
  <2>1. /\ place.rtc = "send" /\ outbox # <<>> /\ outbox \in Seq(Message)
        /\ sent' = Append(sent, Head(outbox)) /\ outbox' = Tail(outbox)
        /\ Go("rtc", IF Len(outbox) = 1 THEN "idle" ELSE "send")
        /\ UNCHANGED <<target, toAdd, call, state, reported, closed, announced, remoteSet,
                       sdpCallback, localSdp, pendingLocal, pendingRemote, pc, count, added>>
    BY <1>2 DEF Send, Control, DataOK
  <2>2. /\ Head(outbox) \in Message /\ Tail(outbox) \in Seq(Message)
        /\ Len(Tail(outbox)) = Len(outbox) - 1 /\ Len(outbox) \in Nat
    BY <2>1, HeadTailProperties
  <2>3. sent' \in Seq(Message)
    BY <2>1, <2>2, AppendProperties DEF DataOK
  <2>4. /\ place' \in [Threads -> Place] /\ place'.ui = place.ui
        /\ place'.rtc = IF Len(outbox) = 1 THEN "idle" ELSE "send"
    BY <2>1, GoEffect DEF Threads, Place
  <2>5. Tail(outbox) = <<>> <=> Len(outbox) = 1
    BY <2>2, EmptySeq
  <2>6. \A t \in Threads : toAdd[t] # <<>> => place'[t] = "add"
    BY <2>1, <2>4 DEF DataOK, Threads
  <2>7. DataOK'
    BY <2>1, <2>2, <2>3, <2>4, <2>5, <2>6 DEF DataOK, Place
  <2> QED
    BY <2>1, <2>4, <2>5, <2>7 DEF Control, Closing, Fresh
<1> QED
  BY <1>1, <1>2

LEMMA TypedRemote ==
    ASSUME Typed, NEW op \in {"setRemoteOffer", "setRemoteAnswer"}, RemoteSet(op)
    PROVE  Typed'
<1> USE DEF Typed, callVars, stateVars, sessionVars, peerVars
<1>0. pc \in Connection /\ pc.todo \in Seq(Operation)
  BY DEF DataOK, Connection
<1>1. /\ pc.todo # <<>> /\ place.rtc = "idle" /\ pc.open
      /\ pc' = [pc EXCEPT !.todo = Tail(pc.todo), !.remote = TRUE,
                          !.signalling = IF op = "setRemoteOffer"
                                         THEN "haveRemoteOffer" ELSE "stable"]
      /\ Go("rtc", "add")
      /\ \/ UNCHANGED <<remoteSet, toAdd, pendingRemote>>
         \/ /\ ~closed /\ remoteSet' = TRUE /\ pendingRemote' = <<>>
            /\ toAdd' = [toAdd EXCEPT !.rtc = pendingRemote]
      /\ UNCHANGED <<target, call, outbox, state, reported, closed, announced,
                     sdpCallback, localSdp, pendingLocal, count, sent, added>>
  BY DEF RemoteSet, MarkRemote, Doing
<1>2. Tail(pc.todo) \in Seq(Operation) /\ ToSet(Tail(pc.todo)) \subseteq ToSet(pc.todo)
  BY <1>0, <1>1, TodoTyped DEF Operation
<1>3. pc' \in Connection /\ pc'.open = pc.open /\ pc'.local = pc.local /\ pc'.todo = Tail(pc.todo)
  BY <1>0, <1>1, <1>2 DEF Connection
<1>4. /\ place' \in [Threads -> Place] /\ place'.ui = place.ui /\ place'.rtc = "add"
  BY <1>1, GoEffect DEF Threads, Place
<1>5. /\ toAdd' \in [Threads -> Seq(1..MaxRemote)] /\ toAdd'.ui = toAdd.ui
      /\ pendingRemote' \in Seq(1..MaxRemote)
  BY <1>1 DEF DataOK, Threads
<1>6. \A t \in Threads : toAdd'[t] # <<>> => place'[t] = "add"
  BY <1>4, <1>5 DEF DataOK, Threads
<1>7. count.offers # 0 /\ outbox = <<>>
  BY <1>1 DEF Fresh, DataOK
<1>8. DataOK'
  BY <1>1, <1>3, <1>4, <1>5, <1>6, <1>7 DEF DataOK, Place
<1> QED
  BY <1>1, <1>2, <1>3, <1>4, <1>7, <1>8 DEF Control, Closing, Fresh

LEMMA TypedObserver ==
    ASSUME Typed, OnIceCandidate \/ \E s \in ObservedState : OnPeerConnectionState(s)
    PROVE  Typed'
<1> USE DEF Typed, callVars, stateVars, sessionVars, peerVars
<1>1. CASE OnIceCandidate
  <2>1. /\ Another("local", MaxLocal) /\ place.rtc = "idle" /\ pc.local
        /\ UNCHANGED <<target, toAdd, call, state, reported, closed, announced,
                       remoteSet, sdpCallback, localSdp, pendingRemote, pc, sent, added>>
    BY <1>1 DEF OnIceCandidate, Observes
  <2>2. /\ count' \in Count /\ count'.offers = count.offers /\ count'.local \in 1..MaxLocal
        /\ count.offers # 0
    <3>1. count' \in Count /\ count'.offers = count.offers /\ count'.local = count.local + 1
      BY <2>1, CountEffect
    <3>2. count.local \in Nat /\ count'.local \in 0..MaxLocal
      BY <3>1 DEF DataOK, Count
    <3> QED
      BY <2>1, <3>1, <3>2 DEF Fresh
  <2>3. outbox = <<>>
    BY <2>1 DEF DataOK
  <2>4. CASE UNCHANGED <<outbox, place>>
    <3>1. pendingLocal' \in Seq(1..MaxLocal)
      <4>1. pendingLocal' = pendingLocal \/ pendingLocal' = Append(pendingLocal, count'.local)
        BY <1>1 DEF OnIceCandidate
      <4>2. pendingLocal \in Seq(1..MaxLocal)
        BY DEF DataOK
      <4> QED
        BY <2>2, <4>1, <4>2, AppendProperties, ZenonT(60)
    <3>2. DataOK'
      BY <2>1, <2>2, <2>4, <3>1 DEF DataOK
    <3> QED
      BY <2>1, <2>2, <2>4, <3>2 DEF Control, Closing, Fresh
  <2>5. CASE outbox' = <<Ice(count'.local)>> /\ Go("rtc", "send") /\ UNCHANGED pendingLocal
    <3>1. /\ place' \in [Threads -> Place] /\ place'.ui = place.ui /\ place'.rtc = "send"
      BY <2>5, GoEffect DEF Threads, Place
    <3>2. outbox' \in Seq(Message) /\ outbox' # <<>>
      BY <2>2, <2>5 DEF Message
    <3>3. \A t \in Threads : toAdd[t] # <<>> => place'[t] = "add"
      BY <2>1, <3>1 DEF DataOK, Threads
    <3>4. DataOK'
      BY <2>1, <2>2, <2>5, <3>1, <3>2, <3>3 DEF DataOK, Place
    <3> QED
      BY <2>1, <2>2, <3>1, <3>2, <3>4 DEF Control, Closing, Fresh
  <2> QED
    BY <1>1, <2>4, <2>5 DEF OnIceCandidate
<1>2. ASSUME NEW s \in ObservedState, OnPeerConnectionState(s)
      PROVE  Typed'
  <2>1. /\ Another("events", MaxEvents) /\ place.rtc = "idle" /\ BeginUpdate("rtc", s) /\ pc.local
        /\ UNCHANGED <<toAdd, call, outbox, state, reported, closed, announced, remoteSet,
                       sdpCallback, localSdp, pendingLocal, pendingRemote, pc, sent, added>>
    BY <1>2 DEF OnPeerConnectionState, Observes
  <2>2. count' \in Count /\ count'.offers = count.offers
    BY <2>1, CountEffect
  <2>3. /\ place' \in [Threads -> Place] /\ place'.ui = place.ui
        /\ place'.rtc = "compare" /\ target' \in [Threads -> SessionState]
    BY <2>1, BeginUpdateEffect DEF Threads, ObservedState
  <2>4. \A t \in Threads : toAdd[t] # <<>> => place'[t] = "add"
    BY <2>1, <2>3 DEF DataOK, Threads
  <2>5. outbox = <<>> /\ count.offers # 0
    BY <2>1 DEF DataOK, Fresh
  <2>6. DataOK'
    BY <2>1, <2>2, <2>3, <2>4, <2>5 DEF DataOK, Place
  <2> QED
    BY <2>1, <2>2, <2>3, <2>5, <2>6 DEF Control, Closing, Fresh
<1> QED
  BY <1>1, <1>2

\* The connection is gone, and with it what the rtc thread had to do.
LEMMA DereferenceEffect ==
    ASSUME Typed, DereferenceNull
    PROVE  /\ ~pc.open /\ closed /\ place.rtc \in {"idle", "add"}
           /\ place' \in [Threads -> Place] /\ place'.ui = place.ui /\ place'.rtc = "idle"
           /\ toAdd' \in [Threads -> Seq(1..MaxRemote)]
           /\ toAdd'.rtc = <<>> /\ toAdd'.ui = toAdd.ui
           /\ pc' \in Connection /\ pc'.todo = <<>> /\ pc'.open = pc.open
           /\ pc'.local = pc.local /\ pc'.remote = pc.remote
           /\ UNCHANGED <<target, callVars, stateVars, sessionVars, count, peerVars>>
<1>1. /\ ~pc.open /\ place.rtc \in {"idle", "add"} /\ Go("rtc", "idle")
      /\ toAdd' = [toAdd EXCEPT !.rtc = <<>>] /\ pc' = [pc EXCEPT !.todo = <<>>]
      /\ UNCHANGED <<target, callVars, stateVars, sessionVars, count, peerVars>>
  BY DEF DereferenceNull, Doing
<1>2. closed
  BY <1>1 DEF Typed, Closing
<1>3. place' \in [Threads -> Place] /\ place'.ui = place.ui /\ place'.rtc = "idle"
  BY <1>1, GoEffect DEF Typed, Threads, Place
<1>4. <<>> \in Seq(1..MaxRemote) /\ <<>> \in Seq(Operation)
  OBVIOUS
<1>5. /\ toAdd' \in [Threads -> Seq(1..MaxRemote)]
      /\ toAdd'.rtc = <<>> /\ toAdd'.ui = toAdd.ui
  BY <1>1, <1>4 DEF Typed, DataOK, Threads
<1>6. /\ pc' \in Connection /\ pc'.todo = <<>> /\ pc'.open = pc.open
      /\ pc'.local = pc.local /\ pc'.remote = pc.remote
  BY <1>1, <1>4 DEF Typed, DataOK, Connection
<1> QED
  BY <1>1, <1>2, <1>3, <1>5, <1>6

LEMMA TypedDereference ==
    ASSUME Typed, DereferenceNull
    PROVE  Typed'
<1>1. /\ ~pc.open /\ closed /\ place.rtc \in {"idle", "add"}
      /\ place' \in [Threads -> Place] /\ place'.ui = place.ui /\ place'.rtc = "idle"
      /\ toAdd' \in [Threads -> Seq(1..MaxRemote)]
      /\ toAdd'.rtc = <<>> /\ toAdd'.ui = toAdd.ui
      /\ pc' \in Connection /\ pc'.todo = <<>> /\ pc'.open = pc.open /\ pc'.local = pc.local
  BY DereferenceEffect
<1>2. UNCHANGED <<target, call, outbox, state, reported, closed, announced, remoteSet,
                  sdpCallback, localSdp, pendingLocal, pendingRemote, count, sent, added>>
  BY DereferenceEffect DEF callVars, stateVars, sessionVars, peerVars
<1>3. outbox = <<>> /\ \A t \in Threads : toAdd'[t] # <<>> => place'[t] = "add"
  BY <1>1 DEF Typed, DataOK, Threads
<1>4. DataOK'
  BY <1>1, <1>2, <1>3 DEF Typed, DataOK, Place
<1>5. ToSet(<<>>) = {}
  BY DEF ToSet
<1>6. Control' /\ Closing' /\ Fresh'
  BY <1>1, <1>2, <1>3, <1>5 DEF Typed, Control, Closing, Fresh
<1> QED
  BY <1>4, <1>6 DEF Typed

LEMMA TypedStep == Typed /\ [Next]_vars => Typed'
<1> SUFFICES ASSUME Typed, [Next]_vars PROVE Typed'
  OBVIOUS
<1>1. CASE CreateOffer
  BY <1>1, TypedBegin DEF CreateOffer
<1>2. CASE ApplyRemoteOffer
  BY <1>2, TypedBegin DEF ApplyRemoteOffer
<1>3. CASE UI
  BY <1>3, TypedUpdate, TypedAdd, TypedUI DEF UI, Threads
<1>4. CASE Rtc
  BY <1>4, TypedUpdate, TypedAdd, TypedOperations, TypedAnnounce, TypedRemote, TypedDereference
     DEF Rtc, Threads
<1>5. CASE OnIceCandidate \/ \E s \in ObservedState : OnPeerConnectionState(s)
  BY <1>5, TypedObserver
<1>6. CASE ApplyRemoteAnswer \/ AddRemoteCandidate \/ Close
  BY <1>6, TypedUI
<1>7. CASE UNCHANGED vars
  BY <1>7 DEF vars, callVars, stateVars, sessionVars, peerVars, Typed, DataOK, Control,
              Closing, Fresh
<1> QED
  BY <1>1, <1>2, <1>3, <1>4, <1>5, <1>6, <1>7 DEF Next, Step

LEMMA SessionInvariance == Spec => []Typed
BY TypedInit, TypedStep, PTL DEF Spec

-----------------------------------------------------------------------------
(* The remote candidates.  Each that has come is in one of four places: it *)
(* is added, it waits for the description, or it is in the hands of one of *)
(* the two threads.                                                        *)

NoneTwice ==
    /\ IsInjective(added) /\ IsInjective(pendingRemote)
    /\ IsInjective(toAdd.ui) /\ IsInjective(toAdd.rtc)
    /\ ToSet(added) \cap ToSet(pendingRemote) = {}
    /\ ToSet(added) \cap ToSet(toAdd.ui) = {}
    /\ ToSet(added) \cap ToSet(toAdd.rtc) = {}
    /\ ToSet(pendingRemote) \cap ToSet(toAdd.ui) = {}
    /\ ToSet(pendingRemote) \cap ToSet(toAdd.rtc) = {}
    /\ ToSet(toAdd.ui) \cap ToSet(toAdd.rtc) = {}

AllCome == ToSet(added) \cup ToSet(pendingRemote) \cup ToSet(toAdd.ui) \cup ToSet(toAdd.rtc)

NoneLost ==
    /\ AllCome \subseteq 1..count.remote
    /\ ~closed => 1..count.remote \subseteq AllCome

NoneEarly ==
    /\ remoteSet => pc.remote /\ pendingRemote = <<>>
    /\ added # <<>> => pc.remote
    /\ toAdd.ui # <<>> => pc.remote
    /\ toAdd.rtc # <<>> => pc.remote

RemoteKept == NoneTwice /\ NoneLost /\ NoneEarly

LEMMA RemoteInit == Init => RemoteKept
<1> SUFFICES ASSUME Init PROVE RemoteKept
  OBVIOUS
<1>1. /\ added = <<>> /\ pendingRemote = <<>> /\ toAdd.ui = <<>> /\ toAdd.rtc = <<>>
      /\ ~remoteSet /\ count.remote = 0
  BY DEF Init, Threads
<1>2. ToSet(<<>>) = {} /\ IsInjective(<<>>)
  BY DEF ToSet, IsInjective
<1>3. 1..0 = {}
  OBVIOUS
<1> QED
  BY <1>1, <1>2, <1>3 DEF RemoteKept, NoneTwice, NoneLost, NoneEarly, AllCome

\* A step that moves no candidate keeps them.
LEMMA RemoteStill ==
    ASSUME RemoteKept, UNCHANGED <<added, pendingRemote, toAdd>>,
           remoteSet' => remoteSet, closed => closed',
           pc.remote => pc'.remote, count'.remote = count.remote
    PROVE  RemoteKept'
BY DEF RemoteKept, NoneTwice, NoneLost, NoneEarly, AllCome

\* A thread gives the first of its candidates to the connection.
LEMMA RemoteAdd ==
    ASSUME Typed, RemoteKept, NEW t \in Threads, AddCandidate(t)
    PROVE  RemoteKept'
<1> DEFINE mine == toAdd[t]
           his == IF t = "ui" THEN toAdd.rtc ELSE toAdd.ui
<1>1. /\ mine \in Seq(1..MaxRemote) /\ mine # <<>> /\ added \in Seq(1..MaxRemote)
      /\ toAdd \in [Threads -> Seq(1..MaxRemote)]
      /\ toAdd' = [toAdd EXCEPT ![t] = Tail(mine)]
      /\ added' = IF pc.open THEN Append(added, Head(mine)) ELSE added
      /\ UNCHANGED <<pendingRemote, remoteSet, closed, pc, count>>
  BY DEF AddCandidate, Typed, DataOK, sessionVars
<1>2. /\ Tail(mine) \in Seq(1..MaxRemote) /\ Head(mine) \in 1..MaxRemote
      /\ ToSet(mine) = {Head(mine)} \cup ToSet(Tail(mine))
      /\ IsInjective(mine) => IsInjective(Tail(mine)) /\ Head(mine) \notin ToSet(Tail(mine))
  BY <1>1, HeadTailProperties, TailSet
<1>3. /\ toAdd'[t] = Tail(mine)
      /\ his = IF t = "ui" THEN toAdd'.rtc ELSE toAdd'.ui
  BY <1>1 DEF Threads
<1>4. /\ ToSet(added') = IF pc.open THEN ToSet(added) \cup {Head(mine)} ELSE ToSet(added)
      /\ IsInjective(added) /\ Head(mine) \notin ToSet(added) => IsInjective(added')
  <2>1. /\ ToSet(Append(added, Head(mine))) = ToSet(added) \cup {Head(mine)}
        /\ IsInjective(added) /\ Head(mine) \notin ToSet(added)
              => IsInjective(Append(added, Head(mine)))
    BY <1>1, <1>2, AppendSet
  <2> QED
    BY <1>1, <2>1
<1>5. pc.open \/ closed
  BY DEF Typed, Closing
<1>6. pc.remote
  BY <1>1 DEF RemoteKept, NoneEarly, Threads
<1>7. CASE t = "ui"
  <2>1. mine = toAdd.ui /\ toAdd'.ui = Tail(mine) /\ toAdd'.rtc = toAdd.rtc
    BY <1>3, <1>7
  <2>2. NoneTwice'
    BY <1>1, <1>2, <1>4, <2>1 DEF RemoteKept, NoneTwice
  <2>3. NoneLost'
    BY <1>1, <1>2, <1>4, <1>5, <2>1 DEF RemoteKept, NoneLost, AllCome
  <2> QED
    BY <1>1, <1>6, <2>2, <2>3 DEF RemoteKept, NoneEarly
<1>8. CASE t = "rtc"
  <2>1. mine = toAdd.rtc /\ toAdd'.rtc = Tail(mine) /\ toAdd'.ui = toAdd.ui
    BY <1>3, <1>8
  <2>2. NoneTwice'
    BY <1>1, <1>2, <1>4, <2>1 DEF RemoteKept, NoneTwice
  <2>3. NoneLost'
    BY <1>1, <1>2, <1>4, <1>5, <2>1 DEF RemoteKept, NoneLost, AllCome
  <2> QED
    BY <1>1, <1>6, <2>2, <2>3 DEF RemoteKept, NoneEarly
<1> QED
  BY <1>7, <1>8 DEF Threads

\* Another candidate comes: its number is new, and the dialog has none in
\* its hands.
LEMMA RemoteCome ==
    ASSUME Typed, RemoteKept, AddRemoteCandidate
    PROVE  RemoteKept'
<1> DEFINE n == count'.remote
<1>1. /\ n = count.remote + 1 /\ count.remote \in Nat /\ n \in 1..MaxRemote
  <2>1. count' \in Count /\ count'.remote = count.remote + 1
    BY CountEffect DEF AddRemoteCandidate, Typed
  <2> QED
    BY <2>1 DEF Typed, DataOK, Count
<1>2. 1..n = (1..count.remote) \cup {n} /\ n \notin 1..count.remote
  BY <1>1
<1> HIDE DEF n
<1>3. n \notin ToSet(added) /\ n \notin ToSet(pendingRemote) /\ n \notin ToSet(toAdd.rtc)
  BY <1>2 DEF RemoteKept, NoneLost, AllCome
<1>4. toAdd.ui = <<>> /\ toAdd \in [Threads -> Seq(1..MaxRemote)]
  BY DEF AddRemoteCandidate, Negotiating, Typed, DataOK, Threads
<1>5. ToSet(<<>>) = {} /\ IsInjective(<<>>)
  BY DEF ToSet, IsInjective
<1>6. UNCHANGED <<added, remoteSet, closed, pc>> /\ count'.remote = n
  BY DEF AddRemoteCandidate, peerVars, n
<1>7. CASE remoteSet
  <2>1. toAdd' = [toAdd EXCEPT !.ui = <<n>>] /\ pendingRemote' = pendingRemote
    BY <1>7 DEF AddRemoteCandidate, n
  <2>2. toAdd'.ui = <<n>> /\ toAdd'.rtc = toAdd.rtc
    BY <1>4, <2>1 DEF Threads
  <2>3. ToSet(<<n>>) = {n} /\ IsInjective(<<n>>)
    BY <1>1, SingleSet
  <2>4. NoneTwice'
    BY <1>3, <1>6, <2>1, <2>2, <2>3 DEF RemoteKept, NoneTwice
  <2>5. NoneLost'
    BY <1>2, <1>4, <1>5, <1>6, <2>1, <2>2, <2>3 DEF RemoteKept, NoneLost, AllCome
  <2>6. NoneEarly'
    BY <1>6, <1>7, <2>1, <2>2 DEF RemoteKept, NoneEarly
  <2> QED
    BY <2>4, <2>5, <2>6 DEF RemoteKept
<1>8. CASE ~remoteSet
  <2>1. toAdd' = toAdd /\ pendingRemote' = Append(pendingRemote, n)
    BY <1>8 DEF AddRemoteCandidate, n
  <2>2. /\ ToSet(pendingRemote') = ToSet(pendingRemote) \cup {n}
        /\ IsInjective(pendingRemote) /\ n \notin ToSet(pendingRemote) => IsInjective(pendingRemote')
    <3>1. pendingRemote \in Seq(1..MaxRemote)
      BY DEF Typed, DataOK
    <3> QED
      BY <1>1, <2>1, <3>1, AppendSet, ZenonT(60)
  <2>3. NoneTwice'
    BY <1>3, <1>4, <1>5, <1>6, <2>1, <2>2 DEF RemoteKept, NoneTwice
  <2>4. NoneLost'
    BY <1>2, <1>4, <1>5, <1>6, <2>1, <2>2 DEF RemoteKept, NoneLost, AllCome
  <2>5. NoneEarly'
    BY <1>6, <1>8, <2>1 DEF RemoteKept, NoneEarly
  <2> QED
    BY <2>3, <2>4, <2>5 DEF RemoteKept
<1> QED
  BY <1>7, <1>8

\* The callback takes those that have waited; it had none in its hands.
LEMMA RemoteTake ==
    ASSUME Typed, RemoteKept, NEW op \in {"setRemoteOffer", "setRemoteAnswer"}, RemoteSet(op)
    PROVE  RemoteKept'
<1>1. /\ place.rtc = "idle" /\ UNCHANGED <<added, closed, count>>
      /\ pc' = [pc EXCEPT !.todo = Tail(pc.todo), !.remote = TRUE,
                          !.signalling = IF op = "setRemoteOffer"
                                         THEN "haveRemoteOffer" ELSE "stable"]
  BY DEF RemoteSet, MarkRemote, Doing, peerVars
<1>2. pc'.remote
  BY <1>1 DEF Typed, DataOK, Connection
<1>3. toAdd.rtc = <<>> /\ toAdd \in [Threads -> Seq(1..MaxRemote)]
  BY <1>1 DEF Typed, DataOK, Threads
<1>4. CASE closed
  <2>1. UNCHANGED <<remoteSet, toAdd, pendingRemote>>
    BY <1>4 DEF RemoteSet, MarkRemote
  <2> QED
    BY <1>1, <1>2, <2>1, RemoteStill
<1>5. CASE ~closed
  <2>1. pendingRemote' = <<>> /\ toAdd' = [toAdd EXCEPT !.rtc = pendingRemote]
    BY <1>5 DEF RemoteSet, MarkRemote
  <2>2. toAdd'.rtc = pendingRemote /\ toAdd'.ui = toAdd.ui
    BY <1>3, <2>1 DEF Threads
  <2>3. ToSet(<<>>) = {} /\ IsInjective(<<>>)
    BY DEF ToSet, IsInjective
  <2>4. NoneTwice'
    BY <1>1, <2>1, <2>2, <2>3 DEF RemoteKept, NoneTwice
  <2>5. NoneLost'
    BY <1>1, <1>3, <2>1, <2>2, <2>3 DEF RemoteKept, NoneLost, AllCome
  <2>6. NoneEarly'
    BY <1>2, <2>1 DEF NoneEarly
  <2> QED
    BY <2>4, <2>5, <2>6 DEF RemoteKept
<1> QED
  BY <1>4, <1>5

\* Of a closed session candidates may be lost, but none is doubled.
LEMMA RemoteDereference ==
    ASSUME Typed, RemoteKept, DereferenceNull
    PROVE  RemoteKept'
<1>1. /\ closed /\ toAdd'.rtc = <<>> /\ toAdd'.ui = toAdd.ui /\ pc'.remote = pc.remote
      /\ UNCHANGED <<added, pendingRemote, remoteSet, closed, count>>
  BY DereferenceEffect DEF sessionVars, peerVars
<1>2. ToSet(<<>>) = {} /\ IsInjective(<<>>)
  BY DEF ToSet, IsInjective
<1> QED
  BY <1>1, <1>2 DEF RemoteKept, NoneTwice, NoneLost, NoneEarly, AllCome

LEMMA RemoteStep == Typed /\ RemoteKept /\ [Next]_vars => RemoteKept'
<1> SUFFICES ASSUME Typed, RemoteKept, [Next]_vars PROVE RemoteKept'
  OBVIOUS
<1> USE DEF callVars, stateVars, sessionVars, peerVars
<1>0. pc \in Connection /\ count \in Count
  BY DEF Typed, DataOK
<1>1. CASE CreateOffer
  <2>1. /\ count.offers = 0 /\ pendingRemote' = <<>> /\ ~remoteSet' /\ Another("offers", MaxOffers)
        /\ UNCHANGED <<added, toAdd, closed, pc>>
    BY <1>1 DEF CreateOffer, BeginNegotiation
  <2>2. count'.remote = count.remote
    BY <2>1, CountEffect DEF Typed
  <2>3. ToSet(pendingRemote) \subseteq 1..0
    BY <2>1 DEF RemoteKept, NoneLost, AllCome, Typed, Fresh
  <2>4. ToSet(pendingRemote) = {}
    BY <2>3
  <2>5. pendingRemote = <<>>
    BY <2>4, EmptySet DEF Typed, DataOK
  <2> QED
    BY <2>1, <2>2, <2>5, RemoteStill
<1>2. CASE ApplyRemoteOffer
  <2>1. count'.remote = count.remote
    BY <1>2, CountEffect DEF ApplyRemoteOffer, BeginNegotiation, Typed
  <2> QED
    BY <1>2, <2>1, RemoteStill DEF ApplyRemoteOffer, BeginNegotiation
<1>3. CASE ApplyRemoteAnswer
  <2>1. count'.remote = count.remote
    BY <1>3, CountEffect DEF ApplyRemoteAnswer, Typed
  <2>2. pc'.remote = pc.remote
    BY <1>0, <1>3 DEF ApplyRemoteAnswer, Connection
  <2> QED
    BY <1>3, <2>1, <2>2, RemoteStill DEF ApplyRemoteAnswer
<1>4. CASE AddRemoteCandidate
  BY <1>4, RemoteCome
<1>5. CASE Close
  <2>1. /\ pendingRemote' = <<>> /\ closed' /\ UNCHANGED <<added, toAdd, remoteSet, pc, count>>
    BY <1>5 DEF Close
  <2>2. ToSet(<<>>) = {} /\ IsInjective(<<>>)
    BY DEF ToSet, IsInjective
  <2> QED
    BY <2>1, <2>2 DEF RemoteKept, NoneTwice, NoneLost, NoneEarly, AllCome
<1>6. ASSUME NEW t \in Threads, UpdateState(t) PROVE RemoteKept'
  BY <1>6, RemoteStill DEF UpdateState
<1>7. ASSUME NEW t \in Threads, AddCandidate(t) PROVE RemoteKept'
  BY <1>7, RemoteAdd
<1>8. ASSUME NEW t \in Threads, AddedAll(t) PROVE RemoteKept'
  <2>1. pc'.remote = pc.remote
    BY <1>0, <1>8 DEF AddedAll, Connection
  <2> QED
    BY <1>8, <2>1, RemoteStill DEF AddedAll
<1>9. CASE CallConnection \/ CloseConnection
  <2>1. pc'.remote = pc.remote
    BY <1>0, <1>9 DEF CallConnection, CloseConnection, Connection
  <2> QED
    BY <1>9, <2>1, RemoteStill DEF CallConnection, CloseConnection
<1>10. ASSUME NEW made, NEW op, Created(made, op) PROVE RemoteKept'
  <2>1. pc'.remote = pc.remote
    BY <1>0, <1>10 DEF Created, Connection
  <2> QED
    BY <1>10, <2>1, RemoteStill DEF Created
<1>11. CASE LocalSet \/ AnnounceTooLate \/ FailNegotiation
  <2>1. pc'.remote = pc.remote
    BY <1>0, <1>11 DEF LocalSet, AnnounceTooLate, FailNegotiation, Fail, Connection
  <2> QED
    BY <1>11, <2>1, RemoteStill DEF LocalSet, AnnounceTooLate, FailNegotiation, Fail
<1>12. CASE AnnounceLocalDescription \/ Send
  <2>1. pc'.remote = pc.remote
    BY <1>0, <1>12 DEF AnnounceLocalDescription, Announce, Send, Connection
  <2> QED
    BY <1>12, <2>1, RemoteStill DEF AnnounceLocalDescription, Announce, Send
<1>13. ASSUME NEW op \in {"setRemoteOffer", "setRemoteAnswer"}, RemoteSet(op) PROVE RemoteKept'
  BY <1>13, RemoteTake
<1>14. CASE OnIceCandidate
  <2>1. count'.remote = count.remote
    BY <1>14, CountEffect DEF OnIceCandidate, Typed
  <2> QED
    BY <1>14, <2>1, RemoteStill DEF OnIceCandidate
<1>15. ASSUME NEW s \in ObservedState, OnPeerConnectionState(s) PROVE RemoteKept'
  <2>1. count'.remote = count.remote
    BY <1>15, CountEffect DEF OnPeerConnectionState, Typed
  <2> QED
    BY <1>15, <2>1, RemoteStill DEF OnPeerConnectionState
<1>16. CASE UNCHANGED vars
  BY <1>16, RemoteStill DEF vars
<1>17. CASE UI
  BY <1>6, <1>7, <1>8, <1>9, <1>17 DEF UI, Threads
<1>18. CASE Rtc
  BY <1>6, <1>7, <1>8, <1>10, <1>11, <1>12, <1>13, <1>18, RemoteDereference DEF Rtc, Threads
<1> QED
  BY <1>1, <1>2, <1>3, <1>4, <1>5, <1>14, <1>15, <1>16, <1>17, <1>18 DEF Next, Step

LEMMA RemoteInvariance == Spec => []RemoteKept
BY SessionInvariance, RemoteInit, RemoteStep, PTL DEF Spec

\* No remote candidate is lost, added twice, added before a remote
\* description or left behind: AddRemoteCandidate and MarkRemoteDescriptionSet
\* hand the list over under the mutex, and add outside it.
THEOREM RemoteCandidatesKeptTheorem == Spec => []RemoteCandidatesKept
<1>1. Waiting = ToSet(pendingRemote) \cup ToSet(toAdd.ui) \cup ToSet(toAdd.rtc)
  BY DEF Waiting, Threads
<1>2. RemoteKept => RemoteCandidatesKept
  <2> SUFFICES ASSUME RemoteKept PROVE RemoteCandidatesKept
    OBVIOUS
  <2>1. IsInjective(added) /\ ToSet(added) \cap Waiting = {}
    BY <1>1 DEF RemoteKept, NoneTwice
  <2>2. ~closed => ToSet(added) \cup Waiting = 1..count.remote
    BY <1>1 DEF RemoteKept, NoneLost, AllCome
  <2> QED
    BY <2>1, <2>2 DEF RemoteKept, NoneEarly, RemoteCandidatesKept
<1> QED
  BY <1>2, RemoteInvariance, PTL

-----------------------------------------------------------------------------
(* The local candidates.  Each that was gathered is sent, in the hands of  *)
(* the rtc thread or waiting for the description, in this order.           *)

IceOf(message) == IF "ice" \in DOMAIN message THEN {message.ice} ELSE {}
IceIn(messages) == {messages[i].ice : i \in Ices(messages)}
Increasing(messages) == \A i, j \in Ices(messages) : i < j => messages[i].ice < messages[j].ice
Ascending(list) == \A i, j \in DOMAIN list : i < j => list[i] < list[j]
Before(A, B) == \A a \in A, b \in B : a < b

DescriptionFirst ==
    /\ sent # <<>> => "via" \in DOMAIN sent[1]
    /\ sent = <<>> /\ outbox # <<>> => "via" \in DOMAIN outbox[1]
    /\ announced => pendingLocal = <<>> /\ (sent # <<>> \/ outbox # <<>>)

InOrder ==
    /\ Increasing(sent) /\ Increasing(outbox) /\ Ascending(pendingLocal)
    /\ Before(IceIn(sent), IceIn(outbox))
    /\ Before(IceIn(sent), ToSet(pendingLocal))
    /\ Before(IceIn(outbox), ToSet(pendingLocal))

AllGathered ==
    /\ IceIn(sent) \cup IceIn(outbox) \cup ToSet(pendingLocal) \subseteq 1..count.local
    /\ count.offers <= 1 /\ ~closed =>
          1..count.local \subseteq IceIn(sent) \cup IceIn(outbox) \cup ToSet(pendingLocal)

LocalKept == DescriptionFirst /\ InOrder /\ AllGathered

\* A message is a candidate or a description, and never both.
LEMMA MessageKinds ==
    /\ \A n \in 1..MaxLocal : Ice(n) \in Message /\ IceOf(Ice(n)) = {n}
    /\ \A v, m \in {"offer", "answer"} :
          Sdp(v, m) \in Message /\ IceOf(Sdp(v, m)) = {} /\ "via" \in DOMAIN Sdp(v, m)
    /\ \A m \in Message : IceOf(m) \subseteq 1..MaxLocal
<1>1. \A n : IceOf(Ice(n)) = {n}
  BY DEF IceOf, Ice
<1>2. \A v, m : IceOf(Sdp(v, m)) = {} /\ "via" \in DOMAIN Sdp(v, m)
  BY DEF IceOf, Sdp
<1> QED
  BY <1>1, <1>2 DEF Message

LEMMA NoMessages == Ices(<<>>) = {} /\ IceIn(<<>>) = {} /\ Increasing(<<>>)
BY DEF Ices, IceIn, Increasing

LEMMA AppendMessage ==
    ASSUME NEW s \in Seq(Message), NEW e \in Message
    PROVE  /\ IceIn(Append(s, e)) = IceIn(s) \cup IceOf(e)
           /\ Increasing(s) /\ Before(IceIn(s), IceOf(e)) => Increasing(Append(s, e))
           /\ Append(s, e)[1] = IF s = <<>> THEN e ELSE s[1]
<1> DEFINE t == Append(s, e)
           n == Len(s) + 1
<1>1. /\ t \in Seq(Message) /\ Len(t) = n /\ t[n] = e /\ Len(s) \in Nat
      /\ \A i \in 1..Len(s) : t[i] = s[i]
  BY AppendProperties
<1>2. s = <<>> <=> Len(s) = 0
  BY EmptySeq
<1> HIDE DEF t
<1>3. DOMAIN t = 1..n /\ DOMAIN s = 1..Len(s)
  BY <1>1
<1>4. Ices(t) = Ices(s) \cup (IF "ice" \in DOMAIN e THEN {n} ELSE {})
  <2>1. 1..n = (1..Len(s)) \cup {n}
    BY <1>1
  <2> QED
    BY <1>1, <1>3, <2>1 DEF Ices
<1>5. \A i \in Ices(s) : i \in 1..Len(s) /\ i < n /\ t[i] = s[i] /\ ~(n < i)
  BY <1>1, <1>3 DEF Ices
<1>6. IceIn(t) = IceIn(s) \cup IceOf(e)
  BY <1>1, <1>4, <1>5 DEF IceIn, IceOf
<1>7. ASSUME Increasing(s), Before(IceIn(s), IceOf(e)) PROVE Increasing(t)
  <2> SUFFICES ASSUME NEW i \in Ices(t), NEW j \in Ices(t), i < j
               PROVE  t[i].ice < t[j].ice
    BY DEF Increasing
  <2>1. CASE j = n /\ "ice" \in DOMAIN e
    <3>1. i \in Ices(s)
      BY <1>1, <1>4, <2>1
    <3>2. s[i].ice \in IceIn(s) /\ e.ice \in IceOf(e)
      BY <2>1, <3>1 DEF IceIn, IceOf
    <3> QED
      BY <1>1, <1>5, <1>7, <2>1, <3>1, <3>2 DEF Before
  <2>2. CASE j \in Ices(s)
    <3>1. i \in Ices(s)
      BY <1>4, <1>5, <2>2
    <3> QED
      BY <1>5, <1>7, <2>2, <3>1 DEF Increasing
  <2> QED
    BY <1>4, <2>1, <2>2
<1>8. t[1] = IF s = <<>> THEN e ELSE s[1]
  BY <1>1, <1>2
<1> QED
  BY <1>6, <1>7, <1>8 DEF t

LEMMA TailMessage ==
    ASSUME NEW s \in Seq(Message), s # <<>>
    PROVE  /\ IceIn(s) = IceOf(Head(s)) \cup IceIn(Tail(s))
           /\ Increasing(s) => Increasing(Tail(s)) /\ Before(IceOf(Head(s)), IceIn(Tail(s)))
<1> DEFINE t == Tail(s)
<1>1. /\ t \in Seq(Message) /\ Len(t) = Len(s) - 1 /\ Len(s) \in Nat \ {0}
      /\ \A i \in 1..Len(t) : t[i] = s[i+1]
  BY HeadTailProperties, EmptySeq
<1>2. Head(s) = s[1]
  OBVIOUS
<1> HIDE DEF t
<1>3. DOMAIN t = 1..Len(t) /\ DOMAIN s = 1..Len(s) /\ Len(t) \in Nat
  BY <1>1
<1>4. \A i \in Ices(t) : i \in 1..Len(t) /\ i + 1 \in Ices(s) /\ t[i] = s[i + 1] /\ 1 < i + 1
  BY <1>1, <1>3 DEF Ices
<1>5. \A i \in Ices(s) : i = 1 \/ (i - 1 \in Ices(t) /\ t[i - 1] = s[i])
  <2> SUFFICES ASSUME NEW i \in Ices(s), i # 1 PROVE i - 1 \in Ices(t) /\ t[i - 1] = s[i]
    OBVIOUS
  <2>1. i \in 1..Len(s) /\ "ice" \in DOMAIN s[i]
    BY <1>3 DEF Ices
  <2>2. i - 1 \in 1..Len(t) /\ (i - 1) + 1 = i
    BY <1>1, <1>3, <2>1
  <2>3. t[i - 1] = s[i]
    BY <1>1, <2>2
  <2> QED
    BY <1>3, <2>1, <2>2, <2>3 DEF Ices
<1>6. 1 \in Ices(s) <=> "ice" \in DOMAIN s[1]
  BY <1>1, <1>3 DEF Ices
<1>7. IceIn(s) = IceOf(s[1]) \cup IceIn(t)
  <2>1. ASSUME NEW i \in Ices(s) PROVE s[i].ice \in IceOf(s[1]) \cup IceIn(t)
    BY <1>5, <1>6, <2>1 DEF IceOf, IceIn
  <2>2. ASSUME NEW i \in Ices(t) PROVE t[i].ice \in IceIn(s)
    BY <1>4 DEF IceIn
  <2>3. IceOf(s[1]) \subseteq IceIn(s)
    BY <1>6 DEF IceOf, IceIn
  <2> QED
    BY <2>1, <2>2, <2>3 DEF IceIn
<1>8. ASSUME Increasing(s) PROVE Increasing(t) /\ Before(IceOf(s[1]), IceIn(t))
  <2>1. ASSUME NEW i \in Ices(t), NEW j \in Ices(t), i < j PROVE t[i].ice < t[j].ice
    <3>1. i + 1 < j + 1
      BY <1>3, <1>4, <2>1
    <3> QED
      BY <1>4, <1>8, <3>1 DEF Increasing
  <2>2. ASSUME NEW j \in Ices(t), "ice" \in DOMAIN s[1] PROVE s[1].ice < t[j].ice
    BY <1>4, <1>6, <1>8, <2>2 DEF Increasing
  <2> QED
    BY <2>1, <2>2 DEF Increasing, Before, IceOf, IceIn
<1> QED
  BY <1>2, <1>7, <1>8 DEF t

LEMMA SingleMessage ==
    ASSUME NEW n \in 1..MaxLocal
    PROVE  IceIn(<<Ice(n)>>) = {n} /\ Increasing(<<Ice(n)>>)
<1>1. Ice(n) \in Message /\ IceOf(Ice(n)) = {n} /\ Append(<<>>, Ice(n)) = <<Ice(n)>>
  BY MessageKinds
<1>2. <<>> \in Seq(Message) /\ Before({}, {n})
  BY DEF Before
<1> QED
  BY <1>1, <1>2, AppendMessage, NoMessages

\* What is announced: the candidates that have waited, in their order.
LEMMA OutgoingIces ==
    ASSUME DataOK, NEW via \in {"offer", "answer"}, NEW made \in {"offer", "answer"}
    PROVE  LET out == <<Sdp(via, made)>> \o Outgoing(pendingLocal)
           IN  /\ IceIn(out) = ToSet(pendingLocal)
               /\ Ascending(pendingLocal) => Increasing(out)
<1> DEFINE p == pendingLocal
           out == <<Sdp(via, made)>> \o Outgoing(pendingLocal)
<1>1. /\ out \in Seq(Message) /\ Len(out) = 1 + Len(p) /\ out[1] = Sdp(via, made)
      /\ \A i \in 1..Len(p) : out[i + 1] = Ice(p[i])
  BY OutgoingEffect
<1>2. p \in Seq(1..MaxLocal) /\ Len(p) \in Nat
  BY DEF DataOK
<1> HIDE DEF out, p
<1>3. DOMAIN p = 1..Len(p) /\ DOMAIN out = 1..(1 + Len(p))
  BY <1>1, <1>2
<1>4. "ice" \notin DOMAIN out[1] /\ \A n : "ice" \in DOMAIN Ice(n) /\ Ice(n).ice = n
  BY <1>1 DEF Sdp, Ice
<1>5. \A i \in 1..Len(p) : i + 1 \in Ices(out) /\ out[i + 1].ice = p[i]
  BY <1>1, <1>2, <1>3, <1>4 DEF Ices
<1>6. \A i \in Ices(out) : i - 1 \in 1..Len(p) /\ out[i].ice = p[i - 1]
  <2> SUFFICES ASSUME NEW i \in Ices(out) PROVE i - 1 \in 1..Len(p) /\ out[i].ice = p[i - 1]
    OBVIOUS
  <2>1. i \in 1..(1 + Len(p)) /\ i # 1
    BY <1>3, <1>4 DEF Ices
  <2>2. i - 1 \in 1..Len(p) /\ (i - 1) + 1 = i
    BY <1>2, <2>1
  <2> QED
    BY <1>5, <2>2
<1>7. IceIn(out) = ToSet(p)
  <2>1. ASSUME NEW i \in 1..Len(p) PROVE p[i] \in IceIn(out)
    BY <1>5 DEF IceIn
  <2>2. ASSUME NEW i \in Ices(out) PROVE out[i].ice \in ToSet(p)
    BY <1>3, <1>6 DEF ToSet
  <2>3. ToSet(p) = {p[i] : i \in 1..Len(p)}
    BY <1>3 DEF ToSet
  <2> QED
    BY <2>1, <2>2, <2>3 DEF IceIn
<1>8. ASSUME Ascending(p) PROVE Increasing(out)
  <2> SUFFICES ASSUME NEW i \in Ices(out), NEW j \in Ices(out), i < j
               PROVE  out[i].ice < out[j].ice
    BY DEF Increasing
  <2>1. i \in Nat /\ j \in Nat
    BY <1>2, <1>3 DEF Ices
  <2>2. i - 1 < j - 1
    BY <2>1
  <2> QED
    BY <1>3, <1>6, <1>8, <2>2 DEF Ascending
<1> QED
  BY <1>7, <1>8 DEF out, p

LEMMA AppendLocal ==
    ASSUME NEW s \in Seq(1..MaxLocal), NEW n \in 1..MaxLocal
    PROVE  ToSet(Append(s, n)) = ToSet(s) \cup {n}
<1> DEFINE S == 1..MaxLocal
<1> HIDE DEF S
<1>1. \A r \in Seq(S), e \in S : ToSet(Append(r, e)) = ToSet(r) \cup {e}
  BY AppendSet
<1> QED
  BY <1>1 DEF S

LEMMA AppendAscending ==
    ASSUME NEW s \in Seq(1..MaxLocal), Ascending(s), NEW n \in 1..MaxLocal,
           \A e \in ToSet(s) : e < n
    PROVE  Ascending(Append(s, n))
<1> DEFINE t == Append(s, n)
<1>1. /\ t \in Seq(1..MaxLocal) /\ Len(t) = Len(s) + 1 /\ t[Len(s) + 1] = n /\ Len(s) \in Nat
      /\ \A i \in 1..Len(s) : t[i] = s[i]
  BY AppendProperties
<1> HIDE DEF t
<1>2. DOMAIN t = 1..(Len(s) + 1) /\ DOMAIN s = 1..Len(s)
  BY <1>1
<1>3. ASSUME NEW i \in DOMAIN t, NEW j \in DOMAIN t, i < j PROVE t[i] < t[j]
  <2>1. i \in 1..Len(s)
    BY <1>1, <1>2, <1>3
  <2>2. CASE j = Len(s) + 1
    BY <1>1, <1>2, <2>1, <2>2 DEF ToSet
  <2>3. CASE j \in 1..Len(s)
    BY <1>1, <1>2, <1>3, <2>1, <2>3 DEF Ascending
  <2> QED
    BY <1>1, <1>2, <2>2, <2>3
<1> QED
  BY <1>3 DEF Ascending, t

LEMMA LocalInit == Init => LocalKept
<1> SUFFICES ASSUME Init PROVE LocalKept
  OBVIOUS
<1>1. sent = <<>> /\ outbox = <<>> /\ pendingLocal = <<>> /\ ~announced /\ count.local = 0
  BY DEF Init
<1>2. ToSet(<<>>) = {} /\ Ascending(<<>>)
  BY DEF ToSet, Ascending
<1>3. 1..0 = {}
  OBVIOUS
<1> QED
  BY <1>1, <1>2, <1>3, NoMessages
     DEF LocalKept, DescriptionFirst, InOrder, AllGathered, Before

\* A step that neither gathers nor sends keeps them.
LEMMA LocalStill ==
    ASSUME LocalKept, UNCHANGED <<sent, outbox, pendingLocal>>,
           announced' => announced, closed => closed',
           count'.local = count.local, count'.offers = count.offers
    PROVE  LocalKept'
BY DEF LocalKept, DescriptionFirst, InOrder, AllGathered

\* A negotiation starts with no candidate waiting; the first one has none.
LEMMA LocalBegin ==
    ASSUME Typed, LocalKept, NEW via, NEW operation, BeginNegotiation(via, operation)
    PROVE  LocalKept'
<1>1. /\ ~announced' /\ pendingLocal' = <<>>
      /\ UNCHANGED <<sent, outbox, closed>> /\ Another("offers", MaxOffers)
  BY DEF BeginNegotiation, peerVars
<1>2. count'.local = count.local /\ count'.offers = count.offers + 1
  BY <1>1, CountEffect DEF Typed
<1>3. count.offers \in Nat
  BY DEF Typed, DataOK, Count
<1>4. count'.offers <= 1 => count.offers = 0
  BY <1>2, <1>3
<1>5. count'.offers <= 1 => count.local = 0
  BY <1>4 DEF Typed, Fresh
<1>6. ToSet(<<>>) = {} /\ Ascending(<<>>) /\ 1..0 = {}
  BY DEF ToSet, Ascending
<1>7. DescriptionFirst'
  BY <1>1 DEF LocalKept, DescriptionFirst
<1>8. InOrder'
  BY <1>1, <1>6 DEF LocalKept, InOrder, Before
<1>9. AllGathered'
  BY <1>1, <1>2, <1>5, <1>6 DEF LocalKept, AllGathered
<1> QED
  BY <1>7, <1>8, <1>9 DEF LocalKept

LEMMA LocalAnnounce ==
    ASSUME Typed, LocalKept, AnnounceLocalDescription
    PROVE  LocalKept'
<1> DEFINE out == <<Sdp(sdpCallback, localSdp)>> \o Outgoing(pendingLocal)
<1>1. /\ pc.todo # <<>> /\ Head(pc.todo) = "announce" /\ place.rtc = "idle" /\ ~closed
      /\ announced' = TRUE /\ pendingLocal' = <<>> /\ outbox' = out
      /\ UNCHANGED <<closed, count, sent>>
  BY DEF AnnounceLocalDescription, Announce, Doing, peerVars
<1>2. outbox = <<>>
  BY <1>1 DEF Typed, DataOK
<1>3. sdpCallback \in {"offer", "answer"} /\ localSdp \in {"offer", "answer"}
  <2>1. count.offers > 0
    BY <1>1 DEF Typed, Fresh, DataOK, Count
  <2>2. "announce" \in ToSet(pc.todo)
    BY <1>1, TailSet DEF Typed, DataOK, Connection
  <2> QED
    BY <1>1, <2>1, <2>2 DEF Typed, Control, DataOK
<1>4. /\ out # <<>> /\ out[1] = Sdp(sdpCallback, localSdp) /\ IceIn(out) = ToSet(pendingLocal)
      /\ Ascending(pendingLocal) => Increasing(out)
  BY <1>3, OutgoingEffect, OutgoingIces DEF Typed
<1>5. "via" \in DOMAIN out[1]
  BY <1>3, <1>4, MessageKinds
<1> HIDE DEF out
<1>6. ToSet(<<>>) = {} /\ Ascending(<<>>)
  BY DEF ToSet, Ascending
<1>7. DescriptionFirst'
  BY <1>1, <1>4, <1>5 DEF LocalKept, DescriptionFirst
<1>8. InOrder'
  BY <1>1, <1>4, <1>6 DEF LocalKept, InOrder, Before
<1>9. AllGathered'
  BY <1>1, <1>2, <1>4, <1>6, NoMessages DEF LocalKept, AllGathered
<1> QED
  BY <1>7, <1>8, <1>9 DEF LocalKept

LEMMA LocalSend ==
    ASSUME Typed, LocalKept, Send
    PROVE  LocalKept'
<1>1. /\ outbox # <<>> /\ outbox \in Seq(Message) /\ sent \in Seq(Message)
      /\ sent' = Append(sent, Head(outbox)) /\ outbox' = Tail(outbox)
      /\ UNCHANGED <<pendingLocal, announced, closed, count>>
  BY DEF Send, Typed, Control, DataOK, sessionVars
<1>2. /\ Head(outbox) \in Message /\ Head(outbox) = outbox[1]
      /\ IceIn(outbox) = IceOf(Head(outbox)) \cup IceIn(outbox')
      /\ Increasing(outbox) => Increasing(outbox') /\ Before(IceOf(Head(outbox)), IceIn(outbox'))
  BY <1>1, HeadTailProperties, TailMessage
<1>3. /\ IceIn(sent') = IceIn(sent) \cup IceOf(Head(outbox))
      /\ Increasing(sent) /\ Before(IceIn(sent), IceOf(Head(outbox))) => Increasing(sent')
      /\ sent'[1] = IF sent = <<>> THEN Head(outbox) ELSE sent[1]
  BY <1>1, <1>2, AppendMessage
<1>4. sent' # <<>>
  BY <1>1, <1>2, AppendProperties, EmptySeq
<1>5. DescriptionFirst'
  BY <1>1, <1>2, <1>3, <1>4 DEF LocalKept, DescriptionFirst
<1>6. InOrder'
  <2>1. Increasing(outbox') /\ Increasing(sent') /\ Before(IceIn(sent'), IceIn(outbox'))
    BY <1>2, <1>3 DEF LocalKept, InOrder, Before
  <2>2. Before(IceIn(sent'), ToSet(pendingLocal)) /\ Before(IceIn(outbox'), ToSet(pendingLocal))
    BY <1>2, <1>3 DEF LocalKept, InOrder, Before
  <2> QED
    BY <1>1, <2>1, <2>2 DEF LocalKept, InOrder
<1>7. AllGathered'
  BY <1>1, <1>2, <1>3 DEF LocalKept, AllGathered
<1> QED
  BY <1>5, <1>6, <1>7 DEF LocalKept

\* Another candidate is gathered: it waits, is sent, or is dropped.
LEMMA LocalGather ==
    ASSUME Typed, LocalKept, OnIceCandidate
    PROVE  LocalKept'
<1> DEFINE n == count'.local
<1>1. /\ n = count.local + 1 /\ count.local \in Nat /\ n \in 1..MaxLocal
      /\ count'.offers = count.offers
  <2>1. count' \in Count /\ n = count.local + 1 /\ count'.offers = count.offers
    BY CountEffect DEF OnIceCandidate, Typed
  <2>2. count.local \in Nat /\ n \in 0..MaxLocal
    BY <2>1 DEF Typed, DataOK, Count
  <2> QED
    BY <2>1, <2>2
<1>2. 1..n = (1..count.local) \cup {n} /\ \A e \in 1..count.local : e < n
  BY <1>1
<1> HIDE DEF n
<1>3. outbox = <<>> /\ pendingLocal \in Seq(1..MaxLocal)
  BY DEF OnIceCandidate, Observes, Typed, DataOK
<1>4. UNCHANGED <<sent, announced, closed>> /\ count'.local = n
  BY DEF OnIceCandidate, peerVars, n
<1>5. CASE closed
  <2>1. UNCHANGED <<pendingLocal, outbox>>
    BY <1>5 DEF OnIceCandidate
  <2>2. AllGathered'
    BY <1>2, <1>4, <1>5, <2>1 DEF LocalKept, AllGathered
  <2> QED
    BY <1>4, <2>1, <2>2 DEF LocalKept, DescriptionFirst, InOrder
<1>6. CASE ~closed /\ announced
  <2>1. outbox' = <<Ice(n)>> /\ UNCHANGED pendingLocal
    BY <1>6 DEF OnIceCandidate, n
  <2>2. IceIn(<<Ice(n)>>) = {n} /\ Increasing(<<Ice(n)>>) /\ <<Ice(n)>> # <<>>
    BY <1>1, SingleMessage
  <2>3. sent # <<>> /\ pendingLocal = <<>> /\ ToSet(<<>>) = {}
    BY <1>3, <1>6 DEF LocalKept, DescriptionFirst, ToSet
  <2>4. DescriptionFirst'
    BY <1>4, <2>1, <2>3 DEF LocalKept, DescriptionFirst
  <2>5. InOrder'
    BY <1>2, <1>4, <2>1, <2>2, <2>3 DEF LocalKept, InOrder, AllGathered, Before
  <2>6. AllGathered'
    BY <1>1, <1>2, <1>3, <1>4, <2>1, <2>2, NoMessages DEF LocalKept, AllGathered
  <2> QED
    BY <2>4, <2>5, <2>6 DEF LocalKept
<1>7. CASE ~closed /\ ~announced
  <2>1. pendingLocal' = Append(pendingLocal, n) /\ UNCHANGED outbox
    BY <1>7 DEF OnIceCandidate, n
  <2>2. ToSet(pendingLocal') = ToSet(pendingLocal) \cup {n}
    BY <1>1, <1>3, <2>1, AppendLocal
  <2>3. Ascending(pendingLocal')
    BY <1>1, <1>2, <1>3, <2>1, AppendAscending DEF LocalKept, InOrder, AllGathered
  <2>4. DescriptionFirst'
    BY <1>4, <1>7, <2>1 DEF LocalKept, DescriptionFirst
  <2>5. InOrder'
    BY <1>2, <1>4, <2>1, <2>2, <2>3 DEF LocalKept, InOrder, AllGathered, Before
  <2>6. AllGathered'
    BY <1>1, <1>2, <1>4, <2>1, <2>2 DEF LocalKept, AllGathered
  <2> QED
    BY <2>4, <2>5, <2>6 DEF LocalKept
<1> QED
  BY <1>5, <1>6, <1>7

LEMMA LocalStep == Typed /\ LocalKept /\ [Next]_vars => LocalKept'
<1> SUFFICES ASSUME Typed, LocalKept, [Next]_vars PROVE LocalKept'
  OBVIOUS
<1> USE DEF callVars, stateVars, sessionVars, peerVars
<1>1. CASE CreateOffer \/ ApplyRemoteOffer
  BY <1>1, LocalBegin DEF CreateOffer, ApplyRemoteOffer
<1>2. CASE ApplyRemoteAnswer
  <2>1. count'.local = count.local /\ count'.offers = count.offers
    BY <1>2, CountEffect DEF ApplyRemoteAnswer, Typed
  <2> QED
    BY <1>2, <2>1, LocalStill DEF ApplyRemoteAnswer
<1>3. CASE AddRemoteCandidate
  <2>1. count'.local = count.local /\ count'.offers = count.offers
    BY <1>3, CountEffect DEF AddRemoteCandidate, Typed
  <2> QED
    BY <1>3, <2>1, LocalStill DEF AddRemoteCandidate
<1>4. CASE Close
  <2>1. /\ pendingLocal' = <<>> /\ closed' /\ UNCHANGED <<sent, outbox, announced, count>>
    BY <1>4 DEF Close
  <2>2. ToSet(<<>>) = {} /\ Ascending(<<>>)
    BY DEF ToSet, Ascending
  <2> QED
    BY <2>1, <2>2 DEF LocalKept, DescriptionFirst, InOrder, AllGathered, Before
<1>5. ASSUME NEW t \in Threads, UpdateState(t) \/ AddCandidate(t) \/ AddedAll(t) PROVE LocalKept'
  BY <1>5, LocalStill DEF UpdateState, AddCandidate, AddedAll
<1>6. CASE CallConnection \/ CloseConnection
  BY <1>6, LocalStill DEF CallConnection, CloseConnection
<1>7. ASSUME NEW made, NEW op, Created(made, op) PROVE LocalKept'
  BY <1>7, LocalStill DEF Created
<1>8. CASE LocalSet \/ AnnounceTooLate \/ FailNegotiation \/ DereferenceNull
  BY <1>8, LocalStill DEF LocalSet, AnnounceTooLate, FailNegotiation, Fail, DereferenceNull
<1>9. ASSUME NEW op, RemoteSet(op) PROVE LocalKept'
  BY <1>9, LocalStill DEF RemoteSet, MarkRemote
<1>10. ASSUME NEW s \in ObservedState, OnPeerConnectionState(s) PROVE LocalKept'
  <2>1. count'.local = count.local /\ count'.offers = count.offers
    BY <1>10, CountEffect DEF OnPeerConnectionState, Typed
  <2> QED
    BY <1>10, <2>1, LocalStill DEF OnPeerConnectionState
<1>11. CASE UNCHANGED vars
  BY <1>11, LocalStill DEF vars
<1>12. CASE UI
  BY <1>5, <1>6, <1>12 DEF UI, Threads
<1>13. CASE Rtc
  BY <1>5, <1>7, <1>8, <1>9, <1>13, LocalAnnounce, LocalSend DEF Rtc, Threads
<1> QED
  BY <1>1, <1>2, <1>3, <1>4, <1>10, <1>11, <1>12, <1>13, LocalGather DEF Next, Step

LEMMA LocalInvariance == Spec => []LocalKept
BY SessionInvariance, LocalInit, LocalStep, PTL DEF Spec

\* "SDP first, then all gathered ICE": what OnIceCandidate queues and what
\* it sends by itself, while the description is announced from a copy.
THEOREM SdpThenAllIceTheorem == Spec => []SdpThenAllIce
<1>1. IceIn(sent) = IceSent
  BY DEF IceIn, IceSent
<1>2. Typed /\ LocalKept => SdpThenAllIce
  <2> SUFFICES ASSUME Typed, LocalKept PROVE SdpThenAllIce
    OBVIOUS
  <2>1. ASSUME count.offers = 1, announced, place.rtc = "idle", ~closed
        PROVE  IceSent = 1..count.local
    <3>1. outbox = <<>> /\ pendingLocal = <<>>
      BY <2>1 DEF Typed, DataOK, LocalKept, DescriptionFirst
    <3>2. IceIn(outbox) = {} /\ ToSet(pendingLocal) = {}
      BY <3>1, NoMessages DEF ToSet
    <3>3. count.offers <= 1
      BY <2>1
    <3>4. IceIn(sent) = 1..count.local
      BY <2>1, <3>2, <3>3 DEF LocalKept, AllGathered
    <3> QED
      BY <1>1, <3>4
  <2> QED
    BY <2>1 DEF LocalKept, DescriptionFirst, InOrder, Increasing, SdpThenAllIce
<1> QED
  BY <1>2, SessionInvariance, LocalInvariance, PTL

-----------------------------------------------------------------------------
(* The dialog's last news.  While there is one negotiation and Close waits *)
(* for the running callback, the two threads are never both in             *)
(* UpdateState: the dialog's updates come before WebRTC has anything to do *)
(* and after it has nothing left to say.                                   *)

Alone ==
    /\ ~pc.open => place.rtc = "idle"
    /\ place.ui \in Updating \cup {"call"} =>
          place.rtc = "idle" /\ (~pc.open \/ (pc.todo = <<>> /\ ~pc.local))
    /\ call # "none" => pc.open /\ place.ui \in Updating \cup {"call"}

Told ==
    /\ \A t \in Threads : place[t] = "report" => state = target[t]
    /\ (\A t \in Threads : place[t] # "report") => reported = state

OneNegotiation == closeWaits /\ count.offers <= 1

NewsKept == OneNegotiation => Alone /\ Told

LEMMA NewsInit == Init => NewsKept
BY DEF Init, NewsKept, Alone, Told, Threads, Updating

LEMMA OneNegotiationBefore ==
    ASSUME Typed, Next, OneNegotiation' PROVE OneNegotiation
<1> USE DEF callVars, stateVars, sessionVars, peerVars
<1>1. count.offers \in Nat
  BY DEF Typed, DataOK, Count
<1>2. closeWaits /\ count'.offers <= 1
  BY DEF OneNegotiation, Next
<1>3. count' = count \/ Another("offers", MaxOffers) \/ Another("local", MaxLocal)
      \/ Another("remote", MaxRemote) \/ Another("answers", MaxAnswers)
      \/ Another("events", MaxEvents)
  <2>1. CASE CreateOffer \/ ApplyRemoteOffer \/ ApplyRemoteAnswer \/ AddRemoteCandidate \/ Close
    BY <2>1 DEF CreateOffer, ApplyRemoteOffer, BeginNegotiation, ApplyRemoteAnswer,
                AddRemoteCandidate, Close
  <2>2. CASE OnIceCandidate \/ \E s \in ObservedState : OnPeerConnectionState(s)
    BY <2>2 DEF OnIceCandidate, OnPeerConnectionState
  <2>3. CASE UI
    BY <2>3 DEF UI, UpdateState, CallConnection, AddCandidate, AddedAll, CloseConnection
  <2>4. CASE Rtc
    BY <2>4 DEF Rtc, UpdateState, AddCandidate, AddedAll, Created, LocalSet,
                AnnounceLocalDescription, Announce, AnnounceTooLate, Send, RemoteSet,
                MarkRemote, FailNegotiation, Fail, DereferenceNull
  <2> QED
    BY <2>1, <2>2, <2>3, <2>4 DEF Next, Step
<1>4. count'.offers = count.offers \/ count'.offers = count.offers + 1
  BY <1>3, CountEffect DEF Typed
<1> QED
  BY <1>1, <1>2, <1>4 DEF OneNegotiation

\* UpdateState alone: it stores, and reports what it has stored.
LEMMA NewsUpdate ==
    ASSUME Typed, Alone, Told, NEW t \in Threads, UpdateState(t)
    PROVE  Alone' /\ Told'
<1>1. UNCHANGED <<target, call, pc>>
  BY DEF UpdateState, callVars
<1>2. PICK p \in Place : Go(t, p) /\ p \in Updating \cup {"idle", "call"}
                         /\ (p = "call" => t = "ui" /\ call # "none")
  BY UpdateEffect
<1>3. /\ place' \in [Threads -> Place] /\ place'[t] = p
      /\ \A other \in Threads \ {t} : place'[other] = place[other]
  BY <1>2, GoEffect DEF Typed
<1>4. place[t] \in Updating
  BY UpdateEffect
<1>5. \A other \in Threads \ {t} : place[other] \notin Updating
  BY <1>4 DEF Alone, Threads, Updating
<1>6. \A other \in Threads \ {t} : place[other] # "report" /\ place'[other] # "report"
  BY <1>3, <1>5 DEF Updating
<1>7. Alone'
  <2>1. CASE t = "ui"
    <3>1. place'.rtc = place.rtc /\ place.rtc = "idle"
      BY <1>3, <1>4, <2>1 DEF Threads, Alone
    <3>2. ~pc.open \/ (pc.todo = <<>> /\ ~pc.local)
      BY <1>4, <2>1 DEF Alone
    <3>3. call # "none" => p \in Updating \cup {"call"}
      <4>1. After("ui") = IF call # "none" THEN "call" ELSE "idle"
        BY DEF After
      <4>2. place' \in {[place EXCEPT !.ui = "store"], [place EXCEPT !.ui = "report"],
                        [place EXCEPT !.ui = After("ui")]}
        BY <2>1 DEF UpdateState, Compare, Store, Report, Go
      <4>3. place \in [Threads -> Place]
        BY DEF Typed, DataOK, Place
      <4>4. place'.ui \in {"store", "report", After("ui")}
        BY <4>2, <4>3 DEF Threads
      <4> QED
        BY <1>3, <2>1, <4>1, <4>4 DEF Updating
    <3> QED
      BY <1>1, <1>3, <2>1, <3>1, <3>2, <3>3 DEF Alone
  <2>2. CASE t = "rtc"
    <3>1. place'.ui = place.ui /\ place.rtc # "idle"
      BY <1>3, <1>4, <2>2 DEF Threads, Updating
    <3> QED
      BY <1>1, <3>1 DEF Alone
  <2> QED
    BY <2>1, <2>2 DEF Threads
<1>8. Told'
  <2>1. CASE Compare(t)
    <3>1. p # "report" /\ place[t] # "report" /\ UNCHANGED <<state, reported>>
      <4>1. After(t) # "report"
        BY AfterIsPlace
      <4>2. place' = [place EXCEPT ![t] = IF state = target[t] THEN After(t) ELSE "store"]
        BY <2>1 DEF Compare, Go
      <4>3. place'[t] = IF state = target[t] THEN After(t) ELSE "store"
        BY <4>2 DEF Typed, DataOK
      <4> QED
        BY <1>3, <2>1, <4>1, <4>3 DEF Compare, stateVars
    <3> QED
      BY <1>3, <1>6, <3>1 DEF Told
  <2>2. CASE Store(t)
    <3>1. state' = target[t] /\ place'[t] = "report"
      BY <2>2 DEF Store, Go, Typed, DataOK
    <3> QED
      BY <1>1, <1>6, <3>1 DEF Told
  <2>3. CASE Report(t)
    <3>1. reported' = target[t] /\ state' = state /\ state = target[t]
      BY <2>3 DEF Report, Told
    <3>2. place'[t] # "report"
      <4>1. place' = [place EXCEPT ![t] = After(t)] /\ After(t) # "report"
        BY <2>3, AfterIsPlace DEF Report, Go
      <4> QED
        BY <4>1 DEF Typed, DataOK
    <3> QED
      BY <1>6, <3>1, <3>2 DEF Told
  <2> QED
    BY <2>1, <2>2, <2>3 DEF UpdateState
<1> QED
  BY <1>7, <1>8

\* Any other step neither begins nor ends a report.
LEMMA ToldStill ==
    ASSUME Told, UNCHANGED <<state, reported>>,
           \/ place.ui # "report" /\ place'.ui # "report"
           \/ place'.ui = place.ui /\ target'.ui = target.ui,
           \/ place.rtc # "report" /\ place'.rtc # "report"
           \/ place'.rtc = place.rtc /\ target'.rtc = target.rtc
    PROVE  Told'
BY DEF Told, Threads

\* The dialog's own steps but UpdateState.
LEMMA NewsUI ==
    ASSUME Typed, Alone, Told, closeWaits,
           \/ CreateOffer \/ ApplyRemoteOffer \/ ApplyRemoteAnswer \/ AddRemoteCandidate
           \/ Close \/ CallConnection \/ AddedAll("ui") \/ CloseConnection,
           count'.offers <= 1
    PROVE  Alone' /\ Told'
<1> USE DEF callVars, stateVars, sessionVars, peerVars
<1>0. pc \in Connection /\ place \in [Threads -> Place] /\ DataOK /\ "ui" \in Threads
  BY DEF Typed, DataOK, Place, Threads
<1>1. CASE CreateOffer \/ ApplyRemoteOffer
  <2>1. /\ place.ui = "idle" /\ pc.open /\ call' \in {"createOffer", "setRemoteOffer"}
        /\ BeginUpdate("ui", "Connecting") /\ Another("offers", MaxOffers)
        /\ UNCHANGED <<state, reported, pc>>
    BY <1>1 DEF CreateOffer, ApplyRemoteOffer, BeginNegotiation
  <2>2. place'.ui = "compare" /\ place'.rtc = place.rtc
    BY <1>0, <2>1, BeginUpdateEffect DEF Threads, SessionState
  <2>3. count'.offers = count.offers + 1 /\ count.offers \in Nat
    BY <1>0, <2>1, CountEffect DEF DataOK, Count
  <2>4. count.offers = 0
    BY <2>3
  <2>5. place.rtc = "idle" /\ pc.todo = <<>> /\ ~pc.local
    BY <2>4 DEF Typed, Fresh
  <2>6. Alone'
    BY <2>1, <2>2, <2>5 DEF Alone, Updating
  <2> QED
    BY <2>1, <2>2, <2>5, <2>6, ToldStill DEF Threads
<1>2. CASE ApplyRemoteAnswer
  <2>1. /\ place.ui = "idle" /\ pc' = [pc EXCEPT !.todo = Append(pc.todo, "setRemoteAnswer")]
        /\ UNCHANGED <<place, target, call, state, reported>>
    BY <1>2 DEF ApplyRemoteAnswer, Negotiating
  <2>2. pc'.open = pc.open
    BY <1>0, <2>1 DEF Connection
  <2> QED
    BY <2>1, <2>2, ToldStill DEF Alone, Updating
<1>3. CASE AddRemoteCandidate \/ Close \/ AddedAll("ui")
  <2>1. /\ place.ui \in {"idle", "add"}
        /\ Go("ui", "add") \/ UNCHANGED place \/ Go("ui", "teardown") \/ Go("ui", "idle")
        /\ UNCHANGED <<target, call, state, reported, pc>>
    BY <1>3 DEF AddRemoteCandidate, Negotiating, Close, AddedAll
  <2>2. place'.ui \in {"idle", "add", "teardown"} /\ place'.rtc = place.rtc
    BY <1>0, <2>1, GoEffect DEF Threads, Place
  <2>3. Alone'
    BY <2>1, <2>2 DEF Alone, Updating
  <2> QED
    BY <2>1, <2>2, <2>3, ToldStill DEF Threads
<1>4. CASE CallConnection
  <2>1. /\ place.ui = "call" /\ Go("ui", "idle") /\ call' = "none"
        /\ pc' = [pc EXCEPT !.todo = Append(pc.todo, call)]
        /\ UNCHANGED <<target, state, reported>>
    BY <1>4 DEF CallConnection
  <2>2. place'.ui = "idle" /\ place'.rtc = place.rtc /\ pc'.open = pc.open
    BY <1>0, <2>1, GoEffect DEF Threads, Place, Connection
  <2>3. Alone'
    BY <2>1, <2>2 DEF Alone, Updating
  <2> QED
    BY <2>1, <2>2, <2>3, ToldStill DEF Threads
<1>5. CASE CloseConnection
  <2>1. /\ place.ui = "teardown" /\ place.rtc = "idle" /\ BeginUpdate("ui", "Closed")
        /\ pc' = [pc EXCEPT !.open = FALSE] /\ UNCHANGED <<call, state, reported>>
    BY <1>5 DEF CloseConnection
  <2>2. place'.ui = "compare" /\ place'.rtc = place.rtc /\ ~pc'.open
    BY <1>0, <2>1, BeginUpdateEffect DEF Threads, SessionState, Connection
  <2>3. Alone'
    BY <2>1, <2>2 DEF Alone, Updating
  <2> QED
    BY <2>1, <2>2, <2>3, ToldStill DEF Threads
<1> QED
  BY <1>1, <1>2, <1>3, <1>4, <1>5

\* What the rtc thread begins it begins while the dialog is not updating,
\* or without leaving idle.
LEMMA NewsRtcStill ==
    ASSUME Alone, Told, UNCHANGED <<call, state, reported>>,
           place'.ui = place.ui, place.rtc # "report", place'.rtc # "report",
           target'.ui = target.ui, pc'.open = pc.open,
           place'.rtc = "idle" \/ pc.open,
           place.ui \notin Updating \cup {"call"} \/ (place'.rtc = "idle" /\ ~pc.open)
    PROVE  Alone' /\ Told'
<1>1. Alone'
  BY DEF Alone
<1>2. Told'
  BY ToldStill
<1> QED
  BY <1>1, <1>2

LEMMA NewsRtc ==
    ASSUME Typed, Alone, Told,
           \/ AddedAll("rtc") \/ Created("offer", "createOffer")
           \/ Created("answer", "createAnswer") \/ LocalSet
           \/ AnnounceLocalDescription \/ AnnounceTooLate \/ Send
           \/ RemoteSet("setRemoteOffer") \/ RemoteSet("setRemoteAnswer")
           \/ FailNegotiation \/ DereferenceNull \/ OnIceCandidate
           \/ \E s \in ObservedState : OnPeerConnectionState(s)
    PROVE  Alone' /\ Told'
<1> USE DEF callVars, stateVars, sessionVars, peerVars
<1>0. pc \in Connection /\ place \in [Threads -> Place] /\ DataOK /\ "rtc" \in Threads
  BY DEF Typed, DataOK, Place, Threads
<1>1. ~closed => pc.open
  BY DEF Typed, Closing
<1>2. CASE AddedAll("rtc") \/ Send
  <2>1. /\ place.rtc \in {"add", "send"} /\ (Go("rtc", "idle") \/ Go("rtc", "send"))
        /\ UNCHANGED <<call, state, reported, target>>
    BY <1>2 DEF AddedAll, Send
  <2>2. place'.ui = place.ui /\ place'.rtc \in {"idle", "send"}
    BY <1>0, <2>1, GoEffect DEF Threads, Place
  <2>3. pc'.open = pc.open
    BY <1>0, <1>2 DEF AddedAll, Send, Connection
  <2>4. pc.open /\ place.ui \notin Updating \cup {"call"}
    BY <2>1 DEF Alone
  <2> QED
    BY <2>1, <2>2, <2>3, <2>4, NewsRtcStill
<1>3. CASE \/ Created("offer", "createOffer") \/ Created("answer", "createAnswer")
           \/ LocalSet \/ AnnounceTooLate
  <2>1. /\ place.rtc = "idle" /\ pc.todo # <<>>
        /\ UNCHANGED <<place, target, call, state, reported>>
    BY <1>3 DEF Created, LocalSet, AnnounceTooLate, Doing
  <2>2. pc'.open = pc.open
    BY <1>0, <1>3 DEF Created, LocalSet, AnnounceTooLate, Connection
  <2>3. place.ui \notin Updating \cup {"call"} \/ ~pc.open
    BY <2>1 DEF Alone
  <2> QED
    BY <2>1, <2>2, <2>3, NewsRtcStill
<1>4. CASE \/ AnnounceLocalDescription
           \/ RemoteSet("setRemoteOffer") \/ RemoteSet("setRemoteAnswer")
  <2>1. /\ place.rtc = "idle" /\ pc.todo # <<>> /\ pc.open
        /\ Go("rtc", "send") \/ Go("rtc", "add")
        /\ UNCHANGED <<target, call, state, reported>>
    BY <1>1, <1>4 DEF AnnounceLocalDescription, Announce, RemoteSet, MarkRemote, Doing
  <2>2. place'.ui = place.ui /\ place'.rtc \in {"add", "send"}
    BY <1>0, <2>1, GoEffect DEF Threads, Place
  <2>3. pc'.open = pc.open
    BY <1>0, <1>4 DEF AnnounceLocalDescription, Announce, RemoteSet, MarkRemote, Connection
  <2>4. place.ui \notin Updating \cup {"call"}
    BY <2>1 DEF Alone
  <2> QED
    BY <2>1, <2>2, <2>3, <2>4, NewsRtcStill
<1>5. CASE FailNegotiation
  <2>1. /\ place.rtc = "idle" /\ pc.todo # <<>> /\ pc' = [pc EXCEPT !.todo = Tail(pc.todo)]
        /\ IF closed THEN UNCHANGED <<place, target>> ELSE BeginUpdate("rtc", "Failed")
        /\ UNCHANGED <<call, state, reported>>
    BY <1>5 DEF FailNegotiation, Fail
  <2>2. pc'.open = pc.open
    BY <1>0, <2>1 DEF Connection
  <2>3. place.ui \notin Updating \cup {"call"} \/ ~pc.open
    BY <2>1 DEF Alone
  <2>4. CASE closed
    BY <2>1, <2>2, <2>3, <2>4, NewsRtcStill
  <2>5. CASE ~closed
    <3>1. BeginUpdate("rtc", "Failed") /\ pc.open
      BY <1>1, <2>1, <2>5
    <3>2. place'.ui = place.ui /\ place'.rtc = "compare"
      BY <1>0, <3>1, BeginUpdateEffect DEF Threads, SessionState
    <3>3. target'.ui = target.ui
      BY <1>0, <3>1 DEF BeginUpdate, DataOK, Threads
    <3> QED
      BY <2>1, <2>2, <2>3, <3>1, <3>2, <3>3, NewsRtcStill
  <2> QED
    BY <2>4, <2>5
<1>6. CASE OnIceCandidate
  <2>1. /\ place.rtc = "idle" /\ pc.open /\ pc.local
        /\ UNCHANGED place \/ Go("rtc", "send")
        /\ UNCHANGED <<target, call, state, reported, pc>>
    BY <1>6 DEF OnIceCandidate, Observes
  <2>2. place'.ui = place.ui /\ place'.rtc \in {"idle", "send"}
    BY <1>0, <2>1, GoEffect DEF Threads, Place
  <2>3. place.ui \notin Updating \cup {"call"}
    BY <2>1 DEF Alone
  <2> QED
    BY <2>1, <2>2, <2>3, NewsRtcStill
<1>7. ASSUME NEW s \in ObservedState, OnPeerConnectionState(s) PROVE Alone' /\ Told'
  <2>1. /\ place.rtc = "idle" /\ pc.open /\ pc.local /\ BeginUpdate("rtc", s)
        /\ UNCHANGED <<call, state, reported, pc>>
    BY <1>7 DEF OnPeerConnectionState, Observes
  <2>2. place'.ui = place.ui /\ place'.rtc = "compare"
    BY <1>0, <2>1, BeginUpdateEffect DEF Threads, ObservedState
  <2>3. target'.ui = target.ui
    BY <1>0, <2>1 DEF BeginUpdate, DataOK, Threads
  <2>4. place.ui \notin Updating \cup {"call"}
    BY <2>1 DEF Alone
  <2> QED
    BY <2>1, <2>2, <2>3, <2>4, NewsRtcStill
<1>8. CASE DereferenceNull
  <2>1. /\ ~pc.open /\ place.rtc # "report" /\ place'.ui = place.ui /\ place'.rtc = "idle"
        /\ pc'.open = pc.open /\ UNCHANGED <<call, state, reported, target>>
    BY <1>8, DereferenceEffect
  <2> QED
    BY <2>1, NewsRtcStill
<1> QED
  BY <1>2, <1>3, <1>4, <1>5, <1>6, <1>7, <1>8

LEMMA NewsStep == Typed /\ NewsKept /\ [Next]_vars => NewsKept'
<1> SUFFICES ASSUME Typed, NewsKept, [Next]_vars, OneNegotiation' PROVE Alone' /\ Told'
  BY DEF NewsKept
<1>1. CASE UNCHANGED vars
  <2>1. UNCHANGED <<closeWaits, place, target, call, state, reported, pc, count>>
    BY <1>1 DEF vars, callVars, stateVars
  <2> QED
    BY <2>1 DEF NewsKept, OneNegotiation, Alone, Told
<1>2. CASE Next
  <2>1. Alone /\ Told /\ closeWaits /\ count'.offers <= 1
    BY <1>2, OneNegotiationBefore DEF NewsKept, OneNegotiation, Next
  <2>2. ASSUME NEW t \in Threads, AddCandidate(t) PROVE Alone' /\ Told'
    <3>1. UNCHANGED <<place, target, call, state, reported, pc>>
      BY <2>2 DEF AddCandidate, callVars, stateVars
    <3> QED
      BY <2>1, <3>1 DEF Alone, Told
  <2>3. CASE UI
    BY <2>1, <2>2, <2>3, NewsUpdate, NewsUI DEF UI, Threads
  <2>4. CASE Rtc
    BY <2>1, <2>2, <2>4, NewsUpdate, NewsRtc DEF Rtc, Threads
  <2>5. CASE OnIceCandidate \/ \E s \in ObservedState : OnPeerConnectionState(s)
    BY <2>1, <2>5, NewsRtc
  <2>6. CASE CreateOffer \/ ApplyRemoteOffer \/ ApplyRemoteAnswer \/ AddRemoteCandidate \/ Close
    BY <2>1, <2>6, NewsUI
  <2> QED
    BY <1>2, <2>3, <2>4, <2>5, <2>6 DEF Next, Step
<1> QED
  BY <1>1, <1>2

LEMMA NewsInvariance == Spec => []NewsKept
BY SessionInvariance, NewsInit, NewsStep, PTL DEF Spec

\* Whenever both threads rest after one negotiation, the dialog's last news
\* is the state: UpdateState compares, stores and reports in three steps,
\* without the mutex between the last two.
THEOREM LastNewsIsStateTheorem == Spec => []LastNewsIsState
<1>1. NewsKept => LastNewsIsState
  BY DEF NewsKept, OneNegotiation, Told, LastNewsIsState, Idle, Threads
<1> QED
  BY <1>1, NewsInvariance, PTL

-----------------------------------------------------------------------------
(* The flags, and the closed session. *)

LEMMA FlagsStep == FlagsOK /\ [Next]_vars => FlagsOK'
<1> SUFFICES ASSUME FlagsOK, [Next]_vars PROVE FlagsOK'
  OBVIOUS
<1> USE DEF callVars, stateVars, sessionVars, peerVars
<1>1. closeWaits' = closeWaits
  BY DEF Next, vars
<1>2. /\ closed' = closed \/ closed' = TRUE
      /\ announced' = announced \/ announced' = TRUE \/ announced' = FALSE
      /\ remoteSet' = remoteSet \/ remoteSet' = TRUE \/ remoteSet' = FALSE
  <2>1. CASE CreateOffer \/ ApplyRemoteOffer \/ ApplyRemoteAnswer \/ AddRemoteCandidate \/ Close
    BY <2>1 DEF CreateOffer, ApplyRemoteOffer, BeginNegotiation, ApplyRemoteAnswer,
                AddRemoteCandidate, Close
  <2>2. CASE OnIceCandidate \/ \E s \in ObservedState : OnPeerConnectionState(s)
    BY <2>2 DEF OnIceCandidate, OnPeerConnectionState
  <2>3. CASE UI
    BY <2>3 DEF UI, UpdateState, CallConnection, AddCandidate, AddedAll, CloseConnection
  <2>4. CASE Rtc
    BY <2>4 DEF Rtc, UpdateState, AddCandidate, AddedAll, Created, LocalSet,
                AnnounceLocalDescription, Announce, AnnounceTooLate, Send, RemoteSet,
                MarkRemote, FailNegotiation, Fail, DereferenceNull
  <2>5. CASE UNCHANGED vars
    BY <2>5 DEF vars
  <2> QED
    BY <2>1, <2>2, <2>3, <2>4, <2>5 DEF Next, Step
<1>3. closed' \in BOOLEAN /\ announced' \in BOOLEAN /\ remoteSet' \in BOOLEAN
  BY <1>2, Zenon DEF FlagsOK
<1> QED
  BY <1>1, <1>3 DEF FlagsOK

\* The values of a session's members, at every step of the two threads.
THEOREM SessionTypeCorrect == Spec => []TypeOK
<1>1. Init => FlagsOK
  BY DEF Init, FlagsOK
<1>2. Typed /\ FlagsOK => TypeOK
  BY DEF Typed, TypeOK
<1> QED
  BY <1>1, <1>2, FlagsStep, SessionInvariance, PTL DEF Spec

\* A closed session at rest stays at rest and is silent: Close takes the
\* callbacks and lists away before it closes the connection, which goes on
\* with what it was asked for.
THEOREM SilentWhenClosedTheorem == Spec => SilentWhenClosed
<1>1. ASSUME Typed, [Next]_vars, closed, Idle
      PROVE  Idle' /\ UNCHANGED <<sent, added, reported, state>>
  <2> USE DEF callVars, stateVars, sessionVars, peerVars, Idle
  <2>1. ~pc.open /\ place.ui = "idle" /\ place.rtc = "idle"
    BY <1>1 DEF Typed, Closing
  <2>2. CASE UNCHANGED vars
    BY <2>1, <2>2 DEF vars
  <2>3. CASE CreateOffer \/ ApplyRemoteOffer \/ ApplyRemoteAnswer \/ AddRemoteCandidate \/ Close
    BY <1>1, <2>1, <2>3 DEF CreateOffer, ApplyRemoteOffer, BeginNegotiation, ApplyRemoteAnswer,
                            AddRemoteCandidate, Negotiating, Close
  <2>4. CASE OnIceCandidate \/ \E s \in ObservedState : OnPeerConnectionState(s)
    BY <2>1, <2>4 DEF OnIceCandidate, OnPeerConnectionState, Observes
  <2>5. CASE UI
    BY <2>1, <2>5 DEF UI, UpdateState, Compare, Store, Report, CallConnection, AddCandidate,
                      AddedAll, CloseConnection
  <2>6. CASE DereferenceNull
    BY <1>1, <2>1, <2>6, DereferenceEffect
  <2>7. CASE Rtc /\ ~DereferenceNull
    BY <1>1, <2>1, <2>7 DEF Rtc, UpdateState, Compare, Store, Report, AddCandidate, AddedAll,
                      Created, LocalSet, AnnounceLocalDescription, Announce, AnnounceTooLate,
                      Send, RemoteSet, MarkRemote, FailNegotiation, Fail, Doing
  <2> QED
    BY <1>1, <2>2, <2>3, <2>4, <2>5, <2>6, <2>7 DEF Next, Step
<1> QED
  BY <1>1, SessionInvariance, PTL DEF Spec, SilentWhenClosed

-----------------------------------------------------------------------------
(* The statistics: what the dialog may show of two samples, whatever their *)
(* counters are.                                                           *)

Counted == [available : BOOLEAN, bytes : Nat, packets : Nat, lost : Int,
            jitter : Int]
Pictured == [fps : Int, width : Int, height : Int, frames : Nat]
Buffered == [available : BOOLEAN, delay : Nat, count : Nat, playout : Int]

\* Losses are shown in hundredths of a percent.
Percentage == 0..10000

LEMMA GrownIsNatural ==
    ASSUME NEW now \in Int, NEW before \in Int
    PROVE  Grown(now, before) \in Nat
BY DEF Grown

LEMMA Quotient ==
    ASSUME NEW n \in Nat, NEW d \in Nat, d > 0
    PROVE  n \div d \in Nat /\ d * (n \div d) <= n
BY SMT

LEMMA TimesTenThousand ==
    ASSUME NEW total \in Nat, NEW q \in Nat, total > 0,
           total * q <= total * 10000
    PROVE  q <= 10000
<1>1. SUFFICES ASSUME q >= 10001 PROVE FALSE
  BY SMT
<1>2. PICK more \in Nat : q = 10001 + more
  <2>1. q - 10001 \in Nat /\ q = 10001 + (q - 10001)
    BY <1>1, SMT
  <2> QED
    BY <2>1
<1>3. total * q = total * 10001 + total * more /\ total * more >= 0
  BY <1>2, SMT
<1> QED
  BY <1>3, SMT

\* The loss shown is between nothing and all (100.00%), though both counters
\* may go back, late packets make the losses shrink, and none may arrive at
\* all (IntervalLossPercent).
THEOREM LossIsPercentage ==
    ASSUME NEW now \in Counted, NEW before \in Counted
    PROVE  IntervalLossPercent(now, before) \in Percentage
<1> DEFINE lost  == Grown(now.lost, before.lost)
           total == Grown(now.packets, before.packets) + lost
<1>1. lost \in Nat /\ total \in Nat /\ lost <= total
  <2>1. Grown(now.packets, before.packets) \in Nat
    BY GrownIsNatural DEF Counted
  <2>2. lost \in Nat
    BY GrownIsNatural DEF Counted
  <2> QED
    BY <2>1, <2>2
<1>2. CASE total = 0
  BY <1>2, SMT DEF IntervalLossPercent, Percentage
<1>3. CASE total > 0
  <2> DEFINE q == (lost * 10000) \div total
  <2>1. q \in Nat /\ total * q <= lost * 10000
    <3>1. lost * 10000 \in Nat
      BY <1>1
    <3> HIDE DEF lost, total
    <3> QED
      BY <1>1, <1>3, <3>1, Quotient
  <2>2. total * q <= total * 10000
    <3> HIDE DEF lost, total, q
    <3>1. lost * 10000 <= total * 10000 /\ total * q \in Nat
      BY <1>1, <2>1, SMT
    <3> QED
      BY <1>1, <2>1, <3>1, SMT
  <2>3. q <= 10000
    <3> HIDE DEF lost, total, q
    <3> QED
      BY <1>1, <1>3, <2>1, <2>2, TimesTenThousand
  <2>4. IntervalLossPercent(now, before) = q
    BY <1>3 DEF IntervalLossPercent
  <2>5. q \in Percentage
    <3> HIDE DEF lost, total, q
    <3> QED
      BY <2>1, <2>3, SMT DEF Percentage
  <2> HIDE DEF lost, total, q
  <2> QED
    BY <2>4, <2>5, Zenon
<1> HIDE DEF lost, total
<1>4. total = 0 \/ total > 0
  BY <1>1
<1> QED
  BY <1>2, <1>3, <1>4, Zenon

\* A bit rate is never negative, though the counter of bytes may start again
\* (in the code the difference is unsigned and would be huge).
LEMMA BitRateIsNatural ==
    ASSUME NEW now \in Nat, NEW before \in Nat, NEW elapsed \in Nat,
           elapsed > 0
    PROVE  BitRate(now, before, elapsed) \in Nat
<1>1. Grown(now, before) \in Nat
  BY GrownIsNatural
<1>2. Grown(now, before) * 8 * Second \in Nat
  BY <1>1, SMT DEF Second
<1> HIDE DEF Second
<1> QED
  BY <1>2, Quotient DEF BitRate

\* Rates are shown only for an interval of 0.1 to 10 seconds, and then they
\* are sound: what OnMediaStats divides by is never zero.
THEOREM RatesAreSound ==
    ASSUME NEW now \in Counted, NEW before \in Counted, NEW elapsed \in Nat,
           NEW rates, rates = Rates(now, before, elapsed)
    PROVE  /\ rates.rate \in Nat \cup {None}
           /\ rates.loss \in Percentage \cup {None}
           /\ rates.rate # None => ValidInterval(elapsed) /\ elapsed > 0
<1> DEFINE Shows == now.available /\ ValidInterval(elapsed)
           Loss == IntervalLossPercent(now, before)
           Sound == /\ rates.rate \in Nat \cup {None}
                    /\ rates.loss \in Percentage \cup {None}
                    /\ rates.rate # None => ValidInterval(elapsed) /\ elapsed > 0
<1>1. ASSUME Shows PROVE Sound
  <2>1. elapsed > 0
    BY <1>1, SMT DEF ValidInterval, Second
  <2>2. now.bytes \in Nat /\ before.bytes \in Nat
    BY DEF Counted
  <2>3. BitRate(now.bytes, before.bytes, elapsed) \in Nat
    BY <2>1, <2>2, BitRateIsNatural
  <2>4. Loss \in Percentage
    BY LossIsPercentage, Zenon
  <2>5. rates = [rate |-> BitRate(now.bytes, before.bytes, elapsed), loss |-> Loss]
    BY <1>1, Zenon DEF Rates
  <2> HIDE DEF Loss
  <2> QED
    BY <1>1, <2>1, <2>3, <2>4, <2>5
<1>2. ASSUME ~Shows PROVE Sound
  BY <1>2 DEF Rates
<1> HIDE DEF Shows, Sound
<1>3. Sound
  BY <1>1, <1>2, Zenon
<1> QED
  BY <1>3, Zenon DEF Sound

\* The buffer's delay is an average over packets that have been played: never
\* negative, and never divided by zero.
THEOREM BufferTimeIsSound ==
    ASSUME NEW now \in Buffered, NEW before \in Buffered, NEW elapsed \in Nat
    PROVE  BufferTime(now, before, elapsed) \in Nat \cup {None}
<1>1. CASE now.delay >= before.delay /\ now.count > before.count
  <2>1. (now.delay - before.delay) * 1000 \in Nat
    BY <1>1 DEF Buffered
  <2>2. now.count - before.count \in Nat /\ now.count - before.count > 0
    BY <1>1 DEF Buffered
  <2>3. ((now.delay - before.delay) * 1000) \div (now.count - before.count) \in Nat
    BY <2>1, <2>2, Quotient
  <2> QED
    BY <2>3 DEF BufferTime, Buffered
<1>2. CASE ~(now.delay >= before.delay /\ now.count > before.count)
  BY <1>2 DEF BufferTime, Buffered
<1> QED
  BY <1>1, <1>2

\* The first sample after ResetMediaStats, and one that is not newer than the
\* one before it, shows no rate: what an earlier call has counted is not taken
\* for this call's.
THEOREM FirstShowsNoRate ==
    ASSUME NEW sample, NEW previous, NEW now, NEW before,
           ~(previous # NoSample /\ sample.time > previous.time)
    PROVE  Rates(now, before, Elapsed(previous, sample))
               = [rate |-> None, loss |-> None]
<1>1. Elapsed(previous, sample) = 0
  BY DEF Elapsed
<1>2. ~ValidInterval(0)
  BY SMT DEF ValidInterval, Second
<1> QED
  BY <1>1, <1>2 DEF Rates

\* A route through the relay is shown as one, whichever side's candidate it
\* is, and a direct one never is.
THEOREM RelayIsShown ==
    ASSUME NEW reports, NEW pair, pair # NoPair
    PROVE  LET local  == Candidate(reports, StringMember(pair, "localCandidateId"))
               remote == Candidate(reports, StringMember(pair, "remoteCandidateId"))
           IN  IceRoute(reports, pair).route = "turn-relay"
                 <=> local.type = "relay" \/ remote.type = "relay"
<1>1. \A types : Route(types) = "turn-relay" <=> "relay" \in types
  BY DEF Route
<1> DEFINE local  == Candidate(reports, StringMember(pair, "localCandidateId"))
           remote == Candidate(reports, StringMember(pair, "remoteCandidateId"))
<1>2. IceRoute(reports, pair).route = Route({local.type, remote.type})
  BY DEF IceRoute
<1> QED
  BY <1>1, <1>2

=============================================================================
