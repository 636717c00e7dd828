------------------------- MODULE CallProtocolProofs -------------------------
(***************************************************************************)
(* What holds of any number of users who call each other in any way,       *)
(* whatever fails, and however their messages are delayed:                 *)
(*                                                                         *)
(*   - what a user types and clicks reaches no call but the one for which  *)
(*     the user has switched control on;                                   *)
(*   - captures run for the sessions, and are stopped with the last one;   *)
(*   - a recording ends with its call;                                     *)
(*   - two users between whom no messages have crossed both release a      *)
(*     session that either hangs up, and neither has a session that the    *)
(*     other has not, but for failures and what is still on its way.       *)
(*                                                                         *)
(* The first three are kept user by user.  The last is about two users and *)
(* the two ways between them (InStep): who offers has the only session; on *)
(* a way no hangup comes before an offer, and there is one offer at most;  *)
(* who has hung up closes its session, and the other hears of it.          *)
(***************************************************************************)
EXTENDS CallProtocol, SequenceTheorems, TLAPS

IsMap(f) == f = [u \in Users |-> f[u]]

-----------------------------------------------------------------------------
(* Input stays with its call: control that is on belongs to a call that    *)
(* the active user's session has (or to one that was lost), or there is no *)
(* active user.                                                            *)

\* As much of the types as is needed.
Shape ==
    /\ IsMap(sessions) /\ IsMap(active) /\ IsMap(keyboard) /\ IsMap(lost)
    /\ \A u \in Users : DOMAIN sessions[u] \subseteq Users
    /\ \A u \in Users : \A v \in DOMAIN sessions[u] :
          "call" \in DOMAIN sessions[u][v]

KeptOf(u) ==
    \/ keyboard[u] = 0 \/ keyboard[u] \in lost[u]
    \/ active[u] = Nobody
    \/ Has(u, active[u]) /\ sessions[u][active[u]].call = keyboard[u]

InputKept == \A u \in Users : KeptOf(u)

Kept == Shape /\ InputKept

LEMMA KeptInit == Init => Kept
BY CallAssumption DEF Init, Kept, Shape, InputKept, KeptOf, IsMap

LEMMA KeptImplies == Kept => InputStaysWithItsCall
BY CallAssumption
   DEF Kept, Shape, InputKept, KeptOf, InputStaysWithItsCall, InputGoesTo, Has

\* A user's message or click makes v active, and sessions stay.
LEMMA KeptActive ==
    ASSUME Kept, NEW u \in Users, NEW v \in Users, MakeActive(u, v),
           UNCHANGED <<sessions, lost>>
    PROVE  Kept'
BY DEF Kept, Shape, InputKept, KeptOf, IsMap, MakeActive, Has

\* Or a new session is added, or the one there is keeps its call.
LEMMA KeptPut ==
    ASSUME Kept, NEW u \in Users, NEW v \in Users, MakeActive(u, v),
           NEW s, "call" \in DOMAIN s, PutSession(u, v, s),
           Has(u, v) => s.call = sessions[u][v].call, UNCHANGED lost
    PROVE  Kept'
<1>1. Shape'
  BY DEF Kept, Shape, IsMap, MakeActive, PutSession
<1>2. InputKept'
  BY DEF Kept, Shape, InputKept, KeptOf, IsMap, MakeActive, PutSession, Has
<1> QED
  BY <1>1, <1>2 DEF Kept

\* A session changes, but not its call.
LEMMA KeptChange ==
    ASSUME Kept, NEW u \in Users, NEW v, Has(u, v),
           NEW s, "call" \in DOMAIN s, s.call = sessions[u][v].call,
           sessions' = [sessions EXCEPT ![u][v] = s],
           UNCHANGED <<active, keyboard, lost>>
    PROVE  Kept'
BY DEF Kept, Shape, InputKept, KeptOf, IsMap, Has

\* A session is removed: what was the active user's is lost, or there is no
\* active user any more, or control is off.
LEMMA KeptRemove ==
    ASSUME Kept, NEW u \in Users, NEW v, RemoveSession(u, v),
           IsMap(active)', IsMap(keyboard)', IsMap(lost)',
           \A w \in Users \ {u} : UNCHANGED <<active[w], keyboard[w], lost[w]>>,
           KeptOf(u)'
    PROVE  Kept'
<1>1. Shape'
  BY DEF Kept, Shape, IsMap, RemoveSession, Removed, Restrict
<1>2. ASSUME NEW w \in Users \ {u} PROVE KeptOf(w)'
  <2>1. sessions'[w] = sessions[w]
    BY DEF Kept, Shape, IsMap, RemoveSession
  <2> QED
    BY <2>1 DEF Kept, InputKept, KeptOf, Has
<1> QED
  BY <1>1, <1>2 DEF Kept, InputKept

-----------------------------------------------------------------------------
(* The buttons. *)

LEMMA KeptCalling ==
    ASSUME Kept, NEW u \in Users, NEW v \in Users, StartSelectedSession(u, v)
    PROVE  Kept'
<1>1. CASE CallRefused(u, v)
  BY <1>1, KeptActive DEF StartSelectedSession, CallRefused
<1>2. CASE CallBegun(u, v)
  <2>1. "call" \in DOMAIN NewSession(u, calls')
    BY DEF NewSession
  <2> QED
    BY <1>2, <2>1, KeptPut DEF StartSelectedSession, CallBegun, Has
<1> QED
  BY <1>1, <1>2 DEF StartSelectedSession

LEMMA KeptHangup ==
    ASSUME Kept, NEW u \in Users, OnBnClickedHangup(u)
    PROVE  Kept'
BY DEF Kept, Shape, InputKept, KeptOf, IsMap, Has, OnBnClickedHangup

LEMMA KeptFinish ==
    ASSUME Kept, NEW u \in Users, FinishHangup(u)
    PROVE  Kept'
<1>1. KeptOf(u)' /\ IsMap(active)' /\ IsMap(keyboard)' /\ IsMap(lost)'
  BY DEF Kept, Shape, KeptOf, IsMap, FinishHangup
<1>2. \A w \in Users \ {u} : UNCHANGED <<active[w], keyboard[w], lost[w]>>
  BY DEF Kept, Shape, IsMap, FinishHangup
<1> QED
  BY <1>1, <1>2, KeptRemove DEF FinishHangup

LEMMA KeptKeyboard ==
    ASSUME Kept, NEW u \in Users, OnBnClickedKeyboardControl(u)
    PROVE  Kept'
BY ZenonT(60) DEF Kept, Shape, InputKept, KeptOf, IsMap, Has, OnBnClickedKeyboardControl,
       historyVars

-----------------------------------------------------------------------------
(* WebRTC's thread changes no session's call. *)

LEMMA KeptRtc ==
    ASSUME Kept, NEW u \in Users, NEW v \in Users, Rtc(u, v)
    PROVE  Kept'
<1> USE DEF dialogVars, historyVars
<1>1. Has(u, v) /\ UNCHANGED <<active, keyboard, lost>>
  BY DEF Rtc, AnnounceLocalDescription, OnIceCandidate, OnPeerConnectionState,
         Connected, Broken
<1>2. "call" \in DOMAIN sessions[u][v]
  BY <1>1 DEF Kept, Shape, Has
<1>3. CASE AnnounceLocalDescription(u, v)
  <2> DEFINE s == [sessions[u][v] EXCEPT !.toSend = "none"]
  <2>1. "call" \in DOMAIN s /\ s.call = sessions[u][v].call
    BY <1>2
  <2>2. sessions' = [sessions EXCEPT ![u][v] = s]
    BY <1>3 DEF AnnounceLocalDescription
  <2> QED
    BY <1>1, <2>1, <2>2, KeptChange
<1>4. CASE OnIceCandidate(u, v)
  <2> DEFINE s == [sessions[u][v] EXCEPT !.ice = FALSE]
  <2>1. "call" \in DOMAIN s /\ s.call = sessions[u][v].call
    BY <1>2
  <2>2. sessions' = [sessions EXCEPT ![u][v] = s]
    BY <1>4 DEF OnIceCandidate
  <2> QED
    BY <1>1, <2>1, <2>2, KeptChange
<1>5. ASSUME NEW t,
             sessions' = [sessions EXCEPT ![u][v].state = t]
      PROVE  Kept'
  <2> DEFINE s == [sessions[u][v] EXCEPT !.state = t]
  <2>1. "call" \in DOMAIN s /\ s.call = sessions[u][v].call
    BY <1>2
  <2>2. sessions' = [sessions EXCEPT ![u][v] = s]
    BY <1>5
  <2> QED
    BY <1>1, <2>1, <2>2, KeptChange
<1>6. CASE OnPeerConnectionState(u, v)
  BY <1>5, <1>6 DEF OnPeerConnectionState, Connected, Broken
<1> QED
  BY <1>3, <1>4, <1>6 DEF Rtc

-----------------------------------------------------------------------------
(* The window messages. *)

LEMMA KeptOffer ==
    ASSUME Kept, NEW u \in Users, NEW v \in Users, OnOffer(u, v)
    PROVE  Kept'
<1>1. MakeActive(u, v)
  BY DEF OnOffer
<1>2. ASSUME \/ OfferDropped(u, v) \/ OfferGivenUp(u, v)
      PROVE  /\ KeptOf(u)' /\ IsMap(active)' /\ IsMap(keyboard)' /\ IsMap(lost)'
             /\ \A w \in Users \ {u} :
                   UNCHANGED <<active[w], keyboard[w], lost[w]>>
  <2>1. /\ IsMap(active)' /\ IsMap(keyboard)' /\ IsMap(lost)'
        /\ \A w \in Users \ {u} : UNCHANGED <<active[w], keyboard[w], lost[w]>>
    BY <1>1, <1>2 DEF Kept, Shape, IsMap, MakeActive, OfferDropped, OfferGivenUp
  <2>2. KeptOf(u)'
    <3>1. CASE active[u] # v
      BY <1>1, <3>1 DEF Kept, Shape, IsMap, MakeActive, KeptOf
    <3>2. CASE active[u] = v
      <4>1. keyboard'[u] = keyboard[u]
        BY <1>1, <3>2 DEF MakeActive
      <4>2. /\ lost[u] \subseteq lost'[u]
            /\ Has(u, v) => sessions[u][v].call \in lost'[u]
        BY <1>2 DEF Kept, Shape, IsMap, OfferDropped, OfferGivenUp
      <4>3. v # Nobody
        BY CallAssumption
      <4> QED
        BY <3>2, <4>1, <4>2, <4>3 DEF Kept, InputKept, KeptOf
    <3> QED
      BY <3>1, <3>2
  <2> QED
    BY <2>1, <2>2
<1>3. CASE OfferDropped(u, v)
  <2>1. Shape'
    BY <1>2, <1>3 DEF Kept, Shape, IsMap, OfferDropped
  <2>2. ASSUME NEW w \in Users \ {u} PROVE KeptOf(w)'
    BY <1>2, <1>3 DEF Kept, InputKept, KeptOf, Has, OfferDropped
  <2> QED
    BY <1>2, <1>3, <2>1, <2>2 DEF Kept, InputKept
<1>4. CASE OfferGivenUp(u, v)
  BY <1>2, <1>4, KeptRemove DEF OfferGivenUp
<1>5. CASE OfferApplied(u, v)
  <2> DEFINE call == Head(posted[u]).call
             s == IF Has(u, v) THEN sessions[u][v] ELSE NewSession(u, call)
             t == [s EXCEPT !.peer = call, !.toSend = "answer",
                            !.state = "Connecting"]
  <2>1. "call" \in DOMAIN s /\ (Has(u, v) => s.call = sessions[u][v].call)
    BY DEF Kept, Shape, Has, NewSession
  <2>2. "call" \in DOMAIN t /\ t.call = s.call
    BY <2>1
  <2>3. PutSession(u, v, t) /\ UNCHANGED lost
    BY <1>5 DEF OfferApplied
  <2> HIDE DEF t, s
  <2> QED
    BY <1>1, <2>1, <2>2, <2>3, KeptPut
<1> QED
  BY <1>3, <1>4, <1>5 DEF OnOffer

LEMMA KeptAnswer ==
    ASSUME Kept, NEW u \in Users, NEW v \in Users, OnAnswer(u, v)
    PROVE  Kept'
<1>1. CASE Has(u, v)
  <2> DEFINE t == [sessions[u][v] EXCEPT !.peer = Head(posted[u]).call]
  <2>1. "call" \in DOMAIN t /\ t.call = sessions[u][v].call
    BY <1>1 DEF Kept, Shape, Has
  <2>2. sessions' = [sessions EXCEPT ![u][v] = t]
    BY <1>1 DEF OnAnswer
  <2>3. PutSession(u, v, t)
    BY <1>1, <2>2 DEF Kept, Shape, IsMap, PutSession, Has
  <2> HIDE DEF t
  <2> QED
    BY <2>1, <2>3, KeptPut DEF OnAnswer, historyVars
<1>2. CASE ~Has(u, v)
  BY <1>2, KeptActive DEF OnAnswer, historyVars
<1> QED
  BY <1>1, <1>2

LEMMA KeptCandidate ==
    ASSUME Kept, NEW u \in Users, NEW v \in Users, OnCandidate(u, v)
    PROVE  Kept'
BY KeptActive DEF OnCandidate, historyVars

LEMMA KeptRemoteHangup ==
    ASSUME Kept, NEW u \in Users, NEW v \in Users, OnHangup(u, v)
    PROVE  Kept'
<1>1. KeptOf(u)' /\ IsMap(active)' /\ IsMap(keyboard)' /\ IsMap(lost)'
  BY DEF Kept, Shape, KeptOf, IsMap, OnHangup
<1>2. \A w \in Users \ {u} : UNCHANGED <<active[w], keyboard[w], lost[w]>>
  BY DEF Kept, Shape, IsMap, OnHangup
<1> QED
  BY <1>1, <1>2, KeptRemove DEF OnHangup

LEMMA KeptState ==
    ASSUME Kept, NEW u \in Users, NEW v \in Users, OnSessionState(u, v)
    PROVE  Kept'
<1>1. /\ IsMap(active)' /\ IsMap(keyboard)' /\ IsMap(lost)'
      /\ \A w \in Users \ {u} : UNCHANGED <<active[w], keyboard[w], lost[w]>>
  BY DEF Kept, Shape, IsMap, OnSessionState
<1>2. KeptOf(u)'
  <2>1. CASE active[u] = v
    BY <2>1 DEF Kept, Shape, IsMap, KeptOf, OnSessionState
  <2>2. CASE active[u] # v
    <3>1. active'[u] = active[u] /\ keyboard'[u] = keyboard[u]
      BY <2>2 DEF OnSessionState
    <3>2. lost[u] \subseteq lost'[u]
      BY DEF Kept, Shape, IsMap, OnSessionState
    <3>3. Has(u, active[u]) =>
            /\ active[u] \in DOMAIN sessions'[u]
            /\ sessions'[u][active[u]] = sessions[u][active[u]]
      BY <2>2 DEF Kept, Shape, IsMap, Has, OnSessionState, RemoveSession,
                  Removed, Restrict
    <3> QED
      BY <3>1, <3>2, <3>3 DEF Kept, InputKept, KeptOf, Has
  <2> QED
    BY <2>1, <2>2
<1>3. CASE IsOver(u, v)
  BY <1>1, <1>2, <1>3, KeptRemove DEF OnSessionState
<1>4. CASE ~IsOver(u, v)
  <2>1. Shape'
    BY <1>1, <1>4 DEF Kept, Shape, OnSessionState
  <2>2. ASSUME NEW w \in Users \ {u} PROVE KeptOf(w)'
    BY <1>1, <1>4 DEF Kept, InputKept, KeptOf, Has, OnSessionState
  <2> QED
    BY <1>2, <2>1, <2>2 DEF Kept, InputKept
<1> QED
  BY <1>3, <1>4

-----------------------------------------------------------------------------

LEMMA KeptUnchanged ==
    ASSUME Kept, UNCHANGED <<sessions, active, keyboard, lost>>
    PROVE  Kept'
BY DEF Kept, Shape, InputKept, KeptOf, IsMap, Has

LEMMA KeptStep ==
    ASSUME Kept, [Next]_vars
    PROVE  Kept'
<1>1. CASE UNCHANGED vars
  BY <1>1, KeptUnchanged DEF vars, dialogVars, historyVars
<1>2. ASSUME NEW u \in Users, Button(u) PROVE Kept'
  <2>1. CASE OnBnClickedRecord(u) \/ FileDialogAnswered(u)
    BY <2>1, KeptUnchanged DEF OnBnClickedRecord, FileDialogAnswered, historyVars
  <2> QED
    BY <1>2, <2>1, KeptCalling, KeptHangup, KeptFinish, KeptKeyboard DEF Button
<1>3. ASSUME NEW u \in Users, Dispatch(u) PROVE Kept'
  BY <1>3, KeptOffer, KeptAnswer, KeptCandidate, KeptRemoteHangup, KeptState
  DEF Dispatch
<1>4. ASSUME NEW u \in Users, NEW v \in Users, Deliver(u, v) PROVE Kept'
  BY <1>4, KeptUnchanged DEF Deliver, dialogVars, historyVars
<1> QED
  BY <1>1, <1>2, <1>3, <1>4, KeptRtc DEF Next

\* What a user types and clicks goes to no session but the one for which the
\* user switched control on, or to none (OnBnClickedKeyboardControl,
\* DispatchSignalingMessage, SendRemoteInput): whatever calls follow.
THEOREM InputStays == Spec => []InputStaysWithItsCall
<1>1. Init => Kept
  BY KeptInit
<1>2. Kept /\ [Next]_vars => Kept'
  BY KeptStep
<1>3. Kept => InputStaysWithItsCall
  BY KeptImplies
<1> QED
  BY <1>1, <1>2, <1>3, PTL DEF Spec

-----------------------------------------------------------------------------
(* Types.  A message says truly from whom it is, and nobody has a message  *)
(* from or a session with oneself.                                         *)

From(u) == {m \in Signal : m.from = u}
FromOthers(u) == {m \in Signal \cup Notice : m.from # u}

SessionOK(u, s) ==
    /\ s \in Session
    /\ s.tracks = Sends[u]
    /\ s.toSend = "answer" => s.peer # 0

SessionsTyped ==
    /\ IsMap(sessions)
    /\ \A u \in Users : DOMAIN sessions[u] \subseteq Users \ {u}
    /\ \A u \in Users : \A v \in DOMAIN sessions[u] : SessionOK(u, sessions[u][v])

DialogTyped ==
    /\ active \in [Users -> Users \cup {Nobody}]
    /\ keyboard \in [Users -> 0..MaxCalls] /\ recording \in [Users -> 0..MaxCalls]
    /\ lost \in [Users -> SUBSET Call]
    /\ calls \in 0..MaxCalls /\ faults \in 0..MaxFaults
    /\ ended \subseteq Pairs /\ crossed \subseteq Pairs

HangingTyped ==
    /\ IsMap(hanging)
    /\ \A u \in Users : hanging[u] => Has(u, active[u])

NetTyped ==
    /\ IsMap(posted) /\ \A u \in Users : posted[u] \in Seq(FromOthers(u))
    /\ IsMap(wire) /\ \A u \in Users : IsMap(wire[u])
    /\ \A u, v \in Users : wire[u][v] \in Seq(From(u))
    /\ \A u \in Users : wire[u][u] = <<>>

CallTyped == SessionsTyped /\ DialogTyped /\ HangingTyped /\ NetTyped

LEMMA CallsAreNumbers == MaxCalls \in Nat /\ MaxFaults \in Nat
BY CallAssumption DEF MaxCalls

LEMMA TypedInit == Init => CallTyped
<1> SUFFICES ASSUME Init PROVE CallTyped
  OBVIOUS
<1>1. SessionsTyped /\ HangingTyped
  BY DEF Init, SessionsTyped, HangingTyped, IsMap
<1>2. DialogTyped
  BY CallsAreNumbers DEF Init, DialogTyped
<1>3. NetTyped
  BY DEF Init, NetTyped, IsMap
<1> QED
  BY <1>1, <1>2, <1>3 DEF CallTyped

\* What is sent comes last on its wire, and is from its sender.
LEMMA SendEffect ==
    ASSUME NetTyped, NEW u \in Users, NEW v \in Users, u # v, NEW kind, NEW call,
           [kind |-> kind, from |-> u, call |-> call] \in Signal,
           Send(u, v, kind, call)
    PROVE  /\ wire'[u][v] = Append(wire[u][v], [kind |-> kind, from |-> u, call |-> call])
           /\ \A p, q \in Users : p # u \/ q # v => wire'[p][q] = wire[p][q]
           /\ UNCHANGED posted => NetTyped'
<1> DEFINE m == [kind |-> kind, from |-> u, call |-> call]
<1>1. wire' = [wire EXCEPT ![u][v] = Append(wire[u][v], m)]
  BY DEF Send
<1>2. m \in From(u)
  BY DEF From
<1> HIDE DEF m
<1>3. IsMap(wire) /\ IsMap(wire[u]) /\ wire[u][v] \in Seq(From(u))
  BY DEF NetTyped
<1>4. /\ wire'[u][v] = Append(wire[u][v], m)
      /\ \A p, q \in Users : p # u \/ q # v => wire'[p][q] = wire[p][q]
  BY <1>1, <1>3 DEF IsMap
<1>5. IsMap(wire)' /\ \A p \in Users : IsMap(wire'[p])
  BY <1>1 DEF NetTyped, IsMap
<1>6. wire'[u][v] \in Seq(From(u))
  BY <1>2, <1>3, <1>4, AppendProperties
<1>7. \A p, q \in Users : wire'[p][q] \in Seq(From(p))
  BY <1>4, <1>6 DEF NetTyped
<1>8. \A p \in Users : wire'[p][p] = <<>>
  BY <1>4 DEF NetTyped
<1>9. UNCHANGED posted => NetTyped'
  BY <1>5, <1>7, <1>8 DEF NetTyped, IsMap
<1> QED
  BY <1>4, <1>9 DEF m

\* The first message is taken, and a notice may be posted.
LEMMA TakeEffect ==
    ASSUME NetTyped, NEW u \in Users, NEW v \in Users, u # v, NEW notice, Take(u, notice),
           notice = <<>> \/ notice = ClosedNotice(u, v)
    PROVE  /\ posted[u] # <<>> /\ Head(posted[u]) \in FromOthers(u)
           /\ \E n \in Notice : /\ n.from = v
                                /\ \/ posted'[u] = Tail(posted[u])
                                   \/ posted'[u] = Append(Tail(posted[u]), n)
           /\ \A w \in Users \ {u} : posted'[w] = posted[w]
           /\ UNCHANGED wire => NetTyped'
<1> DEFINE n == [kind |-> "Closed", from |-> v]
<1>1. n \in Notice /\ n.from = v /\ n \in FromOthers(u)
  BY DEF Notice, FromOthers
<1>2. /\ posted[u] \in Seq(FromOthers(u)) /\ posted[u] # <<>> /\ IsMap(posted)
      /\ posted' = [posted EXCEPT ![u] = Tail(posted[u]) \o notice]
  BY DEF Take, NetTyped
<1>3. Head(posted[u]) \in FromOthers(u) /\ Tail(posted[u]) \in Seq(FromOthers(u))
  BY <1>2, HeadTailProperties
<1>4. notice = <<>> \/ notice = <<n>>
  BY DEF ClosedNotice
<1> HIDE DEF n
<1>5. posted'[u] = Tail(posted[u]) \o notice /\ \A w \in Users \ {u} : posted'[w] = posted[w]
  BY <1>2 DEF IsMap
<1>6. \A s \in Seq(FromOthers(u)) : s \o <<>> = s /\ s \o <<n>> = Append(s, n)
  BY <1>1
<1>7. posted'[u] = Tail(posted[u]) \/ posted'[u] = Append(Tail(posted[u]), n)
  BY <1>3, <1>4, <1>5, <1>6
<1>8. posted'[u] \in Seq(FromOthers(u))
  BY <1>1, <1>3, <1>7, AppendProperties
<1>9. IsMap(posted)'
  BY <1>2 DEF IsMap
<1>10. UNCHANGED wire => NetTyped'
  BY <1>5, <1>8, <1>9, ZenonT(60) DEF NetTyped, IsMap
<1> QED
  BY <1>1, <1>2, <1>3, <1>5, <1>7, <1>10

\* A notice is posted.
LEMMA PostEffect ==
    ASSUME NetTyped, NEW u \in Users, NEW n \in Notice, n.from # u,
           posted' = [posted EXCEPT ![u] = Append(posted[u], n)]
    PROVE  /\ posted'[u] = Append(posted[u], n)
           /\ \A w \in Users \ {u} : posted'[w] = posted[w]
           /\ UNCHANGED wire => NetTyped'
<1>1. n \in FromOthers(u) /\ posted[u] \in Seq(FromOthers(u)) /\ IsMap(posted)
  BY DEF FromOthers, NetTyped
<1>2. posted'[u] = Append(posted[u], n) /\ \A w \in Users \ {u} : posted'[w] = posted[w]
  BY <1>1 DEF IsMap
<1>3. posted'[u] \in Seq(FromOthers(u))
  BY <1>1, <1>2, AppendProperties
<1>4. IsMap(posted)'
  BY <1>1 DEF IsMap
<1>5. UNCHANGED wire => NetTyped'
  BY <1>2, <1>3, <1>4 DEF NetTyped, IsMap
<1> QED
  BY <1>2, <1>5

\* A message goes from the wire to the receiver's queue.
LEMMA DeliverEffect ==
    ASSUME NetTyped, NEW u \in Users, NEW v \in Users, Deliver(u, v)
    PROVE  /\ u # v /\ wire[u][v] # <<>> /\ Head(wire[u][v]) \in From(u)
           /\ wire'[u][v] = Tail(wire[u][v])
           /\ \A p, q \in Users : p # u \/ q # v => wire'[p][q] = wire[p][q]
           /\ posted'[v] = Append(posted[v], Head(wire[u][v]))
           /\ \A w \in Users \ {v} : posted'[w] = posted[w]
           /\ NetTyped'
<1> DEFINE m == Head(wire[u][v])
<1>1. /\ wire[u][v] # <<>> /\ wire[u][v] \in Seq(From(u)) /\ IsMap(wire) /\ IsMap(wire[u])
      /\ posted[v] \in Seq(FromOthers(v)) /\ IsMap(posted)
      /\ wire' = [wire EXCEPT ![u][v] = Tail(wire[u][v])]
      /\ posted' = [posted EXCEPT ![v] = Append(posted[v], m)]
  BY DEF Deliver, NetTyped
<1>2. m \in From(u) /\ Tail(wire[u][v]) \in Seq(From(u))
  BY <1>1, HeadTailProperties
<1>3. u # v
  BY <1>1 DEF NetTyped
<1>4. m \in FromOthers(v)
  BY <1>2, <1>3 DEF From, FromOthers
<1> HIDE DEF m
<1>5. /\ wire'[u][v] = Tail(wire[u][v])
      /\ \A p, q \in Users : p # u \/ q # v => wire'[p][q] = wire[p][q]
      /\ posted'[v] = Append(posted[v], m)
      /\ \A w \in Users \ {v} : posted'[w] = posted[w]
  BY <1>1 DEF IsMap
<1>6. IsMap(wire)' /\ (\A p \in Users : IsMap(wire'[p])) /\ IsMap(posted)'
  BY <1>1 DEF NetTyped, IsMap
<1>7. posted'[v] \in Seq(FromOthers(v))
  BY <1>1, <1>4, <1>5, AppendProperties
<1>8. \A p, q \in Users : wire'[p][q] \in Seq(From(p))
  BY <1>2, <1>5 DEF NetTyped
<1>9. \A p \in Users : wire'[p][p] = <<>>
  BY <1>3, <1>5 DEF NetTyped
<1>10. NetTyped'
  BY <1>5, <1>6, <1>7, <1>8, <1>9 DEF NetTyped, IsMap
<1> QED
  BY <1>1, <1>2, <1>3, <1>5, <1>10 DEF m

\* A session stays as it is.
SameSession(p, q) ==
    /\ q \in DOMAIN sessions'[p] <=> q \in DOMAIN sessions[p]
    /\ q \in DOMAIN sessions[p] => sessions'[p][q] = sessions[p][q]

SameBut(u, v) == \A p, q \in Users : p # u \/ q # v => SameSession(p, q)

LEMMA PutEffect ==
    ASSUME SessionsTyped, NEW u \in Users, NEW v \in Users, u # v,
           NEW s, SessionOK(u, s), PutSession(u, v, s)
    PROVE  /\ SessionsTyped' /\ SameBut(u, v)
           /\ v \in DOMAIN sessions'[u] /\ sessions'[u][v] = s
<1>1. /\ IsMap(sessions)' /\ \A p \in Users \ {u} : sessions'[p] = sessions[p]
      /\ sessions'[u] = [w \in DOMAIN sessions[u] \cup {v} |-> IF w = v THEN s ELSE sessions[u][w]]
  BY DEF PutSession, SessionsTyped, IsMap
<1>2. SameBut(u, v) /\ v \in DOMAIN sessions'[u] /\ sessions'[u][v] = s
  BY <1>1 DEF SameBut, SameSession
<1>3. SessionsTyped'
  BY <1>1 DEF SessionsTyped, IsMap, SessionOK
<1> QED
  BY <1>2, <1>3

LEMMA ChangeEffect ==
    ASSUME SessionsTyped, NEW u \in Users, NEW v \in Users, Has(u, v),
           NEW s, SessionOK(u, s), sessions' = [sessions EXCEPT ![u][v] = s]
    PROVE  /\ SessionsTyped' /\ SameBut(u, v)
           /\ v \in DOMAIN sessions'[u] /\ sessions'[u][v] = s
<1>1. /\ IsMap(sessions)' /\ \A p \in Users \ {u} : sessions'[p] = sessions[p]
      /\ sessions'[u] = [sessions[u] EXCEPT ![v] = s]
  BY DEF SessionsTyped, IsMap
<1>2. SameBut(u, v) /\ v \in DOMAIN sessions'[u] /\ sessions'[u][v] = s
  BY <1>1 DEF SameBut, SameSession, Has
<1>3. SessionsTyped'
  BY <1>1 DEF SessionsTyped, IsMap, SessionOK
<1> QED
  BY <1>2, <1>3

LEMMA RemoveEffect ==
    ASSUME SessionsTyped, NEW u \in Users, NEW v \in Users, RemoveSession(u, v)
    PROVE  /\ SessionsTyped' /\ SameBut(u, v)
           /\ v \notin DOMAIN sessions'[u] /\ sessions'[u] = Removed(u, v)
<1>1. /\ IsMap(sessions)' /\ \A p \in Users \ {u} : sessions'[p] = sessions[p]
      /\ sessions'[u] = Removed(u, v)
  BY DEF RemoveSession, SessionsTyped, IsMap
<1>2. Removed(u, v) = [w \in DOMAIN sessions[u] \ {v} |-> sessions[u][w]]
  BY DEF Removed, Restrict
<1>3. SameBut(u, v) /\ v \notin DOMAIN sessions'[u]
  BY <1>1, <1>2 DEF SameBut, SameSession
<1>4. SessionsTyped'
  BY <1>1, <1>2 DEF SessionsTyped, IsMap, SessionOK
<1> QED
  BY <1>1, <1>3, <1>4

\* What WebRTC's thread and an answer change of a session.
LEMMA SessionChanges ==
    ASSUME NEW u \in Users, NEW s, SessionOK(u, s)
    PROVE  /\ SessionOK(u, [s EXCEPT !.toSend = "none"]) /\ [s EXCEPT !.toSend = "none"].call = s.call
           /\ SessionOK(u, [s EXCEPT !.ice = FALSE]) /\ [s EXCEPT !.ice = FALSE].call = s.call
           /\ [s EXCEPT !.ice = FALSE].toSend = s.toSend
           /\ \A t \in Live \cup {"Failed"} :
                 /\ SessionOK(u, [s EXCEPT !.state = t]) /\ [s EXCEPT !.state = t].call = s.call
                 /\ [s EXCEPT !.state = t].toSend = s.toSend
           /\ \A c \in Call :
                 /\ SessionOK(u, [s EXCEPT !.peer = c]) /\ [s EXCEPT !.peer = c].call = s.call
                 /\ [s EXCEPT !.peer = c].toSend = s.toSend
<1>1. s \in Session
  BY DEF SessionOK
<1>2. \A c \in Call : c \in 0..MaxCalls /\ c # 0
  BY CallsAreNumbers DEF Call
<1>3. SessionOK(u, [s EXCEPT !.toSend = "none"]) /\ [s EXCEPT !.toSend = "none"].call = s.call
  BY <1>1 DEF SessionOK, Session
<1>4. /\ SessionOK(u, [s EXCEPT !.ice = FALSE]) /\ [s EXCEPT !.ice = FALSE].call = s.call
      /\ [s EXCEPT !.ice = FALSE].toSend = s.toSend
  BY <1>1 DEF SessionOK, Session
<1>5. ASSUME NEW t \in Live \cup {"Failed"}
      PROVE  /\ SessionOK(u, [s EXCEPT !.state = t]) /\ [s EXCEPT !.state = t].call = s.call
             /\ [s EXCEPT !.state = t].toSend = s.toSend
  BY <1>1 DEF SessionOK, Session
<1>6. ASSUME NEW c \in Call
      PROVE  /\ SessionOK(u, [s EXCEPT !.peer = c]) /\ [s EXCEPT !.peer = c].call = s.call
             /\ [s EXCEPT !.peer = c].toSend = s.toSend
  BY <1>1, <1>2 DEF SessionOK, Session
<1> QED
  BY <1>3, <1>4, <1>5, <1>6

\* A session that takes an offer, new or not.
LEMMA NewIsSession ==
    ASSUME NEW u \in Users, NEW c \in Call
    PROVE  SessionOK(u, NewSession(u, c)) /\ NewSession(u, c).call = c
<1>1. Sends[u] \in SUBSET Media /\ 0 \in 0..MaxCalls
  BY CallAssumption, CallsAreNumbers
<1> QED
  BY <1>1 DEF SessionOK, Session, NewSession, Live

LEMMA AnsweringIsSession ==
    ASSUME NEW u \in Users, NEW c \in Call, NEW s, SessionOK(u, s)
    PROVE  LET t == [s EXCEPT !.peer = c, !.toSend = "answer", !.state = "Connecting"]
           IN  SessionOK(u, t) /\ t.call = s.call /\ t.toSend = "answer"
<1>1. s \in Session /\ c \in 0..MaxCalls /\ c # 0
  BY CallsAreNumbers DEF SessionOK, Call
<1> QED
  BY <1>1 DEF SessionOK, Session, Live

\* Who hangs up keeps the active user and the session until it is closed.
LEMMA HangingKept ==
    ASSUME HangingTyped, UNCHANGED hanging,
           \A w \in Users : hanging[w] =>
               active'[w] = active[w] /\ DOMAIN sessions[w] \subseteq DOMAIN sessions'[w]
    PROVE  HangingTyped'
BY DEF HangingTyped, Has

LEMMA ActiveTyped ==
    ASSUME DialogTyped, NEW u \in Users, NEW v \in Users, MakeActive(u, v)
    PROVE  /\ active' \in [Users -> Users \cup {Nobody}] /\ keyboard' \in [Users -> 0..MaxCalls]
           /\ \A w \in Users \ {u} : active'[w] = active[w]
BY CallsAreNumbers DEF DialogTyped, MakeActive

LEMMA FaultTyped == ASSUME DialogTyped, Fault PROVE faults' \in 0..MaxFaults
BY CallsAreNumbers DEF DialogTyped, Fault

LEMMA TypedCalling ==
    ASSUME CallTyped, NEW u \in Users, NEW v \in Users, StartSelectedSession(u, v)
    PROVE  /\ CallTyped' /\ u # v
           /\ CallBegun(u, v) => calls' \in Call
<1> USE DEF CallTyped
<1>1. u # v
  <2>1. PICK n \in Call : <<u, v>> \in Calls[n]
    BY DEF StartSelectedSession
  <2>2. Calls[n] \subseteq {p \in Users \X Users : p[1] # p[2]}
    BY CallAssumption DEF Call, MaxCalls
  <2> QED
    BY <2>1, <2>2
<1>2. /\ MakeActive(u, v) /\ ~hanging[u]
      /\ UNCHANGED <<recording, hanging, posted, wire, lost>>
  BY DEF StartSelectedSession, CallRefused, CallBegun, Enabled, Free, netVars
<1>3. NetTyped'
  BY <1>2 DEF NetTyped, IsMap
<1>4. CASE CallRefused(u, v)
  <2>1. UNCHANGED <<sessions, calls, ended, crossed>> /\ (UNCHANGED faults \/ Fault)
    BY <1>4 DEF CallRefused, ConfigureFails
  <2>2. SessionsTyped'
    BY <2>1 DEF SessionsTyped, IsMap
  <2>3. DialogTyped'
    BY <1>2, <2>1, ActiveTyped, FaultTyped DEF DialogTyped
  <2>4. HangingTyped'
    BY <1>2, <2>1, ActiveTyped, HangingKept
  <2>5. ~CallBegun(u, v)
    BY <2>1, CallsAreNumbers DEF CallBegun, DialogTyped
  <2> QED
    BY <1>1, <1>3, <2>2, <2>3, <2>4, <2>5
<1>5. CASE CallBegun(u, v)
  <2>1. /\ PutSession(u, v, NewSession(u, calls')) /\ calls' = calls + 1 /\ calls < MaxCalls
        /\ UNCHANGED faults
        /\ ended' = ended \ {{u, v}} /\ (crossed' = crossed \/ crossed' = crossed \cup {{u, v}})
    BY <1>5 DEF CallBegun
  <2>2. calls' \in Call /\ calls' \in 0..MaxCalls
    BY <2>1, CallsAreNumbers DEF DialogTyped, Call
  <2>3. SessionsTyped' /\ SameBut(u, v) /\ v \in DOMAIN sessions'[u]
    BY <1>1, <2>1, <2>2, PutEffect, NewIsSession
  <2>4. {u, v} \in Pairs
    <3>1. <<u, v>> \in Users \X Users /\ {u, v} = {<<u, v>>[1], <<u, v>>[2]}
      OBVIOUS
    <3> QED
      BY <3>1 DEF Pairs
  <2>5. ended' \subseteq Pairs /\ crossed' \subseteq Pairs
    BY <2>1, <2>4 DEF DialogTyped
  <2>6. DialogTyped'
    BY <1>2, <2>1, <2>2, <2>5, ActiveTyped DEF DialogTyped
  <2>7. \A w \in Users \ {u} : DOMAIN sessions[w] \subseteq DOMAIN sessions'[w]
    BY <2>3 DEF SameBut, SameSession, SessionsTyped
  <2>8. HangingTyped'
    BY <1>2, <2>7, ActiveTyped, HangingKept
  <2> QED
    BY <1>1, <1>3, <2>2, <2>3, <2>6, <2>8
<1> QED
  BY <1>4, <1>5 DEF StartSelectedSession

LEMMA TypedHangup ==
    ASSUME CallTyped, NEW u \in Users, OnBnClickedHangup(u)
    PROVE  CallTyped'
<1> USE DEF CallTyped
<1>1. /\ ~hanging[u] /\ keyboard' = [keyboard EXCEPT ![u] = 0]
      /\ UNCHANGED <<sessions, recording, posted, calls, faults, crossed, lost>>
  BY DEF OnBnClickedHangup, Enabled, Free
<1>2. SessionsTyped'
  BY <1>1 DEF SessionsTyped, IsMap
<1>3. keyboard' \in [Users -> 0..MaxCalls]
  BY <1>1, CallsAreNumbers DEF DialogTyped
<1>4. CASE active[u] # Nobody /\ Has(u, active[u])
  <2> DEFINE v == active[u]
  <2>1. /\ Send(u, v, "hangup", sessions[u][v].call) /\ hanging' = [hanging EXCEPT ![u] = TRUE]
        /\ ended' = ended \cup {{u, v}} /\ active' = active
    BY <1>4 DEF OnBnClickedHangup
  <2>2. v \in Users /\ u # v /\ sessions[u][v].call \in Call
    BY <1>4 DEF Has, SessionsTyped, SessionOK, Session
  <2>3. [kind |-> "hangup", from |-> u, call |-> sessions[u][v].call] \in Signal
    BY <2>2 DEF Signal
  <2> HIDE DEF v
  <2>4. NetTyped'
    BY <1>1, <2>1, <2>2, <2>3, SendEffect
  <2>5. HangingTyped'
    BY <1>1, <1>4, <2>1 DEF HangingTyped, IsMap, Has, v
  <2>6. {u, v} \in Pairs
    <3>1. <<u, v>> \in Users \X Users /\ {u, v} = {<<u, v>>[1], <<u, v>>[2]}
      BY <2>2
    <3> QED
      BY <3>1 DEF Pairs
  <2>7. DialogTyped'
    BY <1>1, <1>3, <2>1, <2>6 DEF DialogTyped
  <2> QED
    BY <1>2, <2>4, <2>5, <2>7
<1>5. CASE ~(active[u] # Nobody /\ Has(u, active[u]))
  <2>1. active' = [active EXCEPT ![u] = Nobody] /\ UNCHANGED <<wire, hanging, ended>>
    BY <1>5 DEF OnBnClickedHangup
  <2>2. NetTyped'
    BY <1>1, <2>1 DEF NetTyped, IsMap
  <2>3. HangingTyped'
    BY <1>1, <2>1 DEF HangingTyped, DialogTyped, IsMap, Has
  <2>4. DialogTyped'
    BY <1>1, <1>3, <2>1 DEF DialogTyped
  <2> QED
    BY <1>2, <2>2, <2>3, <2>4
<1> QED
  BY <1>4, <1>5

\* Close posts a notice behind what has been posted.
LEMMA TypedFinish ==
    ASSUME CallTyped, NEW u \in Users, FinishHangup(u)
    PROVE  /\ CallTyped' /\ active[u] \in Users /\ active[u] # u
           /\ \A w \in Users \ {u} : posted'[w] = posted[w]
           /\ \E n \in Notice : /\ n.from # u
                                /\ posted'[u] = posted[u] \/ posted'[u] = Append(posted[u], n)
<1> USE DEF CallTyped
<1> DEFINE v == active[u]
<1>1. /\ hanging[u] /\ hanging' = [hanging EXCEPT ![u] = FALSE] /\ RemoveSession(u, v)
      /\ posted' = [posted EXCEPT ![u] = posted[u] \o ClosedNotice(u, v)]
      /\ recording' = [recording EXCEPT ![u] = 0] /\ active' = [active EXCEPT ![u] = Nobody]
      /\ UNCHANGED <<keyboard, wire, calls, faults, ended, crossed, lost>>
  BY DEF FinishHangup
<1>2. v \in Users /\ u # v
  BY <1>1 DEF HangingTyped, SessionsTyped, Has
<1> DEFINE n == [kind |-> "Closed", from |-> v]
<1>3. n \in Notice /\ n.from # u
  BY <1>2 DEF Notice
<1>4. posted[u] \in Seq(FromOthers(u)) /\ IsMap(posted)
  BY DEF NetTyped
<1>5. posted' = posted \/ posted' = [posted EXCEPT ![u] = Append(posted[u], n)]
  <2>1. ClosedNotice(u, v) = <<>> \/ ClosedNotice(u, v) = <<n>>
    BY DEF ClosedNotice
  <2> HIDE DEF n
  <2>2. posted[u] \o <<>> = posted[u] /\ posted[u] \o <<n>> = Append(posted[u], n)
    BY <1>4
  <2>3. posted' = [posted EXCEPT ![u] = posted[u]] \/ posted' = [posted EXCEPT ![u] = Append(posted[u], n)]
    BY <1>1, <2>1, <2>2
  <2>4. [posted EXCEPT ![u] = posted[u]] = posted
    BY <1>4 DEF IsMap
  <2> QED
    BY <2>3, <2>4
<1> HIDE DEF n
<1>6. /\ NetTyped' /\ \A w \in Users \ {u} : posted'[w] = posted[w]
      /\ posted'[u] = posted[u] \/ posted'[u] = Append(posted[u], n)
  <2>1. CASE posted' = posted
    BY <1>1, <2>1 DEF NetTyped, IsMap
  <2>2. CASE posted' = [posted EXCEPT ![u] = Append(posted[u], n)]
    BY <1>1, <1>3, <2>2, PostEffect
  <2> QED
    BY <1>5, <2>1, <2>2
<1>7. SessionsTyped' /\ SameBut(u, v)
  BY <1>1, <1>2, RemoveEffect
<1>8. HangingTyped'
  <2>1. IsMap(hanging)' /\ ~hanging'[u]
    BY <1>1 DEF HangingTyped, IsMap
  <2>2. ASSUME NEW w \in Users \ {u}, hanging'[w] PROVE active'[w] \in DOMAIN sessions'[w]
    <3>1. hanging[w] /\ active'[w] = active[w]
      BY <1>1, <2>2 DEF HangingTyped, DialogTyped, IsMap
    <3>2. active[w] \in DOMAIN sessions[w] /\ active[w] \in Users
      BY <3>1 DEF HangingTyped, SessionsTyped, Has
    <3> QED
      BY <1>7, <3>1, <3>2 DEF SameBut, SameSession
  <2> QED
    BY <2>1, <2>2 DEF HangingTyped, Has
<1>9. DialogTyped'
  BY <1>1, CallsAreNumbers DEF DialogTyped
<1> QED
  BY <1>2, <1>3, <1>6, <1>7, <1>8, <1>9

\* The call in which a user opened the file dialog, or 0.
FileTyped == choosing \in [Users -> 0..MaxCalls] /\ belated \in [Users -> BOOLEAN]

LEMMA FileStep ==
    ASSUME CallTyped, FileTyped, [Next]_vars
    PROVE  FileTyped'
<1> USE DEF dialogVars, fileVars, FileTyped
<1>1. CASE UNCHANGED vars
  BY <1>1 DEF vars
<1>2. ASSUME NEW u \in Users, OnBnClickedRecord(u) PROVE FileTyped'
  <2>1. Has(u, active[u]) => sessions[u][active[u]].call \in 0..MaxCalls
    BY CallsAreNumbers DEF CallTyped, SessionsTyped, SessionOK, Session, Call, Has
  <2> QED
    BY <1>2, <2>1, CallsAreNumbers DEF OnBnClickedRecord
<1>3. ASSUME NEW u \in Users, FileDialogAnswered(u) PROVE FileTyped'
  <2> DEFINE gone == \A v \in DOMAIN sessions[u] : sessions[u][v].call # choosing[u]
  <2>1. choosing' \in [Users -> 0..MaxCalls]
    BY <1>3, CallsAreNumbers DEF FileDialogAnswered
  <2>2. belated' = belated \/ belated' = [belated EXCEPT ![u] = gone]
    BY <1>3 DEF FileDialogAnswered
  <2>3. gone \in BOOLEAN
    OBVIOUS
  <2> HIDE DEF gone
  <2> QED
    BY <2>1, <2>2, <2>3
<1>4. ASSUME NEW u \in Users, Button(u) PROVE FileTyped'
  BY <1>2, <1>3, <1>4 DEF Button, StartSelectedSession, OnBnClickedHangup, FinishHangup,
              OnBnClickedKeyboardControl
<1>5. ASSUME NEW u \in Users, Dispatch(u) PROVE FileTyped'
  BY <1>5 DEF Dispatch, OnOffer, OnAnswer, OnCandidate, OnHangup, OnSessionState
<1>6. ASSUME NEW u \in Users, NEW v \in Users, Rtc(u, v) \/ Deliver(u, v)
      PROVE  FileTyped'
  BY <1>6 DEF Rtc, AnnounceLocalDescription, OnIceCandidate, OnPeerConnectionState,
              Connected, Broken, Deliver
<1> QED
  BY <1>1, <1>4, <1>5, <1>6 DEF Next

\* The buttons that switch keyboard control and the recording.
Switches(u) ==
    OnBnClickedKeyboardControl(u) \/ OnBnClickedRecord(u) \/ FileDialogAnswered(u)

LEMMA TypedSwitches ==
    ASSUME CallTyped, FileTyped, NEW u \in Users, Switches(u)
    PROVE  CallTyped'
<1> USE DEF CallTyped, Switches
<1>1. UNCHANGED <<sessions, active, hanging, posted, wire, calls, faults, ended, crossed, lost>>
  BY DEF OnBnClickedKeyboardControl, OnBnClickedRecord, FileDialogAnswered, netVars, historyVars
<1>2. SessionsTyped' /\ HangingTyped' /\ NetTyped'
  BY <1>1 DEF SessionsTyped, HangingTyped, NetTyped, IsMap, Has
<1>3. Has(u, active[u]) => sessions[u][active[u]].call \in 0..MaxCalls
  BY CallsAreNumbers DEF SessionsTyped, SessionOK, Session, Call, Has
<1>4. keyboard' \in [Users -> 0..MaxCalls] /\ recording' \in [Users -> 0..MaxCalls]
  BY <1>3, CallsAreNumbers
  DEF OnBnClickedKeyboardControl, OnBnClickedRecord, FileDialogAnswered, FileTyped, DialogTyped
<1>5. DialogTyped'
  BY <1>1, <1>4 DEF DialogTyped
<1> QED
  BY <1>2, <1>5

\* One session changes in what WebRTC does of it; its call stays.
LEMMA TypedChange ==
    ASSUME CallTyped, NEW u \in Users, NEW v \in Users, Has(u, v),
           NEW s, SessionOK(u, s), sessions' = [sessions EXCEPT ![u][v] = s],
           UNCHANGED <<active, keyboard, recording, hanging, calls, ended, lost>>,
           faults' \in 0..MaxFaults, crossed' \subseteq Pairs, NetTyped'
    PROVE  CallTyped'
<1>1. SessionsTyped' /\ SameBut(u, v) /\ v \in DOMAIN sessions'[u]
  BY ChangeEffect DEF CallTyped
<1>2. \A w \in Users : DOMAIN sessions[w] \subseteq DOMAIN sessions'[w]
  BY <1>1 DEF CallTyped, SessionsTyped, SameBut, SameSession
<1>3. HangingTyped'
  BY <1>2, HangingKept DEF CallTyped
<1>4. DialogTyped'
  BY DEF CallTyped, DialogTyped
<1> QED
  BY <1>1, <1>3, <1>4 DEF CallTyped

\* What WebRTC's thread sends, posts and changes.
LEMMA AnnounceEffect ==
    ASSUME CallTyped, NEW u \in Users, NEW v \in Users, AnnounceLocalDescription(u, v)
    PROVE  LET s == sessions[u][v]
               c == IF s.toSend = "offer" THEN s.call ELSE s.peer
           IN  /\ u # v /\ SessionOK(u, s) /\ s.toSend \in {"offer", "answer"} /\ c \in Call
               /\ Send(u, v, s.toSend, c)
               /\ [kind |-> s.toSend, from |-> u, call |-> c] \in Signal
               /\ sessions' = [sessions EXCEPT ![u][v] = [s EXCEPT !.toSend = "none"]]
<1> DEFINE s == sessions[u][v]
           c == IF s.toSend = "offer" THEN s.call ELSE s.peer
<1>1. Has(u, v) /\ s.toSend # "none" /\ Send(u, v, s.toSend, c)
      /\ sessions' = [sessions EXCEPT ![u][v] = [s EXCEPT !.toSend = "none"]]
  BY DEF AnnounceLocalDescription
<1>2. u # v /\ SessionOK(u, s)
  BY <1>1 DEF CallTyped, SessionsTyped, Has
<1> HIDE DEF s
<1>3. s.toSend \in {"offer", "answer"} /\ s.call \in Call /\ s.peer \in 0..MaxCalls
  BY <1>1, <1>2 DEF SessionOK, Session
<1>4. s.toSend = "answer" => s.peer \in Call
  BY <1>2, <1>3, CallsAreNumbers DEF SessionOK, Call
<1>5. c \in Call
  BY <1>3, <1>4
<1>6. [kind |-> s.toSend, from |-> u, call |-> c] \in Signal
  BY <1>3, <1>5 DEF Signal
<1> QED
  BY <1>1, <1>2, <1>3, <1>5, <1>6 DEF s

LEMMA TypedRtc ==
    ASSUME CallTyped, NEW u \in Users, NEW v \in Users, Rtc(u, v)
    PROVE  CallTyped' /\ u # v
<1> USE DEF dialogVars, netVars, historyVars
<1>1. Has(u, v) /\ UNCHANGED <<active, keyboard, recording, hanging, calls, ended, lost>>
  BY DEF Rtc, AnnounceLocalDescription, OnIceCandidate, OnPeerConnectionState,
         Connected, Broken
<1> DEFINE s == sessions[u][v]
<1>2. u # v /\ SessionOK(u, s) /\ s.call \in Call
  BY <1>1 DEF CallTyped, SessionsTyped, Has, SessionOK, Session
<1>3. faults \in 0..MaxFaults /\ crossed \subseteq Pairs
  BY DEF CallTyped, DialogTyped
<1>4. CASE AnnounceLocalDescription(u, v)
  <2>1. NetTyped'
    BY <1>4, AnnounceEffect, SendEffect DEF AnnounceLocalDescription, CallTyped
  <2>2. {u, v} \in Pairs
    <3>1. <<u, v>> \in Users \X Users /\ {u, v} = {<<u, v>>[1], <<u, v>>[2]}
      OBVIOUS
    <3> QED
      BY <3>1 DEF Pairs
  <2>3. faults' = faults /\ crossed' \subseteq Pairs
    BY <1>3, <1>4, <2>2 DEF AnnounceLocalDescription
  <2>4. sessions' = [sessions EXCEPT ![u][v] = [s EXCEPT !.toSend = "none"]]
    BY <1>4 DEF AnnounceLocalDescription
  <2>5. SessionOK(u, [s EXCEPT !.toSend = "none"])
    BY <1>2, SessionChanges
  <2> QED
    BY <1>1, <1>2, <1>3, <2>1, <2>3, <2>4, <2>5, TypedChange
<1>5. CASE OnIceCandidate(u, v)
  <2>1. [kind |-> "ice", from |-> u, call |-> s.call] \in Signal
    BY <1>2 DEF Signal
  <2>2. NetTyped'
    BY <1>2, <1>5, <2>1, SendEffect DEF OnIceCandidate, CallTyped
  <2>3. sessions' = [sessions EXCEPT ![u][v] = [s EXCEPT !.ice = FALSE]]
        /\ faults' = faults /\ crossed' = crossed
    BY <1>5 DEF OnIceCandidate
  <2>4. SessionOK(u, [s EXCEPT !.ice = FALSE])
    BY <1>2, SessionChanges
  <2> QED
    BY <1>1, <1>2, <1>3, <2>2, <2>3, <2>4, TypedChange
<1>6. CASE OnPeerConnectionState(u, v)
  <2>1. PICK t \in {"Connected", "Disconnected", "Failed"} :
           sessions' = [sessions EXCEPT ![u][v] = [s EXCEPT !.state = t]]
    BY <1>6 DEF OnPeerConnectionState, Connected, Broken
  <2>2. SessionOK(u, [s EXCEPT !.state = t])
    BY <1>2, SessionChanges DEF Live
  <2>3. crossed' = crossed /\ UNCHANGED wire /\ faults' \in 0..MaxFaults
    BY <1>3, <1>6, FaultTyped DEF OnPeerConnectionState, Connected, Broken, CallTyped
  <2>4. NetTyped'
    <3>1. CASE Connected(u, v)
      BY <3>1 DEF Connected, CallTyped, NetTyped, IsMap
    <3>2. ASSUME NEW k \in {"Disconnected", "Failed"}, Broken(u, v, k) PROVE NetTyped'
      <4>1. [kind |-> k, from |-> v] \in Notice
        BY DEF Notice
      <4>2. posted' = [posted EXCEPT ![u] = Append(posted[u], [kind |-> k, from |-> v])]
        BY <3>2 DEF Broken
      <4>3. [kind |-> k, from |-> v].from # u
        BY <1>2
      <4> QED
        BY <2>3, <4>1, <4>2, <4>3, PostEffect DEF CallTyped
    <3> QED
      BY <1>6, <3>1, <3>2 DEF OnPeerConnectionState
  <2> QED
    BY <1>1, <1>2, <1>3, <2>1, <2>2, <2>3, <2>4, TypedChange
<1> QED
  BY <1>2, <1>4, <1>5, <1>6 DEF Rtc

LEMMA TypedDeliver ==
    ASSUME CallTyped, NEW u \in Users, NEW v \in Users, Deliver(u, v)
    PROVE  CallTyped'
<1>1. UNCHANGED <<sessions, active, keyboard, recording, hanging, calls, faults, ended, crossed, lost>>
  BY DEF Deliver, dialogVars, historyVars
<1>2. NetTyped'
  BY DeliverEffect DEF CallTyped
<1> QED
  BY <1>1, <1>2 DEF CallTyped, SessionsTyped, DialogTyped, HangingTyped, IsMap, Has

\* The first message is from another user; of signalling, it has a call.
LEMMA SignalledEffect ==
    ASSUME CallTyped, NEW u \in Users, NEW v \in Users, NEW kind, Signalled(u, v, kind)
    PROVE  /\ u # v /\ posted[u] # <<>> /\ posted[u] \in Seq(FromOthers(u))
           /\ kind \in {"offer", "answer", "ice", "hangup"} => Head(posted[u]).call \in Call
<1>1. posted[u] # <<>> /\ posted[u] \in Seq(FromOthers(u))
      /\ Head(posted[u]).kind = kind /\ Head(posted[u]).from = v
  BY DEF Signalled, CallTyped, NetTyped
<1>2. Head(posted[u]) \in FromOthers(u)
  BY <1>1, HeadTailProperties
<1>3. Head(posted[u]) \in Signal \/ Head(posted[u]) \in Notice
  BY <1>2 DEF FromOthers
<1>4. Head(posted[u]) \in Signal => Head(posted[u]).call \in Call
  BY DEF Signal
<1>5. Head(posted[u]) \in Notice => Head(posted[u]).kind \in {"Disconnected", "Failed", "Closed"}
  BY DEF Notice
<1> QED
  BY <1>1, <1>2, <1>3, <1>4, <1>5 DEF FromOthers

\* A session is removed by a window message.
LEMMA TypedRemove ==
    ASSUME CallTyped, NEW u \in Users, NEW v \in Users, ~hanging[u],
           RemoveSession(u, v), UNCHANGED hanging, DialogTyped', NetTyped',
           \A w \in Users \ {u} : active'[w] = active[w]
    PROVE  CallTyped'
<1>1. SessionsTyped' /\ SameBut(u, v)
  BY RemoveEffect DEF CallTyped
<1>2. \A w \in Users \ {u} : DOMAIN sessions[w] \subseteq DOMAIN sessions'[w]
  BY <1>1 DEF CallTyped, SessionsTyped, SameBut, SameSession
<1>3. HangingTyped'
  BY <1>2, HangingKept DEF CallTyped
<1> QED
  BY <1>1, <1>3 DEF CallTyped

LEMMA TypedOffer ==
    ASSUME CallTyped, NEW u \in Users, NEW v \in Users, OnOffer(u, v)
    PROVE  CallTyped' /\ u # v
<1> DEFINE c == Head(posted[u]).call
<1>1. /\ MakeActive(u, v) /\ UNCHANGED <<recording, hanging, wire, calls, ended, crossed>>
      /\ u # v /\ c \in Call
  BY SignalledEffect DEF OnOffer
<1>2. /\ active' \in [Users -> Users \cup {Nobody}] /\ keyboard' \in [Users -> 0..MaxCalls]
      /\ \A w \in Users \ {u} : active'[w] = active[w]
  BY <1>1, ActiveTyped DEF CallTyped
<1>3. CASE OfferDropped(u, v)
  <2>1. ~hanging[u] /\ Take(u, <<>>) /\ UNCHANGED sessions
        /\ lost' = [lost EXCEPT ![u] = lost[u] \cup {c}]
    BY <1>3 DEF OfferDropped, Take, Free
  <2>2. NetTyped'
    BY <1>1, <2>1, TakeEffect DEF CallTyped
  <2>3. faults' \in 0..MaxFaults
    BY <1>3, FaultTyped DEF OfferDropped, CallTyped
  <2>4. DialogTyped'
    BY <1>1, <1>2, <2>1, <2>3 DEF CallTyped, DialogTyped
  <2>5. SessionsTyped' /\ HangingTyped'
    BY <1>1, <1>2, <2>1 DEF CallTyped, SessionsTyped, HangingTyped, IsMap, Has
  <2> QED
    BY <1>1, <2>2, <2>4, <2>5 DEF CallTyped
<1>4. CASE OfferGivenUp(u, v)
  <2>1. ~hanging[u] /\ Take(u, ClosedNotice(u, v)) /\ RemoveSession(u, v)
        /\ lost' = [lost EXCEPT ![u] = lost[u] \cup {c}
                       \cup (IF Has(u, v) THEN {sessions[u][v].call} ELSE {})]
    BY <1>4 DEF OfferGivenUp, Take, Free
  <2>2. NetTyped'
    BY <1>1, <2>1, TakeEffect DEF CallTyped
  <2>3. faults' \in 0..MaxFaults
    BY <1>4, FaultTyped DEF OfferGivenUp, ConfigureFails, CallTyped
  <2>4. Has(u, v) => sessions[u][v].call \in Call
    BY DEF CallTyped, SessionsTyped, SessionOK, Session, Has
  <2>5. lost' \in [Users -> SUBSET Call]
    BY <1>1, <2>1, <2>4 DEF CallTyped, DialogTyped
  <2>6. DialogTyped'
    BY <1>1, <1>2, <2>3, <2>5 DEF CallTyped, DialogTyped
  <2> QED
    BY <1>1, <1>2, <2>1, <2>2, <2>6, TypedRemove
<1>5. CASE OfferApplied(u, v)
  <2> DEFINE s == IF Has(u, v) THEN sessions[u][v] ELSE NewSession(u, c)
             t == [s EXCEPT !.peer = c, !.toSend = "answer", !.state = "Connecting"]
  <2>1. ~hanging[u] /\ Take(u, <<>>) /\ PutSession(u, v, t) /\ UNCHANGED <<lost, faults>>
    BY <1>5 DEF OfferApplied, Take, Free
  <2>2. NetTyped'
    BY <1>1, <2>1, TakeEffect DEF CallTyped
  <2>3. SessionOK(u, s)
    BY <1>1, NewIsSession DEF CallTyped, SessionsTyped, Has
  <2>4. SessionOK(u, t)
    BY <1>1, <2>3, AnsweringIsSession
  <2> HIDE DEF t, c
  <2>5. SessionsTyped' /\ SameBut(u, v) /\ v \in DOMAIN sessions'[u]
    BY <1>1, <2>1, <2>4, PutEffect DEF CallTyped
  <2>6. \A w \in Users \ {u} : DOMAIN sessions[w] \subseteq DOMAIN sessions'[w]
    BY <2>5 DEF CallTyped, SessionsTyped, SameBut, SameSession
  <2>7. HangingTyped'
    BY <1>1, <1>2, <2>1, <2>6, HangingKept DEF CallTyped
  <2>8. DialogTyped'
    BY <1>1, <1>2, <2>1 DEF CallTyped, DialogTyped
  <2> QED
    BY <1>1, <2>2, <2>5, <2>7, <2>8 DEF CallTyped
<1> QED
  BY <1>3, <1>4, <1>5 DEF OnOffer

LEMMA TypedAnswer ==
    ASSUME CallTyped, NEW u \in Users, NEW v \in Users, OnAnswer(u, v) \/ OnCandidate(u, v)
    PROVE  CallTyped' /\ u # v
<1> DEFINE c == Head(posted[u]).call
<1>1. /\ MakeActive(u, v) /\ Take(u, <<>>) /\ ~hanging[u] /\ u # v /\ c \in Call
      /\ UNCHANGED <<recording, hanging, wire, calls, faults, ended, crossed, lost>>
      /\ \/ sessions' = sessions
         \/ Has(u, v) /\ sessions' = [sessions EXCEPT ![u][v] = [sessions[u][v] EXCEPT !.peer = c]]
  <2>1. CASE OnAnswer(u, v)
    <3>1. u # v /\ c \in Call
      BY <2>1, SignalledEffect DEF OnAnswer
    <3>2. MakeActive(u, v) /\ Take(u, <<>>)
      BY <2>1 DEF OnAnswer
    <3>4. UNCHANGED <<recording, hanging, wire, calls, faults, ended, crossed, lost>>
      BY <2>1 DEF OnAnswer, historyVars
    <3>5. ~hanging[u]
      BY <3>2 DEF Take, Free
    <3>3. \/ sessions' = sessions
          \/ Has(u, v) /\ sessions' = [sessions EXCEPT ![u][v] = [sessions[u][v] EXCEPT !.peer = c]]
      BY <2>1 DEF OnAnswer
    <3> QED
      BY <3>1, <3>2, <3>3, <3>4, <3>5
  <2>2. CASE OnCandidate(u, v)
    <3>1. u # v /\ c \in Call
      BY <2>2, SignalledEffect DEF OnCandidate
    <3>2. MakeActive(u, v) /\ Take(u, <<>>) /\ sessions' = sessions
      BY <2>2 DEF OnCandidate
    <3>3. UNCHANGED <<recording, hanging, wire, calls, faults, ended, crossed, lost>>
      BY <2>2 DEF OnCandidate, historyVars
    <3>4. ~hanging[u]
      BY <3>2 DEF Take, Free
    <3> QED
      BY <3>1, <3>2, <3>3, <3>4
  <2> QED
    BY <2>1, <2>2
<1>2. /\ active' \in [Users -> Users \cup {Nobody}] /\ keyboard' \in [Users -> 0..MaxCalls]
      /\ \A w \in Users \ {u} : active'[w] = active[w]
  BY <1>1, ActiveTyped DEF CallTyped
<1>3. NetTyped'
  BY <1>1, TakeEffect DEF CallTyped
<1>4. DialogTyped'
  BY <1>1, <1>2 DEF CallTyped, DialogTyped
<1>5. SessionsTyped' /\ \A w \in Users : DOMAIN sessions[w] \subseteq DOMAIN sessions'[w]
  <2>1. CASE sessions' = sessions
    BY <2>1 DEF CallTyped, SessionsTyped, IsMap
  <2>2. CASE Has(u, v) /\ sessions' = [sessions EXCEPT ![u][v] = [sessions[u][v] EXCEPT !.peer = c]]
    <3>1. SessionOK(u, [sessions[u][v] EXCEPT !.peer = c])
      BY <1>1, <2>2, SessionChanges DEF CallTyped, SessionsTyped, Has
    <3>2. SessionsTyped' /\ SameBut(u, v) /\ v \in DOMAIN sessions'[u]
      BY <2>2, <3>1, ChangeEffect DEF CallTyped
    <3> QED
      BY <3>2 DEF CallTyped, SessionsTyped, SameBut, SameSession
  <2> QED
    BY <1>1, <2>1, <2>2
<1>6. HangingTyped'
  BY <1>1, <1>2, <1>5, HangingKept DEF CallTyped
<1> QED
  BY <1>1, <1>3, <1>4, <1>5, <1>6 DEF CallTyped

LEMMA TypedRemoteHangup ==
    ASSUME CallTyped, NEW u \in Users, NEW v \in Users, OnHangup(u, v)
    PROVE  CallTyped' /\ u # v
<1>1. /\ ~hanging[u] /\ u # v /\ Take(u, ClosedNotice(u, v)) /\ RemoveSession(u, v)
      /\ keyboard' = keyboard \/ keyboard' = [keyboard EXCEPT ![u] = 0]
      /\ active' = [active EXCEPT ![u] = Nobody] /\ recording' = [recording EXCEPT ![u] = 0]
      /\ UNCHANGED <<hanging, wire, calls, faults, ended, crossed, lost>>
  BY SignalledEffect DEF OnHangup, Take, Free
<1>2. NetTyped'
  BY <1>1, TakeEffect DEF CallTyped
<1>3. DialogTyped'
  BY <1>1, CallsAreNumbers DEF CallTyped, DialogTyped
<1>4. \A w \in Users \ {u} : active'[w] = active[w]
  BY <1>1 DEF CallTyped, DialogTyped
<1> QED
  BY <1>1, <1>2, <1>3, <1>4, TypedRemove

LEMMA TypedState ==
    ASSUME CallTyped, NEW u \in Users, NEW v \in Users, OnSessionState(u, v)
    PROVE  CallTyped' /\ u # v
<1>1. /\ ~hanging[u] /\ u # v /\ (Take(u, ClosedNotice(u, v)) \/ Take(u, <<>>))
      /\ keyboard' = keyboard \/ keyboard' = [keyboard EXCEPT ![u] = 0]
      /\ active' = active \/ active' = [active EXCEPT ![u] = Nobody]
      /\ UNCHANGED <<recording, hanging, wire, calls, faults, ended, crossed>>
  BY SignalledEffect DEF OnSessionState, Take, Free
<1>2. NetTyped'
  BY <1>1, TakeEffect DEF CallTyped
<1>3. \A w \in Users \ {u} : active'[w] = active[w]
  BY <1>1 DEF CallTyped, DialogTyped
<1> DEFINE Switched == keyboard' \in [Users -> 0..MaxCalls] /\ active' \in [Users -> Users \cup {Nobody}]
<1>a. Switched
  BY <1>1, CallsAreNumbers, SMTT(60) DEF CallTyped, DialogTyped
<1>4. CASE IsOver(u, v)
  <2>1. /\ Has(u, v) /\ RemoveSession(u, v)
        /\ lost' = lost \/ lost' = [lost EXCEPT ![u] = lost[u] \cup {sessions[u][v].call}]
    BY <1>4 DEF OnSessionState, IsOver
  <2>2. sessions[u][v].call \in Call
    BY <2>1 DEF CallTyped, SessionsTyped, SessionOK, Session, Has
  <2>4. lost' \in [Users -> SUBSET Call]
    BY <2>1, <2>2 DEF CallTyped, DialogTyped
  <2>3. DialogTyped'
    BY <1>1, <1>a, <2>4 DEF CallTyped, DialogTyped
  <2> QED
    BY <1>1, <1>2, <1>3, <2>1, <2>3, TypedRemove
<1>5. CASE ~IsOver(u, v)
  <2>1. UNCHANGED <<sessions, active, lost>>
    BY <1>5 DEF OnSessionState
  <2>2. DialogTyped'
    BY <1>1, <1>a, <2>1 DEF CallTyped, DialogTyped
  <2> QED
    BY <1>1, <1>2, <2>1, <2>2 DEF CallTyped, SessionsTyped, HangingTyped, IsMap, Has
<1> QED
  BY <1>4, <1>5

LEMMA TypedStep == CallTyped /\ FileTyped /\ [Next]_vars => CallTyped'
<1> SUFFICES ASSUME CallTyped, FileTyped, [Next]_vars PROVE CallTyped'
  OBVIOUS
<1>1. CASE UNCHANGED vars
  BY <1>1 DEF vars, dialogVars, netVars, historyVars, CallTyped, SessionsTyped, DialogTyped,
              HangingTyped, NetTyped, IsMap, Has
<1>2. ASSUME NEW u \in Users, Button(u) PROVE CallTyped'
  BY <1>2, TypedCalling, TypedHangup, TypedFinish, TypedSwitches DEF Button, Switches
<1>3. ASSUME NEW u \in Users, Dispatch(u) PROVE CallTyped'
  BY <1>3, TypedOffer, TypedAnswer, TypedRemoteHangup, TypedState DEF Dispatch
<1>4. ASSUME NEW u \in Users, NEW v \in Users, Rtc(u, v) \/ Deliver(u, v) PROVE CallTyped'
  BY <1>4, TypedRtc, TypedDeliver
<1> QED
  BY <1>1, <1>2, <1>3, <1>4 DEF Next

LEMMA CallInvariance == Spec => []CallTyped /\ []FileTyped
<1>1. Init => FileTyped
  BY CallsAreNumbers DEF Init, FileTyped
<1>2. CallTyped /\ FileTyped /\ [Next]_vars => FileTyped'
  BY FileStep
<1> QED
  BY <1>1, <1>2, TypedInit, TypedStep, PTL DEF Spec

-----------------------------------------------------------------------------
(* The captures run for the sessions.  Every session sends what its user   *)
(* has ticked, so that what runs is looked at user by user.                *)

MediaOf(u) ==
    /\ DOMAIN sessions[u] # {} => Sends[u] \subseteq media[u]
    /\ media[u] # {} => sessions[u] # <<>> \/ left[u]

MediaKept ==
    /\ media \in [Users -> SUBSET Media] /\ left \in [Users -> BOOLEAN]
    /\ \A u \in Users : MediaOf(u)

LEMMA MediaInit == Init => MediaKept
BY DEF Init, MediaKept, MediaOf

LEMMA MediaSame ==
    ASSUME MediaKept, UNCHANGED <<media, left>>,
           \A w \in Users : \/ sessions'[w] = sessions[w]
                            \/ DOMAIN sessions[w] # {} /\ DOMAIN sessions'[w] # {}
    PROVE  MediaKept'
BY DEF MediaKept, MediaOf

\* A session is removed, and what runs is stopped if it was the last.
LEMMA MediaRemove ==
    ASSUME SessionsTyped, MediaKept, NEW u \in Users, NEW v \in Users,
           RemoveSession(u, v), StopUnused(u, v)
    PROVE  MediaKept'
<1>1. /\ sessions'[u] = Removed(u, v) /\ DOMAIN sessions'[u] = DOMAIN sessions[u] \ {v}
      /\ \A w \in Users \ {u} : sessions'[w] = sessions[w]
  BY DEF RemoveSession, SessionsTyped, IsMap, Removed, Restrict
<1>2. CASE Removed(u, v) = <<>>
  <2>1. media' = [media EXCEPT ![u] = {}] /\ left' = [left EXCEPT ![u] = FALSE]
    BY <1>2 DEF StopUnused
  <2>2. media' \in [Users -> SUBSET Media] /\ left' \in [Users -> BOOLEAN]
    BY <2>1 DEF MediaKept
  <2>3. MediaOf(u)'
    BY <1>1, <1>2, <2>1 DEF MediaKept, MediaOf
  <2>4. \A w \in Users \ {u} : MediaOf(w)'
    BY <1>1, <2>1 DEF MediaKept, MediaOf
  <2> QED
    BY <2>2, <2>3, <2>4 DEF MediaKept
<1>3. CASE Removed(u, v) # <<>>
  BY <1>1, <1>3 DEF StopUnused, MediaKept, MediaOf
<1> QED
  BY <1>2, <1>3

\* A session is set up, a new one or not.
LEMMA MediaPut ==
    ASSUME SessionsTyped, MediaKept, NEW u \in Users, NEW v, NEW s,
           PutSession(u, v, s), ConfigureLocalMedia(u)
    PROVE  MediaKept'
<1>1. /\ v \in DOMAIN sessions'[u] /\ \A w \in Users \ {u} : sessions'[w] = sessions[w]
  BY DEF PutSession, SessionsTyped, IsMap
<1>2. /\ media' = [media EXCEPT ![u] = media[u] \cup Sends[u]] /\ left' = left
      /\ Sends[u] \subseteq Media
  BY CallAssumption DEF ConfigureLocalMedia
<1>3. media' \in [Users -> SUBSET Media] /\ left' \in [Users -> BOOLEAN]
  BY <1>2 DEF MediaKept
<1>4. MediaOf(u)'
  BY <1>1, <1>2 DEF MediaKept, MediaOf
<1>5. \A w \in Users \ {u} : MediaOf(w)'
  BY <1>1, <1>2 DEF MediaKept, MediaOf
<1> QED
  BY <1>3, <1>4, <1>5 DEF MediaKept

\* A set-up that fails may leave captures on; sessions become no more.
LEMMA MediaFails ==
    ASSUME MediaKept, NEW u \in Users, ConfigureFails(u),
           DOMAIN sessions'[u] \subseteq DOMAIN sessions[u],
           \A w \in Users \ {u} : sessions'[w] = sessions[w]
    PROVE  MediaKept'
<1>1. PICK m \in FailedMedia(u) : media' = [media EXCEPT ![u] = m]
  BY DEF ConfigureFails
<1>2. media[u] \subseteq m /\ m \subseteq Media /\ left' = [left EXCEPT ![u] = TRUE]
  BY <1>1, CallAssumption DEF FailedMedia, MediaKept, ConfigureFails
<1>3. media' \in [Users -> SUBSET Media] /\ left' \in [Users -> BOOLEAN]
  BY <1>1, <1>2 DEF MediaKept
<1>4. MediaOf(u)'
  BY <1>1, <1>2 DEF MediaKept, MediaOf
<1>5. \A w \in Users \ {u} : MediaOf(w)'
  BY <1>1, <1>2 DEF MediaKept, MediaOf
<1> QED
  BY <1>3, <1>4, <1>5 DEF MediaKept

LEMMA MediaStep ==
    ASSUME CallTyped, MediaKept, [Next]_vars
    PROVE  MediaKept'
<1> USE DEF CallTyped
<1>1. CASE UNCHANGED vars
  BY <1>1, MediaSame DEF vars, historyVars, dialogVars
<1>2. ASSUME NEW u \in Users, NEW v \in Users, StartSelectedSession(u, v) PROVE MediaKept'
  <2>1. CASE CallRefused(u, v)
    <3>1. sessions' = sessions
      BY <2>1 DEF CallRefused
    <3>2. UNCHANGED <<media, left>> \/ ConfigureFails(u)
      BY <2>1 DEF CallRefused
    <3> QED
      BY <3>1, <3>2, MediaSame, MediaFails
  <2>2. CASE CallBegun(u, v)
    BY <2>2, MediaPut DEF CallBegun
  <2> QED
    BY <1>2, <2>1, <2>2 DEF StartSelectedSession
<1>3. ASSUME NEW u \in Users, \/ OnBnClickedHangup(u) \/ OnBnClickedKeyboardControl(u)
                              \/ OnBnClickedRecord(u) \/ FileDialogAnswered(u)
      PROVE  MediaKept'
  BY <1>3, MediaSame DEF OnBnClickedHangup, OnBnClickedKeyboardControl, OnBnClickedRecord,
                         FileDialogAnswered, historyVars
<1>4. ASSUME NEW u \in Users, FinishHangup(u) PROVE MediaKept'
  <2>1. active[u] \in Users
    BY <1>4 DEF FinishHangup, HangingTyped, SessionsTyped, Has
  <2> QED
    BY <1>4, <2>1, MediaRemove DEF FinishHangup
<1>5. ASSUME NEW u \in Users, NEW v \in Users, OnOffer(u, v) PROVE MediaKept'
  <2>1. CASE OfferDropped(u, v)
    BY <2>1, MediaSame DEF OfferDropped
  <2>2. CASE OfferGivenUp(u, v)
    <3>1. /\ DOMAIN sessions'[u] \subseteq DOMAIN sessions[u]
          /\ \A w \in Users \ {u} : sessions'[w] = sessions[w]
      BY <2>2 DEF OfferGivenUp, RemoveSession, Removed, Restrict, SessionsTyped, IsMap
    <3> QED
      BY <2>2, <3>1, MediaFails DEF OfferGivenUp
  <2>3. CASE OfferApplied(u, v)
    BY <2>3, MediaPut DEF OfferApplied
  <2> QED
    BY <1>5, <2>1, <2>2, <2>3 DEF OnOffer
<1>6. ASSUME NEW u \in Users, NEW v \in Users, OnAnswer(u, v) \/ OnCandidate(u, v) PROVE MediaKept'
  <2>1. UNCHANGED <<media, left>>
    BY <1>6 DEF OnAnswer, OnCandidate, historyVars
  <2>2. \A w \in Users : \/ sessions'[w] = sessions[w]
                         \/ DOMAIN sessions[w] # {} /\ DOMAIN sessions'[w] # {}
    BY <1>6 DEF OnAnswer, OnCandidate, SessionsTyped, IsMap, Has
  <2> QED
    BY <2>1, <2>2, MediaSame
<1>7. ASSUME NEW u \in Users, NEW v \in Users, OnHangup(u, v) PROVE MediaKept'
  BY <1>7, MediaRemove DEF OnHangup
<1>8. ASSUME NEW u \in Users, NEW v \in Users, OnSessionState(u, v) PROVE MediaKept'
  BY <1>8, MediaRemove, MediaSame DEF OnSessionState
<1>9. ASSUME NEW u \in Users, NEW v \in Users, Rtc(u, v) PROVE MediaKept'
  <2>1. UNCHANGED <<media, left>>
    BY <1>9 DEF Rtc, AnnounceLocalDescription, OnIceCandidate, OnPeerConnectionState,
                Connected, Broken, dialogVars, historyVars
  <2>2. \A w \in Users : \/ sessions'[w] = sessions[w]
                         \/ DOMAIN sessions[w] # {} /\ DOMAIN sessions'[w] # {}
    BY <1>9 DEF Rtc, AnnounceLocalDescription, OnIceCandidate, OnPeerConnectionState,
                Connected, Broken, SessionsTyped, IsMap, Has
  <2> QED
    BY <2>1, <2>2, MediaSame
<1>10. ASSUME NEW u \in Users, NEW v \in Users, Deliver(u, v) PROVE MediaKept'
  BY <1>10, MediaSame DEF Deliver, dialogVars, historyVars
<1> QED
  BY <1>1, <1>2, <1>3, <1>4, <1>5, <1>6, <1>7, <1>8, <1>9, <1>10
  DEF Next, Button, Dispatch

\* Capture and microphone run for every session that sends them, and are
\* stopped with the last session (ConfigureLocalMedia, StopLocalMediaIfUnused),
\* whoever calls and whatever fails, but for a set-up that failed.
THEOREM MediaFollowsSessionsTheorem == Spec => []MediaFollowsSessions
<1>1. CallTyped /\ MediaKept => MediaFollowsSessions
  <2> SUFFICES ASSUME CallTyped, MediaKept, NEW u \in Users
               PROVE  /\ \A v \in DOMAIN sessions[u] : sessions[u][v].tracks \subseteq media[u]
                      /\ media[u] # {} => sessions[u] # <<>> \/ left[u]
    BY DEF MediaFollowsSessions
  <2>1. \A v \in DOMAIN sessions[u] : sessions[u][v].tracks = Sends[u]
    BY DEF CallTyped, SessionsTyped, SessionOK
  <2> QED
    BY <2>1 DEF MediaKept, MediaOf
<1>2. CallTyped /\ MediaKept /\ [Next]_vars => MediaKept'
  BY MediaStep
<1> QED
  BY <1>1, <1>2, MediaInit, CallInvariance, PTL DEF Spec

\* Whether a user is between the hangup and the close is a truth value.
HangingFlags == hanging \in [Users -> BOOLEAN]

LEMMA HangingStep == HangingFlags /\ [Next]_vars => HangingFlags'
<1> SUFFICES ASSUME HangingFlags, [Next]_vars PROVE HangingFlags'
  OBVIOUS
<1> USE DEF dialogVars, HangingFlags
<1>1. CASE UNCHANGED vars
  BY <1>1 DEF vars
<1>2. ASSUME NEW u \in Users, Button(u) PROVE HangingFlags'
  BY <1>2 DEF Button, StartSelectedSession, OnBnClickedHangup, FinishHangup,
              OnBnClickedKeyboardControl, OnBnClickedRecord, FileDialogAnswered
<1>3. ASSUME NEW u \in Users, Dispatch(u) PROVE HangingFlags'
  BY <1>3 DEF Dispatch, OnOffer, OnAnswer, OnCandidate, OnHangup, OnSessionState
<1>4. ASSUME NEW u \in Users, NEW v \in Users, Rtc(u, v) \/ Deliver(u, v)
      PROVE  HangingFlags'
  BY <1>4 DEF Rtc, AnnounceLocalDescription, OnIceCandidate, OnPeerConnectionState,
              Connected, Broken, Deliver
<1> QED
  BY <1>1, <1>2, <1>3, <1>4 DEF Next

LEMMA LargerSeq ==
    ASSUME NEW S, NEW T, S \subseteq T, NEW s \in Seq(S)
    PROVE  s \in Seq(T)
<1>1. Len(s) \in Nat /\ s \in [1..Len(s) -> S]
  BY LenProperties
<1>2. s \in [1..Len(s) -> T]
  BY <1>1
<1> QED
  BY <1>1, <1>2, SeqDef

LEMMA CallTypes ==
    ASSUME CallTyped, FileTyped, MediaKept, HangingFlags
    PROVE  TypeOK
<1> USE DEF CallTyped
<1>1. \A u \in Users : DOMAIN sessions[u] \subseteq Users \ {u} /\ Range(sessions[u]) \subseteq Session
  BY DEF SessionsTyped, SessionOK, Range
<1>2. /\ active \in [Users -> Users \cup {Nobody}]
      /\ keyboard \in [Users -> 0..MaxCalls] /\ recording \in [Users -> 0..MaxCalls]
  BY DEF DialogTyped
<1>3. media \in [Users -> SUBSET Media] /\ left \in [Users -> BOOLEAN]
  BY DEF MediaKept
<1>4. \A u \in Users : hanging[u] => active[u] \in DOMAIN sessions[u]
  BY DEF HangingTyped, Has
<1>5. posted \in [Users -> Seq(Signal \cup Notice)]
  <2>1. \A u \in Users : FromOthers(u) \subseteq Signal \cup Notice
    BY DEF FromOthers
  <2>2. \A u \in Users : posted[u] \in Seq(Signal \cup Notice)
    BY <2>1, LargerSeq DEF NetTyped
  <2> QED
    BY <2>2 DEF NetTyped, IsMap
<1>6. wire \in [Users -> [Users -> Seq(Signal)]]
  <2>1. \A u \in Users : From(u) \subseteq Signal
    BY DEF From
  <2>2. \A u, v \in Users : wire[u][v] \in Seq(Signal)
    BY <2>1, LargerSeq DEF NetTyped
  <2>3. \A u \in Users : wire[u] \in [Users -> Seq(Signal)]
    BY <2>2 DEF NetTyped, IsMap
  <2> QED
    BY <2>3 DEF NetTyped, IsMap
<1>7. calls \in 0..MaxCalls /\ faults \in 0..MaxFaults
  BY DEF DialogTyped
<1>8. ended \subseteq Pairs /\ crossed \subseteq Pairs /\ lost \in [Users -> SUBSET Call]
  BY DEF DialogTyped
<1> QED
  BY <1>1, <1>2, <1>3, <1>4, <1>5, <1>6, <1>7, <1>8
  DEF TypeOK, HangingFlags, FileTyped

\* The types of the dialogs, their sessions and the messages between them; a
\* hangup under way has its session (OnBnClickedHangup).
THEOREM CallTypeCorrect == Spec => []TypeOK
<1>1. Init => HangingFlags
  BY DEF Init, HangingFlags
<1>2. CallTyped /\ MediaKept /\ [Next]_vars => MediaKept'
  BY MediaStep
<1>3. CallTyped /\ FileTyped /\ MediaKept /\ HangingFlags => TypeOK
  BY CallTypes
<1> QED
  BY <1>1, <1>2, <1>3, HangingStep, MediaInit, CallInvariance, PTL DEF Spec

-----------------------------------------------------------------------------
(* A recording ends with its call, if it was begun in it.                  *)

RecordingOf(u) ==
    recording[u] # 0 => \/ recording[u] \in lost[u] \/ belated[u]
                        \/ \E w \in DOMAIN sessions[u] : sessions[u][w].call = recording[u]

RecordingKept == \A u \in Users : RecordingOf(u)

\* What a step may do: it ends the recording, or keeps the session's call, or
\* counts it as lost.
LEMMA RecordingFrame ==
    ASSUME RecordingKept, SessionsTyped, NEW u \in Users, NEW v \in Users, SameBut(u, v),
           \A w \in Users \ {u} : recording'[w] = recording[w], UNCHANGED belated,
           recording'[u] = 0 \/ recording'[u] = recording[u],
           \A w \in Users : lost[w] \subseteq lost'[w],
           \/ recording'[u] = 0
           \/ ~Has(u, v)
           \/ Has(u, v)' /\ sessions'[u][v].call = sessions[u][v].call
           \/ sessions[u][v].call \in lost'[u]
    PROVE  RecordingKept'
<1>1. ASSUME NEW w \in Users \ {u} PROVE RecordingOf(w)'
  BY DEF RecordingKept, RecordingOf, SameBut, SameSession, SessionsTyped
<1>2. CASE recording'[u] = 0
  BY <1>1, <1>2 DEF RecordingKept, RecordingOf
<1>3. CASE recording'[u] = recording[u] /\ recording[u] # 0
  <2>1. ASSUME recording[u] \in lost[u] \/ belated[u] PROVE RecordingOf(u)'
    BY <1>3, <2>1 DEF RecordingOf
  <2>2. ASSUME NEW w \in DOMAIN sessions[u], sessions[u][w].call = recording[u], w # v
        PROVE  RecordingOf(u)'
    <3>1. w \in Users
      BY DEF SessionsTyped
    <3>2. w \in DOMAIN sessions'[u] /\ sessions'[u][w] = sessions[u][w]
      BY <2>2, <3>1 DEF SameBut, SameSession
    <3> QED
      BY <1>3, <2>2, <3>2 DEF RecordingOf
  <2>3. ASSUME Has(u, v), sessions[u][v].call = recording[u] PROVE RecordingOf(u)'
    BY <1>3, <2>3 DEF RecordingOf, Has
  <2>4. \/ recording[u] \in lost[u] \/ belated[u]
        \/ \E w \in DOMAIN sessions[u] : sessions[u][w].call = recording[u]
    BY <1>3 DEF RecordingKept, RecordingOf
  <2>5. RecordingOf(u)'
    BY <2>1, <2>2, <2>3, <2>4 DEF Has
  <2> QED
    BY <1>1, <2>5 DEF RecordingKept
<1> QED
  BY <1>2, <1>3

LEMMA RecordingSame ==
    ASSUME RecordingKept, UNCHANGED <<sessions, recording, belated>>,
           \A w \in Users : lost[w] \subseteq lost'[w]
    PROVE  RecordingKept'
BY DEF RecordingKept, RecordingOf

\* A session that a window message ends has failed.
LEMMA OverIsFailed ==
    ASSUME CallTyped, NEW u \in Users, NEW v \in Users, OnSessionState(u, v), IsOver(u, v)
    PROVE  sessions[u][v].state = "Failed"
<1>1. sessions[u][v] \in Session
  BY DEF IsOver, Has, CallTyped, SessionsTyped, SessionOK
<1>2. sessions[u][v].state \in Live \cup {"Failed"}
  BY <1>1 DEF Session
<1>3. Head(posted[u]).kind \in {"Disconnected", "Failed", "Closed"}
  BY DEF OnSessionState, Signalled
<1> QED
  BY <1>2, <1>3 DEF IsOver, Live

\* WebRTC's thread changes one session, and not its call; what it has to
\* announce only when it announces it.
LEMMA RtcEffect ==
    ASSUME CallTyped, NEW u \in Users, NEW v \in Users, Rtc(u, v)
    PROVE  /\ SameBut(u, v) /\ Has(u, v) /\ Has(u, v)'
           /\ sessions'[u][v].call = sessions[u][v].call
           /\ \/ sessions'[u][v].toSend = sessions[u][v].toSend
              \/ AnnounceLocalDescription(u, v) /\ sessions'[u][v].toSend = "none"
<1>1. Has(u, v)
  BY DEF Rtc, AnnounceLocalDescription, OnIceCandidate, OnPeerConnectionState, Connected, Broken
<1>2. SessionOK(u, sessions[u][v])
  BY <1>1 DEF CallTyped, SessionsTyped, Has
<1>3. ASSUME NEW s, SessionOK(u, s), s.call = sessions[u][v].call,
             sessions' = [sessions EXCEPT ![u][v] = s]
      PROVE  /\ SameBut(u, v) /\ Has(u, v)'
             /\ sessions'[u][v] = s /\ sessions'[u][v].call = sessions[u][v].call
  BY <1>1, <1>3, ChangeEffect, ZenonT(60) DEF CallTyped, Has
<1>4. CASE AnnounceLocalDescription(u, v)
  <2> DEFINE s == [sessions[u][v] EXCEPT !.toSend = "none"]
  <2>1. sessions' = [sessions EXCEPT ![u][v] = s]
    BY <1>4 DEF AnnounceLocalDescription
  <2>2. SessionOK(u, s) /\ s.call = sessions[u][v].call
    BY <1>2, SessionChanges
  <2>3. s.toSend = "none"
    BY <1>2 DEF SessionOK, Session
  <2> HIDE DEF s
  <2> QED
    BY <1>1, <1>3, <1>4, <2>1, <2>2, <2>3
<1>5. CASE OnIceCandidate(u, v)
  <2> DEFINE s == [sessions[u][v] EXCEPT !.ice = FALSE]
  <2>1. sessions' = [sessions EXCEPT ![u][v] = s] /\ sessions[u][v].toSend = "none"
    BY <1>5 DEF OnIceCandidate
  <2>2. SessionOK(u, s) /\ s.call = sessions[u][v].call /\ s.toSend = sessions[u][v].toSend
    BY <1>2, SessionChanges
  <2> HIDE DEF s
  <2> QED
    BY <1>1, <1>3, <2>1, <2>2
<1>6. CASE OnPeerConnectionState(u, v)
  <2>1. PICK t \in {"Connected", "Disconnected", "Failed"} :
           sessions' = [sessions EXCEPT ![u][v] = [sessions[u][v] EXCEPT !.state = t]]
    BY <1>6 DEF OnPeerConnectionState, Connected, Broken
  <2> DEFINE s == [sessions[u][v] EXCEPT !.state = t]
  <2>3. t \in Live \cup {"Failed"}
    BY DEF Live
  <2>2. SessionOK(u, s) /\ s.call = sessions[u][v].call /\ s.toSend = sessions[u][v].toSend
    BY <1>2, <2>3, SessionChanges
  <2>4. sessions' = [sessions EXCEPT ![u][v] = s]
    BY <2>1
  <2> HIDE DEF s
  <2> QED
    BY <1>1, <1>3, <2>2, <2>4
<1> QED
  BY <1>4, <1>5, <1>6 DEF Rtc

LEMMA RecordingStep ==
    ASSUME CallTyped, FileTyped, RecordingKept, [Next]_vars
    PROVE  RecordingKept'
<1> USE DEF CallTyped, fileVars
<1>1. CASE UNCHANGED vars
  BY <1>1, RecordingSame DEF vars, historyVars, dialogVars
<1>2. ASSUME NEW u \in Users, NEW v \in Users, StartSelectedSession(u, v) PROVE RecordingKept'
  <2>1. u # v /\ UNCHANGED <<recording, belated, lost>>
    BY <1>2, TypedCalling DEF StartSelectedSession
  <2>2. CASE CallRefused(u, v)
    BY <2>1, <2>2, RecordingSame DEF CallRefused
  <2>3. CASE CallBegun(u, v)
    <3>1. SameBut(u, v)
      BY <1>2, <2>1, <2>3, TypedCalling, NewIsSession, PutEffect DEF CallBegun
    <3> QED
      BY <2>1, <2>3, <3>1, RecordingFrame DEF CallBegun, DialogTyped
  <2> QED
    BY <1>2, <2>2, <2>3 DEF StartSelectedSession
<1>3. ASSUME NEW u \in Users, OnBnClickedHangup(u) \/ OnBnClickedKeyboardControl(u)
      PROVE  RecordingKept'
  BY <1>3, RecordingSame DEF OnBnClickedHangup, OnBnClickedKeyboardControl, historyVars
<1>4. ASSUME NEW u \in Users, OnBnClickedRecord(u) PROVE RecordingKept'
  <2>1. UNCHANGED <<sessions, belated, lost>>
    BY <1>4 DEF OnBnClickedRecord, historyVars
  <2>2. \A w \in Users : recording'[w] \in {0, recording[w]}
    BY <1>4 DEF OnBnClickedRecord, DialogTyped
  <2> QED
    BY <2>1, <2>2 DEF RecordingKept, RecordingOf
<1>12. ASSUME NEW u \in Users, FileDialogAnswered(u), ~UNCHANGED <<recording, belated>>
       PROVE  RecordingKept'
  <2>1. UNCHANGED <<sessions, lost>>
    BY <1>12 DEF FileDialogAnswered, historyVars
  <2>2. \A w \in Users \ {u} : recording'[w] = recording[w] /\ belated'[w] = belated[w]
    BY <1>12 DEF FileDialogAnswered, DialogTyped, FileTyped
  <2>3. /\ recording'[u] = choosing[u]
        /\ belated'[u] <=> \A v \in DOMAIN sessions[u] : sessions[u][v].call # choosing[u]
    BY <1>12 DEF FileDialogAnswered, DialogTyped, FileTyped
  <2>4. RecordingOf(u)'
    BY <2>1, <2>3 DEF RecordingOf
  <2> QED
    BY <2>1, <2>2, <2>4 DEF RecordingKept, RecordingOf
<1>13. ASSUME NEW u \in Users, FileDialogAnswered(u) PROVE RecordingKept'
  BY <1>12, <1>13, RecordingSame DEF FileDialogAnswered, historyVars
<1>5. ASSUME NEW u \in Users, FinishHangup(u) PROVE RecordingKept'
  <2>1. PICK v \in Users : v = active[u]
    BY <1>5, TypedFinish
  <2>2. SameBut(u, v)
    BY <1>5, <2>1, RemoveEffect DEF FinishHangup
  <2> QED
    BY <1>5, <2>2, RecordingFrame DEF FinishHangup, DialogTyped
<1>6. ASSUME NEW u \in Users, NEW v \in Users, OnOffer(u, v) PROVE RecordingKept'
  <2>1. u # v /\ Head(posted[u]).call \in Call /\ UNCHANGED <<recording, belated>>
    BY <1>6, SignalledEffect DEF OnOffer
  <2>2. CASE OfferDropped(u, v)
    BY <2>1, <2>2, RecordingSame DEF OfferDropped, DialogTyped
  <2>3. CASE OfferGivenUp(u, v)
    <3>1. SameBut(u, v)
      BY <2>3, RemoveEffect DEF OfferGivenUp
    <3>2. /\ \A w \in Users : lost[w] \subseteq lost'[w]
          /\ Has(u, v) => sessions[u][v].call \in lost'[u]
      BY <2>3 DEF OfferGivenUp, DialogTyped
    <3> QED
      BY <2>1, <3>1, <3>2, RecordingFrame
  <2>4. CASE OfferApplied(u, v)
    <3> DEFINE c == Head(posted[u]).call
               s == IF Has(u, v) THEN sessions[u][v] ELSE NewSession(u, c)
               t == [s EXCEPT !.peer = c, !.toSend = "answer", !.state = "Connecting"]
    <3>1. PutSession(u, v, t) /\ lost' = lost
      BY <2>4 DEF OfferApplied
    <3>2. SessionOK(u, s)
      BY <2>1, NewIsSession DEF SessionsTyped, Has
    <3> HIDE DEF s
    <3>5. SessionOK(u, t) /\ t.call = s.call
      BY <2>1, <3>2, AnsweringIsSession, ZenonT(60)
    <3> HIDE DEF t
    <3>3. SessionOK(u, t) /\ (Has(u, v) => t.call = sessions[u][v].call)
      BY <3>5 DEF s
    <3>4. SameBut(u, v) /\ Has(u, v)' /\ sessions'[u][v] = t
      BY <2>1, <3>1, <3>3, PutEffect DEF Has
    <3> QED
      BY <2>1, <3>1, <3>3, <3>4, RecordingFrame
  <2> QED
    BY <1>6, <2>2, <2>3, <2>4 DEF OnOffer
<1>7. ASSUME NEW u \in Users, NEW v \in Users, OnAnswer(u, v) \/ OnCandidate(u, v) PROVE RecordingKept'
  <2> DEFINE t == [sessions[u][v] EXCEPT !.peer = Head(posted[u]).call]
  <2>1. UNCHANGED <<recording, belated, lost>>
    BY <1>7 DEF OnAnswer, OnCandidate, historyVars
  <2>2. \/ sessions' = sessions
        \/ OnAnswer(u, v) /\ Has(u, v) /\ sessions' = [sessions EXCEPT ![u][v] = t]
    BY <1>7 DEF OnAnswer, OnCandidate
  <2>3. CASE OnAnswer(u, v) /\ Has(u, v) /\ sessions' = [sessions EXCEPT ![u][v] = t]
    <3>1. Head(posted[u]).call \in Call
      BY <2>3, SignalledEffect DEF OnAnswer
    <3>2. SessionOK(u, t) /\ t.call = sessions[u][v].call
      BY <2>3, <3>1, SessionChanges, ZenonT(60) DEF SessionsTyped, Has
    <3> HIDE DEF t
    <3>3. SameBut(u, v) /\ Has(u, v)' /\ sessions'[u][v] = t
      BY <2>3, <3>2, ChangeEffect DEF Has
    <3> QED
      BY <2>1, <3>2, <3>3, RecordingFrame
  <2> QED
    BY <2>1, <2>2, <2>3, RecordingSame
<1>8. ASSUME NEW u \in Users, NEW v \in Users, OnHangup(u, v) PROVE RecordingKept'
  <2>1. SameBut(u, v)
    BY <1>8, RemoveEffect DEF OnHangup
  <2> QED
    BY <1>8, <2>1, RecordingFrame DEF OnHangup, DialogTyped
<1>9. ASSUME NEW u \in Users, NEW v \in Users, OnSessionState(u, v) PROVE RecordingKept'
  <2>1. UNCHANGED <<recording, belated>>
    BY <1>9 DEF OnSessionState
  <2>2. CASE IsOver(u, v)
    <3>1. SameBut(u, v)
      BY <1>9, <2>2, RemoveEffect DEF OnSessionState
    <3>2. sessions[u][v].state = "Failed"
      BY <1>9, <2>2, OverIsFailed
    <3>3. /\ \A w \in Users : lost[w] \subseteq lost'[w]
          /\ sessions[u][v].call \in lost'[u]
      BY <1>9, <2>2, <3>2 DEF OnSessionState, DialogTyped
    <3> QED
      BY <2>1, <3>1, <3>3, RecordingFrame
  <2>3. CASE ~IsOver(u, v)
    BY <1>9, <2>1, <2>3, RecordingSame DEF OnSessionState
  <2> QED
    BY <2>2, <2>3
<1>10. ASSUME NEW u \in Users, NEW v \in Users, Rtc(u, v) PROVE RecordingKept'
  <2>1. UNCHANGED <<recording, belated, lost>>
    BY <1>10 DEF Rtc, AnnounceLocalDescription, OnIceCandidate, OnPeerConnectionState,
                 Connected, Broken, dialogVars, historyVars
  <2>2. SameBut(u, v) /\ Has(u, v)' /\ sessions'[u][v].call = sessions[u][v].call
    BY <1>10, RtcEffect
  <2> QED
    BY <2>1, <2>2, RecordingFrame
<1>11. ASSUME NEW u \in Users, NEW v \in Users, Deliver(u, v) PROVE RecordingKept'
  BY <1>11, RecordingSame DEF Deliver, dialogVars, historyVars
<1> QED
  BY <1>1, <1>2, <1>3, <1>4, <1>5, <1>6, <1>7, <1>8, <1>9, <1>10, <1>11,
     <1>13
  DEF Next, Button, Dispatch

-----------------------------------------------------------------------------
(* The offers and hangups of one user in a queue of messages.              *)

Marks(s, p, kind) == {i \in DOMAIN s : s[i].kind = kind /\ s[i].from = p}
Holds(s, p, kind) == Marks(s, p, kind) # {}
OfferCalls(s, p) == {s[i].call : i \in Marks(s, p, "offer")}

\* At most one offer, and no hangup before it.
Tidy(s, p) ==
    /\ \A i, j \in Marks(s, p, "offer") : i = j
    /\ \A i \in Marks(s, p, "offer"), j \in Marks(s, p, "hangup") : i < j

IsOf(m, p, kind) == m.kind = kind /\ m.from = p

\* A message comes last.
LEMMA AppendedMarks ==
    ASSUME NEW S, NEW s \in Seq(S), NEW m \in S, NEW p
    PROVE  LET t == Append(s, m)
           IN  /\ OfferCalls(t, p) = OfferCalls(s, p)
                                     \cup (IF IsOf(m, p, "offer") THEN {m.call} ELSE {})
               /\ Holds(t, p, "hangup") <=> Holds(s, p, "hangup") \/ IsOf(m, p, "hangup")
               /\ Tidy(s, p) /\ (IsOf(m, p, "offer") => OfferCalls(s, p) = {} /\ ~Holds(s, p, "hangup"))
                  => Tidy(t, p)
<1> DEFINE t == Append(s, m)
           n == Len(s) + 1
<1>1. Len(s) \in Nat /\ DOMAIN s = 1..Len(s)
  BY LenProperties
<1>2. DOMAIN t = 1..n /\ t[n] = m /\ \A i \in 1..Len(s) : t[i] = s[i]
  BY <1>1, AppendProperties
<1> HIDE DEF t
<1>3. \A kind : Marks(t, p, kind) = Marks(s, p, kind) \cup (IF IsOf(m, p, kind) THEN {n} ELSE {})
  <2> SUFFICES ASSUME NEW kind, NEW i
               PROVE  i \in Marks(t, p, kind)
                      <=> i \in Marks(s, p, kind) \/ (IsOf(m, p, kind) /\ i = n)
    OBVIOUS
  <2>1. CASE i \in 1..Len(s)
    BY <1>1, <1>2, <2>1 DEF Marks, IsOf
  <2>2. CASE i \notin 1..Len(s)
    BY <1>1, <1>2, <2>2 DEF Marks, IsOf
  <2> QED
    BY <2>1, <2>2
<1>4. \A kind : \A i \in Marks(s, p, kind) : i \in Nat /\ i < n /\ t[i] = s[i]
  BY <1>1, <1>2 DEF Marks
<1>5. OfferCalls(t, p) = OfferCalls(s, p) \cup (IF IsOf(m, p, "offer") THEN {m.call} ELSE {})
  BY <1>2, <1>3, <1>4 DEF OfferCalls
<1>6. Holds(t, p, "hangup") <=> Holds(s, p, "hangup") \/ IsOf(m, p, "hangup")
  BY <1>3 DEF Holds
<1>7. ASSUME Tidy(s, p), IsOf(m, p, "offer") => OfferCalls(s, p) = {} /\ ~Holds(s, p, "hangup")
      PROVE  Tidy(t, p)
  <2>1. IsOf(m, p, "offer") => Marks(s, p, "offer") = {} /\ Marks(s, p, "hangup") = {}
    BY <1>7 DEF OfferCalls, Holds
  <2>2. ~(IsOf(m, p, "offer") /\ IsOf(m, p, "hangup"))
    BY DEF IsOf
  <2> QED
    BY <1>1, <1>3, <1>4, <1>7, <2>1, <2>2 DEF Tidy
<1> QED
  BY <1>5, <1>6, <1>7 DEF t

\* The first message is taken.
LEMMA TakenMarks ==
    ASSUME NEW S, NEW s \in Seq(S), s # <<>>, NEW p
    PROVE  LET m == Head(s)
               t == Tail(s)
           IN  /\ OfferCalls(s, p) = OfferCalls(t, p)
                                     \cup (IF IsOf(m, p, "offer") THEN {m.call} ELSE {})
               /\ Holds(s, p, "hangup") <=> Holds(t, p, "hangup") \/ IsOf(m, p, "hangup")
               /\ Tidy(s, p) => /\ Tidy(t, p)
                                /\ IsOf(m, p, "offer") => OfferCalls(t, p) = {}
                                /\ IsOf(m, p, "hangup") => OfferCalls(s, p) = {}
<1> DEFINE m == Head(s)
           t == Tail(s)
<1>1. Len(s) \in Nat /\ Len(s) # 0 /\ DOMAIN s = 1..Len(s)
  BY LenProperties, EmptySeq
<1>2. /\ t \in Seq(S) /\ Len(t) = Len(s) - 1 /\ DOMAIN t = 1..(Len(s) - 1)
      /\ m = s[1] /\ \A i \in 1..(Len(s) - 1) : t[i] = s[i + 1]
  BY <1>1, HeadTailProperties, LenProperties
<1> HIDE DEF m, t
<1>3. \A kind : \A i \in Nat : i + 1 \in Marks(s, p, kind) /\ i # 0 <=> i \in Marks(t, p, kind)
  BY <1>1, <1>2 DEF Marks
<1>4. \A kind : 1 \in Marks(s, p, kind) <=> IsOf(m, p, kind)
  BY <1>1, <1>2 DEF Marks, IsOf
<1>5. \A kind : /\ \A i \in Marks(s, p, kind) : i = 1 \/ (i \in Nat /\ i > 1 /\ i - 1 \in Marks(t, p, kind))
                /\ \A i \in Marks(t, p, kind) : i \in Nat /\ i > 0 /\ i + 1 \in Marks(s, p, kind) /\ t[i] = s[i + 1]
  <2>1. \A kind : \A i \in Marks(s, p, kind) : i \in 1..Len(s)
    BY <1>1 DEF Marks
  <2>2. \A kind : \A i \in Marks(t, p, kind) : i \in 1..(Len(s) - 1)
    BY <1>2 DEF Marks
  <2>3. \A kind : \A i \in Marks(s, p, kind) : i = 1 \/ (i \in Nat /\ i > 1 /\ i - 1 \in Marks(t, p, kind))
    BY <1>1, <1>3, <2>1
  <2>4. \A kind : \A i \in Marks(t, p, kind) : i \in Nat /\ i > 0 /\ i + 1 \in Marks(s, p, kind) /\ t[i] = s[i + 1]
    BY <1>1, <1>2, <1>3, <2>2
  <2> QED
    BY <2>3, <2>4
<1>6. OfferCalls(s, p) = OfferCalls(t, p) \cup (IF IsOf(m, p, "offer") THEN {m.call} ELSE {})
  <2>1. ASSUME NEW i \in Marks(s, p, "offer")
        PROVE  s[i].call \in OfferCalls(t, p) \cup (IF IsOf(m, p, "offer") THEN {m.call} ELSE {})
    <3>1. CASE i = 1
      BY <1>2, <1>4, <3>1
    <3>2. CASE i # 1
      <4>1. i - 1 \in Marks(t, p, "offer") /\ i \in Nat
        BY <1>5, <3>2
      <4>2. t[i - 1] = s[(i - 1) + 1] /\ (i - 1) + 1 = i
        BY <1>5, <4>1
      <4> QED
        BY <4>1, <4>2 DEF OfferCalls
    <3> QED
      BY <3>1, <3>2
  <2>2. ASSUME NEW i \in Marks(t, p, "offer") PROVE t[i].call \in OfferCalls(s, p)
    BY <1>5 DEF OfferCalls
  <2>3. IsOf(m, p, "offer") => m.call \in OfferCalls(s, p)
    BY <1>2, <1>4 DEF OfferCalls
  <2> QED
    BY <2>1, <2>2, <2>3 DEF OfferCalls
<1>7. Holds(s, p, "hangup") <=> Holds(t, p, "hangup") \/ IsOf(m, p, "hangup")
  BY <1>4, <1>5 DEF Holds
<1>8. ASSUME Tidy(s, p)
      PROVE  /\ Tidy(t, p)
             /\ IsOf(m, p, "offer") => OfferCalls(t, p) = {}
             /\ IsOf(m, p, "hangup") => OfferCalls(s, p) = {}
  <2>1. Tidy(t, p)
    <3>1. \A i, j \in Marks(t, p, "offer") : i = j
      <4> TAKE i, j \in Marks(t, p, "offer")
      <4>1. i + 1 = j + 1 /\ i \in Nat /\ j \in Nat
        BY <1>5, <1>8 DEF Tidy
      <4> QED
        BY <4>1
    <3>2. \A i \in Marks(t, p, "offer"), j \in Marks(t, p, "hangup") : i < j
      <4> TAKE i \in Marks(t, p, "offer"), j \in Marks(t, p, "hangup")
      <4>1. i + 1 < j + 1 /\ i \in Nat /\ j \in Nat
        BY <1>5, <1>8 DEF Tidy
      <4> QED
        BY <4>1
    <3> QED
      BY <3>1, <3>2 DEF Tidy
  <2>2. ASSUME IsOf(m, p, "offer") PROVE OfferCalls(t, p) = {}
    <3>1. \A i \in Marks(t, p, "offer") : i + 1 = 1 /\ i \in Nat /\ i > 0
      BY <1>4, <1>5, <1>8, <2>2 DEF Tidy
    <3>2. Marks(t, p, "offer") = {}
      BY <3>1
    <3> QED
      BY <3>2 DEF OfferCalls
  <2>3. ASSUME IsOf(m, p, "hangup") PROVE OfferCalls(s, p) = {}
    <3>1. \A i \in Marks(s, p, "offer") : i < 1 /\ (i = 1 \/ (i \in Nat /\ i > 1))
      BY <1>4, <1>5, <1>8, <2>3 DEF Tidy
    <3>2. Marks(s, p, "offer") = {}
      BY <3>1
    <3> QED
      BY <3>2 DEF OfferCalls
  <2> QED
    BY <2>1, <2>2, <2>3
<1> QED
  BY <1>6, <1>7, <1>8 DEF m, t

-----------------------------------------------------------------------------
(* What is on its way from p to q: on the wire, and posted at q's.         *)

Offered(p, q) == OfferCalls(posted[q], p) \cup OfferCalls(wire[p][q], p)
HungUp(p, q) == Holds(posted[q], p, "hangup") \/ Holds(wire[p][q], p, "hangup")

\* At most one offer, and no hangup before it.
TidyWay(p, q) ==
    /\ Tidy(posted[q], p) /\ Tidy(wire[p][q], p)
    /\ OfferCalls(posted[q], p) # {} \/ Holds(posted[q], p, "hangup")
       => OfferCalls(wire[p][q], p) = {}

SameMarks(s, t, p) ==
    /\ OfferCalls(t, p) = OfferCalls(s, p)
    /\ Holds(t, p, "hangup") <=> Holds(s, p, "hangup")
    /\ Tidy(s, p) => Tidy(t, p)

SameWay(p, q) ==
    /\ Offered(p, q)' = Offered(p, q)
    /\ HungUp(p, q)' <=> HungUp(p, q)
    /\ TidyWay(p, q) => TidyWay(p, q)'

LEMMA QuietWay ==
    ASSUME NEW p \in Users, NEW q \in Users, SameMarks(posted[q], posted'[q], p),
           wire'[p][q] = wire[p][q]
    PROVE  SameWay(p, q)
BY DEF SameMarks, SameWay, Offered, HungUp, TidyWay

\* A notice, or another's message, that comes last or is taken.
LEMMA OthersMarks ==
    ASSUME NEW S, NEW s \in Seq(S), NEW m \in S, NEW p,
           ~IsOf(m, p, "offer") /\ ~IsOf(m, p, "hangup")
    PROVE  SameMarks(s, Append(s, m), p)
BY AppendedMarks, ZenonT(60) DEF SameMarks

LEMMA OthersTaken ==
    ASSUME NEW S, NEW s \in Seq(S), s # <<>>, NEW p,
           ~IsOf(Head(s), p, "offer") /\ ~IsOf(Head(s), p, "hangup")
    PROVE  SameMarks(s, Tail(s), p)
<1> DEFINE m == Head(s)
           t == Tail(s)
<1>1. /\ OfferCalls(s, p) = OfferCalls(t, p)
                            \cup (IF IsOf(m, p, "offer") THEN {m.call} ELSE {})
      /\ Holds(s, p, "hangup") <=> Holds(t, p, "hangup") \/ IsOf(m, p, "hangup")
      /\ Tidy(s, p) => Tidy(t, p)
  BY TakenMarks
<1> HIDE DEF t
<1> QED
  BY <1>1 DEF SameMarks, t

LEMMA SentWay ==
    ASSUME CallTyped, NEW u \in Users, NEW v \in Users, u # v, NEW kind, NEW call,
           [kind |-> kind, from |-> u, call |-> call] \in Signal,
           Send(u, v, kind, call), UNCHANGED posted
    PROVE  /\ Offered(u, v)' = Offered(u, v) \cup (IF kind = "offer" THEN {call} ELSE {})
           /\ HungUp(u, v)' <=> HungUp(u, v) \/ kind = "hangup"
           /\ TidyWay(u, v) /\ (kind = "offer" => Offered(u, v) = {} /\ ~HungUp(u, v))
              => TidyWay(u, v)'
           /\ \A p, q \in Users : p # u \/ q # v => SameWay(p, q)
<1> DEFINE m == [kind |-> kind, from |-> u, call |-> call]
<1>1. /\ wire'[u][v] = Append(wire[u][v], m) /\ posted' = posted
      /\ \A p, q \in Users : p # u \/ q # v => wire'[p][q] = wire[p][q]
  BY SendEffect DEF CallTyped
<1>2. wire[u][v] \in Seq(From(u)) /\ m \in From(u)
  BY DEF CallTyped, NetTyped, From
<1>3. /\ IsOf(m, u, "offer") <=> kind = "offer"
      /\ IsOf(m, u, "hangup") <=> kind = "hangup"
      /\ m.call = call
  BY DEF IsOf
<1> HIDE DEF m
<1> DEFINE t == Append(wire[u][v], m)
<1>4. /\ OfferCalls(t, u) = OfferCalls(wire[u][v], u) \cup (IF kind = "offer" THEN {call} ELSE {})
      /\ Holds(t, u, "hangup") <=> Holds(wire[u][v], u, "hangup") \/ kind = "hangup"
      /\ Tidy(wire[u][v], u) /\ (kind = "offer" => OfferCalls(wire[u][v], u) = {}
                                                   /\ ~Holds(wire[u][v], u, "hangup"))
         => Tidy(t, u)
  BY <1>2, <1>3, AppendedMarks
<1> HIDE DEF t
<1>5. wire'[u][v] = t
  BY <1>1 DEF t
<1>6. /\ Offered(u, v)' = Offered(u, v) \cup (IF kind = "offer" THEN {call} ELSE {})
      /\ HungUp(u, v)' <=> HungUp(u, v) \/ kind = "hangup"
  BY <1>1, <1>4, <1>5 DEF Offered, HungUp
<1>7. TidyWay(u, v) /\ (kind = "offer" => Offered(u, v) = {} /\ ~HungUp(u, v)) => TidyWay(u, v)'
  BY <1>1, <1>4, <1>5 DEF Offered, HungUp, TidyWay
<1>8. ASSUME NEW p \in Users, NEW q \in Users, p # u \/ q # v PROVE SameWay(p, q)
  BY <1>1, <1>8 DEF SameWay, Offered, HungUp, TidyWay
<1> QED
  BY <1>6, <1>7, <1>8

LEMMA PostedWay ==
    ASSUME CallTyped, NEW u \in Users, NEW n \in Notice, n.from # u, UNCHANGED wire,
           posted'[u] = posted[u] \/ posted'[u] = Append(posted[u], n),
           \A w \in Users \ {u} : posted'[w] = posted[w]
    PROVE  \A p, q \in Users : SameWay(p, q)
<1> TAKE p, q \in Users
<1>1. posted[u] \in Seq(FromOthers(u)) /\ n \in FromOthers(u)
  BY DEF CallTyped, NetTyped, FromOthers
<1>2. ~IsOf(n, p, "offer") /\ ~IsOf(n, p, "hangup")
  BY DEF IsOf, Notice
<1>3. SameMarks(posted[u], Append(posted[u], n), p)
  BY <1>1, <1>2, OthersMarks
<1>4. SameMarks(posted[q], posted'[q], p)
  BY <1>3 DEF SameMarks
<1> QED
  BY <1>4, QuietWay

LEMMA DeliveredWay ==
    ASSUME CallTyped, NEW u \in Users, NEW v \in Users, Deliver(u, v)
    PROVE  \A p, q \in Users : SameWay(p, q)
<1> DEFINE m == Head(wire[u][v])
<1>1. /\ u # v /\ wire[u][v] # <<>> /\ m \in From(u)
      /\ wire'[u][v] = Tail(wire[u][v]) /\ posted'[v] = Append(posted[v], m)
      /\ \A p, q \in Users : p # u \/ q # v => wire'[p][q] = wire[p][q]
      /\ \A w \in Users \ {v} : posted'[w] = posted[w]
  BY DeliverEffect DEF CallTyped
<1>2. posted[v] \in Seq(FromOthers(v)) /\ wire[u][v] \in Seq(From(u))
  BY DEF CallTyped, NetTyped
<1>3. m \in FromOthers(v) /\ m.from = u
  BY <1>1 DEF From, FromOthers
<1> HIDE DEF m
<1>4. ASSUME NEW p \in Users, NEW q \in Users, p # u \/ q # v PROVE SameWay(p, q)
  <2>1. CASE q # v
    BY <1>1, <1>4, <2>1, QuietWay DEF SameMarks
  <2>2. CASE q = v /\ p # u
    <3>1. ~IsOf(m, p, "offer") /\ ~IsOf(m, p, "hangup")
      BY <1>3, <2>2 DEF IsOf
    <3>2. SameMarks(posted[v], Append(posted[v], m), p)
      BY <1>2, <1>3, <3>1, OthersMarks
    <3> QED
      BY <1>1, <2>2, <3>2, QuietWay
  <2> QED
    BY <1>4, <2>1, <2>2
<1>5. SameWay(u, v)
  <2> DEFINE a == posted[v]
             b == wire[u][v]
             c == Append(a, m)
             d == Tail(b)
  <2>1. /\ OfferCalls(c, u) = OfferCalls(a, u) \cup (IF IsOf(m, u, "offer") THEN {m.call} ELSE {})
        /\ Holds(c, u, "hangup") <=> Holds(a, u, "hangup") \/ IsOf(m, u, "hangup")
        /\ Tidy(a, u) /\ (IsOf(m, u, "offer") => OfferCalls(a, u) = {} /\ ~Holds(a, u, "hangup"))
           => Tidy(c, u)
    BY <1>2, <1>3, AppendedMarks
  <2>2. /\ OfferCalls(b, u) = OfferCalls(d, u) \cup (IF IsOf(m, u, "offer") THEN {m.call} ELSE {})
        /\ Holds(b, u, "hangup") <=> Holds(d, u, "hangup") \/ IsOf(m, u, "hangup")
        /\ Tidy(b, u) => /\ Tidy(d, u)
                         /\ IsOf(m, u, "offer") => OfferCalls(d, u) = {}
                         /\ IsOf(m, u, "hangup") => OfferCalls(b, u) = {}
    BY <1>1, <1>2, TakenMarks DEF m
  <2>3. posted'[v] = c /\ wire'[u][v] = d
    BY <1>1
  <2> HIDE DEF c, d
  <2>4. Offered(u, v)' = Offered(u, v) /\ (HungUp(u, v)' <=> HungUp(u, v))
    BY <2>1, <2>2, <2>3 DEF Offered, HungUp
  <2>5. ASSUME TidyWay(u, v) PROVE TidyWay(u, v)'
    <3>1. Tidy(a, u) /\ Tidy(b, u)
          /\ (OfferCalls(a, u) # {} \/ Holds(a, u, "hangup") => OfferCalls(b, u) = {})
      BY <2>5 DEF TidyWay
    <3>2. IsOf(m, u, "offer") => OfferCalls(b, u) # {}
      BY <2>2
    <3>3. Tidy(c, u)
      BY <2>1, <3>1, <3>2
    <3>4. Tidy(d, u)
      BY <2>2, <3>1
    <3>5. OfferCalls(c, u) # {} \/ Holds(c, u, "hangup") => OfferCalls(d, u) = {}
      BY <2>1, <2>2, <3>1
    <3> QED
      BY <2>3, <3>3, <3>4, <3>5 DEF TidyWay
  <2> QED
    BY <2>4, <2>5 DEF SameWay
<1> QED
  BY <1>4, <1>5

\* A message of v's is taken, and a notice may be posted.
LEMMA TakenWay ==
    ASSUME CallTyped, NEW u \in Users, NEW v \in Users, NEW kind, Signalled(u, v, kind),
           NEW notice, Take(u, notice), notice = <<>> \/ notice = ClosedNotice(u, v),
           UNCHANGED wire
    PROVE  /\ \A p, q \in Users : p # v \/ q # u => SameWay(p, q)
           /\ kind \notin {"offer", "hangup"} => SameWay(v, u)
           /\ kind = "offer" => /\ Head(posted[u]).call \in Offered(v, u)
                                /\ HungUp(v, u)' <=> HungUp(v, u)
                                /\ TidyWay(v, u) => Offered(v, u)' = {}
           /\ kind = "hangup" => /\ HungUp(v, u)
                                 /\ TidyWay(v, u) => Offered(v, u) = {} /\ Offered(v, u)' = {}
           /\ TidyWay(v, u) => TidyWay(v, u)'
<1> DEFINE s == posted[u]
           m == Head(s)
           t == Tail(s)
<1>1. u # v /\ s # <<>> /\ s \in Seq(FromOthers(u)) /\ m.kind = kind /\ m.from = v
  BY SignalledEffect DEF Signalled
<1>2. PICK n \in Notice : n.from = v /\ (posted'[u] = t \/ posted'[u] = Append(t, n))
  BY <1>1, TakeEffect DEF CallTyped
<1>3. \A w \in Users \ {u} : posted'[w] = posted[w]
  BY <1>1, TakeEffect DEF CallTyped
<1>4. t \in Seq(FromOthers(u)) /\ n \in FromOthers(u)
  BY <1>1, <1>2, HeadTailProperties DEF FromOthers
<1>5. \A p \in Users : ~IsOf(n, p, "offer") /\ ~IsOf(n, p, "hangup")
  BY DEF IsOf, Notice
<1>6. \A p \in Users : SameMarks(t, posted'[u], p)
  <2> TAKE p \in Users
  <2>1. SameMarks(t, Append(t, n), p)
    BY <1>4, <1>5, OthersMarks
  <2>2. SameMarks(t, t, p)
    BY DEF SameMarks
  <2> QED
    BY <1>2, <2>1, <2>2
<1>7. \A p \in Users : \/ IsOf(m, p, "offer") \/ IsOf(m, p, "hangup")
                       \/ SameMarks(s, posted'[u], p)
  <2> TAKE p \in Users
  <2>1. SameMarks(s, t, p) \/ IsOf(m, p, "offer") \/ IsOf(m, p, "hangup")
    BY <1>1, OthersTaken
  <2> QED
    BY <1>6, <2>1 DEF SameMarks
<1>8. /\ OfferCalls(s, v) = OfferCalls(t, v) \cup (IF IsOf(m, v, "offer") THEN {m.call} ELSE {})
      /\ Holds(s, v, "hangup") <=> Holds(t, v, "hangup") \/ IsOf(m, v, "hangup")
      /\ Tidy(s, v) => /\ Tidy(t, v)
                       /\ IsOf(m, v, "offer") => OfferCalls(t, v) = {}
                       /\ IsOf(m, v, "hangup") => OfferCalls(s, v) = {}
  BY <1>1, TakenMarks
<1>9. \A p \in Users : /\ IsOf(m, p, "offer") <=> p = v /\ kind = "offer"
                       /\ IsOf(m, p, "hangup") <=> p = v /\ kind = "hangup"
  BY <1>1 DEF IsOf
<1> HIDE DEF m, t
<1>10. ASSUME NEW p \in Users, NEW q \in Users, p # v \/ q # u \/ kind \notin {"offer", "hangup"}
       PROVE  SameWay(p, q)
  <2>1. SameMarks(posted[q], posted'[q], p)
    <3>1. CASE q = u
      BY <1>7, <1>9, <1>10, <3>1
    <3>2. CASE q # u
      BY <1>3, <3>2 DEF SameMarks
    <3> QED
      BY <3>1, <3>2
  <2> QED
    BY <2>1, QuietWay
<1>11. /\ OfferCalls(posted'[u], v) = OfferCalls(t, v)
       /\ Holds(posted'[u], v, "hangup") <=> Holds(t, v, "hangup")
       /\ Tidy(t, v) => Tidy(posted'[u], v)
  BY <1>6 DEF SameMarks
<1>12. TidyWay(v, u) => TidyWay(v, u)'
  BY <1>8, <1>11 DEF TidyWay
<1>13. ASSUME kind = "offer"
       PROVE  /\ m.call \in Offered(v, u)
              /\ HungUp(v, u)' <=> HungUp(v, u)
              /\ TidyWay(v, u) => Offered(v, u)' = {}
  <2>1. IsOf(m, v, "offer") /\ ~IsOf(m, v, "hangup")
    BY <1>9, <1>13
  <2>2. m.call \in OfferCalls(s, v)
    BY <1>8, <2>1
  <2>3. HungUp(v, u)' <=> HungUp(v, u)
    BY <1>8, <1>11, <2>1 DEF HungUp
  <2>4. TidyWay(v, u) => Offered(v, u)' = {}
    BY <1>8, <1>11, <2>1, <2>2 DEF TidyWay, Offered
  <2> QED
    BY <2>2, <2>3, <2>4 DEF Offered
<1>14. ASSUME kind = "hangup"
       PROVE  /\ HungUp(v, u)
              /\ TidyWay(v, u) => Offered(v, u) = {} /\ Offered(v, u)' = {}
  <2>1. IsOf(m, v, "hangup") /\ ~IsOf(m, v, "offer")
    BY <1>9, <1>14
  <2> QED
    BY <1>8, <1>11, <2>1 DEF HungUp, TidyWay, Offered
<1> QED
  BY <1>10, <1>12, <1>13, <1>14 DEF m

-----------------------------------------------------------------------------
(* Two users between whom no messages have crossed.                        *)

Leaving(p, q) == hanging[p] /\ active[p] = q
Announcing(p, q) == Has(p, q) /\ sessions[p][q].toSend = "offer"
Offering(p, q) == Announcing(p, q) \/ Offered(p, q) # {}
CallOf(p, q) == sessions[p][q].call

\* An offer goes only to who has no session and says nothing of it; it is the
\* sender's own, and has not been announced twice.
OfferAlone(p, q) ==
    /\ Offering(p, q) => ~Has(q, p) /\ ~HungUp(q, p) /\ Offered(q, p) = {}
    /\ Announcing(p, q) => Offered(p, q) = {}
    /\ \A c \in Offered(p, q) : /\ Has(p, q) => CallOf(p, q) = c
                                /\ Has(p, q) \/ HungUp(p, q) \/ c \in lost[p]

\* Who has hung up has no session, or is about to close it; the other hears of
\* it, or has had no session to hear of.
HangupTold(p, q) ==
    /\ HungUp(p, q) => ~Has(p, q) \/ Leaving(p, q)
    /\ Leaving(q, p) => HungUp(q, p) \/ (~Has(p, q) /\ Offered(q, p) = {})

\* The sessions of both are of one call; a session that is alone is being
\* offered or given up, or the other's was lost.
SessionsPaired(p, q) ==
    /\ Has(p, q) /\ Has(q, p) => CallOf(p, q) = CallOf(q, p)
    /\ Has(p, q) /\ ~Has(q, p)
       => Offering(p, q) \/ HungUp(q, p) \/ Leaving(p, q) \/ CallOf(p, q) \in lost[q]

\* After a hangup what is left is being given up.
EndedOrEnding(p, q) ==
    {p, q} \in ended => /\ Has(p, q) => HungUp(q, p) \/ Leaving(p, q)
                        /\ Offered(p, q) # {} => HungUp(p, q)

InStep(p, q) ==
    /\ OfferAlone(p, q) /\ HangupTold(p, q) /\ SessionsPaired(p, q)
    /\ EndedOrEnding(p, q) /\ TidyWay(p, q)

UncrossedInStep ==
    \A p, q \in Users : p # q /\ {p, q} \notin crossed => InStep(p, q)

LEMMA InStepInit == Init => UncrossedInStep
<1> SUFFICES ASSUME Init, NEW p \in Users, NEW q \in Users, p # q PROVE InStep(p, q)
  BY DEF UncrossedInStep
<1>1. posted[q] = <<>> /\ wire[p][q] = <<>> /\ posted[p] = <<>> /\ wire[q][p] = <<>>
      /\ ~hanging[p] /\ ~hanging[q] /\ ~Has(p, q) /\ ~Has(q, p)
  BY DEF Init, Has
<1>2. \A kind : Marks(<<>>, p, kind) = {} /\ Marks(<<>>, q, kind) = {}
  BY DEF Marks
<1>3. Offered(p, q) = {} /\ ~HungUp(p, q) /\ Offered(q, p) = {} /\ ~HungUp(q, p) /\ TidyWay(p, q)
  BY <1>1, <1>2 DEF Offered, HungUp, TidyWay, Tidy, OfferCalls, Holds
<1> QED
  BY <1>1, <1>3 DEF InStep, OfferAlone, HangupTold, SessionsPaired, EndedOrEnding,
                    Offering, Announcing, Leaving

\* A session that keeps its call, and what it has to announce.
AlikeSession(p, q) ==
    /\ Has(p, q)' <=> Has(p, q)
    /\ Has(p, q) => CallOf(p, q)' = CallOf(p, q)
    /\ Announcing(p, q)' <=> Announcing(p, q)

LEMMA SameIsAlike ==
    ASSUME NEW p, NEW q, SameSession(p, q)
    PROVE  AlikeSession(p, q)
BY DEF SameSession, AlikeSession, Has, CallOf, Announcing

\* Who leaves goes on leaving, when no active user changes meanwhile.
LEMMA LeavingKept ==
    ASSUME UNCHANGED hanging, \A w \in Users : hanging[w] => active'[w] = active[w]
    PROVE  \A p, q \in Users : Leaving(p, q)' <=> Leaving(p, q)
BY DEF Leaving

LEMMA InStepSame ==
    ASSUME NEW p \in Users, NEW q \in Users, InStep(p, q),
           AlikeSession(p, q), AlikeSession(q, p), SameWay(p, q), SameWay(q, p),
           Leaving(p, q)' <=> Leaving(p, q), Leaving(q, p)' <=> Leaving(q, p),
           lost[p] \subseteq lost'[p], lost[q] \subseteq lost'[q],
           {p, q} \in ended' => {p, q} \in ended
    PROVE  InStep(p, q)'
<1> USE DEF InStep, AlikeSession, SameWay
<1>1. OfferAlone(p, q)'
  BY DEF OfferAlone, Offering
<1>2. HangupTold(p, q)'
  BY DEF HangupTold
<1>3. SessionsPaired(p, q)'
  BY DEF SessionsPaired, Offering
<1>4. EndedOrEnding(p, q)'
  BY DEF EndedOrEnding
<1> QED
  BY <1>1, <1>2, <1>3, <1>4

\* A step of u's about v: all others stay in step.
LEMMA OthersInStep ==
    ASSUME UncrossedInStep, NEW u \in Users, NEW v \in Users, u # v,
           \A p, q \in Users : p # u \/ q # v => AlikeSession(p, q),
           \A p, q \in Users : p # q /\ {p, q} # {u, v} => SameWay(p, q),
           \A p, q \in Users : {p, q} # {u, v} => (Leaving(p, q)' <=> Leaving(p, q)),
           \A p \in Users : lost[p] \subseteq lost'[p],
           crossed \subseteq crossed', ended' \subseteq ended \cup {{u, v}},
           {u, v} \notin crossed' => InStep(u, v)' /\ InStep(v, u)'
    PROVE  UncrossedInStep'
<1> SUFFICES ASSUME NEW p \in Users, NEW q \in Users, p # q, {p, q} \notin crossed'
             PROVE  InStep(p, q)'
  BY DEF UncrossedInStep
<1>1. CASE {p, q} = {u, v}
  <2>1. (p = u /\ q = v) \/ (p = v /\ q = u)
    BY <1>1
  <2>2. InStep(u, v)' /\ InStep(v, u)'
    BY <1>1
  <2> QED
    BY <2>1, <2>2
<1>2. CASE {p, q} # {u, v}
  <2>1. /\ AlikeSession(p, q) /\ AlikeSession(q, p)
    BY <1>2
  <2>2. {q, p} = {p, q}
    OBVIOUS
  <2>3. SameWay(p, q) /\ SameWay(q, p)
    BY <1>2, <2>2
  <2>4. (Leaving(p, q)' <=> Leaving(p, q)) /\ (Leaving(q, p)' <=> Leaving(q, p))
    BY <1>2, <2>2
  <2>5. InStep(p, q) /\ ({p, q} \in ended' => {p, q} \in ended)
    BY <1>2 DEF UncrossedInStep
  <2> QED
    BY <2>1, <2>3, <2>4, <2>5, InStepSame
<1> QED
  BY <1>1, <1>2

\* A step that changes nothing of this.
LEMMA AllInStep ==
    ASSUME UncrossedInStep,
           \A p, q \in Users : AlikeSession(p, q), \A p, q \in Users : p # q => SameWay(p, q),
           \A p, q \in Users : Leaving(p, q)' <=> Leaving(p, q),
           \A p \in Users : lost[p] \subseteq lost'[p],
           crossed \subseteq crossed', ended' \subseteq ended
    PROVE  UncrossedInStep'
<1> SUFFICES ASSUME NEW p \in Users, NEW q \in Users, p # q, {p, q} \notin crossed'
             PROVE  InStep(p, q)'
  BY DEF UncrossedInStep
<1>1. InStep(p, q) /\ ({p, q} \in ended' => {p, q} \in ended)
  BY DEF UncrossedInStep
<1> QED
  BY <1>1, InStepSame

LEMMA NothingSent ==
    ASSUME UNCHANGED <<posted, wire>>
    PROVE  \A p, q \in Users : SameWay(p, q)
BY DEF SameWay, Offered, HungUp, TidyWay

LEMMA NoSessionChanged ==
    ASSUME UNCHANGED sessions
    PROVE  \A p, q \in Users : AlikeSession(p, q)
BY DEF AlikeSession, Has, CallOf, Announcing

\* Where all is quiet, nothing is offered, hung up or left.
LEMMA QuietMeans ==
    ASSUME CallTyped, NEW u \in Users, NEW v \in Users, Quiet(u, v)
    PROVE  /\ Offered(u, v) = {} /\ Offered(v, u) = {} /\ ~HungUp(u, v) /\ ~HungUp(v, u)
           /\ ~Announcing(u, v) /\ ~Announcing(v, u) /\ ~Leaving(u, v) /\ ~Leaving(v, u)
<1> SUFFICES ASSUME NEW p \in Users, NEW q \in Users, <<p, q>> \in {<<u, v>>, <<v, u>>}
             PROVE  Offered(p, q) = {} /\ ~HungUp(p, q) /\ ~Announcing(p, q) /\ ~Leaving(p, q)
  OBVIOUS
<1>1. /\ wire[p][q] = <<>>
      /\ \A m \in Range(posted[q]) : m \in Signal => m.from # p
      /\ Has(p, q) => sessions[p][q].toSend = "none"
      /\ ~hanging[p] \/ active[p] # q
  BY DEF Quiet
<1>2. ~Announcing(p, q) /\ ~Leaving(p, q)
  BY <1>1 DEF Announcing, Leaving
<1>3. \A kind : Marks(wire[p][q], p, kind) = {}
  BY <1>1 DEF Marks
<1>4. \A kind \in {"offer", "hangup"} : Marks(posted[q], p, kind) = {}
  <2> SUFFICES ASSUME NEW kind \in {"offer", "hangup"}, NEW i \in Marks(posted[q], p, kind)
               PROVE  FALSE
    OBVIOUS
  <2>1. i \in DOMAIN posted[q] /\ posted[q][i].kind = kind /\ posted[q][i].from = p
    BY DEF Marks
  <2>2. posted[q] \in Seq(FromOthers(q))
    BY DEF CallTyped, NetTyped
  <2>3. posted[q][i] \in FromOthers(q)
    BY <2>1, <2>2, ElementOfSeq, LenProperties
  <2>4. posted[q][i] \in Signal
    BY <2>1, <2>3 DEF FromOthers, Notice
  <2> QED
    BY <1>1, <2>1, <2>4 DEF Range
<1>5. Offered(p, q) = {} /\ ~HungUp(p, q)
  BY <1>3, <1>4 DEF Offered, HungUp, OfferCalls, Holds
<1> QED
  BY <1>2, <1>5

\* A call is begun between two who are in step, or have been out of it.
LEMMA StepCalling ==
    ASSUME CallTyped, UncrossedInStep, NEW u \in Users, NEW v \in Users, StartSelectedSession(u, v)
    PROVE  UncrossedInStep'
<1>1. u # v /\ UNCHANGED <<hanging, posted, wire, lost>> /\ ~hanging[u] /\ MakeActive(u, v)
  BY TypedCalling DEF StartSelectedSession, CallRefused, CallBegun, Enabled, Free, netVars
<1>2. \A p, q \in Users : Leaving(p, q)' <=> Leaving(p, q)
  BY <1>1, LeavingKept, ActiveTyped DEF CallTyped
<1>3. \A p, q \in Users : SameWay(p, q)
  BY <1>1, NothingSent
<1>4. CASE CallRefused(u, v)
  BY <1>1, <1>2, <1>3, <1>4, NoSessionChanged, AllInStep DEF CallRefused
<1>5. CASE CallBegun(u, v)
  <2>1. /\ ~Has(u, v) /\ PutSession(u, v, NewSession(u, calls')) /\ ended' = ended \ {{u, v}}
        /\ crossed \subseteq crossed'
        /\ {u, v} \notin crossed' => Quiet(u, v) /\ Released(u, v)
    BY <1>5 DEF CallBegun
  <2>2. calls' \in Call
    BY <1>5, TypedCalling
  <2>3. /\ SameBut(u, v) /\ Has(u, v)' /\ sessions'[u][v] = NewSession(u, calls')
    BY <1>1, <2>1, <2>2, PutEffect, NewIsSession DEF CallTyped, Has
  <2>4. NewSession(u, calls').toSend = "offer"
    BY DEF NewSession
  <2>5. Announcing(u, v)'
    BY <2>3, <2>4 DEF Announcing
  <2>6. \A p, q \in Users : p # u \/ q # v => AlikeSession(p, q)
    BY <2>3, SameIsAlike DEF SameBut
  <2>7. ASSUME {u, v} \notin crossed' PROVE InStep(u, v)' /\ InStep(v, u)'
    <3>1. Quiet(u, v) /\ ~Has(v, u)
      BY <2>1, <2>7 DEF Released
    <3>2. /\ ~Has(v, u)' /\ Offered(u, v)' = {} /\ Offered(v, u)' = {}
          /\ ~HungUp(u, v)' /\ ~HungUp(v, u)' /\ ~Leaving(u, v)' /\ ~Leaving(v, u)'
          /\ ~Announcing(v, u)'
      BY <1>1, <1>2, <1>3, <2>6, <3>1, QuietMeans DEF SameWay, AlikeSession
    <3>3. TidyWay(u, v)' /\ TidyWay(v, u)'
      BY <1>1, <1>3, <2>1, <2>7 DEF UncrossedInStep, InStep, SameWay
    <3>4. {u, v} \notin ended' /\ {v, u} = {u, v}
      BY <2>1
    <3>5. InStep(u, v)'
      BY <2>5, <3>2, <3>3, <3>4
      DEF InStep, OfferAlone, HangupTold, SessionsPaired, EndedOrEnding, Offering
    <3>6. InStep(v, u)'
      BY <3>2, <3>3, <3>4
      DEF InStep, OfferAlone, HangupTold, SessionsPaired, EndedOrEnding, Offering
    <3> QED
      BY <3>5, <3>6
  <2>8. ended' \subseteq ended \cup {{u, v}}
    BY <2>1
  <2> QED
    BY <1>1, <1>2, <1>3, <2>1, <2>6, <2>7, <2>8, OthersInStep
<1> QED
  BY <1>4, <1>5 DEF StartSelectedSession

LEMMA StepHangup ==
    ASSUME CallTyped, UncrossedInStep, NEW u \in Users, OnBnClickedHangup(u)
    PROVE  UncrossedInStep'
<1>1. UNCHANGED <<sessions, posted, crossed, lost>> /\ ~hanging[u]
  BY DEF OnBnClickedHangup, Enabled, Free
<1>2. IsMap(hanging) /\ active \in [Users -> Users \cup {Nobody}]
  BY DEF CallTyped, HangingTyped, DialogTyped
<1>3. CASE active[u] # Nobody /\ Has(u, active[u])
  <2>1. PICK v : v = active[u]
    OBVIOUS
  <2>0. PICK c : c = CallOf(u, v)
    OBVIOUS
  <2>2. /\ Send(u, v, "hangup", c) /\ hanging' = [hanging EXCEPT ![u] = TRUE]
        /\ ended' = ended \cup {{u, v}} /\ active' = active /\ Has(u, v)
    BY <1>3, <2>0, <2>1 DEF OnBnClickedHangup, CallOf
  <2>3. v \in Users /\ u # v /\ c \in Call
    BY <2>0, <2>2 DEF Has, CallTyped, SessionsTyped, SessionOK, Session, CallOf
  <2>4. [kind |-> "hangup", from |-> u, call |-> c] \in Signal
    BY <2>3 DEF Signal
  <2>5. /\ Offered(u, v)' = Offered(u, v) /\ HungUp(u, v)'
        /\ TidyWay(u, v) => TidyWay(u, v)'
        /\ \A p, q \in Users : p # u \/ q # v => SameWay(p, q)
    <3>1. /\ Offered(u, v)' = Offered(u, v) \cup (IF "hangup" = "offer" THEN {c} ELSE {})
          /\ HungUp(u, v)' <=> HungUp(u, v) \/ "hangup" = "hangup"
          /\ TidyWay(u, v) /\ ("hangup" = "offer" => Offered(u, v) = {} /\ ~HungUp(u, v))
             => TidyWay(u, v)'
          /\ \A p, q \in Users : p # u \/ q # v => SameWay(p, q)
      BY <1>1, <2>2, <2>3, <2>4, SentWay
    <3> QED
      BY <3>1
  <2>6. /\ Leaving(u, v)'
        /\ \A p, q \in Users : p # u \/ q # v => (Leaving(p, q)' <=> Leaving(p, q))
    BY <1>1, <1>2, <2>1, <2>2 DEF Leaving, IsMap
  <2>7. \A p, q \in Users : AlikeSession(p, q)
    BY <1>1, NoSessionChanged
  <2>8. ASSUME {u, v} \notin crossed' PROVE InStep(u, v)' /\ InStep(v, u)'
    <3>1. InStep(u, v) /\ InStep(v, u)
      <4>1. {v, u} = {u, v} /\ {u, v} \notin crossed
        BY <1>1, <2>8
      <4> QED
        BY <2>3, <4>1 DEF UncrossedInStep
    <3>2. SameWay(v, u) /\ AlikeSession(u, v) /\ AlikeSession(v, u) /\ (Leaving(v, u)' <=> Leaving(v, u))
      BY <2>3, <2>5, <2>6, <2>7
    <3>3. ~Offering(v, u) /\ Offered(v, u) = {}
      BY <2>2, <3>1 DEF InStep, OfferAlone, Offering
    <3> USE DEF AlikeSession, SameWay
    <3>4. OfferAlone(u, v)' /\ OfferAlone(v, u)'
      BY <1>1, <2>5, <3>1, <3>2, <3>3 DEF InStep, OfferAlone, Offering
    <3>5. HangupTold(u, v)' /\ HangupTold(v, u)'
      BY <2>5, <2>6, <3>1, <3>2, <3>3 DEF InStep, HangupTold
    <3>6. SessionsPaired(u, v)' /\ SessionsPaired(v, u)'
      BY <1>1, <2>2, <2>6, <3>1, <3>2 DEF InStep, SessionsPaired, Offering
    <3>7. EndedOrEnding(u, v)' /\ EndedOrEnding(v, u)'
      BY <2>5, <2>6, <3>2, <3>3 DEF EndedOrEnding
    <3>8. TidyWay(u, v)' /\ TidyWay(v, u)'
      BY <2>5, <3>1, <3>2 DEF InStep
    <3> QED
      BY <3>4, <3>5, <3>6, <3>7, <3>8 DEF InStep
  <2>9. /\ \A p, q \in Users : p # q /\ {p, q} # {u, v} => SameWay(p, q)
        /\ \A p, q \in Users : {p, q} # {u, v} => (Leaving(p, q)' <=> Leaving(p, q))
    BY <2>5, <2>6
  <2> QED
    BY <1>1, <2>2, <2>3, <2>7, <2>8, <2>9, OthersInStep
<1>4. CASE ~(active[u] # Nobody /\ Has(u, active[u]))
  <2>1. active' = [active EXCEPT ![u] = Nobody] /\ UNCHANGED <<wire, hanging, ended>>
    BY <1>4 DEF OnBnClickedHangup
  <2>2. \A w \in Users : hanging[w] => active'[w] = active[w]
    BY <1>1, <1>2, <2>1
  <2> QED
    BY <1>1, <2>1, <2>2, LeavingKept, NothingSent, NoSessionChanged, AllInStep
<1> QED
  BY <1>3, <1>4

LEMMA StepFinish ==
    ASSUME CallTyped, UncrossedInStep, NEW u \in Users, FinishHangup(u)
    PROVE  UncrossedInStep'
<1>1. PICK v \in Users : v = active[u] /\ v # u
  BY TypedFinish
<1>0. u # v
  BY <1>1
<1>2. /\ hanging[u] /\ hanging' = [hanging EXCEPT ![u] = FALSE] /\ RemoveSession(u, v)
      /\ active' = [active EXCEPT ![u] = Nobody]
      /\ UNCHANGED <<wire, ended, crossed, lost>>
  BY <1>1 DEF FinishHangup
<1>3. Has(u, v) /\ Leaving(u, v)
  BY <1>1, <1>2 DEF CallTyped, HangingTyped, Leaving
<1>4. SameBut(u, v) /\ ~Has(u, v)' /\ ~Announcing(u, v)'
  BY <1>2, RemoveEffect DEF CallTyped, Has, Announcing
<1>5. \A p, q \in Users : p # u \/ q # v => AlikeSession(p, q)
  BY <1>4, SameIsAlike DEF SameBut
<1>6. /\ ~Leaving(u, v)'
      /\ \A p, q \in Users : p # u \/ q # v => (Leaving(p, q)' <=> Leaving(p, q))
  BY <1>1, <1>2 DEF Leaving, IsMap, CallTyped, HangingTyped, DialogTyped
<1>7. \A p, q \in Users : SameWay(p, q)
  <2>1. PICK n \in Notice : n.from # u /\ (posted'[u] = posted[u] \/ posted'[u] = Append(posted[u], n))
    BY TypedFinish
  <2>2. \A w \in Users \ {u} : posted'[w] = posted[w]
    BY TypedFinish
  <2> QED
    BY <1>2, <2>1, <2>2, PostedWay
<1>8. ASSUME {u, v} \notin crossed' PROVE InStep(u, v)' /\ InStep(v, u)'
  <2>1. InStep(u, v) /\ InStep(v, u)
    <3>1. {v, u} = {u, v} /\ {u, v} \notin crossed
      BY <1>2, <1>8
    <3> QED
      BY <1>1, <3>1 DEF UncrossedInStep
  <2>2. SameWay(u, v) /\ SameWay(v, u) /\ AlikeSession(v, u) /\ (Leaving(v, u)' <=> Leaving(v, u))
    BY <1>1, <1>5, <1>6, <1>7
  <2>3. ~Offering(v, u) /\ Offered(v, u) = {}
    BY <1>3, <2>1 DEF InStep, OfferAlone, Offering
  <2>4. HungUp(u, v) \/ (~Has(v, u) /\ Offered(u, v) = {})
    BY <1>3, <2>1 DEF InStep, HangupTold
  <2> USE DEF AlikeSession, SameWay
  <2>5. OfferAlone(u, v)' /\ OfferAlone(v, u)'
    BY <1>2, <1>4, <2>1, <2>2, <2>3, <2>4 DEF InStep, OfferAlone, Offering
  <2>6. HangupTold(u, v)' /\ HangupTold(v, u)'
    BY <1>4, <1>6, <2>1, <2>2, <2>3 DEF InStep, HangupTold
  <2>7. SessionsPaired(u, v)' /\ SessionsPaired(v, u)'
    BY <1>4, <2>2, <2>4 DEF SessionsPaired
  <2>8. EndedOrEnding(u, v)' /\ EndedOrEnding(v, u)'
    BY <1>2, <1>4, <2>2, <2>3, <2>4 DEF EndedOrEnding
  <2>9. TidyWay(u, v)' /\ TidyWay(v, u)'
    BY <2>1, <2>2 DEF InStep
  <2> QED
    BY <2>5, <2>6, <2>7, <2>8, <2>9 DEF InStep
<1>9. \A p, q \in Users : {p, q} # {u, v} => (Leaving(p, q)' <=> Leaving(p, q))
  BY <1>6
<1>10. /\ \A p \in Users : lost[p] \subseteq lost'[p]
       /\ crossed \subseteq crossed' /\ ended' \subseteq ended \cup {{u, v}}
  BY <1>2
<1>11. \A p, q \in Users : p # q /\ {p, q} # {u, v} => SameWay(p, q)
  BY <1>7
<1>12. {u, v} \notin crossed' => InStep(u, v)' /\ InStep(v, u)'
  BY <1>8
<1> QED
  BY <1>0, <1>5, <1>9, <1>10, <1>11, <1>12, OthersInStep

LEMMA StepSwitches ==
    ASSUME UncrossedInStep, NEW u \in Users, Switches(u)
    PROVE  UncrossedInStep'
<1>1. UNCHANGED <<sessions, active, hanging, posted, wire, ended, crossed, lost>>
  BY DEF Switches, OnBnClickedKeyboardControl, OnBnClickedRecord, FileDialogAnswered, netVars,
         historyVars
<1>2. \A p, q \in Users : Leaving(p, q)' <=> Leaving(p, q)
  BY <1>1, LeavingKept
<1> QED
  BY <1>1, <1>2, NothingSent, NoSessionChanged, AllInStep

LEMMA StepDeliver ==
    ASSUME CallTyped, UncrossedInStep, NEW u \in Users, NEW v \in Users, Deliver(u, v)
    PROVE  UncrossedInStep'
<1>1. UNCHANGED <<sessions, active, hanging, ended, crossed, lost>>
  BY DEF Deliver, dialogVars, historyVars
<1>2. \A p, q \in Users : Leaving(p, q)' <=> Leaving(p, q)
  BY <1>1, LeavingKept
<1> QED
  BY <1>1, <1>2, DeliveredWay, NoSessionChanged, AllInStep

\* WebRTC's thread sends an offer, when there is none on its way.
LEMMA StepOffers ==
    ASSUME CallTyped, UncrossedInStep, NEW u \in Users, NEW v \in Users, Announcing(u, v),
           AnnounceLocalDescription(u, v)
    PROVE  UncrossedInStep'
<1>1. PICK c : c = CallOf(u, v)
  OBVIOUS
<1>2. /\ u # v /\ Send(u, v, "offer", c) /\ [kind |-> "offer", from |-> u, call |-> c] \in Signal
  BY <1>1, AnnounceEffect DEF Announcing, CallOf
<1>3. /\ UNCHANGED <<active, hanging, posted, ended, lost>> /\ Has(u, v)
      /\ crossed \subseteq crossed'
      /\ {u, v} \notin crossed' => ~Leaving(u, v)
  BY DEF AnnounceLocalDescription, Announcing, dialogVars, Leaving
<1>4. SameBut(u, v) /\ Has(u, v)' /\ CallOf(u, v)' = c
  BY <1>1, RtcEffect DEF Rtc, CallOf
<1>5. ~Announcing(u, v)'
  <2>1. SessionOK(u, sessions[u][v])
    BY <1>3 DEF CallTyped, SessionsTyped, Has
  <2>2. sessions'[u][v] = [sessions[u][v] EXCEPT !.toSend = "none"]
    BY <1>3 DEF AnnounceLocalDescription, CallTyped, SessionsTyped, IsMap, Has
  <2>3. sessions'[u][v].toSend = "none"
    BY <2>1, <2>2 DEF SessionOK, Session
  <2> QED
    BY <2>3 DEF Announcing
<1>6. \A p, q \in Users : p # u \/ q # v => AlikeSession(p, q)
  BY <1>4, SameIsAlike DEF SameBut
<1>7. \A p, q \in Users : Leaving(p, q)' <=> Leaving(p, q)
  BY <1>3, LeavingKept
<1>8. /\ Offered(u, v)' = Offered(u, v) \cup {c} /\ (HungUp(u, v)' <=> HungUp(u, v))
      /\ TidyWay(u, v) /\ Offered(u, v) = {} /\ ~HungUp(u, v) => TidyWay(u, v)'
      /\ \A p, q \in Users : p # u \/ q # v => SameWay(p, q)
  <2>1. /\ Offered(u, v)' = Offered(u, v) \cup (IF "offer" = "offer" THEN {c} ELSE {})
        /\ HungUp(u, v)' <=> HungUp(u, v) \/ "offer" = "hangup"
        /\ TidyWay(u, v) /\ ("offer" = "offer" => Offered(u, v) = {} /\ ~HungUp(u, v))
           => TidyWay(u, v)'
        /\ \A p, q \in Users : p # u \/ q # v => SameWay(p, q)
    BY <1>2, <1>3, SentWay
  <2> QED
    BY <2>1
<1>9. ASSUME {u, v} \notin crossed' PROVE InStep(u, v)' /\ InStep(v, u)'
  <2>1. InStep(u, v) /\ InStep(v, u)
    <3>1. {v, u} = {u, v} /\ {u, v} \notin crossed
      BY <1>3, <1>9
    <3> QED
      BY <1>2, <3>1 DEF UncrossedInStep
  <2>2. /\ SameWay(v, u) /\ AlikeSession(v, u)
        /\ (Leaving(u, v)' <=> Leaving(u, v)) /\ (Leaving(v, u)' <=> Leaving(v, u))
    BY <1>2, <1>6, <1>7, <1>8
  <2>3. /\ ~Has(v, u) /\ ~HungUp(v, u) /\ Offered(v, u) = {} /\ Offered(u, v) = {}
    BY <2>1 DEF InStep, OfferAlone, Offering
  <2>4. ~Leaving(u, v) /\ ~HungUp(u, v)
    BY <1>3, <1>9, <2>1 DEF InStep, HangupTold
  <2>5. {u, v} \notin ended' /\ {v, u} \notin ended'
    <3>1. {v, u} = {u, v}
      OBVIOUS
    <3> QED
      BY <1>3, <2>1, <2>3, <2>4, <3>1 DEF InStep, EndedOrEnding
  <2> USE DEF AlikeSession, SameWay
  <2>6. OfferAlone(u, v)' /\ OfferAlone(v, u)'
    BY <1>4, <1>5, <1>8, <2>2, <2>3, <2>4 DEF OfferAlone, Offering, Announcing
  <2>7. HangupTold(u, v)' /\ HangupTold(v, u)'
    BY <1>3, <1>8, <2>1, <2>2, <2>3, <2>4 DEF InStep, HangupTold
  <2>8. SessionsPaired(u, v)' /\ SessionsPaired(v, u)'
    BY <1>8, <2>2, <2>3 DEF SessionsPaired, Offering
  <2>9. TidyWay(u, v)' /\ TidyWay(v, u)'
    BY <1>8, <2>1, <2>2, <2>3, <2>4 DEF InStep
  <2> QED
    BY <2>5, <2>6, <2>7, <2>8, <2>9 DEF InStep, EndedOrEnding
<1>10. /\ \A p, q \in Users : p # q /\ {p, q} # {u, v} => SameWay(p, q)
       /\ \A p, q \in Users : {p, q} # {u, v} => (Leaving(p, q)' <=> Leaving(p, q))
  BY <1>7, <1>8
<1>11. /\ \A p \in Users : lost[p] \subseteq lost'[p]
       /\ crossed \subseteq crossed' /\ ended' \subseteq ended \cup {{u, v}}
  BY <1>3
<1> QED
  BY <1>2, <1>6, <1>9, <1>10, <1>11, OthersInStep

\* Whatever else it does: nothing of this changes.
LEMMA StepRtc ==
    ASSUME CallTyped, UncrossedInStep, NEW u \in Users, NEW v \in Users, Rtc(u, v)
    PROVE  UncrossedInStep'
<1>1. CASE AnnounceLocalDescription(u, v) /\ Announcing(u, v)
  BY <1>1, StepOffers
<1>2. CASE ~(AnnounceLocalDescription(u, v) /\ Announcing(u, v))
  <2>1. /\ UNCHANGED <<active, hanging, ended, lost>> /\ crossed' = crossed /\ u # v
    BY <1>2, TypedRtc DEF Rtc, AnnounceLocalDescription, OnIceCandidate, OnPeerConnectionState,
           Connected, Broken, dialogVars, historyVars, Announcing
  <2>2. \A p, q \in Users : AlikeSession(p, q)
    <3>1. \A p, q \in Users : p # u \/ q # v => AlikeSession(p, q)
      BY RtcEffect, SameIsAlike DEF SameBut
    <3>2. AlikeSession(u, v)
      <4>1. /\ Has(u, v) /\ Has(u, v)' /\ sessions'[u][v].call = sessions[u][v].call
            /\ \/ sessions'[u][v].toSend = sessions[u][v].toSend
               \/ AnnounceLocalDescription(u, v) /\ sessions'[u][v].toSend = "none"
        BY RtcEffect
      <4> QED
        BY <1>2, <4>1 DEF AlikeSession, CallOf, Announcing
    <3> QED
      BY <3>1, <3>2
  <2>3. \A p, q \in Users : Leaving(p, q)' <=> Leaving(p, q)
    BY <2>1, LeavingKept
  <2>4. \A p, q \in Users : SameWay(p, q)
    <3>1. ASSUME NEW kind, NEW c, [kind |-> kind, from |-> u, call |-> c] \in Signal,
                 Send(u, v, kind, c), UNCHANGED posted, kind # "offer" /\ kind # "hangup"
          PROVE  \A p, q \in Users : SameWay(p, q)
      <4>1. /\ Offered(u, v)' = Offered(u, v) \cup (IF kind = "offer" THEN {c} ELSE {})
            /\ HungUp(u, v)' <=> HungUp(u, v) \/ kind = "hangup"
            /\ TidyWay(u, v) /\ (kind = "offer" => Offered(u, v) = {} /\ ~HungUp(u, v))
               => TidyWay(u, v)'
            /\ \A p, q \in Users : p # u \/ q # v => SameWay(p, q)
        BY <2>1, <3>1, SentWay
      <4>2. SameWay(u, v)
        BY <3>1, <4>1 DEF SameWay
      <4> QED
        BY <4>1, <4>2
    <3>2. CASE AnnounceLocalDescription(u, v)
      <4> DEFINE s == sessions[u][v]
                 c == IF s.toSend = "offer" THEN s.call ELSE s.peer
      <4>1. /\ SessionOK(u, s) /\ s.toSend \in {"offer", "answer"} /\ Send(u, v, s.toSend, c)
            /\ [kind |-> s.toSend, from |-> u, call |-> c] \in Signal
        BY <3>2, AnnounceEffect
      <4>2. s.toSend # "offer"
        BY <1>2, <3>2 DEF Announcing, AnnounceLocalDescription
      <4>3. PICK k, d : k = s.toSend /\ d = c
        OBVIOUS
      <4>4. UNCHANGED posted
        BY <3>2 DEF AnnounceLocalDescription
      <4> QED
        BY <3>1, <4>1, <4>2, <4>3, <4>4
    <3>3. CASE OnIceCandidate(u, v)
      <4>1. PICK c : c = CallOf(u, v)
        OBVIOUS
      <4>2. Send(u, v, "ice", c) /\ UNCHANGED posted /\ Has(u, v)
        BY <3>3, <4>1 DEF OnIceCandidate, CallOf
      <4>3. c \in Call
        BY <4>1, <4>2 DEF CallOf, Has, CallTyped, SessionsTyped, SessionOK, Session
      <4>4. [kind |-> "ice", from |-> u, call |-> c] \in Signal
        BY <4>3 DEF Signal
      <4> QED
        BY <3>1, <4>2, <4>4
    <3>4. CASE Connected(u, v)
      BY <3>4, NothingSent DEF Connected, netVars
    <3>5. ASSUME NEW k \in {"Disconnected", "Failed"}, Broken(u, v, k)
          PROVE  \A p, q \in Users : SameWay(p, q)
      <4> DEFINE n == [kind |-> k, from |-> v]
      <4>1. n \in Notice /\ n.from # u
        BY <2>1 DEF Notice
      <4>2. posted' = [posted EXCEPT ![u] = Append(posted[u], n)] /\ UNCHANGED wire
        BY <3>5 DEF Broken
      <4> HIDE DEF n
      <4>3. /\ posted'[u] = Append(posted[u], n)
            /\ \A w \in Users \ {u} : posted'[w] = posted[w]
        BY <4>2 DEF CallTyped, NetTyped, IsMap
      <4> QED
        BY <4>1, <4>2, <4>3, PostedWay
    <3> QED
      BY <3>2, <3>3, <3>4, <3>5 DEF Rtc, OnPeerConnectionState
  <2>5. /\ \A p \in Users : lost[p] \subseteq lost'[p]
        /\ crossed \subseteq crossed' /\ ended' \subseteq ended
        /\ \A p, q \in Users : p # q => SameWay(p, q)
    BY <2>1, <2>4
  <2> QED
    BY <2>2, <2>3, <2>5, AllInStep
<1> QED
  BY <1>1, <1>2

\* An offer is taken: it is dropped, given up, or answered.
LEMMA StepOffer ==
    ASSUME CallTyped, UncrossedInStep, NEW u \in Users, NEW v \in Users, OnOffer(u, v)
    PROVE  UncrossedInStep'
<1> DEFINE c == Head(posted[u]).call
<1>1. /\ MakeActive(u, v) /\ UNCHANGED <<hanging, wire, ended, crossed>>
      /\ u # v /\ c \in Call /\ Signalled(u, v, "offer")
  BY SignalledEffect DEF OnOffer
<1>2. ~hanging[u] /\ (Take(u, <<>>) \/ Take(u, ClosedNotice(u, v)))
  BY DEF OnOffer, OfferDropped, OfferGivenUp, OfferApplied, Take, Free
<1>3. \A p, q \in Users : Leaving(p, q)' <=> Leaving(p, q)
  BY <1>1, <1>2, LeavingKept, ActiveTyped DEF CallTyped
<1>4. /\ \A p, q \in Users : p # v \/ q # u => SameWay(p, q)
      /\ c \in Offered(v, u) /\ (HungUp(v, u)' <=> HungUp(v, u))
      /\ TidyWay(v, u) => Offered(v, u)' = {} /\ TidyWay(v, u)'
  BY <1>1, <1>2, TakenWay
<1>5. ~Leaving(u, v)
  BY <1>2 DEF Leaving
<1>6. /\ \A p \in Users : lost[p] \subseteq lost'[p]
      /\ OfferDropped(u, v) \/ OfferGivenUp(u, v) => c \in lost'[u]
  BY DEF OnOffer, OfferDropped, OfferGivenUp, OfferApplied, CallTyped, DialogTyped
<1>7. PICK d : d = c
  OBVIOUS
<1> HIDE DEF c
<1>8. ASSUME {u, v} \notin crossed'
      PROVE  /\ InStep(u, v) /\ InStep(v, u) /\ Offering(v, u) /\ Offered(v, u) # {}
             /\ ~Has(u, v) /\ ~HungUp(u, v) /\ Offered(u, v) = {} /\ ~Announcing(v, u)
             /\ Has(v, u) => CallOf(v, u) = d
             /\ Has(v, u) \/ HungUp(v, u) \/ d \in lost[v]
             /\ Offered(v, u)' = {} /\ TidyWay(v, u)' /\ TidyWay(u, v)'
             /\ Leaving(v, u) => HungUp(v, u)
  <2>1. InStep(u, v) /\ InStep(v, u)
    <3>1. {v, u} = {u, v} /\ {u, v} \notin crossed
      BY <1>1, <1>8
    <3> QED
      BY <1>1, <3>1 DEF UncrossedInStep
  <2>2. Offered(v, u) # {} /\ Offering(v, u) /\ ~Announcing(v, u)
    BY <1>4, <2>1 DEF Offering, InStep, OfferAlone
  <2>3. /\ ~Has(u, v) /\ ~HungUp(u, v) /\ Offered(u, v) = {}
        /\ Has(v, u) => CallOf(v, u) = d
        /\ Has(v, u) \/ HungUp(v, u) \/ d \in lost[v]
    BY <1>4, <1>7, <2>1, <2>2 DEF InStep, OfferAlone
  <2>4. Offered(v, u)' = {} /\ TidyWay(v, u)' /\ TidyWay(u, v)'
    BY <1>1, <1>4, <2>1 DEF InStep, SameWay
  <2>5. Leaving(v, u) => HungUp(v, u)
    BY <2>1, <2>2 DEF InStep, HangupTold
  <2> QED
    BY <2>1, <2>2, <2>3, <2>4, <2>5
<1>9. SameWay(u, v)
  BY <1>1, <1>4
<1>10. CASE OfferDropped(u, v) \/ OfferGivenUp(u, v)
  <2>1. SameBut(u, v) /\ (~Has(u, v) => ~Has(u, v)')
    <3>1. CASE OfferDropped(u, v)
      BY <3>1 DEF OfferDropped, SameBut, SameSession, Has
    <3>2. CASE OfferGivenUp(u, v)
      BY <3>2, RemoveEffect DEF OfferGivenUp, CallTyped, Has
    <3> QED
      BY <1>10, <3>1, <3>2
  <2>2. \A p, q \in Users : p # u \/ q # v => AlikeSession(p, q)
    BY <2>1, SameIsAlike DEF SameBut
  <2>3. ASSUME {u, v} \notin crossed' PROVE InStep(u, v)' /\ InStep(v, u)'
    <3>1. /\ AlikeSession(v, u) /\ (Leaving(u, v)' <=> Leaving(u, v)) /\ (Leaving(v, u)' <=> Leaving(v, u))
      BY <1>1, <1>3, <2>2
    <3>2. ~Has(u, v)' /\ ~Announcing(u, v)' /\ d \in lost'[u]
      BY <1>6, <1>7, <1>8, <1>10, <2>1, <2>3 DEF Announcing
    <3> USE DEF AlikeSession, SameWay
    <3>3. OfferAlone(u, v)' /\ OfferAlone(v, u)'
      BY <1>8, <1>9, <2>3, <3>1, <3>2 DEF OfferAlone, Offering
    <3>4. HangupTold(u, v)' /\ HangupTold(v, u)'
      BY <1>4, <1>5, <1>8, <1>9, <2>3, <3>1, <3>2 DEF InStep, HangupTold
    <3>5. SessionsPaired(u, v)' /\ SessionsPaired(v, u)'
      BY <1>8, <2>3, <3>1, <3>2 DEF SessionsPaired
    <3>6. EndedOrEnding(u, v)' /\ EndedOrEnding(v, u)'
      BY <1>1, <1>8, <1>9, <2>3, <3>1, <3>2 DEF InStep, EndedOrEnding
    <3> QED
      BY <1>8, <2>3, <3>3, <3>4, <3>5, <3>6 DEF InStep
  <2>4. /\ \A p, q \in Users : p # q /\ {p, q} # {u, v} => SameWay(p, q)
        /\ \A p, q \in Users : {p, q} # {u, v} => (Leaving(p, q)' <=> Leaving(p, q))
        /\ crossed \subseteq crossed' /\ ended' \subseteq ended \cup {{u, v}}
    BY <1>1, <1>3, <1>4
  <2> QED
    BY <1>1, <1>6, <2>2, <2>3, <2>4, OthersInStep
<1>11. CASE OfferApplied(u, v)
  <2> DEFINE s == IF Has(u, v) THEN sessions[u][v] ELSE NewSession(u, c)
             t == [s EXCEPT !.peer = c, !.toSend = "answer", !.state = "Connecting"]
  <2>1. PutSession(u, v, t)
    BY <1>11 DEF OfferApplied, c
  <2>2. SessionOK(u, s) /\ (~Has(u, v) => s.call = c)
    BY <1>1, NewIsSession DEF CallTyped, SessionsTyped, Has
  <2> HIDE DEF s
  <2>3. SessionOK(u, t) /\ t.call = s.call /\ t.toSend = "answer"
    BY <1>1, <2>2, AnsweringIsSession, ZenonT(60)
  <2> HIDE DEF t
  <2>4. SameBut(u, v) /\ Has(u, v)' /\ sessions'[u][v] = t
    BY <1>1, <2>1, <2>3, PutEffect DEF CallTyped, Has
  <2>5. ~Announcing(u, v)' /\ (~Has(u, v) => CallOf(u, v)' = d)
    BY <1>7, <2>2, <2>3, <2>4 DEF Announcing, CallOf
  <2>6. \A p, q \in Users : p # u \/ q # v => AlikeSession(p, q)
    BY <2>4, SameIsAlike DEF SameBut
  <2>7. ASSUME {u, v} \notin crossed' PROVE InStep(u, v)' /\ InStep(v, u)'
    <3>1. /\ AlikeSession(v, u) /\ (Leaving(u, v)' <=> Leaving(u, v)) /\ (Leaving(v, u)' <=> Leaving(v, u))
      BY <1>1, <1>3, <2>6
    <3>2. CallOf(u, v)' = d /\ (d \in lost[v] => d \in lost'[v])
      BY <1>6, <1>8, <2>5, <2>7
    <3> USE DEF AlikeSession, SameWay
    <3>3. OfferAlone(u, v)' /\ OfferAlone(v, u)'
      BY <1>8, <1>9, <2>5, <2>7, <3>1 DEF OfferAlone, Offering
    <3>4. HangupTold(u, v)' /\ HangupTold(v, u)'
      BY <1>4, <1>5, <1>8, <1>9, <2>7, <3>1 DEF InStep, HangupTold
    <3>5. SessionsPaired(u, v)' /\ SessionsPaired(v, u)'
      BY <1>4, <1>8, <2>4, <2>7, <3>1, <3>2 DEF SessionsPaired
    <3>6. EndedOrEnding(u, v)' /\ EndedOrEnding(v, u)'
      <4>1. {v, u} = {u, v}
        OBVIOUS
      <4> QED
        BY <1>1, <1>4, <1>8, <1>9, <2>7, <3>1, <4>1 DEF InStep, EndedOrEnding
    <3> QED
      BY <1>8, <2>7, <3>3, <3>4, <3>5, <3>6 DEF InStep
  <2>8. /\ \A p, q \in Users : p # q /\ {p, q} # {u, v} => SameWay(p, q)
        /\ \A p, q \in Users : {p, q} # {u, v} => (Leaving(p, q)' <=> Leaving(p, q))
        /\ crossed \subseteq crossed' /\ ended' \subseteq ended \cup {{u, v}}
    BY <1>1, <1>3, <1>4
  <2> QED
    BY <1>1, <1>6, <2>6, <2>7, <2>8, OthersInStep
<1> QED
  BY <1>10, <1>11 DEF OnOffer

\* An answer, and a candidate, change no session's call.
LEMMA StepAnswer ==
    ASSUME CallTyped, UncrossedInStep, NEW u \in Users, NEW v \in Users,
           OnAnswer(u, v) \/ OnCandidate(u, v)
    PROVE  UncrossedInStep'
<1>1. PICK kind \in {"answer", "ice"} : Signalled(u, v, kind)
  BY DEF OnAnswer, OnCandidate
<1>2. MakeActive(u, v) /\ Take(u, <<>>)
  BY DEF OnAnswer, OnCandidate
<1>3. UNCHANGED <<hanging, wire, ended, crossed, lost>>
  BY DEF OnAnswer, OnCandidate, historyVars
<1>4. u # v /\ Head(posted[u]).call \in Call
  BY <1>1, SignalledEffect
<1>5. \A p, q \in Users : Leaving(p, q)' <=> Leaving(p, q)
  BY <1>2, <1>3, LeavingKept, ActiveTyped DEF CallTyped, Take, Free
<1>6. \A p, q \in Users : SameWay(p, q)
  <2>1. /\ \A p, q \in Users : p # v \/ q # u => SameWay(p, q)
        /\ kind \notin {"offer", "hangup"} => SameWay(v, u)
    BY <1>1, <1>2, <1>3, TakenWay
  <2> QED
    BY <2>1
<1>7. \A p, q \in Users : AlikeSession(p, q)
  <2> DEFINE t == [sessions[u][v] EXCEPT !.peer = Head(posted[u]).call]
  <2>1. \/ sessions' = sessions
        \/ Has(u, v) /\ sessions' = [sessions EXCEPT ![u][v] = t]
    BY DEF OnAnswer, OnCandidate
  <2>2. CASE Has(u, v) /\ sessions' = [sessions EXCEPT ![u][v] = t]
    <3>1. SessionOK(u, t) /\ t.call = sessions[u][v].call /\ t.toSend = sessions[u][v].toSend
      BY <1>4, <2>2, SessionChanges, ZenonT(60) DEF CallTyped, SessionsTyped, Has
    <3> HIDE DEF t
    <3>2. SameBut(u, v) /\ Has(u, v)' /\ sessions'[u][v] = t
      BY <2>2, <3>1, ChangeEffect DEF CallTyped, Has
    <3>3. AlikeSession(u, v)
      BY <2>2, <3>1, <3>2 DEF AlikeSession, CallOf, Announcing
    <3> QED
      BY <3>2, <3>3, SameIsAlike DEF SameBut
  <2> QED
    BY <2>1, <2>2, NoSessionChanged
<1>8. /\ \A p \in Users : lost[p] \subseteq lost'[p]
      /\ crossed \subseteq crossed' /\ ended' \subseteq ended
      /\ \A p, q \in Users : p # q => SameWay(p, q)
  BY <1>3, <1>6
<1> QED
  BY <1>5, <1>7, <1>8, AllInStep

\* A hangup is taken: the other is leaving, or has left.
LEMMA StepRemoteHangup ==
    ASSUME CallTyped, UncrossedInStep, NEW u \in Users, NEW v \in Users, OnHangup(u, v)
    PROVE  UncrossedInStep'
<1>1. /\ Signalled(u, v, "hangup") /\ Take(u, ClosedNotice(u, v)) /\ RemoveSession(u, v)
      /\ active' = [active EXCEPT ![u] = Nobody]
      /\ UNCHANGED <<hanging, wire, ended, crossed, lost>>
  BY DEF OnHangup
<1>2. u # v /\ ~hanging[u]
  BY <1>1, SignalledEffect DEF Take, Free
<1>3. \A w \in Users : hanging[w] => active'[w] = active[w]
  BY <1>1, <1>2 DEF CallTyped, DialogTyped
<1>4. \A p, q \in Users : Leaving(p, q)' <=> Leaving(p, q)
  BY <1>1, <1>3, LeavingKept
<1>5. /\ \A p, q \in Users : p # v \/ q # u => SameWay(p, q)
      /\ HungUp(v, u)
      /\ TidyWay(v, u) => Offered(v, u) = {} /\ Offered(v, u)' = {} /\ TidyWay(v, u)'
  BY <1>1, TakenWay
<1>6. SameBut(u, v) /\ ~Has(u, v)' /\ ~Announcing(u, v)'
  BY <1>1, RemoveEffect DEF CallTyped, Has, Announcing
<1>7. \A p, q \in Users : p # u \/ q # v => AlikeSession(p, q)
  BY <1>6, SameIsAlike DEF SameBut
<1>8. ASSUME {u, v} \notin crossed' PROVE InStep(u, v)' /\ InStep(v, u)'
  <2>1. InStep(u, v) /\ InStep(v, u)
    <3>1. {v, u} = {u, v} /\ {u, v} \notin crossed
      BY <1>1, <1>8
    <3> QED
      BY <1>2, <3>1 DEF UncrossedInStep
  <2>2. /\ SameWay(u, v) /\ AlikeSession(v, u)
        /\ (Leaving(u, v)' <=> Leaving(u, v)) /\ (Leaving(v, u)' <=> Leaving(v, u))
    BY <1>2, <1>4, <1>5, <1>7
  <2>3. Offered(v, u) = {} /\ Offered(v, u)' = {} /\ TidyWay(v, u)'
    BY <1>5, <2>1 DEF InStep
  <2>4. Offered(u, v) = {} /\ (~Has(v, u) \/ Leaving(v, u)) /\ ~Leaving(u, v)
    BY <1>2, <1>5, <2>1 DEF InStep, OfferAlone, HangupTold, Offering, Leaving
  <2> USE DEF AlikeSession, SameWay
  <2>5. OfferAlone(u, v)'
    BY <1>6, <2>2, <2>4 DEF OfferAlone, Offering
  <2>6. OfferAlone(v, u)'
    BY <1>6, <2>1, <2>2, <2>3, <2>4 DEF InStep, OfferAlone, Offering
  <2>7. HangupTold(u, v)' /\ HangupTold(v, u)'
    BY <1>6, <2>2, <2>3, <2>4 DEF HangupTold
  <2>8. SessionsPaired(u, v)' /\ SessionsPaired(v, u)'
    BY <1>6, <2>2, <2>4 DEF SessionsPaired
  <2>9. EndedOrEnding(u, v)' /\ EndedOrEnding(v, u)'
    BY <1>6, <2>2, <2>3, <2>4 DEF EndedOrEnding
  <2>10. TidyWay(u, v)' /\ TidyWay(v, u)'
    BY <2>1, <2>2, <2>3 DEF InStep
  <2> QED
    BY <2>5, <2>6, <2>7, <2>8, <2>9, <2>10 DEF InStep
<1>9. /\ \A p, q \in Users : p # q /\ {p, q} # {u, v} => SameWay(p, q)
      /\ \A p, q \in Users : {p, q} # {u, v} => (Leaving(p, q)' <=> Leaving(p, q))
      /\ \A p \in Users : lost[p] \subseteq lost'[p]
      /\ crossed \subseteq crossed' /\ ended' \subseteq ended \cup {{u, v}}
  BY <1>1, <1>4, <1>5
<1> QED
  BY <1>2, <1>7, <1>8, <1>9, OthersInStep

\* A state is taken: a session that has failed is removed, and lost.
LEMMA StepState ==
    ASSUME CallTyped, UncrossedInStep, NEW u \in Users, NEW v \in Users, OnSessionState(u, v)
    PROVE  UncrossedInStep'
<1>1. PICK kind \in {"Disconnected", "Failed", "Closed"} : Signalled(u, v, kind)
  BY DEF OnSessionState
<1>2. /\ Take(u, ClosedNotice(u, v)) \/ Take(u, <<>>)
      /\ UNCHANGED <<hanging, wire, ended, crossed>>
      /\ active' = active \/ active' = [active EXCEPT ![u] = Nobody]
  BY DEF OnSessionState
<1>3. u # v /\ ~hanging[u]
  BY <1>1, <1>2, SignalledEffect DEF Take, Free
<1>4. \A w \in Users : hanging[w] => active'[w] = active[w]
  BY <1>2, <1>3 DEF CallTyped, DialogTyped
<1>5. \A p, q \in Users : Leaving(p, q)' <=> Leaving(p, q)
  BY <1>2, <1>4, LeavingKept
<1>6. \A p, q \in Users : SameWay(p, q)
  <2>1. /\ \A p, q \in Users : p # v \/ q # u => SameWay(p, q)
        /\ kind \notin {"offer", "hangup"} => SameWay(v, u)
    BY <1>1, <1>2, TakenWay
  <2> QED
    BY <2>1
<1>7. CASE ~IsOver(u, v)
  <2>1. UNCHANGED <<sessions, lost>>
    BY <1>7 DEF OnSessionState
  <2> QED
    BY <1>2, <1>5, <1>6, <2>1, NoSessionChanged, AllInStep
<1>8. CASE IsOver(u, v)
  <2>1. /\ RemoveSession(u, v) /\ Has(u, v)
        /\ lost' = [lost EXCEPT ![u] = lost[u] \cup {CallOf(u, v)}]
    BY <1>8, OverIsFailed DEF OnSessionState, IsOver, CallOf
  <2>2. CallOf(u, v) \in lost'[u] /\ \A p \in Users : lost[p] \subseteq lost'[p]
    BY <2>1 DEF CallTyped, DialogTyped
  <2>3. SameBut(u, v) /\ ~Has(u, v)' /\ ~Announcing(u, v)'
    BY <2>1, RemoveEffect DEF CallTyped, Has, Announcing
  <2>4. \A p, q \in Users : p # u \/ q # v => AlikeSession(p, q)
    BY <2>3, SameIsAlike DEF SameBut
  <2>5. ASSUME {u, v} \notin crossed' PROVE InStep(u, v)' /\ InStep(v, u)'
    <3>1. InStep(u, v) /\ InStep(v, u)
      <4>1. {v, u} = {u, v} /\ {u, v} \notin crossed
        BY <1>2, <2>5
      <4> QED
        BY <1>3, <4>1 DEF UncrossedInStep
    <3>2. /\ SameWay(u, v) /\ SameWay(v, u) /\ AlikeSession(v, u)
          /\ (Leaving(u, v)' <=> Leaving(u, v)) /\ (Leaving(v, u)' <=> Leaving(v, u))
      BY <1>3, <1>5, <1>6, <2>4
    <3>3. ~Offering(v, u) /\ Offered(v, u) = {} /\ ~Leaving(u, v)
      BY <1>3, <2>1, <3>1 DEF InStep, OfferAlone, Offering, Leaving
    <3>4. lost[v] \subseteq lost'[v]
      BY <2>2
    <3> USE DEF AlikeSession, SameWay
    <3>5. OfferAlone(u, v)'
      BY <2>1, <2>2, <2>3, <3>1, <3>2 DEF InStep, OfferAlone, Offering
    <3>6. OfferAlone(v, u)'
      BY <3>2, <3>3 DEF OfferAlone, Offering
    <3>7. HangupTold(u, v)' /\ HangupTold(v, u)'
      BY <2>1, <2>3, <3>1, <3>2, <3>3 DEF InStep, HangupTold
    <3>8. SessionsPaired(u, v)' /\ SessionsPaired(v, u)'
      BY <2>1, <2>2, <2>3, <3>1, <3>2 DEF InStep, SessionsPaired
    <3>9. EndedOrEnding(u, v)' /\ EndedOrEnding(v, u)'
      BY <1>2, <2>3, <3>1, <3>2, <3>3 DEF InStep, EndedOrEnding
    <3>10. TidyWay(u, v)' /\ TidyWay(v, u)'
      BY <3>1, <3>2 DEF InStep
    <3> QED
      BY <3>5, <3>6, <3>7, <3>8, <3>9, <3>10 DEF InStep
  <2>6. /\ \A p, q \in Users : p # q /\ {p, q} # {u, v} => SameWay(p, q)
        /\ \A p, q \in Users : {p, q} # {u, v} => (Leaving(p, q)' <=> Leaving(p, q))
        /\ crossed \subseteq crossed' /\ ended' \subseteq ended \cup {{u, v}}
    BY <1>2, <1>5, <1>6
  <2> QED
    BY <1>3, <2>2, <2>4, <2>5, <2>6, OthersInStep
<1> QED
  BY <1>7, <1>8

LEMMA InStepStep ==
    ASSUME CallTyped, UncrossedInStep, [Next]_vars
    PROVE  UncrossedInStep'
<1>1. CASE UNCHANGED vars
  <2>1. UNCHANGED <<sessions, active, hanging, posted, wire, ended, crossed, lost>>
    BY <1>1 DEF vars, dialogVars, netVars, historyVars
  <2>2. \A p, q \in Users : Leaving(p, q)' <=> Leaving(p, q)
    BY <2>1, LeavingKept
  <2> QED
    BY <2>1, <2>2, NothingSent, NoSessionChanged, AllInStep
<1>2. ASSUME NEW u \in Users, Button(u) PROVE UncrossedInStep'
  BY <1>2, StepCalling, StepHangup, StepFinish, StepSwitches DEF Button, Switches
<1>3. ASSUME NEW u \in Users, Dispatch(u) PROVE UncrossedInStep'
  BY <1>3, StepOffer, StepAnswer, StepRemoteHangup, StepState DEF Dispatch
<1>4. ASSUME NEW u \in Users, NEW v \in Users, Rtc(u, v) \/ Deliver(u, v) PROVE UncrossedInStep'
  BY <1>4, StepRtc, StepDeliver
<1> QED
  BY <1>1, <1>2, <1>3, <1>4 DEF Next

LEMMA InStepInvariance == Spec => []UncrossedInStep
<1>1. CallTyped /\ UncrossedInStep /\ [Next]_vars => UncrossedInStep'
  BY InStepStep
<1> QED
  BY <1>1, InStepInit, CallInvariance, PTL DEF Spec

\* If one user has a session and the other has none, and nothing is on its way
\* or still to come, then the other could not set its session up, its session
\* failed, or messages crossed (CreateSession, HandleSignalingMessage, OnRtcState):
\* for any number of users, and however their calls follow each other.
THEOREM HalfOpenTheorem == Spec => []HalfOpenByFailureOnly
<1>1. CallTyped /\ UncrossedInStep => HalfOpenByFailureOnly
  <2> SUFFICES ASSUME CallTyped, UncrossedInStep, NEW u \in Users, NEW v \in Users,
                      u # v, Has(u, v), ~Has(v, u), Quiet(u, v), {u, v} \notin crossed
               PROVE  sessions[u][v].call \in lost[v]
    BY DEF HalfOpenByFailureOnly
  <2>1. InStep(u, v)
    BY DEF UncrossedInStep
  <2>2. ~Offering(u, v) /\ ~HungUp(v, u) /\ ~Leaving(u, v)
    BY QuietMeans DEF Offering
  <2> QED
    BY <2>1, <2>2 DEF InStep, SessionsPaired, CallOf
<1> QED
  BY <1>1, CallInvariance, InStepInvariance, PTL

\* When either of two users has hung up, both release the session, unless
\* messages crossed; and a recording ends with its call, unless that failed, or
\* had ended before the file dialog was answered (OnBnClickedHangup,
\* OnBnClickedRecord, HandleSignalingMessage's "hangup").
THEOREM HangupReleasesTheorem == Spec => []HangupReleasesUncrossed
<1>1. CallTyped /\ UncrossedInStep /\ RecordingKept => HangupReleasesUncrossed
  <2> SUFFICES ASSUME CallTyped, UncrossedInStep, RecordingKept, NEW u \in Users, NEW v \in Users
               PROVE  /\ Unreleased(u, v) => {u, v} \in crossed
                      /\ recording[u] # 0 => \/ recording[u] \in lost[u] \/ belated[u]
                                             \/ \E w \in DOMAIN sessions[u] :
                                                   sessions[u][w].call = recording[u]
    BY DEF HangupReleasesUncrossed
  <2>1. ASSUME Unreleased(u, v), {u, v} \notin crossed PROVE FALSE
    <3>1. u # v /\ {u, v} \in ended /\ Quiet(u, v) /\ (Has(u, v) \/ Has(v, u)) /\ {v, u} = {u, v}
      BY <2>1 DEF Unreleased, Released
    <3>2. InStep(u, v) /\ InStep(v, u)
      BY <2>1, <3>1 DEF UncrossedInStep
    <3>3. ~HungUp(v, u) /\ ~HungUp(u, v) /\ ~Leaving(u, v) /\ ~Leaving(v, u)
      BY <3>1, QuietMeans
    <3> QED
      BY <3>1, <3>2, <3>3 DEF InStep, EndedOrEnding
  <2> QED
    BY <2>1 DEF RecordingKept, RecordingOf
<1>2. CallTyped /\ FileTyped /\ RecordingKept /\ [Next]_vars => RecordingKept'
  BY RecordingStep
<1>3. Init => RecordingKept
  BY DEF Init, RecordingKept, RecordingOf
<1> QED
  BY <1>1, <1>2, <1>3, CallInvariance, InStepInvariance, PTL DEF Spec

=============================================================================
