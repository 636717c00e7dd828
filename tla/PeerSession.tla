---------------------------- MODULE PeerSession ----------------------------
(***************************************************************************)
(* One PeerSession: an offer or an answer is negotiated, ICE candidates    *)
(* travel both ways, and the call is closed.  Two threads work on it:      *)
(*   "ui"   the dialog's calls (CreateOffer, ApplyRemoteOffer,             *)
(*          ApplyRemoteAnswer, AddRemoteCandidate, Close);                 *)
(*   "rtc"  WebRTC's signalling thread, which runs the callbacks and the   *)
(*          observer one after the other.                                  *)
(* signaling_mutex_ guards the flags, the callbacks and the two lists of   *)
(* pending candidates; the calls into WebRTC and into the dialog's         *)
(* callbacks are made without it, on copies.  A step is one section under  *)
(* the mutex or one access to shared state outside it.                     *)
(*                                                                         *)
(* The peer connection is external: it works off its operations in order,  *)
(* each may fail, and it reports candidates and states between them.       *)
(* Candidates are numbered in the order in which they appear.              *)
(***************************************************************************)
EXTENDS Integers, Sequences, SequencesExt

CONSTANTS
    MaxLocal,     \* bound: candidates gathered
    MaxRemote,    \* bound: candidates received
    MaxOffers,    \* bound: negotiations begun on the session
    MaxAnswers,   \* bound: answers received
    MaxEvents     \* bound: changes of the connection's state

ASSUME SessionAssumption ==
    {MaxLocal, MaxRemote, MaxOffers, MaxAnswers, MaxEvents} \subseteq Nat

Threads == {"ui", "rtc"}
SessionState == {"New", "Connecting", "Connected", "Disconnected", "Failed",
                 "Closed"}
ObservedState == SessionState \ {"New"}

VARIABLES
    closeWaits,     \* whether the wrapper's Close waits for a running callback
    place,          \* what each thread is in the middle of
    target,         \* the state its UpdateState is to set
    toAdd,          \* the remote candidates it is about to add
    call,           \* what the ui thread asks of WebRTC after UpdateState
    outbox,         \* what the rtc thread has copied and is sending
    state,          \* state_
    reported,       \* the state the dialog was last told
    closed,         \* closed_
    announced,      \* local_description_announced_
    remoteSet,      \* remote_description_set_
    sdpCallback,    \* pending_sdp_callback_: sends an "offer" or an "answer"
    localSdp,       \* pending_local_sdp_: what WebRTC created
    pendingLocal,   \* pending_local_candidates_
    pendingRemote,  \* pending_remote_candidates_
    pc,             \* the peer connection
    count,          \* what has happened so far, for the bounds
    sent,           \* what the callbacks have sent to the peer
    added           \* the candidates the connection has been given

callVars == <<call, outbox>>
stateVars == <<state, reported>>
sessionVars == <<closed, announced, remoteSet, sdpCallback, localSdp,
                 pendingLocal, pendingRemote>>
peerVars == <<sent, added>>
vars == <<closeWaits, place, target, toAdd, callVars, stateVars, sessionVars, pc, count,
          peerVars>>

Operation == {"createOffer", "createAnswer", "setLocal", "announce",
              "setRemoteOffer", "setRemoteAnswer"}
Ice(n) == [ice |-> n]
Sdp(via, made) == [via |-> via, made |-> made]
Message == {Ice(n) : n \in 1..MaxLocal}
           \cup {Sdp(v, m) : v, m \in {"offer", "answer"}}
Connection == [open : BOOLEAN, todo : Seq(Operation),
               signalling : {"stable", "haveLocalOffer", "haveRemoteOffer"},
               local : BOOLEAN, remote : BOOLEAN]
Count == [local : 0..MaxLocal, remote : 0..MaxRemote, offers : 0..MaxOffers,
          answers : 0..MaxAnswers, events : 0..MaxEvents]

FlagsOK == {closeWaits, closed, announced, remoteSet} \subseteq BOOLEAN

DataOK ==
    /\ place \in [Threads -> {"idle", "compare", "store", "report", "call",
                              "add", "send", "teardown"}]
    /\ target \in [Threads -> SessionState]
    /\ toAdd \in [Threads -> Seq(1..MaxRemote)]
    /\ \A t \in Threads : toAdd[t] # <<>> => place[t] = "add"
    /\ call \in {"none", "createOffer", "setRemoteOffer"}
    /\ outbox \in Seq(Message) /\ (outbox # <<>> => place.rtc = "send")
    /\ state \in SessionState /\ reported \in SessionState
    /\ {sdpCallback, localSdp} \subseteq {"none", "offer", "answer"}
    /\ pendingLocal \in Seq(1..MaxLocal) /\ pendingRemote \in Seq(1..MaxRemote)
    /\ pc \in Connection /\ count \in Count
    /\ sent \in Seq(Message) /\ added \in Seq(1..MaxRemote)

TypeOK == FlagsOK /\ DataOK

\* Create has succeeded and the dialog has bound its callbacks.
Init ==
    /\ closeWaits \in BOOLEAN
    /\ place = [t \in Threads |-> "idle"]
    /\ target = [t \in Threads |-> "New"]
    /\ toAdd = [t \in Threads |-> <<>>]
    /\ call = "none" /\ outbox = <<>>
    /\ state = "New" /\ reported = "New"
    /\ closed = FALSE /\ announced = FALSE /\ remoteSet = FALSE
    /\ sdpCallback = "none" /\ localSdp = "none"
    /\ pendingLocal = <<>> /\ pendingRemote = <<>>
    /\ pc = [open |-> TRUE, todo |-> <<>>, signalling |-> "stable",
             local |-> FALSE, remote |-> FALSE]
    /\ count = [local |-> 0, remote |-> 0, offers |-> 0, answers |-> 0,
                events |-> 0]
    /\ sent = <<>> /\ added = <<>>

Go(t, p) == place' = [place EXCEPT ![t] = p]

\* The n-th thing of a kind, while the bound allows it.
Another(kind, max) ==
    count[kind] < max /\ count' = [count EXCEPT ![kind] = @ + 1]

-----------------------------------------------------------------------------
(* UpdateState, and adding candidates, on either thread. *)

BeginUpdate(t, s) == Go(t, "compare") /\ target' = [target EXCEPT ![t] = s]

\* Where a thread goes on when UpdateState returns.
After(t) == IF t = "ui" /\ call # "none" THEN "call" ELSE "idle"

Compare(t) ==
    /\ place[t] = "compare"
    /\ Go(t, IF state = target[t] THEN After(t) ELSE "store")
    /\ UNCHANGED stateVars

Store(t) ==
    /\ place[t] = "store"
    /\ state' = target[t] /\ Go(t, "report")
    /\ UNCHANGED reported

Report(t) ==
    /\ place[t] = "report"
    /\ reported' = target[t] /\ Go(t, After(t))
    /\ UNCHANGED state

UpdateState(t) ==
    /\ Compare(t) \/ Store(t) \/ Report(t)
    /\ UNCHANGED <<target, toAdd, callVars, sessionVars, pc, count, peerVars>>

\* Outside the mutex; the connection was there before the first of them.  See
\* DereferenceNull for what becomes of one when it is gone.
AddCandidate(t) ==
    /\ place[t] = "add" /\ toAdd[t] # <<>>
    /\ added' = IF pc.open THEN Append(added, Head(toAdd[t])) ELSE added
    /\ toAdd' = [toAdd EXCEPT ![t] = Tail(@)]
    /\ UNCHANGED <<place, target, callVars, stateVars, sessionVars, pc, count,
                   sent>>

\* All are added; the rtc thread goes on to answer an offer.
AddedAll(t) ==
    /\ place[t] = "add" /\ toAdd[t] = <<>>
    /\ Go(t, "idle")
    /\ pc' = IF t = "rtc" /\ pc.open /\ pc.signalling = "haveRemoteOffer"
             THEN [pc EXCEPT !.todo = Append(@, "createAnswer")] ELSE pc
    /\ UNCHANGED <<target, toAdd, callVars, stateVars, sessionVars, count,
                   peerVars>>

-----------------------------------------------------------------------------
(* The ui thread. *)

\* What CreateOffer and ApplyRemoteOffer do under the mutex.
BeginNegotiation(via, operation) ==
    /\ place.ui = "idle" /\ pc.open
    /\ Another("offers", MaxOffers)
    /\ sdpCallback' = via
    /\ announced' = FALSE /\ remoteSet' = FALSE /\ pendingLocal' = <<>>
    /\ BeginUpdate("ui", "Connecting") /\ call' = operation
    /\ UNCHANGED <<toAdd, outbox, stateVars, closed, localSdp, pc, peerVars>>

\* The dialog makes an offer on a session it has just created.
CreateOffer ==
    /\ BeginNegotiation("offer", "createOffer")
    /\ count.offers = 0 /\ pendingRemote' = <<>>

\* It applies an offer to the session it has for that user, new or not.
ApplyRemoteOffer ==
    BeginNegotiation("answer", "setRemoteOffer") /\ UNCHANGED pendingRemote

CallConnection ==
    /\ place.ui = "call" /\ Go("ui", "idle")
    /\ pc' = [pc EXCEPT !.todo = Append(@, call)] /\ call' = "none"
    /\ UNCHANGED <<target, toAdd, outbox, stateVars, sessionVars, count,
                   peerVars>>

\* The dialog passes on messages once it has begun to negotiate.
Negotiating == place.ui = "idle" /\ pc.open /\ count.offers > 0

ApplyRemoteAnswer ==
    /\ Negotiating /\ Another("answers", MaxAnswers)
    /\ pc' = [pc EXCEPT !.todo = Append(@, "setRemoteAnswer")]
    /\ UNCHANGED <<place, target, toAdd, callVars, stateVars, sessionVars,
                   peerVars>>

\* A candidate waits for the remote description, or is added once the mutex
\* has been released.
AddRemoteCandidate ==
    /\ Negotiating /\ Another("remote", MaxRemote)
    /\ IF remoteSet
       THEN /\ toAdd' = [toAdd EXCEPT !.ui = <<count'.remote>>]
            /\ Go("ui", "add") /\ UNCHANGED pendingRemote
       ELSE /\ pendingRemote' = Append(pendingRemote, count'.remote)
            /\ UNCHANGED <<toAdd, place>>
    /\ UNCHANGED <<target, callVars, stateVars, closed, announced, remoteSet,
                   sdpCallback, localSdp, pendingLocal, pc, peerVars>>

Close ==
    /\ place.ui = "idle" /\ ~closed
    /\ closed' = TRUE /\ sdpCallback' = "none"
    /\ pendingLocal' = <<>> /\ pendingRemote' = <<>>
    /\ Go("ui", "teardown")
    /\ UNCHANGED <<target, toAdd, callVars, stateVars, announced, remoteSet,
                   localSdp, pc, count, peerVars>>

\* The observer is deregistered and the connection closed.
CloseConnection ==
    /\ place.ui = "teardown"
    /\ closeWaits => place.rtc = "idle"
    /\ pc' = [pc EXCEPT !.open = FALSE] /\ BeginUpdate("ui", "Closed")
    /\ UNCHANGED <<toAdd, callVars, stateVars, sessionVars, count, peerVars>>

UI ==
    \/ UpdateState("ui") \/ CallConnection
    \/ AddCandidate("ui") \/ AddedAll("ui") \/ CloseConnection

-----------------------------------------------------------------------------
(* The rtc thread: the connection's next operation succeeds or fails. *)

Doing(op) == place.rtc = "idle" /\ pc.todo # <<>> /\ Head(pc.todo) = op

\* WebRTC has made an offer or an answer; it becomes the local description.
Created(made, op) ==
    /\ Doing(op) /\ pc.open
    /\ made = "answer" => pc.signalling = "haveRemoteOffer"
    /\ localSdp' = made
    /\ pc' = [pc EXCEPT !.todo = Append(Tail(@), "setLocal")]
    /\ UNCHANGED <<place, target, toAdd, callVars, stateVars, closed,
                   announced, remoteSet, sdpCallback, pendingLocal,
                   pendingRemote, count, peerVars>>

\* It is set; candidates may be gathered before the callback says so.
LocalSet ==
    /\ Doing("setLocal") /\ pc.open
    /\ IF localSdp = "offer" THEN pc.signalling # "haveRemoteOffer"
                             ELSE pc.signalling = "haveRemoteOffer"
    /\ pc' = [pc EXCEPT !.todo = <<"announce">> \o Tail(@), !.local = TRUE,
                        !.signalling = IF localSdp = "offer"
                                       THEN "haveLocalOffer" ELSE "stable"]
    /\ UNCHANGED <<place, target, toAdd, callVars, stateVars, sessionVars,
                   count, peerVars>>

Outgoing(list) == [i \in 1..Len(list) |-> Ice(list[i])]

\* The callback takes what is to be sent, and sends it without the mutex.
Announce(messages) ==
    /\ Doing("announce") /\ ~closed
    /\ pc' = [pc EXCEPT !.todo = Tail(@)]
    /\ announced' = TRUE /\ pendingLocal' = <<>>
    /\ outbox' = messages /\ Go("rtc", "send")
    /\ UNCHANGED <<target, toAdd, call, stateVars, closed, remoteSet,
                   sdpCallback, localSdp, pendingRemote, count, peerVars>>

\* Mutant: the candidates are left for later.
AnnounceAlone == Announce(<<Sdp(sdpCallback, localSdp)>>)

\* The description, and behind it every candidate that has waited for it.
AnnounceLocalDescription ==
    Announce(<<Sdp(sdpCallback, localSdp)>> \o Outgoing(pendingLocal))

\* A remote description is applied; MarkRemoteDescriptionSet takes the
\* candidates that have waited, unless the session is closed.
MarkRemote(op, left) ==
    /\ Doing(op) /\ pc.open
    /\ IF op = "setRemoteOffer" THEN pc.signalling = "stable"
                                ELSE pc.signalling = "haveLocalOffer"
    /\ pc' = [pc EXCEPT !.todo = Tail(@), !.remote = TRUE,
                        !.signalling = IF op = "setRemoteOffer"
                                       THEN "haveRemoteOffer" ELSE "stable"]
    /\ Go("rtc", "add")
    /\ IF closed THEN UNCHANGED <<remoteSet, toAdd, pendingRemote>>
       ELSE /\ remoteSet' = TRUE /\ pendingRemote' = left
            /\ toAdd' = [toAdd EXCEPT !.rtc = pendingRemote]
    /\ UNCHANGED <<target, callVars, stateVars, closed, announced, sdpCallback,
                   localSdp, pendingLocal, count, peerVars>>

\* Mutant: the candidates are copied, and stay in the list.
RemoteSetCopies(op) == MarkRemote(op, pendingRemote)

RemoteSet(op) == MarkRemote(op, <<>>)

\* The callbacks that create an answer, set what was created, or add the
\* candidates they took use peer_connection_ unchecked, and Close may have
\* cleared it.  That is undefined behaviour.  Either nothing comes of it
\* (AddCandidate, AddedAll, FailNegotiation), or it is the last that this
\* thread does, as the program ends.
DereferenceNull ==
    /\ ~pc.open
    /\ \/ place.rtc = "add" /\ (toAdd.rtc # <<>> \/ pc.signalling = "haveRemoteOffer")
       \/ Doing("createOffer") \/ Doing("createAnswer")
    /\ Go("rtc", "idle") /\ toAdd' = [toAdd EXCEPT !.rtc = <<>>]
    /\ pc' = [pc EXCEPT !.todo = <<>>]
    /\ UNCHANGED <<target, callVars, stateVars, sessionVars, count, peerVars>>

\* An operation fails, and FailNegotiation reports it or not.
Fail(report) ==
    /\ place.rtc = "idle" /\ pc.todo # <<>> /\ Head(pc.todo) # "announce"
    /\ pc' = [pc EXCEPT !.todo = Tail(@)]
    /\ IF report THEN BeginUpdate("rtc", "Failed")
                 ELSE UNCHANGED <<place, target>>
    /\ UNCHANGED <<toAdd, callVars, stateVars, sessionVars, count, peerVars>>

\* Mutants: a failure is always reported; it never is.
FailAlways == Fail(TRUE)
FailQuietly == Fail(FALSE)

FailNegotiation == Fail(~closed)

\* A description that is set when the session has been closed meanwhile.
AnnounceTooLate ==
    /\ Doing("announce") /\ closed
    /\ pc' = [pc EXCEPT !.todo = Tail(@)]
    /\ UNCHANGED <<place, target, toAdd, callVars, stateVars, sessionVars,
                   count, peerVars>>

\* What has been copied under the mutex goes out one by one.
Send ==
    /\ place.rtc = "send"
    /\ sent' = Append(sent, Head(outbox)) /\ outbox' = Tail(outbox)
    /\ Go("rtc", IF Len(outbox) = 1 THEN "idle" ELSE "send")
    /\ UNCHANGED <<target, toAdd, call, stateVars, sessionVars, pc, count,
                   added>>

Rtc ==
    \/ UpdateState("rtc") \/ AddCandidate("rtc") \/ AddedAll("rtc")
    \/ Created("offer", "createOffer") \/ Created("answer", "createAnswer")
    \/ LocalSet \/ AnnounceLocalDescription \/ AnnounceTooLate \/ Send
    \/ RemoteSet("setRemoteOffer") \/ RemoteSet("setRemoteAnswer")
    \/ FailNegotiation \/ DereferenceNull

-----------------------------------------------------------------------------
(* The rtc thread: the observer. *)

Observes == place.rtc = "idle" /\ pc.open /\ pc.local

\* A local candidate waits for the description, or is sent.
OnIceCandidate ==
    /\ Observes /\ Another("local", MaxLocal)
    /\ CASE closed -> UNCHANGED <<pendingLocal, outbox, place>>
         [] ~closed /\ announced ->
                /\ outbox' = <<Ice(count'.local)>> /\ Go("rtc", "send")
                /\ UNCHANGED pendingLocal
         [] OTHER -> /\ pendingLocal' = Append(pendingLocal, count'.local)
                     /\ UNCHANGED <<outbox, place>>
    /\ UNCHANGED <<target, toAdd, call, stateVars, closed, announced,
                   remoteSet, sdpCallback, localSdp, pendingRemote, pc,
                   peerVars>>

OnPeerConnectionState(s) ==
    /\ Observes /\ Another("events", MaxEvents)
    /\ BeginUpdate("rtc", s)
    /\ UNCHANGED <<toAdd, callVars, stateVars, sessionVars, pc, peerVars>>

Step ==
    \/ CreateOffer \/ ApplyRemoteOffer \/ ApplyRemoteAnswer
    \/ AddRemoteCandidate \/ Close
    \/ UI \/ Rtc \/ OnIceCandidate
    \/ \E s \in ObservedState : OnPeerConnectionState(s)

Next == Step /\ UNCHANGED closeWaits

Spec == Init /\ [][Next]_vars

\* Both threads go on with what they have begun and WebRTC with its
\* operations; nobody has to call, to close, or to find candidates.
FairSpec == Spec /\ WF_vars(UI /\ UNCHANGED closeWaits)
                 /\ WF_vars(Rtc /\ UNCHANGED closeWaits)

-----------------------------------------------------------------------------
(* Properties. *)

Idle == place.ui = "idle" /\ place.rtc = "idle"

\* Where candidates are among the messages of a list.
Ices(messages) == {i \in DOMAIN messages : "ice" \in DOMAIN messages[i]}
IceSent == {sent[i].ice : i \in Ices(sent)}

\* "SDP first, then all gathered ICE": no candidate goes out before a
\* description, none twice or out of order; and once the description is out
\* every candidate follows, those gathered while it was being announced
\* included.
SdpThenAllIce ==
    /\ sent # <<>> => "via" \in DOMAIN sent[1]
    /\ \A i, j \in Ices(sent) : i < j => sent[i].ice < sent[j].ice
    /\ count.offers = 1 /\ announced /\ place.rtc = "idle" /\ ~closed =>
           IceSent = 1..count.local

\* The remote candidates that are not yet added.
Waiting == ToSet(pendingRemote) \cup UNION {ToSet(toAdd[t]) : t \in Threads}

\* The dialog adds candidates while WebRTC's callback takes the pending ones:
\* none is lost, added twice, added before a remote description, or left
\* behind in the list.
RemoteCandidatesKept ==
    /\ IsInjective(added) /\ ToSet(added) \cap Waiting = {}
    /\ added # <<>> => pc.remote
    /\ ~closed => ToSet(added) \cup Waiting = 1..count.remote
    /\ remoteSet /\ Idle => pendingRemote = <<>>

\* A closed session in which nothing is under way stays so and is silent,
\* though WebRTC still finishes operations it was asked for.
SilentWhenClosed ==
    [][closed /\ Idle => Idle' /\ UNCHANGED <<sent, added, reported, state>>]_vars

\* When Close waits for the callback that is running, the dialog's last news
\* of a first negotiation is the session's state whenever both threads rest,
\* though storing the state and telling the dialog are two steps.
LastNewsIsState ==
    closeWaits /\ Idle /\ count.offers <= 1 => reported = state

\* The same assumed, the first negotiation of a session ends: the description
\* is announced, the session leaves Connecting and says so, or another one
\* takes its place.
NegotiationEnds ==
    (closeWaits /\ count.offers = 1 /\ state = "Connecting" /\ ~announced)
        ~> (announced \/ state # "Connecting" \/ count.offers > 1)

\* docs/ARCHITECTURE.md: "the callee creates an Answer", which the server
\* passes back: what goes out as an answer was created as one.
AnswersAreAnswers ==
    \A i \in DOMAIN sent : "via" \in DOMAIN sent[i] => sent[i].via = sent[i].made
=============================================================================
