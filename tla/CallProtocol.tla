---------------------------- MODULE CallProtocol ----------------------------
(***************************************************************************)
(* Users call each other and hang up.  Each user runs the dialog with its  *)
(* SessionManager, a map from user to PeerSession; two threads work on it: *)
(*   the ui thread   runs the buttons, and takes the window messages one   *)
(*                   by one: signalling messages and session states;       *)
(*   WebRTC's thread announces descriptions and candidates, and reports    *)
(*                   the connection's states, for every session.           *)
(* The server passes messages on: those of one user to another arrive in   *)
(* the order in which they were sent (SignalingServer).  The negotiation   *)
(* inside a session is PeerSession's; here a session has what it has still *)
(* to announce and whether the other's description has been applied.       *)
(*                                                                         *)
(* The code knows a session by the other user's name.  The model numbers   *)
(* the calls, and messages and sessions carry the number of their call;    *)
(* no guard looks at it.  States that only change a text are not posted.   *)
(***************************************************************************)
EXTENDS Integers, Sequences, Functions

CONSTANTS
    Users,
    Nobody,       \* the empty active_remote_user_id_
    Operators,    \* the users who use keyboard control
    Recorders,    \* the users who record
    Calls,        \* bound: the pairs that may begin the first call, and so on
    Sends,        \* the media each user has ticked
    Gatherers,    \* bound: the users whose candidates are modelled
    MaxFaults     \* bound: sessions that cannot be set up, break or fail

Media == {"screen", "microphone"}

ASSUME CallAssumption ==
    /\ Nobody \notin Users
    /\ Calls \in Seq(SUBSET {p \in Users \X Users : p[1] # p[2]})
    /\ Operators \subseteq Users /\ Recorders \subseteq Users
    /\ Gatherers \subseteq Users
    /\ Sends \in [Users -> SUBSET Media]
    /\ MaxFaults \in Nat

VARIABLES
    sessions,     \* session_manager_'s sessions, by user
    active,       \* active_remote_user_id_
    keyboard,     \* keyboard_control_active_: the call it was switched on for
    recording,    \* video_recorder_: the call its recording was begun in
    media,        \* the captures that run
    hanging,      \* between the hangup that is sent and the session's Close
    choosing,     \* the file dialog is open: the call it was opened in
    belated,      \* the recording was begun when its call had ended (history)
    posted,       \* window messages not yet taken
    wire,         \* messages on their way, by sender and receiver
    calls,        \* calls begun
    faults,       \* sessions not set up, broken or failed
    ended,        \* pairs whose last call was hung up
    crossed,      \* pairs some of whose messages have crossed
    lost,         \* calls a user has no session of, though nobody hung up
    left          \* users whose last set-up failed, maybe leaving media on

fileVars == <<choosing, belated>>
dialogVars == <<active, keyboard, recording, media, hanging, fileVars>>
netVars == <<posted, wire>>
historyVars == <<calls, faults, ended, crossed, lost, left>>
vars == <<sessions, dialogVars, netVars, historyVars>>

MaxCalls == Len(Calls)
Call == 1..MaxCalls
Live == {"Connecting", "Connected", "Disconnected"}
Session == [call : Call, peer : 0..MaxCalls, state : Live \cup {"Failed"},
            toSend : {"none", "offer", "answer"}, ice : BOOLEAN,
            tracks : SUBSET Media]
Signal == [kind : {"offer", "answer", "ice", "hangup"}, from : Users,
           call : Call]
Notice == [kind : {"Disconnected", "Failed", "Closed"}, from : Users]
Pairs == {{p[1], p[2]} : p \in Users \X Users}

TypeOK ==
    /\ \A u \in Users : /\ DOMAIN sessions[u] \subseteq Users \ {u}
                        /\ Range(sessions[u]) \subseteq Session
    /\ active \in [Users -> Users \cup {Nobody}]
    /\ keyboard \in [Users -> 0..MaxCalls]
    /\ recording \in [Users -> 0..MaxCalls]
    /\ choosing \in [Users -> 0..MaxCalls] /\ belated \in [Users -> BOOLEAN]
    /\ media \in [Users -> SUBSET Media]
    /\ hanging \in [Users -> BOOLEAN]
    /\ \A u \in Users : hanging[u] => active[u] \in DOMAIN sessions[u]
    /\ posted \in [Users -> Seq(Signal \cup Notice)]
    /\ wire \in [Users -> [Users -> Seq(Signal)]]
    /\ calls \in 0..MaxCalls /\ faults \in 0..MaxFaults
    /\ ended \subseteq Pairs /\ crossed \subseteq Pairs
    /\ lost \in [Users -> SUBSET Call] /\ left \in [Users -> BOOLEAN]

Init ==
    /\ sessions = [u \in Users |-> <<>>]
    /\ active = [u \in Users |-> Nobody]
    /\ keyboard = [u \in Users |-> 0] /\ recording = [u \in Users |-> 0]
    /\ media = [u \in Users |-> {}] /\ hanging = [u \in Users |-> FALSE]
    /\ choosing = [u \in Users |-> 0] /\ belated = [u \in Users |-> FALSE]
    /\ posted = [u \in Users |-> <<>>]
    /\ wire = [u \in Users |-> [v \in Users |-> <<>>]]
    /\ calls = 0 /\ faults = 0
    /\ ended = {} /\ crossed = {}
    /\ lost = [u \in Users |-> {}] /\ left = [u \in Users |-> FALSE]

-----------------------------------------------------------------------------
(* Operators. *)

Has(u, v) == v \in DOMAIN sessions[u]
Free(u) == ~hanging[u]

\* An open file dialog disables the window's buttons; messages still come.
Enabled(u) == Free(u) /\ choosing[u] = 0

\* Nothing of the two users is on its way, or still to be announced.
Quiet(u, v) ==
    \A p \in {<<u, v>>, <<v, u>>} :
        /\ wire[p[1]][p[2]] = <<>>
        /\ \A m \in Range(posted[p[2]]) : m \in Signal => m.from # p[1]
        /\ Has(p[1], p[2]) => sessions[p[1]][p[2]].toSend = "none"
        /\ ~hanging[p[1]] \/ active[p[1]] # p[2]

Released(u, v) == ~Has(u, v) /\ ~Has(v, u)

\* The session with v is s, a new one or the same.
PutSession(u, v, s) ==
    sessions' = [sessions EXCEPT ![u] =
        [w \in DOMAIN sessions[u] \cup {v} |->
            IF w = v THEN s ELSE sessions[u][w]]]

\* RemoveSession, when there is one; its Close posts a last state.  There is
\* no session left in that state, so that the message ends keyboard control
\* and nothing else: it is posted only to those who use it.
Removed(u, v) == Restrict(sessions[u], DOMAIN sessions[u] \ {v})
RemoveSession(u, v) == sessions' = [sessions EXCEPT ![u] = Removed(u, v)]
ClosedNotice(u, v) ==
    IF Has(u, v) /\ u \in Operators THEN <<[kind |-> "Closed", from |-> v]>>
                                   ELSE <<>>

\* Mutant: sessions are not counted.
StopAlways(u, v) ==
    media' = [media EXCEPT ![u] = {}] /\ left' = [left EXCEPT ![u] = FALSE]

\* Capture and microphone are stopped with the last session.
StopUnused(u, v) ==
    IF Removed(u, v) = <<>>
    THEN media' = [media EXCEPT ![u] = {}] /\ left' = [left EXCEPT ![u] = FALSE]
    ELSE UNCHANGED <<media, left>>

\* Mutant: keyboard control stays.
MakeActiveOnly(u, v) ==
    active' = [active EXCEPT ![u] = v] /\ UNCHANGED keyboard

\* Keyboard control is switched off when another user becomes active.
MakeActive(u, v) ==
    /\ active' = [active EXCEPT ![u] = v]
    /\ keyboard' = IF active[u] = v THEN keyboard
                                    ELSE [keyboard EXCEPT ![u] = 0]

\* What may run when ConfigureLocalMedia fails: the screen comes first, and
\* a capture that was started stays even if the session refuses its track.
FailedMedia(u) ==
    {media[u] \cup m : m \in {n \in SUBSET Sends[u] :
        "microphone" \in n /\ "screen" \in Sends[u] => "screen" \in n}}

Fault == faults < MaxFaults /\ faults' = faults + 1

ConfigureFails(u) ==
    /\ Sends[u] # {} /\ Fault
    /\ \E m \in FailedMedia(u) : media' = [media EXCEPT ![u] = m]
    /\ left' = [left EXCEPT ![u] = TRUE]

ConfigureLocalMedia(u) ==
    media' = [media EXCEPT ![u] = @ \cup Sends[u]] /\ UNCHANGED left

Send(u, v, kind, call) ==
    wire' = [wire EXCEPT ![u][v] =
                Append(@, [kind |-> kind, from |-> u, call |-> call])]

NewSession(u, call) ==
    [call |-> call, peer |-> 0, state |-> "Connecting", toSend |-> "offer",
     ice |-> u \in Gatherers, tracks |-> Sends[u]]

-----------------------------------------------------------------------------
(* The buttons. *)

\* There is a session already, or none can be created or configured.
CallRefused(u, v) ==
    /\ MakeActive(u, v)
    /\ \/ Has(u, v) /\ UNCHANGED <<media, left, faults>>
       \/ ~Has(u, v) /\ Fault /\ UNCHANGED <<media, left>>
       \/ ~Has(u, v) /\ ConfigureFails(u)
    /\ UNCHANGED <<sessions, calls, ended, crossed>>

CallBegun(u, v) ==
    /\ ~Has(u, v) /\ calls < MaxCalls /\ calls' = calls + 1
    /\ <<u, v>> \in Calls[calls']
    /\ MakeActive(u, v) /\ ConfigureLocalMedia(u)
    /\ PutSession(u, v, NewSession(u, calls'))
    /\ ended' = ended \ {{u, v}}
    /\ crossed' = IF Quiet(u, v) /\ Released(u, v) THEN crossed
                                                   ELSE crossed \cup {{u, v}}
    /\ UNCHANGED faults

StartSelectedSession(u, v) ==
    /\ Enabled(u) /\ \E n \in Call : <<u, v>> \in Calls[n]
    /\ CallRefused(u, v) \/ CallBegun(u, v)
    /\ UNCHANGED <<recording, hanging, fileVars, netVars, lost>>

\* The hangup is sent first; until the session is closed WebRTC's thread may
\* still announce something.
OnBnClickedHangup(u) ==
    /\ Enabled(u) /\ keyboard' = [keyboard EXCEPT ![u] = 0]
    /\ IF active[u] # Nobody /\ Has(u, active[u])
       THEN /\ Send(u, active[u], "hangup", sessions[u][active[u]].call)
            /\ hanging' = [hanging EXCEPT ![u] = TRUE]
            /\ ended' = ended \cup {{u, active[u]}}
            /\ UNCHANGED active
       ELSE /\ active' = [active EXCEPT ![u] = Nobody]
            /\ UNCHANGED <<wire, hanging, ended>>
    /\ UNCHANGED <<sessions, recording, media, fileVars, posted, calls, faults,
                   crossed, lost, left>>

FinishHangup(u) ==
    /\ hanging[u] /\ hanging' = [hanging EXCEPT ![u] = FALSE]
    /\ RemoveSession(u, active[u]) /\ StopUnused(u, active[u])
    /\ posted' = [posted EXCEPT ![u] = @ \o ClosedNotice(u, active[u])]
    /\ recording' = [recording EXCEPT ![u] = 0]
    /\ active' = [active EXCEPT ![u] = Nobody]
    /\ UNCHANGED <<keyboard, fileVars, wire, calls, faults, ended, crossed, lost>>

\* The control channel can be open once the session has been connected.
OnBnClickedKeyboardControl(u) ==
    /\ u \in Operators /\ Enabled(u)
    /\ \/ keyboard[u] # 0 /\ keyboard' = [keyboard EXCEPT ![u] = 0]
       \/ /\ keyboard[u] = 0 /\ Has(u, active[u])
          /\ sessions[u][active[u]].state \in {"Connected", "Disconnected"}
          /\ keyboard' = [keyboard EXCEPT ![u] = sessions[u][active[u]].call]
    /\ UNCHANGED <<sessions, active, recording, media, hanging, fileVars,
                   netVars, historyVars>>

\* The click stops the recording, or opens the file dialog.
OnBnClickedRecord(u) ==
    /\ u \in Recorders /\ Enabled(u)
    /\ \/ /\ recording[u] # 0 /\ recording' = [recording EXCEPT ![u] = 0]
          /\ UNCHANGED choosing
       \/ /\ recording[u] = 0 /\ Has(u, active[u]) /\ UNCHANGED recording
          /\ choosing' = [choosing EXCEPT ![u] = sessions[u][active[u]].call]
    /\ UNCHANGED <<sessions, active, keyboard, media, hanging, belated,
                   netVars, historyVars>>

\* The dialog is answered.  Whatever messages were taken while it was open,
\* and whether or not there is still a session, the recording is begun.
FileDialogAnswered(u) ==
    /\ choosing[u] # 0 /\ Free(u) /\ choosing' = [choosing EXCEPT ![u] = 0]
    /\ \/ UNCHANGED <<recording, belated>>
       \/ /\ recording' = [recording EXCEPT ![u] = choosing[u]]
          /\ belated' = [belated EXCEPT ![u] =
                \A v \in DOMAIN sessions[u] : sessions[u][v].call # choosing[u]]
    /\ UNCHANGED <<sessions, active, keyboard, media, hanging, netVars,
                   historyVars>>

-----------------------------------------------------------------------------
(* WebRTC's thread. *)

\* AnnounceLocalDescription: an offer, or an answer to the other's offer.
\* Behind a hangup of the same session an offer comes too late.
AnnounceLocalDescription(u, v) ==
    /\ Has(u, v) /\ sessions[u][v].toSend # "none"
    /\ LET s == sessions[u][v]
       IN /\ Send(u, v, s.toSend, IF s.toSend = "offer" THEN s.call ELSE s.peer)
          /\ crossed' = IF s.toSend = "offer" /\ hanging[u] /\ active[u] = v
                        THEN crossed \cup {{u, v}} ELSE crossed
    /\ sessions' = [sessions EXCEPT ![u][v].toSend = "none"]
    /\ UNCHANGED <<dialogVars, posted, calls, faults, ended, lost, left>>

\* One candidate stands for all of a session.
OnIceCandidate(u, v) ==
    /\ Has(u, v) /\ sessions[u][v].toSend = "none" /\ sessions[u][v].ice
    /\ Send(u, v, "ice", sessions[u][v].call)
    /\ sessions' = [sessions EXCEPT ![u][v].ice = FALSE]
    /\ UNCHANGED <<dialogVars, posted, historyVars>>

\* The connection comes up when both descriptions have been applied.
Connected(u, v) ==
    /\ Has(u, v) /\ sessions[u][v].state \in {"Connecting", "Disconnected"}
    /\ sessions[u][v].toSend = "none" /\ sessions[u][v].peer # 0
    /\ sessions' = [sessions EXCEPT ![u][v].state = "Connected"]
    /\ UNCHANGED <<dialogVars, netVars, historyVars>>

\* It breaks, or fails for good; a negotiation may fail from the start.
Broken(u, v, s) ==
    /\ Has(u, v) /\ Fault
    /\ IF s = "Failed" THEN sessions[u][v].state \in Live
                       ELSE sessions[u][v].state = "Connected"
    /\ sessions' = [sessions EXCEPT ![u][v].state = s]
    /\ posted' = [posted EXCEPT ![u] = Append(@, [kind |-> s, from |-> v])]
    /\ UNCHANGED <<dialogVars, wire, calls, ended, crossed, lost, left>>

OnPeerConnectionState(u, v) ==
    Connected(u, v) \/ \E s \in {"Disconnected", "Failed"} : Broken(u, v, s)

\* The server and the receiver's connection thread; the message is posted.
Deliver(u, v) ==
    /\ wire[u][v] # <<>>
    /\ wire' = [wire EXCEPT ![u][v] = Tail(@)]
    /\ posted' = [posted EXCEPT ![v] = Append(@, Head(wire[u][v]))]
    /\ UNCHANGED <<sessions, dialogVars, historyVars>>

-----------------------------------------------------------------------------
(* The dialog takes the next window message. *)

\* The message is taken, and Close may post another.
Take(u, notice) ==
    /\ Free(u) /\ posted[u] # <<>>
    /\ posted' = [posted EXCEPT ![u] = Tail(@) \o notice]

\* It is one of WebRTC's signalling, from v.
Signalled(u, v, kind) ==
    posted[u] # <<>> /\ Head(posted[u]).kind = kind /\ Head(posted[u]).from = v

\* The session for an offer cannot be created.
OfferDropped(u, v) ==
    /\ ~Has(u, v) /\ Take(u, <<>>) /\ Fault
    /\ lost' = [lost EXCEPT ![u] = @ \cup {Head(posted[u]).call}]
    /\ UNCHANGED <<sessions, media, left>>

\* The session is given up, an existing one too.
OfferGivenUp(u, v) ==
    /\ ConfigureFails(u)
    /\ RemoveSession(u, v) /\ Take(u, ClosedNotice(u, v))
    /\ lost' = [lost EXCEPT ![u] = @ \cup {Head(posted[u]).call}
                  \cup (IF Has(u, v) THEN {sessions[u][v].call} ELSE {})]

\* The session that exists takes the offer, or a new one; it will answer.
OfferApplied(u, v) ==
    /\ ConfigureLocalMedia(u) /\ Take(u, <<>>)
    /\ LET call == Head(posted[u]).call
           s == IF Has(u, v) THEN sessions[u][v] ELSE NewSession(u, call)
       IN PutSession(u, v, [s EXCEPT !.peer = call, !.toSend = "answer",
                                     !.state = "Connecting"])
    /\ UNCHANGED <<lost, faults>>

OnOffer(u, v) ==
    /\ Signalled(u, v, "offer") /\ MakeActive(u, v)
    /\ OfferDropped(u, v) \/ OfferGivenUp(u, v) \/ OfferApplied(u, v)
    /\ UNCHANGED <<recording, hanging, fileVars, wire, calls, ended, crossed>>

\* An answer goes to whatever session there is with its sender.
OnAnswer(u, v) ==
    /\ Signalled(u, v, "answer") /\ MakeActive(u, v) /\ Take(u, <<>>)
    /\ sessions' = IF Has(u, v)
                   THEN [sessions EXCEPT ![u][v].peer = Head(posted[u]).call]
                   ELSE sessions
    /\ UNCHANGED <<recording, media, hanging, fileVars, wire, historyVars>>

OnCandidate(u, v) ==
    /\ Signalled(u, v, "ice") /\ MakeActive(u, v) /\ Take(u, <<>>)
    /\ UNCHANGED <<sessions, recording, media, hanging, fileVars, wire,
                   historyVars>>

\* Mutant: the session goes only if it is connected.
OnHangupConnected(u, v) ==
    /\ Signalled(u, v, "hangup") /\ Take(u, <<>>) /\ MakeActive(u, v)
    /\ IF Has(u, v) /\ sessions[u][v].state = "Connected"
       THEN RemoveSession(u, v) /\ StopUnused(u, v)
       ELSE UNCHANGED <<sessions, media, left>>
    /\ recording' = [recording EXCEPT ![u] = 0]
    /\ UNCHANGED <<hanging, fileVars, wire, calls, faults, ended, crossed, lost>>

\* Keyboard control is left on if it was on for this user.
OnHangup(u, v) ==
    /\ Signalled(u, v, "hangup") /\ Take(u, ClosedNotice(u, v))
    /\ keyboard' = IF active[u] = v THEN keyboard
                                    ELSE [keyboard EXCEPT ![u] = 0]
    /\ active' = [active EXCEPT ![u] = Nobody]
    /\ RemoveSession(u, v) /\ StopUnused(u, v)
    /\ recording' = [recording EXCEPT ![u] = 0]
    /\ UNCHANGED <<hanging, fileVars, wire, calls, faults, ended, crossed, lost>>

\* Mutant: the session's own state is not looked at.
IsTerminal(u, v) == Has(u, v) /\ Head(posted[u]).kind # "Disconnected"

\* The session in the state that the message tells of, if it is a last one.
\* (A closed session is removed at once, so that state is Failed.)
IsOver(u, v) == Has(u, v) /\ sessions[u][v].state = Head(posted[u]).kind
                          /\ Head(posted[u]).kind # "Disconnected"

OnSessionState(u, v) ==
    /\ \E s \in {"Disconnected", "Failed", "Closed"} : Signalled(u, v, s)
    /\ keyboard' = IF active[u] = v THEN [keyboard EXCEPT ![u] = 0] ELSE keyboard
    /\ IF IsOver(u, v)
       THEN /\ RemoveSession(u, v) /\ Take(u, ClosedNotice(u, v))
            /\ StopUnused(u, v)
            /\ active' = IF active[u] = v THEN [active EXCEPT ![u] = Nobody]
                                          ELSE active
            /\ lost' = IF sessions[u][v].state = "Failed"
                       THEN [lost EXCEPT ![u] = @ \cup {sessions[u][v].call}]
                       ELSE lost
       ELSE Take(u, <<>>) /\ UNCHANGED <<sessions, media, left, active, lost>>
    /\ UNCHANGED <<recording, hanging, fileVars, wire, calls, faults, ended,
                   crossed>>

Dispatch(u) ==
    \E v \in Users : OnOffer(u, v) \/ OnAnswer(u, v) \/ OnCandidate(u, v)
                     \/ OnHangup(u, v) \/ OnSessionState(u, v)

Button(u) ==
    \/ \E v \in Users : StartSelectedSession(u, v)
    \/ OnBnClickedHangup(u) \/ FinishHangup(u)
    \/ OnBnClickedKeyboardControl(u)
    \/ OnBnClickedRecord(u) \/ FileDialogAnswered(u)

Rtc(u, v) ==
    AnnounceLocalDescription(u, v) \/ OnIceCandidate(u, v)
    \/ OnPeerConnectionState(u, v)

Next ==
    \/ \E u \in Users : Button(u) \/ Dispatch(u)
    \/ \E u, v \in Users : Rtc(u, v) \/ Deliver(u, v)

Spec == Init /\ [][Next]_vars

-----------------------------------------------------------------------------
(* Properties. *)

\* Someone hung up last, all messages have been taken, and yet one of them
\* has a session with the other.
Unreleased(u, v) ==
    u # v /\ {u, v} \in ended /\ Quiet(u, v) /\ ~Released(u, v)

\* ARCHITECTURE.md:45: when either has hung up, both release the session, if
\* no messages have crossed: if no call was begun in the midst of an earlier
\* one, and no offer followed a hangup.  ARCHITECTURE.md:34: a recording ends
\* with the call in which it was begun, unless that call failed, or had ended
\* before the file dialog was answered: the call is not looked for again then
\* (1140-1141), and the recording goes on into the next one.
HangupReleasesUncrossed ==
    \A u, v \in Users :
        /\ Unreleased(u, v) => {u, v} \in crossed
        /\ recording[u] # 0 => \/ recording[u] \in lost[u] \/ belated[u]
                               \/ \E w \in DOMAIN sessions[u] :
                                     sessions[u][w].call = recording[u]

\* If one has a session and the other has none, though all messages have been
\* taken, the other could not set its up, its session failed, or messages
\* crossed; "a delayed Closed notification from an old call must not erase a new
\* session to the same user" (783-785).
HalfOpenByFailureOnly ==
    \A u, v \in Users :
        u # v /\ Has(u, v) /\ ~Has(v, u) /\ Quiet(u, v)
        => {u, v} \in crossed \/ sessions[u][v].call \in lost[v]

\* Where SendRemoteInput (966-972) sends what the user types and clicks.
InputGoesTo(u) ==
    IF keyboard[u] # 0 /\ Has(u, active[u]) THEN sessions[u][active[u]].call
                                            ELSE 0

\* Input reaches no session but the one for which control was switched on,
\* whoever's message makes another user the active one, and whatever calls
\* follow; but see the README on a session given up at a second offer.
InputStaysWithItsCall ==
    \A u \in Users :
        InputGoesTo(u) \in {0, keyboard[u]} \/ keyboard[u] \in lost[u]

\* Capture runs as long as a session sends it, and no longer than some
\* session lasts, except after a set-up that failed.
MediaFollowsSessions ==
    \A u \in Users :
        /\ \A v \in DOMAIN sessions[u] : sessions[u][v].tracks \subseteq media[u]
        /\ media[u] # {} => sessions[u] # <<>> \/ left[u]
=============================================================================
