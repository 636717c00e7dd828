# The remote-control system in TLA+

Two Windows clients connect through a small signalling server, set up a WebRTC
session, and one of them then shows its screen and takes keyboard and mouse input
from the other. These modules model the parts of that program in which threads,
messages and failures meet, state what they are to guarantee, check it with TLC
on small instances and prove with TLAPS, for instances of any size, all of it that is not liveness.

`D` below is `src/RemoteControl_rtc/RemoteControl_rtc/`, `Dlg` is
`D/RemoteControl_rtcDlg.cpp`. `PROJECT.json` has, for every definition, the lines
it models; for every property, the run that checks it and a mutant of the code's
model that violates it.

## 1. The system

| component | state | operations | talks to |
|---|---|---|---|
| signalling server (`SignalingServer/main.cpp`) | `g_clients`, each with a receive and a send buffer; `g_users`, from id to connection; `g_stopping` | one select loop: accept, read lines, route (ping, login, messages), write, disconnect, shut down | clients, over TCP, one JSON object per line |
| `SignalingClient` | socket, mutex, `connected_`, `stop_requested_`, worker thread | `Connect`, `Disconnect`, `Send` (any thread), `Run` (resolve, connect, log in, receive, pass lines on) | server; dialog, by posted window messages |
| dialog (`RemoteControl_rtcDlg`) | active user, keyboard control, shown state, recorder, capture managers | buttons, `DispatchSignalingMessage`, `OnSessionState`, timers, `OnDestroy` | everything, on the ui thread |
| `SessionManager` | map from user to session | create, find, remove, close all, pass the permission on | dialog |
| `PeerSession` | `state_`, `closed_`, local description and candidates not yet announced, remote candidates not yet usable, callback | `CreateOffer`, `ApplyRemoteOffer`, `ApplyRemoteAnswer`, `AddRemoteCandidate`, `Close`, the observer's callbacks | dialog (ui thread), WebRTC (its own thread) |
| `RemoteControlChannel` | data channel, permission, capability and round trip | send inputs and pings; `OnMessage` | the other side's channel, `InputInjectorWin` |
| `InputInjectorWin` | none | compute the desktop position, `SendInput` | Windows |
| `VideoRenderWnd`, `RemoteVideoRenderer` | posted frames, target window, full-screen view, scale | `Submit`, `OnFrame`, full screen, input forwarding | decoder threads, ui thread |
| `RemoteVideoRecorder` | `recording_`, `stop_requested_`, queue, worker, file | `Start`, `Stop`, `PushFrame`, `Run` | decoders, ui thread, Media Foundation |
| `DesktopCaptureManager`, `DxgiDesktopCapturer`, `LocalAudioManager` | a track each, a capture thread | start, stop, capture and recover | dialog, DXGI, WebRTC |
| `SignalingProtocol` (and the server's and `SignalingClient`'s own helpers) | none | write a message as a line of JSON, find a field in one | dialog, sessions, server |
| `WebRtcEngine`, application start, smoke test | — | — | — |

What is hard here. Three kinds of thread work in a client: the ui thread, WebRTC's,
and threads of its own (socket worker, capture, recorder, decoders). Window
messages posted from the others are handled later, when the session they speak of
may be gone. Sessions are known by user name only, and signalling messages carry
no call: a message of one call can meet the session of the next. The server
reuses socket handles, and logs users in and out in the middle of an iteration.
Calls into WebRTC and Media Foundation fail. Buffers have limits. `Connect`,
`OnDestroy` and `Stop` wait for threads.

What makes each part correct:

- server: the registry names live connections; messages go to the user they name;
  everybody's list of users becomes right; a connection that ended is erased;
- signalling client: lines stay whole in both directions, closed sockets are not
  used, the ui thread does not hang, and the window shows the true state;
- session: descriptions go before candidates, no candidate is lost or added twice
  on either side, failures are reported, a closed session is silent;
- channel: what the user does arrives once, in order, at its place, and only as
  long as it is permitted;
- calls: a hangup releases both sides, news, input, recording and capture of one
  call do not reach into another;
- recorder: files hold what was pushed, in order; `Stop` returns;
- capture: a track has a worker behind it, pictures are copied only where they fit,
  and `Start` and `Stop` return whatever DXGI does;
- view: pictures do not go back, none is left after a hangup, frames go to windows
  that exist, what is presented is the newest picture, and what is held down on the
  other side is what the user holds down;
- numbers (statistics, coordinates, pixels, packets): in range for every input.

## 2. The modules

| module | what it models | composed of |
|---|---|---|
| `UserDirectory` | abstract: who owns a user id, claimed when free, released by its owner | |
| `SignalingServer` | the select loop down to the single line read and written; clients and network as environment | implements `UserDirectory` |
| `Recording` | abstract: one file open at a time, begun empty, grown only while open | |
| `VideoRecorder` | ui thread, worker and any number of decoders over one mutex and condition | implements `Recording` |
| `SignalingClient` | one client's connection: ui thread, WebRTC's thread, worker, server | |
| `PeerSession` | one session: ui thread against WebRTC's, operation by operation | |
| `ControlPacket` | the packed argument of packet 5 | |
| `RemoteControlChannel` | both ends of a data channel: inputs, pings, permission, injection | `ControlPacket` |
| `CallProtocol` | any number of dialogs with their session maps, ordered delivery between them | the results of the others, see below |
| `ScreenTrack` | abstract: one track at a time, its picture only moves forward | |
| `DesktopCapture` | ui thread and capture thread, DXGI losing the desktop or failing at any call | implements `ScreenTrack` |
| `VideoView` | decoders of all sessions, the dialog's window and the full-screen one, mouse and keyboard | |
| `VideoDrawing` | one window's Direct3D device, texture and presentation | beside `VideoView` in `MCVideoView` |
| `SignalingText` | the text of messages: writing, escaping, the server's insertions, finding fields | evaluated in `MCSignalingServer` |
| `MediaStats` | what libwebrtc's reports become and what the dialog shows of two samples | evaluated in `MCPeerSession` |
| `MediaSetup` | ICE servers from the settings, order of codecs, limits of encodings | evaluated in `MCPeerSession` |
| `PixelFormat` | BGRA to I420 in the capturer and back in the renderer | evaluated in `MCDesktopCapture` |
| `PointerGeometry` | place of the picture; window point to 16-bit coordinate to desktop position | |
| `...Proofs` | the theorems about the module they are named after, and about the operators it uses | |
| `MC...` | constants for TLC: model values, traffic, symmetry | |

State and actions follow the code: a variable is a member (its comment names it),
an action is what a thread does between two points where another one can come in —
a lock taken or released, a flag read, a socket call, a posted message. Code that
runs under one lock, or on the ui thread without a message loop in between, is one
action.

How the modules fit together. `CallProtocol` does not contain the state of the
others; it uses what they guarantee: ordered delivery between two users
(`SignalingServer`: `NoMisdelivery`, one buffer per client) and, within a session,
a description before its candidates and silence after `Close` (`PeerSession`:
`SdpThenAllIce`, `SilentWhenClosed`). `RemoteControlChannel` gets its permission as
`PeerSession::OnDataChannel` and `SetRemoteControlAuthorized` pass it on. The track
that `CallProtocol` has as one of its media is `ScreenTrack`'s; what `VideoView` sends
is what `RemoteControlChannel` carries; a user is released in `VideoView` by the same
handlers as in `CallProtocol`.

### SignalingServer

`pc` and `cur` say where the loop is and which client it serves, `readable`,
`writable` and `disconnected` what is left of the iteration; `clients`, `users`,
`userId`, `sendBuf` are the program's data, `backlog`, `inbox`, `ended`, `view` those of
network and clients. `SelectReady` chooses any subset of the sockets that are
ready; `ReadLine` takes the client's next line and routes it at once;
`DisconnectClient` erases the connection and broadcasts. A handle may be accepted
again as soon as it is closed. Lines differ in length: a buffer with something in it may
refuse a long line and still take a short one (`MayRefuse`). Two ghosts: `refused` are clients that missed a
presence line because their buffer was full, `quiet` ids whose login was never
broadcast.

### SignalingClient

`ui` and `worker` are the two threads' places, `socket`/`mutex`/`own` the handle
that is shared and the worker's own, `open` and `dead` the sockets the system has
open or shut. `Send` blocks with the mutex held until the server takes the line or
the socket dies. `posted` are window messages; `shown` is what the dialog shows. What the
server sends arrives in numbered pieces, any of which may end a line: a `recv` takes any number
of them, `pending` keeps what is not yet a line, and `passed` is what the callback got, piece
by piece with the place where its lines end.

### PeerSession

`place` says what each thread is doing; `pc` is the libwebrtc connection with the
operations it has been asked for (each may succeed or fail, in order);
`outbox`/`toAdd` are copies made under the mutex and used after it is released,
which is where the interesting interleavings are. `closeWaits` is a constant of
the behaviour: whether the wrapper's `Close` waits for an observer callback that
runs. The repository does not contain the wrapper's source, so both are checked;
two properties need the first. A callback that uses `peer_connection_` after `Close` has
cleared it (582, 601, 602, 661) is undefined behaviour: in the model either nothing comes of it,
or it is the last thing that thread does (`DereferenceNull`); the properties hold either way.

### RemoteControlChannel and ControlPacket

Packets on their way in `wire`, one sequence for each direction; `near` controls,
`far` is controlled. `inHand` is the packet that has passed the permission check
and is not yet injected. The box may be used at any time, also while `OnDataChannel` makes
the channel; the ghost `raced` is set when that happens between its read of the session's
flag and its store, and cleared when the box is used again (section 5). An older build at `far` does not know packet 5.

### CallProtocol

A dialog's handlers are one action each, except `OnBnClickedHangup`, whose `Send`
WebRTC's thread can come behind, and `OnBnClickedRecord`, whose file dialog dispatches
messages until it is answered (`choosing`, `FileDialogAnswered`); the dialog's own buttons are
disabled meanwhile. Calls have numbers that no guard looks at: they
say which call a session, a message, keyboard control and a recording belong to.
The ghosts: `ended`, pairs whose last call was hung up; `crossed`, pairs of whom
one began a call in the midst of another, or sent an offer behind a hangup;
`lost`, calls of which a user lost its session without any hangup (set-up failed,
connection failed); `belated`, users whose recording was begun when its call had ended; `left`, users whose set-up failed and may have left a capture
on. Only states that change something (Disconnected, Failed, Closed) are posted, and
to those whose state they can change; texts are left out.

### VideoRecorder

Frames carry decoder, number and size. The wait of the worker is two steps, test
and sleep, with spurious wakeups. `PushFrame` is three: the look at `recording_` with
the copy, the push under the mutex after a second look, and the notification. Media Foundation may fail
at start, when the writer is created, and with every sample.

### DesktopCapture

`ui` is the place in `Start` and `Stop`, `worker` the one in `Run`, `mutex` whether
`Start`'s wait has come back with `startup_mutex` held, `startup` the report,
`device`, `duplicating` and `staging` the objects of Direct3D, `track` the track the
dialog has. The desktop has numbered pictures and changes its size. Every call
may fail; access may be lost at any time. The time between two pictures is one
step of a clock, `FrameInterval`. Ghosts: `broken`, an error that cannot be recovered
from; `shownBy` and `spoiled`, whether a duplication has pushed a picture or got
one it could not use.

### VideoView and VideoDrawing

In `VideoView`, `posted` is the ui thread's queue of `WM_VIDEO_FRAME` messages, which
`OnFrame` takes out of turn with `PeekMessage`; `target` is what each session's
renderer posts to, `inHand` the frame a decoder converts, with the target it read
before. `ExitFullscreen` is three steps, between which decoders post. `pressed` is what
the user holds, `held` what the other side has been told; `alt` says that keys come as system
keys, `clicked` which button's next press would come as a double click without handler (`Doubles`
are the buttons that have one). Each exception of a property is
a ghost set in the one action where it happens: `strayed`, `overtaken`, `failed`, `excused`.

`VideoDrawing` has a window's kept picture and its device: the size of the swap chain's
buffers, the sizes kept of the texture, and the texture with the picture it holds. `OnPaint` is one
action with three outcomes, a picture copied and presented, the old texture
presented again, or a failure at any call. The two share no variable; `MCVideoView`
runs either.

### Modules without state

`SignalingText`, `MediaStats`, `MediaSetup`, `PixelFormat`, `PointerGeometry` and
`ControlPacket` are operators, one per function of the code. In a text, words and
special characters are what is told apart; in the statistics, reports are records
with the members that are there, and numbers are integers (microseconds,
hundredths of a percent), so that a quotient is rounded down where the code has a
double. What they do is checked in two ways: theorems for every input (section
4), and ASSUMEs over bounded inputs in the MC modules, which TLC evaluates before a run.

## 3. The runs

| run | instance | shows |
|---|---|---|
| `server_routing` | 3 handles, 2 of them clients at a time, 2 ids, 3 lines, 3 connects, buffers of 2 lines | `RegistryConsistent`, `NoMisdelivery`, `PresenceConverges` (senders are known included), and that the registry implements `UserDirectory` |
| `server_liveness` | 2 handles, 2 lines (pings, logins, oversized), buffers of 1 line | `WithinLimits`; `EndedClientLeaves`, `QueueDrains` |
| `client` | 2 connects, 2 addresses, lines of 2 parts, 2 pieces arriving, any of which ends a line | `LinesWhole`, `SocketsAreSound`, `EveryLinePassed`, `ShownIsTrue`, `DisconnectReturns` |
| `session` | 2 candidates each way, 2 negotiations, 1 answer, 1 state change, any failure | `SdpThenAllIce`, `RemoteCandidatesKept`, `LastNewsIsState`, `SilentWhenClosed`, `NegotiationEnds` |
| `session_glare` | 2 negotiations, no candidates | `AnswersAreAnswers` is violated |
| `channel_inputs` | 2 inputs of every kind, box used once, a ping, a clock of 3 values, mouse moved at far | `AppliedFaithfully`, `AtMostOneLate`, `AuthorizationSettles`, `RttIsElapsed` |
| `channel_choice` | the box used while the channel is made | `ControlIsAuthorized` is violated |
| `call_redial` | 2 users, 2 calls in either direction, 1 failure, input and recording | `HangupReleasesUncrossed`, `HalfOpenByFailureOnly` |
| `call_conference` | 3 users, two call the third, candidates | `InputStaysWithItsCall`, `MediaFollowsSessions` |
| `recorder` | 2 decoders, 3 frames of 3 sizes, 2 recordings, queue of 2 | `RecordingIsAlive`, `FilesInOrder`, `StopReturns`, `FramesAreTaken`, and that it implements `Recording` |
| `capture` | 2 captures, 4 pictures of 2 sizes, 4 devices | `TrackHasWorker`, `CopiesFit`, `StartAndStopReturn`, `EachDuplicationShows`, and that it implements `ScreenTrack` |
| `view` | 2 users, 3 frames, full screen twice; or 1 frame, full screen once and input with 2 buttons, one without a handler for double clicks, a key and Alt, up to the first release that may be lost; or a window drawing 3 pictures of 2 sizes | `PictureForward`, `NothingShownAfterHangup`, `TargetsExist`, `HeldIsPressed`; `ShownIsFrame` |

Evaluated with the runs, over bounded inputs:

- server's runs (`MCSignalingServer`): descriptions, candidates, logins and lists of
  users are read as they were written, through the server's insertion, for texts of
  quotes, backslashes, line ends, braces and names of fields; `NamesAreMistaken` says
  what is not;
- session's runs (`MCPeerSession`): the pair of the statistics is the first of the
  best; TURN is used with both credentials or not at all, and shown accordingly; no
  codec is lost and ties keep their order;
- `capture` (`MCDesktopCapture`): each byte of a chroma plane is written by one
  block, for sides of 1 to 5; a picture of one colour survives both conversions within 3 of 255.

Why the bounds are enough. Each instance lets the hazards of its part happen: a
handle of the server is closed, reused and belongs to a third connection while the
first user's lines still wait; two candidates have an order and a middle in which
the other thread can come; two calls between the same users are what it takes for
messages of one to meet the session of the next, three users for one of them to
have another session; two pieces are half a line and the other half, a line and the
beginning of the next, or two lines, in one `recv` or two; two connects let the end of one meet the beginning of the
other; a queue of two frames is full while a third is pushed; a ping is under
way when a clock of three ticks comes round; a frame of each user is in a decoder's
hand while full screen is left, and a third is newer than both; a second capture
begins with a device the first has lost, and four devices are what two captures with a
recovery each take; three pictures are what it takes for one of a new size, and one
of the old size after it. After a release that may be lost (`excused`, which stays) `HeldIsPressed` says
nothing more, and the view's run does not go on from there (`Unexcused`). Longer behaviours repeat these
meetings. That the sizes do not matter to the safety properties is proved (section 4), and so
are the modules' `TypeOK`s, on which no run spends time.

Deadlock is checked where the system goes on for ever (server, channel). The other
systems may stop: nobody has to call, connect, push or record again.

Fairness is what the scheduling of threads justifies, and no more:

- server: the loop goes on (weak); a client that `Reads` is selected as writable
  and served again and again (strong, as its socket becomes unwritable between);
- client: ui thread and worker go on; a `Send` that blocks ends, as the server reads
  or the socket dies. It is this that `DisconnectReturns` rests on: against a
  server that takes nothing, `send()` under the mutex may hold the ui thread up;
- session: both threads finish what they began, and libwebrtc its operations;
- recorder: ui thread, worker and decoders finish what they began. No frame, no
  wakeup without reason, no start and no stop is ever assumed to happen;
- capture: ui thread and worker finish what they began, and the clock goes on, which
  is what ends both the wait for the report and the one between two pictures. That
  the desktop changes, or can be duplicated again after a loss, is not assumed:
  `EachDuplicationShows` speaks of duplications that there are.

Nobody is assumed to send, call, click, hang up or fail. Channel, `CallProtocol`,
`VideoView` and `VideoDrawing` are checked for safety only.

## 4. The proofs

Every safety property a run checks, invariant, action property or refinement, is also
proved by tlapm, for any number of users, sockets, threads, lines, frames and
candidates, and so is every `TypeOK` of the modules that are run (`VideoDrawing`'s types are
`DrawingTyped`). The assumptions are the ASSUMEs of the modules, which say that limits are natural
numbers, that model values are distinct, and which inputs there are. The theorems about operator
modules stand with the component that uses the operators.

- `SignalingServerProofs`: `TypeCorrect`, `RegistryTheorem`, `DeliveryTheorem`,
  `LimitsTheorem`, `Refinement`, `PresenceTheorem`. The inductive invariant `IInv` adds to the types
  (i) control: the client that is served exists and the loop's place fits it, (ii)
  the registry: ids and connections name each other, (iii) buffers: a forwarded line
  waits only with the client logged in as its addressee, and a closed handle's
  buffer is empty, and (iv) the limit on clients. (ii) is not inductive
  without (i): a client that was disconnected while it was served could log in.
  (iii) needs (ii) at `RouteSignal`, which looks the receiver up in `g_users`, and
  the fact that a login happens on an empty id only. Presence is inductive on top of `IInv`: what
  a client will show after its whole buffer is who is online, whoever comes and goes;
  a line at the end changes nothing that is read before (`ShownAppend`), and
  writing one moves it from the buffer to what is shown (`ShownTail`).
- `SignalingClientProofs`: `ClientControl`, `SocketsAreSoundTheorem`, `LinesWholeTheorem`,
  `EveryLinePassedTheorem`, `ShownIsTrueTheorem`, `ClientTypeCorrect`. `Control` says, for every place of the worker, which of
  `socket_`, `connected_` and the open sockets are set, and that whoever holds the
  mutex in `Send` keeps the worker from going beyond the point where it clears the
  socket. On top of it `LineKept` (what has been sent of the current line ends the wire),
  `PassedKept` (passed and pending pieces are consecutive, and lines end where they ended) and `NewsKept` (the last news posted is the
  state, or the worker is about to post it). For the types, `CountsKept` and `LinesCounted` count what a
  connect may still use, its addresses and its login, before it is used.
- `PeerSessionProofs`: `SessionTypeCorrect`, `RemoteCandidatesKeptTheorem`, `SdpThenAllIceTheorem`,
  `LastNewsIsStateTheorem`, `SilentWhenClosedTheorem`. `Typed` ties the two threads' places, the connection
  and the flags. A remote candidate is added, queued or in a copy of either thread,
  never two of these (`NoneTwice`), never none (`NoneLost`), and never added before a
  description (`NoneEarly`). A local one goes out behind the description and in order: from
  the copies, the list and what WebRTC still gathers, each in front of the next
  (`InOrder`). News: for one negotiation, one thread at a time is changing the state
  (`Alone`), and what it has not yet reported is in its hand (`Told`). Candidates and descriptions of a
  closed session are dropped in each place that could still send them.
- `RemoteControlChannelProofs`: `AuthorizationSettlesTheorem`, `AtMostOneLateTheorem`, `AppliedFaithfullyTheorem`,
  `RttIsElapsedTheorem`, `ChannelTypeCorrect`. The first two name one exception, the race at
  `D/PeerSession.cpp:798` (`raced`), and hold again once the box is used after it. The argument for the inputs is about the
  packets between near's user and far's screen (`Under`): they lie in the order
  of their inputs, a legacy button's move first, behind all that was injected (`OrderKept`); each is
  one of those its input becomes (`CarriedKept`); what was injected is what the input
  said (`EffectsKept`), a legacy button finds its move ahead of it or the pointer there
  (`PlacedKept`), and an input is injected, under way, or one nobody could inject (`NothingLost`). Packet 5
  goes only to a build that knows it (`CapabilityKept`). For the times, a packet's age is the
  difference of two readings of the counter, less one turn if it has come round (`TimesKept`).
- `CallProtocolProofs`: `CallTypeCorrect`, `InputStays`, `MediaFollowsSessionsTheorem`, `HangupReleasesTheorem`,
  `HalfOpenTheorem`. For input: keyboard control is off, or was
  switched on for a call that is lost, or the active user is nobody, or the session
  with the active user is of that very call. A new call cannot break it: either there is a session with that user
  and it keeps its call, or the active user changes (a hangup has set it to
  nobody), which switches control off. `MediaKept` and `RecordingKept` are kept user by user. The hangup needs
  most: `InStep` is about two users who have not crossed and both ways
  between them. On a way there is one offer at most and no hangup before it; who
  offers has the only session; the sessions of both are of one call; who has hung up has none,
  or is about to close it, and the other still hears of it. Neither property about hangups is
  inductive alone, since each speaks of a state in which nothing is on its way.
- `VideoRecorderProofs`: `RecorderTypeCorrect`, `RecordingIsAliveTheorem`,
  `QueueBoundedTheorem`, `FilesInOrderTheorem`, `RecordingRefinement`. `IControl`
  ties `recording_`, the ui thread's place and the worker's (`Joined`), and says that
  files of recordings to come are untouched; `Line` says that what is written, in
  hand, queued and copied of one decoder is in the order it was pushed, as one
  sequence along which frames only move forward. Order in the files alone is not
  inductive: it depends on what is still in the queue.
- `DesktopCaptureProofs`: `CaptureTypeCorrect`, `TrackHasWorkerTheorem`, `CopiesFitTheorem`, `TrackRefinement`. `UiSound`
  and `WorkerSound` say that there is a worker exactly while there is a track, what it has
  reported at each place, and who may ask it to stop; `DxgiSound`, that the loop runs
  only with a duplication and that no staging texture outlives its device (without it
  `CopiesFit` fails at a recovery); `PicturesSound`, that a picture in hand is not older than the one shown.
- `VideoViewProofs`: `ViewTypeCorrect`, `TargetsExistTheorem`, `HeldIsPressedTheorem`, `PictureForwardTheorem`,
  `NothingShownAfterHangupTheorem`, `ShownIsFrameTheorem`. The picture shown, the queue and the decoders' hands
  are in order for each user (`OrderKept`), and of a user whose session has gone, every picture
  that is shown or waits has an empty one behind it (`GoesAway`). That taking one window's
  messages out of the queue leaves the others in order is a lemma about the recursive
  `Others`. `HeldKept`: a button is held only with the mouse captured, a key only with the focus, and
  while the release can be sent. `Fits` and `Holds` do the same for the texture, the sizes kept of
  it and its picture.

Of the operators:

- `ControlPacket`: `PackRoundTrip` and `PackedFits` at the real widths of 16, 8
  and 1 bits in a 32-bit argument.
- `PointerGeometry`: `NormalizedFits`, `SamePixel`, `PrimaryIsNotClamped`,
  `ScaledRectFits`, for all sizes of pictures, windows and screens; on top of four
  lemmas on integer quotients. No run checks this module: its operators have
  no state, and the proofs cover every input.
- `MediaStats`: `LossIsPercentage`, `RatesAreSound`, `BufferTimeIsSound`,
  `FirstShowsNoRate`, `RelayIsShown`. Counters may go back between two samples, and
  nothing may have arrived: that nothing shown is negative, above 100% or the
  result of a division by zero rests on a lemma on quotients and on each
  function's own guard.
- `PixelFormat`: `LumaAndChromaInRange`, `ChromaIndexInPlane`, `GreyStaysGrey`,
  `BgraIsPixel`, `MeanIsPixel`. The coefficients are the code's; each sum is bounded
  before it is divided. The chroma index of any pixel of any picture, odd sides included, is inside
  its plane, as a row times the plane's width is at most that of the last row.

Two definitions the proofs are about are recursive, what a client shows along its
buffer (`ShownAfter`) and what a window leaves in the queue (`Others`). They are functions on the
indices of the sequence, so that they can be shown to exist, and what they compute is proved by
induction, told over the least index that fails (`LeastNumber`, from the well-foundedness of `<`).

Model-checked only: everything about liveness and fairness (hence ENABLED), which
TLAPS cannot treat: `EndedClientLeaves`, `QueueDrains`, `StopReturns`, `FramesAreTaken`, `NegotiationEnds`,
`DisconnectReturns`, `StartAndStopReturn`, `EachDuplicationShows`. `SignalingText` and `MediaSetup` are evaluated
over bounded inputs: they fold, flatten, select from and sort sequences with the
operators of the libraries, for which there are no theorems to cite.

## 5. Where code and documents disagree

Two runs end in a violation, each of what a document says.

1. `session_glare`. `docs/ARCHITECTURE.md:42`: the callee creates an answer. When two users
   call each other at about the same time, `ApplyRemoteOffer` (`D/PeerSession.cpp:592`)
   replaces the callback while the session's own offer is being created, and the
   offer goes out as an answer.
2. `channel_choice`. `SECURITY.md:17`: control must be authorized by the controlled side.
   `OnDataChannel` (798) reads the permission, the user clears the box, and the
   channel then stores what was read: it stays authorized with the box clear, until the box is
   used again, and any number of inputs follow. `AuthorizationSettles` and `AtMostOneLate` except this.

Seen while modelling, without a run of its own:

- `docs/ARCHITECTURE.md:45` has both sides release the session after a hangup. The hangup
  is sent (`Dlg:1055`) before the session is closed, so that WebRTC's thread may send
  the offer behind it, and the callee answers a caller who has gone. This, like
  calls that cross, is `crossed` in `HangupReleasesUncrossed`.
- A login whose snapshot does not fit the send buffer registers the user and returns
  before the broadcast (`main.cpp:204-207`), and `BroadcastPresence` (186) ignores
  what `QueueLine` returns; `docs/ARCHITECTURE.md:40` has everybody told. The user itself may be
  told that the login has failed, as that line is shorter and may fit (223).
  `PresenceConverges` exempts those (`refused`, `quiet`).
- The login need not be the first line of a connection: `connected_` is set
  (`D/SignalingClient.cpp:94`) before `Run` sends it, and WebRTC's thread may send a
  candidate in between, which the server refuses. The model has a behaviour of
  twelve steps that does it.
- `Disconnect` shuts down a handle (38) that it read under the mutex and that the worker may
  have closed since.
- After a remote hangup keyboard control stays on, with its button (`Dlg:690`), while
  `docs/ARCHITECTURE.md:34` has control stopped first. That no input goes astray all the same
  is `InputStaysWithItsCall`, with one exception: when a user whose session sends
  a track is sent a second offer for it, `AddTrack` is refused, the session is
  removed without a word (`Dlg:670`), control stays on, and the next call is
  controlled at once. That is the `lost` in the property.
- Recording is stopped after the session is closed, not before (`Dlg:1056`, 691). It may begin
  when its call is over: the session is looked for before the file dialog (1132) and not
  after it (1141), and a hangup handled in between has nothing to stop. The recording then goes
  on into the next call, against `docs/ARCHITECTURE.md:34`: `belated` in `HangupReleasesUncrossed`.
- Calls that cross leave one side with a session; nothing but its own user, or WebRTC's
  timeout, ends it. Both properties about hangups are therefore limited to pairs
  whose messages have not crossed.
- A set-up that fails on the microphone leaves the screen's capture on (`Dlg:1031`);
  `left` in `MediaFollowsSessions`.
- A recorder's file may begin with one frame of the recording before
  (`D/RemoteVideoRecorder.cpp:93`).
- Leaving full screen retargets the active user's session only (`Dlg:451`). A session that
  became inactive meanwhile posts to a window that is gone: `strayed` in `TargetsExist`.
- `OnFrame` takes the waiting frames of its own window out of turn
  (`D/VideoRenderWnd.cpp:266`), passing those of the other window: `overtaken`.
- A session that fails leaves its last picture in the window (`Dlg:781-800` does not
  clear it): `failed` in `NothingShownAfterHangup`.
- A picture the capture thread gets too early is dropped for good
  (`D/DxgiDesktopCapturer.cpp:223-227`): if the desktop then stays as it is, the other side
  keeps the picture before. `EachDuplicationShows` states the part that holds.
- When a texture cannot be created, the sizes kept are those of the texture before
  (`D/VideoRenderWnd.cpp:421-439`); the next picture of that size is copied to what is
  there now. `misfit` in `VideoDrawing`, reached only when `botched`.
- A presentation dropped because the queue is busy counts as done (486) and is not
  repeated before the next frame, size or repaint: `ShownIsFrame` speaks of what is presented.
- A button, or key, that is down when control is switched off, the call is hung up, another window
  is activated or full screen left, stays down on the other side, and so does the
  second of two buttons after the first is let go (162). A key let go while Alt is down comes as
  WM_SYSKEYUP, for which `D/VideoRenderWnd.cpp:71-91` has no handler, and stays down too; so does one
  held when a click beside the window takes its focus, and a button let go where there is no
  picture. All are `excused` in `HeldIsPressed`.
- For the same reason the second press of a right or middle double click is not sent, though its
  release is (left has a handler for it, 147-158), and F10, which Windows sends as a system key,
  does not reach `OnKeyDown` (227).
- A field of a message is found by its name in quotes, wherever that stands first
  (`D/SignalingProtocol.cpp:9`, `main.cpp:123`). A user called `candidate` gets no candidate, one
  called `fromUserId` cannot be sent any description, one called `userId` spoils the list.
- Statistics are posted with a user's name: the first sample of a call may be compared
  with a late one of the call before (`Dlg:836`). A pair without a round trip time
  replaces the one of the media (`D/PeerSession.cpp:315`).
- WebRTC's callbacks use `peer_connection_` unchecked (`D/PeerSession.cpp:582`, 601, 602, and per
  candidate at 661), which `Close` clears on the ui thread (472).
- `OnDestroy` resets `signaling_client_` (`Dlg:333`) while callbacks on WebRTC's thread
  (612, 676) may still use it, if the wrapper's `Close` does not wait for them.

## 6. What is not modelled

- Log texts, the layout of the window, the socket set-up of the server, name resolution as such.
- Of a session: the requests for statistics and their callbacks, media events, a second
  offer that replaces the renderer. Of the channel: its closing and its event texts.
- The dialog's `OnDestroy` beyond `SignalingClient`: what the end of the program does to calls.
- In `CallProtocol`: messages the server drops (receiver offline, buffer full;
  `login_failed` and `target_offline` have no sender and are ignored, `Dlg:652`, so that
  a caller waits on), and a lost signalling connection.
- libwebrtc, Media Foundation, DXGI, Direct3D, Win32: external, modelled from how the code uses them
  (operations complete or fail, in order; callbacks on one thread).
- Shaders, the sampler; the cursor's shape; overflow of the counters of statistics.
- `WebRtcEngine`, application start, smoke test: no behaviour beyond their call order.
- A client that never stops sending starves the others, as `ReadClient` reads until the
  socket would block (`main.cpp:328`); the bound on lines hides this.

## 7. Plan

Done: `UserDirectory`, `SignalingServer`, `Recording`, `VideoRecorder`, `PeerSession`, `ControlPacket`,
`RemoteControlChannel`, `CallProtocol`, `SignalingClient`, `PointerGeometry`, `ScreenTrack`, `DesktopCapture`,
`VideoView`, `VideoDrawing`, `MediaStats`, `MediaSetup`, `PixelFormat`, `SignalingText`; the proofs of all
safety properties.

Next:

1. Safety that stands behind liveness, as theorems: whoever waits is waited for by a thread
   that can go on (`Stop` and the recorder's worker, `Start` and the capture's, `Disconnect` and
   `Send`), so that what is left to TLC is fairness alone.
2. `MediaSetup` and `SignalingText` with recursive functions in place of folds, and theorems about
   them: no codec is lost, what is written is read.
3. `CallProtocol`: a hangup is heard (liveness), messages the server drops, a lost
   signalling connection, the dialog's `OnDestroy`.
4. Requests for statistics under way when a session ends.
