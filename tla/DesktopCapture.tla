--------------------------- MODULE DesktopCapture ---------------------------
(***************************************************************************)
(* DesktopCaptureManager and DxgiDesktopCapturer: the ui thread starts a   *)
(* capture with the first session that sends the screen and stops it with  *)
(* the last session; a worker thread duplicates the desktop and pushes its *)
(* pictures into the source of a video track.  The ui thread waits up to   *)
(* five seconds for the worker to report whether DXGI could be set up.     *)
(*                                                                         *)
(* They share stop_requested, an atomic, and, under startup_mutex, the     *)
(* report; source and DXGI objects are the worker's while it runs and the  *)
(* ui thread's after the join.  The desktop's pictures are numbered.  DXGI *)
(* and D3D are external: AcquireNextFrame waits for a picture the worker   *)
(* has not seen, the first of a new duplication included; it may say that  *)
(* access is lost, or fail, and so may every other call.                   *)
(***************************************************************************)
EXTENDS Integers

CONSTANTS
    Sizes,       \* sizes of the desktop's picture
    NoTexture,   \* there is no staging texture
    MaxPictures, \* bound: pictures of the desktop
    MaxStarts,   \* bound: captures
    MaxDevices   \* bound: Direct3D devices created

ASSUME CaptureAssumption ==
    /\ {MaxPictures, MaxStarts, MaxDevices} \subseteq Nat \ {0}
    /\ NoTexture \notin [device : Nat, size : Sizes]

VARIABLES
    ui,          \* the ui thread's place in Start and Stop
    track,       \* video_track_, as the number of the capture, and its source
    starts,      \* captures so far
    stopRequested, \* stop_requested
    mutex,       \* the ui thread holds startup_mutex
    startup,     \* startup_complete and startup_success
    worker,      \* the worker thread's place in Run
    initialized, \* its local of that name
    device,      \* device and context, by number; 0 is none
    duplicating, \* duplication exists
    staging,     \* staging_texture, with its size and the device it is of
    due,         \* the clock has reached next_frame_time
    held,        \* the picture acquired and not yet released; 0 is none
    size,        \* its size
    screen,      \* the desktop's picture
    unseen,      \* DXGI has a picture to give
    shown,       \* the last picture pushed into the track
    shownBy,     \* the device it was captured with
    made,        \* devices created so far
    spoiled,     \* a picture of this device could not be used
    broken       \* the capture ended by an error of AcquireNextFrame

uiVars == <<ui, track, starts>>
sharedVars == <<stopRequested, mutex, startup>>
dxgiVars == <<device, duplicating, staging, made, spoiled>>
frameVars == <<due, held, size>>
screenVars == <<screen, unseen>>
outVars == <<shown, shownBy>>
vars == <<uiVars, sharedVars, worker, initialized, dxgiVars, frameVars,
          screenVars, outVars, broken>>

Texture == [device : 1..MaxDevices, size : Sizes]

FlagsOK ==
    {stopRequested, mutex, initialized, duplicating, due, unseen, spoiled,
     broken} \subseteq BOOLEAN

DataOK ==
    /\ ui \in {"idle", "wait", "failed", "join"}
    /\ track \in 0..MaxStarts /\ starts \in 0..MaxStarts
    /\ startup \in {"pending", "success", "failure"}
    /\ worker \in {"none", "init", "report", "loop", "acquire", "acquired",
                   "copied", "recover", "retry", "leave", "ended"}
    /\ {device, made, shownBy} \subseteq 0..MaxDevices
    /\ staging \in Texture \cup {NoTexture}
    /\ {held, shown} \subseteq 0..MaxPictures /\ screen \in 1..MaxPictures
    /\ size \in Sizes

TypeOK == FlagsOK /\ DataOK

Init ==
    /\ ui = "idle" /\ track = 0 /\ starts = 0
    /\ stopRequested = FALSE /\ mutex = FALSE /\ startup = "pending"
    /\ worker = "none" /\ initialized = FALSE
    /\ device = 0 /\ duplicating = FALSE /\ staging = NoTexture
    /\ due = TRUE /\ held = 0 /\ size \in Sizes
    /\ screen = 1 /\ unseen = TRUE
    /\ shown = 0 /\ shownBy = 0
    /\ made = 0 /\ spoiled = FALSE /\ broken = FALSE

-----------------------------------------------------------------------------
(* DXGI. *)

\* Mutant: the staging texture is kept.
StagingKept == staging

\* What ReleaseDxgi leaves of the staging texture.
StagingReleased == NoTexture

ReleaseDxgi ==
    /\ device' = 0 /\ duplicating' = FALSE /\ staging' = StagingReleased
    /\ UNCHANGED <<made, spoiled>>

\* Everything is released first, then set up in an order in which each step
\* may fail: the device may be left, and with it a duplication that describes
\* itself as 0 wide or high.
Initialized ==
    /\ made < MaxDevices /\ made' = made + 1
    /\ device' = made' /\ duplicating' = TRUE
    /\ staging' = StagingReleased
    /\ spoiled' = FALSE

NotInitialized ==
    \/ ReleaseDxgi
    \/ /\ made < MaxDevices /\ made' = made + 1
       /\ device' = made' /\ duplicating' \in BOOLEAN
       /\ staging' = StagingReleased
       /\ UNCHANGED spoiled

-----------------------------------------------------------------------------
(* The ui thread. *)

\* StartPrimaryScreen: the dialog calls it when there is no track.  Source and
\* track are created (without them nothing has happened), the flags are reset
\* and the thread is started.
Start ==
    /\ ui = "idle" /\ track = 0 /\ starts < MaxStarts
    /\ starts' = starts + 1 /\ track' = starts'
    /\ stopRequested' = FALSE /\ startup' = "pending"
    /\ worker' = "init" /\ ui' = "wait" /\ broken' = FALSE
    /\ UNCHANGED <<mutex, initialized, dxgiVars, frameVars, screenVars,
                   outVars>>

Started ==
    /\ ui = "wait" /\ startup = "success" /\ ui' = "idle"
    /\ UNCHANGED <<track, starts, sharedVars, worker, initialized, dxgiVars,
                   frameVars, screenVars, outVars, broken>>

\* wait_for comes back with the mutex: after five seconds, or with a failure.
NotStarted ==
    /\ ui = "wait" /\ startup # "success"
    /\ mutex' = TRUE /\ ui' = "failed"
    /\ UNCHANGED <<track, starts, stopRequested, startup, worker, initialized,
                   dxgiVars, frameVars, screenVars, outVars, broken>>

\* Mutant: the mutex is kept while the worker is joined.
GiveUpLocked ==
    /\ ui = "failed" /\ stopRequested' = TRUE /\ ui' = "join"
    /\ UNCHANGED <<track, starts, mutex, startup, worker, initialized,
                   dxgiVars, frameVars, screenVars, outVars, broken>>

GiveUp ==
    /\ ui = "failed" /\ mutex' = FALSE /\ stopRequested' = TRUE /\ ui' = "join"
    /\ UNCHANGED <<track, starts, startup, worker, initialized, dxgiVars,
                   frameVars, screenVars, outVars, broken>>

\* The last session is gone, or the program ends.
Stop ==
    /\ ui = "idle" /\ track # 0
    /\ stopRequested' = TRUE /\ ui' = "join"
    /\ UNCHANGED <<track, starts, mutex, startup, worker, initialized,
                   dxgiVars, frameVars, screenVars, outVars, broken>>

\* Mutant: the worker is left to itself.
Detach ==
    /\ ui = "join" /\ ui' = "idle" /\ track' = 0 /\ shown' = 0
    /\ UNCHANGED <<starts, sharedVars, worker, initialized, dxgiVars,
                   frameVars, screenVars, shownBy, broken>>

\* Joined; source, DXGI and track are let go.
Join ==
    /\ ui = "join" /\ worker = "ended"
    /\ worker' = "none" /\ ui' = "idle" /\ track' = 0 /\ shown' = 0
    /\ ReleaseDxgi
    /\ UNCHANGED <<starts, sharedVars, initialized, frameVars, screenVars,
                   shownBy, broken>>

UI == Started \/ NotStarted \/ GiveUp \/ Join

-----------------------------------------------------------------------------
(* The worker: Run. *)

WorkerGoes(from, to) == worker = from /\ worker' = to
UiStays == UNCHANGED <<uiVars, sharedVars>>

InitializeDxgi ==
    /\ WorkerGoes("init", "report")
    /\ \/ Initialized /\ initialized' = TRUE /\ unseen' = TRUE
       \/ NotInitialized /\ initialized' = FALSE /\ UNCHANGED unseen
    /\ UiStays /\ UNCHANGED <<frameVars, screen, outVars, broken>>

\* Under the mutex; the ui thread is woken, as its wait tests the report.
Report ==
    /\ WorkerGoes("report", IF initialized THEN "loop" ELSE "ended")
    /\ ~mutex
    /\ startup' = IF initialized THEN "success" ELSE "failure"
    /\ due' = TRUE
    /\ UNCHANGED <<uiVars, stopRequested, mutex, initialized, dxgiVars, held,
                   size, screenVars, outVars, broken>>

\* The loop's condition, then AcquireNextFrame, which may be called with the
\* request coming in between.
TestStop ==
    /\ WorkerGoes("loop", IF stopRequested THEN "leave" ELSE "acquire")
    /\ UiStays /\ UNCHANGED <<initialized, dxgiVars, frameVars, screenVars,
                              outVars, broken>>

AcquireTimesOut ==
    /\ WorkerGoes("acquire", "loop") /\ ~unseen
    /\ UiStays /\ UNCHANGED <<initialized, dxgiVars, frameVars, screenVars,
                              outVars, broken>>

AcquireNextFrame ==
    /\ WorkerGoes("acquire", "acquired") /\ unseen
    /\ held' = screen /\ unseen' = FALSE /\ size' \in Sizes
    /\ UiStays /\ UNCHANGED <<initialized, dxgiVars, due, screen, outVars,
                              broken>>

\* Bound: access is lost while there is a device left to be made.
AccessLost ==
    /\ WorkerGoes("acquire", "recover") /\ made < MaxDevices
    /\ ReleaseDxgi
    /\ UiStays /\ UNCHANGED <<initialized, frameVars, screenVars, outVars,
                              broken>>

\* Any other error ends the capture, and nobody is told.
AcquireFails ==
    /\ WorkerGoes("acquire", "leave") /\ broken' = TRUE
    /\ UiStays /\ UNCHANGED <<initialized, dxgiVars, frameVars, screenVars,
                              outVars>>

\* Mutant: there is no pause before the attempt.
RetryAtOnce ==
    /\ WorkerGoes("recover", IF stopRequested THEN "leave" ELSE "retry")
    /\ UiStays /\ UNCHANGED <<initialized, dxgiVars, frameVars, screenVars,
                              outVars, broken>>

\* RecoverDuplication: the condition, a sleep of 250 ms, longer than the
\* interval between two frames, and another attempt.
TestStopRecovering ==
    /\ WorkerGoes("recover", IF stopRequested THEN "leave" ELSE "retry")
    /\ due' = TRUE
    /\ UiStays /\ UNCHANGED <<initialized, dxgiVars, held, size, screenVars,
                              outVars, broken>>

Recovered ==
    /\ WorkerGoes("retry", "loop") /\ Initialized /\ unseen' = TRUE
    /\ UiStays /\ UNCHANGED <<initialized, frameVars, screen, outVars, broken>>

\* Mutant: one attempt is all.
RecoverOnce ==
    /\ WorkerGoes("retry", "leave") /\ NotInitialized
    /\ UiStays /\ UNCHANGED <<initialized, frameVars, screenVars, outVars,
                              broken>>

NotRecovered ==
    /\ WorkerGoes("retry", "recover") /\ NotInitialized
    /\ UiStays /\ UNCHANGED <<initialized, frameVars, screenVars, outVars,
                              broken>>

\* ReleaseFrame, whatever has become of the picture.
ReleaseFrame(from) ==
    /\ WorkerGoes(from, "loop") /\ held' = 0
    /\ UiStays /\ UNCHANGED <<initialized, size, screenVars, broken>>

\* Too early: the picture is lost.
Throttled ==
    /\ ReleaseFrame("acquired") /\ ~due
    /\ UNCHANGED <<dxgiVars, due, outVars>>

\* No texture, another format, or no staging texture.
Unusable ==
    /\ ReleaseFrame("acquired") /\ due
    /\ staging' \in {staging, NoTexture} /\ spoiled' = TRUE
    /\ UNCHANGED <<device, duplicating, made, due, outVars>>

\* A texture of the same size (and format) is used again.
Fits == staging # NoTexture /\ staging.size = size

EnsureStagingTexture ==
    IF Fits THEN staging ELSE [device |-> device, size |-> size]

CopyResource ==
    /\ WorkerGoes("acquired", "copied") /\ due
    /\ staging' = EnsureStagingTexture
    /\ UiStays /\ UNCHANGED <<initialized, device, duplicating, made, spoiled,
                              frameVars, screenVars, outVars, broken>>

\* The copy cannot be mapped, or there is no frame to push it in.
NotPushed ==
    /\ ReleaseFrame("copied")
    /\ due' \in BOOLEAN /\ (due' => due) /\ spoiled' = TRUE
    /\ UNCHANGED <<device, duplicating, staging, made, outVars>>

OnCapturedFrame ==
    /\ ReleaseFrame("copied")
    /\ shown' = held /\ shownBy' = device /\ due' = FALSE
    /\ UNCHANGED dxgiVars

Leave ==
    /\ WorkerGoes("leave", "ended") /\ ReleaseDxgi
    /\ UiStays /\ UNCHANGED <<initialized, frameVars, screenVars, outVars,
                              broken>>

Worker ==
    \/ InitializeDxgi \/ Report \/ TestStop
    \/ AcquireTimesOut \/ AcquireNextFrame \/ AccessLost \/ AcquireFails
    \/ TestStopRecovering \/ Recovered \/ NotRecovered
    \/ Throttled \/ Unusable \/ CopyResource \/ NotPushed \/ OnCapturedFrame
    \/ Leave

-----------------------------------------------------------------------------
(* Clock and desktop. *)

FrameInterval ==
    /\ ~due /\ due' = TRUE
    /\ UNCHANGED <<uiVars, sharedVars, worker, initialized, dxgiVars, held,
                   size, screenVars, outVars, broken>>

ScreenChanges ==
    /\ screen < MaxPictures /\ screen' = screen + 1 /\ unseen' = TRUE
    /\ UNCHANGED <<uiVars, sharedVars, worker, initialized, dxgiVars,
                   frameVars, outVars, broken>>

Next == Start \/ Stop \/ UI \/ Worker \/ FrameInterval \/ ScreenChanges

Spec == Init /\ [][Next]_vars

\* Both threads and the clock go on.  That the desktop can be duplicated again
\* some day is not assumed.
FairSpec == Spec /\ WF_vars(UI) /\ WF_vars(Worker) /\ WF_vars(FrameInterval)

-----------------------------------------------------------------------------
(* Properties. *)

\* The dialog's test is VideoTrack(): with a track, there is a worker that has
\* set DXGI up and that goes on, whatever is lost and tried again; only an
\* error of AcquireNextFrame that is not "access lost" leaves a track without
\* one.  Without a track nothing is left of thread, mutex or device.
TrackHasWorker ==
    ui = "idle" =>
        /\ ~mutex
        /\ track # 0 => /\ startup = "success" /\ worker # "none"
                        /\ worker = "ended" => broken
        /\ track = 0 => worker = "none" /\ device = 0 /\ staging = NoTexture

\* A picture is copied only into a texture of its own size and of the device
\* that captured it, and only while a duplication exists, over recoveries and
\* changes of the desktop's size.
CopiesFit ==
    worker = "copied" =>
        duplicating /\ staging = [device |-> device, size |-> size]

\* What the sessions are sent is a track as ScreenTrack says.
Abstract == INSTANCE ScreenTrack WITH
    Tracks <- 1..MaxStarts, Pictures <- 1..MaxPictures
TrackSpec == Abstract!Spec

\* The ui thread gets out of Start and Stop, whether the worker reports in
\* time, too late or never gets DXGI to work.
StartAndStopReturn == ui # "idle" ~> ui = "idle"

\* Each duplication, the first and those after a loss, gives a picture, though
\* the desktop may not change again: the first is never thrown away as coming
\* too early after the last one of the duplication before.
EachDuplicationShows ==
    \A d \in 1..MaxDevices :
        device = d ~> shownBy = d \/ spoiled \/ device # d
=============================================================================
