--------------------------- MODULE VideoRecorder ---------------------------
(***************************************************************************)
(* RemoteVideoRecorder: the UI thread starts and stops recordings, the     *)
(* decoder threads of the sessions push frames, a worker thread writes     *)
(* them to an MP4 file.  They share an atomic flag (recording_), and under *)
(* a mutex a flag (stop_requested_) and a queue of frames; the worker      *)
(* sleeps on a condition variable.                                         *)
(*                                                                         *)
(* A step is one section under the mutex or one access to shared state     *)
(* outside it.  Media Foundation is external: each of its calls may fail.  *)
(* A frame is a record of its number, its size and the decoder it is from. *)
(***************************************************************************)
EXTENDS Integers, Sequences

CONSTANTS
    Decoders,     \* threads that call PushFrame, one per session
    Sizes,        \* frame sizes
    Encodable,    \* those with even width and height
    NoSize,       \* the size of a writer that does not exist
    QueueLimit,   \* the 6 of PushFrame
    MaxFrames,    \* bound: frames pushed in one behaviour
    MaxStarts     \* bound: recordings in one behaviour

ASSUME RecorderAssumption ==
    /\ Encodable \subseteq Sizes /\ NoSize \notin Sizes
    /\ QueueLimit \in Nat \ {0} /\ MaxFrames \in Nat /\ MaxStarts \in Nat

VARIABLES
    ui,             \* the UI thread's place in Start and Stop
    starting,       \* whether Stop was called by Start
    recording,      \* recording_
    stopRequested,  \* stop_requested_
    path,           \* path_, as the number of the recording
    frames,         \* frames_
    worker,         \* the worker thread's place in Run
    frame,          \* the frame the worker has taken
    writer,         \* the size the sink writer was created for
    written,        \* the frames written to each file
    decoder,        \* each decoder's place in PushFrame
    copy,           \* its copy of the frame
    pushed          \* frames pushed so far, for MaxFrames

uiVars == <<ui, starting, path>>
workerVars == <<worker, frame, writer, written>>
decoderVars == <<decoder, copy, pushed>>
vars == <<uiVars, recording, stopRequested, frames, workerVars, decoderVars>>

Frame == [no : 0..MaxFrames, size : Sizes, from : Decoders]
Files == 1..MaxStarts

SharedTypeOK ==
    /\ ui \in {"idle", "stop", "notify", "join", "start", "spawn"}
    /\ starting \in BOOLEAN /\ recording \in BOOLEAN
    /\ stopRequested \in BOOLEAN
    /\ path \in 0..MaxStarts
    /\ frames \in Seq(Frame)

WorkerTypeOK ==
    /\ worker \in {"none", "startup", "wait", "asleep", "encode", "leave",
                   "ended"}
    /\ worker = "encode" => frame \in Frame
    /\ writer \in Sizes \cup {NoSize}
    /\ worker \in {"none", "startup", "ended"} => writer = NoSize
    /\ written \in [Files -> Seq(Frame)]

DecoderTypeOK ==
    /\ decoder \in [Decoders -> {"idle", "copied", "notify"}]
    /\ \A d \in Decoders : decoder[d] = "copied" => copy[d] \in Frame
    /\ DOMAIN copy = Decoders
    /\ pushed \in 0..MaxFrames

TypeOK == SharedTypeOK /\ WorkerTypeOK /\ DecoderTypeOK

Init ==
    /\ ui = "idle" /\ starting = FALSE /\ path = 0
    /\ recording = FALSE /\ stopRequested = FALSE /\ frames = <<>>
    /\ worker = "none" /\ frame = <<>> /\ writer = NoSize
    /\ written = [k \in Files |-> <<>>]
    /\ decoder = [d \in Decoders |-> "idle"]
    /\ copy = [d \in Decoders |-> <<>>]
    /\ pushed = 0

\* notify_one and notify_all alike: only the worker ever waits.
Notify ==
    /\ worker' = IF worker = "asleep" THEN "wait" ELSE worker
    /\ UNCHANGED <<frame, writer, written>>

-----------------------------------------------------------------------------
(* The UI thread. *)

\* Start while nothing is recorded: it begins with a Stop.
Start ==
    /\ ui = "idle" /\ ~recording /\ path < MaxStarts
    /\ ui' = "stop" /\ starting' = TRUE
    /\ UNCHANGED <<path, recording, stopRequested, frames, workerVars,
                   decoderVars>>

\* Stop does its steps whether anything is recorded or not.
Stop ==
    /\ ui = "idle"
    /\ ui' = "stop" /\ starting' = FALSE /\ recording' = FALSE
    /\ UNCHANGED <<path, stopRequested, frames, workerVars, decoderVars>>

StopRequest ==
    /\ ui = "stop" /\ ui' = "notify"
    /\ stopRequested' = TRUE /\ frames' = <<>>
    /\ UNCHANGED <<starting, path, recording, workerVars, decoderVars>>

\* Mutant: nobody is notified.
StopSilently ==
    /\ ui = "notify" /\ ui' = "join"
    /\ UNCHANGED <<starting, path, recording, stopRequested, frames,
                   workerVars, decoderVars>>

StopNotify ==
    /\ ui = "notify" /\ ui' = "join"
    /\ Notify
    /\ UNCHANGED <<starting, path, recording, stopRequested, frames,
                   decoderVars>>

\* Mutant: the worker is detached and goes on by itself.
StopDetach ==
    /\ ui = "join"
    /\ ui' = IF starting THEN "start" ELSE "idle"
    /\ UNCHANGED <<starting, path, recording, stopRequested, frames,
                   workerVars, decoderVars>>

StopJoin ==
    /\ ui = "join" /\ worker \in {"none", "ended"}
    /\ worker' = "none"
    /\ ui' = IF starting THEN "start" ELSE "idle"
    /\ UNCHANGED <<starting, path, recording, stopRequested, frames, frame,
                   writer, written, decoderVars>>

StartRecording ==
    /\ ui = "start" /\ ui' = "spawn"
    /\ path' = path + 1 /\ stopRequested' = FALSE /\ frames' = <<>>
    /\ recording' = TRUE
    /\ UNCHANGED <<starting, workerVars, decoderVars>>

StartWorker ==
    /\ ui = "spawn" /\ ui' = "idle"
    /\ worker' = "startup"
    /\ UNCHANGED <<starting, path, recording, stopRequested, frames, frame,
                   writer, written, decoderVars>>

UI == StopRequest \/ StopNotify \/ StopJoin \/ StartRecording \/ StartWorker

-----------------------------------------------------------------------------
(* A decoder thread: PushFrame. *)

\* The frame is copied on the strength of a first look at recording_.
PushFrame(d, z) ==
    /\ decoder[d] = "idle" /\ recording /\ pushed < MaxFrames
    /\ pushed' = pushed + 1
    /\ copy' = [copy EXCEPT ![d] = [no |-> pushed', size |-> z, from |-> d]]
    /\ decoder' = [decoder EXCEPT ![d] = "copied"]
    /\ UNCHANGED <<uiVars, recording, stopRequested, frames, workerVars>>

\* A full queue loses its oldest frame.
Room == IF Len(frames) >= QueueLimit THEN Tail(frames) ELSE frames

\* Under the mutex, after a second look.
Enqueue(d) ==
    /\ decoder[d] = "copied" /\ recording /\ ~stopRequested
    /\ frames' = Append(Room, copy[d])
    /\ decoder' = [decoder EXCEPT ![d] = "notify"]
    /\ UNCHANGED <<uiVars, recording, stopRequested, workerVars, copy, pushed>>

Discard(d) ==
    /\ decoder[d] = "copied" /\ (~recording \/ stopRequested)
    /\ decoder' = [decoder EXCEPT ![d] = "idle"]
    /\ UNCHANGED <<uiVars, recording, stopRequested, frames, workerVars, copy,
                   pushed>>

\* Mutant: only a frame behind another one is announced.
PushNotifySecond(d) ==
    /\ decoder[d] = "notify"
    /\ decoder' = [decoder EXCEPT ![d] = "idle"]
    /\ IF Len(frames) > 1 THEN Notify ELSE UNCHANGED workerVars
    /\ UNCHANGED <<uiVars, recording, stopRequested, frames, copy, pushed>>

PushNotify(d) ==
    /\ decoder[d] = "notify"
    /\ decoder' = [decoder EXCEPT ![d] = "idle"]
    /\ Notify
    /\ UNCHANGED <<uiVars, recording, stopRequested, frames, copy, pushed>>

Decoder(d) == Enqueue(d) \/ Discard(d) \/ PushNotify(d)

-----------------------------------------------------------------------------
(* The worker thread: Run. *)

WorkerGoes(place) == worker' = place

Quiet == UNCHANGED <<uiVars, stopRequested, decoderVars>>

Startup ==
    /\ worker = "startup" /\ WorkerGoes("wait")
    /\ Quiet /\ UNCHANGED <<recording, frames, frame, writer, written>>

StartupFails ==
    /\ worker = "startup" /\ WorkerGoes("ended")
    /\ recording' = FALSE
    /\ Quiet /\ UNCHANGED <<frames, frame, writer, written>>

\* The wait: its condition is tested, and the worker falls asleep, under the
\* mutex.  A sleeping worker may also wake for no reason.
Sleep ==
    /\ worker = "wait" /\ ~stopRequested /\ frames = <<>>
    /\ WorkerGoes("asleep")
    /\ Quiet /\ UNCHANGED <<recording, frames, frame, writer, written>>

SpuriousWakeup ==
    /\ worker = "asleep" /\ WorkerGoes("wait")
    /\ Quiet /\ UNCHANGED <<recording, frames, frame, writer, written>>

TakeFrame ==
    /\ worker = "wait" /\ ~stopRequested /\ frames # <<>>
    /\ frame' = Head(frames) /\ frames' = Tail(frames)
    /\ WorkerGoes("encode")
    /\ Quiet /\ UNCHANGED <<recording, writer, written>>

SeeStop ==
    /\ worker = "wait" /\ stopRequested
    /\ WorkerGoes("leave")
    /\ Quiet /\ UNCHANGED <<recording, frames, frame, writer, written>>

CreateWriter ==
    /\ worker = "encode" /\ writer = NoSize /\ frame.size \in Encodable
    /\ writer' = frame.size
    /\ Quiet /\ UNCHANGED <<recording, frames, worker, frame, written>>

\* A frame of another size, or without all its pixels.
SkipFrame ==
    /\ worker = "encode" /\ writer # NoSize
    /\ WorkerGoes("wait")
    /\ Quiet /\ UNCHANGED <<recording, frames, frame, writer, written>>

\* Mutant: the sizes are not compared.
WriteAnySize ==
    /\ worker = "encode" /\ writer # NoSize
    /\ written' = [written EXCEPT ![path] = Append(@, frame)]
    /\ WorkerGoes("wait")
    /\ Quiet /\ UNCHANGED <<recording, frames, frame, writer>>

WriteSample ==
    /\ worker = "encode" /\ writer = frame.size
    /\ written' = [written EXCEPT ![path] = Append(@, frame)]
    /\ WorkerGoes("wait")
    /\ Quiet /\ UNCHANGED <<recording, frames, frame, writer>>

\* No writer for the first frame, or a failure while a sample is written.
EncodeFails ==
    /\ worker = "encode" /\ writer \in {NoSize, frame.size}
    /\ WorkerGoes("leave")
    /\ Quiet /\ UNCHANGED <<recording, frames, frame, writer, written>>

\* Mutant: recording_ stays set when the worker ends.
LeaveFlag ==
    /\ worker = "leave" /\ WorkerGoes("ended")
    /\ writer' = NoSize
    /\ Quiet /\ UNCHANGED <<recording, frames, frame, written>>

\* The file is finalized, then recording_ reset.
Leave ==
    /\ worker = "leave" /\ WorkerGoes("ended")
    /\ writer' = NoSize /\ recording' = FALSE
    /\ Quiet /\ UNCHANGED <<frames, frame, written>>

Worker ==
    \/ Startup \/ StartupFails \/ Sleep \/ TakeFrame \/ SeeStop
    \/ CreateWriter \/ SkipFrame \/ WriteSample \/ EncodeFails \/ Leave

Next ==
    \/ Start \/ Stop \/ UI \/ Worker \/ SpuriousWakeup
    \/ \E d \in Decoders : Decoder(d) \/ \E z \in Sizes : PushFrame(d, z)

Spec == Init /\ [][Next]_vars

\* Every thread that can take a step of its own takes it some day; nobody has
\* to start, stop or push, and no wakeup comes for no reason.
FairSpec ==
    /\ Spec /\ WF_vars(UI) /\ WF_vars(Worker)
    /\ \A d \in Decoders : WF_vars(Decoder(d))

-----------------------------------------------------------------------------
(* Properties. *)

\* The queue PushFrame keeps never exceeds its limit, however many decoders
\* push while the worker encodes.
QueueBounded == Len(frames) <= QueueLimit

\* Whenever the UI thread is free to look, recording_ set means that a worker
\* is there to record: neither a failure of Media Foundation nor the end of
\* the worker leaves the button at "stop" with nothing recorded.
RecordingIsAlive ==
    ui = "idle" /\ recording => worker \notin {"none", "ended"}

\* Every file has frames of one size, and those of one decoder in the order
\* in which it pushed them, though the queue drops frames and the recorder
\* skips some.
InOrder(s) == \A i, j \in DOMAIN s : i < j =>
    /\ s[i].size = s[j].size
    /\ s[i].from = s[j].from => s[i].no < s[j].no

FilesInOrder == \A k \in Files : InOrder(written[k])

\* The three threads together implement a sequence of recordings, each with a
\* file of its own that only grows while it is open.
Working == worker \notin {"none", "ended"}
Abstract == INSTANCE Recording WITH
    Frames <- Frame, None <- 0,
    open <- IF Working THEN path ELSE 0,
    files <- written
RecordingSpec == Abstract!Spec

\* Stop, and the Stop in Start, always come back: the worker gets to see the
\* request however it is interleaved with the wait.
StopReturns == ui # "idle" ~> ui = "idle"

\* A queued frame does not wait for ever while a worker is there.
FramesAreTaken == frames # <<>> ~> (frames = <<>> \/ ~Working)
=============================================================================
