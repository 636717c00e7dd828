------------------------ MODULE VideoRecorderProofs ------------------------
(***************************************************************************)
(* Theorems about the recorder, for any decoders, sizes and limits.        *)
(*                                                                         *)
(* The argument: a recording is only started once the worker of the last   *)
(* one has been joined (Joined), so path stands still while a worker runs; *)
(* and the frames a worker holds, the queue and the copies form one line   *)
(* behind the frames in the file (Line), ordered decoder by decoder.       *)
(***************************************************************************)
EXTENDS VideoRecorder, SequenceTheorems, TLAPS

\* How far the UI thread has come, the worker and the flag agree.
Joined ==
    /\ ui \in {"start", "spawn"} => worker = "none"
    /\ recording => ui = "spawn" \/ (ui = "idle" /\ Working)
    /\ ui = "start" => path < MaxStarts
    /\ ui \in {"stop", "notify", "join"} /\ starting => path < MaxStarts
    /\ Working \/ ui = "spawn" => path \in Files

\* Files of recordings to come, and the one without a writer, are empty.
Untouched ==
    /\ \A k \in Files : k > path => written[k] = <<>>
    /\ ui = "spawn" => written[path] = <<>>
    /\ Working /\ writer = NoSize /\ worker # "leave" => written[path] = <<>>
    /\ worker = "startup" => writer = NoSize

IControl == TypeOK /\ Joined /\ Untouched

\* The frames on their way, from the open file back to the decoders.
OpenFile == IF Working THEN {written[path][i] : i \in 1..Len(written[path])}
                       ELSE {}
Taken == IF worker = "encode" THEN {frame} ELSE {}
Queued == {frames[i] : i \in 1..Len(frames)}
Copied == {d \in Decoders : decoder[d] = "copied"}

Precedes(f, g) == f.from = g.from => f.no < g.no

\* Of every decoder, the frames of each station are older than those of the
\* stations behind it.
Line ==
    /\ \A f \in OpenFile \cup Taken \cup Queued : f \in Frame /\ f.no <= pushed
    /\ \A d \in Copied : copy[d] \in Frame /\ copy[d].no <= pushed
    /\ \A d \in Copied : copy[d].from = d
    /\ \A f \in OpenFile, g \in Taken \cup Queued : Precedes(f, g)
    /\ \A f \in Taken, g \in Queued : Precedes(f, g)
    /\ \A f \in OpenFile \cup Taken \cup Queued, d \in Copied :
          Precedes(f, copy[d])
    /\ \A i, j \in 1..Len(frames) : i < j => Precedes(frames[i], frames[j])
    /\ \A f \in OpenFile : f.size = writer
    /\ FilesInOrder

IInv == IControl /\ Line

-----------------------------------------------------------------------------
LEMMA InitControl == Init => IControl
<1> SUFFICES ASSUME Init PROVE IControl
  OBVIOUS
<1>0. <<>> \in Seq(Frame)
  OBVIOUS
<1>1. SharedTypeOK
  <2>1. frames \in Seq(Frame)
    BY <1>0 DEF Init
  <2>2. path \in 0..MaxStarts
    BY RecorderAssumption DEF Init
  <2> QED
    BY <2>1, <2>2 DEF Init, SharedTypeOK
<1>2. WorkerTypeOK
  BY <1>0 DEF Init, WorkerTypeOK
<1>3. DecoderTypeOK
  BY RecorderAssumption DEF Init, DecoderTypeOK
<1>4. Joined /\ Untouched
  BY RecorderAssumption DEF Init, Joined, Untouched, Working
<1> QED
  BY <1>1, <1>2, <1>3, <1>4 DEF IControl, TypeOK

\* The queue with room for one more frame is what it was, or that without
\* its oldest frame.
LEMMA RoomEffect ==
    ASSUME TypeOK
    PROVE  /\ Room \in Seq(Frame)
           /\ \/ Room = frames
              \/ /\ Len(Room) = Len(frames) - 1
                 /\ \A i \in 1..Len(Room) : Room[i] = frames[i + 1]
           /\ Len(frames) <= QueueLimit => Len(Room) < QueueLimit
<1>1. frames \in Seq(Frame) /\ Len(frames) \in Nat /\ QueueLimit \in Nat \ {0}
  BY RecorderAssumption DEF TypeOK, SharedTypeOK
<1>2. CASE Len(frames) >= QueueLimit
  <2>1. frames # <<>>
    BY <1>1, <1>2
  <2>2. /\ Tail(frames) \in Seq(Frame) /\ Len(Tail(frames)) = Len(frames) - 1
        /\ \A i \in 1..Len(Tail(frames)) : Tail(frames)[i] = frames[i + 1]
    BY <1>1, <2>1, HeadTailProperties
  <2>3. Room = Tail(frames)
    BY <1>2 DEF Room
  <2>4. Len(Room) = Len(frames) - 1
    BY <2>2, <2>3
  <2>5. Len(frames) <= QueueLimit => Len(Room) < QueueLimit
    BY <1>1, <1>2, <2>4
  <2> QED
    BY <2>2, <2>3, <2>4, <2>5
<1>3. CASE ~(Len(frames) >= QueueLimit)
  BY <1>1, <1>3 DEF Room
<1> QED
  BY <1>2, <1>3

LEMMA NextType == IControl /\ [Next]_vars => TypeOK'
<1> SUFFICES ASSUME IControl, [Next]_vars PROVE TypeOK'
  OBVIOUS
<1> USE RecorderAssumption DEF IControl, uiVars, workerVars, decoderVars
<1>0. TypeOK /\ <<>> \in Seq(Frame)
  OBVIOUS
<1>1. CASE Start \/ Stop
  BY <1>0, <1>1 DEF TypeOK, SharedTypeOK, WorkerTypeOK, DecoderTypeOK, Start,
                    Stop
<1>2. CASE UI
  <2>1. SharedTypeOK'
    <3>1. frames' \in Seq(Frame)
      BY <1>0, <1>2 DEF TypeOK, SharedTypeOK, UI, StopRequest, StopNotify,
                        StopJoin, StartRecording, StartWorker
    <3>2. path' \in 0..MaxStarts
      BY <1>0, <1>2 DEF TypeOK, SharedTypeOK, Joined, UI, StopRequest,
                        StopNotify, StopJoin, StartRecording, StartWorker
    <3> QED
      BY <1>0, <1>2, <3>1, <3>2
         DEF TypeOK, SharedTypeOK, UI, StopRequest, StopNotify, StopJoin,
             StartRecording, StartWorker
  <2>2. WorkerTypeOK'
    BY <1>0, <1>2 DEF TypeOK, WorkerTypeOK, Joined, UI, StopRequest,
                      StopNotify, StopJoin, StartRecording, StartWorker,
                      Notify
  <2>3. DecoderTypeOK'
    BY <1>0, <1>2 DEF TypeOK, DecoderTypeOK, UI, StopRequest, StopNotify,
                      StopJoin, StartRecording, StartWorker
  <2> QED
    BY <2>1, <2>2, <2>3 DEF TypeOK
<1>3. ASSUME NEW d \in Decoders, NEW z \in Sizes, PushFrame(d, z)
      PROVE  TypeOK'
  <2>1. pushed' \in 0..MaxFrames
    BY <1>0, <1>3 DEF TypeOK, DecoderTypeOK, PushFrame
  <2>2. [no |-> pushed', size |-> z, from |-> d] \in Frame
    BY <2>1 DEF Frame
  <2>3. DecoderTypeOK'
    BY <1>0, <1>3, <2>1, <2>2 DEF TypeOK, DecoderTypeOK, PushFrame
  <2> QED
    BY <1>0, <1>3, <2>3 DEF TypeOK, SharedTypeOK, WorkerTypeOK, PushFrame
<1>4. ASSUME NEW d \in Decoders, Decoder(d) PROVE TypeOK'
  <2>1. CASE Enqueue(d)
    <3>1. Append(Room, copy[d]) \in Seq(Frame)
      BY <1>0, <2>1, RoomEffect, AppendProperties
         DEF TypeOK, DecoderTypeOK, Enqueue
    <3> QED
      BY <1>0, <2>1, <3>1 DEF TypeOK, SharedTypeOK, WorkerTypeOK,
                              DecoderTypeOK, Enqueue
  <2>2. CASE Discard(d)
    BY <1>0, <2>2 DEF TypeOK, SharedTypeOK, WorkerTypeOK, DecoderTypeOK,
                      Discard
  <2>3. CASE PushNotify(d)
    BY <1>0, <2>3 DEF TypeOK, SharedTypeOK, WorkerTypeOK, DecoderTypeOK,
                      PushNotify, Notify
  <2> QED
    BY <1>4, <2>1, <2>2, <2>3 DEF Decoder
<1>5. CASE Worker \/ SpuriousWakeup
  <2>1. CASE \/ Startup \/ StartupFails \/ Sleep \/ SpuriousWakeup \/ SeeStop
             \/ CreateWriter \/ SkipFrame \/ EncodeFails \/ Leave
    <3>1. WorkerTypeOK'
      BY <1>0, <2>1 DEF TypeOK, WorkerTypeOK, Startup, StartupFails, Sleep,
           SpuriousWakeup, SeeStop, CreateWriter, SkipFrame, EncodeFails,
           Leave, WorkerGoes, Frame
    <3>2. SharedTypeOK' /\ DecoderTypeOK'
      BY <1>0, <2>1 DEF TypeOK, SharedTypeOK, DecoderTypeOK, Startup,
           StartupFails, Sleep, SpuriousWakeup, SeeStop, CreateWriter,
           SkipFrame, EncodeFails, Leave, Quiet
    <3> QED
      BY <3>1, <3>2 DEF TypeOK
  <2>2. CASE TakeFrame
    <3>1. Head(frames) \in Frame /\ Tail(frames) \in Seq(Frame)
      BY <1>0, <2>2, HeadTailProperties DEF TypeOK, SharedTypeOK, TakeFrame
    <3> QED
      BY <1>0, <2>2, <3>1 DEF TypeOK, SharedTypeOK, WorkerTypeOK,
           DecoderTypeOK, TakeFrame, WorkerGoes, Quiet
  <2>3. CASE WriteSample
    <3>1. path \in Files /\ frame \in Frame /\ written[path] \in Seq(Frame)
      BY <1>0, <2>3 DEF TypeOK, WorkerTypeOK, WriteSample, Joined, Working
    <3>2. Append(written[path], frame) \in Seq(Frame)
      BY <3>1, AppendProperties
    <3>3. written' \in [Files -> Seq(Frame)]
      BY <1>0, <2>3, <3>1, <3>2 DEF TypeOK, WorkerTypeOK, WriteSample
    <3> QED
      BY <1>0, <2>3, <3>3 DEF TypeOK, SharedTypeOK, WorkerTypeOK,
           DecoderTypeOK, WriteSample, WorkerGoes, Quiet
  <2> QED
    BY <1>5, <2>1, <2>2, <2>3 DEF Worker
<1>6. CASE UNCHANGED vars
  BY <1>0, <1>6 DEF TypeOK, SharedTypeOK, WorkerTypeOK, DecoderTypeOK, vars
<1> QED
  BY <1>1, <1>2, <1>3, <1>4, <1>5, <1>6 DEF Next

LEMMA NextControl == IControl /\ [Next]_vars => IControl'
<1> SUFFICES ASSUME IControl, [Next]_vars PROVE IControl'
  OBVIOUS
<1>1. TypeOK /\ TypeOK' /\ Joined /\ Untouched
  BY NextType DEF IControl
<1> USE RecorderAssumption DEF Joined, Untouched, Working, uiVars, workerVars,
                               decoderVars
<1>2. CASE Start \/ Stop
  BY <1>1, <1>2 DEF IControl, TypeOK, SharedTypeOK, Start, Stop
<1>3. CASE UI
  BY <1>1, <1>3 DEF IControl, TypeOK, SharedTypeOK, WorkerTypeOK, UI,
       StopRequest, StopNotify, StopJoin, StartRecording, StartWorker, Notify,
       Files
<1>4. ASSUME NEW d \in Decoders,
             Decoder(d) \/ \E z \in Sizes : PushFrame(d, z)
      PROVE  IControl'
  BY <1>1, <1>4 DEF IControl, Decoder, PushFrame, Enqueue, Discard,
                    PushNotify, Notify
<1>5. CASE Worker \/ SpuriousWakeup
  <2>1. CASE WriteSample
    <3>1. /\ path \in Files /\ writer # NoSize
          /\ \A k \in Files : k > path => written'[k] = written[k]
      BY <1>1, <2>1 DEF TypeOK, SharedTypeOK, WorkerTypeOK, WriteSample, Frame
    <3> QED
      BY <1>1, <2>1, <3>1 DEF IControl, WriteSample, WorkerGoes, Quiet
  <2>2. CASE (Worker /\ ~WriteSample) \/ SpuriousWakeup
    BY <1>1, <2>2 DEF IControl, TypeOK, WorkerTypeOK, Worker, Startup,
         StartupFails, Sleep, SpuriousWakeup, TakeFrame, SeeStop,
         CreateWriter, SkipFrame, EncodeFails, Leave, WorkerGoes, Quiet
  <2> QED
    BY <1>5, <2>1, <2>2
<1>6. CASE UNCHANGED vars
  BY <1>1, <1>6 DEF IControl, vars
<1> QED
  BY <1>2, <1>3, <1>4, <1>5, <1>6 DEF Next

\* The places of the ui thread and the worker, recording_ and the files agree at
\* every step of Start, Stop, PushFrame and Run.
THEOREM ControlInvariance == Spec => []IControl
BY InitControl, NextControl, PTL DEF Spec

\* Every variable of the recorder keeps its type.
THEOREM RecorderTypeCorrect == Spec => []TypeOK
<1>1. IControl => TypeOK
  BY DEF IControl
<1> QED
  BY <1>1, ControlInvariance, PTL

\* Whenever the UI thread looks, recording_ means a worker that records.
THEOREM RecordingIsAliveTheorem == Spec => []RecordingIsAlive
<1>1. IControl => RecordingIsAlive
  BY DEF IControl, Joined, Working, RecordingIsAlive
<1> QED
  BY <1>1, ControlInvariance, PTL

\* However many decoders push, the queue keeps to its limit.
THEOREM QueueBoundedTheorem == Spec => []QueueBounded
<1>1. Init => QueueBounded
  BY RecorderAssumption DEF Init, QueueBounded
<1>2. IControl /\ QueueBounded /\ [Next]_vars => QueueBounded'
  <2> SUFFICES ASSUME IControl, QueueBounded, [Next]_vars PROVE QueueBounded'
    OBVIOUS
  <2>1. frames \in Seq(Frame) /\ QueueLimit \in Nat /\ TypeOK
    BY RecorderAssumption DEF IControl, TypeOK, SharedTypeOK
  <2>2. CASE frames' = frames \/ frames' = <<>>
    BY <2>1, <2>2 DEF QueueBounded
  <2>3. ASSUME NEW d \in Decoders, Enqueue(d) PROVE QueueBounded'
    <3>1. Len(frames') = Len(Room) + 1
      BY <2>1, <2>3, RoomEffect, AppendProperties
         DEF TypeOK, DecoderTypeOK, Enqueue
    <3>2. Len(Room) \in Nat /\ Len(Room) < QueueLimit
      BY <2>1, RoomEffect DEF QueueBounded
    <3> QED
      BY <2>1, <3>1, <3>2 DEF QueueBounded
  <2>4. CASE TakeFrame
    <3>1. Len(frames') = Len(frames) - 1
      BY <2>1, <2>4, HeadTailProperties DEF TakeFrame
    <3> QED
      BY <2>1, <3>1 DEF QueueBounded
  <2> QED
    BY <2>2, <2>3, <2>4
       DEF Next, vars, UI, Worker, Decoder, Start, Stop, StopRequest,
           StopNotify, StopJoin, StartRecording, StartWorker, PushFrame,
           Discard, PushNotify, Startup, StartupFails, Sleep, SpuriousWakeup,
           SeeStop, CreateWriter, SkipFrame, WriteSample, EncodeFails, Leave
<1> QED
  BY <1>1, <1>2, ControlInvariance, PTL DEF Spec

-----------------------------------------------------------------------------
\* The recorder implements a sequence of recordings with a file each: a
\* worker only begins in an untouched file, and nobody else writes.
THEOREM RecordingRefinement == Spec => RecordingSpec
<1> DEFINE open == IF Working THEN path ELSE 0
<1>1. Init => Abstract!Init
  BY DEF Init, Abstract!Init, Working
<1>2. IControl /\ [Next]_vars => [Abstract!Next]_<<open, written>>
  <2> SUFFICES ASSUME IControl, [Next]_vars
               PROVE  [Abstract!Next]_<<open, written>>
    OBVIOUS
  <2>1. TypeOK /\ Joined /\ Untouched /\ Files = 1..MaxStarts
    BY DEF IControl, Files
  <2>2. CASE StartWorker
    <3>1. ~Working /\ path \in Files /\ written[path] = <<>>
      BY <2>1, <2>2 DEF Joined, Untouched, StartWorker, Working
    <3>2. open = 0 /\ open' = path /\ written' = written
      BY <3>1, <2>2 DEF StartWorker, Working
    <3>3. Abstract!Begin(path)
      BY <3>1, <3>2 DEF Abstract!Begin
    <3> QED
      BY <3>1, <3>3 DEF Abstract!Next
  <2>3. CASE WriteSample
    <3>1. path \in Files /\ path # 0 /\ frame \in Frame
      BY <2>1, <2>3 DEF TypeOK, WorkerTypeOK, WriteSample, Joined, Working
    <3>2. /\ open = path /\ open' = open
          /\ written' = [written EXCEPT ![path] = Append(@, frame)]
      BY <2>3 DEF WriteSample, Working, WorkerGoes, Quiet, uiVars
    <3>3. Abstract!Write(frame)
      BY <3>1, <3>2 DEF Abstract!Write
    <3> QED
      BY <3>1, <3>3 DEF Abstract!Next
  <2>4. CASE StartupFails \/ Leave
    <3>1. open # 0 /\ open' = 0 /\ written' = written
      BY <2>1, <2>4 DEF StartupFails, Leave, Joined, Working, WorkerGoes
    <3>2. Abstract!Finish
      BY <3>1 DEF Abstract!Finish
    <3> QED
      BY <3>2 DEF Abstract!Next
  <2>5. CASE \/ Start \/ Stop \/ StopRequest \/ StopNotify \/ StopJoin
             \/ StartRecording
    <3>1. open' = open /\ written' = written
      BY <2>1, <2>5 DEF Start, Stop, StopRequest, StopNotify, StopJoin,
           StartRecording, Notify, Joined, Working, workerVars
    <3> QED
      BY <3>1
  <2>6. ASSUME NEW d \in Decoders,
               Decoder(d) \/ \E z \in Sizes : PushFrame(d, z)
        PROVE  [Abstract!Next]_<<open, written>>
    <3>1. open' = open /\ written' = written
      BY <2>6 DEF Decoder, Enqueue, Discard, PushNotify, PushFrame, Notify,
                  Working, uiVars, workerVars
    <3> QED
      BY <3>1
  <2>7. CASE \/ Startup \/ Sleep \/ SpuriousWakeup \/ TakeFrame \/ SeeStop
             \/ CreateWriter \/ SkipFrame \/ EncodeFails \/ UNCHANGED vars
    <3>1. open' = open /\ written' = written
      BY <2>7 DEF Startup, Sleep, SpuriousWakeup, TakeFrame, SeeStop,
           CreateWriter, SkipFrame, EncodeFails, WorkerGoes, Quiet, Working,
           vars, uiVars, workerVars
    <3> QED
      BY <3>1
  <2> QED
    BY <2>2, <2>3, <2>4, <2>5, <2>6, <2>7 DEF Next, UI, Worker
<1> QED
  BY <1>1, <1>2, ControlInvariance, PTL
     DEF Spec, RecordingSpec, Abstract!Spec

-----------------------------------------------------------------------------
\* Steps that only take frames out of the line, or move the decoders on,
\* keep it in order.
LEMMA LineShrinks ==
    ASSUME Line,
           OpenFile' \subseteq OpenFile, Taken' \subseteq Taken,
           Queued' \subseteq Queued, Copied' \subseteq Copied,
           frames' = frames \/ frames' = <<>>,
           written' = written, pushed' = pushed, copy' = copy,
           writer' = writer \/ OpenFile' = {}
    PROVE  Line'
<1>1. \A i, j \in 1..Len(frames') :
          i < j => Precedes(frames'[i], frames'[j])
  BY DEF Line
<1>2. FilesInOrder'
  BY DEF Line, FilesInOrder
<1> QED
  BY <1>1, <1>2 DEF Line, Precedes

LEMMA NextLine == IInv /\ [Next]_vars => Line'
<1> SUFFICES ASSUME IInv, [Next]_vars PROVE Line'
  OBVIOUS
<1>1. TypeOK /\ TypeOK' /\ Joined /\ Untouched /\ Line /\ pushed \in Nat
  BY NextType DEF IInv, IControl, TypeOK, DecoderTypeOK
<1>2. CASE Start \/ Stop \/ UI
  <2>1. /\ OpenFile' \subseteq OpenFile /\ Taken' \subseteq Taken
        /\ Copied' = Copied
    BY <1>1, <1>2 DEF Start, Stop, UI, StopRequest, StopNotify, StopJoin,
         StartRecording, StartWorker, Notify, OpenFile, Taken, Copied,
         Working, Joined, Untouched, workerVars, decoderVars, uiVars
  <2>2. frames' = frames \/ frames' = <<>>
    BY <1>2 DEF Start, Stop, UI, StopRequest, StopNotify, StopJoin,
         StartRecording, StartWorker
  <2>3. Queued' \subseteq Queued
    BY <2>2 DEF Queued
  <2>4. UNCHANGED <<written, writer, pushed, copy>>
    BY <1>2 DEF Start, Stop, UI, StopRequest, StopNotify, StopJoin,
         StartRecording, StartWorker, Notify, workerVars, decoderVars
  <2> QED
    BY <1>1, <2>1, <2>2, <2>3, <2>4, LineShrinks
<1>3. ASSUME NEW d \in Decoders, NEW z \in Sizes, PushFrame(d, z)
      PROVE  Line'
  <2>1. UNCHANGED <<OpenFile, Taken, Queued, frames, written, writer>>
    BY <1>3 DEF PushFrame, OpenFile, Taken, Queued, Working, uiVars,
                workerVars
  <2>2. /\ Copied' = Copied \cup {d}
        /\ copy'[d] = [no |-> pushed + 1, size |-> z, from |-> d]
        /\ \A e \in Copied : e # d /\ copy'[e] = copy[e]
        /\ pushed' = pushed + 1 /\ pushed' \in 0..MaxFrames
    BY <1>1, <1>3 DEF PushFrame, Copied, TypeOK, DecoderTypeOK
  <2>3. copy'[d] \in Frame
    BY <2>2 DEF Frame
  <2>4. \A f \in OpenFile \cup Taken \cup Queued :
            f.no <= pushed' /\ Precedes(f, copy'[d])
    <3> SUFFICES ASSUME NEW f \in OpenFile \cup Taken \cup Queued
                 PROVE  f.no <= pushed' /\ Precedes(f, copy'[d])
      OBVIOUS
    <3>1. f.no \in 0..MaxFrames /\ f.no <= pushed
      BY <1>1 DEF Line, Frame
    <3>2. f.no <= pushed' /\ f.no < copy'[d].no
      BY <1>1, <2>2, <3>1
    <3> QED
      BY <3>2 DEF Precedes
  <2>5. \A e \in Copied : copy[e].no <= pushed'
    BY <1>1, <2>2 DEF Line, Frame
  <2>6. FilesInOrder'
    BY <1>1, <2>1 DEF Line, FilesInOrder
  <2>7. copy'[d].no <= pushed' /\ copy'[d].from = d
    BY <1>1, <2>2
  <2>8. \A e \in Copied' : copy'[e] \in Frame /\ copy'[e].no <= pushed'
                            /\ copy'[e].from = e
    BY <1>1, <2>2, <2>3, <2>5, <2>7 DEF Line
  <2>9. \A f \in OpenFile \cup Taken \cup Queued, e \in Copied' :
            Precedes(f, copy'[e])
    BY <1>1, <2>2, <2>4 DEF Line
  <2> QED
    BY <1>1, <2>1, <2>4, <2>6, <2>8, <2>9 DEF Line
<1>4. ASSUME NEW d \in Decoders, Discard(d) \/ PushNotify(d) PROVE Line'
  <2>1. /\ Copied' \subseteq Copied
        /\ UNCHANGED <<frames, written, writer, pushed, copy, path>>
    BY <1>1, <1>4 DEF Discard, PushNotify, Notify, Copied, workerVars, uiVars,
                      TypeOK, DecoderTypeOK
  <2>2. UNCHANGED <<OpenFile, Taken, Queued>>
    BY <1>4, <2>1 DEF Discard, PushNotify, Notify, OpenFile, Taken, Queued,
                      Working, workerVars
  <2> QED
    BY <1>1, <2>1, <2>2, LineShrinks
<1>5. ASSUME NEW d \in Decoders, Enqueue(d) PROVE Line'
  <2>1. /\ d \in Copied /\ Copied' = Copied \ {d} /\ copy' = copy
        /\ UNCHANGED <<OpenFile, Taken, written, writer, pushed>>
    BY <1>1, <1>5 DEF Enqueue, Copied, OpenFile, Taken, Working, uiVars,
                      workerVars, TypeOK, DecoderTypeOK
  <2>2. /\ Room \in Seq(Frame)
        /\ copy[d] \in Frame
        /\ frames \in Seq(Frame)
        /\ frames' = Append(Room, copy[d])
    BY <1>1, <1>5, <2>1, RoomEffect DEF Enqueue, Line, TypeOK, SharedTypeOK
  <2>3. /\ \A i \in 1..Len(Room) : Room[i] \in Queued
        /\ \A i, j \in 1..Len(Room) : i < j => Precedes(Room[i], Room[j])
    <3>1. CASE Room = frames
      BY <1>1, <3>1 DEF Line, Queued
    <3>2. CASE /\ Len(Room) = Len(frames) - 1
               /\ \A i \in 1..Len(Room) : Room[i] = frames[i + 1]
      <4>1. \A i \in 1..Len(Room) : i + 1 \in 1..Len(frames)
        BY <2>2, <3>2
      <4>2. \A i, j \in 1..Len(Room) :
                i < j => Precedes(frames[i + 1], frames[j + 1])
        BY <1>1, <2>2, <4>1 DEF Line
      <4> QED
        BY <3>2, <4>1, <4>2 DEF Queued
    <3> QED
      BY <1>1, <3>1, <3>2, RoomEffect
  <2>4. /\ Len(frames') = Len(Room) + 1 /\ Len(Room) \in Nat
        /\ \A i \in 1..Len(Room) : frames'[i] = Room[i]
        /\ frames'[Len(Room) + 1] = copy[d]
    BY <2>2, AppendProperties
  <2>5. \A i \in 1..Len(frames') : i \in 1..Len(Room) \/ i = Len(Room) + 1
    BY <2>4
  <2>6. Queued' \subseteq Queued \cup {copy[d]}
    BY <2>3, <2>4, <2>5 DEF Queued
  <2>7. \A i, j \in 1..Len(frames') :
            i < j => Precedes(frames'[i], frames'[j])
    <3> SUFFICES ASSUME NEW i \in 1..Len(frames'), NEW j \in 1..Len(frames'),
                        i < j
                 PROVE  Precedes(frames'[i], frames'[j])
      OBVIOUS
    <3>1. i \in 1..Len(Room)
      BY <2>4, <2>5
    <3>2. CASE j \in 1..Len(Room)
      BY <2>3, <2>4, <3>1, <3>2
    <3>3. CASE j = Len(Room) + 1
      BY <1>1, <2>1, <2>3, <2>4, <3>1, <3>3 DEF Line
    <3> QED
      BY <2>5, <3>2, <3>3
  <2>8. \A e \in Copied' : Precedes(copy[d], copy[e])
    BY <1>1, <2>1 DEF Line, Precedes
  <2>9. FilesInOrder'
    BY <1>1, <2>1 DEF Line, FilesInOrder
  <2> QED
    BY <1>1, <2>1, <2>6, <2>7, <2>8, <2>9 DEF Line
<1>6. CASE \/ Startup \/ StartupFails \/ Sleep \/ SpuriousWakeup \/ SeeStop
           \/ SkipFrame \/ EncodeFails \/ Leave
  <2>1. /\ OpenFile' \subseteq OpenFile /\ Taken' \subseteq Taken
        /\ writer' = writer \/ OpenFile' = {}
    BY <1>6 DEF Startup, StartupFails, Sleep, SpuriousWakeup, SeeStop,
         SkipFrame, EncodeFails, Leave, WorkerGoes, Quiet, OpenFile, Taken,
         Working, uiVars
  <2>2. UNCHANGED <<frames, written, pushed, copy, Queued, Copied>>
    BY <1>6 DEF Startup, StartupFails, Sleep, SpuriousWakeup, SeeStop,
         SkipFrame, EncodeFails, Leave, Quiet, decoderVars, Queued, Copied
  <2> QED
    BY <1>1, <2>1, <2>2, LineShrinks
<1>7. CASE TakeFrame
  <2>1. /\ frames \in Seq(Frame) /\ frames # <<>> /\ frame' = frames[1]
        /\ Len(frames') = Len(frames) - 1
        /\ \A i \in 1..Len(frames') : frames'[i] = frames[i + 1]
    BY <1>1, <1>7, HeadTailProperties DEF TakeFrame, TypeOK, SharedTypeOK
  <2>2. /\ Taken' = {frames[1]}
        /\ UNCHANGED <<OpenFile, Copied, written, writer, pushed, copy>>
    BY <1>7, <2>1 DEF TakeFrame, Taken, OpenFile, Copied, Working, WorkerGoes,
                      Quiet, uiVars, decoderVars
  <2>3. /\ 1 \in 1..Len(frames)
        /\ \A i \in 1..Len(frames') : i + 1 \in 1..Len(frames) /\ 1 < i + 1
    BY <2>1
  <2>4. /\ frames[1] \in Queued /\ Queued' \subseteq Queued
        /\ \A g \in Queued' : Precedes(frames[1], g)
    BY <1>1, <2>1, <2>3 DEF Queued, Line
  <2>5. \A i, j \in 1..Len(frames') :
            i < j => Precedes(frames'[i], frames'[j])
    BY <1>1, <2>1, <2>3 DEF Line
  <2>6. FilesInOrder'
    BY <1>1, <2>2 DEF Line, FilesInOrder
  <2> QED
    BY <1>1, <2>2, <2>4, <2>5, <2>6 DEF Line
<1>8. CASE CreateWriter
  <2>1. UNCHANGED <<frames, written, pushed, copy, OpenFile, Taken, Queued,
                    Copied>>
    BY <1>8 DEF CreateWriter, Quiet, OpenFile, Taken, Queued, Copied, Working,
                uiVars, decoderVars
  <2>2. OpenFile = {}
    BY <1>1, <1>8 DEF CreateWriter, Untouched, Working, OpenFile
  <2> QED
    BY <1>1, <2>1, <2>2, LineShrinks
<1>9. CASE WriteSample
  <2> DEFINE file == written[path]
  <2>1. /\ path \in Files /\ file \in Seq(Frame) /\ frame \in Frame
        /\ worker = "encode" /\ Working /\ Working'
        /\ written' = [written EXCEPT ![path] = Append(@, frame)]
        /\ writer = frame.size
        /\ UNCHANGED <<frames, path, pushed, copy, writer, Queued, Copied>>
    BY <1>1, <1>9 DEF WriteSample, WorkerGoes, Quiet, Working, Joined, TypeOK,
         WorkerTypeOK, Queued, Copied, uiVars, decoderVars
  <2>2. written'[path] = Append(file, frame)
    BY <1>1, <2>1 DEF TypeOK, WorkerTypeOK
  <2>3. /\ Len(written'[path]) = Len(file) + 1 /\ Len(file) \in Nat
        /\ \A i \in 1..Len(file) : written'[path][i] = file[i]
        /\ written'[path][Len(file) + 1] = frame
    BY <2>1, <2>2, AppendProperties
  <2>4. \A i \in 1..Len(written'[path]) :
            i \in 1..Len(file) \/ i = Len(file) + 1
    BY <2>3
  <2>5. OpenFile' \subseteq OpenFile \cup Taken
    BY <2>1, <2>3, <2>4 DEF OpenFile, Taken
  <2>6. Taken' = {} /\ Taken = {frame}
    BY <2>1, <1>9 DEF Taken, WriteSample, WorkerGoes
  <2>7. \A i \in 1..Len(file) :
            file[i].size = writer /\ Precedes(file[i], frame)
    BY <1>1, <2>1, <2>6 DEF Line, OpenFile
  <2>8. InOrder(written'[path])
    <3>1. InOrder(file) /\ DOMAIN file = 1..Len(file)
      BY <1>1, <2>1 DEF Line, FilesInOrder
    <3>2. DOMAIN written'[path] = 1..Len(written'[path])
      BY <2>1, <2>2, AppendProperties
    <3> SUFFICES ASSUME NEW i \in 1..Len(written'[path]),
                        NEW j \in 1..Len(written'[path]), i < j
                 PROVE  LET f == written'[path][i]
                            g == written'[path][j]
                        IN  f.size = g.size /\ Precedes(f, g)
      BY <3>2 DEF InOrder, Precedes
    <3>3. i \in 1..Len(file)
      BY <2>3, <2>4
    <3>4. CASE j \in 1..Len(file)
      <4>1. file[i].size = file[j].size /\ Precedes(file[i], file[j])
        BY <3>1, <3>3, <3>4 DEF InOrder, Precedes
      <4> QED
        BY <2>3, <3>3, <3>4, <4>1
    <3>5. CASE j = Len(file) + 1
      BY <2>1, <2>3, <2>7, <3>3, <3>5
    <3> QED
      BY <2>4, <3>4, <3>5
  <2>9. FilesInOrder'
    <3>1. \A k \in Files \ {path} : written'[k] = written[k]
      BY <1>1, <2>1 DEF TypeOK, WorkerTypeOK
    <3>2. \A k \in Files : InOrder(written'[k])
      BY <1>1, <2>8, <3>1 DEF Line, FilesInOrder
    <3> QED
      BY <3>2 DEF FilesInOrder, InOrder
  <2>10. \A f \in OpenFile' : f.size = writer
    BY <1>1, <2>1, <2>5, <2>6 DEF Line
  <2> QED
    BY <1>1, <2>1, <2>5, <2>6, <2>9, <2>10 DEF Line
<1>10. CASE UNCHANGED vars
  <2>1. UNCHANGED <<OpenFile, Taken, Queued, Copied>>
    BY <1>10 DEF OpenFile, Taken, Queued, Copied, Working, vars, uiVars,
                 workerVars, decoderVars
  <2> QED
    BY <1>1, <1>10, <2>1, LineShrinks
       DEF vars, uiVars, workerVars, decoderVars
<1> QED
  BY <1>2, <1>3, <1>4, <1>5, <1>6, <1>7, <1>8, <1>9, <1>10
     DEF Next, Worker, Decoder

LEMMA InitLine == Init => Line
<1> SUFFICES ASSUME Init PROVE Line
  OBVIOUS
<1>1. OpenFile = {} /\ Taken = {} /\ Queued = {} /\ Copied = {}
  BY DEF Init, OpenFile, Taken, Queued, Copied, Working
<1>2. FilesInOrder
  BY DEF Init, FilesInOrder, InOrder
<1>3. \A i, j \in 1..Len(frames) : i < j => Precedes(frames[i], frames[j])
  BY DEF Init
<1> QED
  BY <1>1, <1>2, <1>3 DEF Line

\* Every file has frames of one size, and those of one decoder in the order
\* in which they were pushed.
THEOREM FilesInOrderTheorem == Spec => []FilesInOrder
<1>1. Init => IInv
  BY InitControl, InitLine DEF IInv
<1>2. IInv /\ [Next]_vars => IInv'
  BY NextControl, NextLine DEF IInv
<1>3. IInv => FilesInOrder
  BY DEF IInv, Line
<1> QED
  BY <1>1, <1>2, <1>3, PTL DEF Spec
=============================================================================
