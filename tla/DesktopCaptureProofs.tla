------------------------ MODULE DesktopCaptureProofs ------------------------
(***************************************************************************)
(* The screen capture: that a track has a worker behind it, that a picture *)
(* is copied only where it fits, and that what the sessions see of it is a *)
(* ScreenTrack, for any number of captures, pictures and devices.  After   *)
(* that, what the conversions of PixelFormat keep to, for pictures of any  *)
(* size and content.                                                       *)
(***************************************************************************)
EXTENDS DesktopCapture, PixelFormat, TLAPS

\* The ui thread: it holds the mutex between its two steps of giving up, and
\* asks the worker to stop only on the way out or when there is no capture.
UiSound ==
    /\ mutex <=> ui = "failed"
    /\ ui = "wait" => ~stopRequested
    /\ ui = "idle" /\ track # 0 => startup = "success" /\ ~stopRequested
    /\ ui # "idle" => track # 0

\* The worker: there is one exactly while there is a track.  It has reported
\* before it enters its loop, and it ends on a request, on an error of
\* AcquireNextFrame, or because it could not begin.
WorkerSound ==
    /\ worker = "none" <=> track = 0
    /\ worker \in {"init", "report"} => startup = "pending"
    /\ worker \in {"loop", "acquire", "acquired", "copied", "recover", "retry",
                   "leave"} => startup = "success"
    /\ worker = "leave" => stopRequested \/ broken
    /\ worker = "ended" => stopRequested \/ broken \/ startup = "failure"
    /\ worker = "none" => device = 0 /\ staging = NoTexture

\* DXGI: the worker is in its loop with a duplication only, and a staging
\* texture never outlives the device it was created with.
DxgiSound ==
    /\ duplicating => device # 0
    /\ worker = "report" /\ initialized => duplicating
    /\ worker \in {"loop", "acquire", "acquired", "copied"} => duplicating
    /\ staging # NoTexture => staging.device = device
    /\ CopiesFit

\* A picture that is held is at least as new as the one that is shown.
PicturesSound ==
    /\ shown <= screen /\ held <= screen
    /\ worker \in {"acquired", "copied"} => held >= shown /\ held # 0

IInv == DataOK /\ UiSound /\ WorkerSound /\ DxgiSound /\ PicturesSound

-----------------------------------------------------------------------------

LEMMA InitIInv == Init => IInv
BY CaptureAssumption
   DEF Init, IInv, DataOK, UiSound, WorkerSound, DxgiSound, PicturesSound, CopiesFit

LEMMA StartStep ==
    ASSUME IInv, Start
    PROVE  IInv'
BY CaptureAssumption
   DEF Start, IInv, DataOK, UiSound, WorkerSound, DxgiSound, PicturesSound,
       CopiesFit, dxgiVars, frameVars, screenVars, outVars

\* The other steps of the ui thread, but for Join, leave the worker alone.
LEMMA UiSteps ==
    ASSUME IInv, Started \/ NotStarted \/ GiveUp \/ Stop
    PROVE  IInv'
<1> USE DEF IInv, DataOK, UiSound, WorkerSound, DxgiSound, PicturesSound,
            CopiesFit, uiVars, sharedVars, dxgiVars, frameVars, screenVars, outVars
<1>1. CASE Started
  BY <1>1 DEF Started
<1>2. CASE NotStarted
  BY <1>2 DEF NotStarted
<1>3. CASE GiveUp
  BY <1>3 DEF GiveUp
<1>4. CASE Stop
  BY <1>4 DEF Stop
<1> QED
  BY <1>1, <1>2, <1>3, <1>4

LEMMA JoinStep ==
    ASSUME IInv, Join
    PROVE  IInv'
BY CaptureAssumption
   DEF Join, ReleaseDxgi, StagingReleased, IInv, DataOK, UiSound, WorkerSound,
       DxgiSound, PicturesSound, CopiesFit, sharedVars, frameVars, screenVars

\* Setting DXGI up, or failing to, leaves no texture of an older device.
LEMMA SetUp ==
    ASSUME DataOK, Initialized \/ NotInitialized
    PROVE  /\ device' \in 0..MaxDevices /\ made' \in 0..MaxDevices
           /\ staging' = NoTexture
           /\ duplicating' => device' # 0
           /\ Initialized => duplicating'
BY CaptureAssumption
   DEF DataOK, Initialized, NotInitialized, ReleaseDxgi, StagingReleased

LEMMA SetUpSteps ==
    ASSUME IInv, InitializeDxgi \/ Recovered \/ NotRecovered
    PROVE  IInv'
<1> USE DEF WorkerGoes, UiStays, uiVars, sharedVars, frameVars, screenVars, outVars
<1>1. Initialized \/ NotInitialized
  BY DEF InitializeDxgi, Recovered, NotRecovered
<1>2. CASE InitializeDxgi
  BY <1>1, <1>2, SetUp
     DEF InitializeDxgi, IInv, DataOK, UiSound, WorkerSound, DxgiSound,
         PicturesSound, CopiesFit
<1>3. CASE Recovered
  BY <1>1, <1>3, SetUp
     DEF Recovered, IInv, DataOK, UiSound, WorkerSound, DxgiSound,
         PicturesSound, CopiesFit
<1>4. CASE NotRecovered
  BY <1>1, <1>4, SetUp
     DEF NotRecovered, IInv, DataOK, UiSound, WorkerSound, DxgiSound,
         PicturesSound, CopiesFit
<1> QED
  BY <1>2, <1>3, <1>4

\* Steps of the worker between two frames.
LEMMA LoopSteps ==
    ASSUME IInv,
           Report \/ TestStop \/ AcquireTimesOut \/ AcquireNextFrame
             \/ AccessLost \/ AcquireFails \/ TestStopRecovering \/ Leave
    PROVE  IInv'
<1> USE DEF WorkerGoes, UiStays, uiVars, sharedVars, dxgiVars, frameVars,
            screenVars, outVars, ReleaseDxgi, StagingReleased,
            IInv, DataOK, UiSound, WorkerSound, DxgiSound, PicturesSound, CopiesFit
<1>1. CASE Report
  BY <1>1 DEF Report
<1>2. CASE TestStop
  BY <1>2 DEF TestStop
<1>3. CASE AcquireTimesOut
  BY <1>3 DEF AcquireTimesOut
<1>4. CASE AcquireNextFrame
  BY <1>4 DEF AcquireNextFrame
<1>5. CASE AccessLost
  BY <1>5, CaptureAssumption DEF AccessLost
<1>6. CASE AcquireFails
  BY <1>6 DEF AcquireFails
<1>7. CASE TestStopRecovering
  BY <1>7 DEF TestStopRecovering
<1>8. CASE Leave
  BY <1>8, CaptureAssumption DEF Leave
<1> QED
  BY <1>1, <1>2, <1>3, <1>4, <1>5, <1>6, <1>7, <1>8

\* The texture that is used is one of this device, with the picture's size.
LEMMA TextureFits ==
    ASSUME DataOK, device # 0, staging # NoTexture => staging.device = device
    PROVE  /\ EnsureStagingTexture = [device |-> device, size |-> size]
           /\ EnsureStagingTexture \in Texture
           /\ EnsureStagingTexture # NoTexture
<1>1. [device |-> device, size |-> size] \in Texture
  BY DEF DataOK, Texture
<1>2. [device |-> device, size |-> size] # NoTexture
  BY <1>1, CaptureAssumption DEF Texture
<1>3. ASSUME Fits
      PROVE  staging = [device |-> device, size |-> size]
  BY <1>3 DEF Fits, DataOK, Texture
<1> QED
  BY <1>1, <1>2, <1>3 DEF EnsureStagingTexture

LEMMA FrameSteps ==
    ASSUME IInv, Throttled \/ Unusable \/ CopyResource \/ NotPushed \/ OnCapturedFrame
    PROVE  IInv'
<1> USE CaptureAssumption DEF WorkerGoes, UiStays, uiVars, sharedVars, dxgiVars, frameVars,
            screenVars, outVars, ReleaseFrame, IInv, DataOK, UiSound,
            WorkerSound, DxgiSound, PicturesSound, CopiesFit
<1>1. CASE Throttled
  BY <1>1 DEF Throttled
<1>2. CASE Unusable
  BY <1>2 DEF Unusable
<1>3. CASE CopyResource
  <2>1. device # 0 /\ (staging # NoTexture => staging.device = device)
    BY <1>3 DEF CopyResource
  <2>2. /\ staging' = [device |-> device, size |-> size]
        /\ staging' \in Texture
    BY <1>3, <2>1, TextureFits DEF CopyResource
  <2> QED
    BY <1>3, <2>2 DEF CopyResource
<1>4. CASE NotPushed
  BY <1>4 DEF NotPushed
<1>5. CASE OnCapturedFrame
  BY <1>5 DEF OnCapturedFrame
<1> QED
  BY <1>1, <1>2, <1>3, <1>4, <1>5

LEMMA OutsideSteps ==
    ASSUME IInv, FrameInterval \/ ScreenChanges \/ UNCHANGED vars
    PROVE  IInv'
BY CaptureAssumption
   DEF FrameInterval, ScreenChanges, vars, uiVars, sharedVars, dxgiVars,
       frameVars, screenVars, outVars, IInv, DataOK, UiSound, WorkerSound,
       DxgiSound, PicturesSound, CopiesFit

LEMMA NextIInv == IInv /\ [Next]_vars => IInv'
BY StartStep, UiSteps, JoinStep, SetUpSteps, LoopSteps, FrameSteps, OutsideSteps
   DEF Next, UI, Worker

\* The inductive invariant holds throughout.
THEOREM CaptureInvariance == Spec => []IInv
BY InitIInv, NextIInv, PTL DEF Spec

LEMMA FlagsStep == FlagsOK /\ [Next]_vars => FlagsOK'
<1> SUFFICES ASSUME FlagsOK, [Next]_vars PROVE FlagsOK'
  OBVIOUS
<1> USE DEF FlagsOK, uiVars, sharedVars, dxgiVars, frameVars, screenVars, outVars,
            WorkerGoes, UiStays, ReleaseDxgi, Initialized, NotInitialized
<1>1. CASE Start \/ Stop \/ UI
  BY <1>1 DEF Start, Stop, UI, Started, NotStarted, GiveUp, Join
<1>2. CASE InitializeDxgi \/ Recovered \/ NotRecovered \/ AccessLost \/ Leave
  BY <1>2 DEF InitializeDxgi, Recovered, NotRecovered, AccessLost, Leave
<1>3. CASE Report \/ TestStop \/ AcquireTimesOut \/ AcquireNextFrame
             \/ AcquireFails \/ TestStopRecovering
  BY <1>3 DEF Report, TestStop, AcquireTimesOut, AcquireNextFrame, AcquireFails,
              TestStopRecovering
<1>4. CASE Throttled \/ Unusable \/ CopyResource \/ NotPushed \/ OnCapturedFrame
  BY <1>4 DEF Throttled, Unusable, CopyResource, NotPushed, OnCapturedFrame,
              ReleaseFrame
<1>5. CASE FrameInterval \/ ScreenChanges \/ UNCHANGED vars
  BY <1>5 DEF FrameInterval, ScreenChanges, vars
<1> QED
  BY <1>1, <1>2, <1>3, <1>4, <1>5 DEF Next, Worker

\* Every variable of the capture keeps its type.
THEOREM CaptureTypeCorrect == Spec => []TypeOK
<1>1. Init => FlagsOK
  BY DEF Init, FlagsOK
<1>2. IInv /\ FlagsOK => TypeOK
  BY DEF IInv, TypeOK
<1> QED
  BY <1>1, <1>2, FlagsStep, CaptureInvariance, PTL DEF Spec

\* With a track there is a worker that has set DXGI up and goes on, and without
\* one nothing is left of it (the dialog's test for VideoTrack()).
THEOREM TrackHasWorkerTheorem == Spec => []TrackHasWorker
<1>1. IInv => TrackHasWorker
  BY DEF IInv, UiSound, WorkerSound, TrackHasWorker
<1> QED
  BY <1>1, CaptureInvariance, PTL

\* CopyResource: a picture goes only into a texture of its own size and of the
\* device that captured it.
THEOREM CopiesFitTheorem == Spec => []CopiesFit
<1>1. IInv => CopiesFit
  BY DEF IInv, DxgiSound
<1> QED
  BY <1>1, CaptureInvariance, PTL

-----------------------------------------------------------------------------
(* The capture implements a screen track.                                  *)

LEMMA TrackInit == Init => Abstract!Init
BY DEF Init, Abstract!Init

\* Only Start, Join and OnCapturedFrame show; a picture shown again after a
\* recovery is a stutter.
LEMMA TrackStep ==
    ASSUME IInv, [Next]_vars
    PROVE  [Abstract!Next]_<<track, shown>>
<1> USE DEF Abstract!Next, Abstract!Open, Abstract!Show, Abstract!Close
<1>1. CASE Start
  BY <1>1, CaptureAssumption DEF Start, outVars, IInv, DataOK
<1>2. CASE Join
  BY <1>2 DEF Join, IInv, UiSound
<1>3. CASE OnCapturedFrame
  <2>1. track' = track /\ track # 0 /\ worker = "copied" /\ shown' = held
    BY <1>3 DEF OnCapturedFrame, ReleaseFrame, WorkerGoes, UiStays, uiVars,
                IInv, WorkerSound
  <2>2. held \in 1..MaxPictures /\ held >= shown /\ shown \in 0..MaxPictures
    BY <2>1 DEF IInv, PicturesSound, DataOK
  <2> QED
    BY <2>1, <2>2, CaptureAssumption
<1>4. CASE Started \/ NotStarted \/ GiveUp \/ Stop
  BY <1>4 DEF Started, NotStarted, GiveUp, Stop, outVars
<1>5. CASE InitializeDxgi \/ Recovered \/ NotRecovered
  BY <1>5 DEF InitializeDxgi, Recovered, NotRecovered, UiStays, uiVars, outVars
<1>6. CASE Report \/ TestStop \/ AcquireTimesOut \/ AcquireNextFrame \/ AccessLost
             \/ AcquireFails \/ TestStopRecovering \/ Leave
  BY <1>6 DEF Report, TestStop, AcquireTimesOut, AcquireNextFrame, AccessLost,
              AcquireFails, TestStopRecovering, Leave, UiStays, uiVars, outVars
<1>7. CASE Throttled \/ Unusable \/ CopyResource \/ NotPushed
  BY <1>7 DEF Throttled, Unusable, CopyResource, NotPushed, ReleaseFrame,
              UiStays, uiVars, outVars
<1>8. CASE FrameInterval \/ ScreenChanges \/ UNCHANGED vars
  BY <1>8 DEF FrameInterval, ScreenChanges, vars, uiVars, outVars
<1> QED
  BY <1>1, <1>2, <1>3, <1>4, <1>5, <1>6, <1>7, <1>8 DEF Next, UI, Worker

\* What DesktopCaptureManager promises the sessions: one track at a time, a
\* picture that only moves forward, nothing pushed into a track given up.
THEOREM TrackRefinement == Spec => TrackSpec
<1>1. IInv /\ [Next]_vars => [Abstract!Next]_<<track, shown>>
  BY TrackStep
<1> QED
  BY <1>1, TrackInit, CaptureInvariance, PTL DEF Spec, TrackSpec, Abstract!Spec

-----------------------------------------------------------------------------
(* PixelFormat.                                                            *)

LEMMA ClampIsByte ==
    ASSUME NEW value \in Int
    PROVE  Clamp(value) \in Byte
BY DEF Clamp, Byte

LEMMA ShiftedByEight ==
    ASSUME NEW low \in Int, NEW high \in Int, NEW value \in Int,
           256 * low <= value, value < 256 * (high + 1)
    PROVE  value \div 256 \in low..high
BY SMT

LEMMA ClampKeeps ==
    ASSUME NEW value \in Byte
    PROVE  Clamp(value) = value
BY SMT DEF Clamp, Byte

\* What the capturer writes is in the range of limited video, 16 to 235 for
\* luma and 16 to 240 for chroma: its ClampByte never has anything to cut off.
THEOREM LumaAndChromaInRange ==
    ASSUME NEW b \in Byte, NEW g \in Byte, NEW r \in Byte
    PROVE  /\ Luma(b, g, r) \in 16..235
           /\ ChromaU(b, g, r) \in 16..240
           /\ ChromaV(b, g, r) \in 16..240
<1> USE DEF Byte
<1> DEFINE y == 66 * r + 129 * g + 25 * b + 128
           u == -38 * r - 74 * g + 112 * b + 128
           v == 112 * r - 94 * g - 18 * b + 128
<1>1. y \in Int /\ 256 * 0 <= y /\ y < 256 * (219 + 1)
  BY SMT
<1>2. u \in Int /\ 256 * (-112) <= u /\ u < 256 * (112 + 1)
  BY SMT
<1>3. v \in Int /\ 256 * (-112) <= v /\ v < 256 * (112 + 1)
  BY SMT
<1>4. /\ Luma(b, g, r) = Clamp(y \div 256 + 16)
      /\ ChromaU(b, g, r) = Clamp(u \div 256 + 128)
      /\ ChromaV(b, g, r) = Clamp(v \div 256 + 128)
  BY DEF Luma, ChromaU, ChromaV
<1> HIDE DEF y, u, v
<1>5. y \div 256 \in 0..219
  BY <1>1, ShiftedByEight, SMT
<1>6. u \div 256 \in -112..112 /\ v \div 256 \in -112..112
  BY <1>2, <1>3, ShiftedByEight, SMT
<1>7. /\ Clamp(y \div 256 + 16) = y \div 256 + 16
      /\ Clamp(u \div 256 + 128) = u \div 256 + 128
      /\ Clamp(v \div 256 + 128) = v \div 256 + 128
  BY <1>5, <1>6, ClampKeeps, SMT
<1> QED
  BY <1>4, <1>5, <1>6, <1>7, SMT

\* No write of the capturer is outside the plane it has sized: for every pixel
\* of a picture of any size, an odd one too, the chroma index is in the plane
\* of (width + 1) / 2 by (height + 1) / 2 bytes.
THEOREM ChromaIndexInPlane ==
    ASSUME NEW width \in Nat \ {0}, NEW height \in Nat \ {0},
           NEW x \in 0..width - 1, NEW y \in 0..height - 1
    PROVE  ChromaIndex(x, y, width) \in 0..Half(width) * Half(height) - 1
<1> DEFINE column == x \div 2
           row == y \div 2
           w == Half(width)
           h == Half(height)
<1>1. w \in Nat /\ h \in Nat /\ column \in Nat /\ row \in Nat
  BY SMT DEF Half
<1>2. column <= w - 1 /\ row <= h - 1
  BY SMT DEF Half
<1>3. ChromaIndex(x, y, width) = row * w + column
  BY DEF ChromaIndex
<1> HIDE DEF column, row, w, h
<1>4. row * w <= (h - 1) * w /\ row * w \in Nat
  BY <1>1, <1>2, SMT
<1>5. (h - 1) * w = w * h - w
  BY <1>1, SMT
<1>6. w * h \in Nat
  BY <1>1, SMT
<1>7. row * w + column \in 0..w * h - 1
  BY <1>1, <1>2, <1>4, <1>5, <1>6, SMT
<1> QED
  BY <1>3, <1>7 DEF w, h

\* A grey pixel has no colour: chroma 128 on the capturer's side, and equal
\* blue, green and red on the renderer's, whatever its luma.
THEOREM GreyStaysGrey ==
    /\ \A k \in Byte : ChromaU(k, k, k) = 128 /\ ChromaV(k, k, k) = 128
    /\ \A y \in Byte : LET q == Bgra(y, 128, 128)
                       IN  q.b = q.g /\ q.g = q.r
<1>1. ASSUME NEW k \in Byte
      PROVE  ChromaU(k, k, k) = 128
  BY SMT DEF ChromaU, Clamp, Byte
<1>2. ASSUME NEW k \in Byte
      PROVE  ChromaV(k, k, k) = 128
  BY SMT DEF ChromaV, Clamp, Byte
<1>3. ASSUME NEW y \in Byte
      PROVE  Bgra(y, 128, 128).b = Bgra(y, 128, 128).g
             /\ Bgra(y, 128, 128).g = Bgra(y, 128, 128).r
  BY SMT DEF Bgra, Clamp, Byte, LumaAbove
<1> QED
  BY <1>1, <1>2, <1>3

\* What the renderer writes are bytes, whatever the decoder's planes hold.
THEOREM BgraIsPixel ==
    ASSUME NEW y \in Byte, NEW u \in Byte, NEW v \in Byte
    PROVE  Bgra(y, u, v) \in Pixel
<1> DEFINE c == LumaAbove(y)
           blue  == (298 * c + 516 * (u - 128) + 128) \div 256
           green == (298 * c - 100 * (u - 128) - 208 * (v - 128) + 128) \div 256
           red   == (298 * c + 409 * (v - 128) + 128) \div 256
<1>1. c \in Int
  BY DEF LumaAbove, Byte
<1> HIDE DEF c
<1>2. blue \in Int /\ green \in Int /\ red \in Int
  BY <1>1, SMT DEF Byte
<1>3. Bgra(y, u, v) = [b |-> Clamp(blue), g |-> Clamp(green), r |-> Clamp(red)]
  BY DEF Bgra, c
<1> HIDE DEF blue, green, red
<1> QED
  BY <1>2, <1>3, ClampIsByte DEF Pixel

LEMMA MeanOfBytes ==
    ASSUME NEW n \in 1..4, NEW sum \in Nat, sum <= 255 * n
    PROVE  sum \div n \in Byte
<1>1. CASE n = 1
  BY <1>1, SMT DEF Byte
<1>2. CASE n = 2
  BY <1>2, SMT DEF Byte
<1>3. CASE n = 3
  BY <1>3, SMT DEF Byte
<1>4. CASE n = 4
  BY <1>4, SMT DEF Byte
<1> QED
  BY <1>1, <1>2, <1>3, <1>4, SMT

\* The mean of a colour over a block is a byte, for every block that begins in
\* the picture, whole or cut by an edge: what the capturer divides by is not
\* zero, and no pixel outside the picture counts.
LEMMA MeanIsByte ==
    ASSUME NEW width \in Nat \ {0}, NEW height \in Nat \ {0},
           NEW x \in 0..width - 1, NEW y \in 0..height - 1,
           NEW amount \in [Places(width, height) -> Byte]
    PROVE  Mean(amount, x, y, width, height) \in Byte
<1> DEFINE ones  == [place \in Places(width, height) |-> 1]
           right == IF x + 1 < width THEN 1 ELSE 0
           below == IF y + 1 < height THEN 1 ELSE 0
           both  == IF x + 1 < width /\ y + 1 < height THEN 1 ELSE 0
           n     == 1 + right + below + both
           p10   == IF x + 1 < width THEN amount[<<x + 1, y>>] ELSE 0
           p01   == IF y + 1 < height THEN amount[<<x, y + 1>>] ELSE 0
           p11   == IF x + 1 < width /\ y + 1 < height
                    THEN amount[<<x + 1, y + 1>>] ELSE 0
           sum   == amount[<<x, y>>] + p10 + p01 + p11
<1>1. n \in 1..4
  BY SMT
<1>2. amount[<<x, y>>] \in 0..255
  <2>1. <<x, y>> \in Places(width, height)
    BY DEF Places
  <2> QED
    BY <2>1 DEF Byte
<1>3. p10 \in 0..255 * right
  <2>1. x + 1 < width => <<x + 1, y>> \in Places(width, height)
    BY DEF Places
  <2>2. x + 1 < width => amount[<<x + 1, y>>] \in Byte
    BY <2>1
  <2> QED
    BY <2>2, SMT DEF Byte
<1>4. p01 \in 0..255 * below
  <2>1. y + 1 < height => <<x, y + 1>> \in Places(width, height)
    BY DEF Places
  <2>2. y + 1 < height => amount[<<x, y + 1>>] \in Byte
    BY <2>1
  <2> QED
    BY <2>2, SMT DEF Byte
<1>5. p11 \in 0..255 * both
  <2>1. x + 1 < width /\ y + 1 < height
            => <<x + 1, y + 1>> \in Places(width, height)
    BY DEF Places
  <2>2. x + 1 < width /\ y + 1 < height => amount[<<x + 1, y + 1>>] \in Byte
    BY <2>1
  <2> QED
    BY <2>2, SMT DEF Byte
<1>6. right \in 0..1 /\ below \in 0..1 /\ both \in 0..1
  BY SMT
<1>7. Mean(amount, x, y, width, height) = sum \div n
  <2>1. x + 0 = x /\ y + 0 = y /\ x < width /\ y < height
    BY SMT
  <2>2. OverBlock(amount, x, y, width, height) = sum
    BY <2>1 DEF OverBlock
  <2>3. /\ <<x, y>> \in Places(width, height)
        /\ x + 1 < width => <<x + 1, y>> \in Places(width, height)
        /\ y + 1 < height => <<x, y + 1>> \in Places(width, height)
        /\ x + 1 < width /\ y + 1 < height
               => <<x + 1, y + 1>> \in Places(width, height)
    BY DEF Places
  <2>4. OverBlock(ones, x, y, width, height) = n
    BY <2>1, <2>3 DEF OverBlock
  <2> QED
    BY <2>2, <2>4 DEF Mean
<1> HIDE DEF right, below, both, p10, p01, p11
<1>8. sum \in Nat /\ sum <= 255 * n
  BY <1>2, <1>3, <1>4, <1>5, <1>6, SMT
<1> HIDE DEF sum, n
<1> QED
  BY <1>1, <1>7, <1>8, MeanOfBytes

\* The mean of the pixels of a block is a pixel, so that what the theorem on
\* luma and chroma says holds for every byte the capturer writes.
THEOREM MeanIsPixel ==
    ASSUME NEW width \in Nat \ {0}, NEW height \in Nat \ {0},
           NEW x \in 0..width - 1, NEW y \in 0..height - 1,
           NEW picture \in [Places(width, height) -> Pixel]
    PROVE  MeanPixel(picture, x, y, width, height) \in Pixel
<1> DEFINE Of(colour) == [place \in Places(width, height) |-> picture[place][colour]]
           M(colour) == Mean(Of(colour), x, y, width, height)
<1>1. ASSUME NEW colour \in {"b", "g", "r"}
      PROVE  M(colour) \in Byte
  <2>1. \A place \in Places(width, height) : picture[place][colour] \in Byte
    BY DEF Pixel
  <2>2. Of(colour) \in [Places(width, height) -> Byte]
    BY <2>1
  <2> HIDE DEF Of
  <2> QED
    BY <2>2, MeanIsByte
<1>2. MeanPixel(picture, x, y, width, height)
          = [colour \in {"b", "g", "r"} |-> M(colour)]
  BY DEF MeanPixel
<1> HIDE DEF M
<1>3. [colour \in {"b", "g", "r"} |-> M(colour)]
          = [b |-> M("b"), g |-> M("g"), r |-> M("r")]
  OBVIOUS
<1> QED
  BY <1>1, <1>2, <1>3 DEF Pixel
=============================================================================
