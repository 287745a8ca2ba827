------------------------------ MODULE Recorder ------------------------------
(***************************************************************************)
(* XmfRecorder.c: the exported calls of the recorder, over the WebM        *)
(* functions.  Every call is one step (the .NET class makes them under one *)
(* lock) and reads the clock once.  The clock is the system's, which only  *)
(* moves forward, or one that the application sets to any value.           *)
(***************************************************************************)
EXTENDS WebM

CONSTANTS
  Rates,     \* the frame rates an application sets
  Outcomes,  \* what encoding an image can lead to
  Opening,   \* what opening the output can lead to
  MaxTime,   \* bound: last value of the clock
  MaxFrames  \* bound: frames submitted

ASSUME RatesAssumption == Rates \subseteq 1..Second
ASSUME OutcomesAssumption == Outcomes \subseteq {"packet", "none", "error"}
ASSUME OpeningAssumption == Opening \subseteq {"opened", "not_opened", "deleted"}
ASSUME BoundsAssumption == MaxTime \in Nat \ {0} /\ MaxFrames \in Nat

VARIABLES
  rec,    \* the XmfRecorder
  webm,   \* ctx->webm
  file,   \* the XmfWebM as it was when the output was last closed
  clock,  \* what XmfTimeSource_Get(&ctx->ts) returns
  frames, \* history: frames submitted
  clean,  \* history: the encoder has returned a packet for every image
  steady  \* history: the clock was never set back

vars == <<rec, webm, file, clock, frames, clean, steady>>

\* XmfRecorder_New; the rates come from the set an application uses.
Init ==
  /\ rec \in [initialized : {FALSE}, manualTime : {FALSE}, frameRate : Rates,
              frameRateMin : Rates, lastUpdateTime : {0}]
  /\ webm = NoWebM
  /\ file = NoWebM
  /\ clock = 1
  /\ frames = 0
  /\ clean = TRUE
  /\ steady = TRUE

\* XmfTimeSource_System.
Tick ==
  /\ ~rec.manualTime
  /\ clock < MaxTime
  /\ clock' = clock + 1
  /\ UNCHANGED <<rec, webm, file, frames, clean, steady>>

\* The clock the recording uses is chosen before Init and can be set after.
SetCurrentTime(t) ==
  /\ ~rec.initialized \/ rec.manualTime
  /\ rec' = [rec EXCEPT !.manualTime = TRUE]
  /\ clock' = t
  /\ steady' = (steady /\ t >= clock)
  /\ UNCHANGED <<webm, file, frames, clean>>

\* XmfRecorder_SetFrameRate; a recording keeps the rate it began with.
SetFrameRate(rate) ==
  /\ rec' = [rec EXCEPT !.frameRate = rate]
  /\ UNCHANGED <<webm, file, clock, frames, clean, steady>>

SetMinimumFrameRate(rate) ==
  /\ rec' = [rec EXCEPT !.frameRateMin = rate]
  /\ UNCHANGED <<webm, file, clock, frames, clean, steady>>

\* XmfRecorder_Init: opening the output empties the file of an earlier
\* recording, a failure after that deletes it.
InitRecorder(opening) ==
  /\ ~rec.initialized
  /\ rec' = [rec EXCEPT !.initialized = (opening = "opened")]
  /\ webm' = IF opening = "opened" THEN NewWebM(rec.frameRate) ELSE NoWebM
  /\ file' = IF opening = "not_opened" THEN file ELSE NoWebM
  /\ UNCHANGED <<clock, frames, clean, steady>>

\* XmfRecorder_UpdateFrame, the recorder being initialized.
UpdateFrame(outcome) ==
  /\ rec.initialized
  /\ frames < MaxFrames
  /\ frames' = frames + 1
  /\ webm' = EncodeXRGB(webm, frames', clock, outcome)
  /\ rec' = [rec EXCEPT !.lastUpdateTime = clock]
  /\ clean' = (clean /\ outcome = "packet")
  /\ UNCHANGED <<file, clock, steady>>

\* XmfRecorder_UpdateFrame, the recorder not being initialized (any more).
UpdateFirstFrame(opening, outcome) ==
  /\ ~rec.initialized
  /\ frames < MaxFrames
  /\ frames' = frames + 1
  /\ IF opening = "opened"
     THEN /\ webm' = EncodeXRGB(NewWebM(rec.frameRate), frames', clock, outcome)
          /\ rec' = [rec EXCEPT !.initialized = TRUE, !.lastUpdateTime = clock]
          /\ clean' = (clean /\ outcome = "packet")
     ELSE UNCHANGED <<webm, rec, clean>>
  /\ file' = IF opening = "not_opened" THEN file ELSE NoWebM
  /\ UNCHANGED <<clock, steady>>

\* XmfRecorder_GetTimeout: how long the application may wait.
GetTimeout ==
  LET left == Second \div rec.frameRateMin - (clock - rec.lastUpdateTime)
  IN IF rec.lastUpdateTime > 0 /\ left > 0 THEN left ELSE 0

\* Mutant: without an image, XmfWebM_EncodeXRGB returns before the flush.
TimeoutIdle(outcome) ==
  /\ webm # NoWebM
  /\ rec' = [rec EXCEPT !.lastUpdateTime = clock]
  /\ clean' = (clean /\ outcome = "packet")
  /\ UNCHANGED <<webm, file, clock, frames, steady>>

\* XmfRecorder_Timeout.
Timeout(outcome) ==
  /\ webm # NoWebM
  /\ webm' = Flush(webm, clock, TRUE, outcome)
  /\ rec' = [rec EXCEPT !.lastUpdateTime = clock]
  /\ clean' = (clean /\ outcome = "packet")
  /\ UNCHANGED <<file, clock, frames, steady>>

\* XmfRecorder_Uninit; flushed says whether libvpx accepts the flush.
Uninit(outcome, flushed) ==
  /\ rec.initialized
  /\ file' = Closed(Finalize(webm, clock, outcome, flushed))
  /\ webm' = NoWebM
  /\ rec' = [rec EXCEPT !.initialized = FALSE, !.lastUpdateTime = 0]
  /\ clean' = (clean /\ outcome = "packet")
  /\ UNCHANGED <<clock, frames, steady>>

Next ==
  \/ Tick
  \/ \E t \in 0..MaxTime : SetCurrentTime(t)
  \/ \E rate \in Rates : SetFrameRate(rate) \/ SetMinimumFrameRate(rate)
  \/ \E opening \in Opening : InitRecorder(opening)
  \/ \E outcome \in Outcomes : UpdateFrame(outcome) \/ Timeout(outcome)
  \/ \E opening \in Opening, outcome \in Outcomes : UpdateFirstFrame(opening, outcome)
  \/ \E outcome \in Outcomes, flushed \in BOOLEAN : Uninit(outcome, flushed)

\* The application calls Timeout when GetTimeout says that it is due.
TimeoutDue == GetTimeout = 0 /\ \E outcome \in Outcomes : Timeout(outcome)

Spec == Init /\ [][Next]_vars /\ WF_vars(Tick) /\ WF_vars(TimeoutDue)

-----------------------------------------------------------------------------
\* The recorder has a WebM context exactly while it is initialized, and no pts,
\* duration or timestamp is negative, wherever the clock is set.
TypeOK ==
  /\ rec \in [initialized : BOOLEAN, manualTime : BOOLEAN, frameRate : Rates,
              frameRateMin : Rates, lastUpdateTime : 0..MaxTime]
  /\ rec.initialized <=> webm # NoWebM
  /\ {webm, file} \subseteq Context \cup {NoWebM}
  /\ clock \in 0..MaxTime
  /\ frames \in 0..MaxFrames
  /\ {clean, steady} \subseteq BOOLEAN

\* The recordings there are: the open one and the closed one.
Recordings == {webm, file} \ {NoWebM}

\* However frames, timeouts, failed encodes and jumps of the clock alternate,
\* the time encoded into the open recording is the time that has passed on the
\* clock between the first and the last encode, plus the period of the first
\* frame: the recording neither runs ahead of the screen nor falls behind.
PlaybackInSync ==
  webm # NoWebM /\ webm.frame_count > 0 =>
    webm.pts = FramePeriod(webm) + webm.last_encode_time - webm.first_encode_time

\* Block timestamps strictly increase, and none is more than one unit later
\* than the pts of its frame: the correction of one does not push all others.
TimestampsIncrease ==
  \A w \in Recordings : \A i \in 1..Len(w.blocks) :
    /\ w.blocks[i].time \in w.blocks[i].pts .. (w.blocks[i].pts + 1)
    /\ i > 1 => w.blocks[i - 1].time < w.blocks[i].time

\* Under a clock that does not go back, a frame is shown one period late and
\* never later than that (up to the correction of one unit), but as early as
\* the recorded frame before it was submitted.
ShownInTime ==
  steady =>
    \A w \in Recordings : \A i \in 1..Len(w.blocks) :
      LET b == w.blocks[i]
          late == w.first_encode_time + b.pts - FramePeriod(w)
      IN late <= b.at /\ (i > 1 => w.blocks[i - 1].at <= late)

\* A recording that is closed ends with the last frame that was submitted to
\* it, even when the clock has not moved since the last encode ("emit the
\* final frame with a token 1ms duration rather than dropping its content").
FinalFrameKept ==
  clean /\ file # NoWebM /\ file.img > 0 =>
    file.blocks # << >> /\ file.blocks[Len(file.blocks)].frame = file.img

\* A frame that was on the screen for a frame period is in the recording: only
\* frames replaced sooner than that are skipped.
LastingFramesKept ==
  [][ /\ webm # NoWebM /\ webm' # NoWebM /\ webm.img > 0 /\ webm'.img # webm.img
      /\ clock - webm.at >= FramePeriod(webm)
      /\ steady /\ clean'
      => \E i \in 1..Len(webm'.blocks) : webm'.blocks[i].frame = webm.img ]_vars

\* A recording with a block in it is never deleted when it is closed, however
\* short it was.
RecordingKept ==
  [][ webm # NoWebM /\ webm.blocks # << >> /\ webm' = NoWebM
      => file' # NoWebM /\ Len(file'.blocks) >= Len(webm.blocks) ]_vars

Waiting(f) == webm # NoWebM /\ webm.pending_frame /\ webm.img = f

\* With an application that calls Timeout when it is due, a frame does not
\* stay pending on the system clock: it is encoded or replaced by a newer one,
\* even if it came after a timeout that had nothing to encode.  The clock of
\* the model must have the time left that GetTimeout can ask for.
PendingEncoded ==
  \A f \in 1..MaxFrames :
    (Waiting(f) /\ ~rec.manualTime /\ clock + Second <= MaxTime) ~> (~Waiting(f) \/ ~clean)
=============================================================================
