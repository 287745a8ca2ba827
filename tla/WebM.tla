-------------------------------- MODULE WebM --------------------------------
(***************************************************************************)
(* XmfWebM.cpp as functions on its context w: frames submitted at the      *)
(* times of a clock become the blocks of a WebM segment.  A submitted      *)
(* frame is only converted into w.img and stays pending until the next     *)
(* frame, a timeout or the end of the recording tells how long it was on   *)
(* the screen, so a recording is late by one frame on purpose.             *)
(*                                                                         *)
(* Times are in units of the WebM timecode; the code has 1000 of them in a *)
(* second.  libvpx is external: encoding an image gives a packet, gives    *)
(* none, or fails.  The encoder is configured without look-ahead, so that  *)
(* flushing it gives no packet.                                            *)
(***************************************************************************)
EXTENDS Integers, Sequences

CONSTANTS
  Second,            \* units of time in a second; the code has 1000
  KeyFrameInterval,  \* kKeyFrameInterval, in seconds; the code has 15
  NoWebM             \* NULL, and no file on the disk

ASSUME SecondAssumption == {Second, KeyFrameInterval} \subseteq Nat \ {0}

\* A block of the segment: the frame it shows, when that frame was submitted,
\* the pts the encoder was given, the timestamp and the key flag written.
Block == [frame : Nat, at : Nat, pts : Nat, time : Nat, key : BOOLEAN]

\* struct xmf_webm, with what the segment holds so far.
Context ==
  [frame_rate : 1..Second, frame_count : Nat, first_encode_time : Nat,
   last_encode_time : Nat, pts : Nat, last_pts : Nat, pending_frame : BOOLEAN,
   img : Nat, at : Nat, blocks : Seq(Block)]

ASSUME NoWebMAssumption == NoWebM \notin Context

NewWebM(rate) ==
  [frame_rate |-> rate, frame_count |-> 0, first_encode_time |-> 0,
   last_encode_time |-> 0, pts |-> 0, last_pts |-> 0, pending_frame |-> FALSE,
   img |-> 0, at |-> 0, blocks |-> << >>]

\* XmfWebM_WriteBlock: the timestamp of the next block.
BlockTime(w) == IF w.pts <= w.last_pts THEN w.last_pts + 1 ELSE w.pts

KeyFrameDue(w) == w.frame_count % (KeyFrameInterval * w.frame_rate) = 0

\* XmfWebM_EncodeImage of ctx->img at ctx->pts.
EncodeImage(w, duration, outcome) ==
  LET block == [frame |-> w.img, at |-> w.at, pts |-> w.pts,
                time |-> BlockTime(w), key |-> KeyFrameDue(w)]
      counted == [w EXCEPT !.pts = w.pts + duration, !.frame_count = w.frame_count + 1]
  IN CASE outcome = "error"  -> w
       [] outcome = "none"   -> counted
       [] outcome = "packet" -> [counted EXCEPT !.last_pts = BlockTime(w),
                                                !.blocks = Append(w.blocks, block)]

\* XmfWebM_EncodeImage(NULL): a call that succeeds is counted like a frame.
EncodeFlush(w, ok) ==
  IF ok THEN [w EXCEPT !.pts = w.pts + 1, !.frame_count = w.frame_count + 1] ELSE w

FramePeriod(w) == Second \div w.frame_rate

\* Mutant: a clock that stands still or goes back is not looked for.
FlushableAnyTime(w, now, force) == force \/ now - w.last_encode_time >= FramePeriod(w)

\* Mutant: a clock that has not moved since the last encode is good enough.
FlushableAtOnce(w, now, force) ==
  /\ now >= w.last_encode_time
  /\ force \/ now - w.last_encode_time >= FramePeriod(w)

\* Whether XmfWebM_EncodePendingFrame encodes the pending frame now.
Flushable(w, now, force) ==
  /\ now > w.last_encode_time
  /\ force \/ now - w.last_encode_time >= FramePeriod(w)

\* Mutant: the time of the encode is not remembered.
EncodePendingForgetful(w, now, outcome) ==
  LET e == EncodeImage(w, now - w.last_encode_time, outcome)
  IN IF outcome = "error" THEN e ELSE [e EXCEPT !.pending_frame = FALSE]

\* The rest of XmfWebM_EncodePendingFrame.
EncodePending(w, now, outcome) ==
  LET e == EncodeImage(w, now - w.last_encode_time, outcome)
  IN IF outcome = "error" THEN e
     ELSE [e EXCEPT !.last_encode_time = now, !.pending_frame = FALSE]

\* What XmfWebM_EncodeXRGB does first; with no image (force) it is all it does.
Flush(w, now, force, outcome) ==
  IF w.pending_frame /\ Flushable(w, now, force) THEN EncodePending(w, now, outcome) ELSE w

\* The image is converted into ctx->img, over a frame that is still pending.
Convert(w, frame, now) == [w EXCEPT !.img = frame, !.at = now]

\* Mutant: the time of the first encode is not remembered.
EncodeFirstUntimed(w, now, outcome) ==
  [EncodeImage(w, FramePeriod(w), outcome) EXCEPT !.pending_frame = FALSE]

\* The first frame is encoded at once, for one frame period.
EncodeFirst(w, now, outcome) ==
  LET e == [EncodeImage(w, FramePeriod(w), outcome) EXCEPT !.pending_frame = FALSE]
  IN IF outcome = "error" THEN e
     ELSE [e EXCEPT !.first_encode_time = now, !.last_encode_time = now]

\* Mutant: the new image is converted before the pending one is encoded.
EncodeXRGBConvertFirst(w, frame, now, outcome) ==
  LET flushed == Flush(Convert(w, frame, now), now, FALSE, outcome)
  IN IF flushed.frame_count = 0
     THEN EncodeFirst(flushed, now, outcome)
     ELSE [flushed EXCEPT !.pending_frame = TRUE]

\* XmfWebM_EncodeXRGB with an image.
EncodeXRGB(w, frame, now, outcome) ==
  LET flushed == Flush(w, now, FALSE, outcome)
      converted == Convert(flushed, frame, now)
  IN IF flushed.frame_count = 0
     THEN EncodeFirst(converted, now, outcome)
     ELSE [converted EXCEPT !.pending_frame = TRUE]

\* Mutant: no token duration when the clock has not moved.
FinalFrameDropped(w, now, outcome) == Flush(w, now, TRUE, outcome)

\* XmfWebM_Finalize up to the flush of the encoder: the pending frame is
\* encoded, for a token unit of time when the clock has not moved.
FinalFrame(w, now, outcome) ==
  LET e == EncodeImage(w, 1, outcome)
  IN IF ~w.pending_frame \/ Flushable(w, now, TRUE) THEN Flush(w, now, TRUE, outcome)
     ELSE IF outcome = "error" THEN e
     ELSE [e EXCEPT !.last_encode_time = w.last_encode_time + 1, !.pending_frame = FALSE]

Finalize(w, now, outcome, flushed) == EncodeFlush(FinalFrame(w, now, outcome), flushed)

\* Mutant: the file is kept when XmfWebM_Duration is not 0.
ClosedByDuration(w) == IF w.last_encode_time # w.first_encode_time THEN w ELSE NoWebM

\* XmfWebM_Uninit: the file with its footer, or deleted.
Closed(w) == IF w.pts > 0 THEN w ELSE NoWebM
=============================================================================
