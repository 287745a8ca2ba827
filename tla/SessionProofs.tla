---------------------------- MODULE SessionProofs ----------------------------
(***************************************************************************)
(* The two ends of a recorded session: the timeline the recorder writes,   *)
(* for every rate, clock and encoder, and at the end of this module the    *)
(* streamer that sends what was recorded, for any number of calls in       *)
(* progress and of connections.                                            *)
(*                                                                         *)
(* The open recording is Good: the time encoded equals the time passed     *)
(* (InSync), a recording without encoded frames has no pending one and no  *)
(* time, and the last timestamp written has not overtaken the pts of the   *)
(* next frame (Sorted).  The last part is what makes the correction of a   *)
(* timestamp harmless: the pts of the next frame is at least one unit      *)
(* ahead of the one that was corrected.                                    *)
(*                                                                         *)
(* HInv adds what the blocks show: while the clock was not set back the    *)
(* pending frame came after the last encode and the last block before it   *)
(* (Timely), and while every encode gave a packet the newest frame is      *)
(* pending or the last block (Shown).                                      *)
(***************************************************************************)
EXTENDS Recorder, DucStreamer, TLAPS

TimesOf(w) ==
  \A i \in 1..Len(w.blocks) :
    /\ w.blocks[i].time \in w.blocks[i].pts .. (w.blocks[i].pts + 1)
    /\ i > 1 => w.blocks[i - 1].time < w.blocks[i].time

Sorted(w) ==
  /\ TimesOf(w)
  /\ w.last_pts <= w.pts
  /\ w.blocks # << >> => w.last_pts = w.blocks[Len(w.blocks)].time

InSync(w) ==
  /\ w.frame_count > 0 => w.pts = FramePeriod(w) + w.last_encode_time - w.first_encode_time
  /\ w.frame_count = 0 => w.pts = 0 /\ ~w.pending_frame

Good(w) == w \in Context /\ Sorted(w) /\ InSync(w)

\* All the results an encode can have.
AnyOutcome == {"packet", "none", "error"}

LEMMA FramePeriodPositive ==
  ASSUME NEW w \in Context
  PROVE  FramePeriod(w) \in Nat \ {0}
BY SecondAssumption, SMTT(60) DEF FramePeriod, Context

\* Encoding an image for a positive time keeps the segment sorted.
LEMMA EncodeImageSorted ==
  ASSUME NEW w \in Context, Sorted(w), NEW d \in Nat \ {0}, NEW outcome \in AnyOutcome,
         NEW e, e = EncodeImage(w, d, outcome)
  PROVE  /\ e \in Context /\ Sorted(e)
         /\ outcome = "error" => e = w
         /\ outcome # "error" => e.pts = w.pts + d /\ e.frame_count = w.frame_count + 1
         /\ e.first_encode_time = w.first_encode_time
         /\ e.last_encode_time = w.last_encode_time
         /\ e.pending_frame = w.pending_frame /\ e.frame_rate = w.frame_rate
<1> DEFINE pts == w.pts + d
           count == w.frame_count + 1
           time == BlockTime(w)
           block == [frame |-> w.img, at |-> w.at, pts |-> w.pts,
                     time |-> time, key |-> KeyFrameDue(w)]
           counted == [w EXCEPT !.pts = pts, !.frame_count = count]
<1>1. /\ w.pts \in Nat /\ w.last_pts \in Nat /\ w.blocks \in Seq(Block) /\ w.frame_count \in Nat
      /\ w.img \in Nat /\ w.at \in Nat /\ pts \in Nat /\ count \in Nat
  BY DEF Context
<1>2. /\ time \in w.pts .. (w.pts + 1) /\ time \in Nat /\ time <= w.pts + d
      /\ w.last_pts < time
  BY <1>1 DEF BlockTime, Sorted
<1>3. CASE outcome = "error"
  <2>1. e = w
    BY <1>3 DEF EncodeImage
  <2>. QED BY <1>3, <2>1
<1>4. CASE outcome = "none"
  <2>1. e = counted
    BY <1>4 DEF EncodeImage
  <2>. HIDE DEF pts, count
  <2>2. /\ e \in Context /\ e.blocks = w.blocks /\ e.last_pts = w.last_pts
        /\ e.pts = pts /\ e.frame_count = count
        /\ e.first_encode_time = w.first_encode_time
        /\ e.last_encode_time = w.last_encode_time
        /\ e.pending_frame = w.pending_frame /\ e.frame_rate = w.frame_rate
    BY <1>1, <2>1 DEF Context
  <2>3. Sorted(e)
    BY <1>1, <2>2 DEF Sorted, TimesOf, pts
  <2>. QED BY <1>4, <2>2, <2>3 DEF pts, count
<1>5. CASE outcome = "packet"
  <2>1. e = [counted EXCEPT !.last_pts = time, !.blocks = Append(w.blocks, block)]
    BY <1>5 DEF EncodeImage
  <2>2. block \in Block /\ block.time = time /\ block.pts = w.pts
    <3>1. KeyFrameDue(w) \in BOOLEAN
      BY DEF KeyFrameDue
    <3>. HIDE DEF time
    <3>. QED BY <1>1, <1>2, <3>1 DEF Block
  <2>. HIDE DEF time, block, pts, count
  <2>3. /\ Append(w.blocks, block) \in Seq(Block)
        /\ Len(Append(w.blocks, block)) = Len(w.blocks) + 1
        /\ \A i \in 1..Len(w.blocks) : Append(w.blocks, block)[i] = w.blocks[i]
        /\ Append(w.blocks, block)[Len(w.blocks) + 1] = block
    BY <1>1, <2>2
  <2>4. PICK bs \in Seq(Block) : bs = Append(w.blocks, block)
    BY <2>3
  <2>5. /\ e \in Context /\ e.blocks = bs /\ e.last_pts = time
        /\ e.pts = pts /\ e.frame_count = count
        /\ e.first_encode_time = w.first_encode_time
        /\ e.last_encode_time = w.last_encode_time
        /\ e.pending_frame = w.pending_frame /\ e.frame_rate = w.frame_rate
    BY <1>1, <1>2, <2>1, <2>4 DEF Context
  <2>6. TimesOf(e)
    <3> SUFFICES ASSUME NEW i \in 1..Len(bs)
                 PROVE  /\ bs[i].time \in bs[i].pts .. (bs[i].pts + 1)
                        /\ i > 1 => bs[i - 1].time < bs[i].time
      BY <2>5 DEF TimesOf
    <3>1. CASE i \in 1..Len(w.blocks)
      <4>1. bs[i] = w.blocks[i]
        BY <2>3, <2>4, <3>1
      <4>2. i > 1 => i - 1 \in 1..Len(w.blocks) /\ bs[i - 1] = w.blocks[i - 1]
        BY <1>1, <2>3, <2>4, <3>1
      <4>. QED BY <3>1, <4>1, <4>2 DEF Sorted, TimesOf
    <3>2. CASE i = Len(w.blocks) + 1
      <4>1. bs[i] = block
        BY <2>3, <2>4, <3>2
      <4>2. ASSUME i > 1 PROVE bs[i - 1] = w.blocks[Len(w.blocks)] /\ w.blocks # << >>
        BY <1>1, <2>3, <2>4, <3>2, <4>2
      <4>3. i > 1 => bs[i - 1].time = w.last_pts
        BY <4>2 DEF Sorted
      <4>. QED BY <1>2, <2>2, <4>1, <4>3
    <3>. QED BY <1>1, <2>3, <2>4, <3>1, <3>2
  <2>7. Sorted(e)
    BY <1>1, <1>2, <2>2, <2>3, <2>4, <2>5, <2>6 DEF Sorted, pts
  <2>. QED BY <1>5, <2>5, <2>7 DEF pts, count
<1>. QED BY <1>3, <1>4, <1>5 DEF AnyOutcome

\* The fields an encode does not touch can be set afterwards.
LEMMA SettingKeepsSorted ==
  ASSUME NEW w \in Context, Sorted(w), NEW e \in Context,
         e.blocks = w.blocks, e.pts = w.pts, e.last_pts = w.last_pts
  PROVE  Sorted(e)
BY DEF Sorted, TimesOf

\* Encoding the pending frame adds the time since the last encode, and makes
\* now the time of the last encode.
LEMMA FlushGood ==
  ASSUME NEW w, Good(w), NEW now \in Nat, NEW force \in BOOLEAN, NEW outcome \in AnyOutcome,
         NEW e, e = Flush(w, now, force, outcome)
  PROVE  Good(e)
<1>1. w \in Context /\ Sorted(w) /\ InSync(w)
  BY DEF Good
<1>2. CASE ~(w.pending_frame /\ Flushable(w, now, force))
  BY <1>2 DEF Flush
<1>3. CASE w.pending_frame /\ Flushable(w, now, force)
  <2>1. /\ w.last_encode_time \in Nat /\ w.first_encode_time \in Nat
        /\ w.pts \in Nat /\ w.frame_count \in Nat /\ w.frame_count > 0
        /\ now - w.last_encode_time \in Nat \ {0}
    BY <1>1, <1>3 DEF Flushable, Context, InSync
  <2>2. PICK d \in Nat \ {0} : d = now - w.last_encode_time
    BY <2>1
  <2>3. PICK y : y = EncodeImage(w, d, outcome)
    OBVIOUS
  <2>4. /\ y \in Context /\ Sorted(y)
        /\ outcome = "error" => y = w
        /\ outcome # "error" => y.pts = w.pts + d /\ y.frame_count = w.frame_count + 1
        /\ y.first_encode_time = w.first_encode_time
        /\ y.last_encode_time = w.last_encode_time
        /\ y.frame_rate = w.frame_rate
    BY <1>1, <2>3, EncodeImageSorted
  <2>5. e = IF outcome = "error" THEN y
            ELSE [y EXCEPT !.last_encode_time = now, !.pending_frame = FALSE]
    BY <1>3, <2>2, <2>3 DEF Flush, EncodePending
  <2>6. CASE outcome = "error"
    BY <2>4, <2>5, <2>6
  <2>7. CASE outcome # "error"
    <3>1. e = [y EXCEPT !.last_encode_time = now, !.pending_frame = FALSE]
      BY <2>5, <2>7
    <3>2. /\ e \in Context /\ e.blocks = y.blocks /\ e.pts = y.pts /\ e.last_pts = y.last_pts
          /\ e.frame_count = y.frame_count /\ e.last_encode_time = now
          /\ e.first_encode_time = y.first_encode_time /\ e.frame_rate = y.frame_rate
      BY <2>4, <3>1 DEF Context
    <3>3. Sorted(e)
      BY <2>4, <3>2, SettingKeepsSorted
    <3>4. FramePeriod(e) = FramePeriod(w) /\ FramePeriod(w) \in Nat
      BY <1>1, <2>4, <3>2, FramePeriodPositive DEF FramePeriod
    <3>5. w.pts = FramePeriod(w) + w.last_encode_time - w.first_encode_time
      BY <1>1, <2>1 DEF InSync
    <3>6. e.pts = w.pts + d /\ e.frame_count = w.frame_count + 1
      BY <2>4, <2>7, <3>2
    <3>7. InSync(e)
      BY <2>1, <2>2, <2>4, <3>2, <3>4, <3>5, <3>6 DEF InSync
    <3>. QED BY <3>2, <3>3, <3>7 DEF Good
  <2>. QED BY <2>6, <2>7
<1>. QED BY <1>2, <1>3

\* The first frame starts the timeline with one period.
LEMMA EncodeFirstGood ==
  ASSUME NEW w, Good(w), w.frame_count = 0, NEW now \in Nat, NEW outcome \in AnyOutcome,
         NEW e, e = EncodeFirst(w, now, outcome)
  PROVE  Good(e)
<1>1. w \in Context /\ Sorted(w) /\ InSync(w) /\ w.pts = 0
  BY DEF Good, InSync
<1>2. PICK d \in Nat \ {0} : d = FramePeriod(w)
  BY <1>1, FramePeriodPositive
<1>3. PICK y : y = EncodeImage(w, d, outcome)
  OBVIOUS
<1>4. /\ y \in Context /\ Sorted(y)
      /\ outcome = "error" => y = w
      /\ outcome # "error" => y.pts = w.pts + d /\ y.frame_count = w.frame_count + 1
      /\ y.frame_rate = w.frame_rate
  BY <1>1, <1>3, EncodeImageSorted
<1>5. e = IF outcome = "error" THEN [y EXCEPT !.pending_frame = FALSE]
          ELSE [[y EXCEPT !.pending_frame = FALSE] EXCEPT !.first_encode_time = now,
                                                          !.last_encode_time = now]
  BY <1>2, <1>3 DEF EncodeFirst
<1>6. /\ e \in Context /\ e.blocks = y.blocks /\ e.pts = y.pts /\ e.last_pts = y.last_pts
      /\ e.frame_count = y.frame_count /\ e.frame_rate = y.frame_rate /\ ~e.pending_frame
      /\ outcome # "error" => e.first_encode_time = now /\ e.last_encode_time = now
  BY <1>4, <1>5, ZenonT(60) DEF Context
<1>7. Sorted(e)
  BY <1>4, <1>6, SettingKeepsSorted
<1>8. FramePeriod(e) = d
  BY <1>2, <1>4, <1>6 DEF FramePeriod
<1>9. InSync(e)
  BY <1>1, <1>4, <1>6, <1>8 DEF InSync
<1>. QED BY <1>6, <1>7, <1>9 DEF Good

LEMMA EncodeXRGBGood ==
  ASSUME NEW w, Good(w), NEW frame \in Nat, NEW now \in Nat, NEW outcome \in AnyOutcome,
         NEW e, e = EncodeXRGB(w, frame, now, outcome)
  PROVE  Good(e)
<1>1. PICK f : f = Flush(w, now, FALSE, outcome)
  OBVIOUS
<1>2. Good(f)
  BY <1>1, FlushGood
<1>3. PICK c : c = Convert(f, frame, now)
  OBVIOUS
<1>4. /\ f \in Context /\ Sorted(f) /\ InSync(f)
      /\ c = [f EXCEPT !.img = frame, !.at = now]
  BY <1>2, <1>3 DEF Good, Convert
<1>5. /\ c \in Context /\ c.blocks = f.blocks /\ c.pts = f.pts /\ c.last_pts = f.last_pts
      /\ c.frame_count = f.frame_count /\ c.frame_rate = f.frame_rate
      /\ c.pending_frame = f.pending_frame
      /\ c.first_encode_time = f.first_encode_time
      /\ c.last_encode_time = f.last_encode_time
  BY <1>4 DEF Context
<1>6. Sorted(c)
  BY <1>4, <1>5, SettingKeepsSorted
<1>7. InSync(c)
  BY <1>4, <1>5 DEF InSync, FramePeriod
<1>8. CASE f.frame_count = 0
  <2>1. e = EncodeFirst(c, now, outcome)
    BY <1>1, <1>3, <1>8 DEF EncodeXRGB
  <2>. QED BY <1>5, <1>6, <1>7, <1>8, <2>1, EncodeFirstGood DEF Good
<1>9. CASE f.frame_count # 0
  <2>1. e = [c EXCEPT !.pending_frame = TRUE]
    BY <1>1, <1>3, <1>9 DEF EncodeXRGB
  <2>2. /\ e \in Context /\ e.blocks = c.blocks /\ e.pts = c.pts /\ e.last_pts = c.last_pts
        /\ e.frame_count = c.frame_count /\ e.frame_rate = c.frame_rate
        /\ e.first_encode_time = c.first_encode_time
        /\ e.last_encode_time = c.last_encode_time
    BY <1>5, <2>1 DEF Context
  <2>3. Sorted(e)
    BY <1>5, <1>6, <2>2, SettingKeepsSorted
  <2>4. InSync(e)
    BY <1>5, <1>7, <1>9, <2>2 DEF InSync, FramePeriod
  <2>. QED BY <2>2, <2>3, <2>4 DEF Good
<1>. QED BY <1>8, <1>9

LEMMA NewWebMGood ==
  ASSUME NEW rate \in Rates, NEW w, w = NewWebM(rate)
  PROVE  Good(w)
<1>1. rate \in 1..Second
  BY RatesAssumption
<1>2. << >> \in Seq(Block) /\ Len(<< >>) = 0
  OBVIOUS
<1>3. w \in Context
  BY <1>1, <1>2 DEF NewWebM, Context
<1>4. Sorted(w)
  BY <1>2 DEF NewWebM, Sorted, TimesOf
<1>5. InSync(w)
  BY DEF NewWebM, InSync
<1>. QED BY <1>3, <1>4, <1>5 DEF Good

\* Encoding the last frame may leave the time behind, but not the order.
LEMMA FinalFrameSorted ==
  ASSUME NEW w, Good(w), NEW now \in Nat, NEW outcome \in AnyOutcome,
         NEW f, f = FinalFrame(w, now, outcome)
  PROVE  f \in Context /\ Sorted(f)
<1>1. CASE ~w.pending_frame \/ Flushable(w, now, TRUE)
  <2>1. f = Flush(w, now, TRUE, outcome)
    BY <1>1 DEF FinalFrame
  <2>2. Good(f)
    BY <2>1, FlushGood
  <2>. QED BY <2>2 DEF Good
<1>2. CASE ~(~w.pending_frame \/ Flushable(w, now, TRUE))
  <2>1. PICK y : y = EncodeImage(w, 1, outcome)
    OBVIOUS
  <2>2. w \in Context /\ Sorted(w) /\ 1 \in Nat \ {0}
    BY DEF Good
  <2>3. y \in Context /\ Sorted(y)
    BY <2>1, <2>2, EncodeImageSorted
  <2>4. PICK t \in Nat : t = w.last_encode_time + 1
    BY <2>2 DEF Context
  <2>5. f = y \/ f = [y EXCEPT !.last_encode_time = t, !.pending_frame = FALSE]
    BY <1>2, <2>1, <2>4 DEF FinalFrame
  <2>6. /\ f \in Context /\ f.blocks = y.blocks /\ f.pts = y.pts /\ f.last_pts = y.last_pts
    BY <2>3, <2>5 DEF Context
  <2>. QED BY <2>3, <2>6, SettingKeepsSorted
<1>. QED BY <1>1, <1>2

\* And so does closing the recording.
LEMMA FinalizeSorted ==
  ASSUME NEW w, Good(w), NEW now \in Nat, NEW outcome \in AnyOutcome, NEW flushed \in BOOLEAN,
         NEW e, e = Finalize(w, now, outcome, flushed)
  PROVE  e \in Context /\ Sorted(e)
<1>1. PICK f : f = FinalFrame(w, now, outcome)
  OBVIOUS
<1>2. f \in Context /\ Sorted(f)
  BY <1>1, FinalFrameSorted
<1>3. e = EncodeFlush(f, flushed)
  BY <1>1 DEF Finalize
<1>4. PICK p \in Nat : p = f.pts + 1
  BY <1>2 DEF Context
<1>5. PICK n \in Nat : n = f.frame_count + 1
  BY <1>2 DEF Context
<1>6. e = f \/ e = [f EXCEPT !.pts = p, !.frame_count = n]
  BY <1>3, <1>4, <1>5 DEF EncodeFlush
<1>7. /\ e \in Context /\ e.blocks = f.blocks /\ e.last_pts = f.last_pts
      /\ e.pts \in {f.pts, p}
  BY <1>2, <1>6 DEF Context
<1>8. f.pts \in Nat /\ f.last_pts \in Nat
  BY <1>2 DEF Context
<1>. QED BY <1>2, <1>4, <1>7, <1>8 DEF Sorted, TimesOf

-----------------------------------------------------------------------------
(* What the blocks are: the order of the frames, not only of the times.    *)

\* A recording with blocks has counted frames, and counted frames have taken
\* time.
Counted(w) ==
  /\ w.blocks # << >> => w.frame_count > 0
  /\ w.frame_count > 0 => w.pts > 0

\* Block i is shown at most one period after its frame came, and at least one
\* period after the frame before it came.
InTime(w) ==
  \A i \in 1..Len(w.blocks) :
    LET late == w.first_encode_time + w.blocks[i].pts - FramePeriod(w)
    IN late <= w.blocks[i].at /\ (i > 1 => w.blocks[i - 1].at <= late)

\* Nothing in the recording is later than now: the pending frame came after
\* the last encode, and the last block was submitted before it.
Timely(w, now) ==
  /\ InTime(w)
  /\ w.last_encode_time <= now /\ w.at <= now
  /\ w.pending_frame => w.last_encode_time <= w.at
  /\ w.blocks # << >> => w.blocks[Len(w.blocks)].at <= w.last_encode_time

EndsWith(w, frame) == w.blocks # << >> /\ w.blocks[Len(w.blocks)].frame = frame

\* The last frame that came is pending or the last block.
Shown(w) == w.img > 0 /\ ~w.pending_frame => EndsWith(w, w.img)

\* e is w after a call of the encoder that succeeded: one more frame, which is
\* a block when there was a packet.
Adds(w, e, outcome) ==
  /\ e.img = w.img /\ e.at = w.at /\ e.frame_rate = w.frame_rate
  /\ e.frame_count = w.frame_count + 1
  /\ e.blocks \in Seq(Block)
  /\ \A i \in 1..Len(w.blocks) : e.blocks[i] = w.blocks[i]
  /\ outcome = "packet" => /\ Len(e.blocks) = Len(w.blocks) + 1
                           /\ e.blocks[Len(w.blocks) + 1].frame = w.img
                           /\ e.blocks[Len(w.blocks) + 1].at = w.at
                           /\ e.blocks[Len(w.blocks) + 1].pts = w.pts
  /\ outcome # "packet" => Len(e.blocks) = Len(w.blocks)

LEMMA EncodeImageAdds ==
  ASSUME NEW w \in Context, NEW d \in Nat \ {0}, NEW outcome \in {"packet", "none"},
         NEW e, e = EncodeImage(w, d, outcome)
  PROVE  /\ Adds(w, e, outcome) /\ e \in Context /\ e.pts = w.pts + d
         /\ e.first_encode_time = w.first_encode_time
         /\ e.last_encode_time = w.last_encode_time /\ e.pending_frame = w.pending_frame
<1> DEFINE pts == w.pts + d
           count == w.frame_count + 1
           time == BlockTime(w)
           block == [frame |-> w.img, at |-> w.at, pts |-> w.pts,
                     time |-> time, key |-> KeyFrameDue(w)]
           counted == [w EXCEPT !.pts = pts, !.frame_count = count]
<1>1. /\ w.pts \in Nat /\ w.last_pts \in Nat /\ w.blocks \in Seq(Block) /\ w.frame_count \in Nat
      /\ w.img \in Nat /\ w.at \in Nat /\ pts \in Nat /\ count \in Nat
  BY DEF Context
<1>2. time \in Nat
  BY <1>1 DEF BlockTime
<1>3. CASE outcome = "none"
  <2>1. e = counted
    BY <1>3 DEF EncodeImage
  <2>. HIDE DEF pts, count
  <2>2. /\ e \in Context /\ e.blocks = w.blocks /\ e.pts = pts /\ e.frame_count = count
        /\ e.first_encode_time = w.first_encode_time
        /\ e.last_encode_time = w.last_encode_time
        /\ e.pending_frame = w.pending_frame /\ e.frame_rate = w.frame_rate
        /\ e.img = w.img /\ e.at = w.at
    BY <1>1, <2>1 DEF Context
  <2>. QED BY <1>1, <1>3, <2>2 DEF pts, count, Adds
<1>4. CASE outcome = "packet"
  <2>1. e = [counted EXCEPT !.last_pts = time, !.blocks = Append(w.blocks, block)]
    BY <1>4 DEF EncodeImage
  <2>2. block \in Block /\ block.frame = w.img /\ block.at = w.at /\ block.pts = w.pts
    <3>1. KeyFrameDue(w) \in BOOLEAN
      BY DEF KeyFrameDue
    <3>. HIDE DEF time
    <3>. QED BY <1>1, <1>2, <3>1 DEF Block
  <2>. HIDE DEF time, block, pts, count
  <2>3. /\ Append(w.blocks, block) \in Seq(Block)
        /\ Len(Append(w.blocks, block)) = Len(w.blocks) + 1
        /\ \A i \in 1..Len(w.blocks) : Append(w.blocks, block)[i] = w.blocks[i]
        /\ Append(w.blocks, block)[Len(w.blocks) + 1] = block
    BY <1>1, <2>2
  <2>4. PICK bs \in Seq(Block) : bs = Append(w.blocks, block)
    BY <2>3
  <2>5. /\ e \in Context /\ e.blocks = bs /\ e.pts = pts /\ e.frame_count = count
        /\ e.first_encode_time = w.first_encode_time
        /\ e.last_encode_time = w.last_encode_time
        /\ e.pending_frame = w.pending_frame /\ e.frame_rate = w.frame_rate
        /\ e.img = w.img /\ e.at = w.at
    BY <1>1, <1>2, <2>1, <2>4 DEF Context
  <2>. QED BY <1>1, <1>4, <2>2, <2>3, <2>4, <2>5 DEF pts, count, Adds
<1>. QED BY <1>3, <1>4

\* Only the fields an encode does not look at are different.
LEMMA AddsAgain ==
  ASSUME NEW w, NEW y, NEW outcome, Adds(w, y, outcome), NEW e, e.blocks = y.blocks,
         e.img = y.img, e.at = y.at, e.frame_rate = y.frame_rate,
         e.frame_count = y.frame_count
  PROVE  Adds(w, e, outcome)
BY DEF Adds

\* The pending frame is encoded, or nothing happens.
LEMMA FlushAdds ==
  ASSUME NEW w, Good(w), NEW now \in Nat, NEW force \in BOOLEAN, NEW outcome \in AnyOutcome,
         NEW e, e = Flush(w, now, force, outcome)
  PROVE  \/ e = w /\ (w.pending_frame /\ Flushable(w, now, force) => outcome = "error")
         \/ /\ w.pending_frame /\ Flushable(w, now, force) /\ outcome # "error"
            /\ Adds(w, e, outcome) /\ e.last_encode_time = now /\ ~e.pending_frame
            /\ e.first_encode_time = w.first_encode_time /\ e.pts > 0
<1>1. w \in Context /\ Sorted(w) /\ InSync(w)
  BY DEF Good
<1>2. CASE ~(w.pending_frame /\ Flushable(w, now, force))
  BY <1>2 DEF Flush
<1>3. CASE w.pending_frame /\ Flushable(w, now, force)
  <2>1. w.last_encode_time \in Nat /\ w.pts \in Nat /\ now - w.last_encode_time \in Nat \ {0}
    BY <1>1, <1>3 DEF Flushable, Context
  <2>2. PICK d \in Nat \ {0} : d = now - w.last_encode_time
    BY <2>1
  <2>3. PICK y : y = EncodeImage(w, d, outcome)
    OBVIOUS
  <2>4. e = IF outcome = "error" THEN y
            ELSE [y EXCEPT !.last_encode_time = now, !.pending_frame = FALSE]
    BY <1>3, <2>2, <2>3 DEF Flush, EncodePending
  <2>5. CASE outcome = "error"
    <3>1. y = w
      BY <2>3, <2>5 DEF EncodeImage
    <3>. QED BY <2>4, <2>5, <3>1
  <2>6. CASE outcome # "error"
    <3>1. outcome \in {"packet", "none"}
      BY <2>6 DEF AnyOutcome
    <3>2. /\ Adds(w, y, outcome) /\ y \in Context /\ y.pts = w.pts + d
          /\ y.first_encode_time = w.first_encode_time
      BY <1>1, <2>3, <3>1, EncodeImageAdds
    <3>3. e = [y EXCEPT !.last_encode_time = now, !.pending_frame = FALSE]
      BY <2>4, <2>6
    <3>4. /\ e.blocks = y.blocks /\ e.img = y.img /\ e.at = y.at /\ e.pts = y.pts
          /\ e.frame_rate = y.frame_rate /\ e.frame_count = y.frame_count
          /\ e.last_encode_time = now /\ ~e.pending_frame
          /\ e.first_encode_time = y.first_encode_time
      BY <3>2, <3>3 DEF Context
    <3>5. Adds(w, e, outcome)
      BY <3>2, <3>4, AddsAgain
    <3>. QED BY <1>3, <2>1, <2>2, <2>6, <3>2, <3>4, <3>5
  <2>. QED BY <2>5, <2>6
<1>. QED BY <1>2, <1>3

\* The first frame is encoded, or none is; it is never pending.
LEMMA EncodeFirstAdds ==
  ASSUME NEW w, Good(w), w.frame_count = 0, NEW now \in Nat, NEW outcome \in AnyOutcome,
         NEW e, e = EncodeFirst(w, now, outcome)
  PROVE  /\ ~e.pending_frame /\ e.img = w.img /\ e.at = w.at
         /\ \/ /\ outcome = "error" /\ e.blocks = w.blocks /\ e.frame_count = 0
               /\ e.last_encode_time = w.last_encode_time
            \/ /\ outcome # "error" /\ Adds(w, e, outcome) /\ e.pts > 0
               /\ e.first_encode_time = now /\ e.last_encode_time = now
<1>1. w \in Context /\ w.pts = 0
  BY DEF Good, InSync
<1>2. PICK d \in Nat \ {0} : d = FramePeriod(w)
  BY <1>1, FramePeriodPositive
<1>3. PICK y : y = EncodeImage(w, d, outcome)
  OBVIOUS
<1>4. e = IF outcome = "error" THEN [y EXCEPT !.pending_frame = FALSE]
          ELSE [[y EXCEPT !.pending_frame = FALSE] EXCEPT !.first_encode_time = now,
                                                          !.last_encode_time = now]
  BY <1>2, <1>3 DEF EncodeFirst
<1>5. CASE outcome = "error"
  <2>1. y = w
    BY <1>3, <1>5 DEF EncodeImage
  <2>2. e = [w EXCEPT !.pending_frame = FALSE]
    BY <1>4, <1>5, <2>1
  <2>. QED BY <1>1, <1>5, <2>2 DEF Context
<1>6. CASE outcome # "error"
  <2>1. outcome \in {"packet", "none"}
    BY <1>6 DEF AnyOutcome
  <2>2. Adds(w, y, outcome) /\ y \in Context /\ y.pts = w.pts + d
    BY <1>1, <1>3, <2>1, EncodeImageAdds
  <2>3. /\ e.blocks = y.blocks /\ e.img = y.img /\ e.at = y.at /\ e.pts = y.pts
        /\ e.frame_rate = y.frame_rate /\ e.frame_count = y.frame_count
        /\ e.first_encode_time = now /\ e.last_encode_time = now /\ ~e.pending_frame
    BY <1>4, <1>6, <2>2 DEF Context
  <2>4. Adds(w, e, outcome)
    BY <2>2, <2>3, AddsAgain
  <2>5. e.img = w.img /\ e.at = w.at /\ e.pts > 0
    BY <1>1, <2>2, <2>3, <2>4 DEF Adds
  <2>. QED BY <1>6, <2>3, <2>4, <2>5
<1>. QED BY <1>5, <1>6

\* Closing encodes the pending frame even when no time has passed.
LEMMA FinalFrameAdds ==
  ASSUME NEW w, Good(w), NEW now \in Nat, NEW outcome \in AnyOutcome,
         NEW e, e = FinalFrame(w, now, outcome)
  PROVE  \/ e = w /\ (w.pending_frame => outcome = "error")
         \/ /\ w.pending_frame /\ outcome # "error" /\ Adds(w, e, outcome)
            /\ ~e.pending_frame /\ e.first_encode_time = w.first_encode_time /\ e.pts > 0
<1>1. CASE ~w.pending_frame \/ Flushable(w, now, TRUE)
  <2>1. e = Flush(w, now, TRUE, outcome)
    BY <1>1 DEF FinalFrame
  <2>2. PICK force \in BOOLEAN : e = Flush(w, now, force, outcome)
                                 /\ (~w.pending_frame \/ Flushable(w, now, force))
    BY <1>1, <2>1, Zenon
  <2>3. ~w.pending_frame \/ Flushable(w, now, force)
    BY <2>2
  <2>4. \/ e = w /\ (w.pending_frame /\ Flushable(w, now, force) => outcome = "error")
        \/ /\ w.pending_frame /\ outcome # "error" /\ Adds(w, e, outcome)
           /\ ~e.pending_frame /\ e.first_encode_time = w.first_encode_time /\ e.pts > 0
    BY <2>2, FlushAdds
  <2>. QED BY <2>3, <2>4
<1>2. CASE ~(~w.pending_frame \/ Flushable(w, now, TRUE))
  <2>1. PICK y : y = EncodeImage(w, 1, outcome)
    OBVIOUS
  <2>2. w \in Context /\ 1 \in Nat \ {0} /\ w.pts \in Nat
    BY DEF Good, Context
  <2>3. PICK t \in Nat : t = w.last_encode_time + 1
    BY <2>2 DEF Context
  <2>4. e = IF outcome = "error" THEN y
            ELSE [y EXCEPT !.last_encode_time = t, !.pending_frame = FALSE]
    BY <1>2, <2>1, <2>3 DEF FinalFrame
  <2>5. CASE outcome = "error"
    <3>1. y = w
      BY <2>1, <2>5 DEF EncodeImage
    <3>. QED BY <2>4, <2>5, <3>1
  <2>6. CASE outcome # "error"
    <3>1. outcome \in {"packet", "none"}
      BY <2>6 DEF AnyOutcome
    <3>2. /\ Adds(w, y, outcome) /\ y \in Context /\ y.pts = w.pts + 1
          /\ y.first_encode_time = w.first_encode_time
      BY <2>1, <2>2, <3>1, EncodeImageAdds, ZenonT(60)
    <3>3. /\ e.blocks = y.blocks /\ e.img = y.img /\ e.at = y.at /\ e.pts = y.pts
          /\ e.frame_rate = y.frame_rate /\ e.frame_count = y.frame_count
          /\ ~e.pending_frame /\ e.first_encode_time = y.first_encode_time
      BY <2>4, <2>6, <3>2 DEF Context
    <3>4. Adds(w, e, outcome)
      BY <3>2, <3>3, AddsAgain
    <3>5. w.pending_frame
      BY <1>2, Zenon
    <3>6. e.pts > 0
      BY <2>2, <3>2, <3>3
    <3>. QED BY <2>6, <3>2, <3>3, <3>4, <3>5, <3>6
  <2>. QED BY <2>5, <2>6
<1>. QED BY <1>1, <1>2

LEMMA AddsShown ==
  ASSUME NEW w \in Context, NEW e, NEW outcome, outcome = "packet", Adds(w, e, outcome)
  PROVE  EndsWith(e, w.img)
<1>1. Len(w.blocks) \in Nat
  BY DEF Context
<1>2. e.blocks \in Seq(Block) /\ Len(e.blocks) = Len(w.blocks) + 1
  BY DEF Adds
<1>. QED BY <1>1, <1>2 DEF Adds, EndsWith

\* A block that is added is in time when the time encoded so far is, and it
\* becomes the last block.
LEMMA AddsInTime ==
  ASSUME NEW w \in Context, InTime(w), NEW outcome \in AnyOutcome, NEW e, Adds(w, e, outcome),
         NEW late \in Int, late = e.first_encode_time + w.pts - FramePeriod(w),
         w.blocks # << >> => /\ e.first_encode_time = w.first_encode_time
                             /\ w.blocks[Len(w.blocks)].at <= late,
         late <= w.at,
         NEW now \in Nat, w.at <= now, late <= now
  PROVE  InTime(e) /\ (e.blocks # << >> => e.blocks[Len(e.blocks)].at <= now)
<1> DEFINE n == Len(w.blocks)
<1>1. /\ n \in Nat /\ w.blocks \in Seq(Block) /\ e.blocks \in Seq(Block) /\ w.at \in Nat
      /\ \A i \in 1..n : e.blocks[i] = w.blocks[i] /\ w.blocks[i] \in Block
      /\ \A i \in 1..Len(e.blocks) : e.blocks[i] \in Block
      /\ Len(e.blocks) \in Nat
  BY SMTT(60) DEF Context, Adds
<1>2. w.blocks # << >> <=> n > 0
  BY <1>1
<1>3. FramePeriod(e) = FramePeriod(w)
  BY DEF Adds, FramePeriod
<1>. HIDE DEF n
<1>4. ASSUME NEW i \in 1..n
      PROVE  LET l == e.first_encode_time + e.blocks[i].pts - FramePeriod(e)
             IN l <= e.blocks[i].at /\ (i > 1 => e.blocks[i - 1].at <= l)
  <2>1. e.first_encode_time = w.first_encode_time
    BY <1>1, <1>2
  <2>2. e.blocks[i] = w.blocks[i] /\ (i > 1 => e.blocks[i - 1] = w.blocks[i - 1])
    BY <1>1
  <2>3. LET l == w.first_encode_time + w.blocks[i].pts - FramePeriod(w)
        IN l <= w.blocks[i].at /\ (i > 1 => w.blocks[i - 1].at <= l)
    BY DEF InTime, n
  <2>. QED BY <1>3, <2>1, <2>2, <2>3
<1>5. CASE outcome = "packet"
  <2>1. /\ Len(e.blocks) = n + 1 /\ e.blocks[n + 1].at = w.at /\ e.blocks[n + 1].pts = w.pts
    BY <1>5 DEF Adds, n
  <2>2. ASSUME NEW i \in Nat, i = n + 1
        PROVE  LET l == e.first_encode_time + e.blocks[i].pts - FramePeriod(e)
               IN l <= e.blocks[i].at /\ (i > 1 => e.blocks[i - 1].at <= l)
    <3>1. e.blocks[i].pts = w.pts /\ e.blocks[i].at = w.at
      BY <2>1, <2>2
    <3>2. e.first_encode_time + e.blocks[i].pts - FramePeriod(e) = late
      BY <1>3, <3>1
    <3>3. i > 1 => e.blocks[i - 1] = w.blocks[n] /\ w.blocks[n].at <= late
      <4>1. i - 1 = n /\ (i > 1 => n \in 1..n)
        BY <1>1, <2>2
      <4>. QED BY <1>1, <1>2, <4>1 DEF n
    <3>. QED BY <3>1, <3>2, <3>3
  <2>3. \A i \in 1..Len(e.blocks) : i \in 1..n \/ i = n + 1
    BY <1>1, <2>1
  <2>4. InTime(e)
    <3> SUFFICES ASSUME NEW i \in 1..Len(e.blocks)
                 PROVE  LET l == e.first_encode_time + e.blocks[i].pts - FramePeriod(e)
                        IN l <= e.blocks[i].at /\ (i > 1 => e.blocks[i - 1].at <= l)
      BY DEF InTime
    <3>1. CASE i \in 1..n
      BY <1>4, <3>1
    <3>2. CASE i = n + 1
      BY <2>2, <3>2
    <3>. QED BY <2>3, <3>1, <3>2
  <2>. QED BY <2>1, <2>4
<1>6. CASE outcome # "packet"
  <2>1. Len(e.blocks) = n
    BY <1>6 DEF Adds, n
  <2>2. InTime(e)
    BY <1>4, <2>1 DEF InTime
  <2>3. ASSUME e.blocks # << >> PROVE e.blocks[Len(e.blocks)].at <= now
    <3>1. n > 0 /\ n \in 1..n
      BY <1>1, <2>1, <2>3
    <3>2. e.blocks[n] = w.blocks[n] /\ w.blocks[n].at <= late /\ w.blocks[n].at \in Nat
      BY <1>1, <1>2, <3>1 DEF n, Block
    <3>. QED BY <2>1, <3>2
  <2>. QED BY <2>2, <2>3
<1>. QED BY <1>5, <1>6

LEMMA AddsBlocks ==
  ASSUME NEW w \in Context, NEW outcome \in AnyOutcome, NEW e, Adds(w, e, outcome)
  PROVE  /\ Len(e.blocks) \in Nat /\ Len(w.blocks) \in Nat /\ Len(e.blocks) >= Len(w.blocks)
         /\ e.frame_count > 0
<1>1. Len(w.blocks) \in Nat /\ Len(e.blocks) \in Nat /\ w.frame_count \in Nat
  BY DEF Context, Adds
<1>2. Len(e.blocks) = Len(w.blocks) \/ Len(e.blocks) = Len(w.blocks) + 1
  BY DEF Adds
<1>. QED BY <1>1, <1>2 DEF Adds

\* The context keeps what is said of its blocks when the pending frame may be
\* encoded.
LEMMA FlushKeeps ==
  ASSUME NEW w, Good(w), Counted(w), NEW now \in Nat, NEW force \in BOOLEAN,
         NEW outcome \in AnyOutcome, NEW e, e = Flush(w, now, force, outcome)
  PROVE  /\ Counted(e) /\ e.img = w.img /\ e.at = w.at
         /\ Timely(w, now) => Timely(e, now)
         /\ outcome = "packet" /\ Shown(w) => Shown(e)
<1>1. w \in Context /\ InSync(w)
  BY DEF Good
<1>2. CASE e = w
  BY <1>2
<1>3. CASE /\ w.pending_frame /\ Flushable(w, now, force) /\ outcome # "error"
           /\ Adds(w, e, outcome) /\ e.last_encode_time = now /\ ~e.pending_frame
           /\ e.first_encode_time = w.first_encode_time /\ e.pts > 0
  <2>1. e.img = w.img /\ e.at = w.at
    BY <1>3 DEF Adds
  <2>2. Counted(e)
    BY <1>1, <1>3, AddsBlocks DEF Counted
  <2>3. ASSUME Timely(w, now) PROVE Timely(e, now)
    <3>1. /\ w.last_encode_time \in Nat /\ w.first_encode_time \in Nat /\ w.pts \in Nat
          /\ w.at \in Nat /\ w.frame_count \in Nat /\ FramePeriod(w) \in Nat
      BY <1>1, FramePeriodPositive DEF Context
    <3>2. w.pts = FramePeriod(w) + w.last_encode_time - w.first_encode_time
      BY <1>1, <1>3, <3>1 DEF InSync
    <3>3. PICK late \in Int : late = w.last_encode_time
      BY <3>1
    <3>4. /\ late = e.first_encode_time + w.pts - FramePeriod(w)
          /\ late <= now /\ w.at <= now /\ late <= w.at /\ InTime(w)
          /\ w.blocks # << >> => /\ e.first_encode_time = w.first_encode_time
                                 /\ w.blocks[Len(w.blocks)].at <= late
      BY <1>3, <2>3, <3>1, <3>2, <3>3 DEF Timely
    <3>5. InTime(e) /\ (e.blocks # << >> => e.blocks[Len(e.blocks)].at <= now)
      BY <1>1, <1>3, <3>3, <3>4, AddsInTime
    <3>. QED BY <1>3, <2>1, <3>4, <3>5 DEF Timely
  <2>4. outcome = "packet" => Shown(e)
    BY <1>1, <1>3, <2>1, AddsShown DEF Shown
  <2>. QED BY <2>1, <2>2, <2>3, <2>4
<1>. QED BY <1>2, <1>3, FlushAdds

\* So it does when an image is submitted; and a frame that was on the screen
\* for a period is a block by then.
LEMMA EncodeXRGBKeeps ==
  ASSUME NEW w, Good(w), Counted(w), NEW frame \in Nat, NEW now \in Nat,
         NEW outcome \in AnyOutcome, NEW e, e = EncodeXRGB(w, frame, now, outcome)
  PROVE  /\ Counted(e)
         /\ Timely(w, now) => Timely(e, now)
         /\ outcome = "packet" /\ Shown(w) => Shown(e)
         /\ Timely(w, now) /\ Shown(w) /\ outcome = "packet" /\ w.img > 0
              /\ now - w.at >= FramePeriod(w)
              => \E i \in 1..Len(e.blocks) : e.blocks[i].frame = w.img
<1>1. PICK f : f = Flush(w, now, FALSE, outcome)
  OBVIOUS
<1>2. Good(f)
  BY <1>1, FlushGood
<1>3. /\ Counted(f) /\ f.img = w.img /\ f.at = w.at
      /\ Timely(w, now) => Timely(f, now)
      /\ outcome = "packet" /\ Shown(w) => Shown(f)
  <2>1. PICK force \in BOOLEAN : f = Flush(w, now, force, outcome)
    BY <1>1, Zenon
  <2>. QED BY <2>1, FlushKeeps
<1>4. PICK c : c = Convert(f, frame, now)
  OBVIOUS
<1>5. f \in Context /\ Sorted(f) /\ InSync(f) /\ c = [f EXCEPT !.img = frame, !.at = now]
  BY <1>2, <1>4 DEF Good, Convert
<1>6. /\ c \in Context /\ c.blocks = f.blocks /\ c.pts = f.pts /\ c.last_pts = f.last_pts
      /\ c.frame_count = f.frame_count /\ c.frame_rate = f.frame_rate
      /\ c.pending_frame = f.pending_frame
      /\ c.first_encode_time = f.first_encode_time
      /\ c.last_encode_time = f.last_encode_time
      /\ c.img = frame /\ c.at = now
  BY <1>5 DEF Context
<1>7. Good(c)
  <2>1. Sorted(c)
    BY <1>5, <1>6, SettingKeepsSorted
  <2>2. InSync(c)
    BY <1>5, <1>6 DEF InSync, FramePeriod
  <2>. QED BY <1>6, <2>1, <2>2 DEF Good
<1>8. Counted(c)
  BY <1>3, <1>6 DEF Counted
<1>9. f.last_encode_time \in Nat /\ f.frame_count \in Nat /\ FramePeriod(f) \in Nat \ {0}
  BY <1>5, FramePeriodPositive DEF Context
<1>10. Timely(f, now) => Timely(c, now)
  BY <1>6, <1>9 DEF Timely, InTime, FramePeriod
<1>11. /\ \A i \in 1..Len(f.blocks) : i \in 1..Len(e.blocks) /\ e.blocks[i] = f.blocks[i]
       /\ Counted(e)
       /\ Timely(c, now) => Timely(e, now)
       /\ outcome = "packet" => Shown(e)
  <2>1. CASE f.frame_count = 0
    <3>1. e = EncodeFirst(c, now, outcome)
      BY <1>1, <1>4, <2>1 DEF EncodeXRGB
    <3>2. /\ ~e.pending_frame /\ e.img = c.img /\ e.at = c.at
          /\ \/ /\ outcome = "error" /\ e.blocks = c.blocks /\ e.frame_count = 0
                /\ e.last_encode_time = c.last_encode_time
             \/ /\ outcome # "error" /\ Adds(c, e, outcome) /\ e.pts > 0
                /\ e.first_encode_time = now /\ e.last_encode_time = now
      BY <1>6, <1>7, <2>1, <3>1, EncodeFirstAdds
    <3>3. c.blocks = << >> /\ Len(c.blocks) = 0 /\ c.pts = 0 /\ c.frame_count = 0
      BY <1>5, <1>6, <1>8, <2>1 DEF Counted, InSync
    <3>4. CASE /\ outcome = "error" /\ e.blocks = c.blocks /\ e.frame_count = 0
               /\ e.last_encode_time = c.last_encode_time
      BY <1>6, <3>2, <3>3, <3>4 DEF Counted, Timely, InTime
    <3>5. CASE /\ outcome # "error" /\ Adds(c, e, outcome) /\ e.pts > 0
               /\ e.first_encode_time = now /\ e.last_encode_time = now
      <4>1. Counted(e)
        BY <1>6, <3>5, AddsBlocks DEF Counted
      <4>2. FramePeriod(c) \in Nat
        BY <1>6, FramePeriodPositive
      <4>3. PICK late \in Int : late = now - FramePeriod(c)
        BY <4>2
      <4>4. /\ late = e.first_encode_time + c.pts - FramePeriod(c)
            /\ late <= c.at /\ late <= now /\ c.at <= now /\ InTime(c)
            /\ c.blocks # << >> => /\ e.first_encode_time = c.first_encode_time
                                   /\ c.blocks[Len(c.blocks)].at <= late
        BY <1>6, <3>3, <3>5, <4>2, <4>3 DEF InTime
      <4>5. InTime(e) /\ (e.blocks # << >> => e.blocks[Len(e.blocks)].at <= now)
        BY <1>6, <3>5, <4>3, <4>4, AddsInTime
      <4>6. Timely(e, now)
        BY <1>6, <3>2, <3>5, <4>5 DEF Timely
      <4>7. outcome = "packet" => Shown(e)
        BY <1>6, <3>2, <3>5, AddsShown DEF Shown
      <4>. QED BY <1>6, <3>3, <4>1, <4>6, <4>7
    <3>. QED BY <3>2, <3>4, <3>5
  <2>2. CASE f.frame_count # 0
    <3>1. e = [c EXCEPT !.pending_frame = TRUE]
      BY <1>1, <1>4, <2>2 DEF EncodeXRGB
    <3>2. /\ e.blocks = c.blocks /\ e.pts = c.pts /\ e.frame_count = c.frame_count
          /\ e.frame_rate = c.frame_rate /\ e.pending_frame /\ e.img = c.img /\ e.at = c.at
          /\ e.first_encode_time = c.first_encode_time
          /\ e.last_encode_time = c.last_encode_time
      BY <1>6, <3>1 DEF Context
    <3>3. Counted(e)
      BY <1>8, <3>2 DEF Counted
    <3>4. Timely(c, now) => Timely(e, now)
      BY <1>6, <3>2 DEF Timely, InTime, FramePeriod
    <3>. QED BY <1>6, <3>2, <3>3, <3>4 DEF Shown
  <2>. QED BY <2>1, <2>2
<1>12. ASSUME Timely(w, now), Shown(w), outcome = "packet", w.img > 0,
              now - w.at >= FramePeriod(w)
       PROVE  \E i \in 1..Len(e.blocks) : e.blocks[i].frame = w.img
  <2>1. EndsWith(f, w.img)
    <3>1. CASE w.pending_frame
      <4>1. /\ w.last_encode_time \in Nat /\ w.at \in Nat /\ FramePeriod(w) \in Nat \ {0}
            /\ w.last_encode_time <= w.at /\ w \in Context
        BY <1>12, <3>1, FramePeriodPositive DEF Good, Context, Timely
      <4>2. Flushable(w, now, FALSE)
        BY <1>12, <4>1 DEF Flushable
      <4>3. Adds(w, f, outcome)
        BY <1>1, <1>12, <3>1, <4>2, FlushAdds
      <4>. QED BY <1>12, <4>1, <4>3, AddsShown
    <3>2. CASE ~w.pending_frame
      <4>1. f = w
        BY <1>1, <3>2 DEF Flush
      <4>. QED BY <1>12, <3>2, <4>1 DEF Shown
    <3>. QED BY <3>1, <3>2
  <2>2. Len(f.blocks) \in 1..Len(f.blocks)
    BY <1>5, <2>1 DEF EndsWith, Context
  <2>. QED BY <1>11, <2>1, <2>2 DEF EndsWith
<1>. QED BY <1>3, <1>10, <1>11, <1>12

\* Closing the recording keeps its blocks and ends it with its last frame.
LEMMA FinalizeKeeps ==
  ASSUME NEW w, Good(w), Counted(w), NEW now \in Nat, NEW outcome \in AnyOutcome,
         NEW flushed \in BOOLEAN, NEW e, e = Finalize(w, now, outcome, flushed)
  PROVE  /\ Len(e.blocks) >= Len(w.blocks) /\ (w.blocks # << >> => e.pts > 0)
         /\ Timely(w, now) => InTime(e)
         /\ outcome = "packet" /\ Shown(w) /\ e.img > 0 => EndsWith(e, e.img)
<1>1. PICK f : f = FinalFrame(w, now, outcome)
  OBVIOUS
<1>2. w \in Context /\ InSync(w)
  BY DEF Good
<1>3. /\ Len(f.blocks) >= Len(w.blocks) /\ (w.blocks # << >> => f.pts > 0)
      /\ Timely(w, now) => InTime(f)
      /\ outcome = "packet" /\ Shown(w) /\ f.img > 0 => EndsWith(f, f.img)
      /\ f.img = w.img
  <2>1. CASE f = w /\ (w.pending_frame => outcome = "error")
    <3>1. Len(w.blocks) \in Nat
      BY <1>2 DEF Context
    <3>. QED BY <2>1, <3>1 DEF Counted, Timely, Shown
  <2>2. CASE /\ w.pending_frame /\ outcome # "error" /\ Adds(w, f, outcome)
             /\ ~f.pending_frame /\ f.first_encode_time = w.first_encode_time /\ f.pts > 0
    <3>1. Len(f.blocks) >= Len(w.blocks)
      BY <1>2, <2>2, AddsBlocks
    <3>2. ASSUME Timely(w, now) PROVE InTime(f)
      <4>1. /\ w.last_encode_time \in Nat /\ w.first_encode_time \in Nat /\ w.pts \in Nat
            /\ w.at \in Nat /\ w.frame_count \in Nat /\ FramePeriod(w) \in Nat
        BY <1>2, FramePeriodPositive DEF Context
      <4>2. w.pts = FramePeriod(w) + w.last_encode_time - w.first_encode_time
        BY <1>2, <2>2, <4>1 DEF InSync
      <4>3. PICK late \in Int : late = w.last_encode_time
        BY <4>1
      <4>4. /\ late = f.first_encode_time + w.pts - FramePeriod(w)
            /\ late <= now /\ w.at <= now /\ late <= w.at /\ InTime(w)
            /\ w.blocks # << >> => /\ f.first_encode_time = w.first_encode_time
                                   /\ w.blocks[Len(w.blocks)].at <= late
        BY <2>2, <3>2, <4>1, <4>2, <4>3 DEF Timely
      <4>. QED BY <1>2, <2>2, <4>3, <4>4, AddsInTime
    <3>3. outcome = "packet" => EndsWith(f, w.img)
      BY <1>2, <2>2, AddsShown
    <3>4. f.img = w.img
      BY <2>2 DEF Adds
    <3>. QED BY <2>2, <3>1, <3>2, <3>3, <3>4
  <2>. QED BY <1>1, <2>1, <2>2, FinalFrameAdds
<1>4. f \in Context
  BY <1>1, FinalFrameSorted
<1>5. PICK p \in Nat : p = f.pts + 1
  BY <1>4 DEF Context
<1>6. PICK n \in Nat : n = f.frame_count + 1
  BY <1>4 DEF Context
<1>7. e = f \/ e = [f EXCEPT !.pts = p, !.frame_count = n]
  BY <1>1, <1>5, <1>6 DEF Finalize, EncodeFlush
<1>8. /\ e.blocks = f.blocks /\ e.img = f.img /\ e.pts \in {f.pts, p} /\ f.pts \in Nat
      /\ e.first_encode_time = f.first_encode_time /\ e.frame_rate = f.frame_rate
  BY <1>4, <1>7 DEF Context
<1>. QED BY <1>3, <1>5, <1>8 DEF InTime, EndsWith, FramePeriod

-----------------------------------------------------------------------------
IInv ==
  /\ TypeOK
  /\ webm # NoWebM => Good(webm)
  /\ file # NoWebM => Sorted(file)

LEMMA IInvInit == Init => IInv
<1> SUFFICES ASSUME Init PROVE IInv
  OBVIOUS
<1>1. clock \in 0..MaxTime /\ frames \in 0..MaxFrames
  BY BoundsAssumption DEF Init
<1>2. 0 \in 0..MaxTime
  BY BoundsAssumption
<1>3. rec \in [initialized : BOOLEAN, manualTime : BOOLEAN, frameRate : Rates,
               frameRateMin : Rates, lastUpdateTime : 0..MaxTime] /\ ~rec.initialized
  BY <1>2 DEF Init
<1>. QED BY <1>1, <1>3 DEF Init, IInv, TypeOK

LEMMA IInvNext == IInv /\ [Next]_vars => IInv'
<1> SUFFICES ASSUME IInv, [Next]_vars PROVE IInv'
  OBVIOUS
<1> DEFINE Rec == [initialized : BOOLEAN, manualTime : BOOLEAN, frameRate : Rates,
                   frameRateMin : Rates, lastUpdateTime : 0..MaxTime]
<1>1. /\ rec \in Rec /\ (rec.initialized <=> webm # NoWebM)
      /\ webm \in Context \cup {NoWebM} /\ file \in Context \cup {NoWebM}
      /\ clock \in 0..MaxTime /\ frames \in 0..MaxFrames
      /\ clean \in BOOLEAN /\ steady \in BOOLEAN
      /\ webm # NoWebM => Good(webm)
      /\ file # NoWebM => Sorted(file)
  BY DEF IInv, TypeOK
<1>2. clock \in Nat /\ frames \in Nat /\ MaxFrames \in Nat /\ MaxTime \in Nat
  BY <1>1, BoundsAssumption
<1>3. \A o \in Outcomes : o \in AnyOutcome
  BY OutcomesAssumption DEF AnyOutcome
<1>4. \A w : Good(w) => w \in Context /\ w # NoWebM
  BY NoWebMAssumption DEF Good
<1>5. ASSUME rec' \in Rec, rec'.initialized <=> webm' # NoWebM, clock' \in 0..MaxTime,
             frames' \in 0..MaxFrames, clean' \in BOOLEAN, steady' \in BOOLEAN,
             webm' # NoWebM => Good(webm'),
             file' # NoWebM => file' \in Context /\ Sorted(file')
      PROVE  IInv'
  BY <1>4, <1>5 DEF IInv, TypeOK
<1>6. CASE Tick
  <2>1. clock' \in 0..MaxTime
    BY <1>1, <1>2, <1>6 DEF Tick
  <2>. QED BY <1>1, <1>5, <1>6, <2>1 DEF Tick
<1>7. ASSUME NEW t \in 0..MaxTime, SetCurrentTime(t) PROVE IInv'
  <2>1. rec' \in Rec /\ rec'.initialized = rec.initialized
    BY <1>1, <1>7 DEF SetCurrentTime
  <2>2. clock' \in 0..MaxTime /\ steady' \in BOOLEAN
    BY <1>1, <1>7 DEF SetCurrentTime
  <2>. QED BY <1>1, <1>5, <1>7, <2>1, <2>2 DEF SetCurrentTime
<1>8. ASSUME NEW rate \in Rates, SetFrameRate(rate) \/ SetMinimumFrameRate(rate) PROVE IInv'
  <2>1. rec' \in Rec /\ rec'.initialized = rec.initialized
    BY <1>1, <1>8 DEF SetFrameRate, SetMinimumFrameRate
  <2>. QED BY <1>1, <1>5, <1>8, <2>1 DEF SetFrameRate, SetMinimumFrameRate
<1>9. ASSUME NEW opening \in Opening, InitRecorder(opening) PROVE IInv'
  <2>1. rec' \in Rec /\ rec'.initialized = (opening = "opened") /\ rec.frameRate \in Rates
    BY <1>1, <1>9 DEF InitRecorder
  <2>2. IF opening = "opened" THEN webm' = NewWebM(rec.frameRate) ELSE webm' = NoWebM
    BY <1>9 DEF InitRecorder
  <2>3. Good(NewWebM(rec.frameRate))
    BY <2>1, NewWebMGood
  <2>4. /\ webm' # NoWebM => Good(webm')
        /\ rec'.initialized <=> webm' # NoWebM
    BY <1>4, <2>1, <2>2, <2>3
  <2>. QED BY <1>1, <1>5, <1>9, <2>1, <2>4 DEF InitRecorder
<1>10. ASSUME NEW outcome \in Outcomes, UpdateFrame(outcome) PROVE IInv'
  <2>1. rec' \in Rec /\ rec'.initialized
    BY <1>1, <1>10 DEF UpdateFrame
  <2>2. frames' \in 0..MaxFrames /\ frames' \in Nat
    BY <1>1, <1>2, <1>10 DEF UpdateFrame
  <2>3. Good(webm) /\ webm' = EncodeXRGB(webm, frames', clock, outcome)
    BY <1>1, <1>10 DEF UpdateFrame
  <2>4. Good(webm')
    BY <1>2, <1>3, <2>2, <2>3, EncodeXRGBGood
  <2>5. clean' \in BOOLEAN
    BY <1>1, <1>10 DEF UpdateFrame
  <2>. QED BY <1>1, <1>4, <1>5, <1>10, <2>1, <2>2, <2>4, <2>5 DEF UpdateFrame
<1>11. ASSUME NEW opening \in Opening, NEW outcome \in Outcomes,
              UpdateFirstFrame(opening, outcome)
       PROVE IInv'
  <2>1. frames' \in 0..MaxFrames /\ frames' \in Nat
    BY <1>1, <1>2, <1>11 DEF UpdateFirstFrame
  <2>2. CASE opening = "opened"
    <3>1. /\ webm' = EncodeXRGB(NewWebM(rec.frameRate), frames', clock, outcome)
          /\ rec' = [rec EXCEPT !.initialized = TRUE, !.lastUpdateTime = clock]
          /\ clean' = (clean /\ outcome = "packet")
          /\ file' = NoWebM
          /\ clock' = clock /\ steady' = steady
      BY <1>11, <2>2 DEF UpdateFirstFrame
    <3>2. rec' \in Rec /\ rec'.initialized /\ rec.frameRate \in Rates
      BY <1>1, <3>1
    <3>3. Good(NewWebM(rec.frameRate))
      BY <3>2, NewWebMGood
    <3>4. Good(webm')
      BY <1>2, <1>3, <2>1, <3>1, <3>3, EncodeXRGBGood
    <3>5. clean' \in BOOLEAN
      BY <1>1, <3>1
    <3>. QED BY <1>1, <1>4, <1>5, <2>1, <3>1, <3>2, <3>4, <3>5
  <2>3. CASE opening # "opened"
    <3>1. /\ webm' = webm /\ rec' = rec /\ clean' = clean
          /\ file' \in {file, NoWebM}
          /\ clock' = clock /\ steady' = steady
      BY <1>11, <2>3 DEF UpdateFirstFrame
    <3>. QED BY <1>1, <1>5, <2>1, <3>1
  <2>. QED BY <2>2, <2>3
<1>12. ASSUME NEW outcome \in Outcomes, Timeout(outcome) PROVE IInv'
  <2>1. rec' \in Rec /\ rec'.initialized = rec.initialized
    BY <1>1, <1>12 DEF Timeout
  <2>2. Good(webm) /\ webm' = Flush(webm, clock, TRUE, outcome) /\ webm # NoWebM
    BY <1>1, <1>12 DEF Timeout
  <2>3. Good(webm')
    BY <1>2, <1>3, <2>2, FlushGood
  <2>4. clean' \in BOOLEAN
    BY <1>1, <1>12 DEF Timeout
  <2>. QED BY <1>1, <1>4, <1>5, <1>12, <2>1, <2>2, <2>3, <2>4 DEF Timeout
<1>13. ASSUME NEW outcome \in Outcomes, NEW flushed \in BOOLEAN, Uninit(outcome, flushed)
       PROVE IInv'
  <2>1. rec' \in Rec /\ ~rec'.initialized /\ webm' = NoWebM
    <3>1. 0 \in 0..MaxTime
      BY BoundsAssumption
    <3>. QED BY <1>1, <1>13, <3>1 DEF Uninit
  <2>2. PICK e : e = Finalize(webm, clock, outcome, flushed)
    OBVIOUS
  <2>3. Good(webm) /\ file' \in {e, NoWebM}
    BY <1>1, <1>13, <2>2 DEF Uninit, Closed
  <2>4. e \in Context /\ Sorted(e)
    BY <1>2, <1>3, <2>2, <2>3, FinalizeSorted
  <2>5. clean' \in BOOLEAN
    BY <1>1, <1>13 DEF Uninit
  <2>. QED BY <1>1, <1>5, <1>13, <2>1, <2>3, <2>4, <2>5 DEF Uninit
<1>14. CASE UNCHANGED vars
  BY <1>1, <1>5, <1>14 DEF vars
<1>. QED BY <1>6, <1>7, <1>8, <1>9, <1>10, <1>11, <1>12, <1>13, <1>14 DEF Next

LEMMA IInvAlways == Spec => []IInv
BY IInvInit, IInvNext, PTL DEF Spec

\* The state of recorder and recording keeps its type: in particular no pts,
\* duration or timestamp becomes negative, whatever the clock does.
THEOREM TypeCorrect == Spec => []TypeOK
<1>1. IInv => TypeOK
  BY DEF IInv
<1>. QED BY <1>1, IInvAlways, PTL

\* The time encoded is the time that passed on the clock, at every rate and
\* for every sequence of frames, timeouts, clock changes and encoder failures.
THEOREM AlwaysInSync == Spec => []PlaybackInSync
<1>1. IInv => PlaybackInSync
  BY DEF IInv, Good, InSync, PlaybackInSync
<1>. QED BY <1>1, IInvAlways, PTL

\* The timestamps of every recording, open or closed, strictly increase and
\* stay within one unit of the pts.
THEOREM AlwaysIncreasing == Spec => []TimestampsIncrease
<1>1. IInv => TimestampsIncrease
  <2> SUFFICES ASSUME IInv, NEW w \in Recordings PROVE TimesOf(w)
    BY DEF TimestampsIncrease, TimesOf
  <2>. QED BY DEF IInv, Good, Sorted, Recordings
<1>. QED BY <1>1, IInvAlways, PTL

-----------------------------------------------------------------------------
(* What holds of the blocks: of their times while the clock was not set    *)
(* back, of the last one while the encoder gave a packet for every image.  *)
HInv ==
  /\ webm # NoWebM => /\ Counted(webm)
                      /\ steady => Timely(webm, clock)
                      /\ clean => Shown(webm)
  /\ file # NoWebM => /\ steady => InTime(file)
                      /\ clean /\ file.img > 0 => EndsWith(file, file.img)

LEMMA TimelyLater ==
  ASSUME NEW w \in Context, NEW now \in Nat, NEW later \in Nat, now <= later, Timely(w, now)
  PROVE  Timely(w, later)
<1>1. w.last_encode_time \in Nat /\ w.at \in Nat
  BY DEF Context
<1>. QED BY <1>1 DEF Timely

LEMMA NewWebMTimely ==
  ASSUME NEW rate \in Rates, NEW w, w = NewWebM(rate)
  PROVE  Counted(w) /\ Shown(w) /\ \A now \in Nat : Timely(w, now)
<1>1. /\ w.blocks = << >> /\ w.frame_count = 0 /\ w.img = 0 /\ w.at = 0
      /\ w.last_encode_time = 0 /\ ~w.pending_frame
  BY DEF NewWebM
<1>. QED BY <1>1 DEF Counted, Shown, Timely, InTime

\* What the steps need of the state before.
LEMMA HBefore ==
  ASSUME IInv
  PROVE  /\ rec.initialized <=> webm # NoWebM
         /\ clock \in Nat /\ frames \in Nat /\ rec.frameRate \in Rates
         /\ clean \in BOOLEAN /\ steady \in BOOLEAN
         /\ webm # NoWebM => Good(webm) /\ webm \in Context
         /\ \A o \in Outcomes : o \in AnyOutcome
<1>1. clock \in Nat /\ frames \in Nat
  BY BoundsAssumption DEF IInv, TypeOK
<1>2. \A o \in Outcomes : o \in AnyOutcome
  BY OutcomesAssumption DEF AnyOutcome
<1>3. rec.frameRate \in Rates
  BY DEF IInv, TypeOK
<1>. QED BY <1>1, <1>2, <1>3 DEF IInv, TypeOK, Good

LEMMA HInvInit == Init => HInv
BY DEF Init, HInv

LEMMA HInvNext == IInv /\ HInv /\ [Next]_vars => HInv'
<1> SUFFICES ASSUME IInv, HInv, [Next]_vars PROVE HInv'
  OBVIOUS
<1>1. ASSUME webm' # NoWebM => /\ Counted(webm')
                               /\ steady' => Timely(webm', clock')
                               /\ clean' => Shown(webm'),
             file' # NoWebM => /\ steady' => InTime(file')
                               /\ clean' /\ file'.img > 0 => EndsWith(file', file'.img)
      PROVE  HInv'
  BY <1>1 DEF HInv
<1>2. ASSUME webm' = webm, file' \in {file, NoWebM}, clean' => clean, steady' => steady,
             steady' => clock <= clock', clock' \in Nat
      PROVE  HInv'
  <2>1. ASSUME webm # NoWebM, steady' PROVE Timely(webm, clock')
    BY <1>2, <2>1, HBefore, TimelyLater DEF HInv
  <2>2. webm' # NoWebM => /\ Counted(webm')
                          /\ steady' => Timely(webm', clock')
                          /\ clean' => Shown(webm')
    BY <1>2, <2>1 DEF HInv
  <2>3. file' # NoWebM => /\ steady' => InTime(file')
                          /\ clean' /\ file'.img > 0 => EndsWith(file', file'.img)
    BY <1>2 DEF HInv
  <2>. QED BY <1>1, <2>2, <2>3
<1>3. CASE Tick
  <2>1. webm' = webm /\ file' = file /\ clean' = clean /\ steady' = steady /\ clock' = clock + 1
    BY <1>3 DEF Tick
  <2>. QED BY <1>2, <2>1, HBefore
<1>4. ASSUME NEW t \in 0..MaxTime, SetCurrentTime(t) PROVE HInv'
  <2>1. /\ webm' = webm /\ file' = file /\ clean' = clean /\ clock' = t
        /\ steady' = (steady /\ t >= clock)
    BY <1>4 DEF SetCurrentTime
  <2>2. t \in Nat /\ clock \in Nat /\ (t >= clock => clock <= t)
    BY HBefore, BoundsAssumption
  <2>3. steady' => steady /\ clock <= clock'
    BY <2>1, <2>2
  <2>. QED BY <1>2, <2>1, <2>2, <2>3
<1>5. ASSUME NEW rate \in Rates, SetFrameRate(rate) \/ SetMinimumFrameRate(rate) PROVE HInv'
  <2>1. /\ webm' = webm /\ file' = file /\ clean' = clean /\ steady' = steady
        /\ clock' = clock
    BY <1>5 DEF SetFrameRate, SetMinimumFrameRate
  <2>. QED BY <1>2, <2>1, HBefore
<1>6. ASSUME NEW opening \in Opening, InitRecorder(opening) PROVE HInv'
  <2>1. /\ webm' = IF opening = "opened" THEN NewWebM(rec.frameRate) ELSE NoWebM
        /\ file' \in {file, NoWebM} /\ clock' = clock /\ clean' = clean /\ steady' = steady
    BY <1>6 DEF InitRecorder
  <2>2. PICK w : w = NewWebM(rec.frameRate)
    OBVIOUS
  <2>3. Counted(w) /\ Shown(w) /\ Timely(w, clock)
    BY <2>2, HBefore, NewWebMTimely
  <2>4. webm' \in {w, NoWebM}
    BY <2>1, <2>2
  <2>. QED BY <1>1, <2>1, <2>3, <2>4 DEF HInv
<1>7. ASSUME NEW outcome \in Outcomes, UpdateFrame(outcome) PROVE HInv'
  <2>1. /\ webm' = EncodeXRGB(webm, frames', clock, outcome) /\ frames' = frames + 1
        /\ file' = file /\ clock' = clock /\ steady' = steady
        /\ clean' = (clean /\ outcome = "packet") /\ rec.initialized
    BY <1>7 DEF UpdateFrame
  <2>2. PICK e : e = EncodeXRGB(webm, frames', clock, outcome)
    OBVIOUS
  <2>3. /\ frames' \in Nat /\ clock \in Nat /\ outcome \in AnyOutcome /\ webm # NoWebM
        /\ Good(webm) /\ Counted(webm)
    BY <2>1, HBefore DEF HInv
  <2>4. /\ Counted(e)
        /\ Timely(webm, clock) => Timely(e, clock)
        /\ outcome = "packet" /\ Shown(webm) => Shown(e)
    BY <2>2, <2>3, EncodeXRGBKeeps
  <2>5. webm' = e
    BY <2>1, <2>2
  <2>6. steady => Timely(e, clock)
    BY <2>3, <2>4 DEF HInv
  <2>7. clean' => clean /\ Shown(e)
    BY <2>1, <2>3, <2>4 DEF HInv
  <2>. QED BY <1>1, <2>1, <2>4, <2>5, <2>6, <2>7 DEF HInv
<1>8. ASSUME NEW opening \in Opening, NEW outcome \in Outcomes,
             UpdateFirstFrame(opening, outcome)
      PROVE HInv'
  <2>1. CASE opening = "opened"
    <3>1. /\ webm' = EncodeXRGB(NewWebM(rec.frameRate), frames', clock, outcome)
          /\ frames' = frames + 1 /\ file' = NoWebM /\ clock' = clock /\ steady' = steady
          /\ clean' = (clean /\ outcome = "packet")
      BY <1>8, <2>1 DEF UpdateFirstFrame
    <3>2. PICK w : w = NewWebM(rec.frameRate)
      OBVIOUS
    <3>3. PICK e : e = EncodeXRGB(w, frames', clock, outcome)
      OBVIOUS
    <3>4. /\ frames' \in Nat /\ clock \in Nat /\ outcome \in AnyOutcome /\ rec.frameRate \in Rates
      BY <3>1, HBefore
    <3>5. Good(w) /\ Counted(w) /\ Shown(w) /\ Timely(w, clock)
      BY <3>2, <3>4, NewWebMGood, NewWebMTimely
    <3>6. /\ Counted(e)
          /\ Timely(w, clock) => Timely(e, clock)
          /\ outcome = "packet" /\ Shown(w) => Shown(e)
      BY <3>3, <3>4, <3>5, EncodeXRGBKeeps
    <3>7. webm' = e
      BY <3>1, <3>2, <3>3
    <3>8. clean' => Shown(e)
      BY <3>1, <3>5, <3>6
    <3>. QED BY <1>1, <3>1, <3>5, <3>6, <3>7, <3>8
  <2>2. CASE opening # "opened"
    <3>1. /\ webm' = webm /\ clean' = clean /\ file' \in {file, NoWebM}
          /\ clock' = clock /\ steady' = steady
      BY <1>8, <2>2 DEF UpdateFirstFrame
    <3>. QED BY <1>2, <3>1, HBefore
  <2>. QED BY <2>1, <2>2
<1>9. ASSUME NEW outcome \in Outcomes, Timeout(outcome) PROVE HInv'
  <2>1. /\ webm # NoWebM /\ webm' = Flush(webm, clock, TRUE, outcome)
        /\ file' = file /\ clock' = clock /\ steady' = steady
        /\ clean' = (clean /\ outcome = "packet")
    BY <1>9 DEF Timeout
  <2>2. PICK e : webm' = e
    OBVIOUS
  <2>3. PICK force \in BOOLEAN : e = Flush(webm, clock, force, outcome)
    BY <2>1, <2>2, Zenon
  <2>4. clock \in Nat /\ outcome \in AnyOutcome /\ Good(webm) /\ Counted(webm)
    BY <2>1, HBefore DEF HInv
  <2>5. /\ Counted(e)
        /\ Timely(webm, clock) => Timely(e, clock)
        /\ outcome = "packet" /\ Shown(webm) => Shown(e)
    BY <2>3, <2>4, FlushKeeps
  <2>6. steady => Timely(e, clock)
    BY <2>1, <2>5 DEF HInv
  <2>7. clean' => clean /\ Shown(e)
    BY <2>1, <2>5 DEF HInv
  <2>. QED BY <1>1, <2>1, <2>2, <2>5, <2>6, <2>7 DEF HInv
<1>10. ASSUME NEW outcome \in Outcomes, NEW flushed \in BOOLEAN, Uninit(outcome, flushed)
       PROVE HInv'
  <2>1. /\ webm' = NoWebM /\ clock' = clock /\ steady' = steady /\ webm # NoWebM
        /\ clean' = (clean /\ outcome = "packet")
        /\ file' = Closed(Finalize(webm, clock, outcome, flushed))
    BY <1>10, HBefore DEF Uninit
  <2>2. PICK e : e = Finalize(webm, clock, outcome, flushed)
    OBVIOUS
  <2>3. clock \in Nat /\ outcome \in AnyOutcome /\ Good(webm) /\ Counted(webm)
    BY <2>1, HBefore DEF HInv
  <2>4. /\ Timely(webm, clock) => InTime(e)
        /\ outcome = "packet" /\ Shown(webm) /\ e.img > 0 => EndsWith(e, e.img)
    BY <2>2, <2>3, FinalizeKeeps
  <2>5. file' \in {e, NoWebM}
    BY <2>1, <2>2 DEF Closed
  <2>6. steady => InTime(e)
    BY <2>1, <2>4 DEF HInv
  <2>7. clean' /\ e.img > 0 => EndsWith(e, e.img)
    BY <2>1, <2>4 DEF HInv
  <2>. QED BY <1>1, <2>1, <2>5, <2>6, <2>7
<1>11. CASE UNCHANGED vars
  <2>1. /\ webm' = webm /\ file' = file /\ clean' = clean /\ steady' = steady
        /\ clock' = clock
    BY <1>11 DEF vars
  <2>. QED BY <1>2, <2>1, HBefore
<1>. QED BY <1>3, <1>4, <1>5, <1>6, <1>7, <1>8, <1>9, <1>10, <1>11 DEF Next

LEMMA HInvAlways == Spec => [](IInv /\ HInv)
BY IInvInit, IInvNext, HInvInit, HInvNext, PTL DEF Spec

\* Under a clock that is not set back every frame, of every recording, is shown
\* at most one period after it came and at least one period after the frame
\* before it came.
THEOREM AlwaysShownInTime == Spec => []ShownInTime
<1>1. IInv /\ HInv => ShownInTime
  <2> SUFFICES ASSUME HInv, steady, NEW w \in Recordings PROVE InTime(w)
    BY DEF ShownInTime, InTime
  <2>. QED BY DEF HInv, Recordings, Timely
<1>. QED BY <1>1, HInvAlways, PTL

\* The last frame submitted is the last block of the closed recording, unless
\* the encoder has kept an image to itself.
THEOREM AlwaysFinalFrame == Spec => []FinalFrameKept
<1>1. IInv /\ HInv => FinalFrameKept
  BY DEF HInv, FinalFrameKept, EndsWith
<1>. QED BY <1>1, HInvAlways, PTL

\* How a step changes the open recording.
LEMMA WebMSteps ==
  ASSUME IInv, HInv, [Next]_vars, webm # NoWebM, webm' # webm
  PROVE  \/ \E outcome \in Outcomes : UpdateFrame(outcome)
         \/ \E outcome \in Outcomes : Timeout(outcome)
         \/ \E outcome \in Outcomes, flushed \in BOOLEAN : Uninit(outcome, flushed)
<1>1. rec.initialized
  BY HBefore
<1>2. Next
  BY DEF vars
<1>3. ~Tick
  BY DEF Tick
<1>4. \A t \in 0..MaxTime : ~SetCurrentTime(t)
  BY DEF SetCurrentTime
<1>5. \A rate \in Rates : ~SetFrameRate(rate) /\ ~SetMinimumFrameRate(rate)
  BY DEF SetFrameRate, SetMinimumFrameRate
<1>6. \A opening \in Opening : ~InitRecorder(opening)
  BY <1>1 DEF InitRecorder
<1>7. \A opening \in Opening, outcome \in Outcomes : ~UpdateFirstFrame(opening, outcome)
  BY <1>1 DEF UpdateFirstFrame
<1>. QED BY <1>2, <1>3, <1>4, <1>5, <1>6, <1>7 DEF Next

\* A frame that was on the screen for a period is a block when it is replaced.
THEOREM LongFramesKept == Spec => LastingFramesKept
<1>1. ASSUME IInv, HInv, [Next]_vars, webm # NoWebM, webm' # NoWebM, webm.img > 0,
             webm'.img # webm.img, clock - webm.at >= FramePeriod(webm), steady, clean'
      PROVE  \E i \in 1..Len(webm'.blocks) : webm'.blocks[i].frame = webm.img
  <2>1. webm # webm'
    BY <1>1
  <2>2. clock \in Nat /\ Good(webm) /\ Counted(webm) /\ Timely(webm, clock)
    BY <1>1, HBefore DEF HInv
  <2>3. ASSUME NEW outcome \in Outcomes, UpdateFrame(outcome)
        PROVE  \E i \in 1..Len(webm'.blocks) : webm'.blocks[i].frame = webm.img
    <3>1. /\ webm' = EncodeXRGB(webm, frames', clock, outcome) /\ frames' = frames + 1
          /\ clean' = (clean /\ outcome = "packet")
      BY <2>3 DEF UpdateFrame
    <3>2. PICK e : e = webm'
      OBVIOUS
    <3>3. PICK frame \in Nat : frame = frames'
      BY <1>1, <3>1, HBefore
    <3>4. e = EncodeXRGB(webm, frame, clock, outcome) /\ outcome \in AnyOutcome
      BY <1>1, <3>1, <3>2, <3>3, HBefore
    <3>5. Shown(webm) /\ outcome = "packet"
      BY <1>1, <3>1 DEF HInv
    <3>6. \E i \in 1..Len(e.blocks) : e.blocks[i].frame = webm.img
      BY <1>1, <2>2, <3>3, <3>4, <3>5, EncodeXRGBKeeps, SMTT(60)
    <3>. QED BY <3>2, <3>6
  <2>4. ASSUME NEW outcome \in Outcomes, Timeout(outcome) PROVE FALSE
    <3>1. PICK e : e = webm'
      OBVIOUS
    <3>2. e = Flush(webm, clock, TRUE, outcome)
      BY <2>4, <3>1 DEF Timeout
    <3>3. PICK force \in BOOLEAN : e = Flush(webm, clock, force, outcome)
      BY <3>2, Zenon
    <3>4. outcome \in AnyOutcome
      BY <1>1, HBefore
    <3>5. e.img = webm.img
      BY <2>2, <3>3, <3>4, FlushKeeps
    <3>. QED BY <1>1, <3>1, <3>5
  <2>5. ASSUME NEW outcome \in Outcomes, NEW flushed \in BOOLEAN, Uninit(outcome, flushed)
        PROVE  FALSE
    BY <1>1, <2>5 DEF Uninit
  <2>. QED BY <1>1, <2>1, <2>3, <2>4, <2>5, WebMSteps
<1>2. IInv /\ HInv /\ [Next]_vars =>
        [ webm # NoWebM /\ webm' # NoWebM /\ webm.img > 0 /\ webm'.img # webm.img
          /\ clock - webm.at >= FramePeriod(webm)
          /\ steady /\ clean'
          => \E i \in 1..Len(webm'.blocks) : webm'.blocks[i].frame = webm.img ]_vars
  BY <1>1
<1>. QED BY <1>2, HInvAlways, PTL DEF Spec, LastingFramesKept

\* Closing a recording that has a block leaves a file with all its blocks.
THEOREM BlocksAreKept == Spec => RecordingKept
<1>1. ASSUME IInv, HInv, [Next]_vars, webm # NoWebM, webm.blocks # << >>, webm' = NoWebM
      PROVE  file' # NoWebM /\ Len(file'.blocks) >= Len(webm.blocks)
  <2>1. Good(webm) /\ Counted(webm) /\ clock \in Nat
    BY <1>1, HBefore DEF HInv
  <2>2. ASSUME NEW outcome \in Outcomes, UpdateFrame(outcome) PROVE FALSE
    <3>1. webm' = EncodeXRGB(webm, frames', clock, outcome) /\ frames' = frames + 1
      BY <2>2 DEF UpdateFrame
    <3>2. frames' \in Nat /\ outcome \in AnyOutcome
      BY <1>1, <3>1, HBefore
    <3>3. Good(webm')
      BY <2>1, <3>1, <3>2, EncodeXRGBGood
    <3>. QED BY <1>1, <3>3, NoWebMAssumption DEF Good
  <2>3. ASSUME NEW outcome \in Outcomes, Timeout(outcome) PROVE FALSE
    <3>1. webm' = Flush(webm, clock, TRUE, outcome) /\ outcome \in AnyOutcome
      BY <1>1, <2>3, HBefore DEF Timeout
    <3>2. Good(webm')
      BY <2>1, <3>1, FlushGood
    <3>. QED BY <1>1, <3>2, NoWebMAssumption DEF Good
  <2>4. ASSUME NEW outcome \in Outcomes, NEW flushed \in BOOLEAN, Uninit(outcome, flushed)
        PROVE  file' # NoWebM /\ Len(file'.blocks) >= Len(webm.blocks)
    <3>1. PICK e : e = Finalize(webm, clock, outcome, flushed)
      OBVIOUS
    <3>2. outcome \in AnyOutcome
      BY <1>1, HBefore
    <3>3. e \in Context
      BY <2>1, <3>1, <3>2, FinalizeSorted
    <3>4. Len(e.blocks) >= Len(webm.blocks) /\ e.pts > 0
      BY <1>1, <2>1, <3>1, <3>2, FinalizeKeeps
    <3>5. file' = e
      BY <2>4, <3>1, <3>4 DEF Uninit, Closed
    <3>. QED BY <3>3, <3>4, <3>5, NoWebMAssumption
  <2>. QED BY <1>1, <2>2, <2>3, <2>4, WebMSteps
<1>2. IInv /\ HInv /\ [Next]_vars =>
        [ webm # NoWebM /\ webm.blocks # << >> /\ webm' = NoWebM
          => file' # NoWebM /\ Len(file'.blocks) >= Len(webm.blocks) ]_vars
  BY <1>1
<1>. QED BY <1>2, HInvAlways, PTL DEF Spec, RecordingKept

-----------------------------------------------------------------------------
(***************************************************************************)
(* NoStrayConnection of DucStreamer.                                       *)
(*                                                                         *)
(* It is not inductive: that Clear forgets no open connection depends on   *)
(* what the steps before it found.  The strengthening says, of connections *)
(* to which none of the four things has happened: one that may still be    *)
(* used and is not being closed is the streamer's (Held); it has a stream, *)
(* or a call waits for it (Kept); a call that has begun to end the         *)
(* streamer's will find its stream (Closes), and once it has looked the    *)
(* connection cannot be used any more (Over), however many calls end it.   *)
(***************************************************************************)

Ats == {"idle", "connect", "connect async", "wait", "await", "close", "dispose", "clear", "write"}
Sockets == {"none", "new", "connecting", "open", "failed", "close sent", "closed", "aborted"}
Calls == [at : Ats, on : Backends \cup {None}, code : Codes, token : BOOLEAN]
Causes == {"replaced", "crossed", "abandoned", "cancelled"}

Types ==
  /\ streamer \in Backends \cup {None}
  /\ stream \in SUBSET Backends
  /\ socket \in [Backends -> Sockets]
  /\ asked \in [Backends -> SUBSET [code : Codes, token : BOOLEAN]]
  /\ call \in [Tasks -> Calls]
  /\ why \in [Backends -> Causes \cup {None}]

\* It may be used and nobody is closing it.
Usable(b) ==
  /\ why[b] \notin Causes
  /\ socket[b] \in {"new", "connecting", "open"}
  /\ socket[b] = "open" => asked[b] = {}

Held == \A b \in Backends : Usable(b) => streamer = b

\* It has a stream, or a call is about to give it one.
Kept ==
  \A b \in Backends :
    Usable(b) => b \in stream \/ \E t \in Tasks : Connecting(t) /\ call[t].on = b

\* What has a stream was asked to connect, and was open or is in haste.
Streams ==
  \A b \in stream :
    /\ socket[b] \notin {"none", "new"}
    /\ socket[b] \in {"connecting", "failed"} => b \in hasty

\* Until the socket is asked to connect nothing else is.
Starts ==
  \A t \in Tasks :
    /\ call[t].at \in {"connect", "connect async"} =>
         /\ call[t].on \in Backends /\ socket[call[t].on] = "new"
         /\ streamer \in {call[t].on, None}
    /\ call[t].at \in {"wait", "await"} => call[t].on \in Backends /\ socket[call[t].on] \notin {"none", "new"}
    /\ call[t].at = "write" => call[t].on \in Backends

\* A call that looked at the streamer still finds what it saw.
Closes ==
  \A t \in Tasks, b \in Backends : call[t].at = "close" /\ streamer = b /\ Usable(b) => b \in stream
Over ==
  \A t \in Tasks, b \in Backends : call[t].at \in {"dispose", "clear"} /\ streamer = b => ~Usable(b)

OneConnects == \A t, u \in Tasks : Connecting(t) /\ Connecting(u) => t = u

StreamerInv == Types /\ Held /\ Kept /\ Streams /\ Starts /\ Closes /\ Over /\ OneConnects

-----------------------------------------------------------------------------
LEMMA StreamerBegins == StreamerInit => StreamerInv
<1>. SUFFICES ASSUME StreamerInit PROVE StreamerInv
  OBVIOUS
<1>1. Types
  BY DEF StreamerInit, Types, Idle, Calls, Ats, Sockets, Codes, Causes
<1>2. \A b \in Backends : ~Usable(b)
  BY DEF StreamerInit, Usable
<1>3. \A t \in Tasks : call[t].at = "idle"
  BY DEF StreamerInit, Idle
<1>4. Held /\ Kept /\ Closes /\ Over
  BY <1>2 DEF Held, Kept, Closes, Over
<1>5. Streams /\ Starts /\ OneConnects
  BY <1>3 DEF StreamerInit, Streams, Starts, OneConnects, Connecting
<1>. QED BY <1>1, <1>4, <1>5 DEF StreamerInv

\* Each lemma below is about one step taken from a state that satisfies StreamerInv.
USE StreamerConstants DEF StreamerInv, Types

LEMMA ConnectUrlKeeps == ASSUME StreamerInv, NEW t \in Tasks, ConnectUrl(t) PROVE StreamerInv'
<1>1. PICK b \in Backends, at \in {"connect", "connect async"} :
       /\ socket[b] = "none" /\ streamer' = b /\ socket' = [socket EXCEPT ![b] = "new"]
       /\ call' = [call EXCEPT ![t] = [Idle EXCEPT !.at = at, !.on = b]]
       /\ why' = IF \E u \in Tasks : Ending(u)
                 THEN [c \in Backends |-> IF c \in {b, streamer} THEN "crossed" ELSE why[c]]
                 ELSE [c \in Backends |-> IF c = streamer THEN "replaced" ELSE why[c]]
  BY DEF ConnectUrl, Begin
<1>2. /\ call[t] = Idle /\ (\A u \in Tasks : ~Connecting(u))
      /\ stream' = stream /\ asked' = asked /\ hasty' = hasty
  BY DEF ConnectUrl, Begin
<1>3. Types'
  BY <1>1, <1>2 DEF Idle, Calls, Ats, Sockets, Codes, Causes
<1>4. \A c \in Backends \ {b} : Usable(c)' => Usable(c) /\ c # streamer
  BY <1>1, <1>2 DEF Usable, Causes
<1>5. Held'
  BY <1>1, <1>4 DEF Held
<1>6. Streams'
  BY <1>1, <1>2 DEF Streams
<1>7. Kept'
  <2>1. Connecting(t)' /\ call'[t].on = b
    BY <1>1 DEF Connecting, Idle
  <2>. QED BY <1>1, <1>4, <2>1 DEF Kept, Held
<1>8. Starts' /\ OneConnects'
  BY <1>1, <1>2 DEF Starts, OneConnects, Connecting, Idle, Calls
<1>9. Closes' /\ Over'
  <2>. SUFFICES ASSUME NEW u \in Tasks, call'[u].at \in {"close", "dispose", "clear"} PROVE ~Usable(b)'
    BY <1>1 DEF Closes, Over
  <2>1. Ending(u)
    BY <1>1 DEF Ending, Idle
  <2>. QED BY <1>1, <2>1 DEF Usable, Causes
<1>. QED BY <1>3, <1>5, <1>6, <1>7, <1>8, <1>9

LEMMA BeginConnectKeeps == ASSUME StreamerInv, NEW t \in Tasks, BeginConnect(t) PROVE StreamerInv'
<1>1. CASE streamer = None
  <2>1. /\ call' = [call EXCEPT ![t] = Idle] /\ socket' = socket /\ streamer' = streamer
        /\ stream' = stream /\ asked' = asked /\ why' = why /\ hasty' = hasty
    BY <1>1 DEF BeginConnect, Return, Goto
  <2>2. \A c \in Backends : ~Usable(c)' /\ ~Usable(c)
    BY <1>1, <2>1 DEF Held, Usable
  <2>3. Types' /\ Held' /\ Streams' /\ Kept'
    BY <2>1, <2>2 DEF Held, Streams, Kept, Idle, Calls, Ats, Codes
  <2>4. Starts' /\ OneConnects'
    BY <1>1, <2>1 DEF Starts, OneConnects, Connecting, Idle
  <2>5. Closes' /\ Over'
    BY <1>1, <2>1 DEF Closes, Over
  <2>. QED BY <2>3, <2>4, <2>5
<1>2. CASE streamer # None
  <2>. DEFINE at == IF call[t].at = "connect" THEN "wait" ELSE "await"
  <2>1. /\ socket' = [socket EXCEPT ![streamer] = "connecting"]
        /\ call' = [call EXCEPT ![t] = [call[t] EXCEPT !.at = at, !.on = streamer]]
        /\ streamer' = streamer /\ stream' = stream /\ asked' = asked /\ why' = why /\ hasty' = hasty
    BY <1>2 DEF BeginConnect, Goto, Calls
  <2>2. /\ call[t].at \in {"connect", "connect async"} /\ call[t].on = streamer
        /\ socket[streamer] = "new" /\ streamer \in Backends
    BY <1>2 DEF BeginConnect, Starts
  <2>10. at \in {"wait", "await"}
    OBVIOUS
  <2>. HIDE DEF at
  <2>11. [call[t] EXCEPT !.at = at, !.on = streamer] \in Calls
    BY <2>2, <2>10 DEF Calls, Ats
  <2>3. Types'
    BY <2>1, <2>2, <2>11 DEF Sockets
  <2>4. \A c \in Backends : Usable(c)' = Usable(c)
    BY <2>1, <2>2 DEF Usable
  <2>5. Held' /\ Streams'
    BY <2>1, <2>2, <2>4 DEF Held, Streams
  <2>6. \A u \in Tasks : (Connecting(u)' <=> Connecting(u)) /\ call'[u].on = call[u].on
    BY <2>1, <2>2, <2>10 DEF Connecting, Calls
  <2>7. Kept'
    BY <2>1, <2>4, <2>6 DEF Kept
  <2>8. Starts' /\ OneConnects'
    <3>1. \A u \in Tasks \ {t} : ~Connecting(u) /\ call'[u] = call[u]
      BY <2>1, <2>2 DEF OneConnects, Connecting
    <3>2. call'[t].at \in {"wait", "await"} /\ call'[t].on = streamer /\ socket'[streamer] = "connecting"
      BY <2>1, <2>2, <2>10 DEF Calls
    <3>3. Starts'
      BY <2>1, <2>2, <3>1, <3>2 DEF Starts, Connecting
    <3>4. OneConnects'
      BY <2>6 DEF OneConnects
    <3>. QED BY <3>3, <3>4
  <2>9. Closes' /\ Over'
    BY <2>1, <2>2, <2>4, <2>10 DEF Closes, Over, Calls
  <2>. QED BY <2>3, <2>5, <2>7, <2>8, <2>9
<1>. QED BY <1>1, <1>2

LEMMA EndConnectKeeps ==
  ASSUME StreamerInv, NEW t \in Tasks, EndConnect(t) \/ EndConnectAsync(t) PROVE StreamerInv'
<1>. DEFINE b == call[t].on
<1>1. /\ call[t].at \in {"wait", "await"} /\ call' = [call EXCEPT ![t] = Idle]
      /\ stream' = IF socket[b] = "failed" THEN stream ELSE stream \cup {b}
      /\ hasty' = hasty \/ hasty' = hasty \cup {b}
      /\ socket[b] = "connecting" => hasty' = hasty \cup {b}
      /\ streamer' = streamer /\ socket' = socket /\ asked' = asked /\ why' = why
  BY DEF EndConnect, EndConnectAsync, Return, Goto
<1>2. b \in Backends /\ socket[b] \notin {"none", "new"}
  BY <1>1 DEF Starts
<1>3. Types'
  BY <1>1, <1>2 DEF Idle, Calls, Ats, Codes
<1>4. \A c \in Backends : Usable(c)' = Usable(c)
  BY <1>1 DEF Usable
<1>5. Held' /\ Streams'
  BY <1>1, <1>2, <1>4 DEF Held, Streams
<1>6. Kept'
  <2>. SUFFICES ASSUME NEW c \in Backends, Usable(c), NEW u \in Tasks, Connecting(u), call[u].on = c
                PROVE c \in stream'
    BY <1>1, <1>4 DEF Kept
  <2>1. u = t
    BY <1>1 DEF OneConnects, Connecting
  <2>. QED BY <2>1, <1>1, <1>2 DEF Usable
<1>7. Starts' /\ OneConnects'
  BY <1>1 DEF Starts, OneConnects, Connecting, Idle
<1>8. Closes' /\ Over'
  BY <1>1, <1>4 DEF Closes, Over, Idle
<1>. QED BY <1>3, <1>5, <1>6, <1>7, <1>8

\* A call begins to end a connection.
LEMMA BeginEndKeeps ==
  ASSUME StreamerInv, NEW t \in Tasks, NEW code \in Codes, NEW token \in BOOLEAN, BeginEnd(t, code, token)
  PROVE  StreamerInv'
<1>. DEFINE new == [Idle EXCEPT !.at = FirstStep, !.code = code, !.token = token]
<1>1. /\ call[t] = Idle /\ call' = [call EXCEPT ![t] = new]
      /\ streamer' = streamer /\ stream' = stream /\ socket' = socket /\ asked' = asked /\ hasty' = hasty
      /\ why' = IF streamer # None /\ (\E u \in Tasks : Connecting(u))
                THEN [why EXCEPT ![streamer] = "crossed"] ELSE why
  BY DEF BeginEnd, Begin
<1>0. FirstStep \in {"dispose", "close"}
  BY DEF FirstStep
<1>2. new \in Calls /\ new.at = FirstStep /\ call[t].at = "idle"
  <2>1. call[t].at = "idle"
    BY <1>1 DEF Idle
  <2>2. \A f \in {"dispose", "close"} :
          LET c == [Idle EXCEPT !.at = f, !.code = code, !.token = token] IN c \in Calls /\ c.at = f
    BY DEF Idle, Calls, Ats
  <2>. QED BY <1>0, <2>1, <2>2
<1>. HIDE DEF new
<1>3. Types'
  BY <1>1, <1>2 DEF Causes
<1>4. \A c \in Backends : Usable(c)' => Usable(c)
  BY <1>1 DEF Usable, Causes
<1>5. \A u \in Tasks : (Connecting(u)' <=> Connecting(u)) /\ (u # t => call'[u] = call[u])
  BY <1>0, <1>1, <1>2 DEF Connecting
<1>6. Held' /\ Streams'
  BY <1>1, <1>4 DEF Held, Streams
<1>7. Kept'
  BY <1>1, <1>2, <1>4, <1>5 DEF Kept, Connecting
<1>8. Starts' /\ OneConnects'
  BY <1>0, <1>1, <1>2, <1>5 DEF Starts, OneConnects, Connecting
<1>9. Closes'
  BY <1>1, <1>2, <1>4, <1>5 DEF Closes, FirstStep, Connected
<1>10. Over'
  <2>1. ASSUME FirstStep = "dispose", NEW b \in Backends, b = streamer, Usable(b)' PROVE FALSE
    <3>1. streamer # None /\ b \notin stream
      BY <2>1 DEF FirstStep, Connected
    <3>2. PICK u \in Tasks : Connecting(u)
      BY <2>1, <3>1, <1>4 DEF Kept
    <3>3. why'[b] = "crossed"
      BY <2>1, <3>1, <3>2, <1>1
    <3>. QED BY <2>1, <3>3 DEF Usable, Causes
  <2>2. ASSUME NEW u \in Tasks, NEW b \in Backends, call'[u].at \in {"dispose", "clear"}, streamer = b
        PROVE  ~Usable(b)'
    <3>1. CASE u = t
      BY <2>1, <2>2, <3>1, <1>0, <1>1, <1>2
    <3>2. CASE u # t
      BY <2>2, <3>2, <1>4, <1>5 DEF Over
    <3>. QED BY <3>1, <3>2
  <2>. QED BY <2>2, <1>1 DEF Over
<1>. QED BY <1>3, <1>6, <1>7, <1>8, <1>9, <1>10

LEMMA CloseKeeps == ASSUME StreamerInv, NEW t \in Tasks, Close(t) PROVE StreamerInv'
<1>. DEFINE new == [call[t] EXCEPT !.at = "dispose", !.token = FALSE]
            c == [code |-> call[t].code, token |-> call[t].token]
<1>1. /\ call[t].at = "close" /\ call' = [call EXCEPT ![t] = new]
      /\ streamer' = streamer /\ stream' = stream /\ socket' = socket /\ hasty' = hasty
      /\ asked' = IF streamer \in stream /\ socket[streamer] \in {"open", "close sent"}
                  THEN [asked EXCEPT ![streamer] = @ \cup {c}] ELSE asked
      /\ why' = IF streamer \in stream /\ socket[streamer] = "connecting"
                THEN [why EXCEPT ![streamer] = "abandoned"] ELSE why
  BY DEF Close, Goto
<1>2. new \in Calls /\ new.at = "dispose" /\ c \in [code : Codes, token : BOOLEAN]
  BY DEF Calls, Ats
<1>. HIDE DEF new, c
<1>3. Types'
  BY <1>1, <1>2 DEF Causes
<1>4. \A b \in Backends : Usable(b)' => Usable(b)
  BY <1>1 DEF Usable, Causes
<1>5. \A u \in Tasks : (Connecting(u)' <=> Connecting(u)) /\ (u # t => call'[u] = call[u])
  BY <1>1, <1>2 DEF Connecting
<1>6. Held' /\ Streams'
  BY <1>1, <1>4 DEF Held, Streams
<1>7. Kept'
  BY <1>1, <1>2, <1>4, <1>5 DEF Kept, Connecting
<1>8. Starts' /\ OneConnects'
  BY <1>1, <1>2, <1>5 DEF Starts, OneConnects
<1>9. Closes'
  BY <1>1, <1>2, <1>4, <1>5 DEF Closes
<1>10. Over'
  <2>. SUFFICES ASSUME NEW b \in Backends, streamer = b, Usable(b)' PROVE FALSE
    BY <1>1 DEF Over
  <2>1. Usable(b) /\ b \in stream
    BY <1>1, <1>4 DEF Closes
  <2>2. socket[b] \in {"connecting", "open"}
    BY <2>1 DEF Streams, Usable
  <2>3. CASE socket[b] = "connecting"
    BY <2>1, <2>3, <1>1 DEF Usable, Causes
  <2>4. CASE socket[b] = "open"
    BY <2>1, <2>4, <1>1 DEF Usable
  <2>. QED BY <2>2, <2>3, <2>4
<1>. QED BY <1>3, <1>6, <1>7, <1>8, <1>9, <1>10

LEMMA DisposeKeeps == ASSUME StreamerInv, NEW t \in Tasks, Dispose(t) PROVE StreamerInv'
<1>. DEFINE new == [call[t] EXCEPT !.at = "clear"]
<1>1. /\ call[t].at = "dispose" /\ call' = [call EXCEPT ![t] = new]
      /\ stream' = stream \ {streamer} /\ hasty' = hasty
      /\ streamer' = streamer /\ socket' = socket /\ asked' = asked /\ why' = why
  BY DEF Dispose, Goto
<1>2. new \in Calls /\ new.at = "clear"
  BY DEF Calls, Ats
<1>. HIDE DEF new
<1>3. \A b \in Backends : Usable(b)' = Usable(b)
  BY <1>1 DEF Usable
<1>4. \A u \in Tasks : (Connecting(u)' <=> Connecting(u)) /\ (u # t => call'[u] = call[u])
  BY <1>1, <1>2 DEF Connecting
<1>5. Types' /\ Held' /\ Streams'
  BY <1>1, <1>2, <1>3 DEF Held, Streams
<1>6. \A b \in Backends : streamer = b => ~Usable(b)
  BY <1>1 DEF Over
<1>7. Kept'
  BY <1>1, <1>2, <1>3, <1>4, <1>6 DEF Kept, Connecting
<1>8. Starts' /\ OneConnects'
  BY <1>1, <1>2, <1>4 DEF Starts, OneConnects
<1>9. Closes' /\ Over'
  BY <1>1, <1>2, <1>3, <1>6 DEF Closes, Over
<1>. QED BY <1>5, <1>7, <1>8, <1>9

LEMMA ClearKeeps == ASSUME StreamerInv, NEW t \in Tasks, Clear(t) PROVE StreamerInv'
<1>1. /\ call[t].at = "clear" /\ call' = [call EXCEPT ![t] = Idle] /\ streamer' = None
      /\ stream' = stream /\ socket' = socket /\ asked' = asked /\ why' = why /\ hasty' = hasty
  BY DEF Clear, Return, Goto
<1>2. \A b \in Backends : Usable(b)' = Usable(b)
  BY <1>1 DEF Usable
<1>3. Types' /\ Streams'
  BY <1>1 DEF Streams, Idle, Calls, Ats, Codes
<1>4. Held'
  BY <1>1, <1>2 DEF Held, Over
<1>5. Kept'
  BY <1>1, <1>2 DEF Kept, Connecting
<1>6. Starts' /\ OneConnects'
  BY <1>1 DEF Starts, OneConnects, Connecting, Idle
<1>7. Closes' /\ Over'
  BY <1>1 DEF Closes, Over
<1>. QED BY <1>3, <1>4, <1>5, <1>6, <1>7

LEMMA SendKeeps == ASSUME StreamerInv, NEW t \in Tasks, Send(t) PROVE StreamerInv'
<1>1. PICK b \in stream, token \in BOOLEAN :
        call' = [call EXCEPT ![t] = [Idle EXCEPT !.at = "write", !.on = b, !.token = token]]
  BY DEF Send, Begin
<1>2. /\ call[t] = Idle
      /\ streamer' = streamer /\ stream' = stream /\ socket' = socket
      /\ asked' = asked /\ why' = why /\ hasty' = hasty
  BY DEF Send, Begin
<1>3. \A c \in Backends : Usable(c)' = Usable(c)
  BY <1>2 DEF Usable
<1>4. Types' /\ Held' /\ Streams'
  BY <1>1, <1>2, <1>3 DEF Held, Streams, Idle, Calls, Ats, Codes
<1>8. \A u \in Tasks : Connecting(u) => Connecting(u)' /\ call'[u] = call[u]
  <2>1. ~Connecting(t)
    BY <1>2 DEF Connecting, Idle
  <2>2. \A u \in Tasks \ {t} : call'[u] = call[u]
    BY <1>1
  <2>. QED BY <2>1, <2>2 DEF Connecting
<1>5. Kept'
  BY <1>2, <1>3, <1>8 DEF Kept
<1>6. Starts' /\ OneConnects'
  BY <1>1, <1>2 DEF Starts, OneConnects, Connecting, Idle
<1>7. Closes' /\ Over'
  BY <1>1, <1>2, <1>3 DEF Closes, Over, Idle
<1>. QED BY <1>4, <1>5, <1>6, <1>7

\* A step that makes no connection usable, whether a call that writes returns
\* with it or none does.
LEMMA SocketKeeps ==
  ASSUME StreamerInv, socket' \in [Backends -> Sockets],
         asked' \in [Backends -> SUBSET [code : Codes, token : BOOLEAN]],
         why' \in [Backends -> Causes \cup {None}],
         \A b \in Backends : Usable(b)' => Usable(b),
         \A b \in Backends :
           /\ socket'[b] \in {"none", "new"} <=> socket[b] \in {"none", "new"}
           /\ socket[b] \in {"none", "new"} => socket'[b] = socket[b]
           /\ socket'[b] \in {"connecting", "failed"} => socket[b] \in {"connecting", "failed"},
         streamer' = streamer, stream' = stream, hasty' = hasty,
         \/ call' = call
         \/ \E t \in Tasks : call[t].at = "write" /\ call' = [call EXCEPT ![t] = Idle]
  PROVE  StreamerInv'
<1>1. \A u \in Tasks : call'[u] = call[u] \/ (call'[u] = Idle /\ call[u].at = "write")
  <2>1. CASE call' = call
    BY <2>1
  <2>2. ASSUME NEW t \in Tasks, call[t].at = "write", call' = [call EXCEPT ![t] = Idle]
        PROVE  \A u \in Tasks : call'[u] = call[u] \/ (call'[u] = Idle /\ call[u].at = "write")
    BY <2>2
  <2>. QED BY <2>1, <2>2
<1>7. Idle \in Calls
  BY DEF Idle, Calls, Ats, Codes
<1>2. Types'
  <2>1. call' \in [Tasks -> Calls]
    BY <1>7
  <2>. QED BY <2>1
<1>3. Held' /\ Streams'
  BY DEF Held, Streams
<1>4. Kept'
  <2>1. \A t \in Tasks : Connecting(t) => Connecting(t)' /\ call'[t].on = call[t].on
    BY <1>1 DEF Connecting
  <2>. QED BY <2>1 DEF Kept
<1>5. Starts' /\ OneConnects'
  <2>. SUFFICES ASSUME NEW u \in Tasks, call'[u] = call[u]
                PROVE  /\ call[u].at \in {"connect", "connect async"} =>
                             /\ call[u].on \in Backends /\ socket'[call[u].on] = "new"
                             /\ streamer \in {call[u].on, None}
                       /\ call[u].at \in {"wait", "await"} =>
                             call[u].on \in Backends /\ socket'[call[u].on] \notin {"none", "new"}
                       /\ call[u].at = "write" => call[u].on \in Backends
    <3>0. Idle.at = "idle"
      BY DEF Idle
    <3>1. \A v \in Tasks : Connecting(v)' => Connecting(v)
      BY <1>1, <3>0 DEF Connecting
    <3>2. OneConnects'
      BY <3>1 DEF OneConnects
    <3>. QED BY <1>1, <3>0, <3>2 DEF Starts
  <2>. QED BY DEF Starts
<1>6. Closes' /\ Over'
  BY <1>1 DEF Closes, Over, Idle
<1>. QED BY <1>2, <1>3, <1>4, <1>5, <1>6

\* Abort makes a connection unusable.
LEMMA AbortIsOver ==
  ASSUME StreamerInv, NEW b \in Backends, socket[b] \in {"open", "close sent"}, Abort(b),
         \A c \in Backends : why[c] \in Causes => why'[c] \in Causes
  PROVE  /\ socket' \in [Backends -> Sockets]
         /\ asked' \in [Backends -> SUBSET [code : Codes, token : BOOLEAN]]
         /\ \A c \in Backends : Usable(c)' => Usable(c)
         /\ \A c \in Backends :
              /\ socket'[c] \in {"none", "new"} <=> socket[c] \in {"none", "new"}
              /\ socket[c] \in {"none", "new"} => socket'[c] = socket[c]
              /\ socket'[c] \in {"connecting", "failed"} => socket[c] \in {"connecting", "failed"}
<1>1. \A c \in Backends : socket'[c] = IF c = b THEN "aborted" ELSE socket[c]
  BY DEF Abort
<1>2. \A c \in Backends : asked'[c] = IF c = b THEN {} ELSE asked[c]
  BY DEF Abort
<1>3. socket' \in [Backends -> Sockets] /\ asked' \in [Backends -> SUBSET [code : Codes, token : BOOLEAN]]
  BY DEF Abort, Sockets
<1>. QED BY <1>1, <1>2, <1>3 DEF Usable

LEMMA WriteKeeps == ASSUME StreamerInv, NEW t \in Tasks, Write(t) PROVE StreamerInv'
<1>. DEFINE b == call[t].on
<1>1. /\ call[t].at = "write" /\ call' = [call EXCEPT ![t] = Idle]
      /\ streamer' = streamer /\ stream' = stream /\ why' = why /\ hasty' = hasty
  BY DEF Write, Return, Goto
<1>2. b \in Backends
  BY <1>1 DEF Starts
<1>3. CASE UNCHANGED <<socket, asked, link>>
  BY <1>1, <1>3, SocketKeeps DEF Usable
<1>4. CASE socket[b] = "open" /\ Abort(b)
  BY <1>1, <1>2, <1>4, AbortIsOver, SocketKeeps
<1>. QED BY <1>3, <1>4 DEF Write

LEMMA SocketStepKeeps == ASSUME StreamerInv, NEW b \in Backends, SocketStep(b) PROVE StreamerInv'
<1>1. CASE LinkDrops(b)
  BY <1>1, SocketKeeps DEF LinkDrops, Usable
<1>2. CASE Opens(b)
  <2>1. /\ socket[b] = "connecting" /\ socket' = [socket EXCEPT ![b] = "open"]
        /\ asked' = asked /\ why' = why /\ call' = call
        /\ streamer' = streamer /\ stream' = stream /\ hasty' = hasty
    BY <1>2 DEF Opens
  <2>2. \A c \in Backends : Usable(c)' => Usable(c)
    BY <2>1 DEF Usable
  <2>3. socket' \in [Backends -> Sockets]
    BY <2>1 DEF Sockets
  <2>. QED BY <2>1, <2>2, <2>3, SocketKeeps
<1>3. CASE FailsToOpen(b)
  <2>1. /\ socket[b] = "connecting" /\ socket' = [socket EXCEPT ![b] = "failed"]
        /\ asked' = asked /\ why' = why /\ call' = call
        /\ streamer' = streamer /\ stream' = stream /\ hasty' = hasty
    BY <1>3 DEF FailsToOpen
  <2>2. \A c \in Backends : Usable(c)' => Usable(c)
    BY <2>1 DEF Usable
  <2>3. socket' \in [Backends -> Sockets]
    BY <2>1 DEF Sockets
  <2>. QED BY <2>1, <2>2, <2>3, SocketKeeps
<1>4. CASE SendsClose(b)
  <2>1. /\ socket[b] = "open" /\ why' = why /\ call' = call
        /\ streamer' = streamer /\ stream' = stream /\ hasty' = hasty
    BY <1>4 DEF SendsClose
  <2>2. CASE Abort(b)
    BY <2>1, <2>2, AbortIsOver, SocketKeeps
  <2>3. CASE socket' = [socket EXCEPT ![b] = "close sent"] /\ asked' = asked
    <3>1. \A c \in Backends : Usable(c)' => Usable(c)
      BY <2>1, <2>3 DEF Usable
    <3>2. socket' \in [Backends -> Sockets]
      BY <2>3 DEF Sockets
    <3>. QED BY <2>1, <2>3, <3>1, <3>2, SocketKeeps
  <2>. QED BY <1>4, <2>2, <2>3 DEF SendsClose
<1>5. CASE CancelsClose(b)
  <2>1. PICK c \in asked[b] :
          (asked' = [asked EXCEPT ![b] = @ \ {c}] /\ UNCHANGED <<socket, link>>) \/ Abort(b)
    BY <1>5 DEF CancelsClose
  <2>2. /\ socket[b] \in {"open", "close sent"} /\ why' = [why EXCEPT ![b] = "cancelled"] /\ call' = call
        /\ streamer' = streamer /\ stream' = stream /\ hasty' = hasty
    BY <1>5 DEF CancelsClose
  <2>3. why' \in [Backends -> Causes \cup {None}] /\ (\A d \in Backends : why[d] \in Causes => why'[d] \in Causes)
    BY <2>2 DEF Causes
  <2>4. CASE Abort(b)
    BY <2>2, <2>3, <2>4, AbortIsOver, SocketKeeps
  <2>5. CASE asked' = [asked EXCEPT ![b] = @ \ {c}] /\ socket' = socket
    <3>1. \A d \in Backends : Usable(d)' => Usable(d)
      BY <2>2, <2>5 DEF Usable, Causes
    <3>. QED BY <2>2, <2>3, <2>5, <3>1, SocketKeeps
  <2>. QED BY <2>1, <2>4, <2>5
<1>6. CASE IsClosed(b)
  <2>1. PICK s \in {"closed", "aborted"} : socket' = [socket EXCEPT ![b] = s]
    BY <1>6 DEF IsClosed
  <2>2. /\ socket[b] = "close sent" /\ asked' = [asked EXCEPT ![b] = {}] /\ why' = why /\ call' = call
        /\ streamer' = streamer /\ stream' = stream /\ hasty' = hasty
    BY <1>6 DEF IsClosed
  <2>3. \A c \in Backends : Usable(c)' => Usable(c)
    BY <2>1, <2>2 DEF Usable
  <2>4. socket' \in [Backends -> Sockets]
    BY <2>1 DEF Sockets
  <2>. QED BY <2>1, <2>2, <2>3, <2>4, SocketKeeps
<1>. QED BY <1>1, <1>2, <1>3, <1>4, <1>5, <1>6 DEF SocketStep

LEMMA CallStepKeeps == ASSUME StreamerInv, NEW t \in Tasks, CallStep(t) PROVE StreamerInv'
<1>1. CASE ConnectOld(t) \/ Disconnect(t) \/ EndRecording(t)
  BY <1>1, BeginEndKeeps DEF ConnectOld, Disconnect, EndRecording, Codes
<1>. QED BY <1>1, ConnectUrlKeeps, BeginConnectKeeps, EndConnectKeeps, CloseKeeps, DisposeKeeps,
            ClearKeeps, SendKeeps, WriteKeeps DEF CallStep, Connect, Finish

LEMMA StreamerKeeps == StreamerInv /\ [StreamerNext]_streamerVars => StreamerInv'
<1>. SUFFICES ASSUME StreamerInv, [StreamerNext]_streamerVars PROVE StreamerInv'
  OBVIOUS
<1>1. CASE StreamerNext
  BY <1>1, CallStepKeeps, SocketStepKeeps DEF StreamerNext
<1>2. CASE UNCHANGED streamerVars
  BY <1>2, SocketKeeps DEF streamerVars, Usable
<1>. QED BY <1>1, <1>2

\* An open connection is the streamer's or is being closed, unless one of the
\* four named things happened to it, and what the streamer calls connected was
\* open once or Connect stopped waiting for it (DucStreamer.cs, Disconnect's
\* finally; DucStreamerBackendV3.cs:46): for any number of calls and
\* connections, and whenever a token is cancelled.
THEOREM NothingStrays == StreamerSpec => []NoStrayConnection
<1>1. StreamerInv => NoStrayConnection
  BY DEF Held, Streams, NoStrayConnection, Usable, Causes
<1>. QED BY <1>1, StreamerBegins, StreamerKeeps, PTL DEF StreamerSpec
=============================================================================
