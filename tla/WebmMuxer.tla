------------------------------ MODULE WebmMuxer ------------------------------
(***************************************************************************)
(* mkvmuxer::Segment, as functions on its state s: frames become the blocks  *)
(* of clusters, with cues and a seek head that point at them.  The file is   *)
(* the sequence of elements written, each with its place; the head of a      *)
(* Segment and of a Cluster is an element of its own, what it holds follows. *)
(* The writer is seekable (a file), and what is only known later is then     *)
(* written over what stood for it, or not (a stream).                        *)
(*                                                                         *)
(* Times are multiples of the timecode scale.  A call that fails leaves ok   *)
(* FALSE and what it had done so far, as the code does.  Chunks, block       *)
(* additions, block durations and the modes nobody here uses are left out.   *)
(***************************************************************************)
EXTENDS WebmElements

CONSTANTS
  MaxBlockTimecode,   \* kMaxBlockTimecode, 32767 in the code
  MaxClusterDuration  \* max_cluster_duration_, 30 seconds in the code

WebmTimes == {MaxBlockTimecode, MaxClusterDuration} \subseteq Nat \ {0}

SeekEntryCount == 5
FrameLength == 1     \* bytes of every frame
Unknown == -1        \* a size that is not known
PadSize == 3         \* bytes of a discard padding

Element(id, at, head, size, len, v) ==
  [id |-> id, at |-> at, head |-> head, size |-> size, len |-> len, v |-> v]
End(e) == e.at + e.len
FileEnd(file) == IF file = << >> THEN 0 ELSE End(Last(file))

NewSegment(seekable, tracks, tags) ==
  [file |-> << >>, seekable |-> seekable, tracks |-> tracks, tags |-> tags,
   written |-> FALSE, payload |-> 0, seeks |-> << >>, clusters |-> << >>,
   frames |-> << >>, queued |-> FALSE, force |-> FALSE, last |-> 0,
   lastOf |-> [i \in DOMAIN tracks |-> 0], duration |-> 0,
   newCue |-> FALSE, cuesTrack |-> 0, cues |-> << >>, ok |-> TRUE]

Fail(s) == [s EXCEPT !.ok = FALSE]
Then(s, Op(_)) == IF s.ok THEN Op(s) ELSE s

Put(s, id, head, size, len, v) ==
  [s EXCEPT !.file = Append(s.file, Element(id, FileEnd(s.file), head, size, len, v))]
\* A master element, whole.
PutMaster(s, id, size, v) ==
  Put(s, id, EbmlMasterElementSize(id, size), size, MasterSize(id, size), v)

\* Positions in the file are told from the start of the Segment's payload.
MaxOffset(s) == FileEnd(s.file) - s.payload

AddSeekEntry(s, id) ==
  IF Len(s.seeks) < SeekEntryCount
  THEN [s EXCEPT !.seeks = Append(s.seeks, [id |-> id, pos |-> MaxOffset(s)])]
  ELSE Fail(s)

---------------------------------------------------------------------------
(* The seek head *)

\* The most a seek head may take: an id has four bytes, a position eight.
SeekHeadSpace == MasterSize("SeekHead", SeekEntryCount * (3 + (3 + 4) + (3 + 8)))

EntrySize(e) == MasterSize("Seek", (3 + IdSize(e.id)) + UIntElementSize("SeekPosition", e.pos))

\* The seek head replaces the first bytes of the Void that kept its place.
FinalizeSeekHead(s) ==
  LET i == CHOOSE n \in DOMAIN s.file : s.file[n].id = "Void"
      at == s.file[i].at
      size == Total([n \in DOMAIN s.seeks |-> EntrySize(s.seeks[n])])
      len == MasterSize("SeekHead", size)
      head == Element("SeekHead", at, len - size, size, len, s.seeks)
      left == SeekHeadSpace - len
      rest == Element("Void", at + len, 2, left - 2, left, 0)
  IN IF ~s.seekable THEN s
     ELSE IF VoidElementSize(left) = 0 THEN Fail(s)
     ELSE [s EXCEPT !.file = SubSeq(s.file, 1, i - 1) \o <<head, rest>> \o SubSeq(s.file, i + 1, Len(s.file))]

---------------------------------------------------------------------------
(* The header of the file *)

InfoOf(s) == [timecodeScale |-> 1000000, duration |-> IF s.seekable THEN 1 ELSE 0,
              dateUtc |-> NotPresent, muxingApp |-> 3, writingApp |-> 18]

TrackOf(s, i) ==
  [NoTrack EXCEPT !.type = s.tracks[i], !.number = i,
                  !.codec = IF s.tracks[i] = Video THEN "V_VP8" ELSE "A_OPUS",
                  !.video.width = 640, !.video.height = 480,
                  !.audio = [sampleRate |-> 48000, channels |-> 2, bitDepth |-> 0]]

OneTag == [name |-> 5, string |-> 5]

PutHead(s) == Put(PutMaster(s, "EBML", EbmlHeaderSize([docType |-> 4, version |-> 4]), 0),
                  "Segment", 12, Unknown, 12, 0)
Start(s) == [s EXCEPT !.payload = FileEnd(s.file)]
PutVoid(s) == IF s.seekable THEN Put(s, "Void", 2, SeekHeadSpace - 2, SeekHeadSpace, 0) ELSE s

\* The duration is provisional until the file is finalized.
PutInfo(s) ==
  PutMaster(s, "Info", InfoSize(InfoOf(s)), IF s.seekable THEN 1 ELSE NotPresent)
PutTracks(s) ==
  PutMaster(s, "Tracks",
            Total([i \in DOMAIN s.tracks |-> MasterSize("TrackEntry", TrackElementSize(TrackOf(s, i)))]),
            s.tracks)
PutTags(s) ==
  IF s.tags THEN PutMaster(AddSeekEntry(s, "Tags"), "Tags", MasterSize("Tag", TagSize(<<OneTag>>)), 0) ELSE s

\* The seek entries are within the count.
WriteSegmentHeader(s) ==
  LET Info(t) == PutInfo(AddSeekEntry(t, "Info"))
      Tracks(t) == PutTracks(AddSeekEntry(t, "Tracks"))
      Written(t) == [t EXCEPT !.written = TRUE]
  IN Written(PutTags(Tracks(Info(PutVoid(Start(PutHead(s)))))))

HasVideo(s) == \E i \in DOMAIN s.tracks : s.tracks[i] = Video
VideoTracks(s) == {i \in DOMAIN s.tracks : s.tracks[i] = Video}

\* The track that was chosen, or the first picture, or the first track.
CuesTrack(s) ==
  IF s.cuesTrack # 0 THEN s.cuesTrack
  ELSE IF HasVideo(s) THEN CHOOSE i \in VideoTracks(s) : \A j \in VideoTracks(s) : i <= j
  ELSE 1

CheckHeaderInfo(s) ==
  LET Choose(t) == [t EXCEPT !.cuesTrack = CuesTrack(t)]
  IN IF s.written THEN s ELSE Choose(AddSeekEntry(WriteSegmentHeader(s), "Cluster"))

---------------------------------------------------------------------------
(* Clusters.  head is the index of the cluster's head in the file, 0 as long *)
(* as it has not been written.                                               *)

NewCluster(timecode, pos) ==
  [timecode |-> timecode, pos |-> pos, head |-> 0, payload |-> 0, blocks |-> 0, finalized |-> FALSE]

Current(s) == s.clusters[Len(s.clusters)]
SetCurrent(s, c) == [s EXCEPT !.clusters[Len(s.clusters)] = c]

CanBeSimpleBlock(f) == ~f.pad
IsValid(f) == CanBeSimpleBlock(f) \/ f.key \/ f.ref # NotPresent

\* The head, whose size is not known, and the timecode, which the payload counts.
WriteClusterHeader(s) ==
  LET timecode == UIntElementSize("Timecode", Current(s).timecode)
      Begin(t) == [Put(t, "Cluster", 12, Unknown, 12, 0) EXCEPT
                    !.clusters[Len(t.clusters)].head = Len(t.file) + 1,
                    !.clusters[Len(t.clusters)].payload = timecode]
  IN Put(Begin(s), "Timecode", 2, timecode - 2, timecode, Current(s).timecode)

BlockSize == 2 + 4 + FrameLength
WriteFrame(s, f, rel) ==
  LET v == [id |-> f.id, track |-> f.track, rel |-> rel, key |-> f.key, pad |-> f.pad]
  IN IF CanBeSimpleBlock(f) THEN Put(s, "SimpleBlock", 2, BlockSize - 2, BlockSize, v)
     ELSE PutMaster(s, "BlockGroup",
                    BlockSize + If(f.pad, IdSize("DiscardPadding") + 1 + PadSize)
                    + If(~f.key, UIntElementSize("ReferenceBlock", f.ref)), v)

\* Cluster::AddFrame on the current cluster: the header is written although
\* the frame may then be refused for its time.
ClusterAddFrame(s, f) ==
  LET Headed(t) == IF Current(t).head = 0 THEN WriteClusterHeader(t) ELSE t
      Count(t) == SetCurrent(t, [Current(t) EXCEPT !.payload = @ + Last(t.file).len, !.blocks = @ + 1])
      Add(t, rel) == IF rel \in 0..MaxBlockTimecode THEN Count(WriteFrame(t, f, rel)) ELSE Fail(t)
  IN IF ~IsValid(f) \/ Current(s).finalized THEN Fail(s)
     ELSE Add(Headed(s), f.time - Current(s).timecode)

\* A size is written over the unknown one when the writer can go back.
FinalizeCluster(s) ==
  LET c == Current(s)
      Size(t) == IF s.seekable THEN [t EXCEPT !.file[c.head].size = c.payload] ELSE t
  IN IF c.finalized \/ c.head = 0 THEN Fail(s)
     ELSE Size(SetCurrent(s, [c EXCEPT !.finalized = TRUE]))

---------------------------------------------------------------------------
(* Frames *)

\* Mutant: the cue counts the blocks before the frame.
AddCuePointBefore(s, f) ==
  IF s.newCue /\ s.cuesTrack = f.track
  THEN LET c == Current(s)
       IN [s EXCEPT !.newCue = FALSE,
                    !.cues = Append(s.cues, [time |-> f.time, track |-> f.track,
                                             block |-> c.blocks - 1, pos |-> c.pos])]
  ELSE s

\* Of the first frame of the cues' track in a cluster.
AddCuePoint(s, f) ==
  IF s.newCue /\ s.cuesTrack = f.track
  THEN LET c == Current(s)
       IN [s EXCEPT !.newCue = FALSE,
                    !.cues = Append(s.cues, [time |-> f.time, track |-> f.track,
                                             block |-> c.blocks, pos |-> c.pos])]
  ELSE s

Written(s, f) ==
  LET Cue(t) == AddCuePoint(t, f) IN Then(ClusterAddFrame(s, f), Cue)

WriteQueued(s, f) ==
  LET Write(t) == Written(t, f)
      Note(t) == IF f.time > t.last THEN [t EXCEPT !.last = f.time, !.lastOf[f.track] = f.time] ELSE t
  IN Then(Then(s, Write), Note)

\* The first n of them.  What was written is not forgotten when a later one fails.
WriteFirst(s, n) ==
  LET Forget(t) == [t EXCEPT !.frames = SubSeq(t.frames, n + 1, Len(t.frames))]
      after[i \in 0..n] == IF i = 0 THEN s ELSE WriteQueued(after[i - 1], s.frames[i])
  IN Then(after[n], Forget)

\* Without a cluster there is no place for them.
WriteFramesAll(s) ==
  IF ~s.queued THEN s
  ELSE IF s.clusters = << >> THEN Fail(s)
  ELSE WriteFirst(s, Len(s.frames))

\* All that another one of before that time follows; the last one is kept, as
\* it may still be heard at that time.
Followed(s, time) == Cardinality({i \in 2..Len(s.frames) : s.frames[i].time <= time})

\* Mutant: when those that are left move up, the first of them is overwritten.
WriteFramesMovedTooFar(s, time) ==
  LET Overwrite(t) == IF t.ok /\ Followed(s, time) > 0
                      THEN [t EXCEPT !.frames = SubSeq(t.frames, 2, Len(t.frames))] ELSE t
  IN IF s.clusters = << >> THEN s ELSE Overwrite(WriteFirst(s, Followed(s, time)))

WriteFramesLessThan(s, time) ==
  IF s.clusters = << >> THEN s ELSE WriteFirst(s, Followed(s, time))

FinalizeCurrent(s) == IF s.clusters = << >> THEN s ELSE FinalizeCluster(s)
AddCluster(s, timecode) ==
  [s EXCEPT !.newCue = TRUE, !.clusters = Append(s.clusters, NewCluster(timecode, MaxOffset(s)))]

\* Mutant: the timecode is the frame's, whatever waits for the cluster.
MakeNewClusterAtFrame(s, time) ==
  LET New(t) == AddCluster(t, time)
  IN Then(Then(WriteFramesLessThan(s, time), FinalizeCurrent), New)

\* It begins with the first frame that waits for it, or with the one to come.
MakeNewCluster(s, time) ==
  LET First(t) == IF t.frames # << >> /\ t.frames[1].time < time THEN t.frames[1].time ELSE time
      New(t) == AddCluster(t, First(t))
  IN Then(Then(WriteFramesLessThan(s, time), FinalizeCurrent), New)

\* What to do with the current cluster: an error, keep it, leave it for a new
\* one, or leave it and test again.
TestFrame(s, f) ==
  LET delta == f.time - Current(s).timecode
  IN IF s.force \/ s.clusters = << >> THEN 1
     ELSE IF delta < 0 THEN -1
     ELSE IF delta > MaxBlockTimecode THEN 2
     ELSE IF f.key /\ s.tracks[f.track] = Video THEN 1
     ELSE IF delta >= MaxClusterDuration THEN 1
     ELSE 0

\* The loop of the code ends with its first round: AddGenericFrame forces a new
\* cluster whenever the test would give 2.
DoNewClusterProcessing(s, f) ==
  LET calm == [s EXCEPT !.force = FALSE]
  IN IF TestFrame(s, f) < 0 THEN Fail(s)
     ELSE Then(IF TestFrame(s, f) > 0 THEN MakeNewCluster(calm, f.time) ELSE calm, WriteFramesAll)

\* Out of reach of the last cluster.
ForceNewCluster(s, f) ==
  LET far == s.clusters # << >> /\ f.time - Current(s).timecode \notin 0..MaxBlockTimecode
  IN [s EXCEPT !.force = s.force \/ far]

\* A frame with padding that is no key frame refers to the one before it.
Referring(s, f) ==
  IF CanBeSimpleBlock(f) \/ f.key \/ f.ref # NotPresent THEN f ELSE [f EXCEPT !.ref = s.lastOf[f.track]]

WriteGenericFrame(s, f) ==
  LET Write(t) == Written(t, Referring(t, f))
      Note(t) == [t EXCEPT !.last = f.time, !.lastOf[f.track] = f.time]
  IN Then(Then(DoNewClusterProcessing(s, f), Write), Note)

\* Frames of sound wait until a picture or a new cluster comes, so that they
\* share the cluster of the picture they are heard with.
QueueOrWrite(s, f) ==
  IF HasVideo(s) /\ s.tracks[f.track] = Audio /\ ~s.force
  THEN [s EXCEPT !.frames = Append(s.frames, f), !.queued = TRUE]
  ELSE WriteGenericFrame(s, f)

AddGenericFrame(s, f) ==
  LET Add(t) == IF f.time < t.last \/ f.track \notin DOMAIN t.tracks THEN Fail(t)
                ELSE QueueOrWrite(ForceNewCluster(t, f), f)
  IN Then(CheckHeaderInfo([s EXCEPT !.ok = TRUE]), Add)

---------------------------------------------------------------------------
(* Finalize, in the steps between which a crash leaves something different *)

CueSize(c) ==
  LET position == UIntElementSize("CueClusterPosition", c.pos) + UIntElementSize("CueTrack", c.track)
                  + If(c.block > 1, UIntElementSize("CueBlockNumber", c.block))
  IN MasterSize("CuePoint", UIntElementSize("CueTime", c.time) + MasterSize("CueTrackPositions", position))

WriteCues(s) == PutMaster(s, "Cues", Total([i \in DOMAIN s.cues |-> CueSize(s.cues[i])]), s.cues)

IndexOf(s, id) == CHOOSE i \in DOMAIN s.file : s.file[i].id = id

FlushFrames(s) == Then(WriteFramesAll(s), FinalizeCurrent)
SetDuration(s) ==
  LET duration == IF s.duration > 0 THEN s.duration ELSE s.last
  IN IF ~s.seekable \/ duration = 0 THEN s ELSE [s EXCEPT !.file[IndexOf(s, "Info")].v = duration]
PutCues(s) == Then(AddSeekEntry(s, "Cues"), WriteCues)
SetSegmentSize(s) ==
  IF ~s.seekable THEN s ELSE [s EXCEPT !.file[IndexOf(s, "Segment")].size = MaxOffset(s)]

\* The first so many of them.  A file nothing was written to cannot be gone
\* back in; a stream then ends with empty cues.
FinalizeSteps == 5
FinalizeStep(s, n) ==
  CASE n = 1 -> FlushFrames(s)
    [] n = 2 -> SetDuration(s)
    [] n = 3 -> PutCues(s)
    [] n = 4 -> FinalizeSeekHead(s)
    [] n = 5 -> SetSegmentSize(s)

Finalize(s, steps) ==
  LET Upto(t, n) == IF t.ok /\ n <= steps THEN FinalizeStep(t, n) ELSE t
  IN IF ~s.written /\ s.seekable THEN Fail(s)
     ELSE Upto(Upto(Upto(Upto(Upto([s EXCEPT !.ok = TRUE], 1), 2), 3), 4), FinalizeSteps)
=============================================================================
