-------------------------------- MODULE Remux --------------------------------
(***************************************************************************)
(* A recording is written by libwebm's muxer, as the program's own recorder   *)
(* (a file it can seek in) or a browser's (a stream) does, and ends orderly,  *)
(* or in the middle: the writer dies between two steps, and the end of what   *)
(* it wrote may be lost.  XmfWebMMuxer_Remux then reads what there is and     *)
(* makes a copy that can be seeked in.  One call is followed through its      *)
(* phases; nothing runs beside it.                                           *)
(*                                                                         *)
(* sent and gap are history: the frames the recording accepted, and whether   *)
(* a frame came further than a cluster can reach from one that had to wait.   *)
(***************************************************************************)
EXTENDS WebmMuxer

CONSTANTS
  TrackLists,     \* the tracks a recording may have
  FrameKinds,     \* [track, step, key, pad]: step is the time since the frame before
  MaxFrames       \* frames of a recording

ASSUME TimesAssumption == WebmTimes
ASSUME KindsAssumption == FrameKinds \subseteq [track : Nat, step : Nat, key : BOOLEAN, pad : BOOLEAN]

P == INSTANCE WebmParser

VARIABLES
  phase,   \* "record", "open", "headers", "clusters", "loaded", "copy", "done"
  rec,     \* the segment that is recorded
  sent,    \* history: the frames it took
  gap,     \* history: a frame came too far from one that waited
  file,    \* [elements, total]: what is left of the recording
  parser,  \* parser_segment
  cluster, \* the cluster that is copied
  entry,   \* the entries of it that are
  copy,    \* muxer_segment
  result   \* of the call

vars == <<phase, rec, sent, gap, file, parser, cluster, entry, copy, result>>

NoFile == [elements |-> << >>, total |-> 0]
NoParser == [status |-> "none"]
NoCopy == NewSegment(TRUE, << >>, FALSE)

Init ==
  /\ phase = "record"
  /\ \E seekable, tags \in BOOLEAN, tracks \in TrackLists :
       (tags => ~seekable) /\ rec = NewSegment(seekable, tracks, tags)
  /\ sent = << >>
  /\ gap = FALSE
  /\ file = NoFile
  /\ parser = NoParser
  /\ cluster = 1
  /\ entry = 0
  /\ copy = NoCopy
  /\ result = "none"

---------------------------------------------------------------------------
(* The recording *)

LastTime == IF sent = << >> THEN 0 ELSE Last(sent).time

FrameOf(kind) ==
  [id |-> Len(sent) + 1, track |-> kind.track, time |-> LastTime + kind.step,
   key |-> kind.key, pad |-> kind.pad, ref |-> NotPresent]

\* Sound waits for a picture while it is in reach of the last cluster.
Reaches(time, f) == f.time - time <= MaxBlockTimecode
Waits(s, f) ==
  /\ HasVideo(s) /\ s.tracks[f.track] = Audio
  /\ s.clusters # << >> => Reaches(Current(s).timecode, f)

\* The waiting frame that a new cluster begins with: before there is a cluster
\* all of them go to it, later only the last one.
TooFar(s, f) ==
  LET first == IF s.clusters = << >> THEN Head(s.frames) ELSE Last(s.frames)
  IN s.frames # << >> /\ ~Waits(s, f) /\ ~Reaches(first.time, f)

\* A recorder goes on until a frame is refused.
RecordFrame ==
  /\ phase = "record" /\ rec.ok /\ Len(sent) < MaxFrames
  /\ \E kind \in FrameKinds :
       /\ kind.track \in DOMAIN rec.tracks
       /\ kind.pad => rec.tracks[kind.track] = Audio
       /\ rec.tracks[kind.track] = Audio => kind.key
       /\ rec' = AddGenericFrame(rec, FrameOf(kind))
       /\ sent' = IF rec'.ok THEN Append(sent, FrameOf(kind)) ELSE sent
       /\ gap' = (gap \/ TooFar(rec, FrameOf(kind)))
  /\ UNCHANGED <<phase, file, parser, cluster, entry, copy, result>>

Leave(s, total) ==
  /\ file' = [elements |-> s.file, total |-> total]
  /\ rec' = s
  /\ phase' = "open"
  /\ UNCHANGED <<sent, gap, parser, cluster, entry, copy, result>>

\* The recording is finalized, or the recorder dies after so many steps of it.
Stop ==
  /\ phase = "record" /\ rec.ok
  /\ \E steps \in 0..FinalizeSteps :
       \E s \in {Finalize(rec, steps)} : Leave(s, FileEnd(s.file))

\* The end of what was written does not reach the disk.
Cuts(e) == {e.at, e.at + 1, e.at + IdSize(e.id), e.at + e.head}
LoseEnd ==
  /\ phase = "record" /\ rec.ok
  /\ \E i \in DOMAIN rec.file : \E total \in Cuts(rec.file[i]) : Leave(rec, total)

---------------------------------------------------------------------------
(* XmfWebMMuxer_Remux *)

Return(value) == phase' = "done" /\ result' = value

\* EBMLHeader::Parse and Segment::CreateInstance
OpenInput ==
  /\ phase = "open"
  /\ IF P!CanOpen(file)
     THEN phase' = "headers" /\ parser' = P!Open(file) /\ UNCHANGED result
     ELSE Return("parser error") /\ UNCHANGED parser
  /\ UNCHANGED <<rec, sent, gap, file, cluster, entry, copy>>

\* Segment::Load, first its ParseHeaders and then LoadCluster until there is none.
LoadHeaders ==
  /\ phase = "headers"
  /\ parser' = P!ParseHeader(file, parser)
  /\ phase' = CASE parser'.status = "again" -> "headers"
                [] parser'.status = "ok" -> "clusters"
                [] OTHER -> "loaded"
  /\ UNCHANGED <<rec, sent, gap, file, cluster, entry, copy, result>>

LoadClusters ==
  /\ phase = "clusters"
  /\ parser' = P!DoLoadCluster(file, parser)
  /\ phase' = IF parser'.status = "again" THEN "clusters" ELSE "loaded"
  /\ UNCHANGED <<rec, sent, gap, file, cluster, entry, copy, result>>

\* A recording cut short is tolerated; one whose tracks could not be read then
\* dereferences NULL.
Tolerated(status) == status \in {"ok", "end", "underflow"}

LastTrack(tracks, type) ==
  LET of == {i \in DOMAIN tracks : tracks[i] = type}
  IN IF of = {} THEN 0 ELSE CHOOSE i \in of : \A j \in of : j <= i

SetUp ==
  /\ phase = "loaded"
  /\ IF ~Tolerated(parser.status) \/ ~parser.hasInfo
     THEN Return("parser error") /\ UNCHANGED copy
     ELSE IF parser.tracks = << >>
     THEN Return("crash") /\ UNCHANGED copy
     ELSE /\ phase' = "copy"
          /\ copy' = [NewSegment(TRUE, parser.tracks, parser.tags) EXCEPT
                        !.cuesTrack = IF LastTrack(parser.tracks, Audio) # 0
                                      THEN LastTrack(parser.tracks, Audio)
                                      ELSE LastTrack(parser.tracks, Video)]
          /\ UNCHANGED result
  /\ UNCHANGED <<rec, sent, gap, file, parser, cluster, entry>>

\* Block::GetTime is that of the cluster and its own.
Frame(c, b) ==
  [id |-> b.id, track |-> LastTrack(parser.tracks, parser.tracks[b.track]),
   time |-> c.timecode + b.rel, key |-> b.key, pad |-> b.pad, ref |-> NotPresent]

\* Cluster::GetFirst or GetNext, and what is done with the entry.
CopyFrame ==
  /\ phase = "copy" /\ cluster \in DOMAIN parser.clusters
  /\ \E next \in {P!GetNext(file, parser.clusters[cluster], entry)} :
       /\ parser' = [parser EXCEPT !.clusters[cluster] = next.c]
       /\ IF next.status = "ok" /\ entry < Len(next.c.entries)
          THEN /\ copy' = AddGenericFrame(copy, Frame(next.c, next.c.entries[entry + 1]))
               /\ entry' = entry + 1
               /\ cluster' = cluster
               /\ IF copy'.ok THEN UNCHANGED <<phase, result>> ELSE Return("muxer error")
          ELSE IF entry = 0 /\ next.status # "end"
          THEN Return("muxer error") /\ UNCHANGED <<copy, entry, cluster>>
          ELSE cluster' = cluster + 1 /\ entry' = 0 /\ UNCHANGED <<copy, phase, result>>
  /\ UNCHANGED <<rec, sent, gap, file>>

\* A duration that was not there is worked out from the frames.
Finish ==
  /\ phase = "copy" /\ cluster \notin DOMAIN parser.clusters
  /\ LET duration == IF parser.info > 0 THEN parser.info ELSE 0
     IN copy' = Finalize([copy EXCEPT !.duration = duration], FinalizeSteps)
  /\ Return(IF copy'.ok THEN "success" ELSE "muxer error")
  /\ UNCHANGED <<rec, sent, gap, file, parser, cluster, entry>>

Next ==
  \/ RecordFrame \/ Stop \/ LoseEnd
  \/ OpenInput \/ LoadHeaders \/ LoadClusters \/ SetUp \/ CopyFrame \/ Finish

Spec == Init /\ [][Next]_vars

---------------------------------------------------------------------------
(* What has to hold *)

ClusterOf(elements, i) ==
  CHOOSE j \in 1..i : elements[j].id = "Cluster" /\ \A k \in j + 1..i : elements[k].id # "Cluster"
BlockIndices(elements) == SelectSeq([i \in DOMAIN elements |-> i], LAMBDA i : elements[i].id \in P!Blocks)

\* What a block of a file says of its frame.
Told(elements, i) ==
  LET b == elements[i].v
  IN [id |-> b.id, track |-> b.track, time |-> elements[ClusterOf(elements, i) + 1].v + b.rel,
      key |-> b.key, pad |-> b.pad]
Given(f) == [id |-> f.id, track |-> f.track, time |-> f.time, key |-> f.key, pad |-> f.pad]

Blocks(elements) == [n \in DOMAIN BlockIndices(elements) |-> Told(elements, BlockIndices(elements)[n])]
OfTrack(frames, t) == SelectSeq(frames, LAMBDA f : f.track = t)
SameFrames(a, b, tracks) == \A t \in tracks : OfTrack(a, t) = OfTrack(b, t)

\* A block that is whole, in a cluster that is whole or says no size.
Whole(f, i) ==
  LET c == f.elements[ClusterOf(f.elements, i)]
  IN End(f.elements[i]) <= f.total /\ (c.size # Unknown => P!PayloadEnd(c) <= f.total)
WholeBlocks(f) ==
  LET is == SelectSeq(BlockIndices(f.elements), LAMBDA i : Whole(f, i))
  IN [n \in DOMAIN is |-> Told(f.elements, is[n])]

\* How many blocks there are up to that element.
BlocksTo(elements, i) == Cardinality({j \in 1..i : elements[j].id \in P!Blocks})

\* Every frame a recording took is in its file or waits, in the order they came
\* and each with its time, and nothing else is there (mkvmuxer.cc,
\* AddGenericFrame, the queue and Finalize).
FramesKept ==
  rec.ok =>
    LET written == BlocksTo(rec.file, Len(rec.file))
    IN /\ Len(sent) = written + Len(rec.frames)
       /\ \A i \in DOMAIN rec.file :
            rec.file[i].id \in P!Blocks => Told(rec.file, i) = Given(sent[BlocksTo(rec.file, i)])
       /\ \A n \in DOMAIN rec.frames : rec.frames[n] = sent[written + n]

ElementAt(s, id, pos) == \E i \in DOMAIN s.file : s.file[i].id = id /\ s.file[i].at = s.payload + pos

\* The blocks of the cluster that begins there.
ClusterBlocks(s, pos) ==
  LET j == CHOOSE i \in DOMAIN s.file : s.file[i].at = s.payload + pos
      is == SelectSeq(BlockIndices(s.file), LAMBDA i : ClusterOf(s.file, i) = j)
  IN [n \in DOMAIN is |-> Told(s.file, is[n])]

CueTrue(s, cue) ==
  LET blocks == ClusterBlocks(s, cue.pos)
  IN /\ ElementAt(s, "Cluster", cue.pos)
     /\ cue.block \in DOMAIN blocks
     /\ blocks[cue.block].track = cue.track /\ blocks[cue.block].time = cue.time
     /\ \A n \in 1..cue.block - 1 : blocks[n].track # cue.track

Follows(s, i, j) ==
  j > i /\ \A k \in i + 1..j - 1 : s.file[k].id \notin {"Cluster", "Cues"}
SizeTrue(s, i) ==
  IF s.file[i].id = "Segment" THEN P!PayloadEnd(s.file[i]) = FileEnd(s.file)
  ELSE \E j \in DOMAIN s.file :
         s.file[j].id \in {"Cluster", "Cues"} /\ Follows(s, i, j) /\ s.file[j].at = P!PayloadEnd(s.file[i])
Navigable(s) ==
  /\ \A i \in DOMAIN s.file \ {1} : s.file[i].at = End(s.file[i - 1])
  /\ s.seekable => \A i \in DOMAIN s.file : s.file[i].id \in {"Segment", "Cluster"} => SizeTrue(s, i)
  /\ s.seekable => \A i \in DOMAIN s.seeks : ElementAt(s, s.seeks[i].id, s.seeks[i].pos)
  /\ \A n \in DOMAIN s.cues : CueTrue(s, s.cues[n])
  /\ \A n \in DOMAIN s.clusters :
       LET cued == {i \in DOMAIN s.cues : s.cues[i].pos = s.clusters[n].pos}
           blocks == ClusterBlocks(s, s.clusters[n].pos)
       IN Cardinality(cued) = IF OfTrack(blocks, s.cuesTrack) = << >> THEN 0 ELSE 1

\* The last step of Finalize sets the size of the segment.
Ended(s) ==
  /\ s.ok /\ s.cues # << >>
  /\ s.seekable => \E i \in DOMAIN s.file : s.file[i].id = "Segment" /\ s.file[i].size # Unknown

\* A finalized file can be found one's way in: its elements follow each other,
\* every size that had to wait was set to what came, and the seek head and
\* the cues point at what they name, a cue at the first frame of its track
\* in each cluster that has one (mkvmuxer.cc, Finalize and AddCuePoint).
IndexTrue ==
  /\ result = "success" => Navigable(copy)
  /\ phase = "open" /\ file.total = FileEnd(rec.file) /\ Ended(rec) => Navigable(rec)

\* No frame is refused but one that comes too far from a frame of sound that
\* waited: whatever the order the frames come in, how long sound is queued and
\* when a cluster is full, all others find a cluster in whose reach they are
\* (mkvmuxer.cc, TestFrame, MakeNewCluster and WriteFramesLessThan).
RefusedOnlyAcrossGap == phase = "record" => (~rec.ok => gap)

\* The muxer says of a frame too far from the last cluster: "we cannot write this
\* frame to that cluster, and so we must create a new cluster" (mkvmuxer.cc:3806),
\* and of that one: "Do the test again, comparing the frame to the new cluster"
\* (mkvmuxer.cc:3947).  The distance is no reason to refuse it.
FarFrameTaken == phase = "record" /\ gap => rec.ok

WholeElement(id) == \E i \in DOMAIN file.elements : file.elements[i].id = id /\ End(file.elements[i]) <= file.total
Begun(id) == \E i \in DOMAIN file.elements : file.elements[i].id = id /\ file.elements[i].at < file.total

\* The picture, or the sound if there is none.
Leading(tracks) == {i \in DOMAIN tracks : HasVideo(rec) => tracks[i] = Video}

\* What the call gives is told by what is left of the recording: everything up
\* to the tracks, and one frame of the picture.  A recording cut within its
\* tracks is not refused but dereferenced.
Outcome ==
  IF ~WholeElement("Tracks") THEN IF Begun("Tracks") THEN "crash" ELSE "parser error"
  ELSE IF \A n \in DOMAIN WholeBlocks(file) : WholeBlocks(file)[n].track \notin Leading(rec.tracks)
  THEN "muxer error"
  ELSE "success"

\* Whatever was lost, what can be read is recovered: the call succeeds where it
\* can, and then the copy has every frame whose block was not damaged, in the
\* order of its track, and no other (XmfMuxer.cpp, the copy loop and the returns).
FramesRecovered ==
  phase = "done" =>
    /\ result = Outcome
    /\ result = "success" => SameFrames(Blocks(copy.file), WholeBlocks(file), DOMAIN rec.tracks)
=============================================================================
