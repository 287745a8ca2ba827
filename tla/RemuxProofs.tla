----------------------------- MODULE RemuxProofs -----------------------------
(***************************************************************************)
(* Two theorems of Remux, for any tracks, any kinds of frames, recordings of   *)
(* any length and any two limits of a cluster: libwebm's muxer refuses a      *)
(* frame of a recording only if it comes too far from a frame that waits      *)
(* (RefusedOnlyAcrossGap), and the frames it took are in the file or wait, in *)
(* their order and as they were given (FramesKept).                           *)
(*                                                                         *)
(* The invariant is about the muxer between two frames (Held): what waits is  *)
(* in the order of its times, none of them is later than the last frame,      *)
(* all of them are in reach of the cluster there is, and that one has its     *)
(* head and is not finalized (Running).  So the writes that come before a     *)
(* new cluster and those into a cluster that is kept do not fail, and         *)
(* whether those into a new one do depends on the frame it begins with        *)
(* (Fits), which is what TooFar tells of the recording.                       *)
(*                                                                         *)
(* The lemmas follow the calls of AddGenericFrame from the inside out: what   *)
(* an element that is put, a block, a queue that is written, a new cluster    *)
(* leave as it was, and when each of them fails.                             *)
(*                                                                         *)
(* The second part goes through the same calls again, with the file: every    *)
(* block there tells of a frame that came, by the cluster it is in (Filed),   *)
(* the current cluster is the last one of the file (Filing), and what waits   *)
(* comes after what was written (Queued, Keeping).  The end of a recording    *)
(* then changes sizes, a duration and the place of the seek head, which says  *)
(* nothing of a frame, but moves the blocks behind it (Parted, Stored).       *)
(***************************************************************************)
EXTENDS Remux, SequenceTheorems, FiniteSetTheorems, WellFoundedInduction, TLAPS

-----------------------------------------------------------------------------
(* The state of the muxer, and an element that is put *)

\* The fields of s and of a cluster, for what changes some and leaves the others.
SegmentFields ==
  {"file", "seekable", "tracks", "tags", "written", "payload", "seeks", "clusters", "frames",
   "queued", "force", "last", "lastOf", "duration", "newCue", "cuesTrack", "cues", "ok"}
ClusterFields == {"timecode", "pos", "head", "payload", "blocks", "finalized"}

\* Of what does not matter here.
IsSeq(q) == \E S : q \in Seq(S)

Shape(s) ==
  /\ s = [x \in SegmentFields |-> s[x]]
  /\ IsSeq(s.file) /\ IsSeq(s.clusters)

\* Nothing that decides where a frame goes has changed.
Same(s, t) ==
  /\ t.tracks = s.tracks /\ t.frames = s.frames /\ t.queued = s.queued /\ t.force = s.force
  /\ t.written = s.written

LEMMA AppendIsSeq ==
  ASSUME NEW q, IsSeq(q), NEW e
  PROVE  /\ IsSeq(Append(q, e)) /\ Len(q) \in Nat /\ Len(Append(q, e)) = Len(q) + 1
         /\ Append(q, e)[Len(Append(q, e))] = e /\ Append(q, e) # << >>
<1>1. PICK S : q \in Seq(S)
  BY DEF IsSeq
<1>2. PICK T : T = S \cup {e}
  OBVIOUS
<1>3. q \in Seq(T) /\ e \in T
  BY <1>1, <1>2, SeqMonotonic
<1>4. Append(q, e) \in Seq(T)
  BY <1>3, AppendProperties
<1>. QED BY <1>3, <1>4, AppendProperties DEF IsSeq

LEMMA PutKeeps ==
  ASSUME NEW s, Shape(s), NEW id, NEW head, NEW size, NEW len, NEW v,
         NEW t, t = Put(s, id, head, size, len, v)
  PROVE  /\ Shape(t) /\ Same(s, t) /\ Len(t.file) = Len(s.file) + 1 /\ Len(s.file) \in Nat
         /\ t.clusters = s.clusters /\ t.ok = s.ok /\ t.last = s.last /\ t.seeks = s.seeks
<1>1. PICK e : t = [s EXCEPT !.file = Append(s.file, e)]
  BY DEF Put
<1>2. /\ t = [x \in SegmentFields |-> t[x]]
      /\ t.file = Append(s.file, e)
      /\ \A x \in SegmentFields \ {"file"} : t[x] = s[x]
  BY <1>1 DEF Shape, SegmentFields
<1>3. IsSeq(t.file) /\ Len(t.file) = Len(s.file) + 1 /\ Len(s.file) \in Nat
  <2>1. PICK q : q = s.file
    OBVIOUS
  <2>2. IsSeq(q) /\ t.file = Append(q, e)
    BY <1>2, <2>1 DEF Shape
  <2>3. IsSeq(Append(q, e)) /\ Len(Append(q, e)) = Len(q) + 1 /\ Len(q) \in Nat
    BY <2>2, AppendIsSeq
  <2>. QED BY <2>1, <2>2, <2>3
<1>4. /\ Same(s, t) /\ t.clusters = s.clusters /\ t.ok = s.ok /\ t.last = s.last /\ t.seeks = s.seeks
  BY <1>2 DEF Same, SegmentFields
<1>. QED BY <1>2, <1>3, <1>4 DEF Shape

Replaced(q, h, e, r) == r = [q EXCEPT ![h] = e]

LEMMA ReplaceIsSeq ==
  ASSUME NEW q, IsSeq(q), NEW h, NEW e, NEW r, Replaced(q, h, e, r)
  PROVE  IsSeq(r) /\ Len(r) = Len(q) /\ Len(q) \in Nat /\ (h \in 1..Len(q) => r[h] = e)
<1>0. r = [q EXCEPT ![h] = e]
  BY DEF Replaced
<1>1. PICK S : q \in Seq(S)
  BY DEF IsSeq
<1>2. PICK T : T = S \cup {e}
  OBVIOUS
<1>3. q \in Seq(T) /\ e \in T
  BY <1>1, <1>2, SeqMonotonic
<1>4. CASE h \in 1..Len(q)
  <2>1. r \in Seq(T) /\ Len(r) = Len(q) /\ r[h] = e
    BY <1>0, <1>3, <1>4, ExceptSeq
  <2>. QED BY <1>3, <2>1 DEF IsSeq
<1>5. CASE h \notin 1..Len(q)
  <2>1. r = q
    <3>1. q = [i \in 1..Len(q) |-> q[i]] /\ DOMAIN q = 1..Len(q)
      BY <1>3
    <3>. QED BY <1>0, <1>5, <3>1
  <2>2. Len(r) = Len(q) /\ Len(q) \in Nat
    BY <1>3, <2>1
  <2>. QED BY <1>5, <2>1, <2>2
<1>. QED BY <1>4, <1>5

-----------------------------------------------------------------------------
(* The header *)

\* u is s with so many seek entries written to it, and what else the header writes.
Heading(s, u, n) ==
  /\ Shape(u) /\ IsSeq(u.seeks) /\ Len(u.seeks) = n
  /\ u.tracks = s.tracks /\ u.frames = s.frames /\ u.queued = s.queued /\ u.force = s.force
  /\ u.clusters = s.clusters /\ u.ok = s.ok /\ u.last = s.last

LEMMA PutHeads ==
  ASSUME NEW s, NEW u, NEW n, Heading(s, u, n), NEW id, NEW head, NEW size, NEW len, NEW v
  PROVE  Heading(s, Put(u, id, head, size, len, v), n)
BY PutKeeps DEF Heading, Same

LEMMA SeekHeads ==
  ASSUME NEW s, NEW u, NEW n \in 0..4, Heading(s, u, n), NEW id
  PROVE  Heading(s, AddSeekEntry(u, id), n + 1) /\ AddSeekEntry(u, id).written = u.written
<1>0. PICK e : e = [id |-> id, pos |-> MaxOffset(u)]
  OBVIOUS
<1>1. AddSeekEntry(u, id) = [u EXCEPT !.seeks = Append(u.seeks, e)]
  <2>1. Len(u.seeks) < SeekEntryCount
    BY DEF SeekEntryCount, Heading
  <2>. QED BY <1>0, <2>1 DEF AddSeekEntry
<1>2. PICK t : t = [u EXCEPT !.seeks = Append(u.seeks, e)]
  OBVIOUS
<1>3. /\ t = [x \in SegmentFields |-> t[x]]
      /\ t.seeks = Append(u.seeks, e)
      /\ \A x \in SegmentFields \ {"seeks"} : t[x] = u[x]
  BY <1>2 DEF Heading, Shape, SegmentFields
<1>4. IsSeq(t.seeks) /\ Len(t.seeks) = n + 1
  <2>1. PICK q : q = u.seeks
    OBVIOUS
  <2>2. IsSeq(q) /\ t.seeks = Append(q, e) /\ Len(q) = n
    BY <1>3, <2>1 DEF Heading
  <2>3. IsSeq(Append(q, e)) /\ Len(Append(q, e)) = Len(q) + 1
    BY <2>2, AppendIsSeq
  <2>. QED BY <2>2, <2>3
<1>5. /\ t.file = u.file /\ t.clusters = u.clusters /\ t.tracks = u.tracks /\ t.frames = u.frames
      /\ t.queued = u.queued /\ t.force = u.force /\ t.ok = u.ok /\ t.last = u.last
      /\ t.written = u.written
  BY <1>3 DEF SegmentFields
<1>6. Shape(t)
  BY <1>3, <1>5 DEF Heading, Shape
<1>7. Heading(s, t, n + 1)
  BY <1>4, <1>5, <1>6 DEF Heading
<1>. QED BY <1>1, <1>2, <1>5, <1>7

\* t is u with some of the fields changed that nothing here depends on.
Marked(u, t) ==
  /\ t = [x \in SegmentFields |-> t[x]]
  /\ \A x \in SegmentFields \ {"payload", "cuesTrack", "written"} : t[x] = u[x]

LEMMA SetHeads ==
  ASSUME NEW s, NEW u, NEW n, Heading(s, u, n), NEW t, Marked(u, t)
  PROVE  Heading(s, t, n)
<1>1. /\ t.file = u.file /\ t.seeks = u.seeks /\ t.clusters = u.clusters /\ t.tracks = u.tracks
      /\ t.frames = u.frames /\ t.queued = u.queued /\ t.force = u.force /\ t.ok = u.ok
      /\ t.last = u.last
  BY DEF Marked, SegmentFields
<1>2. Shape(t)
  BY <1>1 DEF Marked, Heading, Shape
<1>. QED BY <1>1, <1>2 DEF Heading

\* The header leaves clusters and queue alone, and its seek entries find place.
LEMMA HeaderKeeps ==
  ASSUME NEW s, Shape(s), ~s.written => s.seeks = << >>, NEW t, t = CheckHeaderInfo(s)
  PROVE  /\ Shape(t) /\ t.written
         /\ t.tracks = s.tracks /\ t.frames = s.frames /\ t.queued = s.queued /\ t.force = s.force
         /\ t.clusters = s.clusters /\ t.ok = s.ok /\ t.last = s.last
<1>1. CASE s.written
  BY <1>1 DEF CheckHeaderInfo
<1>2. CASE ~s.written
  <2>1. Heading(s, s, 0)
    <3>1. << >> \in Seq({}) /\ Len(<< >>) = 0
      OBVIOUS
    <3>. QED BY <1>2, <3>1 DEF Heading, IsSeq
  <2>2. PICK a : a = Start(PutHead(s))
    OBVIOUS
  <2>3. Heading(s, a, 0)
    <3>1. PICK b : b = PutHead(s)
      OBVIOUS
    <3>2. Heading(s, b, 0)
      BY <2>1, <3>1, PutHeads DEF PutHead, PutMaster
    <3>3. Marked(b, a)
      BY <2>2, <3>1, <3>2 DEF Start, Marked, Heading, Shape, SegmentFields
    <3>. QED BY <3>2, <3>3, SetHeads
  <2>4. PICK b : b = PutVoid(a)
    OBVIOUS
  <2>5. Heading(s, b, 0)
    BY <2>3, <2>4, PutHeads DEF PutVoid
  <2>6. PICK c : c = PutInfo(AddSeekEntry(b, "Info"))
    OBVIOUS
  <2>7. Heading(s, c, 1)
    <3>1. Heading(s, AddSeekEntry(b, "Info"), 1)
      BY <2>5, SeekHeads
    <3>. QED BY <2>6, <3>1, PutHeads DEF PutInfo, PutMaster
  <2>8. PICK d : d = PutTracks(AddSeekEntry(c, "Tracks"))
    OBVIOUS
  <2>9. Heading(s, d, 2)
    <3>1. Heading(s, AddSeekEntry(c, "Tracks"), 2)
      BY <2>7, SeekHeads
    <3>. QED BY <2>8, <3>1, PutHeads DEF PutTracks, PutMaster
  <2>10. PICK e : e = PutTags(d)
    OBVIOUS
  <2>11. PICK n \in 2..3 : Heading(s, e, n)
    <3>1. CASE d.tags
      <4>1. Heading(s, AddSeekEntry(d, "Tags"), 3)
        BY <2>9, SeekHeads
      <4>2. Heading(s, e, 3)
        BY <2>10, <3>1, <4>1, PutHeads DEF PutTags, PutMaster
      <4>. QED BY <4>2
    <3>2. CASE ~d.tags
      BY <2>9, <2>10, <3>2 DEF PutTags
    <3>. QED BY <3>1, <3>2
  <2>12. PICK f : f = [e EXCEPT !.written = TRUE]
    OBVIOUS
  <2>13. Heading(s, f, n) /\ f.written
    <3>1. Marked(e, f) /\ f.written
      BY <2>11, <2>12 DEF Marked, Heading, Shape, SegmentFields
    <3>. QED BY <2>11, <3>1, SetHeads
  <2>14. WriteSegmentHeader(s) = f
    BY <2>2, <2>4, <2>6, <2>8, <2>10, <2>12 DEF WriteSegmentHeader
  <2>15. PICK g : g = AddSeekEntry(f, "Cluster")
    OBVIOUS
  <2>16. Heading(s, g, n + 1) /\ g.written
    <3>1. g.written
      BY <2>11, <2>13, <2>15, SeekHeads
    <3>. QED BY <2>11, <2>13, <2>15, <3>1, SeekHeads
  <2>17. t = [g EXCEPT !.cuesTrack = CuesTrack(g)]
    BY <1>2, <2>14, <2>15 DEF CheckHeaderInfo
  <2>18. PICK k : k = n + 1
    OBVIOUS
  <2>19. PICK y : y = CuesTrack(g)
    OBVIOUS
  <2>20. Heading(s, t, k) /\ t.written
    <3>1. Heading(s, g, k) /\ t = [g EXCEPT !.cuesTrack = y]
      BY <2>16, <2>17, <2>18, <2>19
    <3>2. Marked(g, t) /\ t.written = g.written
      BY <3>1 DEF Marked, Heading, Shape, SegmentFields
    <3>3. Heading(s, t, k)
      BY <3>1, <3>2, SetHeads
    <3>. QED BY <2>16, <3>2, <3>3
  <2>. QED BY <2>20 DEF Heading
<1>. QED BY <1>1, <1>2

-----------------------------------------------------------------------------
(* A block is written *)

\* The current cluster can take a block.
Ready(s) ==
  /\ Shape(s) /\ s.clusters # << >>
  /\ Current(s) = [x \in ClusterFields |-> Current(s)[x]]
  /\ ~Current(s).finalized

\* t is s with something written to its current cluster.
Further(s, t) ==
  /\ Ready(t) /\ Current(t).timecode = Current(s).timecode
  /\ t.tracks = s.tracks /\ t.frames = s.frames /\ t.queued = s.queued /\ t.force = s.force
  /\ t.written = s.written

LEMMA CurrentIs ==
  ASSUME NEW s, NEW t, NEW q, NEW c, t.clusters = [q EXCEPT ![Len(q)] = c], IsSeq(q), q # << >>
  PROVE  IsSeq(t.clusters) /\ t.clusters # << >> /\ Current(t) = c /\ Len(t.clusters) = Len(q)
<1>1. PICK S : q \in Seq(S)
  BY DEF IsSeq
<1>2. Len(q) \in 1..Len(q)
  BY <1>1, EmptySeq
<1>3. IsSeq(t.clusters) /\ Len(t.clusters) = Len(q) /\ t.clusters[Len(q)] = c
  <2>1. Replaced(q, Len(q), c, t.clusters)
    BY DEF Replaced
  <2>. QED BY <1>2, <2>1, ReplaceIsSeq
<1>4. t.clusters # << >>
  BY <1>2, <1>3
<1>. QED BY <1>3, <1>4 DEF Current

ElementFields == {"id", "at", "head", "size", "len", "v"}
IsElement(e) == e = [x \in ElementFields |-> e[x]]

\* t is s with the head of the current cluster and its timecode behind what there was.
HeadPut(s, t) ==
  \E a, b :
    /\ IsElement(a) /\ a.id = "Cluster"
    /\ IsElement(b) /\ b.id = "Timecode" /\ b.v = Current(s).timecode
    /\ t.file = Append(Append(s.file, a), b)
    /\ Current(t).head = Len(s.file) + 1 /\ Len(s.file) \in Nat
    /\ t.seekable = s.seekable

LEMMA PutElement ==
  ASSUME NEW s, Shape(s), NEW id, NEW head, NEW size, NEW len, NEW v,
         NEW t, t = Put(s, id, head, size, len, v)
  PROVE  /\ \E e : IsElement(e) /\ e.id = id /\ e.v = v /\ t.file = Append(s.file, e)
         /\ t.seekable = s.seekable
<1>1. PICK e : e = Element(id, FileEnd(s.file), head, size, len, v)
  OBVIOUS
<1>2. IsElement(e) /\ e.id = id /\ e.v = v
  BY <1>1 DEF Element, IsElement, ElementFields
<1>3. t = [s EXCEPT !.file = Append(s.file, e)]
  BY <1>1 DEF Put
<1>4. t.file = Append(s.file, e) /\ t.seekable = s.seekable
  BY <1>3 DEF Shape, SegmentFields
<1>. QED BY <1>2, <1>4

LEMMA HeadWritten ==
  ASSUME NEW s, Ready(s), NEW t, t = WriteClusterHeader(s)
  PROVE  /\ Further(s, t) /\ t.ok = s.ok /\ t.last = s.last /\ Current(t).head # 0
         /\ HeadPut(s, t)
<1>1. PICK u : u = Put(s, "Cluster", 12, Unknown, 12, 0)
  OBVIOUS
<1>2. /\ Shape(u) /\ Same(s, u) /\ Len(s.file) \in Nat
      /\ u.clusters = s.clusters /\ u.ok = s.ok /\ u.last = s.last
  BY <1>1, PutKeeps DEF Ready
<1>3. PICK n : n = Len(s.clusters)
  OBVIOUS
<1>4. PICK h : h = Len(s.file) + 1
  OBVIOUS
<1>5. PICK p : p = UIntElementSize("Timecode", Current(s).timecode)
  OBVIOUS
<1>6. PICK v : v = [u EXCEPT !.clusters[n].head = h, !.clusters[n].payload = p]
  OBVIOUS
<1>7. t = Put(v, "Timecode", 2, p - 2, p, Current(s).timecode)
  BY <1>1, <1>3, <1>4, <1>5, <1>6 DEF WriteClusterHeader
<1>8. PICK c : c = [Current(s) EXCEPT !.head = h, !.payload = p]
  OBVIOUS
<1>9. v.clusters = [s.clusters EXCEPT ![n] = c]
  <2>1. n \in DOMAIN s.clusters
    <3>1. PICK S : s.clusters \in Seq(S)
      BY DEF Ready, Shape, IsSeq
    <3>. QED BY <1>3, <3>1, EmptySeq DEF Ready
  <2>2. v.clusters = [[u.clusters EXCEPT ![n] = [u.clusters[n] EXCEPT !.head = h]]
                        EXCEPT ![n] = [[u.clusters EXCEPT ![n] = [u.clusters[n] EXCEPT !.head = h]][n]
                                         EXCEPT !.payload = p]]
    BY <1>2, <1>6 DEF Shape, SegmentFields
  <2>. QED BY <1>2, <1>3, <1>8, <2>1, <2>2 DEF Current, Ready
<1>10. /\ v = [x \in SegmentFields |-> v[x]]
       /\ \A x \in SegmentFields \ {"clusters"} : v[x] = u[x]
  BY <1>2, <1>6 DEF Shape, SegmentFields
<1>11. IsSeq(v.clusters) /\ v.clusters # << >> /\ Current(v) = c
  <2>1. PICK q : q = s.clusters
    OBVIOUS
  <2>2. v.clusters = [q EXCEPT ![Len(q)] = c] /\ IsSeq(q) /\ q # << >>
    BY <1>3, <1>9, <2>1 DEF Ready, Shape
  <2>. QED BY <2>2, CurrentIs
<1>12. /\ v.file = u.file /\ v.ok = s.ok /\ v.last = s.last
       /\ v.tracks = s.tracks /\ v.frames = s.frames /\ v.queued = s.queued /\ v.force = s.force
       /\ v.written = s.written
  BY <1>2, <1>10 DEF Same, SegmentFields
<1>13. Shape(v)
  BY <1>2, <1>10, <1>11, <1>12 DEF Shape
<1>14. /\ Shape(t) /\ Same(v, t) /\ t.clusters = v.clusters /\ t.ok = v.ok /\ t.last = v.last
  BY <1>7, <1>13, PutKeeps
<1>15. /\ c = [x \in ClusterFields |-> c[x]] /\ c.head = h /\ c.timecode = Current(s).timecode
       /\ c.finalized = Current(s).finalized
  BY <1>8 DEF Ready, ClusterFields
<1>16. Current(t) = c
  BY <1>11, <1>14 DEF Current
<1>17. Ready(t)
  BY <1>11, <1>14, <1>15, <1>16 DEF Ready
<1>18. h # 0
  BY <1>2, <1>4
<1>19. HeadPut(s, t)
  <2>1. PICK a : IsElement(a) /\ a.id = "Cluster" /\ u.file = Append(s.file, a) /\ u.seekable = s.seekable
    BY <1>1, PutElement DEF Ready
  <2>2. PICK y : y = Current(s).timecode
    OBVIOUS
  <2>3. t = Put(v, "Timecode", 2, p - 2, p, y)
    BY <1>7, <2>2
  <2>4. PICK b : IsElement(b) /\ b.id = "Timecode" /\ b.v = y /\ t.file = Append(v.file, b) /\ t.seekable = v.seekable
    BY <1>13, <2>3, PutElement
  <2>5. v.seekable = u.seekable
    BY <1>10 DEF SegmentFields
  <2>6. t.file = Append(Append(s.file, a), b) /\ t.seekable = s.seekable
    BY <1>12, <2>1, <2>4, <2>5
  <2>7. Current(t).head = Len(s.file) + 1 /\ Len(s.file) \in Nat
    BY <1>2, <1>4, <1>15, <1>16
  <2>. QED BY <2>1, <2>2, <2>4, <2>6, <2>7 DEF HeadPut
<1>. QED BY <1>12, <1>14, <1>15, <1>16, <1>17, <1>18, <1>19 DEF Further, Same

LEMMA FrameWritten ==
  ASSUME NEW s, Ready(s), NEW f, NEW rel, NEW t, t = WriteFrame(s, f, rel)
  PROVE  Further(s, t) /\ t.ok = s.ok /\ t.last = s.last /\ Current(t) = Current(s)
<1>1. PICK id, head, size, len, v : t = Put(s, id, head, size, len, v)
  BY DEF WriteFrame, PutMaster
<1>2. Shape(t) /\ Same(s, t) /\ t.clusters = s.clusters /\ t.ok = s.ok /\ t.last = s.last
  BY <1>1, PutKeeps DEF Ready
<1>3. Current(t) = Current(s)
  BY <1>2 DEF Current
<1>. QED BY <1>2, <1>3 DEF Further, Ready, Same

\* A frame that is valid is written where the cluster reaches it.
LEMMA FrameAdded ==
  ASSUME NEW s, Ready(s), s.ok, NEW f, IsValid(f), NEW t, t = ClusterAddFrame(s, f)
  PROVE  IF f.time - Current(s).timecode \in 0..MaxBlockTimecode
         THEN Further(s, t) /\ t.ok /\ t.last = s.last /\ Current(t).head # 0
         ELSE ~t.ok
<1>1. PICK a : a = IF Current(s).head = 0 THEN WriteClusterHeader(s) ELSE s
  OBVIOUS
<1>2. Further(s, a) /\ a.ok /\ a.last = s.last /\ Current(a).head # 0
  <2>1. CASE Current(s).head = 0
    BY <1>1, <2>1, HeadWritten
  <2>2. CASE Current(s).head # 0
    BY <1>1, <2>2 DEF Further
  <2>. QED BY <2>1, <2>2
<1>3. PICK rel : rel = f.time - Current(s).timecode
  OBVIOUS
<1>4. PICK b : b = WriteFrame(a, f, rel)
  OBVIOUS
<1>5. Further(s, b) /\ b.ok /\ b.last = s.last /\ Current(b).head # 0
  <2>1. Further(a, b) /\ b.ok = a.ok /\ b.last = a.last /\ Current(b) = Current(a)
    <3>1. Ready(a)
      BY <1>2 DEF Further
    <3>. QED BY <1>4, <3>1, FrameWritten
  <2>. QED BY <1>2, <2>1 DEF Further
<1>6. PICK c : c = [Current(b) EXCEPT !.payload = Current(b).payload + Last(b.file).len,
                                      !.blocks = Current(b).blocks + 1]
  OBVIOUS
<1>7. t = IF rel \in 0..MaxBlockTimecode THEN SetCurrent(b, c) ELSE [a EXCEPT !.ok = FALSE]
  BY <1>1, <1>3, <1>4, <1>6 DEF ClusterAddFrame, Ready, Fail
<1>8. CASE rel \notin 0..MaxBlockTimecode
  <2>1. ~t.ok
    BY <1>2, <1>7, <1>8 DEF Further, Ready, Shape, SegmentFields
  <2>. QED BY <1>3, <1>8, <2>1
<1>9. CASE rel \in 0..MaxBlockTimecode
  <2>1. t = [b EXCEPT !.clusters[Len(b.clusters)] = c]
    BY <1>7, <1>9 DEF SetCurrent
  <2>2. /\ t = [x \in SegmentFields |-> t[x]] /\ t.clusters = [b.clusters EXCEPT ![Len(b.clusters)] = c]
        /\ \A x \in SegmentFields \ {"clusters"} : t[x] = b[x]
    BY <1>5, <2>1 DEF Further, Ready, Shape, SegmentFields
  <2>3. IsSeq(t.clusters) /\ t.clusters # << >> /\ Current(t) = c
    <3>1. PICK q : q = b.clusters
      OBVIOUS
    <3>2. t.clusters = [q EXCEPT ![Len(q)] = c] /\ IsSeq(q) /\ q # << >>
      BY <1>5, <2>2, <3>1 DEF Further, Ready, Shape
    <3>. QED BY <3>2, CurrentIs
  <2>4. /\ c = [x \in ClusterFields |-> c[x]] /\ c.head = Current(b).head
        /\ c.timecode = Current(b).timecode /\ c.finalized = Current(b).finalized
    BY <1>5, <1>6 DEF Further, Ready, ClusterFields
  <2>5. /\ t.file = b.file /\ t.ok = b.ok /\ t.last = b.last /\ t.tracks = b.tracks
        /\ t.frames = b.frames /\ t.queued = b.queued /\ t.force = b.force /\ t.written = b.written
    BY <2>2 DEF SegmentFields
  <2>6. Ready(t)
    BY <1>5, <2>2, <2>3, <2>4, <2>5 DEF Further, Ready, Shape
  <2>7. Further(s, t)
    BY <1>5, <2>3, <2>4, <2>5, <2>6 DEF Further
  <2>. QED BY <1>3, <1>5, <1>9, <2>3, <2>4, <2>5, <2>7
<1>. QED BY <1>8, <1>9

\* t is s with a few fields changed that say nothing of the cluster and the queue.
Alike(s, t) ==
  /\ t = [x \in SegmentFields |-> t[x]]
  /\ t.file = s.file /\ t.clusters = s.clusters /\ t.tracks = s.tracks /\ t.frames = s.frames
  /\ t.queued = s.queued /\ t.force = s.force /\ t.written = s.written

LEMMA FurtherSet ==
  ASSUME NEW s, NEW t, Ready(s), Alike(s, t)
  PROVE  Further(s, t) /\ Current(t) = Current(s)
<1>1. Current(t) = Current(s)
  BY DEF Alike, Current
<1>. QED BY <1>1 DEF Alike, Further, Ready, Shape

LEMMA WrittenIs ==
  ASSUME NEW s, Ready(s), s.ok, NEW f, IsValid(f), NEW t, t = Written(s, f)
  PROVE  IF f.time - Current(s).timecode \in 0..MaxBlockTimecode
         THEN Further(s, t) /\ t.ok /\ t.last = s.last /\ Current(t).head # 0
         ELSE ~t.ok
<1>1. PICK a : a = ClusterAddFrame(s, f)
  OBVIOUS
<1>2. t = IF a.ok THEN AddCuePoint(a, f) ELSE a
  BY <1>1 DEF Written, Then
<1>3. CASE ~(f.time - Current(s).timecode \in 0..MaxBlockTimecode)
  BY <1>1, <1>2, <1>3, FrameAdded
<1>4. CASE f.time - Current(s).timecode \in 0..MaxBlockTimecode
  <2>1. Further(s, a) /\ a.ok /\ a.last = s.last /\ Current(a).head # 0
    BY <1>1, <1>4, FrameAdded
  <2>2. PICK cues : t = a \/ t = [a EXCEPT !.newCue = FALSE, !.cues = cues]
    BY <1>2, <2>1 DEF AddCuePoint
  <2>3. CASE t = a
    BY <1>4, <2>1, <2>3
  <2>4. CASE t = [a EXCEPT !.newCue = FALSE, !.cues = cues]
    <3>1. /\ t = [x \in SegmentFields |-> t[x]]
          /\ \A x \in SegmentFields \ {"newCue", "cues"} : t[x] = a[x]
      BY <2>1, <2>4 DEF Further, Ready, Shape, SegmentFields
    <3>2. /\ t.file = a.file /\ t.clusters = a.clusters /\ t.ok = a.ok /\ t.last = a.last
          /\ t.tracks = a.tracks /\ t.frames = a.frames /\ t.queued = a.queued /\ t.force = a.force
          /\ t.written = a.written
      BY <3>1 DEF SegmentFields
    <3>3. Further(a, t) /\ Current(t) = Current(a)
      <4>1. Alike(a, t) /\ Ready(a)
        BY <2>1, <3>1, <3>2 DEF Alike, Further
      <4>. QED BY <4>1, FurtherSet
    <3>. QED BY <1>4, <2>1, <3>2, <3>3 DEF Further
  <2>. QED BY <2>2, <2>3, <2>4
<1>. QED BY <1>3, <1>4

LEMMA QueuedIs ==
  ASSUME NEW s, Ready(s), s.ok, s.last \in Nat, NEW f, IsValid(f), f.time \in Nat,
         NEW t, t = WriteQueued(s, f)
  PROVE  IF f.time - Current(s).timecode \in 0..MaxBlockTimecode
         THEN Further(s, t) /\ t.ok /\ Current(t).head # 0 /\ t.last \in {s.last, f.time}
         ELSE ~t.ok
<1>1. PICK a : a = Written(s, f)
  OBVIOUS
<1>2. IF f.time - Current(s).timecode \in 0..MaxBlockTimecode
      THEN Further(s, a) /\ a.ok /\ a.last = s.last /\ Current(a).head # 0
      ELSE ~a.ok
  BY <1>1, WrittenIs
<1>3. t = IF a.ok /\ f.time > a.last THEN [a EXCEPT !.last = f.time, !.lastOf[f.track] = f.time] ELSE a
  BY <1>1 DEF WriteQueued, Then
<1>4. CASE ~(a.ok /\ f.time > a.last)
  BY <1>2, <1>3, <1>4
<1>5. CASE a.ok /\ f.time > a.last
  <2>1. PICK m : m = [a.lastOf EXCEPT ![f.track] = f.time]
    OBVIOUS
  <2>0. Further(s, a) /\ a.last = s.last /\ Current(a).head # 0 /\ Ready(a)
        /\ f.time - Current(s).timecode \in 0..MaxBlockTimecode
    BY <1>2, <1>5 DEF Further
  <2>2. t = [a EXCEPT !.last = f.time, !.lastOf = m]
    BY <1>3, <1>5, <2>0, <2>1 DEF Ready, Shape, SegmentFields
  <2>3. /\ t = [x \in SegmentFields |-> t[x]] /\ t.last = f.time
        /\ \A x \in SegmentFields \ {"last", "lastOf"} : t[x] = a[x]
    BY <2>0, <2>2 DEF Ready, Shape, SegmentFields
  <2>4. /\ t.file = a.file /\ t.clusters = a.clusters /\ t.ok = a.ok
        /\ t.tracks = a.tracks /\ t.frames = a.frames /\ t.queued = a.queued /\ t.force = a.force
        /\ t.written = a.written
    BY <2>3 DEF SegmentFields
  <2>5. Further(a, t) /\ Current(t) = Current(a)
    <3>1. Alike(a, t)
      BY <2>3, <2>4 DEF Alike
    <3>. QED BY <2>0, <3>1, FurtherSet
  <2>. QED BY <1>5, <2>0, <2>3, <2>4, <2>5 DEF Further
<1>. QED BY <1>4, <1>5

\* The queue as WriteFirst goes through it.
Steps(s, n, w) == w = [i \in 0..n |-> IF i = 0 THEN s ELSE WriteQueued(w[i - 1], s.frames[i])]

\* A set of numbers has a least one: the least that is not as it should be is
\* where an induction over the queue would fail.
LEMMA LeastNatural ==
  ASSUME NEW T, T \subseteq Nat, T # {}
  PROVE  \E m \in T : \A k \in T : m <= k
<1>1. IsWellFoundedOn(OpToRel(<, Nat), Nat)
  BY NatLessThanWellFounded
<1>2. PICK m \in T : \A k \in T : <<k, m>> \notin OpToRel(<, Nat)
  BY <1>1, WFMin
<1>3. \A k \in T : ~ (k < m)
  BY <1>2 DEF OpToRel
<1>4. \A k \in T : m <= k
  <2>1. m \in Nat /\ \A k \in T : k \in Nat
    OBVIOUS
  <2>. QED BY <1>3, <2>1
<1>. QED BY <1>4

LEMMA StepsExist == ASSUME NEW s, NEW n \in Nat PROVE \E w : Steps(s, n, w)
<1>. DEFINE Bad == {m \in Nat : ~\E w : Steps(s, m, w)}
<1>. SUFFICES ASSUME Bad # {} PROVE FALSE
  OBVIOUS
<1>1. PICK m \in Bad : \A k \in Bad : m <= k
  BY LeastNatural
<1>2. m # 0
  <2>1. Steps(s, 0, [i \in {0} |-> s])
    BY DEF Steps
  <2>. QED BY <2>1
<1>3. m - 1 \in Nat /\ m - 1 \notin Bad
  BY <1>1, <1>2
<1>4. PICK w : Steps(s, m - 1, w)
  BY <1>3
<1>. DEFINE v == [i \in 0..m |-> IF i = m THEN WriteQueued(w[m - 1], s.frames[m]) ELSE w[i]]
<1>5. Steps(s, m, v)
  <2>1. ASSUME NEW i \in 0..m PROVE v[i] = IF i = 0 THEN s ELSE WriteQueued(v[i - 1], s.frames[i])
    <3>1. CASE i = m
      <4>1. m - 1 \in 0..m /\ m - 1 # m /\ m \in 0..m
        BY <1>3
      <4>2. v[m - 1] = w[m - 1]
        BY <4>1
      <4>. QED BY <1>2, <3>1, <4>1, <4>2
    <3>2. CASE i # m
      <4>1. i \in 0..(m - 1) /\ (i # 0 => i - 1 \in 0..m /\ i - 1 # m)
        BY <1>3, <3>2
      <4>2. w[i] = IF i = 0 THEN s ELSE WriteQueued(w[i - 1], s.frames[i])
        BY <1>4, <4>1 DEF Steps
      <4>. QED BY <3>2, <4>1, <4>2
    <3>. QED BY <3>1, <3>2
  <2>. HIDE DEF v
  <2>2. v = [i \in 0..m |-> v[i]]
    BY DEF v
  <2>. QED BY <2>1, <2>2 DEF Steps
<1>. QED BY <1>1, <1>5

LEMMA WriteFirstSteps ==
  ASSUME NEW s, NEW n \in Nat
  PROVE  \E w : /\ w[0] = s
                /\ \A i \in 1..n : w[i] = WriteQueued(w[i - 1], s.frames[i])
                /\ WriteFirst(s, n) = IF w[n].ok
                                      THEN [w[n] EXCEPT !.frames = SubSeq(w[n].frames, n + 1, Len(w[n].frames))]
                                      ELSE w[n]
<1>1. PICK w : w = CHOOSE v : Steps(s, n, v)
  OBVIOUS
<1>2. Steps(s, n, w)
  BY <1>1, StepsExist
<1>3. WriteFirst(s, n) = IF w[n].ok
                         THEN [w[n] EXCEPT !.frames = SubSeq(w[n].frames, n + 1, Len(w[n].frames))]
                         ELSE w[n]
  BY <1>1 DEF WriteFirst, Then, Steps
<1>4. w[0] = s /\ \A i \in 1..n : w[i] = WriteQueued(w[i - 1], s.frames[i])
  BY <1>2 DEF Steps
<1>. QED BY <1>3, <1>4

\* The first frames of the queue can be written, and none is after m; they are in
\* reach of the cluster.
Sound(s, n, m) ==
  \A i \in 1..n : IsValid(s.frames[i]) /\ s.frames[i].time \in Nat /\ s.frames[i].time <= m
Reached(s, n) == \A i \in 1..n : s.frames[i].time - Current(s).timecode \in 0..MaxBlockTimecode

\* It does not fail on frames in reach, and what it leaves is the rest of them.
LEMMA WriteFirstIs ==
  ASSUME NEW s, Ready(s), s.ok, NEW n \in Nat, NEW m \in Nat, s.last \in Nat, s.last <= m, Sound(s, n, m),
         NEW t, t = WriteFirst(s, n)
  PROVE  /\ Reached(s, n) => t.ok
         /\ t.ok => /\ Ready(t) /\ Current(t).timecode = Current(s).timecode
                    /\ t.tracks = s.tracks /\ t.queued = s.queued /\ t.force = s.force
                    /\ t.written = s.written /\ t.last \in Nat /\ t.last <= m
                    /\ t.frames = SubSeq(s.frames, n + 1, Len(s.frames))
                    /\ n > 0 \/ Current(s).head # 0 => Current(t).head # 0
<1>1. PICK w : /\ w[0] = s
               /\ \A i \in 1..n : w[i] = WriteQueued(w[i - 1], s.frames[i])
               /\ t = IF w[n].ok
                      THEN [w[n] EXCEPT !.frames = SubSeq(w[n].frames, n + 1, Len(w[n].frames))]
                      ELSE w[n]
  BY WriteFirstSteps
<1>. DEFINE Fine(i) ==
              /\ Reached(s, i) => w[i].ok
              /\ w[i].ok => /\ Further(s, w[i]) /\ w[i].last \in Nat /\ w[i].last <= m
                            /\ i > 0 \/ Current(s).head # 0 => Current(w[i]).head # 0
            Bad == {i \in 0..n : ~Fine(i)}
<1>2. Fine(0)
  BY <1>1 DEF Further
<1>3. ASSUME NEW i \in 1..n, Fine(i - 1) PROVE Fine(i)
  <2>1. PICK a : a = w[i - 1]
    OBVIOUS
  <2>2. PICK f : f = s.frames[i]
    OBVIOUS
  <2>3. PICK b : b = w[i]
    OBVIOUS
  <2>4. b = WriteQueued(a, f)
    BY <1>1, <2>1, <2>2, <2>3
  <2>5. Reached(s, i) => Reached(s, i - 1) /\ f.time - Current(s).timecode \in 0..MaxBlockTimecode
    BY <2>2 DEF Reached
  <2>6. CASE ~a.ok
    <3>1. b = a
      BY <2>4, <2>6 DEF WriteQueued, Written, Then
    <3>. QED BY <1>3, <2>1, <2>3, <2>5, <2>6, <3>1
  <2>7. CASE a.ok
    <3>1. Further(s, a) /\ a.last \in Nat /\ a.last <= m
      BY <1>3, <2>1, <2>7
    <3>2. Ready(a) /\ Current(a).timecode = Current(s).timecode
      BY <3>1 DEF Further
    <3>3. IsValid(f) /\ f.time \in Nat /\ f.time <= m
      BY <2>2 DEF Sound
    <3>4. IF f.time - Current(a).timecode \in 0..MaxBlockTimecode
          THEN Further(a, b) /\ b.ok /\ Current(b).head # 0 /\ b.last \in {a.last, f.time}
          ELSE ~b.ok
      BY <2>4, <2>7, <3>1, <3>2, <3>3, QueuedIs
    <3>5. b.ok => Further(s, b) /\ b.last \in Nat /\ b.last <= m /\ Current(b).head # 0
      BY <3>1, <3>3, <3>4 DEF Further
    <3>6. Reached(s, i) => b.ok
      BY <2>5, <3>2, <3>4
    <3>. QED BY <2>3, <3>5, <3>6
  <2>. QED BY <2>6, <2>7
<1>. HIDE DEF Fine
<1>4. Bad = {}
  <2>. SUFFICES ASSUME Bad # {} PROVE FALSE
    OBVIOUS
  <2>0. Bad \subseteq Nat
    OBVIOUS
  <2>1. PICK i \in Bad : \A k \in Bad : i <= k
    <3>. HIDE DEF Bad
    <3>. QED BY <2>0, LeastNatural
  <2>2. i \in 1..n /\ i - 1 \in 0..n /\ i - 1 \notin Bad
    BY <1>2, <2>1
  <2>. QED BY <1>3, <2>1, <2>2
<1>5. Fine(n)
  BY <1>4
<1>6. PICK a : a = w[n]
  OBVIOUS
<1>7. CASE ~a.ok
  <2>1. t = a /\ (Reached(s, n) => a.ok)
    BY <1>1, <1>5, <1>6, <1>7 DEF Fine
  <2>. QED BY <1>7, <2>1
<1>8. CASE a.ok
  <2>1. /\ Further(s, a) /\ a.last \in Nat /\ a.last <= m
        /\ n > 0 \/ Current(s).head # 0 => Current(a).head # 0
    BY <1>5, <1>6, <1>8 DEF Fine
  <2>2. PICK q : q = SubSeq(a.frames, n + 1, Len(a.frames))
    OBVIOUS
  <2>3. t = [a EXCEPT !.frames = q]
    BY <1>1, <1>6, <1>8, <2>2
  <2>4. /\ t = [x \in SegmentFields |-> t[x]] /\ t.frames = q
        /\ \A x \in SegmentFields \ {"frames"} : t[x] = a[x]
    BY <2>1, <2>3 DEF Further, Ready, Shape, SegmentFields
  <2>5. /\ t.file = a.file /\ t.clusters = a.clusters /\ t.tracks = a.tracks /\ t.queued = a.queued
        /\ t.force = a.force /\ t.written = a.written /\ t.ok = a.ok /\ t.last = a.last
    BY <2>4 DEF SegmentFields
  <2>6. Current(t) = Current(a)
    BY <2>5 DEF Current
  <2>7. Ready(t)
    BY <2>1, <2>4, <2>5, <2>6 DEF Further, Ready, Shape
  <2>. QED BY <1>8, <2>1, <2>2, <2>4, <2>5, <2>6, <2>7 DEF Further
<1>. QED BY <1>7, <1>8

-----------------------------------------------------------------------------
(* A cluster ends and another one begins *)

\* t is s but for its clusters and what was written.
Around(s, t) ==
  /\ Shape(t) /\ t.ok = s.ok /\ t.last = s.last /\ t.tracks = s.tracks /\ t.frames = s.frames
  /\ t.queued = s.queued /\ t.force = s.force /\ t.written = s.written

LEMMA FinalizeIs ==
  ASSUME NEW s, Ready(s), s.ok, Current(s).head # 0, NEW t, t = FinalizeCurrent(s)
  PROVE  Around(s, t)
<1>1. PICK c : c = Current(s)
  OBVIOUS
<1>2. PICK a : a = SetCurrent(s, [c EXCEPT !.finalized = TRUE])
  OBVIOUS
<1>3. t = IF s.seekable THEN [a EXCEPT !.file[c.head].size = c.payload] ELSE a
  BY <1>1, <1>2 DEF FinalizeCurrent, FinalizeCluster, Ready
<1>4. PICK q : q = s.clusters
  OBVIOUS
<1>5. PICK d : d = [c EXCEPT !.finalized = TRUE]
  OBVIOUS
<1>6. /\ a = [x \in SegmentFields |-> a[x]] /\ a.clusters = [q EXCEPT ![Len(q)] = d]
      /\ \A x \in SegmentFields \ {"clusters"} : a[x] = s[x]
  BY <1>2, <1>4, <1>5 DEF SetCurrent, Ready, Shape, SegmentFields
<1>7. IsSeq(a.clusters)
  <2>1. a.clusters = [q EXCEPT ![Len(q)] = d] /\ IsSeq(q) /\ q # << >>
    BY <1>4, <1>6 DEF Ready, Shape
  <2>. QED BY <2>1, CurrentIs
<1>8. /\ a.file = s.file /\ a.ok = s.ok /\ a.last = s.last /\ a.tracks = s.tracks /\ a.frames = s.frames
      /\ a.queued = s.queued /\ a.force = s.force /\ a.written = s.written
  BY <1>6 DEF SegmentFields
<1>9. Around(s, a)
  BY <1>6, <1>7, <1>8 DEF Around, Ready, Shape
<1>10. CASE ~s.seekable
  BY <1>3, <1>9, <1>10
<1>11. CASE s.seekable
  <2>1. PICK e : e = [a.file[c.head] EXCEPT !.size = c.payload]
    OBVIOUS
  <2>2. PICK r : r = [a.file EXCEPT ![c.head] = e]
    OBVIOUS
  <2>3. /\ t = [x \in SegmentFields |-> t[x]] /\ t.file = r
        /\ \A x \in SegmentFields \ {"file"} : t[x] = a[x]
    BY <1>3, <1>6, <1>11, <2>1, <2>2 DEF SegmentFields
  <2>4. IsSeq(t.file)
    <3>1. PICK g : g = a.file
      OBVIOUS
    <3>2. PICK h : h = c.head
      OBVIOUS
    <3>3. IsSeq(g) /\ Replaced(g, h, e, r)
      BY <1>9, <2>2, <3>1, <3>2 DEF Around, Shape, Replaced
    <3>. QED BY <2>3, <3>3, ReplaceIsSeq
  <2>5. /\ t.clusters = a.clusters /\ t.ok = a.ok /\ t.last = a.last /\ t.tracks = a.tracks
        /\ t.frames = a.frames /\ t.queued = a.queued /\ t.force = a.force /\ t.written = a.written
    BY <2>3 DEF SegmentFields
  <2>. QED BY <1>9, <2>3, <2>4, <2>5 DEF Around, Shape
<1>. QED BY <1>10, <1>11

LEMMA ClusterAdded ==
  ASSUME NEW s, Shape(s), NEW timecode, NEW t, t = AddCluster(s, timecode)
  PROVE  Around(s, t) /\ Ready(t) /\ Current(t).timecode = timecode
<1>1. PICK c : c = NewCluster(timecode, MaxOffset(s))
  OBVIOUS
<1>2. /\ t = [x \in SegmentFields |-> t[x]] /\ t.clusters = Append(s.clusters, c)
      /\ \A x \in SegmentFields \ {"newCue", "clusters"} : t[x] = s[x]
  BY <1>1 DEF AddCluster, Shape, SegmentFields
<1>3. IsSeq(t.clusters) /\ t.clusters # << >> /\ Current(t) = c
  <2>1. PICK q : q = s.clusters
    OBVIOUS
  <2>2. PICK r : r = t.clusters
    OBVIOUS
  <2>3. IsSeq(q) /\ r = Append(q, c)
    BY <1>2, <2>1, <2>2 DEF Shape
  <2>4. IsSeq(r) /\ r # << >> /\ r[Len(r)] = c
    BY <2>3, AppendIsSeq
  <2>. QED BY <2>2, <2>4 DEF Current
<1>4. /\ t.file = s.file /\ t.ok = s.ok /\ t.last = s.last /\ t.tracks = s.tracks /\ t.frames = s.frames
      /\ t.queued = s.queued /\ t.force = s.force /\ t.written = s.written
  BY <1>2 DEF SegmentFields
<1>5. c = [x \in ClusterFields |-> c[x]] /\ ~c.finalized /\ c.timecode = timecode
  BY <1>1 DEF NewCluster, ClusterFields
<1>. QED BY <1>2, <1>3, <1>4, <1>5 DEF Around, Ready, Shape

-----------------------------------------------------------------------------
(* The frames that wait *)

\* In the order of their times, and none after m.
Waiting(q, m) ==
  /\ IsSeq(q)
  /\ \A i \in 1..Len(q) : IsValid(q[i]) /\ q[i].time \in Nat /\ q[i].time <= m
  /\ \A i, j \in 1..Len(q) : i <= j => q[i].time <= q[j].time

LEMMA LenIsNatural ==
  ASSUME NEW q, IsSeq(q)
  PROVE  Len(q) \in Nat /\ (q = << >> <=> Len(q) = 0) /\ (q # << >> => Head(q) = q[1])
<1>1. PICK S : q \in Seq(S)
  BY DEF IsSeq
<1>2. Len(q) \in Nat /\ (q = << >> <=> Len(q) = 0)
  BY <1>1, EmptySeq
<1>3. q # << >> => Head(q) = q[1]
  BY <1>1
<1>. QED BY <1>2, <1>3

\* All but the last one are followed by one that is not too late.
LEMMA FollowedIs ==
  ASSUME NEW s, NEW m \in Nat, Waiting(s.frames, m), NEW time \in Nat, m <= time
  PROVE  Followed(s, time) = IF s.frames = << >> THEN 0 ELSE Len(s.frames) - 1
<1>1. PICK n : n = Len(s.frames)
  OBVIOUS
<1>2. n \in Nat /\ (s.frames = << >> <=> n = 0)
  BY <1>1, LenIsNatural DEF Waiting
<1>3. {i \in 2..n : s.frames[i].time <= time} = 2..n
  <2>1. ASSUME NEW i \in 2..n PROVE s.frames[i].time <= time
    BY <1>1, <1>2 DEF Waiting
  <2>. QED BY <2>1
<1>4. Cardinality(2..n) = IF 2 > n THEN 0 ELSE n - 2 + 1
  BY <1>2, FS_Interval
<1>5. Followed(s, time) = Cardinality(2..n)
  BY <1>1, <1>3 DEF Followed
<1>. QED BY <1>1, <1>2, <1>4, <1>5

LEMMA LastIsLeft ==
  ASSUME NEW q, NEW m, Waiting(q, m), q # << >>, NEW n, n = Len(q) - 1, NEW r, r = SubSeq(q, n + 1, Len(q))
  PROVE  Waiting(r, m) /\ r # << >> /\ r[1] = Last(q)
<1>1. PICK k : k = Len(q)
  OBVIOUS
<1>2. PICK S : q \in Seq(S)
  BY DEF Waiting, IsSeq
<1>3. k \in Nat /\ k # 0 /\ n + 1 = k
  BY <1>1, LenIsNatural DEF Waiting
<1>4. \A i \in k..k : q[i] \in S
  BY <1>1, <1>2, <1>3
<1>5. r = SubSeq(q, k, k)
  BY <1>1, <1>3
<1>6. r \in Seq(S) /\ Len(r) = 1 /\ r[1] = q[k]
  BY <1>3, <1>4, <1>5, SubSeqProperties
<1>7. IsSeq(r) /\ r # << >>
  BY <1>6, EmptySeq DEF IsSeq
<1>8. IsValid(q[k]) /\ q[k].time \in Nat /\ q[k].time <= m
  BY <1>1, <1>3 DEF Waiting
<1>. QED BY <1>1, <1>6, <1>7, <1>8 DEF Waiting, Last

LEMMA NoneIsLeft ==
  ASSUME NEW q, IsSeq(q), NEW r, r = SubSeq(q, Len(q) + 1, Len(q))
  PROVE  r = << >>
<1>1. PICK n : n = Len(q)
  OBVIOUS
<1>2. n \in Nat
  BY <1>1, LenIsNatural
<1>3. SubSeq(q, n + 1, n) = << >>
  BY <1>2, SubSeqEmpty
<1>. QED BY <1>1, <1>3

LEMMA NoneWaits == ASSUME NEW m PROVE Waiting(<< >>, m)
<1>1. << >> \in Seq({}) /\ Len(<< >>) = 0
  OBVIOUS
<1>. QED BY <1>1 DEF Waiting, IsSeq

-----------------------------------------------------------------------------
(* The muxer between two frames, the later of which was at m *)

Running(s) ==
  /\ Ready(s) /\ Current(s).head # 0 /\ Current(s).timecode \in Nat
  /\ Reached(s, Len(s.frames))

Held(s, m) ==
  /\ Shape(s) /\ s.ok /\ s.last \in Nat /\ s.last <= m /\ s.force = FALSE
  /\ ~s.written => s.seeks = << >>
  /\ Waiting(s.frames, m) /\ (s.frames # << >> => s.queued)
  /\ s.clusters # << >> => Running(s) /\ Current(s).timecode <= m

Foremost(s) == IF s.clusters = << >> THEN s.frames[1] ELSE Last(s.frames)

\* a is s with what is written before a new cluster begins.
Left(s, m, a) ==
  /\ Shape(a) /\ a.ok /\ a.last \in Nat /\ a.last <= m
  /\ a.tracks = s.tracks /\ a.queued = s.queued /\ a.force = s.force /\ a.written = s.written
  /\ Waiting(a.frames, m)
  /\ a.frames = << >> <=> s.frames = << >>
  /\ a.frames # << >> => a.frames[1] = Foremost(s)

LEMMA LessThanIs ==
  ASSUME NEW s, NEW m \in Nat, Held(s, m), NEW time \in Nat, m <= time,
         NEW a, a = WriteFramesLessThan(s, time)
  PROVE  /\ Left(s, m, a)
         /\ IF s.clusters = << >> THEN a = s ELSE Ready(a) /\ Current(a).head # 0 /\ a.clusters # << >>
<1>1. CASE s.clusters = << >>
  <2>1. a = s
    BY <1>1 DEF WriteFramesLessThan
  <2>. QED BY <1>1, <2>1 DEF Held, Left, Foremost
<1>2. CASE s.clusters # << >>
  <2>1. PICK n : n = Followed(s, time)
    OBVIOUS
  <2>2. PICK k : k = Len(s.frames)
    OBVIOUS
  <2>3. /\ k \in Nat /\ (s.frames = << >> <=> k = 0) /\ n \in Nat /\ n <= k
        /\ n = IF s.frames = << >> THEN 0 ELSE k - 1
    <3>1. n = IF s.frames = << >> THEN 0 ELSE k - 1
      BY <2>1, <2>2, FollowedIs DEF Held
    <3>2. k \in Nat /\ (s.frames = << >> <=> k = 0)
      BY <2>2, LenIsNatural DEF Held, Waiting
    <3>. QED BY <3>1, <3>2
  <2>4. a = WriteFirst(s, n)
    BY <1>2, <2>1 DEF WriteFramesLessThan
  <2>5. /\ Ready(s) /\ s.ok /\ s.last \in Nat /\ s.last <= m /\ Reached(s, n) /\ Sound(s, n, m)
        /\ Current(s).head # 0
    <3>1. Reached(s, n) /\ Sound(s, n, m)
      <4>1. \A i \in 1..n : i \in 1..k
        BY <2>3
      <4>. QED BY <1>2, <2>2, <4>1 DEF Held, Running, Reached, Waiting, Sound
    <3>. QED BY <1>2, <3>1 DEF Held, Running
  <2>6. /\ a.ok /\ Ready(a) /\ a.tracks = s.tracks /\ a.queued = s.queued /\ a.force = s.force
        /\ a.written = s.written /\ a.last \in Nat /\ a.last <= m
        /\ a.frames = SubSeq(s.frames, n + 1, Len(s.frames)) /\ Current(a).head # 0
    <3>1. n \in Nat /\ Ready(s) /\ s.ok /\ s.last \in Nat /\ s.last <= m /\ Sound(s, n, m)
      BY <2>3, <2>5
    <3>2. Reached(s, n) => a.ok
      BY <2>4, <3>1, WriteFirstIs
    <3>3. a.ok
      BY <2>5, <3>2
    <3>. QED BY <2>4, <2>5, <3>1, <3>3, WriteFirstIs
  <2>7. CASE s.frames = << >>
    <3>1. a.frames = << >>
      BY <2>2, <2>3, <2>6, <2>7, NoneIsLeft DEF Held, Waiting
    <3>2. Waiting(a.frames, m)
      BY <3>1, NoneWaits
    <3>. QED BY <1>2, <2>6, <2>7, <3>1, <3>2 DEF Left, Ready
  <2>8. CASE s.frames # << >>
    <3>1. PICK q : q = s.frames
      OBVIOUS
    <3>2. Waiting(q, m) /\ q # << >> /\ n = Len(q) - 1
      BY <2>2, <2>3, <2>8, <3>1 DEF Held
    <3>3. Waiting(a.frames, m) /\ a.frames # << >> /\ a.frames[1] = Last(q)
      BY <2>6, <3>1, <3>2, LastIsLeft
    <3>. QED BY <1>2, <2>6, <2>8, <3>1, <3>3 DEF Left, Ready, Foremost
  <2>. QED BY <2>7, <2>8
<1>. QED BY <1>1, <1>2

\* A new cluster begins at the time of the first frame that waits, or of the one to come.
LEMMA NewClusterIs ==
  ASSUME NEW s, NEW m \in Nat, Held(s, m), NEW time \in Nat, m <= time,
         NEW c, c = MakeNewCluster(s, time)
  PROVE  /\ Left(s, m, c) /\ Ready(c)
         /\ Current(c).timecode = IF c.frames = << >> THEN time ELSE c.frames[1].time
<1>1. PICK a : a = WriteFramesLessThan(s, time)
  OBVIOUS
<1>2. /\ Left(s, m, a)
      /\ IF s.clusters = << >> THEN a = s ELSE Ready(a) /\ Current(a).head # 0 /\ a.clusters # << >>
  BY <1>1, LessThanIs
<1>3. PICK b : b = FinalizeCurrent(a)
  OBVIOUS
<1>4. Around(a, b)
  <2>1. CASE s.clusters = << >>
    <3>1. b = a
      BY <1>2, <1>3, <2>1 DEF FinalizeCurrent
    <3>. QED BY <1>2, <3>1 DEF Around, Left
  <2>2. CASE s.clusters # << >>
    BY <1>2, <1>3, <2>2, FinalizeIs DEF Left
  <2>. QED BY <2>1, <2>2
<1>5. PICK first : first = IF b.frames # << >> /\ b.frames[1].time < time THEN b.frames[1].time ELSE time
  OBVIOUS
<1>6. c = AddCluster(b, first)
  BY <1>1, <1>2, <1>3, <1>4, <1>5 DEF MakeNewCluster, Then, Left, Around
<1>7. Around(b, c) /\ Ready(c) /\ Current(c).timecode = first
  BY <1>4, <1>6, ClusterAdded DEF Around
<1>8. Left(s, m, c) /\ c.frames = b.frames
  BY <1>2, <1>4, <1>7 DEF Left, Around
<1>9. first = IF c.frames = << >> THEN time ELSE c.frames[1].time
  <2>1. c.frames # << >> => c.frames[1].time \in Nat /\ c.frames[1].time <= m
    <3>1. c.frames # << >> => 1 \in 1..Len(c.frames)
      BY <1>8, LenIsNatural DEF Left, Waiting
    <3>. QED BY <1>8, <3>1 DEF Left, Waiting
  <2>. QED BY <1>5, <1>8, <2>1
<1>. QED BY <1>7, <1>8, <1>9

-----------------------------------------------------------------------------
(* A frame *)

\* d is c with all that waited written.
Gone(c, m, d) ==
  /\ Ready(d) /\ d.ok /\ d.frames = << >> /\ d.last \in Nat /\ d.last <= m
  /\ Current(d).timecode = Current(c).timecode
  /\ d.tracks = c.tracks /\ d.force = c.force /\ d.written = c.written

LEMMA AllWritten ==
  ASSUME NEW c, NEW m \in Nat, Ready(c), c.ok, c.last \in Nat, c.last <= m,
         Waiting(c.frames, m), c.frames # << >> => c.queued,
         NEW d, d = WriteFramesAll(c)
  PROVE  /\ Reached(c, Len(c.frames)) => d.ok
         /\ d.ok => Gone(c, m, d)
<1>1. CASE ~c.queued
  <2>1. d = c /\ c.frames = << >>
    BY <1>1 DEF WriteFramesAll
  <2>. QED BY <2>1 DEF Gone
<1>2. CASE c.queued
  <2>1. PICK n : n = Len(c.frames)
    OBVIOUS
  <2>2. d = WriteFirst(c, n)
    BY <1>2, <2>1 DEF WriteFramesAll, Ready
  <2>3. n \in Nat /\ Sound(c, n, m)
    BY <2>1, LenIsNatural DEF Waiting, Sound
  <2>4. /\ Reached(c, n) => d.ok
        /\ d.ok => /\ Ready(d) /\ Current(d).timecode = Current(c).timecode
                   /\ d.tracks = c.tracks /\ d.force = c.force
                   /\ d.written = c.written /\ d.last \in Nat /\ d.last <= m
                   /\ d.frames = SubSeq(c.frames, n + 1, Len(c.frames))
    BY <2>2, <2>3, WriteFirstIs
  <2>5. d.frames = SubSeq(c.frames, n + 1, Len(c.frames)) => d.frames = << >>
    BY <2>1, NoneIsLeft DEF Waiting
  <2>6. Reached(c, Len(c.frames)) => d.ok
    BY <2>1, <2>4
  <2>7. d.ok => Gone(c, m, d)
    BY <2>4, <2>5 DEF Gone
  <2>. QED BY <2>6, <2>7
<1>. QED BY <1>1, <1>2

\* t is a with the time of the frame noted, if it was written.
Noted(f, a, t) == t = IF a.ok THEN [a EXCEPT !.last = f.time, !.lastOf[f.track] = f.time] ELSE a

\* A frame that comes at m or later.
Coming(f, m) == f.time \in Nat /\ m <= f.time /\ (CanBeSimpleBlock(f) \/ f.key)

LEMMA FrameEnds ==
  ASSUME NEW d, Ready(d), d.ok, d.frames = << >>, d.force = FALSE, d.written,
         Current(d).timecode \in Nat, NEW m, NEW f, Coming(f, m),
         NEW a, a = Written(d, f), NEW t, Noted(f, a, t)
  PROVE  IF f.time - Current(d).timecode \in 0..MaxBlockTimecode THEN Held(t, f.time) ELSE ~t.ok
<1>1. IsValid(f)
  BY DEF Coming, IsValid
<1>2. CASE ~(f.time - Current(d).timecode \in 0..MaxBlockTimecode)
  <2>1. ~a.ok
    BY <1>1, <1>2, WrittenIs
  <2>. QED BY <1>2, <2>1 DEF Noted
<1>3. CASE f.time - Current(d).timecode \in 0..MaxBlockTimecode
  <2>1. Further(d, a) /\ a.ok /\ Current(a).head # 0
    BY <1>1, <1>3, WrittenIs
  <2>2. PICK q : q = [a.lastOf EXCEPT ![f.track] = f.time]
    OBVIOUS
  <2>3. t = [a EXCEPT !.last = f.time, !.lastOf = q]
    BY <2>1, <2>2 DEF Noted, Further, Ready, Shape, SegmentFields
  <2>4. /\ t = [x \in SegmentFields |-> t[x]] /\ t.last = f.time
        /\ \A x \in SegmentFields \ {"last", "lastOf"} : t[x] = a[x]
    BY <2>1, <2>3 DEF Further, Ready, Shape, SegmentFields
  <2>5. /\ t.file = a.file /\ t.clusters = a.clusters /\ t.ok = a.ok
        /\ t.tracks = a.tracks /\ t.frames = a.frames /\ t.queued = a.queued /\ t.force = a.force
        /\ t.written = a.written
    BY <2>4 DEF SegmentFields
  <2>0. Ready(a)
    BY <2>1 DEF Further
  <2>6. Further(a, t) /\ Current(t) = Current(a)
    <3>1. Alike(a, t)
      BY <2>4, <2>5 DEF Alike
    <3>. QED BY <2>0, <3>1, FurtherSet
  <2>7. t.frames = << >> /\ t.ok /\ t.force = FALSE /\ t.written
    BY <2>1, <2>5 DEF Further
  <2>8. Waiting(t.frames, f.time) /\ Len(t.frames) = 0
    BY <2>7, NoneWaits
  <2>9. Running(t) /\ Current(t).timecode <= f.time
    BY <1>3, <2>1, <2>6, <2>8 DEF Running, Reached, Further, Coming
  <2>10. Held(t, f.time)
    BY <2>4, <2>7, <2>8, <2>9 DEF Held, Running, Ready, Coming
  <2>. QED BY <1>3, <2>10
<1>. QED BY <1>2, <1>3

\* The frame that a new cluster begins with is in reach of the one that comes.
Fits(s, f) == s.frames # << >> => f.time - Foremost(s).time <= MaxBlockTimecode

\* A new cluster is forced where the frame is out of reach of the one there is.
LEMMA ForcedIs ==
  ASSUME NEW s, NEW m \in Nat, Held(s, m), NEW f, Coming(f, m), NEW u, u = ForceNewCluster(s, f)
  PROVE  /\ [u EXCEPT !.force = FALSE] = s
         /\ u.force <=> s.clusters # << >> /\ f.time - Current(s).timecode > MaxBlockTimecode
         /\ u.force \in BOOLEAN
         /\ u.clusters = s.clusters /\ u.tracks = s.tracks /\ u.frames = s.frames
         /\ Current(u) = Current(s)
         /\ u = [x \in SegmentFields |-> u[x]]
         /\ \A x \in SegmentFields \ {"force"} : u[x] = s[x]
<1>1. PICK far : far = (s.clusters # << >> /\ f.time - Current(s).timecode \notin 0..MaxBlockTimecode)
  OBVIOUS
<1>2. PICK y : y = (s.force \/ far)
  OBVIOUS
<1>3. u = [s EXCEPT !.force = y]
  BY <1>1, <1>2 DEF ForceNewCluster
<1>4. /\ u = [x \in SegmentFields |-> u[x]] /\ u.force = y
      /\ \A x \in SegmentFields \ {"force"} : u[x] = s[x]
  BY <1>3 DEF Held, Shape, SegmentFields
<1>5. u.clusters = s.clusters /\ u.tracks = s.tracks /\ u.frames = s.frames
  BY <1>4 DEF SegmentFields
<1>6. [u EXCEPT !.force = FALSE] = s
  BY <1>4 DEF Held, Shape, SegmentFields
<1>7. y <=> far
  BY <1>2 DEF Held
<1>8. far <=> s.clusters # << >> /\ f.time - Current(s).timecode > MaxBlockTimecode
  <2>1. s.clusters # << >> => (f.time - Current(s).timecode) \in Int /\ f.time - Current(s).timecode >= 0
    BY DEF Held, Running, Coming
  <2>2. MaxBlockTimecode \in Nat
    BY TimesAssumption DEF WebmTimes
  <2>3. PICK delta : delta = f.time - Current(s).timecode
    OBVIOUS
  <2>4. s.clusters # << >> => (delta \notin 0..MaxBlockTimecode <=> delta > MaxBlockTimecode)
    BY <2>1, <2>2, <2>3
  <2>5. far <=> s.clusters # << >> /\ delta \notin 0..MaxBlockTimecode
    BY <1>1, <2>3
  <2>. QED BY <2>3, <2>4, <2>5
<1>9. y \in BOOLEAN
  BY <1>1, <1>2 DEF Held
<1>. QED BY <1>4, <1>5, <1>6, <1>7, <1>8, <1>9 DEF Current

\* The test never says that it is to be made again, nor that the frame is late.
LEMMA TestIs ==
  ASSUME NEW s, NEW m \in Nat, Held(s, m), NEW f, Coming(f, m), NEW u, u = ForceNewCluster(s, f)
  PROVE  /\ TestFrame(u, f) \in {0, 1}
         /\ TestFrame(u, f) = 0 =>
              s.clusters # << >> /\ f.time - Current(s).timecode \in 0..MaxBlockTimecode
<1>1. /\ u.force <=> s.clusters # << >> /\ f.time - Current(s).timecode > MaxBlockTimecode
      /\ u.clusters = s.clusters /\ Current(u) = Current(s)
  BY ForcedIs
<1>2. PICK delta : delta = f.time - Current(u).timecode
  OBVIOUS
<1>3. PICK asks : asks = (f.key /\ u.tracks[f.track] = Video)
  OBVIOUS
<1>4. TestFrame(u, f) = IF u.force \/ u.clusters = << >> THEN 1
                        ELSE IF delta < 0 THEN -1
                        ELSE IF delta > MaxBlockTimecode THEN 2
                        ELSE IF asks THEN 1
                        ELSE IF delta >= MaxClusterDuration THEN 1
                        ELSE 0
  BY <1>2, <1>3 DEF TestFrame
<1>5. MaxBlockTimecode \in Nat
  BY TimesAssumption DEF WebmTimes
<1>6. CASE u.force \/ u.clusters = << >>
  BY <1>4, <1>6
<1>7. CASE ~(u.force \/ u.clusters = << >>)
  <2>1. delta \in Int /\ delta >= 0 /\ delta = f.time - Current(s).timecode
    BY <1>1, <1>2, <1>7 DEF Held, Running, Coming
  <2>2. delta <= MaxBlockTimecode
    BY <1>1, <1>5, <1>7, <2>1
  <2>3. TestFrame(u, f) \in {0, 1}
    BY <1>4, <1>5, <1>7, <2>1, <2>2
  <2>4. s.clusters # << >> /\ delta \in 0..MaxBlockTimecode
    BY <1>1, <1>5, <1>7, <2>1, <2>2
  <2>. QED BY <2>1, <2>3, <2>4
<1>. QED BY <1>6, <1>7

\* A frame that is not queued is written if and only if it fits.
LEMMA GenericIs ==
  ASSUME NEW s, NEW m \in Nat, Held(s, m), s.written, NEW f, Coming(f, m),
         NEW u, u = ForceNewCluster(s, f), NEW t, t = WriteGenericFrame(u, f)
  PROVE  IF Fits(s, f) THEN Held(t, f.time) ELSE ~t.ok
<1>0. MaxBlockTimecode \in Nat /\ f.time \in Nat /\ m <= f.time
  BY TimesAssumption DEF WebmTimes, Coming
<1>1. PICK e : e = DoNewClusterProcessing(u, f)
  OBVIOUS
<1>2. PICK a : a = Written(e, f)
  OBVIOUS
<1>3. PICK z : z = IF a.ok THEN [a EXCEPT !.last = f.time, !.lastOf[f.track] = f.time] ELSE a
  OBVIOUS
<1>4. t = IF e.ok THEN z ELSE e
  <2>1. Referring(e, f) = f
    BY DEF Referring, Coming
  <2>2. CASE ~e.ok
    BY <1>1, <2>2 DEF WriteGenericFrame, Then
  <2>3. CASE e.ok /\ ~a.ok
    <3>1. t = a
      BY <1>1, <1>2, <2>1, <2>3 DEF WriteGenericFrame, Then
    <3>. QED BY <1>3, <2>3, <3>1
  <2>4. CASE e.ok /\ a.ok
    <3>1. t = [a EXCEPT !.last = f.time, !.lastOf[f.track] = f.time]
      BY <1>1, <1>2, <2>1, <2>4 DEF WriteGenericFrame, Then
    <3>. QED BY <1>3, <2>4, <3>1
  <2>. QED BY <2>2, <2>3, <2>4
<1>9. Noted(f, a, z)
  BY <1>3 DEF Noted
<1>5. PICK calm : calm = [u EXCEPT !.force = FALSE]
  OBVIOUS
<1>6. calm = s
  BY <1>5, ForcedIs
<1>7. CASE TestFrame(u, f) = 0
  <2>1. s.clusters # << >> /\ f.time - Current(s).timecode \in 0..MaxBlockTimecode
    BY <1>7, TestIs
  <2>2. e = WriteFramesAll(s)
    <3>1. s.ok
      BY DEF Held
    <3>2. DoNewClusterProcessing(u, f) = Then(calm, WriteFramesAll)
      BY <1>5, <1>7 DEF DoNewClusterProcessing
    <3>. QED BY <1>1, <1>6, <3>1, <3>2 DEF Then
  <2>3. Running(s)
    BY <2>1 DEF Held
  <2>4. /\ Reached(s, Len(s.frames)) => e.ok
        /\ e.ok => Gone(s, m, e)
    BY <2>2, <2>3, AllWritten DEF Held, Running
  <2>5. e.ok /\ Gone(s, m, e)
    BY <2>3, <2>4 DEF Running
  <2>6. /\ Ready(e) /\ e.ok /\ e.frames = << >> /\ e.force = FALSE /\ e.written
        /\ Current(e).timecode \in Nat /\ f.time - Current(e).timecode \in 0..MaxBlockTimecode
    BY <2>1, <2>3, <2>5 DEF Gone, Held, Running
  <2>7. Held(z, f.time)
    BY <1>2, <1>9, <2>6, FrameEnds
  <2>8. Fits(s, f)
    <3>1. PICK n : n = Len(s.frames)
      OBVIOUS
    <3>2. s.frames # << >> => n \in 1..n
      BY <3>1, LenIsNatural DEF Held, Waiting
    <3>3. s.frames # << >> => /\ s.frames[n].time - Current(s).timecode \in 0..MaxBlockTimecode
                              /\ s.frames[n].time \in Nat
      BY <2>3, <3>1, <3>2 DEF Running, Reached, Held, Waiting
    <3>4. s.frames # << >> => f.time - s.frames[n].time <= MaxBlockTimecode
      BY <1>0, <2>1, <2>3, <3>3 DEF Running
    <3>. QED BY <2>1, <3>1, <3>4 DEF Fits, Foremost, Last
  <2>. QED BY <1>4, <2>5, <2>7, <2>8
<1>8. CASE TestFrame(u, f) = 1
  <2>1. PICK c : c = MakeNewCluster(s, f.time)
    OBVIOUS
  <2>2. /\ Left(s, m, c) /\ Ready(c)
        /\ Current(c).timecode = IF c.frames = << >> THEN f.time ELSE c.frames[1].time
    BY <1>0, <2>1, NewClusterIs
  <2>3. e = WriteFramesAll(c)
    <3>1. c.ok
      BY <2>2 DEF Left
    <3>2. DoNewClusterProcessing(u, f) = Then(MakeNewCluster(calm, f.time), WriteFramesAll)
      BY <1>5, <1>8 DEF DoNewClusterProcessing
    <3>. QED BY <1>1, <1>6, <2>1, <3>1, <3>2 DEF Then
  <2>4. c.frames # << >> => c.queued
    BY <2>2 DEF Left, Held
  <2>5. /\ Reached(c, Len(c.frames)) => e.ok
        /\ e.ok => Gone(c, m, e)
    BY <2>2, <2>3, <2>4, AllWritten DEF Left
  <2>6. PICK n : n = Len(c.frames)
    OBVIOUS
  <2>7. c.frames # << >> => 1 \in 1..n
    BY <2>2, <2>6, LenIsNatural DEF Left, Waiting
  <2>8. Current(c).timecode \in Nat /\ Current(c).timecode <= f.time
    BY <1>0, <2>2, <2>6, <2>7 DEF Left, Waiting
  <2>9. Fits(s, f) <=> f.time - Current(c).timecode <= MaxBlockTimecode
    BY <1>0, <2>2 DEF Fits, Left
  <2>10. e.ok => IF f.time - Current(c).timecode \in 0..MaxBlockTimecode THEN Held(z, f.time) ELSE ~z.ok
    <3>. SUFFICES ASSUME e.ok
                  PROVE IF f.time - Current(c).timecode \in 0..MaxBlockTimecode THEN Held(z, f.time) ELSE ~z.ok
      OBVIOUS
    <3>1. Gone(c, m, e)
      BY <2>5
    <3>2. /\ Ready(e) /\ e.frames = << >> /\ e.force = FALSE /\ e.written
          /\ Current(e).timecode = Current(c).timecode
      BY <2>2, <3>1 DEF Gone, Left, Held
    <3>. QED BY <1>2, <1>9, <2>8, <3>2, FrameEnds
  <2>11. CASE Fits(s, f)
    <3>1. f.time - Current(c).timecode \in 0..MaxBlockTimecode
      BY <1>0, <2>8, <2>9, <2>11
    <3>2. ASSUME NEW i \in 1..n PROVE c.frames[i].time - Current(c).timecode \in 0..MaxBlockTimecode
      <4>1. c.frames # << >> /\ n \in Nat /\ 1 \in 1..n /\ 1 <= i
        BY <2>2, <2>6, LenIsNatural DEF Left, Waiting
      <4>2. /\ c.frames[1].time <= c.frames[i].time /\ c.frames[i].time <= m
            /\ c.frames[1].time \in Nat /\ c.frames[i].time \in Nat
        BY <2>2, <2>6, <4>1 DEF Left, Waiting
      <4>3. Current(c).timecode = c.frames[1].time
        BY <2>2, <4>1
      <4>. QED BY <1>0, <3>1, <4>2, <4>3
    <3>3. e.ok
      BY <2>5, <2>6, <3>2 DEF Reached
    <3>. QED BY <1>4, <2>10, <2>11, <3>1, <3>3
  <2>12. CASE ~Fits(s, f)
    <3>1. ~(f.time - Current(c).timecode \in 0..MaxBlockTimecode)
      BY <1>0, <2>8, <2>9, <2>12
    <3>. QED BY <1>4, <2>10, <2>12, <3>1
  <2>. QED BY <2>11, <2>12
<1>. QED BY <1>7, <1>8, TestIs

\* r is q with f behind it.
Longer(q, f, r) ==
  /\ Waiting(r, f.time) /\ Len(q) \in Nat /\ Len(r) = Len(q) + 1
  /\ r[Len(q) + 1] = f /\ \A i \in 1..Len(q) : r[i] = q[i]

LEMMA QueueWaits ==
  ASSUME NEW q, NEW m \in Nat, Waiting(q, m), NEW f, Coming(f, m)
  PROVE  Longer(q, f, Append(q, f))
<1>0. PICK r : r = Append(q, f)
  OBVIOUS
<1>1. PICK S : q \in Seq(S)
  BY DEF Waiting, IsSeq
<1>2. PICK T : T = S \cup {f}
  OBVIOUS
<1>3. q \in Seq(T) /\ f \in T
  BY <1>1, <1>2, SeqMonotonic
<1>4. PICK n : n = Len(q)
  OBVIOUS
<1>5. /\ r \in Seq(T) /\ n \in Nat /\ Len(r) = n + 1 /\ r[n + 1] = f
      /\ \A i \in 1..n : r[i] = q[i]
  BY <1>0, <1>3, <1>4, AppendProperties
<1>6. IsSeq(r)
  BY <1>5 DEF IsSeq
<1>7. ASSUME NEW i \in 1..(n + 1)
      PROVE  IsValid(r[i]) /\ r[i].time \in Nat /\ r[i].time <= f.time
  <2>1. CASE i = n + 1
    BY <1>5, <2>1 DEF Coming, IsValid
  <2>2. CASE i # n + 1
    <3>1. i \in 1..n /\ r[i] = q[i]
      BY <1>5, <2>2
    <3>2. IsValid(q[i]) /\ q[i].time \in Nat /\ q[i].time <= m
      BY <1>4, <3>1 DEF Waiting
    <3>. QED BY <3>1, <3>2 DEF Coming
  <2>. QED BY <2>1, <2>2
<1>8. ASSUME NEW i \in 1..(n + 1), NEW j \in 1..(n + 1), i <= j
      PROVE  r[i].time <= r[j].time
  <2>1. CASE j = n + 1
    BY <1>5, <1>7, <2>1
  <2>2. CASE j # n + 1
    <3>1. i \in 1..n /\ j \in 1..n /\ r[i] = q[i] /\ r[j] = q[j]
      BY <1>5, <1>8, <2>2
    <3>. QED BY <1>4, <1>8, <3>1 DEF Waiting
  <2>. QED BY <2>1, <2>2
<1>9. Waiting(r, f.time)
  BY <1>5, <1>6, <1>7, <1>8 DEF Waiting
<1>. QED BY <1>0, <1>4, <1>5, <1>9 DEF Longer

LEMMA QueueIs ==
  ASSUME NEW s, NEW m \in Nat, Held(s, m), s.written, NEW f, Coming(f, m),
         NEW u, u = ForceNewCluster(s, f), ~u.force,
         NEW t, t = [u EXCEPT !.frames = Append(u.frames, f), !.queued = TRUE]
  PROVE  Held(t, f.time)
<1>1. u = s
  <2>1. /\ u.force = FALSE /\ u = [x \in SegmentFields |-> u[x]]
        /\ \A x \in SegmentFields \ {"force"} : u[x] = s[x]
    BY ForcedIs
  <2>2. s = [x \in SegmentFields |-> s[x]] /\ s.force = FALSE
    BY DEF Held, Shape
  <2>3. \A x \in SegmentFields : u[x] = s[x]
    BY <2>1, <2>2
  <2>. QED BY <2>1, <2>2, <2>3
<1>2. s.clusters # << >> => f.time - Current(s).timecode <= MaxBlockTimecode
  <2>1. ~(s.clusters # << >> /\ f.time - Current(s).timecode > MaxBlockTimecode)
    BY ForcedIs
  <2>2. s.clusters # << >> => f.time - Current(s).timecode \in Int
    BY DEF Held, Running, Coming
  <2>3. MaxBlockTimecode \in Nat
    BY TimesAssumption DEF WebmTimes
  <2>. QED BY <2>1, <2>2, <2>3
<1>3. PICK q : q = s.frames
  OBVIOUS
<1>4. PICK r : r = Append(q, f)
  OBVIOUS
<1>5. PICK n : n = Len(q)
  OBVIOUS
<1>6. /\ Waiting(r, f.time) /\ n \in Nat /\ Len(r) = n + 1 /\ r[n + 1] = f
      /\ \A i \in 1..n : r[i] = q[i]
  <2>1. Waiting(q, m)
    BY <1>3 DEF Held
  <2>2. Longer(q, f, r)
    BY <1>4, <2>1, QueueWaits
  <2>. QED BY <1>5, <2>2 DEF Longer
<1>7. /\ t = [x \in SegmentFields |-> t[x]] /\ t.frames = r /\ t.queued = TRUE
      /\ \A x \in SegmentFields \ {"frames", "queued"} : t[x] = s[x]
  BY <1>1, <1>3, <1>4 DEF Held, Shape, SegmentFields
<1>8. /\ t.file = s.file /\ t.clusters = s.clusters /\ t.ok = s.ok /\ t.last = s.last
      /\ t.tracks = s.tracks /\ t.force = s.force /\ t.written = s.written
  BY <1>7 DEF SegmentFields
<1>9. Shape(t) /\ Current(t) = Current(s)
  BY <1>7, <1>8 DEF Held, Shape, Current
<1>10. t.clusters # << >> => Running(t) /\ Current(t).timecode <= f.time
  <2>. SUFFICES ASSUME s.clusters # << >> PROVE Running(t) /\ Current(t).timecode <= f.time
    BY <1>8
  <2>1. Ready(t)
    BY <1>8, <1>9 DEF Held, Running, Ready
  <2>2. Current(s).timecode \in Nat /\ Current(s).timecode <= f.time /\ Current(s).head # 0
    BY DEF Held, Running, Coming
  <2>3. ASSUME NEW i \in 1..(n + 1) PROVE r[i].time - Current(s).timecode \in 0..MaxBlockTimecode
    <3>1. CASE i = n + 1
      <4>1. MaxBlockTimecode \in Nat
        BY TimesAssumption DEF WebmTimes
      <4>. QED BY <1>2, <1>6, <2>2, <3>1, <4>1 DEF Coming
    <3>2. CASE i # n + 1
      <4>1. i \in 1..n /\ r[i] = q[i]
        BY <1>6, <3>2
      <4>. QED BY <1>3, <1>5, <4>1 DEF Held, Running, Reached
    <3>. QED BY <3>1, <3>2
  <2>4. Reached(t, Len(t.frames))
    BY <1>6, <1>7, <1>9, <2>3 DEF Reached
  <2>. QED BY <1>9, <2>1, <2>2, <2>4 DEF Running
<1>11. t.last \in Nat /\ t.last <= f.time /\ t.force = FALSE /\ t.written /\ t.ok
  <2>1. t.last \in Nat /\ t.last <= f.time
    BY <1>8 DEF Held, Coming
  <2>2. t.force = FALSE /\ t.written /\ t.ok
    BY <1>8 DEF Held
  <2>. QED BY <2>1, <2>2
<1>. QED BY <1>6, <1>7, <1>9, <1>10, <1>11 DEF Held

\* AddGenericFrame takes every frame but one that is too far.
LEMMA AddIs ==
  ASSUME NEW s, NEW m \in Nat, Held(s, m), NEW f, Coming(f, m), f.track \in DOMAIN s.tracks,
         NEW t, t = AddGenericFrame(s, f)
  PROVE  IF TooFar(s, f) THEN ~t.ok ELSE Held(t, f.time)
<1>0. MaxBlockTimecode \in Nat /\ f.time \in Nat /\ m <= f.time
  BY TimesAssumption DEF WebmTimes, Coming
<1>1. PICK v : v = [s EXCEPT !.ok = TRUE]
  OBVIOUS
<1>2. v = s
  BY <1>1 DEF Held, Shape, SegmentFields
<1>3. PICK h : h = CheckHeaderInfo(s)
  OBVIOUS
<1>4. /\ Shape(h) /\ h.written /\ h.tracks = s.tracks /\ h.frames = s.frames /\ h.queued = s.queued
      /\ h.force = s.force /\ h.clusters = s.clusters /\ h.ok = s.ok /\ h.last = s.last
  BY <1>3, HeaderKeeps DEF Held
<1>5. Current(h) = Current(s)
  BY <1>4 DEF Current
<1>6. Held(h, m)
  BY <1>4, <1>5 DEF Held, Running, Ready, Reached
<1>7. PICK u : u = ForceNewCluster(h, f)
  OBVIOUS
<1>8. t = QueueOrWrite(u, f)
  <2>1. h.ok /\ ~(f.time < h.last \/ f.track \notin DOMAIN h.tracks)
    BY <1>0, <1>4, <1>6 DEF Held
  <2>2. AddGenericFrame(s, f) = IF h.ok
                                THEN IF f.time < h.last \/ f.track \notin DOMAIN h.tracks THEN Fail(h)
                                     ELSE QueueOrWrite(u, f)
                                ELSE h
    BY <1>1, <1>2, <1>3, <1>7 DEF AddGenericFrame, Then
  <2>. QED BY <2>1, <2>2
<1>9. /\ u.force <=> h.clusters # << >> /\ f.time - Current(h).timecode > MaxBlockTimecode
      /\ u.tracks = h.tracks
  BY <1>6, <1>7, ForcedIs
<1>10. PICK sound : sound = (HasVideo(s) /\ s.tracks[f.track] = Audio)
  OBVIOUS
<1>11. HasVideo(u) /\ u.tracks[f.track] = Audio <=> sound
  BY <1>4, <1>9, <1>10 DEF HasVideo
<1>12. Waits(s, f) <=> sound /\ ~u.force
  <2>1. s.clusters # << >> => (f.time - Current(s).timecode \in Int)
    BY <1>0 DEF Held, Running
  <2>2. u.force <=> ~(s.clusters # << >> => Reaches(Current(s).timecode, f))
    BY <1>0, <1>4, <1>5, <1>9, <2>1 DEF Reaches
  <2>. QED BY <1>10, <2>2 DEF Waits
<1>13. Fits(h, f) <=> (s.frames # << >> =>
         Reaches((IF s.clusters = << >> THEN Head(s.frames) ELSE Last(s.frames)).time, f))
  <2>1. s.frames # << >> => Head(s.frames) = s.frames[1]
    BY LenIsNatural DEF Held, Waiting
  <2>. QED BY <1>4, <2>1 DEF Fits, Foremost, Reaches
<1>14. CASE sound /\ ~u.force
  <2>1. ~TooFar(s, f)
    BY <1>12, <1>14 DEF TooFar
  <2>2. t = [u EXCEPT !.frames = Append(u.frames, f), !.queued = TRUE]
    BY <1>8, <1>11, <1>14 DEF QueueOrWrite
  <2>3. Held(t, f.time)
    BY <1>4, <1>6, <1>7, <1>14, <2>2, QueueIs
  <2>. QED BY <2>1, <2>3
<1>15. CASE ~(sound /\ ~u.force)
  <2>1. TooFar(s, f) <=> ~Fits(h, f)
    BY <1>12, <1>13, <1>15 DEF TooFar
  <2>2. t = WriteGenericFrame(u, f)
    BY <1>8, <1>11, <1>15 DEF QueueOrWrite
  <2>3. IF Fits(h, f) THEN Held(t, f.time) ELSE ~t.ok
    BY <1>4, <1>6, <1>7, <2>2, GenericIs
  <2>. QED BY <2>1, <2>3
<1>. QED BY <1>14, <1>15

-----------------------------------------------------------------------------
(* The recording *)

Recording ==
  /\ IsSeq(sent) /\ LastTime \in Nat
  /\ gap <=> ~rec.ok
  /\ rec.ok => Held(rec, LastTime)

RecordingKept == phase = "record" => Recording

LEMMA RecordingBegins == Init => RecordingKept
<1>. SUFFICES ASSUME Init PROVE Recording
  BY DEF RecordingKept
<1>1. << >> \in Seq({}) /\ Len(<< >>) = 0
  OBVIOUS
<1>2. IsSeq(<< >>)
  BY <1>1 DEF IsSeq
<1>3. PICK seekable, tracks, tags : rec = NewSegment(seekable, tracks, tags)
  BY DEF Init
<1>4. /\ rec = [x \in SegmentFields |-> rec[x]] /\ rec.file = << >> /\ rec.clusters = << >>
      /\ rec.frames = << >> /\ rec.seeks = << >> /\ rec.last = 0 /\ rec.force = FALSE /\ rec.ok
  BY <1>3 DEF NewSegment, SegmentFields
<1>5. Waiting(rec.frames, 0)
  BY <1>4, NoneWaits
<1>6. Held(rec, 0)
  BY <1>2, <1>4, <1>5 DEF Held, Shape
<1>7. LastTime = 0 /\ sent = << >> /\ gap = FALSE
  BY DEF Init, LastTime
<1>. QED BY <1>2, <1>4, <1>6, <1>7 DEF Recording

LEMMA RecordKeeps ==
  ASSUME Recording, RecordFrame
  PROVE  Recording'
<1>1. PICK kind \in FrameKinds :
        /\ kind.track \in DOMAIN rec.tracks
        /\ kind.pad => rec.tracks[kind.track] = Audio
        /\ rec.tracks[kind.track] = Audio => kind.key
        /\ rec' = AddGenericFrame(rec, FrameOf(kind))
        /\ sent' = IF rec'.ok THEN Append(sent, FrameOf(kind)) ELSE sent
        /\ gap' = (gap \/ TooFar(rec, FrameOf(kind)))
  BY DEF RecordFrame
<1>2. PICK f : f = FrameOf(kind)
  OBVIOUS
<1>3. PICK m : m = LastTime
  OBVIOUS
<1>4. /\ m \in Nat /\ Held(rec, m) /\ ~gap
  BY <1>3 DEF Recording, RecordFrame
<1>5. f.track = kind.track /\ f.time = m + kind.step /\ f.pad = kind.pad /\ f.key = kind.key
  BY <1>2, <1>3 DEF FrameOf
<1>6. kind.step \in Nat
  BY KindsAssumption
<1>7. Coming(f, m)
  <2>1. f.time \in Nat /\ m <= f.time
    BY <1>4, <1>5, <1>6
  <2>2. ~f.pad \/ f.key
    BY <1>1, <1>5
  <2>. QED BY <2>1, <2>2 DEF Coming, CanBeSimpleBlock
<1>8. IF TooFar(rec, f) THEN ~rec'.ok ELSE Held(rec', f.time)
  BY <1>1, <1>2, <1>4, <1>5, <1>7, AddIs
<1>9. CASE TooFar(rec, f)
  <2>1. ~rec'.ok /\ gap' /\ sent' = sent
    BY <1>1, <1>2, <1>8, <1>9
  <2>2. LastTime' = LastTime
    BY <2>1 DEF LastTime
  <2>. QED BY <2>1, <2>2 DEF Recording
<1>10. CASE ~TooFar(rec, f)
  <2>1. Held(rec', f.time) /\ rec'.ok /\ ~gap' /\ sent' = Append(sent, f)
    BY <1>1, <1>2, <1>4, <1>8, <1>10 DEF Held
  <2>2. IsSeq(sent') /\ sent' # << >> /\ Last(sent') = f
    BY <2>1, AppendIsSeq DEF Recording, Last
  <2>3. LastTime' = f.time
    BY <2>2 DEF LastTime
  <2>. QED BY <1>7, <2>1, <2>2, <2>3 DEF Recording, Coming
<1>. QED BY <1>9, <1>10

LEMMA RecordingStays == RecordingKept /\ [Next]_vars => RecordingKept'
<1>. SUFFICES ASSUME RecordingKept, [Next]_vars PROVE RecordingKept'
  OBVIOUS
<1>1. CASE RecordFrame
  BY <1>1, RecordKeeps DEF RecordFrame, RecordingKept
<1>2. CASE Stop
  BY <1>2 DEF Stop, Leave, RecordingKept
<1>3. CASE LoseEnd
  BY <1>3 DEF LoseEnd, Leave, RecordingKept
<1>4. CASE OpenInput
  BY <1>4 DEF OpenInput, Return, RecordingKept
<1>5. CASE LoadHeaders
  BY <1>5 DEF LoadHeaders, RecordingKept
<1>6. CASE LoadClusters
  BY <1>6 DEF LoadClusters, RecordingKept
<1>7. CASE SetUp
  BY <1>7 DEF SetUp, Return, RecordingKept
<1>8. CASE CopyFrame
  BY <1>8 DEF CopyFrame, Return, RecordingKept
<1>9. CASE Finish
  BY <1>9 DEF Finish, Return, RecordingKept
<1>10. CASE UNCHANGED vars
  BY <1>10 DEF vars, RecordingKept, Recording, LastTime
<1>. QED BY <1>1, <1>2, <1>3, <1>4, <1>5, <1>6, <1>7, <1>8, <1>9, <1>10 DEF Next

\* No frame is refused but one that comes further than a cluster can reach from
\* a frame of sound that waited for it: the muxer of a recording loses a frame for
\* no other reason (mkvmuxer.cc, AddGenericFrame and MakeNewCluster).
THEOREM RefusesOnlyAcrossGap == Spec => []RefusedOnlyAcrossGap
<1>1. RecordingKept => RefusedOnlyAcrossGap
  BY DEF RecordingKept, Recording, RefusedOnlyAcrossGap
<1>. QED BY <1>1, RecordingBegins, RecordingStays, PTL DEF Spec

-----------------------------------------------------------------------------
(* What a file tells of its frames *)

\* The block at i is in the cluster at j, and tells of f.
TellsAs(q, j, i, f) ==
  /\ j + 1 < i /\ q[j].id = "Cluster" /\ q[j + 1].id = "Timecode"
  /\ \A k \in (j + 1)..i : q[k].id # "Cluster"
  /\ [id |-> q[i].v.id, track |-> q[i].v.track, time |-> q[j + 1].v + q[i].v.rel,
      key |-> q[i].v.key, pad |-> q[i].v.pad] = Given(f)

\* The blocks of q tell of the first n frames of g, in their order.
Filed(q, g, n) ==
  /\ IsSeq(q) /\ BlocksTo(q, Len(q)) = n
  /\ \A i \in 1..Len(q) :
       /\ q[i] = [x \in ElementFields |-> q[i][x]]
       /\ q[i].id \in P!Blocks => \E j \in 1..i : TellsAs(q, j, i, g[BlocksTo(q, i)])

LEMMA ToldIs ==
  ASSUME NEW q, NEW i \in Nat, NEW j \in 1..i, NEW f, TellsAs(q, j, i, f)
  PROVE  Told(q, i) = Given(f)
<1>1. PICK c : c = ClusterOf(q, i)
  OBVIOUS
<1>2. j \in 1..i /\ q[j].id = "Cluster" /\ \A k \in j + 1..i : q[k].id # "Cluster"
  BY DEF TellsAs
<1>3. c \in 1..i /\ q[c].id = "Cluster" /\ \A k \in c + 1..i : q[k].id # "Cluster"
  BY <1>1, <1>2 DEF ClusterOf
<1>4. c = j
  <2>1. ~(c < j)
    BY <1>2, <1>3
  <2>2. ~(j < c)
    BY <1>2, <1>3
  <2>. QED BY <1>2, <1>3, <2>1, <2>2
<1>. QED BY <1>1, <1>4 DEF Told, TellsAs

LEMMA CountsOne ==
  ASSUME NEW q, NEW i \in Nat
  PROVE  /\ BlocksTo(q, i) \in Nat
         /\ BlocksTo(q, i + 1) = IF q[i + 1].id \in P!Blocks THEN BlocksTo(q, i) + 1 ELSE BlocksTo(q, i)
<1>1. PICK S : S = {j \in 1..i : q[j].id \in P!Blocks}
  OBVIOUS
<1>2. PICK T : T = {j \in 1..(i + 1) : q[j].id \in P!Blocks}
  OBVIOUS
<1>3. IsFiniteSet(S)
  <2>1. PICK U : U = 1..i
    OBVIOUS
  <2>2. IsFiniteSet(U)
    BY <2>1, FS_Interval
  <2>3. S \in SUBSET U
    BY <1>1, <2>1
  <2>. QED BY <2>2, <2>3, FS_Subset
<1>4. IF q[i + 1].id \in P!Blocks THEN T = S \cup {i + 1} ELSE T = S
  BY <1>1, <1>2
<1>5. i + 1 \notin S
  BY <1>1
<1>6. Cardinality(S) \in Nat /\ Cardinality(S \cup {i + 1}) = Cardinality(S) + 1
  BY <1>3, <1>5, FS_AddElement, FS_CardinalityType
<1>. QED BY <1>1, <1>2, <1>4, <1>6 DEF BlocksTo

LEMMA CountsNone == ASSUME NEW q PROVE BlocksTo(q, 0) = 0
<1>1. {j \in 1..0 : q[j].id \in P!Blocks} = {}
  OBVIOUS
<1>. QED BY <1>1, FS_EmptySet DEF BlocksTo

LEMMA CountsAlike ==
  ASSUME NEW q, NEW r, NEW i, \A j \in 1..i : r[j].id = q[j].id
  PROVE  BlocksTo(r, i) = BlocksTo(q, i)
<1>1. {j \in 1..i : r[j].id \in P!Blocks} = {j \in 1..i : q[j].id \in P!Blocks}
  OBVIOUS
<1>. QED BY <1>1 DEF BlocksTo

\* The block at i is one of the first.
LEMMA CountsWithin ==
  ASSUME NEW q, NEW n \in Nat, NEW i \in 1..n, q[i].id \in P!Blocks
  PROVE  BlocksTo(q, i) \in 1..BlocksTo(q, n) /\ BlocksTo(q, n) \in Nat
<1>1. PICK S : S = {j \in 1..i : q[j].id \in P!Blocks}
  OBVIOUS
<1>2. PICK T : T = {j \in 1..n : q[j].id \in P!Blocks}
  OBVIOUS
<1>3. IsFiniteSet(T) /\ S \in SUBSET T
  <2>1. PICK U : U = 1..n
    OBVIOUS
  <2>2. IsFiniteSet(U)
    BY <2>1, FS_Interval
  <2>3. T \in SUBSET U
    BY <1>2, <2>1
  <2>4. S \in SUBSET T
    BY <1>1, <1>2
  <2>. QED BY <2>2, <2>3, <2>4, FS_Subset
<1>4. Cardinality(S) <= Cardinality(T) /\ IsFiniteSet(S)
  BY <1>3, FS_Subset
<1>5. Cardinality(S) \in Nat /\ Cardinality(T) \in Nat
  BY <1>3, <1>4, FS_CardinalityType
<1>6. Cardinality(S) # 0
  <2>1. i \in S
    BY <1>1
  <2>. QED BY <1>4, <2>1, FS_EmptySet
<1>. QED BY <1>1, <1>2, <1>4, <1>5, <1>6 DEF BlocksTo

\* What is appended leaves the blocks there are as they tell.
LEMMA TellsStill ==
  ASSUME NEW q, NEW r, NEW i \in Nat, NEW j \in 1..i, NEW f, TellsAs(q, j, i, f),
         \A k \in 1..i : r[k].id = q[k].id /\ (q[k].id # "Info" => r[k].v = q[k].v),
         q[i].id \in P!Blocks
  PROVE  TellsAs(r, j, i, f)
<1>1. j \in 1..i /\ j + 1 \in 1..i /\ i \in 1..i /\ \A k \in (j + 1)..i : k \in 1..i
  BY DEF TellsAs
<1>2. q[i].id # "Info"
  BY DEF P!Blocks
<1>3. r[i].v = q[i].v /\ r[j + 1].v = q[j + 1].v /\ r[j].id = q[j].id /\ r[j + 1].id = q[j + 1].id
  BY <1>1, <1>2 DEF TellsAs
<1>4. \A k \in (j + 1)..i : r[k].id = q[k].id
  BY <1>1
<1>. QED BY <1>3, <1>4 DEF TellsAs

LEMMA FiledAfter ==
  ASSUME NEW q, NEW g, NEW n, Filed(q, g, n), NEW e, e = [x \in ElementFields |-> e[x]],
         NEW r, r = Append(q, e)
  PROVE  /\ e.id \notin P!Blocks => Filed(r, g, n)
         /\ e.id \in P!Blocks /\ (\E j \in 1..Len(q) : TellsAs(r, j, Len(q) + 1, g[n + 1]))
              => Filed(r, g, n + 1)
<1>1. PICK S : q \in Seq(S)
  BY DEF Filed, IsSeq
<1>2. PICK T : T = S \cup {e}
  OBVIOUS
<1>3. q \in Seq(T) /\ e \in T
  BY <1>1, <1>2, SeqMonotonic
<1>4. PICK l : l = Len(q)
  OBVIOUS
<1>5. /\ l \in Nat /\ IsSeq(r) /\ Len(r) = l + 1 /\ r[l + 1] = e /\ \A i \in 1..l : r[i] = q[i]
  BY <1>3, <1>4, AppendProperties DEF IsSeq
<1>6. ASSUME NEW i \in 1..l
      PROVE  /\ r[i] = [x \in ElementFields |-> r[i][x]]
             /\ r[i].id \in P!Blocks => \E j \in 1..i : TellsAs(r, j, i, g[BlocksTo(r, i)])
  <2>1. r[i] = q[i] /\ \A k \in 1..i : r[k] = q[k]
    BY <1>5
  <2>2. BlocksTo(r, i) = BlocksTo(q, i)
    BY <2>1, CountsAlike
  <2>3. ASSUME r[i].id \in P!Blocks PROVE \E j \in 1..i : TellsAs(r, j, i, g[BlocksTo(r, i)])
    <3>1. PICK j \in 1..i : TellsAs(q, j, i, g[BlocksTo(q, i)])
      BY <1>4, <2>1, <2>3 DEF Filed
    <3>2. i \in Nat /\ q[i].id \in P!Blocks
      BY <1>5, <2>1, <2>3
    <3>3. TellsAs(r, j, i, g[BlocksTo(q, i)])
      BY <2>1, <3>1, <3>2, TellsStill
    <3>. QED BY <2>2, <3>3
  <2>4. r[i] = [x \in ElementFields |-> r[i][x]]
    BY <1>4, <2>1 DEF Filed
  <2>. QED BY <2>3, <2>4
<1>7. BlocksTo(r, l) = n
  <2>1. \A k \in 1..l : r[k].id = q[k].id
    BY <1>5
  <2>2. BlocksTo(r, l) = BlocksTo(q, l)
    BY <2>1, CountsAlike
  <2>. QED BY <1>4, <2>2 DEF Filed
<1>8. BlocksTo(r, l + 1) = IF e.id \in P!Blocks THEN n + 1 ELSE n
  <2>1. BlocksTo(r, l + 1) = IF r[l + 1].id \in P!Blocks THEN BlocksTo(r, l) + 1 ELSE BlocksTo(r, l)
    BY <1>5, CountsOne
  <2>. QED BY <1>5, <1>7, <2>1
<1>9. r[l + 1] = [x \in ElementFields |-> r[l + 1][x]]
  BY <1>5
<1>10. \A i \in 1..(l + 1) : i \in 1..l \/ i = l + 1
  BY <1>5
<1>11. CASE e.id \notin P!Blocks
  <2>1. r[l + 1].id \notin P!Blocks
    BY <1>5, <1>11
  <2>2. \A i \in 1..Len(r) :
          /\ r[i] = [x \in ElementFields |-> r[i][x]]
          /\ r[i].id \in P!Blocks => \E j \in 1..i : TellsAs(r, j, i, g[BlocksTo(r, i)])
    BY <1>5, <1>6, <1>9, <1>10, <2>1
  <2>3. BlocksTo(r, Len(r)) = n
    BY <1>5, <1>8, <1>11
  <2>4. Filed(r, g, n)
    BY <1>5, <2>2, <2>3 DEF Filed
  <2>. QED BY <1>11, <2>4
<1>12. ASSUME e.id \in P!Blocks, NEW j \in 1..Len(q), TellsAs(r, j, Len(q) + 1, g[n + 1])
       PROVE  Filed(r, g, n + 1)
  <2>1. BlocksTo(r, l + 1) = n + 1
    BY <1>8, <1>12
  <2>2. j \in 1..(l + 1) /\ TellsAs(r, j, l + 1, g[BlocksTo(r, l + 1)])
    BY <1>4, <1>5, <1>12, <2>1
  <2>3. \A i \in 1..Len(r) :
          /\ r[i] = [x \in ElementFields |-> r[i][x]]
          /\ r[i].id \in P!Blocks => \E k \in 1..i : TellsAs(r, k, i, g[BlocksTo(r, i)])
    BY <1>5, <1>6, <1>9, <1>10, <2>2
  <2>4. BlocksTo(r, Len(r)) = n + 1
    BY <1>5, <2>1
  <2>. QED BY <1>5, <2>3, <2>4 DEF Filed
<1>. QED BY <1>11, <1>12

\* An element is replaced by one of its kind.
LEMMA FiledAs ==
  ASSUME NEW q, NEW g, NEW n, Filed(q, g, n), NEW h, NEW e, e = [x \in ElementFields |-> e[x]],
         e.id = q[h].id, e.v = q[h].v \/ e.id = "Info",
         NEW r, Replaced(q, h, e, r)
  PROVE  Filed(r, g, n) /\ Len(r) = Len(q) /\ Len(q) \in Nat
         /\ \A i \in 1..Len(q) : r[i].id = q[i].id /\ (q[i].id # "Info" => r[i].v = q[i].v)
<1>1. PICK l : l = Len(q)
  OBVIOUS
<1>2. IsSeq(r) /\ Len(r) = l /\ l \in Nat
  BY <1>1, ReplaceIsSeq DEF Filed
<1>3. ASSUME NEW i \in 1..l PROVE r[i] = IF i = h THEN e ELSE q[i]
  <2>1. PICK S : q \in Seq(S)
    BY DEF Filed, IsSeq
  <2>2. i \in DOMAIN q
    BY <1>1, <2>1
  <2>. QED BY <2>2 DEF Replaced
<1>4. \A i \in 1..l : r[i].id = q[i].id /\ (q[i].id # "Info" => r[i].v = q[i].v)
  BY <1>3
<1>5. ASSUME NEW i \in 1..l
      PROVE  /\ r[i] = [x \in ElementFields |-> r[i][x]]
             /\ r[i].id \in P!Blocks => \E j \in 1..i : TellsAs(r, j, i, g[BlocksTo(r, i)])
  <2>0. i \in Nat /\ \A k \in 1..i : k \in 1..l
    BY <1>2
  <2>1. \A k \in 1..i : r[k].id = q[k].id /\ (q[k].id # "Info" => r[k].v = q[k].v)
    BY <1>4, <2>0
  <2>2. BlocksTo(r, i) = BlocksTo(q, i)
    BY <2>1, CountsAlike
  <2>3. ASSUME r[i].id \in P!Blocks PROVE \E j \in 1..i : TellsAs(r, j, i, g[BlocksTo(r, i)])
    <3>1. q[i].id \in P!Blocks
      BY <1>4, <2>3
    <3>2. PICK j \in 1..i : TellsAs(q, j, i, g[BlocksTo(q, i)])
      BY <1>1, <3>1 DEF Filed
    <3>3. TellsAs(r, j, i, g[BlocksTo(q, i)])
      BY <2>0, <2>1, <3>1, <3>2, TellsStill
    <3>. QED BY <2>2, <3>3
  <2>4. r[i] = [x \in ElementFields |-> r[i][x]]
    BY <1>1, <1>3 DEF Filed
  <2>. QED BY <2>3, <2>4
<1>6. BlocksTo(r, l) = n
  <2>1. BlocksTo(r, l) = BlocksTo(q, l)
    BY <1>4, CountsAlike
  <2>. QED BY <1>1, <2>1 DEF Filed
<1>. QED BY <1>1, <1>2, <1>4, <1>5, <1>6 DEF Filed

-----------------------------------------------------------------------------
(* The file of a segment *)

\* The cluster at h is the last one of q, and its time is t.
HeadAt(q, h, t) ==
  /\ h \in Nat \ {0} /\ h + 1 <= Len(q)
  /\ q[h].id = "Cluster" /\ q[h + 1].id = "Timecode" /\ q[h + 1].v = t
  /\ \A k \in (h + 1)..Len(q) : q[k].id # "Cluster"

\* The frames that wait are those of g after the first n.
Queued(frames, g, n) ==
  /\ IsSeq(frames) /\ IsSeq(g) /\ n \in Nat /\ Len(g) = n + Len(frames)
  /\ \A i \in 1..Len(frames) : frames[i] = g[n + i]

\* What is gone back for.
Headed(q) == Has(q, "Info") /\ Has(q, "Void")

ClusterFiled(s) ==
  s.clusters # << >> =>
    /\ Current(s).timecode \in Nat
    /\ Current(s).head # 0 => HeadAt(s.file, Current(s).head, Current(s).timecode)

\* The file of s has the first n frames of g, and can be gone on with; z tells
\* whether it can be gone back in.
Filing(s, g, n, z) ==
  /\ Shape(s) /\ Filed(s.file, g, n) /\ ClusterFiled(s)
  /\ s.seekable = z /\ (z /\ s.written => Headed(s.file))

\* Every frame of g is in the file or waits.
Keeping(s, g, z) == \E n \in Nat : Filing(s, g, n, z) /\ Queued(s.frames, g, n)

LEMMA HasAfter ==
  ASSUME NEW q, IsSeq(q), NEW e
  PROVE  \A x : Has(q, x) => Has(Append(q, e), x)
<1>1. PICK S : q \in Seq(S)
  BY DEF IsSeq
<1>2. PICK T : T = S \cup {e}
  OBVIOUS
<1>3. q \in Seq(T) /\ e \in T
  BY <1>1, <1>2, SeqMonotonic
<1>4. \A i \in DOMAIN q : i \in DOMAIN Append(q, e) /\ Append(q, e)[i] = q[i]
  BY <1>3, AppendProperties
<1>. QED BY <1>4 DEF Has

LEMMA HeadAtAfter ==
  ASSUME NEW q, IsSeq(q), NEW h, NEW t, HeadAt(q, h, t), NEW e, e.id # "Cluster"
  PROVE  HeadAt(Append(q, e), h, t)
<1>1. PICK r : r = Append(q, e)
  OBVIOUS
<1>2. PICK S : q \in Seq(S)
  BY DEF IsSeq
<1>3. PICK T : T = S \cup {e}
  OBVIOUS
<1>4. q \in Seq(T) /\ e \in T
  BY <1>2, <1>3, SeqMonotonic
<1>5. PICK l : l = Len(q)
  OBVIOUS
<1>6. l \in Nat /\ Len(r) = l + 1 /\ r[l + 1] = e /\ \A i \in 1..l : r[i] = q[i]
  BY <1>1, <1>4, <1>5, AppendProperties
<1>7. h \in 1..l /\ h + 1 \in 1..l
  BY <1>5, <1>6 DEF HeadAt
<1>8. \A k \in (h + 1)..(l + 1) : k = l + 1 \/ (k \in 1..l /\ k \in (h + 1)..l)
  BY <1>6, <1>7
<1>9. \A k \in (h + 1)..(l + 1) : r[k].id # "Cluster"
  BY <1>5, <1>6, <1>8 DEF HeadAt
<1>10. h + 1 <= l + 1
  BY <1>6, <1>7
<1>. QED BY <1>1, <1>5, <1>6, <1>7, <1>9, <1>10 DEF HeadAt

\* t is s but for what says nothing of its file.
LEMMA FilingSame ==
  ASSUME NEW s, NEW g, NEW n, NEW z, Filing(s, g, n, z), NEW t, t = [x \in SegmentFields |-> t[x]],
         t.file = s.file, t.clusters = s.clusters, t.seekable = s.seekable, t.written = s.written
  PROVE  Filing(t, g, n, z)
<1>1. Current(t) = Current(s)
  BY DEF Current
<1>2. Shape(t)
  BY DEF Filing, Shape
<1>3. ClusterFiled(t)
  BY <1>1 DEF Filing, ClusterFiled
<1>. QED BY <1>2, <1>3 DEF Filing

\* An element that is no block and no cluster.
LEMMA PutFiles ==
  ASSUME NEW s, NEW g, NEW n, NEW z, Filing(s, g, n, z), NEW id, id \notin P!Blocks, id # "Cluster",
         NEW head, NEW size, NEW len, NEW v, NEW t, t = Put(s, id, head, size, len, v)
  PROVE  /\ Filing(t, g, n, z) /\ t.written = s.written
         /\ Has(t.file, id) /\ \A x : Has(s.file, x) => Has(t.file, x)
<1>1. /\ Shape(t) /\ Same(s, t) /\ t.clusters = s.clusters
  BY PutKeeps DEF Filing
<1>2. PICK e : IsElement(e) /\ e.id = id /\ e.v = v /\ t.file = Append(s.file, e) /\ t.seekable = s.seekable
  BY PutElement DEF Filing
<1>3. PICK q : q = s.file
  OBVIOUS
<1>4. PICK r : r = Append(q, e)
  OBVIOUS
<1>5. Filed(q, g, n) /\ IsSeq(q) /\ r = Append(q, e)
  BY <1>3, <1>4 DEF Filing, Filed
<1>6. Filed(r, g, n)
  BY <1>2, <1>5, FiledAfter DEF IsElement
<1>7. \A x : Has(q, x) => Has(r, x)
  BY <1>5, HasAfter
<1>8. \A h, y : HeadAt(q, h, y) => HeadAt(r, h, y)
  BY <1>2, <1>5, HeadAtAfter
<1>9. r[Len(r)] = e /\ Len(r) \in DOMAIN r
  <2>1. IsSeq(r) /\ r[Len(r)] = e /\ Len(r) = Len(q) + 1 /\ Len(q) \in Nat
    BY <1>5, AppendIsSeq
  <2>2. DOMAIN r = 1..Len(r)
    BY <2>1 DEF IsSeq
  <2>. QED BY <2>1, <2>2
<1>10. Has(r, id)
  BY <1>2, <1>9 DEF Has
<1>11. Current(t) = Current(s)
  BY <1>1 DEF Current
<1>12. ClusterFiled(t)
  BY <1>1, <1>2, <1>3, <1>4, <1>8, <1>11 DEF Filing, ClusterFiled
<1>13. Headed(q) => Headed(r)
  BY <1>7 DEF Headed
<1>14. t.written = s.written /\ t.file = r
  BY <1>1, <1>2, <1>3, <1>4 DEF Same
<1>15. Filing(t, g, n, z)
  BY <1>1, <1>2, <1>3, <1>6, <1>12, <1>13, <1>14 DEF Filing
<1>. QED BY <1>3, <1>7, <1>10, <1>14, <1>15

-----------------------------------------------------------------------------
(* A block *)

LEMMA HeadFiled ==
  ASSUME NEW s, Ready(s), NEW g, NEW n, NEW z, Filing(s, g, n, z), NEW t, t = WriteClusterHeader(s)
  PROVE  Filing(t, g, n, z)
<1>1. Further(s, t) /\ HeadPut(s, t)
  BY HeadWritten
<1>2. PICK a, b :
    /\ IsElement(a) /\ a.id = "Cluster"
    /\ IsElement(b) /\ b.id = "Timecode" /\ b.v = Current(s).timecode
    /\ t.file = Append(Append(s.file, a), b)
    /\ Current(t).head = Len(s.file) + 1 /\ Len(s.file) \in Nat
    /\ t.seekable = s.seekable
  BY <1>1 DEF HeadPut
<1>3. PICK q : q = s.file
  OBVIOUS
<1>4. PICK r : r = Append(q, a)
  OBVIOUS
<1>5. PICK w : w = Append(r, b)
  OBVIOUS
<1>6. Filed(q, g, n) /\ IsSeq(q)
  BY <1>3 DEF Filing, Filed
<1>7. a.id \notin P!Blocks /\ b.id \notin P!Blocks
  BY <1>2 DEF P!Blocks
<1>8. Filed(r, g, n) /\ IsSeq(r)
  <2>1. Filed(r, g, n)
    BY <1>2, <1>4, <1>6, <1>7, FiledAfter DEF IsElement
  <2>. QED BY <2>1 DEF Filed
<1>9. Filed(w, g, n)
  BY <1>2, <1>5, <1>7, <1>8, FiledAfter DEF IsElement
<1>10. Headed(q) => Headed(w)
  BY <1>4, <1>5, <1>6, <1>8, HasAfter DEF Headed
<1>11. PICK l : l = Len(q)
  OBVIOUS
<1>12. /\ l \in Nat /\ Len(r) = l + 1 /\ r[l + 1] = a
  BY <1>4, <1>6, <1>11, AppendIsSeq
<1>13. /\ Len(w) = l + 2 /\ w[l + 2] = b /\ w[l + 1] = a
  <2>1. PICK S : r \in Seq(S)
    BY <1>8 DEF IsSeq
  <2>2. PICK T : T = S \cup {b}
    OBVIOUS
  <2>3. r \in Seq(T) /\ b \in T
    BY <2>1, <2>2, SeqMonotonic
  <2>4. Len(w) = Len(r) + 1 /\ w[Len(r) + 1] = b /\ \A i \in 1..Len(r) : w[i] = r[i]
    BY <1>5, <2>3, AppendProperties
  <2>5. l + 1 \in 1..Len(r) /\ Len(r) + 1 = l + 2
    BY <1>12
  <2>. QED BY <1>12, <2>4, <2>5
<1>14. HeadAt(w, l + 1, Current(s).timecode)
  <2>1. \A k \in (l + 2)..(l + 2) : k = l + 2
    BY <1>12
  <2>2. l + 1 \in Nat \ {0} /\ (l + 1) + 1 = l + 2
    BY <1>12
  <2>3. w[l + 1].id = "Cluster" /\ w[l + 2].id = "Timecode" /\ w[l + 2].v = Current(s).timecode
    BY <1>2, <1>13
  <2>4. \A k \in (l + 2)..(l + 2) : w[k].id # "Cluster"
    BY <2>1, <2>3
  <2>5. l + 2 <= Len(w)
    BY <1>12, <1>13
  <2>. QED BY <1>13, <2>2, <2>3, <2>4, <2>5 DEF HeadAt
<1>15. Current(t).timecode = Current(s).timecode /\ Shape(t) /\ t.written = s.written
  BY <1>1 DEF Further, Ready
<1>16. t.file = w /\ Current(t).head = l + 1
  BY <1>2, <1>3, <1>4, <1>5, <1>11
<1>17. ClusterFiled(t)
  BY <1>14, <1>15, <1>16 DEF Filing, ClusterFiled, Ready
<1>. QED BY <1>2, <1>3, <1>9, <1>10, <1>15, <1>16, <1>17 DEF Filing

\* The frame the file comes to, in a cluster that has its head.
LEMMA FrameFiled ==
  ASSUME NEW s, Ready(s), NEW g, NEW n, NEW z, Filing(s, g, n, z), Current(s).head # 0,
         NEW f, f = g[n + 1], f.time \in Nat, NEW rel, rel = f.time - Current(s).timecode,
         NEW t, t = WriteFrame(s, f, rel)
  PROVE  Filing(t, g, n + 1, z)
<1>1. PICK v : v = [id |-> f.id, track |-> f.track, rel |-> rel, key |-> f.key, pad |-> f.pad]
  OBVIOUS
<1>2. PICK id, head, size, len : id \in P!Blocks /\ t = Put(s, id, head, size, len, v)
  BY <1>1 DEF WriteFrame, PutMaster, P!Blocks
<1>3. /\ Shape(t) /\ Same(s, t) /\ t.clusters = s.clusters
  BY <1>2, PutKeeps DEF Filing
<1>4. PICK e : IsElement(e) /\ e.id = id /\ e.v = v /\ t.file = Append(s.file, e) /\ t.seekable = s.seekable
  BY <1>2, PutElement DEF Filing
<1>5. PICK q : q = s.file
  OBVIOUS
<1>6. PICK r : r = Append(q, e)
  OBVIOUS
<1>7. PICK l : l = Len(q)
  OBVIOUS
<1>8. PICK h : h = Current(s).head
  OBVIOUS
<1>9. PICK y : y = Current(s).timecode
  OBVIOUS
<1>10. Filed(q, g, n) /\ IsSeq(q) /\ HeadAt(q, h, y) /\ y \in Nat
  BY <1>5, <1>8, <1>9 DEF Filing, Filed, ClusterFiled, Ready
<1>11. e.id # "Cluster"
  BY <1>2, <1>4 DEF P!Blocks
<1>12. HeadAt(r, h, y)
  BY <1>6, <1>10, <1>11, HeadAtAfter
<1>13. l \in Nat /\ Len(r) = l + 1 /\ r[l + 1] = e
  BY <1>6, <1>7, <1>10, AppendIsSeq
<1>14. TellsAs(r, h, l + 1, f)
  <2>1. h + 1 < l + 1
    BY <1>7, <1>10, <1>13 DEF HeadAt
  <2>2. /\ r[h].id = "Cluster" /\ r[h + 1].id = "Timecode" /\ r[h + 1].v = y
        /\ \A k \in (h + 1)..(l + 1) : r[k].id # "Cluster"
    BY <1>12, <1>13 DEF HeadAt
  <2>3. y + rel = f.time
    BY <1>9, <1>10
  <2>4. r[l + 1].v = v
    BY <1>4, <1>13
  <2>5. v.id = f.id /\ v.track = f.track /\ v.rel = rel /\ v.key = f.key /\ v.pad = f.pad
    BY <1>1
  <2>. QED BY <2>1, <2>2, <2>3, <2>4, <2>5 DEF TellsAs, Given
<1>15. h \in 1..l
  BY <1>7, <1>10, <1>13 DEF HeadAt
<1>16. Filed(r, g, n + 1)
  <2>1. \E j \in 1..Len(q) : TellsAs(r, j, Len(q) + 1, g[n + 1])
    BY <1>7, <1>14, <1>15
  <2>. QED BY <1>2, <1>4, <1>6, <1>10, <2>1, FiledAfter DEF IsElement
<1>17. Headed(q) => Headed(r)
  BY <1>6, <1>10, HasAfter DEF Headed
<1>18. Current(t) = Current(s)
  BY <1>3 DEF Current
<1>19. ClusterFiled(t)
  BY <1>3, <1>4, <1>5, <1>6, <1>8, <1>9, <1>10, <1>12, <1>18 DEF ClusterFiled
<1>. QED BY <1>3, <1>4, <1>5, <1>6, <1>16, <1>17, <1>19 DEF Filing, Same

\* In any cluster that can take a block; one that is refused is no frame of the file.
LEMMA AddFiled ==
  ASSUME NEW s, Ready(s), s.ok, NEW g, NEW n, NEW z, Filing(s, g, n, z),
         NEW f, f = g[n + 1], f.time \in Nat, IsValid(f), NEW t, t = ClusterAddFrame(s, f), t.ok
  PROVE  Filing(t, g, n + 1, z)
<1>1. PICK a : a = IF Current(s).head = 0 THEN WriteClusterHeader(s) ELSE s
  OBVIOUS
<1>2. /\ Further(s, a) /\ Current(a).head # 0 /\ Filing(a, g, n, z)
  <2>1. CASE Current(s).head = 0
    BY <1>1, <2>1, HeadWritten, HeadFiled
  <2>2. CASE Current(s).head # 0
    BY <1>1, <2>2 DEF Further
  <2>. QED BY <2>1, <2>2
<1>3. Ready(a) /\ Current(a).timecode = Current(s).timecode
  BY <1>2 DEF Further
<1>4. PICK rel : rel = f.time - Current(s).timecode
  OBVIOUS
<1>5. PICK b : b = WriteFrame(a, f, rel)
  OBVIOUS
<1>6. Filing(b, g, n + 1, z)
  <2>1. rel = f.time - Current(a).timecode
    BY <1>3, <1>4
  <2>. QED BY <1>2, <1>3, <1>5, <2>1, FrameFiled
<1>7. Further(a, b)
  BY <1>3, <1>5, FrameWritten
<1>8. PICK c : c = [Current(b) EXCEPT !.payload = Current(b).payload + Last(b.file).len,
                                      !.blocks = Current(b).blocks + 1]
  OBVIOUS
<1>9. t = IF rel \in 0..MaxBlockTimecode THEN SetCurrent(b, c) ELSE [a EXCEPT !.ok = FALSE]
  BY <1>1, <1>4, <1>5, <1>8 DEF ClusterAddFrame, Ready, Fail
<1>10. rel \in 0..MaxBlockTimecode
  <2>. SUFFICES ASSUME rel \notin 0..MaxBlockTimecode PROVE FALSE
    OBVIOUS
  <2>1. ~t.ok
    BY <1>3, <1>9 DEF Ready, Shape, SegmentFields
  <2>. QED BY <2>1
<1>11. t = [b EXCEPT !.clusters[Len(b.clusters)] = c]
  BY <1>9, <1>10 DEF SetCurrent
<1>12. /\ t = [x \in SegmentFields |-> t[x]] /\ t.clusters = [b.clusters EXCEPT ![Len(b.clusters)] = c]
       /\ \A x \in SegmentFields \ {"clusters"} : t[x] = b[x]
  BY <1>7, <1>11 DEF Further, Ready, Shape, SegmentFields
<1>13. IsSeq(t.clusters) /\ t.clusters # << >> /\ Current(t) = c
  <2>1. PICK q : q = b.clusters
    OBVIOUS
  <2>2. t.clusters = [q EXCEPT ![Len(q)] = c] /\ IsSeq(q) /\ q # << >>
    BY <1>7, <1>12, <2>1 DEF Further, Ready, Shape
  <2>. QED BY <2>2, CurrentIs
<1>14. c.head = Current(b).head /\ c.timecode = Current(b).timecode
  BY <1>7, <1>8 DEF Further, Ready, ClusterFields
<1>15. /\ t.file = b.file /\ t.written = b.written /\ t.seekable = b.seekable
  BY <1>12 DEF SegmentFields
<1>16. Shape(t)
  BY <1>6, <1>12, <1>13, <1>15 DEF Filing, Shape
<1>17. b.clusters # << >>
  BY <1>7 DEF Further, Ready
<1>18. ClusterFiled(t)
  BY <1>6, <1>13, <1>14, <1>15, <1>17 DEF Filing, ClusterFiled
<1>. QED BY <1>6, <1>15, <1>16, <1>18 DEF Filing

LEMMA WrittenFiled ==
  ASSUME NEW s, Ready(s), s.ok, NEW g, NEW n, NEW z, Filing(s, g, n, z),
         NEW f, f = g[n + 1], f.time \in Nat, IsValid(f), NEW t, t = Written(s, f), t.ok
  PROVE  Filing(t, g, n + 1, z)
<1>1. PICK a : a = ClusterAddFrame(s, f)
  OBVIOUS
<1>2. t = IF a.ok THEN AddCuePoint(a, f) ELSE a
  BY <1>1 DEF Written, Then
<1>3. a.ok
  BY <1>2
<1>4. Filing(a, g, n + 1, z)
  BY <1>1, <1>3, AddFiled
<1>5. PICK cues : t = a \/ t = [a EXCEPT !.newCue = FALSE, !.cues = cues]
  BY <1>2 DEF AddCuePoint
<1>6. CASE t = [a EXCEPT !.newCue = FALSE, !.cues = cues]
  <2>1. /\ t = [x \in SegmentFields |-> t[x]]
        /\ \A x \in SegmentFields \ {"newCue", "cues"} : t[x] = a[x]
    BY <1>4, <1>6 DEF Filing, Shape, SegmentFields
  <2>2. t.file = a.file /\ t.clusters = a.clusters /\ t.seekable = a.seekable /\ t.written = a.written
    BY <2>1 DEF SegmentFields
  <2>. QED BY <1>4, <2>1, <2>2, FilingSame
<1>. QED BY <1>4, <1>5, <1>6

\* t is s with the times of the last frames changed.
LEMMA NotedFiled ==
  ASSUME NEW a, NEW g, NEW n, NEW z, Filing(a, g, n, z), NEW y, NEW m, NEW t, t = [a EXCEPT !.last = y, !.lastOf = m]
  PROVE  Filing(t, g, n, z)
<1>1. /\ t = [x \in SegmentFields |-> t[x]]
      /\ \A x \in SegmentFields \ {"last", "lastOf"} : t[x] = a[x]
  BY DEF Filing, Shape, SegmentFields
<1>2. t.file = a.file /\ t.clusters = a.clusters /\ t.seekable = a.seekable /\ t.written = a.written
  BY <1>1 DEF SegmentFields
<1>. QED BY <1>1, <1>2, FilingSame

LEMMA QueuedFiled ==
  ASSUME NEW s, Ready(s), s.ok, NEW g, NEW n, NEW z, Filing(s, g, n, z),
         NEW f, f = g[n + 1], f.time \in Nat, IsValid(f), NEW t, t = WriteQueued(s, f), t.ok
  PROVE  Filing(t, g, n + 1, z)
<1>1. PICK a : a = Written(s, f)
  OBVIOUS
<1>2. t = IF a.ok /\ f.time > a.last THEN [a EXCEPT !.last = f.time, !.lastOf[f.track] = f.time] ELSE a
  BY <1>1 DEF WriteQueued, Then
<1>3. a.ok
  BY <1>2
<1>4. Filing(a, g, n + 1, z)
  BY <1>1, <1>3, WrittenFiled
<1>5. CASE f.time > a.last
  <2>1. PICK m : m = [a.lastOf EXCEPT ![f.track] = f.time]
    OBVIOUS
  <2>2. t = [a EXCEPT !.last = f.time, !.lastOf = m]
    BY <1>2, <1>3, <1>4, <1>5, <2>1 DEF Filing, Shape, SegmentFields
  <2>3. PICK y : y = f.time
    OBVIOUS
  <2>4. t = [a EXCEPT !.last = y, !.lastOf = m]
    BY <2>2, <2>3
  <2>5. PICK p : p = n + 1
    OBVIOUS
  <2>6. Filing(a, g, p, z)
    BY <1>4, <2>5
  <2>7. Filing(t, g, p, z)
    BY <2>4, <2>6, NotedFiled
  <2>. QED BY <2>5, <2>7
<1>6. CASE ~(f.time > a.last)
  BY <1>2, <1>4, <1>6
<1>. QED BY <1>5, <1>6

-----------------------------------------------------------------------------
(* The frames that wait are written *)

\* What is left of them after the first k.
LEMMA QueuedAfter ==
  ASSUME NEW q, NEW g, NEW n, Queued(q, g, n), NEW k \in 0..Len(q), NEW r, r = SubSeq(q, k + 1, Len(q))
  PROVE  Queued(r, g, n + k)
<1>1. PICK l : l = Len(q)
  OBVIOUS
<1>2. PICK S : q \in Seq(S)
  BY DEF Queued, IsSeq
<1>3. l \in Nat /\ k \in 0..l /\ n \in Nat
  BY <1>1, <1>2 DEF Queued
<1>4. \A i \in (k + 1)..l : q[i] \in S
  BY <1>1, <1>2, <1>3
<1>5. r = SubSeq(q, k + 1, l)
  BY <1>1
<1>6. r \in Seq(S) /\ Len(r) = l - k /\ \A i \in 1..(l - k) : r[i] = q[k + i]
  <2>1. r \in Seq(S)
    BY <1>3, <1>4, <1>5, SubSeqProperties
  <2>2. Len(r) = IF k + 1 <= l THEN l - (k + 1) + 1 ELSE 0
    BY <1>3, <1>4, <1>5, SubSeqProperties
  <2>3. \A i \in 1..(l - (k + 1) + 1) : r[i] = q[(k + 1) + i - 1]
    BY <1>3, <1>4, <1>5, SubSeqProperties
  <2>4. \A i \in 1..(l - k) : i \in 1..(l - (k + 1) + 1) /\ (k + 1) + i - 1 = k + i
    BY <1>3
  <2>5. Len(r) = l - k
    BY <1>3, <2>2
  <2>6. \A i \in 1..(l - k) : r[i] = q[k + i]
    BY <2>3, <2>4
  <2>. QED BY <2>1, <2>5, <2>6
<1>7. IsSeq(r)
  BY <1>6 DEF IsSeq
<1>8. ASSUME NEW i \in 1..(l - k) PROVE r[i] = g[(n + k) + i]
  <2>1. k + i \in 1..l /\ n + (k + i) = (n + k) + i
    BY <1>3
  <2>2. q[k + i] = g[n + (k + i)]
    BY <1>1, <2>1 DEF Queued
  <2>. QED BY <1>6, <2>1, <2>2
<1>9. Len(g) = (n + k) + (l - k) /\ n + k \in Nat
  BY <1>1, <1>3 DEF Queued
<1>. QED BY <1>6, <1>7, <1>8, <1>9 DEF Queued

LEMMA FirstFiled ==
  ASSUME NEW s, Ready(s), s.ok, NEW k \in Nat, k <= Len(s.frames), NEW m \in Nat, s.last \in Nat, s.last <= m,
         Sound(s, k, m), NEW g, NEW z, Keeping(s, g, z), NEW t, t = WriteFirst(s, k), t.ok
  PROVE  Keeping(t, g, z)
<1>1. PICK w : /\ w[0] = s
               /\ \A i \in 1..k : w[i] = WriteQueued(w[i - 1], s.frames[i])
               /\ t = IF w[k].ok
                      THEN [w[k] EXCEPT !.frames = SubSeq(w[k].frames, k + 1, Len(w[k].frames))]
                      ELSE w[k]
  BY WriteFirstSteps
<1>2. PICK n \in Nat : Filing(s, g, n, z) /\ Queued(s.frames, g, n)
  BY DEF Keeping
<1>0. Len(s.frames) \in Nat
  BY <1>2, LenIsNatural DEF Queued
<1>. DEFINE Fine(i) ==
              w[i].ok => Further(s, w[i]) /\ w[i].last \in Nat /\ Filing(w[i], g, n + i, z)
            Bad == {i \in 0..k : ~Fine(i)}
<1>3. Fine(0)
  <2>1. n + 0 = n
    BY <1>2
  <2>2. w[0].ok => Further(s, w[0])
    BY <1>1 DEF Further
  <2>. QED BY <1>1, <1>2, <2>1, <2>2
<1>4. ASSUME NEW i \in 1..k, Fine(i - 1) PROVE Fine(i)
  <2>1. PICK a : a = w[i - 1]
    OBVIOUS
  <2>2. PICK f : f = s.frames[i]
    OBVIOUS
  <2>3. PICK b : b = w[i]
    OBVIOUS
  <2>4. b = WriteQueued(a, f)
    BY <1>1, <2>1, <2>2, <2>3
  <2>5. CASE ~a.ok
    <3>1. b = a
      BY <2>4, <2>5 DEF WriteQueued, Written, Then
    <3>. QED BY <2>3, <2>5, <3>1
  <2>6. CASE a.ok
    <3>. SUFFICES ASSUME b.ok PROVE Further(s, b) /\ b.last \in Nat /\ Filing(b, g, n + i, z)
      BY <2>3
    <3>1. Further(s, a) /\ a.last \in Nat /\ Filing(a, g, n + (i - 1), z)
      BY <1>4, <2>1, <2>6
    <3>2. Ready(a)
      BY <3>1 DEF Further
    <3>3. IsValid(f) /\ f.time \in Nat
      BY <2>2 DEF Sound
    <3>4. IF f.time - Current(a).timecode \in 0..MaxBlockTimecode
          THEN Further(a, b) /\ b.ok /\ Current(b).head # 0 /\ b.last \in {a.last, f.time}
          ELSE ~b.ok
      BY <2>4, <2>6, <3>1, <3>2, <3>3, QueuedIs
    <3>5. Further(s, b) /\ b.last \in Nat
      BY <3>1, <3>3, <3>4 DEF Further
    <3>6. PICK j : j = n + (i - 1)
      OBVIOUS
    <3>7. j + 1 = n + i /\ i \in 1..Len(s.frames)
      BY <1>0, <1>2, <3>6
    <3>8. f = g[j + 1]
      BY <1>2, <2>2, <3>7 DEF Queued
    <3>9. Filing(b, g, j + 1, z)
      BY <2>4, <2>6, <3>1, <3>2, <3>3, <3>6, <3>8, QueuedFiled
    <3>. QED BY <3>5, <3>7, <3>9
  <2>. QED BY <2>5, <2>6
<1>. HIDE DEF Fine
<1>5. Bad = {}
  <2>. SUFFICES ASSUME Bad # {} PROVE FALSE
    OBVIOUS
  <2>0. Bad \subseteq Nat
    OBVIOUS
  <2>1. PICK i \in Bad : \A j \in Bad : i <= j
    <3>. HIDE DEF Bad
    <3>. QED BY <2>0, LeastNatural
  <2>2. i \in 1..k /\ i - 1 \in 0..k /\ i - 1 \notin Bad
    BY <1>3, <2>1
  <2>. QED BY <1>4, <2>1, <2>2
<1>6. Fine(k)
  BY <1>5
<1>7. PICK a : a = w[k]
  OBVIOUS
<1>8. a.ok
  BY <1>1, <1>7
<1>9. Further(s, a) /\ Filing(a, g, n + k, z)
  BY <1>6, <1>7, <1>8 DEF Fine
<1>10. PICK q : q = SubSeq(s.frames, k + 1, Len(s.frames))
  OBVIOUS
<1>11. t = [a EXCEPT !.frames = q]
  BY <1>1, <1>7, <1>8, <1>9, <1>10 DEF Further
<1>12. /\ t = [x \in SegmentFields |-> t[x]] /\ t.frames = q
       /\ \A x \in SegmentFields \ {"frames"} : t[x] = a[x]
  BY <1>9, <1>11 DEF Filing, Shape, SegmentFields
<1>13. t.file = a.file /\ t.clusters = a.clusters /\ t.seekable = a.seekable /\ t.written = a.written
  BY <1>12 DEF SegmentFields
<1>14. Filing(t, g, n + k, z)
  BY <1>9, <1>12, <1>13, FilingSame
<1>15. Queued(q, g, n + k)
  <2>1. k \in 0..Len(s.frames)
    BY <1>0
  <2>. QED BY <1>2, <1>10, <2>1, QueuedAfter
<1>16. PICK p : p = n + k
  OBVIOUS
<1>17. p \in Nat /\ Filing(t, g, p, z) /\ Queued(t.frames, g, p)
  BY <1>2, <1>12, <1>14, <1>15, <1>16
<1>. QED BY <1>17 DEF Keeping

-----------------------------------------------------------------------------
(* An element that is written over *)

\* r is q with elements replaced by ones of their kind.
AsBefore(q, r) ==
  /\ IsSeq(q) /\ IsSeq(r) /\ Len(r) = Len(q)
  /\ \A i \in 1..Len(q) : r[i].id = q[i].id /\ (q[i].id # "Info" => r[i].v = q[i].v)

\* e is the element at h of q with its size set.
Sized(q, h, y, e) == e = [q[h] EXCEPT !.size = y]

LEMMA SizedFiled ==
  ASSUME NEW q, NEW g, NEW n, Filed(q, g, n), NEW h, NEW y, NEW e, Sized(q, h, y, e),
         NEW r, Replaced(q, h, e, r)
  PROVE  Filed(r, g, n) /\ AsBefore(q, r)
<1>1. IsSeq(q)
  BY DEF Filed
<1>2. DOMAIN q = 1..Len(q)
  BY <1>1 DEF IsSeq
<1>3. CASE h \in 1..Len(q)
  <2>1. IsElement(q[h])
    BY <1>3 DEF Filed, IsElement
  <2>2. IsElement(e) /\ e.id = q[h].id /\ e.v = q[h].v
    <3>1. PICK o : o = q[h]
      OBVIOUS
    <3>2. o = [x \in ElementFields |-> o[x]] /\ e = [o EXCEPT !.size = y]
      BY <2>1, <3>1 DEF IsElement, Sized
    <3>3. e = [x \in ElementFields |-> e[x]] /\ e.id = o.id /\ e.v = o.v
      BY <3>2 DEF ElementFields
    <3>. QED BY <3>1, <3>3 DEF IsElement
  <2>3. /\ Filed(r, g, n) /\ Len(r) = Len(q)
        /\ \A i \in 1..Len(q) : r[i].id = q[i].id /\ (q[i].id # "Info" => r[i].v = q[i].v)
    BY <2>2, FiledAs DEF IsElement
  <2>4. IsSeq(r)
    BY <2>3 DEF Filed
  <2>. QED BY <1>1, <2>3, <2>4 DEF AsBefore
<1>4. CASE h \notin 1..Len(q)
  <2>1. q = [i \in DOMAIN q |-> q[i]]
    BY <1>1 DEF IsSeq
  <2>2. r = q
    BY <1>2, <1>4, <2>1 DEF Replaced
  <2>. QED BY <1>1, <2>2 DEF AsBefore
<1>. QED BY <1>3, <1>4

LEMMA HeadAtAs ==
  ASSUME NEW q, NEW r, AsBefore(q, r), NEW h, NEW t, HeadAt(q, h, t)
  PROVE  HeadAt(r, h, t)
<1>1. PICK l : l = Len(q)
  OBVIOUS
<1>2. l \in Nat
  BY <1>1, LenIsNatural DEF AsBefore
<1>3. h \in 1..l /\ h + 1 \in 1..l
  BY <1>1, <1>2 DEF HeadAt
<1>4. \A k \in (h + 1)..l : k \in 1..l
  BY <1>3
<1>5. \A i \in 1..l : r[i].id = q[i].id /\ (q[i].id # "Info" => r[i].v = q[i].v)
  BY <1>1 DEF AsBefore
<1>6. q[h + 1].id = "Timecode" /\ q[h].id = "Cluster" /\ q[h + 1].v = t
  BY DEF HeadAt
<1>7. r[h].id = "Cluster" /\ r[h + 1].id = "Timecode" /\ r[h + 1].v = t
  BY <1>3, <1>5, <1>6
<1>8. \A k \in (h + 1)..l : r[k].id # "Cluster"
  BY <1>1, <1>4, <1>5 DEF HeadAt
<1>9. Len(r) = l
  BY <1>1 DEF AsBefore
<1>. QED BY <1>3, <1>7, <1>8, <1>9 DEF HeadAt

LEMMA HasAs ==
  ASSUME NEW q, NEW r, AsBefore(q, r)
  PROVE  \A x : Has(q, x) => Has(r, x)
<1>1. DOMAIN q = 1..Len(q) /\ DOMAIN r = 1..Len(q)
  BY DEF AsBefore, IsSeq
<1>. QED BY <1>1 DEF AsBefore, Has

\* A size of the file of s is set, and clusters are changed but for their time and head.
LEMMA SizeFiles ==
  ASSUME NEW s, NEW g, NEW n, NEW z, Filing(s, g, n, z), NEW h, NEW y, NEW t, t = [s EXCEPT !.file[h].size = y]
  PROVE  Filing(t, g, n, z)
<1>1. PICK q : q = s.file
  OBVIOUS
<1>2. PICK e : e = [q[h] EXCEPT !.size = y]
  OBVIOUS
<1>3. PICK r : r = [q EXCEPT ![h] = e]
  OBVIOUS
<1>4. /\ t = [x \in SegmentFields |-> t[x]] /\ t.file = r
      /\ \A x \in SegmentFields \ {"file"} : t[x] = s[x]
  BY <1>1, <1>2, <1>3 DEF Filing, Shape, SegmentFields
<1>5. Filed(q, g, n)
  BY <1>1 DEF Filing
<1>6. Filed(r, g, n) /\ AsBefore(q, r)
  BY <1>2, <1>3, <1>5, SizedFiled DEF Replaced, Sized
<1>7. t.clusters = s.clusters /\ t.seekable = s.seekable /\ t.written = s.written
  BY <1>4 DEF SegmentFields
<1>8. Current(t) = Current(s)
  BY <1>7 DEF Current
<1>9. ClusterFiled(t)
  BY <1>1, <1>4, <1>6, <1>7, <1>8, HeadAtAs DEF Filing, ClusterFiled
<1>10. Headed(q) => Headed(r)
  BY <1>6, HasAs DEF Headed
<1>11. Shape(t)
  BY <1>4, <1>6, <1>7 DEF Filing, Shape, AsBefore
<1>. QED BY <1>1, <1>4, <1>6, <1>7, <1>9, <1>10, <1>11 DEF Filing

-----------------------------------------------------------------------------
(* A cluster ends and another one begins *)

LEMMA FinalizeFiled ==
  ASSUME NEW s, Ready(s), s.ok, Current(s).head # 0, NEW g, NEW n, NEW z, Filing(s, g, n, z),
         NEW t, t = FinalizeCurrent(s)
  PROVE  Filing(t, g, n, z)
<1>1. PICK c : c = Current(s)
  OBVIOUS
<1>2. PICK d : d = [c EXCEPT !.finalized = TRUE]
  OBVIOUS
<1>3. PICK a : a = SetCurrent(s, d)
  OBVIOUS
<1>4. PICK q : q = s.clusters
  OBVIOUS
<1>5. /\ a = [x \in SegmentFields |-> a[x]] /\ a.clusters = [q EXCEPT ![Len(q)] = d]
      /\ \A x \in SegmentFields \ {"clusters"} : a[x] = s[x]
  BY <1>3, <1>4 DEF SetCurrent, Ready, Shape, SegmentFields
<1>6. IsSeq(a.clusters) /\ a.clusters # << >> /\ Current(a) = d
  <2>1. a.clusters = [q EXCEPT ![Len(q)] = d] /\ IsSeq(q) /\ q # << >>
    BY <1>4, <1>5 DEF Ready, Shape
  <2>. QED BY <2>1, CurrentIs
<1>7. d.timecode = c.timecode /\ d.head = c.head
  BY <1>1, <1>2 DEF Ready, ClusterFields
<1>8. a.file = s.file /\ a.seekable = s.seekable /\ a.written = s.written
  BY <1>5 DEF SegmentFields
<1>9. Shape(a)
  BY <1>5, <1>6, <1>8 DEF Ready, Shape
<1>10. ClusterFiled(a)
  BY <1>1, <1>6, <1>7, <1>8 DEF Filing, ClusterFiled, Ready
<1>11. Filing(a, g, n, z)
  BY <1>8, <1>9, <1>10 DEF Filing
<1>12. t = IF s.seekable THEN [a EXCEPT !.file[c.head].size = c.payload] ELSE a
  BY <1>1, <1>2, <1>3 DEF FinalizeCurrent, FinalizeCluster, Ready
<1>13. CASE s.seekable
  <2>1. PICK h, y : t = [a EXCEPT !.file[h].size = y]
    BY <1>12, <1>13
  <2>. QED BY <1>11, <2>1, SizeFiles
<1>14. CASE ~s.seekable
  BY <1>11, <1>12, <1>14
<1>. QED BY <1>13, <1>14

LEMMA ClusterAddedFiled ==
  ASSUME NEW s, NEW g, NEW n, NEW z, Filing(s, g, n, z), NEW timecode \in Nat, NEW t, t = AddCluster(s, timecode)
  PROVE  Filing(t, g, n, z)
<1>1. PICK c : c = NewCluster(timecode, MaxOffset(s))
  OBVIOUS
<1>2. /\ t = [x \in SegmentFields |-> t[x]] /\ t.clusters = Append(s.clusters, c)
      /\ \A x \in SegmentFields \ {"newCue", "clusters"} : t[x] = s[x]
  BY <1>1 DEF AddCluster, Filing, Shape, SegmentFields
<1>3. IsSeq(t.clusters) /\ Current(t) = c
  <2>1. PICK q : q = s.clusters
    OBVIOUS
  <2>2. PICK r : r = t.clusters
    OBVIOUS
  <2>3. IsSeq(q) /\ r = Append(q, c)
    BY <1>2, <2>1, <2>2 DEF Filing, Shape
  <2>4. IsSeq(r) /\ r[Len(r)] = c
    BY <2>3, AppendIsSeq
  <2>. QED BY <2>2, <2>4 DEF Current
<1>4. t.file = s.file /\ t.seekable = s.seekable /\ t.written = s.written
  BY <1>2 DEF SegmentFields
<1>5. c.timecode = timecode /\ c.head = 0
  BY <1>1 DEF NewCluster
<1>6. ClusterFiled(t)
  BY <1>3, <1>5 DEF ClusterFiled
<1>7. Shape(t)
  BY <1>2, <1>3, <1>4 DEF Filing, Shape
<1>. QED BY <1>4, <1>6, <1>7 DEF Filing

LEMMA LessKept ==
  ASSUME NEW s, NEW m \in Nat, Held(s, m), NEW time \in Nat, m <= time, NEW g, NEW z, Keeping(s, g, z),
         NEW a, a = WriteFramesLessThan(s, time)
  PROVE  Keeping(a, g, z)
<1>1. CASE s.clusters = << >>
  BY <1>1 DEF WriteFramesLessThan
<1>2. CASE s.clusters # << >>
  <2>1. PICK k : k = Followed(s, time)
    OBVIOUS
  <2>2. PICK l : l = Len(s.frames)
    OBVIOUS
  <2>3. k \in Nat /\ l \in Nat /\ k <= l
    <3>1. k = IF s.frames = << >> THEN 0 ELSE l - 1
      BY <2>1, <2>2, FollowedIs DEF Held
    <3>2. l \in Nat /\ (s.frames = << >> <=> l = 0)
      BY <2>2, LenIsNatural DEF Held, Waiting
    <3>. QED BY <3>1, <3>2
  <2>4. a = WriteFirst(s, k)
    BY <1>2, <2>1 DEF WriteFramesLessThan
  <2>5. Sound(s, k, m)
    <3>1. \A i \in 1..k : i \in 1..l
      BY <2>3
    <3>. QED BY <2>2, <3>1 DEF Held, Waiting, Sound
  <2>6. Ready(s) /\ s.ok /\ s.last \in Nat /\ s.last <= m
    BY <1>2 DEF Held, Running
  <2>7. a.ok
    BY LessThanIs DEF Left
  <2>. QED BY <2>2, <2>3, <2>4, <2>5, <2>6, <2>7, FirstFiled
<1>. QED BY <1>1, <1>2

LEMMA NewClusterKept ==
  ASSUME NEW s, NEW m \in Nat, Held(s, m), NEW time \in Nat, m <= time, NEW g, NEW z, Keeping(s, g, z),
         NEW c, c = MakeNewCluster(s, time)
  PROVE  Keeping(c, g, z)
<1>1. PICK a : a = WriteFramesLessThan(s, time)
  OBVIOUS
<1>2. /\ Left(s, m, a)
      /\ IF s.clusters = << >> THEN a = s ELSE Ready(a) /\ Current(a).head # 0 /\ a.clusters # << >>
  BY <1>1, LessThanIs
<1>3. PICK n \in Nat : Filing(a, g, n, z) /\ Queued(a.frames, g, n)
  BY <1>1, LessKept DEF Keeping
<1>4. PICK b : b = FinalizeCurrent(a)
  OBVIOUS
<1>5. b.frames = a.frames /\ b.ok /\ Filing(b, g, n, z)
  <2>1. CASE s.clusters = << >>
    <3>1. b = a
      BY <1>2, <1>4, <2>1 DEF FinalizeCurrent
    <3>. QED BY <1>2, <1>3, <3>1 DEF Left
  <2>2. CASE s.clusters # << >>
    <3>1. Ready(a) /\ Current(a).head # 0 /\ a.ok
      BY <1>2, <2>2 DEF Left
    <3>2. Around(a, b)
      BY <1>4, <3>1, FinalizeIs
    <3>3. Filing(b, g, n, z)
      BY <1>3, <1>4, <3>1, FinalizeFiled
    <3>. QED BY <3>1, <3>2, <3>3 DEF Around
  <2>. QED BY <2>1, <2>2
<1>6. PICK first : first = IF b.frames # << >> /\ b.frames[1].time < time THEN b.frames[1].time ELSE time
  OBVIOUS
<1>7. c = AddCluster(b, first)
  BY <1>1, <1>2, <1>4, <1>5, <1>6 DEF MakeNewCluster, Then, Left
<1>8. first \in Nat
  <2>1. b.frames # << >> => 1 \in 1..Len(b.frames)
    BY <1>2, <1>5, LenIsNatural DEF Left, Waiting
  <2>2. b.frames # << >> => b.frames[1].time \in Nat
    BY <1>2, <1>5, <2>1 DEF Left, Waiting
  <2>. QED BY <1>6, <2>2
<1>9. Filing(c, g, n, z)
  BY <1>5, <1>7, <1>8, ClusterAddedFiled
<1>10. c.frames = b.frames
  <2>1. Shape(b)
    BY <1>5 DEF Filing
  <2>. QED BY <1>7, <2>1, ClusterAdded DEF Around
<1>11. Queued(c.frames, g, n)
  BY <1>3, <1>5, <1>10
<1>. QED BY <1>9, <1>11 DEF Keeping

LEMMA AllKept ==
  ASSUME NEW c, NEW m \in Nat, c.clusters # << >> => Ready(c), c.ok, c.last \in Nat, c.last <= m,
         Waiting(c.frames, m), NEW g, NEW z, Keeping(c, g, z),
         NEW d, d = WriteFramesAll(c), d.ok
  PROVE  Keeping(d, g, z)
<1>1. CASE ~c.queued
  BY <1>1 DEF WriteFramesAll
<1>2. CASE c.queued
  <2>1. PICK k : k = Len(c.frames)
    OBVIOUS
  <2>2. c.clusters # << >>
    <3>. SUFFICES ASSUME c.clusters = << >> PROVE FALSE
      OBVIOUS
    <3>1. d = [c EXCEPT !.ok = FALSE]
      BY <1>2 DEF WriteFramesAll, Fail
    <3>2. Shape(c)
      BY DEF Keeping, Filing
    <3>. QED BY <3>1, <3>2 DEF Shape, SegmentFields
  <2>3. d = WriteFirst(c, k)
    BY <1>2, <2>1, <2>2 DEF WriteFramesAll
  <2>4. k \in Nat /\ k <= Len(c.frames) /\ Sound(c, k, m)
    BY <2>1, LenIsNatural DEF Waiting, Sound
  <2>. QED BY <2>2, <2>3, <2>4, FirstFiled
<1>. QED BY <1>1, <1>2

-----------------------------------------------------------------------------
(* A frame *)

\* Frames that come later say nothing of a file.
LEMMA FiledFurther ==
  ASSUME NEW q, NEW g, NEW n \in Nat, Filed(q, g, n), NEW e, \A i \in 1..n : e[i] = g[i]
  PROVE  Filed(q, e, n)
<1>1. PICK l : l = Len(q)
  OBVIOUS
<1>2. l \in Nat
  BY <1>1, LenIsNatural DEF Filed
<1>3. ASSUME NEW i \in 1..l, q[i].id \in P!Blocks
      PROVE  \E j \in 1..i : TellsAs(q, j, i, e[BlocksTo(q, i)])
  <2>1. BlocksTo(q, i) \in 1..n
    <3>1. BlocksTo(q, i) \in 1..BlocksTo(q, l)
      BY <1>2, <1>3, CountsWithin
    <3>. QED BY <1>1, <3>1 DEF Filed
  <2>2. e[BlocksTo(q, i)] = g[BlocksTo(q, i)]
    BY <2>1
  <2>. QED BY <1>1, <1>3, <2>2 DEF Filed
<1>. QED BY <1>1, <1>3 DEF Filed

\* e is g with f behind it.
Appended(g, f, e) == e = Append(g, f)

LEMMA AppendedIs ==
  ASSUME NEW g, IsSeq(g), NEW f, NEW e, Appended(g, f, e)
  PROVE  /\ IsSeq(e) /\ Len(g) \in Nat /\ Len(e) = Len(g) + 1 /\ e[Len(g) + 1] = f
         /\ \A i \in 1..Len(g) : e[i] = g[i]
<1>1. PICK S : g \in Seq(S)
  BY DEF IsSeq
<1>2. PICK T : T = S \cup {f}
  OBVIOUS
<1>3. g \in Seq(T) /\ f \in T
  BY <1>1, <1>2, SeqMonotonic
<1>. QED BY <1>3, AppendProperties DEF IsSeq, Appended

LEMMA FrameKept ==
  ASSUME NEW d, Ready(d), d.ok, d.frames = << >>, NEW g, NEW z, Keeping(d, g, z), NEW m, NEW f, Coming(f, m),
         NEW a, a = Written(d, f), NEW t, Noted(f, a, t), t.ok
  PROVE  Keeping(t, Append(g, f), z)
<1>1. PICK n \in Nat : Filing(d, g, n, z) /\ Queued(d.frames, g, n)
  BY DEF Keeping
<1>2. PICK e : e = Append(g, f)
  OBVIOUS
<1>3. IsSeq(g) /\ Len(g) = n
  BY <1>1 DEF Queued
<1>4. IsSeq(e) /\ Len(e) = n + 1 /\ e[n + 1] = f /\ \A i \in 1..n : e[i] = g[i]
  <2>1. Appended(g, f, e)
    BY <1>2 DEF Appended
  <2>. QED BY <1>3, <2>1, AppendedIs
<1>5. Filing(d, e, n, z)
  BY <1>1, <1>4, FiledFurther DEF Filing
<1>6. a.ok
  BY DEF Noted
<1>7. IsValid(f) /\ f.time \in Nat
  BY DEF Coming, IsValid
<1>8. Filing(a, e, n + 1, z)
  BY <1>4, <1>5, <1>6, <1>7, WrittenFiled
<1>9. a.frames = << >>
  BY <1>6, <1>7, WrittenIs DEF Further
<1>10. PICK k : k = n + 1
  OBVIOUS
<1>11. PICK y : y = f.time
  OBVIOUS
<1>12. PICK q : q = [a.lastOf EXCEPT ![f.track] = y]
  OBVIOUS
<1>13. t = [a EXCEPT !.last = y, !.lastOf = q]
  BY <1>6, <1>8, <1>11, <1>12 DEF Noted, Filing, Shape, SegmentFields
<1>14. Filing(t, e, k, z)
  BY <1>8, <1>10, <1>13, NotedFiled
<1>15. t.frames = << >>
  BY <1>8, <1>9, <1>13 DEF Filing, Shape, SegmentFields
<1>16. Queued(t.frames, e, k)
  <2>1. Len(<< >>) = 0 /\ IsSeq(<< >>)
    <3>1. << >> \in Seq({}) /\ Len(<< >>) = 0
      OBVIOUS
    <3>. QED BY <3>1 DEF IsSeq
  <2>. QED BY <1>4, <1>10, <1>15, <2>1 DEF Queued
<1>17. k \in Nat
  BY <1>10
<1>. QED BY <1>2, <1>14, <1>16, <1>17 DEF Keeping

LEMMA GenericKept ==
  ASSUME NEW s, NEW m \in Nat, Held(s, m), s.written, NEW f, Coming(f, m), NEW g, NEW z, Keeping(s, g, z),
         NEW u, u = ForceNewCluster(s, f), NEW t, t = WriteGenericFrame(u, f), t.ok
  PROVE  Keeping(t, Append(g, f), z)
<1>1. PICK e : e = DoNewClusterProcessing(u, f)
  OBVIOUS
<1>2. PICK a : a = Written(e, f)
  OBVIOUS
<1>3. PICK calm : calm = [u EXCEPT !.force = FALSE]
  OBVIOUS
<1>4. calm = s
  BY <1>3, ForcedIs
<1>5. e.ok
  BY <1>1 DEF WriteGenericFrame, Then
<1>6. Noted(f, a, t)
  <2>1. Referring(e, f) = f
    BY DEF Referring, Coming
  <2>2. t = IF a.ok THEN [a EXCEPT !.last = f.time, !.lastOf[f.track] = f.time] ELSE a
    BY <1>1, <1>2, <1>5, <2>1 DEF WriteGenericFrame, Then
  <2>. QED BY <2>2 DEF Noted
<1>7. CASE TestFrame(u, f) = 0
  <2>1. e = WriteFramesAll(s)
    <3>1. s.ok
      BY DEF Held
    <3>2. DoNewClusterProcessing(u, f) = Then(calm, WriteFramesAll)
      BY <1>3, <1>7 DEF DoNewClusterProcessing
    <3>. QED BY <1>1, <1>4, <3>1, <3>2 DEF Then
  <2>2. Running(s)
    BY <1>7, TestIs DEF Held
  <2>3. Gone(s, m, e)
    BY <1>5, <2>1, <2>2, AllWritten DEF Held, Running
  <2>4. Keeping(e, g, z)
    BY <1>5, <2>1, <2>2, AllKept DEF Held, Running
  <2>. QED BY <1>2, <1>5, <1>6, <2>3, <2>4, FrameKept DEF Gone
<1>8. CASE TestFrame(u, f) = 1
  <2>0. f.time \in Nat /\ m <= f.time
    BY DEF Coming
  <2>1. PICK c : c = MakeNewCluster(s, f.time)
    OBVIOUS
  <2>2. Left(s, m, c) /\ Ready(c)
    BY <2>0, <2>1, NewClusterIs
  <2>3. Keeping(c, g, z)
    BY <2>0, <2>1, NewClusterKept
  <2>4. e = WriteFramesAll(c)
    <3>1. c.ok
      BY <2>2 DEF Left
    <3>2. DoNewClusterProcessing(u, f) = Then(MakeNewCluster(calm, f.time), WriteFramesAll)
      BY <1>3, <1>8 DEF DoNewClusterProcessing
    <3>. QED BY <1>1, <1>4, <2>1, <3>1, <3>2 DEF Then
  <2>5. c.frames # << >> => c.queued
    BY <2>2 DEF Left, Held
  <2>6. Gone(c, m, e)
    BY <1>5, <2>2, <2>4, <2>5, AllWritten DEF Left
  <2>7. Keeping(e, g, z)
    BY <1>5, <2>2, <2>3, <2>4, AllKept DEF Left
  <2>. QED BY <1>2, <1>5, <1>6, <2>6, <2>7, FrameKept DEF Gone
<1>. QED BY <1>7, <1>8, TestIs

\* t is u with f waiting too.
Enqueued(u, f, t) == t = [u EXCEPT !.frames = Append(u.frames, f), !.queued = TRUE]

LEMMA QueueKept ==
  ASSUME NEW s, NEW m \in Nat, Held(s, m), NEW f, Coming(f, m), NEW g, NEW z, Keeping(s, g, z),
         NEW u, u = ForceNewCluster(s, f), NEW t, Enqueued(u, f, t)
  PROVE  Keeping(t, Append(g, f), z)
<1>1. PICK n \in Nat : Filing(s, g, n, z) /\ Queued(s.frames, g, n)
  BY DEF Keeping
<1>2. PICK q : q = s.frames
  OBVIOUS
<1>3. PICK r : r = Append(q, f)
  OBVIOUS
<1>4. PICK e : e = Append(g, f)
  OBVIOUS
<1>5. /\ u = [x \in SegmentFields |-> u[x]]
      /\ \A x \in SegmentFields \ {"force"} : u[x] = s[x]
  BY ForcedIs
<1>6. /\ t = [x \in SegmentFields |-> t[x]] /\ t.frames = r
      /\ \A x \in SegmentFields \ {"force", "frames", "queued"} : t[x] = s[x]
  BY <1>2, <1>3, <1>5 DEF SegmentFields, Enqueued
<1>7. t.file = s.file /\ t.clusters = s.clusters /\ t.seekable = s.seekable /\ t.written = s.written
  BY <1>6 DEF SegmentFields
<1>8. PICK l : l = Len(q)
  OBVIOUS
<1>9. l \in Nat /\ IsSeq(r) /\ Len(r) = l + 1 /\ r[l + 1] = f /\ \A i \in 1..l : r[i] = q[i]
  <2>1. Appended(q, f, r)
    BY <1>3 DEF Appended
  <2>2. IsSeq(q)
    BY <1>1, <1>2 DEF Queued
  <2>. QED BY <1>8, <2>1, <2>2, AppendedIs
<1>10. PICK k : k = Len(g)
  OBVIOUS
<1>11. k = n + l /\ IsSeq(e) /\ Len(e) = k + 1 /\ e[k + 1] = f /\ \A i \in 1..k : e[i] = g[i]
  <2>1. Appended(g, f, e)
    BY <1>4 DEF Appended
  <2>2. IsSeq(g) /\ k = n + l
    BY <1>1, <1>2, <1>8, <1>10 DEF Queued
  <2>3. /\ IsSeq(e) /\ Len(e) = Len(g) + 1 /\ e[Len(g) + 1] = f
        /\ \A i \in 1..Len(g) : e[i] = g[i]
    BY <2>1, <2>2, AppendedIs
  <2>. QED BY <1>10, <2>2, <2>3
<1>12. \A i \in 1..n : e[i] = g[i]
  <2>1. \A i \in 1..n : i \in 1..k
    <3>1. k = n + l /\ l \in Nat
      BY <1>9, <1>11
    <3>. QED BY <3>1
  <2>. QED BY <1>11, <2>1
<1>13. Filing(t, g, n, z)
  <2>1. t = [y \in SegmentFields |-> t[y]]
    BY <1>6
  <2>2. Filing(s, g, n, z)
    BY <1>1
  <2>. QED BY <1>7, <2>1, <2>2, FilingSame
<1>14. Filing(t, e, n, z)
  BY <1>12, <1>13, FiledFurther DEF Filing
<1>15. ASSUME NEW i \in 1..(l + 1) PROVE r[i] = e[n + i]
  <2>1. CASE i = l + 1
    <3>1. n + i = k + 1
      BY <1>9, <1>11, <2>1
    <3>. QED BY <1>9, <1>11, <2>1, <3>1
  <2>2. CASE i # l + 1
    <3>1. i \in 1..l /\ n + i \in 1..k
      BY <1>9, <1>11, <2>2
    <3>2. q[i] = g[n + i]
      BY <1>1, <1>2, <1>8, <3>1 DEF Queued
    <3>. QED BY <1>9, <1>11, <3>1, <3>2
  <2>. QED BY <2>1, <2>2
<1>16. Len(e) = n + (l + 1)
  BY <1>9, <1>11
<1>17. Queued(r, e, n)
  BY <1>9, <1>11, <1>15, <1>16 DEF Queued
<1>. QED BY <1>4, <1>6, <1>14, <1>17 DEF Keeping

-----------------------------------------------------------------------------
(* The header *)

LEMMA SeekFiled ==
  ASSUME NEW s, NEW g, NEW n, NEW z, Filing(s, g, n, z), NEW id, NEW t, t = AddSeekEntry(s, id)
  PROVE  Filing(t, g, n, z) /\ t.written = s.written /\ t.file = s.file /\ t.frames = s.frames
<1>1. PICK y : t = [s EXCEPT !.seeks = y] \/ t = [s EXCEPT !.ok = FALSE]
  BY DEF AddSeekEntry, Fail
<1>2. /\ t = [x \in SegmentFields |-> t[x]]
      /\ \A x \in SegmentFields \ {"seeks", "ok"} : t[x] = s[x]
  BY <1>1 DEF Filing, Shape, SegmentFields
<1>3. /\ t.file = s.file /\ t.clusters = s.clusters /\ t.seekable = s.seekable /\ t.written = s.written
      /\ t.frames = s.frames
  BY <1>2 DEF SegmentFields
<1>4. Filing(t, g, n, z)
  BY <1>2, <1>3, FilingSame
<1>. QED BY <1>3, <1>4

LEMMA HeaderFiled ==
  ASSUME NEW s, NEW g, NEW n, NEW z, Filing(s, g, n, z), NEW t, t = CheckHeaderInfo(s)
  PROVE  Filing(t, g, n, z)
<1>1. CASE s.written
  BY <1>1 DEF CheckHeaderInfo
<1>2. CASE ~s.written
  <2>0. \A id \in {"EBML", "Segment", "Void", "Info", "Tracks", "Tags"} : id \notin P!Blocks /\ id # "Cluster"
    BY DEF P!Blocks
  <2>1. PICK a : a = PutMaster(s, "EBML", EbmlHeaderSize([docType |-> 4, version |-> 4]), 0)
    OBVIOUS
  <2>2. Filing(a, g, n, z)
    BY <2>0, <2>1, PutFiles DEF PutMaster
  <2>3. PICK b : b = Put(a, "Segment", 12, Unknown, 12, 0)
    OBVIOUS
  <2>4. Filing(b, g, n, z)
    BY <2>0, <2>2, <2>3, PutFiles
  <2>5. PICK y : y = FileEnd(b.file)
    OBVIOUS
  <2>6. PICK c : c = [b EXCEPT !.payload = y]
    OBVIOUS
  <2>7. Filing(c, g, n, z)
    <3>1. /\ c = [x \in SegmentFields |-> c[x]]
          /\ \A x \in SegmentFields \ {"payload"} : c[x] = b[x]
      BY <2>4, <2>6 DEF Filing, Shape, SegmentFields
    <3>2. c.file = b.file /\ c.clusters = b.clusters /\ c.seekable = b.seekable /\ c.written = b.written
      BY <3>1 DEF SegmentFields
    <3>. QED BY <2>4, <3>1, <3>2, FilingSame
  <2>8. PICK d : d = PutVoid(c)
    OBVIOUS
  <2>9. Filing(d, g, n, z) /\ (z => Has(d.file, "Void"))
    <3>1. CASE c.seekable
      BY <2>0, <2>7, <2>8, <3>1, PutFiles DEF PutVoid
    <3>2. CASE ~c.seekable
      BY <2>7, <2>8, <3>2 DEF PutVoid, Filing
    <3>. QED BY <3>1, <3>2
  <2>10. PICK e : e = AddSeekEntry(d, "Info")
    OBVIOUS
  <2>11. Filing(e, g, n, z) /\ e.file = d.file
    BY <2>9, <2>10, SeekFiled
  <2>12. PICK f : f = PutInfo(e)
    OBVIOUS
  <2>13. Filing(f, g, n, z) /\ (z => Headed(f.file))
    BY <2>0, <2>9, <2>11, <2>12, PutFiles DEF PutInfo, PutMaster, Headed
  <2>14. PICK h : h = AddSeekEntry(f, "Tracks")
    OBVIOUS
  <2>15. Filing(h, g, n, z) /\ h.file = f.file
    BY <2>13, <2>14, SeekFiled
  <2>16. PICK i : i = PutTracks(h)
    OBVIOUS
  <2>17. Filing(i, g, n, z) /\ (z => Headed(i.file))
    <3>1. PICK head, size, len, v : i = Put(h, "Tracks", head, size, len, v)
      BY <2>16 DEF PutTracks, PutMaster
    <3>2. Filing(i, g, n, z) /\ \A x : Has(h.file, x) => Has(i.file, x)
      BY <2>0, <2>15, <3>1, PutFiles
    <3>. QED BY <2>13, <2>15, <3>2 DEF Headed
  <2>18. PICK j : j = PutTags(i)
    OBVIOUS
  <2>19. Filing(j, g, n, z) /\ (z => Headed(j.file))
    <3>1. CASE i.tags
      <4>1. PICK k : k = AddSeekEntry(i, "Tags")
        OBVIOUS
      <4>2. Filing(k, g, n, z) /\ k.file = i.file
        BY <2>17, <4>1, SeekFiled
      <4>3. PICK head, size, len, v : j = Put(k, "Tags", head, size, len, v)
        BY <2>18, <3>1, <4>1 DEF PutTags, PutMaster
      <4>4. Filing(j, g, n, z) /\ \A x : Has(k.file, x) => Has(j.file, x)
        BY <2>0, <4>2, <4>3, PutFiles
      <4>. QED BY <2>17, <4>2, <4>4 DEF Headed
    <3>2. CASE ~i.tags
      BY <2>17, <2>18, <3>2 DEF PutTags
    <3>. QED BY <3>1, <3>2
  <2>20. PICK k : k = [j EXCEPT !.written = TRUE]
    OBVIOUS
  <2>21. Filing(k, g, n, z)
    <3>1. /\ k = [x \in SegmentFields |-> k[x]]
          /\ \A x \in SegmentFields \ {"written"} : k[x] = j[x]
      BY <2>19, <2>20 DEF Filing, Shape, SegmentFields
    <3>2. k.file = j.file /\ k.clusters = j.clusters /\ k.seekable = j.seekable
      BY <3>1 DEF SegmentFields
    <3>3. Current(k) = Current(j)
      BY <3>2 DEF Current
    <3>4. Shape(k)
      BY <2>19, <3>1, <3>2 DEF Filing, Shape
    <3>5. ClusterFiled(k)
      BY <2>19, <3>2, <3>3 DEF Filing, ClusterFiled
    <3>. QED BY <2>19, <3>2, <3>4, <3>5 DEF Filing
  <2>22. WriteSegmentHeader(s) = k
    BY <2>1, <2>3, <2>5, <2>6, <2>8, <2>10, <2>12, <2>14, <2>16, <2>18, <2>20
       DEF WriteSegmentHeader, Start, PutHead
  <2>23. PICK l : l = AddSeekEntry(k, "Cluster")
    OBVIOUS
  <2>24. Filing(l, g, n, z)
    BY <2>21, <2>23, SeekFiled
  <2>25. PICK x : x = CuesTrack(l)
    OBVIOUS
  <2>26. t = [l EXCEPT !.cuesTrack = x]
    BY <1>2, <2>22, <2>23, <2>25 DEF CheckHeaderInfo
  <2>27. /\ t = [w \in SegmentFields |-> t[w]]
         /\ \A w \in SegmentFields \ {"cuesTrack"} : t[w] = l[w]
    BY <2>24, <2>26 DEF Filing, Shape, SegmentFields
  <2>28. t.file = l.file /\ t.clusters = l.clusters /\ t.seekable = l.seekable /\ t.written = l.written
    BY <2>27 DEF SegmentFields
  <2>. QED BY <2>24, <2>27, <2>28, FilingSame
<1>. QED BY <1>1, <1>2

LEMMA AddKept ==
  ASSUME NEW s, NEW m \in Nat, Held(s, m), NEW f, Coming(f, m), f.track \in DOMAIN s.tracks,
         NEW g, NEW z, Keeping(s, g, z), NEW t, t = AddGenericFrame(s, f), t.ok
  PROVE  Keeping(t, Append(g, f), z)
<1>0. f.time \in Nat /\ m <= f.time
  BY DEF Coming
<1>1. PICK v : v = [s EXCEPT !.ok = TRUE]
  OBVIOUS
<1>2. v = s
  BY <1>1 DEF Held, Shape, SegmentFields
<1>3. PICK h : h = CheckHeaderInfo(s)
  OBVIOUS
<1>4. /\ Shape(h) /\ h.written /\ h.tracks = s.tracks /\ h.frames = s.frames /\ h.queued = s.queued
      /\ h.force = s.force /\ h.clusters = s.clusters /\ h.ok = s.ok /\ h.last = s.last
  BY <1>3, HeaderKeeps DEF Held
<1>5. Current(h) = Current(s)
  BY <1>4 DEF Current
<1>6. Held(h, m)
  BY <1>4, <1>5 DEF Held, Running, Ready, Reached
<1>7. Keeping(h, g, z)
  BY <1>3, <1>4, HeaderFiled DEF Keeping
<1>8. PICK u : u = ForceNewCluster(h, f)
  OBVIOUS
<1>9. t = QueueOrWrite(u, f)
  <2>1. h.ok /\ ~(f.time < h.last \/ f.track \notin DOMAIN h.tracks)
    BY <1>0, <1>4, <1>6 DEF Held
  <2>2. AddGenericFrame(s, f) = IF h.ok
                                THEN IF f.time < h.last \/ f.track \notin DOMAIN h.tracks THEN Fail(h)
                                     ELSE QueueOrWrite(u, f)
                                ELSE h
    BY <1>1, <1>2, <1>3, <1>8 DEF AddGenericFrame, Then
  <2>. QED BY <2>1, <2>2
<1>10. CASE t = [u EXCEPT !.frames = Append(u.frames, f), !.queued = TRUE]
  BY <1>6, <1>7, <1>8, <1>10, QueueKept DEF Enqueued
<1>11. CASE t = WriteGenericFrame(u, f)
  BY <1>4, <1>6, <1>7, <1>8, <1>11, GenericKept
<1>. QED BY <1>9, <1>10, <1>11 DEF QueueOrWrite

-----------------------------------------------------------------------------
(* The end of the recording *)

\* Every frame of g is in the file or waits, and what is gone back for is there.
Stored(s, g) == Shape(s) /\ \E n \in Nat : Filed(s.file, g, n) /\ Queued(s.frames, g, n)
Ending(s, g) == Stored(s, g) /\ (s.seekable => Headed(s.file))

LEMMA KeptIsStored ==
  ASSUME NEW s, NEW g, NEW z, Keeping(s, g, z)
  PROVE  Stored(s, g) /\ (s.seekable => s.written) => Ending(s, g)
BY DEF Keeping, Filing, Stored, Ending

LEMMA StoredIs ==
  ASSUME NEW s, NEW g, NEW z, Keeping(s, g, z)
  PROVE  Stored(s, g)
BY DEF Keeping, Filing, Stored

LEMMA FlushKept ==
  ASSUME NEW s, NEW m \in Nat, Held(s, m), NEW g, NEW z, Keeping(s, g, z), s.seekable => s.written,
         NEW t, t = FlushFrames(s), t.ok
  PROVE  Ending(t, g)
<1>1. PICK a : a = WriteFramesAll(s)
  OBVIOUS
<1>2. t = IF a.ok THEN FinalizeCurrent(a) ELSE a
  BY <1>1 DEF FlushFrames, Then
<1>3. a.ok
  BY <1>2
<1>4. Keeping(a, g, z)
  BY <1>1, <1>3, AllKept DEF Held, Running
<1>5. PICK n \in Nat : Filing(a, g, n, z) /\ Queued(a.frames, g, n)
  BY <1>4 DEF Keeping
<1>6. s.seekable = z
  BY DEF Keeping, Filing
<1>7. CASE s.clusters = << >>
  <2>1. a = s
    <3>1. CASE s.queued
      <4>1. a = [s EXCEPT !.ok = FALSE]
        BY <1>1, <1>7, <3>1 DEF WriteFramesAll, Fail
      <4>. QED BY <1>3, <4>1 DEF Held, Shape, SegmentFields
    <3>2. CASE ~s.queued
      BY <1>1, <3>2 DEF WriteFramesAll
    <3>. QED BY <3>1, <3>2
  <2>2. t = s
    BY <1>2, <1>3, <1>7, <2>1 DEF FinalizeCurrent
  <2>. QED BY <1>5, <1>6, <2>1, <2>2 DEF Ending, Stored, Filing
<1>8. CASE s.clusters # << >>
  <2>1. Running(s)
    BY <1>8 DEF Held
  <2>2. Ready(a) /\ a.written = s.written
    <3>1. a.ok => Gone(s, m, a)
      BY <1>1, <2>1, AllWritten DEF Held, Running
    <3>. QED BY <1>3, <3>1 DEF Gone
  <2>3. t = FinalizeCluster(a)
    BY <1>2, <1>3, <2>2 DEF FinalizeCurrent, Ready
  <2>4. Current(a).head # 0
    <3>. SUFFICES ASSUME Current(a).head = 0 PROVE FALSE
      OBVIOUS
    <3>1. t = [a EXCEPT !.ok = FALSE]
      BY <2>3 DEF FinalizeCluster, Fail
    <3>. QED BY <2>2, <3>1 DEF Ready, Shape, SegmentFields
  <2>5. t = FinalizeCurrent(a)
    BY <1>2, <1>3
  <2>6. Filing(t, g, n, z)
    BY <1>3, <1>5, <2>2, <2>4, <2>5, FinalizeFiled
  <2>7. t.frames = a.frames /\ t.written = a.written
    BY <1>3, <2>2, <2>4, <2>5, FinalizeIs DEF Around
  <2>. QED BY <1>5, <1>6, <2>2, <2>6, <2>7 DEF Ending, Stored, Filing
<1>. QED BY <1>7, <1>8

\* The first element of its kind is one of that kind.
LEMMA IndexIs ==
  ASSUME NEW s, IsSeq(s.file), NEW x, Has(s.file, x)
  PROVE  IndexOf(s, x) \in 1..Len(s.file) /\ s.file[IndexOf(s, x)].id = x
<1>1. DOMAIN s.file = 1..Len(s.file)
  BY DEF IsSeq
<1>2. \E i \in DOMAIN s.file : s.file[i].id = x
  BY DEF Has
<1>. QED BY <1>1, <1>2 DEF IndexOf

\* e is the element at h of q with another value.
Valued(q, h, y, e) == e = [q[h] EXCEPT !.v = y]

LEMMA DurationKept ==
  ASSUME NEW s, NEW g, Ending(s, g), NEW t, t = SetDuration(s)
  PROVE  Ending(t, g)
<1>1. CASE t = s
  BY <1>1
<1>2. CASE t # s
  <2>1. PICK y : s.seekable /\ t = [s EXCEPT !.file[IndexOf(s, "Info")].v = y]
    BY <1>2 DEF SetDuration
  <2>2. PICK h : h = IndexOf(s, "Info")
    OBVIOUS
  <2>3. PICK q : q = s.file
    OBVIOUS
  <2>4. PICK e : Valued(q, h, y, e)
    BY DEF Valued
  <2>5. PICK r : r = [q EXCEPT ![h] = e]
    OBVIOUS
  <2>6. /\ t = [x \in SegmentFields |-> t[x]] /\ t.file = r
        /\ \A x \in SegmentFields \ {"file"} : t[x] = s[x]
    BY <2>1, <2>2, <2>3, <2>4, <2>5 DEF Ending, Stored, Shape, SegmentFields, Valued
  <2>7. PICK n \in Nat : Filed(q, g, n) /\ Queued(s.frames, g, n)
    BY <2>3 DEF Ending, Stored
  <2>8. h \in 1..Len(q) /\ q[h].id = "Info"
    BY <2>1, <2>2, <2>3, IndexIs DEF Ending, Stored, Shape, Headed
  <2>9. IsElement(e) /\ e.id = "Info"
    <3>1. PICK o : o = q[h]
      OBVIOUS
    <3>2. o = [x \in ElementFields |-> o[x]] /\ e = [o EXCEPT !.v = y] /\ o.id = "Info"
      BY <2>4, <2>7, <2>8, <3>1 DEF Filed, Valued
    <3>3. e = [x \in ElementFields |-> e[x]] /\ e.id = o.id
      BY <3>2 DEF ElementFields
    <3>. QED BY <3>2, <3>3 DEF IsElement
  <2>10. /\ Filed(r, g, n) /\ Len(r) = Len(q)
         /\ \A i \in 1..Len(q) : r[i].id = q[i].id /\ (q[i].id # "Info" => r[i].v = q[i].v)
    <3>1. Replaced(q, h, e, r)
      BY <2>5 DEF Replaced
    <3>. QED BY <2>7, <2>8, <2>9, <3>1, FiledAs DEF IsElement
  <2>11. IsSeq(q) /\ IsSeq(r)
    BY <2>7, <2>10 DEF Filed
  <2>12. AsBefore(q, r)
    BY <2>10, <2>11 DEF AsBefore
  <2>13. Headed(q) => Headed(r)
    BY <2>12, HasAs DEF Headed
  <2>14. t.frames = s.frames /\ t.seekable = s.seekable /\ t.clusters = s.clusters
    BY <2>6 DEF SegmentFields
  <2>15. Shape(t)
    BY <2>6, <2>11, <2>14 DEF Ending, Stored, Shape
  <2>. QED BY <2>3, <2>6, <2>7, <2>10, <2>13, <2>14, <2>15 DEF Ending, Stored
<1>. QED BY <1>1, <1>2

LEMMA CuesKept ==
  ASSUME NEW s, NEW g, Ending(s, g), NEW t, t = PutCues(s)
  PROVE  Ending(t, g)
<1>1. PICK a : a = AddSeekEntry(s, "Cues")
  OBVIOUS
<1>2. Ending(a, g)
  <2>1. PICK y : a = [s EXCEPT !.seeks = y] \/ a = [s EXCEPT !.ok = FALSE]
    BY <1>1 DEF AddSeekEntry, Fail
  <2>2. /\ a = [x \in SegmentFields |-> a[x]]
        /\ \A x \in SegmentFields \ {"seeks", "ok"} : a[x] = s[x]
    BY <2>1 DEF Ending, Stored, Shape, SegmentFields
  <2>3. a.file = s.file /\ a.clusters = s.clusters /\ a.seekable = s.seekable /\ a.frames = s.frames
    BY <2>2 DEF SegmentFields
  <2>. QED BY <2>2, <2>3 DEF Ending, Stored, Shape
<1>3. t = IF a.ok THEN WriteCues(a) ELSE a
  BY <1>1 DEF PutCues, Then
<1>4. CASE a.ok
  <2>1. PICK head, size, len, v : t = Put(a, "Cues", head, size, len, v)
    BY <1>3, <1>4 DEF WriteCues, PutMaster
  <2>2. Shape(t) /\ Same(a, t)
    BY <1>2, <2>1, PutKeeps DEF Ending, Stored
  <2>3. PICK e : IsElement(e) /\ e.id = "Cues" /\ t.file = Append(a.file, e) /\ t.seekable = a.seekable
    BY <1>2, <2>1, PutElement DEF Ending, Stored
  <2>4. PICK n \in Nat : Filed(a.file, g, n) /\ Queued(a.frames, g, n)
    BY <1>2 DEF Ending, Stored
  <2>5. PICK q : q = a.file
    OBVIOUS
  <2>6. PICK r : r = Append(q, e)
    OBVIOUS
  <2>7. Filed(r, g, n)
    BY <2>3, <2>4, <2>5, <2>6, FiledAfter DEF IsElement, P!Blocks
  <2>8. Headed(q) => Headed(r)
    BY <2>4, <2>5, <2>6, HasAfter DEF Headed, Filed
  <2>9. t.file = r /\ t.frames = a.frames
    BY <2>2, <2>3, <2>5, <2>6 DEF Same
  <2>. QED BY <1>2, <2>2, <2>3, <2>4, <2>5, <2>7, <2>8, <2>9 DEF Ending, Stored
<1>5. CASE ~a.ok
  BY <1>2, <1>3, <1>5
<1>. QED BY <1>4, <1>5

LEMMA SegmentSizeKept ==
  ASSUME NEW s, NEW g, Stored(s, g), NEW t, t = SetSegmentSize(s)
  PROVE  Stored(t, g)
<1>1. CASE t = s
  BY <1>1
<1>2. CASE t # s
  <2>1. PICK h, y : t = [s EXCEPT !.file[h].size = y]
    BY <1>2 DEF SetSegmentSize
  <2>2. PICK q : q = s.file
    OBVIOUS
  <2>3. PICK e : Sized(q, h, y, e)
    BY DEF Sized
  <2>4. PICK r : r = [q EXCEPT ![h] = e]
    OBVIOUS
  <2>5. /\ t = [x \in SegmentFields |-> t[x]] /\ t.file = r
        /\ \A x \in SegmentFields \ {"file"} : t[x] = s[x]
    BY <2>1, <2>2, <2>3, <2>4 DEF Stored, Shape, SegmentFields, Sized
  <2>6. PICK n \in Nat : Filed(q, g, n) /\ Queued(s.frames, g, n)
    BY <2>2 DEF Stored
  <2>7. Filed(r, g, n) /\ AsBefore(q, r)
    BY <2>3, <2>4, <2>6, SizedFiled DEF Replaced
  <2>8. t.frames = s.frames /\ t.clusters = s.clusters
    BY <2>5 DEF SegmentFields
  <2>9. Shape(t)
    BY <2>5, <2>7, <2>8 DEF Stored, Shape, AsBefore
  <2>. QED BY <2>5, <2>6, <2>7, <2>8, <2>9 DEF Stored
<1>. QED BY <1>1, <1>2

-----------------------------------------------------------------------------
(* The seek head takes the place of the first bytes of a Void *)

\* r is q with a and b for the element at h.
Split(q, h, a, b, r) == r = SubSeq(q, 1, h - 1) \o <<a, b>> \o SubSeq(q, h + 1, Len(q))

LEMMA SplitIs ==
  ASSUME NEW q, IsSeq(q), NEW h \in 1..Len(q), NEW a, NEW b, NEW r, Split(q, h, a, b, r)
  PROVE  /\ IsSeq(r) /\ Len(q) \in Nat /\ Len(r) = Len(q) + 1 /\ r[h] = a /\ r[h + 1] = b
         /\ \A i \in 1..(h - 1) : r[i] = q[i]
         /\ \A i \in (h + 1)..Len(q) : r[i + 1] = q[i]
<1>1. PICK S : q \in Seq(S)
  BY DEF IsSeq
<1>2. PICK T : T = S \cup {a, b}
  OBVIOUS
<1>3. q \in Seq(T) /\ <<a, b>> \in Seq(T)
  BY <1>1, <1>2, SeqMonotonic
<1>4. PICK l : l = Len(q)
  OBVIOUS
<1>5. l \in Nat /\ h \in 1..l
  BY <1>3, <1>4
<1>6. PICK x : x = SubSeq(q, 1, h - 1)
  OBVIOUS
<1>7. PICK w : w = SubSeq(q, h + 1, l)
  OBVIOUS
<1>8. x \in Seq(T) /\ Len(x) = h - 1 /\ \A i \in 1..(h - 1) : x[i] = q[i]
  <2>1. \A i \in 1..(h - 1) : q[i] \in T
    BY <1>3, <1>4, <1>5
  <2>2. x \in Seq(T) /\ Len(x) = IF 1 <= h - 1 THEN (h - 1) - 1 + 1 ELSE 0
    BY <1>5, <1>6, <2>1, SubSeqProperties
  <2>3. \A i \in 1..((h - 1) - 1 + 1) : x[i] = q[1 + i - 1]
    BY <1>5, <1>6, <2>1, SubSeqProperties
  <2>4. Len(x) = h - 1
    BY <1>5, <2>2
  <2>5. \A i \in 1..(h - 1) : i \in 1..((h - 1) - 1 + 1) /\ 1 + i - 1 = i
    BY <1>5
  <2>. QED BY <2>2, <2>3, <2>4, <2>5
<1>9. w \in Seq(T) /\ Len(w) = l - h /\ \A i \in 1..(l - h) : w[i] = q[h + i]
  <2>1. \A i \in (h + 1)..l : q[i] \in T
    BY <1>3, <1>4, <1>5
  <2>2. w \in Seq(T) /\ Len(w) = IF h + 1 <= l THEN l - (h + 1) + 1 ELSE 0
    BY <1>5, <1>7, <2>1, SubSeqProperties
  <2>3. \A i \in 1..(l - (h + 1) + 1) : w[i] = q[(h + 1) + i - 1]
    BY <1>5, <1>7, <2>1, SubSeqProperties
  <2>4. Len(w) = l - h
    BY <1>5, <2>2
  <2>5. \A i \in 1..(l - h) : i \in 1..(l - (h + 1) + 1) /\ (h + 1) + i - 1 = h + i
    BY <1>5
  <2>. QED BY <2>2, <2>3, <2>4, <2>5
<1>10. PICK y : y = x \o <<a, b>>
  OBVIOUS
<1>11. y \in Seq(T) /\ Len(y) = h + 1 /\ y[h] = a /\ y[h + 1] = b /\ \A i \in 1..(h - 1) : y[i] = x[i]
  <2>1. y \in Seq(T) /\ Len(y) = Len(x) + Len(<<a, b>>)
    BY <1>3, <1>8, <1>10, ConcatProperties
  <2>2. \A i \in 1..Len(x) + Len(<<a, b>>) : y[i] = IF i <= Len(x) THEN x[i] ELSE <<a, b>>[i - Len(x)]
    BY <1>3, <1>8, <1>10, ConcatProperties
  <2>3. Len(<<a, b>>) = 2 /\ <<a, b>>[1] = a /\ <<a, b>>[2] = b
    OBVIOUS
  <2>4. \A i \in 1..(h + 1) : y[i] = IF i <= h - 1 THEN x[i] ELSE <<a, b>>[i - (h - 1)]
    BY <1>5, <1>8, <2>2, <2>3
  <2>5. h \in 1..(h + 1) /\ h + 1 \in 1..(h + 1) /\ h - (h - 1) = 1 /\ (h + 1) - (h - 1) = 2
    BY <1>5
  <2>6. y[h] = a
    BY <1>5, <2>3, <2>4, <2>5
  <2>7. y[h + 1] = b
    BY <1>5, <2>3, <2>4, <2>5
  <2>8. \A i \in 1..(h - 1) : y[i] = x[i]
    BY <1>5, <2>4
  <2>. QED BY <1>5, <1>8, <2>1, <2>3, <2>6, <2>7, <2>8
<1>12. r = y \o w
  BY <1>4, <1>6, <1>7, <1>10 DEF Split
<1>13. r \in Seq(T) /\ Len(r) = Len(y) + Len(w)
  BY <1>9, <1>11, <1>12, ConcatProperties
<1>14. \A i \in 1..Len(y) + Len(w) : r[i] = IF i <= Len(y) THEN y[i] ELSE w[i - Len(y)]
  BY <1>9, <1>11, <1>12, ConcatProperties
<1>15. Len(y) + Len(w) = l + 1
  BY <1>5, <1>9, <1>11
<1>16. \A i \in 1..(l + 1) : r[i] = IF i <= h + 1 THEN y[i] ELSE w[i - (h + 1)]
  BY <1>11, <1>14, <1>15
<1>17. r[h] = a /\ r[h + 1] = b
  <2>1. h \in 1..(l + 1) /\ h + 1 \in 1..(l + 1) /\ h <= h + 1
    BY <1>5
  <2>. QED BY <1>5, <1>11, <1>16, <2>1
<1>18. \A i \in 1..(h - 1) : r[i] = q[i]
  <2>1. \A i \in 1..(h - 1) : i \in 1..(l + 1) /\ i <= h + 1
    BY <1>5
  <2>. QED BY <1>8, <1>11, <1>16, <2>1
<1>19. ASSUME NEW i \in (h + 1)..l PROVE r[i + 1] = q[i]
  <2>1. /\ i + 1 \in 1..(l + 1) /\ ~(i + 1 <= h + 1) /\ (i + 1) - (h + 1) = i - h
        /\ i - h \in 1..(l - h) /\ h + (i - h) = i
    BY <1>5
  <2>2. r[i + 1] = w[i - h]
    BY <1>16, <2>1
  <2>. QED BY <1>9, <2>1, <2>2
<1>20. IsSeq(r)
  BY <1>13 DEF IsSeq
<1>21. Len(r) = l + 1
  BY <1>13, <1>15
<1>. QED BY <1>4, <1>5, <1>17, <1>18, <1>19, <1>20, <1>21

\* r is q with two elements for the one at h, none of them a block or of a cluster.
Parted(q, h, r) ==
  /\ Len(q) \in Nat /\ h \in 1..Len(q) /\ Len(r) = Len(q) + 1
  /\ q[h].id = "Void" /\ r[h].id = "SeekHead" /\ r[h + 1].id = "Void"
  /\ \A i \in 1..(h - 1) : r[i] = q[i]
  /\ \A i \in (h + 1)..Len(q) : r[i + 1] = q[i]

LEMMA PartedCounts ==
  ASSUME NEW q, NEW h, NEW r, Parted(q, h, r)
  PROVE  /\ \A k \in 1..(h - 1) : BlocksTo(r, k) = BlocksTo(q, k)
         /\ \A k \in h..Len(q) : BlocksTo(r, k + 1) = BlocksTo(q, k)
<1>1. PICK l : l = Len(q)
  OBVIOUS
<1>2. l \in Nat /\ h \in 1..l
  BY <1>1 DEF Parted
<1>3. ASSUME NEW k \in 0..(h - 1) PROVE BlocksTo(r, k) = BlocksTo(q, k)
  <2>1. \A j \in 1..k : j \in 1..(h - 1)
    BY <1>2
  <2>2. \A j \in 1..k : r[j].id = q[j].id
    BY <2>1 DEF Parted
  <2>. QED BY <2>2, CountsAlike
<1>. DEFINE Bad == {k \in h..l : BlocksTo(r, k + 1) # BlocksTo(q, k)}
<1>4. BlocksTo(r, h + 1) = BlocksTo(q, h)
  <2>1. h - 1 \in Nat /\ (h - 1) + 1 = h /\ h \in Nat
    BY <1>2
  <2>2. q[h].id \notin P!Blocks /\ r[h].id \notin P!Blocks /\ r[h + 1].id \notin P!Blocks
    BY DEF Parted, P!Blocks
  <2>3. BlocksTo(q, h) = BlocksTo(q, h - 1)
    <3>1. BlocksTo(q, (h - 1) + 1) = IF q[(h - 1) + 1].id \in P!Blocks THEN BlocksTo(q, h - 1) + 1 ELSE BlocksTo(q, h - 1)
      BY <2>1, CountsOne
    <3>. QED BY <2>1, <2>2, <3>1
  <2>4. BlocksTo(r, h) = BlocksTo(r, h - 1)
    <3>1. BlocksTo(r, (h - 1) + 1) = IF r[(h - 1) + 1].id \in P!Blocks THEN BlocksTo(r, h - 1) + 1 ELSE BlocksTo(r, h - 1)
      BY <2>1, CountsOne
    <3>. QED BY <2>1, <2>2, <3>1
  <2>5. BlocksTo(r, h + 1) = BlocksTo(r, h)
    <3>1. BlocksTo(r, h + 1) = IF r[h + 1].id \in P!Blocks THEN BlocksTo(r, h) + 1 ELSE BlocksTo(r, h)
      BY <2>1, CountsOne
    <3>. QED BY <2>2, <3>1
  <2>6. h - 1 \in 0..(h - 1)
    BY <1>2
  <2>. QED BY <1>3, <2>3, <2>4, <2>5, <2>6
<1>5. ASSUME NEW k \in (h + 1)..l, BlocksTo(r, k) = BlocksTo(q, k - 1)
      PROVE  BlocksTo(r, k + 1) = BlocksTo(q, k)
  <2>1. k \in Nat /\ k - 1 \in Nat /\ (k - 1) + 1 = k
    BY <1>2
  <2>2. r[k + 1] = q[k]
    BY <1>1 DEF Parted
  <2>3. BlocksTo(r, k + 1) = IF r[k + 1].id \in P!Blocks THEN BlocksTo(r, k) + 1 ELSE BlocksTo(r, k)
    BY <2>1, CountsOne
  <2>4. BlocksTo(q, (k - 1) + 1) = IF q[(k - 1) + 1].id \in P!Blocks THEN BlocksTo(q, k - 1) + 1 ELSE BlocksTo(q, k - 1)
    BY <2>1, CountsOne
  <2>. QED BY <1>5, <2>1, <2>2, <2>3, <2>4
<1>6. Bad = {}
  <2>. SUFFICES ASSUME Bad # {} PROVE FALSE
    OBVIOUS
  <2>0. Bad \subseteq Nat
    BY <1>2
  <2>1. PICK k \in Bad : \A j \in Bad : k <= j
    <3>. HIDE DEF Bad
    <3>. QED BY <2>0, LeastNatural
  <2>2. k # h
    BY <1>4
  <2>3. k \in (h + 1)..l /\ k - 1 \in h..l /\ k - 1 \notin Bad /\ (k - 1) + 1 = k
    BY <1>2, <2>1, <2>2
  <2>4. BlocksTo(r, k) = BlocksTo(q, k - 1)
    BY <2>3
  <2>. QED BY <1>5, <2>3, <2>4
<1>7. \A k \in h..l : BlocksTo(r, k + 1) = BlocksTo(q, k)
  BY <1>6
<1>8. \A k \in 1..(h - 1) : k \in 0..(h - 1)
  BY <1>2
<1>. QED BY <1>1, <1>3, <1>7, <1>8

LEMMA PartedTells ==
  ASSUME NEW q, NEW h, NEW r, Parted(q, h, r), NEW p \in (h + 1)..Len(q), NEW j \in 1..p, NEW f, TellsAs(q, j, p, f)
  PROVE  \E o \in 1..(p + 1) : TellsAs(r, o, p + 1, f)
<1>1. PICK l : l = Len(q)
  OBVIOUS
<1>2. l \in Nat /\ h \in 1..l /\ p \in (h + 1)..l
  BY <1>1 DEF Parted
<1>3. /\ j \in 1..p /\ j + 1 < p /\ q[j].id = "Cluster" /\ q[j + 1].id = "Timecode"
      /\ \A k \in (j + 1)..p : q[k].id # "Cluster"
  BY DEF TellsAs
<1>4. j # h /\ j + 1 # h
  BY <1>3 DEF Parted
<1>5. PICK o : o = IF j < h THEN j ELSE j + 1
  OBVIOUS
<1>6. o \in 1..(p + 1) /\ o + 1 < p + 1
  BY <1>2, <1>3, <1>5
<1>7. r[o] = q[j] /\ r[o + 1] = q[j + 1]
  <2>1. CASE j < h
    <3>1. j \in 1..(h - 1) /\ j + 1 \in 1..(h - 1)
      BY <1>2, <1>3, <1>4, <2>1
    <3>. QED BY <1>5, <2>1, <3>1 DEF Parted
  <2>2. CASE ~(j < h)
    <3>1. j \in (h + 1)..l /\ j + 1 \in (h + 1)..l
      BY <1>2, <1>3, <1>4, <2>2
    <3>. QED BY <1>1, <1>5, <2>2, <3>1 DEF Parted
  <2>. QED BY <2>1, <2>2
<1>8. r[p + 1] = q[p]
  BY <1>1, <1>2 DEF Parted
<1>9. ASSUME NEW k \in (o + 1)..(p + 1) PROVE r[k].id # "Cluster"
  <2>1. CASE k < h
    <3>1. k \in 1..(h - 1) /\ k \in (j + 1)..p
      BY <1>2, <1>3, <1>5, <2>1
    <3>. QED BY <1>3, <3>1 DEF Parted
  <2>2. CASE k = h \/ k = h + 1
    BY <2>2 DEF Parted
  <2>3. CASE k > h + 1
    <3>1. k - 1 \in (h + 1)..l /\ (k - 1) + 1 = k /\ k - 1 \in (j + 1)..p
      BY <1>2, <1>3, <1>4, <1>5, <2>3
    <3>2. r[(k - 1) + 1] = q[k - 1]
      BY <1>1, <3>1 DEF Parted
    <3>. QED BY <1>3, <3>1, <3>2
  <2>. QED BY <1>2, <1>3, <1>5, <2>1, <2>2, <2>3
<1>10. [id |-> q[p].v.id, track |-> q[p].v.track, time |-> q[j + 1].v + q[p].v.rel,
        key |-> q[p].v.key, pad |-> q[p].v.pad] = Given(f)
  BY DEF TellsAs
<1>11. TellsAs(r, o, p + 1, f)
  BY <1>3, <1>6, <1>7, <1>8, <1>9, <1>10 DEF TellsAs
<1>. QED BY <1>6, <1>11

LEMMA PartedFiled ==
  ASSUME NEW q, NEW g, NEW n, Filed(q, g, n), NEW h, NEW r, IsSeq(r), Parted(q, h, r),
         IsElement(r[h]), IsElement(r[h + 1])
  PROVE  Filed(r, g, n)
<1>1. PICK l : l = Len(q)
  OBVIOUS
<1>2. l \in Nat /\ h \in 1..l /\ Len(r) = l + 1
  BY <1>1 DEF Parted
<1>3. /\ \A k \in 1..(h - 1) : BlocksTo(r, k) = BlocksTo(q, k)
      /\ \A k \in h..l : BlocksTo(r, k + 1) = BlocksTo(q, k)
  BY <1>1, PartedCounts
<1>4. ASSUME NEW i \in 1..l
      PROVE  /\ q[i] = [x \in ElementFields |-> q[i][x]]
             /\ q[i].id \in P!Blocks => \E j \in 1..i : TellsAs(q, j, i, g[BlocksTo(q, i)])
  BY <1>1 DEF Filed
<1>5. ASSUME NEW i \in 1..(l + 1)
      PROVE  /\ r[i] = [x \in ElementFields |-> r[i][x]]
             /\ r[i].id \in P!Blocks => \E j \in 1..i : TellsAs(r, j, i, g[BlocksTo(r, i)])
  <2>1. CASE i < h
    <3>1. i \in 1..l /\ i \in Nat /\ i \in 1..(h - 1) /\ \A k \in 1..i : k \in 1..(h - 1)
      BY <1>2, <2>1
    <3>2. r[i] = q[i] /\ \A k \in 1..i : r[k] = q[k]
      BY <3>1 DEF Parted
    <3>3. ASSUME r[i].id \in P!Blocks PROVE \E j \in 1..i : TellsAs(r, j, i, g[BlocksTo(r, i)])
      <4>1. PICK j \in 1..i : TellsAs(q, j, i, g[BlocksTo(q, i)])
        BY <1>4, <3>1, <3>2, <3>3
      <4>2. TellsAs(r, j, i, g[BlocksTo(q, i)])
        BY <3>1, <3>2, <3>3, <4>1, TellsStill
      <4>. QED BY <1>3, <3>1, <4>2
    <3>. QED BY <1>4, <3>1, <3>2, <3>3
  <2>2. CASE i = h \/ i = h + 1
    BY <2>2 DEF Parted, P!Blocks, IsElement
  <2>3. CASE i > h + 1
    <3>1. PICK p : p = i - 1
      OBVIOUS
    <3>2. p \in (h + 1)..l /\ p + 1 = i /\ p \in 1..l /\ p \in h..l
      BY <1>2, <2>3, <3>1
    <3>3. r[i] = q[p]
      BY <1>1, <3>2 DEF Parted
    <3>4. BlocksTo(r, i) = BlocksTo(q, p)
      BY <1>3, <3>2
    <3>5. ASSUME r[i].id \in P!Blocks PROVE \E j \in 1..i : TellsAs(r, j, i, g[BlocksTo(r, i)])
      <4>1. PICK j \in 1..p : TellsAs(q, j, p, g[BlocksTo(q, p)])
        BY <1>4, <3>2, <3>3, <3>5
      <4>2. \E o \in 1..(p + 1) : TellsAs(r, o, p + 1, g[BlocksTo(q, p)])
        BY <1>1, <3>2, <4>1, PartedTells
      <4>. QED BY <3>2, <3>4, <4>2
    <3>. QED BY <1>4, <3>2, <3>3, <3>5
  <2>. QED BY <1>2, <2>1, <2>2, <2>3
<1>6. BlocksTo(r, l + 1) = n
  <2>1. l \in h..l
    BY <1>2
  <2>. QED BY <1>1, <1>3, <2>1 DEF Filed
<1>. QED BY <1>2, <1>5, <1>6 DEF Filed

\* The seek head for the Void at h, and the Void that is left.
SeekSize(s) == Total([n \in DOMAIN s.seeks |-> EntrySize(s.seeks[n])])
SeekHeadLength(s) == MasterSize("SeekHead", SeekSize(s))
SeekHeadOf(s, h) ==
  Element("SeekHead", s.file[h].at, SeekHeadLength(s) - SeekSize(s), SeekSize(s), SeekHeadLength(s), s.seeks)
RestOf(s, h) ==
  Element("Void", s.file[h].at + SeekHeadLength(s), 2, SeekHeadSpace - SeekHeadLength(s) - 2,
          SeekHeadSpace - SeekHeadLength(s), 0)

LEMMA SeekHeadKept ==
  ASSUME NEW s, NEW g, Ending(s, g), NEW t, t = FinalizeSeekHead(s), t.ok
  PROVE  Stored(t, g)
<1>1. CASE ~s.seekable
  BY <1>1 DEF FinalizeSeekHead, Ending
<1>2. CASE s.seekable
  <2>1. PICK h : h = IndexOf(s, "Void")
    OBVIOUS
  <2>2. PICK q : q = s.file
    OBVIOUS
  <2>3. h \in 1..Len(q) /\ q[h].id = "Void" /\ IsSeq(q)
    BY <1>2, <2>1, <2>2, IndexIs DEF Ending, Stored, Shape, Headed
  <2>4. PICK len : len = SeekHeadLength(s)
    OBVIOUS
  <2>5. PICK a : a = SeekHeadOf(s, h)
    OBVIOUS
  <2>6. PICK b : b = RestOf(s, h)
    OBVIOUS
  <2>7. PICK r : r = SubSeq(q, 1, h - 1) \o <<a, b>> \o SubSeq(q, h + 1, Len(q))
    OBVIOUS
  <2>8. Shape(s)
    BY DEF Ending, Stored
  <2>9. t = IF VoidElementSize(SeekHeadSpace - len) = 0 THEN [s EXCEPT !.ok = FALSE] ELSE [s EXCEPT !.file = r]
    <3>1. FinalizeSeekHead(s) =
            IF ~s.seekable THEN s
            ELSE IF VoidElementSize(SeekHeadSpace - SeekHeadLength(s)) = 0 THEN Fail(s)
            ELSE [s EXCEPT !.file = SubSeq(s.file, 1, IndexOf(s, "Void") - 1)
                                    \o <<SeekHeadOf(s, IndexOf(s, "Void")), RestOf(s, IndexOf(s, "Void"))>>
                                    \o SubSeq(s.file, IndexOf(s, "Void") + 1, Len(s.file))]
      BY DEF FinalizeSeekHead, IndexOf, SeekHeadOf, RestOf, SeekHeadLength, SeekSize
    <3>2. t = IF VoidElementSize(SeekHeadSpace - len) = 0 THEN Fail(s)
              ELSE [s EXCEPT !.file = SubSeq(q, 1, h - 1) \o <<a, b>> \o SubSeq(q, h + 1, Len(q))]
      BY <1>2, <2>1, <2>2, <2>4, <2>5, <2>6, <3>1
    <3>. QED BY <2>7, <3>2 DEF Fail
  <2>10. t = [s EXCEPT !.file = r]
    <3>1. [s EXCEPT !.ok = FALSE].ok = FALSE
      BY <2>8 DEF Shape, SegmentFields
    <3>. QED BY <2>9, <3>1
  <2>11. IsElement(a) /\ IsElement(b) /\ a.id = "SeekHead" /\ b.id = "Void"
    BY <2>5, <2>6 DEF SeekHeadOf, RestOf, Element, IsElement, ElementFields
  <2>12. /\ IsSeq(r) /\ Len(q) \in Nat /\ Len(r) = Len(q) + 1 /\ r[h] = a /\ r[h + 1] = b
         /\ \A i \in 1..(h - 1) : r[i] = q[i]
         /\ \A i \in (h + 1)..Len(q) : r[i + 1] = q[i]
    <3>1. Split(q, h, a, b, r)
      BY <2>7 DEF Split
    <3>. QED BY <2>3, <3>1, SplitIs
  <2>13. Parted(q, h, r)
    BY <2>3, <2>11, <2>12 DEF Parted
  <2>14. PICK n \in Nat : Filed(q, g, n) /\ Queued(s.frames, g, n)
    BY <2>2 DEF Ending, Stored
  <2>15. Filed(r, g, n)
    BY <2>11, <2>12, <2>13, <2>14, PartedFiled
  <2>16. /\ t = [x \in SegmentFields |-> t[x]] /\ t.file = r
         /\ \A x \in SegmentFields \ {"file"} : t[x] = s[x]
    BY <2>8, <2>10 DEF Shape, SegmentFields
  <2>17. t.frames = s.frames /\ t.clusters = s.clusters
    BY <2>16 DEF SegmentFields
  <2>18. Shape(t)
    BY <2>8, <2>12, <2>16, <2>17 DEF Shape
  <2>. QED BY <2>14, <2>15, <2>16, <2>17, <2>18 DEF Stored
<1>. QED BY <1>1, <1>2

\* The next step of the end of the recording, if there is one.
StepTo(s, k, steps, t) == t = IF s.ok /\ k <= steps THEN FinalizeStep(s, k) ELSE s

LEMMA FinalizeKept ==
  ASSUME NEW s, NEW m \in Nat, Held(s, m), NEW g, NEW z, Keeping(s, g, z),
         NEW steps \in 0..FinalizeSteps, NEW t, t = Finalize(s, steps), t.ok
  PROVE  Stored(t, g)
<1>0. Shape(s) /\ s.ok
  BY DEF Held
<1>1. PICK v : v = [s EXCEPT !.ok = TRUE]
  OBVIOUS
<1>2. v = s
  BY <1>0, <1>1 DEF Shape, SegmentFields
<1>3. s.seekable => s.written
  <2>. SUFFICES ASSUME s.seekable, ~s.written PROVE FALSE
    OBVIOUS
  <2>1. t = [s EXCEPT !.ok = FALSE]
    BY DEF Finalize, Fail
  <2>. QED BY <1>0, <2>1 DEF Shape, SegmentFields
<1>4. PICK a : StepTo(v, 1, steps, a)
  BY DEF StepTo
<1>5. PICK b : StepTo(a, 2, steps, b)
  BY DEF StepTo
<1>6. PICK c : StepTo(b, 3, steps, c)
  BY DEF StepTo
<1>7. PICK d : StepTo(c, 4, steps, d)
  BY DEF StepTo
<1>8. StepTo(d, 5, steps, t)
  BY <1>1, <1>3, <1>4, <1>5, <1>6, <1>7 DEF Finalize, StepTo, FinalizeSteps
<1>9. d.ok /\ c.ok /\ b.ok /\ a.ok
  <2>1. d.ok
    BY <1>8 DEF StepTo
  <2>2. c.ok
    BY <1>7, <2>1 DEF StepTo
  <2>3. b.ok
    BY <1>6, <2>2 DEF StepTo
  <2>4. a.ok
    BY <1>5, <2>3 DEF StepTo
  <2>. QED BY <2>1, <2>2, <2>3, <2>4
<1>10. steps \in Int
  BY DEF FinalizeSteps
<1>11. CASE steps = 0
  <2>1. a = s /\ b = s /\ c = s /\ d = s /\ t = s
    BY <1>2, <1>4, <1>5, <1>6, <1>7, <1>8, <1>11 DEF StepTo
  <2>. QED BY <2>1, StoredIs
<1>12. CASE steps # 0
  <2>1. a = FlushFrames(s)
    <3>1. 1 <= steps
      BY <1>12 DEF FinalizeSteps
    <3>. QED BY <1>0, <1>2, <1>4, <3>1 DEF StepTo, FinalizeStep
  <2>2. Ending(a, g)
    BY <1>3, <1>9, <2>1, FlushKept
  <2>3. Ending(b, g)
    <3>1. b = a \/ b = SetDuration(a)
      BY <1>5 DEF StepTo, FinalizeStep
    <3>. QED BY <2>2, <3>1, DurationKept
  <2>4. Ending(c, g)
    <3>1. c = b \/ c = PutCues(b)
      BY <1>6 DEF StepTo, FinalizeStep
    <3>. QED BY <2>3, <3>1, CuesKept
  <2>5. Stored(d, g)
    <3>1. d = c \/ d = FinalizeSeekHead(c)
      BY <1>7 DEF StepTo, FinalizeStep
    <3>. QED BY <1>9, <2>4, <3>1, SeekHeadKept DEF Ending
  <2>6. Stored(t, g)
    <3>1. t = d \/ t = SetSegmentSize(d)
      BY <1>8 DEF StepTo, FinalizeStep
    <3>. QED BY <2>5, <3>1, SegmentSizeKept
  <2>. QED BY <2>6
<1>. QED BY <1>11, <1>12

-----------------------------------------------------------------------------
(* The frames of the recording *)

FramesFiled ==
  /\ RecordingKept
  /\ phase = "record" /\ rec.ok => Keeping(rec, sent, rec.seekable)
  /\ rec.ok => Stored(rec, sent)

LEMMA FiledBegins == Init => FramesFiled
<1>. SUFFICES ASSUME Init PROVE FramesFiled
  OBVIOUS
<1>1. << >> \in Seq({}) /\ Len(<< >>) = 0
  OBVIOUS
<1>2. IsSeq(<< >>)
  BY <1>1 DEF IsSeq
<1>3. PICK seekable, tracks, tags : rec = NewSegment(seekable, tracks, tags)
  BY DEF Init
<1>4. /\ rec = [x \in SegmentFields |-> rec[x]] /\ rec.file = << >> /\ rec.clusters = << >>
      /\ rec.frames = << >> /\ rec.written = FALSE /\ sent = << >>
  BY <1>3 DEF NewSegment, SegmentFields, Init
<1>5. Filed(<< >>, << >>, 0)
  <2>1. BlocksTo(<< >>, 0) = 0
    BY CountsNone
  <2>2. \A i \in 1..0 : FALSE
    OBVIOUS
  <2>. QED BY <1>1, <1>2, <2>1, <2>2 DEF Filed
<1>6. Queued(<< >>, << >>, 0)
  BY <1>1, <1>2 DEF Queued
<1>7. Filing(rec, sent, 0, rec.seekable)
  BY <1>2, <1>4, <1>5 DEF Filing, Shape, ClusterFiled
<1>8. Keeping(rec, sent, rec.seekable)
  BY <1>4, <1>6, <1>7 DEF Keeping
<1>9. Stored(rec, sent)
  BY <1>8, StoredIs
<1>. QED BY <1>8, <1>9, RecordingBegins DEF FramesFiled

LEMMA RecordFiles ==
  ASSUME FramesFiled, RecordFrame, rec'.ok
  PROVE  Keeping(rec', sent', rec'.seekable) /\ Stored(rec', sent')
<1>1. PICK kind \in FrameKinds :
        /\ kind.track \in DOMAIN rec.tracks
        /\ kind.pad => rec.tracks[kind.track] = Audio
        /\ rec.tracks[kind.track] = Audio => kind.key
        /\ rec' = AddGenericFrame(rec, FrameOf(kind))
        /\ sent' = IF rec'.ok THEN Append(sent, FrameOf(kind)) ELSE sent
  BY DEF RecordFrame
<1>2. PICK f : f = FrameOf(kind)
  OBVIOUS
<1>3. PICK m : m = LastTime
  OBVIOUS
<1>4. m \in Nat /\ Held(rec, m) /\ Keeping(rec, sent, rec.seekable)
  BY <1>3 DEF FramesFiled, RecordingKept, Recording, RecordFrame
<1>5. f.track = kind.track /\ f.time = m + kind.step /\ f.pad = kind.pad /\ f.key = kind.key
  BY <1>2, <1>3 DEF FrameOf
<1>6. kind.step \in Nat
  BY KindsAssumption
<1>7. Coming(f, m)
  <2>1. f.time \in Nat /\ m <= f.time
    BY <1>4, <1>5, <1>6
  <2>2. ~f.pad \/ f.key
    BY <1>1, <1>5
  <2>. QED BY <2>1, <2>2 DEF Coming, CanBeSimpleBlock
<1>8. Keeping(rec', Append(sent, f), rec.seekable)
  BY <1>1, <1>2, <1>4, <1>5, <1>7, AddKept
<1>9. Keeping(rec', sent', rec.seekable)
  BY <1>1, <1>2, <1>8
<1>10. rec'.seekable = rec.seekable
  BY <1>9 DEF Keeping, Filing
<1>. QED BY <1>9, <1>10, StoredIs

LEMMA StopFiles ==
  ASSUME FramesFiled, Stop, rec'.ok
  PROVE  Stored(rec', sent')
<1>1. PICK steps \in 0..FinalizeSteps : rec' = Finalize(rec, steps) /\ sent' = sent
  BY DEF Stop, Leave
<1>2. PICK m : m = LastTime
  OBVIOUS
<1>3. m \in Nat /\ Held(rec, m) /\ Keeping(rec, sent, rec.seekable)
  BY <1>2 DEF FramesFiled, RecordingKept, Recording, Stop
<1>4. Stored(rec', sent)
  BY <1>1, <1>3, FinalizeKept
<1>. QED BY <1>1, <1>4

LEMMA FiledStays == FramesFiled /\ [Next]_vars => FramesFiled'
<1>. SUFFICES ASSUME FramesFiled, [Next]_vars PROVE FramesFiled'
  OBVIOUS
<1>0. RecordingKept'
  BY RecordingStays DEF FramesFiled
<1>1. CASE RecordFrame
  BY <1>0, <1>1, RecordFiles DEF FramesFiled
<1>2. CASE Stop
  BY <1>0, <1>2, StopFiles DEF FramesFiled, Stop, Leave
<1>3. CASE LoseEnd
  BY <1>0, <1>3 DEF LoseEnd, Leave, FramesFiled
<1>4. CASE UNCHANGED <<rec, sent>> /\ (phase' = "record" => phase = "record")
  BY <1>0, <1>4 DEF FramesFiled
<1>5. CASE OpenInput
  BY <1>4, <1>5 DEF OpenInput, Return
<1>6. CASE LoadHeaders
  BY <1>4, <1>6 DEF LoadHeaders
<1>7. CASE LoadClusters
  BY <1>4, <1>7 DEF LoadClusters
<1>8. CASE SetUp
  BY <1>4, <1>8 DEF SetUp, Return
<1>9. CASE CopyFrame
  BY <1>4, <1>9 DEF CopyFrame, Return
<1>10. CASE Finish
  BY <1>4, <1>10 DEF Finish, Return
<1>11. CASE UNCHANGED vars
  BY <1>4, <1>11 DEF vars
<1>. QED BY <1>1, <1>2, <1>3, <1>5, <1>6, <1>7, <1>8, <1>9, <1>10, <1>11 DEF Next

LEMMA FiledIsKept == FramesFiled => FramesKept
<1>. SUFFICES ASSUME FramesFiled, rec.ok
              PROVE  /\ Len(sent) = BlocksTo(rec.file, Len(rec.file)) + Len(rec.frames)
                     /\ \A i \in DOMAIN rec.file :
                          rec.file[i].id \in P!Blocks => Told(rec.file, i) = Given(sent[BlocksTo(rec.file, i)])
                     /\ \A k \in DOMAIN rec.frames :
                          rec.frames[k] = sent[BlocksTo(rec.file, Len(rec.file)) + k]
  BY DEF FramesKept
<1>1. PICK n \in Nat : Filed(rec.file, sent, n) /\ Queued(rec.frames, sent, n)
  BY DEF FramesFiled, Stored
<1>2. BlocksTo(rec.file, Len(rec.file)) = n
  BY <1>1 DEF Filed
<1>3. DOMAIN rec.file = 1..Len(rec.file) /\ DOMAIN rec.frames = 1..Len(rec.frames)
  BY <1>1 DEF Filed, Queued, IsSeq
<1>4. ASSUME NEW i \in 1..Len(rec.file), rec.file[i].id \in P!Blocks
      PROVE  Told(rec.file, i) = Given(sent[BlocksTo(rec.file, i)])
  <2>1. PICK j \in 1..i : TellsAs(rec.file, j, i, sent[BlocksTo(rec.file, i)])
    BY <1>1, <1>4 DEF Filed
  <2>2. i \in Nat
    BY <1>1, LenIsNatural DEF Filed
  <2>. QED BY <2>1, <2>2, ToldIs
<1>. QED BY <1>1, <1>2, <1>3, <1>4 DEF Queued

\* Every frame the muxer took is in the file or waits, in the order they came and
\* with the time, the track and the flags it had, and the file tells of no other:
\* at every moment of a recording and after any steps of its end (mkvmuxer.cc,
\* AddGenericFrame, WriteFramesAll, WriteFramesLessThan and Finalize).
THEOREM KeepsFrames == Spec => []FramesKept
<1>. QED BY FiledBegins, FiledStays, FiledIsKept, PTL DEF Spec
=============================================================================
