------------------------------ MODULE WebmParser ------------------------------
(***************************************************************************)
(* mkvparser::Segment and Cluster, as functions on the state p of a segment  *)
(* being read from a file f: a sequence of elements as WebmMuxer lays them   *)
(* out, of which only the first f.total bytes are there, so that the last    *)
(* element may be cut anywhere.                                              *)
(*                                                                         *)
(* A status is "ok", "end" (nothing more), "invalid" (an error), "underflow" *)
(* (E_BUFFER_NOT_FULL: the file ends within a header), or "again" where the  *)
(* code goes round a loop.  Clusters are only read from the first to the     *)
(* last, as the remuxer does; the parts of the parser that seek by cues and  *)
(* load clusters ahead are left out.                                         *)
(***************************************************************************)
EXTENDS WebmElements

Unknown == -1
End(e) == e.at + e.len

\* The element that begins there, and how much of it can be read.
At(f, pos) == f.elements[CHOOSE i \in DOMAIN f.elements : f.elements[i].at = pos]
HasId(f, e) == e.at + IdSize(e.id) <= f.total
HasHead(f, e) == e.at + e.head <= f.total
PayloadEnd(e) == e.at + e.head + e.size

\* EBMLHeader::Parse and Segment::CreateInstance: a size that the file is too
\* short for is none.
CanOpen(f) == \A i \in {1, 2} : i \in DOMAIN f.elements /\ End(f.elements[i]) <= f.total

Open(f) ==
  LET e == f.elements[2]
  IN [start |-> End(e), pos |-> End(e),
      size |-> IF e.size = Unknown \/ PayloadEnd(e) > f.total THEN Unknown ELSE e.size,
      unknown |-> 0, info |-> NotPresent, hasInfo |-> FALSE, tracks |-> << >>, tags |-> FALSE,
      clusters |-> << >>, status |-> "again"]

Ended(f, p, pos) == pos >= f.total \/ (p.size # Unknown /\ pos >= p.start + p.size)
Status(p, status) == [p EXCEPT !.status = status]

---------------------------------------------------------------------------
(* ParseHeaders: one round of its loop, for the elements before the clusters *)

HeadersFinished(p) == Status(p, IF p.hasInfo /\ p.tracks # << >> THEN "ok" ELSE "invalid")

\* An element is read whole or not at all.
ParseHeader(f, p) ==
  IF Ended(f, p, p.pos) THEN HeadersFinished(p)
  ELSE LET e == At(f, p.pos)
           next == [p EXCEPT !.pos = End(e)]
       IN IF ~HasId(f, e) THEN Status(p, "underflow")
          ELSE IF e.id = "Cluster" THEN HeadersFinished(p)
          ELSE IF End(e) > f.total THEN Status(p, "underflow")
          ELSE CASE e.id = "Info" -> [next EXCEPT !.hasInfo = TRUE, !.info = e.v]
                 [] e.id = "Tracks" -> [next EXCEPT !.tracks = e.v]
                 [] e.id = "Tags" -> [next EXCEPT !.tags = TRUE]
                 [] OTHER -> next

---------------------------------------------------------------------------
(* Clusters *)

Blocks == {"SimpleBlock", "BlockGroup"}

\* The end of a cluster, or Unknown.
ClusterStop(at, size) == IF size = Unknown THEN Unknown ELSE at + size
Past(pos, stop) == stop # Unknown /\ pos >= stop

\* What comes at a position in a cluster that ends at stop.
Comes(f, pos, stop) ==
  IF Past(pos, stop) THEN "end"
  ELSE IF pos >= f.total THEN "underflow"
  ELSE LET e == At(f, pos)
       IN IF ~HasId(f, e) THEN "underflow"
          ELSE IF e.id \in {"Cluster", "Cues"} THEN "end"
          ELSE IF ~HasHead(f, e) THEN "underflow"
          ELSE "element"

\* Cluster::HasBlockEntries: a look ahead for the first block, which follows
\* the timecode.  A cluster of known size that the file is too short for is
\* taken to have none.
HasBlockEntries(f, at) ==
  LET e == At(f, at)
      stop == IF e.size = Unknown THEN Unknown ELSE PayloadEnd(e)
      first == Comes(f, End(e), stop)
      second == Comes(f, End(At(f, End(e))), stop)
  IN IF stop > f.total THEN "none"
     ELSE IF first = "end" THEN "none"
     ELSE IF first = "underflow" THEN "underflow"
     ELSE IF second = "end" THEN "none"
     ELSE IF second = "underflow" THEN "underflow"
     ELSE "some"

\* Cluster::Create: nothing of it has been read.
NewParsed(at) == [at |-> at, pos |-> at, size |-> Unknown, timecode |-> NotPresent, entries |-> << >>]

\* Cluster::Load: the timecode, and the size if it is known.
LoadTimecode(f, c) ==
  LET head == At(f, c.at)
      timecode == At(f, End(head))
      stop == IF head.size = Unknown THEN Unknown ELSE PayloadEnd(head)
      next == Comes(f, End(timecode), stop)
  IN IF c.timecode # NotPresent THEN [c |-> c, status |-> "ok"]
     ELSE IF Comes(f, End(head), stop) = "underflow" \/ End(timecode) > f.total \/ next = "underflow"
     THEN [c |-> c, status |-> "underflow"]
     ELSE IF next = "end" THEN [c |-> c, status |-> "invalid"]
     ELSE [c |-> [c EXCEPT !.pos = End(timecode), !.timecode = timecode.v,
                           !.size = IF stop = Unknown THEN Unknown ELSE stop - c.at],
           status |-> "ok"]

\* Cluster::CreateBlock: a group is a key frame if it refers to no other.
CreateBlock(c, e) == [c EXCEPT !.entries = Append(c.entries, e.v), !.pos = End(e)]

\* Mutant: a block that is cut by the end of the file is an error.
ParseClusterWhole(f, before) ==
  LET loaded == LoadTimecode(f, before)
      c == loaded.c
      stop == ClusterStop(c.at, c.size)
      Finish(end) ==
        [c |-> [c EXCEPT !.pos = end, !.size = IF c.size = Unknown THEN end - c.at ELSE c.size],
         status |-> "end"]
  IN IF loaded.status # "ok" THEN loaded
     ELSE IF Past(c.pos, stop) THEN [c |-> c, status |-> "end"]
     ELSE IF c.pos >= f.total THEN Finish(c.pos)
     ELSE CASE Comes(f, c.pos, stop) = "underflow" -> [c |-> c, status |-> "underflow"]
            [] Comes(f, c.pos, stop) = "end" -> Finish(c.pos)
            [] OTHER -> IF End(At(f, c.pos)) > f.total THEN [c |-> c, status |-> "invalid"]
                        ELSE [c |-> CreateBlock(c, At(f, c.pos)), status |-> "ok"]

\* Cluster::Parse: one more block, or the end.  A cluster of unknown size ends
\* where another one or the cues begin, or with the file; a block that the end
\* of the file cuts is left out.
ParseCluster(f, before) ==
  LET loaded == LoadTimecode(f, before)
      c == loaded.c
      stop == ClusterStop(c.at, c.size)
      Finish(end) ==
        [c |-> [c EXCEPT !.pos = end, !.size = IF c.size = Unknown THEN end - c.at ELSE c.size],
         status |-> "end"]
  IN IF loaded.status # "ok" THEN loaded
     ELSE IF Past(c.pos, stop) THEN [c |-> c, status |-> "end"]
     ELSE IF c.pos >= f.total THEN Finish(c.pos)
     ELSE CASE Comes(f, c.pos, stop) = "underflow" -> [c |-> c, status |-> "underflow"]
            [] Comes(f, c.pos, stop) = "end" -> Finish(c.pos)
            [] OTHER -> IF End(At(f, c.pos)) > f.total THEN Finish(f.total)
                        ELSE [c |-> CreateBlock(c, At(f, c.pos)), status |-> "ok"]

---------------------------------------------------------------------------
(* Segment::DoLoadCluster: one round of its loop *)

\* The cluster of unknown size is parsed to its end before the next is looked for.
DoLoadClusterUnknownSize(f, p) ==
  LET parsed == ParseCluster(f, p.clusters[p.unknown])
      q == [p EXCEPT !.clusters[p.unknown] = parsed.c]
  IN CASE parsed.status = "ok" -> Status(q, "again")
       [] parsed.status = "end" ->
            [q EXCEPT !.unknown = 0, !.pos = parsed.c.at + parsed.c.size, !.status = "again"]
       [] OTHER -> Status(q, parsed.status)

\* An element that is no cluster is gone over by its size, even past the end of
\* the file; a cluster without blocks is gone over too, by its size or, when
\* that is unknown, by its head alone.
DoLoadCluster(f, p) ==
  IF p.unknown # 0 THEN DoLoadClusterUnknownSize(f, p)
  ELSE IF Ended(f, p, p.pos) THEN Status(p, "end")
  ELSE LET e == At(f, p.pos)
           found == HasBlockEntries(f, e.at)
           known == e.size # Unknown
       IN IF ~HasHead(f, e) THEN Status(p, "underflow")
          ELSE IF e.id # "Cluster" THEN [p EXCEPT !.pos = End(e), !.status = "again"]
          ELSE IF found = "underflow" THEN Status(p, "underflow")
          ELSE LET pos == IF known THEN PayloadEnd(e) ELSE End(e)
                   q == [p EXCEPT !.clusters = Append(p.clusters, NewParsed(e.at))]
               IN IF found = "none"
                  THEN IF pos >= f.total THEN [p EXCEPT !.pos = f.total, !.status = "end"]
                       ELSE [p EXCEPT !.pos = pos, !.status = "again"]
                  ELSE IF known THEN [q EXCEPT !.pos = pos, !.status = "again"]
                  ELSE [q EXCEPT !.unknown = Len(q.clusters), !.status = "again"]

---------------------------------------------------------------------------
(* Cluster::GetFirst and GetNext: the entry after the first n, if there is one *)

GetNext(f, c, n) ==
  IF n < Len(c.entries) THEN [c |-> c, status |-> "ok"] ELSE ParseCluster(f, c)
=============================================================================
