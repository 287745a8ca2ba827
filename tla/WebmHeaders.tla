----------------------------- MODULE WebmHeaders -----------------------------
(***************************************************************************)
(* A header on its way through XmfWebMMuxer_Remux: the muxer of the recorder *)
(* writes it, the parser of the remuxer reads it, the remuxer gives what it  *)
(* copies to a muxer of its own, which writes it again, and a player reads   *)
(* the copy.  Headers share no state, so a behaviour has one of them.        *)
(***************************************************************************)
EXTENDS WebmElements

CONSTANTS Headers, InfoHeaders, TagHeaders, ChapterHeaders, TrackHeaders  \* bounds: what is written

VARIABLES kind,   \* which header it is
          given,  \* the muxer's objects
          stage,  \* "given", "written", "read", "copied", "rewritten", "reread", "refused"
          file,   \* the element on disk
          parsed  \* the parser's objects

vars == <<kind, given, stage, file, parsed>>

Nothing == [none |-> TRUE]

Init ==
  /\ \/ kind = "ebml" /\ given \in Headers
     \/ kind = "info" /\ given \in InfoHeaders
     \/ kind = "tags" /\ given \in TagHeaders
     \/ kind = "chapters" /\ given \in ChapterHeaders
     \/ kind = "tracks" /\ given \in TrackHeaders
  /\ stage = "given"
  /\ file = Nothing
  /\ parsed = Nothing

Writable ==
  CASE kind = "tags" -> TagsWritable(given)
    [] kind = "chapters" -> \A i \in DOMAIN given : AtomWritable(given[i])
    [] kind = "tracks" -> TracksWritable(given)
    [] OTHER -> TRUE

Written ==
  CASE kind = "ebml" -> WriteEbmlHeader(given)
    [] kind = "info" -> WriteInfo(given)
    [] kind = "tags" -> WriteTags(given)
    [] kind = "chapters" -> WriteChapters(given)
    [] kind = "tracks" -> WriteTracks(given)

Write ==
  /\ stage \in {"given", "copied"}
  /\ IF Writable
     THEN file' = Written /\ stage' = IF stage = "given" THEN "written" ELSE "rewritten"
     ELSE stage' = "refused" /\ UNCHANGED file
  /\ UNCHANGED <<kind, given, parsed>>

Parsed ==
  CASE kind = "ebml" -> ParseEbmlHeader(file.v)
    [] kind = "info" -> ParseInfo(file.v)
    [] kind = "tags" -> ParseTags(file.v)
    [] kind = "chapters" -> ParseChapters(file.v)
    [] kind = "tracks" -> ParseTracks(file.v)

Parse ==
  /\ stage \in {"written", "rewritten"}
  /\ parsed' = Parsed
  /\ stage' = IF stage = "written" THEN "read" ELSE "reread"
  /\ UNCHANGED <<kind, given, file>>

Refused ==
  \/ kind \in {"ebml", "info"} /\ parsed = Invalid
  \/ kind = "tracks" /\ parsed = <<Invalid>>

\* The EBML header of the copy is a new one; its application names are the
\* remuxer's own and its chapters are none.
Copy ==
  /\ stage = "read"
  /\ kind \in {"info", "tags", "tracks"}
  /\ ~Refused
  /\ given' = CASE kind = "info" -> [timecodeScale |-> parsed.timecodeScale,
                                     duration |-> 1, dateUtc |-> NotPresent,
                                     muxingApp |-> 3, writingApp |-> 18]
                [] kind = "tags" -> parsed
                [] kind = "tracks" -> RemuxTracks(parsed)
  /\ stage' = "copied"
  /\ UNCHANGED <<kind, file, parsed>>

Next == Write \/ Parse \/ Copy

Spec == Init /\ [][Next]_vars

---------------------------------------------------------------------------
(* Correctness *)

\* What a parser can know of a string: none, if it has no bytes.
Known(n) == IF n = 0 THEN NotPresent ELSE n
KnownStrings(x) == [f \in DOMAIN x |-> Known(x[f])]

AtomAsWritten(c, p) ==
  /\ p.id = Known(c.id) /\ p.start = c.start /\ p.end = c.end
  /\ p.displays = [i \in DOMAIN c.displays |-> KnownStrings(c.displays[i])]
  /\ LET n == GetUIntSize(c.uid) IN SerializeInt(p.uid, n) = SerializeInt(c.uid, n)

TrackAsWritten(t, p) ==
  /\ \A f \in (DOMAIN p \cap DOMAIN t) \ {"encodings"} : p[f] = t[f]
  /\ t.type \in {Video, Audio} => p.encodings = t.encodings
  /\ t.type = Video =>
       /\ p.settings.width = StoredWidth(t.video) /\ p.settings.height = StoredHeight(t.video)
       /\ \A f \in (DOMAIN p.settings) \ {"width", "height", "projection"} :
            p.settings[f] = t.video[f]
       /\ \A f \in DOMAIN NoProjection :
            p.settings.projection[f] = IF f = "private" THEN LET n == t.video.projection[f] IN Known(n)
                                       ELSE t.video.projection[f]
  /\ t.type = Audio => p.settings = t.audio

\* What the muxer writes and the parser refuses: the largest luminance the muxer
\* takes, and encodings of a metadata track.
TooStrict(t) ==
  \/ t.type = Video /\ t.video.colour.mastering.luminanceMax > ReadLuminanceMax
  \/ t.type = Metadata /\ t.encodings # << >>

\* The size the muxer declares for a header, and for every element in it, is
\* that of what it then writes, and the parser reads back every field it knows
\* as it was given (of the UID of a chapter, which it takes for a signed integer,
\* the bytes).  It refuses nothing but tracks it is too strict for.
HeadersReadBack ==
  /\ stage \in {"written", "rewritten"} => file.ok
  /\ stage = "read" =>
       (Refused <=> kind = "tracks" /\ \E i \in DOMAIN given : TooStrict(given[i]))
  /\ stage \in {"read", "reread"} /\ ~Refused =>
       /\ kind = "ebml" => parsed = given
       /\ kind = "info" => \A f \in {"timecodeScale", "muxingApp", "writingApp"} : parsed[f] = given[f]
       /\ kind = "info" => (given.duration > 0) = Present(parsed.duration)
       /\ kind = "tags" =>
            parsed = [i \in DOMAIN given |-> [j \in DOMAIN given[i] |-> KnownStrings(given[i][j])]]
       /\ kind = "chapters" =>
            /\ Len(parsed) = Len(given)
            /\ \A i \in DOMAIN given : AtomAsWritten(given[i], parsed[i])
       /\ kind = "tracks" =>
            /\ Len(parsed) = Len(given)
            /\ \A i \in DOMAIN given : TrackAsWritten(given[i], parsed[i])

\* What a player shows of a track, and what it needs to play sound in time.
Shown(track) ==
  [f \in {"type", "codec", "codecPrivate", "name"} |-> track[f]]
  @@ IF track.type = Audio
     THEN [codecDelay |-> track.codecDelay, seekPreRoll |-> track.seekPreRoll, sound |-> track.settings]
     ELSE [f \in {"width", "height", "frameRate", "colour", "projection"} |-> track.settings[f]]

\* The same of a track that plays at a rate of whole hertz.
ShownInHertz(track) ==
  IF track.type = Audio THEN Shown([track EXCEPT !.settings.sampleRate = WholeHertz(@)]) ELSE Shown(track)

\* Whatever header a recording has, its copy can be written and describes the
\* frames as the recording does: the second muxer refuses nothing the first
\* one wrote, except a tag with an empty string, which the parser takes for
\* NULL; a player can read the copy unless its sound has less than one sample a
\* second; and what it needs of each track, in the order and under the number the
\* frames will have, is that of the recording, but that the sampling rate has lost
\* its fraction.
CopyDescribesFrames ==
  [][/\ stage = "copied" /\ stage' = "refused" =>
          kind = "tags" /\ \E i \in DOMAIN given : \E j \in DOMAIN given[i] :
                             \E f \in {"name", "string"} : given[i][j][f] = NotPresent
     /\ kind = "tracks" /\ stage = "rewritten" =>
          LET copied == SelectSeq(parsed, LAMBDA t : t.type \in {Video, Audio})
              mute == \E i \in DOMAIN copied :
                        copied[i].type = Audio /\ copied[i].settings.sampleRate < Hertz
          IN /\ Refused' <=> mute
             /\ ~mute =>
                  /\ Len(parsed') = Len(copied)
                  /\ \A i \in DOMAIN copied :
                       parsed'[i].number = i /\ Shown(parsed'[i]) = ShownInHertz(copied[i])]_vars
=============================================================================
