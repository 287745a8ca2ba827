---------------------------- MODULE MCWebmHeaders ----------------------------
(***************************************************************************)
(* Instances of WebmHeaders and EbmlCodec.  Any two fields of each header    *)
(* take every value of a set that lies on both sides of what the code tells  *)
(* apart: absent and present, one byte and more, a size of one byte and of   *)
(* two, a value the format knows and one it does not.                        *)
(***************************************************************************)
EXTENDS Integers, Sequences

CONSTANTS CodecBits, CodecLimit

VARIABLES kind, given, stage, file, parsed, value, bytes, stored, result

H == INSTANCE WebmElements

Changed(base, choices) ==
  UNION {UNION {{[f \in DOMAIN base |-> IF f = a THEN v ELSE IF f = b THEN w ELSE base[f]] :
                 v \in choices[a], w \in choices[b]} : b \in DOMAIN choices} : a \in DOMAIN choices}
Each(base, choices) ==
  UNION {{[base EXCEPT ![f] = v] : v \in choices[f]} : f \in DOMAIN choices}

Point == [x |-> 3000, y |-> 10000]
Masterings ==
  Changed(H!NoMastering, [luminanceMax |-> {-1, 0, 5, 99999892, 99999902}, luminanceMin |-> {-1, 0, 5, 9999900},
                          r |-> {H!NoPoint, Point}, whitePoint |-> {Point, [x |-> 0, y |-> -1]}])
Colours ==
  Changed(H!NoColour, [matrixCoefficients |-> {-1, 0, 11}, bitsPerChannel |-> {8, 300},
                       chromaSubsamplingHorz |-> {1}, chromaSubsamplingVert |-> {1},
                       cbSubsamplingHorz |-> {1}, cbSubsamplingVert |-> {1},
                       chromaSitingHorz |-> {2, 3}, chromaSitingVert |-> {0}, range |-> {3},
                       transferCharacteristics |-> {0, 18}, primaries |-> {22, 11},
                       maxCll |-> {1000}, maxFall |-> {400}])
  \cup Each(H!NoColour, [mastering |-> Masterings])
Projection == [type |-> 1, private |-> -1, yaw |-> 0, pitch |-> 0, roll |-> 0]
Videos ==
  LET base == [H!NoVideo EXCEPT !.width = 1920, !.height = 200] IN
  Changed(base, [pixelWidth |-> {640}, displayWidth |-> {300}, displayHeight |-> {20}, cropTop |-> {2},
                 stereoMode |-> {1}, alphaMode |-> {1}, colourSpace |-> {-1, 4}, frameRate |-> {30},
                 colour |-> {[H!NoColour EXCEPT !.range = 1, !.maxFall = 70000]},
                 projection |-> {Projection, [Projection EXCEPT !.private = 100]}])
  \cup Each(base, [colour |-> Colours])
Encoding(n) == [order |-> 0, scope |-> 1, type |-> 1, algo |-> 5, keyId |-> n, cipherMode |-> 1]
VideoTrack ==
  [H!NoTrack EXCEPT !.type = 1, !.number = 1, !.codec = "V_VP8", !.video.width = 640, !.video.height = 480]
AudioTrack ==
  [H!NoTrack EXCEPT !.type = 2, !.number = 5, !.codec = "A_OPUS", !.uid = 70000,
                    !.audio = [sampleRate |-> 48000 * H!Hertz, channels |-> 2, bitDepth |-> 0]]
OtherTrack(type, encodings) ==
  [H!NoTrack EXCEPT !.type = type, !.number = 2, !.codec = "S_TEXT", !.encodings = encodings]
TrackChoices ==
  [codec |-> {"V_AV1", ""}, codecPrivate |-> {-1, 1, 126, 127}, language |-> {3}, name |-> {0, 130},
   maxAdditionId |-> {4}, codecDelay |-> {6500000}, seekPreRoll |-> {80000000},
   defaultDuration |-> {33}, number |-> {126}, uid |-> {255, 256},
   encodings |-> {<<Encoding(16)>>, <<Encoding(-1)>>, <<Encoding(1), Encoding(127)>>}]
Tracks ==
  {<<t>> : t \in Changed(VideoTrack, TrackChoices) \cup Each(VideoTrack, [video |-> Videos])
                 \cup Changed(AudioTrack, TrackChoices)
                 \cup Each(AudioTrack, [audio |-> [sampleRate : {5, 441005}, channels : {1}, bitDepth : {16}]])}
  \cup {<<VideoTrack, AudioTrack>>, <<AudioTrack, VideoTrack>>,
        <<OtherTrack(17, << >>), AudioTrack>>}
  \cup {<<OtherTrack(type, <<Encoding(16)>>)>> : type \in {17, H!Metadata}}

SimpleTags == [name : {1, 126}, string : {0, 1, 130}]
Chapter == [id |-> 1, uid |-> 1, start |-> 0, end |-> 1, displays |-> << >>]
Display == [title |-> 5, language |-> -1, country |-> -1]

Headers == INSTANCE WebmHeaders WITH
  Headers <- [docType : {4, 8}, version : {2, 4}],
  InfoHeaders <- [timecodeScale : {1, 1000000}, duration : {0, 1}, dateUtc : {-1, 0},
                  muxingApp : {3}, writingApp : {3, 127}],
  TagHeaders <- {<<<<a>>, <<a, b>>>> : a, b \in SimpleTags},
  ChapterHeaders <-
    {<<c, Chapter>> : c \in Changed(Chapter,
       [id |-> {0, 130}, uid |-> {127, 128, 40000}, start |-> {255, 256}, end |-> {70000},
        displays |-> {<<d, Display>> : d \in [title : {0, 1, 127}, language : {-1, 3}, country : {-1, 0}]}])},
  TrackHeaders <- Tracks

Codec == INSTANCE EbmlCodec WITH ByteBits <- CodecBits, Limit <- CodecLimit

headers == <<given, stage, file, parsed>>
codecs == <<value, bytes, stored, result>>
vars == <<kind, headers, codecs>>

Init ==
  \/ Headers!Init /\ value = 0 /\ bytes = << >> /\ stored = 0 /\ result = 0
  \/ Codec!Init /\ given = << >> /\ stage = "" /\ file = << >> /\ parsed = << >>

NextHeader == stage # "" /\ Headers!Next /\ UNCHANGED codecs
NextCodec == stage = "" /\ Codec!Next /\ UNCHANGED headers
Next == NextHeader \/ NextCodec

Spec == Init /\ [][Next]_vars

\* A header the muxer wrote is parsed back with every field as it was given and
\* with the size that was announced, a header it must refuse is refused, and an
\* integer of any length reads back, or, cut by a crash, as an unfinished one.
HeadersReadBack ==
  IF stage = "" THEN Codec!CodedRoundTrip ELSE Headers!HeadersReadBack

\* The header of a copy describes the frames as that of the recording does.
CopyDescribesFrames == Headers!CopyDescribesFrames
=============================================================================
