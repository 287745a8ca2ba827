---------------------------- MODULE WebmElements ----------------------------
(***************************************************************************)
(* The header elements of a WebM file: what libwebm's muxer computes as the  *)
(* size of each, what it then writes, and what its parser reads back.  The   *)
(* size is written before the children, by code of its own, so the two can   *)
(* disagree; an element whose size is wrong makes the muxer fail, and the    *)
(* rest of the file unreadable.                                              *)
(*                                                                         *)
(* A header is a record of the fields of the muxer's class.  Integers that   *)
(* are absent are NotPresent; strings and blobs are the number of their      *)
(* bytes, NotPresent for NULL; a floating point number is an integer, in the  *)
(* unit of its field, that takes four bytes.  An element is a record of its id, the bytes it takes,  *)
(* its value (its children, for a master element) and ok: whether its        *)
(* declared size and those below it are right.                               *)
(***************************************************************************)
EXTENDS Integers, Sequences, FiniteSets, SequencesExt

INSTANCE Ebml WITH ByteBits <- 8

NotPresent == -1
Present(x) == x # NotPresent

---------------------------------------------------------------------------
(* Elements and their sizes *)

UInt(id, v) == [id |-> id, len |-> UIntElementSize(id, v), v |-> v, ok |-> TRUE]
Float(id, v) == [id |-> id, len |-> FloatElementSize(id), v |-> v, ok |-> TRUE]
Date(id) == [id |-> id, len |-> DateElementSize(id), v |-> 0, ok |-> TRUE]
Str(id, n) == [id |-> id, len |-> StringElementSize(id, n), v |-> n, ok |-> TRUE]

Total(sizes) == FoldLeft(LAMBDA sum, n : sum + n, 0, sizes)
Bytes(els) == FoldLeft(LAMBDA sum, e : sum + e.len, 0, els)

Master(id, size, els) ==
  [id |-> id, len |-> EbmlMasterElementSize(id, size) + Bytes(els), v |-> els,
   ok |-> size = Bytes(els) /\ \A i \in DOMAIN els : els[i].ok]
MasterSize(id, size) == EbmlMasterElementSize(id, size) + size

\* A term of a size and a child that are there on a condition.
If(c, n) == IF c THEN n ELSE 0
When(c, el) == IF c THEN <<el>> ELSE << >>

\* Terms and children of the integers of a record that are there: names maps
\* an id to a field.
UIntSizes(x, names, there(_)) ==
  Total([i \in DOMAIN names |->
    If(there(x[names[i][2]]), UIntElementSize(names[i][1], x[names[i][2]]))])
UInts(x, names, there(_)) ==
  FlattenSeq([i \in DOMAIN names |->
    When(there(x[names[i][2]]), UInt(names[i][1], x[names[i][2]]))])

\* What the parser has at the end for an id: it reads the children in order
\* and a later one replaces an earlier one.
Read(els, id, default) ==
  LET found == SelectSeq(els, LAMBDA e : e.id = id)
  IN IF found = << >> THEN default ELSE Last(found).v
Has(els, id) == \E i \in DOMAIN els : els[i].id = id
ReadAll(els, id) == [i \in DOMAIN SelectSeq(els, LAMBDA e : e.id = id) |->
                       SelectSeq(els, LAMBDA e : e.id = id)[i].v]

\* What a parser gives when it refuses an element.
Invalid == [invalid |-> TRUE]

Positive(n) == n > 0

---------------------------------------------------------------------------
(* The EBML header *)

EbmlHeaderSize(h) ==
  Total(<<UIntElementSize("EBMLVersion", 1), UIntElementSize("EBMLReadVersion", 1),
          UIntElementSize("EBMLMaxIDLength", 4), UIntElementSize("EBMLMaxSizeLength", 8),
          StringElementSize("DocType", h.docType),
          UIntElementSize("DocTypeVersion", h.version),
          UIntElementSize("DocTypeReadVersion", 2)>>)

WriteEbmlHeader(h) ==
  Master("EBML", EbmlHeaderSize(h),
    <<UInt("EBMLVersion", 1), UInt("EBMLReadVersion", 1), UInt("EBMLMaxIDLength", 4),
      UInt("EBMLMaxSizeLength", 8), Str("DocType", h.docType),
      UInt("DocTypeVersion", h.version), UInt("DocTypeReadVersion", 2)>>)

ParseEbmlHeader(els) ==
  IF \E i \in DOMAIN els : els[i].v <= 0 THEN Invalid
  ELSE [docType |-> Read(els, "DocType", NotPresent), version |-> Read(els, "DocTypeVersion", 1)]

---------------------------------------------------------------------------
(* Info *)

InfoSize(s) ==
  Total(<<UIntElementSize("TimecodeScale", s.timecodeScale),
          If(s.duration > 0, FloatElementSize("Duration")),
          If(Present(s.dateUtc), DateElementSize("DateUTC")),
          StringElementSize("MuxingApp", s.muxingApp),
          StringElementSize("WritingApp", s.writingApp)>>)

WriteInfo(s) ==
  Master("Info", InfoSize(s),
    <<UInt("TimecodeScale", s.timecodeScale)>>
    \o When(s.duration > 0, Float("Duration", s.duration))
    \o When(Present(s.dateUtc), Date("DateUTC"))
    \o <<Str("MuxingApp", s.muxingApp), Str("WritingApp", s.writingApp)>>)

ParseInfo(els) ==
  IF Read(els, "TimecodeScale", 1) <= 0 \/ Read(els, "Duration", 0) < 0 THEN Invalid
  ELSE [timecodeScale |-> Read(els, "TimecodeScale", 1000000),
        duration |-> Read(els, "Duration", NotPresent),
        muxingApp |-> Read(els, "MuxingApp", NotPresent),
        writingApp |-> Read(els, "WritingApp", NotPresent)]

---------------------------------------------------------------------------
(* Tags and chapters.  A string of no bytes is skipped by the parser, which   *)
(* leaves it NULL.                                                           *)

NullStr(id, n) == If(Present(n), StringElementSize(id, n))
ReadStr(els, id) == Read(SelectSeq(els, LAMBDA e : IF e.id = id THEN e.v # 0 ELSE FALSE), id, NotPresent)

SimpleTagSize(st) == NullStr("TagName", st.name) + NullStr("TagString", st.string)
SimpleTagWritable(st) == Present(st.name) /\ Present(st.string)
WriteSimpleTag(st) ==
  Master("SimpleTag", SimpleTagSize(st), <<Str("TagName", st.name), Str("TagString", st.string)>>)
TagSize(tag) == Total([i \in DOMAIN tag |-> MasterSize("SimpleTag", SimpleTagSize(tag[i]))])
WriteTag(tag) == Master("Tag", TagSize(tag), [i \in DOMAIN tag |-> WriteSimpleTag(tag[i])])
TagsWritable(tags) == \A i \in DOMAIN tags : \A j \in DOMAIN tags[i] : SimpleTagWritable(tags[i][j])
WriteTags(tags) ==
  Master("Tags", Total([i \in DOMAIN tags |-> MasterSize("Tag", TagSize(tags[i]))]),
         [i \in DOMAIN tags |-> WriteTag(tags[i])])

ParseSimpleTag(els) == [name |-> ReadStr(els, "TagName"), string |-> ReadStr(els, "TagString")]
ParseTag(els) ==
  LET simple == ReadAll(els, "SimpleTag") IN [i \in DOMAIN simple |-> ParseSimpleTag(simple[i])]
ParseTags(els) == LET tags == ReadAll(els, "Tag") IN [i \in DOMAIN tags |-> ParseTag(tags[i])]

DisplaySize(d) ==
  NullStr("ChapString", d.title) + NullStr("ChapLanguage", d.language) + NullStr("ChapCountry", d.country)
WriteDisplay(d) ==
  Master("ChapterDisplay", DisplaySize(d),
         <<Str("ChapString", d.title)>>
         \o When(Present(d.language), Str("ChapLanguage", d.language))
         \o When(Present(d.country), Str("ChapCountry", d.country)))
AtomSize(c) ==
  Total(<<NullStr("ChapterStringUID", c.id), UIntElementSize("ChapterUID", c.uid),
          UIntElementSize("ChapterTimeStart", c.start), UIntElementSize("ChapterTimeEnd", c.end)>>)
  + Total([i \in DOMAIN c.displays |-> MasterSize("ChapterDisplay", DisplaySize(c.displays[i]))])
AtomWritable(c) == Present(c.id) /\ \A i \in DOMAIN c.displays : Present(c.displays[i].title)
WriteAtom(c) ==
  Master("ChapterAtom", AtomSize(c),
    <<Str("ChapterStringUID", c.id), UInt("ChapterUID", c.uid),
      UInt("ChapterTimeStart", c.start), UInt("ChapterTimeEnd", c.end)>>
    \o [i \in DOMAIN c.displays |-> WriteDisplay(c.displays[i])])
EditionSize(cs) == Total([i \in DOMAIN cs |-> MasterSize("ChapterAtom", AtomSize(cs[i]))])
WriteChapters(cs) ==
  Master("Chapters", MasterSize("EditionEntry", EditionSize(cs)),
         <<Master("EditionEntry", EditionSize(cs), [i \in DOMAIN cs |-> WriteAtom(cs[i])])>>)

ParseDisplay(els) ==
  [title |-> ReadStr(els, "ChapString"), language |-> ReadStr(els, "ChapLanguage"),
   country |-> ReadStr(els, "ChapCountry")]
\* The muxer stores the UID as an unsigned integer, the parser reads a signed one.
ParseAtom(els) ==
  [id |-> ReadStr(els, "ChapterStringUID"),
   uid |-> LET v == Read(els, "ChapterUID", 0) IN UnserializeInt(SerializeInt(v, GetUIntSize(v))),
   start |-> Read(els, "ChapterTimeStart", -1), end |-> Read(els, "ChapterTimeEnd", -1),
   displays |-> LET ds == ReadAll(els, "ChapterDisplay")
                IN [i \in DOMAIN ds |-> ParseDisplay(ds[i])]]
ParseEdition(els) ==
  LET cs == ReadAll(els, "ChapterAtom") IN [i \in DOMAIN cs |-> ParseAtom(cs[i])]
ParseChapters(els) ==
  LET es == ReadAll(els, "EditionEntry") IN FlattenSeq([i \in DOMAIN es |-> ParseEdition(es[i])])

---------------------------------------------------------------------------
(* The colour and projection of a video track.  An object the code has not    *)
(* allocated is one with nothing present.                                    *)

FloatMax == 2147483647  \* stands for an absent float, which is FLT_MAX
AsFloat(v) == IF Present(v) THEN v ELSE FloatMax

\* In units of 0.0001; a chromaticity of 1.0 is ChromaticityMax.  The bounds of
\* the muxer are floats: 9999.99f is 9999.990234375.  The parser compares what it
\* read with the doubles 9999.99 and 999.9999.
MinLuminanceMax == 9999900
MaxLuminanceMax == 99999902
ReadLuminanceMax == 99999900
ReadLuminanceMinMax == 9999999
ChromaticityMax == 10000

Chromaticities == <<<<"PrimaryRChromaticity", "r">>, <<"PrimaryGChromaticity", "g">>,
                    <<"PrimaryBChromaticity", "b">>, <<"WhitePointChromaticity", "whitePoint">>>>
PointThere(pc) == Present(pc.x) \/ Present(pc.y)
PointValid(pc) == AsFloat(pc.x) <= ChromaticityMax /\ AsFloat(pc.y) <= ChromaticityMax

\* An absent bound is compared as the largest float: a maximum alone is refused,
\* a minimum alone is not.
MasteringValid(mm) ==
  /\ Present(mm.luminanceMin) =>
       mm.luminanceMin <= MinLuminanceMax /\ mm.luminanceMin <= AsFloat(mm.luminanceMax)
  /\ Present(mm.luminanceMax) =>
       mm.luminanceMax <= MaxLuminanceMax /\ mm.luminanceMax >= AsFloat(mm.luminanceMin)
  /\ \A i \in DOMAIN Chromaticities :
       LET pc == mm[Chromaticities[i][2]] IN PointThere(pc) => PointValid(pc)

MasteringSize(mm) ==
  If(Present(mm.luminanceMax), FloatElementSize("LuminanceMax"))
  + If(Present(mm.luminanceMin), FloatElementSize("LuminanceMin"))
  + Total([i \in DOMAIN Chromaticities |->
      If(PointThere(mm[Chromaticities[i][2]]), 2 * FloatElementSize(Chromaticities[i][1]))])

WriteMastering(mm) ==
  Master("MasteringMetadata", MasteringSize(mm),
    When(Present(mm.luminanceMax), Float("LuminanceMax", mm.luminanceMax))
    \o When(Present(mm.luminanceMin), Float("LuminanceMin", mm.luminanceMin))
    \o FlattenSeq([i \in DOMAIN Chromaticities |->
         LET pc == mm[Chromaticities[i][2]]
         IN When(PointThere(pc), Float(Chromaticities[i][1], pc))
            \o When(PointThere(pc), Float(Chromaticities[i][1], pc))]))

NoPoint == [x |-> NotPresent, y |-> NotPresent]
NoMastering == [luminanceMax |-> NotPresent, luminanceMin |-> NotPresent,
                r |-> NoPoint, g |-> NoPoint, b |-> NoPoint, whitePoint |-> NoPoint]

ParseMastering(els) ==
  LET mm == [f \in DOMAIN NoMastering |->
               CASE f = "luminanceMax" -> Read(els, "LuminanceMax", NotPresent)
                 [] f = "luminanceMin" -> Read(els, "LuminanceMin", NotPresent)
                 [] f = "r" -> Read(els, "PrimaryRChromaticity", NoPoint)
                 [] f = "g" -> Read(els, "PrimaryGChromaticity", NoPoint)
                 [] f = "b" -> Read(els, "PrimaryBChromaticity", NoPoint)
                 [] f = "whitePoint" -> Read(els, "WhitePointChromaticity", NoPoint)]
  IN IF mm.luminanceMax > ReadLuminanceMax \/ mm.luminanceMin > ReadLuminanceMinMax THEN Invalid ELSE mm

ColourFields ==
  <<<<"MatrixCoefficients", "matrixCoefficients">>, <<"BitsPerChannel", "bitsPerChannel">>,
    <<"ChromaSubsamplingHorz", "chromaSubsamplingHorz">>,
    <<"ChromaSubsamplingVert", "chromaSubsamplingVert">>,
    <<"CbSubsamplingHorz", "cbSubsamplingHorz">>, <<"CbSubsamplingVert", "cbSubsamplingVert">>,
    <<"ChromaSitingHorz", "chromaSitingHorz">>, <<"ChromaSitingVert", "chromaSitingVert">>,
    <<"Range", "range">>, <<"TransferCharacteristics", "transferCharacteristics">>,
    <<"Primaries", "primaries">>, <<"MaxCLL", "maxCll">>, <<"MaxFALL", "maxFall">>>>
ColourNames == {ColourFields[i][2] : i \in DOMAIN ColourFields}
NoColour == [f \in ColourNames |-> NotPresent] @@ [mastering |-> NoMastering]

\* The fields that have enumerated values, and those values.
ColourValues ==
  [matrixCoefficients |-> 0..10, chromaSitingHorz |-> 0..2, chromaSitingVert |-> 0..2,
   range |-> 0..3, transferCharacteristics |-> 1..18, primaries |-> (0..10) \cup {22}]

ColourValid(c) ==
  /\ MasteringValid(c.mastering)
  /\ \A f \in DOMAIN ColourValues : Present(c[f]) => c[f] \in ColourValues[f]

\* Mutant: the last of the fields is forgotten.
ColourSizeButOne(c) ==
  UIntSizes(c, Front(ColourFields), Present)
  + If(MasteringSize(c.mastering) > 0, MasterSize("MasteringMetadata", MasteringSize(c.mastering)))

ColourSize(c) ==
  UIntSizes(c, ColourFields, Present)
  + If(MasteringSize(c.mastering) > 0, MasterSize("MasteringMetadata", MasteringSize(c.mastering)))

WriteColour(c) ==
  Master("Colour", ColourSize(c),
    UInts(c, ColourFields, Present)
    \o When(MasteringSize(c.mastering) > 0, WriteMastering(c.mastering)))

\* The first id the parser of this element does not know makes the track invalid.
ParseColour(els) ==
  LET mm == ParseMastering(Read(els, "MasteringMetadata", << >>))
      Id(f) == ColourFields[CHOOSE i \in DOMAIN ColourFields : ColourFields[i][2] = f][1]
  IN IF mm = Invalid THEN Invalid
     ELSE [f \in ColourNames |-> Read(els, Id(f), NotPresent)] @@ [mastering |-> mm]

NoProjection == [type |-> NotPresent, private |-> NotPresent, yaw |-> NotPresent,
                 pitch |-> NotPresent, roll |-> NotPresent]

\* The size of the type is computed with the id of the parent, which is as long.
ProjectionSize(p) ==
  Total(<<UIntElementSize("Projection", p.type),
          If(p.private > 0, StringElementSize("ProjectionPrivate", p.private)),
          FloatElementSize("ProjectionPoseYaw"), FloatElementSize("ProjectionPosePitch"),
          FloatElementSize("ProjectionPoseRoll")>>)

WriteProjection(p) ==
  Master("Projection", ProjectionSize(p),
    <<UInt("ProjectionType", p.type)>>
    \o When(p.private > 0, Str("ProjectionPrivate", p.private))
    \o <<Float("ProjectionPoseYaw", p.yaw), Float("ProjectionPosePitch", p.pitch),
         Float("ProjectionPoseRoll", p.roll)>>)

ParseProjection(els) ==
  [type |-> Read(els, "ProjectionType", NotPresent),
   private |-> Read(els, "ProjectionPrivate", NotPresent),
   yaw |-> Read(els, "ProjectionPoseYaw", NotPresent),
   pitch |-> Read(els, "ProjectionPosePitch", NotPresent),
   roll |-> Read(els, "ProjectionPoseRoll", NotPresent)]

---------------------------------------------------------------------------
(* The Video and Audio elements of a track *)

Hertz == 10  \* a sampling rate is in tenths of a hertz

VideoFields ==
  <<<<"DisplayWidth", "displayWidth">>, <<"DisplayHeight", "displayHeight">>,
    <<"PixelCropLeft", "cropLeft">>, <<"PixelCropRight", "cropRight">>,
    <<"PixelCropTop", "cropTop">>, <<"PixelCropBottom", "cropBottom">>,
    <<"StereoMode", "stereoMode">>, <<"AlphaMode", "alphaMode">>>>

StoredWidth(v) == IF v.pixelWidth > 0 THEN v.pixelWidth ELSE v.width
StoredHeight(v) == IF v.pixelHeight > 0 THEN v.pixelHeight ELSE v.height

VideoPayloadSize(v) ==
  Total(<<UIntElementSize("PixelWidth", StoredWidth(v)),
          UIntElementSize("PixelHeight", StoredHeight(v)),
          UIntSizes(v, VideoFields, Positive),
          If(v.frameRate > 0, FloatElementSize("FrameRate")),
          If(Present(v.colourSpace), StringElementSize("ColourSpace", v.colourSpace)),
          If(ColourSize(v.colour) > 0, MasterSize("Colour", ColourSize(v.colour))),
          If(v.projection # NoProjection, MasterSize("Projection", ProjectionSize(v.projection)))>>)

WriteVideo(v) ==
  Master("Video", VideoPayloadSize(v),
    <<UInt("PixelWidth", StoredWidth(v)), UInt("PixelHeight", StoredHeight(v))>>
    \o UInts(v, VideoFields, Positive)
    \o When(Present(v.colourSpace), Str("ColourSpace", v.colourSpace))
    \o When(v.frameRate > 0, Float("FrameRate", v.frameRate))
    \o When(ColourSize(v.colour) > 0, WriteColour(v.colour))
    \o When(v.projection # NoProjection, WriteProjection(v.projection)))

\* The parser has no use for the crop and the alpha mode.
ParseVideo(els) ==
  LET colour == ParseColour(Read(els, "Colour", << >>))
  IN IF \/ \E id \in {"PixelWidth", "PixelHeight", "DisplayWidth", "DisplayHeight", "FrameRate"} :
             Read(els, id, 1) <= 0
        \/ colour = Invalid
     THEN Invalid
     ELSE [width |-> Read(els, "PixelWidth", 0), height |-> Read(els, "PixelHeight", 0),
           displayWidth |-> Read(els, "DisplayWidth", 0),
           displayHeight |-> Read(els, "DisplayHeight", 0),
           stereoMode |-> Read(els, "StereoMode", 0), frameRate |-> Read(els, "FrameRate", 0),
           colourSpace |-> Read(els, "ColourSpace", NotPresent), colour |-> colour,
           projection |-> ParseProjection(Read(els, "Projection", << >>))]

AudioPayloadSize(a) ==
  Total(<<FloatElementSize("SamplingFrequency"), UIntElementSize("Channels", a.channels),
          If(a.bitDepth > 0, UIntElementSize("BitDepth", a.bitDepth))>>)

WriteAudio(a) ==
  Master("Audio", AudioPayloadSize(a),
    <<Float("SamplingFrequency", a.sampleRate), UInt("Channels", a.channels)>>
    \o When(a.bitDepth > 0, UInt("BitDepth", a.bitDepth)))

ParseAudio(els) ==
  IF \E id \in {"SamplingFrequency", "Channels", "BitDepth"} : Read(els, id, 1) <= 0 THEN Invalid
  ELSE [sampleRate |-> Read(els, "SamplingFrequency", 8000 * Hertz), channels |-> Read(els, "Channels", 1),
        bitDepth |-> Read(els, "BitDepth", 0)]

---------------------------------------------------------------------------
(* The encodings of a track *)

AesSize(e) == UIntElementSize("AESSettingsCipherMode", e.cipherMode)
EncryptionSize(e) ==
  Total(<<If(Present(e.keyId), StringElementSize("ContentEncKeyID", e.keyId)),
          UIntElementSize("ContentEncAlgo", e.algo),
          MasterSize("ContentEncAESSettings", AesSize(e))>>)
EncodingSize(e) ==
  Total(<<MasterSize("ContentEncryption", EncryptionSize(e)),
          UIntElementSize("ContentEncodingType", e.type),
          UIntElementSize("ContentEncodingScope", e.scope),
          UIntElementSize("ContentEncodingOrder", e.order)>>)
WriteEncoding(e) ==
  Master("ContentEncoding", EncodingSize(e),
    <<UInt("ContentEncodingOrder", e.order), UInt("ContentEncodingScope", e.scope),
      UInt("ContentEncodingType", e.type),
      Master("ContentEncryption", EncryptionSize(e),
        <<UInt("ContentEncAlgo", e.algo), Str("ContentEncKeyID", e.keyId),
          Master("ContentEncAESSettings", AesSize(e),
                 <<UInt("AESSettingsCipherMode", e.cipherMode)>>)>>)>>)

ParseEncoding(els) ==
  LET encryption == Read(els, "ContentEncryption", << >>)
      aes == Read(encryption, "ContentEncAESSettings", << >>)
      e == [order |-> Read(els, "ContentEncodingOrder", 0),
            scope |-> Read(els, "ContentEncodingScope", 1),
            type |-> Read(els, "ContentEncodingType", 0),
            algo |-> Read(encryption, "ContentEncAlgo", 0),
            keyId |-> Read(encryption, "ContentEncKeyID", NotPresent),
            cipherMode |-> Read(aes, "AESSettingsCipherMode", 1)]
  IN IF \/ ~Has(els, "ContentEncryption") \/ e.scope < 1
        \/ Has(encryption, "ContentEncAlgo") /\ e.algo # 5
        \/ e.keyId = 0 \/ e.cipherMode # 1
     THEN Invalid ELSE e

\* The first encoding that does not parse ends the list; the track is kept.
ParseEncodings(els) ==
  LET parsed == [i \in DOMAIN ReadAll(els, "ContentEncoding") |->
                   ParseEncoding(ReadAll(els, "ContentEncoding")[i])]
      bad == SelectInSeq(parsed, LAMBDA e : e = Invalid)
  IN IF bad = 0 THEN parsed ELSE SubSeq(parsed, 1, bad - 1)

---------------------------------------------------------------------------
(* Tracks *)

Video == 1
Audio == 2
Metadata == 33

BeforeCodec == <<<<"MaxBlockAdditionID", "maxAdditionId">>, <<"CodecDelay", "codecDelay">>,
                 <<"SeekPreRoll", "seekPreRoll">>, <<"DefaultDuration", "defaultDuration">>>>

Encodings(t) == Total([i \in DOMAIN t.encodings |-> MasterSize("ContentEncoding", EncodingSize(t.encodings[i]))])

\* Of the fields all tracks have; the codec is its name, empty for NULL.
TrackPayloadSize(t) ==
  Total(<<UIntElementSize("TrackNumber", t.number), UIntElementSize("TrackUID", t.uid),
          UIntElementSize("TrackType", t.type),
          If(t.codec # "", StringElementSize("CodecID", Len(t.codec))),
          If(Present(t.codecPrivate), StringElementSize("CodecPrivate", t.codecPrivate)),
          If(Present(t.language), StringElementSize("Language", t.language)),
          If(Present(t.name), StringElementSize("Name", t.name)),
          UIntSizes(t, BeforeCodec, Positive),
          If(t.encodings # << >>, MasterSize("ContentEncodings", Encodings(t)))>>)

TrackElementSize(t) ==
  TrackPayloadSize(t)
  + If(t.type = Video, MasterSize("Video", VideoPayloadSize(t.video)))
  + If(t.type = Audio, MasterSize("Audio", AudioPayloadSize(t.audio)))

\* AV1 cannot be decoded without its private data.
TrackWritable(t) ==
  /\ t.type # 0 /\ t.codec # ""
  /\ t.codec = "V_AV1" => Present(t.codecPrivate)
  /\ t.type = Video => ColourValid(t.video.colour)
  /\ \A i \in DOMAIN t.encodings : Present(t.encodings[i].keyId)

WriteTrack(t) ==
  Master("TrackEntry", TrackElementSize(t),
    <<UInt("TrackNumber", t.number), UInt("TrackUID", t.uid), UInt("TrackType", t.type)>>
    \o UInts(t, BeforeCodec, Positive)
    \o When(t.codec # "", [id |-> "CodecID", len |-> StringElementSize("CodecID", Len(t.codec)),
                          v |-> t.codec, ok |-> TRUE])
    \o When(Present(t.codecPrivate), Str("CodecPrivate", t.codecPrivate))
    \o When(Present(t.language), Str("Language", t.language))
    \o When(Present(t.name), Str("Name", t.name))
    \o When(t.encodings # << >>,
            Master("ContentEncodings", Encodings(t),
                   [i \in DOMAIN t.encodings |-> WriteEncoding(t.encodings[i])]))
    \o When(t.type = Video, WriteVideo(t.video))
    \o When(t.type = Audio, WriteAudio(t.audio)))

TracksWritable(ts) == \A i \in DOMAIN ts : TrackWritable(ts[i])
WriteTracks(ts) ==
  Master("Tracks", Total([i \in DOMAIN ts |-> MasterSize("TrackEntry", TrackElementSize(ts[i]))]),
         [i \in DOMAIN ts |-> WriteTrack(ts[i])])

\* A track that is neither video nor audio must have no settings, and a metadata
\* track no encodings; those of other types are not looked at.
ParseTrackEntry(els) ==
  LET type == Read(els, "TrackType", 0)
      known == type \in {Video, Audio}
      info == [type |-> type, number |-> Read(els, "TrackNumber", 0), uid |-> Read(els, "TrackUID", 0),
               codec |-> Read(els, "CodecID", ""),
               codecPrivate |-> LET n == Read(els, "CodecPrivate", NotPresent)
                                IN IF n = 0 THEN NotPresent ELSE n,
               language |-> Read(els, "Language", NotPresent), name |-> Read(els, "Name", NotPresent),
               codecDelay |-> Read(els, "CodecDelay", 0), seekPreRoll |-> Read(els, "SeekPreRoll", 0),
               defaultDuration |-> Read(els, "DefaultDuration", 0),
               encodings |-> IF known THEN ParseEncodings(Read(els, "ContentEncodings", << >>))
                             ELSE << >>]
      settings == CASE type = Video -> ParseVideo(Read(els, "Video", << >>))
                    [] type = Audio -> ParseAudio(Read(els, "Audio", << >>))
                    [] OTHER -> [none |-> TRUE]
  IN IF \/ info.number \notin 1..127 \/ type \notin 1..254 \/ settings = Invalid
        \/ (type = Video) # Has(els, "Video") \/ (type = Audio) # Has(els, "Audio")
        \/ type = Metadata /\ Has(els, "ContentEncodings")
     THEN Invalid
     ELSE info @@ [settings |-> settings]

ParseTracks(els) ==
  LET entries == ReadAll(els, "TrackEntry")
      parsed == [i \in DOMAIN entries |-> ParseTrackEntry(entries[i])]
  IN IF \E i \in DOMAIN parsed :
          parsed[i] = Invalid \/ \E j \in 1..(i - 1) : parsed[j].number = parsed[i].number
     THEN <<Invalid>>
     ELSE parsed

---------------------------------------------------------------------------
(* What the remuxer gives its own muxer for a track it has read *)

\* Number 0 asks for the lowest number from the count on that is free; a track
\* the code cannot add has no number.
AddTrack(ts, number) ==
  LET used == {ts[i].number : i \in DOMAIN ts}
      count == Len(ts) + 1
  IN IF number > 126 \/ number \in used THEN 0
     ELSE IF number > 0 THEN number
     ELSE CHOOSE n \in count..(2 * count) : n \notin used /\ count..(n - 1) \subseteq used

NoAudio == [sampleRate |-> 0, channels |-> 0, bitDepth |-> 0]
NoVideo == [width |-> 0, height |-> 0, pixelWidth |-> 0, pixelHeight |-> 0, displayWidth |-> 0,
            displayHeight |-> 0, cropLeft |-> 0, cropRight |-> 0, cropTop |-> 0, cropBottom |-> 0,
            stereoMode |-> 0, alphaMode |-> 0, colourSpace |-> NotPresent, frameRate |-> 0,
            colour |-> NoColour, projection |-> NoProjection]
NoTrack == [type |-> 0, number |-> 0, uid |-> 1, codec |-> "", codecPrivate |-> NotPresent,
            language |-> NotPresent, name |-> NotPresent, maxAdditionId |-> 0, codecDelay |-> 0,
            seekPreRoll |-> 0, defaultDuration |-> 0, encodings |-> << >>,
            video |-> NoVideo, audio |-> NoAudio]

\* A projection without a pose is given the default one.
CopyVideoProjection(p) ==
  IF p = NoProjection THEN p
  ELSE [f \in DOMAIN p |-> IF Present(p[f]) \/ f = "private" THEN p[f] ELSE 0]

\* The sampling rate passes through an int.  So do the sizes and the channels,
\* whose values here are all below 2^31.
WholeHertz(rate) == (rate \div Hertz) * Hertz

\* Mutant: the private data of sound is forgotten, as video may do without.
RemuxVideoPrivate(track, number) ==
  LET base == [NoTrack EXCEPT !.type = track.type, !.number = number, !.name = track.name]
  IN IF track.type = Video
     THEN [base EXCEPT !.codec = IF track.codec = "" THEN "V_VP8" ELSE track.codec,
                       !.codecPrivate = track.codecPrivate,
                       !.video.width = track.settings.width, !.video.height = track.settings.height,
                       !.video.frameRate = track.settings.frameRate,
                       !.video.colour = track.settings.colour,
                       !.video.projection = CopyVideoProjection(track.settings.projection)]
     ELSE [base EXCEPT !.codec = IF track.codec = "" THEN "A_VORBIS" ELSE track.codec,
                       !.codecDelay = track.codecDelay, !.seekPreRoll = track.seekPreRoll,
                       !.audio = [track.settings EXCEPT !.sampleRate = WholeHertz(@)]]

\* Codec and private data, name, size, colour and projection are copied, the rate
\* of sound in whole hertz; the language, the display size, the stereo mode and
\* the encodings are not.
RemuxTrack(track, number) ==
  LET base == [NoTrack EXCEPT !.type = track.type, !.number = number, !.name = track.name,
                              !.codecPrivate = track.codecPrivate]
  IN IF track.type = Video
     THEN [base EXCEPT !.codec = IF track.codec = "" THEN "V_VP8" ELSE track.codec,
                       !.video.width = track.settings.width, !.video.height = track.settings.height,
                       !.video.frameRate = track.settings.frameRate,
                       !.video.colour = track.settings.colour,
                       !.video.projection = CopyVideoProjection(track.settings.projection)]
     ELSE [base EXCEPT !.codec = IF track.codec = "" THEN "A_VORBIS" ELSE track.codec,
                       !.codecDelay = track.codecDelay, !.seekPreRoll = track.seekPreRoll,
                       !.audio = [track.settings EXCEPT !.sampleRate = WholeHertz(@)]]

\* Tracks of other types are left out.
RemuxTracks(tracks) ==
  FoldLeft(LAMBDA ts, t :
             IF t.type \in {Video, Audio} THEN Append(ts, RemuxTrack(t, AddTrack(ts, 0))) ELSE ts,
           << >>, tracks)
=============================================================================
