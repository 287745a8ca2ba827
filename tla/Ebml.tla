-------------------------------- MODULE Ebml --------------------------------
(***************************************************************************)
(* EBML, the coding of a Matroska file, as libwebm writes and reads it.  An  *)
(* element is an id, the size of its payload and the payload.  Sizes are     *)
(* coded in one byte or more, the number of leading zeros of the first byte  *)
(* telling how many follow; a size whose value bits are all ones means that  *)
(* the size is unknown, so no size that is written may look like it.         *)
(***************************************************************************)
EXTENDS Integers, Sequences, SequencesExt

CONSTANT ByteBits  \* bits of a byte, 8 in the code; an integer has at most as many bytes

ByteAssumption == ByteBits \in Nat \ {0, 1}

ByteSize == 2^ByteBits
MaxBytes == ByteBits

\* How many digits the value has, as many as an integer may have at the most.
Digits(value, base) ==
  IF value < base THEN 1
  ELSE CHOOSE n \in 2..MaxBytes :
         LET first == value \div base^(n - 1) IN first > 0 /\ (n = MaxBytes \/ first < base)

\* Each byte gives up one bit to the length, and the value is not all ones.
GetCodedUIntSize(value) == Digits(value + 1, 2^(ByteBits - 1))

GetUIntSize(value) == Digits(value, ByteSize)

\* Mutant: a positive value may fill its bytes, the sign bit included.
IntSizeWithoutSign(value) == GetUIntSize(IF value < 0 THEN -value - 1 ELSE value)

GetIntSize(value) == GetUIntSize(2 * (IF value < 0 THEN -value - 1 ELSE value))

---------------------------------------------------------------------------
(* Writing *)

\* The low bytes of the value, the highest first.
SerializeInt(value, size) ==
  [i \in 1..size |-> (value \div 2^(ByteBits * (size - i))) % ByteSize]

\* A coded integer of the given number of bytes; an error is no bytes at all.
WriteUIntSize(value, size) ==
  LET bit == 2^((ByteBits - 1) * size)
  IN IF value > bit - 2 THEN << >> ELSE SerializeInt(value + bit, size)

WriteUInt(value) == WriteUIntSize(value, GetCodedUIntSize(value))

---------------------------------------------------------------------------
(* Reading: a value, or one of two errors *)

BufferNotFull == -3
FormatInvalid == -2

LengthMark(b) == CHOOSE n \in 1..ByteBits : b \div 2^(ByteBits - n) = 1

Unserialize(first, bytes) == FoldLeft(LAMBDA value, b : value * ByteSize + b, first, bytes)

ReadUInt(bytes) ==
  IF bytes = << >> THEN BufferNotFull
  ELSE IF bytes[1] = 0 THEN FormatInvalid
  ELSE LET len == LengthMark(bytes[1])
       IN IF Len(bytes) < len THEN BufferNotFull
          ELSE Unserialize(bytes[1] - 2^(ByteBits - len), SubSeq(bytes, 2, len))

UnknownSize(len) == 2^((ByteBits - 1) * len) - 1

\* Of an integer that fills its payload.
UnserializeUInt(bytes) ==
  IF Len(bytes) \notin 1..MaxBytes THEN FormatInvalid ELSE Unserialize(0, bytes)

UnserializeInt(bytes) ==
  IF Len(bytes) \notin 1..MaxBytes THEN FormatInvalid
  ELSE Unserialize(IF 2 * bytes[1] >= ByteSize THEN bytes[1] - ByteSize ELSE bytes[1], Tail(bytes))

---------------------------------------------------------------------------
(* Elements: their ids by name, and how many bytes an id has *)

OneByteIds ==
  {"Void", "Timecode", "BlockGroup", "Block", "BlockDuration", "ReferenceBlock", "SimpleBlock",
   "BlockMore", "BlockAddID", "BlockAdditional", "TrackEntry", "TrackNumber", "TrackType",
   "CodecID", "Video", "PixelWidth", "PixelHeight", "Audio", "SamplingFrequency", "Channels",
   "CuePoint", "CueTime", "CueTrackPositions", "CueTrack", "CueClusterPosition", "ChapterAtom",
   "ChapterTimeStart", "ChapterTimeEnd", "ChapterDisplay", "ChapString"}
ThreeByteIds == {"TimecodeScale", "Language", "DefaultDuration", "ColourSpace", "FrameRate"}
FourByteIds ==
  {"EBML", "Segment", "SeekHead", "Info", "Cluster", "Tracks", "Cues", "Chapters", "Tags"}

IdSize(id) ==
  IF id \in OneByteIds THEN 1
  ELSE IF id \in ThreeByteIds THEN 3
  ELSE IF id \in FourByteIds THEN 4
  ELSE 2

\* The header of an element with children.
EbmlMasterElementSize(id, size) == IdSize(id) + GetCodedUIntSize(size)

\* Whole elements that hold an integer, a float, a date, and a string or bytes.
UIntElementSize(id, value) == IdSize(id) + 1 + GetUIntSize(value)
IntElementSize(id, value) == IdSize(id) + 1 + GetIntSize(value)
FloatElementSize(id) == IdSize(id) + 1 + 4
DateElementSize(id) == IdSize(id) + 1 + 8
StringElementSize(id, length) == IdSize(id) + GetCodedUIntSize(length) + length

\* A filler of exactly that many bytes, its header included; 0 when there is none.
VoidElementSize(size) ==
  LET entry == size - 1 - GetCodedUIntSize(size - 1)
  IN IF EbmlMasterElementSize("Void", entry) + entry = size THEN size ELSE 0
=============================================================================
