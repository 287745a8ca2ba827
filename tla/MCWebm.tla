------------------------------- MODULE MCWebm -------------------------------
(***************************************************************************)
(* One instance of the WebM format in libwebm: its headers and integers       *)
(* (MCWebmHeaders), and its frames, recorded, lost in part and remuxed        *)
(* (MCRemux).  The two share no state: a behaviour is of one of them, and     *)
(* the other one stays at its beginning.                                     *)
(***************************************************************************)
EXTENDS MCRemux

CONSTANTS CodecBits, CodecLimit  \* the bits of a byte, and the integers that are coded

VARIABLES part,  \* "frames" or "headers"
          kind, given, stage, element, parsed, value, bytes, stored, read

Header == INSTANCE MCWebmHeaders WITH file <- element, result <- read

headers == <<kind, given, stage, element, parsed, value, bytes, stored, read>>

NoHeaders ==
  /\ kind = "none" /\ given = << >> /\ stage = "none" /\ element = << >> /\ parsed = << >>
  /\ value = 0 /\ bytes = << >> /\ stored = 0 /\ read = 0
NoFrames ==
  /\ phase = "none" /\ rec = NoCopy /\ sent = << >> /\ gap = FALSE /\ file = NoFile
  /\ parser = NoParser /\ cluster = 1 /\ entry = 0 /\ copy = NoCopy /\ result = "none"

WebmInit ==
  \/ part = "frames" /\ Init /\ NoHeaders
  \/ part = "headers" /\ Header!Init /\ NoFrames

NextFrames == part = "frames" /\ Next /\ UNCHANGED <<part, headers>>
NextHeaders == part = "headers" /\ Header!Next /\ UNCHANGED <<part, vars>>
WebmNext == NextFrames \/ NextHeaders

WebmSpec == WebmInit /\ [][WebmNext]_<<part, headers, vars>>

\* A header the muxer wrote is parsed back with every field as it was given and
\* with the size that was announced, a header is refused only where the parser is
\* stricter than the muxer, and an integer of any length reads back, or, cut by a
\* crash, as an unfinished one.
HeadersReadBack == part = "headers" => Header!HeadersReadBack

\* The header of a copy describes the frames as that of the recording does.
CopyDescribesFrames == Header!CopyDescribesFrames
=============================================================================
