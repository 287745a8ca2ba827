------------------------------ MODULE EbmlCodec ------------------------------
(***************************************************************************)
(* One integer on its way through a file: libwebm's muxer serializes it, a   *)
(* crash may keep any of the first bytes from the disk, and libwebm's parser *)
(* reads it back.  Bytes are narrow here, so that every integer of every     *)
(* length is tried.                                                          *)
(***************************************************************************)
EXTENDS Ebml

CONSTANT Limit  \* bound: integers are below it

VARIABLES kind,   \* "size", "uint" or "int": how the integer is stored
          value,  \* the integer
          bytes,  \* the file
          stored, \* how many bytes were to be written, of which the file may lack some
          result  \* what the parser makes of it; the integers below -3 stand for none yet

vars == <<kind, value, bytes, stored, result>>

NotRead == -Limit - 4

Init ==
  /\ kind \in {"size", "uint", "int"}
  /\ value \in IF kind = "int" THEN (-Limit)..(Limit - 1) ELSE 0..(Limit - 1)
  /\ bytes = << >>
  /\ stored = 0
  /\ result = NotRead

\* The size fields of a Cluster and of the Segment have all the bytes there
\* may be; other integers have as many as they need.
Write ==
  /\ stored = 0
  /\ bytes' \in CASE kind = "size" -> {WriteUInt(value), WriteUIntSize(value, MaxBytes)}
                  [] kind = "uint" -> {SerializeInt(value, GetUIntSize(value))}
                  [] kind = "int" -> {SerializeInt(value, GetIntSize(value))}
  /\ stored' = Len(bytes')
  /\ UNCHANGED <<kind, value, result>>

Crash ==
  /\ Len(bytes) > 0
  /\ result = NotRead
  /\ \E n \in 0..(Len(bytes) - 1) : bytes' = SubSeq(bytes, 1, n)
  /\ UNCHANGED <<kind, value, stored, result>>

\* The payload of an element is only read when all of it is there.
Read ==
  /\ stored > 0
  /\ result = NotRead
  /\ result' = IF kind = "size" THEN ReadUInt(bytes)
               ELSE IF Len(bytes) < stored THEN BufferNotFull
               ELSE IF kind = "uint" THEN UnserializeUInt(bytes) ELSE UnserializeInt(bytes)
  /\ UNCHANGED <<kind, value, bytes, stored>>

Next == Write \/ Crash \/ Read

Spec == Init /\ [][Next]_vars

\* Every integer reads back as it was written, with its sign; every prefix of
\* it that a crash leaves is taken for an unfinished one, never for another
\* integer; and no size that is written looks like an unknown one.
CodedRoundTrip ==
  /\ result # NotRead => result = IF Len(bytes) = stored THEN value ELSE BufferNotFull
  /\ kind = "size" /\ stored > 0 => value # UnknownSize(stored)
=============================================================================
