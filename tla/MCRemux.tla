------------------------------ MODULE MCRemux ------------------------------
(***************************************************************************)
(* An instance of Remux: a recording of a picture, of a picture and sound,    *)
(* or of sound, of at most MaxFrames frames, each at the time of the one      *)
(* before it, in reach of its cluster, or out of it.                         *)
(***************************************************************************)
EXTENDS Remux

ASSUME BytesAreSound == ByteAssumption

MCTrackLists == {<<Video>>, <<Video, Audio>>, <<Audio>>}
Kind(track, step, key, pad) == [track |-> track, step |-> step, key |-> key, pad |-> pad]
MCFrameKinds ==
  {Kind(1, 0, TRUE, FALSE), Kind(1, 2, FALSE, FALSE), Kind(1, 4, TRUE, FALSE),
   Kind(2, 0, TRUE, FALSE), Kind(2, 1, TRUE, TRUE), Kind(2, 4, TRUE, FALSE)}
=============================================================================
