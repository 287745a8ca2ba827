-------------------------- MODULE VpxDecoderProofs --------------------------
(***************************************************************************)
(* The safety of VpxDecoder for any number of threads, images and decodes. *)
(*                                                                         *)
(* Whether a thread may touch native memory depends on a count it never    *)
(* looks at.  The strengthening therefore says what the count counts: the  *)
(* handle's own reference, one for every image that keeps the decoder      *)
(* alive, and one for the native call in progress, of which there is one   *)
(* at most because its thread holds SyncRoot (Counted, Locked).  What a    *)
(* thread found when it took the lock is still so later in its call        *)
(* (Stages), and the pixels in the buffers are those of the images of the  *)
(* present generation, of which there is none while a decode is under way  *)
(* (Fresh).                                                                *)
(***************************************************************************)
EXTENDS VpxDecoder, FiniteSetTheorems, TLAPS

\* SyncRoot is held by the thread that is in a call, and by no other.
Locked == \A t \in Threads : pc[t] \in Working <=> lock = t

\* An image keeps the decoder alive from KeepDecoderAlive to its release, and
\* the application has a reference to nothing that was not returned to it.
Keeps ==
  \A i \in Images :
    /\ image[i].kept => image[i].state \in {"native", "live"}
    /\ image[i].state = "live" => image[i].kept
    /\ image[i].rooted => image[i].state \in {"live", "released"}

Kept == {i \in Images : image[i].kept}
InNative == \E t \in Threads : pc[t] \in {"decoding", "getting"}
One(b) == IF b THEN 1 ELSE 0

\* h has given out n references.
Counts(h, n) == h.refs = n /\ h.destroyed = One(n = 0)

Holders == One(handle.owned) + Cardinality(Kept) + One(InNative)
Counted == Counts(handle, Holders)

\* What a thread in the middle of a call relies on.
Stages ==
  \A t \in Threads :
    /\ pc[t] \in {"keep", "wrap"} =>
         image[arg[t]].state = "native" /\ image[arg[t]].frame = native.pixels
    /\ pc[t] = "keep" => ~image[arg[t]].kept
    /\ pc[t] = "wrap" => image[arg[t]].kept
    /\ pc[t] \in {"copy", "copying"} =>
         image[arg[t]].state = "live" /\ image[arg[t]].generation = dec.generation
    /\ pc[t] = "copying" => seen[t] = native.pixels

\* The images of the present generation show the pixels the buffers hold.
Fresh ==
  \A i \in Images : image[i].state = "live" =>
    /\ image[i].generation <= dec.generation
    /\ image[i].generation = dec.generation =>
         /\ image[i].frame = native.pixels
         /\ \A t \in Threads : pc[t] \notin {"decode", "decoding"}

IInv ==
  TypeOK /\ Locked /\ Keeps /\ Counted /\ Stages /\ Fresh /\ CopyIsOwnFrame /\ DisposeWaits

-----------------------------------------------------------------------------
(* The counts.                                                             *)

ImageTypes ==
  [Images -> [state : {"unused", "native", "live", "released"}, rooted : BOOLEAN,
              kept : BOOLEAN, generation : Nat, frame : Nat]]
Handles == [requested : BOOLEAN, owned : BOOLEAN, refs : Nat, destroyed : Nat]

LEMMA ReleaseCounts ==
  ASSUME NEW h \in Handles, NEW n \in Nat, n > 0, Counts(h, n)
  PROVE  /\ Release(h) \in Handles /\ Counts(Release(h), n - 1)
         /\ Release(h).owned = h.owned /\ Release(h).requested = h.requested
<1>1. PICK d \in Nat : d = (IF h.refs = 1 THEN h.destroyed + 1 ELSE h.destroyed) /\ d = One(n - 1 = 0)
  BY DEF Handles, Counts, One
<1>2. Release(h) = [h EXCEPT !.refs = h.refs - 1, !.destroyed = d]
  BY <1>1 DEF Release
<1>3. h.refs - 1 \in Nat /\ h.refs - 1 = n - 1
  BY DEF Counts
<1>. QED BY <1>1, <1>2, <1>3 DEF Handles, Counts

LEMMA AddRefCounts ==
  ASSUME NEW h \in Handles, NEW n \in Nat, n > 0, Counts(h, n)
  PROVE  /\ AddRef(h) \in Handles /\ Counts(AddRef(h), n + 1)
         /\ AddRef(h).owned = h.owned /\ AddRef(h).requested = h.requested
BY DEF Handles, Counts, One, AddRef

LEMMA KeptIsFinite == IsFiniteSet(Kept) /\ Cardinality(Kept) \in Nat
<1>1. Kept \in SUBSET Images
  BY DEF Kept
<1>. QED BY <1>1, ImagesAssumption, FS_Subset, FS_CardinalityType

\* What is counted is seen in the count.
LEMMA HoldersCount ==
  /\ Holders \in Nat
  /\ handle.owned => Holders > 0
  /\ InNative => Holders > 0
  /\ \A i \in Images : image[i].kept => Holders > 0
<1>1. Cardinality(Kept) \in Nat /\ IsFiniteSet(Kept)
  BY KeptIsFinite
<1>2. One(handle.owned) \in {0, 1} /\ One(InNative) \in {0, 1}
  BY DEF One
<1>3. (handle.owned => One(handle.owned) = 1) /\ (InNative => One(InNative) = 1)
  BY DEF One
<1>4. ASSUME NEW i \in Images, image[i].kept PROVE Cardinality(Kept) > 0
  <2>1. Kept # {}
    BY <1>4 DEF Kept
  <2>2. Cardinality(Kept) # 0
    BY <1>1, <2>1, FS_EmptySet
  <2>. QED BY <1>1, <2>2
<1>. QED BY <1>1, <1>2, <1>3, <1>4 DEF Holders

\* Nothing holds the native decoder any more once it is destroyed.
LEMMA HeldMeansAlive ==
  ASSUME Counted, handle.owned \/ InNative \/ \E i \in Images : image[i].kept
  PROVE  handle.refs > 0 /\ handle.destroyed = 0
BY HoldersCount DEF Counted, Counts, One

LEMMA OneMoreKept ==
  ASSUME NEW i \in Images, ~image[i].kept, image'[i].kept,
         \A j \in Images : j # i => image'[j].kept = image[j].kept
  PROVE  Cardinality(Kept') = Cardinality(Kept) + 1
<1>1. Kept' = Kept \cup {i} /\ i \notin Kept
  BY DEF Kept
<1>. QED BY <1>1, KeptIsFinite, FS_AddElement

LEMMA OneLessKept ==
  ASSUME NEW i \in Images, image[i].kept, ~image'[i].kept,
         \A j \in Images : j # i => image'[j].kept = image[j].kept
  PROVE  Cardinality(Kept') = Cardinality(Kept) - 1
<1>1. Kept' = Kept \ {i} /\ i \in Kept
  BY DEF Kept
<1>. QED BY <1>1, KeptIsFinite, FS_RemoveElement

LEMMA SameKept ==
  ASSUME \A j \in Images : image'[j].kept = image[j].kept
  PROVE  Cardinality(Kept') = Cardinality(Kept)
<1>1. Kept' = Kept
  BY DEF Kept
<1>. QED BY <1>1

\* A step that gives no reference out and none back.
LEMMA CountedStays ==
  ASSUME Counted, \A j \in Images : image'[j].kept = image[j].kept, InNative' = InNative,
         handle'.refs = handle.refs, handle'.destroyed = handle.destroyed,
         handle'.owned = handle.owned
  PROVE  Counted'
<1>1. Holders' = Holders
  BY SameKept DEF Holders
<1>. QED BY <1>1 DEF Counted, Counts

-----------------------------------------------------------------------------
(* The steps of a call.                                                    *)

\* The thread in a call is the only one.
LEMMA Alone ==
  ASSUME Locked, NEW t \in Threads, pc[t] \in Working
  PROVE  /\ lock = t
         /\ \A u \in Threads : pc[u] \in Working => u = t
         /\ InNative <=> pc[t] \in {"decoding", "getting"}
BY DEF Locked, Working, InNative

LEMMA Nobody ==
  ASSUME Locked, lock = Free
  PROVE  (\A u \in Threads : pc[u] \notin Working) /\ ~InNative
BY FreeAssumption DEF Locked, Working, InNative

\* Entering a call and leaving it.
LEMMA EnterLocks ==
  ASSUME TypeOK, Locked, NEW t \in Threads, NEW label \in Working, Enter(t, label)
  PROVE  /\ Locked' /\ lock' \in Threads /\ pc' = [pc EXCEPT ![t] = label]
         /\ pc' \in [Threads -> Labels] /\ \A u \in Threads : pc[u] \notin Working
BY FreeAssumption DEF TypeOK, Locked, Enter, Goto, Working, Labels

LEMMA LeaveUnlocks ==
  ASSUME TypeOK, Locked, NEW t \in Threads, pc[t] \in Working, Leave(t)
  PROVE  /\ Locked' /\ lock' = Free /\ pc' = [pc EXCEPT ![t] = "idle"]
         /\ pc' \in [Threads -> Labels] /\ \A u \in Threads : pc'[u] \notin Working
BY FreeAssumption DEF TypeOK, Locked, Leave, Goto, Working, Labels

LEMMA GotoStays ==
  ASSUME TypeOK, Locked, NEW t \in Threads, NEW label \in Labels, Goto(t, label),
         UNCHANGED lock, label \in Working <=> pc[t] \in Working
  PROVE  /\ Locked' /\ pc' = [pc EXCEPT ![t] = label] /\ pc' \in [Threads -> Labels]
BY DEF TypeOK, Locked, Goto

LEMMA EnterDecodeKeeps == ASSUME IInv, NEW t \in Threads, EnterDecode(t) PROVE IInv'
<1>1. /\ Locked' /\ lock' \in Threads /\ pc' = [pc EXCEPT ![t] = "decode"]
      /\ pc' \in [Threads -> Labels] /\ \A u \in Threads : pc[u] \notin Working
  BY EnterLocks DEF EnterDecode, IInv, Working
<1>2. /\ dec' = [dec EXCEPT !.generation = dec.generation + 1] /\ ~dec.disposed
      /\ UNCHANGED <<arg, seen, handle, native, image, copies>>
  BY DEF EnterDecode, Usable
<1>3. TypeOK'
  BY <1>1, <1>2 DEF IInv, TypeOK
<1>4. Keeps' /\ CopyIsOwnFrame' /\ DisposeWaits'
  BY <1>1, <1>2 DEF IInv, TypeOK, Keeps, CopyIsOwnFrame, DisposeWaits
<1>5. Counted'
  <2>1. InNative' = InNative
    BY <1>1 DEF InNative, Working, IInv, TypeOK
  <2>. QED BY <1>2, <2>1, CountedStays DEF IInv
<1>6. Stages'
  BY <1>1, <1>2 DEF IInv, TypeOK, Stages, Working
<1>7. Fresh'
  BY <1>1, <1>2 DEF IInv, TypeOK, Fresh
<1>. QED BY <1>1, <1>3, <1>4, <1>5, <1>6, <1>7 DEF IInv

LEMMA NativeCallCounts ==
  ASSUME IInv, NEW t \in Threads, pc[t] \in {"decode", "get"},
         NEW label \in {"decoding", "getting"}, NativeCall(t, label), UNCHANGED image
  PROVE  /\ Locked' /\ Counted' /\ handle' \in Handles /\ pc' \in [Threads -> Labels]
         /\ lock' \in Threads \cup {Free}
         /\ \/ pc' = [pc EXCEPT ![t] = label]
            \/ pc' = [pc EXCEPT ![t] = "idle"]
<1>1. pc[t] \in Working /\ label \in Working /\ handle \in Handles /\ pc \in [Threads -> Labels]
      /\ label \in Labels
  BY DEF Working, IInv, TypeOK, Handles, Labels
<1>2. ~InNative /\ \A u \in Threads : pc[u] \in Working => u = t
  BY <1>1, Alone DEF IInv
<1>3. CASE handle.refs = 0
  <2>1. Leave(t) /\ UNCHANGED handle
    BY <1>3 DEF NativeCall
  <2>2. /\ Locked' /\ lock' = Free /\ pc' = [pc EXCEPT ![t] = "idle"]
        /\ pc' \in [Threads -> Labels] /\ \A u \in Threads : pc'[u] \notin Working
    BY <1>1, <2>1, LeaveUnlocks DEF IInv
  <2>3. InNative' = InNative
    BY <1>2, <2>2 DEF InNative, Working
  <2>4. Counted'
    BY <2>1, <2>3, CountedStays DEF IInv
  <2>. QED BY <1>1, <2>1, <2>2, <2>4
<1>4. CASE handle.refs # 0
  <2>1. Goto(t, label) /\ handle' = AddRef(handle) /\ UNCHANGED lock
    BY <1>4 DEF NativeCall
  <2>2. Locked' /\ pc' = [pc EXCEPT ![t] = label] /\ pc' \in [Threads -> Labels]
    BY <1>1, <2>1, GotoStays DEF IInv
  <2>3. InNative'
    BY <1>1, <2>2 DEF InNative
  <2>4. Holders \in Nat /\ Counts(handle, Holders) /\ Holders > 0
    BY <1>4, HoldersCount DEF IInv, Counted, Counts
  <2>5. handle' \in Handles /\ Counts(handle', Holders + 1) /\ handle'.owned = handle.owned
    BY <1>1, <2>1, <2>4, AddRefCounts
  <2>6. Cardinality(Kept) \in Nat /\ Cardinality(Kept') = Cardinality(Kept)
    BY KeptIsFinite, SameKept
  <2>7. Holders' = Holders + 1
    BY <1>2, <2>3, <2>5, <2>6 DEF Holders, One
  <2>. QED BY <2>1, <2>2, <2>5, <2>7 DEF Counted, IInv, TypeOK
<1>. QED BY <1>3, <1>4

LEMMA DecodeNativeKeeps == ASSUME IInv, NEW t \in Threads, DecodeNative(t) PROVE IInv'
<1>1. pc[t] = "decode" /\ NativeCall(t, "decoding") /\ UNCHANGED <<arg, seen, dec, native, image, copies>>
  BY DEF DecodeNative
<1>2. /\ Locked' /\ Counted' /\ handle' \in Handles /\ pc' \in [Threads -> Labels]
      /\ lock' \in Threads \cup {Free}
      /\ \/ pc' = [pc EXCEPT ![t] = "decoding"]
         \/ pc' = [pc EXCEPT ![t] = "idle"]
  BY <1>1, NativeCallCounts
<1>3. TypeOK'
  BY <1>1, <1>2 DEF IInv, TypeOK, Handles, ImageTypes
<1>4. Keeps' /\ CopyIsOwnFrame' /\ DisposeWaits'
  BY <1>1, <1>2 DEF IInv, TypeOK, Keeps, CopyIsOwnFrame, DisposeWaits, Working
<1>5. Stages'
  BY <1>1, <1>2 DEF IInv, TypeOK, Stages
<1>6. Fresh'
  BY <1>1, <1>2 DEF IInv, TypeOK, Fresh
<1>. QED BY <1>2, <1>3, <1>4, <1>5, <1>6 DEF IInv

LEMMA GetNativeKeeps == ASSUME IInv, NEW t \in Threads, GetNative(t) PROVE IInv'
<1>1. pc[t] = "get" /\ NativeCall(t, "getting") /\ UNCHANGED <<arg, seen, dec, native, image, copies>>
  BY DEF GetNative
<1>2. /\ Locked' /\ Counted' /\ handle' \in Handles /\ pc' \in [Threads -> Labels]
      /\ lock' \in Threads \cup {Free}
      /\ \/ pc' = [pc EXCEPT ![t] = "getting"]
         \/ pc' = [pc EXCEPT ![t] = "idle"]
  BY <1>1, NativeCallCounts
<1>3. TypeOK'
  BY <1>1, <1>2 DEF IInv, TypeOK, Handles, ImageTypes
<1>4. Keeps' /\ CopyIsOwnFrame' /\ DisposeWaits'
  BY <1>1, <1>2 DEF IInv, TypeOK, Keeps, CopyIsOwnFrame, DisposeWaits, Working
<1>5. Stages'
  BY <1>1, <1>2 DEF IInv, TypeOK, Stages
<1>6. Fresh'
  BY <1>1, <1>2 DEF IInv, TypeOK, Fresh
<1>. QED BY <1>2, <1>3, <1>4, <1>5, <1>6 DEF IInv

\* A native call returns: its thread gives back the reference it held.
LEMMA NativeReturnCounts ==
  ASSUME IInv, NEW t \in Threads, pc[t] \in {"decoding", "getting"}, handle' = Release(handle),
         NEW label \in Labels, label \notin {"decoding", "getting"}, pc' = [pc EXCEPT ![t] = label],
         \A j \in Images : image'[j].kept = image[j].kept
  PROVE  Counted' /\ handle' \in Handles
<1>1. pc[t] \in Working /\ handle \in Handles /\ pc \in [Threads -> Labels]
  BY DEF Working, IInv, TypeOK, Handles
<1>2. InNative /\ \A u \in Threads : pc[u] \in Working => u = t
  BY <1>1, Alone DEF IInv
<1>3. ~InNative'
  BY <1>1, <1>2 DEF InNative, Working
<1>4. Holders \in Nat /\ Counts(handle, Holders) /\ Holders > 0
  BY <1>2, HoldersCount DEF IInv, Counted
<1>5. handle' \in Handles /\ Counts(handle', Holders - 1) /\ handle'.owned = handle.owned
  BY <1>1, <1>4, ReleaseCounts
<1>6. Cardinality(Kept) \in Nat /\ Cardinality(Kept') = Cardinality(Kept)
  BY KeptIsFinite, SameKept
<1>7. Holders' = Holders - 1
  BY <1>2, <1>3, <1>5, <1>6 DEF Holders, One
<1>. QED BY <1>5, <1>7 DEF Counted

LEMMA DecodeReturnKeeps == ASSUME IInv, NEW t \in Threads, DecodeReturn(t) PROVE IInv'
<1>1. /\ pc[t] = "decoding" /\ pc[t] \in Working /\ handle' = Release(handle) /\ Leave(t)
      /\ UNCHANGED <<arg, seen, dec, image, copies>>
  BY DEF DecodeReturn, Working
<1>2. PICK ready \in BOOLEAN : native' = [pixels |-> native.pixels + 1, ready |-> ready]
  BY DEF DecodeReturn
<1>3. /\ Locked' /\ lock' = Free /\ pc' = [pc EXCEPT ![t] = "idle"]
      /\ pc' \in [Threads -> Labels] /\ \A u \in Threads : pc'[u] \notin Working
  BY <1>1, LeaveUnlocks DEF IInv
<1>4. Counted' /\ handle' \in Handles
  BY <1>1, <1>3, NativeReturnCounts DEF Labels
<1>5. TypeOK'
  BY <1>1, <1>2, <1>3, <1>4 DEF IInv, TypeOK, Handles, ImageTypes
<1>6. Keeps' /\ CopyIsOwnFrame' /\ DisposeWaits' /\ Stages'
  BY <1>1, <1>3 DEF IInv, Keeps, CopyIsOwnFrame, DisposeWaits, Stages, Working
<1>7. Fresh'
  BY <1>1, <1>3 DEF IInv, Fresh, Working
<1>. QED BY <1>3, <1>4, <1>5, <1>6, <1>7 DEF IInv

LEMMA EnterGetKeeps == ASSUME IInv, NEW t \in Threads, EnterGet(t) PROVE IInv'
<1>1. /\ Locked' /\ lock' \in Threads /\ pc' = [pc EXCEPT ![t] = "get"]
      /\ pc' \in [Threads -> Labels] /\ \A u \in Threads : pc[u] \notin Working
  BY EnterLocks DEF EnterGet, IInv, Working
<1>2. ~dec.disposed /\ UNCHANGED <<arg, seen, dec, handle, native, image, copies>>
  BY DEF EnterGet, Usable
<1>3. TypeOK'
  BY <1>1, <1>2 DEF IInv, TypeOK
<1>4. Keeps' /\ CopyIsOwnFrame' /\ DisposeWaits'
  BY <1>1, <1>2 DEF IInv, TypeOK, Keeps, CopyIsOwnFrame, DisposeWaits
<1>5. InNative' = InNative
  BY <1>1 DEF InNative, Working, IInv, TypeOK
<1>6. Counted'
  BY <1>2, <1>5, CountedStays DEF IInv
<1>7. Stages' /\ Fresh'
  BY <1>1, <1>2 DEF IInv, TypeOK, Stages, Fresh, Working
<1>. QED BY <1>1, <1>3, <1>4, <1>6, <1>7 DEF IInv

LEMMA GetNothingKeeps == ASSUME IInv, NEW t \in Threads, GetNothing(t) PROVE IInv'
<1>1. /\ pc[t] = "getting" /\ pc[t] \in Working /\ handle' = Release(handle) /\ Leave(t)
      /\ native' = [native EXCEPT !.ready = FALSE]
      /\ UNCHANGED <<arg, seen, dec, image, copies>>
  BY DEF GetNothing, Working
<1>2. /\ Locked' /\ lock' = Free /\ pc' = [pc EXCEPT ![t] = "idle"]
      /\ pc' \in [Threads -> Labels] /\ \A u \in Threads : pc'[u] \notin Working
  BY <1>1, LeaveUnlocks DEF IInv
<1>3. Counted' /\ handle' \in Handles
  BY <1>1, <1>2, NativeReturnCounts DEF Labels
<1>4. TypeOK' /\ native'.pixels = native.pixels
  BY <1>1, <1>2, <1>3 DEF IInv, TypeOK, Handles, ImageTypes
<1>5. Keeps' /\ CopyIsOwnFrame' /\ DisposeWaits' /\ Stages'
  BY <1>1, <1>2 DEF IInv, Keeps, CopyIsOwnFrame, DisposeWaits, Stages, Working
<1>6. Fresh'
  BY <1>1, <1>2, <1>4 DEF IInv, Fresh, Working
<1>. QED BY <1>2, <1>3, <1>4, <1>5, <1>6 DEF IInv

LEMMA GetImageKeeps ==
  ASSUME IInv, NEW t \in Threads, NEW i \in Images, GetImage(t, i) PROVE IInv'
<1>1. /\ pc[t] = "getting" /\ pc[t] \in Working /\ handle' = Release(handle) /\ Goto(t, "keep")
      /\ native' = [native EXCEPT !.ready = FALSE] /\ arg' = [arg EXCEPT ![t] = i]
      /\ image' = [image EXCEPT ![i].state = "native", ![i].frame = native.pixels]
      /\ image[i].state = "unused" /\ UNCHANGED <<lock, seen, dec, copies>>
  BY DEF GetImage, Working
<1>2. Locked' /\ pc' = [pc EXCEPT ![t] = "keep"] /\ pc' \in [Threads -> Labels]
  BY <1>1, GotoStays DEF IInv, Working, Labels
<1>3. \A u \in Threads : u # t => pc[u] \notin Working /\ pc'[u] = pc[u]
  BY <1>1, <1>2, Alone DEF IInv, TypeOK
<1>4. /\ image'[i] = [image[i] EXCEPT !.state = "native", !.frame = native.pixels]
      /\ \A j \in Images : j # i => image'[j] = image[j]
      /\ ~image[i].kept /\ ~image[i].rooted
      /\ image'[i].kept = image[i].kept /\ image'[i].rooted = image[i].rooted
      /\ image'[i].state = "native" /\ image'[i].frame = native.pixels
  BY <1>1 DEF IInv, TypeOK, Keeps
<1>5. Counted' /\ handle' \in Handles
  <2>1. \A j \in Images : image'[j].kept = image[j].kept
    BY <1>4
  <2>. QED BY <1>1, <1>2, <2>1, NativeReturnCounts DEF Labels
<1>6. TypeOK' /\ native'.pixels = native.pixels
  <2>1. image' \in ImageTypes
    <3>1. native.pixels \in Nat /\ image \in ImageTypes
      BY DEF IInv, TypeOK, ImageTypes
    <3>2. PICK n \in Nat : n = native.pixels
      BY <3>1
    <3>3. image' = [image EXCEPT ![i] = [image[i] EXCEPT !.state = "native", !.frame = n]]
      BY <1>1, <3>1, <3>2 DEF ImageTypes
    <3>. QED BY <3>1, <3>3 DEF ImageTypes
  <2>. QED BY <1>1, <1>2, <1>5, <2>1 DEF IInv, TypeOK, Handles, ImageTypes
<1>7. Keeps' /\ CopyIsOwnFrame'
  BY <1>1, <1>4 DEF IInv, Keeps, CopyIsOwnFrame
<1>8. DisposeWaits'
  BY <1>1, <1>2 DEF IInv, DisposeWaits, Working
<1>9. Stages'
  <2>. SUFFICES ASSUME NEW u \in Threads
                PROVE  /\ pc'[u] \in {"keep", "wrap", "copy", "copying"} => u = t
                       /\ pc'[t] = "keep" /\ arg'[t] = i
    BY <1>4, <1>6 DEF Stages
  <2>. QED BY <1>1, <1>2, <1>3 DEF Working, IInv, TypeOK
<1>10. Fresh'
  BY <1>1, <1>2, <1>4, <1>6 DEF IInv, TypeOK, Fresh
<1>. QED BY <1>2, <1>5, <1>6, <1>7, <1>8, <1>9, <1>10 DEF IInv

\* An image is released and gives back the reference it kept, if any.
LEMMA ReleaseImageCounts ==
  ASSUME IInv, NEW i \in Images, ReleaseImage(i), InNative' = InNative
  PROVE  /\ Counted' /\ handle' \in Handles
         /\ \A j \in Images : j # i => image'[j] = image[j]
         /\ image'[i].state = "released" /\ ~image'[i].kept
         /\ image' \in ImageTypes
<1>1. handle \in Handles /\ image \in ImageTypes
  BY DEF IInv, TypeOK, Handles, ImageTypes
<1>2. image' = [image EXCEPT ![i].state = "released", ![i].kept = FALSE]
  BY DEF ReleaseImage
<1>3. /\ \A j \in Images : j # i => image'[j] = image[j]
      /\ image'[i].state = "released" /\ ~image'[i].kept
      /\ image' \in ImageTypes
  BY <1>1, <1>2 DEF ImageTypes
<1>4. CASE image[i].kept
  <2>1. handle' = Release(handle)
    BY <1>4 DEF ReleaseImage
  <2>2. Holders \in Nat /\ Counts(handle, Holders) /\ Holders > 0
    BY <1>4, HoldersCount DEF IInv, Counted
  <2>3. handle' \in Handles /\ Counts(handle', Holders - 1) /\ handle'.owned = handle.owned
    BY <1>1, <2>1, <2>2, ReleaseCounts
  <2>4. Cardinality(Kept) \in Nat /\ Cardinality(Kept') = Cardinality(Kept) - 1
    BY <1>3, <1>4, KeptIsFinite, OneLessKept
  <2>5. Holders' = Holders - 1
    BY <2>3, <2>4 DEF Holders, One
  <2>. QED BY <1>3, <2>3, <2>5 DEF Counted
<1>5. CASE ~image[i].kept
  <2>1. handle' = handle /\ \A j \in Images : image'[j].kept = image[j].kept
    BY <1>1, <1>3, <1>5 DEF ReleaseImage, ImageTypes
  <2>2. Counted'
    BY <2>1, CountedStays DEF IInv
  <2>. QED BY <1>1, <1>3, <2>1, <2>2
<1>. QED BY <1>4, <1>5

LEMMA KeepKeeps == ASSUME IInv, NEW t \in Threads, Keep(t) PROVE IInv'
<1> DEFINE i == arg[t]
<1>1. /\ pc[t] = "keep" /\ pc[t] \in Working /\ i \in Images /\ handle \in Handles
      /\ image[i].state = "native" /\ image[i].frame = native.pixels /\ ~image[i].kept
      /\ ~image[i].rooted
      /\ UNCHANGED <<arg, seen, dec, native, copies>>
  BY DEF Keep, Working, IInv, TypeOK, Stages, Keeps, Handles
<1>2. ~InNative /\ \A u \in Threads : pc[u] \in Working => u = t
  BY <1>1, Alone DEF IInv
<1>3. CASE handle.refs = 0
  <2>1. ReleaseImage(i) /\ Leave(t)
    BY <1>3 DEF Keep
  <2>2. /\ Locked' /\ lock' = Free /\ pc' = [pc EXCEPT ![t] = "idle"]
        /\ pc' \in [Threads -> Labels] /\ \A u \in Threads : pc'[u] \notin Working
    BY <1>1, <2>1, LeaveUnlocks DEF IInv
  <2>3. InNative' = InNative
    BY <1>2, <2>2 DEF InNative, Working
  <2>4. /\ Counted' /\ handle' \in Handles
        /\ \A j \in Images : j # i => image'[j] = image[j]
        /\ image'[i].state = "released" /\ ~image'[i].kept
        /\ image' \in ImageTypes
    BY <1>1, <2>1, <2>3, ReleaseImageCounts
  <2>5. TypeOK'
    BY <1>1, <2>2, <2>4 DEF IInv, TypeOK, Handles, ImageTypes
  <2>6. Keeps' /\ CopyIsOwnFrame' /\ DisposeWaits'
    BY <1>1, <2>2, <2>4 DEF IInv, Keeps, CopyIsOwnFrame, DisposeWaits
  <2>7. Stages' /\ Fresh'
    BY <1>1, <2>2, <2>4 DEF IInv, Stages, Fresh, Working
  <2>. QED BY <2>2, <2>4, <2>5, <2>6, <2>7 DEF IInv
<1>4. CASE handle.refs # 0
  <2>1. /\ image' = [image EXCEPT ![i].kept = TRUE] /\ handle' = AddRef(handle)
        /\ Goto(t, "wrap") /\ UNCHANGED lock
    BY <1>4 DEF Keep
  <2>2. Locked' /\ pc' = [pc EXCEPT ![t] = "wrap"] /\ pc' \in [Threads -> Labels]
    BY <1>1, <2>1, GotoStays DEF IInv, Working, Labels
  <2>3. /\ \A j \in Images : j # i => image'[j] = image[j]
        /\ image'[i].kept /\ image'[i].state = "native" /\ image'[i].frame = native.pixels
        /\ ~image'[i].rooted
    BY <1>1, <2>1 DEF IInv, TypeOK
  <2>4. ~InNative'
    BY <1>2, <2>2 DEF InNative, Working, IInv, TypeOK
  <2>5. Holders \in Nat /\ Counts(handle, Holders) /\ Holders > 0
    BY <1>4, HoldersCount DEF IInv, Counted, Counts
  <2>6. handle' \in Handles /\ Counts(handle', Holders + 1) /\ handle'.owned = handle.owned
    BY <1>1, <2>1, <2>5, AddRefCounts
  <2>7. Cardinality(Kept) \in Nat /\ Cardinality(Kept') = Cardinality(Kept) + 1
    BY <1>1, <2>3, KeptIsFinite, OneMoreKept
  <2>8. Holders' = Holders + 1
    BY <1>2, <2>4, <2>6, <2>7 DEF Holders, One
  <2>9. Counted'
    BY <2>6, <2>8 DEF Counted
  <2>10. TypeOK'
    <3>1. image \in ImageTypes
      BY DEF IInv, TypeOK, ImageTypes
    <3>2. image' \in ImageTypes
      BY <1>1, <2>1, <3>1, ZenonT(60) DEF ImageTypes
    <3>. QED BY <1>1, <2>1, <2>2, <2>6, <3>2, ZenonT(60) DEF IInv, TypeOK, Handles, ImageTypes
  <2>11. Keeps' /\ CopyIsOwnFrame' /\ DisposeWaits'
    BY <1>1, <2>2, <2>3 DEF IInv, Keeps, CopyIsOwnFrame, DisposeWaits, Working
  <2>12. Stages'
    <3>. SUFFICES ASSUME NEW u \in Threads
                  PROVE  /\ pc'[u] \in {"keep", "wrap", "copy", "copying"} => u = t
                         /\ pc'[t] = "wrap" /\ arg'[t] = i
      BY <1>1, <2>3 DEF Stages
    <3>. QED BY <1>1, <1>2, <2>2 DEF Working, IInv, TypeOK
  <2>13. Fresh'
    BY <1>1, <2>2, <2>3 DEF IInv, TypeOK, Fresh
  <2>. QED BY <2>2, <2>9, <2>10, <2>11, <2>12, <2>13 DEF IInv
<1>. QED BY <1>3, <1>4

LEMMA WrapKeeps == ASSUME IInv, NEW t \in Threads, Wrap(t) PROVE IInv'
<1> DEFINE i == arg[t]
<1>1. /\ pc[t] = "wrap" /\ pc[t] \in Working /\ i \in Images /\ Leave(t)
      /\ image[i].state = "native" /\ image[i].frame = native.pixels /\ image[i].kept
      /\ UNCHANGED <<arg, seen, dec, handle, native, copies>>
  BY DEF Wrap, Working, IInv, TypeOK, Stages
<1>2. /\ Locked' /\ lock' = Free /\ pc' = [pc EXCEPT ![t] = "idle"]
      /\ pc' \in [Threads -> Labels] /\ \A u \in Threads : pc'[u] \notin Working
  BY <1>1, LeaveUnlocks DEF IInv
<1>3. /\ \A j \in Images : j # i => image'[j] = image[j]
      /\ image'[i].kept = image[i].kept /\ image'[i].state = "live" /\ image'[i].frame = native.pixels
      /\ image'[i].generation = dec.generation
  BY <1>1, ZenonT(60) DEF IInv, TypeOK, Wrap
<1>4. InNative' = InNative
  BY <1>1, <1>2, Alone DEF InNative, Working, IInv
<1>5. Counted'
  BY <1>1, <1>3, <1>4, CountedStays DEF IInv
<1>6. TypeOK'
  <2>1. image' \in ImageTypes
    <3>1. dec.generation \in Nat /\ image \in ImageTypes
      BY DEF IInv, TypeOK, ImageTypes
    <3>2. PICK n \in Nat : n = dec.generation
      BY <3>1
    <3>3. image' = [image EXCEPT ![i] = [image[i] EXCEPT !.state = "live", !.rooted = TRUE, !.generation = n]]
      BY <1>1, <3>1, <3>2 DEF ImageTypes, Wrap
    <3>. QED BY <1>1, <3>1, <3>3, ZenonT(60) DEF ImageTypes
  <2>. QED BY <1>1, <1>2, <2>1 DEF IInv, TypeOK, ImageTypes
<1>7. Keeps' /\ CopyIsOwnFrame' /\ DisposeWaits'
  BY <1>1, <1>2, <1>3 DEF IInv, Keeps, CopyIsOwnFrame, DisposeWaits
<1>8. Stages' /\ Fresh'
  BY <1>1, <1>2, <1>3 DEF IInv, TypeOK, Stages, Fresh, Working
<1>. QED BY <1>2, <1>5, <1>6, <1>7, <1>8 DEF IInv

LEMMA EnterCopyKeeps ==
  ASSUME IInv, NEW t \in Threads, NEW i \in Images, EnterCopy(t, i) PROVE IInv'
<1>1. /\ Locked' /\ lock' \in Threads /\ pc' = [pc EXCEPT ![t] = "copy"]
      /\ pc' \in [Threads -> Labels] /\ \A u \in Threads : pc[u] \notin Working
  BY EnterLocks DEF EnterCopy, IInv, Working
<1>2. /\ ~dec.disposed /\ image[i].state = "live" /\ image[i].generation = dec.generation
      /\ arg' = [arg EXCEPT ![t] = i] /\ UNCHANGED <<seen, dec, handle, native, image, copies>>
  BY DEF EnterCopy, Current, Usable
<1>3. TypeOK'
  BY <1>1, <1>2 DEF IInv, TypeOK
<1>4. Keeps' /\ CopyIsOwnFrame' /\ DisposeWaits'
  BY <1>1, <1>2 DEF IInv, TypeOK, Keeps, CopyIsOwnFrame, DisposeWaits
<1>5. InNative' = InNative
  BY <1>1 DEF InNative, Working, IInv, TypeOK
<1>6. Counted'
  BY <1>2, <1>5, CountedStays DEF IInv
<1>7. Stages' /\ Fresh'
  BY <1>1, <1>2 DEF IInv, TypeOK, Stages, Fresh, Working
<1>. QED BY <1>1, <1>3, <1>4, <1>6, <1>7 DEF IInv

LEMMA CopyFirstPlaneKeeps == ASSUME IInv, NEW t \in Threads, CopyFirstPlane(t) PROVE IInv'
<1>1. /\ pc[t] = "copy" /\ pc[t] \in Working /\ Goto(t, "copying")
      /\ seen' = [seen EXCEPT ![t] = native.pixels]
      /\ UNCHANGED <<lock, arg, dec, handle, native, image, copies>>
  BY DEF CopyFirstPlane, Working
<1>2. Locked' /\ pc' = [pc EXCEPT ![t] = "copying"] /\ pc' \in [Threads -> Labels]
  BY <1>1, GotoStays DEF IInv, Working, Labels
<1>3. TypeOK'
  BY <1>1, <1>2 DEF IInv, TypeOK
<1>4. Keeps' /\ CopyIsOwnFrame' /\ DisposeWaits'
  BY <1>1, <1>2 DEF IInv, TypeOK, Keeps, CopyIsOwnFrame, DisposeWaits
<1>5. InNative' = InNative
  BY <1>1, <1>2 DEF InNative, IInv, TypeOK
<1>6. Counted'
  BY <1>1, <1>5, CountedStays DEF IInv
<1>7. Stages' /\ Fresh'
  BY <1>1, <1>2 DEF IInv, TypeOK, Stages, Fresh, Working
<1>. QED BY <1>2, <1>3, <1>4, <1>6, <1>7 DEF IInv

\* The second plane is read from the frame of the first, the image's own.
LEMMA CopyOtherPlanesKeeps == ASSUME IInv, NEW t \in Threads, CopyOtherPlanes(t) PROVE IInv'
<1>1. /\ pc[t] = "copying" /\ pc[t] \in Working /\ Leave(t)
      /\ copies' = copies \cup {[own |-> image[arg[t]].frame, first |-> seen[t], last |-> native.pixels]}
      /\ UNCHANGED <<arg, seen, dec, handle, native, image>>
  BY DEF CopyOtherPlanes, Working
<1>2. /\ Locked' /\ lock' = Free /\ pc' = [pc EXCEPT ![t] = "idle"]
      /\ pc' \in [Threads -> Labels] /\ \A u \in Threads : pc'[u] \notin Working
  BY <1>1, LeaveUnlocks DEF IInv
<1>3. image[arg[t]].frame = native.pixels /\ seen[t] = native.pixels
  BY <1>1 DEF IInv, TypeOK, Stages, Fresh
<1>4. native.pixels \in Nat
  BY DEF IInv, TypeOK
<1>5. TypeOK' /\ CopyIsOwnFrame'
  BY <1>1, <1>2, <1>3, <1>4 DEF IInv, TypeOK, CopyIsOwnFrame
<1>6. Keeps' /\ DisposeWaits'
  BY <1>1, <1>2 DEF IInv, Keeps, DisposeWaits
<1>7. InNative' = InNative
  BY <1>1, <1>2, Alone DEF InNative, Working, IInv
<1>8. Counted'
  BY <1>1, <1>7, CountedStays DEF IInv
<1>9. Stages' /\ Fresh'
  BY <1>1, <1>2 DEF IInv, Stages, Fresh, Working
<1>. QED BY <1>2, <1>5, <1>6, <1>8, <1>9 DEF IInv

-----------------------------------------------------------------------------
(* Disposal.                                                               *)

\* An image that no thread is using may be released.
LEMMA ReleaseKeeps ==
  ASSUME IInv, NEW i \in Images, ReleaseImage(i), image[i].state = "live",
         \A t \in Threads : pc[t] \in {"copy", "copying"} => arg[t] # i,
         UNCHANGED <<lock, pc, arg, seen, dec, native, copies>>
  PROVE  IInv'
<1>1. InNative' = InNative
  BY DEF InNative
<1>2. /\ Counted' /\ handle' \in Handles
      /\ \A j \in Images : j # i => image'[j] = image[j]
      /\ image'[i].state = "released" /\ ~image'[i].kept
      /\ image' \in ImageTypes
  BY <1>1, ReleaseImageCounts
<1>3. TypeOK'
  BY <1>2 DEF IInv, TypeOK, Handles, ImageTypes
<1>4. Locked' /\ CopyIsOwnFrame' /\ DisposeWaits'
  BY DEF IInv, Locked, CopyIsOwnFrame, DisposeWaits
<1>5. Keeps' /\ Stages' /\ Fresh'
  BY <1>2 DEF IInv, TypeOK, Keeps, Stages, Fresh
<1>. QED BY <1>2, <1>3, <1>4, <1>5 DEF IInv

LEMMA DisposeImageKeeps ==
  ASSUME IInv, NEW t \in Threads, NEW i \in Images, DisposeImage(t, i) PROVE IInv'
<1>1. \A u \in Threads : pc[u] \notin Working
  BY Nobody DEF DisposeImage, IInv
<1>. QED BY <1>1, ReleaseKeeps DEF DisposeImage, Working

LEMMA FinalizeImageKeeps == ASSUME IInv, NEW i \in Images, FinalizeImage(i) PROVE IInv'
BY ReleaseKeeps DEF FinalizeImage, Reachable

\* A thread outside SyncRoot goes on outside it.
LEMMA OutsideKeeps ==
  ASSUME IInv, NEW t \in Threads, NEW label \in Labels, pc[t] \notin Working, label \notin Working,
         Goto(t, label), UNCHANGED <<lock, arg, seen, native, image, copies>>
  PROVE  /\ Locked' /\ Keeps' /\ CopyIsOwnFrame' /\ pc' \in [Threads -> Labels]
         /\ InNative' = InNative
         /\ \A u \in Threads : pc'[u] # pc[u] => pc'[u] \notin Working
         /\ dec'.generation = dec.generation => Stages' /\ Fresh'
         /\ dec'.disposed = dec.disposed => DisposeWaits'
<1>1. Locked' /\ pc' = [pc EXCEPT ![t] = label] /\ pc' \in [Threads -> Labels]
  BY GotoStays DEF IInv
<1>2. Keeps' /\ CopyIsOwnFrame'
  BY DEF IInv, Keeps, CopyIsOwnFrame
<1>3. \A u \in Threads : pc'[u] = pc[u] \/ (pc'[u] \notin Working /\ pc[u] \notin Working)
  BY <1>1 DEF IInv, TypeOK
<1>4. InNative' = InNative
  BY <1>3 DEF InNative, Working
<1>5. dec'.generation = dec.generation => Stages' /\ Fresh'
  BY <1>3 DEF IInv, Stages, Fresh, Working
<1>6. dec'.disposed = dec.disposed => DisposeWaits'
  BY <1>3 DEF IInv, DisposeWaits
<1>. QED BY <1>1, <1>2, <1>3, <1>4, <1>5, <1>6

LEMMA BeginDisposeKeeps ==
  ASSUME IInv, NEW t \in Threads, BeginDispose(t) \/ DisposeHandle(t) PROVE IInv'
<1>1. PICK label \in {"dispose", "request"} :
        /\ pc[t] = "idle" /\ Goto(t, label)
        /\ UNCHANGED <<lock, arg, seen, dec, handle, native, image, copies>>
  BY DEF BeginDispose, DisposeHandle
<1>2. /\ Locked' /\ Keeps' /\ CopyIsOwnFrame' /\ pc' \in [Threads -> Labels]
      /\ InNative' = InNative /\ Stages' /\ Fresh' /\ DisposeWaits'
  BY <1>1, OutsideKeeps DEF Working, Labels
<1>3. Counted'
  BY <1>1, <1>2, CountedStays DEF IInv
<1>4. TypeOK'
  BY <1>1, <1>2 DEF IInv, TypeOK
<1>. QED BY <1>2, <1>3, <1>4 DEF IInv

\* Disposed is set while no thread is in a call.
LEMMA SetDisposedKeeps == ASSUME IInv, NEW t \in Threads, SetDisposed(t) PROVE IInv'
<1>1. /\ pc[t] = "dispose" /\ lock = Free /\ Goto(t, "request")
      /\ dec' = [dec EXCEPT !.disposed = TRUE]
      /\ UNCHANGED <<lock, arg, seen, handle, native, image, copies>>
  BY DEF SetDisposed
<1>2. dec'.generation = dec.generation /\ TypeOK
  BY <1>1 DEF IInv, TypeOK
<1>3. /\ Locked' /\ Keeps' /\ CopyIsOwnFrame' /\ pc' \in [Threads -> Labels]
      /\ InNative' = InNative /\ Stages' /\ Fresh'
      /\ \A u \in Threads : pc'[u] # pc[u] => pc'[u] \notin Working
  BY <1>1, <1>2, OutsideKeeps DEF Working, Labels
<1>4. Counted'
  BY <1>1, <1>3, CountedStays DEF IInv
<1>5. TypeOK'
  BY <1>1, <1>3 DEF IInv, TypeOK
<1>6. DisposeWaits'
  BY <1>1, <1>3, Nobody DEF IInv, DisposeWaits
<1>. QED BY <1>3, <1>4, <1>5, <1>6 DEF IInv

LEMMA RequestDisposeKeeps == ASSUME IInv, NEW t \in Threads, RequestDispose(t) PROVE IInv'
<1>1. /\ pc[t] = "request" /\ Goto(t, "release")
      /\ handle' = [handle EXCEPT !.requested = TRUE]
      /\ UNCHANGED <<lock, arg, seen, dec, native, image, copies>>
  BY DEF RequestDispose
<1>2. /\ Locked' /\ Keeps' /\ CopyIsOwnFrame' /\ pc' \in [Threads -> Labels]
      /\ InNative' = InNative /\ Stages' /\ Fresh' /\ DisposeWaits'
  BY <1>1, OutsideKeeps DEF Working, Labels
<1>3. TypeOK'
  BY <1>1, <1>2 DEF IInv, TypeOK
<1>4. handle'.refs = handle.refs /\ handle'.destroyed = handle.destroyed /\ handle'.owned = handle.owned
  BY <1>1 DEF IInv, TypeOK
<1>5. Counted'
  BY <1>1, <1>2, <1>4, CountedStays DEF IInv
<1>. QED BY <1>2, <1>3, <1>5 DEF IInv

\* The handle gives its own reference back, once.
LEMMA OwnReleased ==
  ASSUME IInv, handle.owned, handle' = [Release(handle) EXCEPT !.owned = FALSE],
         UNCHANGED image, InNative' = InNative
  PROVE  Counted' /\ handle' \in Handles
<1>1. handle \in Handles
  BY DEF IInv, TypeOK, Handles
<1>2. Holders \in Nat /\ Counts(handle, Holders) /\ Holders > 0
  BY HoldersCount DEF IInv, Counted
<1>3. Release(handle) \in Handles /\ Counts(Release(handle), Holders - 1)
  BY <1>1, <1>2, ReleaseCounts
<1>4. handle' \in Handles /\ Counts(handle', Holders - 1) /\ ~handle'.owned
  BY <1>3 DEF Handles, Counts
<1>5. Cardinality(Kept) \in Nat /\ Cardinality(Kept') = Cardinality(Kept)
  BY KeptIsFinite, SameKept
<1>6. Holders' = Holders - 1
  BY <1>4, <1>5 DEF Holders, One
<1>. QED BY <1>4, <1>6 DEF Counted

LEMMA ReleaseOwnKeeps == ASSUME IInv, NEW t \in Threads, ReleaseOwn(t) PROVE IInv'
<1>1. /\ pc[t] = "release" /\ Goto(t, "idle")
      /\ UNCHANGED <<lock, arg, seen, dec, native, image, copies>>
  BY DEF ReleaseOwn
<1>2. /\ Locked' /\ Keeps' /\ CopyIsOwnFrame' /\ pc' \in [Threads -> Labels]
      /\ InNative' = InNative /\ Stages' /\ Fresh' /\ DisposeWaits'
  BY <1>1, OutsideKeeps DEF Working, Labels
<1>3. Counted' /\ handle' \in Handles
  <2>1. CASE handle.owned
    BY <1>1, <1>2, <2>1, OwnReleased DEF ReleaseOwn
  <2>2. CASE ~handle.owned
    <3>1. handle' = handle
      BY <2>2 DEF ReleaseOwn
    <3>. QED BY <1>1, <1>2, <3>1, CountedStays DEF IInv, TypeOK, Handles
  <2>. QED BY <2>1, <2>2
<1>4. TypeOK'
  BY <1>1, <1>2, <1>3 DEF IInv, TypeOK, Handles
<1>. QED BY <1>2, <1>3, <1>4 DEF IInv

LEMMA DropImageKeeps == ASSUME IInv, NEW i \in Images, DropImage(i) PROVE IInv'
<1>1. /\ image' = [image EXCEPT ![i].rooted = FALSE]
      /\ UNCHANGED <<lock, pc, arg, seen, dec, handle, native, copies>>
  BY DEF DropImage
<1>2. image \in ImageTypes /\ arg \in [Threads -> Images]
  BY DEF IInv, TypeOK, ImageTypes
<1>3. image' \in ImageTypes
  BY <1>1, <1>2 DEF ImageTypes
<1>4. \A j \in Images :
        /\ image'[j].state = image[j].state /\ image'[j].kept = image[j].kept
        /\ image'[j].generation = image[j].generation /\ image'[j].frame = image[j].frame
        /\ image'[j].rooted => image[j].rooted
  BY <1>1, <1>2 DEF ImageTypes
<1>5. Counted'
  BY <1>1, <1>4, CountedStays DEF IInv, InNative
<1>6. TypeOK' /\ Locked'
  BY <1>1, <1>3 DEF IInv, TypeOK, ImageTypes, Locked
<1>7. Keeps' /\ Stages' /\ Fresh' /\ CopyIsOwnFrame' /\ DisposeWaits'
  BY <1>1, <1>2, <1>4 DEF IInv, Keeps, Stages, Fresh, CopyIsOwnFrame, DisposeWaits
<1>. QED BY <1>5, <1>6, <1>7 DEF IInv

LEMMA DropDecoderKeeps == ASSUME IInv, DropDecoder PROVE IInv'
<1>1. /\ dec' = [dec EXCEPT !.rooted = FALSE]
      /\ UNCHANGED <<lock, pc, arg, seen, handle, native, image, copies>>
  BY DEF DropDecoder
<1>2. dec'.disposed = dec.disposed /\ dec'.generation = dec.generation /\ TypeOK'
  BY <1>1 DEF IInv, TypeOK
<1>3. Counted'
  BY <1>1, CountedStays DEF IInv, InNative
<1>4. Locked' /\ Keeps' /\ Stages' /\ Fresh' /\ CopyIsOwnFrame' /\ DisposeWaits'
  BY <1>1, <1>2 DEF IInv, Locked, Keeps, Stages, Fresh, CopyIsOwnFrame, DisposeWaits
<1>. QED BY <1>2, <1>3, <1>4 DEF IInv

LEMMA FinalizeDecoderKeeps == ASSUME IInv, FinalizeDecoder PROVE IInv'
<1>1. /\ handle.owned /\ handle' = [Release(handle) EXCEPT !.owned = FALSE]
      /\ UNCHANGED <<lock, pc, arg, seen, dec, native, image, copies>>
  BY DEF FinalizeDecoder
<1>2. Counted' /\ handle' \in Handles
  BY <1>1, OwnReleased DEF InNative
<1>3. TypeOK' /\ Locked'
  BY <1>1, <1>2 DEF IInv, TypeOK, Handles, Locked
<1>4. Keeps' /\ Stages' /\ Fresh' /\ CopyIsOwnFrame' /\ DisposeWaits'
  BY <1>1 DEF IInv, Keeps, Stages, Fresh, CopyIsOwnFrame, DisposeWaits
<1>. QED BY <1>2, <1>3, <1>4 DEF IInv

-----------------------------------------------------------------------------
LEMMA InitHolds == Init => IInv
<1>. SUFFICES ASSUME Init PROVE IInv
  OBVIOUS
<1>1. TypeOK
  BY DEF Init, NoImage, TypeOK, Labels
<1>2. Locked /\ Keeps /\ Stages /\ Fresh /\ CopyIsOwnFrame /\ DisposeWaits
  BY FreeAssumption DEF Init, NoImage, Locked, Working, Keeps, Stages, Fresh, CopyIsOwnFrame, DisposeWaits
<1>3. Kept = {} /\ ~InNative
  BY DEF Init, NoImage, Kept, InNative
<1>4. Holders = 1
  BY <1>3, FS_EmptySet DEF Init, Holders, One
<1>5. Counted
  BY <1>4 DEF Init, Counted, Counts, One
<1>. QED BY <1>1, <1>2, <1>5 DEF IInv

LEMMA NextPreserves == ASSUME IInv, [Next]_vars PROVE IInv'
<1>1. ASSUME NEW t \in Threads, Step(t) PROVE IInv'
  BY <1>1, DecodeNativeKeeps, DecodeReturnKeeps, GetNativeKeeps, GetNothingKeeps, GetImageKeeps, KeepKeeps,
     WrapKeeps, CopyFirstPlaneKeeps, CopyOtherPlanesKeeps, SetDisposedKeeps, RequestDisposeKeeps,
     ReleaseOwnKeeps DEF Step
<1>2. ASSUME NEW t \in Threads, Call(t) PROVE IInv'
  BY <1>2, EnterDecodeKeeps, EnterGetKeeps, EnterCopyKeeps, DisposeImageKeeps, BeginDisposeKeeps DEF Call
<1>3. CASE UNCHANGED vars
  <2>1. Counted'
    BY <1>3, CountedStays DEF vars, IInv, InNative
  <2>. QED BY <1>3, <2>1 DEF vars, IInv, TypeOK, Locked, Keeps, Stages, Fresh, CopyIsOwnFrame, DisposeWaits
<1>. QED BY <1>1, <1>2, <1>3, DropImageKeeps, FinalizeImageKeeps, DropDecoderKeeps, FinalizeDecoderKeeps DEF Next

LEMMA Inductive == Spec => []IInv
BY InitHolds, NextPreserves, PTL DEF Spec

\* No thread is in a native call, reads the size of a frame or copies its
\* pixels when XmfVpxDecoder_Destroy has been called or its image was released:
\* not for any number of threads that dispose the decoder, its handle and its
\* images in any order, and any choice of the garbage collector.
THEOREM NeverUsedAfterFree == Spec => []NoUseAfterFree
<1>1. IInv => NoUseAfterFree
  <2>. SUFFICES ASSUME IInv, NEW t \in Threads,
                       pc[t] \in {"decoding", "getting", "wrap", "copy", "copying"}
                PROVE  /\ handle.destroyed = 0
                       /\ pc[t] \in {"copy", "copying"} => image[arg[t]].state = "live"
    BY DEF NoUseAfterFree
  <2>1. pc[t] \in {"copy", "copying"} => image[arg[t]].state = "live"
    BY DEF IInv, Stages
  <2>2. InNative \/ \E i \in Images : image[i].kept
    BY DEF IInv, TypeOK, Stages, Keeps, InNative
  <2>. QED BY <2>1, <2>2, HeldMeansAlive DEF IInv
<1>. QED BY <1>1, Inductive, PTL

\* XmfVpxDecoder_Destroy is called once at most, when the handle has given back
\* its own reference and no image that can be read is left; no reference is
\* given back twice.
THEOREM DestroyedOnceAndLast == Spec => []DestroyedLast
<1>1. IInv => DestroyedLast
  BY HeldMeansAlive DEF IInv, DestroyedLast, Keeps, Counted, Counts, One
<1>. QED BY <1>1, Inductive, PTL

\* What Copy returns is the frame its image was returned for, all planes of it.
THEOREM CopiesAreOwn == Spec => []CopyIsOwnFrame
<1>1. IInv => CopyIsOwnFrame
  BY DEF IInv
<1>. QED BY <1>1, Inductive, PTL

\* No thread decodes or reads a decoder that Dispose has marked.
THEOREM DisposeHasWaited == Spec => []DisposeWaits
<1>1. IInv => DisposeWaits
  BY DEF IInv
<1>. QED BY <1>1, Inductive, PTL
=============================================================================
