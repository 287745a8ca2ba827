----------------------------- MODULE VpxDecoder -----------------------------
(***************************************************************************)
(* XmfVpxDecoder, XmfVpxImage and their safe handles (.NET), over the      *)
(* native decoder of libxmf.  An image points into the memory of the       *)
(* decoder.  SyncRoot serializes decoding with reads of that memory, the   *)
(* generation makes older images unusable, and every image holds a         *)
(* reference on the decoder's safe handle, so that XmfVpxDecoder_Destroy   *)
(* waits for the last image.  Threads dispose the decoder, its handle or   *)
(* an image at any time, the handle without the lock; the garbage          *)
(* collector finalizes what the application has let go.                    *)
(*                                                                         *)
(* The marshaller of a native call holds a reference on the handle it is   *)
(* given, and throws when the last reference is gone; libvpx and the       *)
(* runtime's SafeHandle are external.                                      *)
(***************************************************************************)
EXTENDS Integers, FiniteSets

CONSTANTS
  Threads,
  Images,     \* the images the decoder may return
  Free,       \* SyncRoot is held by no thread
  MaxDecodes  \* bound: calls of Decode

ASSUME FreeAssumption == Free \notin Threads
ASSUME ImagesAssumption == IsFiniteSet(Images)
ASSUME MaxDecodesAssumption == MaxDecodes \in Nat

VARIABLES
  lock,   \* the thread that holds SyncRoot
  pc,     \* where each thread is: "idle" or in the call the label names
  arg,    \* the image the thread's call is about
  seen,   \* the frame whose pixels the thread's Copy has read so far
  dec,    \* the XmfVpxDecoder
  handle, \* its XmfVpxDecoderHandle, destroyed counts XmfVpxDecoder_Destroy
  native, \* the buffers of libvpx: whose pixels they hold, is a frame ready
  image,  \* the XmfVpxImages and their handles
  copies  \* history: the frames of the images copied and of the pixels read

vars == <<lock, pc, arg, seen, dec, handle, native, image, copies>>

\* frame is the one the image was returned for, kept its reference on handle.
NoImage == [state |-> "unused", rooted |-> FALSE, kept |-> FALSE, generation |-> 0, frame |-> 0]

Init ==
  /\ lock = Free
  /\ pc = [t \in Threads |-> "idle"]
  /\ arg \in [Threads -> Images]
  /\ seen = [t \in Threads |-> 0]
  /\ dec = [disposed |-> FALSE, rooted |-> TRUE, generation |-> 0]
  /\ handle = [requested |-> FALSE, owned |-> TRUE, refs |-> 1, destroyed |-> 0]
  /\ native = [pixels |-> 0, ready |-> FALSE]
  /\ image = [i \in Images |-> NoImage]
  /\ copies = {}

-----------------------------------------------------------------------------
(* The handles.                                                            *)

AddRef(h) == [h EXCEPT !.refs = h.refs + 1]

\* The decoder is destroyed with the last reference.
Release(h) ==
  [h EXCEPT !.refs = h.refs - 1,
            !.destroyed = IF h.refs = 1 THEN h.destroyed + 1 ELSE h.destroyed]

\* Mutant: the reference on the decoder is not given back.
ReleaseImageKept(i) ==
  /\ image' = [image EXCEPT ![i].state = "released", ![i].kept = FALSE]
  /\ UNCHANGED handle

\* XmfVpxImageHandle.ReleaseHandle.
ReleaseImage(i) ==
  /\ image' = [image EXCEPT ![i].state = "released", ![i].kept = FALSE]
  /\ handle' = IF image[i].kept THEN Release(handle) ELSE handle

\* CheckDisposed does not throw.
Usable == ~dec.disposed /\ ~handle.requested

\* Mutant: the image's generation is not compared.
CurrentUsable(i) == Usable

\* IsCurrentGeneration.
Current(i) == Usable /\ image[i].generation = dec.generation

Goto(t, label) == pc' = [pc EXCEPT ![t] = label]

Enter(t, label) ==
  /\ pc[t] = "idle"
  /\ lock = Free
  /\ lock' = t
  /\ Goto(t, label)

Leave(t) ==
  /\ lock' = Free
  /\ Goto(t, "idle")

\* A native call begins, or throws because the handle is closed.
NativeCall(t, label) ==
  IF handle.refs = 0
  THEN Leave(t) /\ UNCHANGED handle
  ELSE Goto(t, label) /\ handle' = AddRef(handle) /\ UNCHANGED lock

-----------------------------------------------------------------------------
(* Decode: the images returned so far are stale from here on, even when    *)
(* libvpx rejects the data.                                                *)

EnterDecode(t) ==
  /\ dec.rooted /\ Usable
  /\ dec.generation < MaxDecodes
  /\ Enter(t, "decode")
  /\ dec' = [dec EXCEPT !.generation = dec.generation + 1]
  /\ UNCHANGED <<arg, seen, handle, native, image, copies>>

DecodeNative(t) ==
  /\ pc[t] = "decode"
  /\ NativeCall(t, "decoding")
  /\ UNCHANGED <<arg, seen, dec, native, image, copies>>

DecodeReturn(t) ==
  /\ pc[t] = "decoding"
  /\ \E ready \in BOOLEAN : native' = [pixels |-> native.pixels + 1, ready |-> ready]
  /\ handle' = Release(handle)
  /\ Leave(t)
  /\ UNCHANGED <<arg, seen, dec, image, copies>>

-----------------------------------------------------------------------------
(* GetNextFrame.                                                           *)

EnterGet(t) ==
  /\ dec.rooted /\ Usable
  /\ Enter(t, "get")
  /\ UNCHANGED <<arg, seen, dec, handle, native, image, copies>>

GetNative(t) ==
  /\ pc[t] = "get"
  /\ NativeCall(t, "getting")
  /\ UNCHANGED <<arg, seen, dec, native, image, copies>>

\* No frame left, or no memory for the native image.
GetNothing(t) ==
  /\ pc[t] = "getting"
  /\ native' = [native EXCEPT !.ready = FALSE]
  /\ handle' = Release(handle)
  /\ Leave(t)
  /\ UNCHANGED <<arg, seen, dec, image, copies>>

GetImage(t, i) ==
  /\ pc[t] = "getting"
  /\ native.ready
  /\ image[i].state = "unused"
  /\ image' = [image EXCEPT ![i].state = "native", ![i].frame = native.pixels]
  /\ arg' = [arg EXCEPT ![t] = i]
  /\ native' = [native EXCEPT !.ready = FALSE]
  /\ handle' = Release(handle)
  /\ Goto(t, "keep")
  /\ UNCHANGED <<lock, seen, dec, copies>>

\* Mutant: the image takes no reference on the decoder's handle.
KeepNothing(t) ==
  /\ pc[t] = "keep"
  /\ image' = image
  /\ handle' = handle
  /\ Goto(t, "wrap")
  /\ UNCHANGED <<lock, arg, seen, dec, native, copies>>

\* KeepDecoderAlive; it throws when the handle was closed in the meantime.
Keep(t) ==
  /\ pc[t] = "keep"
  /\ IF handle.refs = 0
     THEN ReleaseImage(arg[t]) /\ Leave(t)
     ELSE /\ image' = [image EXCEPT ![arg[t]].kept = TRUE]
          /\ handle' = AddRef(handle)
          /\ Goto(t, "wrap")
          /\ UNCHANGED lock
  /\ UNCHANGED <<arg, seen, dec, native, copies>>

\* The constructor of XmfVpxImage, which reads the size and the format.
Wrap(t) ==
  /\ pc[t] = "wrap"
  /\ image' = [image EXCEPT ![arg[t]].state = "live", ![arg[t]].rooted = TRUE,
                            ![arg[t]].generation = dec.generation]
  /\ Leave(t)
  /\ UNCHANGED <<arg, seen, dec, handle, native, copies>>

-----------------------------------------------------------------------------
(* Copy; the pixels are read through pointers, outside native calls.       *)

EnterCopy(t, i) ==
  /\ image[i].state = "live" /\ image[i].rooted
  /\ Current(i)
  /\ Enter(t, "copy")
  /\ arg' = [arg EXCEPT ![t] = i]
  /\ UNCHANGED <<seen, dec, handle, native, image, copies>>

CopyFirstPlane(t) ==
  /\ pc[t] = "copy"
  /\ seen' = [seen EXCEPT ![t] = native.pixels]
  /\ Goto(t, "copying")
  /\ UNCHANGED <<lock, arg, dec, handle, native, image, copies>>

CopyOtherPlanes(t) ==
  /\ pc[t] = "copying"
  /\ copies' = copies \cup {[own |-> image[arg[t]].frame, first |-> seen[t], last |-> native.pixels]}
  /\ Leave(t)
  /\ UNCHANGED <<arg, seen, dec, handle, native, image>>

-----------------------------------------------------------------------------
(* Disposal.                                                               *)

\* XmfVpxImage.Dispose, under the lock from beginning to end.
DisposeImage(t, i) ==
  /\ pc[t] = "idle" /\ lock = Free
  /\ image[i].state = "live" /\ image[i].rooted
  /\ ReleaseImage(i)
  /\ UNCHANGED <<lock, pc, arg, seen, dec, native, copies>>

\* XmfVpxDecoder.Dispose looks at disposed before it takes the lock.
BeginDispose(t) ==
  /\ pc[t] = "idle"
  /\ dec.rooted /\ ~dec.disposed
  /\ Goto(t, "dispose")
  /\ UNCHANGED <<lock, arg, seen, dec, handle, native, image, copies>>

\* Mutant: disposed is set without the lock.
SetDisposedUnlocked(t) ==
  /\ pc[t] = "dispose"
  /\ dec' = [dec EXCEPT !.disposed = TRUE]
  /\ Goto(t, "request")
  /\ UNCHANGED <<lock, arg, seen, handle, native, image, copies>>

SetDisposed(t) ==
  /\ pc[t] = "dispose"
  /\ lock = Free
  /\ dec' = [dec EXCEPT !.disposed = TRUE]
  /\ Goto(t, "request")
  /\ UNCHANGED <<lock, arg, seen, handle, native, image, copies>>

\* An application that disposes XmfVpxDecoder.Handle itself.
DisposeHandle(t) ==
  /\ pc[t] = "idle"
  /\ dec.rooted
  /\ Goto(t, "request")
  /\ UNCHANGED <<lock, arg, seen, dec, handle, native, image, copies>>

\* XmfVpxDecoderHandle.Dispose: the request, then the handle's own reference.
RequestDispose(t) ==
  /\ pc[t] = "request"
  /\ handle' = [handle EXCEPT !.requested = TRUE]
  /\ Goto(t, "release")
  /\ UNCHANGED <<lock, arg, seen, dec, native, image, copies>>

\* Mutant: a second Dispose gives the reference back a second time.
ReleaseOwnTwice(t) ==
  /\ pc[t] = "release"
  /\ handle' = [Release(handle) EXCEPT !.owned = FALSE]
  /\ Goto(t, "idle")
  /\ UNCHANGED <<lock, arg, seen, dec, native, image, copies>>

ReleaseOwn(t) ==
  /\ pc[t] = "release"
  /\ handle' = IF handle.owned THEN [Release(handle) EXCEPT !.owned = FALSE] ELSE handle
  /\ Goto(t, "idle")
  /\ UNCHANGED <<lock, arg, seen, dec, native, image, copies>>

-----------------------------------------------------------------------------
(* The garbage collector.                                                  *)

DropImage(i) ==
  /\ image[i].rooted
  /\ image' = [image EXCEPT ![i].rooted = FALSE]
  /\ UNCHANGED <<lock, pc, arg, seen, dec, handle, native, copies>>

DropDecoder ==
  /\ dec.rooted
  /\ dec' = [dec EXCEPT !.rooted = FALSE]
  /\ UNCHANGED <<lock, pc, arg, seen, handle, native, image, copies>>

\* Mutant: nothing keeps the image alive in Copy once it has the pointers.
ReachableUntilPointers(i) ==
  image[i].rooted \/ \E t \in Threads : pc[t] = "copy" /\ arg[t] = i

\* GC.KeepAlive(this) at the end of Copy.
Reachable(i) ==
  image[i].rooted \/ \E t \in Threads : pc[t] \in {"copy", "copying"} /\ arg[t] = i

FinalizeImage(i) ==
  /\ image[i].state = "live"
  /\ ~Reachable(i)
  /\ ReleaseImage(i)
  /\ UNCHANGED <<lock, pc, arg, seen, dec, native, copies>>

\* Every image, even a disposed one, refers to the decoder it came from.
FinalizeDecoder ==
  /\ ~dec.rooted
  /\ handle.owned
  /\ \A t \in Threads : pc[t] = "idle"
  /\ \A i \in Images : ~image[i].rooted
  /\ handle' = [Release(handle) EXCEPT !.owned = FALSE]
  /\ UNCHANGED <<lock, pc, arg, seen, dec, native, image, copies>>

\* What a thread does inside a call.
Step(t) ==
  \/ DecodeNative(t) \/ DecodeReturn(t)
  \/ GetNative(t) \/ GetNothing(t) \/ (\E i \in Images : GetImage(t, i))
  \/ Keep(t) \/ Wrap(t)
  \/ CopyFirstPlane(t) \/ CopyOtherPlanes(t)
  \/ SetDisposed(t) \/ RequestDispose(t) \/ ReleaseOwn(t)

\* What the application may do next.
Call(t) ==
  \/ EnterDecode(t) \/ EnterGet(t)
  \/ \E i \in Images : EnterCopy(t, i) \/ DisposeImage(t, i)
  \/ BeginDispose(t) \/ DisposeHandle(t)

Next ==
  \/ \E t \in Threads : Step(t) \/ Call(t)
  \/ \E i \in Images : DropImage(i) \/ FinalizeImage(i)
  \/ DropDecoder
  \/ FinalizeDecoder

\* Calls return, and the collector finds what is not reachable any more.
Spec ==
  /\ Init /\ [][Next]_vars
  /\ \A t \in Threads : WF_vars(Step(t))
  /\ \A i \in Images : WF_vars(FinalizeImage(i))
  /\ WF_vars(FinalizeDecoder)

-----------------------------------------------------------------------------
Labels == {"idle", "decode", "decoding", "get", "getting", "keep", "wrap",
           "copy", "copying", "dispose", "request", "release"}

\* The counters of the handle never go below zero and every thread is at a step
\* of a call: no order of disposals gives a reference back twice.
TypeOK ==
  /\ lock \in Threads \cup {Free}
  /\ pc \in [Threads -> Labels]
  /\ arg \in [Threads -> Images]
  /\ seen \in [Threads -> Nat]
  /\ dec \in [disposed : BOOLEAN, rooted : BOOLEAN, generation : Nat]
  /\ handle \in [requested : BOOLEAN, owned : BOOLEAN, refs : Nat, destroyed : Nat]
  /\ native \in [pixels : Nat, ready : BOOLEAN]
  /\ image \in [Images -> [state : {"unused", "native", "live", "released"}, rooted : BOOLEAN,
                           kept : BOOLEAN, generation : Nat, frame : Nat]]
  /\ copies \in SUBSET [own : Nat, first : Nat, last : Nat]

\* No thread is inside a native call, reads the size of a frame or copies its
\* pixels when the native decoder is gone or the image was released, although
\* handles are disposed without the lock and finalizers run at any time ("a
\* stale image never reads freed memory", XmfVpxImage.cs:53).
NoUseAfterFree ==
  \A t \in Threads :
    /\ pc[t] \in {"decoding", "getting", "wrap", "copy", "copying"} => handle.destroyed = 0
    /\ pc[t] \in {"copy", "copying"} => image[arg[t]].state = "live"

\* The native decoder is destroyed once at most, and not before its handle and
\* all its images are released; no reference is given back twice (TypeOK).
DestroyedLast ==
  /\ TypeOK
  /\ handle.destroyed <= 1
  /\ handle.destroyed = 1 =>
       ~handle.owned /\ \A i \in Images : image[i].state # "live"

\* A copy holds the pixels of the frame its image was returned for, all its
\* planes of the same frame: no decode comes between, and a stale image throws.
CopyIsOwnFrame == \A c \in copies : c.first = c.own /\ c.last = c.own

\* Where a thread is when it holds SyncRoot.
Working == {"decode", "decoding", "get", "getting", "keep", "wrap", "copy", "copying"}

\* From when XmfVpxDecoder.Dispose has marked the decoder no thread decodes or
\* reads it: the first Dispose waits for the call in progress and a second one,
\* which returns at once, is not ahead of it.
DisposeWaits == dec.disposed => \A t \in Threads : pc[t] \notin Working

\* The application has let the decoder and all images go.
Abandoned ==
  /\ handle.requested \/ (~dec.rooted /\ \A i \in Images : ~image[i].rooted)
  /\ \A i \in Images : image[i].rooted => image[i].state = "released"

\* Native memory is not leaked: once the application has let the decoder and
\* all images go, by disposing or by dropping them, in any order and even in
\* the middle of a call, the decoder is destroyed.
NativeFreed == <>[]Abandoned => <>(handle.destroyed = 1)
=============================================================================
