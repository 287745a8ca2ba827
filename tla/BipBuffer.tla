------------------------------ MODULE BipBuffer ------------------------------
(***************************************************************************)
(* The exported operations of XmfBipBuffer.c on one buffer, called by a    *)
(* writer and a reader.  Each call is one step: the C code has no lock, so *)
(* this is the buffer as used by clients that do not call it at the same   *)
(* time.  What the clients may interleave are whole calls, the two halves  *)
(* of a reservation among them: the writer's WriteTryReserve and           *)
(* WriteCommit, the reader's ReadReserve and ReadCommit.                   *)
(***************************************************************************)
EXTENDS BipBlocks

CONSTANTS
  Alloc,   \* the outcomes of malloc: TRUE (memory) and, if modelled, FALSE (NULL)
  MaxIO,   \* bound: longest block of bytes passed to one call
  MaxSize  \* bound: largest buffer a call may ask for

ASSUME AllocAssumption == Alloc \subseteq BOOLEAN
ASSUME BoundsAssumption == MaxIO \in Nat /\ MaxSize \in Nat \ {0}

VARIABLES
  ctx,      \* the XmfBipBuffer
  reserved, \* the writer holds a block of WriteTryReserve it has not committed
  peeked,   \* the bytes of the block ReadReserve gave the reader, << >> if none
  reply     \* what the last Write (status) or Read (status, bytes) returned

vars == <<ctx, reserved, peeked, reply>>

Data == UNION {[1..n -> Byte] : n \in 0..MaxIO}
Quiet == [status |-> 0, bytes |-> << >>]

\* XmfBipBuffer_New for every capacity that it accepts.
Init ==
  /\ \E n \in 1..MaxSize : PageAdjust(n) <= MaxSize /\ ctx = NewBuffer(PageAdjust(n))
  /\ reserved = FALSE
  /\ peeked = << >>
  /\ reply = Quiet

WriteBytes(data, alloc) ==
  LET w == Write(ctx, data, alloc)
  IN /\ ~reserved
     /\ w.ctx.size <= MaxSize
     /\ ctx' = w.ctx
     /\ reply' = [status |-> w.status, bytes |-> << >>]
     /\ UNCHANGED <<reserved, peeked>>

\* The writer reserves a block and fills what it was given of it.
ReserveAndFill(data) ==
  LET r == WriteTryReserve(ctx, Len(data))
  IN /\ ~reserved
     /\ r.block
     /\ ctx' = Fill(r.ctx, data, r.reserved)
     /\ reserved' = TRUE
     /\ reply' = Quiet
     /\ UNCHANGED peeked

CommitReserved(k) ==
  /\ reserved
  /\ ctx' = WriteCommit(ctx, k)
  /\ reserved' = FALSE
  /\ reply' = Quiet
  /\ UNCHANGED peeked

ReadBytes(n) ==
  LET r == Read(ctx, n)
  IN /\ peeked = << >>
     /\ ctx' = r.ctx
     /\ reply' = [status |-> Len(r.bytes), bytes |-> r.bytes]
     /\ UNCHANGED <<reserved, peeked>>

PeekBytes(n, alloc) ==
  LET r == ReadReserve(ctx, n, alloc)
  IN /\ peeked = << >>
     /\ r.ctx.size <= MaxSize
     /\ ctx' = r.ctx
     /\ peeked' = IF r.block THEN r.bytes ELSE << >>
     /\ reply' = Quiet
     /\ UNCHANGED reserved

CommitPeeked(k) ==
  /\ peeked # << >>
  /\ k <= Len(peeked)
  /\ ctx' = ReadCommit(ctx, k)
  /\ peeked' = << >>
  /\ reply' = Quiet
  /\ UNCHANGED reserved

GrowTo(n, alloc) ==
  LET g == Grow(ctx, n, alloc)
  IN /\ g.ctx.size <= MaxSize
     /\ ctx' = g.ctx
     /\ reply' = Quiet
     /\ UNCHANGED <<reserved, peeked>>

ClearAll ==
  /\ ctx' = Clear(ctx)
  /\ peeked' = << >>
  /\ reply' = Quiet
  /\ UNCHANGED reserved

Next ==
  \/ \E data \in Data, alloc \in Alloc : WriteBytes(data, alloc)
  \/ \E data \in Data : ReserveAndFill(data)
  \/ \E k \in 0..MaxIO : CommitReserved(k)
  \/ \E n \in 0..MaxIO : ReadBytes(n)
  \/ \E n \in 0..MaxIO, alloc \in Alloc : PeekBytes(n, alloc)
  \/ \E k \in 0..MaxIO : CommitPeeked(k)
  \/ \E n \in 0..MaxSize, alloc \in Alloc : GrowTo(n, alloc)
  \/ ClearAll

Spec == Init /\ [][Next]_vars

-----------------------------------------------------------------------------
\* The context stays well formed: the size_t arithmetic of the blocks never
\* goes below zero, and the memory has as many cells as ctx->size says.
TypeOK ==
  /\ ctx.size \in 1..MaxSize
  /\ ctx \in Context(ctx.size)
  /\ reserved \in BOOLEAN
  /\ peeked \in Seq(Cell)
  /\ reply \in [status : Int, bytes : Seq(Cell)]

\* The unread bytes lie inside the buffer, and block B, while it exists, ends
\* before block A begins: no call makes the two blocks overlap, whatever the
\* order in which the writer wraps, the reader catches up and Grow compacts.
BlocksApart ==
  /\ EndOf(ctx.blockA) <= ctx.size
  /\ ctx.blockB.size > 0 =>
       /\ ctx.blockA.size > 0
       /\ EndOf(ctx.blockB) <= ctx.blockA.index

\* A block the writer holds stays free until it is committed: bytes it stores
\* late, after any number of reads, cannot reach an unread byte.
ReservationFree ==
  reserved =>
    /\ EndOf(ctx.writeR) <= ctx.size
    /\ \A b \in {ctx.blockA, ctx.blockB} :
         b.size > 0 /\ ctx.writeR.size > 0 =>
           EndOf(ctx.writeR) <= b.index \/ EndOf(b) <= ctx.writeR.index

\* The bytes the reader peeked at remain the oldest unread bytes until it
\* commits them, although the writer writes, commits and grows in between:
\* ReadCommit then drops what was read and nothing else.
PeekStable ==
  /\ Len(peeked) <= UsedSize(ctx)
  /\ \A i \in 1..Len(peeked) : Unread(ctx)[i] = peeked[i]

\* A reader that polls GetSignaledState never misses data: every way of
\* storing bytes raises the flag.
DataIsSignaled == UsedSize(ctx) > 0 => ctx.signaled

\* The Rust binding converts the status of XmfBipBuffer_Write to usize and
\* panics on a negative one: "n is never negative and is logically used as a
\* pointer-sized type" (rust/cadeau/src/xmf/bip_buffer.rs:54).
WriteNeverNegative == reply.status >= 0

\* What the calls look like to the two clients.
Fifo == INSTANCE ByteFifo WITH
  queue <- Unread(ctx),
  pending <- IF reserved THEN Bytes(ctx, ctx.writeR.index, ctx.writeR.size) ELSE << >>

\* The buffer is a byte queue: nothing is lost, duplicated, reordered or read
\* before it is stored, and the status of Write is the number of bytes that
\* went in.
FifoSpec == Fifo!Spec
=============================================================================
