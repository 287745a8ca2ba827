------------------------------ MODULE MkvStream ------------------------------
(***************************************************************************)
(* The live WebM stream: libwebm's muxer, on the recorder's thread, hands  *)
(* blocks of bytes to XmfMkvWriter, which stores them in the bip buffer;   *)
(* XmfMkvStream.Read, on the application's thread, takes them out.  A      *)
(* write makes two calls on the buffer, Grow and Write, and reads may come *)
(* between them.                                                           *)
(*                                                                         *)
(* The bytes of the stream are numbered 0, 1, 2, ... in the order libwebm  *)
(* produces them, so what the application receives shows any gap,          *)
(* repetition or exchange.                                                 *)
(***************************************************************************)
EXTENDS BipBlocks

CONSTANTS
  Alloc,    \* the outcomes of malloc
  MaxBlock, \* bound: longest block libwebm writes at once
  MaxRead,  \* bound: largest read of the application
  MaxSent,  \* bound: bytes libwebm produces
  MaxInit   \* bound: largest size the buffer is created with

ASSUME AllocAssumption == Alloc \subseteq BOOLEAN
ASSUME StreamAssumption ==
  /\ {MaxBlock, MaxRead, MaxInit} \subseteq Nat \ {0}
  /\ MaxSent \in Nat
  /\ 0..(MaxSent - 1) \subseteq Byte

VARIABLES
  ctx,      \* the XmfBipBuffer both sides use
  writing,  \* length of the block whose write has grown the buffer, 0 if none
  position, \* This->position: what libwebm takes the stream position to be
  sent,     \* bytes libwebm has handed over
  failed,   \* some write has returned -1
  noMemory, \* some malloc has returned NULL
  got       \* the bytes XmfMkvStream.Read has returned

vars == <<ctx, writing, position, sent, failed, noMemory, got>>

Init ==
  /\ \E n \in 1..MaxInit : ctx = NewBuffer(PageAdjust(n))
  /\ writing = 0
  /\ position = 0
  /\ sent = 0
  /\ failed = FALSE
  /\ noMemory = FALSE
  /\ got = << >>

\* Mutant: room for the new block only.
SafeSizeOfBlock(c, length) ==
  IF length % PageSize = 0 THEN length ELSE length + PageSize - (length % PageSize)

SafeSize(c, length) ==
  LET n == UsedSize(c) + length
  IN IF n % PageSize = 0 THEN n ELSE n + PageSize - (n % PageSize)

\* XmfMkvWriter_Write as far as Grow, whose result it does not look at.
GrowForBlock(length, alloc) ==
  /\ writing = 0
  /\ sent + length <= MaxSent
  /\ ctx' = Grow(ctx, SafeSize(ctx, length), alloc).ctx
  /\ writing' = length
  /\ noMemory' = (noMemory \/ ~alloc)
  /\ UNCHANGED <<position, sent, failed, got>>

\* The next length bytes of the stream.
Numbered(length) == [i \in 1..length |-> sent + i - 1]

\* Mutant: the status is not compared with the length.
StoreBlockUnchecked(alloc) ==
  LET w == Write(ctx, Numbered(writing), alloc)
  IN /\ writing > 0
     /\ ctx' = w.ctx
     /\ position' = position + writing
     /\ sent' = sent + writing
     /\ writing' = 0
     /\ noMemory' = (noMemory \/ ~alloc)
     /\ UNCHANGED <<failed, got>>

\* The rest of XmfMkvWriter_Write: what a failing write has stored stays in
\* the stream, and only a complete one moves the position.
StoreBlock(alloc) ==
  LET w == Write(ctx, Numbered(writing), alloc)
  IN /\ writing > 0
     /\ ctx' = w.ctx
     /\ position' = IF w.status = writing THEN position + writing ELSE position
     /\ failed' = (failed \/ w.status # writing)
     /\ sent' = sent + writing
     /\ writing' = 0
     /\ noMemory' = (noMemory \/ ~alloc)
     /\ UNCHANGED got

\* XmfMkvStream.Read; 0 bytes when the buffer is empty.
ReadStream(n) ==
  LET r == Read(ctx, n)
  IN /\ ctx' = r.ctx
     /\ got' = got \o r.bytes
     /\ UNCHANGED <<writing, position, sent, failed, noMemory>>

Next ==
  \/ \E length \in 1..MaxBlock, alloc \in Alloc : GrowForBlock(length, alloc)
  \/ \E alloc \in Alloc : StoreBlock(alloc)
  \/ \E n \in 1..MaxRead : ReadStream(n)

\* The application reads on; nothing makes the recorder produce anything.
Spec == Init /\ [][Next]_vars /\ \A n \in 1..MaxRead : WF_vars(ReadStream(n))

-----------------------------------------------------------------------------
\* The buffer stays well formed under the writer's two calls and the reads that
\* come between them; every byte received was stored or is the buffer's junk.
TypeOK ==
  /\ ctx \in Context(ctx.size)
  /\ writing \in 0..MaxBlock
  /\ {position, sent} \subseteq 0..MaxSent
  /\ {failed, noMemory} \subseteq BOOLEAN
  /\ got \in Seq(Cell)

Stream == got \o Unread(ctx)

\* No byte twice, none out of order, and none that was not written.
Ordered ==
  /\ \A i \in 1..(Len(Stream) - 1) : Stream[i] < Stream[i + 1]
  /\ \A i \in 1..Len(Stream) : Stream[i] < sent

\* As long as no write has failed, what the application has received and will
\* receive is exactly what libwebm wrote, and libwebm's position (from which
\* it computes cluster offsets) counts exactly these bytes, whatever the
\* buffer did to make room.  Failed writes leave gaps, but no more than that
\* (XmfMkvWriter.c:27-48).
StreamIntact ==
  /\ TypeOK
  /\ Ordered
  /\ ~failed => Stream = [i \in 1..position |-> i - 1]

\* Free space in two pieces that one Write cannot both use: block B exists, or
\* the piece after block A is the smaller one and is given up.
Split(c) ==
  LET after == c.size - EndOf(c.blockA)
  IN c.blockB.size > 0 \/ (0 < after /\ after < c.blockA.index)

\* Growing the buffer to the "safe size" first makes a write fail only when
\* the free space is split (Grow moves nothing when the capacity is already
\* large enough) or malloc has failed.
FailsOnlyWhenSplit ==
  [][(StoreBlock(TRUE) \/ StoreBlock(FALSE)) /\ position' # position + writing
       => Split(ctx) \/ noMemory']_vars

\* Every byte a successful write stored reaches an application that reads on.
AllDelivered == \A k \in 1..MaxSent : position >= k ~> Len(got) >= k
=============================================================================
