------------------------------ MODULE BipBlocks ------------------------------
(***************************************************************************)
(* The bip buffer of libxmf (XmfBipBuffer.c) as functions on its context:  *)
(* a ring whose unread bytes lie in block A, then in block B.  Block B     *)
(* exists only while the front of the buffer is being refilled and block A *)
(* has not been read to its end.                                           *)
(*                                                                         *)
(* Every operator takes the context c before the call and returns it after *)
(* the call (with the call's results when it has some); no operator has    *)
(* state of its own, so the modules that own a buffer (BipBuffer,          *)
(* MkvStream) share these definitions.  The field readR of the C struct is *)
(* only ever cleared and is left out.                                      *)
(***************************************************************************)
EXTENDS Integers, Sequences

CONSTANTS
  Byte,     \* the values of a byte
  Junk,     \* what malloc leaves in a cell nobody has stored to
  PageSize  \* ctx->pageSize; the code sets it to 4096

ASSUME BytesAssumption == Junk \notin Byte
ASSUME PageAssumption == PageSize \in Nat \ {0}

Cell == Byte \cup {Junk}
Block == [index : Nat, size : Nat]
NoBlock == [index |-> 0, size |-> 0]
EndOf(b) == b.index + b.size
Least(m, n) == IF m <= n THEN m ELSE n

\* The growth rule of the code: it adds the remainder, which is not a rounding
\* up to a multiple of the page.
PageAdjust(n) == n + (n % PageSize)

UsedSize(c) == c.blockA.size + c.blockB.size

\* k bytes of memory from cell i on.
Bytes(c, i, k) == [j \in 1..k |-> c.buffer[i + j - 1]]

\* The unread bytes, oldest first.
Unread(c) ==
  [j \in 1..UsedSize(c) |->
     IF j <= c.blockA.size THEN c.buffer[c.blockA.index + j - 1]
                           ELSE c.buffer[c.blockB.index + j - c.blockA.size - 1]]

\* struct xmf_bip_buffer over n bytes of memory.
Context(n) ==
  [size : {n}, buffer : [0..(n - 1) -> Cell], blockA : Block, blockB : Block,
   writeR : Block, signaled : BOOLEAN]

NewBuffer(n) ==
  [size |-> n, buffer |-> [i \in 0..(n - 1) |-> Junk],
   blockA |-> NoBlock, blockB |-> NoBlock, writeR |-> NoBlock, signaled |-> FALSE]

Clear(c) == [c EXCEPT !.blockA = NoBlock, !.blockB = NoBlock, !.writeR = NoBlock]

\* Mutant: the flag takes the value it is given.
SetSignaledStateHonoured(c, signaled) == [c EXCEPT !.signaled = signaled]

\* The C function ignores its argument and always raises the flag.
SetSignaledState(c, signaled) == [c EXCEPT !.signaled = TRUE]

-----------------------------------------------------------------------------
(* Reading.                                                                *)

\* Mutant: block B is cleared without becoming block A.
ReadCommitLosesB(c, k) ==
  IF k >= c.blockA.size
  THEN [c EXCEPT !.blockA = NoBlock, !.blockB = NoBlock]
  ELSE [c EXCEPT !.blockA = [index |-> c.blockA.index + k, size |-> c.blockA.size - k]]

ReadCommit(c, k) ==
  LET d == IF k >= c.blockA.size
           THEN [c EXCEPT !.blockA = c.blockB, !.blockB = NoBlock]
           ELSE [c EXCEPT !.blockA = [index |-> c.blockA.index + k,
                                      size  |-> c.blockA.size - k]]
  IN IF UsedSize(c) > 0 /\ UsedSize(d) = 0 THEN SetSignaledState(d, FALSE) ELSE d

\* One ReadTryReserve / memcpy / ReadCommit round for at most want bytes.
ReadRound(c, want) ==
  LET k == Least(want, c.blockA.size)
  IN IF c.blockA.size = 0
     THEN [ctx |-> c, bytes |-> << >>]
     ELSE [ctx |-> ReadCommit(c, k), bytes |-> Bytes(c, c.blockA.index, k)]

\* Mutant: the second round is left out.
ReadOnce(c, n) == ReadRound(c, n)

Read(c, n) ==
  LET r1 == ReadRound(c, n)
      r2 == ReadRound(r1.ctx, n - Len(r1.bytes))
  IN IF Len(r1.bytes) = n
     THEN r1
     ELSE [ctx |-> r2.ctx, bytes |-> r1.bytes \o r2.bytes]

\* Mutant: ctx->size keeps the old capacity.
MovedStaleSize(c, size) ==
  LET drain == Read(c, UsedSize(c))
      used  == Len(drain.bytes)
  IN [Clear(drain.ctx) EXCEPT
        !.buffer = [i \in 0..(size - 1) |-> IF i < used THEN drain.bytes[i + 1] ELSE Junk],
        !.blockA = [index |-> 0, size |-> used]]

\* Mutant: block B is copied before block A.
MovedSwapped(c, size) ==
  LET used == UsedSize(c)
  IN [Clear(c) EXCEPT
        !.size = size,
        !.buffer = [i \in 0..(size - 1) |->
                      IF i < used THEN Unread(c)[1 + ((i + c.blockA.size) % used)] ELSE Junk],
        !.blockA = [index |-> 0, size |-> used]]

\* Both blocks are drained into new memory, where they form block A.
Moved(c, size) ==
  LET drain == Read(c, UsedSize(c))
      used  == Len(drain.bytes)
  IN [Clear(drain.ctx) EXCEPT
        !.size = size,
        !.buffer = [i \in 0..(size - 1) |-> IF i < used THEN drain.bytes[i + 1] ELSE Junk],
        !.blockA = [index |-> 0, size |-> used]]

\* alloc says whether malloc succeeds.
Grow(c, n, alloc) ==
  IF PageAdjust(n) <= c.size THEN [ctx |-> c, ok |-> TRUE]
  ELSE IF alloc THEN [ctx |-> Moved(c, PageAdjust(n)), ok |-> TRUE]
  ELSE [ctx |-> c, ok |-> FALSE]

\* A pointer to the oldest n bytes, or NULL (block is FALSE); Grow is called
\* to make them contiguous, and only because it is asked for one byte more
\* than the buffer has.
ReadReserve(c, n, alloc) ==
  LET grown == Grow(c, c.size + 1, alloc)
      Reservable(d) == IF n > 0 /\ n < d.blockA.size THEN n ELSE d.blockA.size
      Given(d) == [ctx |-> d, block |-> d.blockA.size > 0 /\ Reservable(d) = n,
                   bytes |-> Bytes(d, d.blockA.index, Reservable(d))]
  IN IF UsedSize(c) < n THEN [ctx |-> c, block |-> FALSE, bytes |-> << >>]
     ELSE IF Reservable(c) = n THEN Given(c)
     ELSE IF ~grown.ok THEN [ctx |-> c, block |-> FALSE, bytes |-> << >>]
     ELSE Given(grown.ctx)

-----------------------------------------------------------------------------
(* Writing.                                                                *)

\* Mutant: the space after block B is measured to the end of the buffer.
FreeRegionPastA(c) ==
  LET after == c.size - c.blockA.index - c.blockA.size
  IN IF c.blockB.size > 0
     THEN [index |-> EndOf(c.blockB), size |-> c.size - EndOf(c.blockB)]
     ELSE IF after >= c.blockA.index
     THEN [index |-> EndOf(c.blockA), size |-> after]
     ELSE [index |-> 0, size |-> c.blockA.index]

\* Mutant: the space before block A is one byte too long.
FreeRegionOffByOne(c) ==
  LET after == c.size - c.blockA.index - c.blockA.size
  IN IF c.blockB.size > 0
     THEN [index |-> EndOf(c.blockB), size |-> c.blockA.index - EndOf(c.blockB)]
     ELSE IF after >= c.blockA.index
     THEN [index |-> EndOf(c.blockA), size |-> after]
     ELSE [index |-> 0, size |-> c.blockA.index + 1]

\* The free region the next reservation is taken from: after block B while it
\* exists; else the larger of the space after block A and the space before it.
FreeRegion(c) ==
  LET after == c.size - c.blockA.index - c.blockA.size
  IN IF c.blockB.size > 0
     THEN [index |-> EndOf(c.blockB), size |-> c.blockA.index - c.blockB.index - c.blockB.size]
     ELSE IF after >= c.blockA.index
     THEN [index |-> EndOf(c.blockA), size |-> after]
     ELSE [index |-> 0, size |-> c.blockA.index]

\* block is FALSE for NULL, which leaves the previous reservation in place.
WriteTryReserve(c, n) ==
  LET free == FreeRegion(c)
      k == Least(n, free.size)
  IN IF free.size = 0 \/ (c.blockB.size > 0 /\ k = 0)
     THEN [ctx |-> c, block |-> FALSE, reserved |-> 0]
     ELSE [ctx |-> [c EXCEPT !.writeR = [index |-> free.index, size |-> k]],
           block |-> TRUE, reserved |-> k]

\* The block returned after growing may be shorter than n: the code does not
\* look at what the second attempt reserved.
WriteReserve(c, n, alloc) ==
  LET first == WriteTryReserve(c, n)
      grown == Grow(first.ctx, n, alloc)
  IN IF first.reserved = n THEN first
     ELSE IF grown.ok THEN WriteTryReserve(grown.ctx, n)
     ELSE [ctx |-> first.ctx, block |-> FALSE, reserved |-> 0]

\* The caller's memcpy of the first k bytes of data into the reserved block.
Fill(c, data, k) ==
  [c EXCEPT !.buffer = [i \in DOMAIN c.buffer |->
     IF i \in c.writeR.index .. (c.writeR.index + k - 1)
     THEN data[i - c.writeR.index + 1] ELSE c.buffer[i]]]

WriteCommit(c, k) ==
  LET n == Least(k, c.writeR.size)
      e == IF k = 0 THEN c
           ELSE IF UsedSize(c) = 0
           THEN [c EXCEPT !.blockA = [index |-> c.writeR.index, size |-> n]]
           ELSE IF c.writeR.index = EndOf(c.blockA)
           THEN [c EXCEPT !.blockA = [index |-> c.blockA.index, size |-> c.blockA.size + n]]
           ELSE [c EXCEPT !.blockB = [index |-> c.blockB.index, size |-> c.blockB.size + n]]
      d == [e EXCEPT !.writeR = NoBlock]
  IN IF UsedSize(c) = 0 /\ UsedSize(d) > 0 THEN SetSignaledState(d, TRUE) ELSE d

\* One WriteTryReserve / memcpy / WriteCommit round for the bytes of data.
WriteRound(c, data) ==
  LET r == WriteTryReserve(c, Len(data))
  IN IF r.block
     THEN [ctx |-> WriteCommit(Fill(r.ctx, data, r.reserved), r.reserved), done |-> r.reserved]
     ELSE [ctx |-> c, done |-> 0]

\* At most two rounds; status is the number of bytes stored, -1 when there is
\* no block to begin with.
Write(c, data, alloc) ==
  LET start == WriteReserve(c, Len(data), alloc)
      w1 == WriteRound(start.ctx, data)
      w2 == WriteRound(w1.ctx, SubSeq(data, w1.done + 1, Len(data)))
  IN IF ~start.block THEN [ctx |-> start.ctx, status |-> -1]
     ELSE IF w1.done = Len(data) THEN [ctx |-> w1.ctx, status |-> w1.done]
     ELSE [ctx |-> w2.ctx, status |-> w1.done + w2.done]
=============================================================================
