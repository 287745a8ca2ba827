--------------------------- MODULE BipBufferProofs ---------------------------
(***************************************************************************)
(* The bip buffer never mixes up its blocks, and is a byte queue, for      *)
(* every capacity, page size and length of a call.                         *)
(*                                                                         *)
(* Blocks A and B are Apart, and an uncommitted reservation lies in a      *)
(* Region where committing it appends: that the buffer is empty, or that   *)
(* it begins where block A or block B ends.  Neither is inductive alone:   *)
(* WriteCommit decides by the index of the reservation which block it      *)
(* extends, so the blocks stay apart only because the region is right, and *)
(* the region stays right only because the blocks are apart.  Block B      *)
(* always begins at cell 0, which makes it block A's predecessor in the    *)
(* ring.  A peek needs one thing more: all of it lies in block A, since    *)
(* ReadCommit drops nothing beyond.                                        *)
(***************************************************************************)
EXTENDS BipBuffer, BipBlocksProofs

(* The inductive invariant: BlocksApart needs to know where an uncommitted  *)
(* reservation may lie, since a later WriteCommit turns it into unread      *)
(* bytes after any number of reads.                                         *)

IInv ==
  /\ TypeOK
  /\ Apart(ctx)
  /\ reserved => Region(ctx)

LEMMA FromGood ==
  ASSUME NEW n \in Nat \ {0}, Good(ctx', n), ctx'.size <= MaxSize,
         NEW f \in BOOLEAN, reserved' = f, f => Region(ctx'),
         peeked' \in Seq(Cell), reply' \in [status : Int, bytes : Seq(Cell)]
  PROVE  IInv'
<1>1. ctx' \in Context(n) /\ ctx'.size = n /\ Apart(ctx')
  BY DEF Good, Context
<1>2. n \in 1..MaxSize
  BY <1>1, BoundsAssumption
<1>3. TypeOK'
  BY <1>1, <1>2 DEF TypeOK
<1>. QED BY <1>1, <1>3 DEF IInv

LEMMA InitHolds == Init => IInv
<1> SUFFICES ASSUME Init PROVE IInv
  OBVIOUS
<1>1. PICK n \in 1..MaxSize : PageAdjust(n) <= MaxSize /\ ctx = NewBuffer(PageAdjust(n))
  BY DEF Init
<1> DEFINE p == PageAdjust(n)
<1>2. p \in 1..MaxSize
  BY <1>1, PageAdjustGrows, BoundsAssumption
<1>. HIDE DEF p
<1>3. /\ ctx \in Context(p) /\ ctx.size = p /\ ctx.blockA = NoBlock /\ ctx.blockB = NoBlock
  BY <1>1, <1>2 DEF p, NewBuffer, Context, Cell, Block, NoBlock
<1>4. Apart(ctx)
  BY <1>2, <1>3 DEF Apart, EndOf, NoBlock
<1>5. reserved = FALSE /\ peeked = << >> /\ reply = Quiet
  BY DEF Init
<1>6. peeked \in Seq(Cell) /\ reply \in [status : Int, bytes : Seq(Cell)]
  BY <1>5 DEF Quiet
<1>. QED BY <1>2, <1>3, <1>4, <1>5, <1>6 DEF IInv, TypeOK

LEMMA NextPreserves == IInv /\ [Next]_vars => IInv'
<1> SUFFICES ASSUME IInv, [Next]_vars PROVE IInv'
  OBVIOUS
<1> DEFINE n == ctx.size
<1>1. /\ n <= MaxSize /\ n \in Nat \ {0} /\ Good(ctx, n) /\ ctx.size = n
      /\ reserved \in BOOLEAN /\ (reserved => Region(ctx))
      /\ peeked \in Seq(Cell)
  BY BoundsAssumption DEF IInv, TypeOK, Good
<1>. HIDE DEF n
<1>2. Quiet \in [status : Int, bytes : Seq(Cell)] /\ << >> \in Seq(Cell)
  BY DEF Quiet
<1>3. ASSUME NEW m \in Nat, PageAdjust(m) > n
      PROVE  PageAdjust(m) \in Nat \ {0}
  BY <1>1, <1>3, PageAdjustGrows
<1>4. ASSUME NEW data \in Data
      PROVE  data \in Seq(Byte) /\ Len(data) \in Nat
  BY <1>4, LenProperties DEF Data
<1>5. ASSUME NEW data \in Data, NEW alloc \in Alloc, WriteBytes(data, alloc)
      PROVE  IInv'
  <2> DEFINE w == Write(ctx, data, alloc)
  <2>1. /\ w.ctx.size <= MaxSize /\ reserved = FALSE /\ reserved' = reserved
        /\ ctx' = w.ctx /\ peeked' = peeked /\ reply' = [status |-> w.status, bytes |-> << >>]
    BY <1>1, <1>5 DEF WriteBytes
  <2>2. /\ Good(w.ctx, n) \/ (Good(w.ctx, PageAdjust(Len(data))) /\ PageAdjust(Len(data)) > n)
        /\ w.status \in Int
    BY <1>1, <1>4, WriteGood, AllocAssumption
  <2>. HIDE DEF w
  <2>3. PICK p \in Nat \ {0} : Good(ctx', p)
    BY <1>1, <1>3, <1>4, <2>1, <2>2
  <2>4. reply' \in [status : Int, bytes : Seq(Cell)]
    BY <1>2, <2>1, <2>2
  <2>5. ctx'.size <= MaxSize
    BY <2>1
  <2>. QED BY <1>1, <2>1, <2>3, <2>4, <2>5, FromGood
<1>6. ASSUME NEW data \in Data, ReserveAndFill(data)
      PROVE  IInv'
  <2> DEFINE t == WriteTryReserve(ctx, Len(data))
  <2>1. /\ t.block /\ ctx' = Fill(t.ctx, data, t.reserved)
        /\ reserved' = TRUE /\ reply' = Quiet /\ peeked' = peeked
    BY <1>6 DEF ReserveAndFill
  <2>2. Good(t.ctx, n) /\ t.reserved \in Nat /\ t.reserved <= Len(data) /\ Region(t.ctx)
    BY <1>1, <1>4, <2>1, WriteTryReserveGood
  <2>. HIDE DEF t
  <2>3. Good(ctx', n) /\ Region(ctx') /\ ctx'.size <= MaxSize
    BY <1>1, <1>4, <2>1, <2>2, FillGood DEF Good, Context
  <2>. QED BY <1>1, <1>2, <2>1, <2>3, FromGood
<1>7. ASSUME NEW k \in 0..MaxIO, CommitReserved(k)
      PROVE  IInv'
  <2>1. /\ reserved /\ ctx' = WriteCommit(ctx, k)
        /\ reserved' = FALSE /\ reply' = Quiet /\ peeked' = peeked
    BY <1>7 DEF CommitReserved
  <2>2. Good(ctx', n)
    BY <1>1, <2>1, WriteCommitGood
  <2>3. ctx'.size <= MaxSize
    BY <1>1, <2>2 DEF Good, Context
  <2>. QED BY <1>1, <1>2, <2>1, <2>2, <2>3, FromGood
<1>8. ASSUME NEW k \in 0..MaxIO, ReadBytes(k)
      PROVE  IInv'
  <2> DEFINE r == Read(ctx, k)
  <2>1. /\ ctx' = r.ctx /\ reply' = [status |-> Len(r.bytes), bytes |-> r.bytes]
        /\ reserved' = reserved /\ peeked' = peeked
    BY <1>8 DEF ReadBytes
  <2>2. Good(r.ctx, n) /\ (Region(ctx) => Region(r.ctx)) /\ r.bytes \in Seq(Cell)
    BY <1>1, ReadGood
  <2>. HIDE DEF r
  <2>3. Len(r.bytes) \in Int
    BY <2>2, LenProperties
  <2>4. reply' \in [status : Int, bytes : Seq(Cell)]
    BY <2>1, <2>2, <2>3
  <2>5. ctx'.size <= MaxSize
    BY <1>1, <2>1, <2>2 DEF Good, Context
  <2>. QED BY <1>1, <2>1, <2>2, <2>4, <2>5, FromGood
<1>9. ASSUME NEW k \in 0..MaxIO, NEW alloc \in Alloc, PeekBytes(k, alloc)
      PROVE  IInv'
  <2> DEFINE r == ReadReserve(ctx, k, alloc)
  <2>1. /\ r.ctx.size <= MaxSize /\ ctx' = r.ctx /\ reserved' = reserved
        /\ (peeked' = r.bytes \/ peeked' = << >>) /\ reply' = Quiet
    BY <1>9 DEF PeekBytes, n
  <2>2. /\ r.ctx = ctx \/ (Good(r.ctx, PageAdjust(n + 1)) /\ r.ctx.writeR = NoBlock)
        /\ r.bytes \in Seq(Cell)
    BY <1>1, ReadReserveGood, AllocAssumption
  <2>. HIDE DEF r
  <2>3. PageAdjust(n + 1) \in Nat \ {0} /\ ctx'.size <= MaxSize
    <3>1. n + 1 \in Nat /\ n + 1 > n
      BY <1>1
    <3>2. PageAdjust(n + 1) \in Nat /\ PageAdjust(n + 1) >= n + 1
      BY <3>1, PageAdjustGrows
    <3>3. PageAdjust(n + 1) \in Nat \ {0}
      BY <1>1, <3>2
    <3>. QED BY <2>1, <3>3
  <2>4. peeked' \in Seq(Cell)
    BY <1>2, <2>1, <2>2
  <2>5. CASE r.ctx = ctx
    BY <1>1, <1>2, <2>1, <2>3, <2>4, <2>5, FromGood
  <2>6. CASE Good(r.ctx, PageAdjust(n + 1)) /\ r.ctx.writeR = NoBlock
    <3>1. Region(ctx')
      <4> DEFINE p == PageAdjust(n + 1)
      <4>1. ctx' \in Context(p) /\ p \in Nat /\ ctx'.size = p /\ ctx'.writeR = NoBlock
        BY <2>1, <2>3, <2>6 DEF Good, Context
      <4>. HIDE DEF p
      <4>. QED BY <4>1 DEF Region, EndOf, NoBlock
    <3>. QED BY <1>1, <1>2, <2>1, <2>3, <2>4, <2>6, <3>1, FromGood
  <2>. QED BY <2>2, <2>5, <2>6
<1>10. ASSUME NEW k \in 0..MaxIO, CommitPeeked(k)
      PROVE  IInv'
  <2>1. /\ ctx' = ReadCommit(ctx, k) /\ peeked' = << >>
        /\ reserved' = reserved /\ reply' = Quiet
    BY <1>10 DEF CommitPeeked
  <2>2. Good(ctx', n) /\ (Region(ctx) => Region(ctx'))
    BY <1>1, <2>1, ReadCommitGood
  <2>3. ctx'.size <= MaxSize
    BY <1>1, <2>2 DEF Good, Context
  <2>. QED BY <1>1, <1>2, <2>1, <2>2, <2>3, FromGood
<1>11. ASSUME NEW m \in 0..MaxSize, NEW alloc \in Alloc, GrowTo(m, alloc)
      PROVE  IInv'
  <2> DEFINE g == Grow(ctx, m, alloc).ctx
  <2>1. /\ g.size <= MaxSize /\ ctx' = g /\ reply' = Quiet
        /\ reserved' = reserved /\ peeked' = peeked
    BY <1>11 DEF GrowTo
  <2>2. \/ g = ctx
        \/ Good(g, PageAdjust(m)) /\ PageAdjust(m) > n /\ g.writeR = NoBlock
    BY <1>1, GrowGood, AllocAssumption
  <2>. HIDE DEF g
  <2>3. CASE g = ctx
    BY <1>1, <1>2, <2>1, <2>3, FromGood
  <2>4. CASE Good(g, PageAdjust(m)) /\ PageAdjust(m) > n /\ g.writeR = NoBlock
    <3> DEFINE p == PageAdjust(m)
    <3>1. p \in Nat \ {0} /\ ctx'.size <= MaxSize
      BY <1>3, <2>1, <2>4
    <3>. HIDE DEF p
    <3>2. Good(ctx', p) /\ ctx'.writeR = NoBlock
      BY <2>1, <2>4 DEF p
    <3>3. Region(ctx')
      <4>1. ctx'.size = p
        BY <3>2 DEF Good, Context
      <4>. QED BY <3>1, <3>2, <4>1 DEF Region, EndOf, NoBlock
    <3>. QED BY <1>1, <1>2, <2>1, <3>1, <3>2, <3>3, FromGood
  <2>. QED BY <2>2, <2>3, <2>4
<1>12. ASSUME ClearAll
      PROVE  IInv'
  <2>1. /\ ctx' = Clear(ctx) /\ peeked' = << >> /\ reply' = Quiet /\ reserved' = reserved
    BY <1>12 DEF ClearAll
  <2>2. ctx \in Context(n)
    BY <1>1 DEF Good
  <2>3. /\ ctx' \in Context(n) /\ ctx'.size = n
        /\ ctx'.blockA = NoBlock /\ ctx'.blockB = NoBlock /\ ctx'.writeR = NoBlock
        /\ ctx'.size <= MaxSize
    BY <1>1, <2>1, <2>2 DEF Clear, Context, Block, NoBlock
  <2>4. Good(ctx', n) /\ Region(ctx')
    BY <1>1, <2>3 DEF Good, Apart, Region, EndOf, NoBlock
  <2>. QED BY <1>1, <1>2, <2>1, <2>3, <2>4, FromGood
<1>13. CASE UNCHANGED vars
  BY <1>13 DEF vars, IInv, TypeOK, Apart, Region, EndOf, UsedSize
<1>. QED
  BY <1>5, <1>6, <1>7, <1>8, <1>9, <1>10, <1>11, <1>12, <1>13 DEF Next

LEMMA Invariance == Spec => []IInv
BY InitHolds, NextPreserves, PTL DEF Spec

\* Every call keeps the context well formed: block indices and sizes never go
\* below zero (they are size_t in the code) and the memory has ctx->size cells.
THEOREM TypeCorrect == Spec => []TypeOK
<1>1. IInv => TypeOK
  BY DEF IInv
<1>. QED BY <1>1, Invariance, PTL

\* Blocks A and B never overlap and never leave the buffer.
THEOREM BlocksStayApart == Spec => []BlocksApart
<1>1. IInv => BlocksApart
  BY DEF IInv, Apart, BlocksApart
<1>. QED BY <1>1, Invariance, PTL

\* A reserved block stays clear of the unread bytes until it is committed.
THEOREM ReservationStaysFree == Spec => []ReservationFree
<1>1. IInv => ReservationFree
  <2> SUFFICES ASSUME IInv, reserved,
                      NEW b \in {ctx.blockA, ctx.blockB}, b.size > 0, ctx.writeR.size > 0
               PROVE  EndOf(ctx.writeR) <= b.index \/ EndOf(b) <= ctx.writeR.index
    BY DEF ReservationFree, IInv, Region
  <2>1. /\ ctx.blockA \in Block /\ ctx.blockB \in Block /\ ctx.writeR \in Block
        /\ Apart(ctx) /\ Region(ctx)
    BY DEF IInv, TypeOK, Context
  <2>. QED BY <2>1 DEF Apart, Region, UsedSize, EndOf, Block
<1>. QED BY <1>1, Invariance, PTL

-----------------------------------------------------------------------------
(* The buffer as a byte queue. *)

FInv == IInv /\ Peeked(ctx, peeked) /\ Signals(ctx)

Kept == Peeked(ctx', peeked') /\ Signals(ctx')

LEMMA Before ==
  ASSUME IInv
  PROVE  /\ ctx.size \in Nat \ {0} /\ Good(ctx, ctx.size)
         /\ reserved \in BOOLEAN /\ (reserved => Region(ctx)) /\ peeked \in Seq(Cell)
BY BoundsAssumption DEF IInv, TypeOK, Good

LEMMA After ==
  ASSUME IInv'
  PROVE  ctx'.size \in Nat \ {0} /\ Good(ctx', ctx'.size) /\ peeked' \in Seq(Cell)
BY BoundsAssumption DEF IInv, TypeOK, Good

LEMMA DataIsCells ==
  ASSUME NEW data \in Data
  PROVE  data \in Seq(Byte) /\ data \in Seq(Cell) /\ Len(data) \in Nat
<1>1. data \in Seq(Byte)
  BY DEF Data
<1>2. data \in Seq(Cell)
  BY DEF Data, Cell
<1>. QED BY <1>1, <1>2, LenProperties

LEMMA WriteBytesIsPut ==
  ASSUME FInv, IInv', NEW data \in Data, NEW alloc \in Alloc, WriteBytes(data, alloc)
  PROVE  Kept /\ Fifo!Put(data)
<1> DEFINE w == Write(ctx, data, alloc)
           n == ctx.size
           p == ctx'.size
<1>1. /\ ~reserved /\ ctx' = w.ctx /\ reply' = [status |-> w.status, bytes |-> << >>]
      /\ reserved' = reserved /\ peeked' = peeked
  BY DEF WriteBytes
<1>2. /\ n \in Nat \ {0} /\ Good(ctx, n) /\ p \in Nat \ {0} /\ Good(ctx', p)
      /\ peeked \in Seq(Cell) /\ Peeked(ctx, peeked) /\ Signals(ctx)
  BY Before, After DEF FInv
<1>. HIDE DEF n, p
<1>3. /\ \/ w.status = -1 /\ Same(ctx, w.ctx)
         \/ w.status \in 0..Len(data) /\ Added(ctx, w.ctx, data, w.status)
      /\ Signals(ctx) => Signals(w.ctx)
  BY <1>2, DataIsCells, WriteAdds, AllocAssumption
<1>. HIDE DEF w
<1>4. Kept
  <2>1. Added(ctx, ctx', << >>, 0) \/ Added(ctx, ctx', data, w.status)
    BY <1>1, <1>3 DEF Same
  <2>2. Peeked(ctx', peeked)
    BY <1>2, <2>1, PeekedKept
  <2>. QED BY <1>1, <1>2, <1>3, <2>2 DEF Kept
<1>5. Fifo!Put(data)
  <2>1. CASE w.status = -1 /\ Same(ctx, w.ctx)
    <3>1. Unread(ctx') = Unread(ctx)
      BY <1>1, <1>2, <2>1, SameUnread
    <3>. QED BY <1>1, <2>1, <3>1 DEF Fifo!Put
  <2>2. CASE w.status \in 0..Len(data) /\ Added(ctx, w.ctx, data, w.status)
    <3>1. Unread(ctx') = Unread(ctx) \o SubSeq(data, 1, w.status)
      BY <1>1, <1>2, <2>2, DataIsCells, AddedAppends
    <3>. QED BY <1>1, <2>2, <3>1 DEF Fifo!Put, Fifo!FirstOf
  <2>. QED BY <1>3, <2>1, <2>2
<1>. QED BY <1>4, <1>5

LEMMA ReserveAndFillIsStage ==
  ASSUME FInv, IInv', NEW data \in Data, ReserveAndFill(data)
  PROVE  Kept /\ Fifo!Stage(data)
<1> DEFINE t == WriteTryReserve(ctx, Len(data))
           k == t.reserved
           n == ctx.size
           p == ctx'.size
<1>1. /\ ~reserved /\ t.block /\ ctx' = Fill(t.ctx, data, k)
      /\ reserved' = TRUE /\ reply' = Quiet /\ peeked' = peeked
  BY DEF ReserveAndFill
<1>2. /\ n \in Nat \ {0} /\ Good(ctx, n) /\ p \in Nat \ {0} /\ Good(ctx', p)
      /\ peeked \in Seq(Cell) /\ Peeked(ctx, peeked) /\ Signals(ctx)
  BY Before, After DEF FInv
<1>. HIDE DEF n, p
<1>3. data \in Seq(Byte) /\ data \in Seq(Cell) /\ Len(data) \in Nat
  BY DataIsCells
<1>4. /\ Good(t.ctx, n) /\ Region(t.ctx) /\ k \in Nat /\ k <= Len(data) /\ t.ctx.writeR.size = k
      /\ Same(ctx, t.ctx) /\ (Signals(ctx) => Signals(t.ctx))
  BY <1>1, <1>2, <1>3, WriteTryReserveGood, WriteTryReserveSame
<1>. HIDE DEF t
<1>5. k <= t.ctx.writeR.size
  BY <1>4
<1>. HIDE DEF k
<1>6. /\ Same(t.ctx, ctx') /\ (Signals(t.ctx) => Signals(ctx')) /\ ctx'.writeR = t.ctx.writeR
      /\ Holds(ctx', data, k) /\ Good(ctx', n) /\ Region(ctx')
  <2>1. Same(t.ctx, ctx') /\ (Signals(t.ctx) => Signals(ctx')) /\ Holds(ctx', data, k)
    BY <1>1, <1>2, <1>3, <1>4, <1>5, FillSame
  <2>2. Good(ctx', n) /\ Region(ctx') /\ ctx'.writeR = t.ctx.writeR
    <3>1. k \in Nat /\ k <= Len(data) /\ n \in Nat /\ Good(t.ctx, n) /\ ctx' = Fill(t.ctx, data, k)
      BY <1>1, <1>2, <1>4
    <3>2. Good(ctx', n) /\ (Region(t.ctx) => Region(ctx')) /\ ctx'.writeR = t.ctx.writeR
      BY <1>3, <3>1, FillGood
    <3>. QED BY <1>4, <3>2
  <2>. QED BY <2>1, <2>2
<1>7. Same(ctx, ctx')
  BY <1>2, <1>4, <1>6, SameTwice
<1>8. Kept
  BY <1>1, <1>2, <1>4, <1>6, <1>7, PeekedKept DEF Kept, Same
<1>9. Unread(ctx') = Unread(ctx)
  BY <1>2, <1>7, SameUnread
<1>10. Bytes(ctx', ctx'.writeR.index, ctx'.writeR.size) = SubSeq(data, 1, k) /\ k \in 0..Len(data)
  <2> DEFINE i == ctx'.writeR.index
             b == Bytes(ctx', i, k)
  <2>1. ctx' \in Context(n) /\ i \in Nat /\ i + k <= n /\ ctx'.writeR.size = k
    BY <1>4, <1>6, GoodFields, <1>2 DEF Good, Fields, Region, EndOf
  <2>. HIDE DEF i
  <2>2. b \in Seq(Cell) /\ Len(b) = k /\ \A j \in 1..k : b[j] = ctx'.buffer[i + j - 1]
    BY <1>2, <1>4, <2>1, BytesType
  <2>3. \A j \in 1..Len(b) : b[j] = data[j]
    BY <1>6, <2>2 DEF Holds, i
  <2>. HIDE DEF b
  <2>4. b = SubSeq(data, 1, k) /\ k \in 0..Len(data)
    BY <1>3, <1>4, <2>2, <2>3, IsFirst
  <2>. QED BY <2>1, <2>4 DEF b, i
<1>11. Fifo!Stage(data)
  BY <1>1, <1>9, <1>10 DEF Fifo!Stage, Fifo!FirstOf, Fifo!Quiet, Quiet
<1>. QED BY <1>8, <1>11

LEMMA CommitReservedIsStore ==
  ASSUME FInv, IInv', NEW k \in 0..MaxIO, CommitReserved(k)
  PROVE  Kept /\ Fifo!Store(k)
<1> DEFINE n == ctx.size
           p == ctx'.size
           i == ctx.writeR.index
           z == ctx.writeR.size
           b == Bytes(ctx, i, z)
           m == Least(k, z)
<1>1. /\ reserved /\ ctx' = WriteCommit(ctx, k) /\ reserved' = FALSE /\ reply' = Quiet /\ peeked' = peeked
  BY DEF CommitReserved
<1>2. /\ n \in Nat \ {0} /\ Good(ctx, n) /\ p \in Nat \ {0} /\ Good(ctx', p)
      /\ peeked \in Seq(Cell) /\ Peeked(ctx, peeked) /\ Signals(ctx) /\ Region(ctx)
  BY <1>1, Before, After DEF FInv
<1>3. ctx \in Context(n) /\ i \in Nat /\ z \in Nat /\ i + z <= n /\ k \in Nat
  BY <1>2, GoodFields, BoundsAssumption DEF Good, Fields, Region, EndOf
<1>4. m \in Nat /\ m <= z
  BY <1>3 DEF Least
<1>. HIDE DEF n, p
<1>5. b \in Seq(Cell) /\ Len(b) = z /\ \A j \in 1..z : b[j] = ctx.buffer[i + j - 1]
  <2>1. n \in Nat /\ ctx \in Context(n) /\ i \in Nat /\ z \in Nat /\ i + z <= n
    BY <1>2, <1>3
  <2>. HIDE DEF i, z
  <2>. QED BY <2>1, BytesType
<1>. HIDE DEF b
<1>6. Holds(ctx, b, m)
  <2>1. \A j \in 1..m : j \in 1..z
    BY <1>3, <1>4
  <2>. QED BY <1>5, <2>1 DEF Holds
<1>7. Added(ctx, ctx', b, m) /\ (Signals(ctx) => Signals(ctx'))
  BY <1>1, <1>2, <1>3, <1>6, WriteCommitAdds
<1>. HIDE DEF m, i, z
<1>8. Kept
  BY <1>1, <1>2, <1>7, PeekedKept DEF Kept
<1>9. Unread(ctx') = Unread(ctx) \o SubSeq(b, 1, m)
  <2>1. m \in 0..Len(b)
    BY <1>3, <1>4, <1>5
  <2>. QED BY <1>2, <1>5, <1>7, <2>1, AddedAppends
<1>10. Fifo!Store(k)
  <2>1. m = IF k <= Len(b) THEN k ELSE Len(b)
    BY <1>5 DEF m, Least
  <2>2. (IF reserved THEN Bytes(ctx, ctx.writeR.index, ctx.writeR.size) ELSE << >>) = b
    BY <1>1 DEF b, i, z
  <2>. QED BY <1>1, <1>9, <2>1, <2>2 DEF Fifo!Store, Fifo!FirstOf, Fifo!Quiet, Quiet
<1>. QED BY <1>8, <1>10

LEMMA ReadBytesIsGet ==
  ASSUME FInv, IInv', NEW m \in 0..MaxIO, ReadBytes(m)
  PROVE  Kept /\ Fifo!Get(m)
<1> DEFINE r == Read(ctx, m)
           n == ctx.size
           p == ctx'.size
           k == Least(m, UsedSize(ctx))
<1>1. /\ peeked = << >> /\ ctx' = r.ctx /\ reply' = [status |-> Len(r.bytes), bytes |-> r.bytes]
      /\ reserved' = reserved /\ peeked' = peeked
  BY DEF ReadBytes
<1>2. /\ n \in Nat \ {0} /\ Good(ctx, n) /\ p \in Nat \ {0} /\ Good(ctx', p) /\ Signals(ctx)
  BY Before, After DEF FInv
<1>3. m \in Nat /\ UsedSize(ctx) \in Nat
  BY <1>2, GoodFields, BoundsAssumption DEF Fields
<1>4. k \in 0..UsedSize(ctx)
  BY <1>3 DEF Least
<1>. HIDE DEF n, p
<1>5. /\ Good(ctx', n) /\ Dropped(ctx, ctx', k) /\ Got(ctx, r.bytes, k)
      /\ ctx.signaled => ctx'.signaled
      /\ ctx'.writeR = ctx.writeR /\ ctx'.buffer = ctx.buffer
  BY <1>1, <1>2, <1>3, ReadDrops
<1>. HIDE DEF r
<1>6. Kept
  <2>1. Peeked(ctx', peeked')
    BY <1>1, <1>2, NothingPeeked
  <2>2. UsedSize(ctx') > 0 => UsedSize(ctx) > 0
    BY <1>3, <1>4, <1>5 DEF Dropped
  <2>. QED BY <1>2, <1>5, <2>1, <2>2 DEF Kept, Signals
<1>7. Len(Unread(ctx)) = UsedSize(ctx)
  BY <1>2, UnreadIsAt
<1>8. k = IF m <= Len(Unread(ctx)) THEN m ELSE Len(Unread(ctx))
  BY <1>7 DEF Least
<1>. HIDE DEF k
<1>9. Unread(ctx') = SubSeq(Unread(ctx), k + 1, Len(Unread(ctx)))
  BY <1>2, <1>4, <1>5, DroppedRest
<1>10. r.bytes = SubSeq(Unread(ctx), 1, k) /\ Len(r.bytes) = k
  BY <1>2, <1>4, <1>5, GotFirst
<1>11. UNCHANGED (IF reserved THEN Bytes(ctx, ctx.writeR.index, ctx.writeR.size) ELSE << >>)
  BY <1>1, <1>5 DEF Bytes
<1>12. Fifo!Get(m)
  BY <1>1, <1>8, <1>9, <1>10, <1>11 DEF Fifo!Get, Fifo!FirstOf, Fifo!AfterFirst
<1>. QED BY <1>6, <1>12

LEMMA PeekBytesIsPeek ==
  ASSUME FInv, IInv', NEW m \in 0..MaxIO, NEW alloc \in Alloc, PeekBytes(m, alloc)
  PROVE  Kept /\ Fifo!Peek
<1> DEFINE r == ReadReserve(ctx, m, alloc)
           n == ctx.size
           p == ctx'.size
<1>1. /\ ctx' = r.ctx /\ peeked' = (IF r.block THEN r.bytes ELSE << >>) /\ reply' = Quiet
      /\ reserved' = reserved
  BY DEF PeekBytes
<1>2. /\ n \in Nat \ {0} /\ Good(ctx, n) /\ p \in Nat \ {0} /\ Good(ctx', p) /\ Signals(ctx)
      /\ peeked' \in Seq(Cell)
  BY Before, After DEF FInv
<1>. HIDE DEF n, p
<1>3. m \in Nat /\ alloc \in BOOLEAN
  BY BoundsAssumption, AllocAssumption
<1>4. /\ Same(ctx, ctx') /\ (Signals(ctx) => Signals(ctx'))
      /\ ctx' = ctx \/ ctx'.writeR = NoBlock
      /\ r.block => Peeked(ctx', r.bytes)
  BY <1>1, <1>2, <1>3, ReadReserveSame
<1>. HIDE DEF r
<1>5. Peeked(ctx', peeked')
  BY <1>1, <1>2, <1>4, NothingPeeked
<1>6. Kept
  BY <1>2, <1>4, <1>5 DEF Kept
<1>7. Unread(ctx') = Unread(ctx)
  BY <1>2, <1>4, SameUnread
<1>8. peeked' = SubSeq(Unread(ctx), 1, Len(peeked')) /\ Len(peeked') \in 0..Len(Unread(ctx))
  <2>1. /\ Unread(ctx') \in Seq(Cell) /\ Len(Unread(ctx')) = UsedSize(ctx')
        /\ \A j \in 1..UsedSize(ctx') : Unread(ctx')[j] = At(ctx', j)
    BY <1>2, UnreadIsAt
  <2>2. ctx'.blockA.size <= UsedSize(ctx') /\ ctx'.blockA.size \in Nat /\ UsedSize(ctx') \in Nat
        /\ Len(peeked') \in Nat
    BY <1>2, GoodFields, LenProperties DEF Fields
  <2>3. Len(peeked') <= Len(Unread(ctx')) /\ \A j \in 1..Len(peeked') : peeked'[j] = Unread(ctx')[j]
    BY <1>5, <2>1, <2>2 DEF Peeked
  <2>. QED BY <1>2, <1>7, <2>1, <2>3, IsFirst
<1>9. (IF reserved' THEN Bytes(ctx', ctx'.writeR.index, ctx'.writeR.size) ELSE << >>)
        \in {IF reserved THEN Bytes(ctx, ctx.writeR.index, ctx.writeR.size) ELSE << >>, << >>}
  BY <1>1, <1>4, NoBytes
<1>10. Fifo!Peek
  BY <1>1, <1>7, <1>8, <1>9 DEF Fifo!Peek, Fifo!FirstOf, Fifo!Quiet, Quiet
<1>. QED BY <1>6, <1>10

LEMMA CommitPeekedIsDrop ==
  ASSUME FInv, IInv', NEW k \in 0..MaxIO, CommitPeeked(k)
  PROVE  Kept /\ Fifo!Drop(k)
<1> DEFINE n == ctx.size
           p == ctx'.size
<1>1. /\ k <= Len(peeked) /\ ctx' = ReadCommit(ctx, k) /\ peeked' = << >> /\ reply' = Quiet
      /\ reserved' = reserved
  BY DEF CommitPeeked
<1>2. /\ n \in Nat \ {0} /\ Good(ctx, n) /\ p \in Nat \ {0} /\ Good(ctx', p) /\ Signals(ctx)
      /\ peeked \in Seq(Cell) /\ Peeked(ctx, peeked)
  BY Before, After DEF FInv
<1>. HIDE DEF p
<1>3. k \in Nat /\ k <= ctx.blockA.size /\ k \in 0..UsedSize(ctx) /\ UsedSize(ctx) \in Nat
  <2>1. k \in Nat /\ Len(peeked) \in Nat /\ Len(peeked) <= ctx.blockA.size
    BY <1>2, BoundsAssumption, LenProperties DEF Peeked
  <2>2. ctx.blockA.size \in Nat /\ UsedSize(ctx) = ctx.blockA.size + ctx.blockB.size /\ ctx.blockB.size \in Nat
    BY <1>2, GoodFields DEF Fields
  <2>. QED BY <1>1, <2>1, <2>2
<1>4. /\ Dropped(ctx, ctx', k) /\ (ctx.signaled => ctx'.signaled)
      /\ ctx'.buffer = ctx.buffer /\ ctx'.writeR = ctx.writeR
  BY <1>1, <1>2, <1>3, ReadCommitDrops
<1>5. Good(ctx', n)
  BY <1>1, <1>2, <1>3, ReadCommitGood
<1>. HIDE DEF n
<1>6. Kept
  <2>1. Peeked(ctx', peeked')
    BY <1>1, <1>2, NothingPeeked
  <2>2. UsedSize(ctx') > 0 => UsedSize(ctx) > 0
    BY <1>3, <1>4 DEF Dropped
  <2>. QED BY <1>2, <1>4, <2>1, <2>2 DEF Kept, Signals
<1>7. Unread(ctx') = SubSeq(Unread(ctx), k + 1, Len(Unread(ctx)))
  BY <1>2, <1>3, <1>4, <1>5, DroppedRest
<1>8. UNCHANGED (IF reserved THEN Bytes(ctx, ctx.writeR.index, ctx.writeR.size) ELSE << >>)
  BY <1>1, <1>4 DEF Bytes
<1>9. Fifo!Drop(k)
  BY <1>1, <1>7, <1>8 DEF Fifo!Drop, Fifo!AfterFirst, Fifo!Quiet, Quiet
<1>. QED BY <1>6, <1>9

LEMMA GrowToIsResize ==
  ASSUME FInv, IInv', NEW m \in 0..MaxSize, NEW alloc \in Alloc, GrowTo(m, alloc)
  PROVE  Kept /\ Fifo!Resize
<1> DEFINE g == Grow(ctx, m, alloc)
           n == ctx.size
           p == ctx'.size
<1>1. ctx' = g.ctx /\ reply' = Quiet /\ reserved' = reserved /\ peeked' = peeked
  BY DEF GrowTo
<1>2. /\ n \in Nat \ {0} /\ Good(ctx, n) /\ p \in Nat \ {0} /\ Good(ctx', p) /\ Signals(ctx)
      /\ peeked \in Seq(Cell) /\ Peeked(ctx, peeked)
  BY Before, After DEF FInv
<1>. HIDE DEF n, p
<1>3. m \in Nat /\ alloc \in BOOLEAN
  BY BoundsAssumption, AllocAssumption
<1>4. /\ Same(ctx, ctx') /\ (Signals(ctx) => Signals(ctx'))
      /\ ctx' = ctx \/ ctx'.writeR = NoBlock
  BY <1>1, <1>2, <1>3, GrowSame
<1>. HIDE DEF g
<1>5. Kept
  BY <1>1, <1>2, <1>4, PeekedKept DEF Kept, Same
<1>6. Unread(ctx') = Unread(ctx)
  BY <1>2, <1>4, SameUnread
<1>7. (IF reserved' THEN Bytes(ctx', ctx'.writeR.index, ctx'.writeR.size) ELSE << >>)
        \in {IF reserved THEN Bytes(ctx, ctx.writeR.index, ctx.writeR.size) ELSE << >>, << >>}
  BY <1>1, <1>4, NoBytes
<1>8. Fifo!Resize
  BY <1>1, <1>6, <1>7 DEF Fifo!Resize, Fifo!Quiet, Quiet
<1>. QED BY <1>5, <1>8

LEMMA ClearAllIsReset ==
  ASSUME FInv, IInv', ClearAll
  PROVE  Kept /\ Fifo!Reset
<1> DEFINE n == ctx.size
           p == ctx'.size
<1>1. ctx' = Clear(ctx) /\ peeked' = << >> /\ reply' = Quiet /\ reserved' = reserved
  BY DEF ClearAll
<1>2. ctx \in Context(n) /\ p \in Nat \ {0} /\ Good(ctx', p)
  BY Before, After DEF FInv, Good
<1>. HIDE DEF n, p
<1>3. ctx'.blockA = NoBlock /\ ctx'.blockB = NoBlock /\ ctx'.writeR = NoBlock
  BY <1>1, <1>2 DEF Clear, Context
<1>4. UsedSize(ctx') = 0
  BY <1>3 DEF UsedSize, NoBlock
<1>5. Kept
  BY <1>1, <1>2, <1>4, NothingPeeked DEF Kept, Signals
<1>6. Unread(ctx') = << >>
  BY <1>4 DEF Unread
<1>7. (IF reserved' THEN Bytes(ctx', ctx'.writeR.index, ctx'.writeR.size) ELSE << >>) = << >>
  BY <1>3, NoBytes
<1>8. Fifo!Reset
  BY <1>1, <1>6, <1>7 DEF Fifo!Reset, Fifo!Quiet, Quiet
<1>. QED BY <1>5, <1>8

-----------------------------------------------------------------------------
LEMMA InitIsEmpty == Init => FInv /\ Fifo!Init
<1> SUFFICES ASSUME Init PROVE FInv /\ Fifo!Init
  OBVIOUS
<1>1. PICK n \in 1..MaxSize : PageAdjust(n) <= MaxSize /\ ctx = NewBuffer(PageAdjust(n))
  BY DEF Init
<1>2. reserved = FALSE /\ peeked = << >> /\ reply = Quiet
  BY DEF Init
<1>3. ctx.blockA = NoBlock /\ ctx.blockB = NoBlock
  BY <1>1 DEF NewBuffer
<1>4. UsedSize(ctx) = 0
  BY <1>3 DEF UsedSize, NoBlock
<1>5. IInv
  BY InitHolds
<1>6. Peeked(ctx, peeked) /\ Signals(ctx)
  BY <1>2, <1>4, <1>5, Before, NothingPeeked DEF Signals
<1>7. Unread(ctx) = << >>
  BY <1>4 DEF Unread
<1>8. Fifo!Init
  BY <1>2, <1>7 DEF Fifo!Init, Fifo!Quiet, Quiet
<1>. QED BY <1>5, <1>6, <1>8 DEF FInv

LEMMA NextIsFifo == FInv /\ [Next]_vars => FInv' /\ [Fifo!Next]_(Fifo!vars)
<1> SUFFICES ASSUME FInv, [Next]_vars PROVE FInv' /\ [Fifo!Next]_(Fifo!vars)
  OBVIOUS
<1>1. IInv'
  BY NextPreserves DEF FInv
<1>2. Kept => FInv'
  BY <1>1 DEF Kept, FInv
<1>3. ASSUME NEW data \in Data, NEW alloc \in Alloc, WriteBytes(data, alloc)
      PROVE  Kept /\ Fifo!Next
  BY <1>1, <1>3, WriteBytesIsPut DEF Fifo!Next, Fifo!Data, Data
<1>4. ASSUME NEW data \in Data, ReserveAndFill(data) PROVE Kept /\ Fifo!Next
  BY <1>1, <1>4, ReserveAndFillIsStage DEF Fifo!Next, Fifo!Data, Data
<1>5. ASSUME NEW k \in 0..MaxIO, CommitReserved(k) PROVE Kept /\ Fifo!Next
  BY <1>1, <1>5, CommitReservedIsStore DEF Fifo!Next
<1>6. ASSUME NEW m \in 0..MaxIO, ReadBytes(m) PROVE Kept /\ Fifo!Next
  BY <1>1, <1>6, ReadBytesIsGet DEF Fifo!Next
<1>7. ASSUME NEW m \in 0..MaxIO, NEW alloc \in Alloc, PeekBytes(m, alloc) PROVE Kept /\ Fifo!Next
  BY <1>1, <1>7, PeekBytesIsPeek DEF Fifo!Next
<1>8. ASSUME NEW k \in 0..MaxIO, CommitPeeked(k) PROVE Kept /\ Fifo!Next
  BY <1>1, <1>8, CommitPeekedIsDrop DEF Fifo!Next
<1>9. ASSUME NEW m \in 0..MaxSize, NEW alloc \in Alloc, GrowTo(m, alloc) PROVE Kept /\ Fifo!Next
  BY <1>1, <1>9, GrowToIsResize DEF Fifo!Next
<1>10. ASSUME ClearAll PROVE Kept /\ Fifo!Next
  BY <1>1, <1>10, ClearAllIsReset DEF Fifo!Next
<1>11. CASE UNCHANGED vars
  <2>1. ctx' = ctx /\ reserved' = reserved /\ peeked' = peeked /\ reply' = reply
    BY <1>11 DEF vars
  <2>2. Kept
    BY <2>1 DEF Kept, FInv
  <2>3. UNCHANGED Fifo!vars
    BY <2>1 DEF Fifo!vars
  <2>. QED BY <1>2, <2>2, <2>3
<1>. QED
  BY <1>2, <1>3, <1>4, <1>5, <1>6, <1>7, <1>8, <1>9, <1>10, <1>11 DEF Next

LEMMA FifoInvariance == Spec => []FInv
<1>1. Init => FInv
  BY InitIsEmpty
<1>2. FInv /\ [Next]_vars => FInv'
  BY NextIsFifo
<1>. QED BY <1>1, <1>2, PTL DEF Spec

\* The buffer is a byte queue: whatever is written, reserved, committed, read,
\* peeked at, grown or cleared, and in whatever order, no byte is lost,
\* duplicated, reordered or read before it is stored.
THEOREM ActsAsFifo == Spec => FifoSpec
<1>1. Init => Fifo!Init
  BY InitIsEmpty
<1>2. FInv /\ [Next]_vars => [Fifo!Next]_(Fifo!vars)
  BY NextIsFifo
<1>. QED BY <1>1, <1>2, FifoInvariance, PTL DEF Spec, FifoSpec, Fifo!Spec

\* What the reader peeked at is still what it commits: no call of the writer
\* in between, not even one that moves the bytes to new memory, changes them.
THEOREM PeekStaysStable == Spec => []PeekStable
<1>1. FInv => PeekStable
  <2> SUFFICES ASSUME FInv PROVE PeekStable
    OBVIOUS
  <2> DEFINE n == ctx.size
  <2>1. n \in Nat /\ Good(ctx, n) /\ peeked \in Seq(Cell) /\ Peeked(ctx, peeked)
    BY Before DEF FInv
  <2>. HIDE DEF n
  <2>2. UsedSize(ctx) \in Nat /\ ctx.blockA.size \in Nat /\ ctx.blockA.size <= UsedSize(ctx)
        /\ Len(peeked) \in Nat
    <3>1. Fields(ctx, n)
      BY <2>1, GoodFields
    <3>2. Len(peeked) \in Nat
      BY <2>1, LenProperties
    <3>. QED BY <3>1, <3>2 DEF Fields
  <2>3. /\ Unread(ctx) \in Seq(Cell) /\ Len(Unread(ctx)) = UsedSize(ctx)
        /\ \A j \in 1..UsedSize(ctx) : Unread(ctx)[j] = At(ctx, j) /\ At(ctx, j) \in Cell
    BY <2>1, UnreadIsAt
  <2>4. Len(peeked) <= UsedSize(ctx) /\ \A j \in 1..Len(peeked) : j \in 1..UsedSize(ctx)
    BY <2>1, <2>2 DEF Peeked
  <2>5. \A j \in 1..Len(peeked) : Unread(ctx)[j] = peeked[j]
    BY <2>1, <2>3, <2>4 DEF Peeked
  <2>. QED BY <2>4, <2>5 DEF PeekStable
<1>. QED BY <1>1, FifoInvariance, PTL

\* While there are unread bytes the signaled flag is up, whichever call stored
\* them and whatever was read since.
THEOREM DataStaysSignaled == Spec => []DataIsSignaled
<1>1. FInv => DataIsSignaled
  BY DEF FInv, Signals, DataIsSignaled
<1>. QED BY <1>1, FifoInvariance, PTL
=============================================================================
