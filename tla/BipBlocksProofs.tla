--------------------------- MODULE BipBlocksProofs ---------------------------
(***************************************************************************)
(* What each operator of the bip buffer does to a context, for every       *)
(* capacity, page size and length of a call.                               *)
(*                                                                         *)
(* A context is Good when it is well formed and blocks A and B are Apart;  *)
(* no operator makes a good one bad, and an uncommitted reservation stays  *)
(* in a Region where committing it appends.  What happens to the unread    *)
(* bytes is told by two relations: k bytes were Dropped from the front, or *)
(* k bytes of a sequence were Added at the end.                            *)
(***************************************************************************)
EXTENDS BipBlocks, SequenceTheorems, TLAPS

Apart(c) ==
  /\ EndOf(c.blockA) <= c.size
  /\ c.blockB.index = 0
  /\ c.blockB.size > 0 => c.blockA.size > 0 /\ EndOf(c.blockB) <= c.blockA.index

Good(c, n) == c \in Context(n) /\ Apart(c)

\* Where an uncommitted reservation may lie: committing it appends.
Region(c) ==
  /\ EndOf(c.writeR) <= c.size
  /\ \/ c.writeR.size = 0
     \/ UsedSize(c) = 0
     \/ c.writeR.index = EndOf(c.blockA) /\ c.blockB.size = 0
     \/ /\ c.blockA.size > 0
        /\ c.writeR.index = EndOf(c.blockB)
        /\ EndOf(c.writeR) <= c.blockA.index

LEMMA PageAdjustGrows ==
  ASSUME NEW n \in Nat
  PROVE  PageAdjust(n) \in Nat /\ PageAdjust(n) >= n
BY PageAssumption DEF PageAdjust

LEMMA BytesType ==
  ASSUME NEW n \in Nat, NEW c \in Context(n), NEW i \in Nat, NEW k \in Nat, i + k <= n
  PROVE  /\ Bytes(c, i, k) \in Seq(Cell)
         /\ Len(Bytes(c, i, k)) = k
         /\ \A j \in 1..k : Bytes(c, i, k)[j] = c.buffer[i + j - 1]
BY DEF Bytes, Context

LEMMA ReadCommitGood ==
  ASSUME NEW n \in Nat, NEW c, Good(c, n), NEW k \in Nat, NEW e, e = ReadCommit(c, k)
  PROVE  Good(e, n) /\ e.buffer = c.buffer /\ (Region(c) => Region(e))
<1> DEFINE part == [index |-> c.blockA.index + k, size |-> c.blockA.size - k]
<1>1. c.blockA \in Block /\ c.blockB \in Block /\ NoBlock \in Block /\ c.size = n
      /\ c \in Context(n) /\ Apart(c) /\ c.writeR \in Block
  BY DEF Good, Context, Block, NoBlock
<1>2. PICK d : /\ d = IF k >= c.blockA.size
                      THEN [c EXCEPT !.blockA = c.blockB, !.blockB = NoBlock]
                      ELSE [c EXCEPT !.blockA = part]
               /\ e = d \/ e = SetSignaledState(d, FALSE)
  BY DEF ReadCommit
<1>3. CASE k >= c.blockA.size
  <2>1. d = [c EXCEPT !.blockA = c.blockB, !.blockB = NoBlock]
    BY <1>2, <1>3
  <2>2. /\ d \in Context(n) /\ d.buffer = c.buffer /\ d.writeR = c.writeR /\ d.size = n
        /\ d.blockA = c.blockB /\ d.blockB = NoBlock
    BY <1>1, <2>1 DEF Context
  <2>3. /\ e \in Context(n) /\ e.buffer = c.buffer /\ e.writeR = c.writeR /\ e.size = n
        /\ e.blockA = c.blockB /\ e.blockB = NoBlock
    BY <1>2, <2>2 DEF Context, SetSignaledState
  <2>4. Apart(e)
    BY <1>1, <2>3 DEF Apart, EndOf, Block, NoBlock
  <2>5. Region(c) => Region(e)
    BY <1>1, <2>3 DEF Region, UsedSize, Apart, EndOf, Block, NoBlock
  <2>. QED BY <2>3, <2>4, <2>5 DEF Good
<1>4. CASE ~(k >= c.blockA.size)
  <2>1. d = [c EXCEPT !.blockA = part] /\ part \in Block
    BY <1>1, <1>2, <1>4 DEF Block
  <2>2. /\ d \in Context(n) /\ d.buffer = c.buffer /\ d.writeR = c.writeR /\ d.size = n
        /\ d.blockA = part /\ d.blockB = c.blockB
    BY <1>1, <2>1 DEF Context
  <2>3. /\ e \in Context(n) /\ e.buffer = c.buffer /\ e.writeR = c.writeR /\ e.size = n
        /\ e.blockA = part /\ e.blockB = c.blockB
    BY <1>2, <2>2 DEF Context, SetSignaledState
  <2>4. Apart(e)
    BY <1>1, <1>4, <2>3 DEF Apart, EndOf, Block
  <2>5. Region(c) => Region(e)
    BY <1>1, <1>4, <2>3 DEF Region, UsedSize, Apart, EndOf, Block
  <2>. QED BY <2>3, <2>4, <2>5 DEF Good
<1>. QED BY <1>3, <1>4

LEMMA ReadRoundGood ==
  ASSUME NEW n \in Nat, NEW c, Good(c, n), NEW m \in Nat, NEW r, r = ReadRound(c, m)
  PROVE  /\ Good(r.ctx, n)
         /\ r.ctx.buffer = c.buffer /\ (Region(c) => Region(r.ctx))
         /\ r.bytes \in Seq(Cell)
         /\ Len(r.bytes) <= m
<1>1. c \in Context(n) /\ c.blockA \in Block /\ c.size = n /\ Apart(c)
  BY DEF Good, Context
<1>2. CASE c.blockA.size = 0
  <2>1. r = [ctx |-> c, bytes |-> << >>]
    BY <1>2 DEF ReadRound
  <2>. QED BY <2>1
<1>3. CASE c.blockA.size # 0
  <2> DEFINE k == Least(m, c.blockA.size)
  <2>1. k \in Nat /\ k <= m /\ k <= c.blockA.size
    BY <1>1 DEF Least, Block
  <2>2. r.ctx = ReadCommit(c, k)
    BY <1>3 DEF ReadRound
  <2>9. r.bytes = Bytes(c, c.blockA.index, k)
    BY <1>3 DEF ReadRound
  <2>8. k \in Nat
    BY <2>1
  <2>3. c.blockA.index \in Nat /\ c.blockA.index + k <= n
    BY <1>1, <2>1 DEF Apart, EndOf, Block
  <2>. HIDE DEF k
  <2>4. r.bytes \in Seq(Cell) /\ Len(r.bytes) = k
    BY <1>1, <2>1, <2>9, <2>3, BytesType
  <2>5. Good(r.ctx, n) /\ r.ctx.buffer = c.buffer /\ (Region(c) => Region(r.ctx))
    BY <2>8, <2>2, ReadCommitGood
  <2>. QED BY <2>1, <2>4, <2>5
<1>. QED BY <1>2, <1>3

LEMMA ReadGood ==
  ASSUME NEW n \in Nat, NEW c, Good(c, n), NEW m \in Nat, NEW r, r = Read(c, m)
  PROVE  /\ Good(r.ctx, n)
         /\ r.ctx.buffer = c.buffer /\ (Region(c) => Region(r.ctx))
         /\ r.bytes \in Seq(Cell)
         /\ Len(r.bytes) <= m
<1> DEFINE d1 == ReadRound(c, m).ctx
           b1 == ReadRound(c, m).bytes
           left == m - Len(b1)
           d2 == ReadRound(d1, left).ctx
           b2 == ReadRound(d1, left).bytes
<1>1. Good(d1, n) /\ d1.buffer = c.buffer /\ (Region(c) => Region(d1))
  BY ReadRoundGood
<1>2. b1 \in Seq(Cell) /\ Len(b1) <= m
  BY ReadRoundGood
<1>3. Len(b1) \in Nat /\ left \in Nat
  <2>. HIDE DEF b1
  <2>1. Len(b1) \in Nat
    BY <1>2, LenProperties
  <2>. QED BY <1>2, <2>1
<1>4. left \in Nat
  BY <1>3
<1>5. /\ Good(d2, n) /\ d2.buffer = d1.buffer /\ (Region(d1) => Region(d2))
      /\ b2 \in Seq(Cell) /\ Len(b2) <= left
  <2>. HIDE DEF d1, left
  <2>. QED BY <1>1, <1>4, ReadRoundGood
<1>6. \/ r.ctx = d1 /\ r.bytes = b1
      \/ r.ctx = d2 /\ r.bytes = b1 \o b2
  <2>1. r = ReadRound(c, m) \/ r = [ctx |-> d2, bytes |-> b1 \o b2]
    BY DEF Read
  <2>. HIDE DEF d2, b2
  <2>. QED BY <2>1
<1>. HIDE DEF d1, d2, b1, b2
<1>7. b1 \o b2 \in Seq(Cell) /\ Len(b1 \o b2) = Len(b1) + Len(b2)
  BY <1>2, <1>5, ConcatProperties
<1>8. Len(b2) \in Nat /\ Len(b2) <= left
  BY <1>5, LenProperties
<1>9. r.bytes \in Seq(Cell) /\ Len(r.bytes) <= m
  <2>1. Len(b1) + Len(b2) <= m
    BY <1>3, <1>8
  <2>2. r.bytes = b1 \/ r.bytes = b1 \o b2
    BY <1>6
  <2>. QED BY <1>2, <1>7, <2>1, <2>2
<1>10. Good(r.ctx, n) /\ r.ctx.buffer = c.buffer /\ (Region(c) => Region(r.ctx))
  BY <1>1, <1>5, <1>6
<1>. QED BY <1>9, <1>10

LEMMA GrowGood ==
  ASSUME NEW n \in Nat \ {0}, NEW c, Good(c, n), NEW m \in Nat, NEW alloc \in BOOLEAN,
         NEW g, g = Grow(c, m, alloc)
  PROVE  \/ g.ctx = c
         \/ Good(g.ctx, PageAdjust(m)) /\ PageAdjust(m) > n /\ g.ctx.writeR = NoBlock
<1> DEFINE size == PageAdjust(m)
           b == Read(c, UsedSize(c)).bytes
           d == Read(c, UsedSize(c)).ctx
           memory == [i \in 0..(size - 1) |-> IF i < Len(b) THEN b[i + 1] ELSE Junk]
           e == [Clear(d) EXCEPT !.size = size, !.buffer = memory,
                                 !.blockA = [index |-> 0, size |-> Len(b)]]
<1>1. c \in Context(n) /\ c.size = n /\ Apart(c)
      /\ c.blockA.index \in Nat /\ c.blockA.size \in Nat
      /\ c.blockB.index \in Nat /\ c.blockB.size \in Nat
  BY DEF Good, Context, Block
<1>2. UsedSize(c) \in Nat /\ UsedSize(c) <= n
  BY <1>1 DEF Apart, EndOf, UsedSize
<1>3. size \in Nat
  BY PageAdjustGrows
<1>4. Good(d, n) /\ b \in Seq(Cell) /\ Len(b) <= UsedSize(c)
  BY <1>2, ReadGood
<1>5. CASE size <= n \/ ~alloc
  <2>1. g.ctx = c
    BY <1>1, <1>5 DEF Grow
  <2>. QED BY <2>1
<1>6. CASE ~(size <= n) /\ alloc
  <2>1. g.ctx = e
    BY <1>1, <1>6 DEF Grow, Moved
  <2>2. d \in Context(n)
    BY <1>4 DEF Good
  <2>. HIDE DEF b, d, size
  <2>3. Len(b) \in Nat /\ Len(b) <= n
    BY <1>2, <1>4, LenProperties
  <2>4. memory \in [0..(size - 1) -> Cell]
    <3>1. \A i \in 0..(size - 1) : i < Len(b) => b[i + 1] \in Cell
      BY <1>3, <1>4, <2>3, ElementOfSeq
    <3>. QED BY <3>1 DEF Cell
  <2>5. [index |-> 0, size |-> Len(b)] \in Block
    BY <2>3 DEF Block
  <2>. HIDE DEF memory
  <2>6. /\ e \in Context(size) /\ e.blockA = [index |-> 0, size |-> Len(b)]
        /\ e.blockB = NoBlock /\ e.writeR = NoBlock /\ e.size = size
    BY <2>2, <2>4, <2>5 DEF Clear, Context, NoBlock, Block
  <2>7. size > n
    BY <1>3, <1>6
  <2>. HIDE DEF e
  <2>8. Apart(e)
    BY <1>3, <2>3, <2>6, <2>7 DEF Apart, EndOf, NoBlock
  <2>. QED BY <2>1, <2>6, <2>7, <2>8 DEF Good, size
<1>. QED BY <1>5, <1>6

LEMMA ReadReserveGood ==
  ASSUME NEW n \in Nat \ {0}, NEW c, Good(c, n), NEW m \in Nat, NEW alloc \in BOOLEAN,
         NEW r, r = ReadReserve(c, m, alloc)
  PROVE  /\ \/ r.ctx = c
            \/ Good(r.ctx, PageAdjust(n + 1)) /\ r.ctx.writeR = NoBlock
         /\ r.bytes \in Seq(Cell)
<1> DEFINE g == Grow(c, c.size + 1, alloc).ctx
           k(d) == IF m > 0 /\ m < d.blockA.size THEN m ELSE d.blockA.size
<1>1. c.size = n
  BY DEF Good, Context
<1>2. g = c \/ (Good(g, PageAdjust(n + 1)) /\ g.writeR = NoBlock)
  BY <1>1, GrowGood
<1>3. \/ r.ctx = c /\ r.bytes = << >>
      \/ r.ctx = c /\ r.bytes = Bytes(c, c.blockA.index, k(c))
      \/ r.ctx = g /\ r.bytes = Bytes(g, g.blockA.index, k(g))
  BY DEF ReadReserve
<1>4. ASSUME NEW p \in Nat, NEW d, Good(d, p)
      PROVE  Bytes(d, d.blockA.index, k(d)) \in Seq(Cell)
  <2>1. d \in Context(p) /\ d.blockA \in Block /\ d.size = p /\ Apart(d)
    BY <1>4 DEF Good, Context
  <2>2. d.blockA.index \in Nat /\ k(d) \in Nat /\ d.blockA.index + k(d) <= p
    BY <2>1 DEF Apart, EndOf, Block
  <2>. HIDE DEF k
  <2>. QED BY <2>1, <2>2, BytesType
<1>5. PageAdjust(n + 1) \in Nat
  BY PageAdjustGrows
<1>. HIDE DEF g, k
<1>6. << >> \in Seq(Cell)
  OBVIOUS
<1>7. r.bytes \in Seq(Cell)
  BY <1>2, <1>3, <1>4, <1>5, <1>6
<1>. QED BY <1>2, <1>3, <1>7

-----------------------------------------------------------------------------
LEMMA WriteTryReserveGood ==
  ASSUME NEW n \in Nat, NEW c, Good(c, n), NEW m \in Nat, NEW r, r = WriteTryReserve(c, m)
  PROVE  /\ Good(r.ctx, n)
         /\ r.ctx.buffer = c.buffer
         /\ r.block \in BOOLEAN
         /\ r.reserved \in Nat
         /\ r.reserved <= m
         /\ r.block => Region(r.ctx) /\ r.ctx.writeR.size = r.reserved
         /\ ~r.block => r.ctx = c
<1> DEFINE free == FreeRegion(c)
           k == Least(m, free.size)
           w == [index |-> free.index, size |-> k]
           d == [c EXCEPT !.writeR = w]
<1>1. c \in Context(n) /\ c.size = n /\ Apart(c) /\ c.blockA \in Block /\ c.blockB \in Block
  BY DEF Good, Context
<1>2. /\ free \in Block
      /\ EndOf(free) <= n
      /\ \/ UsedSize(c) = 0
         \/ free.index = EndOf(c.blockA) /\ c.blockB.size = 0
         \/ c.blockA.size > 0 /\ free.index = EndOf(c.blockB) /\ EndOf(free) <= c.blockA.index
  BY <1>1 DEF FreeRegion, Apart, EndOf, UsedSize, Block
<1>. HIDE DEF free
<1>3. k \in Nat /\ k <= m /\ k <= free.size
  BY <1>2 DEF Least, Block
<1>4. \/ r = [ctx |-> c, block |-> FALSE, reserved |-> 0]
      \/ r = [ctx |-> d, block |-> TRUE, reserved |-> k]
  BY DEF WriteTryReserve, free
<1>. HIDE DEF k
<1>5. w \in Block /\ w.size = k
  BY <1>2, <1>3 DEF Block
<1>6. /\ d \in Context(n) /\ d.blockA = c.blockA /\ d.blockB = c.blockB
      /\ d.writeR = w /\ d.size = n /\ d.buffer = c.buffer
  <2>. HIDE DEF w
  <2>. QED BY <1>1, <1>5 DEF Context
<1>. HIDE DEF d
<1>7. Good(d, n) /\ Region(d)
  BY <1>1, <1>2, <1>3, <1>6 DEF Good, Apart, Region, EndOf, UsedSize, Block
<1>8. CASE r = [ctx |-> c, block |-> FALSE, reserved |-> 0]
  BY <1>8
<1>9. CASE r = [ctx |-> d, block |-> TRUE, reserved |-> k]
  <2>1. r.ctx = d /\ r.block = TRUE /\ r.reserved = k
    BY <1>9
  <2>. QED BY <1>3, <1>5, <1>6, <1>7, <2>1
<1>. QED BY <1>4, <1>8, <1>9

LEMMA FillGood ==
  ASSUME NEW n \in Nat, NEW c, Good(c, n), NEW k \in Nat, NEW data \in Seq(Byte),
         k <= Len(data), NEW e, e = Fill(c, data, k)
  PROVE  Good(e, n) /\ (Region(c) => Region(e)) /\ e.writeR = c.writeR
<1> DEFINE memory == [i \in DOMAIN c.buffer |->
                        IF i \in c.writeR.index .. (c.writeR.index + k - 1)
                        THEN data[i - c.writeR.index + 1] ELSE c.buffer[i]]
<1>1. c \in Context(n) /\ Apart(c) /\ c.writeR \in Block /\ c.size = n
      /\ c.buffer \in [0..(n - 1) -> Cell]
  BY DEF Good, Context
<1>2. memory \in [0..(n - 1) -> Cell]
  <2> DEFINE at == c.writeR.index
  <2>1. at \in Nat
    BY <1>1 DEF Block
  <2>. HIDE DEF at
  <2>2. \A i \in 0..(n - 1) : i \in at .. (at + k - 1) => data[i - at + 1] \in Cell
    <3>1. SUFFICES ASSUME NEW i \in 0..(n - 1), i \in at .. (at + k - 1)
                   PROVE  data[i - at + 1] \in Cell
      OBVIOUS
    <3>2. Len(data) \in Nat
      BY LenProperties
    <3>3. i - at + 1 \in 1..Len(data)
      BY <2>1, <3>1, <3>2
    <3>4. data[i - at + 1] \in Byte
      BY <3>3, ElementOfSeq
    <3>. QED BY <3>4 DEF Cell
  <2>. QED BY <1>1, <2>2 DEF at
<1>3. e = [c EXCEPT !.buffer = memory]
  BY DEF Fill
<1>. HIDE DEF memory
<1>4. /\ e \in Context(n) /\ e.blockA = c.blockA /\ e.blockB = c.blockB
      /\ e.writeR = c.writeR /\ e.size = c.size
  BY <1>1, <1>2, <1>3 DEF Context
<1>. QED BY <1>1, <1>4 DEF Good, Apart, Region, UsedSize

LEMMA WriteCommitGood ==
  ASSUME NEW n \in Nat, NEW c, Good(c, n), Region(c), NEW k \in Nat,
         NEW d, d = WriteCommit(c, k)
  PROVE  Good(d, n)
<1> DEFINE m == Least(k, c.writeR.size)
           A0 == [index |-> c.writeR.index, size |-> m]
           A1 == [index |-> c.blockA.index, size |-> c.blockA.size + m]
           B1 == [index |-> c.blockB.index, size |-> c.blockB.size + m]
           e == IF k = 0 THEN c
                ELSE IF UsedSize(c) = 0 THEN [c EXCEPT !.blockA = A0]
                ELSE IF c.writeR.index = EndOf(c.blockA) THEN [c EXCEPT !.blockA = A1]
                ELSE [c EXCEPT !.blockB = B1]
           f == [e EXCEPT !.writeR = NoBlock]
<1>1. /\ c \in Context(n) /\ c.size = n /\ Apart(c)
      /\ c.blockA \in Block /\ c.blockB \in Block /\ c.writeR \in Block /\ NoBlock \in Block
  BY DEF Good, Context, Block, NoBlock
<1>2. m \in Nat /\ m <= c.writeR.size
  BY <1>1 DEF Least, Block
<1>3. A0 \in Block /\ A1 \in Block /\ B1 \in Block
  <2>. HIDE DEF m
  <2>. QED BY <1>1, <1>2 DEF Block
<1>4. d = f \/ d = SetSignaledState(f, TRUE)
  BY DEF WriteCommit
<1>5. /\ e \in Context(n) /\ e.size = n
      /\ \/ e.blockA = c.blockA /\ e.blockB = c.blockB
         \/ UsedSize(c) = 0 /\ e.blockA = A0 /\ e.blockB = c.blockB
         \/ UsedSize(c) # 0 /\ c.writeR.index = EndOf(c.blockA)
            /\ e.blockA = A1 /\ e.blockB = c.blockB
         \/ UsedSize(c) # 0 /\ c.writeR.index # EndOf(c.blockA)
            /\ e.blockA = c.blockA /\ e.blockB = B1
  <2>. HIDE DEF A0, A1, B1
  <2>. QED BY <1>1, <1>3 DEF Context
<1>6. Apart(e)
  <2>. HIDE DEF e, m
  <2>1. CASE e.blockA = c.blockA /\ e.blockB = c.blockB
    BY <1>1, <1>5, <2>1 DEF Apart
  <2>2. CASE UsedSize(c) = 0 /\ e.blockA = A0 /\ e.blockB = c.blockB
    BY <1>1, <1>2, <1>5, <2>2 DEF Apart, Region, UsedSize, EndOf, Block
  <2>3. CASE UsedSize(c) # 0 /\ c.writeR.index = EndOf(c.blockA)
             /\ e.blockA = A1 /\ e.blockB = c.blockB
    BY <1>1, <1>2, <1>5, <2>3 DEF Apart, Region, UsedSize, EndOf, Block
  <2>4. CASE UsedSize(c) # 0 /\ c.writeR.index # EndOf(c.blockA)
             /\ e.blockA = c.blockA /\ e.blockB = B1
    BY <1>1, <1>2, <1>5, <2>4 DEF Apart, Region, UsedSize, EndOf, Block
  <2>. QED BY <1>5, <2>1, <2>2, <2>3, <2>4
<1>. HIDE DEF e
<1>7. f \in Context(n) /\ f.size = n /\ f.blockA = e.blockA /\ f.blockB = e.blockB
  BY <1>1, <1>5 DEF Context
<1>. HIDE DEF f
<1>8. d \in Context(n) /\ d.size = n /\ d.blockA = e.blockA /\ d.blockB = e.blockB
  BY <1>4, <1>7 DEF Context, SetSignaledState
<1>. QED BY <1>5, <1>6, <1>8 DEF Good, Apart

LEMMA WriteRoundGood ==
  ASSUME NEW n \in Nat, NEW c, Good(c, n), NEW data \in Seq(Byte), NEW r, r = WriteRound(c, data)
  PROVE  Good(r.ctx, n) /\ r.done \in Nat /\ r.done <= Len(data)
<1> DEFINE t == WriteTryReserve(c, Len(data))
           f == Fill(t.ctx, data, t.reserved)
<1>1. Len(data) \in Nat
  BY LenProperties
<1>2. /\ Good(t.ctx, n)
      /\ t.block \in BOOLEAN
      /\ t.reserved \in Nat
      /\ t.reserved <= Len(data)
      /\ t.block => Region(t.ctx)
  BY <1>1, WriteTryReserveGood
<1>3. CASE t.block
  <2>1. r.ctx = WriteCommit(f, t.reserved) /\ r.done = t.reserved
    BY <1>3 DEF WriteRound
  <2>2. Good(f, n) /\ Region(f)
    <3>. HIDE DEF t
    <3>. QED BY <1>2, <1>3, FillGood
  <2>3. Good(WriteCommit(f, t.reserved), n)
    <3>1. t.reserved \in Nat
      BY <1>2
    <3>. HIDE DEF f, t
    <3>. QED BY <2>2, <3>1, WriteCommitGood
  <2>. QED BY <1>2, <2>1, <2>3
<1>4. CASE ~t.block
  <2>1. r.ctx = c /\ r.done = 0
    BY <1>4 DEF WriteRound
  <2>. QED BY <1>1, <2>1
<1>. QED BY <1>2, <1>3, <1>4

LEMMA WriteReserveGood ==
  ASSUME NEW n \in Nat \ {0}, NEW c, Good(c, n), NEW m \in Nat, NEW alloc \in BOOLEAN,
         NEW r, r = WriteReserve(c, m, alloc)
  PROVE  Good(r.ctx, n) \/ (Good(r.ctx, PageAdjust(m)) /\ PageAdjust(m) > n)
<1> DEFINE d == WriteTryReserve(c, m).ctx
           g == Grow(d, m, alloc).ctx
<1>1. Good(d, n)
  BY WriteTryReserveGood
<1>2. g = d \/ (Good(g, PageAdjust(m)) /\ PageAdjust(m) > n)
  <2>. HIDE DEF d
  <2>. QED BY <1>1, GrowGood
<1>3. r.ctx = d \/ r.ctx = WriteTryReserve(g, m).ctx
  BY DEF WriteReserve
<1>4. ASSUME NEW p \in Nat, Good(g, p)
      PROVE  Good(WriteTryReserve(g, m).ctx, p)
  <2>. HIDE DEF g
  <2>. QED BY <1>4, WriteTryReserveGood
<1>5. PageAdjust(m) \in Nat
  BY PageAdjustGrows
<1>. HIDE DEF d, g
<1>. QED BY <1>1, <1>2, <1>3, <1>4, <1>5

LEMMA WriteGood ==
  ASSUME NEW n \in Nat \ {0}, NEW c, Good(c, n), NEW data \in Seq(Byte), NEW alloc \in BOOLEAN,
         NEW w, w = Write(c, data, alloc)
  PROVE  /\ Good(w.ctx, n) \/ (Good(w.ctx, PageAdjust(Len(data))) /\ PageAdjust(Len(data)) > n)
         /\ w.status \in Int
<1> DEFINE page == PageAdjust(Len(data))
           d == WriteReserve(c, Len(data), alloc).ctx
           d1 == WriteRound(d, data).ctx
           k1 == WriteRound(d, data).done
           rest == SubSeq(data, k1 + 1, Len(data))
           d2 == WriteRound(d1, rest).ctx
           k2 == WriteRound(d1, rest).done
<1>1. Len(data) \in Nat /\ page \in Nat
  BY LenProperties, PageAdjustGrows
<1>2. PICK p \in Nat : Good(d, p) /\ (p = n \/ (p = page /\ page > n))
  BY <1>1, WriteReserveGood
<1>3. Good(d1, p) /\ k1 \in Nat /\ k1 <= Len(data)
  <2>. HIDE DEF d
  <2>. QED BY <1>2, WriteRoundGood
<1>4. rest \in Seq(Byte)
  <2>. HIDE DEF k1
  <2>1. k1 + 1 \in 1..(Len(data) + 1)
    BY <1>1, <1>3
  <2>. QED BY <1>1, <2>1, SubSeqProperties
<1>5. Good(d2, p) /\ k2 \in Nat
  <2>. HIDE DEF d1, rest
  <2>. QED BY <1>3, <1>4, WriteRoundGood
<1>6. \/ w.ctx = d /\ w.status = -1
      \/ w.ctx = d1 /\ w.status = k1
      \/ w.ctx = d2 /\ w.status = k1 + k2
  BY DEF Write
<1>. HIDE DEF d, d1, d2, k1, k2
<1>7. w.status \in Int
  BY <1>3, <1>5, <1>6
<1>8. Good(w.ctx, p)
  BY <1>2, <1>3, <1>5, <1>6
<1>. QED BY <1>2, <1>7, <1>8

-----------------------------------------------------------------------------
(* The unread bytes *)

\* The unread byte j, also where Unread would have to be known a sequence.
At(c, j) ==
  IF j <= c.blockA.size THEN c.buffer[c.blockA.index + j - 1]
                        ELSE c.buffer[c.blockB.index + j - c.blockA.size - 1]

Signals(c) == UsedSize(c) > 0 => c.signaled

Dropped(c, e, k) ==
  /\ UsedSize(e) = UsedSize(c) - k
  /\ \A j \in 1..UsedSize(e) : At(e, j) = At(c, j + k)

Added(c, e, s, k) ==
  /\ UsedSize(e) = UsedSize(c) + k
  /\ \A j \in 1..UsedSize(c) : At(e, j) = At(c, j)
  /\ \A j \in 1..k : At(e, UsedSize(c) + j) = s[j]
  /\ e.blockA.size >= c.blockA.size

Same(c, e) == Added(c, e, << >>, 0)

\* What a good context says of its fields.
Fields(c, n) ==
  /\ c.size = n /\ c.buffer \in [0..(n - 1) -> Cell] /\ c.signaled \in BOOLEAN
  /\ c.blockA \in Block /\ c.blockA.index \in Nat /\ c.blockA.size \in Nat
  /\ c.blockB \in Block /\ c.blockB.index = 0 /\ c.blockB.size \in Nat
  /\ c.writeR \in Block /\ c.writeR.index \in Nat /\ c.writeR.size \in Nat
  /\ c.blockA.index + c.blockA.size <= n
  /\ c.blockB.size > 0 => c.blockA.size > 0 /\ c.blockB.size <= c.blockA.index
  /\ UsedSize(c) = c.blockA.size + c.blockB.size /\ UsedSize(c) \in Nat /\ UsedSize(c) <= n

LEMMA GoodFields ==
  ASSUME NEW n \in Nat, NEW c, Good(c, n)
  PROVE  Fields(c, n)
<1>1. c \in Context(n) /\ Apart(c)
  BY DEF Good
<1>2. /\ c.size = n /\ c.buffer \in [0..(n - 1) -> Cell] /\ c.signaled \in BOOLEAN
      /\ c.blockA \in Block /\ c.blockB \in Block /\ c.writeR \in Block
  BY <1>1 DEF Context
<1>. QED BY <1>1, <1>2 DEF Fields, Block, Apart, EndOf, UsedSize

LEMMA UnreadIsAt ==
  ASSUME NEW n \in Nat, NEW c, Good(c, n)
  PROVE  /\ Unread(c) \in Seq(Cell) /\ Len(Unread(c)) = UsedSize(c)
         /\ \A j \in 1..UsedSize(c) : Unread(c)[j] = At(c, j) /\ At(c, j) \in Cell
<1>0. Fields(c, n)
  BY GoodFields
<1>1. ASSUME NEW j \in 1..UsedSize(c) PROVE At(c, j) \in Cell
  <2>1. j \in Nat /\ j > 0 /\ j <= c.blockA.size + c.blockB.size
    BY <1>0 DEF Fields
  <2>2. IF j <= c.blockA.size THEN c.blockA.index + j - 1 \in 0..(n - 1)
                              ELSE c.blockB.index + j - c.blockA.size - 1 \in 0..(n - 1)
    <3>1. /\ c.blockA.index \in Nat /\ c.blockA.size \in Nat /\ c.blockA.index + c.blockA.size <= n
          /\ c.blockB.index = 0 /\ c.blockB.size \in Nat
          /\ c.blockB.size > 0 => c.blockB.size <= c.blockA.index
      BY <1>0 DEF Fields
    <3>2. CASE j <= c.blockA.size
      BY <2>1, <3>1, <3>2
    <3>3. CASE ~(j <= c.blockA.size)
      <4>1. c.blockB.size > 0 /\ c.blockB.size <= n
        BY <2>1, <3>1, <3>3
      <4>. QED BY <2>1, <3>1, <3>3, <4>1
    <3>. QED BY <3>2, <3>3
  <2>3. \A i \in 0..(n - 1) : c.buffer[i] \in Cell
    BY <1>0 DEF Fields
  <2>. QED BY <2>2, <2>3 DEF At
<1>2. Unread(c) = [j \in 1..UsedSize(c) |-> At(c, j)]
  BY DEF Unread, At
<1>3. UsedSize(c) \in Nat
  BY <1>0 DEF Fields
<1>. QED BY <1>1, <1>2, <1>3

LEMMA SameIsReflexive == ASSUME NEW n \in Nat, NEW c, Good(c, n) PROVE Same(c, c)
BY GoodFields DEF Same, Added, Fields

-----------------------------------------------------------------------------
(* Reading *)

LEMMA ReadCommitDrops ==
  ASSUME NEW n \in Nat, NEW c, Good(c, n), NEW k \in Nat, k <= c.blockA.size,
         NEW e, e = ReadCommit(c, k)
  PROVE  Dropped(c, e, k) /\ (c.signaled => e.signaled) /\ e.buffer = c.buffer /\ e.writeR = c.writeR
<1>0. Fields(c, n)
  BY GoodFields
<1> DEFINE part == [index |-> c.blockA.index + k, size |-> c.blockA.size - k]
<1>1. c \in Context(n)
  BY DEF Good
<1>2. PICK d : /\ d = IF k >= c.blockA.size
                      THEN [c EXCEPT !.blockA = c.blockB, !.blockB = NoBlock]
                      ELSE [c EXCEPT !.blockA = part]
               /\ e = d \/ e = SetSignaledState(d, FALSE)
  BY DEF ReadCommit
<1>3. d.buffer = c.buffer /\ d.writeR = c.writeR /\ d.signaled = c.signaled
      /\ d.blockA = (IF k >= c.blockA.size THEN c.blockB ELSE part)
      /\ d.blockB = (IF k >= c.blockA.size THEN NoBlock ELSE c.blockB)
  BY <1>1, <1>2 DEF Context
<1>4. /\ e.buffer = c.buffer /\ e.writeR = c.writeR /\ (e.signaled = c.signaled \/ e.signaled = TRUE)
      /\ e.blockA = d.blockA /\ e.blockB = d.blockB
  <2>1. CASE e = d
    BY <1>3, <2>1
  <2>2. CASE e = SetSignaledState(d, FALSE)
    <3>1. d \in Context(n)
      <4>1. NoBlock \in Block /\ c.blockB \in Block /\ (~(k >= c.blockA.size) => part \in Block)
        BY <1>0, SMTT(60) DEF Block, NoBlock, Fields
      <4>. HIDE DEF part
      <4>. QED BY <1>1, <1>2, <4>1 DEF Context
    <3>. QED BY <1>3, <2>2, <3>1 DEF SetSignaledState, Context
  <2>. QED BY <1>2, <2>1, <2>2
<1>. HIDE DEF part
<1>5. CASE k >= c.blockA.size
  <2>1. k = c.blockA.size /\ e.blockA = c.blockB /\ e.blockB = NoBlock
    BY <1>3, <1>4, <1>5, <1>0 DEF Fields
  <2>2. UsedSize(e) = c.blockB.size /\ e.blockB.index = 0
    BY <2>1, <1>0 DEF UsedSize, NoBlock, Fields
  <2>3. Dropped(c, e, k)
    <3>1. ASSUME NEW j \in 1..UsedSize(e) PROVE At(e, j) = At(c, j + k)
      <4>1. c.blockA.size \in Nat /\ c.blockB.index = 0 /\ c.blockB.size \in Nat /\ j \in Nat
            /\ j > 0 /\ j <= c.blockB.size /\ e.blockA.size = c.blockB.size /\ e.blockA.index = 0
        BY <2>1, <2>2, <1>0 DEF Fields
      <4>2. /\ j <= e.blockA.size /\ ~(j + k <= c.blockA.size)
            /\ e.blockA.index + j - 1 = c.blockB.index + (j + k) - c.blockA.size - 1
        BY <2>1, <4>1
      <4>. QED BY <1>4, <4>2 DEF At
    <3>. QED BY <2>1, <2>2, <3>1, <1>0 DEF Dropped, Fields
  <2>4. c.signaled => e.signaled
    BY <1>4
  <2>. QED BY <1>4, <2>3, <2>4
<1>6. CASE ~(k >= c.blockA.size)
  <2>1. e.blockA.index = c.blockA.index + k /\ e.blockA.size = c.blockA.size - k /\ e.blockB = c.blockB
    BY <1>3, <1>4, <1>6 DEF part
  <2>2. UsedSize(e) = UsedSize(c) - k
    BY <2>1, <1>0 DEF UsedSize, Fields
  <2>3. Dropped(c, e, k)
    <3>1. ASSUME NEW j \in 1..UsedSize(e) PROVE At(e, j) = At(c, j + k)
      <4>1. j \in Nat /\ k < c.blockA.size /\ c.blockA.size \in Nat /\ c.blockA.index \in Nat
            /\ c.blockB.index = 0
        BY <1>0, <1>6, <2>2 DEF Fields
      <4>2. CASE j <= e.blockA.size
        <5>1. j + k <= c.blockA.size /\ e.blockA.index + j - 1 = c.blockA.index + (j + k) - 1
          BY <2>1, <4>1, <4>2
        <5>. QED BY <1>4, <4>2, <5>1 DEF At
      <4>3. CASE ~(j <= e.blockA.size)
        <5>1. ~(j + k <= c.blockA.size)
              /\ e.blockB.index + j - e.blockA.size - 1 = c.blockB.index + (j + k) - c.blockA.size - 1
          BY <2>1, <4>1, <4>3
        <5>. QED BY <1>4, <4>3, <5>1 DEF At
      <4>. QED BY <4>2, <4>3
    <3>. QED BY <2>2, <3>1 DEF Dropped
  <2>4. c.signaled => e.signaled
    BY <1>4
  <2>. QED BY <1>4, <2>3, <2>4
<1>. QED BY <1>5, <1>6

\* What a read returns: the first k of what was unread.
Got(c, bytes, k) ==
  /\ bytes \in Seq(Cell) /\ Len(bytes) = k
  /\ \A j \in 1..k : bytes[j] = At(c, j)

LEMMA ReadRoundDrops ==
  ASSUME NEW n \in Nat, NEW c, Good(c, n), NEW m \in Nat, NEW r, r = ReadRound(c, m),
         NEW k, k = Least(m, c.blockA.size)
  PROVE  /\ Good(r.ctx, n) /\ Dropped(c, r.ctx, k) /\ Got(c, r.bytes, k)
         /\ k = c.blockA.size => r.ctx.blockA.size = c.blockB.size /\ r.ctx.blockB.size = 0
         /\ c.signaled => r.ctx.signaled
         /\ r.ctx.writeR = c.writeR
<1>0. Fields(c, n)
  BY GoodFields
<1>1. k \in Nat /\ k <= c.blockA.size
  BY <1>0 DEF Least, Fields
<1>2. Good(r.ctx, n)
  BY ReadRoundGood
<1>3. CASE c.blockA.size = 0
  <2>1. r.ctx = c /\ r.bytes = << >>
    BY <1>3 DEF ReadRound
  <2>2. k = 0 /\ c.blockB.size = 0 /\ UsedSize(c) = 0
    BY <1>1, <1>3, <1>0 DEF Fields
  <2>. QED BY <1>2, <1>3, <2>1, <2>2, <1>0 DEF Dropped, Got, Fields
<1>4. CASE c.blockA.size # 0
  <2>1. r.ctx = ReadCommit(c, k) /\ r.bytes = Bytes(c, c.blockA.index, k)
    BY <1>4 DEF ReadRound
  <2>2. /\ Dropped(c, r.ctx, k) /\ (c.signaled => r.ctx.signaled) /\ r.ctx.writeR = c.writeR
    BY <1>1, <2>1, ReadCommitDrops
  <2>3. Got(c, r.bytes, k)
    <3>1. c \in Context(n) /\ c.blockA.index \in Nat /\ c.blockA.index + k <= n
      BY <1>1, <1>0 DEF Good, Fields
    <3> DEFINE i == c.blockA.index
               b == Bytes(c, i, k)
    <3>2. /\ b \in Seq(Cell) /\ Len(b) = k
          /\ \A j \in 1..k : b[j] = c.buffer[i + j - 1]
      <4>1. i \in Nat /\ i + k <= n
        BY <3>1
      <4>. HIDE DEF i
      <4>2. b \in Seq(Cell) /\ Len(b) = k
        BY <1>1, <3>1, <4>1, BytesType
      <4>3. \A j \in 1..k : b[j] = c.buffer[i + j - 1]
        BY DEF Bytes
      <4>. QED BY <4>2, <4>3
    <3>3. r.bytes = b
      BY <2>1
    <3>. HIDE DEF b
    <3>4. ASSUME NEW j \in 1..k PROVE b[j] = At(c, j)
      <4>1. j <= c.blockA.size
        BY <1>0, <1>1 DEF Fields
      <4>. QED BY <3>2, <4>1 DEF At
    <3>. QED BY <3>2, <3>3, <3>4 DEF Got
  <2>4. ASSUME k = c.blockA.size PROVE r.ctx.blockA.size = c.blockB.size /\ r.ctx.blockB.size = 0
    <3> DEFINE d == [c EXCEPT !.blockA = c.blockB, !.blockB = NoBlock]
    <3>1. r.ctx = d \/ r.ctx = SetSignaledState(d, FALSE)
      BY <2>1, <2>4, <1>1, <1>0 DEF ReadCommit, Fields
    <3>2. c \in Context(n) /\ c.blockB \in Block /\ NoBlock \in Block
      BY <1>0 DEF Good, NoBlock, Block, Fields
    <3>3. d \in Context(n) /\ d.blockA = c.blockB /\ d.blockB = NoBlock
      BY <3>2 DEF Context
    <3>. HIDE DEF d
    <3>4. r.ctx.blockA = c.blockB /\ r.ctx.blockB = NoBlock
      BY <3>1, <3>3 DEF SetSignaledState, Context
    <3>. QED BY <3>4 DEF NoBlock
  <2>. QED BY <1>2, <2>2, <2>3, <2>4
<1>. QED BY <1>3, <1>4

LEMMA ReadDrops ==
  ASSUME NEW n \in Nat, NEW c, Good(c, n), NEW m \in Nat, NEW r, r = Read(c, m),
         NEW k, k = Least(m, UsedSize(c))
  PROVE  /\ Good(r.ctx, n) /\ Dropped(c, r.ctx, k) /\ Got(c, r.bytes, k)
         /\ c.signaled => r.ctx.signaled
         /\ r.ctx.writeR = c.writeR /\ r.ctx.buffer = c.buffer
<1>0. Fields(c, n)
  BY GoodFields
<1> DEFINE d1 == ReadRound(c, m).ctx
           b1 == ReadRound(c, m).bytes
           k1 == Least(m, c.blockA.size)
           left == m - k1
           d2 == ReadRound(d1, left).ctx
           b2 == ReadRound(d1, left).bytes
           k2 == Least(left, d1.blockA.size)
<1>1. /\ Good(d1, n) /\ Dropped(c, d1, k1) /\ Got(c, b1, k1)
      /\ k1 = c.blockA.size => d1.blockA.size = c.blockB.size /\ d1.blockB.size = 0
      /\ c.signaled => d1.signaled
      /\ d1.writeR = c.writeR
  BY ReadRoundDrops
<1>2. k1 \in Nat /\ k1 <= m /\ k1 <= c.blockA.size /\ (k1 < m => k1 = c.blockA.size) /\ left \in Nat
  BY <1>0 DEF Least, Fields
<1>9. Fields(d1, n) /\ left \in Nat
  BY <1>1, <1>2, GoodFields
<1>3. /\ Good(d2, n) /\ Dropped(d1, d2, k2) /\ Got(d1, b2, k2)
      /\ d1.signaled => d2.signaled
      /\ d2.writeR = d1.writeR
  <2>. HIDE DEF d1, left
  <2>. QED BY <1>1, <1>9, ReadRoundDrops
<1>4. Len(b1) = k1
  BY <1>1 DEF Got
<1>5. Good(r.ctx, n) /\ r.ctx.buffer = c.buffer
  BY ReadGood
<1>6. CASE k1 = m
  <2>1. r.ctx = d1 /\ r.bytes = b1
    BY <1>4, <1>6 DEF Read
  <2>2. k = k1
    BY <1>2, <1>6, <1>0 DEF Least, Fields
  <2>. QED BY <1>1, <1>5, <2>1, <2>2
<1>7. CASE k1 # m
  <2>1. r = [ctx |-> d2, bytes |-> b1 \o b2]
    BY <1>4, <1>7 DEF Read
  <2>. HIDE DEF d2, b2, b1
  <2>2. r.ctx = d2 /\ r.bytes = b1 \o b2
    BY <2>1
  <2>. HIDE DEF d1, k1
  <2>3. k1 = c.blockA.size /\ d1.blockA.size = c.blockB.size /\ UsedSize(d1) = c.blockB.size
    <3>1. k1 = c.blockA.size
      <4>1. k1 \in Nat /\ k1 <= m /\ (k1 < m => k1 = c.blockA.size)
        BY <1>2
      <4>. QED BY <1>7, <4>1
    <3>2. d1.blockA.size = c.blockB.size /\ d1.blockB.size = 0
      BY <1>1, <3>1
    <3>3. UsedSize(d1) = d1.blockA.size + d1.blockB.size /\ c.blockB.size \in Nat
      BY <1>0, <1>9 DEF Fields
    <3>. QED BY <3>1, <3>2, <3>3
  <2>4. k2 \in Nat /\ k2 <= c.blockB.size /\ k = k1 + k2
    <3>1. UsedSize(c) = k1 + c.blockB.size /\ c.blockB.size \in Nat /\ k1 \in Nat /\ k1 <= m
      BY <1>0, <1>2, <2>3 DEF Fields
    <3>2. left = m - k1 /\ k2 = Least(left, c.blockB.size) /\ k = Least(m, k1 + c.blockB.size)
      BY <2>3, <3>1
    <3>. HIDE DEF left, k2
    <3>. QED BY <3>1, <3>2 DEF Least
  <2>. HIDE DEF k2, left
  <2>5. Dropped(c, d2, k)
    <3>1. UsedSize(d2) = UsedSize(c) - k /\ UsedSize(d2) = UsedSize(d1) - k2
      <4>1. UsedSize(d1) = UsedSize(c) - k1 /\ UsedSize(d2) = UsedSize(d1) - k2
        BY <1>1, <1>3 DEF Dropped
      <4>2. UsedSize(d1) \in Nat /\ UsedSize(c) \in Nat /\ k1 \in Nat /\ k2 \in Nat
        BY <1>0, <1>2, <1>9, <2>4 DEF Fields
      <4>. QED BY <2>4, <4>1, <4>2
    <3>2. ASSUME NEW j \in 1..UsedSize(d2) PROVE At(d2, j) = At(c, j + k)
      <4>1. j + k2 \in 1..UsedSize(d1) /\ (j + k2) + k1 = j + k
        BY <1>2, <1>9, <2>4, <3>1 DEF Fields
      <4>. QED BY <1>1, <1>3, <4>1 DEF Dropped
    <3>. QED BY <3>1, <3>2 DEF Dropped
  <2>6. b1 \in Seq(Cell) /\ b2 \in Seq(Cell) /\ Len(b1) = k1 /\ Len(b2) = k2
    BY <1>1, <1>3 DEF Got
  <2>7. /\ b1 \o b2 \in Seq(Cell) /\ Len(b1 \o b2) = k
        /\ \A i \in 1..k : (b1 \o b2)[i] = IF i <= k1 THEN b1[i] ELSE b2[i - k1]
    BY <2>4, <2>6, ConcatProperties
  <2>8. Got(c, b1 \o b2, k)
    <3>1. ASSUME NEW i \in 1..k PROVE (b1 \o b2)[i] = At(c, i)
      <4>1. CASE i <= k1
        BY <1>1, <1>2, <2>7, <4>1 DEF Got
      <4>2. CASE ~(i <= k1)
        <5>1. i \in Nat /\ i - k1 \in 1..k2
          BY <1>2, <2>4, <4>2
        <5>2. i - k1 \in 1..UsedSize(d1) /\ (i - k1) + k1 = i
          <6>1. k1 \in Nat /\ k2 \in Nat /\ k2 <= UsedSize(d1) /\ UsedSize(d1) \in Nat
            BY <1>2, <1>9, <2>3, <2>4 DEF Fields
          <6>. QED BY <5>1, <6>1
        <5>3. b2[i - k1] = At(d1, i - k1)
          BY <1>3, <5>1 DEF Got
        <5>4. At(d1, i - k1) = At(c, i)
          BY <1>1, <5>2 DEF Dropped
        <5>. QED BY <2>7, <4>2, <5>3, <5>4
      <4>. QED BY <4>1, <4>2
    <3>. QED BY <2>7, <3>1 DEF Got
  <2>. QED BY <1>1, <1>3, <1>5, <2>2, <2>5, <2>8
<1>. QED BY <1>6, <1>7

LEMMA GrowSame ==
  ASSUME NEW n \in Nat \ {0}, NEW c, Good(c, n), NEW m \in Nat, NEW alloc \in BOOLEAN,
         NEW g, g = Grow(c, m, alloc)
  PROVE  /\ Same(c, g.ctx) /\ (Signals(c) => Signals(g.ctx))
         /\ g.ctx = c \/ g.ctx.writeR = NoBlock
<1> DEFINE size == PageAdjust(m)
           U == UsedSize(c)
           r == Read(c, U)
           memory == [i \in 0..(size - 1) |-> IF i < Len(r.bytes) THEN r.bytes[i + 1] ELSE Junk]
           block == [index |-> 0, size |-> Len(r.bytes)]
           e == [Clear(r.ctx) EXCEPT !.size = size, !.buffer = memory, !.blockA = block]
<1>0. Fields(c, n) /\ size \in Nat /\ U \in Nat
  BY GoodFields, PageAdjustGrows DEF Fields
<1>1. CASE size <= n \/ ~alloc
  <2>1. g.ctx = c
    BY <1>0, <1>1 DEF Grow, Fields
  <2>. QED BY <2>1, SameIsReflexive
<1>2. CASE ~(size <= n) /\ alloc
  <2>1. g.ctx = e
    BY <1>0, <1>2 DEF Grow, Moved, Fields
  <2>2. U = Least(U, U)
    BY DEF Least
  <2>3. Good(r.ctx, n) /\ Got(c, r.bytes, U) /\ (c.signaled => r.ctx.signaled)
    <3>. HIDE DEF U
    <3>. QED BY <1>0, <2>2, ReadDrops DEF U
  <2>4. r.bytes \in Seq(Cell) /\ Len(r.bytes) = U /\ \A j \in 1..U : r.bytes[j] = At(c, j)
    BY <2>3 DEF Got
  <2>5. r.ctx \in Context(n)
    BY <2>3 DEF Good
  <2>. HIDE DEF r, U, memory, block
  <2>6. /\ e.buffer = memory /\ e.blockA = block /\ e.blockB = NoBlock /\ e.writeR = NoBlock
        /\ e.signaled = r.ctx.signaled
    BY <2>5 DEF Clear, Context
  <2>. HIDE DEF e, size
  <2>7. e.blockA.index = 0 /\ e.blockA.size = U /\ UsedSize(e) = U
    BY <1>0, <2>4, <2>6 DEF UsedSize, block, NoBlock
  <2>8. \A j \in 1..U : At(e, j) = At(c, j)
    <3>1. ASSUME NEW j \in 1..U PROVE At(e, j) = At(c, j)
      <4>1. At(e, j) = memory[j - 1]
        BY <1>0, <2>6, <2>7 DEF At
      <4>2. j - 1 \in 0..(size - 1) /\ j - 1 < Len(r.bytes) /\ (j - 1) + 1 = j
        BY <1>0, <1>2, <2>4 DEF Fields, U
      <4>3. memory[j - 1] = r.bytes[j]
        BY <4>2 DEF memory
      <4>. QED BY <2>4, <4>1, <4>3
    <3>. QED BY <3>1
  <2>9. Same(c, e)
    BY <1>0, <2>7, <2>8 DEF Same, Added, Fields, U
  <2>10. Signals(c) => Signals(e)
    BY <2>3, <2>6, <2>7 DEF Signals, U
  <2>. QED BY <2>1, <2>6, <2>9, <2>10
<1>. QED BY <1>1, <1>2

\* A peek gives bytes of block A, at most the whole of it.
Peeked(c, bytes) == Len(bytes) <= c.blockA.size /\ \A j \in 1..Len(bytes) : bytes[j] = At(c, j)

LEMMA ReadReserveSame ==
  ASSUME NEW n \in Nat \ {0}, NEW c, Good(c, n), NEW m \in Nat, NEW alloc \in BOOLEAN,
         NEW r, r = ReadReserve(c, m, alloc)
  PROVE  /\ Same(c, r.ctx) /\ (Signals(c) => Signals(r.ctx))
         /\ r.ctx = c \/ r.ctx.writeR = NoBlock
         /\ r.block => Peeked(r.ctx, r.bytes) /\ r.bytes \in Seq(Cell)
<1> DEFINE g == Grow(c, c.size + 1, alloc).ctx
           k(d) == IF m > 0 /\ m < d.blockA.size THEN m ELSE d.blockA.size
<1>0. Fields(c, n)
  BY GoodFields
<1>1. /\ Same(c, g) /\ (Signals(c) => Signals(g)) /\ (g = c \/ g.writeR = NoBlock)
      /\ g = c \/ Good(g, PageAdjust(n + 1))
  BY <1>0, GrowSame, GrowGood DEF Fields
<1>2. \/ r.ctx = c /\ r.block = FALSE
      \/ r.ctx = c /\ r.bytes = Bytes(c, c.blockA.index, k(c))
      \/ r.ctx = g /\ r.bytes = Bytes(g, g.blockA.index, k(g))
  BY DEF ReadReserve
<1>3. ASSUME NEW p \in Nat, NEW d, Good(d, p)
      PROVE  LET b == Bytes(d, d.blockA.index, k(d)) IN Peeked(d, b) /\ b \in Seq(Cell)
  <2> DEFINE b == Bytes(d, d.blockA.index, k(d))
  <2>1. Fields(d, p)
    BY <1>3, GoodFields
  <2>2. d \in Context(p) /\ d.blockA.index \in Nat /\ k(d) \in Nat /\ k(d) <= d.blockA.size
        /\ d.blockA.index + k(d) <= p
    BY <1>3, <2>1 DEF Fields, Good
  <2>. HIDE DEF k
  <2>3. b \in Seq(Cell) /\ Len(b) = k(d)
    BY <2>2, BytesType
  <2>4. \A j \in 1..k(d) : b[j] = d.buffer[d.blockA.index + j - 1]
    BY DEF Bytes
  <2>. HIDE DEF b
  <2>5. \A j \in 1..k(d) : b[j] = At(d, j)
    BY <2>1, <2>2, <2>4 DEF At, Fields
  <2>. QED BY <2>2, <2>3, <2>5 DEF Peeked, b
<1>4. Same(c, c) /\ PageAdjust(n + 1) \in Nat
  BY SameIsReflexive, PageAdjustGrows
<1>. HIDE DEF g, k
<1>. QED BY <1>1, <1>2, <1>3, <1>4

-----------------------------------------------------------------------------
(* Writing *)

LEMMA AddedTwice ==
  ASSUME NEW c, NEW d, NEW e, NEW s, NEW t, NEW j \in Nat, NEW k \in Nat,
         UsedSize(c) \in Nat, c.blockA.size \in Nat, d.blockA.size \in Nat, e.blockA.size \in Nat,
         Added(c, d, s, j), Added(d, e, t, k), \A i \in 1..k : t[i] = s[j + i]
  PROVE  Added(c, e, s, j + k)
<1>1. UsedSize(e) = UsedSize(c) + (j + k) /\ e.blockA.size >= c.blockA.size
  BY DEF Added
<1>2. UsedSize(d) = UsedSize(c) + j
  BY DEF Added
<1>3. ASSUME NEW i \in 1..UsedSize(c) PROVE At(e, i) = At(c, i)
  <2>1. i \in 1..UsedSize(d)
    BY <1>2
  <2>. QED BY <2>1 DEF Added
<1>4. ASSUME NEW i \in 1..(j + k) PROVE At(e, UsedSize(c) + i) = s[i]
  <2>1. CASE i <= j
    <3>1. i \in 1..j /\ UsedSize(c) + i \in 1..UsedSize(d)
      BY <1>2, <2>1
    <3>. QED BY <3>1 DEF Added
  <2>2. CASE ~(i <= j)
    <3>1. i - j \in 1..k /\ UsedSize(d) + (i - j) = UsedSize(c) + i /\ j + (i - j) = i
      BY <1>2, <2>2
    <3>2. At(e, UsedSize(d) + (i - j)) = t[i - j] /\ t[i - j] = s[j + (i - j)]
      BY <3>1 DEF Added
    <3>. QED BY <3>1, <3>2
  <2>. QED BY <2>1, <2>2
<1>. QED BY <1>1, <1>3, <1>4 DEF Added

LEMMA AddedAfterSame ==
  ASSUME NEW n \in Nat, NEW c, Good(c, n), NEW p \in Nat, NEW d, Good(d, p),
         NEW q \in Nat, NEW e, Good(e, q), Same(c, d), NEW s, NEW k \in Nat, Added(d, e, s, k)
  PROVE  Added(c, e, s, k)
<1>1. Added(c, d, s, 0)
  BY DEF Same, Added
<1>2. /\ UsedSize(c) \in Nat /\ c.blockA.size \in Nat /\ d.blockA.size \in Nat /\ e.blockA.size \in Nat
  BY GoodFields DEF Fields
<1>3. Added(c, e, s, 0 + k)
  BY <1>1, <1>2, AddedTwice
<1>. QED BY <1>3

\* A context with the same blocks over the same bytes has the same unread bytes.
LEMMA SameBlocks ==
  ASSUME NEW n \in Nat, NEW c, Good(c, n), NEW d, d.blockA = c.blockA, d.blockB = c.blockB,
         d.signaled = c.signaled, \A j \in 1..UsedSize(c) : At(d, j) = At(c, j)
  PROVE  Same(c, d) /\ (Signals(c) => Signals(d))
<1>1. UsedSize(d) = UsedSize(c) /\ UsedSize(c) \in Nat /\ c.blockA.size \in Nat
  BY GoodFields DEF Fields, UsedSize
<1>2. Same(c, d)
  BY <1>1 DEF Same, Added
<1>. QED BY <1>1, <1>2 DEF Signals

LEMMA WriteTryReserveSame ==
  ASSUME NEW n \in Nat, NEW c, Good(c, n), NEW m \in Nat, NEW r, r = WriteTryReserve(c, m)
  PROVE  Same(c, r.ctx) /\ (Signals(c) => Signals(r.ctx))
<1> DEFINE k == Least(m, FreeRegion(c).size)
           w == [index |-> FreeRegion(c).index, size |-> k]
           d == [c EXCEPT !.writeR = w]
<1>1. c \in Context(n)
  BY DEF Good
<1>. HIDE DEF k
<1>2. r.ctx = c \/ r.ctx = d
  BY DEF WriteTryReserve, k
<1>. HIDE DEF w
<1>3. d.blockA = c.blockA /\ d.blockB = c.blockB /\ d.buffer = c.buffer /\ d.signaled = c.signaled
  BY <1>1 DEF Context
<1>. HIDE DEF d
<1>4. /\ r.ctx.blockA = c.blockA /\ r.ctx.blockB = c.blockB /\ r.ctx.buffer = c.buffer
      /\ r.ctx.signaled = c.signaled
  BY <1>2, <1>3
<1>5. \A j \in 1..UsedSize(c) : At(r.ctx, j) = At(c, j)
  BY <1>4 DEF At
<1>. QED BY <1>4, <1>5, SameBlocks

\* The reservation starts with the first k of s.
Holds(c, s, k) == \A j \in 1..k : c.buffer[c.writeR.index + j - 1] = s[j]

LEMMA FillSame ==
  ASSUME NEW n \in Nat, NEW c, Good(c, n), Region(c), NEW k \in Nat, k <= c.writeR.size,
         NEW data \in Seq(Byte), k <= Len(data), NEW e, e = Fill(c, data, k)
  PROVE  /\ Same(c, e) /\ (Signals(c) => Signals(e)) /\ e.writeR = c.writeR
         /\ Holds(e, data, k)
<1> DEFINE at == c.writeR.index
           memory == [i \in DOMAIN c.buffer |->
                        IF i \in at .. (at + k - 1) THEN data[i - at + 1] ELSE c.buffer[i]]
<1>0. Fields(c, n) /\ c \in Context(n)
  BY GoodFields DEF Good
<1>1. e = [c EXCEPT !.buffer = memory]
  BY DEF Fill
<1>. HIDE DEF memory
<1>2. e.blockA = c.blockA /\ e.blockB = c.blockB /\ e.writeR = c.writeR /\ e.signaled = c.signaled
      /\ e.buffer = memory
  BY <1>0, <1>1 DEF Context
<1>3. at \in Nat /\ at + k <= n
  <2>1. c.writeR.index + c.writeR.size <= n
    BY <1>0 DEF Fields, Region, EndOf
  <2>2. c.writeR.index \in Nat /\ c.writeR.size \in Nat
    BY <1>0 DEF Fields
  <2>. QED BY <2>1, <2>2
<1>. HIDE DEF at
<1>4. \A i \in 0..(n - 1) : memory[i] = IF i \in at .. (at + k - 1) THEN data[i - at + 1] ELSE c.buffer[i]
  BY <1>0 DEF memory, Fields
<1>5. ASSUME NEW j \in 1..k PROVE e.buffer[at + j - 1] = data[j]
  <2>1. at + j - 1 \in 0..(n - 1) /\ at + j - 1 \in at .. (at + k - 1) /\ (at + j - 1) - at + 1 = j
    <3>1. j \in Nat /\ 1 <= j /\ j <= k
      OBVIOUS
    <3>. QED BY <1>3, <3>1
  <2>. QED BY <1>2, <1>4, <2>1
<1>6. ASSUME NEW j \in 1..UsedSize(c) PROVE At(e, j) = At(c, j)
  <2>1. ASSUME NEW i \in 0..(n - 1), ~(i \in at .. (at + k - 1)) PROVE e.buffer[i] = c.buffer[i]
    BY <1>2, <1>4, <2>1
  <2>4. /\ j \in Nat /\ j > 0 /\ j <= c.blockA.size + c.blockB.size
        /\ \/ k = 0
           \/ at = c.blockA.index + c.blockA.size /\ c.blockB.size = 0
           \/ at = c.blockB.size /\ at + k <= c.blockA.index
    <3>1. j \in Nat /\ j > 0 /\ j <= UsedSize(c) /\ UsedSize(c) # 0
      BY <1>0 DEF Fields
    <3>2. CASE c.writeR.size = 0
      BY <1>0, <3>1, <3>2 DEF Fields
    <3>3. CASE c.writeR.index = EndOf(c.blockA) /\ c.blockB.size = 0
      BY <1>0, <3>1, <3>3 DEF Fields, EndOf, at
    <3>4. CASE c.blockA.size > 0 /\ c.writeR.index = EndOf(c.blockB) /\ EndOf(c.writeR) <= c.blockA.index
      BY <1>0, <3>1, <3>4, SMTT(60) DEF Fields, EndOf, at
    <3>. QED BY <3>1, <3>2, <3>3, <3>4 DEF Region
  <2>5. c.blockA.index \in Nat /\ c.blockA.size \in Nat /\ c.blockB.index = 0 /\ c.blockB.size \in Nat
        /\ c.blockA.index + c.blockA.size <= n /\ (c.blockB.size > 0 => c.blockB.size <= c.blockA.index)
    BY <1>0 DEF Fields
  <2> DEFINE x == IF j <= c.blockA.size THEN c.blockA.index + j - 1 ELSE j - c.blockA.size - 1
  <2>2. x \in Nat /\ x <= n - 1 /\ (k = 0 \/ x < at \/ x >= at + k)
    <3>0. k \in Nat /\ n \in Nat /\ at \in Nat /\ at + k <= n /\ j \in Nat /\ j > 0
      BY <1>3, <2>4
    <3>1. CASE j <= c.blockA.size
      <4>1. x = c.blockA.index + j - 1
        BY <3>1
      <4>. HIDE DEF x
      <4>2. x \in Nat /\ x <= n - 1 /\ x < c.blockA.index + c.blockA.size /\ x >= c.blockA.index
        <5>1. c.blockA.index \in Nat /\ c.blockA.size \in Nat /\ c.blockA.index + c.blockA.size <= n
          BY <2>5
        <5>. QED BY <3>0, <3>1, <4>1, <5>1, SMTT(60)
      <4>. QED BY <2>4, <2>5, <3>0, <4>2
    <3>2. CASE ~(j <= c.blockA.size)
      <4>1. x = j - c.blockA.size - 1
        BY <3>2
      <4>. HIDE DEF x
      <4>2. c.blockB.size > 0 /\ x \in Nat /\ x < c.blockB.size
        <5>1. j <= c.blockA.size + c.blockB.size /\ c.blockA.size \in Nat /\ c.blockB.size \in Nat
          BY <2>4, <2>5
        <5>. QED BY <3>0, <3>2, <4>1, <5>1, SMTT(60)
      <4>3. c.blockB.size <= n /\ (k = 0 \/ at = c.blockB.size)
        <5>1. c.blockB.size <= c.blockA.index /\ c.blockA.index <= n
          BY <2>5, <3>0, <4>2
        <5>. QED BY <2>4, <2>5, <3>0, <4>2, <5>1
      <4>. QED BY <2>5, <3>0, <4>2, <4>3
    <3>. QED BY <3>1, <3>2
  <2>3. At(e, j) = e.buffer[x] /\ At(c, j) = c.buffer[x]
    <3>1. j - c.blockA.size - 1 = c.blockB.index + j - c.blockA.size - 1
      BY <2>4, <2>5
    <3>. QED BY <1>2, <3>1 DEF At
  <2>. HIDE DEF x
  <2>6. x \in 0..(n - 1) /\ ~(x \in at .. (at + k - 1))
    BY <1>3, <2>2
  <2>. QED BY <2>1, <2>3, <2>6
<1>. QED BY <1>2, <1>5, <1>6, SameBlocks DEF at, Holds

LEMMA WriteCommitAdds ==
  ASSUME NEW n \in Nat, NEW c, Good(c, n), Region(c), NEW k \in Nat, NEW d, d = WriteCommit(c, k),
         NEW m, m = Least(k, c.writeR.size), NEW s, Holds(c, s, m)
  PROVE  Added(c, d, s, m) /\ (Signals(c) => Signals(d))
<1> DEFINE A0 == [index |-> c.writeR.index, size |-> m]
           A1 == [index |-> c.blockA.index, size |-> c.blockA.size + m]
           B1 == [index |-> c.blockB.index, size |-> c.blockB.size + m]
           e == IF k = 0 THEN c
                ELSE IF UsedSize(c) = 0 THEN [c EXCEPT !.blockA = A0]
                ELSE IF c.writeR.index = EndOf(c.blockA) THEN [c EXCEPT !.blockA = A1]
                ELSE [c EXCEPT !.blockB = B1]
           f == [e EXCEPT !.writeR = NoBlock]
<1>0. Fields(c, n) /\ c \in Context(n)
  BY GoodFields DEF Good
<1>12. \A j \in 1..m : c.buffer[c.writeR.index + j - 1] = s[j]
  BY DEF Holds
<1>1. m \in Nat /\ m <= c.writeR.size /\ (k = 0 => m = 0)
  BY <1>0 DEF Least, Fields
<1>2. d = IF UsedSize(c) = 0 /\ UsedSize(f) > 0 THEN SetSignaledState(f, TRUE) ELSE f
  BY DEF WriteCommit
<1>3. A0 \in Block /\ A1 \in Block /\ B1 \in Block /\ NoBlock \in Block
  BY <1>0, <1>1, SMTT(60) DEF Block, NoBlock, Fields
<1>. HIDE DEF A0, A1, B1
<1>4. /\ e \in Context(n) /\ e.buffer = c.buffer /\ e.signaled = c.signaled
      /\ \/ k = 0 /\ e.blockA = c.blockA /\ e.blockB = c.blockB
         \/ UsedSize(c) = 0 /\ e.blockA = A0 /\ e.blockB = c.blockB
         \/ UsedSize(c) # 0 /\ c.writeR.index = EndOf(c.blockA)
            /\ e.blockA = A1 /\ e.blockB = c.blockB
         \/ UsedSize(c) # 0 /\ c.writeR.index # EndOf(c.blockA)
            /\ e.blockA = c.blockA /\ e.blockB = B1
  BY <1>0, <1>3 DEF Context
<1>. HIDE DEF e
<1>5. /\ f \in Context(n) /\ f.buffer = c.buffer /\ f.signaled = c.signaled
      /\ f.blockA = e.blockA /\ f.blockB = e.blockB
  BY <1>3, <1>4 DEF Context
<1>. HIDE DEF f
<1>6. /\ d.buffer = c.buffer /\ d.blockA = e.blockA /\ d.blockB = e.blockB
      /\ IF UsedSize(c) = 0 /\ UsedSize(f) > 0 THEN d.signaled = TRUE ELSE d.signaled = c.signaled
  <2>1. CASE UsedSize(c) = 0 /\ UsedSize(f) > 0
    BY <1>2, <1>5, <2>1 DEF SetSignaledState, Context
  <2>2. CASE ~(UsedSize(c) = 0 /\ UsedSize(f) > 0)
    BY <1>2, <1>5, <2>2
  <2>. QED BY <2>1, <2>2
<1>7. Signals(c) => Signals(d)
  <2>1. UsedSize(d) = UsedSize(f)
    BY <1>5, <1>6 DEF UsedSize
  <2>2. UsedSize(c) = 0 \/ UsedSize(c) > 0
    BY <1>0 DEF Fields
  <2>. QED BY <1>6, <2>1, <2>2 DEF Signals
<1>8. CASE k = 0 /\ e.blockA = c.blockA /\ e.blockB = c.blockB
  <2>1. m = 0 /\ d.blockA = c.blockA /\ d.blockB = c.blockB
    BY <1>1, <1>6, <1>8
  <2>2. UsedSize(d) = UsedSize(c) + m /\ d.blockA.size >= c.blockA.size
    BY <1>0, <2>1 DEF UsedSize, Fields
  <2>. QED BY <1>6, <1>7, <2>1, <2>2 DEF Added, At
<1>9. CASE UsedSize(c) = 0 /\ e.blockA = A0 /\ e.blockB = c.blockB
  <2>1. d.blockA.index = c.writeR.index /\ d.blockA.size = m /\ d.blockB = c.blockB
        /\ c.blockA.size = 0 /\ c.blockB.size = 0
    BY <1>0, <1>6, <1>9 DEF A0, Fields
  <2>2. UsedSize(d) = UsedSize(c) + m /\ d.blockA.size >= c.blockA.size
    BY <1>1, <1>9, <2>1 DEF UsedSize
  <2>3. ASSUME NEW j \in 1..m PROVE At(d, UsedSize(c) + j) = s[j]
    <3>1. UsedSize(c) + j = j /\ j <= d.blockA.size
      BY <1>1, <1>9, <2>1
    <3>. QED BY <1>6, <1>12, <2>1, <3>1 DEF At
  <2>. QED BY <1>7, <1>9, <2>2, <2>3 DEF Added
<1>10. CASE UsedSize(c) # 0 /\ c.writeR.index = EndOf(c.blockA) /\ e.blockA = A1 /\ e.blockB = c.blockB
  <2>1. d.blockA.index = c.blockA.index /\ d.blockA.size = c.blockA.size + m /\ d.blockB = c.blockB
    BY <1>6, <1>10 DEF A1
  <2>2. m = 0 \/ c.blockB.size = 0
    BY <1>0, <1>1, <1>10, SMTT(60) DEF Region, Fields, EndOf
  <2>3. UsedSize(d) = UsedSize(c) + m /\ d.blockA.size >= c.blockA.size
    BY <1>0, <1>1, <2>1, SMTT(60) DEF UsedSize, Fields
  <2>4. ASSUME NEW j \in 1..UsedSize(c) PROVE At(d, j) = At(c, j)
    <3>1. CASE m = 0
      <4>1. d.blockA.size = c.blockA.size
        BY <1>0, <2>1, <3>1 DEF Fields
      <4>. QED BY <1>6, <2>1, <4>1 DEF At
    <3>2. CASE c.blockB.size = 0
      <4>1. j <= c.blockA.size /\ j <= d.blockA.size
        BY <1>0, <1>1, <2>1, <3>2 DEF Fields
      <4>. QED BY <1>6, <2>1, <4>1 DEF At
    <3>. QED BY <2>2, <3>1, <3>2
  <2>5. ASSUME NEW j \in 1..m PROVE At(d, UsedSize(c) + j) = s[j]
    <3>1. j \in Nat /\ j > 0 /\ j <= m /\ c.blockB.size = 0 /\ UsedSize(c) = c.blockA.size
          /\ c.blockA.size \in Nat /\ c.blockA.index \in Nat /\ c.writeR.index = c.blockA.index + c.blockA.size
      BY <1>0, <1>1, <1>10, <2>2 DEF Fields, EndOf
    <3>2. UsedSize(c) + j <= d.blockA.size
          /\ d.blockA.index + (UsedSize(c) + j) - 1 = c.writeR.index + j - 1
      BY <1>1, <2>1, <3>1
    <3>. QED BY <1>6, <1>12, <3>2 DEF At
  <2>. QED BY <1>7, <2>3, <2>4, <2>5 DEF Added
<1>11. CASE UsedSize(c) # 0 /\ c.writeR.index # EndOf(c.blockA) /\ e.blockA = c.blockA /\ e.blockB = B1
  <2>1. d.blockA = c.blockA /\ d.blockB.index = c.blockB.index /\ d.blockB.size = c.blockB.size + m
    BY <1>6, <1>11 DEF B1
  <2>2. m = 0 \/ c.writeR.index = c.blockB.size
    BY <1>0, <1>1, <1>11 DEF Region, Fields, EndOf
  <2>3. UsedSize(d) = UsedSize(c) + m /\ d.blockA.size >= c.blockA.size
    BY <1>0, <1>1, <2>1 DEF UsedSize, Fields
  <2>4. ASSUME NEW j \in 1..UsedSize(c) PROVE At(d, j) = At(c, j)
    BY <1>6, <2>1 DEF At
  <2>5. ASSUME NEW j \in 1..m PROVE At(d, UsedSize(c) + j) = s[j]
    <3>1. j \in Nat /\ j > 0 /\ c.writeR.index = c.blockB.size /\ UsedSize(c) = c.blockA.size + c.blockB.size
          /\ c.blockA.size \in Nat /\ c.blockB.size \in Nat /\ c.blockB.index = 0
      BY <1>0, <1>1, <2>2 DEF Fields
    <3>2. ~(UsedSize(c) + j <= d.blockA.size)
          /\ d.blockB.index + (UsedSize(c) + j) - d.blockA.size - 1 = c.writeR.index + j - 1
      BY <2>1, <3>1
    <3>. QED BY <1>6, <1>12, <3>2 DEF At
  <2>. QED BY <1>7, <2>3, <2>4, <2>5 DEF Added
<1>. QED BY <1>4, <1>8, <1>9, <1>10, <1>11

LEMMA WriteRoundAdds ==
  ASSUME NEW n \in Nat, NEW c, Good(c, n), NEW data \in Seq(Byte), NEW r, r = WriteRound(c, data)
  PROVE  Added(c, r.ctx, data, r.done) /\ (Signals(c) => Signals(r.ctx))
<1> DEFINE t == WriteTryReserve(c, Len(data))
           f == Fill(t.ctx, data, t.reserved)
           d == WriteCommit(f, t.reserved)
<1>1. Len(data) \in Nat
  BY LenProperties
<1>2. CASE ~t.block
  <2>1. r.ctx = c /\ r.done = 0
    BY <1>2 DEF WriteRound
  <2>2. Same(c, c)
    BY SameIsReflexive
  <2>. QED BY <2>1, <2>2 DEF Same, Added
<1>3. CASE t.block
  <2>1. r.ctx = d /\ r.done = t.reserved
    BY <1>3 DEF WriteRound
  <2>2. /\ Good(t.ctx, n) /\ Region(t.ctx) /\ t.reserved \in Nat /\ t.reserved <= Len(data)
        /\ t.ctx.writeR.size = t.reserved
    BY <1>1, <1>3, WriteTryReserveGood
  <2>3. Same(c, t.ctx) /\ (Signals(c) => Signals(t.ctx))
    BY <1>1, WriteTryReserveSame
  <2>. HIDE DEF t
  <2>4. t.reserved <= t.ctx.writeR.size
    BY <2>2
  <2>5. Good(f, n) /\ Region(f) /\ f.writeR = t.ctx.writeR
    BY <2>2, FillGood
  <2>6. /\ Same(t.ctx, f) /\ (Signals(t.ctx) => Signals(f))
        /\ Holds(f, data, t.reserved)
    BY <2>2, <2>4, FillSame
  <2>. HIDE DEF f
  <2>7. Least(t.reserved, f.writeR.size) = t.reserved
    BY <2>2, <2>5 DEF Least
  <2>8. Good(d, n)
    BY <2>2, <2>5, WriteCommitGood
  <2>9. Added(f, d, data, t.reserved) /\ (Signals(f) => Signals(d))
    <3> DEFINE k == t.reserved
    <3>1. /\ k \in Nat /\ d = WriteCommit(f, k) /\ k = Least(k, f.writeR.size)
          /\ Holds(f, data, k)
      BY <2>2, <2>5, <2>6, <2>7
    <3>. HIDE DEF k, d
    <3>2. Added(f, d, data, k) /\ (Signals(f) => Signals(d))
      BY <2>5, <3>1, WriteCommitAdds
    <3>. QED BY <3>2 DEF k
  <2>. HIDE DEF d
  <2>10. Added(t.ctx, d, data, t.reserved)
    BY <2>2, <2>5, <2>6, <2>8, <2>9, AddedAfterSame
  <2>11. Added(c, d, data, t.reserved)
    BY <2>2, <2>3, <2>8, <2>10, AddedAfterSame
  <2>. QED BY <2>1, <2>3, <2>6, <2>9, <2>11
<1>4. t.block \in BOOLEAN
  BY <1>1, WriteTryReserveGood
<1>. QED BY <1>2, <1>3, <1>4

LEMMA SameTwice ==
  ASSUME NEW n \in Nat, NEW c, Good(c, n), NEW p \in Nat, NEW d, Good(d, p),
         NEW q \in Nat, NEW e, Good(e, q), Same(c, d), Same(d, e)
  PROVE  Same(c, e)
BY AddedAfterSame DEF Same

LEMMA WriteReserveSame ==
  ASSUME NEW n \in Nat \ {0}, NEW c, Good(c, n), NEW m \in Nat, NEW alloc \in BOOLEAN,
         NEW r, r = WriteReserve(c, m, alloc)
  PROVE  Same(c, r.ctx) /\ (Signals(c) => Signals(r.ctx))
<1> DEFINE d == WriteTryReserve(c, m).ctx
           g == Grow(d, m, alloc).ctx
           h == WriteTryReserve(g, m).ctx
<1>1. Good(d, n) /\ Same(c, d) /\ (Signals(c) => Signals(d))
  BY WriteTryReserveGood, WriteTryReserveSame
<1>2. r.ctx = d \/ r.ctx = h
  BY DEF WriteReserve
<1>3. PICK p \in Nat : Good(g, p)
  <2>. HIDE DEF d
  <2>1. g = d \/ (Good(g, PageAdjust(m)) /\ PageAdjust(m) > n /\ g.writeR = NoBlock)
    BY <1>1, GrowGood
  <2>. QED BY <1>1, <2>1, PageAdjustGrows
<1>4. Same(d, g) /\ (Signals(d) => Signals(g))
  <2>. HIDE DEF d
  <2>. QED BY <1>1, GrowSame
<1>5. Good(h, p) /\ Same(g, h) /\ (Signals(g) => Signals(h))
  <2>. HIDE DEF g
  <2>. QED BY <1>3, WriteTryReserveGood, WriteTryReserveSame
<1>. HIDE DEF d, g, h
<1>6. Same(c, g)
  BY <1>1, <1>3, <1>4, SameTwice
<1>7. Same(c, h)
  BY <1>3, <1>5, <1>6, SameTwice
<1>. QED BY <1>1, <1>2, <1>4, <1>5, <1>7

\* What a write adds: the status says how much of the data.
LEMMA WriteAdds ==
  ASSUME NEW n \in Nat \ {0}, NEW c, Good(c, n), NEW data \in Seq(Byte), NEW alloc \in BOOLEAN,
         NEW w, w = Write(c, data, alloc)
  PROVE  /\ \/ w.status = -1 /\ Same(c, w.ctx)
            \/ w.status \in 0..Len(data) /\ Added(c, w.ctx, data, w.status)
         /\ Signals(c) => Signals(w.ctx)
<1> DEFINE d == WriteReserve(c, Len(data), alloc).ctx
           d1 == WriteRound(d, data).ctx
           k1 == WriteRound(d, data).done
           rest == SubSeq(data, k1 + 1, Len(data))
           d2 == WriteRound(d1, rest).ctx
           k2 == WriteRound(d1, rest).done
<1>1. Len(data) \in Nat
  BY LenProperties
<1>2. PICK p \in Nat : Good(d, p)
  <2>1. Good(d, n) \/ (Good(d, PageAdjust(Len(data))) /\ PageAdjust(Len(data)) > n)
    BY <1>1, WriteReserveGood
  <2>. QED BY <1>1, <2>1, PageAdjustGrows
<1>3. Same(c, d) /\ (Signals(c) => Signals(d))
  BY <1>1, WriteReserveSame
<1>4. Good(d1, p) /\ k1 \in Nat /\ k1 <= Len(data)
  <2>. HIDE DEF d
  <2>. QED BY <1>2, WriteRoundGood
<1>5. Added(d, d1, data, k1) /\ (Signals(d) => Signals(d1))
  <2>. HIDE DEF d
  <2>. QED BY <1>2, WriteRoundAdds
<1>6. rest \in Seq(Byte) /\ Len(rest) = Len(data) - k1
      /\ \A i \in 1..(Len(data) - k1) : rest[i] = data[k1 + i]
  <2>. HIDE DEF k1
  <2> DEFINE a == k1 + 1
             z == Len(data)
  <2>1. a \in Int /\ z \in Int /\ a >= 1 /\ z - a + 1 = z - k1 /\ z - k1 \in Nat
        /\ (a <= z \/ z - k1 = 0) /\ \A i \in 1..(z - k1) : a + i - 1 = k1 + i
    BY <1>1, <1>4
  <2>2. rest = SubSeq(data, a, z) /\ \A i \in a..z : i \in 1..Len(data)
    BY <2>1
  <2>3. \A i \in a..z : data[i] \in Byte
    BY <2>2, ElementOfSeq
  <2>. HIDE DEF a, z
  <2>4. /\ SubSeq(data, a, z) \in Seq(Byte)
        /\ Len(SubSeq(data, a, z)) = IF a <= z THEN z - a + 1 ELSE 0
        /\ \A i \in 1..(z - a + 1) : SubSeq(data, a, z)[i] = data[a + i - 1]
    BY <2>1, <2>3, SubSeqProperties
  <2>. HIDE DEF rest
  <2>. QED BY <2>1, <2>2, <2>4 DEF z
<1>7. Good(d2, p) /\ k2 \in Nat /\ k2 <= Len(rest) /\ Added(d1, d2, rest, k2) /\ (Signals(d1) => Signals(d2))
  <2>. HIDE DEF d1, rest
  <2>. QED BY <1>4, <1>6, WriteRoundGood, WriteRoundAdds
<1>8. \/ w.ctx = d /\ w.status = -1
      \/ w.ctx = d1 /\ w.status = k1
      \/ w.ctx = d2 /\ w.status = k1 + k2
  BY DEF Write
<1>. HIDE DEF d, d1, d2, k1, k2, rest
<1>9. Added(c, d1, data, k1)
  BY <1>2, <1>3, <1>4, <1>5, AddedAfterSame
<1>10. k1 + k2 \in 0..Len(data) /\ k1 \in 0..Len(data) /\ \A i \in 1..k2 : i \in 1..(Len(data) - k1)
  BY <1>1, <1>4, <1>6, <1>7
<1>11. Added(c, d2, data, k1 + k2)
  <2>1. /\ UsedSize(c) \in Nat /\ c.blockA.size \in Nat /\ d1.blockA.size \in Nat /\ d2.blockA.size \in Nat
    BY <1>4, <1>7, GoodFields DEF Fields
  <2>2. \A i \in 1..k2 : rest[i] = data[k1 + i]
    BY <1>6, <1>10
  <2>. QED BY <1>4, <1>7, <1>9, <2>1, <2>2, AddedTwice
<1>. QED BY <1>3, <1>5, <1>7, <1>8, <1>9, <1>10, <1>11

-----------------------------------------------------------------------------
(* The relations as equations between the sequences of unread bytes *)

LEMMA FirstBytes ==
  ASSUME NEW s \in Seq(Cell), NEW k \in 0..Len(s)
  PROVE  /\ SubSeq(s, 1, k) \in Seq(Cell) /\ Len(SubSeq(s, 1, k)) = k
         /\ \A j \in 1..k : SubSeq(s, 1, k)[j] = s[j]
<1>1. Len(s) \in Nat
  BY LenProperties
<1>2. 1 \in Int /\ k \in Int /\ k \in Nat /\ (IF 1 <= k THEN k - 1 + 1 ELSE 0) = k /\ k - 1 + 1 = k
      /\ \A j \in 1..k : 1 + j - 1 = j /\ j \in 1..Len(s)
  BY <1>1
<1>3. \A j \in 1..k : s[j] \in Cell
  BY <1>2, ElementOfSeq
<1>4. /\ SubSeq(s, 1, k) \in Seq(Cell) /\ Len(SubSeq(s, 1, k)) = IF 1 <= k THEN k - 1 + 1 ELSE 0
      /\ \A j \in 1..(k - 1 + 1) : SubSeq(s, 1, k)[j] = s[1 + j - 1]
  BY <1>2, <1>3, SubSeqProperties
<1>. QED BY <1>2, <1>4

LEMMA IsFirst ==
  ASSUME NEW s \in Seq(Cell), NEW t \in Seq(Cell), Len(t) <= Len(s), \A j \in 1..Len(t) : t[j] = s[j]
  PROVE  t = SubSeq(s, 1, Len(t)) /\ Len(t) \in 0..Len(s)
<1>1. Len(t) \in 0..Len(s)
  BY LenProperties
<1>. QED BY <1>1, FirstBytes, SeqEqual

LEMMA AddedAppends ==
  ASSUME NEW n \in Nat, NEW c, Good(c, n), NEW p \in Nat, NEW e, Good(e, p),
         NEW s \in Seq(Cell), NEW k \in 0..Len(s), Added(c, e, s, k)
  PROVE  Unread(e) = Unread(c) \o SubSeq(s, 1, k)
<1> DEFINE q == Unread(c)
           t == SubSeq(s, 1, k)
           u == Unread(e)
<1>1. /\ q \in Seq(Cell) /\ Len(q) = UsedSize(c) /\ UsedSize(c) \in Nat
      /\ \A j \in 1..UsedSize(c) : q[j] = At(c, j)
  BY UnreadIsAt, GoodFields DEF Fields
<1>2. u \in Seq(Cell) /\ Len(u) = UsedSize(e) /\ \A j \in 1..UsedSize(e) : u[j] = At(e, j)
  BY UnreadIsAt
<1>3. t \in Seq(Cell) /\ Len(t) = k /\ (\A j \in 1..k : t[j] = s[j]) /\ Len(s) \in Nat
  BY FirstBytes, LenProperties
<1>. HIDE DEF q, t, u
<1>4. /\ q \o t \in Seq(Cell) /\ Len(q \o t) = UsedSize(c) + k
      /\ \A j \in 1..(UsedSize(c) + k) :
           (q \o t)[j] = IF j <= UsedSize(c) THEN q[j] ELSE t[j - UsedSize(c)]
  <2>1. /\ q \o t \in Seq(Cell) /\ Len(q \o t) = Len(q) + Len(t)
        /\ \A j \in 1..(Len(q) + Len(t)) : (q \o t)[j] = IF j <= Len(q) THEN q[j] ELSE t[j - Len(q)]
    BY <1>1, <1>3, ConcatProperties
  <2>2. Len(q) = UsedSize(c) /\ Len(t) = k
    BY <1>1, <1>3
  <2>. QED BY <2>1, <2>2
<1>5. Len(u) = Len(q \o t) /\ UsedSize(e) = UsedSize(c) + k
  BY <1>2, <1>4 DEF Added
<1>6. ASSUME NEW j \in 1..Len(u) PROVE u[j] = (q \o t)[j]
  <2>1. j \in 1..UsedSize(e) /\ j \in 1..(UsedSize(c) + k)
    BY <1>2, <1>5
  <2>2. CASE j <= UsedSize(c)
    <3>1. j \in 1..UsedSize(c)
      BY <1>1, <2>1, <2>2
    <3>. QED BY <1>1, <1>2, <1>4, <2>1, <2>2, <3>1 DEF Added
  <2>3. CASE ~(j <= UsedSize(c))
    <3>1. j - UsedSize(c) \in 1..k /\ UsedSize(c) + (j - UsedSize(c)) = j
      BY <1>1, <1>3, <2>1, <2>3
    <3>2. At(e, UsedSize(c) + (j - UsedSize(c))) = s[j - UsedSize(c)]
      BY <3>1 DEF Added
    <3>. QED BY <1>2, <1>3, <1>4, <2>1, <2>3, <3>1, <3>2
  <2>. QED BY <2>2, <2>3
<1>7. u = q \o t
  BY <1>2, <1>4, <1>5, <1>6, SeqEqual
<1>. QED BY <1>7 DEF q, t, u

LEMMA SameUnread ==
  ASSUME NEW n \in Nat, NEW c, Good(c, n), NEW p \in Nat, NEW e, Good(e, p), Same(c, e)
  PROVE  Unread(e) = Unread(c) /\ UsedSize(e) = UsedSize(c)
<1>1. /\ Unread(c) \in Seq(Cell) /\ Len(Unread(c)) = UsedSize(c) /\ UsedSize(c) \in Nat
      /\ \A j \in 1..UsedSize(c) : Unread(c)[j] = At(c, j)
  BY UnreadIsAt, GoodFields DEF Fields
<1>2. /\ Unread(e) \in Seq(Cell) /\ Len(Unread(e)) = UsedSize(e)
      /\ \A j \in 1..UsedSize(e) : Unread(e)[j] = At(e, j)
  BY UnreadIsAt
<1>3. UsedSize(e) = UsedSize(c) /\ \A j \in 1..UsedSize(c) : At(e, j) = At(c, j)
  BY <1>1 DEF Same, Added
<1>. QED BY <1>1, <1>2, <1>3, SeqEqual

LEMMA DroppedRest ==
  ASSUME NEW n \in Nat, NEW c, Good(c, n), NEW e, Good(e, n), NEW k \in 0..UsedSize(c), Dropped(c, e, k)
  PROVE  Unread(e) = SubSeq(Unread(c), k + 1, Len(Unread(c)))
<1> DEFINE q == Unread(c)
           u == Unread(e)
           z == Len(q)
           a == k + 1
           t == SubSeq(q, a, z)
<1>1. /\ q \in Seq(Cell) /\ z = UsedSize(c) /\ z \in Nat /\ \A j \in 1..z : q[j] = At(c, j) /\ q[j] \in Cell
  BY UnreadIsAt, GoodFields DEF Fields
<1>2. u \in Seq(Cell) /\ Len(u) = UsedSize(e) /\ \A j \in 1..UsedSize(e) : u[j] = At(e, j)
  BY UnreadIsAt
<1>3. UsedSize(e) = z - k /\ \A j \in 1..(z - k) : At(e, j) = At(c, j + k)
  BY <1>1 DEF Dropped
<1>4. a \in Int /\ z \in Int /\ (IF a <= z THEN z - a + 1 ELSE 0) = z - k /\ z - a + 1 = z - k
      /\ \A j \in 1..(z - k) : a + j - 1 = j + k /\ j + k \in 1..z
  BY <1>1
<1>. HIDE DEF q, u, z
<1>5. \A j \in a..z : q[j] \in Cell
  BY <1>1
<1>. HIDE DEF a
<1>6. t \in Seq(Cell) /\ Len(t) = (IF a <= z THEN z - a + 1 ELSE 0)
      /\ \A j \in 1..(z - a + 1) : t[j] = q[a + j - 1]
  BY <1>4, <1>5, SubSeqProperties
<1>. HIDE DEF t
<1>7. Len(u) = Len(t) /\ \A j \in 1..Len(u) : u[j] = t[j]
  <2>1. Len(u) = z - k /\ Len(t) = z - k
    BY <1>2, <1>3, <1>4, <1>6
  <2>2. ASSUME NEW j \in 1..(z - k) PROVE u[j] = t[j]
    <3>1. u[j] = At(c, j + k)
      BY <1>2, <1>3
    <3>2. t[j] = q[a + j - 1] /\ a + j - 1 = j + k /\ j + k \in 1..z
      BY <1>4, <1>6
    <3>. QED BY <1>1, <3>1, <3>2
  <2>. QED BY <2>1, <2>2
<1>8. u = t
  BY <1>2, <1>6, <1>7, SeqEqual
<1>. QED BY <1>8 DEF t, u, q, a, z

LEMMA GotFirst ==
  ASSUME NEW n \in Nat, NEW c, Good(c, n), NEW b, NEW k \in 0..UsedSize(c), Got(c, b, k)
  PROVE  b = SubSeq(Unread(c), 1, k) /\ b \in Seq(Cell) /\ Len(b) = k
<1>1. /\ Unread(c) \in Seq(Cell) /\ Len(Unread(c)) = UsedSize(c) /\ UsedSize(c) \in Nat
      /\ \A j \in 1..UsedSize(c) : Unread(c)[j] = At(c, j)
  <2>1. UsedSize(c) \in Nat
    BY GoodFields DEF Fields
  <2>. QED BY <2>1, UnreadIsAt
<1>2. b \in Seq(Cell) /\ Len(b) = k /\ Len(b) <= Len(Unread(c)) /\ \A j \in 1..Len(b) : b[j] = Unread(c)[j]
  <2>1. b \in Seq(Cell) /\ Len(b) = k /\ \A j \in 1..k : b[j] = At(c, j)
    BY DEF Got
  <2>2. k \in Nat /\ k <= UsedSize(c)
    BY <1>1
  <2>3. \A j \in 1..k : j \in 1..UsedSize(c)
    BY <1>1, <2>2
  <2>. QED BY <1>1, <2>1, <2>2, <2>3
<1>3. b = SubSeq(Unread(c), 1, Len(b))
  BY <1>1, <1>2, IsFirst
<1>. QED BY <1>2, <1>3

LEMMA PeekedKept ==
  ASSUME NEW n \in Nat, NEW c, Good(c, n), NEW b \in Seq(Cell), Peeked(c, b),
         NEW e, NEW s, NEW k, Added(c, e, s, k), NEW p \in Nat, Good(e, p)
  PROVE  Peeked(e, b)
<1>1. Len(b) \in Nat /\ c.blockA.size \in Nat /\ c.blockA.size <= UsedSize(c) /\ e.blockA.size \in Nat
      /\ UsedSize(c) \in Nat
  <2>1. Fields(c, n) /\ Fields(e, p)
    BY GoodFields
  <2>2. Len(b) \in Nat
    BY LenProperties
  <2>3. c.blockA.size \in Nat /\ c.blockB.size \in Nat /\ UsedSize(c) = c.blockA.size + c.blockB.size
    BY <2>1 DEF Fields
  <2>4. e.blockA.size \in Nat
    BY <2>1 DEF Fields
  <2>. QED BY <2>2, <2>3, <2>4
<1>2. Len(b) <= e.blockA.size
  BY <1>1 DEF Peeked, Added
<1>3. \A j \in 1..Len(b) : j \in 1..UsedSize(c)
  BY <1>1 DEF Peeked
<1>. QED BY <1>2, <1>3 DEF Peeked, Added

LEMMA NothingPeeked ==
  ASSUME NEW n \in Nat, NEW c, Good(c, n)
  PROVE  Peeked(c, << >>)
BY GoodFields DEF Peeked, Fields

LEMMA NoBytes ==
  ASSUME NEW c, c.writeR = NoBlock
  PROVE  Bytes(c, c.writeR.index, c.writeR.size) = << >>
BY DEF Bytes, NoBlock
=============================================================================
