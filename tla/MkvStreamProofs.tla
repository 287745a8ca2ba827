--------------------------- MODULE MkvStreamProofs ---------------------------
(***************************************************************************)
(* The stream the application reads is the one libwebm wrote, and what     *)
(* makes a write fail, for every length of a block and of a read, every    *)
(* page size and every interleaving of the writer's two calls with reads.  *)
(*                                                                         *)
(* StreamIntact says of the stream as far as it is known what its next     *)
(* byte must not be; that the next byte is right rests on the numbers      *)
(* already sent being all smaller, on the position not having fallen       *)
(* behind as long as no write failed (Numbers), and on the buffer being    *)
(* Good, so that a write adds to the unread bytes and a read moves them.   *)
(* What Grow has made room for is still free when the block is stored,     *)
(* since reads in between only free more (Room).                           *)
(***************************************************************************)
EXTENDS MkvStream, BipBlocksProofs

\* The bytes sent so far are numbered below sent.
Numbers ==
  /\ position <= sent
  /\ sent + writing <= MaxSent
  /\ Stream \in Seq(0..(sent - 1))
  /\ ~failed => position = sent

\* The block that is being written fits, unless malloc has failed.
Room == writing > 0 /\ ~noMemory => UsedSize(ctx) + writing <= ctx.size

IInv ==
  /\ StreamIntact
  /\ ctx.size \in Nat \ {0} /\ Good(ctx, ctx.size)
  /\ Numbers
  /\ Room

-----------------------------------------------------------------------------
(* The stream as a sequence.                                               *)

LEMMA LastBytes ==
  ASSUME NEW S, NEW s \in Seq(S), NEW k \in 0..Len(s)
  PROVE  /\ SubSeq(s, 1, k) \in Seq(S) /\ SubSeq(s, k + 1, Len(s)) \in Seq(S)
         /\ SubSeq(s, 1, k) \o SubSeq(s, k + 1, Len(s)) = s
<1>1. Len(s) \in Nat /\ k \in Int /\ k + 1 \in Int
  BY LenProperties
<1>2. \A i \in 1..Len(s) : s[i] \in S
  BY ElementOfSeq
<1>3. SubSeq(s, 1, k) \in Seq(S)
  <2>1. \A i \in 1..k : s[i] \in S
    BY <1>1, <1>2
  <2>. QED BY <1>1, <2>1, SubSeqProperties
<1>4. SubSeq(s, k + 1, Len(s)) \in Seq(S)
  <2> DEFINE a == k + 1
  <2>1. a \in Int /\ \A i \in a..Len(s) : s[i] \in S
    BY <1>1, <1>2
  <2>. HIDE DEF a
  <2>2. SubSeq(s, a, Len(s)) \in Seq(S)
    BY <1>1, <2>1, SubSeqProperties
  <2>. QED BY <2>2 DEF a
<1>5. SubSeq(s, 1, k) \o SubSeq(s, k + 1, Len(s)) = SubSeq(s, 1, Len(s))
  <2>1. 1 \in 1..(Len(s) + 1) /\ k \in (1 - 1)..Len(s) /\ Len(s) \in k..Len(s)
    BY <1>1
  <2>. QED BY <2>1, ConcatAdjacentSubSeq
<1>. QED BY <1>3, <1>4, <1>5, SubSeqFull

\* A read moves bytes from the buffer to the application, and frees room.
LEMMA ReadMoves ==
  ASSUME NEW n \in Nat, NEW c, Good(c, n), NEW g \in Seq(Cell), NEW m \in Nat, NEW r, r = Read(c, m)
  PROVE  /\ Good(r.ctx, n)
         /\ g \o r.bytes \in Seq(Cell)
         /\ (g \o r.bytes) \o Unread(r.ctx) = g \o Unread(c)
         /\ UsedSize(r.ctx) <= UsedSize(c)
<1> DEFINE k == Least(m, UsedSize(c))
           q == Unread(c)
<1>1. UsedSize(c) \in Nat /\ k \in 0..UsedSize(c)
  <2>1. UsedSize(c) \in Nat
    BY GoodFields DEF Fields
  <2>. QED BY <2>1 DEF Least
<1>2. Good(r.ctx, n) /\ Dropped(c, r.ctx, k) /\ Got(c, r.bytes, k)
  BY ReadDrops
<1>3. q \in Seq(Cell) /\ Len(q) = UsedSize(c)
  BY UnreadIsAt
<1>. HIDE DEF k
<1>4. Unread(r.ctx) = SubSeq(q, k + 1, Len(q))
  BY <1>1, <1>2, DroppedRest
<1>5. r.bytes = SubSeq(q, 1, k)
  BY <1>1, <1>2, GotFirst
<1>. HIDE DEF q
<1>6. /\ r.bytes \in Seq(Cell) /\ Unread(r.ctx) \in Seq(Cell)
      /\ r.bytes \o Unread(r.ctx) = q
  <2>1. k \in 0..Len(q)
    BY <1>1, <1>3
  <2>2. /\ SubSeq(q, 1, k) \in Seq(Cell) /\ SubSeq(q, k + 1, Len(q)) \in Seq(Cell)
        /\ SubSeq(q, 1, k) \o SubSeq(q, k + 1, Len(q)) = q
    BY <1>3, <2>1, LastBytes
  <2>. QED BY <1>4, <1>5, <2>2
<1>7. g \o r.bytes \in Seq(Cell)
  BY <1>6, ConcatProperties
<1>8. (g \o r.bytes) \o Unread(r.ctx) = g \o (r.bytes \o Unread(r.ctx))
  <2> DEFINE b == r.bytes
             d == Unread(r.ctx)
  <2>1. b \in Seq(Cell) /\ d \in Seq(Cell)
    BY <1>6
  <2>. HIDE DEF b, d
  <2>2. (g \o b) \o d = g \o (b \o d)
    BY <2>1, ConcatAssociative
  <2>. QED BY <2>2 DEF b, d
<1>9. UsedSize(r.ctx) <= UsedSize(c)
  <2>1. UsedSize(r.ctx) = UsedSize(c) - k
    BY <1>2 DEF Dropped
  <2>. QED BY <1>1, <2>1
<1>. QED BY <1>2, <1>6, <1>7, <1>8, <1>9 DEF q

Ascending(s) == \A i \in 1..(Len(s) - 1) : s[i] < s[i + 1]

\* t is the ascending stream s with the first k of the next m bytes d.
Extends(t, s, a, d, m, k) ==
  /\ a \in Nat /\ m \in Nat /\ k \in 0..m
  /\ s \in Seq(0..(a - 1)) /\ Ascending(s)
  /\ d \in Seq(Int) /\ Len(d) = m /\ \A j \in 1..m : d[j] = a + j - 1
  /\ t = s \o SubSeq(d, 1, k)

\* What such a stream is, byte by byte.
Extended(t, s, a, m, k) ==
  /\ t \in Seq(0..(a + m - 1)) /\ Ascending(t)
  /\ Len(t) = Len(s) + k
  /\ \A i \in 1..Len(t) : t[i] = IF i <= Len(s) THEN s[i] ELSE a + (i - Len(s)) - 1

\* The next bytes extend an ascending stream of smaller ones.
LEMMA NextBytes ==
  ASSUME NEW t, NEW s, NEW a, NEW d, NEW m, NEW k, Extends(t, s, a, d, m, k)
  PROVE  Extended(t, s, a, m, k)
<1>. USE DEF Extends
<1> DEFINE f == SubSeq(d, 1, k)
           R == 0..(a + m - 1)
<1>1. Len(s) \in Nat /\ \A i \in 1..Len(s) : s[i] \in 0..(a - 1)
  BY LenProperties, ElementOfSeq
<1>2. 0..(a - 1) \subseteq R
  OBVIOUS
<1>3. s \in Seq(R)
  BY <1>2, SeqMonotonic
<1>4. f \in Seq(R) /\ Len(f) = k /\ \A j \in 1..k : f[j] = a + j - 1
  <2>1. k \in Int /\ k \in Nat /\ \A i \in 1..k : d[i] \in R
    OBVIOUS
  <2>. HIDE DEF R
  <2>2. /\ SubSeq(d, 1, k) \in Seq(R) /\ Len(SubSeq(d, 1, k)) = IF 1 <= k THEN k - 1 + 1 ELSE 0
        /\ \A i \in 1..(k - 1 + 1) : SubSeq(d, 1, k)[i] = d[1 + i - 1]
    BY <2>1, SubSeqProperties
  <2>3. k - 1 + 1 = k /\ (IF 1 <= k THEN k - 1 + 1 ELSE 0) = k
        /\ \A i \in 1..k : 1 + i - 1 = i /\ i \in 1..m
    BY <2>1
  <2>. QED BY <2>2, <2>3
<1>. HIDE DEF f
<1>5. t = s \o f
  BY DEF f
<1>6. /\ t \in Seq(R) /\ Len(t) = Len(s) + k
      /\ \A i \in 1..(Len(s) + k) : t[i] = IF i <= Len(s) THEN s[i] ELSE f[i - Len(s)]
  <2>. HIDE DEF R
  <2>. QED BY <1>3, <1>4, <1>5, ConcatProperties
<1>7. \A i \in 1..Len(t) : t[i] = IF i <= Len(s) THEN s[i] ELSE a + (i - Len(s)) - 1
  <2> SUFFICES ASSUME NEW i \in 1..Len(t), ~(i <= Len(s)) PROVE t[i] = a + (i - Len(s)) - 1
    BY <1>6
  <2>1. i - Len(s) \in 1..k
    BY <1>1, <1>6
  <2>. QED BY <1>4, <1>6, <2>1
<1>8. Ascending(t)
  <2> SUFFICES ASSUME NEW i \in 1..(Len(t) - 1) PROVE t[i] < t[i + 1]
    BY DEF Ascending
  <2>1. i \in Nat /\ i \in 1..Len(t) /\ i + 1 \in 1..Len(t)
    BY <1>1, <1>6
  <2>2. CASE i + 1 <= Len(s)
    <3>1. i \in 1..(Len(s) - 1) /\ t[i] = s[i] /\ t[i + 1] = s[i + 1]
      BY <1>1, <1>7, <2>1, <2>2
    <3>. QED BY <3>1 DEF Ascending
  <2>3. CASE i = Len(s)
    <3>1. t[i] = s[i] /\ s[i] \in 0..(a - 1) /\ t[i + 1] = a + (i + 1 - Len(s)) - 1
      BY <1>1, <1>7, <2>1, <2>3
    <3>. QED BY <1>1, <2>1, <2>3, <3>1
  <2>4. CASE i > Len(s)
    <3>1. t[i] = a + (i - Len(s)) - 1 /\ t[i + 1] = a + (i + 1 - Len(s)) - 1
      BY <1>1, <1>7, <2>1, <2>4, SMTT(60)
    <3>. QED BY <1>1, <2>1, <3>1
  <2>. QED BY <1>1, <2>1, <2>2, <2>3, <2>4
<1>. QED BY <1>6, <1>7, <1>8 DEF Extended

-----------------------------------------------------------------------------
(* Growing to the safe size leaves room for the block.                     *)

LEMMA SafeSizeRoom ==
  ASSUME NEW c, UsedSize(c) \in Nat, NEW m \in Nat
  PROVE  SafeSize(c, m) \in Nat /\ SafeSize(c, m) >= UsedSize(c) + m
<1> DEFINE u == UsedSize(c) + m
<1>1. u \in Nat /\ u % PageSize \in 0..(PageSize - 1) /\ PageSize \in Nat
  BY PageAssumption
<1>2. SafeSize(c, m) = IF u % PageSize = 0 THEN u ELSE u + PageSize - (u % PageSize)
  BY DEF SafeSize
<1>3. PICK x \in 0..(PageSize - 1) : x = u % PageSize
  BY <1>1
<1>4. SafeSize(c, m) = IF x = 0 THEN u ELSE u + PageSize - x
  BY <1>2, <1>3
<1>. HIDE DEF u
<1>5. SafeSize(c, m) \in Nat /\ SafeSize(c, m) >= u
  BY <1>1, <1>4
<1>. QED BY <1>5 DEF u

LEMMA GrowSize ==
  ASSUME NEW n \in Nat \ {0}, NEW c, Good(c, n), NEW m \in Nat, NEW alloc \in BOOLEAN, alloc = TRUE, NEW g, g = Grow(c, m, alloc)
  PROVE  g.ctx.size >= m
<1>1. PageAdjust(m) \in Nat /\ PageAdjust(m) >= m /\ c.size = n
  BY PageAdjustGrows DEF Good, Context
<1>2. CASE PageAdjust(m) <= c.size
  <2>1. g.ctx = c
    BY <1>2 DEF Grow
  <2>2. g.ctx.size = n /\ PageAdjust(m) <= n
    BY <1>1, <1>2, <2>1
  <2>3. n >= m
    BY <1>1, <2>2
  <2>. QED BY <2>2, <2>3
<1>3. CASE ~(PageAdjust(m) <= c.size)
  <2>1. g.ctx = Moved(c, PageAdjust(m))
    BY <1>3 DEF Grow
  <2>2. g.ctx = c \/ Good(g.ctx, PageAdjust(m))
    BY GrowGood
  <2>3. CASE Good(g.ctx, PageAdjust(m))
    BY <1>1, <2>3 DEF Good, Context
  <2>4. CASE g.ctx = c
    <3>1. g.ctx.size = PageAdjust(m)
      <4> DEFINE e == Clear(Read(c, UsedSize(c)).ctx)
      <4>1. Good(Read(c, UsedSize(c)).ctx, n)
        BY ReadGood, GoodFields DEF Fields
      <4>2. e \in Context(n)
        BY <4>1 DEF Good, Clear, Context, NoBlock, Block
      <4>. HIDE DEF e
      <4>3. \A b, a : [e EXCEPT !.size = PageAdjust(m), !.buffer = b, !.blockA = a].size = PageAdjust(m)
        BY <4>2 DEF Context
      <4>. QED BY <2>1, <4>3 DEF Moved, e
    <3>. QED BY <1>1, <3>1
  <2>. QED BY <2>2, <2>3, <2>4
<1>. QED BY <1>2, <1>3

-----------------------------------------------------------------------------
(* A block for which there is room in one piece, or in two that follow each *)
(* other in the ring, is stored whole.                                     *)

Fits(c, n, m) == Good(c, n) /\ ~Split(c) /\ UsedSize(c) + m <= n

After(c) == c.size - c.blockA.index - c.blockA.size

\* Where the first round begins.
LEMMA FitsFree ==
  ASSUME NEW n \in Nat, NEW c, NEW m \in Nat \ {0}, Fits(c, n, m)
  PROVE  /\ c.blockB.size = 0 /\ UsedSize(c) = c.blockA.size
         /\ \/ /\ After(c) > 0 /\ After(c) >= c.blockA.index
               /\ FreeRegion(c) = [index |-> EndOf(c.blockA), size |-> After(c)]
            \/ /\ After(c) = 0 /\ c.blockA.index >= m
               /\ FreeRegion(c) = [index |-> 0, size |-> c.blockA.index]
<1>1. /\ c.size = n /\ c.blockA.index \in Nat /\ c.blockA.size \in Nat /\ c.blockB.size \in Nat
      /\ c.blockA.index + c.blockA.size <= n /\ UsedSize(c) = c.blockA.size + c.blockB.size
  BY GoodFields DEF Fits, Fields
<1>2. PICK i \in Nat : i = c.blockA.index
  BY <1>1
<1>3. PICK z \in Nat : z = c.blockA.size
  BY <1>1
<1>4. After(c) = n - i - z /\ EndOf(c.blockA) = i + z
  BY <1>1, <1>2, <1>3 DEF After, EndOf
<1>5. c.blockB.size = 0 /\ ~(0 < n - (i + z) /\ n - (i + z) < i)
  BY <1>1, <1>2, <1>3, <1>4 DEF Fits, Split
<1>6. FreeRegion(c) = IF n - i - z >= i THEN [index |-> EndOf(c.blockA), size |-> n - i - z]
                                        ELSE [index |-> 0, size |-> i]
  BY <1>1, <1>2, <1>3, <1>5 DEF FreeRegion
<1>7. z + m <= n /\ i + z <= n
  BY <1>1, <1>2, <1>3, <1>5 DEF Fits
<1>8. CASE n - i - z >= i
  <2>1. n - i - z > 0
    BY <1>7, <1>8
  <2>. QED BY <1>1, <1>2, <1>3, <1>4, <1>5, <1>6, <1>8, <2>1
<1>9. CASE ~(n - i - z >= i)
  <2>1. n - i - z = 0 /\ i >= m
    BY <1>5, <1>7, <1>9
  <2>. QED BY <1>1, <1>2, <1>3, <1>4, <1>5, <1>6, <1>9, <2>1
<1>. QED BY <1>8, <1>9

LEMMA FitsReserve ==
  ASSUME NEW n \in Nat, NEW c, NEW m \in Nat \ {0}, Fits(c, n, m),
         NEW r, r = WriteTryReserve(c, m)
  PROVE  /\ Fits(r.ctx, n, m) /\ r.block
         /\ r.ctx.writeR.index = FreeRegion(c).index /\ r.ctx.writeR.size = r.reserved
         /\ r.reserved = Least(m, FreeRegion(c).size)
         /\ r.ctx.blockA = c.blockA /\ r.ctx.blockB = c.blockB
<1> DEFINE f == FreeRegion(c)
           k == Least(m, f.size)
           x == [index |-> f.index, size |-> k]
           d == [c EXCEPT !.writeR = x]
<1>1. f.size > 0 /\ c.blockB.size = 0
  <2>1. c.blockA.index \in Nat
    BY GoodFields DEF Fits, Fields
  <2>2. (f.size = After(c) /\ After(c) > 0) \/ (f.size = c.blockA.index /\ c.blockA.index >= m)
    BY FitsFree
  <2>. HIDE DEF f
  <2>3. f.size > 0
    BY <2>1, <2>2
  <2>. QED BY <2>3, FitsFree
<1>. HIDE DEF f
<1>2. r = [ctx |-> d, block |-> TRUE, reserved |-> k]
  BY <1>1 DEF WriteTryReserve, f
<1>3. c \in Context(n) /\ Good(r.ctx, n)
  BY WriteTryReserveGood DEF Fits, Good
<1>4. /\ r.ctx.blockA = c.blockA /\ r.ctx.blockB = c.blockB /\ r.ctx.size = c.size
      /\ r.ctx.writeR.index = f.index /\ r.ctx.writeR.size = k /\ r.block /\ r.reserved = k
  <2>1. x.index = f.index /\ x.size = k
    OBVIOUS
  <2>. HIDE DEF x, k
  <2>2. d.blockA = c.blockA /\ d.blockB = c.blockB /\ d.size = c.size /\ d.writeR = x
    BY <1>3 DEF Context
  <2>. HIDE DEF d
  <2>3. r.ctx = d /\ r.block /\ r.reserved = k
    BY <1>2
  <2>. QED BY <2>1, <2>2, <2>3
<1>5. Fits(r.ctx, n, m)
  BY <1>3, <1>4 DEF Fits, Split, UsedSize
<1>. QED BY <1>4, <1>5 DEF f

LEMMA CommitExtendsA ==
  ASSUME NEW n \in Nat, NEW c, Good(c, n), c.blockB.size = 0, c.writeR.index = EndOf(c.blockA),
         NEW k \in Nat, k > 0, Least(k, c.writeR.size) = k, NEW d, d = WriteCommit(c, k)
  PROVE  /\ d.blockA = [index |-> c.blockA.index, size |-> c.blockA.size + k]
         /\ d.blockB = c.blockB
<1> DEFINE A1 == [index |-> c.blockA.index, size |-> c.blockA.size + k]
           e == [c EXCEPT !.blockA = A1]
           f == [e EXCEPT !.writeR = NoBlock]
<1>1. /\ c \in Context(n) /\ c.blockA.size \in Nat /\ c.blockA.index \in Nat
      /\ UsedSize(c) = c.blockA.size /\ NoBlock \in Block
  BY GoodFields DEF Good, Fields, NoBlock, Block
<1>2. A1 \in Block
  BY <1>1 DEF Block
<1>3. UsedSize(c) = 0 => [index |-> c.writeR.index, size |-> k] = A1
  BY <1>1 DEF EndOf
<1>. HIDE DEF A1
<1>4. d = f \/ d = SetSignaledState(f, TRUE)
  <2>1. e = (IF k = 0 THEN c
             ELSE IF UsedSize(c) = 0
             THEN [c EXCEPT !.blockA = [index |-> c.writeR.index, size |-> k]]
             ELSE IF c.writeR.index = EndOf(c.blockA)
             THEN [c EXCEPT !.blockA = [index |-> c.blockA.index, size |-> c.blockA.size + k]]
             ELSE [c EXCEPT !.blockB = [index |-> c.blockB.index, size |-> c.blockB.size + k]])
    BY <1>3 DEF A1
  <2>. HIDE DEF e
  <2>. QED BY <2>1 DEF WriteCommit
<1>5. e \in Context(n) /\ e.blockA = A1 /\ e.blockB = c.blockB
  BY <1>1, <1>2 DEF Context
<1>. HIDE DEF e
<1>6. f \in Context(n) /\ f.blockA = A1 /\ f.blockB = c.blockB
  BY <1>1, <1>5 DEF Context
<1>. HIDE DEF f
<1>7. d.blockA = A1 /\ d.blockB = c.blockB
  BY <1>4, <1>6 DEF Context, SetSignaledState
<1>. QED BY <1>7 DEF A1

LEMMA RoundStores ==
  ASSUME NEW n \in Nat, NEW c, NEW data \in Seq(Byte), NEW m \in Nat \ {0}, Len(data) = m,
         Fits(c, n, m), NEW r, r = WriteRound(c, data)
  PROVE  /\ r.done = Least(m, FreeRegion(c).size) /\ Good(r.ctx, n)
         /\ FreeRegion(c).index = EndOf(c.blockA) =>
              /\ r.ctx.blockA = [index |-> c.blockA.index, size |-> c.blockA.size + r.done]
              /\ r.ctx.blockB.size = 0
<1>1. PICK t : t = WriteTryReserve(c, m)
  OBVIOUS
<1>2. PICK f : f = Fill(t.ctx, data, t.reserved)
  OBVIOUS
<1>3. /\ Fits(t.ctx, n, m) /\ t.block
      /\ t.ctx.writeR.index = FreeRegion(c).index /\ t.ctx.writeR.size = t.reserved
      /\ t.reserved = Least(m, FreeRegion(c).size)
      /\ t.ctx.blockA = c.blockA /\ t.ctx.blockB = c.blockB
  BY <1>1, FitsReserve
<1>4. r.ctx = WriteCommit(f, t.reserved) /\ r.done = t.reserved
  BY <1>1, <1>2, <1>3 DEF WriteRound
<1>5. Good(r.ctx, n)
  BY WriteRoundGood DEF Fits
<1>6. ASSUME FreeRegion(c).index = EndOf(c.blockA)
      PROVE  /\ r.ctx.blockA = [index |-> c.blockA.index, size |-> c.blockA.size + r.done]
             /\ r.ctx.blockB.size = 0
  <2> DEFINE k == t.reserved
  <2>1. Good(t.ctx, n) /\ k \in Nat /\ Region(t.ctx) /\ k <= m
    <3>1. k \in Nat /\ k <= m /\ Region(t.ctx)
      BY <1>1, <1>3, WriteTryReserveGood DEF Fits
    <3>. QED BY <1>3, <3>1 DEF Fits
  <2>2. c.blockB.size = 0 /\ UsedSize(c) = c.blockA.size
    BY FitsFree
  <2>3. /\ f.blockA = c.blockA /\ f.blockB = c.blockB /\ f.writeR = t.ctx.writeR
        /\ f \in Context(n)
    <3>1. PICK memory : f = [t.ctx EXCEPT !.buffer = memory]
      BY <1>2 DEF Fill
    <3>2. f.blockA = t.ctx.blockA /\ f.blockB = t.ctx.blockB /\ f.writeR = t.ctx.writeR
      BY <2>1, <3>1 DEF Good, Context
    <3>3. Good(f, n)
      BY <1>2, <2>1, FillGood
    <3>. QED BY <1>3, <3>2, <3>3 DEF Good
  <2>4. /\ c.blockA \in Block /\ c.blockA.size \in Nat /\ c.blockA.index \in Nat
        /\ c.blockB \in Block /\ f.writeR \in Block /\ NoBlock \in Block
    <3>1. f.writeR \in Block
      BY <2>3 DEF Context
    <3>. QED BY <3>1, GoodFields DEF Fits, Fields, NoBlock, Block
  <2>5. f.writeR.index = EndOf(c.blockA) /\ f.writeR.size = k
    BY <1>3, <1>6, <2>3
  <2>6. k > 0 /\ Least(k, f.writeR.size) = k
    <3>1. FreeRegion(c).size > 0
      <4>1. FreeRegion(c).index # 0 \/ UsedSize(c) = 0 \/ After(c) > 0
        BY <1>6, <2>2, <2>4 DEF EndOf
      <4>. QED BY <2>4, <4>1, FitsFree
    <3>. QED BY <1>3, <2>1, <2>5, <3>1 DEF Least
  <2>7. /\ r.ctx.blockA = [index |-> f.blockA.index, size |-> f.blockA.size + k]
        /\ r.ctx.blockB = f.blockB
    <3>1. Good(f, n) /\ f.blockB.size = 0 /\ f.writeR.index = EndOf(f.blockA)
      BY <1>2, <2>1, <2>2, <2>3, <2>5, FillGood
    <3>. HIDE DEF k
    <3>2. r.ctx = WriteCommit(f, k)
      BY <1>4 DEF k
    <3>. QED BY <2>1, <2>6, <3>1, <3>2, CommitExtendsA
  <2>. QED BY <1>4, <2>2, <2>3, <2>7
<1>. QED BY <1>3, <1>4, <1>5, <1>6

LEMMA OneBlockNotSplit ==
  ASSUME NEW n \in Nat, NEW c, Good(c, n), c.blockA.index = 0, c.blockB.size = 0
  PROVE  ~Split(c)
<1>1. Fields(c, n)
  BY GoodFields
<1>2. c.size - EndOf(c.blockA) \in Nat
  BY <1>1 DEF Fields, EndOf
<1>. QED BY <1>2 DEF Split

\* The capacity of a block that fits is grown without splitting the rest.
LEMMA GrownFits ==
  ASSUME NEW n \in Nat \ {0}, NEW c, NEW m \in Nat \ {0}, Fits(c, n, m),
         NEW alloc \in BOOLEAN, alloc = TRUE, NEW g, g = Grow(c, m, alloc)
  PROVE  g.ok /\ \E p \in Nat : Fits(g.ctx, p, m)
<1>1. g.ok
  BY DEF Grow
<1>2. CASE g.ctx = c
  BY <1>1, <1>2
<1>3. CASE g.ctx # c
  <2>1. Good(g.ctx, PageAdjust(m)) /\ PageAdjust(m) > n /\ PageAdjust(m) \in Nat
    BY <1>3, GrowGood, PageAdjustGrows DEF Fits
  <2>2. UsedSize(g.ctx) = UsedSize(c)
    <3>1. Good(c, n) /\ Same(c, g.ctx)
      BY GrowSame DEF Fits
    <3>. QED BY <2>1, <3>1, SameUnread
  <2>3. g.ctx = Moved(c, PageAdjust(m))
    BY <1>3 DEF Grow
  <2>4. g.ctx.blockA.index = 0 /\ g.ctx.blockB.size = 0
    <3> DEFINE d == Read(c, UsedSize(c)).ctx
               e == Clear(d)
    <3>1. Good(d, n)
      BY ReadGood, GoodFields DEF Fits, Fields
    <3>2. e \in Context(n) /\ e.blockB = NoBlock
      BY <3>1 DEF Good, Clear, Context, NoBlock, Block
    <3>. HIDE DEF e
    <3>3. PICK z, mem : g.ctx = [e EXCEPT !.size = PageAdjust(m), !.buffer = mem,
                                          !.blockA = [index |-> 0, size |-> z]]
      BY <2>3 DEF Moved, e
    <3> DEFINE a == [index |-> 0, size |-> z]
    <3>4. a.index = 0
      OBVIOUS
    <3>. HIDE DEF a
    <3>5. g.ctx = [e EXCEPT !.size = PageAdjust(m), !.buffer = mem, !.blockA = a]
      BY <3>3 DEF a
    <3>6. g.ctx.blockA = a /\ g.ctx.blockB = e.blockB
      BY <3>2, <3>5 DEF Context
    <3>. QED BY <3>2, <3>4, <3>6 DEF NoBlock
  <2>5. UsedSize(c) \in Nat /\ UsedSize(c) + m <= n
    BY GoodFields DEF Fits, Fields
  <2>6. UsedSize(g.ctx) + m <= PageAdjust(m)
    <3>1. PICK p \in Nat : p = PageAdjust(m) /\ p > n
      BY <2>1
    <3>2. PICK u \in Nat : u = UsedSize(c) /\ u + m <= n
      BY <2>5
    <3>3. u + m <= p
      BY <3>1, <3>2
    <3>. QED BY <2>2, <3>1, <3>2, <3>3
  <2>7. ~Split(g.ctx)
    BY <2>1, <2>4, OneBlockNotSplit
  <2>. QED BY <1>1, <2>1, <2>6, <2>7 DEF Fits
<1>. QED BY <1>2, <1>3

LEMMA RoundDone ==
  ASSUME NEW n \in Nat, NEW c, NEW data \in Seq(Byte), Len(data) > 0, Fits(c, n, Len(data))
  PROVE  WriteRound(c, data).done = Least(Len(data), FreeRegion(c).size)
<1>1. PICK m \in Nat \ {0} : m = Len(data)
  BY LenProperties
<1>2. PICK t : t = WriteTryReserve(c, m)
  OBVIOUS
<1>3. t.block /\ t.reserved = Least(m, FreeRegion(c).size)
  BY <1>1, <1>2, FitsReserve
<1>. QED BY <1>1, <1>2, <1>3 DEF WriteRound

LEMMA TwoRounds ==
  ASSUME NEW p \in Nat, NEW c, NEW data \in Seq(Byte), NEW m \in Nat \ {0}, Len(data) = m,
         Fits(c, p, m), NEW w1, w1 = WriteRound(c, data),
         NEW w2, w2 = WriteRound(w1.ctx, SubSeq(data, w1.done + 1, Len(data)))
  PROVE  w1.done = m \/ w1.done + w2.done = m
<1>1. PICK a \in Nat, z \in Nat : /\ a = c.blockA.index /\ z = c.blockA.size
                                  /\ c.size = p /\ a + z <= p
  <2>1. Fields(c, p)
    BY GoodFields DEF Fits
  <2>. QED BY <2>1 DEF Fields
<1>2. z + m <= p /\ After(c) = p - a - z /\ EndOf(c.blockA) = a + z
  BY <1>1, FitsFree DEF Fits, After, EndOf
<1>3. /\ w1.done = Least(m, FreeRegion(c).size) /\ Good(w1.ctx, p)
      /\ FreeRegion(c).index = EndOf(c.blockA) =>
           /\ w1.ctx.blockA = [index |-> a, size |-> z + w1.done]
           /\ w1.ctx.blockB.size = 0
  BY <1>1, RoundStores
<1>4. \/ p - a - z = 0 /\ a >= m /\ FreeRegion(c).size = a
      \/ /\ p - a - z > 0 /\ FreeRegion(c).size = p - a - z
         /\ FreeRegion(c).index = EndOf(c.blockA)
  <2>1. \/ /\ After(c) > 0
           /\ FreeRegion(c) = [index |-> EndOf(c.blockA), size |-> After(c)]
        \/ /\ After(c) = 0 /\ c.blockA.index >= m
           /\ FreeRegion(c) = [index |-> 0, size |-> c.blockA.index]
    BY FitsFree
  <2>2. CASE After(c) > 0 /\ FreeRegion(c) = [index |-> EndOf(c.blockA), size |-> After(c)]
    BY <1>2, <2>2
  <2>3. CASE /\ After(c) = 0 /\ c.blockA.index >= m
             /\ FreeRegion(c) = [index |-> 0, size |-> c.blockA.index]
    BY <1>1, <1>2, <2>3
  <2>. QED BY <2>1, <2>2, <2>3
<1>5. CASE w1.done # m
  <2>1. /\ w1.done = p - a - z /\ p - a - z < m /\ p - a - z > 0
        /\ FreeRegion(c).index = EndOf(c.blockA)
    BY <1>3, <1>4, <1>5 DEF Least
  <2>2. PICK k \in Nat \ {0} : k = w1.done /\ k = p - a - z /\ k < m
    BY <2>1
  <2>3. /\ w1.ctx.blockA.index = a /\ w1.ctx.blockA.size = z + k /\ w1.ctx.blockB.size = 0
        /\ w1.ctx.size = p
    BY <1>3, <2>1, <2>2 DEF Good, Context
  <2>4. a + (z + k) = p /\ m - k \in Nat \ {0} /\ z + k + (m - k) <= p /\ a >= m - k
    BY <1>2, <2>2
  <2>5. Fits(w1.ctx, p, m - k)
    <3>1. ~Split(w1.ctx)
      BY <2>2, <2>3, <2>4 DEF Split, EndOf
    <3>2. UsedSize(w1.ctx) + (m - k) <= p
      BY <2>2, <2>3, <2>4 DEF UsedSize
    <3>. QED BY <1>3, <3>1, <3>2 DEF Fits
  <2>6. FreeRegion(w1.ctx).size = a
    <3>1. After(w1.ctx) = 0
      BY <2>2, <2>3, <2>4 DEF After
    <3>. QED BY <2>3, <2>4, <2>5, <3>1, FitsFree
  <2>7. SubSeq(data, k + 1, m) \in Seq(Byte) /\ Len(SubSeq(data, k + 1, m)) = m - k
    <3>1. k + 1 \in Int /\ m \in Int /\ (IF k + 1 <= m THEN m - (k + 1) + 1 ELSE 0) = m - k
      BY <2>2
    <3>2. \A i \in (k + 1)..m : data[i] \in Byte
      BY ElementOfSeq
    <3> DEFINE b == k + 1
    <3>. HIDE DEF b
    <3>3. /\ SubSeq(data, b, m) \in Seq(Byte)
          /\ Len(SubSeq(data, b, m)) = IF b <= m THEN m - b + 1 ELSE 0
      <4>1. b \in Int /\ m \in Int /\ \A i \in b..m : data[i] \in Byte
        BY <3>1, <3>2 DEF b
      <4>. QED BY <4>1, SubSeqProperties
    <3>. QED BY <3>1, <3>3 DEF b
  <2>8. w2.done = Least(m - k, a)
    <3>1. w2 = WriteRound(w1.ctx, SubSeq(data, k + 1, m))
      BY <2>2
    <3>2. PICK b \in Seq(Byte) : b = SubSeq(data, k + 1, m) /\ Len(b) = m - k
      BY <2>7
    <3>3. PICK q \in Nat \ {0} : q = m - k
      BY <2>4
    <3>4. PICK e : e = w1.ctx
      OBVIOUS
    <3>5. w2 = WriteRound(e, b) /\ Len(b) = q /\ Fits(e, p, q)
      BY <2>5, <3>1, <3>2, <3>3, <3>4
    <3>6. Len(b) > 0 /\ Fits(e, p, Len(b))
      BY <3>3, <3>5
    <3>7. w2.done = Least(Len(b), FreeRegion(e).size)
      BY <3>5, <3>6, RoundDone
    <3>. QED BY <2>6, <3>3, <3>4, <3>5, <3>7
  <2>9. w2.done = m - k
    BY <2>4, <2>8 DEF Least
  <2>. QED BY <2>2, <2>9
<1>. QED BY <1>5

FitsData(c, n, data, m) ==
  /\ n \in Nat \ {0} /\ m \in Nat \ {0}
  /\ data \in Seq(Byte) /\ Len(data) = m
  /\ Fits(c, n, m)

LEMMA FitsIsWritten ==
  ASSUME NEW c, NEW n, NEW data, NEW m, FitsData(c, n, data, m),
         NEW alloc \in BOOLEAN, alloc = TRUE, NEW w, w = Write(c, data, alloc)
  PROVE  w.status = m
<1>. USE DEF FitsData
<1>1. PICK t : t = WriteReserve(c, m, alloc)
  OBVIOUS
<1>2. t.block /\ \E p \in Nat : Fits(t.ctx, p, m)
  <2>1. PICK first : first = WriteTryReserve(c, m)
    OBVIOUS
  <2>2. first.block /\ Fits(first.ctx, n, m)
    BY <2>1, FitsReserve
  <2>3. PICK g : g = Grow(first.ctx, m, alloc)
    OBVIOUS
  <2>4. PICK p \in Nat : g.ok /\ Fits(g.ctx, p, m)
    BY <2>2, <2>3, GrownFits
  <2>5. t = first \/ t = WriteTryReserve(g.ctx, m)
    BY <1>1, <2>1, <2>3, <2>4 DEF WriteReserve
  <2>6. CASE t = WriteTryReserve(g.ctx, m)
    BY <2>4, <2>6, FitsReserve
  <2>. QED BY <2>2, <2>5, <2>6
<1>3. PICK p \in Nat : Fits(t.ctx, p, m)
  BY <1>2
<1>4. PICK w1 : w1 = WriteRound(t.ctx, data)
  OBVIOUS
<1>5. PICK w2 : w2 = WriteRound(w1.ctx, SubSeq(data, w1.done + 1, Len(data)))
  OBVIOUS
<1>6. w.status = IF w1.done = m THEN w1.done ELSE w1.done + w2.done
  BY <1>1, <1>2, <1>4, <1>5 DEF Write
<1>7. w1.done = m \/ w1.done + w2.done = m
  BY <1>3, <1>4, <1>5, TwoRounds
<1>. QED BY <1>6, <1>7

-----------------------------------------------------------------------------
(* The steps.                                                              *)

LEMMA Before ==
  ASSUME IInv
  PROVE  /\ ctx.size \in Nat \ {0} /\ Good(ctx, ctx.size)
         /\ MaxBlock \in Nat /\ MaxSent \in Nat /\ writing \in 0..MaxBlock
         /\ position \in 0..MaxSent /\ sent \in 0..MaxSent
         /\ failed \in BOOLEAN /\ noMemory \in BOOLEAN /\ got \in Seq(Cell)
BY StreamAssumption DEF IInv, StreamIntact, TypeOK

\* A step that moves bytes from the buffer to the application.
LEMMA StreamStays ==
  ASSUME IInv, Stream' = Stream, UNCHANGED <<position, sent, failed>>,
         NEW n \in Nat, Good(ctx', n), ctx'.size > 0,
         writing' \in 0..MaxBlock, sent + writing' <= MaxSent,
         noMemory' \in BOOLEAN, got' \in Seq(Cell), Room'
  PROVE  IInv'
<1>1. ctx'.size = n /\ Good(ctx', ctx'.size) /\ ctx' \in Context(ctx'.size)
  BY DEF Good, Context
<1>2. TypeOK'
  BY <1>1, Before DEF TypeOK
<1>3. Ordered'
  BY DEF IInv, StreamIntact, Ordered
<1>4. (~failed => Stream = [i \in 1..position |-> i - 1])'
  BY DEF IInv, StreamIntact
<1>5. Numbers'
  BY DEF IInv, Numbers
<1>. QED BY <1>1, <1>2, <1>3, <1>4, <1>5 DEF IInv, StreamIntact

LEMMA NumberedBytes ==
  ASSUME NEW m \in Nat, sent \in Nat, sent + m <= MaxSent
  PROVE  /\ Numbered(m) \in Seq(Byte) /\ Numbered(m) \in Seq(Int) /\ Len(Numbered(m)) = m
         /\ \A j \in 1..m : Numbered(m)[j] = sent + j - 1
<1>1. \A j \in 1..m : sent + j - 1 \in 0..(MaxSent - 1)
  BY StreamAssumption
<1>2. \A j \in 1..m : sent + j - 1 \in Byte /\ sent + j - 1 \in Int
  BY <1>1, StreamAssumption
<1>. QED BY <1>2 DEF Numbered

LEMMA InitHolds == Init => IInv
<1> SUFFICES ASSUME Init PROVE IInv
  OBVIOUS
<1>1. PICK n \in 1..MaxInit : ctx = NewBuffer(PageAdjust(n))
  BY DEF Init
<1> DEFINE p == PageAdjust(n)
<1>2. p \in Nat \ {0}
  BY PageAdjustGrows, StreamAssumption
<1>. HIDE DEF p
<1>3. ctx \in Context(p) /\ ctx.size = p /\ ctx.blockA = NoBlock /\ ctx.blockB = NoBlock
  BY <1>1, <1>2 DEF p, NewBuffer, Context, Cell, Block, NoBlock
<1>4. Good(ctx, p)
  BY <1>2, <1>3 DEF Good, Apart, EndOf, NoBlock
<1>5. /\ writing = 0 /\ position = 0 /\ sent = 0 /\ failed = FALSE /\ noMemory = FALSE /\ got = << >>
  BY DEF Init
<1>6. UsedSize(ctx) = 0
  BY <1>3 DEF UsedSize, NoBlock
<1>7. Unread(ctx) \in Seq(Cell) /\ Len(Unread(ctx)) = 0
  BY <1>2, <1>4, <1>6, UnreadIsAt
<1>8. Stream = << >>
  BY <1>5, <1>7, ConcatEmptySeq, EmptySeq DEF Stream
<1>9. TypeOK
  <2>1. 0 \in 0..MaxBlock /\ 0 \in 0..MaxSent /\ << >> \in Seq(Cell)
    BY StreamAssumption
  <2>2. {failed, noMemory} \subseteq BOOLEAN
    BY <1>5
  <2>. QED BY <1>3, <1>5, <2>1, <2>2 DEF TypeOK
<1>10. Ordered
  BY <1>8 DEF Ordered
<1>11. Stream = [i \in 1..position |-> i - 1]
  BY <1>5, <1>8
<1>12. Numbers
  BY <1>5, <1>8, StreamAssumption DEF Numbers
<1>. QED BY <1>2, <1>3, <1>4, <1>5, <1>9, <1>10, <1>11, <1>12 DEF IInv, StreamIntact, Room

LEMMA GrowForBlockKeeps ==
  ASSUME IInv, NEW m \in 1..MaxBlock, NEW alloc \in Alloc, GrowForBlock(m, alloc)
  PROVE  IInv'
<1> DEFINE n == ctx.size
           size == SafeSize(ctx, m)
           g == Grow(ctx, size, alloc)
<1>1. /\ n \in Nat \ {0} /\ Good(ctx, n) /\ noMemory \in BOOLEAN /\ sent \in 0..MaxSent
      /\ MaxBlock \in Nat /\ MaxSent \in Nat /\ got \in Seq(Cell) /\ alloc \in BOOLEAN /\ m \in Nat
  BY Before, AllocAssumption
<1>. HIDE DEF n
<1>2. /\ writing = 0 /\ sent + m <= MaxSent /\ ctx' = g.ctx /\ writing' = m
      /\ noMemory' = (noMemory \/ ~alloc) /\ UNCHANGED <<position, sent, failed, got>>
  BY DEF GrowForBlock
<1>3. UsedSize(ctx) \in Nat /\ ctx.size = n
  <2>1. Fields(ctx, n)
    BY <1>1, GoodFields
  <2>. QED BY <2>1 DEF Fields
<1>4. size \in Nat /\ size >= UsedSize(ctx) + m
  BY <1>1, <1>3, SafeSizeRoom
<1>. HIDE DEF size
<1>5. \/ ctx' = ctx
      \/ Good(ctx', PageAdjust(size)) /\ PageAdjust(size) > n
  BY <1>1, <1>2, <1>4, GrowGood
<1>6. PICK p \in Nat \ {0} : Good(ctx', p)
  <2>1. PageAdjust(size) \in Nat
    BY <1>4, PageAdjustGrows
  <2>. QED BY <1>1, <1>5, <2>1
<1>7. Same(ctx, ctx')
  BY <1>1, <1>2, <1>4, GrowSame
<1>8. Unread(ctx') = Unread(ctx) /\ UsedSize(ctx') = UsedSize(ctx)
  BY <1>1, <1>6, <1>7, SameUnread
<1>9. Stream' = Stream
  BY <1>2, <1>8 DEF Stream
<1>10. Room'
  <2> SUFFICES ASSUME ~noMemory' PROVE UsedSize(ctx)' + m <= ctx'.size
    BY <1>2 DEF Room
  <2>1. alloc = TRUE
    BY <1>1, <1>2
  <2>2. ctx'.size >= size
    BY <1>1, <1>2, <1>4, <2>1, GrowSize
  <2>3. ctx'.size = p
    BY <1>6 DEF Good, Context
  <2>4. UsedSize(ctx') + m <= p
    BY <1>1, <1>3, <1>4, <1>8, <2>2, <2>3
  <2>. QED BY <2>3, <2>4 DEF UsedSize
<1>11. noMemory' \in BOOLEAN
  BY <1>1, <1>2
<1>12. ctx'.size > 0
  BY <1>6 DEF Good, Context
<1>. QED BY <1>1, <1>2, <1>6, <1>9, <1>10, <1>11, <1>12, StreamStays

LEMMA ReadStreamKeeps ==
  ASSUME IInv, NEW m \in 1..MaxRead, ReadStream(m)
  PROVE  IInv'
<1> DEFINE n == ctx.size
           r == Read(ctx, m)
<1>1. /\ n \in Nat \ {0} /\ Good(ctx, n) /\ noMemory \in BOOLEAN /\ writing \in 0..MaxBlock
      /\ got \in Seq(Cell) /\ m \in Nat /\ MaxBlock \in Nat
  BY Before, StreamAssumption
<1>. HIDE DEF n
<1>2. ctx' = r.ctx /\ got' = got \o r.bytes /\ UNCHANGED <<writing, position, sent, failed, noMemory>>
  BY DEF ReadStream
<1>3. /\ Good(r.ctx, n) /\ got \o r.bytes \in Seq(Cell)
      /\ (got \o r.bytes) \o Unread(r.ctx) = got \o Unread(ctx)
      /\ UsedSize(r.ctx) <= UsedSize(ctx)
  BY <1>1, ReadMoves, ZenonT(60)
<1>. HIDE DEF r
<1>4. Stream' = Stream /\ Good(ctx', n) /\ got' \in Seq(Cell) /\ UsedSize(ctx') <= UsedSize(ctx)
  BY <1>2, <1>3 DEF Stream
<1>5. ctx'.size = n /\ ctx.size = n /\ UsedSize(ctx) \in Nat /\ UsedSize(ctx') \in Nat
  <2>1. Fields(ctx, n) /\ Fields(ctx', n)
    BY <1>1, <1>4, GoodFields
  <2>. QED BY <2>1 DEF Fields
<1>6. Room'
  <2>1. Room
    BY DEF IInv
  <2>2. writing' = writing /\ noMemory' = noMemory /\ UsedSize(ctx)' = UsedSize(ctx')
    BY <1>2 DEF UsedSize
  <2>3. writing > 0 /\ ~noMemory => UsedSize(ctx') + writing <= n
    BY <1>1, <1>4, <1>5, <2>1 DEF Room
  <2>. QED BY <1>5, <2>2, <2>3 DEF Room
<1>7. sent + writing' <= MaxSent
  BY <1>2 DEF IInv, Numbers
<1>. QED BY <1>1, <1>2, <1>4, <1>5, <1>6, <1>7, StreamStays

LEMMA StoreBlockKeeps ==
  ASSUME IInv, NEW alloc \in Alloc, StoreBlock(alloc)
  PROVE  IInv'
<1> DEFINE n == ctx.size
           m == writing
           d == Numbered(m)
           w == Write(ctx, d, alloc)
<1>1. /\ n \in Nat \ {0} /\ Good(ctx, n) /\ noMemory \in BOOLEAN /\ sent \in 0..MaxSent
      /\ failed \in BOOLEAN /\ position \in 0..MaxSent
      /\ MaxBlock \in Nat /\ MaxSent \in Nat /\ got \in Seq(Cell) /\ alloc \in BOOLEAN
  BY Before, AllocAssumption
<1>2. m \in Nat /\ sent + m <= MaxSent /\ sent \in Nat /\ m > 0 /\ MaxBlock \in Nat
  BY Before DEF IInv, Numbers, StoreBlock
<1>3. /\ ctx' = w.ctx /\ position' = (IF w.status = m THEN position + m ELSE position)
      /\ failed' = (failed \/ w.status # m) /\ sent' = sent + m /\ writing' = 0
      /\ noMemory' = (noMemory \/ ~alloc) /\ got' = got
  BY DEF StoreBlock
<1>. HIDE DEF n, m
<1>4. d \in Seq(Byte) /\ d \in Seq(Int) /\ Len(d) = m /\ \A j \in 1..m : d[j] = sent + j - 1
  BY <1>2, NumberedBytes
<1>. HIDE DEF d
<1>5. \/ w.status = -1 /\ Same(ctx, w.ctx)
      \/ w.status \in 0..m /\ Added(ctx, w.ctx, d, w.status)
  BY <1>1, <1>4, WriteAdds
<1>6. PICK p \in Nat \ {0} : Good(w.ctx, p)
  <2>1. Good(w.ctx, n) \/ (Good(w.ctx, PageAdjust(Len(d))) /\ PageAdjust(Len(d)) > n)
    BY <1>1, <1>4, WriteGood
  <2>2. PageAdjust(Len(d)) \in Nat
    BY <1>2, <1>4, PageAdjustGrows
  <2>. QED BY <1>1, <2>1, <2>2
<1>. HIDE DEF w
<1>7. PICK k \in 0..m : /\ Unread(ctx') = Unread(ctx) \o SubSeq(d, 1, k)
                        /\ w.status = m <=> k = m
  <2>1. CASE w.status = -1 /\ Same(ctx, w.ctx)
    <3>1. Unread(w.ctx) = Unread(ctx) /\ Unread(ctx) \in Seq(Cell)
      BY <1>1, <1>6, <2>1, SameUnread, UnreadIsAt
    <3>2. SubSeq(d, 1, 0) = << >>
      BY SubSeqEmpty
    <3>3. Unread(ctx) \o << >> = Unread(ctx)
      BY <3>1, ConcatEmptySeq
    <3>4. 0 \in 0..m /\ w.status # m /\ 0 # m
      BY <1>2, <2>1
    <3>. QED BY <1>3, <3>1, <3>2, <3>3, <3>4
  <2>2. CASE w.status \in 0..m /\ Added(ctx, w.ctx, d, w.status)
    <3>1. d \in Seq(Cell)
      BY <1>4, SeqMonotonic DEF Cell
    <3>2. PICK k \in 0..Len(d) : k = w.status
      BY <1>4, <2>2
    <3>3. PICK e : e = w.ctx
      OBVIOUS
    <3>4. Good(e, p) /\ Added(ctx, e, d, k) /\ p \in Nat
      BY <1>6, <2>2, <3>2, <3>3
    <3>5. Unread(e) = Unread(ctx) \o SubSeq(d, 1, k)
      BY <1>1, <3>1, <3>2, <3>4, AddedAppends, SMTT(60)
    <3>. QED BY <1>3, <1>4, <3>2, <3>3, <3>5
  <2>. QED BY <1>5, <2>1, <2>2
<1>8. Stream' = Stream \o SubSeq(d, 1, k)
  <2>1. Unread(ctx) \in Seq(Cell)
    BY <1>1, UnreadIsAt
  <2>2. d \in Seq(Cell) /\ k \in 0..Len(d)
    BY <1>4, <1>7, SeqMonotonic DEF Cell
  <2>3. SubSeq(d, 1, k) \in Seq(Cell)
    BY <2>2, FirstBytes
  <2>4. (got \o Unread(ctx)) \o SubSeq(d, 1, k) = got \o (Unread(ctx) \o SubSeq(d, 1, k))
    <3> DEFINE q == Unread(ctx)
               f == SubSeq(d, 1, k)
    <3>1. q \in Seq(Cell) /\ f \in Seq(Cell)
      BY <2>1, <2>3
    <3>. HIDE DEF q, f
    <3>2. (got \o q) \o f = got \o (q \o f)
      BY <1>1, <3>1, ConcatAssociative
    <3>. QED BY <3>2 DEF q, f
  <2>. QED BY <1>3, <1>7, <2>4 DEF Stream
<1>9. Stream \in Seq(0..(sent - 1)) /\ Ascending(Stream)
  BY DEF IInv, Numbers, StreamIntact, Ordered, Ascending
<1>10. /\ Stream' \in Seq(0..(sent + m - 1)) /\ Ascending(Stream')
       /\ Len(Stream') = Len(Stream) + k
       /\ \A i \in 1..Len(Stream') : Stream'[i] = IF i <= Len(Stream) THEN Stream[i]
                                                  ELSE sent + (i - Len(Stream)) - 1
  <2> DEFINE s == Stream
             t == Stream'
  <2>1. s \in Seq(0..(sent - 1)) /\ Ascending(s) /\ t = s \o SubSeq(d, 1, k)
    BY <1>8, <1>9
  <2>. HIDE DEF s, t
  <2>2. /\ t \in Seq(0..(sent + m - 1)) /\ Ascending(t) /\ Len(t) = Len(s) + k
        /\ \A i \in 1..Len(t) : t[i] = IF i <= Len(s) THEN s[i] ELSE sent + (i - Len(s)) - 1
    <3>1. Extends(t, s, sent, d, m, k)
      BY <1>2, <1>4, <1>7, <2>1 DEF Extends
    <3>2. Extended(t, s, sent, m, k)
      BY <3>1, NextBytes
    <3>. QED BY <3>2 DEF Extended
  <2>. QED BY <2>2 DEF s, t
<1>11. Ordered'
  <2>1. \A i \in 1..Len(Stream') : Stream'[i] \in 0..(sent + m - 1)
    BY <1>10, ElementOfSeq
  <2>2. \A i \in 1..Len(Stream') : Stream'[i] < sent'
    BY <1>2, <1>3, <2>1
  <2>. QED BY <1>10, <2>2 DEF Ordered, Ascending
<1>12. (~failed => Stream = [i \in 1..position |-> i - 1])'
  <2> SUFFICES ASSUME ~failed' PROVE Stream' = [i \in 1..position' |-> i - 1]
    OBVIOUS
  <2>1. ~failed /\ k = m /\ position' = position + m
    BY <1>1, <1>3, <1>7
  <2>2. Stream = [i \in 1..position |-> i - 1] /\ position = sent /\ position \in Nat
    BY <1>1, <2>1 DEF IInv, StreamIntact, Numbers
  <2>3. Len(Stream) = position
    BY <2>2
  <2>4. Len(Stream') = position' /\ \A i \in 1..position' : Stream'[i] = i - 1
    BY <1>2, <1>10, <2>1, <2>2, <2>3
  <2>5. Stream' = [i \in 1..Len(Stream') |-> Stream'[i]]
    BY <1>10
  <2>. QED BY <2>4, <2>5
<1>13. Numbers'
  <2>1. position' \in Nat /\ position' <= sent' /\ (~failed' => position' = sent')
    <3>1. position <= sent /\ (~failed => position = sent)
      BY DEF IInv, Numbers
    <3>2. CASE w.status = m
      <4>1. position' = position + m /\ sent' = sent + m /\ (~failed' => ~failed)
        BY <1>3, <3>2
      <4>. QED BY <1>1, <1>2, <3>1, <4>1
    <3>3. CASE w.status # m
      <4>1. position' = position /\ sent' = sent + m /\ failed'
        BY <1>3, <3>3
      <4>. QED BY <1>1, <1>2, <3>1, <4>1
    <3>. QED BY <3>2, <3>3
  <2>. QED BY <1>2, <1>3, <1>10, <2>1 DEF Numbers
<1>14. /\ Good(ctx', ctx'.size) /\ ctx'.size \in Nat \ {0}
       /\ ctx' \in Context(ctx'.size)
  BY <1>3, <1>6 DEF Good, Context
<1>15. TypeOK'
  <2>1. position' \in 0..MaxSent /\ sent' \in 0..MaxSent
    BY <1>1, <1>2, <1>3 DEF IInv, Numbers
  <2>2. writing' \in 0..MaxBlock /\ failed' \in BOOLEAN /\ noMemory' \in BOOLEAN
    BY <1>1, <1>3
  <2>. QED BY <1>1, <1>3, <1>14, <2>1, <2>2 DEF TypeOK
<1>16. Room'
  BY <1>3 DEF Room
<1>. QED BY <1>11, <1>12, <1>13, <1>14, <1>15, <1>16 DEF IInv, StreamIntact

LEMMA Inductive == Spec => []IInv
<1>1. IInv /\ [Next]_vars => IInv'
  <2> SUFFICES ASSUME IInv, [Next]_vars PROVE IInv'
    OBVIOUS
  <2>1. CASE Next
    BY <2>1, GrowForBlockKeeps, StoreBlockKeeps, ReadStreamKeeps DEF Next
  <2>2. CASE UNCHANGED vars
    BY <2>2 DEF vars, IInv, StreamIntact, TypeOK, Ordered, Numbers, Room, Stream
  <2>. QED BY <2>1, <2>2
<1>. QED BY <1>1, InitHolds, PTL DEF Spec

\* As long as no write has failed the application gets exactly what libwebm
\* wrote, and the position libwebm computes offsets from counts these bytes;
\* failed writes leave gaps and nothing worse.
THEOREM StreamStaysIntact == Spec => []StreamIntact
<1>1. IInv => StreamIntact
  BY DEF IInv
<1>. QED BY <1>1, Inductive, PTL

\* Because XmfMkvWriter_Write grows the buffer first, a write can fail only
\* when the free space is split or when malloc has failed, whatever was read
\* between the two calls.
THEOREM WritesFailOnlyWhenSplit == Spec => FailsOnlyWhenSplit
<1>1. ASSUME IInv, NEW alloc \in BOOLEAN, StoreBlock(alloc), position' # position + writing
      PROVE  Split(ctx) \/ noMemory'
  <2> SUFFICES ASSUME ~Split(ctx), ~noMemory' PROVE FALSE
    OBVIOUS
  <2> DEFINE n == ctx.size
             m == writing
             d == Numbered(m)
             w == Write(ctx, d, alloc)
  <2>1. noMemory' = (noMemory \/ ~alloc) /\ position' = (IF w.status = m THEN position + m ELSE position)
    BY <1>1 DEF StoreBlock
  <2>2. alloc = TRUE /\ ~noMemory
    BY <1>1, <2>1, Before
  <2>3. /\ n \in Nat \ {0} /\ Good(ctx, n) /\ m \in Nat \ {0} /\ sent \in Nat /\ sent + m <= MaxSent
        /\ UsedSize(ctx) + m <= n
    BY <1>1, <2>2, Before DEF IInv, Numbers, Room, StoreBlock
  <2>4. d \in Seq(Byte) /\ Len(d) = m
    BY <2>3, NumberedBytes
  <2>. HIDE DEF d, m, n
  <2>5. Fits(ctx, n, m)
    BY <2>3 DEF Fits
  <2>6. w.status = m
    <3>1. alloc \in BOOLEAN /\ alloc = TRUE /\ FitsData(ctx, n, d, m)
      BY <1>1, <2>2, <2>3, <2>4, <2>5 DEF FitsData
    <3>2. \A y : y = Write(ctx, d, alloc) => y.status = m
      BY <3>1, FitsIsWritten, ZenonT(60)
    <3>. QED BY <3>2
  <2>. QED BY <1>1, <2>1, <2>6 DEF m
<1>2. IInv /\ [Next]_vars =>
        [ (StoreBlock(TRUE) \/ StoreBlock(FALSE)) /\ position' # position + writing
            => Split(ctx) \/ noMemory' ]_vars
  BY <1>1
<1>. QED BY <1>2, Inductive, PTL DEF Spec, FailsOnlyWhenSplit
=============================================================================
