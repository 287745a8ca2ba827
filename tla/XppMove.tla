------------------------------- MODULE XppMove -------------------------------
(***************************************************************************)
(* The block copy primitives of libxpp: Copy between two images, Move       *)
(* inside one image where the two blocks may overlap, in their generic form *)
(* (memcpy and memmove, a row at a time) and in their SIMD form (SSE2 and   *)
(* NEON: 32, 16 and 8 pixels through registers, then single pixels).        *)
(*                                                                         *)
(* Memory is a row of pixels, each holding the address its content had at  *)
(* the beginning; an image is a base address and a pitch in it.             *)
(***************************************************************************)
EXTENDS Integers

CONSTANTS Pitch,    \* pixels per row of the image (nStep / 4)
          Lines,    \* rows of the image
          Sizes,    \* the <<nWidth, nHeight>> of the blocks
          Shifts,   \* by how much a block is moved: <<dx, dy>>
          Kernels   \* "generic" and "simd", the two implementations

MoveAssumption ==
    /\ Pitch \in Nat \ {0} /\ Lines \in Nat \ {0} /\ Kernels \subseteq {"generic", "simd"}
    /\ Sizes \subseteq Nat \X Nat /\ Shifts \subseteq Int \X Int

VARIABLES job,   \* the call: kernel, blocks' origins, pitches and size
          mem,   \* what each pixel of memory holds
          way,   \* "start", "forward", "backward" or "done"
          src,   \* pSrcPixel
          dst,   \* pDstPixel
          x,     \* pixels left in the row
          rows   \* rows left (nHeight)

vars == <<job, mem, way, src, dst, x, rows>>

\* Two images one after the other: Copy reads the second one.
Memory == 0 .. 2 * Pitch * Lines - 1
Other == Pitch * Lines

Inside(px, py, w, h) == px >= 0 /\ py >= 0 /\ px + w <= Pitch /\ py + h <= Lines

MoveJobs ==
    {[op |-> "move", kernel |-> k, w |-> s[1], h |-> s[2],
      from |-> fy * Pitch + fx, to |-> (fy + d[2]) * Pitch + fx + d[1]] :
        k \in Kernels, s \in Sizes, d \in Shifts, fx \in 0 .. Pitch - 1, fy \in 0 .. Lines - 1}

CopyJobs ==
    {[op |-> "copy", kernel |-> k, w |-> s[1], h |-> s[2],
      from |-> Other + fy * Pitch + fx, to |-> fx] :
        k \in Kernels, s \in Sizes, fx \in 0 .. 1, fy \in 0 .. 1}

\* A block lies inside its image, its rows do not wrap around.
Fits(a, j) == Inside((a % Other) % Pitch, (a % Other) \div Pitch, j.w, j.h)

Init ==
    /\ job \in {j \in MoveJobs \cup CopyJobs :
                   /\ j.from \in Memory /\ Fits(j.from, j)
                   /\ j.to \in 0 .. Other - 1 /\ Fits(j.to, j)}
    /\ mem = [a \in Memory |-> a]
    /\ way = "start"
    /\ src = job.from /\ dst = job.to /\ x = 0 /\ rows = 0

LastRow == (job.h - 1) * Pitch

-----------------------------------------------------------------------------
Xpp_Copy ==
    /\ way = "start" /\ job.op = "copy"
    /\ way' = "forward" /\ src' = job.from /\ dst' = job.to
    /\ x' = job.w /\ rows' = job.h
    /\ UNCHANGED <<job, mem>>

\* Mutant: the blocks are always copied in rising order.
MoveForward ==
    /\ way = "start" /\ job.op = "move" /\ job.kernel = "simd"
    /\ way' = "forward" /\ src' = job.from /\ dst' = job.to
    /\ x' = job.w /\ rows' = job.h
    /\ UNCHANGED <<job, mem>>

\* The ends of the last rows are compared; a block that moves to lower
\* addresses is copied from its beginning, another one from its end.
Xpp_Move_simd ==
    /\ way = "start" /\ job.op = "move" /\ job.kernel = "simd"
    /\ IF job.from > job.to
       THEN way' = "forward" /\ src' = job.from /\ dst' = job.to
       ELSE /\ way' = "backward"
            /\ src' = job.from + LastRow + job.w /\ dst' = job.to + LastRow + job.w
    /\ x' = job.w /\ rows' = job.h
    /\ UNCHANGED <<job, mem>>

\* The generic kernel starts at the last row and keeps row beginnings.
Xpp_Move_generic ==
    /\ way = "start" /\ job.op = "move" /\ job.kernel = "generic"
    /\ IF job.from > job.to
       THEN way' = "forward" /\ src' = job.from /\ dst' = job.to
       ELSE way' = "backward" /\ src' = job.from + LastRow /\ dst' = job.to + LastRow
    /\ x' = job.w /\ rows' = job.h
    /\ UNCHANGED <<job, mem>>

\* n pixels loaded into registers, then all stored.
Stored(m, from, to, n) == [a \in Memory |-> IF a \in to .. to + n - 1 THEN m[from + a - to] ELSE m[a]]

\* memcpy of a row onto itself is undefined: what comes out depends on the
\* order it copies in, from the first pixel or from the last.
Rising(m, from, to, n) ==
    LET at[i \in 0 .. n] == IF i = 0 THEN m ELSE LET b == at[i - 1] IN [b EXCEPT ![to + i - 1] = b[from + i - 1]]
    IN  at[n]
Falling(m, from, to, n) ==
    LET at[i \in 0 .. n] == IF i = 0 THEN m ELSE LET b == at[i - 1] IN [b EXCEPT ![to + n - i] = b[from + n - i]]
    IN  at[n]

Xpp_Copy_row ==
    /\ way = "forward" /\ job.kernel = "generic" /\ rows > 0
    /\ mem' \in {Rising(mem, src, dst, job.w), Falling(mem, src, dst, job.w)}
    /\ src' = src + Pitch /\ dst' = dst + Pitch /\ rows' = rows - 1
    /\ UNCHANGED <<job, way, x>>

Xpp_Move_row ==
    /\ way = "backward" /\ job.kernel = "generic" /\ rows > 0
    /\ mem' = Stored(mem, src, dst, job.w)
    /\ src' = src - Pitch /\ dst' = dst - Pitch /\ rows' = rows - 1
    /\ UNCHANGED <<job, way, x>>

-----------------------------------------------------------------------------
\* DOCOPY: the widest registers first, the remainder pixel by pixel.
CopyWidth(left) == IF left >= 32 THEN 32 ELSE IF left >= 16 THEN 16 ELSE IF left >= 8 THEN 8 ELSE 1

DoCopy ==
    /\ way = "forward" /\ job.kernel = "simd" /\ rows > 0 /\ x > 0
    /\ LET n == CopyWidth(x)
       IN  /\ mem' = Stored(mem, src, dst, n)
           /\ src' = src + n /\ dst' = dst + n /\ x' = x - n
    /\ UNCHANGED <<job, way, rows>>

\* DOMOVE: from the right, the remainder first and the widest registers last.
MoveWidth(left) == IF left % 8 # 0 THEN 1 ELSE IF left % 16 # 0 THEN 8 ELSE IF left % 32 # 0 THEN 16 ELSE 32

DoMove ==
    /\ way = "backward" /\ job.kernel = "simd" /\ rows > 0 /\ x > 0
    /\ LET n == MoveWidth(x)
       IN  /\ mem' = Stored(mem, src - n, dst - n, n)
           /\ src' = src - n /\ dst' = dst - n /\ x' = x - n
    /\ UNCHANGED <<job, way, rows>>

\* Mutant: the remainder is added whichever way the rows go.
NextRowForward ==
    /\ way \in {"forward", "backward"} /\ job.kernel = "simd" /\ rows > 0 /\ x = 0
    /\ src' = src + (Pitch - job.w) /\ dst' = dst + (Pitch - job.w)
    /\ x' = job.w /\ rows' = rows - 1
    /\ UNCHANGED <<job, mem, way>>

\* The end of a row adds or takes away what is left of the pitch.
NextRow ==
    /\ way \in {"forward", "backward"} /\ job.kernel = "simd" /\ rows > 0 /\ x = 0
    /\ LET remainder == IF way = "forward" THEN Pitch - job.w ELSE job.w - Pitch
       IN  src' = src + remainder /\ dst' = dst + remainder
    /\ x' = job.w /\ rows' = rows - 1
    /\ UNCHANGED <<job, mem, way>>

Return ==
    /\ way \in {"forward", "backward"} /\ rows = 0
    /\ way' = "done"
    /\ UNCHANGED <<job, mem, src, dst, x, rows>>

Next ==
    \/ Xpp_Copy \/ Xpp_Move_simd \/ Xpp_Move_generic
    \/ Xpp_Copy_row \/ Xpp_Move_row \/ DoCopy \/ DoMove \/ NextRow \/ Return

Spec == Init /\ [][Next]_vars

-----------------------------------------------------------------------------
\* Where the pixel of the destination came from, if it is in the block.
InBlock(a) == a >= job.to /\ (a - job.to) \div Pitch < job.h /\ (a - job.to) % Pitch < job.w
Wanted(a) == IF InBlock(a) THEN a - job.to + job.from ELSE a

\* The blocks share a row and the destination begins left of the source in it.
SelfCopy == job.kernel = "generic" /\ job.op = "move" /\ job.from > job.to /\ job.from - job.to < job.w

\* When a call returns, the destination holds what the source held when the
\* call was made, whatever the overlap, and nothing else has changed; the one
\* exception is the generic Move onto a block less than its width to the left,
\* which is a memcpy between overlapping rows.
BlockArrives == way = "done" /\ ~SelfCopy => \A a \in Memory : mem[a] = Wanted(a)

\* At every step no pixel has been overwritten that is still to be read: the
\* source pixels of the rows and columns that are left hold their content.
Unread(a) ==
    IF way = "forward" THEN a >= src
    ELSE a < src + (IF job.kernel = "simd" THEN 0 ELSE job.w)
InSource(a) == a >= job.from /\ (a - job.from) \div Pitch < job.h /\ (a - job.from) % Pitch < job.w
NothingLostAhead ==
    way \in {"forward", "backward"} /\ rows > 0 /\ ~SelfCopy =>
        \A a \in Memory : InSource(a) /\ Unread(a) => mem[a] = a
=============================================================================
