-------------------------------- MODULE MCXpp --------------------------------
(***************************************************************************)
(* One instance of every part of libxpp: the comparison kernels, copy and    *)
(* move, the colour codings, the walks through the images and the table of   *)
(* primitives.  The parts share no state (a behaviour is one of them), so    *)
(* one run checks them all; the sizes lie on both sides of each tile, word   *)
(* and register width, and the shifts move a block by less and by more than  *)
(* a register, in a row and across rows, to either side.                     *)
(***************************************************************************)
EXTENDS Integers

CONSTANTS CompareWidths, CompareHeights, ChangeColumns, ChangeRows,  \* images to compare
          Pitch, Lines, Sizes, Shifts,  \* blocks to move
          Samples,                      \* channel values to code
          WalkWidths, WalkHeights, Slack, WalkKernels,   \* images to walk
          Threads, WithSimd, WithHalide, ForceNone, ProbeWays, MaxOverrides

VARIABLES part, img, out, job, mem, way, src, dst, x, rows, block, there, coded, shown,
          ptr, lower, touched, initialized, table, simd, probe, at, left, overrides

Compare ==
    INSTANCE XppCompare WITH Widths <- CompareWidths, Heights <- CompareHeights,
                             Columns <- ChangeColumns, Rows <- ChangeRows
Move == INSTANCE XppMove WITH Kernels <- {"generic", "simd"}
Color == INSTANCE XppColor
Walk == INSTANCE XppWalk WITH Widths <- WalkWidths, Heights <- WalkHeights, Kernels <- WalkKernels
Primitives == INSTANCE XppPrimitives

ASSUME ParametersAreSound ==
    /\ Compare!SizesAssumption /\ Move!MoveAssumption /\ Color!SamplesAssumption
    /\ Walk!WalkAssumption /\ Primitives!BuildAssumption

compares == <<img, out>>
copies == <<mem, src, dst>>
walks == <<job, way, x, rows>>  \* copy and move and the walks of the other kernels
colors == <<block, there, coded, shown>>
planes == <<ptr, lower, touched>>
tables == <<initialized, table, simd, probe, at, left, overrides>>
vars == <<part, compares, copies, walks, colors, planes, tables>>

NoCompares == img = 0 /\ out = 0
NoCopies == mem = 0 /\ src = 0 /\ dst = 0
NoWalks == job = 0 /\ way = 0 /\ x = 0 /\ rows = 0
NoColors == block = 0 /\ there = 0 /\ coded = 0 /\ shown = 0
NoPlanes == ptr = 0 /\ lower = 0 /\ touched = 0
NoTables == /\ initialized = 0 /\ table = 0 /\ simd = 0 /\ probe = 0
            /\ at = 0 /\ left = 0 /\ overrides = 0

Init ==
    \/ part = "compare" /\ Compare!Init /\ NoCopies /\ NoWalks /\ NoColors /\ NoPlanes /\ NoTables
    \/ part = "move" /\ Move!Init /\ NoCompares /\ NoColors /\ NoPlanes /\ NoTables
    \/ part = "color" /\ Color!Init /\ NoCompares /\ NoCopies /\ NoWalks /\ NoPlanes /\ NoTables
    \/ part = "walk" /\ Walk!Init /\ NoCompares /\ NoCopies /\ NoColors /\ NoTables
    \/ part = "primitives" /\ Primitives!Init /\ NoCompares /\ NoCopies /\ NoWalks /\ NoColors /\ NoPlanes

NextCompare == part = "compare" /\ Compare!Next /\ UNCHANGED <<part, copies, walks, colors, planes, tables>>
NextMove == part = "move" /\ Move!Next /\ UNCHANGED <<part, compares, colors, planes, tables>>
NextColor == part = "color" /\ Color!Next /\ UNCHANGED <<part, compares, copies, walks, planes, tables>>
NextWalk == part = "walk" /\ Walk!Next /\ UNCHANGED <<part, compares, copies, colors, tables>>
NextPrimitives ==
    part = "primitives" /\ Primitives!Next /\ UNCHANGED <<part, compares, copies, walks, colors, planes>>

Next == NextCompare \/ NextMove \/ NextColor \/ NextWalk \/ NextPrimitives

Spec == Init /\ [][Next]_vars

-----------------------------------------------------------------------------
\* The kernels that read every pixel report every change, in a rectangle no
\* larger than their grid makes it, and the SSE2 and NEON kernels of 32-bit
\* pixels miss exactly the tail of a cut tile (XppCompare.c, simd/XppCompare_*).
ChangesReported ==
    part = "compare" =>
        Compare!EveryChangeReported /\ Compare!RectangleIsTight /\ Compare!SimdMissesOnlyTheTail

\* Copy and Move leave in the destination what the source held when they were
\* called, and overwrite at no step a pixel they still have to read.
BlockArrives == part = "move" => Move!BlockArrives /\ Move!NothingLostAhead

\* The codings stay in the ranges of their planes, the 16-bit ones lose nothing
\* whichever kernels are paired, the generic, SSE2, NEON and Halide kernels of
\* YCoCg-R 4:2:0 give the same bytes although they wrap, saturate and round in
\* different places, and subsampling costs no more than is stated in XppColor (in
\* YCbCr, 4 in a whole block and half or three quarters of the colour at an odd
\* edge), nor does alpha.
ColorsKept ==
    part = "color" =>
        /\ Color!TypeOK
        /\ Color!Lossless
        /\ Color!KernelsEncodeAlike /\ Color!KernelsDecodeAlike
        /\ Color!UniformBlockKept /\ Color!AlphaUndone

\* Every kernel converts a pixel with the samples of the same pixel, inside the
\* image, and leaves out nothing but what is stated in XppWalk.
SamePixel == part = "walk" => Walk!SamePixel /\ Walk!NothingLeftOut

\* However many threads filled it, the table holds the best kernel of the build
\* in every entry once no thread is at it, and SIMD_FORCENONE holds.
TableComplete ==
    part = "primitives" => Primitives!TypeOK /\ Primitives!TableComplete /\ Primitives!ForcedNone

\* A call through an empty entry of the table needs a second thread that is
\* filling it at that moment.
CrashNeedsTwo == [][part = "primitives" => Primitives!NullCallNeedsTwo]_vars

\* The blocks and shifts of the instance.
MCSizes == {<<1, 2>>, <<7, 2>>, <<8, 2>>, <<13, 1>>, <<24, 1>>, <<31, 2>>, <<41, 2>>}
MCShifts == {-9, -3, -1, 0, 1, 3, 9, 33} \X {-1, 0, 1}
=============================================================================
