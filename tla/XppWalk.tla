------------------------------- MODULE XppWalk -------------------------------
(***************************************************************************)
(* How the colour conversions of libxpp walk through their images: three    *)
(* planes (luma and two chroma planes, walked alike: one is modelled) and a *)
(* packed RGB image, each with a pitch of its own and pointers that are     *)
(* moved by loops, pads and row steps.  Reading one image and writing the   *)
(* other, or the other way round, is the same walk.  Offsets count samples: *)
(* bytes or int16_t in a plane, pixels of four bytes in the RGB image.      *)
(***************************************************************************)
EXTENDS Integers

CONSTANTS Widths, Heights,  \* the sizes of the images
          Slack,            \* by how much a pitch may exceed its row
          Kernels           \* the functions that are run

WalkAssumption == Widths \cup Heights \subseteq Nat \ {0} /\ Slack \subseteq Nat

VARIABLES job,      \* the call: kernel, size and pitches
          way,      \* "run", "done", or "error": what halide_error ends
          ptr,      \* [y, c, rgb]: pY, pCo (with pCg), pRGB
          x,        \* columns left in this row or pair of rows
          rows,     \* rows, or pairs of rows, left
          lower,    \* in the second pass of a pair of rows (YCbCr)
          touched   \* the <<luma, chroma, rgb>> offsets converted so far

vars == <<job, way, ptr, x, rows, lower, touched>>

Even(n) == (n \div 2) * 2
Half(n) == (n + 1) \div 2

Interleaved == {"ycocg_enc", "ycocg_dec", "ycocg_enc_sse2", "ycocg_dec_sse2", "ycocg_enc_neon", "ycocg_dec_neon"}
PerPixel == {"ycocg16_enc", "ycocg16_dec", "a710_enc", "a710_dec", "multiply", "unmultiply"}
YCbCr == {"ycbcr_enc", "ycbcr_dec"}
Halide == {"halide16_enc", "halide16_dec", "halide_enc", "halide_dec"}

\* Chroma is subsampled, except in the 16-bit codings.
Halved(k) == k \notin PerPixel \cup {"halide16_enc", "halide16_dec"}

Jobs == {[k |-> k, w |-> w, h |-> h, yStep |-> w + s, rgbStep |-> w + t,
          cStep |-> IF Halved(k) THEN Half(w) + s ELSE w + s] :
            k \in Kernels, w \in Widths, h \in Heights, s \in Slack, t \in Slack}

\* The columns of one pass and the number of passes the loops begin with.
Columns(j) == IF j.k \in Interleaved THEN Even(j.w) ELSE IF j.k \in YCbCr THEN 2 * Half(j.w) ELSE j.w
Passes(j) == IF j.k \in Interleaved THEN j.h \div 2 ELSE IF j.k \in YCbCr THEN Half(j.h) ELSE j.h

Init ==
    /\ job \in Jobs
    /\ way = "run" /\ ptr = [y |-> 0, c |-> 0, rgb |-> 0]
    /\ x = Columns(job) /\ rows = Passes(job)
    /\ lower = FALSE /\ touched = {}

Return ==
    /\ rows = 0 /\ way = "run"
    /\ way' = "done"
    /\ UNCHANGED <<job, ptr, x, rows, lower, touched>>

-----------------------------------------------------------------------------
(* YCoCg-R 4:2:0: two rows at a time, 32 columns in registers, then two.    *)

Convert(n) ==
    /\ touched' = touched \cup
          {<<ptr.y + i + r * job.yStep, ptr.c + i \div 2, ptr.rgb + i + r * job.rgbStep>> :
              i \in 0 .. n - 1, r \in {0, 1}}
    /\ ptr' = [y |-> ptr.y + n, c |-> ptr.c + n \div 2, rgb |-> ptr.rgb + n]
    /\ x' = x - n
    /\ UNCHANGED <<job, way, rows, lower>>

\* Mutant: the pads are those of the whole width, also when it is odd.
NextPairWholeWidth ==
    /\ ptr' = [y   |-> ptr.y + (job.yStep - job.w) + job.yStep,
               c   |-> ptr.c + (job.cStep - Half(job.w)),
               rgb |-> ptr.rgb + (job.rgbStep - job.w) + job.rgbStep]
    /\ x' = Columns(job) /\ rows' = rows - 1
    /\ UNCHANGED <<job, way, lower, touched>>

\* The pads take the pointers to the end of the rows, a step to the next pair.
NextPair ==
    /\ ptr' = [y   |-> ptr.y + (job.yStep - Even(job.w)) + job.yStep,
               c   |-> ptr.c + (job.cStep - Even(job.w) \div 2),
               rgb |-> ptr.rgb + (job.rgbStep - Even(job.w)) + job.rgbStep]
    /\ x' = Columns(job) /\ rows' = rows - 1
    /\ UNCHANGED <<job, way, lower, touched>>

Scalar == (x > 0 /\ Convert(2)) \/ (x = 0 /\ NextPair)

Vector == (x >= 32 /\ Convert(32)) \/ (x < 32 /\ Scalar)

Running(k) == job.k = k /\ way = "run" /\ rows > 0

Xpp_RGBToYCoCgR420_8u_P3AC4R_generic == Running("ycocg_enc") /\ Scalar
Xpp_YCoCgR420ToRGB_8u_P3AC4R_generic == Running("ycocg_dec") /\ Scalar
Xpp_RGBToYCoCgR420_8u_P3AC4R_sse2 == Running("ycocg_enc_sse2") /\ Vector
Xpp_YCoCgR420ToRGB_8u_P3AC4R_sse2 == Running("ycocg_dec_sse2") /\ Vector
Xpp_RGBToYCoCgR420_8u_P3AC4R_neon == Running("ycocg_enc_neon") /\ Vector
Xpp_YCoCgR420ToRGB_8u_P3AC4R_neon == Running("ycocg_dec_neon") /\ Vector

-----------------------------------------------------------------------------
(* One pixel at a time: the 16-bit codings and the alpha functions, whose   *)
(* two packed images are the luma plane and the RGB image here.             *)

PixelByPixel ==
    \/ /\ x > 0
       /\ touched' = touched \cup {<<ptr.y, ptr.c, ptr.rgb>>}
       /\ ptr' = [y |-> ptr.y + 1, c |-> ptr.c + 1, rgb |-> ptr.rgb + 1]
       /\ x' = x - 1 /\ UNCHANGED <<job, way, rows, lower>>
    \/ /\ x = 0
       /\ ptr' = [y   |-> ptr.y + (job.yStep - job.w), c |-> ptr.c + (job.cStep - job.w),
                  rgb |-> ptr.rgb + (job.rgbStep - job.w)]
       /\ x' = job.w /\ rows' = rows - 1 /\ UNCHANGED <<job, way, lower, touched>>

Xpp_RGBToYCoCgR_16s_P3AC4R_generic == Running("ycocg16_enc") /\ PixelByPixel
Xpp_YCoCgRToRGB_16s_P3AC4R_generic == Running("ycocg16_dec") /\ PixelByPixel
Xpp_RGBToA710_16s_P3AC4R == Running("a710_enc") /\ PixelByPixel
Xpp_A710ToRGB_16s_P3AC4R == Running("a710_dec") /\ PixelByPixel
Xpp_MultiplyAlpha == Running("multiply") /\ PixelByPixel
Xpp_UnmultiplyAlpha == Running("unmultiply") /\ PixelByPixel

-----------------------------------------------------------------------------
(* YCbCr 4:2:0.                                                             *)

\* The encoder computes its luma and RGB pointers from the loop counters.
Xpp_RGBToYCbCr420_8u_P3AC4R ==
    /\ Running("ycbcr_enc")
    /\ LET col == Columns(job) - x
           row == 2 * (Passes(job) - rows)
           here == {p \in {row, row + 1} \X {col, col + 1} : p[1] < job.h /\ p[2] < job.w}
       IN  IF x > 0
           THEN /\ touched' = touched \cup
                       {<<p[1] * job.yStep + p[2], ptr.c, p[1] * job.rgbStep + p[2]>> : p \in here}
                /\ ptr' = [ptr EXCEPT !.c = @ + 1]
                /\ x' = x - 2 /\ UNCHANGED rows
           ELSE /\ ptr' = [ptr EXCEPT !.c = @ + (job.cStep - Half(job.w))]
                /\ x' = Columns(job) /\ rows' = rows - 1 /\ UNCHANGED touched
    /\ UNCHANGED <<job, way, lower>>

\* Mutant: the last pair is cut whatever the width.
SecondBeforeLastPair == ~(x = 2)

\* lastCol & 0x02: the last pair of an odd width has no second column.
SecondInImage == ~(x = 2 /\ job.w % 2 = 1)

\* The decoder passes over a pair of rows twice, the chroma pointers go back
\* in between; lastRow is never looked at, the second pass is always made.
Xpp_YCbCr420ToRGB_8u_P3AC4R ==
    /\ Running("ycbcr_dec")
    /\ IF x > 0
       THEN /\ touched' = touched \cup
                   {<<ptr.y + i, ptr.c, ptr.rgb + i>> : i \in IF SecondInImage THEN {0, 1} ELSE {0}}
            /\ ptr' = [y |-> ptr.y + 2, c |-> ptr.c + 1, rgb |-> ptr.rgb + 2]
            /\ x' = x - 2 /\ UNCHANGED <<rows, lower>>
       ELSE /\ ptr' = [y   |-> ptr.y + (job.yStep - Columns(job)),
                       c   |-> IF lower THEN ptr.c + (job.cStep - Half(job.w)) ELSE ptr.c - Half(job.w),
                       rgb |-> ptr.rgb + (job.rgbStep - Columns(job))]
            /\ x' = Columns(job) /\ lower' = ~lower
            /\ rows' = IF lower THEN rows - 1 ELSE rows
            /\ UNCHANGED touched
    /\ UNCHANGED <<job, way>>

-----------------------------------------------------------------------------
(* The Halide pipelines are given buffers and compute every sample of their *)
(* outputs; a pipeline first checks that the inputs are as large as needed.  *)

Extent(w, h) == [w |-> w, h |-> h]
Covers(buffer, w, h) == buffer.w >= w /\ buffer.h >= h

\* halide_setup_*_buffer_t: extents of the chroma planes are those of the call.
ChromaBuffer(j) == IF Halved(j.k) THEN Extent(j.w \div 2, j.h \div 2) ELSE Extent(j.w, j.h)

\* A decoder reads chroma at (u / 2, v / 2) up to the last pixel of the image;
\* an encoder reads RGB at (2u + 1, 2v + 1) up to the last chroma sample.
Required(j) ==
    IF j.k = "halide_dec" THEN Covers(ChromaBuffer(j), Half(j.w), Half(j.h))
    ELSE IF j.k = "halide_enc" THEN Covers(Extent(j.w, j.h), 2 * ChromaBuffer(j).w, 2 * ChromaBuffer(j).h)
    ELSE TRUE

\* The luma of an odd last column or row is encoded too; it has no chroma.
Pipeline(k, Chroma(_), w, h) ==
    /\ Running(k)
    /\ IF Required(job)
       THEN /\ way' = "done"
            /\ touched' = {<<v * job.yStep + u, Chroma(v) * job.cStep + Chroma(u), v * job.rgbStep + u>> :
                              u \in 0 .. w - 1, v \in 0 .. h - 1}
       ELSE way' = "error" /\ UNCHANGED touched
    /\ rows' = 0
    /\ UNCHANGED <<job, ptr, x, lower>>

Whole(n) == n
Halves(n) == n \div 2

Xpp_RGBToYCoCgR_16s_P3AC4R_halide == Pipeline("halide16_enc", Whole, job.w, job.h)
Xpp_YCoCgRToRGB_16s_P3AC4R_halide == Pipeline("halide16_dec", Whole, job.w, job.h)
Xpp_RGBToYCoCgR420_8u_P3AC4R_halide == Pipeline("halide_enc", Halves, Even(job.w), Even(job.h))
Xpp_YCoCgR420ToRGB_8u_P3AC4R_halide == Pipeline("halide_dec", Halves, job.w, job.h)

-----------------------------------------------------------------------------
Next ==
    \/ Xpp_RGBToYCoCgR420_8u_P3AC4R_generic \/ Xpp_YCoCgR420ToRGB_8u_P3AC4R_generic
    \/ Xpp_RGBToYCoCgR420_8u_P3AC4R_sse2 \/ Xpp_YCoCgR420ToRGB_8u_P3AC4R_sse2
    \/ Xpp_RGBToYCoCgR420_8u_P3AC4R_neon \/ Xpp_YCoCgR420ToRGB_8u_P3AC4R_neon
    \/ Xpp_RGBToYCoCgR_16s_P3AC4R_generic \/ Xpp_YCoCgRToRGB_16s_P3AC4R_generic
    \/ Xpp_RGBToA710_16s_P3AC4R \/ Xpp_A710ToRGB_16s_P3AC4R
    \/ Xpp_MultiplyAlpha \/ Xpp_UnmultiplyAlpha
    \/ Xpp_RGBToYCbCr420_8u_P3AC4R \/ Xpp_YCbCr420ToRGB_8u_P3AC4R
    \/ Xpp_RGBToYCoCgR_16s_P3AC4R_halide \/ Xpp_YCoCgRToRGB_16s_P3AC4R_halide
    \/ Xpp_RGBToYCoCgR420_8u_P3AC4R_halide \/ Xpp_YCoCgR420ToRGB_8u_P3AC4R_halide
    \/ Return

Spec == Init /\ [][Next]_vars

-----------------------------------------------------------------------------
\* The sample of every plane that belongs to the pixel in row r and column c.
Sample(r, c) ==
    <<r * job.yStep + c,
      IF Halved(job.k) THEN (r \div 2) * job.cStep + c \div 2 ELSE r * job.cStep + c,
      r * job.rgbStep + c>>

\* How many rows a kernel goes over: the YCbCr decoder makes an odd height
\* even and reads and writes the row below the image.
RowsWalked == IF job.k = "ycbcr_dec" THEN 2 * Half(job.h) ELSE job.h

\* Whatever the pitches and the size, a pixel is always converted with the
\* luma and the chroma sample of the same pixel, and never outside the image
\* (but for the row below it that the YCbCr decoder walks).
SamePixel ==
    touched \subseteq {Sample(r, c) : r \in 0 .. RowsWalked - 1, c \in 0 .. job.w - 1}

\* When a kernel returns, every pixel of the image is converted, except that
\* the YCoCg-R 4:2:0 kernels leave out the last column and row of an odd size
\* (the Halide encoder their chroma); only the Halide decoder refuses one.
Converted == IF job.k \in Interleaved \cup {"halide_enc"} THEN [w |-> Even(job.w), h |-> Even(job.h)] ELSE [w |-> job.w, h |-> job.h]
NothingLeftOut ==
    /\ way = "done" =>
          {Sample(r, c) : r \in 0 .. Converted.h - 1, c \in 0 .. Converted.w - 1} \subseteq touched
    /\ way = "error" => job.k = "halide_dec" /\ (job.w % 2 = 1 \/ job.h % 2 = 1)
=============================================================================
