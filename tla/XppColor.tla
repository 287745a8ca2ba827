------------------------------ MODULE XppColor ------------------------------
(***************************************************************************)
(* The colour conversions of libxpp on one block of two by two pixels (at    *)
(* the edge of an image of odd size, what is inside the image of it): the   *)
(* lossless 16-bit codings (YCoCg-R, A710), the coding with subsampled      *)
(* chroma (YCoCg-R 4:2:0) in its generic, SSE2, NEON and Halide kernels,    *)
(* YCbCr 4:2:0, and the premultiplied alpha.  Arithmetic has the width the  *)
(* kernel gives it: 32 bits in the generic code (no value comes near that), *)
(* 16-bit lanes that wrap and packs that saturate in the vector code.       *)
(***************************************************************************)
EXTENDS Integers

CONSTANT Samples  \* the channel values tried

SamplesAssumption == Samples \subseteq 0 .. 255

VARIABLES block,  \* the four pixels
          there,  \* which of them are inside the image
          coded,  \* what an encoder made of them: [by, y, c1, c2]
          shown   \* what a decoder made of that, four pixels

vars == <<block, there, coded, shown>>

Byte == 0 .. 255
Quad == 1 .. 4
Pixel == [r : Byte, g : Byte, b : Byte]

Shr(v, k) == v \div 2^k
U8(v) == v % 256
Wrap16(v) == ((v + 32768) % 65536) - 32768
Clamp(v) == IF v < 0 THEN 0 ELSE IF v > 255 THEN 255 ELSE v
Sum4(f) == f[1] + f[2] + f[3] + f[4]

\* A whole block, one in an odd last column, in an odd last row, in the corner.
Parts == {Quad, {1, 3}, {1, 2}, {1}}
SumOver(part, f) == Sum4([i \in Quad |-> IF i \in part THEN f[i] ELSE 0])
Count(part) == SumOver(part, [i \in Quad |-> 1])

-----------------------------------------------------------------------------
(* One pixel.                                                               *)

\* YCoCg-R.
Co(p) == p.r - p.b
Cg(p) == p.g - (p.b + Shr(Co(p), 1))
Luma(p) == (p.b + Shr(Co(p), 1)) + Shr(Cg(p), 1)

\* Mutant: the chroma is halved after it is negated, which rounds the other way.
UnYCoCgOtherRound(y, co, cg) ==
    LET t == y + Shr(-cg, 1)
        b == t + Shr(-co, 1)
    IN  [r |-> Clamp(b + co), g |-> Clamp(cg + t), b |-> Clamp(b)]

UnYCoCg(y, co, cg) ==
    LET t == y - Shr(cg, 1)
        b == t - Shr(co, 1)
    IN  [r |-> Clamp(b + co), g |-> Clamp(cg + t), b |-> Clamp(b)]

\* The 16-bit lanes of the decoders' registers.
UnYCoCg16(y, co, cg) ==
    LET t == Wrap16(y - Shr(cg, 1))
        b == Wrap16(t - Shr(co, 1))
    IN  [r |-> Clamp(Wrap16(b + co)), g |-> Clamp(Wrap16(cg + t)), b |-> Clamp(b)]

RGBToYCoCgR_16s(p) == [y |-> Luma(p) - 128, c1 |-> Co(p), c2 |-> Cg(p)]
YCoCgRToRGB_16s(c) == UnYCoCg(c.y + 128, c.c1, c.c2)

\* The Halide pipelines have 16-bit stages throughout.
RgbToYCoCgR(p) ==
    LET co == Wrap16(p.r - p.b)
        t == Wrap16(p.b + Shr(co, 1))
        cg == Wrap16(p.g - t)
    IN  [y |-> Wrap16(Wrap16(t + Shr(cg, 1)) - 128), c1 |-> co, c2 |-> cg]
YCoCgRToRgb(c) == UnYCoCg16(Wrap16(c.y + 128), c.c1, c.c2)

\* Mutant: V is taken from blue, and the decoder is not told.
RGBToA710OfBlue(p) ==
    LET t == p.b - p.g
        v == p.r - p.b
    IN  [y |-> p.g + Shr(v + t, 2) - 128, c1 |-> t - Shr(v, 1), c2 |-> v]

\* A710: V is red less green, U blue less green less half of V.
RGBToA710(p) ==
    LET t == p.b - p.g
        v == p.r - p.g
    IN  [y |-> p.g + Shr(v + t, 2) - 128, c1 |-> t - Shr(v, 1), c2 |-> v]
A710ToRGB(c) ==
    LET t == c.c1 + Shr(c.c2, 1)
        g == c.y + 128 - Shr(c.c2 + t, 2)
    IN  [r |-> Clamp(c.c2 + g), g |-> Clamp(g), b |-> Clamp(t + g)]

\* Mutant: the quotient is rounded up.
MultiplyAlphaUp(c, a) == (c * a + 254) \div 255

\* Alpha, of one channel; zero alpha divides by zero.
MultiplyAlpha(c, a) == (c * a) \div 255
UnmultiplyAlpha(c, a) == U8((c * 255) \div a)

-----------------------------------------------------------------------------
(* A block: each encoder gives four luma bytes and one byte of each chroma. *)

EncodeGeneric(q) ==
    [y  |-> [i \in Quad |-> U8(Luma(q[i]))],
     c1 |-> U8(Shr(Sum4([i \in Quad |-> Co(q[i])]) + 1024, 3)),
     c2 |-> U8(Shr(Sum4([i \in Quad |-> Cg(q[i])]) + 1024, 3))]

\* Mutant: the saturating pack comes before the offset that makes sums positive.
PackedBeforeOffset(sum) == Clamp(Shr(Clamp(Wrap16(sum)) + 1024, 3))

\* The sums of a block in one 16-bit lane, offset, shifted and packed.
PackedChroma(sum) == Clamp(Shr(Wrap16(sum + 1024), 3))

\* SSE2 keeps even and odd columns in two registers and ORs their low bytes
\* together: an even luma above 255 would spoil its neighbour (-1).
EncodeSse2(q) ==
    LET y == [i \in Quad |-> Wrap16(Luma(q[i]))]
        odd(i) == IF y[i - 1] \in Byte THEN U8(y[i]) ELSE -1
    IN  [y  |-> [i \in Quad |-> IF i \in {1, 3} THEN U8(y[i]) ELSE odd(i)],
         c1 |-> PackedChroma(Sum4([i \in Quad |-> Co(q[i])])),
         c2 |-> PackedChroma(Sum4([i \in Quad |-> Cg(q[i])]))]

\* NEON adds neighbours in pairs and narrows the luma with saturation.
EncodeNeon(q) ==
    [y  |-> [i \in Quad |-> Clamp(Wrap16(Luma(q[i])))],
     c1 |-> PackedChroma(Sum4([i \in Quad |-> Co(q[i])])),
     c2 |-> PackedChroma(Sum4([i \in Quad |-> Cg(q[i])]))]

EncodeHalide(q) ==
    LET c == [i \in Quad |-> RgbToYCoCgR(q[i])]
        subsample(f) == U8(Shr(Wrap16(Sum4(f) + 1024), 3))
    IN  [y  |-> [i \in Quad |-> U8(Wrap16(c[i].y + 128))],
         c1 |-> subsample([i \in Quad |-> c[i].c1]),
         c2 |-> subsample([i \in Quad |-> c[i].c2])]

DecodeGeneric(c) == [i \in Quad |-> UnYCoCg(c.y[i], 2 * c.c1 - 255, 2 * c.c2 - 255)]
DecodeSse2(c) == [i \in Quad |-> UnYCoCg16(c.y[i], Wrap16(2 * c.c1 - 255), Wrap16(2 * c.c2 - 255))]
DecodeNeon(c) == [i \in Quad |-> UnYCoCg16(c.y[i], Wrap16(2 * c.c1 - 255), Wrap16(2 * c.c2 - 255))]
DecodeHalide(c) == [i \in Quad |-> UnYCoCg16(c.y[i], Wrap16(2 * c.c1 - 255), Wrap16(2 * c.c2 - 255))]

\* Mutant: blue is weighted as red is.
YCbCrLumaOfRed(p) == Shr(54 * p.r + 183 * p.g + 54 * p.b, 8)

\* YCbCr in 8-bit fixed point; the chroma is that of the average pixel.  The
\* sum of the pixels inside the image is divided by four even where they are
\* two or one: the chroma of such a block is that of a darker colour.
YCbCrLuma(p) == Shr(54 * p.r + 183 * p.g + 18 * p.b, 8)
EncodeYCbCr(q, part) ==
    LET r == Shr(SumOver(part, [i \in Quad |-> q[i].r]), 2)
        g == Shr(SumOver(part, [i \in Quad |-> q[i].g]), 2)
        b == Shr(SumOver(part, [i \in Quad |-> q[i].b]), 2)
    IN  [y  |-> [i \in part |-> U8(YCbCrLuma(q[i]))],
         c1 |-> Clamp(Shr(-29 * r - 99 * g + 128 * b, 8) + 128),
         c2 |-> Clamp(Shr(128 * r - 116 * g - 12 * b, 8) + 128)]
DecodeYCbCr(c) ==
    LET u == c.c1 - 128
        v == c.c2 - 128
    IN  [i \in DOMAIN c.y |-> [r |-> Clamp(Shr(256 * c.y[i] + 403 * v, 8)),
                               g |-> Clamp(Shr(256 * c.y[i] - 48 * u - 120 * v, 8)),
                               b |-> Clamp(Shr(256 * c.y[i] + 475 * u, 8))]]

-----------------------------------------------------------------------------
None == [by |-> "none"]

\* Blocks of two pixels in the two diagonals.
Init ==
    /\ \E p, q \in [r : Samples, g : Samples, b : Samples] : block = <<p, q, q, p>>
    /\ there \in Parts
    /\ coded = None
    /\ shown = <<>>

Coding(by, c) == [by |-> by, y |-> c.y, c1 |-> c.c1, c2 |-> c.c2]

\* Only YCbCr codes a part of a block: the lossless codings have no blocks, and
\* the others leave an odd last column and row out (XppWalk).
Encode(by, c) ==
    /\ coded = None
    /\ by = "ycbcr" \/ there = Quad
    /\ coded' = Coding(by, c)
    /\ UNCHANGED <<block, there, shown>>

\* The lossless codings are per pixel: their values are kept pixel by pixel.
EachPixel(by, Code(_)) ==
    Encode(by, [y  |-> [i \in Quad |-> Code(block[i]).y],
                c1 |-> [i \in Quad |-> Code(block[i]).c1],
                c2 |-> [i \in Quad |-> Code(block[i]).c2]])

Decode(by, pixels) ==
    /\ coded.by = by /\ shown = <<>>
    /\ shown' = pixels
    /\ UNCHANGED <<block, there, coded>>

Coded(i) == [y |-> coded.y[i], c1 |-> coded.c1[i], c2 |-> coded.c2[i]]

Next ==
    \/ EachPixel("ycocg16", RGBToYCoCgR_16s)
    \/ EachPixel("ycocg16", RgbToYCoCgR)
    \/ EachPixel("a710", RGBToA710)
    \/ Encode("generic", EncodeGeneric(block))
    \/ Encode("sse2", EncodeSse2(block))
    \/ Encode("neon", EncodeNeon(block))
    \/ Encode("halide", EncodeHalide(block))
    \/ Encode("ycbcr", EncodeYCbCr(block, there))
    \/ Decode("ycocg16", [i \in Quad |-> YCoCgRToRGB_16s(Coded(i))])
    \/ Decode("ycocg16", [i \in Quad |-> YCoCgRToRgb(Coded(i))])
    \/ Decode("a710", [i \in Quad |-> A710ToRGB(Coded(i))])
    \/ \E by \in {"generic", "sse2", "neon", "halide"} :
          \/ Decode(by, DecodeGeneric(coded))
          \/ Decode(by, DecodeSse2(coded))
          \/ Decode(by, DecodeNeon(coded))
          \/ Decode(by, DecodeHalide(coded))
    \/ Decode("ycbcr", DecodeYCbCr(coded))

Spec == Init /\ [][Next]_vars

-----------------------------------------------------------------------------
\* The ranges the comments of the 16-bit codings give.
Lumas == -128 .. 127
Chromas == -256 .. 255

\* The block is made of pixels, and the 16-bit codings keep to the ranges the
\* comments in them give, which is what their int16_t planes are for.
TypeOK ==
    /\ block \in [Quad -> Pixel] /\ there \in Parts
    /\ coded.by \in {"ycocg16", "a710"} =>
          \A i \in Quad : coded.y[i] \in Lumas /\ coded.c1[i] \in Chromas /\ coded.c2[i] \in Chromas

\* The 16-bit codings lose nothing: whichever of the kernels encodes and
\* whichever decodes, every pixel comes back as it was.
Lossless == coded.by \in {"ycocg16", "a710"} /\ shown # <<>> => shown = block

\* The four kernels of the 4:2:0 encoder give the same bytes for every block
\* (the vector ones wrap, saturate and OR where the generic one truncates).
KernelsEncodeAlike ==
    coded.by \in {"sse2", "neon", "halide"} => coded = Coding(coded.by, EncodeGeneric(block))

\* And so do the decoders, for what an encoder can have made.
KernelsDecodeAlike ==
    coded.by \in {"generic", "sse2", "neon", "halide"} /\ shown # <<>> =>
        shown = DecodeGeneric(coded)

\* What subsampling costs a block of one colour.  In YCoCg-R a channel comes
\* back at most 1 away from what it was.  In YCbCr it comes back at most 4 away
\* from the colour in a whole block; at an odd edge the chroma counts the pixels
\* outside the image as black, so that a channel keeps only two quarters, or one,
\* of its distance from the luma, and the edge is that much greyer than the image.
Near(v, w, d) == v - w \in -d .. d
Channels == {"r", "g", "b"}
UniformBlockKept ==
    LET p == block[1]
        n == Count(there)
        y == YCbCrLuma(p)
    IN  coded.by # "none" /\ shown # <<>> /\ (\A i \in there : block[i] = p) =>
            \A i \in there, c \in Channels :
                IF coded.by = "ycbcr" THEN Near(4 * (shown[i][c] - y), n * (p[c] - y), 16)
                ELSE Near(shown[i][c], p[c], 1)

\* Premultiplied channels come back no brighter, and darker by less than one
\* step of the premultiplied scale (so the byte they are stored in never wraps).
AlphaUndone ==
    \A i \in Quad :
        LET c == block[i].r
            a == block[1].g
            back == UnmultiplyAlpha(MultiplyAlpha(c, a), a)
        IN  a # 0 => back <= c /\ a * (c - back) < 255 + a
=============================================================================
