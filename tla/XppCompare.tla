----------------------------- MODULE XppCompare -----------------------------
(***************************************************************************)
(* The framebuffer comparison primitives of libxpp: each kernel is given    *)
(* two images of the same size and answers with the rectangle that holds    *)
(* what differs.  An image pair is its size and the set of the pixels that  *)
(* differ; pitches and pixel values are abstracted away.  A kernel is a     *)
(* function from the pair to its answer, and the kernels of one function    *)
(* are compared with each other and with the changes themselves.            *)
(***************************************************************************)
EXTENDS Integers, FiniteSetsExt

CONSTANTS Widths, Heights,  \* the sizes of the images to compare
          Columns, Rows     \* where the (at most two) changed pixels are

VARIABLES img,  \* [w, h, diff]: the size and the pixels that differ
          out   \* the last answer: [fn, changed, left, top, right, bottom]

vars == <<img, out>>

Tile == 16

\* The kernels of 32-bit pixels note the rows, or the columns, of tiles that differ
\* in an array of MaxTiles on their stack, and no caller checks an image against it.
MaxTiles == 1024

SizesAssumption ==
    /\ Widths \cup Heights \subseteq 1 .. MaxTiles * Tile
    /\ Columns \cup Rows \subseteq Nat
Down(n, m) == (n \div m) * m
Up(n, m) == Down(n + m - 1, m)
Least(a, b) == IF a < b THEN a ELSE b

NoChange == [changed |-> FALSE, left |-> 0, top |-> 0, right |-> 0, bottom |-> 0]

\* The answer of a kernel, with the name of the kernel.
Named(fn, rect) ==
    [fn |-> fn, changed |-> rect.changed, left |-> rect.left, top |-> rect.top,
     right |-> rect.right, bottom |-> rect.bottom]

Changed(i, x, y, w, h) == \E p \in i.diff : p[1] \in x .. x + w - 1 /\ p[2] \in y .. y + h - 1

-----------------------------------------------------------------------------
(* 32-bit pixels: the answer is a rectangle of 16 x 16 tiles.               *)

\* Tiles are numbered; the last one of a row or column is cut to the image.
GenericExtent(t, size) ==
    LET n == Up(size, Tile) \div Tile
    IN  IF t + 1 = n /\ size % Tile # 0 THEN size % Tile ELSE Tile

\* Mutant: the part of the last column of tiles past a multiple of 16 is left out.
TilesWithoutRemainder(i) ==
    {t \in (0 .. i.w \div 16 - 1) \X (0 .. (i.h + 15) \div 16 - 1) :
        Changed(i, t[1] * Tile, t[2] * Tile, Tile, Tile)}

GenericTiles(i) ==
    {t \in (0 .. (i.w + 15) \div 16 - 1) \X (0 .. (i.h + 15) \div 16 - 1) :
        Changed(i, t[1] * Tile, t[2] * Tile, GenericExtent(t[1], i.w), GenericExtent(t[2], i.h))}

\* The loop keeps the first and last column and row of tiles that differ.
TileRect(i, tiles) ==
    IF tiles = {} THEN NoChange
    ELSE [changed |-> TRUE,
          left    |-> Min({t[1] : t \in tiles}) * Tile,
          top     |-> Min({t[2] : t \in tiles}) * Tile,
          right   |-> Least((Max({t[1] : t \in tiles}) + 1) * Tile, i.w),
          bottom  |-> Least((Max({t[2] : t \in tiles}) + 1) * Tile, i.h)]

Compare32Generic(i) == TileRect(i, GenericTiles(i))

\* The corners of the tiles in pixels; how many columns of a tile of tw are
\* read: whole vectors of four pixels, or memcmp when there is none.
Corners(i) == {x \in 0 .. i.w - 1 : x % Tile = 0} \X {y \in 0 .. i.h - 1 : y % Tile = 0}

\* Mutant: the branch for a tile of 4 to 7 columns is gone.
Sse2ReadsFromEight(tw) == IF tw >= 8 THEN Down(tw, 4) ELSE tw

Sse2Reads(tw) == IF tw >= 4 THEN Down(tw, 4) ELSE tw
NeonReads(tw) == IF tw >= 8 THEN Down(tw, 4) ELSE tw

\* Mutant: the right and bottom edges are not cut to the image.
UncutRect(i, corners) ==
    IF corners = {} THEN NoChange
    ELSE [changed |-> TRUE,
          left    |-> Down(Min({c[1] : c \in corners}), Tile),
          top     |-> Down(Min({c[2] : c \in corners}), Tile),
          right   |-> Up(Max({c[1] : c \in corners}) + 1, Tile),
          bottom  |-> Up(Max({c[2] : c \in corners}) + 1, Tile)]

\* The corners kept are rounded to tiles and cut to the image.
CornerRect(i, corners) ==
    IF corners = {} THEN NoChange
    ELSE [changed |-> TRUE,
          left    |-> Down(Min({c[1] : c \in corners}), Tile),
          top     |-> Down(Min({c[2] : c \in corners}), Tile),
          right   |-> Least(Up(Max({c[1] : c \in corners}) + 1, Tile), i.w),
          bottom  |-> Least(Up(Max({c[2] : c \in corners}) + 1, Tile), i.h)]

Compare32Sse2(i) ==
    CornerRect(i, {c \in Corners(i) :
        Changed(i, c[1], c[2], Sse2Reads(Least(i.w - c[1], Tile)), Least(i.h - c[2], Tile))})

Compare32Neon(i) ==
    CornerRect(i, {c \in Corners(i) :
        Changed(i, c[1], c[2], NeonReads(Least(i.w - c[1], Tile)), Least(i.h - c[2], Tile))})

\* LINEAR_COMPARE32: a band of 16 rows is read row by row, and a column of
\* tiles is skipped from the first row it differs in: it is in the set already.
Compare32Linear(i) ==
    CornerRect(i, {c \in Corners(i) :
        \E row \in c[2] .. Least(c[2] + Tile, i.h) - 1 :
            Changed(i, c[1], row, Least(i.w - c[1], Tile), 1)})

-----------------------------------------------------------------------------
(* 8-bit pixels: the answer is rounded to groups of 4 columns and 4 rows.   *)

\* A difference is noticed at the start of its group of four when a word
\* holds it, and at its own column in the remainder of the row.
Noticed(p, whole) == IF p[1] < whole THEN Down(p[1], 4) ELSE p[1]

\* Mutant: the right and bottom edges are not moved past the last change.
RectEndsAtChange(i, whole) ==
    LET xs == {Noticed(p, whole) : p \in i.diff}
        ys == {p[2] : p \in i.diff}
    IN  IF i.diff = {} THEN NoChange
        ELSE [changed |-> TRUE, left |-> Down(Min(xs), 4), top |-> Down(Min(ys), 4),
              right |-> Up(Max(xs), 4), bottom |-> Up(Max(ys), 4)]

GroupRect(i, whole) ==
    LET xs == {Noticed(p, whole) : p \in i.diff}
        ys == {p[2] : p \in i.diff}
    IN  IF i.diff = {} THEN NoChange
        ELSE [changed |-> TRUE, left |-> Down(Min(xs), 4), top |-> Down(Min(ys), 4),
              right |-> Up(Max(xs) + 1, 4), bottom |-> Up(Max(ys) + 1, 4)]

Compare8Generic(i) == GroupRect(i, Down(i.w, 4))
Compare8Sse2(i) == GroupRect(i, Down(i.w, 16))
Compare8Neon(i) == GroupRect(i, Down(i.w, 16))

-----------------------------------------------------------------------------
\* At most two changes: one, or two in different places, give every rectangle.
Init ==
    /\ \E w \in Widths, h \in Heights, p, q \in Columns \X Rows :
          img = [w |-> w, h |-> h, diff |-> {d \in {p, q} : d[1] < w /\ d[2] < h}]
    /\ out = Named("none", NoChange)

Answer(fn, rect) ==
    /\ out.fn = "none"
    /\ out' = Named(fn, rect)
    /\ UNCHANGED img

Xpp_Compare32_generic == Answer("generic32", Compare32Generic(img))
Xpp_Compare32_sse2 == Answer("sse2_32", Compare32Sse2(img))
Xpp_Compare32_neon == Answer("neon32", Compare32Neon(img))
Xpp_Compare32_linear == Answer("linear32", Compare32Linear(img))
Xpp_Compare8_generic == Answer("generic8", Compare8Generic(img))
Xpp_Compare8_sse2 == Answer("sse2_8", Compare8Sse2(img))
Xpp_Compare8_neon == Answer("neon8", Compare8Neon(img))

Next ==
    \/ Xpp_Compare32_generic \/ Xpp_Compare32_sse2
    \/ Xpp_Compare32_neon \/ Xpp_Compare32_linear
    \/ Xpp_Compare8_generic \/ Xpp_Compare8_sse2 \/ Xpp_Compare8_neon

Spec == Init /\ [][Next]_vars

-----------------------------------------------------------------------------
Holds(rect, p) ==
    /\ rect.left <= p[1] /\ p[1] < rect.right
    /\ rect.top <= p[2] /\ p[2] < rect.bottom

Complete == {"generic32", "linear32", "generic8", "sse2_8", "neon8"}

\* The kernels that read every pixel answer "changed" exactly when a pixel
\* has changed, and their rectangle holds every changed pixel (whatever the
\* image's size is beside the tile, the vector and the word).
EveryChangeReported ==
    out.fn \in Complete =>
        /\ out.changed <=> img.diff # {}
        /\ \A p \in img.diff : Holds(out, p)

\* No rectangle is larger than its grid makes it: there is a change in the
\* first and in the last grid line of it, and it ends in the image for
\* 32-bit pixels, in the image rounded up to 4 for 8-bit ones.
RectangleIsTight ==
    out.changed =>
        LET g == IF out.fn \in {"generic8", "sse2_8", "neon8"} THEN 4 ELSE Tile
            end(n) == IF g = 4 THEN Up(n, 4) ELSE n
        IN  /\ \E p \in img.diff : p[1] \in out.left .. out.left + g - 1
            /\ \E p \in img.diff : p[1] \in Down(out.right - 1, g) .. out.right - 1
            /\ \E p \in img.diff : p[2] \in out.top .. out.top + g - 1
            /\ \E p \in img.diff : p[2] \in Down(out.bottom - 1, g) .. out.bottom - 1
            /\ out.right <= end(img.w) /\ out.bottom <= end(img.h)

\* What the SSE2 and NEON kernels miss is exactly the columns of a cut last
\* tile (at least "vector" wide) that do not fill four pixels: on the other
\* changes they give the generic kernel's answer.
Unread(vector) ==
    LET cut == img.w % Tile
    IN  IF cut < vector THEN {} ELSE Down(img.w, 4) .. img.w - 1

OnRead(vector) ==
    Compare32Generic([img EXCEPT !.diff = {p \in @ : p[1] \notin Unread(vector)}])

SimdMissesOnlyTheTail ==
    /\ out.fn = "sse2_32" => out = Named("sse2_32", OnRead(4))
    /\ out.fn = "neon32" => out = Named("neon32", OnRead(8))
=============================================================================
