------------------------------ MODULE XppProofs ------------------------------
(***************************************************************************)
(* Proofs about libxpp, for every value of the constants: what the          *)
(* comparison kernels report of images of every size, what the colour       *)
(* codings keep of every pixel, that blocks of pixels arrive where they are *)
(* copied and moved, which samples the walks through images bring together, *)
(* and what the table of primitives holds however many threads fill it at   *)
(* once.  The parts of MCXpp share no state, so each has an inductive       *)
(* invariant of its own.                                                    *)
(***************************************************************************)
EXTENDS MCXpp, SequenceTheorems, WellFoundedInduction, TLAPS

-----------------------------------------------------------------------------
(* The comparison: grids of 16 and of 4.                                    *)

Low(v, g) == Compare!Down(v, g)

LEMMA GridFacts ==
    ASSUME NEW g \in {4, 16}, NEW v \in Int
    PROVE  /\ Low(v, g) \in Int /\ Low(v, g) <= v /\ v < Low(v, g) + g
           /\ \E k \in Int : Low(v, g) = g * k
           /\ Low(v, g) = (v \div g) * g /\ v \div g \in Int
<1>1. CASE g = 4
    <2>1. v \div 4 \in Int /\ 4 * (v \div 4) <= v /\ v < 4 * (v \div 4) + 4
        OBVIOUS
    <2>2. Low(v, 4) = 4 * (v \div 4) /\ Low(v, 4) = (v \div 4) * 4
        BY <2>1 DEF Low, Compare!Down
    <2>. QED BY <1>1, <2>1, <2>2
<1>2. CASE g = 16
    <2>1. v \div 16 \in Int /\ 16 * (v \div 16) <= v /\ v < 16 * (v \div 16) + 16
        OBVIOUS
    <2>2. Low(v, 16) = 16 * (v \div 16) /\ Low(v, 16) = (v \div 16) * 16
        BY <2>1 DEF Low, Compare!Down
    <2>. QED BY <1>2, <2>1, <2>2
<1>. QED BY <1>1, <1>2

\* The multiple of the grid that a number lies after is one.
LEMMA GridLine ==
    ASSUME NEW g \in {4, 16}, NEW v \in Int, NEW k \in Int, g * k <= v, v < g * k + g
    PROVE  Low(v, g) = g * k
<1>1. PICK m \in Int : Low(v, g) = g * m
    BY GridFacts
<1>2. g * m <= v /\ v < g * m + g
    BY <1>1, GridFacts
<1>3. CASE g = 4
    <2>1. m = k
        BY <1>2, <1>3
    <2>. QED BY <1>1, <2>1
<1>4. CASE g = 16
    <2>1. m = k
        BY <1>2, <1>4
    <2>. QED BY <1>1, <2>1
<1>. QED BY <1>3, <1>4

LEMMA SameLine ==
    ASSUME NEW g \in {4, 16}, NEW v \in Int, NEW u \in Int, Low(v, g) <= u, u < Low(v, g) + g
    PROVE  Low(u, g) = Low(v, g)
<1>1. PICK k \in Int : Low(v, g) = g * k
    BY GridFacts
<1>. QED BY <1>1, GridLine

LEMMA NextLine ==
    ASSUME NEW g \in {4, 16}, NEW v \in Int
    PROVE  Compare!Up(Low(v, g) + 1, g) = Low(v, g) + g
<1>1. PICK k \in Int : Low(v, g) = g * k
    BY GridFacts
<1>2. PICK m \in Int : m = k + 1
    OBVIOUS
<1>3. g * m = Low(v, g) + g
    BY <1>1, <1>2
<1>4. Low(v, g) \in Int
    BY GridFacts
<1>5. (Low(v, g) + 1) + g - 1 = g * m /\ g * m \in Int /\ g * m < g * m + g
    BY <1>3, <1>4
<1>6. Low(g * m, g) = g * m
    BY <1>5, GridLine
<1>. QED BY <1>3, <1>5, <1>6 DEF Compare!Up, Low

LEMMA GridOrder ==
    ASSUME NEW g \in {4, 16}, NEW u \in Int, NEW v \in Int, u <= v
    PROVE  Low(u, g) <= Low(v, g)
<1>1. PICK k \in Int : Low(u, g) = g * k
    BY GridFacts
<1>2. PICK m \in Int : Low(v, g) = g * m
    BY GridFacts
<1>3. g * k <= v /\ v < g * m + g
    <2>1. Low(u, g) \in Int /\ Low(u, g) <= u /\ v < Low(v, g) + g
        BY GridFacts
    <2>2. g * k \in Int /\ g * k <= u /\ v < g * m + g
        BY <1>1, <1>2, <2>1
    <2>. QED BY <2>2
<1>. QED BY <1>1, <1>2, <1>3

\* The extremes of what a function makes of one or two things.
Few(D) == \E p, q : D \subseteq {p, q}
Marks(D, f, S) == D # {} /\ Few(D) /\ f \in [D -> Int] /\ S = {f[z] : z \in D}
HasMin(D, f, S) == \E a \in D : Compare!Min(S) = f[a] /\ \A z \in D : f[a] <= f[z]
HasMax(D, f, S) == \E b \in D : Compare!Max(S) = f[b] /\ \A z \in D : f[z] <= f[b]

LEMMA Extremes ==
    ASSUME NEW D, NEW f, NEW S, Marks(D, f, S)
    PROVE  HasMin(D, f, S) /\ HasMax(D, f, S)
<1>0. D # {} /\ f \in [D -> Int] /\ S = {f[z] : z \in D}
    BY DEF Marks
<1>. PICK p, q : D \subseteq {p, q}
    BY DEF Marks, Few
<1>1. \A z \in D : f[z] \in Int
    BY <1>0
<1>2. PICK a \in D : \A z \in D : f[a] <= f[z]
    <2>1. CASE p \in D /\ q \in D
        BY <1>1, <2>1
    <2>2. CASE D = {p} \/ D = {q}
        BY <1>1, <2>2
    <2>. QED BY <1>0, <2>1, <2>2
<1>3. PICK b \in D : \A z \in D : f[z] <= f[b]
    <2>1. CASE p \in D /\ q \in D
        BY <1>1, <2>1
    <2>2. CASE D = {p} \/ D = {q}
        BY <1>1, <2>2
    <2>. QED BY <1>0, <2>1, <2>2
<1>4. f[a] \in S /\ \A z \in S : f[a] <= z
    BY <1>0, <1>2
<1>5. f[b] \in S /\ \A z \in S : f[b] >= z
    BY <1>0, <1>1, <1>3
<1>6. Compare!Min(S) \in S /\ \A z \in S : Compare!Min(S) <= z
    BY <1>4 DEF Compare!Min
<1>7. Compare!Max(S) \in S /\ \A z \in S : Compare!Max(S) >= z
    BY <1>5 DEF Compare!Max
<1>8. PICK c \in D : Compare!Min(S) = f[c]
    BY <1>0, <1>6
<1>9. PICK d \in D : Compare!Max(S) = f[d]
    BY <1>0, <1>7
<1>10. \A z \in D : f[c] <= f[z]
    BY <1>0, <1>6, <1>8
<1>11. \A z \in D : f[z] <= f[d]
    BY <1>0, <1>1, <1>7, <1>9
<1>. QED BY <1>8, <1>9, <1>10, <1>11 DEF HasMin, HasMax

\* An image and what of its changes is read.
IsImage(i) ==
    /\ i \in [w : Nat \ {0}, h : Nat \ {0}, diff : SUBSET (Nat \X Nat)]
    /\ i.diff \subseteq (0 .. i.w - 1) \X (0 .. i.h - 1)
    /\ Few(i.diff)

\* The rectangle of the grid lines that hold the points of D, cut at w and h.
Spans(D, g, a, b, c, d) ==
    \A z \in D : /\ Low(a[1], g) <= Low(z[1], g) /\ Low(z[1], g) <= Low(b[1], g)
                 /\ Low(c[2], g) <= Low(z[2], g) /\ Low(z[2], g) <= Low(d[2], g)
Spanned(g, w, h, a, b, c, d) ==
    [changed |-> TRUE, left |-> Low(a[1], g), top |-> Low(c[2], g),
     right |-> Compare!Least(Low(b[1], g) + g, w), bottom |-> Compare!Least(Low(d[2], g) + g, h)]
Describes(rect, D, g, w, h) ==
    IF D = {} THEN rect = Compare!NoChange
    ELSE \E a, b, c, d \in D : rect = Spanned(g, w, h, a, b, c, d) /\ Spans(D, g, a, b, c, d)

LEMMA DescribedOnce ==
    ASSUME NEW D \in SUBSET (Nat \X Nat), NEW g \in {4, 16}, NEW w, NEW h, NEW r, NEW s,
           Describes(r, D, g, w, h), Describes(s, D, g, w, h)
    PROVE  r = s
<1>1. CASE D = {}
    BY <1>1 DEF Describes
<1>2. CASE D # {}
    <2>1. PICK a \in D, b \in D, c \in D, d \in D : r = Spanned(g, w, h, a, b, c, d) /\ Spans(D, g, a, b, c, d)
        BY <1>2 DEF Describes
    <2>2. PICK e \in D, f \in D, k \in D, m \in D : s = Spanned(g, w, h, e, f, k, m) /\ Spans(D, g, e, f, k, m)
        BY <1>2 DEF Describes
    <2>3. \A z \in D : z[1] \in Int /\ z[2] \in Int
        OBVIOUS
    <2>4. \A z \in D : Low(z[1], g) \in Int /\ Low(z[2], g) \in Int
        BY <2>3, GridFacts
    <2>5. Low(a[1], g) = Low(e[1], g) /\ Low(b[1], g) = Low(f[1], g)
        BY <2>1, <2>2, <2>4 DEF Spans
    <2>6. Low(c[2], g) = Low(k[2], g) /\ Low(d[2], g) = Low(m[2], g)
        BY <2>1, <2>2, <2>4 DEF Spans
    <2>. QED BY <2>1, <2>2, <2>5, <2>6 DEF Spanned
<1>. QED BY <1>1, <1>2

\* What a described rectangle holds, and how tight it is.
Tight(rect, D, g, w, h) ==
    /\ \A z \in D : Compare!Holds(rect, z)
    /\ \E z \in D : z[1] \in rect.left .. rect.left + g - 1
    /\ \E z \in D : z[1] \in Low(rect.right - 1, g) .. rect.right - 1
    /\ \E z \in D : z[2] \in rect.top .. rect.top + g - 1
    /\ \E z \in D : z[2] \in Low(rect.bottom - 1, g) .. rect.bottom - 1
    /\ rect.right <= w /\ rect.bottom <= h

LEMMA DescribedIsTight ==
    ASSUME NEW D \in SUBSET (Nat \X Nat), NEW g \in {4, 16}, NEW w \in Nat, NEW h \in Nat, NEW rect,
           D \subseteq (0 .. w - 1) \X (0 .. h - 1), D # {}, Describes(rect, D, g, w, h)
    PROVE  Tight(rect, D, g, w, h)
<1>1. PICK a \in D, b \in D, c \in D, d \in D : rect = Spanned(g, w, h, a, b, c, d) /\ Spans(D, g, a, b, c, d)
    BY DEF Describes
<1>2. \A z \in D : /\ z[1] \in Int /\ z[2] \in Int /\ 0 <= z[1] /\ z[1] < w /\ 0 <= z[2] /\ z[2] < h
    OBVIOUS
<1>3. \A z \in D : /\ Low(z[1], g) \in Int /\ Low(z[1], g) <= z[1] /\ z[1] < Low(z[1], g) + g
                   /\ Low(z[2], g) \in Int /\ Low(z[2], g) <= z[2] /\ z[2] < Low(z[2], g) + g
    BY <1>2, GridFacts
<1>4. /\ rect.left = Low(a[1], g) /\ rect.top = Low(c[2], g)
      /\ rect.right = Compare!Least(Low(b[1], g) + g, w)
      /\ rect.bottom = Compare!Least(Low(d[2], g) + g, h)
    BY <1>1 DEF Spanned
<1>5. ASSUME NEW v \in Int, NEW n \in Int, 0 <= v, v < n, NEW e, e = Compare!Least(Low(v, g) + g, n)
      PROVE  e \in Int /\ v < e /\ e <= n /\ Low(e - 1, g) = Low(v, g) /\ (e = Low(v, g) + g \/ e = n)
    <2>1. Low(v, g) \in Int /\ Low(v, g) <= v /\ v < Low(v, g) + g
        BY GridFacts
    <2>2. e \in Int /\ v < e /\ e <= n /\ e <= Low(v, g) + g /\ (e = Low(v, g) + g \/ e = n)
        BY <1>5, <2>1 DEF Compare!Least
    <2>3. e - 1 \in Int /\ Low(v, g) <= e - 1 /\ e - 1 < Low(v, g) + g
        BY <2>1, <2>2
    <2>4. Low(e - 1, g) = Low(v, g)
        BY <2>3, SameLine
    <2>. QED BY <2>2, <2>4
<1>6. /\ rect.right \in Int /\ b[1] < rect.right /\ rect.right <= w /\ Low(rect.right - 1, g) = Low(b[1], g)
      /\ rect.right = Low(b[1], g) + g \/ rect.right = w
    BY <1>2, <1>4, <1>5
<1>7. /\ rect.bottom \in Int /\ d[2] < rect.bottom /\ rect.bottom <= h /\ Low(rect.bottom - 1, g) = Low(d[2], g)
      /\ rect.bottom = Low(d[2], g) + g \/ rect.bottom = h
    BY <1>2, <1>4, <1>5
<1>8. ASSUME NEW z \in D PROVE Compare!Holds(rect, z)
    <2>1. rect.left <= z[1] /\ rect.top <= z[2]
        BY <1>1, <1>3, <1>4 DEF Spans
    <2>2. z[1] < rect.right
        BY <1>1, <1>2, <1>3, <1>6 DEF Spans
    <2>3. z[2] < rect.bottom
        BY <1>1, <1>2, <1>3, <1>7 DEF Spans
    <2>. QED BY <2>1, <2>2, <2>3 DEF Compare!Holds
<1>9. a[1] \in rect.left .. rect.left + g - 1 /\ c[2] \in rect.top .. rect.top + g - 1
    BY <1>2, <1>3, <1>4
<1>10. b[1] \in Low(rect.right - 1, g) .. rect.right - 1
    BY <1>2, <1>3, <1>6
<1>11. d[2] \in Low(rect.bottom - 1, g) .. rect.bottom - 1
    BY <1>2, <1>3, <1>7
<1>. QED BY <1>6, <1>7, <1>8, <1>9, <1>10, <1>11 DEF Tight

\* The corners of the tiles that hold the points of D.
TilesOf(D) == {<<z[1] \div 16, z[2] \div 16>> : z \in D}
CornersOf(D) == {<<Low(z[1], 16), Low(z[2], 16)>> : z \in D}

LEMMA TileRectDescribes ==
    ASSUME NEW i, NEW D \in SUBSET (Nat \X Nat), Few(D)
    PROVE  Describes(Compare!TileRect(i, TilesOf(D)), D, 16, i.w, i.h)
<1>1. CASE D = {}
    BY <1>1 DEF Describes, Compare!TileRect, TilesOf
<1>2. CASE D # {}
    <2> DEFINE f == [z \in D |-> z[1] \div 16]
               e == [z \in D |-> z[2] \div 16]
               S == {t[1] : t \in TilesOf(D)}
               R == {t[2] : t \in TilesOf(D)}
    <2>1. \A z \in D : z[1] \in Int /\ z[2] \in Int
        OBVIOUS
    <2>2. /\ \A z \in D : z[1] \div 16 \in Int /\ Low(z[1], 16) = (z[1] \div 16) * 16
          /\ \A z \in D : z[2] \div 16 \in Int /\ Low(z[2], 16) = (z[2] \div 16) * 16
        BY <2>1, GridFacts
    <2>3. Marks(D, f, S) /\ Marks(D, e, R)
        <3>1. f \in [D -> Int] /\ e \in [D -> Int]
            BY <2>2
        <3>2. S = {f[z] : z \in D}
            <4>1. ASSUME NEW v \in S PROVE \E z \in D : v = f[z]
                <5>1. PICK t \in TilesOf(D) : v = t[1]
                    OBVIOUS
                <5>2. PICK z \in D : t = <<z[1] \div 16, z[2] \div 16>>
                    BY DEF TilesOf
                <5>. QED BY <5>1, <5>2
            <4>2. ASSUME NEW z \in D PROVE f[z] \in S
                <5>1. <<z[1] \div 16, z[2] \div 16>> \in TilesOf(D)
                    BY DEF TilesOf
                <5>2. f[z] = <<z[1] \div 16, z[2] \div 16>>[1]
                    OBVIOUS
                <5>. QED BY <5>1, <5>2
            <4>. QED BY <4>1, <4>2
        <3>3. R = {e[z] : z \in D}
            <4>1. ASSUME NEW v \in R PROVE \E z \in D : v = e[z]
                <5>1. PICK t \in TilesOf(D) : v = t[2]
                    OBVIOUS
                <5>2. PICK z \in D : t = <<z[1] \div 16, z[2] \div 16>>
                    BY DEF TilesOf
                <5>. QED BY <5>1, <5>2
            <4>2. ASSUME NEW z \in D PROVE e[z] \in R
                <5>1. <<z[1] \div 16, z[2] \div 16>> \in TilesOf(D)
                    BY DEF TilesOf
                <5>2. e[z] = <<z[1] \div 16, z[2] \div 16>>[2]
                    OBVIOUS
                <5>. QED BY <5>1, <5>2
            <4>. QED BY <4>1, <4>2
        <3>. QED BY <1>2, <3>1, <3>2, <3>3 DEF Marks
    <2>4. TilesOf(D) # {}
        BY <1>2 DEF TilesOf
    <2>5. Compare!TileRect(i, TilesOf(D)) =
            [changed |-> TRUE, left |-> Compare!Min(S) * 16, top |-> Compare!Min(R) * 16,
             right |-> Compare!Least((Compare!Max(S) + 1) * 16, i.w),
             bottom |-> Compare!Least((Compare!Max(R) + 1) * 16, i.h)]
        BY <2>4 DEF Compare!TileRect, Compare!Tile
    <2>6. \A z \in D : f[z] = z[1] \div 16 /\ e[z] = z[2] \div 16
        OBVIOUS
    <2>. HIDE DEF f, e, S, R
    <2>7. PICK a \in D : Compare!Min(S) = f[a] /\ \A z \in D : f[a] <= f[z]
        BY <2>3, Extremes DEF HasMin, HasMax
    <2>8. PICK b \in D : Compare!Max(S) = f[b] /\ \A z \in D : f[z] <= f[b]
        BY <2>3, Extremes DEF HasMin, HasMax
    <2>9. PICK c \in D : Compare!Min(R) = e[c] /\ \A z \in D : e[c] <= e[z]
        BY <2>3, Extremes DEF HasMin, HasMax
    <2>10. PICK d \in D : Compare!Max(R) = e[d] /\ \A z \in D : e[z] <= e[d]
        BY <2>3, Extremes DEF HasMin, HasMax
    <2>11. \A z \in D : /\ f[z] \in Int /\ e[z] \in Int
                        /\ Low(z[1], 16) = f[z] * 16 /\ Low(z[2], 16) = e[z] * 16
        BY <2>2, <2>6
    <2>12. Spans(D, 16, a, b, c, d)
        BY <2>7, <2>8, <2>9, <2>10, <2>11 DEF Spans
    <2>13. /\ Compare!Min(S) * 16 = Low(a[1], 16) /\ Compare!Min(R) * 16 = Low(c[2], 16)
           /\ (Compare!Max(S) + 1) * 16 = Low(b[1], 16) + 16
           /\ (Compare!Max(R) + 1) * 16 = Low(d[2], 16) + 16
        BY <2>7, <2>8, <2>9, <2>10, <2>11
    <2>14. Compare!TileRect(i, TilesOf(D)) = Spanned(16, i.w, i.h, a, b, c, d)
        BY <2>5, <2>13 DEF Spanned
    <2>. QED BY <1>2, <2>12, <2>14 DEF Describes
<1>. QED BY <1>1, <1>2

LEMMA CornerRectDescribes ==
    ASSUME NEW i, NEW D \in SUBSET (Nat \X Nat), Few(D)
    PROVE  Describes(Compare!CornerRect(i, CornersOf(D)), D, 16, i.w, i.h)
<1>1. CASE D = {}
    BY <1>1 DEF Describes, Compare!CornerRect, CornersOf
<1>2. CASE D # {}
    <2> DEFINE f == [z \in D |-> Low(z[1], 16)]
               e == [z \in D |-> Low(z[2], 16)]
               S == {t[1] : t \in CornersOf(D)}
               R == {t[2] : t \in CornersOf(D)}
    <2>1. \A z \in D : z[1] \in Int /\ z[2] \in Int
        OBVIOUS
    <2>2. \A z \in D : Low(z[1], 16) \in Int /\ Low(z[2], 16) \in Int
        BY <2>1, GridFacts
    <2>3. Marks(D, f, S) /\ Marks(D, e, R)
        <3>1. f \in [D -> Int] /\ e \in [D -> Int]
            BY <2>2
        <3>2. S = {f[z] : z \in D}
            <4>1. ASSUME NEW v \in S PROVE \E z \in D : v = f[z]
                <5>1. PICK t \in CornersOf(D) : v = t[1]
                    OBVIOUS
                <5>2. PICK z \in D : t = <<Low(z[1], 16), Low(z[2], 16)>>
                    BY DEF CornersOf
                <5>. QED BY <5>1, <5>2
            <4>2. ASSUME NEW z \in D PROVE f[z] \in S
                <5>1. <<Low(z[1], 16), Low(z[2], 16)>> \in CornersOf(D)
                    BY DEF CornersOf
                <5>2. f[z] = <<Low(z[1], 16), Low(z[2], 16)>>[1]
                    OBVIOUS
                <5>. QED BY <5>1, <5>2
            <4>. QED BY <4>1, <4>2
        <3>3. R = {e[z] : z \in D}
            <4>1. ASSUME NEW v \in R PROVE \E z \in D : v = e[z]
                <5>1. PICK t \in CornersOf(D) : v = t[2]
                    OBVIOUS
                <5>2. PICK z \in D : t = <<Low(z[1], 16), Low(z[2], 16)>>
                    BY DEF CornersOf
                <5>. QED BY <5>1, <5>2
            <4>2. ASSUME NEW z \in D PROVE e[z] \in R
                <5>1. <<Low(z[1], 16), Low(z[2], 16)>> \in CornersOf(D)
                    BY DEF CornersOf
                <5>2. e[z] = <<Low(z[1], 16), Low(z[2], 16)>>[2]
                    OBVIOUS
                <5>. QED BY <5>1, <5>2
            <4>. QED BY <4>1, <4>2
        <3>. QED BY <1>2, <3>1, <3>2, <3>3 DEF Marks
    <2>4. CornersOf(D) # {}
        BY <1>2 DEF CornersOf
    <2>5. Compare!CornerRect(i, CornersOf(D)) =
            [changed |-> TRUE, left |-> Low(Compare!Min(S), 16), top |-> Low(Compare!Min(R), 16),
             right |-> Compare!Least(Compare!Up(Compare!Max(S) + 1, 16), i.w),
             bottom |-> Compare!Least(Compare!Up(Compare!Max(R) + 1, 16), i.h)]
        BY <2>4 DEF Compare!CornerRect, Compare!Tile, Low
    <2>6. \A z \in D : f[z] = Low(z[1], 16) /\ e[z] = Low(z[2], 16)
        OBVIOUS
    <2>. HIDE DEF f, e, S, R
    <2>7. PICK a \in D : Compare!Min(S) = f[a] /\ \A z \in D : f[a] <= f[z]
        BY <2>3, Extremes DEF HasMin, HasMax
    <2>8. PICK b \in D : Compare!Max(S) = f[b] /\ \A z \in D : f[z] <= f[b]
        BY <2>3, Extremes DEF HasMin, HasMax
    <2>9. PICK c \in D : Compare!Min(R) = e[c] /\ \A z \in D : e[c] <= e[z]
        BY <2>3, Extremes DEF HasMin, HasMax
    <2>10. PICK d \in D : Compare!Max(R) = e[d] /\ \A z \in D : e[z] <= e[d]
        BY <2>3, Extremes DEF HasMin, HasMax
    <2>11. Spans(D, 16, a, b, c, d)
        BY <2>6, <2>7, <2>8, <2>9, <2>10 DEF Spans
    <2>12. \A v \in Int : Low(Low(v, 16), 16) = Low(v, 16)
        <3> SUFFICES ASSUME NEW v \in Int PROVE Low(Low(v, 16), 16) = Low(v, 16)
            OBVIOUS
        <3>1. Low(v, 16) \in Int
            BY GridFacts
        <3>2. Low(v, 16) <= Low(v, 16) /\ Low(v, 16) < Low(v, 16) + 16
            BY <3>1
        <3>. QED BY <3>1, <3>2, SameLine
    <2>13. /\ Low(Compare!Min(S), 16) = Low(a[1], 16) /\ Low(Compare!Min(R), 16) = Low(c[2], 16)
        BY <2>1, <2>6, <2>7, <2>9, <2>12
    <2>14. /\ Compare!Up(Compare!Max(S) + 1, 16) = Low(b[1], 16) + 16
           /\ Compare!Up(Compare!Max(R) + 1, 16) = Low(d[2], 16) + 16
        BY <2>1, <2>6, <2>8, <2>10, NextLine
    <2>15. Compare!CornerRect(i, CornersOf(D)) = Spanned(16, i.w, i.h, a, b, c, d)
        BY <2>5, <2>13, <2>14 DEF Spanned
    <2>. QED BY <1>2, <2>11, <2>15 DEF Describes
<1>. QED BY <1>1, <1>2

\* 8-bit pixels, wherever the words of a row end.
LEMMA GroupRectDescribes ==
    ASSUME NEW i, IsImage(i), NEW whole \in Int
    PROVE  Describes(Compare!GroupRect(i, whole), i.diff, 4, Compare!Up(i.w, 4), Compare!Up(i.h, 4))
<1> DEFINE D == i.diff
<1>0. Few(D)
    BY DEF IsImage
<1>1. CASE D = {}
    BY <1>1 DEF Describes, Compare!GroupRect
<1>2. CASE D # {}
    <2> DEFINE f == [z \in D |-> Compare!Noticed(z, whole)]
               e == [z \in D |-> z[2]]
               S == {Compare!Noticed(z, whole) : z \in D}
               R == {z[2] : z \in D}
    <2>1. \A z \in D : /\ z[1] \in Int /\ z[2] \in Int
                       /\ 0 <= z[1] /\ z[1] <= i.w - 1 /\ 0 <= z[2] /\ z[2] <= i.h - 1
        BY DEF IsImage
    <2>2. i.w \in Int /\ i.h \in Int
        BY DEF IsImage
    <2>3. \A v \in Int : Low(v, 4) \in Int /\ Low(v, 4) <= v /\ v < Low(v, 4) + 4 /\ Low(Low(v, 4), 4) = Low(v, 4)
        <3> SUFFICES ASSUME NEW v \in Int
                     PROVE  Low(v, 4) \in Int /\ Low(v, 4) <= v /\ v < Low(v, 4) + 4 /\ Low(Low(v, 4), 4) = Low(v, 4)
            OBVIOUS
        <3>1. Low(v, 4) \in Int /\ Low(v, 4) <= v /\ v < Low(v, 4) + 4
            BY GridFacts
        <3>. QED BY <3>1, SameLine
    <2>4. \A z \in D : Compare!Noticed(z, whole) \in Int /\ Low(Compare!Noticed(z, whole), 4) = Low(z[1], 4)
        BY <2>1, <2>3 DEF Compare!Noticed, Low
    <2>5. Marks(D, f, S) /\ Marks(D, e, R)
        <3>1. f \in [D -> Int] /\ e \in [D -> Int]
            BY <2>1, <2>4
        <3>2. S = {f[z] : z \in D} /\ R = {e[z] : z \in D}
            OBVIOUS
        <3>. QED BY <1>0, <1>2, <3>1, <3>2 DEF Marks
    <2>6. Compare!GroupRect(i, whole) =
            [changed |-> TRUE, left |-> Low(Compare!Min(S), 4), top |-> Low(Compare!Min(R), 4),
             right |-> Compare!Up(Compare!Max(S) + 1, 4), bottom |-> Compare!Up(Compare!Max(R) + 1, 4)]
        BY <1>2 DEF Compare!GroupRect, Low
    <2>7. \A z \in D : f[z] = Compare!Noticed(z, whole) /\ e[z] = z[2]
        OBVIOUS
    <2>. HIDE DEF f, e, S, R, D
    <2>8. PICK a \in D : Compare!Min(S) = f[a] /\ \A z \in D : f[a] <= f[z]
        BY <2>5, Extremes DEF HasMin, HasMax
    <2>9. PICK b \in D : Compare!Max(S) = f[b] /\ \A z \in D : f[z] <= f[b]
        BY <2>5, Extremes DEF HasMin, HasMax
    <2>10. PICK c \in D : Compare!Min(R) = e[c] /\ \A z \in D : e[c] <= e[z]
        BY <2>5, Extremes DEF HasMin, HasMax
    <2>11. PICK d \in D : Compare!Max(R) = e[d] /\ \A z \in D : e[z] <= e[d]
        BY <2>5, Extremes DEF HasMin, HasMax
    <2>12. \A z \in D : f[z] \in Int /\ e[z] \in Int /\ Low(f[z], 4) = Low(z[1], 4) /\ Low(e[z], 4) = Low(z[2], 4)
        BY <2>1, <2>4, <2>7
    <2>13. Spans(D, 4, a, b, c, d)
        <3> SUFFICES ASSUME NEW z \in D
                     PROVE  /\ Low(f[a], 4) <= Low(f[z], 4) /\ Low(f[z], 4) <= Low(f[b], 4)
                            /\ Low(e[c], 4) <= Low(e[z], 4) /\ Low(e[z], 4) <= Low(e[d], 4)
            BY <2>12 DEF Spans
        <3>1. Low(f[a], 4) <= Low(f[z], 4) /\ Low(f[z], 4) <= Low(f[b], 4)
            BY <2>8, <2>9, <2>12, GridOrder
        <3>2. Low(e[c], 4) <= Low(e[z], 4) /\ Low(e[z], 4) <= Low(e[d], 4)
            BY <2>10, <2>11, <2>12, GridOrder
        <3>. QED BY <3>1, <3>2
    <2>14. ASSUME NEW v \in Int PROVE Compare!Up(v + 1, 4) = Low(v, 4) + 4
        <3>1. PICK k \in Int : Low(v, 4) = 4 * k
            BY GridFacts
        <3>2. PICK m \in Int : m = k + 1
            OBVIOUS
        <3>3. 4 * m <= v + 4 /\ v + 4 < 4 * m + 4 /\ (v + 1) + 4 - 1 = v + 4
            BY <2>3, <3>1, <3>2
        <3>4. Low(v + 4, 4) = 4 * m
            BY <3>3, GridLine
        <3>5. 4 * m = Low(v, 4) + 4
            BY <3>1, <3>2
        <3>. QED BY <3>3, <3>4, <3>5 DEF Compare!Up, Low
    <2>15. /\ Compare!Up(Compare!Max(S) + 1, 4) = Low(b[1], 4) + 4
           /\ Compare!Up(Compare!Max(R) + 1, 4) = Low(d[2], 4) + 4
        BY <2>9, <2>11, <2>12, <2>14
    <2>16. ASSUME NEW v \in Int, NEW n \in Int, v <= n - 1 PROVE Compare!Least(Low(v, 4) + 4, Compare!Up(n, 4)) = Low(v, 4) + 4
        <3>1. PICK m \in Int : m = n - 1
            OBVIOUS
        <3>2. Compare!Up(n, 4) = Low(m, 4) + 4
            <4>1. m + 1 = n
                BY <3>1
            <4>. QED BY <2>14, <4>1
        <3>3. Low(v, 4) <= Low(m, 4)
            BY <2>16, <3>1, GridOrder
        <3>. QED BY <2>3, <3>2, <3>3 DEF Compare!Least
    <2>17. /\ Compare!Least(Low(b[1], 4) + 4, Compare!Up(i.w, 4)) = Low(b[1], 4) + 4
           /\ Compare!Least(Low(d[2], 4) + 4, Compare!Up(i.h, 4)) = Low(d[2], 4) + 4
        BY <2>1, <2>2, <2>16
    <2>18. Low(Compare!Min(S), 4) = Low(a[1], 4) /\ Low(Compare!Min(R), 4) = Low(c[2], 4)
        BY <2>8, <2>10, <2>12
    <2>19. Compare!GroupRect(i, whole) = Spanned(4, Compare!Up(i.w, 4), Compare!Up(i.h, 4), a, b, c, d)
        BY <2>6, <2>15, <2>17, <2>18 DEF Spanned
    <2>. QED BY <1>2, <2>13, <2>19 DEF Describes, D
<1>. QED BY <1>1, <1>2

\* Remainders, as what is left of a multiple.
LEMMA Remainder ==
    ASSUME NEW n \in Nat
    PROVE  \E k \in Nat, r \in 0 .. 15 : n = 16 * k + r /\ n % 16 = r /\ n \div 16 = k
<1>1. PICK k \in Int : k = n \div 16 /\ 16 * k <= n /\ n < 16 * k + 16
    <2>1. n \div 16 \in Int /\ 16 * (n \div 16) <= n /\ n < 16 * (n \div 16) + 16
        OBVIOUS
    <2>. QED BY <2>1
<1>2. k \in Nat
    BY <1>1
<1>3. PICK r \in Int : r = n - 16 * k
    BY <1>1
<1>4. r \in 0 .. 15 /\ n = 16 * k + r
    BY <1>1, <1>3
<1>5. \A m \in Nat, a \in Nat, b \in 0 .. 15 : m = 16 * a + b => m % 16 = b
    OBVIOUS
<1>6. n % 16 = r
    BY <1>2, <1>4, <1>5
<1>. QED BY <1>1, <1>2, <1>4, <1>6

\* A point of an axis lies in its own tile and in no other.
LEMMA AxisTile ==
    ASSUME NEW n \in Nat \ {0}, NEW v \in 0 .. n - 1, NEW t \in Nat
    PROVE  v \in t * 16 .. t * 16 + Compare!GenericExtent(t, n) - 1 <=> t = v \div 16
<1>1. PICK k \in Int : k = v \div 16 /\ 16 * k <= v /\ v < 16 * k + 16
    <2>1. v \div 16 \in Int /\ 16 * (v \div 16) <= v /\ v < 16 * (v \div 16) + 16
        OBVIOUS
    <2>. QED BY <2>1
<1>2. PICK a \in Nat, r \in 0 .. 15 : n = 16 * a + r /\ n % 16 = r
    BY Remainder
<1>3. Compare!Up(n, 16) \div 16 = IF r = 0 THEN a ELSE a + 1
    <2>1. PICK m \in Int : m = IF r = 0 THEN a ELSE a + 1
        OBVIOUS
    <2>2. 16 * m <= n + 16 - 1 /\ n + 16 - 1 < 16 * m + 16 /\ n + 16 - 1 \in Int
        BY <1>2, <2>1
    <2>3. Low(n + 16 - 1, 16) = 16 * m
        BY <2>2, GridLine
    <2>4. (16 * m) \div 16 = m
        OBVIOUS
    <2>. QED BY <2>1, <2>3, <2>4 DEF Compare!Up, Low
<1>4. Compare!GenericExtent(t, n) = IF t = a /\ r # 0 THEN r ELSE 16
    BY <1>2, <1>3 DEF Compare!GenericExtent, Compare!Tile
<1>5. PICK e \in 1 .. 16 : e = Compare!GenericExtent(t, n) /\ e = IF t = a /\ r # 0 THEN r ELSE 16
    BY <1>4
<1>6. ASSUME t * 16 <= v, v <= t * 16 + e - 1 PROVE t = k
    BY <1>1, <1>6
<1>7. ASSUME t = k PROVE t * 16 <= v /\ v <= t * 16 + e - 1
    BY <1>1, <1>2, <1>5, <1>7
<1>. QED BY <1>1, <1>5, <1>6, <1>7

\* How many columns of a tile of tw a vector kernel reads, and what of the row
\* it leaves out then.
Reads(least, tw) == IF tw >= least THEN Compare!Down(tw, 4) ELSE tw
Tail4(least, n) == IF n % 16 < least THEN {} ELSE Low(n, 4) .. n - 1

LEMMA AxisReads ==
    ASSUME NEW n \in Nat \ {0}, NEW v \in 0 .. n - 1, NEW c \in 0 .. n - 1, c % 16 = 0, NEW least \in {4, 8}
    PROVE  v \in c .. c + Reads(least, Compare!Least(n - c, 16)) - 1
           <=> c = Low(v, 16) /\ v \notin Tail4(least, n)
<1>1. PICK k \in Nat : c = 16 * k
    <2>1. PICK a \in Nat, r \in 0 .. 15 : c = 16 * a + r /\ c % 16 = r
        BY Remainder
    <2>. QED BY <2>1
<1>2. c = Low(v, 16) <=> 16 * k <= v /\ v < 16 * k + 16
    <2>1. 16 * k <= v /\ v < 16 * k + 16 => c = Low(v, 16)
        BY <1>1, GridLine
    <2>2. c = Low(v, 16) => c <= v /\ v < c + 16
        <3>1. Low(v, 16) \in Int /\ Low(v, 16) <= v /\ v < Low(v, 16) + 16
            BY GridFacts
        <3>. QED BY <3>1
    <2>. QED BY <1>1, <2>1, <2>2
<1>3. PICK tw \in Int : tw = n - c
    OBVIOUS
<1>4. CASE tw >= 16
    <2>1. Compare!Least(n - c, 16) = 16
        BY <1>3, <1>4 DEF Compare!Least
    <2>2. Low(16, 4) = 16
        <3>1. 4 * 4 <= 16 /\ 16 < 4 * 4 + 4 /\ 4 * 4 = 16
            OBVIOUS
        <3>. QED BY <3>1, GridLine
    <2>3. Reads(least, 16) = 16
        BY <2>2 DEF Reads, Low
    <2>4. ASSUME v < 16 * k + 16 PROVE v \notin Tail4(least, n)
        <3>1. PICK j \in Int : j = 4 * k + 4
            OBVIOUS
        <3>2. 4 * j <= n /\ 4 * j = 16 * k + 16 /\ 4 * j \in Int
            BY <1>1, <1>3, <1>4, <3>1
        <3>3. Low(4 * j, 4) = 4 * j
            <4>1. 4 * j <= 4 * j /\ 4 * j < 4 * j + 4
                BY <3>2
            <4>. QED BY <3>2, <4>1, GridLine
        <3>4. 4 * j <= Low(n, 4)
            BY <3>2, <3>3, GridOrder
        <3>5. Low(n, 4) \in Int
            BY GridFacts
        <3>. QED BY <2>4, <3>2, <3>4, <3>5 DEF Tail4
    <2>. QED BY <1>1, <1>2, <2>1, <2>3, <2>4
<1>5. CASE tw < 16
    <2>1. tw \in 1 .. 15 /\ n = 16 * k + tw
        BY <1>1, <1>3, <1>5
    <2>2. Compare!Least(n - c, 16) = tw
        BY <1>3, <1>5 DEF Compare!Least
    <2>3. n % 16 = tw
        <3>1. PICK a \in Nat, r \in 0 .. 15 : n = 16 * a + r /\ n % 16 = r
            BY Remainder
        <3>2. r = tw
            BY <2>1, <3>1
        <3>. QED BY <3>1, <3>2
    <2>4. CASE tw < least
        <3>1. Reads(least, tw) = tw /\ Tail4(least, n) = {}
            BY <2>1, <2>3, <2>4 DEF Reads, Tail4
        <3>. QED BY <1>1, <1>2, <2>1, <2>2, <3>1
    <2>5. CASE tw >= least
        <3>1. PICK j \in Int : Low(tw, 4) = 4 * j /\ 4 * j <= tw /\ tw < 4 * j + 4
            BY GridFacts
        <3>2. PICK m \in Int : m = 4 * k + j
            OBVIOUS
        <3>3. 4 * m = 16 * k + 4 * j /\ 4 * m <= n /\ n < 4 * m + 4
            BY <2>1, <3>1, <3>2
        <3>4. Low(n, 4) = 4 * m
            BY <3>3, GridLine
        <3>5. Reads(least, tw) = 4 * j
            BY <2>5, <3>1 DEF Reads, Low
        <3>6. Tail4(least, n) = 4 * m .. n - 1
            BY <2>1, <2>3, <2>5, <3>4 DEF Tail4
        <3>7. v \in 16 * k .. 16 * k + 4 * j - 1 <=> (16 * k <= v /\ v < 16 * k + 16) /\ v \notin 4 * m .. n - 1
            BY <2>1, <3>1, <3>3
        <3>. QED BY <1>1, <1>2, <2>2, <3>5, <3>6, <3>7
    <2>. QED BY <2>1, <2>4, <2>5
<1>. QED BY <1>3, <1>4, <1>5

\* The kernel that reads whole tiles.
LEMMA AxisWhole ==
    ASSUME NEW n \in Nat \ {0}, NEW v \in 0 .. n - 1, NEW c \in 0 .. n - 1, c % 16 = 0
    PROVE  v \in c .. c + Compare!Least(n - c, 16) - 1 <=> c = Low(v, 16)
<1>1. PICK k \in Nat : c = 16 * k
    <2>1. PICK a \in Nat, r \in 0 .. 15 : c = 16 * a + r /\ c % 16 = r
        BY Remainder
    <2>. QED BY <2>1
<1>2. c = Low(v, 16) <=> 16 * k <= v /\ v < 16 * k + 16
    <2>1. 16 * k <= v /\ v < 16 * k + 16 => c = Low(v, 16)
        BY <1>1, GridLine
    <2>2. c = Low(v, 16) => c <= v /\ v < c + 16
        <3>1. Low(v, 16) \in Int /\ Low(v, 16) <= v /\ v < Low(v, 16) + 16
            BY GridFacts
        <3>. QED BY <3>1
    <2>. QED BY <1>1, <2>1, <2>2
<1>3. v \in c .. c + Compare!Least(n - c, 16) - 1 <=> c <= v /\ v < c + 16
    BY DEF Compare!Least
<1>. QED BY <1>1, <1>2, <1>3

LEMMA AxisCorner ==
    ASSUME NEW n \in Nat \ {0}, NEW v \in 0 .. n - 1
    PROVE  Low(v, 16) \in 0 .. n - 1 /\ Low(v, 16) % 16 = 0
<1>0. Low(v, 16) \in Int /\ Low(v, 16) <= v /\ v < Low(v, 16) + 16 /\ \E k \in Int : Low(v, 16) = 16 * k
    BY GridFacts
<1>1. PICK k \in Int : Low(v, 16) = 16 * k
    BY <1>0
<1>2. k \in Nat /\ 16 * k \in 0 .. n - 1
    BY <1>0, <1>1
<1>3. PICK a \in Nat, r \in 0 .. 15 : 16 * k = 16 * a + r /\ (16 * k) % 16 = r
    BY <1>2, Remainder
<1>4. r = 0
    BY <1>2, <1>3
<1>. QED BY <1>1, <1>2, <1>3, <1>4

LEMMA AxisTiles ==
    ASSUME NEW n \in Nat \ {0}, NEW v \in 0 .. n - 1
    PROVE  v \div 16 \in 0 .. (n + 15) \div 16 - 1
<1>1. v \div 16 \in Int /\ 16 * (v \div 16) <= v /\ v < 16 * (v \div 16) + 16
    OBVIOUS
<1>2. (n + 15) \div 16 \in Int /\ n + 15 < 16 * ((n + 15) \div 16) + 16
    OBVIOUS
<1>. QED BY <1>1, <1>2

\* An image, taken apart.
LEMMA ImageFacts ==
    ASSUME NEW i, IsImage(i)
    PROVE  /\ i.w \in Nat \ {0} /\ i.h \in Nat \ {0} /\ i.diff \in SUBSET (Nat \X Nat) /\ Few(i.diff)
           /\ \A z \in i.diff : z[1] \in 0 .. i.w - 1 /\ z[2] \in 0 .. i.h - 1
BY DEF IsImage

\* The generic kernel finds the tiles that hold a change, and no other.
LEMMA GenericFinds ==
    ASSUME NEW i, IsImage(i)
    PROVE  Compare!GenericTiles(i) = TilesOf(i.diff)
<1> DEFINE A == 0 .. (i.w + 15) \div 16 - 1
           B == 0 .. (i.h + 15) \div 16 - 1
           Is(t) == Compare!Changed(i, t[1] * 16, t[2] * 16, Compare!GenericExtent(t[1], i.w),
                                    Compare!GenericExtent(t[2], i.h))
<1>1. ASSUME NEW t \in Nat \X Nat
      PROVE  Is(t) <=> \E p \in i.diff : t[1] = p[1] \div 16 /\ t[2] = p[2] \div 16
    <2>1. t[1] \in Nat /\ t[2] \in Nat
        OBVIOUS
    <2>2. ASSUME NEW p \in i.diff
          PROVE  /\ p[1] \in t[1] * 16 .. t[1] * 16 + Compare!GenericExtent(t[1], i.w) - 1 <=> t[1] = p[1] \div 16
                 /\ p[2] \in t[2] * 16 .. t[2] * 16 + Compare!GenericExtent(t[2], i.h) - 1 <=> t[2] = p[2] \div 16
        <3>1. i.w \in Nat \ {0} /\ i.h \in Nat \ {0} /\ p[1] \in 0 .. i.w - 1 /\ p[2] \in 0 .. i.h - 1
            BY ImageFacts
        <3>2. p[1] \in t[1] * 16 .. t[1] * 16 + Compare!GenericExtent(t[1], i.w) - 1 <=> t[1] = p[1] \div 16
            BY <2>1, <3>1, AxisTile
        <3>3. p[2] \in t[2] * 16 .. t[2] * 16 + Compare!GenericExtent(t[2], i.h) - 1 <=> t[2] = p[2] \div 16
            BY <2>1, <3>1, AxisTile
        <3>. QED BY <3>2, <3>3
    <2>. QED BY <2>2 DEF Compare!Changed
<1>2. Compare!GenericTiles(i) = {t \in A \X B : Is(t)}
    BY DEF Compare!GenericTiles, Compare!Tile
<1>3. A \subseteq Nat /\ B \subseteq Nat
    OBVIOUS
<1>4. ASSUME NEW p \in i.diff PROVE p[1] \div 16 \in A /\ p[2] \div 16 \in B
    <2>1. i.w \in Nat \ {0} /\ i.h \in Nat \ {0} /\ p[1] \in 0 .. i.w - 1 /\ p[2] \in 0 .. i.h - 1
        BY ImageFacts
    <2>. QED BY <2>1, AxisTiles
<1>. HIDE DEF A, B, Is
<1>5. ASSUME NEW t, t \in A \X B, Is(t) PROVE t \in TilesOf(i.diff)
    <2>1. t \in Nat \X Nat /\ t = <<t[1], t[2]>>
        <3>1. PICK a \in A, b \in B : t = <<a, b>>
            BY <1>5
        <3>. QED BY <1>3, <3>1
    <2>2. PICK p \in i.diff : t[1] = p[1] \div 16 /\ t[2] = p[2] \div 16
        BY <1>1, <1>5, <2>1
    <2>. QED BY <2>1, <2>2 DEF TilesOf
<1>6. ASSUME NEW t, t \in TilesOf(i.diff) PROVE t \in A \X B /\ Is(t)
    <2>1. PICK p \in i.diff : t = <<p[1] \div 16, p[2] \div 16>>
        BY <1>6 DEF TilesOf
    <2>2. t \in A \X B /\ t[1] = p[1] \div 16 /\ t[2] = p[2] \div 16
        BY <1>4, <2>1
    <2>3. t \in Nat \X Nat
        BY <1>3, <2>2
    <2>. QED BY <1>1, <2>2, <2>3
<1>. QED BY <1>2, <1>5, <1>6

\* A kernel that keeps the corner of each tile it reads a change of D in.
Finds(i, D, C) ==
    /\ D \subseteq i.diff /\ C \subseteq Compare!Corners(i)
    /\ \A c \in Compare!Corners(i) : c \in C <=> \E p \in D : c[1] = Low(p[1], 16) /\ c[2] = Low(p[2], 16)

LEMMA CornersFound ==
    ASSUME NEW i, IsImage(i), NEW D, NEW C, Finds(i, D, C)
    PROVE  C = CornersOf(D)
<1>1. \A c \in Compare!Corners(i) : c = <<c[1], c[2]>>
    BY DEF Compare!Corners
<1>2. ASSUME NEW p \in D PROVE <<Low(p[1], 16), Low(p[2], 16)>> \in Compare!Corners(i)
    <2>1. i.w \in Nat \ {0} /\ i.h \in Nat \ {0} /\ p[1] \in 0 .. i.w - 1 /\ p[2] \in 0 .. i.h - 1
        BY ImageFacts DEF Finds
    <2>2. Low(p[1], 16) \in 0 .. i.w - 1 /\ Low(p[1], 16) % 16 = 0
        BY <2>1, AxisCorner
    <2>3. Low(p[2], 16) \in 0 .. i.h - 1 /\ Low(p[2], 16) % 16 = 0
        BY <2>1, AxisCorner
    <2>. QED BY <2>2, <2>3 DEF Compare!Corners, Compare!Tile
<1>3. ASSUME NEW c \in C PROVE c \in CornersOf(D)
    <2>1. c \in Compare!Corners(i)
        BY DEF Finds
    <2>2. PICK p \in D : c[1] = Low(p[1], 16) /\ c[2] = Low(p[2], 16)
        BY <2>1 DEF Finds
    <2>. QED BY <1>1, <2>1, <2>2 DEF CornersOf
<1>4. ASSUME NEW c \in CornersOf(D) PROVE c \in C
    <2>1. PICK p \in D : c = <<Low(p[1], 16), Low(p[2], 16)>>
        BY DEF CornersOf
    <2>2. c \in Compare!Corners(i) /\ c[1] = Low(p[1], 16) /\ c[2] = Low(p[2], 16)
        BY <1>2, <2>1
    <2>. QED BY <2>2 DEF Finds
<1>. QED BY <1>3, <1>4

\* What a corner of an image is, and a change of it.
LEMMA CornerFacts ==
    ASSUME NEW i, IsImage(i), NEW c \in Compare!Corners(i), NEW p \in i.diff
    PROVE  /\ i.w \in Nat \ {0} /\ p[1] \in 0 .. i.w - 1 /\ c[1] \in 0 .. i.w - 1 /\ c[1] % 16 = 0
           /\ i.h \in Nat \ {0} /\ p[2] \in 0 .. i.h - 1 /\ c[2] \in 0 .. i.h - 1 /\ c[2] % 16 = 0
BY ImageFacts DEF Compare!Corners, Compare!Tile

\* The kernels that read a tile in vectors of four pixels, if it has "least".
VectorFinds(i, least) ==
    {c \in Compare!Corners(i) :
        Compare!Changed(i, c[1], c[2], Reads(least, Compare!Least(i.w - c[1], 16)), Compare!Least(i.h - c[2], 16))}
Seen(i, least) == {p \in i.diff : p[1] \notin Tail4(least, i.w)}

LEMMA VectorFindsSeen ==
    ASSUME NEW i, IsImage(i), NEW least \in {4, 8}
    PROVE  VectorFinds(i, least) = CornersOf(Seen(i, least))
<1>1. ASSUME NEW c \in Compare!Corners(i), NEW p \in i.diff
      PROVE  /\ p[1] \in c[1] .. c[1] + Reads(least, Compare!Least(i.w - c[1], 16)) - 1
                <=> c[1] = Low(p[1], 16) /\ p[1] \notin Tail4(least, i.w)
             /\ p[2] \in c[2] .. c[2] + Compare!Least(i.h - c[2], 16) - 1 <=> c[2] = Low(p[2], 16)
    <2>1. p[1] \in c[1] .. c[1] + Reads(least, Compare!Least(i.w - c[1], 16)) - 1
          <=> c[1] = Low(p[1], 16) /\ p[1] \notin Tail4(least, i.w)
        BY CornerFacts, AxisReads
    <2>2. p[2] \in c[2] .. c[2] + Compare!Least(i.h - c[2], 16) - 1 <=> c[2] = Low(p[2], 16)
        BY CornerFacts, AxisWhole
    <2>. QED BY <2>1, <2>2
<1>2. Finds(i, Seen(i, least), VectorFinds(i, least))
    <2>1. Seen(i, least) \subseteq i.diff /\ VectorFinds(i, least) \subseteq Compare!Corners(i)
        BY DEF Seen, VectorFinds
    <2>2. ASSUME NEW c \in Compare!Corners(i)
          PROVE  c \in VectorFinds(i, least)
                 <=> \E p \in Seen(i, least) : c[1] = Low(p[1], 16) /\ c[2] = Low(p[2], 16)
        <3>1. c \in VectorFinds(i, least)
              <=> \E p \in i.diff : /\ p[1] \in c[1] .. c[1] + Reads(least, Compare!Least(i.w - c[1], 16)) - 1
                                    /\ p[2] \in c[2] .. c[2] + Compare!Least(i.h - c[2], 16) - 1
            BY DEF VectorFinds, Compare!Changed
        <3>2. c \in VectorFinds(i, least)
              <=> \E p \in i.diff : /\ c[1] = Low(p[1], 16) /\ p[1] \notin Tail4(least, i.w)
                                    /\ c[2] = Low(p[2], 16)
            BY <1>1, <3>1
        <3>. QED BY <3>2 DEF Seen
    <2>. QED BY <2>1, <2>2 DEF Finds
<1>. QED BY <1>2, CornersFound

LEMMA LinearFinds ==
    ASSUME NEW i, IsImage(i)
    PROVE  Compare!Compare32Linear(i) = Compare!CornerRect(i, CornersOf(i.diff))
<1> DEFINE C == {c \in Compare!Corners(i) :
                    \E row \in c[2] .. Compare!Least(c[2] + 16, i.h) - 1 :
                        Compare!Changed(i, c[1], row, Compare!Least(i.w - c[1], 16), 1)}
<1>1. ASSUME NEW c \in Compare!Corners(i), NEW p \in i.diff
      PROVE  /\ p[1] \in c[1] .. c[1] + Compare!Least(i.w - c[1], 16) - 1 <=> c[1] = Low(p[1], 16)
             /\ (\E row \in c[2] .. Compare!Least(c[2] + 16, i.h) - 1 : p[2] \in row .. row + 1 - 1)
                <=> c[2] = Low(p[2], 16)
    <2>1. p[1] \in c[1] .. c[1] + Compare!Least(i.w - c[1], 16) - 1 <=> c[1] = Low(p[1], 16)
        BY CornerFacts, AxisWhole
    <2>2. p[2] \in c[2] .. c[2] + Compare!Least(i.h - c[2], 16) - 1 <=> c[2] = Low(p[2], 16)
        BY CornerFacts, AxisWhole
    <2>3. i.h \in Int /\ p[2] \in Int /\ c[2] \in Int
        BY CornerFacts
    <2>4. Compare!Least(c[2] + 16, i.h) = c[2] + Compare!Least(i.h - c[2], 16)
        BY <2>3 DEF Compare!Least
    <2>5. Compare!Least(c[2] + 16, i.h) \in Int /\ Compare!Least(i.h - c[2], 16) \in Int
        BY <2>3 DEF Compare!Least
    <2>6. (\E row \in c[2] .. Compare!Least(c[2] + 16, i.h) - 1 : p[2] \in row .. row + 1 - 1)
          <=> p[2] \in c[2] .. Compare!Least(c[2] + 16, i.h) - 1
        BY <2>3, <2>5
    <2>7. p[2] \in c[2] .. Compare!Least(c[2] + 16, i.h) - 1 <=> c[2] = Low(p[2], 16)
        BY <2>2, <2>3, <2>4, <2>5
    <2>. QED BY <2>1, <2>6, <2>7
<1>2. Compare!Compare32Linear(i) = Compare!CornerRect(i, C)
    BY DEF Compare!Compare32Linear, Compare!Tile
<1>3. \A c \in Compare!Corners(i) : c \in C <=> \E p \in i.diff : c[1] = Low(p[1], 16) /\ c[2] = Low(p[2], 16)
    <2> SUFFICES ASSUME NEW c \in Compare!Corners(i)
                 PROVE  c \in C <=> \E p \in i.diff : c[1] = Low(p[1], 16) /\ c[2] = Low(p[2], 16)
        OBVIOUS
    <2>1. c \in C
          <=> \E row \in c[2] .. Compare!Least(c[2] + 16, i.h) - 1 : \E p \in i.diff :
                 /\ p[1] \in c[1] .. c[1] + Compare!Least(i.w - c[1], 16) - 1
                 /\ p[2] \in row .. row + 1 - 1
        BY DEF Compare!Changed
    <2>2. c \in C
          <=> \E p \in i.diff :
                 /\ p[1] \in c[1] .. c[1] + Compare!Least(i.w - c[1], 16) - 1
                 /\ \E row \in c[2] .. Compare!Least(c[2] + 16, i.h) - 1 : p[2] \in row .. row + 1 - 1
        BY <2>1
    <2>3. ASSUME NEW p \in i.diff
          PROVE  /\ p[1] \in c[1] .. c[1] + Compare!Least(i.w - c[1], 16) - 1 <=> c[1] = Low(p[1], 16)
                 /\ (\E row \in c[2] .. Compare!Least(c[2] + 16, i.h) - 1 : p[2] \in row .. row + 1 - 1)
                    <=> c[2] = Low(p[2], 16)
        BY <1>1
    <2>. HIDE DEF C
    <2>. QED BY <2>2, <2>3
<1>4. C \subseteq Compare!Corners(i)
    OBVIOUS
<1>. HIDE DEF C
<1>5. Finds(i, i.diff, C)
    BY <1>3, <1>4 DEF Finds
<1>. QED BY <1>2, <1>5, CornersFound

-----------------------------------------------------------------------------
(* What the kernels of the comparison answer.                               *)

\* The kernel whose answer is out, if one has answered.
Answered ==
    \/ out = Compare!Named("none", Compare!NoChange)
    \/ out = Compare!Named("generic32", Compare!Compare32Generic(img))
    \/ out = Compare!Named("sse2_32", Compare!Compare32Sse2(img))
    \/ out = Compare!Named("neon32", Compare!Compare32Neon(img))
    \/ out = Compare!Named("linear32", Compare!Compare32Linear(img))
    \/ out = Compare!Named("generic8", Compare!Compare8Generic(img))
    \/ out = Compare!Named("sse2_8", Compare!Compare8Sse2(img))
    \/ out = Compare!Named("neon8", Compare!Compare8Neon(img))

\* The inductive invariant of the comparison.
CompareInv == part = "compare" => IsImage(img) /\ Answered

LEMMA CompareInit == Init => CompareInv
<1> SUFFICES ASSUME Init, part = "compare" PROVE IsImage(img) /\ Answered
    BY DEF CompareInv
<1>1. Compare!Init
    BY DEF Init
<1>2. PICK w \in CompareWidths, h \in CompareHeights, p \in ChangeColumns \X ChangeRows, q \in ChangeColumns \X ChangeRows :
            img = [w |-> w, h |-> h, diff |-> {d \in {p, q} : d[1] < w /\ d[2] < h}]
    BY <1>1 DEF Compare!Init
<1>3. w \in Nat \ {0} /\ h \in Nat \ {0} /\ p \in Nat \X Nat /\ q \in Nat \X Nat
    <2>1. \A n \in 1 .. Compare!MaxTiles * Compare!Tile : n \in Nat \ {0}
        BY DEF Compare!MaxTiles, Compare!Tile
    <2>2. w \in 1 .. Compare!MaxTiles * Compare!Tile /\ h \in 1 .. Compare!MaxTiles * Compare!Tile
        BY ParametersAreSound, Zenon DEF Compare!SizesAssumption
    <2>3. p \in Nat \X Nat /\ q \in Nat \X Nat
        BY ParametersAreSound DEF Compare!SizesAssumption
    <2>. QED BY <2>1, <2>2, <2>3
<1> DEFINE D == {d \in {p, q} : d[1] < w /\ d[2] < h}
<1>4. D \in SUBSET (Nat \X Nat) /\ D \subseteq (0 .. w - 1) \X (0 .. h - 1)
    <2>1. D \subseteq Nat \X Nat
        BY <1>3
    <2>2. ASSUME NEW z \in D PROVE z \in (0 .. w - 1) \X (0 .. h - 1)
        <3>1. PICK a \in Nat, b \in Nat : z = <<a, b>>
            BY <2>1
        <3>2. a < w /\ b < h
            BY <3>1
        <3>. QED BY <1>3, <3>1, <3>2
    <2>. QED BY <2>1, <2>2
<1>5. Few(D)
    <2>1. D \subseteq {p, q}
        OBVIOUS
    <2>. QED BY <2>1 DEF Few
<1>. HIDE DEF D
<1>6. img = [w |-> w, h |-> h, diff |-> D]
    BY <1>2 DEF D
<1>7. IsImage(img)
    BY <1>3, <1>4, <1>5, <1>6 DEF IsImage
<1>. QED BY <1>1, <1>7 DEF Answered, Compare!Init

LEMMA CompareStep == CompareInv /\ [Next]_vars => CompareInv'
<1> SUFFICES ASSUME CompareInv, [Next]_vars, part' = "compare" PROVE IsImage(img') /\ Answered'
    BY DEF CompareInv
<1>1. part' = part
    BY DEF Next, NextCompare, NextMove, NextColor, NextWalk, NextPrimitives, vars
<1>2. part = "compare" /\ IsImage(img) /\ Answered
    BY <1>1 DEF CompareInv
<1>3. Compare!Next \/ UNCHANGED <<img, out>>
    BY <1>2 DEF Next, NextCompare, NextMove, NextColor, NextWalk, NextPrimitives, vars, compares
<1>4. CASE UNCHANGED <<img, out>>
    BY <1>2, <1>4 DEF Answered
<1>5. CASE Compare!Next
    <2>1. img' = img
        BY <1>5 DEF Compare!Next, Compare!Answer, Compare!Xpp_Compare32_generic, Compare!Xpp_Compare32_sse2,
                    Compare!Xpp_Compare32_neon, Compare!Xpp_Compare32_linear, Compare!Xpp_Compare8_generic,
                    Compare!Xpp_Compare8_sse2, Compare!Xpp_Compare8_neon
    <2>2. \/ out' = Compare!Named("generic32", Compare!Compare32Generic(img))
          \/ out' = Compare!Named("sse2_32", Compare!Compare32Sse2(img))
          \/ out' = Compare!Named("neon32", Compare!Compare32Neon(img))
          \/ out' = Compare!Named("linear32", Compare!Compare32Linear(img))
          \/ out' = Compare!Named("generic8", Compare!Compare8Generic(img))
          \/ out' = Compare!Named("sse2_8", Compare!Compare8Sse2(img))
          \/ out' = Compare!Named("neon8", Compare!Compare8Neon(img))
        BY <1>5 DEF Compare!Next, Compare!Answer, Compare!Xpp_Compare32_generic, Compare!Xpp_Compare32_sse2,
                    Compare!Xpp_Compare32_neon, Compare!Xpp_Compare32_linear, Compare!Xpp_Compare8_generic,
                    Compare!Xpp_Compare8_sse2, Compare!Xpp_Compare8_neon
    <2>. QED BY <1>2, <2>1, <2>2 DEF Answered
<1>. QED BY <1>3, <1>4, <1>5

\* The answer a kernel gives for the changes D: everything that is said of it.
Told(fn, D, g, w, h) == \E rect : out = Compare!Named(fn, rect) /\ Describes(rect, D, g, w, h)

LEMMA ToldIs ==
    ASSUME NEW fn, NEW D \in SUBSET (Nat \X Nat), NEW g \in {4, 16}, NEW w \in Nat, NEW h \in Nat,
           D \subseteq (0 .. w - 1) \X (0 .. h - 1), Told(fn, D, g, w, h)
    PROVE  /\ out.fn = fn /\ (out.changed <=> D # {})
           /\ D # {} => Tight(out, D, g, w, h)
<1>1. PICK rect : out = Compare!Named(fn, rect) /\ Describes(rect, D, g, w, h)
    BY DEF Told
<1>2. /\ out.fn = fn /\ out.changed = rect.changed /\ out.left = rect.left /\ out.top = rect.top
      /\ out.right = rect.right /\ out.bottom = rect.bottom
    BY <1>1 DEF Compare!Named
<1>3. CASE D = {}
    BY <1>1, <1>2, <1>3 DEF Describes, Compare!NoChange
<1>4. CASE D # {}
    <2>1. rect.changed = TRUE
        BY <1>1, <1>4 DEF Describes, Spanned
    <2>2. Tight(rect, D, g, w, h)
        BY <1>1, <1>4, DescribedIsTight
    <2>3. Tight(out, D, g, w, h)
        BY <1>2, <2>2 DEF Tight, Compare!Holds
    <2>. QED BY <1>2, <1>4, <2>1, <2>3
<1>. QED BY <1>3, <1>4

\* The kernels of 32-bit pixels: which changes each one's rectangle describes.
LEMMA Answers32 ==
    ASSUME IsImage(img)
    PROVE  /\ out = Compare!Named("generic32", Compare!Compare32Generic(img))
              => Told("generic32", img.diff, 16, img.w, img.h)
           /\ out = Compare!Named("linear32", Compare!Compare32Linear(img))
              => Told("linear32", img.diff, 16, img.w, img.h)
<1>1. img.diff \in SUBSET (Nat \X Nat) /\ Few(img.diff)
    BY ImageFacts
<1>2. Describes(Compare!Compare32Generic(img), img.diff, 16, img.w, img.h)
    BY <1>1, GenericFinds, TileRectDescribes DEF Compare!Compare32Generic
<1>3. Describes(Compare!Compare32Linear(img), img.diff, 16, img.w, img.h)
    BY <1>1, LinearFinds, CornerRectDescribes
<1>. QED BY <1>2, <1>3 DEF Told

\* The vector kernels answer what the generic one would of what they see.
LEMMA VectorAnswers ==
    ASSUME IsImage(img), NEW least \in {4, 8}
    PROVE  /\ Describes(Compare!CornerRect(img, VectorFinds(img, least)), Seen(img, least), 16, img.w, img.h)
           /\ Compare!CornerRect(img, VectorFinds(img, least)) = Compare!OnRead(least)
           /\ Seen(img, least) \subseteq img.diff
<1> DEFINE S == Seen(img, least)
           i == [img EXCEPT !.diff = S]
<1>1. S \in SUBSET (Nat \X Nat) /\ Few(S) /\ S \subseteq img.diff /\ S \subseteq (0 .. img.w - 1) \X (0 .. img.h - 1)
    <2>1. S \subseteq img.diff
        BY DEF Seen
    <2>2. PICK p, q : img.diff \subseteq {p, q}
        BY DEF IsImage, Few
    <2>3. S \subseteq {p, q}
        BY <2>1, <2>2
    <2>. QED BY <2>1, <2>3 DEF IsImage, Few
<1>2. Describes(Compare!CornerRect(img, VectorFinds(img, least)), S, 16, img.w, img.h)
    BY <1>1, VectorFindsSeen, CornerRectDescribes
<1>3. i.w = img.w /\ i.h = img.h /\ i.diff = S
    BY DEF IsImage
<1>4. IsImage(i)
    BY <1>1, <1>3 DEF IsImage
<1>5. Compare!OnRead(least) = Compare!Compare32Generic(i)
    <2>1. Compare!Unread(least) = Tail4(least, img.w)
        BY DEF Compare!Unread, Tail4, Low, Compare!Tile
    <2>2. S = {p \in img.diff : p[1] \notin Compare!Unread(least)}
        BY <2>1 DEF Seen
    <2>3. Compare!OnRead(least) =
            Compare!Compare32Generic([img EXCEPT !.diff = {p \in img.diff : p[1] \notin Compare!Unread(least)}])
        BY DEF Compare!OnRead
    <2>. QED BY <2>2, <2>3
<1>. HIDE DEF S, i
<1>6. Compare!Compare32Generic(i) = Compare!TileRect(i, TilesOf(S))
    BY <1>3, <1>4, GenericFinds DEF Compare!Compare32Generic
<1>7. Describes(Compare!Compare32Generic(i), S, 16, img.w, img.h)
    BY <1>1, <1>3, <1>6, TileRectDescribes
<1>8. Compare!CornerRect(img, VectorFinds(img, least)) = Compare!Compare32Generic(i)
    BY <1>1, <1>2, <1>7, DescribedOnce
<1>. QED BY <1>1, <1>2, <1>5, <1>8 DEF S

LEMMA VectorKernels ==
    /\ Compare!Compare32Sse2(img) = Compare!CornerRect(img, VectorFinds(img, 4))
    /\ Compare!Compare32Neon(img) = Compare!CornerRect(img, VectorFinds(img, 8))
BY DEF Compare!Compare32Sse2, Compare!Compare32Neon, VectorFinds, Compare!Sse2Reads, Compare!NeonReads,
       Reads, Compare!Tile

\* An image rounded up to groups of four holds the image.
LEMMA RoundedUp ==
    ASSUME NEW n \in Nat \ {0}
    PROVE  Compare!Up(n, 4) \in Nat /\ n <= Compare!Up(n, 4)
<1>1. PICK m \in Int : m = n + 4 - 1
    OBVIOUS
<1>2. Low(m, 4) \in Int /\ m < Low(m, 4) + 4
    BY GridFacts
<1>3. Compare!Up(n, 4) = Low(m, 4)
    BY <1>1 DEF Compare!Up, Low
<1>. QED BY <1>1, <1>2, <1>3

LEMMA Answers8 ==
    ASSUME IsImage(img)
    PROVE  /\ out = Compare!Named("generic8", Compare!Compare8Generic(img))
              => Told("generic8", img.diff, 4, Compare!Up(img.w, 4), Compare!Up(img.h, 4))
           /\ out = Compare!Named("sse2_8", Compare!Compare8Sse2(img))
              => Told("sse2_8", img.diff, 4, Compare!Up(img.w, 4), Compare!Up(img.h, 4))
           /\ out = Compare!Named("neon8", Compare!Compare8Neon(img))
              => Told("neon8", img.diff, 4, Compare!Up(img.w, 4), Compare!Up(img.h, 4))
<1>1. Low(img.w, 4) \in Int /\ Low(img.w, 16) \in Int
    <2>1. img.w \in Int
        BY ImageFacts
    <2>. QED BY <2>1, GridFacts
<1>2. /\ Compare!Compare8Generic(img) = Compare!GroupRect(img, Low(img.w, 4))
      /\ Compare!Compare8Sse2(img) = Compare!GroupRect(img, Low(img.w, 16))
      /\ Compare!Compare8Neon(img) = Compare!GroupRect(img, Low(img.w, 16))
    BY DEF Compare!Compare8Generic, Compare!Compare8Sse2, Compare!Compare8Neon, Low
<1>3. \A whole \in Int :
        Describes(Compare!GroupRect(img, whole), img.diff, 4, Compare!Up(img.w, 4), Compare!Up(img.h, 4))
    BY GroupRectDescribes
<1>. QED BY <1>1, <1>2, <1>3 DEF Told

\* What an answer that describes the changes D of the image comes to.
LEMMA Reported ==
    ASSUME IsImage(img), NEW fn, NEW D \in SUBSET img.diff, NEW g \in {4, 16},
           g = IF fn \in {"generic8", "sse2_8", "neon8"} THEN 4 ELSE 16,
           fn \in Compare!Complete => D = img.diff,
           Told(fn, D, g, IF g = 4 THEN Compare!Up(img.w, 4) ELSE img.w, IF g = 4 THEN Compare!Up(img.h, 4) ELSE img.h)
    PROVE  out.fn = fn /\ Compare!EveryChangeReported /\ Compare!RectangleIsTight
<1>1. PICK w \in Nat, h \in Nat :
        /\ w = (IF g = 4 THEN Compare!Up(img.w, 4) ELSE img.w) /\ img.w <= w
        /\ h = (IF g = 4 THEN Compare!Up(img.h, 4) ELSE img.h) /\ img.h <= h
    <2>1. img.w \in Nat \ {0} /\ img.h \in Nat \ {0}
        BY ImageFacts
    <2>2. Compare!Up(img.w, 4) \in Nat /\ img.w <= Compare!Up(img.w, 4)
        BY <2>1, RoundedUp
    <2>3. Compare!Up(img.h, 4) \in Nat /\ img.h <= Compare!Up(img.h, 4)
        BY <2>1, RoundedUp
    <2>. QED BY <2>1, <2>2, <2>3
<1>2. D \in SUBSET (Nat \X Nat) /\ D \subseteq (0 .. w - 1) \X (0 .. h - 1)
    <2>1. img.w \in Nat /\ img.h \in Nat /\ D \subseteq Nat \X Nat /\ D \subseteq (0 .. img.w - 1) \X (0 .. img.h - 1)
        BY DEF IsImage
    <2>2. 0 .. img.w - 1 \subseteq 0 .. w - 1 /\ 0 .. img.h - 1 \subseteq 0 .. h - 1
        BY <1>1, <2>1
    <2>. QED BY <2>1, <2>2
<1>3. Told(fn, D, g, w, h)
    BY <1>1
<1>4. out.fn = fn /\ (out.changed <=> D # {}) /\ (D # {} => Tight(out, D, g, w, h))
    BY <1>2, <1>3, ToldIs
<1>6. Compare!EveryChangeReported
    BY <1>4 DEF Compare!EveryChangeReported, Tight
<1>7. Compare!RectangleIsTight
    <2> SUFFICES ASSUME out.changed PROVE Compare!RectangleIsTight
        BY DEF Compare!RectangleIsTight
    <2>1. /\ \E z \in img.diff : z[1] \in out.left .. out.left + g - 1
          /\ \E z \in img.diff : z[1] \in Low(out.right - 1, g) .. out.right - 1
          /\ \E z \in img.diff : z[2] \in out.top .. out.top + g - 1
          /\ \E z \in img.diff : z[2] \in Low(out.bottom - 1, g) .. out.bottom - 1
          /\ out.right <= w /\ out.bottom <= h
        BY <1>4 DEF Tight
    <2>2. CASE g = 4
        <3>1. out.fn \in {"generic8", "sse2_8", "neon8"} /\ w = Compare!Up(img.w, 4) /\ h = Compare!Up(img.h, 4)
            BY <1>1, <1>4, <2>2
        <3>. QED BY <2>1, <2>2, <3>1 DEF Compare!RectangleIsTight, Low
    <2>3. CASE g = 16
        <3>1. out.fn \notin {"generic8", "sse2_8", "neon8"} /\ w = img.w /\ h = img.h
            BY <1>1, <1>4, <2>3
        <3>. QED BY <2>1, <2>3, <3>1 DEF Compare!RectangleIsTight, Low, Compare!Tile
    <2>. QED BY <2>2, <2>3
<1>. QED BY <1>4, <1>6, <1>7

LEMMA AnswersAreRight ==
    ASSUME IsImage(img), Answered
    PROVE  Compare!EveryChangeReported /\ Compare!RectangleIsTight /\ Compare!SimdMissesOnlyTheTail
<1>1. CASE out = Compare!Named("none", Compare!NoChange)
    <2>1. out.fn = "none" /\ out.changed = FALSE
        BY <1>1 DEF Compare!Named, Compare!NoChange
    <2>. QED BY <2>1 DEF Compare!EveryChangeReported, Compare!Complete, Compare!RectangleIsTight,
                         Compare!SimdMissesOnlyTheTail
<1>2. ASSUME NEW fn \in {"generic32", "linear32"}, Told(fn, img.diff, 16, img.w, img.h)
      PROVE  Compare!EveryChangeReported /\ Compare!RectangleIsTight /\ Compare!SimdMissesOnlyTheTail
    <2>1. out.fn = fn /\ Compare!EveryChangeReported /\ Compare!RectangleIsTight
        BY <1>2, Reported
    <2>. QED BY <2>1 DEF Compare!SimdMissesOnlyTheTail
<1>3. ASSUME NEW fn \in {"generic8", "sse2_8", "neon8"},
             Told(fn, img.diff, 4, Compare!Up(img.w, 4), Compare!Up(img.h, 4))
      PROVE  Compare!EveryChangeReported /\ Compare!RectangleIsTight /\ Compare!SimdMissesOnlyTheTail
    <2>1. out.fn = fn /\ Compare!EveryChangeReported /\ Compare!RectangleIsTight
        BY <1>3, Reported
    <2>. QED BY <2>1 DEF Compare!SimdMissesOnlyTheTail
<1>4. ASSUME NEW fn, NEW least \in {4, 8}, fn = IF least = 4 THEN "sse2_32" ELSE "neon32",
             out = Compare!Named(fn, Compare!CornerRect(img, VectorFinds(img, least)))
      PROVE  Compare!EveryChangeReported /\ Compare!RectangleIsTight /\ Compare!SimdMissesOnlyTheTail
    <2>1. Told(fn, Seen(img, least), 16, img.w, img.h) /\ Seen(img, least) \in SUBSET img.diff
        BY <1>4, VectorAnswers DEF Told
    <2>2. fn \notin Compare!Complete
        BY <1>4 DEF Compare!Complete
    <2>3. out.fn = fn /\ Compare!EveryChangeReported /\ Compare!RectangleIsTight
        BY <1>4, <2>1, <2>2, Reported
    <2>4. out = Compare!Named(fn, Compare!OnRead(least))
        BY <1>4, VectorAnswers
    <2>5. Compare!SimdMissesOnlyTheTail
        BY <1>4, <2>3, <2>4 DEF Compare!SimdMissesOnlyTheTail
    <2>. QED BY <2>3, <2>5
<1>. QED BY <1>1, <1>2, <1>3, <1>4, Answers32, Answers8, VectorKernels DEF Answered

\* The comparison reports every change a kernel reads: on images of every size,
\* the kernels that read every pixel answer "changed" exactly when one has, in a
\* rectangle that holds all that changed and is no larger than its grid, and the
\* SSE2 and NEON kernels of 32-bit pixels give the generic kernel's answer but
\* for the tail of the cut last tile.
THEOREM ChangesAreReported == Spec => []ChangesReported
<1>1. CompareInv => ChangesReported
    BY AnswersAreRight DEF CompareInv, ChangesReported
<1>. QED BY <1>1, CompareInit, CompareStep, PTL DEF Spec

-----------------------------------------------------------------------------
(* The colours: lemmas about shifts and words first, then the codings.      *)

LEMMA PixelFacts ==
    ASSUME NEW p \in Color!Pixel
    PROVE  /\ p.r \in 0 .. 255 /\ p.g \in 0 .. 255 /\ p.b \in 0 .. 255
           /\ p = [r |-> p.r, g |-> p.g, b |-> p.b]
BY DEF Color!Pixel, Color!Byte

\* Shifts to the right, as bounds.
LEMMA Shifted ==
    ASSUME NEW v \in Int
    PROVE  /\ Color!Shr(v, 1) \in Int /\ 2 * Color!Shr(v, 1) <= v /\ v <= 2 * Color!Shr(v, 1) + 1
           /\ Color!Shr(v, 2) \in Int /\ 4 * Color!Shr(v, 2) <= v /\ v <= 4 * Color!Shr(v, 2) + 3
           /\ Color!Shr(v, 3) \in Int /\ 8 * Color!Shr(v, 3) <= v /\ v <= 8 * Color!Shr(v, 3) + 7
           /\ Color!Shr(v, 8) \in Int /\ 256 * Color!Shr(v, 8) <= v /\ v <= 256 * Color!Shr(v, 8) + 255
<1>1. 2^1 = 2 /\ 2^2 = 4 /\ 2^3 = 8 /\ 2^8 = 256
    OBVIOUS
<1>2. Color!Shr(v, 1) \in Int /\ 2 * Color!Shr(v, 1) <= v /\ v <= 2 * Color!Shr(v, 1) + 1
    BY <1>1 DEF Color!Shr
<1>3. Color!Shr(v, 2) \in Int /\ 4 * Color!Shr(v, 2) <= v /\ v <= 4 * Color!Shr(v, 2) + 3
    BY <1>1 DEF Color!Shr
<1>4. Color!Shr(v, 3) \in Int /\ 8 * Color!Shr(v, 3) <= v /\ v <= 8 * Color!Shr(v, 3) + 7
    BY <1>1 DEF Color!Shr
<1>5. Color!Shr(v, 8) \in Int /\ 256 * Color!Shr(v, 8) <= v /\ v <= 256 * Color!Shr(v, 8) + 255
    BY <1>1 DEF Color!Shr
<1>. QED BY <1>2, <1>3, <1>4, <1>5

\* What fits is neither wrapped nor cut.
LEMMA Fits ==
    /\ \A v \in Int : -32768 <= v /\ v <= 32767 => Color!Wrap16(v) = v
    /\ \A v \in 0 .. 255 : Color!U8(v) = v /\ Color!Clamp(v) = v
BY DEF Color!Wrap16, Color!U8, Color!Clamp


HalfCo(p) == Color!Shr(Color!Co(p), 1)
HalfCg(p) == Color!Shr(Color!Cg(p), 1)

\* A pixel of channels r, g and b; the values of YCoCg-R, halves as well.
IsPixel(p, r, g, b) ==
    p = [r |-> r, g |-> g, b |-> b] /\ r \in 0 .. 255 /\ g \in 0 .. 255 /\ b \in 0 .. 255

IsYCoCg(r, g, b, co, hc, cg, hg, y) ==
    /\ r \in 0 .. 255 /\ g \in 0 .. 255 /\ b \in 0 .. 255
    /\ co \in Int /\ co = r - b
    /\ hc \in Int /\ 2 * hc <= co /\ co <= 2 * hc + 1
    /\ cg \in Int /\ cg = g - (b + hc)
    /\ hg \in Int /\ 2 * hg <= cg /\ cg <= 2 * hg + 1
    /\ y \in Int /\ y = (b + hc) + hg

LEMMA YCoCgArithmetic ==
    ASSUME NEW r, NEW g, NEW b, NEW co, NEW hc, NEW cg, NEW hg, NEW y,
           IsYCoCg(r, g, b, co, hc, cg, hg, y)
    PROVE  /\ co \in -255 .. 255 /\ cg \in -255 .. 255 /\ y \in 0 .. 255
           /\ (y - hg) - hc + co = r /\ cg + (y - hg) = g /\ (y - hg) - hc = b
<1>1. /\ r \in Int /\ g \in Int /\ b \in Int /\ co \in Int /\ hc \in Int /\ cg \in Int
      /\ hg \in Int /\ y \in Int
    BY DEF IsYCoCg
<1>2. co \in -255 .. 255 /\ 0 <= b + hc /\ b + hc <= 255
    BY <1>1 DEF IsYCoCg
<1>3. cg \in -255 .. 255 /\ y \in 0 .. 255
    BY <1>1, <1>2 DEF IsYCoCg
<1>4. (y - hg) - hc + co = r /\ cg + (y - hg) = g /\ (y - hg) - hc = b
    BY <1>1 DEF IsYCoCg
<1>. QED BY <1>2, <1>3, <1>4

LEMMA YCoCgValues ==
    ASSUME NEW p, NEW r, NEW g, NEW b, IsPixel(p, r, g, b)
    PROVE  IsYCoCg(r, g, b, Color!Co(p), HalfCo(p), Color!Cg(p), HalfCg(p), Color!Luma(p))
<1>1. p.r = r /\ p.g = g /\ p.b = b /\ r \in Int /\ g \in Int /\ b \in Int
    BY DEF IsPixel
<1>2. Color!Co(p) \in Int /\ Color!Co(p) = r - b
    BY <1>1 DEF Color!Co
<1>3. HalfCo(p) \in Int /\ 2 * HalfCo(p) <= Color!Co(p) /\ Color!Co(p) <= 2 * HalfCo(p) + 1
    BY <1>2, Shifted DEF HalfCo
<1>4. Color!Cg(p) = g - (b + HalfCo(p))
    BY <1>1 DEF Color!Cg, HalfCo
<1>5. Color!Cg(p) \in Int
    BY <1>1, <1>3, <1>4
<1>6. HalfCg(p) \in Int /\ 2 * HalfCg(p) <= Color!Cg(p) /\ Color!Cg(p) <= 2 * HalfCg(p) + 1
    BY <1>5, Shifted DEF HalfCg
<1>7. Color!Luma(p) = (b + HalfCo(p)) + HalfCg(p)
    BY <1>1 DEF Color!Luma, HalfCo, HalfCg
<1>8. Color!Luma(p) \in Int
    BY <1>1, <1>3, <1>6, <1>7
<1>. QED BY <1>2, <1>3, <1>4, <1>5, <1>6, <1>7, <1>8 DEF IsYCoCg, IsPixel

LEMMA YCoCgRanges ==
    ASSUME NEW p \in Color!Pixel
    PROVE  Color!Co(p) \in -255 .. 255 /\ Color!Cg(p) \in -255 .. 255 /\ Color!Luma(p) \in 0 .. 255
<1>1. PICK r \in 0 .. 255, g \in 0 .. 255, b \in 0 .. 255 : IsPixel(p, r, g, b)
    BY PixelFacts DEF IsPixel
<1>2. IsYCoCg(r, g, b, Color!Co(p), HalfCo(p), Color!Cg(p), HalfCg(p), Color!Luma(p))
    BY <1>1, YCoCgValues
<1>. QED BY <1>2, YCoCgArithmetic

LEMMA YCoCgUndone ==
    ASSUME NEW p \in Color!Pixel
    PROVE  Color!UnYCoCg(Color!Luma(p), Color!Co(p), Color!Cg(p)) = p
<1>1. Color!UnYCoCg(Color!Luma(p), Color!Co(p), Color!Cg(p)) =
        [r |-> Color!Clamp((Color!Luma(p) - HalfCg(p)) - HalfCo(p) + Color!Co(p)),
         g |-> Color!Clamp(Color!Cg(p) + (Color!Luma(p) - HalfCg(p))),
         b |-> Color!Clamp((Color!Luma(p) - HalfCg(p)) - HalfCo(p))]
    BY DEF Color!UnYCoCg, HalfCo, HalfCg
<1>2. PICK r \in 0 .. 255, g \in 0 .. 255, b \in 0 .. 255 : IsPixel(p, r, g, b)
    BY PixelFacts DEF IsPixel
<1>3. IsYCoCg(r, g, b, Color!Co(p), HalfCo(p), Color!Cg(p), HalfCg(p), Color!Luma(p))
    BY <1>2, YCoCgValues
<1>4. /\ (Color!Luma(p) - HalfCg(p)) - HalfCo(p) + Color!Co(p) = r
      /\ Color!Cg(p) + (Color!Luma(p) - HalfCg(p)) = g
      /\ (Color!Luma(p) - HalfCg(p)) - HalfCo(p) = b
    BY <1>3, YCoCgArithmetic
<1>5. Color!Clamp(r) = r /\ Color!Clamp(g) = g /\ Color!Clamp(b) = b
    BY Fits
<1>. QED BY <1>1, <1>2, <1>4, <1>5 DEF IsPixel

LEMMA NoWrapHere ==
    ASSUME NEW y \in 0 .. 255, NEW co \in -256 .. 255, NEW cg \in -256 .. 255
    PROVE  Color!UnYCoCg16(y, co, cg) = Color!UnYCoCg(y, co, cg)
<1> DEFINE hc == Color!Shr(co, 1)
           hg == Color!Shr(cg, 1)
<1>1. hc \in Int /\ 2 * hc <= co /\ co <= 2 * hc + 1
    BY Shifted
<1>2. hg \in Int /\ 2 * hg <= cg /\ cg <= 2 * hg + 1
    BY Shifted
<1>3. /\ Color!UnYCoCg16(y, co, cg) =
           [r |-> Color!Clamp(Color!Wrap16(Color!Wrap16(Color!Wrap16(y - hg) - hc) + co)),
            g |-> Color!Clamp(Color!Wrap16(cg + Color!Wrap16(y - hg))),
            b |-> Color!Clamp(Color!Wrap16(Color!Wrap16(y - hg) - hc))]
      /\ Color!UnYCoCg(y, co, cg) =
           [r |-> Color!Clamp((y - hg) - hc + co), g |-> Color!Clamp(cg + (y - hg)), b |-> Color!Clamp((y - hg) - hc)]
    BY DEF Color!UnYCoCg, Color!UnYCoCg16
<1>. HIDE DEF hc, hg
<1>4. hc \in -128 .. 127 /\ hg \in -128 .. 127
    BY <1>1, <1>2
<1>5. PICK t \in Int : t = y - hg
    BY <1>4
<1>6. PICK b \in Int : b = t - hc
    BY <1>4, <1>5
<1>7. /\ -1000 <= t /\ t <= 1000 /\ -1000 <= b /\ b <= 1000
      /\ b + co \in Int /\ -1000 <= b + co /\ b + co <= 1000
      /\ cg + t \in Int /\ -1000 <= cg + t /\ cg + t <= 1000
    BY <1>4, <1>5, <1>6
<1>8. \A v \in Int : -1000 <= v /\ v <= 1000 => Color!Wrap16(v) = v
    BY Fits
<1>9. /\ Color!Wrap16(t) = t /\ Color!Wrap16(b) = b
      /\ Color!Wrap16(b + co) = b + co /\ Color!Wrap16(cg + t) = cg + t
    BY <1>7, <1>8
<1>. QED BY <1>3, <1>5, <1>6, <1>9

LEMMA AlphaTest ==
    ASSUME NEW c \in 0 .. 255, NEW a \in 1 .. 255
    PROVE  LET back == Color!UnmultiplyAlpha(Color!MultiplyAlpha(c, a), a)
           IN  back <= c /\ a * (c - back) < 255 + a
<1> DEFINE w == c * a
           q == Color!MultiplyAlpha(c, a)
           m == (q * 255) \div a
<1>1. w \in Int /\ 0 <= w /\ w <= 255 * a
    OBVIOUS
<1>2. q = w \div 255
    BY DEF Color!MultiplyAlpha
<1>3. q \in Int /\ 255 * q <= w /\ w <= 255 * q + 254
    BY <1>1, <1>2
<1>. HIDE DEF q
<1>4. q >= 0 /\ q * 255 \in Int /\ q * 255 >= 0
    BY <1>1, <1>3
<1>5. m \in Int /\ a * m <= q * 255 /\ q * 255 < a * m + a
    BY <1>4
<1>. HIDE DEF m
<1>6. m >= 0
    <2> SUFFICES ASSUME m <= -1 PROVE FALSE
        BY <1>5
    <2>1. a * m <= a * (-1)
        BY <1>5
    <2>2. a * (-1) = -a
        OBVIOUS
    <2>3. a * m \in Int
        BY <1>5
    <2>4. a * m <= -a
        BY <2>1, <2>2
    <2>5. PICK u \in Int : u = a * m
        BY <2>3
    <2>6. PICK v \in Int : v = q * 255
        BY <1>4
    <2>7. u <= -a /\ v >= 0 /\ v < u + a
        BY <1>4, <1>5, <2>4, <2>5, <2>6
    <2>. QED BY <2>7
<1>7. m <= c
    <2> SUFFICES ASSUME m >= c + 1 PROVE FALSE
        BY <1>5
    <2>1. a * m >= a * (c + 1)
        BY <1>5
    <2>2. a * (c + 1) = w + a
        OBVIOUS
    <2>. QED BY <1>1, <1>3, <1>5, <2>1, <2>2
<1>8. Color!UnmultiplyAlpha(q, a) = m
    BY <1>6, <1>5, <1>7, Fits DEF Color!UnmultiplyAlpha, m
<1>9. a * (c - m) = w - a * m
    BY <1>5
<1>10. a * (c - m) < 255 + a
    BY <1>1, <1>3, <1>4, <1>5, <1>9
<1>. QED BY <1>7, <1>8, <1>10 DEF q

LEMMA HalideOneAlike ==
    ASSUME NEW p \in Color!Pixel
    PROVE  Color!RgbToYCoCgR(p) = [y |-> Color!Luma(p) - 128, c1 |-> Color!Co(p), c2 |-> Color!Cg(p)]
<1>1. PICK r \in 0 .. 255, g \in 0 .. 255, b \in 0 .. 255 : IsPixel(p, r, g, b)
    BY PixelFacts DEF IsPixel
<1>2. IsYCoCg(r, g, b, Color!Co(p), HalfCo(p), Color!Cg(p), HalfCg(p), Color!Luma(p))
    BY <1>1, YCoCgValues
<1>3. p.r = r /\ p.g = g /\ p.b = b
    BY <1>1 DEF IsPixel
<1>4. Color!Wrap16(r - b) = Color!Co(p)
    BY <1>2, YCoCgArithmetic, Fits DEF IsYCoCg
<1>5. Color!Wrap16(b + HalfCo(p)) = b + HalfCo(p) /\ b + HalfCo(p) \in Int
    <2>1. b + HalfCo(p) \in Int /\ 0 <= b + HalfCo(p) /\ b + HalfCo(p) <= 255
        BY <1>2 DEF IsYCoCg
    <2>. QED BY <2>1, Fits
<1>6. Color!Wrap16(g - (b + HalfCo(p))) = Color!Cg(p)
    BY <1>2, YCoCgArithmetic, Fits DEF IsYCoCg
<1>7. Color!Wrap16((b + HalfCo(p)) + HalfCg(p)) = Color!Luma(p)
    BY <1>2, YCoCgArithmetic, Fits DEF IsYCoCg
<1>8. Color!Wrap16(Color!Luma(p) - 128) = Color!Luma(p) - 128
    <2>1. Color!Luma(p) \in 0 .. 255
        BY <1>2, YCoCgArithmetic
    <2>2. Color!Luma(p) - 128 \in Int /\ -128 <= Color!Luma(p) - 128 /\ Color!Luma(p) - 128 <= 127
        BY <2>1
    <2>. QED BY <2>2, Fits
<1>. QED BY <1>3, <1>4, <1>5, <1>6, <1>7, <1>8 DEF Color!RgbToYCoCgR, HalfCo, HalfCg

\* The sums of a block and what is packed of them.
Chroma(s) == Color!Shr(s + 1024, 3)
Packs(s) ==
    /\ s \in Int /\ Chroma(s) \in 0 .. 255 /\ Color!U8(Chroma(s)) = Chroma(s)
    /\ Color!PackedChroma(s) = Chroma(s)
    /\ Color!U8(Color!Shr(Color!Wrap16(s + 1024), 3)) = Chroma(s)

LEMMA ChromaFits ==
    ASSUME NEW a \in -255 .. 255, NEW b \in -255 .. 255, NEW c \in -255 .. 255, NEW d \in -255 .. 255
    PROVE  Packs(a + b + c + d)
<1> DEFINE s == a + b + c + d
<1>1. s \in Int /\ -1020 <= s /\ s <= 1020
    OBVIOUS
<1>. HIDE DEF s
<1>2. PICK v \in Int : v = s + 1024
    BY <1>1
<1>3. 4 <= v /\ v <= 2044
    BY <1>1, <1>2
<1>4. Color!Wrap16(v) = v
    BY <1>3, Fits
<1>5. PICK h \in Int : h = Color!Shr(v, 3) /\ 8 * h <= v /\ v <= 8 * h + 7
    BY Shifted, ZenonT(60)
<1>6. h \in 0 .. 255
    BY <1>3, <1>5
<1>7. Chroma(s) = h
    BY <1>2, <1>5 DEF Chroma
<1>8. Packs(s)
    BY <1>1, <1>2, <1>4, <1>5, <1>6, <1>7, Fits DEF Color!PackedChroma, Packs
<1>. QED BY <1>8 DEF s

CoSum(q) == Color!Sum4([i \in Color!Quad |-> Color!Co(q[i])])
CgSum(q) == Color!Sum4([i \in Color!Quad |-> Color!Cg(q[i])])

LEMMA BlockChroma ==
    ASSUME NEW q \in [Color!Quad -> Color!Pixel]
    PROVE  Packs(CoSum(q)) /\ Packs(CgSum(q))
<1>1. q[1] \in Color!Pixel /\ q[2] \in Color!Pixel /\ q[3] \in Color!Pixel /\ q[4] \in Color!Pixel
    BY DEF Color!Quad
<1>2. /\ CoSum(q) = Color!Co(q[1]) + Color!Co(q[2]) + Color!Co(q[3]) + Color!Co(q[4])
      /\ CgSum(q) = Color!Cg(q[1]) + Color!Cg(q[2]) + Color!Cg(q[3]) + Color!Cg(q[4])
    BY DEF CoSum, CgSum, Color!Sum4, Color!Quad
<1>3. /\ Color!Co(q[1]) \in -255 .. 255 /\ Color!Co(q[2]) \in -255 .. 255
      /\ Color!Co(q[3]) \in -255 .. 255 /\ Color!Co(q[4]) \in -255 .. 255
      /\ Color!Cg(q[1]) \in -255 .. 255 /\ Color!Cg(q[2]) \in -255 .. 255
      /\ Color!Cg(q[3]) \in -255 .. 255 /\ Color!Cg(q[4]) \in -255 .. 255
    BY <1>1, YCoCgRanges, SMTT(60)
<1>4. Packs(Color!Co(q[1]) + Color!Co(q[2]) + Color!Co(q[3]) + Color!Co(q[4]))
    BY <1>3, ChromaFits, ZenonT(60)
<1>5. Packs(Color!Cg(q[1]) + Color!Cg(q[2]) + Color!Cg(q[3]) + Color!Cg(q[4]))
    BY <1>3, ChromaFits, ZenonT(60)
<1>. QED BY <1>2, <1>4, <1>5

\* What every encoder of 4:2:0 makes of a block.
Subsampled(q) ==
    [y |-> [i \in Color!Quad |-> Color!Luma(q[i])], c1 |-> Chroma(CoSum(q)), c2 |-> Chroma(CgSum(q))]

LEMMA EncodersAlike ==
    ASSUME NEW q \in [Color!Quad -> Color!Pixel]
    PROVE  /\ Color!EncodeGeneric(q) = Subsampled(q) /\ Color!EncodeSse2(q) = Subsampled(q)
           /\ Color!EncodeNeon(q) = Subsampled(q) /\ Color!EncodeHalide(q) = Subsampled(q)
<1>1. \A i \in Color!Quad : Color!Luma(q[i]) \in 0 .. 255
    BY YCoCgRanges
<1>2. \A i \in Color!Quad :
        /\ Color!U8(Color!Luma(q[i])) = Color!Luma(q[i]) /\ Color!Clamp(Color!Luma(q[i])) = Color!Luma(q[i])
        /\ Color!Wrap16(Color!Luma(q[i])) = Color!Luma(q[i])
    BY <1>1, Fits
<1>3. /\ Color!U8(Chroma(CoSum(q))) = Chroma(CoSum(q)) /\ Color!U8(Chroma(CgSum(q))) = Chroma(CgSum(q))
      /\ Color!PackedChroma(CoSum(q)) = Chroma(CoSum(q)) /\ Color!PackedChroma(CgSum(q)) = Chroma(CgSum(q))
      /\ Color!U8(Color!Shr(Color!Wrap16(CoSum(q) + 1024), 3)) = Chroma(CoSum(q))
      /\ Color!U8(Color!Shr(Color!Wrap16(CgSum(q) + 1024), 3)) = Chroma(CgSum(q))
    BY BlockChroma DEF Packs
<1>4. Color!EncodeGeneric(q) = Subsampled(q)
    <2>1. Color!EncodeGeneric(q) =
            [y |-> [i \in Color!Quad |-> Color!U8(Color!Luma(q[i]))],
             c1 |-> Color!U8(Chroma(CoSum(q))), c2 |-> Color!U8(Chroma(CgSum(q)))]
        BY DEF Color!EncodeGeneric, CoSum, CgSum, Chroma
    <2>2. [i \in Color!Quad |-> Color!U8(Color!Luma(q[i]))] = [i \in Color!Quad |-> Color!Luma(q[i])]
        BY <1>2
    <2>. QED BY <1>3, <2>1, <2>2 DEF Subsampled
<1>5. Color!EncodeSse2(q) = Subsampled(q)
    <2> DEFINE w == [i \in Color!Quad |-> Color!Wrap16(Color!Luma(q[i]))]
               f == [i \in Color!Quad |-> IF i \in {1, 3} THEN Color!U8(w[i])
                                          ELSE IF w[i - 1] \in Color!Byte THEN Color!U8(w[i]) ELSE -1]
    <2>1. Color!EncodeSse2(q) =
            [y |-> f, c1 |-> Color!PackedChroma(CoSum(q)), c2 |-> Color!PackedChroma(CgSum(q))]
        BY DEF Color!EncodeSse2, CoSum, CgSum
    <2>2. w = [i \in Color!Quad |-> Color!Luma(q[i])]
        BY <1>2
    <2>3. \A i \in Color!Quad : w[i] \in Color!Byte /\ Color!U8(w[i]) = Color!Luma(q[i])
        BY <1>1, <1>2, <2>2 DEF Color!Byte
    <2>. HIDE DEF w
    <2>4. ASSUME NEW i \in Color!Quad PROVE f[i] = Color!Luma(q[i])
        <3>1. i \notin {1, 3} => i - 1 \in Color!Quad
            BY DEF Color!Quad
        <3>. QED BY <2>3, <3>1
    <2>5. f = [i \in Color!Quad |-> Color!Luma(q[i])]
        BY <2>4
    <2>. HIDE DEF f
    <2>. QED BY <1>3, <2>1, <2>5 DEF Subsampled
<1>6. Color!EncodeNeon(q) = Subsampled(q)
    <2>1. Color!EncodeNeon(q) =
            [y |-> [i \in Color!Quad |-> Color!Clamp(Color!Wrap16(Color!Luma(q[i])))],
             c1 |-> Color!PackedChroma(CoSum(q)), c2 |-> Color!PackedChroma(CgSum(q))]
        BY DEF Color!EncodeNeon, CoSum, CgSum
    <2>2. [i \in Color!Quad |-> Color!Clamp(Color!Wrap16(Color!Luma(q[i])))] = [i \in Color!Quad |-> Color!Luma(q[i])]
        BY <1>2
    <2>. QED BY <1>3, <2>1, <2>2 DEF Subsampled
<1>7. Color!EncodeHalide(q) = Subsampled(q)
    <2> DEFINE c == [i \in Color!Quad |-> Color!RgbToYCoCgR(q[i])]
               sub(f) == Color!U8(Color!Shr(Color!Wrap16(Color!Sum4(f) + 1024), 3))
    <2>1. Color!EncodeHalide(q) =
            [y  |-> [i \in Color!Quad |-> Color!U8(Color!Wrap16(c[i].y + 128))],
             c1 |-> sub([i \in Color!Quad |-> c[i].c1]),
             c2 |-> sub([i \in Color!Quad |-> c[i].c2])]
        BY DEF Color!EncodeHalide
    <2>2. \A i \in Color!Quad : /\ c[i].y = Color!Luma(q[i]) - 128
                                /\ c[i].c1 = Color!Co(q[i]) /\ c[i].c2 = Color!Cg(q[i])
        BY HalideOneAlike
    <2>. HIDE DEF c
    <2>3. [i \in Color!Quad |-> Color!U8(Color!Wrap16(c[i].y + 128))] = [i \in Color!Quad |-> Color!Luma(q[i])]
        <3>1. ASSUME NEW i \in Color!Quad PROVE Color!U8(Color!Wrap16(c[i].y + 128)) = Color!Luma(q[i])
            <4>1. c[i].y + 128 = Color!Luma(q[i])
                BY <1>1, <2>2
            <4>. QED BY <1>2, <4>1
        <3>. QED BY <3>1
    <2>4. /\ [i \in Color!Quad |-> c[i].c1] = [i \in Color!Quad |-> Color!Co(q[i])]
          /\ [i \in Color!Quad |-> c[i].c2] = [i \in Color!Quad |-> Color!Cg(q[i])]
        BY <2>2
    <2>5. sub([i \in Color!Quad |-> c[i].c1]) = Chroma(CoSum(q)) /\ sub([i \in Color!Quad |-> c[i].c2]) = Chroma(CgSum(q))
        BY <1>3, <2>4 DEF CoSum, CgSum
    <2>. QED BY <2>1, <2>3, <2>5 DEF Subsampled
<1>. QED BY <1>4, <1>5, <1>6, <1>7

LEMMA SubsampledIsCode ==
    ASSUME NEW q \in [Color!Quad -> Color!Pixel]
    PROVE  Subsampled(q) \in [y : [Color!Quad -> 0 .. 255], c1 : 0 .. 255, c2 : 0 .. 255]
BY YCoCgRanges, BlockChroma DEF Subsampled, Packs

LEMMA DecodersAlike ==
    ASSUME NEW c, c.y \in [Color!Quad -> 0 .. 255], c.c1 \in 0 .. 255, c.c2 \in 0 .. 255
    PROVE  /\ Color!DecodeSse2(c) = Color!DecodeGeneric(c) /\ Color!DecodeNeon(c) = Color!DecodeGeneric(c)
           /\ Color!DecodeHalide(c) = Color!DecodeGeneric(c)
<1>1. PICK u \in Int : u = 2 * c.c1 - 255 /\ u \in -256 .. 255
    <2>1. \A k \in 0 .. 255 : 2 * k - 255 \in Int /\ 2 * k - 255 \in -256 .. 255
        OBVIOUS
    <2>. QED BY <2>1
<1>2. PICK v \in Int : v = 2 * c.c2 - 255 /\ v \in -256 .. 255
    <2>1. \A k \in 0 .. 255 : 2 * k - 255 \in Int /\ 2 * k - 255 \in -256 .. 255
        OBVIOUS
    <2>. QED BY <2>1
<1>3. Color!Wrap16(u) = u /\ Color!Wrap16(v) = v
    BY <1>1, <1>2, Fits
<1>4. \A i \in Color!Quad : Color!UnYCoCg16(c.y[i], u, v) = Color!UnYCoCg(c.y[i], u, v)
    <2> SUFFICES ASSUME NEW i \in Color!Quad
                 PROVE  Color!UnYCoCg16(c.y[i], u, v) = Color!UnYCoCg(c.y[i], u, v)
        OBVIOUS
    <2>1. c.y[i] \in 0 .. 255
        OBVIOUS
    <2>2. u \in -256 .. 255 /\ v \in -256 .. 255
        BY <1>1, <1>2
    <2>3. \A y \in 0 .. 255 : Color!UnYCoCg16(y, u, v) = Color!UnYCoCg(y, u, v)
        BY <2>2, NoWrapHere
    <2>. QED BY <2>1, <2>3
<1>5. [i \in Color!Quad |-> Color!UnYCoCg16(c.y[i], u, v)] = [i \in Color!Quad |-> Color!UnYCoCg(c.y[i], u, v)]
    BY <1>4
<1>. QED BY <1>1, <1>2, <1>3, <1>5
         DEF Color!DecodeSse2, Color!DecodeNeon, Color!DecodeHalide, Color!DecodeGeneric

\* The lossless codings of one pixel.
LEMMA YCoCgLossless ==
    ASSUME NEW p \in Color!Pixel, NEW c, c = Color!RGBToYCoCgR_16s(p)
    PROVE  /\ c.y \in -128 .. 127 /\ c.c1 \in -256 .. 255 /\ c.c2 \in -256 .. 255
           /\ Color!YCoCgRToRGB_16s(c) = p /\ Color!YCoCgRToRgb(c) = p
           /\ Color!RgbToYCoCgR(p) = c
<1>1. c = [y |-> Color!Luma(p) - 128, c1 |-> Color!Co(p), c2 |-> Color!Cg(p)]
    BY DEF Color!RGBToYCoCgR_16s
<1>2. Color!Luma(p) \in 0 .. 255 /\ Color!Co(p) \in -256 .. 255 /\ Color!Cg(p) \in -256 .. 255
    BY YCoCgRanges
<1>3. Color!Luma(p) - 128 \in -128 .. 127 /\ (Color!Luma(p) - 128) + 128 = Color!Luma(p)
    BY <1>2
<1>4. Color!Wrap16(Color!Luma(p)) = Color!Luma(p)
    BY <1>2, Fits
<1>5. Color!YCoCgRToRGB_16s(c) = Color!UnYCoCg(Color!Luma(p), Color!Co(p), Color!Cg(p))
    BY <1>1, <1>3 DEF Color!YCoCgRToRGB_16s
<1>6. Color!YCoCgRToRgb(c) = Color!UnYCoCg16(Color!Luma(p), Color!Co(p), Color!Cg(p))
    BY <1>1, <1>3, <1>4 DEF Color!YCoCgRToRgb
<1>7. Color!YCoCgRToRgb(c) = Color!UnYCoCg(Color!Luma(p), Color!Co(p), Color!Cg(p))
    BY <1>2, <1>6, NoWrapHere
<1>. QED BY <1>1, <1>2, <1>3, <1>5, <1>7, YCoCgUndone, HalideOneAlike

LEMMA A710Lossless ==
    ASSUME NEW p \in Color!Pixel, NEW c, c = Color!RGBToA710(p)
    PROVE  /\ c.y \in -128 .. 127 /\ c.c1 \in -256 .. 255 /\ c.c2 \in -256 .. 255
           /\ Color!A710ToRGB(c) = p
<1>1. PICK r \in 0 .. 255, g \in 0 .. 255, b \in 0 .. 255 : IsPixel(p, r, g, b)
    BY PixelFacts DEF IsPixel
<1>2. PICK t \in Int : t = b - g
    OBVIOUS
<1>3. PICK v \in Int : v = r - g
    OBVIOUS
<1>4. PICK h \in Int : h = Color!Shr(v, 1) /\ 2 * h <= v /\ v <= 2 * h + 1
    BY Shifted
<1>5. PICK w \in Int : w = v + t
    OBVIOUS
<1>6. PICK k \in Int : k = Color!Shr(w, 2) /\ 4 * k <= w /\ w <= 4 * k + 3
    BY Shifted
<1>7. c = [y |-> g + k - 128, c1 |-> t - h, c2 |-> v]
    BY <1>1, <1>2, <1>3, <1>4, <1>5, <1>6 DEF IsPixel, Color!RGBToA710
<1>8. g + k - 128 \in -128 .. 127 /\ t - h \in -256 .. 255 /\ v \in -256 .. 255
    <2>1. w = r + b - 2 * g
        BY <1>2, <1>3, <1>5
    <2>2. g + k \in 0 .. 255
        BY <1>6, <2>1, SMTT(60)
    <2>3. t - h \in -256 .. 255
        <3>1. PICK d \in Int : d = t - h
            BY <1>4
        <3>2. 2 * d <= 511 /\ -511 <= 2 * d
            BY <1>2, <1>3, <1>4, <3>1
        <3>3. d \in -256 .. 255
            BY <3>2
        <3>. QED BY <3>1, <3>3
    <2>. QED BY <1>3, <2>2, <2>3
<1>9. (t - h) + h = t /\ (g + k - 128) + 128 - k = g /\ v + g = r /\ t + g = b
    BY <1>2, <1>3
<1>10. Color!A710ToRGB(c) = [r |-> Color!Clamp(r), g |-> Color!Clamp(g), b |-> Color!Clamp(b)]
    <2>1. c.y = g + k - 128 /\ c.c1 = t - h /\ c.c2 = v
        BY <1>7
    <2>2. c.c1 + Color!Shr(c.c2, 1) = t
        BY <1>4, <1>9, <2>1
    <2>3. c.y + 128 - Color!Shr(c.c2 + t, 2) = g
        BY <1>5, <1>6, <1>9, <2>1
    <2>. QED BY <1>9, <2>1, <2>2, <2>3 DEF Color!A710ToRGB
<1>11. Color!Clamp(r) = r /\ Color!Clamp(g) = g /\ Color!Clamp(b) = b
    BY Fits
<1>12. Color!A710ToRGB(c) = p
    BY <1>1, <1>10, <1>11, Zenon DEF IsPixel
<1>13. c.y = g + k - 128 /\ c.c1 = t - h /\ c.c2 = v
    BY <1>7
<1>. QED BY <1>8, <1>12, <1>13

\* A block of one colour: the chroma comes back as it was or one more.
LEMMA UniformNear ==
    ASSUME NEW p \in Color!Pixel, NEW q \in [Color!Quad -> Color!Pixel],
           \A i \in Color!Quad : q[i] = p,
           NEW i \in Color!Quad, NEW s, s = Color!DecodeGeneric(Subsampled(q))[i]
    PROVE  /\ Color!Near(s.r, p.r, 1) /\ Color!Near(s.g, p.g, 1) /\ Color!Near(s.b, p.b, 1)
<1>1. PICK r \in 0 .. 255, g \in 0 .. 255, b \in 0 .. 255 : IsPixel(p, r, g, b)
    BY PixelFacts DEF IsPixel
<1>2. IsYCoCg(r, g, b, Color!Co(p), HalfCo(p), Color!Cg(p), HalfCg(p), Color!Luma(p))
    BY <1>1, YCoCgValues
<1>3. PICK co, hc, cg, hg, y : /\ co = Color!Co(p) /\ hc = HalfCo(p) /\ cg = Color!Cg(p)
                               /\ hg = HalfCg(p) /\ y = Color!Luma(p)
    OBVIOUS
<1>4. /\ co \in Int /\ hc \in Int /\ cg \in Int /\ hg \in Int /\ y \in Int
      /\ co = r - b /\ 2 * hc <= co /\ co <= 2 * hc + 1
      /\ cg = g - (b + hc) /\ 2 * hg <= cg /\ cg <= 2 * hg + 1 /\ y = (b + hc) + hg
    BY <1>2, <1>3 DEF IsYCoCg
<1>5. CoSum(q) = 4 * co /\ CgSum(q) = 4 * cg
    <2>1. /\ CoSum(q) = co + co + co + co /\ CgSum(q) = cg + cg + cg + cg
        BY <1>3 DEF CoSum, CgSum, Color!Sum4, Color!Quad
    <2>. QED BY <1>4, <2>1
<1>6. ASSUME NEW w \in Int, NEW h \in Int, 2 * h <= w, w <= 2 * h + 1
      PROVE  2 * Chroma(4 * w) - 255 = 2 * h + 1
    <2>1. PICK v \in Int : v = 4 * w + 1024
        OBVIOUS
    <2>2. PICK k \in Int : k = Color!Shr(v, 3) /\ 8 * k <= v /\ v <= 8 * k + 7
        BY Shifted, ZenonT(60)
    <2>3. k = h + 128
        BY <1>6, <2>1, <2>2
    <2>4. Chroma(4 * w) = k
        BY <2>1, <2>2 DEF Chroma
    <2>. QED BY <2>3, <2>4
<1>7. PICK u \in Int : u = 2 * hc + 1
    BY <1>4
<1>8. PICK v \in Int : v = 2 * hg + 1
    BY <1>4
<1>9. 2 * Chroma(CoSum(q)) - 255 = u /\ 2 * Chroma(CgSum(q)) - 255 = v
    <2>1. 2 * Chroma(4 * co) - 255 = 2 * hc + 1
        BY <1>4, <1>6
    <2>2. 2 * Chroma(4 * cg) - 255 = 2 * hg + 1
        BY <1>4, <1>6, ZenonT(60)
    <2>. QED BY <1>5, <1>7, <1>8, <2>1, <2>2
<1>10. s = Color!UnYCoCg(y, u, v)
    BY <1>3, <1>9 DEF Subsampled, Color!DecodeGeneric
<1>11. Color!Shr(u, 1) = hc /\ Color!Shr(v, 1) = hg
    <2>1. /\ Color!Shr(u, 1) \in Int /\ 2 * Color!Shr(u, 1) <= u /\ u <= 2 * Color!Shr(u, 1) + 1
          /\ Color!Shr(v, 1) \in Int /\ 2 * Color!Shr(v, 1) <= v /\ v <= 2 * Color!Shr(v, 1) + 1
        BY Shifted
    <2>. QED BY <1>4, <1>7, <1>8, <2>1
<1>12. s = [r |-> Color!Clamp((y - hg) - hc + u), g |-> Color!Clamp(v + (y - hg)), b |-> Color!Clamp((y - hg) - hc)]
    BY <1>10, <1>11 DEF Color!UnYCoCg
<1>13. /\ (y - hg) - hc = b /\ b + u - r \in {0, 1} /\ v + (y - hg) - g \in {0, 1}
    BY <1>4, <1>7, <1>8
<1>14. ASSUME NEW c \in 0 .. 255, NEW w \in Int, w - c \in {0, 1} PROVE Color!Near(Color!Clamp(w), c, 1)
    BY <1>14 DEF Color!Near, Color!Clamp
<1>15. b + u \in Int /\ v + (y - hg) \in Int
    BY <1>4, <1>7, <1>8
<1>16. Color!Near(Color!Clamp(b + u), r, 1) /\ Color!Near(Color!Clamp(v + (y - hg)), g, 1) /\ Color!Near(Color!Clamp(b), b, 1)
    <2>1. Color!Near(Color!Clamp(b + u), r, 1)
        BY <1>13, <1>14, <1>15
    <2>2. Color!Near(Color!Clamp(v + (y - hg)), g, 1)
        <3>1. PICK w \in Int : w = v + (y - hg)
            BY <1>15
        <3>2. w - g \in {0, 1}
            BY <1>4, <1>8, <1>13, <3>1
        <3>3. Color!Near(Color!Clamp(w), g, 1)
            BY <1>14, <3>1, <3>2
        <3>. QED BY <3>1, <3>3
    <2>3. b \in Int /\ b - b = 0
        OBVIOUS
    <2>4. Color!Near(Color!Clamp(b), b, 1)
        BY <1>14, <2>3
    <2>. QED BY <2>1, <2>2, <2>4
<1>. QED BY <1>1, <1>12, <1>13, <1>16 DEF IsPixel

\* A pixel in YCbCr and back, where n pixels of its block are in the image: R, G
\* and B are the quarters of their sums; wr is 256 times the channel, of which sr
\* is left.
IsShifted(s, w) == s \in Int /\ w \in Int /\ 256 * s <= w /\ w <= 256 * s + 255
IsQuarter(h, n, c) == h \in Int /\ 4 * h <= n * c /\ n * c <= 4 * h + 3

IsYCbCr(n, r, g, b, R, G, B, y, u, v, sr, sg, sb) ==
    /\ n \in {1, 2, 4}
    /\ r \in 0 .. 255 /\ g \in 0 .. 255 /\ b \in 0 .. 255
    /\ IsQuarter(R, n, r) /\ IsQuarter(G, n, g) /\ IsQuarter(B, n, b)
    /\ IsShifted(y, 54 * r + 183 * g + 18 * b)
    /\ IsShifted(u, -29 * R - 99 * G + 128 * B)
    /\ IsShifted(v, 128 * R - 116 * G - 12 * B)
    /\ IsShifted(sr, 256 * y + 403 * v)
    /\ IsShifted(sg, 256 * y - 48 * u - 120 * v)
    /\ IsShifted(sb, 256 * y + 475 * u)

\* A channel is as far from the luma as n quarters of what it was, within 4.
IsFaded(s, c, y, n) == -16 <= 4 * (s - y) - n * (c - y) /\ 4 * (s - y) - n * (c - y) <= 16

LEMMA YCbCrArithmetic ==
    ASSUME NEW n, NEW r, NEW g, NEW b, NEW R, NEW G, NEW B, NEW y, NEW u, NEW v,
           NEW sr, NEW sg, NEW sb, IsYCbCr(n, r, g, b, R, G, B, y, u, v, sr, sg, sb)
    PROVE  IsFaded(sr, r, y, n) /\ IsFaded(sg, g, y, n) /\ IsFaded(sb, b, y, n)
<1>1. /\ r \in Int /\ g \in Int /\ b \in Int /\ y \in Int /\ u \in Int /\ v \in Int
      /\ R \in Int /\ G \in Int /\ B \in Int
      /\ sr \in Int /\ sg \in Int /\ sb \in Int
      /\ 0 <= r /\ r <= 255 /\ 0 <= g /\ g <= 255 /\ 0 <= b /\ b <= 255
    BY DEF IsYCbCr, IsShifted, IsQuarter
<1>2. /\ 256 * y <= 54 * r + 183 * g + 18 * b /\ 54 * r + 183 * g + 18 * b <= 256 * y + 255
      /\ 256 * u <= -29 * R - 99 * G + 128 * B /\ -29 * R - 99 * G + 128 * B <= 256 * u + 255
      /\ 256 * v <= 128 * R - 116 * G - 12 * B /\ 128 * R - 116 * G - 12 * B <= 256 * v + 255
    BY DEF IsYCbCr, IsShifted
<1>3. /\ 256 * sr <= 256 * y + 403 * v /\ 256 * y + 403 * v <= 256 * sr + 255
      /\ 256 * sg <= 256 * y - 48 * u - 120 * v /\ 256 * y - 48 * u - 120 * v <= 256 * sg + 255
      /\ 256 * sb <= 256 * y + 475 * u /\ 256 * y + 475 * u <= 256 * sb + 255
    BY DEF IsYCbCr, IsShifted
<1>4. CASE n = 4
    <2>1. R = r /\ G = g /\ B = b
        BY <1>1, <1>4 DEF IsYCbCr, IsQuarter
    <2>2. -16 <= 4 * (sr - y) - 4 * (r - y) /\ 4 * (sr - y) - 4 * (r - y) <= 16
        BY <1>1, <1>2, <1>3, <2>1
    <2>3. -16 <= 4 * (sg - y) - 4 * (g - y) /\ 4 * (sg - y) - 4 * (g - y) <= 16
        BY <1>1, <1>2, <1>3, <2>1
    <2>4. -16 <= 4 * (sb - y) - 4 * (b - y) /\ 4 * (sb - y) - 4 * (b - y) <= 16
        BY <1>1, <1>2, <1>3, <2>1
    <2>. QED BY <1>4, <2>2, <2>3, <2>4 DEF IsFaded
<1>5. CASE n = 2
    <2>1. /\ 2 * R <= r /\ r <= 2 * R + 1 /\ 2 * G <= g /\ g <= 2 * G + 1
          /\ 2 * B <= b /\ b <= 2 * B + 1
        BY <1>1, <1>5 DEF IsYCbCr, IsQuarter
    <2>2. -16 <= 4 * (sr - y) - 2 * (r - y) /\ 4 * (sr - y) - 2 * (r - y) <= 16
        BY <1>1, <1>2, <1>3, <2>1, SMTT(60)
    <2>3. -16 <= 4 * (sg - y) - 2 * (g - y) /\ 4 * (sg - y) - 2 * (g - y) <= 16
        BY <1>1, <1>2, <1>3, <2>1, SMTT(60)
    <2>4. -16 <= 4 * (sb - y) - 2 * (b - y) /\ 4 * (sb - y) - 2 * (b - y) <= 16
        BY <1>1, <1>2, <1>3, <2>1, SMTT(60)
    <2>. QED BY <1>5, <2>2, <2>3, <2>4 DEF IsFaded
<1>6. CASE n = 1
    <2>1. /\ 4 * R <= r /\ r <= 4 * R + 3 /\ 4 * G <= g /\ g <= 4 * G + 3
          /\ 4 * B <= b /\ b <= 4 * B + 3
        BY <1>1, <1>6 DEF IsYCbCr, IsQuarter
    <2>2. -16 <= 4 * (sr - y) - (r - y) /\ 4 * (sr - y) - (r - y) <= 16
        BY <1>1, <1>2, <1>3, <2>1, SMTT(60)
    <2>3. -16 <= 4 * (sg - y) - (g - y) /\ 4 * (sg - y) - (g - y) <= 16
        BY <1>1, <1>2, <1>3, <2>1, SMTT(60)
    <2>4. -16 <= 4 * (sb - y) - (b - y) /\ 4 * (sb - y) - (b - y) <= 16
        BY <1>1, <1>2, <1>3, <2>1, SMTT(60)
    <2>. QED BY <1>1, <1>6, <2>2, <2>3, <2>4 DEF IsFaded
<1>. QED BY <1>4, <1>5, <1>6 DEF IsYCbCr

LEMMA Fades ==
    ASSUME NEW n \in {1, 2, 4}, NEW c \in 0 .. 255, NEW y \in 0 .. 255, NEW w \in Int,
           IsFaded(w, c, y, n)
    PROVE  Color!Near(4 * (Color!Clamp(w) - y), n * (c - y), 16)
<1>1. PICK k \in Int : k = n * (c - y)
    OBVIOUS
<1>2. /\ -16 <= 4 * (w - y) - k /\ 4 * (w - y) - k <= 16
      /\ -4 * y <= k /\ k <= 4 * (255 - y)
    BY <1>1 DEF IsFaded
<1>3. CASE w < 0
    <2>1. Color!Clamp(w) = 0
        BY <1>3 DEF Color!Clamp
    <2>. QED BY <1>1, <1>2, <1>3, <2>1 DEF Color!Near
<1>4. CASE w > 255
    <2>1. Color!Clamp(w) = 255
        BY <1>4 DEF Color!Clamp
    <2>. QED BY <1>1, <1>2, <1>4, <2>1 DEF Color!Near
<1>5. CASE 0 <= w /\ w <= 255
    <2>1. Color!Clamp(w) = w
        BY <1>5 DEF Color!Clamp
    <2>. QED BY <1>1, <1>2, <2>1 DEF Color!Near
<1>. QED BY <1>3, <1>4, <1>5

\* The pixels inside the image of a block of one colour sum up to so many of it.
LEMMA PartSums ==
    ASSUME NEW within \in Color!Parts, NEW c \in Int, NEW f, \A i \in within : f[i] = c
    PROVE  /\ Color!Count(within) \in {1, 2, 4}
           /\ Color!SumOver(within, f) = Color!Count(within) * c
<1>1. within = {1, 2, 3, 4} \/ within = {1, 3} \/ within = {1, 2} \/ within = {1}
    <2>1. Color!Quad = {1, 2, 3, 4}
        BY DEF Color!Quad
    <2>. QED BY <2>1 DEF Color!Parts
<1>2. CASE within = {1, 2, 3, 4}
    <2>1. Color!Count(within) = 4
        BY <1>2 DEF Color!Count, Color!SumOver, Color!Sum4, Color!Quad
    <2>2. Color!SumOver(within, f) = c + c + c + c
        BY <1>2 DEF Color!SumOver, Color!Sum4, Color!Quad
    <2>. QED BY <2>1, <2>2
<1>3. CASE within = {1, 3}
    <2>1. Color!Count(within) = 2
        BY <1>3 DEF Color!Count, Color!SumOver, Color!Sum4, Color!Quad
    <2>2. Color!SumOver(within, f) = c + c
        BY <1>3 DEF Color!SumOver, Color!Sum4, Color!Quad
    <2>. QED BY <2>1, <2>2
<1>4. CASE within = {1, 2}
    <2>1. Color!Count(within) = 2
        BY <1>4 DEF Color!Count, Color!SumOver, Color!Sum4, Color!Quad
    <2>2. Color!SumOver(within, f) = c + c
        BY <1>4 DEF Color!SumOver, Color!Sum4, Color!Quad
    <2>. QED BY <2>1, <2>2
<1>5. CASE within = {1}
    <2>1. Color!Count(within) = 1
        BY <1>5 DEF Color!Count, Color!SumOver, Color!Sum4, Color!Quad
    <2>2. Color!SumOver(within, f) = c
        BY <1>5 DEF Color!SumOver, Color!Sum4, Color!Quad
    <2>. QED BY <2>1, <2>2
<1>. QED BY <1>1, <1>2, <1>3, <1>4, <1>5

\* The same of YCbCr, whose fixed point loses more, and an odd edge more than that.
LEMMA UniformNearYCbCr ==
    ASSUME NEW within \in Color!Parts,
           NEW p \in Color!Pixel, NEW q \in [Color!Quad -> Color!Pixel],
           \A i \in within : q[i] = p,
           NEW i \in within, NEW s, s = Color!DecodeYCbCr(Color!EncodeYCbCr(q, within))[i],
           NEW n, n = Color!Count(within), NEW y0, y0 = Color!YCbCrLuma(p)
    PROVE  /\ Color!Near(4 * (s.r - y0), n * (p.r - y0), 16)
           /\ Color!Near(4 * (s.g - y0), n * (p.g - y0), 16)
           /\ Color!Near(4 * (s.b - y0), n * (p.b - y0), 16)
<1>1. PICK r \in 0 .. 255, g \in 0 .. 255, b \in 0 .. 255 : IsPixel(p, r, g, b)
    BY PixelFacts DEF IsPixel
<1>2. p.r = r /\ p.g = g /\ p.b = b
    BY <1>1 DEF IsPixel
<1>3. /\ n \in {1, 2, 4}
      /\ Color!SumOver(within, [j \in Color!Quad |-> q[j].r]) = n * r
      /\ Color!SumOver(within, [j \in Color!Quad |-> q[j].g]) = n * g
      /\ Color!SumOver(within, [j \in Color!Quad |-> q[j].b]) = n * b
    <2>1. \A j \in within : j \in Color!Quad
        BY DEF Color!Parts, Color!Quad
    <2>2. /\ \A j \in within : [k \in Color!Quad |-> q[k].r][j] = r
          /\ \A j \in within : [k \in Color!Quad |-> q[k].g][j] = g
          /\ \A j \in within : [k \in Color!Quad |-> q[k].b][j] = b
        BY <1>2, <2>1
    <2>3. ASSUME NEW f, NEW c \in 0 .. 255, \A j \in within : f[j] = c
          PROVE  n \in {1, 2, 4} /\ Color!SumOver(within, f) = n * c
        BY <2>3, PartSums
    <2>. QED BY <2>2, <2>3
<1>4. PICK R, G, B : /\ R = Color!Shr(n * r, 2) /\ G = Color!Shr(n * g, 2) /\ B = Color!Shr(n * b, 2)
                     /\ IsQuarter(R, n, r) /\ IsQuarter(G, n, g) /\ IsQuarter(B, n, b)
    <2>1. ASSUME NEW c \in 0 .. 255 PROVE IsQuarter(Color!Shr(n * c, 2), n, c)
        <3>1. PICK v \in Int : v = n * c
            BY <1>3
        <3>2. PICK h \in Int : h = Color!Shr(v, 2) /\ 4 * h <= v /\ v <= 4 * h + 3
            BY Shifted, ZenonT(60)
        <3>. QED BY <3>1, <3>2 DEF IsQuarter
    <2>. QED BY <2>1
<1> DEFINE wy == 54 * r + 183 * g + 18 * b
           wu == -29 * R - 99 * G + 128 * B
           wv == 128 * R - 116 * G - 12 * B
           y == Color!Shr(wy, 8)
           u == Color!Shr(wu, 8)
           v == Color!Shr(wv, 8)
           wr == 256 * y + 403 * v
           wg == 256 * y - 48 * u - 120 * v
           wb == 256 * y + 475 * u
<1>5. ASSUME NEW w \in Int PROVE IsShifted(Color!Shr(w, 8), w)
    BY Shifted DEF IsShifted
<1>6. R \in 0 .. 255 /\ G \in 0 .. 255 /\ B \in 0 .. 255
    <2>1. ASSUME NEW c \in 0 .. 255, NEW h, IsQuarter(h, n, c) PROVE h \in 0 .. 255
        <3>1. CASE n = 1
            BY <2>1, <3>1 DEF IsQuarter
        <3>2. CASE n = 2
            BY <2>1, <3>2 DEF IsQuarter
        <3>3. CASE n = 4
            BY <2>1, <3>3 DEF IsQuarter
        <3>. QED BY <1>3, <3>1, <3>2, <3>3
    <2>. QED BY <1>4, <2>1
<1>7. wy \in Int /\ wu \in Int /\ wv \in Int
    BY <1>6
<1>8. IsShifted(y, wy) /\ IsShifted(u, wu) /\ IsShifted(v, wv)
    BY <1>5, <1>7
<1>9. y \in 0 .. 255 /\ u + 128 \in 0 .. 255 /\ v + 128 \in 0 .. 255
    <2>1. 0 <= wy /\ wy <= 65025 /\ -32640 <= wu /\ wu <= 32640 /\ -32640 <= wv /\ wv <= 32640
        BY <1>6
    <2>. HIDE DEF y, u, v, wy, wu, wv
    <2>. QED BY <1>7, <1>8, <2>1 DEF IsShifted
<1>10. Color!U8(y) = y /\ Color!Clamp(u + 128) = u + 128 /\ Color!Clamp(v + 128) = v + 128
    BY <1>9, Fits
<1>11. /\ Color!EncodeYCbCr(q, within).y = [j \in within |-> Color!U8(Color!YCbCrLuma(q[j]))]
       /\ Color!EncodeYCbCr(q, within).c1 = u + 128 /\ Color!EncodeYCbCr(q, within).c2 = v + 128
    <2>1. /\ Color!EncodeYCbCr(q, within).c1 = Color!Clamp(u + 128)
          /\ Color!EncodeYCbCr(q, within).c2 = Color!Clamp(v + 128)
        BY <1>3, <1>4, ZenonT(60) DEF Color!EncodeYCbCr
    <2>. QED BY <1>10, <2>1 DEF Color!EncodeYCbCr
<1>12. y0 = y /\ Color!U8(Color!YCbCrLuma(q[i])) = y
    <2>1. Color!YCbCrLuma(p) = y
        BY <1>2 DEF Color!YCbCrLuma
    <2>. QED BY <1>10, <2>1
<1>13. y \in Int /\ u \in Int /\ v \in Int
    BY <1>8 DEF IsShifted
<1>. HIDE DEF y, u, v
<1>14. (u + 128) - 128 = u /\ (v + 128) - 128 = v /\ wr \in Int /\ wg \in Int /\ wb \in Int
    BY <1>13
<1>15. s = [r |-> Color!Clamp(Color!Shr(wr, 8)), g |-> Color!Clamp(Color!Shr(wg, 8)),
            b |-> Color!Clamp(Color!Shr(wb, 8))]
    <2>1. DOMAIN Color!EncodeYCbCr(q, within).y = within /\ Color!EncodeYCbCr(q, within).y[i] = y
        BY <1>11, <1>12
    <2>. QED BY <1>11, <1>14, <2>1 DEF Color!DecodeYCbCr
<1>16. /\ IsShifted(Color!Shr(wr, 8), wr) /\ IsShifted(Color!Shr(wg, 8), wg)
       /\ IsShifted(Color!Shr(wb, 8), wb)
    BY <1>5, <1>14
<1>17. IsYCbCr(n, r, g, b, R, G, B, y, u, v, Color!Shr(wr, 8), Color!Shr(wg, 8), Color!Shr(wb, 8))
    BY <1>3, <1>4, <1>8, <1>16 DEF IsYCbCr
<1>18. Color!Shr(wr, 8) \in Int /\ Color!Shr(wg, 8) \in Int /\ Color!Shr(wb, 8) \in Int
    BY <1>16 DEF IsShifted
<1>. HIDE DEF wr, wg, wb
<1>19. /\ IsFaded(Color!Shr(wr, 8), r, y, n) /\ IsFaded(Color!Shr(wg, 8), g, y, n)
       /\ IsFaded(Color!Shr(wb, 8), b, y, n)
    BY <1>17, YCbCrArithmetic
<1>20. /\ Color!Near(4 * (Color!Clamp(Color!Shr(wr, 8)) - y), n * (r - y), 16)
       /\ Color!Near(4 * (Color!Clamp(Color!Shr(wg, 8)) - y), n * (g - y), 16)
       /\ Color!Near(4 * (Color!Clamp(Color!Shr(wb, 8)) - y), n * (b - y), 16)
    <2>1. y \in 0 .. 255
        BY <1>9
    <2>. QED BY <1>3, <1>18, <1>19, <2>1, Fades
<1>21. /\ s.r = Color!Clamp(Color!Shr(wr, 8)) /\ s.g = Color!Clamp(Color!Shr(wg, 8))
       /\ s.b = Color!Clamp(Color!Shr(wb, 8))
    BY <1>15
<1>. QED BY <1>2, <1>12, <1>20, <1>21, Zenon

-----------------------------------------------------------------------------
(* The colour codings: what was coded and shown is told by the block.       *)

FourWays == {"generic", "sse2", "neon", "halide"}
PixelCode(by, p) == IF by = "a710" THEN Color!RGBToA710(p) ELSE Color!RGBToYCoCgR_16s(p)

NothingCoded == coded = Color!None /\ shown = <<>>
CodedInPixels(by) ==
    /\ coded.by = by
    /\ \A i \in Color!Quad : Color!Coded(i) = PixelCode(by, block[i])
    /\ shown \in {<<>>, block}
CodedInBlock(by) ==
    /\ there = Color!Quad
    /\ coded = Color!Coding(by, Subsampled(block))
    /\ shown \in {<<>>, Color!DecodeGeneric(coded)}
CodedInYCbCr ==
    /\ coded = Color!Coding("ycbcr", Color!EncodeYCbCr(block, there))
    /\ shown \in {<<>>, Color!DecodeYCbCr(coded)}

ColorInv ==
    /\ block \in [Color!Quad -> Color!Pixel] /\ there \in Color!Parts
    /\ \/ NothingCoded \/ CodedInYCbCr
       \/ \E by \in {"ycocg16", "a710"} : CodedInPixels(by)
       \/ \E by \in FourWays : CodedInBlock(by)

\* The inductive invariant of the colours.
ColorsInv == part = "color" => ColorInv

LEMMA ColorInit == Init => ColorsInv
<1> SUFFICES ASSUME Init, part = "color" PROVE ColorInv
    BY DEF ColorsInv
<1>1. Color!Init /\ Samples \subseteq 0 .. 255
    BY ParametersAreSound DEF Init, Color!SamplesAssumption
<1>2. PICK p, q \in [r : Samples, g : Samples, b : Samples] : block = <<p, q, q, p>>
    BY <1>1 DEF Color!Init
<1>3. p \in Color!Pixel /\ q \in Color!Pixel
    BY <1>1, <1>2, ZenonT(60) DEF Color!Pixel, Color!Byte
<1>4. block \in [Color!Quad -> Color!Pixel]
    BY <1>2, <1>3 DEF Color!Quad
<1>. QED BY <1>1, <1>4, Zenon DEF ColorInv, NothingCoded, Color!Init

\* Each pixel is coded for itself, by either kernel.
LEMMA EncodePixelsKeeps ==
    ASSUME ColorInv, UNCHANGED <<block, there, shown>>, coded = Color!None,
           NEW by \in {"ycocg16", "a710"},
           NEW c, \A i \in Color!Quad : c[i] = PixelCode(by, block[i]),
           coded' = Color!Coding(by, [y  |-> [i \in Color!Quad |-> c[i].y],
                                      c1 |-> [i \in Color!Quad |-> c[i].c1],
                                      c2 |-> [i \in Color!Quad |-> c[i].c2]])
    PROVE  ColorInv'
<1>1. coded'.by = by
    BY DEF Color!Coding
<1>2. ASSUME NEW i \in Color!Quad PROVE Color!Coded(i)' = PixelCode(by, block[i])
    <2>1. Color!Coded(i)' = [y |-> c[i].y, c1 |-> c[i].c1, c2 |-> c[i].c2]
        BY DEF Color!Coded, Color!Coding
    <2>2. PixelCode(by, block[i]) = [y |-> c[i].y, c1 |-> c[i].c1, c2 |-> c[i].c2]
        BY DEF PixelCode, Color!RGBToA710, Color!RGBToYCoCgR_16s
    <2>. QED BY <2>1, <2>2
<1>3. shown = <<>>
    BY DEF ColorInv, NothingCoded, CodedInYCbCr, CodedInPixels, CodedInBlock, Color!None,
           Color!Coding, FourWays
<1>. QED BY <1>1, <1>2, <1>3 DEF ColorInv, CodedInPixels, PixelCode, Color!RGBToA710, Color!RGBToYCoCgR_16s

LEMMA ColorNext ==
    ASSUME ColorInv, Color!Next
    PROVE  ColorInv'
<1>1. block \in [Color!Quad -> Color!Pixel] /\ there \in Color!Parts
    BY DEF ColorInv
<1>2. \A i \in Color!Quad : Color!RgbToYCoCgR(block[i]) = Color!RGBToYCoCgR_16s(block[i])
    BY <1>1, YCoCgLossless
<1>3. coded = Color!None => shown = <<>>
    BY DEF ColorInv, NothingCoded, CodedInYCbCr, CodedInPixels, CodedInBlock, Color!None,
           Color!Coding, FourWays
<1>4. CASE Color!EachPixel("ycocg16", Color!RGBToYCoCgR_16s)
    <2> DEFINE c == [i \in Color!Quad |-> Color!RGBToYCoCgR_16s(block[i])]
    <2>1. \A i \in Color!Quad : c[i] = PixelCode("ycocg16", block[i])
        BY DEF PixelCode
    <2>2. /\ coded = Color!None /\ UNCHANGED <<block, there, shown>>
          /\ coded' = Color!Coding("ycocg16", [y  |-> [i \in Color!Quad |-> Color!RGBToYCoCgR_16s(block[i]).y],
                                               c1 |-> [i \in Color!Quad |-> Color!RGBToYCoCgR_16s(block[i]).c1],
                                               c2 |-> [i \in Color!Quad |-> Color!RGBToYCoCgR_16s(block[i]).c2]])
        BY <1>4 DEF Color!EachPixel, Color!Encode
    <2>3. /\ [i \in Color!Quad |-> Color!RGBToYCoCgR_16s(block[i]).y] = [i \in Color!Quad |-> c[i].y]
          /\ [i \in Color!Quad |-> Color!RGBToYCoCgR_16s(block[i]).c1] = [i \in Color!Quad |-> c[i].c1]
          /\ [i \in Color!Quad |-> Color!RGBToYCoCgR_16s(block[i]).c2] = [i \in Color!Quad |-> c[i].c2]
        OBVIOUS
    <2>. HIDE DEF c
    <2>. QED BY <2>1, <2>2, <2>3, EncodePixelsKeeps
<1>5. CASE Color!EachPixel("ycocg16", Color!RgbToYCoCgR)
    <2> DEFINE c == [i \in Color!Quad |-> Color!RgbToYCoCgR(block[i])]
    <2>1. \A i \in Color!Quad : c[i] = PixelCode("ycocg16", block[i])
        BY <1>2 DEF PixelCode
    <2>2. /\ coded = Color!None /\ UNCHANGED <<block, there, shown>>
          /\ coded' = Color!Coding("ycocg16", [y  |-> [i \in Color!Quad |-> Color!RgbToYCoCgR(block[i]).y],
                                               c1 |-> [i \in Color!Quad |-> Color!RgbToYCoCgR(block[i]).c1],
                                               c2 |-> [i \in Color!Quad |-> Color!RgbToYCoCgR(block[i]).c2]])
        BY <1>5 DEF Color!EachPixel, Color!Encode
    <2>3. /\ [i \in Color!Quad |-> Color!RgbToYCoCgR(block[i]).y] = [i \in Color!Quad |-> c[i].y]
          /\ [i \in Color!Quad |-> Color!RgbToYCoCgR(block[i]).c1] = [i \in Color!Quad |-> c[i].c1]
          /\ [i \in Color!Quad |-> Color!RgbToYCoCgR(block[i]).c2] = [i \in Color!Quad |-> c[i].c2]
        OBVIOUS
    <2>. HIDE DEF c
    <2>. QED BY <2>1, <2>2, <2>3, EncodePixelsKeeps
<1>6. CASE Color!EachPixel("a710", Color!RGBToA710)
    <2> DEFINE c == [i \in Color!Quad |-> Color!RGBToA710(block[i])]
    <2>1. \A i \in Color!Quad : c[i] = PixelCode("a710", block[i])
        BY DEF PixelCode
    <2>2. /\ coded = Color!None /\ UNCHANGED <<block, there, shown>>
          /\ coded' = Color!Coding("a710", [y  |-> [i \in Color!Quad |-> Color!RGBToA710(block[i]).y],
                                            c1 |-> [i \in Color!Quad |-> Color!RGBToA710(block[i]).c1],
                                            c2 |-> [i \in Color!Quad |-> Color!RGBToA710(block[i]).c2]])
        BY <1>6 DEF Color!EachPixel, Color!Encode
    <2>3. /\ [i \in Color!Quad |-> Color!RGBToA710(block[i]).y] = [i \in Color!Quad |-> c[i].y]
          /\ [i \in Color!Quad |-> Color!RGBToA710(block[i]).c1] = [i \in Color!Quad |-> c[i].c1]
          /\ [i \in Color!Quad |-> Color!RGBToA710(block[i]).c2] = [i \in Color!Quad |-> c[i].c2]
        OBVIOUS
    <2>. HIDE DEF c
    <2>. QED BY <2>1, <2>2, <2>3, EncodePixelsKeeps
<1>7. ASSUME NEW by \in FourWays, NEW c, c = Subsampled(block), Color!Encode(by, c)
      PROVE  ColorInv'
    <2>1. /\ coded' = Color!Coding(by, Subsampled(block)) /\ block' = block /\ shown' = <<>>
          /\ there' = there /\ there = Color!Quad
        BY <1>3, <1>7 DEF Color!Encode, FourWays
    <2>2. Subsampled(block)' = Subsampled(block)
        BY <2>1 DEF Subsampled, CoSum, CgSum, Chroma
    <2>. QED BY <1>1, <2>1, <2>2 DEF ColorInv, CodedInBlock
<1>8. CASE Color!Encode("ycbcr", Color!EncodeYCbCr(block, there))
    <2>1. /\ coded' = Color!Coding("ycbcr", Color!EncodeYCbCr(block, there)) /\ block' = block /\ shown' = <<>>
          /\ there' = there
        BY <1>3, <1>8 DEF Color!Encode
    <2>. QED BY <1>1, <2>1 DEF ColorInv, CodedInYCbCr
<1>9. \/ Color!Encode("generic", Color!EncodeGeneric(block)) \/ Color!Encode("sse2", Color!EncodeSse2(block))
      \/ Color!Encode("neon", Color!EncodeNeon(block)) \/ Color!Encode("halide", Color!EncodeHalide(block))
      => ColorInv'
    BY <1>1, <1>7, EncodersAlike DEF FourWays
<1>10. ASSUME NEW by \in {"ycocg16", "a710"}, NEW f, Color!Decode(by, f),
              \A i \in Color!Quad : f[i] = block[i], f = [i \in Color!Quad |-> f[i]]
       PROVE  ColorInv'
    <2>1. f = block
        BY <1>1, <1>10
    <2>2. shown' = block /\ UNCHANGED <<block, there, coded>> /\ coded.by = by
        BY <1>10, <2>1 DEF Color!Decode
    <2>3. CodedInPixels(by)
        BY <2>2 DEF ColorInv, NothingCoded, CodedInYCbCr, CodedInPixels, CodedInBlock, Color!None,
                    Color!Coding, FourWays
    <2>4. CodedInPixels(by)'
        BY <2>2, <2>3 DEF CodedInPixels, Color!Coded, PixelCode, Color!RGBToA710, Color!RGBToYCoCgR_16s
    <2>. QED BY <1>1, <2>2, <2>4 DEF ColorInv
<1>11. ASSUME coded.by \in {"ycocg16", "a710"}, NEW i \in Color!Quad
       PROVE  /\ coded.by = "ycocg16" => /\ Color!YCoCgRToRGB_16s(Color!Coded(i)) = block[i]
                                         /\ Color!YCoCgRToRgb(Color!Coded(i)) = block[i]
              /\ coded.by = "a710" => Color!A710ToRGB(Color!Coded(i)) = block[i]
    <2>1. CodedInPixels(coded.by)
        BY <1>11 DEF ColorInv, NothingCoded, CodedInYCbCr, CodedInPixels, CodedInBlock, Color!None,
                     Color!Coding, FourWays
    <2>2. Color!Coded(i) = PixelCode(coded.by, block[i])
        BY <2>1 DEF CodedInPixels
    <2>. QED BY <1>1, <2>2, YCoCgLossless, A710Lossless DEF PixelCode
<1>12. CASE Color!Decode("ycocg16", [i \in Color!Quad |-> Color!YCoCgRToRGB_16s(Color!Coded(i))])
    <2>1. coded.by = "ycocg16"
        BY <1>12 DEF Color!Decode
    <2>. QED BY <1>10, <1>11, <1>12, <2>1
<1>13. CASE Color!Decode("ycocg16", [i \in Color!Quad |-> Color!YCoCgRToRgb(Color!Coded(i))])
    <2>1. coded.by = "ycocg16"
        BY <1>13 DEF Color!Decode
    <2>. QED BY <1>10, <1>11, <1>13, <2>1
<1>14. CASE Color!Decode("a710", [i \in Color!Quad |-> Color!A710ToRGB(Color!Coded(i))])
    <2>1. coded.by = "a710"
        BY <1>14 DEF Color!Decode
    <2>. QED BY <1>10, <1>11, <1>14, <2>1
<1>15. ASSUME NEW by \in FourWays, NEW f,
              f \in {Color!DecodeGeneric(coded), Color!DecodeSse2(coded), Color!DecodeNeon(coded),
                     Color!DecodeHalide(coded)},
              Color!Decode(by, f)
       PROVE  ColorInv'
    <2>1. shown' = f /\ UNCHANGED <<block, there, coded>> /\ coded.by = by
        BY <1>15 DEF Color!Decode
    <2>2. CodedInBlock(by)
        BY <2>1 DEF ColorInv, NothingCoded, CodedInYCbCr, CodedInPixels, CodedInBlock, Color!None,
                    Color!Coding, FourWays
    <2>3. coded.y \in [Color!Quad -> 0 .. 255] /\ coded.c1 \in 0 .. 255 /\ coded.c2 \in 0 .. 255
        <3>1. coded.y = Subsampled(block).y /\ coded.c1 = Subsampled(block).c1 /\ coded.c2 = Subsampled(block).c2
            BY <2>2 DEF CodedInBlock, Color!Coding
        <3>. QED BY <1>1, <3>1, SubsampledIsCode
    <2>4. f = Color!DecodeGeneric(coded)
        BY <1>15, <2>3, DecodersAlike
    <2>5. CodedInBlock(by)'
        <3>1. Subsampled(block)' = Subsampled(block)
            BY <2>1 DEF Subsampled, CoSum, CgSum, Chroma
        <3>2. Color!DecodeGeneric(coded)' = Color!DecodeGeneric(coded)
            BY <2>1 DEF Color!DecodeGeneric
        <3>. QED BY <2>1, <2>2, <2>4, <3>1, <3>2 DEF CodedInBlock
    <2>. QED BY <1>1, <2>1, <2>5 DEF ColorInv
<1>16. CASE Color!Decode("ycbcr", Color!DecodeYCbCr(coded))
    <2>1. shown' = Color!DecodeYCbCr(coded) /\ UNCHANGED <<block, there, coded>> /\ coded.by = "ycbcr"
        BY <1>16 DEF Color!Decode
    <2>2. CodedInYCbCr
        BY <2>1 DEF ColorInv, NothingCoded, CodedInYCbCr, CodedInPixels, CodedInBlock, Color!None,
                    Color!Coding, FourWays
    <2>. QED BY <1>1, <2>1, <2>2 DEF ColorInv, CodedInYCbCr
<1>17. \/ Color!EachPixel("ycocg16", Color!RGBToYCoCgR_16s) \/ Color!EachPixel("ycocg16", Color!RgbToYCoCgR)
       \/ Color!EachPixel("a710", Color!RGBToA710)
       \/ Color!Encode("generic", Color!EncodeGeneric(block)) \/ Color!Encode("sse2", Color!EncodeSse2(block))
       \/ Color!Encode("neon", Color!EncodeNeon(block)) \/ Color!Encode("halide", Color!EncodeHalide(block))
       \/ Color!Encode("ycbcr", Color!EncodeYCbCr(block, there))
       \/ Color!Decode("ycocg16", [i \in Color!Quad |-> Color!YCoCgRToRGB_16s(Color!Coded(i))])
       \/ Color!Decode("ycocg16", [i \in Color!Quad |-> Color!YCoCgRToRgb(Color!Coded(i))])
       \/ Color!Decode("a710", [i \in Color!Quad |-> Color!A710ToRGB(Color!Coded(i))])
       \/ \E by \in FourWays :
             \E f \in {Color!DecodeGeneric(coded), Color!DecodeSse2(coded), Color!DecodeNeon(coded),
                       Color!DecodeHalide(coded)} : Color!Decode(by, f)
       \/ Color!Decode("ycbcr", Color!DecodeYCbCr(coded))
    BY DEF Color!Next, FourWays
<1>. QED BY <1>4, <1>5, <1>6, <1>8, <1>9, <1>12, <1>13, <1>14, <1>15, <1>16, <1>17

LEMMA ColorStep == ColorsInv /\ [Next]_vars => ColorsInv'
<1> SUFFICES ASSUME ColorsInv, [Next]_vars, part' = "color" PROVE ColorInv'
    BY DEF ColorsInv
<1>1. CASE UNCHANGED vars
    <2>1. ColorInv /\ UNCHANGED <<block, there, coded, shown>>
        BY <1>1 DEF ColorsInv, vars, colors
    <2>2. Subsampled(block)' = Subsampled(block)
        BY <2>1 DEF Subsampled, CoSum, CgSum, Chroma
    <2>. QED BY <2>1, <2>2 DEF ColorInv, NothingCoded, CodedInYCbCr, CodedInPixels, CodedInBlock,
                 Color!Coded, PixelCode, Color!RGBToA710, Color!RGBToYCoCgR_16s
<1>2. CASE NextColor
    BY <1>2, ColorNext DEF NextColor, ColorsInv
<1>. QED BY <1>1, <1>2 DEF Next, NextCompare, NextMove, NextWalk, NextPrimitives

InRange(y, c1, c2) == y \in Color!Lumas /\ c1 \in Color!Chromas /\ c2 \in Color!Chromas

LEMMA CodeInRange ==
    ASSUME NEW p \in Color!Pixel, NEW by, NEW c, c = PixelCode(by, p)
    PROVE  InRange(c.y, c.c1, c.c2)
<1>1. CASE by = "a710"
    <2>1. c = Color!RGBToA710(p)
        BY <1>1 DEF PixelCode
    <2>. QED BY <2>1, A710Lossless DEF InRange, Color!Lumas, Color!Chromas
<1>2. CASE by # "a710"
    <2>1. c = Color!RGBToYCoCgR_16s(p)
        BY <1>2 DEF PixelCode
    <2>. QED BY <2>1, YCoCgLossless DEF InRange, Color!Lumas, Color!Chromas
<1>. QED BY <1>1, <1>2

\* The codings keep what MCXpp says of them, for every block of two colours.
THEOREM ColorsAreKept == Spec => []ColorsKept
<1>1. ColorsInv => ColorsKept
    <2> SUFFICES ASSUME ColorInv
                 PROVE  /\ Color!TypeOK /\ Color!Lossless
                        /\ Color!KernelsEncodeAlike /\ Color!KernelsDecodeAlike
                        /\ Color!UniformBlockKept /\ Color!AlphaUndone
        BY DEF ColorsInv, ColorsKept
    <2>1. block \in [Color!Quad -> Color!Pixel] /\ there \in Color!Parts
        BY DEF ColorInv
    <2>2. coded.by \in {"ycocg16", "a710"} => CodedInPixels(coded.by)
        BY DEF ColorInv, NothingCoded, CodedInYCbCr, CodedInPixels, CodedInBlock, Color!None,
               Color!Coding, FourWays
    <2>3. coded.by \in FourWays => CodedInBlock(coded.by)
        BY DEF ColorInv, NothingCoded, CodedInYCbCr, CodedInPixels, CodedInBlock, Color!None,
               Color!Coding, FourWays
    <2>4. Color!TypeOK
        <3>1. ASSUME coded.by \in {"ycocg16", "a710"}, NEW i \in Color!Quad
              PROVE  InRange(coded.y[i], coded.c1[i], coded.c2[i])
            <4>1. Color!Coded(i) = PixelCode(coded.by, block[i])
                BY <2>2, <3>1 DEF CodedInPixels
            <4>2. PICK c : c = Color!Coded(i)
                OBVIOUS
            <4>3. InRange(c.y, c.c1, c.c2)
                <5>1. block[i] \in Color!Pixel
                    BY <2>1, <3>1
                <5>. QED BY <4>1, <4>2, <5>1, CodeInRange
            <4>4. c.y = coded.y[i] /\ c.c1 = coded.c1[i] /\ c.c2 = coded.c2[i]
                BY <4>2 DEF Color!Coded
            <4>. QED BY <4>3, <4>4, Zenon
        <3>2. coded.by \in {"ycocg16", "a710"} =>
                \A i \in Color!Quad : InRange(coded.y[i], coded.c1[i], coded.c2[i])
            BY <3>1, Zenon
        <3>. QED BY <2>1, <3>2, Zenon DEF Color!TypeOK, InRange
    <2>5. Color!Lossless
        BY <2>2 DEF CodedInPixels, Color!Lossless
    <2>6. Color!KernelsEncodeAlike
        BY <2>1, <2>3, EncodersAlike DEF CodedInBlock, Color!KernelsEncodeAlike, FourWays
    <2>7. Color!KernelsDecodeAlike
        BY <2>3 DEF CodedInBlock, Color!KernelsDecodeAlike, FourWays
    <2>8. Color!UniformBlockKept
        <3> DEFINE n == Color!Count(there)
                   y == Color!YCbCrLuma(block[1])
        <3>. HIDE DEF n, y
        <3>1. 1 \in there /\ (\A i \in there : i \in Color!Quad)
            BY <2>1 DEF Color!Parts, Color!Quad
        <3> SUFFICES ASSUME coded.by # "none", shown # <<>>, \A i \in there : block[i] = block[1],
                            NEW i \in there, NEW c \in Color!Channels
                     PROVE  IF coded.by = "ycbcr"
                              THEN Color!Near(4 * (shown[i][c] - y), n * (block[1][c] - y), 16)
                              ELSE Color!Near(shown[i][c], block[1][c], 1)
            BY DEF Color!UniformBlockKept, n, y
        <3>2. PICK p \in Color!Pixel : p = block[1]
            BY <2>1 DEF Color!Quad
        <3>3. i \in Color!Quad /\ block[i] = p
            BY <3>1, <3>2
        <3>4. CASE coded.by \in FourWays
            <4>1. shown = Color!DecodeGeneric(coded) /\ coded = Color!Coding(coded.by, Subsampled(block))
                  /\ there = Color!Quad
                BY <2>3, <3>4 DEF CodedInBlock
            <4>2. Color!DecodeGeneric(coded) = Color!DecodeGeneric(Subsampled(block))
                BY <4>1 DEF Color!DecodeGeneric, Color!Coding
            <4>3. /\ Color!Near(shown[i].r, p.r, 1) /\ Color!Near(shown[i].g, p.g, 1)
                  /\ Color!Near(shown[i].b, p.b, 1)
                BY <2>1, <3>2, <4>1, <4>2, UniformNear
            <4>. QED BY <3>2, <3>4, <4>3 DEF FourWays, Color!Channels
        <3>5. CASE coded.by \in {"ycocg16", "a710"}
            <4>1. shown[i] = p
                BY <2>2, <3>3, <3>5 DEF CodedInPixels
            <4>2. \A k \in 0 .. 255 : Color!Near(k, k, 1)
                BY DEF Color!Near
            <4>3. Color!Near(p.r, p.r, 1) /\ Color!Near(p.g, p.g, 1) /\ Color!Near(p.b, p.b, 1)
                BY <4>2, PixelFacts, ZenonT(60)
            <4>. QED BY <3>2, <3>5, <4>1, <4>3 DEF Color!Channels
        <3>6. CASE coded.by = "ycbcr"
            <4>1. /\ shown = Color!DecodeYCbCr(coded)
                  /\ coded = Color!Coding("ycbcr", Color!EncodeYCbCr(block, there))
                BY <3>6 DEF ColorInv, NothingCoded, CodedInYCbCr, CodedInPixels, CodedInBlock,
                            Color!None, Color!Coding, FourWays
            <4>2. Color!DecodeYCbCr(coded) = Color!DecodeYCbCr(Color!EncodeYCbCr(block, there))
                BY <4>1 DEF Color!DecodeYCbCr, Color!Coding
            <4>3. /\ Color!Near(4 * (shown[i].r - y), n * (p.r - y), 16)
                  /\ Color!Near(4 * (shown[i].g - y), n * (p.g - y), 16)
                  /\ Color!Near(4 * (shown[i].b - y), n * (p.b - y), 16)
                BY <2>1, <3>2, <4>1, <4>2, UniformNearYCbCr DEF n, y
            <4>. QED BY <3>2, <3>6, <4>3 DEF Color!Channels
        <3>. QED BY <3>4, <3>5, <3>6 DEF ColorInv, NothingCoded, CodedInYCbCr, CodedInPixels,
                     CodedInBlock, Color!None, Color!Coding, FourWays
    <2>9. Color!AlphaUndone
        <3> SUFFICES ASSUME NEW i \in Color!Quad, block[1].g # 0
                     PROVE  LET back == Color!UnmultiplyAlpha(Color!MultiplyAlpha(block[i].r, block[1].g), block[1].g)
                            IN  back <= block[i].r /\ block[1].g * (block[i].r - back) < 255 + block[1].g
            BY DEF Color!AlphaUndone
        <3>1. block[i].r \in 0 .. 255 /\ block[1].g \in 1 .. 255
            <4>1. block[1] \in Color!Pixel /\ block[i] \in Color!Pixel
                BY <2>1 DEF Color!Quad
            <4>. QED BY <4>1, PixelFacts
        <3>. QED BY <3>1, AlphaTest
    <2>. QED BY <2>4, <2>5, <2>6, <2>7, <2>8, <2>9
<1>. QED BY <1>1, ColorInit, ColorStep, PTL DEF Spec

-----------------------------------------------------------------------------
(* Copy and Move: blocks in memory.                                         *)

LEMMA PitchFacts ==
    /\ Pitch \in Nat /\ Pitch > 0 /\ Lines \in Nat /\ Lines > 0
    /\ Move!Other \in Nat /\ Move!Other = Lines * Pitch
    /\ Move!Memory = 0 .. 2 * Move!Other - 1
<1>1. Pitch \in Nat /\ Pitch > 0 /\ Lines \in Nat /\ Lines > 0
    BY ParametersAreSound DEF Move!MoveAssumption
<1>2. Pitch * Lines \in Nat /\ Pitch * Lines = Lines * Pitch
    BY <1>1
<1>3. 2 * Pitch * Lines = 2 * (Pitch * Lines)
    BY <1>1
<1>. QED BY <1>1, <1>2, <1>3 DEF Move!Other, Move!Memory

LEMMA DivisionBy ==
    ASSUME NEW p \in Nat, p > 0, NEW v \in Nat
    PROVE  \E q \in Nat, m \in Nat : q = v \div p /\ m = v % p /\ m < p /\ v = q * p + m
<1>1. PICK q \in Int, m \in Int : q = v \div p /\ m = v % p
    OBVIOUS
<1>2. v = q * p + m
    BY <1>1
<1>3. q \in Nat /\ m \in Nat /\ m < p
    <2>1. v \div p \in Nat /\ v % p \in 0 .. p - 1
        OBVIOUS
    <2>. QED BY <1>1, <2>1
<1>. QED BY <1>1, <1>2, <1>3

LEMMA Division ==
    ASSUME NEW v \in Nat
    PROVE  \E q \in Nat, m \in Nat : q = v \div Pitch /\ m = v % Pitch /\ m < Pitch /\ v = q * Pitch + m
BY DivisionBy, PitchFacts

LEMMA RowsBelow ==
    ASSUME NEW r \in Nat, NEW q \in Nat
    PROVE  /\ r * Pitch \in Nat /\ (r + 1) * Pitch = r * Pitch + Pitch
           /\ r <= q => r * Pitch <= q * Pitch
           /\ r < q => r * Pitch + Pitch <= q * Pitch
<1>1. ASSUME NEW p \in Nat, NEW a \in Nat
      PROVE  a * p \in Nat /\ (a + 1) * p = a * p + p
    OBVIOUS
<1>2. ASSUME NEW p \in Nat, NEW a \in Nat, NEW b \in Nat, a <= b
      PROVE  a * p <= b * p
    <2>1. PICK d \in Nat : b = a + d
        BY <1>2
    <2>2. (a + d) * p = a * p + d * p /\ d * p \in Nat /\ a * p \in Nat
        OBVIOUS
    <2>. QED BY <2>1, <2>2
<1>3. Pitch \in Nat
    BY PitchFacts
<1>4. r * Pitch \in Nat /\ (r + 1) * Pitch = r * Pitch + Pitch
    BY <1>1, <1>3
<1>5. r <= q => r * Pitch <= q * Pitch
    BY <1>2, <1>3
<1>6. r < q => r * Pitch + Pitch <= q * Pitch
    <2>1. ASSUME r < q PROVE (r + 1) * Pitch <= q * Pitch
        <3>1. r + 1 <= q /\ r + 1 \in Nat
            BY <2>1
        <3>. QED BY <1>2, <1>3, <3>1
    <2>. QED BY <1>4, <2>1
<1>. QED BY <1>4, <1>5, <1>6

LEMMA OneCell ==
    ASSUME NEW r \in Nat, NEW q \in Nat, NEW c \in 0 .. Pitch - 1, NEW d \in 0 .. Pitch - 1,
           r * Pitch + c = q * Pitch + d
    PROVE  r = q /\ c = d
<1>1. Pitch \in Nat /\ r * Pitch \in Nat /\ q * Pitch \in Nat
    BY PitchFacts, RowsBelow
<1>2. ~(r < q) /\ ~(q < r)
    <2>1. ASSUME r < q PROVE FALSE
        <3>1. r * Pitch + Pitch <= q * Pitch
            BY <2>1, RowsBelow
        <3>. QED BY <1>1, <3>1
    <2>2. ASSUME q < r PROVE FALSE
        <3>1. q * Pitch + Pitch <= r * Pitch
            BY <2>2, RowsBelow
        <3>. QED BY <1>1, <3>1
    <2>. QED BY <2>1, <2>2
<1>3. r = q
    BY <1>2
<1>. QED BY <1>1, <1>3

LEMMA CellDivides ==
    ASSUME NEW r \in Nat, NEW c \in 0 .. Pitch - 1
    PROVE  (r * Pitch + c) \div Pitch = r /\ (r * Pitch + c) % Pitch = c
<1>1. PICK v \in Nat : v = r * Pitch + c
    <2>1. Pitch \in Nat /\ r * Pitch \in Nat
        BY PitchFacts, RowsBelow
    <2>. QED BY <2>1
<1>2. PICK q \in Nat, m \in Nat : q = v \div Pitch /\ m = v % Pitch /\ m < Pitch /\ v = q * Pitch + m
    BY Division
<1>3. r = q /\ c = m
    <2>1. m \in 0 .. Pitch - 1
        BY <1>2, PitchFacts
    <2>. QED BY <1>1, <1>2, <2>1, OneCell
<1>. QED BY <1>1, <1>2, <1>3

IsBlock(j) ==
    /\ j.op \in {"move", "copy"} /\ j.kernel \in {"generic", "simd"}
    /\ j.w \in Nat /\ j.h \in Nat
    /\ j.from \in Move!Memory /\ Move!Fits(j.from, j)
    /\ j.to \in 0 .. Move!Other - 1 /\ Move!Fits(j.to, j)
    /\ j.op = "copy" => j.from >= Move!Other

\* A block that fits at an address of one of the images does not leave that image.
LEMMA FitsInside ==
    ASSUME NEW j, j.w \in Nat, j.h \in Nat, NEW a \in Move!Memory, Move!Fits(a, j),
           NEW r \in Nat, r < j.h, NEW c \in Nat, c < j.w
    PROVE  /\ a + r * Pitch + c \in Move!Memory
           /\ a < Move!Other => a + r * Pitch + c < Move!Other
<1>1. PICK b \in Nat, base \in Nat : /\ b = a % Move!Other /\ a = base + b /\ b < Move!Other
                                   /\ (base = 0 \/ base = Move!Other) /\ (a < Move!Other => base = 0)
    <2>1. Move!Other \in Nat /\ a \in Nat /\ a < 2 * Move!Other
        BY PitchFacts
    <2>2. CASE a < Move!Other
        <3>1. a % Move!Other = a
            BY <2>1, <2>2
        <3>. QED BY <2>1, <2>2, <3>1
    <2>3. CASE ~(a < Move!Other)
        <3>1. PICK d \in Nat : a = Move!Other + d /\ d < Move!Other
            BY <2>1, <2>3
        <3>2. a % Move!Other = d
            BY <2>1, <3>1
        <3>. QED BY <2>1, <2>3, <3>1, <3>2
    <2>. QED BY <2>2, <2>3
<1>2. PICK py \in Nat, px \in Nat : py = b \div Pitch /\ px = b % Pitch /\ b = py * Pitch + px
    BY Division
<1>3. px + j.w <= Pitch /\ py + j.h <= Lines
    BY <1>1, <1>2 DEF Move!Fits, Move!Inside
<1>4. py + r < Lines /\ px + c < Pitch /\ py + r \in Nat
    BY <1>3, PitchFacts
<1>5. (py + r) * Pitch = py * Pitch + r * Pitch /\ py * Pitch \in Nat /\ r * Pitch \in Nat
    BY PitchFacts
<1>6. (py + r) * Pitch + Pitch <= Lines * Pitch
    BY <1>4, PitchFacts, RowsBelow
<1>7. b + r * Pitch + c \in Nat /\ b + r * Pitch + c < Move!Other
    BY <1>2, <1>4, <1>5, <1>6, PitchFacts
<1>. QED BY <1>1, <1>5, <1>7, PitchFacts, SMTT(60)

LEMMA BlockWidth ==
    ASSUME NEW j, IsBlock(j)
    PROVE  j.w <= Pitch
<1>0. j.to \in Nat /\ j.to < Move!Other /\ Move!Other \in Nat /\ j.w \in Nat
    BY PitchFacts DEF IsBlock
<1>1. j.to % Move!Other = j.to
    BY <1>0
<1>2. PICK m \in Nat : m = j.to % Pitch
    BY <1>0, Division
<1>3. m + j.w <= Pitch
    BY <1>1, <1>2 DEF IsBlock, Move!Fits, Move!Inside
<1>. QED BY <1>0, <1>3, PitchFacts

LEMMA BlockCells ==
    ASSUME IsBlock(job), NEW a \in Int
    PROVE  Move!InBlock(a) <=> \E r \in Nat, c \in Nat : r < job.h /\ c < job.w /\ a = job.to + r * Pitch + c
<1>0. job.to \in Nat /\ job.w \in Nat /\ job.h \in Nat /\ job.w <= Pitch /\ Pitch \in Nat
    BY BlockWidth, PitchFacts DEF IsBlock
<1>1. ASSUME Move!InBlock(a)
      PROVE  \E r \in Nat, c \in Nat : r < job.h /\ c < job.w /\ a = job.to + r * Pitch + c
    <2>1. PICK v \in Nat : v = a - job.to
        BY <1>0, <1>1 DEF Move!InBlock
    <2>2. PICK r \in Nat, c \in Nat : r = v \div Pitch /\ c = v % Pitch /\ v = r * Pitch + c
        BY Division
    <2>3. r < job.h /\ c < job.w
        BY <1>1, <2>1, <2>2 DEF Move!InBlock
    <2>4. r * Pitch \in Nat
        BY RowsBelow
    <2>5. a = job.to + r * Pitch + c
        <3>1. a - job.to = r * Pitch + c
            BY <2>1, <2>2
        <3>. QED BY <1>0, <2>4, <3>1
    <2>. QED BY <2>3, <2>5
<1>2. ASSUME NEW r \in Nat, NEW c \in Nat, r < job.h, c < job.w, a = job.to + r * Pitch + c
      PROVE  Move!InBlock(a)
    <2>1. r * Pitch \in Nat
        BY RowsBelow
    <2>2. a - job.to = r * Pitch + c /\ a >= job.to
        BY <1>0, <1>2, <2>1
    <2>3. (r * Pitch + c) \div Pitch = r /\ (r * Pitch + c) % Pitch = c
        <3>1. c \in 0 .. Pitch - 1
            BY <1>0, <1>2
        <3>. QED BY <3>1, CellDivides
    <2>. QED BY <1>2, <2>2, <2>3 DEF Move!InBlock
<1>. QED BY <1>1, <1>2

-----------------------------------------------------------------------------
(* Memory with a part of the block moved: what lies before an address, when *)
(* the block is walked forward, or from an address on.                      *)

UpTo(d) == [a \in Move!Memory |-> IF Move!InBlock(a) /\ a < d THEN a - job.to + job.from ELSE a]
DownTo(d) == [a \in Move!Memory |-> IF Move!InBlock(a) /\ a >= d THEN a - job.to + job.from ELSE a]

\* The n pixels from d on belong to the block, and s is where they come from.
InRun(s, d, n) ==
    /\ n \in Nat /\ d \in Nat /\ s = d - job.to + job.from
    /\ \A i \in 0 .. n - 1 : Move!InBlock(d + i) /\ d + i \in Move!Memory /\ s + i \in Move!Memory

LEMMA Advance ==
    ASSUME IsBlock(job), job.from > job.to, NEW s, NEW d, NEW n, InRun(s, d, n)
    PROVE  Move!Stored(UpTo(d), s, d, n) = UpTo(d + n)
<1>1. /\ n \in Nat /\ d \in Nat /\ s = d - job.to + job.from
      /\ job.from \in Nat /\ job.to \in Nat /\ Move!Memory \subseteq Nat
    BY PitchFacts DEF InRun, IsBlock
<1>2. ASSUME NEW a \in Move!Memory
      PROVE  Move!Stored(UpTo(d), s, d, n)[a] = UpTo(d + n)[a]
    <2>1. CASE a \in d .. d + n - 1
        <3>1. PICK i \in 0 .. n - 1 : a = d + i
            BY <1>1, <2>1
        <3>2. Move!InBlock(a) /\ s + i \in Move!Memory /\ s + a - d = s + i
            BY <1>1, <3>1 DEF InRun
        <3>3. ~(s + i < d) /\ s + i = a - job.to + job.from /\ a < d + n
            BY <1>1, <3>1
        <3>4. UpTo(d)[s + i] = s + i
            BY <3>2, <3>3 DEF UpTo
        <3>5. Move!Stored(UpTo(d), s, d, n)[a] = UpTo(d)[s + i]
            BY <2>1, <3>2 DEF Move!Stored
        <3>. QED BY <3>2, <3>3, <3>4, <3>5 DEF UpTo
    <2>2. CASE a \notin d .. d + n - 1
        <3>1. a < d <=> a < d + n
            BY <1>1, <2>2
        <3>2. Move!Stored(UpTo(d), s, d, n)[a] = UpTo(d)[a]
            BY <2>2 DEF Move!Stored
        <3>. QED BY <3>1, <3>2 DEF UpTo
    <2>. QED BY <2>1, <2>2
<1>3. /\ Move!Stored(UpTo(d), s, d, n) = [a \in Move!Memory |-> Move!Stored(UpTo(d), s, d, n)[a]]
      /\ UpTo(d + n) = [a \in Move!Memory |-> UpTo(d + n)[a]]
    BY DEF Move!Stored, UpTo
<1>. QED BY <1>2, <1>3

LEMMA Retreat ==
    ASSUME IsBlock(job), job.from <= job.to, NEW s, NEW d, NEW n, InRun(s, d, n)
    PROVE  Move!Stored(DownTo(d + n), s, d, n) = DownTo(d)
<1>1. /\ n \in Nat /\ d \in Nat /\ s = d - job.to + job.from
      /\ job.from \in Nat /\ job.to \in Nat /\ Move!Memory \subseteq Nat
    BY PitchFacts DEF InRun, IsBlock
<1>2. ASSUME NEW a \in Move!Memory
      PROVE  Move!Stored(DownTo(d + n), s, d, n)[a] = DownTo(d)[a]
    <2>1. CASE a \in d .. d + n - 1
        <3>1. PICK i \in 0 .. n - 1 : a = d + i
            BY <1>1, <2>1
        <3>2. Move!InBlock(a) /\ s + i \in Move!Memory /\ s + a - d = s + i
            BY <1>1, <3>1 DEF InRun
        <3>3. ~(s + i >= d + n) /\ s + i = a - job.to + job.from /\ a >= d
            BY <1>1, <3>1
        <3>4. DownTo(d + n)[s + i] = s + i
            BY <3>2, <3>3 DEF DownTo
        <3>5. Move!Stored(DownTo(d + n), s, d, n)[a] = DownTo(d + n)[s + i]
            BY <2>1, <3>2 DEF Move!Stored
        <3>. QED BY <3>2, <3>3, <3>4, <3>5 DEF DownTo
    <2>2. CASE a \notin d .. d + n - 1
        <3>1. a >= d <=> a >= d + n
            BY <1>1, <2>2
        <3>2. Move!Stored(DownTo(d + n), s, d, n)[a] = DownTo(d + n)[a]
            BY <2>2 DEF Move!Stored
        <3>. QED BY <3>1, <3>2 DEF DownTo
    <2>. QED BY <2>1, <2>2
<1>3. /\ Move!Stored(DownTo(d + n), s, d, n) = [a \in Move!Memory |-> Move!Stored(DownTo(d + n), s, d, n)[a]]
      /\ DownTo(d) = [a \in Move!Memory |-> DownTo(d)[a]]
    BY DEF Move!Stored, DownTo
<1>. QED BY <1>2, <1>3

Gap(d, e) == d \in Int /\ e \in Int /\ d <= e /\ \A a \in d .. e - 1 : ~Move!InBlock(a)

LEMMA OverGap ==
    ASSUME NEW d, NEW e, Gap(d, e)
    PROVE  UpTo(d) = UpTo(e) /\ DownTo(d) = DownTo(e)
<1>1. d \in Int /\ e \in Int /\ d <= e /\ Move!Memory \subseteq Int
    BY PitchFacts DEF Gap
<1>2. ASSUME NEW a \in Move!Memory, Move!InBlock(a)
      PROVE  (a < d <=> a < e) /\ (a >= d <=> a >= e)
    <2>1. ~(a \in d .. e - 1)
        BY <1>2 DEF Gap
    <2>. QED BY <1>1, <2>1
<1>3. /\ \A a \in Move!Memory : (Move!InBlock(a) /\ a < d) <=> (Move!InBlock(a) /\ a < e)
      /\ \A a \in Move!Memory : (Move!InBlock(a) /\ a >= d) <=> (Move!InBlock(a) /\ a >= e)
    BY <1>2
<1>. QED BY <1>3 DEF UpTo, DownTo

\* What is left of the pitch between two rows of the block.
LEMMA RowEnd ==
    ASSUME IsBlock(job), NEW r \in Nat
    PROVE  Gap(job.to + r * Pitch + job.w, job.to + r * Pitch + Pitch)
<1>1. /\ job.to \in Nat /\ job.w \in Nat /\ job.w <= Pitch /\ Pitch \in Nat /\ r * Pitch \in Nat
    BY BlockWidth, PitchFacts, RowsBelow DEF IsBlock
<1>2. ASSUME NEW a \in job.to + r * Pitch + job.w .. (job.to + r * Pitch + Pitch) - 1, Move!InBlock(a)
      PROVE  FALSE
    <2>1. PICK u \in Nat : u = r * Pitch
        BY <1>1
    <2>2. a \in Int /\ job.to + u + job.w <= a /\ a < job.to + u + Pitch
        BY <1>1, <2>1
    <2>3. PICK q \in Nat, c \in Nat : c < job.w /\ a = job.to + q * Pitch + c
        BY <1>2, <2>2, BlockCells
    <2>4. PICK v \in Nat : v = q * Pitch
        BY RowsBelow
    <2>5. PICK d \in Nat : a = job.to + u + d /\ job.w <= d /\ d < Pitch
        <3>1. PICK d \in Int : d = a - (job.to + u)
            BY <1>1, <2>2
        <3>2. d \in Nat /\ a = job.to + u + d /\ job.w <= d /\ d < Pitch
            BY <1>1, <2>2, <3>1
        <3>. QED BY <3>2
    <2>6. v + c = u + d /\ c \in 0 .. Pitch - 1 /\ d \in 0 .. Pitch - 1
        BY <1>1, <2>3, <2>4, <2>5
    <2>7. c = d
        BY <2>1, <2>4, <2>6, OneCell
    <2>. QED BY <1>1, <2>3, <2>5, <2>7
<1>. QED BY <1>1, <1>2 DEF Gap

\* Nothing of the block lies before it, nor after its last row.
LEMMA BlockEnds ==
    ASSUME IsBlock(job), NEW a \in Int, Move!InBlock(a)
    PROVE  /\ job.to <= a /\ a < job.to + job.h * Pitch /\ a < job.to + job.h * Pitch - Pitch + job.w
           /\ job.h * Pitch \in Nat
<1>1. /\ job.to \in Nat /\ job.w \in Nat /\ job.h \in Nat /\ job.w <= Pitch /\ Pitch \in Nat
    BY BlockWidth, PitchFacts DEF IsBlock
<1>2. PICK q \in Nat, c \in Nat : q < job.h /\ c < job.w /\ a = job.to + q * Pitch + c
    BY BlockCells
<1>3. q * Pitch \in Nat /\ job.h * Pitch \in Nat /\ q * Pitch + Pitch <= job.h * Pitch
    BY <1>1, <1>2, RowsBelow
<1>4. PICK u \in Nat, v \in Nat : u = q * Pitch /\ v = job.h * Pitch
    BY <1>3
<1>5. u + Pitch <= v /\ a = job.to + u + c
    BY <1>2, <1>3, <1>4
<1>6. job.to <= a /\ a < job.to + v /\ a < job.to + v - Pitch + job.w
    BY <1>1, <1>2, <1>5
<1>. QED BY <1>4, <1>6

LEMMA WholeBlock ==
    ASSUME IsBlock(job)
    PROVE  /\ UpTo(job.to) = [a \in Move!Memory |-> a]
           /\ DownTo(job.to + job.h * Pitch) = [a \in Move!Memory |-> a]
           /\ DownTo(job.to + job.h * Pitch - Pitch + job.w) = [a \in Move!Memory |-> a]
           /\ UpTo(job.to + job.h * Pitch) = [a \in Move!Memory |-> Move!Wanted(a)]
           /\ \A e \in Int : e <= job.to => DownTo(e) = [a \in Move!Memory |-> Move!Wanted(a)]
<1>1. /\ job.to \in Nat /\ job.w \in Nat /\ job.h * Pitch \in Nat /\ Pitch \in Nat
      /\ Move!Memory \subseteq Int
    BY PitchFacts, RowsBelow DEF IsBlock
<1>2. ASSUME NEW a \in Move!Memory, Move!InBlock(a)
      PROVE  /\ ~(a < job.to) /\ a < job.to + job.h * Pitch
             /\ ~(a >= job.to + job.h * Pitch) /\ ~(a >= job.to + job.h * Pitch - Pitch + job.w)
             /\ \A e \in Int : e <= job.to => a >= e
    <2>1. a \in Int
        BY <1>1
    <2>2. job.to <= a /\ a < job.to + job.h * Pitch /\ a < job.to + job.h * Pitch - Pitch + job.w
        BY <1>2, <2>1, BlockEnds
    <2>. QED BY <1>1, <2>1, <2>2
<1>3. /\ UpTo(job.to) = [a \in Move!Memory |-> a]
      /\ DownTo(job.to + job.h * Pitch) = [a \in Move!Memory |-> a]
      /\ DownTo(job.to + job.h * Pitch - Pitch + job.w) = [a \in Move!Memory |-> a]
    BY <1>2 DEF UpTo, DownTo
<1>4. UpTo(job.to + job.h * Pitch) = [a \in Move!Memory |-> Move!Wanted(a)]
    BY <1>2 DEF UpTo, Move!Wanted
<1>5. ASSUME NEW e \in Int, e <= job.to
      PROVE  DownTo(e) = [a \in Move!Memory |-> Move!Wanted(a)]
    BY <1>2, <1>5 DEF DownTo, Move!Wanted
<1>. QED BY <1>3, <1>4, <1>5

LEMMA RowRun ==
    ASSUME IsBlock(job), NEW r \in Nat, NEW c \in Nat, NEW n \in Nat, r < job.h, c + n <= job.w
    PROVE  InRun(job.from + r * Pitch + c, job.to + r * Pitch + c, n)
<1>1. /\ job.to \in Nat /\ job.from \in Nat /\ job.w \in Nat /\ job.h \in Nat /\ r * Pitch \in Nat
    BY PitchFacts, RowsBelow DEF IsBlock
<1>2. ASSUME NEW i \in 0 .. n - 1
      PROVE  /\ Move!InBlock((job.to + r * Pitch + c) + i)
             /\ (job.to + r * Pitch + c) + i \in Move!Memory
             /\ (job.from + r * Pitch + c) + i \in Move!Memory
    <2>1. PICK d \in Nat : d = c + i /\ d < job.w
        BY <1>1
    <2>2. /\ (job.to + r * Pitch + c) + i = job.to + r * Pitch + d
          /\ (job.from + r * Pitch + c) + i = job.from + r * Pitch + d
        BY <1>1, <2>1
    <2>3. job.to \in Move!Memory /\ job.from \in Move!Memory /\ Move!Fits(job.to, job) /\ Move!Fits(job.from, job)
        BY PitchFacts DEF IsBlock
    <2>4. job.to + r * Pitch + d \in Move!Memory /\ job.from + r * Pitch + d \in Move!Memory
        BY <1>1, <2>1, <2>3, FitsInside
    <2>5. job.to + r * Pitch + d \in Int
        BY <1>1
    <2>6. Move!InBlock(job.to + r * Pitch + d)
        BY <2>1, <2>5, BlockCells
    <2>. QED BY <2>2, <2>4, <2>6
<1>. QED BY <1>1, <1>2 DEF InRun

-----------------------------------------------------------------------------
(* memcpy of a row, in whichever order: what the recursion over its pixels  *)
(* comes to where the row read and the row written do not overlap.          *)

\* What is proved of the least natural number that is no exception holds of none.
LEMMA Least ==
    ASSUME NEW T, T \subseteq Nat, T # {}
    PROVE  \E p \in T : \A q \in T : p <= q
<1>1. IsWellFoundedOn(OpToRel(<, Nat), Nat)
    BY NatLessThanWellFounded
<1>2. PICK p \in T : \A q \in T : <<q, p>> \notin OpToRel(<, Nat)
    BY <1>1, WFMin
<1>3. \A q \in T : ~ (q < p)
    BY <1>2 DEF OpToRel
<1>. QED BY <1>3

RisingStep(m, from, to, f, i) == IF i = 0 THEN m ELSE [f[i - 1] EXCEPT ![to + i - 1] = f[i - 1][from + i - 1]]
FallingStep(m, from, to, n, f, i) ==
    IF i = 0 THEN m ELSE [f[i - 1] EXCEPT ![to + n - i] = f[i - 1][from + n - i]]

RisingRows(m, from, to, n) == CHOOSE f : f = [i \in 0 .. n |-> RisingStep(m, from, to, f, i)]
FallingRows(m, from, to, n) == CHOOSE f : f = [i \in 0 .. n |-> FallingStep(m, from, to, n, f, i)]

LEMMA RisingIs ==
    ASSUME NEW m, NEW from, NEW to, NEW n \in Nat
    PROVE  Move!Rising(m, from, to, n) = RisingRows(m, from, to, n)[n]
BY DEF Move!Rising, RisingStep, RisingRows

LEMMA FallingIs ==
    ASSUME NEW m, NEW from, NEW to, NEW n \in Nat
    PROVE  Move!Falling(m, from, to, n) = FallingRows(m, from, to, n)[n]
BY DEF Move!Falling, FallingStep, FallingRows

\* Two rows in memory of which the one written ends before the one read begins.
Apart(m, from, to, n) ==
    /\ n \in Nat /\ to \in Nat /\ from \in Nat /\ to + n <= from
    /\ m = [a \in Move!Memory |-> m[a]]
    /\ \A i \in 0 .. n - 1 : to + i \in Move!Memory /\ from + i \in Move!Memory

LEMMA NothingStored ==
    ASSUME NEW m, m = [a \in Move!Memory |-> m[a]], NEW from, NEW to \in Int
    PROVE  Move!Stored(m, from, to, 0) = m
<1>1. to .. to + 0 - 1 = {}
    OBVIOUS
<1>2. Move!Stored(m, from, to, 0) = [a \in Move!Memory |-> m[a]]
    BY <1>1 DEF Move!Stored
<1>. QED BY <1>2

LEMMA RisingStores ==
    ASSUME NEW m, NEW from, NEW to, NEW n, Apart(m, from, to, n)
    PROVE  Move!Rising(m, from, to, n) = Move!Stored(m, from, to, n)
<1>1. /\ n \in Nat /\ to \in Nat /\ from \in Nat /\ to + n <= from /\ m = [a \in Move!Memory |-> m[a]]
      /\ Move!Memory \subseteq Nat
    BY PitchFacts DEF Apart
<1> DEFINE S(i) == Move!Stored(m, from, to, i)
           g == [i \in 0 .. n |-> S(i)]
           f == RisingRows(m, from, to, n)
<1>2. S(0) = m
    BY <1>1, NothingStored
<1>3. ASSUME NEW i \in 1 .. n
      PROVE  S(i) = [S(i - 1) EXCEPT ![to + i - 1] = S(i - 1)[from + i - 1]]
    <2>1. PICK k \in 0 .. n - 1 : k = i - 1
        BY <1>1
    <2>2. to + k \in Move!Memory /\ from + k \in Move!Memory /\ to + i - 1 = to + k /\ from + i - 1 = from + k
        BY <1>1, <2>1 DEF Apart
    <2>3. from + k \notin to .. to + k - 1 /\ i = k + 1
        BY <1>1, <2>1
    <2>4. S(k)[from + k] = m[from + k]
        BY <2>2, <2>3 DEF Move!Stored
    <2>5. ASSUME NEW a \in Move!Memory
          PROVE  S(k + 1)[a] = IF a = to + k THEN m[from + k] ELSE S(k)[a]
        <3>1. a \in to .. to + (k + 1) - 1 <=> a = to + k \/ a \in to .. to + k - 1
            BY <1>1
        <3>2. CASE a = to + k
            <4>1. from + a - to = from + k
                BY <1>1, <3>2
            <4>. QED BY <3>1, <3>2, <4>1 DEF Move!Stored
        <3>3. CASE a # to + k
            BY <3>1, <3>3 DEF Move!Stored
        <3>. QED BY <3>2, <3>3
    <2>6. S(k + 1) = [a \in Move!Memory |-> S(k + 1)[a]] /\ S(k) = [a \in Move!Memory |-> S(k)[a]]
        BY DEF Move!Stored
    <2>. HIDE DEF S
    <2>7. S(k + 1) = [S(k) EXCEPT ![to + k] = m[from + k]]
        BY <2>5, <2>6
    <2>. QED BY <2>1, <2>2, <2>3, <2>4, <2>7
<1>. HIDE DEF S
<1>4. g = [i \in 0 .. n |-> RisingStep(m, from, to, g, i)]
    <2>1. ASSUME NEW i \in 0 .. n
          PROVE  S(i) = RisingStep(m, from, to, g, i)
        <3>1. CASE i = 0
            BY <1>2, <3>1 DEF RisingStep
        <3>2. CASE i # 0
            <4>1. i \in 1 .. n /\ i - 1 \in 0 .. n
                BY <1>1, <3>2
            <4>. QED BY <1>3, <3>2, <4>1 DEF RisingStep
        <3>. QED BY <3>1, <3>2
    <2>. QED BY <2>1
<1>. HIDE DEF g
<1>5. f = [i \in 0 .. n |-> RisingStep(m, from, to, f, i)]
    BY <1>4 DEF RisingRows
<1>. HIDE DEF f
<1>6. \A i \in 0 .. n : f[i] = g[i]
    <2> DEFINE T == {i \in 0 .. n : f[i] # g[i]}
    <2> SUFFICES ASSUME T # {} PROVE FALSE
        OBVIOUS
    <2>1. T \subseteq Nat
        BY <1>1
    <2>2. PICK p \in T : \A q \in T : p <= q
        BY <2>1, Least
    <2>3. CASE p = 0
        <3>1. 0 \in 0 .. n
            BY <1>1
        <3>2. f[0] = m /\ g[0] = m
            BY <1>4, <1>5, <3>1 DEF RisingStep
        <3>. QED BY <2>3, <3>2
    <2>4. CASE p # 0
        <3>1. p \in 0 .. n /\ p - 1 \in 0 .. n /\ ~(p <= p - 1)
            BY <1>1, <2>4
        <3>2. f[p - 1] = g[p - 1]
            BY <2>2, <3>1
        <3>3. RisingStep(m, from, to, f, p) = RisingStep(m, from, to, g, p)
            BY <2>4, <3>2 DEF RisingStep
        <3>4. f[p] = RisingStep(m, from, to, f, p) /\ g[p] = RisingStep(m, from, to, g, p)
            BY <1>4, <1>5, <3>1
        <3>. QED BY <3>3, <3>4
    <2>. QED BY <2>3, <2>4
<1>7. f[n] = S(n)
    BY <1>1, <1>6 DEF g
<1>8. Move!Rising(m, from, to, n) = f[n]
    BY <1>1, RisingIs DEF f
<1>9. S(n) = Move!Stored(m, from, to, n)
    BY DEF S
<1>. QED BY <1>7, <1>8, <1>9
LEMMA FallingStores ==
    ASSUME NEW m, NEW from, NEW to, NEW n, Apart(m, from, to, n)
    PROVE  Move!Falling(m, from, to, n) = Move!Stored(m, from, to, n)
<1>1. /\ n \in Nat /\ to \in Nat /\ from \in Nat /\ to + n <= from /\ m = [a \in Move!Memory |-> m[a]]
      /\ Move!Memory \subseteq Nat
    BY PitchFacts DEF Apart
<1> DEFINE S(i) == Move!Stored(m, from + n - i, to + n - i, i)
           g == [i \in 0 .. n |-> S(i)]
           f == FallingRows(m, from, to, n)
<1>2. S(0) = m
    <2>1. to + n - 0 \in Int
        BY <1>1
    <2>. QED BY <1>1, <2>1, NothingStored
<1>3. ASSUME NEW i \in 1 .. n
      PROVE  S(i) = [S(i - 1) EXCEPT ![to + n - i] = S(i - 1)[from + n - i]]
    <2>1. PICK k \in 0 .. n - 1 : k = n - i /\ i - 1 = n - k - 1 /\ i = n - k
        BY <1>1
    <2>2. /\ to + k \in Move!Memory /\ from + k \in Move!Memory
          /\ to + n - i = to + k /\ from + n - i = from + k
        BY <1>1, <2>1 DEF Apart
    <2> DEFINE before == Move!Stored(m, from + k + 1, to + k + 1, i - 1)
               after == Move!Stored(m, from + k, to + k, i)
    <2>3. S(i - 1) = before /\ S(i) = after
        <3>1. from + n - (i - 1) = from + k + 1 /\ to + n - (i - 1) = to + k + 1
            BY <1>1, <2>1
        <3>. QED BY <2>2, <3>1
    <2>4. before[from + k] = m[from + k]
        <3>1. from + k \notin to + k + 1 .. (to + k + 1) + (i - 1) - 1
            BY <1>1, <2>1
        <3>. QED BY <2>2, <3>1 DEF Move!Stored
    <2>5. ASSUME NEW a \in Move!Memory
          PROVE  after[a] = IF a = to + k THEN m[from + k] ELSE before[a]
        <3>1. /\ a \in to + k .. (to + k) + i - 1 <=> a = to + k \/ a \in to + k + 1 .. (to + k + 1) + (i - 1) - 1
              /\ (from + k) + a - (to + k) = from + a - to
              /\ (from + k + 1) + a - (to + k + 1) = from + a - to
            BY <1>1, <2>1
        <3>2. CASE a = to + k
            <4>1. from + a - to = from + k
                BY <1>1, <3>2
            <4>. QED BY <3>1, <3>2, <4>1 DEF Move!Stored
        <3>3. CASE a # to + k
            BY <3>1, <3>3 DEF Move!Stored
        <3>. QED BY <3>2, <3>3
    <2>6. after = [a \in Move!Memory |-> after[a]] /\ before = [a \in Move!Memory |-> before[a]]
        BY DEF Move!Stored
    <2>. HIDE DEF before, after, S
    <2>7. after = [before EXCEPT ![to + k] = m[from + k]]
        BY <2>5, <2>6
    <2>. QED BY <2>2, <2>3, <2>4, <2>7
<1>. HIDE DEF S
<1>4. g = [i \in 0 .. n |-> FallingStep(m, from, to, n, g, i)]
    <2>1. ASSUME NEW i \in 0 .. n
          PROVE  S(i) = FallingStep(m, from, to, n, g, i)
        <3>1. CASE i = 0
            BY <1>2, <3>1 DEF FallingStep
        <3>2. CASE i # 0
            <4>1. i \in 1 .. n /\ i - 1 \in 0 .. n
                BY <1>1, <3>2
            <4>. QED BY <1>3, <3>2, <4>1 DEF FallingStep
        <3>. QED BY <3>1, <3>2
    <2>. QED BY <2>1
<1>. HIDE DEF g
<1>5. f = [i \in 0 .. n |-> FallingStep(m, from, to, n, f, i)]
    BY <1>4 DEF FallingRows
<1>. HIDE DEF f
<1>6. \A i \in 0 .. n : f[i] = g[i]
    <2> DEFINE T == {i \in 0 .. n : f[i] # g[i]}
    <2> SUFFICES ASSUME T # {} PROVE FALSE
        OBVIOUS
    <2>1. T \subseteq Nat
        BY <1>1
    <2>2. PICK p \in T : \A q \in T : p <= q
        BY <2>1, Least
    <2>3. CASE p = 0
        <3>1. 0 \in 0 .. n
            BY <1>1
        <3>2. f[0] = m /\ g[0] = m
            BY <1>4, <1>5, <3>1 DEF FallingStep
        <3>. QED BY <2>3, <3>2
    <2>4. CASE p # 0
        <3>1. p \in 0 .. n /\ p - 1 \in 0 .. n /\ ~(p <= p - 1)
            BY <1>1, <2>4
        <3>2. f[p - 1] = g[p - 1]
            BY <2>2, <3>1
        <3>3. FallingStep(m, from, to, n, f, p) = FallingStep(m, from, to, n, g, p)
            BY <2>4, <3>2 DEF FallingStep
        <3>4. f[p] = FallingStep(m, from, to, n, f, p) /\ g[p] = FallingStep(m, from, to, n, g, p)
            BY <1>4, <1>5, <3>1
        <3>. QED BY <3>3, <3>4
    <2>. QED BY <2>3, <2>4
<1>7. f[n] = S(n)
    BY <1>1, <1>6 DEF g
<1>8. Move!Falling(m, from, to, n) = f[n]
    BY <1>1, FallingIs DEF f
<1>9. S(n) = Move!Stored(m, from, to, n)
    <2>1. from + n - n = from /\ to + n - n = to
        BY <1>1
    <2>. QED BY <2>1 DEF S
<1>. QED BY <1>7, <1>8, <1>9

-----------------------------------------------------------------------------
(* How far a call has come: R rows are done from the top and C columns of   *)
(* the next, or L rows are left and C columns of the last.                  *)

ForwardAt(R, C) ==
    /\ R <= job.h /\ rows = job.h - R /\ C <= job.w /\ (R < job.h \/ C = 0)
    /\ dst = job.to + R * Pitch + C /\ src = job.from + R * Pitch + C
    /\ IF job.kernel = "simd" THEN x = job.w - C ELSE C = 0
    /\ mem = UpTo(dst)
ForwardSome == \E R \in 0 .. job.h, C \in 0 .. job.w : ForwardAt(R, C)

\* The generic kernel keeps the beginning of the row it is going to move.
RowKept == IF job.kernel = "simd" THEN 0 ELSE Pitch
BackAt(L, C) ==
    /\ L <= job.h /\ rows = L /\ C <= job.w
    /\ dst = job.to + L * Pitch - Pitch + C /\ src = job.from + L * Pitch - Pitch + C
    /\ IF job.kernel = "simd" THEN x = C ELSE C = 0
    /\ mem = DownTo(dst + RowKept)
BackSome == \E L \in 0 .. job.h, C \in 0 .. job.w : BackAt(L, C)

Arrives ==
    /\ way = "start" => mem = [a \in Move!Memory |-> a]
    /\ way = "forward" => ForwardSome
    /\ way = "backward" => BackSome
    /\ way = "done" => mem = [a \in Move!Memory |-> Move!Wanted(a)]

MoveState ==
    /\ IsBlock(job)
    /\ way \in {"start", "forward", "backward", "done"}
    /\ way = "forward" => job.from > job.to
    /\ way = "backward" => job.from <= job.to /\ job.op = "move"
    /\ ~Move!SelfCopy => Arrives
MoveInv == part = "move" => MoveState

LEMMA Widths ==
    /\ \A n \in Nat \ {0} : Move!CopyWidth(n) \in 1 .. n
    /\ \A n \in Nat \ {0} : Move!MoveWidth(n) \in 1 .. n
<1>1. \A n \in Nat \ {0} : Move!CopyWidth(n) \in 1 .. n
    BY DEF Move!CopyWidth
<1>2. ASSUME NEW n \in Nat \ {0}
      PROVE  Move!MoveWidth(n) \in 1 .. n
    <2>1. /\ n % 8 = 0 => n >= 8
          /\ n % 16 = 0 => n >= 16
          /\ n % 32 = 0 => n >= 32
        OBVIOUS
    <2>. QED BY <2>1 DEF Move!MoveWidth
<1>. QED BY <1>1, <1>2

LEMMA JobFacts ==
    ASSUME IsBlock(job)
    PROVE  /\ job.to \in Nat /\ job.from \in Nat /\ job.w \in Nat /\ job.h \in Nat /\ job.w <= Pitch
           /\ Pitch \in Nat /\ Pitch > 0 /\ 0 * Pitch = 0
           /\ job.op \in {"move", "copy"} /\ job.kernel \in {"generic", "simd"}
BY BlockWidth, PitchFacts DEF IsBlock

\* A copy reads another image than the one it writes.
LEMMA CopyFromOther ==
    ASSUME IsBlock(job), job.op = "copy"
    PROVE  job.from > job.to
<1>1. Move!Other \in Nat /\ job.to < Move!Other /\ job.to \in Nat /\ job.from >= Move!Other /\ job.from \in Nat
    BY PitchFacts DEF IsBlock
<1>. QED BY <1>1

LEMMA BeginForward ==
    ASSUME IsBlock(job), mem = [a \in Move!Memory |-> a],
           dst' = job.to, src' = job.from, x' = job.w, rows' = job.h, job' = job, mem' = mem
    PROVE  ForwardSome'
<1>1. 0 \in 0 .. job.h /\ 0 \in 0 .. job.w /\ job.to = job.to + 0 * Pitch + 0 /\ job.from = job.from + 0 * Pitch + 0
      /\ job.h = job.h - 0 /\ job.w = job.w - 0
    BY JobFacts
<1>2. mem = UpTo(job.to)
    BY WholeBlock
<1>3. UpTo(job.to)' = UpTo(job.to)
    BY DEF UpTo, Move!InBlock
<1>4. ForwardAt(0, 0)'
    BY <1>1, <1>2, <1>3 DEF ForwardAt
<1>. QED BY <1>1, <1>4 DEF ForwardSome

\* The operators of a call stay the same while the call does.
LEMMA SameCall ==
    ASSUME job' = job
    PROVE  /\ \A d : UpTo(d)' = UpTo(d) /\ DownTo(d)' = DownTo(d)
           /\ Move!SelfCopy' = Move!SelfCopy /\ IsBlock(job)' = IsBlock(job) /\ RowKept' = RowKept
           /\ \A a : Move!Wanted(a)' = Move!Wanted(a)
BY DEF UpTo, DownTo, Move!InBlock, Move!SelfCopy, IsBlock, RowKept, Move!Wanted, Move!Fits, Move!Inside

LEMMA BeginBack ==
    ASSUME IsBlock(job), mem = [a \in Move!Memory |-> a],
           dst' = job.to + Move!LastRow + (IF job.kernel = "simd" THEN job.w ELSE 0),
           src' = job.from + Move!LastRow + (IF job.kernel = "simd" THEN job.w ELSE 0),
           x' = job.w, rows' = job.h, job' = job, mem' = mem
    PROVE  BackSome'
<1> DEFINE C == IF job.kernel = "simd" THEN job.w ELSE 0
<1>1. PICK u \in Nat : u = job.h * Pitch
    BY JobFacts
<1>2. Move!LastRow = u - Pitch
    <2>1. \A h \in Nat : (h - 1) * Pitch = h * Pitch - Pitch
        BY JobFacts
    <2>. QED BY <1>1, <2>1, JobFacts DEF Move!LastRow
<1>3. /\ dst' = job.to + u - Pitch + C /\ src' = job.from + u - Pitch + C
      /\ C \in 0 .. job.w /\ job.h \in 0 .. job.h
    BY <1>2, JobFacts
<1>4. mem = DownTo(job.to + u - Pitch + C + RowKept)
    <2>1. CASE job.kernel = "simd"
        <3>1. job.to + u - Pitch + C + RowKept = job.to + u - Pitch + job.w
            BY <2>1, JobFacts DEF RowKept
        <3>. QED BY <1>1, <3>1, WholeBlock
    <2>2. CASE job.kernel # "simd"
        <3>1. job.to + u - Pitch + C + RowKept = job.to + u
            BY <2>2, JobFacts DEF RowKept
        <3>. QED BY <1>1, <3>1, WholeBlock
    <2>. QED BY <2>1, <2>2
<1>5. BackAt(job.h, C)'
    BY <1>1, <1>3, <1>4, SameCall DEF BackAt
<1>. QED BY <1>3, <1>5 DEF BackSome

\* n pixels of a row, or the whole row.
LEMMA ForwardRun ==
    ASSUME IsBlock(job), job.from > job.to, NEW R \in Nat, NEW C \in Nat, NEW n \in Nat, R < job.h, C + n <= job.w
    PROVE  LET d == job.to + R * Pitch + C
               s == job.from + R * Pitch + C
           IN  InRun(s, d, n) /\ Move!Stored(UpTo(d), s, d, n) = UpTo(d + n)
<1>1. InRun(job.from + R * Pitch + C, job.to + R * Pitch + C, n)
    BY RowRun
<1>. QED BY <1>1, Advance

\* Between the rows of the block there is nothing of it, nor before the first.
LEMMA BetweenRows ==
    ASSUME IsBlock(job), NEW r \in Nat
    PROVE  LET u == r * Pitch
           IN  /\ UpTo(job.to + u + job.w) = UpTo(job.to + u + Pitch)
               /\ DownTo(job.to + u - Pitch + job.w) = DownTo(job.to + u)
<1>1. UpTo(job.to + r * Pitch + job.w) = UpTo(job.to + r * Pitch + Pitch)
    BY RowEnd, OverGap
<1>2. CASE r = 0
    <2>1. Gap(job.to + 0 - Pitch + job.w, job.to + 0)
        <3>1. \A a \in Int : Move!InBlock(a) => job.to <= a
            BY BlockEnds
        <3>2. job.to + 0 - Pitch + job.w \in Int /\ job.to + 0 \in Int /\ job.to + 0 - Pitch + job.w <= job.to + 0
            BY JobFacts
        <3>3. \A a \in job.to + 0 - Pitch + job.w .. (job.to + 0) - 1 : a \in Int /\ ~(job.to <= a)
            BY <3>2, JobFacts
        <3>. QED BY <3>1, <3>2, <3>3 DEF Gap
    <2>. QED BY <1>1, <1>2, <2>1, OverGap, JobFacts
<1>3. CASE r # 0
    <2>1. PICK q \in Nat : r = q + 1
        BY <1>3
    <2>2. q * Pitch \in Nat /\ r * Pitch = q * Pitch + Pitch
        BY <2>1, RowsBelow
    <2>3. Gap(job.to + q * Pitch + job.w, job.to + q * Pitch + Pitch)
        BY RowEnd
    <2>4. /\ job.to + r * Pitch - Pitch + job.w = job.to + q * Pitch + job.w
          /\ job.to + r * Pitch = job.to + q * Pitch + Pitch
        BY <2>2, JobFacts
    <2>. QED BY <1>1, <2>3, <2>4, OverGap
<1>. QED BY <1>2, <1>3

LEMMA NoOverlap ==
    ASSUME IsBlock(job), ~Move!SelfCopy, job.kernel = "generic", job.from > job.to, NEW R \in Nat, R < job.h
    PROVE  Apart(UpTo(job.to + R * Pitch), job.from + R * Pitch, job.to + R * Pitch, job.w)
<1>1. PICK u \in Nat : u = R * Pitch
    BY RowsBelow
<1>2. InRun(job.from + u + 0, job.to + u + 0, job.w)
    <2>1. 0 \in Nat /\ 0 + job.w <= job.w
        BY JobFacts
    <2>. QED BY <1>1, <2>1, RowRun, JobFacts
<1>3. \A i \in 0 .. job.w - 1 : job.to + u + i \in Move!Memory /\ job.from + u + i \in Move!Memory
    <2>1. job.from + u + 0 = job.from + u /\ job.to + u + 0 = job.to + u
        BY JobFacts
    <2>. QED BY <1>2, <2>1 DEF InRun
<1>4. job.to + u + job.w <= job.from + u
    <2>1. CASE job.op = "move"
        <3>1. ~(job.from - job.to < job.w)
            BY <2>1 DEF Move!SelfCopy
        <3>. QED BY <3>1, JobFacts
    <2>2. CASE job.op = "copy" /\ job.w # 0
        <3>1. PICK c \in Nat : c + 1 = job.w
            <4>1. job.w - 1 \in Nat /\ (job.w - 1) + 1 = job.w
                BY <2>2, JobFacts
            <4>. QED BY <4>1
        <3>2. c < job.w /\ job.to \in Move!Memory /\ Move!Fits(job.to, job) /\ job.to < Move!Other
            BY <3>1, PitchFacts, JobFacts DEF IsBlock
        <3>3. job.to + u + c < Move!Other
            BY <1>1, <3>2, FitsInside, JobFacts
        <3>4. job.from >= Move!Other /\ Move!Other \in Nat
            BY <2>2, PitchFacts DEF IsBlock
        <3>. QED BY <3>1, <3>3, <3>4, JobFacts
    <2>3. CASE job.w = 0
        BY <2>3, JobFacts
    <2>. QED BY <2>1, <2>2, <2>3, JobFacts
<1>5. UpTo(job.to + u) = [a \in Move!Memory |-> UpTo(job.to + u)[a]]
    BY DEF UpTo
<1>6. job.w \in Nat /\ job.to + u \in Nat /\ job.from + u \in Nat
    BY JobFacts
<1>. QED BY <1>1, <1>3, <1>4, <1>5, <1>6 DEF Apart

LEMMA CopyRow ==
    ASSUME MoveState, ~Move!SelfCopy, Move!Xpp_Copy_row
    PROVE  ForwardSome'
<1>1. IsBlock(job) /\ job.from > job.to /\ ForwardSome
    BY DEF MoveState, Arrives, Move!Xpp_Copy_row
<1>2. /\ job' = job /\ job.kernel = "generic" /\ rows > 0
      /\ mem' \in {Move!Rising(mem, src, dst, job.w), Move!Falling(mem, src, dst, job.w)}
      /\ src' = src + Pitch /\ dst' = dst + Pitch /\ rows' = rows - 1
    BY DEF Move!Xpp_Copy_row
<1>3. PICK R \in 0 .. job.h, C \in 0 .. job.w : ForwardAt(R, C)
    BY <1>1 DEF ForwardSome
<1>4. C = 0 /\ R \in Nat /\ rows = job.h - R /\ R < job.h
    BY <1>1, <1>2, <1>3, JobFacts DEF ForwardAt
<1>5. PICK u \in Nat : u = R * Pitch /\ (R + 1) * Pitch = u + Pitch
    BY <1>4, RowsBelow
<1>6. dst = job.to + u + C /\ src = job.from + u + C /\ mem = UpTo(dst)
    BY <1>3, <1>5 DEF ForwardAt
<1>7. dst = job.to + u /\ src = job.from + u
    BY <1>1, <1>4, <1>6, JobFacts
<1>8. Apart(mem, src, dst, job.w)
    BY <1>1, <1>2, <1>4, <1>5, <1>6, <1>7, NoOverlap
<1>9. mem' = Move!Stored(mem, src, dst, job.w)
    BY <1>2, <1>8, RisingStores, FallingStores
<1>10. mem' = UpTo(job.to + u + Pitch)
    <2>1. 0 + job.w <= job.w /\ job.to + u + 0 = dst /\ job.from + u + 0 = src /\ job.w \in Nat
        BY <1>1, <1>7, JobFacts
    <2>2. Move!Stored(UpTo(dst), src, dst, job.w) = UpTo(dst + job.w)
        BY <1>1, <1>4, <1>5, <2>1, ForwardRun
    <2>3. UpTo(job.to + u + job.w) = UpTo(job.to + u + Pitch)
        BY <1>1, <1>4, <1>5, BetweenRows
    <2>. QED BY <1>6, <1>7, <1>9, <2>2, <2>3
<1>11. ForwardAt(R + 1, 0)'
    <2>1. /\ dst' = job.to + (R + 1) * Pitch + 0 /\ src' = job.from + (R + 1) * Pitch + 0
          /\ dst' = job.to + u + Pitch
        BY <1>1, <1>2, <1>5, <1>7, JobFacts
    <2>2. mem' = UpTo(dst)'
        BY <1>2, <1>10, <2>1 DEF UpTo, Move!InBlock
    <2>3. R + 1 <= job.h /\ rows' = job.h - (R + 1) /\ 0 <= job.w
        BY <1>1, <1>2, <1>4, JobFacts
    <2>. QED BY <1>2, <2>1, <2>2, <2>3 DEF ForwardAt
<1>12. R + 1 \in 0 .. job.h /\ 0 \in 0 .. job.w
    BY <1>1, <1>4, JobFacts
<1>. QED BY <1>2, <1>11, <1>12 DEF ForwardSome

LEMMA CopyPixels ==
    ASSUME MoveState, ~Move!SelfCopy, Move!DoCopy
    PROVE  ForwardSome'
<1>1. IsBlock(job) /\ job.from > job.to /\ ForwardSome
    BY DEF MoveState, Arrives, Move!DoCopy
<1>2. PICK n : /\ n = Move!CopyWidth(x) /\ mem' = Move!Stored(mem, src, dst, n)
               /\ src' = src + n /\ dst' = dst + n /\ x' = x - n
    BY DEF Move!DoCopy
<1>3. job' = job /\ job.kernel = "simd" /\ rows > 0 /\ x > 0 /\ rows' = rows
    BY DEF Move!DoCopy
<1>4. PICK R \in 0 .. job.h, C \in 0 .. job.w : ForwardAt(R, C)
    BY <1>1 DEF ForwardSome
<1>5. x = job.w - C /\ rows = job.h - R /\ R < job.h /\ R \in Nat /\ C \in Nat
    BY <1>1, <1>3, <1>4, JobFacts DEF ForwardAt
<1>6. n \in Nat /\ n > 0 /\ C + n <= job.w /\ x - n = job.w - (C + n)
    <2>1. x \in Nat \ {0}
        BY <1>1, <1>3, <1>5, JobFacts
    <2>2. n \in 1 .. x
        BY <1>2, <2>1, Widths
    <2>. QED BY <1>1, <1>5, <2>1, <2>2, JobFacts
<1>7. PICK u \in Nat : u = R * Pitch
    BY <1>5, RowsBelow
<1>8. dst = job.to + u + C /\ src = job.from + u + C /\ mem = UpTo(dst)
    BY <1>4, <1>7 DEF ForwardAt
<1>9. mem' = UpTo(dst + n)
    BY <1>1, <1>2, <1>5, <1>6, <1>7, <1>8, ForwardRun
<1>10. ForwardAt(R, C + n)'
    <2>1. dst' = job.to + u + (C + n) /\ src' = job.from + u + (C + n)
        BY <1>1, <1>2, <1>5, <1>6, <1>8, JobFacts
    <2>2. mem' = UpTo(dst)'
        BY <1>2, <1>3, <1>9 DEF UpTo, Move!InBlock
    <2>. QED BY <1>2, <1>3, <1>5, <1>6, <1>7, <2>1, <2>2 DEF ForwardAt
<1>11. C + n \in 0 .. job.w
    BY <1>1, <1>5, <1>6, JobFacts
<1>. QED BY <1>3, <1>10, <1>11 DEF ForwardSome

\* The row that is next when L are left begins L - 1 rows after the block.
LEMMA LastLeft ==
    ASSUME IsBlock(job), NEW L \in Nat, L > 0
    PROVE  \E q \in Nat, u \in Nat : L = q + 1 /\ q < L /\ u = q * Pitch /\ L * Pitch = u + Pitch
<1>1. PICK q \in Nat : L = q + 1 /\ q < L
    <2>1. L - 1 \in Nat /\ L = (L - 1) + 1 /\ L - 1 < L
        OBVIOUS
    <2>. QED BY <2>1
<1>2. q * Pitch \in Nat /\ L * Pitch = q * Pitch + Pitch
    BY <1>1, RowsBelow
<1>. QED BY <1>1, <1>2

LEMMA MoveRow ==
    ASSUME MoveState, ~Move!SelfCopy, Move!Xpp_Move_row
    PROVE  BackSome'
<1>1. IsBlock(job) /\ job.from <= job.to /\ BackSome
    BY DEF MoveState, Arrives, Move!Xpp_Move_row
<1>2. /\ job' = job /\ job.kernel = "generic" /\ rows > 0
      /\ mem' = Move!Stored(mem, src, dst, job.w)
      /\ src' = src - Pitch /\ dst' = dst - Pitch /\ rows' = rows - 1
    BY DEF Move!Xpp_Move_row
<1>3. PICK L \in 0 .. job.h, C \in 0 .. job.w : BackAt(L, C)
    BY <1>1 DEF BackSome
<1>4. C = 0 /\ L \in Nat /\ rows = L /\ L > 0 /\ RowKept = Pitch
    BY <1>1, <1>2, <1>3, JobFacts DEF BackAt, RowKept
<1>5. PICK q \in Nat, u \in Nat : L = q + 1 /\ q < L /\ u = q * Pitch /\ L * Pitch = u + Pitch
    BY <1>1, <1>4, LastLeft
<1>6. /\ dst = job.to + (u + Pitch) - Pitch + C /\ src = job.from + (u + Pitch) - Pitch + C
      /\ mem = DownTo(dst + Pitch)
    BY <1>3, <1>4, <1>5 DEF BackAt
<1>7. dst = job.to + u /\ src = job.from + u
    BY <1>1, <1>4, <1>6, JobFacts
<1>8. mem = DownTo(dst + job.w)
    <2>1. UpTo(job.to + u + job.w) = UpTo(job.to + u + Pitch)
          /\ Gap(job.to + u + job.w, job.to + u + Pitch)
        BY <1>1, <1>5, BetweenRows, RowEnd
    <2>. QED BY <1>6, <1>7, <2>1, OverGap
<1>9. mem' = DownTo(dst)
    <2>1. InRun(job.from + u + 0, job.to + u + 0, job.w)
        <3>1. q < job.h /\ 0 \in Nat /\ 0 + job.w <= job.w
            BY <1>1, <1>5, JobFacts
        <3>. QED BY <1>1, <1>5, <3>1, RowRun, JobFacts
    <2>2. InRun(src, dst, job.w)
        <3>1. job.from + u + 0 = src /\ job.to + u + 0 = dst
            BY <1>1, <1>7, JobFacts
        <3>. QED BY <2>1, <3>1
    <2>. QED BY <1>1, <1>2, <1>8, <2>2, Retreat
<1>10. BackAt(q, 0)'
    <2>1. /\ dst' = job.to + u - Pitch + 0 /\ src' = job.from + u - Pitch + 0
          /\ rows' = q /\ q <= job.h /\ 0 <= job.w /\ dst = dst' + Pitch
        BY <1>1, <1>2, <1>4, <1>5, <1>7, JobFacts
    <2>2. mem' = DownTo(dst + RowKept)'
        BY <1>2, <1>9, <2>1 DEF DownTo, Move!InBlock, RowKept
    <2>. QED BY <1>2, <1>5, <2>1, <2>2 DEF BackAt
<1>11. q \in 0 .. job.h /\ 0 \in 0 .. job.w
    BY <1>1, <1>5, JobFacts
<1>. QED BY <1>2, <1>10, <1>11 DEF BackSome

LEMMA MovePixels ==
    ASSUME MoveState, ~Move!SelfCopy, Move!DoMove
    PROVE  BackSome'
<1>1. IsBlock(job) /\ job.from <= job.to /\ BackSome
    BY DEF MoveState, Arrives, Move!DoMove
<1>2. PICK n : /\ n = Move!MoveWidth(x) /\ mem' = Move!Stored(mem, src - n, dst - n, n)
               /\ src' = src - n /\ dst' = dst - n /\ x' = x - n
    BY DEF Move!DoMove
<1>3. job' = job /\ job.kernel = "simd" /\ rows > 0 /\ x > 0 /\ rows' = rows
    BY DEF Move!DoMove
<1>4. PICK L \in 0 .. job.h, C \in 0 .. job.w : BackAt(L, C)
    BY <1>1 DEF BackSome
<1>5. x = C /\ C \in Nat /\ C > 0 /\ L \in Nat /\ rows = L /\ L > 0 /\ RowKept = 0
    BY <1>1, <1>3, <1>4, JobFacts DEF BackAt, RowKept
<1>6. PICK q \in Nat, u \in Nat : L = q + 1 /\ q < L /\ u = q * Pitch /\ L * Pitch = u + Pitch
    BY <1>1, <1>5, LastLeft
<1>7. /\ dst = job.to + (u + Pitch) - Pitch + C /\ src = job.from + (u + Pitch) - Pitch + C
      /\ mem = DownTo(dst + 0)
    BY <1>4, <1>5, <1>6 DEF BackAt
<1>8. n \in Nat /\ n <= C
    <2>1. x \in Nat \ {0}
        BY <1>5
    <2>2. n \in 1 .. x
        BY <1>2, <2>1, Widths
    <2>. QED BY <1>5, <2>2
<1>9. PICK c \in Nat : c = C - n /\ c + n = C
    BY <1>5, <1>8
<1>10. /\ dst = job.to + u + c + n /\ src = job.from + u + c + n
       /\ dst - n = job.to + u + c /\ src - n = job.from + u + c
    BY <1>1, <1>5, <1>7, <1>8, <1>9, JobFacts
<1>11. mem' = DownTo(dst - n)
    <2>1. InRun(job.from + u + c, job.to + u + c, n)
        <3>1. q < job.h /\ c + n <= job.w
            BY <1>1, <1>6, <1>9, JobFacts
        <3>. QED BY <1>1, <1>6, <1>8, <3>1, RowRun
    <2>2. mem = DownTo(job.to + u + c + n)
        <3>1. dst + 0 = job.to + u + c + n
            BY <1>1, <1>8, <1>9, <1>10, JobFacts
        <3>. QED BY <1>7, <3>1
    <2>3. Move!Stored(DownTo(job.to + u + c + n), job.from + u + c, job.to + u + c, n) = DownTo(job.to + u + c)
        BY <1>1, <2>1, Retreat
    <2>. QED BY <1>2, <1>10, <2>2, <2>3
<1>12. BackAt(L, c)'
    <2>1. /\ dst' = job.to + (u + Pitch) - Pitch + c /\ src' = job.from + (u + Pitch) - Pitch + c
          /\ c <= job.w /\ L <= job.h /\ rows' = L /\ x' = c /\ dst' = dst - n /\ dst - n = (dst - n) + 0
        BY <1>1, <1>2, <1>3, <1>5, <1>8, <1>9, <1>10, JobFacts
    <2>2. mem' = DownTo(dst + RowKept)'
        BY <1>3, <1>11, <2>1 DEF DownTo, Move!InBlock, RowKept
    <2>. QED BY <1>3, <1>6, <2>1, <2>2 DEF BackAt
<1>13. c \in 0 .. job.w
    BY <1>1, <1>9, <1>8, JobFacts
<1>. QED BY <1>3, <1>12, <1>13 DEF BackSome

LEMMA RowDone ==
    ASSUME MoveState, ~Move!SelfCopy, Move!NextRow
    PROVE  /\ way = "forward" => ForwardSome'
           /\ way = "backward" => BackSome'
<1>1. IsBlock(job) /\ (way = "forward" => ForwardSome) /\ (way = "backward" => BackSome)
    BY DEF MoveState, Arrives
<1>2. /\ job' = job /\ job.kernel = "simd" /\ rows > 0 /\ x = 0 /\ x' = job.w /\ rows' = rows - 1 /\ mem' = mem
      /\ way = "forward" => src' = src + (Pitch - job.w) /\ dst' = dst + (Pitch - job.w)
      /\ way = "backward" => src' = src + (job.w - Pitch) /\ dst' = dst + (job.w - Pitch)
    BY DEF Move!NextRow
<1>3. ASSUME way = "forward" PROVE ForwardSome'
    <2>1. PICK R \in 0 .. job.h, C \in 0 .. job.w : ForwardAt(R, C)
        BY <1>1, <1>3 DEF ForwardSome
    <2>2. C = job.w /\ R \in Nat /\ rows = job.h - R /\ R < job.h
        <3>1. R \in Nat /\ C \in Nat /\ x = job.w - C /\ rows = job.h - R
            BY <1>1, <1>2, <2>1, JobFacts DEF ForwardAt
        <3>. QED BY <1>1, <1>2, <3>1, JobFacts
    <2>3. PICK u \in Nat : u = R * Pitch /\ (R + 1) * Pitch = u + Pitch
        BY <2>2, RowsBelow
    <2>4. dst = job.to + u + job.w /\ src = job.from + u + job.w /\ mem = UpTo(dst)
        BY <2>1, <2>2, <2>3 DEF ForwardAt
    <2>5. mem' = UpTo(job.to + u + Pitch)
        BY <1>1, <1>2, <2>2, <2>3, <2>4, BetweenRows
    <2>6. ForwardAt(R + 1, 0)'
        <3>1. /\ dst' = job.to + (u + Pitch) + 0 /\ src' = job.from + (u + Pitch) + 0
              /\ dst' = job.to + u + Pitch
              /\ R + 1 <= job.h /\ rows' = job.h - (R + 1) /\ 0 <= job.w /\ x' = job.w - 0
            BY <1>1, <1>2, <1>3, <2>2, <2>4, JobFacts
        <3>2. mem' = UpTo(dst)'
            BY <1>2, <2>5, <3>1 DEF UpTo, Move!InBlock
        <3>. QED BY <1>2, <2>3, <3>1, <3>2 DEF ForwardAt
    <2>7. R + 1 \in 0 .. job.h /\ 0 \in 0 .. job.w
        BY <1>1, <2>2, JobFacts
    <2>. QED BY <1>2, <2>6, <2>7 DEF ForwardSome
<1>4. ASSUME way = "backward" PROVE BackSome'
    <2>1. PICK L \in 0 .. job.h, C \in 0 .. job.w : BackAt(L, C)
        BY <1>1, <1>4 DEF BackSome
    <2>2. C = 0 /\ L \in Nat /\ rows = L /\ L > 0 /\ RowKept = 0
        BY <1>1, <1>2, <2>1, JobFacts DEF BackAt, RowKept
    <2>3. PICK q \in Nat, u \in Nat : L = q + 1 /\ q < L /\ u = q * Pitch /\ L * Pitch = u + Pitch
        BY <1>1, <2>2, LastLeft
    <2>4. dst = job.to + (u + Pitch) - Pitch + 0 /\ src = job.from + (u + Pitch) - Pitch + 0 /\ mem = DownTo(dst + 0)
        BY <2>1, <2>2, <2>3 DEF BackAt
    <2>5. dst = job.to + u /\ dst + 0 = job.to + u /\ src = job.from + u
        BY <1>1, <2>4, JobFacts
    <2>6. mem' = DownTo(job.to + u - Pitch + job.w)
        BY <1>1, <1>2, <2>3, <2>4, <2>5, BetweenRows
    <2>7. BackAt(q, job.w)'
        <3>1. /\ dst' = job.to + u - Pitch + job.w /\ src' = job.from + u - Pitch + job.w
              /\ dst' + 0 = job.to + u - Pitch + job.w
              /\ q <= job.h /\ rows' = q /\ job.w <= job.w
            BY <1>1, <1>2, <1>4, <2>2, <2>3, <2>5, JobFacts
        <3>2. mem' = DownTo(dst + RowKept)'
            BY <1>2, <2>6, <3>1 DEF DownTo, Move!InBlock, RowKept
        <3>. QED BY <1>2, <2>3, <3>1, <3>2 DEF BackAt
    <2>8. q \in 0 .. job.h /\ job.w \in 0 .. job.w
        BY <1>1, <2>3, JobFacts
    <2>. QED BY <1>2, <2>7, <2>8 DEF BackSome
<1>. QED BY <1>3, <1>4

LEMMA AllMoved ==
    ASSUME MoveState, ~Move!SelfCopy, Move!Return
    PROVE  mem' = [a \in Move!Memory |-> Move!Wanted(a)]
<1>1. /\ IsBlock(job) /\ (way = "forward" => ForwardSome) /\ (way = "backward" => BackSome)
      /\ way \in {"forward", "backward"} /\ rows = 0 /\ mem' = mem
    BY DEF MoveState, Arrives, Move!Return
<1>2. CASE way = "forward"
    <2>1. PICK R \in 0 .. job.h, C \in 0 .. job.w : ForwardAt(R, C)
        BY <1>1, <1>2 DEF ForwardSome
    <2>2. C = 0 /\ R = job.h /\ R \in Nat
        <3>1. R \in Nat /\ rows = job.h - R /\ (R < job.h \/ C = 0)
            BY <1>1, <2>1, JobFacts DEF ForwardAt
        <3>. QED BY <1>1, <3>1, JobFacts
    <2>3. PICK u \in Nat : u = R * Pitch
        BY <2>2, RowsBelow
    <2>4. dst = job.to + u + 0 /\ mem = UpTo(dst)
        BY <2>1, <2>2, <2>3 DEF ForwardAt
    <2>5. dst = job.to + u
        BY <1>1, <2>4, JobFacts
    <2>. QED BY <1>1, <2>2, <2>3, <2>4, <2>5, WholeBlock
<1>3. CASE way = "backward"
    <2>1. PICK L \in 0 .. job.h, C \in 0 .. job.w : BackAt(L, C)
        BY <1>1, <1>3 DEF BackSome
    <2>2. L = 0 /\ C \in Nat /\ C <= job.w
        BY <1>1, <2>1, JobFacts DEF BackAt
    <2>3. dst = job.to + 0 - Pitch + C /\ mem = DownTo(dst + RowKept) /\ (job.kernel # "simd" => C = 0)
        BY <1>1, <2>1, <2>2, JobFacts DEF BackAt
    <2>4. dst + RowKept \in Int /\ dst + RowKept <= job.to
        BY <1>1, <2>2, <2>3, JobFacts DEF RowKept
    <2>. QED BY <1>1, <2>3, <2>4, WholeBlock
<1>. QED BY <1>1, <1>2, <1>3

LEMMA JobIsBlock ==
    ASSUME NEW j \in Move!MoveJobs \cup Move!CopyJobs,
           j.from \in Move!Memory, Move!Fits(j.from, j), j.to \in 0 .. Move!Other - 1, Move!Fits(j.to, j)
    PROVE  IsBlock(j)
<1>1. Sizes \subseteq Nat \X Nat /\ Move!Other \in Nat /\ Pitch \in Nat
    BY ParametersAreSound, PitchFacts DEF Move!MoveAssumption
<1>2. CASE j \in Move!MoveJobs
    BY <1>1, <1>2 DEF IsBlock, Move!MoveJobs
<1>3. CASE j \in Move!CopyJobs
    <2>1. PICK k \in {"generic", "simd"}, s \in Sizes, fx \in 0 .. 1, fy \in 0 .. 1 :
              j = [op |-> "copy", kernel |-> k, w |-> s[1], h |-> s[2],
                   from |-> Move!Other + fy * Pitch + fx, to |-> fx]
        BY <1>3 DEF Move!CopyJobs
    <2>2. fy * Pitch \in Nat
        BY RowsBelow
    <2>3. j.from >= Move!Other
        BY <1>1, <2>1, <2>2
    <2>4. j.op = "copy" /\ j.kernel \in {"generic", "simd"} /\ j.w \in Nat /\ j.h \in Nat
        BY <1>1, <2>1
    <2>. QED BY <2>3, <2>4 DEF IsBlock
<1>. QED BY <1>2, <1>3

LEMMA MoveInit == Init => MoveInv
<1> SUFFICES ASSUME Init, part = "move" PROVE MoveState
    BY DEF MoveInv
<1>1. Move!Init
    BY DEF Init
<1>2. IsBlock(job)
    BY <1>1, JobIsBlock DEF Move!Init
<1>3. way = "start" /\ mem = [a \in Move!Memory |-> a]
    BY <1>1 DEF Move!Init
<1>. QED BY <1>2, <1>3 DEF MoveState, Arrives

LEMMA MoveStep ==
    ASSUME MoveState, Move!Next
    PROVE  MoveState'
<1>1. IsBlock(job) /\ way \in {"start", "forward", "backward", "done"} /\ job' = job
    BY DEF MoveState, Move!Next, Move!Xpp_Copy, Move!Xpp_Move_simd, Move!Xpp_Move_generic, Move!Xpp_Copy_row,
           Move!Xpp_Move_row, Move!DoCopy, Move!DoMove, Move!NextRow, Move!Return
<1>2. /\ IsBlock(job)' /\ Move!SelfCopy' = Move!SelfCopy
      /\ \A a : Move!Wanted(a)' = Move!Wanted(a)
    BY <1>1, SameCall
<1>3. CASE Move!Xpp_Copy
    <2>1. way = "start" /\ way' = "forward" /\ job.op = "copy"
        BY <1>3 DEF Move!Xpp_Copy
    <2>2. job.from > job.to
        BY <1>1, <2>1, CopyFromOther
    <2>3. ASSUME ~Move!SelfCopy PROVE ForwardSome'
        <3>1. mem = [a \in Move!Memory |-> a]
            BY <2>1, <2>3 DEF MoveState, Arrives
        <3>. QED BY <1>1, <1>3, <3>1, BeginForward DEF Move!Xpp_Copy
    <2>. QED BY <1>1, <1>2, <2>1, <2>2, <2>3 DEF MoveState, Arrives
<1>4. CASE Move!Xpp_Move_simd \/ Move!Xpp_Move_generic
    <2>1. /\ way = "start" /\ job.op = "move" /\ x' = job.w /\ rows' = job.h /\ mem' = mem
          /\ job.from > job.to => way' = "forward" /\ src' = job.from /\ dst' = job.to
          /\ ~(job.from > job.to) => way' = "backward"
        BY <1>4 DEF Move!Xpp_Move_simd, Move!Xpp_Move_generic
    <2>2. ~Move!SelfCopy => mem = [a \in Move!Memory |-> a]
        BY <2>1 DEF MoveState, Arrives
    <2>3. CASE job.from > job.to
        <3>1. ~Move!SelfCopy => ForwardSome'
            BY <1>1, <2>1, <2>2, <2>3, BeginForward
        <3>. QED BY <1>1, <1>2, <2>1, <2>3, <3>1 DEF MoveState, Arrives
    <2>4. CASE ~(job.from > job.to)
        <3>1. job.from <= job.to
            BY <1>1, <2>4, JobFacts
        <3>2. /\ dst' = job.to + Move!LastRow + (IF job.kernel = "simd" THEN job.w ELSE 0)
              /\ src' = job.from + Move!LastRow + (IF job.kernel = "simd" THEN job.w ELSE 0)
            <4>1. Move!LastRow \in Int /\ job.to \in Nat /\ job.from \in Nat
                BY <1>1, JobFacts DEF Move!LastRow
            <4>. QED BY <1>4, <2>4, <4>1 DEF Move!Xpp_Move_simd, Move!Xpp_Move_generic
        <3>3. ~Move!SelfCopy => BackSome'
            BY <1>1, <2>1, <2>2, <3>2, BeginBack
        <3>. QED BY <1>1, <1>2, <2>1, <2>4, <3>1, <3>3 DEF MoveState, Arrives
    <2>. QED BY <2>3, <2>4
<1>5. CASE Move!Xpp_Copy_row
    <2>1. way = "forward" /\ way' = "forward"
        BY <1>5 DEF Move!Xpp_Copy_row
    <2>. QED BY <1>1, <1>2, <1>5, <2>1, CopyRow DEF MoveState, Arrives
<1>6. CASE Move!Xpp_Move_row
    <2>1. way = "backward" /\ way' = "backward"
        BY <1>6 DEF Move!Xpp_Move_row
    <2>. QED BY <1>1, <1>2, <1>6, <2>1, MoveRow DEF MoveState, Arrives
<1>7. CASE Move!DoCopy
    <2>1. way = "forward" /\ way' = "forward"
        BY <1>7 DEF Move!DoCopy
    <2>. QED BY <1>1, <1>2, <1>7, <2>1, CopyPixels DEF MoveState, Arrives
<1>8. CASE Move!DoMove
    <2>1. way = "backward" /\ way' = "backward"
        BY <1>8 DEF Move!DoMove
    <2>. QED BY <1>1, <1>2, <1>8, <2>1, MovePixels DEF MoveState, Arrives
<1>9. CASE Move!NextRow
    <2>1. way \in {"forward", "backward"} /\ way' = way
        BY <1>9 DEF Move!NextRow
    <2>. QED BY <1>1, <1>2, <1>9, <2>1, RowDone DEF MoveState, Arrives
<1>10. CASE Move!Return
    <2>1. way' = "done"
        BY <1>10 DEF Move!Return
    <2>. QED BY <1>1, <1>2, <1>10, <2>1, AllMoved DEF MoveState, Arrives
<1>. QED BY <1>3, <1>4, <1>5, <1>6, <1>7, <1>8, <1>9, <1>10 DEF Move!Next

LEMMA MoveUnchanged ==
    ASSUME MoveState, UNCHANGED <<copies, walks>>
    PROVE  MoveState'
BY DEF MoveState, copies, walks, IsBlock, Move!Fits, Move!Inside, Move!SelfCopy, Arrives, ForwardSome, BackSome,
       ForwardAt, BackAt, RowKept, UpTo, DownTo, Move!InBlock, Move!Wanted

LEMMA MoveNext == MoveInv /\ [Next]_vars => MoveInv'
<1> SUFFICES ASSUME MoveInv, [Next]_vars, part' = "move" PROVE MoveState'
    BY DEF MoveInv
<1>1. part' = part
    BY DEF Next, NextCompare, NextMove, NextColor, NextWalk, NextPrimitives, vars
<1>2. part = "move" /\ MoveState
    BY <1>1 DEF MoveInv
<1>3. Move!Next \/ UNCHANGED <<copies, walks>>
    BY <1>2 DEF Next, NextCompare, NextMove, NextColor, NextWalk, NextPrimitives, vars
<1>. QED BY <1>2, <1>3, MoveStep, MoveUnchanged

\* Copy and Move leave in the destination what the source held when they were
\* called, whatever the overlap, the pitch and the size of the block, and overwrite
\* at no step a pixel they still have to read (XppCopy.c, simd/XppCopy_*); the one
\* exception is the generic Move onto a block less than its width to the left.
THEOREM BlocksArrive == Spec => []BlockArrives
<1>1. MoveInv => BlockArrives
    <2> SUFFICES ASSUME MoveState PROVE Move!BlockArrives /\ Move!NothingLostAhead
        BY DEF MoveInv, BlockArrives
    <2>1. IsBlock(job) /\ Move!Memory \subseteq Int
        BY PitchFacts DEF MoveState
    <2>2. Move!BlockArrives
        BY DEF Move!BlockArrives, MoveState, Arrives
    <2>3. ASSUME way = "forward", ~Move!SelfCopy, NEW a \in Move!Memory, Move!Unread(a)
          PROVE  mem[a] = a
        <3>1. job.from > job.to /\ ForwardSome
            BY <2>3 DEF MoveState, Arrives
        <3>2. PICK R \in 0 .. job.h, C \in 0 .. job.w : ForwardAt(R, C)
            BY <3>1 DEF ForwardSome
        <3>3. PICK u \in Nat : u = R * Pitch
            BY <2>1, RowsBelow, JobFacts
        <3>4. dst = job.to + u + C /\ src = job.from + u + C /\ mem = UpTo(dst)
            BY <3>2, <3>3 DEF ForwardAt
        <3>5. ~(a < dst)
            <4>1. a >= src /\ a \in Int
                BY <2>1, <2>3 DEF Move!Unread
            <4>. QED BY <2>1, <3>1, <3>4, <4>1, JobFacts
        <3>. QED BY <3>4, <3>5 DEF UpTo
    <2>4. ASSUME way = "backward", ~Move!SelfCopy, NEW a \in Move!Memory, Move!Unread(a)
          PROVE  mem[a] = a
        <3>1. job.from <= job.to /\ BackSome
            BY <2>4 DEF MoveState, Arrives
        <3>2. PICK L \in 0 .. job.h, C \in 0 .. job.w : BackAt(L, C)
            BY <3>1 DEF BackSome
        <3>3. PICK u \in Nat : u = L * Pitch
            BY <2>1, RowsBelow, JobFacts
        <3>4. dst = job.to + u - Pitch + C /\ src = job.from + u - Pitch + C /\ mem = DownTo(dst + RowKept)
            BY <3>2, <3>3 DEF BackAt
        <3>5. ~(a >= dst + RowKept)
            <4>1. a < src + (IF job.kernel = "simd" THEN 0 ELSE job.w) /\ a \in Int
                BY <2>1, <2>4 DEF Move!Unread
            <4>. QED BY <2>1, <3>1, <3>4, <4>1, JobFacts DEF RowKept
        <3>. QED BY <3>4, <3>5 DEF DownTo
    <2>. QED BY <2>2, <2>3, <2>4 DEF Move!NothingLostAhead
<1>. QED BY <1>1, MoveInit, MoveNext, PTL DEF Spec

-----------------------------------------------------------------------------
(* The walks through planes and images.                                     *)

LEMMA Distributes ==
    ASSUME NEW a \in Int, NEW b \in Int
    PROVE  /\ a * b \in Int /\ (a + 1) * b = a * b + b /\ (a + 2) * b = a * b + b + b
           /\ \A r \in {0, 1} : (a + r) * b = a * b + r * b /\ r * b \in Int
<1>1. a * b \in Int /\ (a + 1) * b = a * b + b /\ (a + 2) * b = a * b + b + b
    OBVIOUS
<1>2. (a + 0) * b = a * b /\ 0 * b = 0 /\ 1 * b = b
    OBVIOUS
<1>. QED BY <1>1, <1>2

\* The samples of the pixel p of an image that is walked by call j.
Pix(j, p) ==
    <<p[1] * j.yStep + p[2],
      IF Walk!Halved(j.k) THEN (p[1] \div 2) * j.cStep + p[2] \div 2 ELSE p[1] * j.cStep + p[2],
      p[1] * j.rgbStep + p[2]>>

IsCall(j) ==
    /\ j.w \in Nat \ {0} /\ j.h \in Nat \ {0}
    /\ j.yStep \in Nat /\ j.cStep \in Nat /\ j.rgbStep \in Nat

\* The pixels of an image of h rows and w columns, and those of them that are
\* done when b rows from the given one on are done up to the given column.
Box(h, w) == (0 .. h - 1) \X (0 .. w - 1)
Passed(h, w, row, b, col) == {p \in Box(h, w) : p[1] < row \/ (p[1] < row + b /\ p[2] < col)}
Ahead(h, w, row, b, col, n) ==
    {p \in Box(h, w) : row <= p[1] /\ p[1] < row + b /\ col <= p[2] /\ p[2] < col + n}
\* The samples t that were touched are those of the pixels D.
Painted(j, t, D) == t = {Pix(j, p) : p \in D}

Counts(h, w, row, b, col, n) ==
    h \in Nat /\ w \in Nat /\ row \in Nat /\ b \in Nat /\ col \in Nat /\ n \in Nat

\* A step of n columns in the band.
LEMMA PassedMore ==
    ASSUME NEW h, NEW w, NEW row, NEW b, NEW col, NEW n, Counts(h, w, row, b, col, n)
    PROVE  Passed(h, w, row, b, col + n) = Passed(h, w, row, b, col) \cup Ahead(h, w, row, b, col, n)
<1>1. h \in Nat /\ w \in Nat /\ row \in Nat /\ b \in Nat /\ col \in Nat /\ n \in Nat
    BY DEF Counts
<1>2. \A p \in Box(h, w) : p[1] \in Nat /\ p[2] \in Nat
    BY <1>1 DEF Box
<1>3. ASSUME NEW p \in Box(h, w)
      PROVE  (p[1] < row \/ (p[1] < row + b /\ p[2] < col + n))
             <=> \/ p[1] < row \/ (p[1] < row + b /\ p[2] < col)
                 \/ (row <= p[1] /\ p[1] < row + b /\ col <= p[2] /\ p[2] < col + n)
    BY <1>1, <1>2
<1>. QED BY <1>3 DEF Passed, Ahead

\* A band of rows that is done to its end.
LEMMA PassedRows ==
    ASSUME NEW h, NEW w, NEW row, NEW b, NEW c, NEW col, Counts(h, w, row, b, c, col), w <= col
    PROVE  Passed(h, w, row, b, col) = Passed(h, w, row + b, c, 0)
<1>1. h \in Nat /\ w \in Nat /\ row \in Nat /\ b \in Nat /\ c \in Nat /\ col \in Nat
    BY DEF Counts
<1>2. \A p \in Box(h, w) : p[1] \in Nat /\ p[2] \in Nat /\ p[2] < w
    BY <1>1 DEF Box
<1>3. ASSUME NEW p \in Box(h, w)
      PROVE  (p[1] < row \/ (p[1] < row + b /\ p[2] < col))
             <=> (p[1] < row + b \/ (p[1] < (row + b) + c /\ p[2] < 0))
    BY <1>1, <1>2
<1>. QED BY <1>3 DEF Passed

LEMMA PassedNone ==
    ASSUME NEW h \in Nat, NEW w \in Nat, NEW b \in Nat
    PROVE  Passed(h, w, 0, b, 0) = {}
<1>1. \A p \in Box(h, w) : p[1] \in Nat /\ p[2] \in Nat
    BY DEF Box
<1>. QED BY <1>1 DEF Passed

LEMMA PassedAll ==
    ASSUME NEW h, NEW w, NEW row, NEW b, NEW col, Counts(h, w, row, b, col, col), h <= row
    PROVE  Passed(h, w, row, b, col) = Box(h, w)
<1>1. h \in Nat /\ w \in Nat /\ row \in Nat
    BY DEF Counts
<1>2. \A p \in Box(h, w) : p[1] \in Nat /\ p[1] < h
    BY <1>1 DEF Box
<1>. QED BY <1>1, <1>2 DEF Passed

LEMMA PaintsMore ==
    ASSUME NEW j, NEW t, NEW D, NEW N, Painted(j, t, D)
    PROVE  Painted(j, t \cup {Pix(j, p) : p \in N}, D \cup N)
BY DEF Painted

LEMMA Evens ==
    ASSUME NEW n \in Nat
    PROVE  /\ n \div 2 \in Nat /\ Walk!Even(n) = 2 * (n \div 2) /\ 2 * (n \div 2) <= n /\ n <= 2 * (n \div 2) + 1
           /\ Walk!Half(n) \in Nat /\ n <= 2 * Walk!Half(n) /\ 2 * Walk!Half(n) <= n + 1
           /\ n % 2 = n - 2 * (n \div 2)
<1>1. n \div 2 \in Nat /\ 2 * (n \div 2) <= n /\ n <= 2 * (n \div 2) + 1
    OBVIOUS
<1>2. (n + 1) \div 2 \in Nat /\ 2 * ((n + 1) \div 2) <= n + 1 /\ n + 1 <= 2 * ((n + 1) \div 2) + 1
    OBVIOUS
<1>3. n % 2 = n - 2 * (n \div 2)
    OBVIOUS
<1>. QED BY <1>1, <1>2, <1>3 DEF Walk!Even, Walk!Half

LEMMA Halving ==
    ASSUME NEW a \in Int, NEW e \in {0, 1}
    PROVE  (2 * a + e) \div 2 = a
OBVIOUS

-----------------------------------------------------------------------------
(* How far each walk has come.                                              *)

PairAt(n, m, R, k) ==
    /\ n = job.h \div 2 /\ m = job.w \div 2 /\ R <= n /\ k <= m
    /\ rows = n - R /\ x = 2 * m - 2 * k
    /\ ptr = [y |-> (2 * R) * job.yStep + 2 * k, c |-> R * job.cStep + k, rgb |-> (2 * R) * job.rgbStep + 2 * k]
    /\ Painted(job, touched, Passed(2 * n, 2 * m, 2 * R, 2, 2 * k))
PairInv == \E n \in Nat, m \in Nat, R \in Nat, k \in Nat : PairAt(n, m, R, k)

PixelAt(R, k) ==
    /\ R <= job.h /\ k <= job.w
    /\ rows = job.h - R /\ x = job.w - k
    /\ ptr = [y |-> R * job.yStep + k, c |-> R * job.cStep + k, rgb |-> R * job.rgbStep + k]
    /\ Painted(job, touched, Passed(job.h, job.w, R, 1, k))
PixelInv == \E R \in Nat, k \in Nat : PixelAt(R, k)

EncoderAt(n, m, R, k) ==
    /\ n = Walk!Half(job.h) /\ m = Walk!Half(job.w) /\ R <= n /\ k <= m
    /\ rows = n - R /\ x = 2 * m - 2 * k
    /\ ptr = [y |-> 0, c |-> R * job.cStep + k, rgb |-> 0]
    /\ Painted(job, touched, Passed(job.h, job.w, 2 * R, 2, 2 * k))
EncoderInv == \E n \in Nat, m \in Nat, R \in Nat, k \in Nat : EncoderAt(n, m, R, k)

\* In the pass e of the pair of rows R.
DecoderAt(n, m, R, e, k) ==
    /\ n = Walk!Half(job.h) /\ m = Walk!Half(job.w) /\ R <= n /\ k <= m
    /\ lower = (e = 1) /\ (R = n => e = 0)
    /\ rows = n - R /\ x = 2 * m - 2 * k
    /\ ptr = [y |-> (2 * R + e) * job.yStep + 2 * k, c |-> R * job.cStep + k,
              rgb |-> (2 * R + e) * job.rgbStep + 2 * k]
    /\ Painted(job, touched, Passed(2 * n, job.w, 2 * R + e, 1, 2 * k))
DecoderInv == \E n \in Nat, m \in Nat, R \in Nat, k \in Nat : \E e \in {0, 1} : DecoderAt(n, m, R, e, k)

PipelineInv ==
    \/ way = "run" /\ touched = {} /\ rows \in Nat \ {0}
    \/ way = "done" /\ rows = 0 /\ Painted(job, touched, Box(Walk!Converted.h, Walk!Converted.w))
    \/ /\ way = "error" /\ rows = 0 /\ touched = {}
       /\ job.k = "halide_dec" /\ (job.w % 2 = 1 \/ job.h % 2 = 1)

Ways == way = "run" \/ (way = "done" /\ rows = 0)

WalkKinds ==
    /\ IsCall(job)
    /\ job.k \in Walk!Interleaved => Ways /\ PairInv
    /\ job.k \in Walk!PerPixel => Ways /\ PixelInv
    /\ job.k = "ycbcr_enc" => Ways /\ EncoderInv
    /\ job.k = "ycbcr_dec" => Ways /\ DecoderInv
    /\ job.k \notin Walk!Interleaved \cup Walk!PerPixel \cup Walk!YCbCr => PipelineInv

\* The inductive invariant of the walks.
WalkInv == part = "walk" => WalkKinds

\* Two rows at a time.
InPair(n, m, R, k, d) ==
    /\ n \in Nat /\ m \in Nat /\ R \in Nat /\ k \in Nat /\ d \in Nat
    /\ R + 1 <= n /\ k + d <= m
AtPair(j, R, k, y, c, rgb) ==
    y = (2 * R) * j.yStep + 2 * k /\ c = R * j.cStep + k /\ rgb = (2 * R) * j.rgbStep + 2 * k
PairTouched(j, n, y, c, rgb) ==
    {<<y + i + r * j.yStep, c + i \div 2, rgb + i + r * j.rgbStep>> : i \in 0 .. n - 1, r \in {0, 1}}

LEMMA PairAhead ==
    ASSUME NEW j, IsCall(j), Walk!Halved(j.k), NEW n, NEW m, NEW R, NEW k, NEW d, InPair(n, m, R, k, d),
           NEW y, NEW c, NEW rgb, AtPair(j, R, k, y, c, rgb)
    PROVE  PairTouched(j, 2 * d, y, c, rgb) = {Pix(j, p) : p \in Ahead(2 * n, 2 * m, 2 * R, 2, 2 * k, 2 * d)}
<1>0. y = (2 * R) * j.yStep + 2 * k /\ c = R * j.cStep + k /\ rgb = (2 * R) * j.rgbStep + 2 * k
    BY DEF AtPair
<1>b. n \in Nat /\ m \in Nat /\ R \in Nat /\ k \in Nat /\ d \in Nat /\ R + 1 <= n /\ k + d <= m
    BY DEF InPair
<1>c. R \in Int /\ k \in Int
    BY <1>b
<1> DEFINE T(i, r) == <<y + i + r * j.yStep, c + i \div 2, rgb + i + r * j.rgbStep>>
<1>1. j.yStep \in Int /\ j.cStep \in Int /\ j.rgbStep \in Int
    BY DEF IsCall
<1>2. ASSUME NEW i \in 0 .. 2 * d - 1, NEW r \in {0, 1}
      PROVE  Pix(j, <<2 * R + r, 2 * k + i>>) = T(i, r)
    <2>1. PICK a \in Int : a = 2 * R
        BY <1>c
    <2>2. /\ a * j.yStep \in Int /\ (a + r) * j.yStep = a * j.yStep + r * j.yStep /\ r * j.yStep \in Int
          /\ a * j.rgbStep \in Int /\ (a + r) * j.rgbStep = a * j.rgbStep + r * j.rgbStep /\ r * j.rgbStep \in Int
        <3>1. ASSUME NEW s \in Int
              PROVE  a * s \in Int /\ (a + r) * s = a * s + r * s /\ r * s \in Int
            BY Distributes
        <3>. QED BY <1>1, <3>1
    <2>3. (a + r) \div 2 = R
        BY <1>c, <2>1, Halving
    <2>4. (2 * k + i) \div 2 = k + i \div 2 /\ i \div 2 \in Int
        BY <1>b
    <2>5. R * j.cStep \in Int
        BY <1>1, <1>c, Distributes
    <2>6. (a + r) * j.yStep + (2 * k + i) = y + i + r * j.yStep
        BY <1>0, <1>b, <1>1, <2>1, <2>2
    <2>7. (a + r) * j.rgbStep + (2 * k + i) = rgb + i + r * j.rgbStep
        BY <1>0, <1>b, <1>1, <2>1, <2>2
    <2>8. ((a + r) \div 2) * j.cStep + (2 * k + i) \div 2 = c + i \div 2
        BY <1>0, <1>b, <2>3, <2>4, <2>5
    <2>. QED BY <2>1, <2>6, <2>7, <2>8 DEF Pix
<1>3. ASSUME NEW i \in 0 .. 2 * d - 1, NEW r \in {0, 1}
      PROVE  <<2 * R + r, 2 * k + i>> \in Ahead(2 * n, 2 * m, 2 * R, 2, 2 * k, 2 * d)
    BY <1>b DEF Ahead, Box
<1>4. ASSUME NEW p \in Ahead(2 * n, 2 * m, 2 * R, 2, 2 * k, 2 * d)
      PROVE  \E i \in 0 .. 2 * d - 1, r \in {0, 1} : p = <<2 * R + r, 2 * k + i>>
    <2>1. PICK a \in Nat, b \in Nat : p = <<a, b>>
        BY <1>b DEF Ahead, Box
    <2>2. 2 * R <= a /\ a < 2 * R + 2 /\ 2 * k <= b /\ b < 2 * k + 2 * d
        BY <2>1 DEF Ahead
    <2>3. PICK i \in Int, r \in Int : i = b - 2 * k /\ r = a - 2 * R
        BY <1>b
    <2>4. i \in 0 .. 2 * d - 1 /\ r \in {0, 1} /\ a = 2 * R + r /\ b = 2 * k + i
        BY <1>b, <2>2, <2>3
    <2>. QED BY <2>1, <2>4
<1>. HIDE DEF T
<1>5. {T(i, r) : i \in 0 .. 2 * d - 1, r \in {0, 1}} = {Pix(j, p) : p \in Ahead(2 * n, 2 * m, 2 * R, 2, 2 * k, 2 * d)}
    <2>1. ASSUME NEW i \in 0 .. 2 * d - 1, NEW r \in {0, 1}
          PROVE  T(i, r) \in {Pix(j, p) : p \in Ahead(2 * n, 2 * m, 2 * R, 2, 2 * k, 2 * d)}
        BY <1>2, <1>3
    <2>2. ASSUME NEW p \in Ahead(2 * n, 2 * m, 2 * R, 2, 2 * k, 2 * d)
          PROVE  \E i \in 0 .. 2 * d - 1, r \in {0, 1} : Pix(j, p) = T(i, r)
        BY <1>2, <1>4
    <2>. QED BY <2>1, <2>2
<1>. QED BY <1>5 DEF T, PairTouched

LEMMA PairConverts ==
    ASSUME IsCall(job), job.k \in Walk!Interleaved, PairInv, rows > 0, NEW d \in Nat, d \in {1, 16}, x >= 2 * d,
           Walk!Convert(2 * d)
    PROVE  PairInv'
<1>a. PICK n \in Nat, m \in Nat, R \in Nat, k \in Nat : PairAt(n, m, R, k)
    BY DEF PairInv
<1>0. /\ n = job.h \div 2 /\ m = job.w \div 2 /\ R <= n /\ k <= m
      /\ rows = n - R /\ x = 2 * m - 2 * k
      /\ ptr = [y |-> (2 * R) * job.yStep + 2 * k, c |-> R * job.cStep + k, rgb |-> (2 * R) * job.rgbStep + 2 * k]
      /\ Painted(job, touched, Passed(2 * n, 2 * m, 2 * R, 2, 2 * k))
    BY <1>a DEF PairAt
<1>1. R + 1 <= n /\ k + d <= m /\ k + d \in Nat /\ d \in Nat
    BY <1>0
<1>2. Walk!Halved(job.k)
    BY DEF Walk!Halved, Walk!Interleaved, Walk!PerPixel
<1>3. /\ job' = job /\ rows' = n - R /\ x' = 2 * m - 2 * (k + d)
      /\ touched' = touched \cup PairTouched(job, 2 * d, ptr.y, ptr.c, ptr.rgb)
      /\ ptr' = [y |-> ptr.y + 2 * d, c |-> ptr.c + (2 * d) \div 2, rgb |-> ptr.rgb + 2 * d]
    BY <1>0 DEF Walk!Convert, PairTouched
<1>4. ptr' = [y |-> (2 * R) * job.yStep + 2 * (k + d), c |-> R * job.cStep + (k + d),
              rgb |-> (2 * R) * job.rgbStep + 2 * (k + d)]
    <2>1. ASSUME NEW a \in Int, NEW s \in Int PROVE a * s \in Int
        BY Distributes
    <2>2. (2 * R) * job.yStep \in Int /\ R * job.cStep \in Int /\ (2 * R) * job.rgbStep \in Int
        <3>1. job.yStep \in Int /\ job.cStep \in Int /\ job.rgbStep \in Int /\ 2 * R \in Int /\ R \in Int
            BY DEF IsCall
        <3>. QED BY <2>1, <3>1
    <2>3. (2 * d) \div 2 = d
        OBVIOUS
    <2>4. ptr.y = (2 * R) * job.yStep + 2 * k /\ ptr.c = R * job.cStep + k /\ ptr.rgb = (2 * R) * job.rgbStep + 2 * k
        BY <1>0
    <2>5. ptr.y + 2 * d = (2 * R) * job.yStep + 2 * (k + d)
        BY <2>2, <2>4
    <2>6. ptr.c + d = R * job.cStep + (k + d)
        BY <2>2, <2>4
    <2>7. ptr.rgb + 2 * d = (2 * R) * job.rgbStep + 2 * (k + d)
        BY <2>2, <2>4
    <2>. QED BY <1>3, <2>3, <2>5, <2>6, <2>7
<1>5. Painted(job, touched', Passed(2 * n, 2 * m, 2 * R, 2, 2 * (k + d)))
    <2>1. touched' = touched \cup {Pix(job, p) : p \in Ahead(2 * n, 2 * m, 2 * R, 2, 2 * k, 2 * d)}
        <3>1. AtPair(job, R, k, ptr.y, ptr.c, ptr.rgb)
            BY <1>0 DEF AtPair
        <3>2. PairTouched(job, 2 * d, ptr.y, ptr.c, ptr.rgb)
              = {Pix(job, p) : p \in Ahead(2 * n, 2 * m, 2 * R, 2, 2 * k, 2 * d)}
            <4>1. InPair(n, m, R, k, d)
                BY <1>1 DEF InPair
            <4>. QED BY <1>2, <3>1, <4>1, PairAhead
        <3>. QED BY <1>3, <3>2
    <2>2. Painted(job, touched', Passed(2 * n, 2 * m, 2 * R, 2, 2 * k) \cup Ahead(2 * n, 2 * m, 2 * R, 2, 2 * k, 2 * d))
        <3>1. Painted(job, touched, Passed(2 * n, 2 * m, 2 * R, 2, 2 * k))
            BY <1>0
        <3>2. Painted(job, touched \cup {Pix(job, p) : p \in Ahead(2 * n, 2 * m, 2 * R, 2, 2 * k, 2 * d)},
                      Passed(2 * n, 2 * m, 2 * R, 2, 2 * k) \cup Ahead(2 * n, 2 * m, 2 * R, 2, 2 * k, 2 * d))
            BY <3>1, PaintsMore
        <3>. QED BY <2>1, <3>2
    <2>3. 2 * n \in Nat /\ 2 * m \in Nat /\ 2 * R \in Nat /\ 2 * k \in Nat /\ 2 * d \in Nat /\ 2 * (k + d) = 2 * k + 2 * d
        BY <1>1
    <2>4. Passed(2 * n, 2 * m, 2 * R, 2, 2 * (k + d))
          = Passed(2 * n, 2 * m, 2 * R, 2, 2 * k) \cup Ahead(2 * n, 2 * m, 2 * R, 2, 2 * k, 2 * d)
        <3>1. Counts(2 * n, 2 * m, 2 * R, 2, 2 * k, 2 * d)
            BY <2>3 DEF Counts
        <3>. QED BY <2>3, <3>1, PassedMore
    <2>. QED BY <2>2, <2>4
<1>6. PairAt(n, m, R, k + d)'
    BY <1>0, <1>1, <1>3, <1>4, <1>5 DEF PairAt
<1>. QED BY <1>1, <1>6 DEF PairInv

LEMMA PairEnds ==
    ASSUME IsCall(job), job.k \in Walk!Interleaved, PairInv, rows > 0, x = 0, Walk!NextPair
    PROVE  PairInv'
<1>a. PICK n \in Nat, m \in Nat, R \in Nat, k \in Nat : PairAt(n, m, R, k)
    BY DEF PairInv
<1>0. /\ n = job.h \div 2 /\ m = job.w \div 2 /\ R <= n /\ k <= m
      /\ rows = n - R /\ x = 2 * m - 2 * k
      /\ ptr = [y |-> (2 * R) * job.yStep + 2 * k, c |-> R * job.cStep + k, rgb |-> (2 * R) * job.rgbStep + 2 * k]
      /\ Painted(job, touched, Passed(2 * n, 2 * m, 2 * R, 2, 2 * k))
    BY <1>a DEF PairAt
<1>1. k = m /\ R + 1 \in Nat /\ R + 1 <= n /\ 0 <= m
    BY <1>0
<1>2. Walk!Even(job.w) = 2 * m /\ Walk!Columns(job) = 2 * m
    BY <1>0, Evens DEF IsCall, Walk!Columns
<1>3. /\ job' = job /\ rows' = n - (R + 1) /\ x' = 2 * m - 2 * 0 /\ touched' = touched
      /\ ptr' = [y   |-> ptr.y + (job.yStep - 2 * m) + job.yStep,
                 c   |-> ptr.c + (job.cStep - (2 * m) \div 2),
                 rgb |-> ptr.rgb + (job.rgbStep - 2 * m) + job.rgbStep]
    BY <1>0, <1>2 DEF Walk!NextPair
<1>4. ptr' = [y |-> (2 * (R + 1)) * job.yStep + 2 * 0, c |-> (R + 1) * job.cStep + 0,
              rgb |-> (2 * (R + 1)) * job.rgbStep + 2 * 0]
    <2>0. job.yStep \in Int /\ job.cStep \in Int /\ job.rgbStep \in Int
        BY DEF IsCall
    <2>1. PICK a \in Int : a = 2 * R /\ a + 2 = 2 * (R + 1)
        OBVIOUS
    <2>2. ASSUME NEW s \in Int
          PROVE  /\ (2 * R) * s \in Int /\ (2 * (R + 1)) * s = (2 * R) * s + s + s
                 /\ R * s \in Int /\ (R + 1) * s = R * s + s
        <3>1. a * s \in Int /\ (a + 2) * s = a * s + s + s
            BY Distributes
        <3>2. R * s \in Int /\ (R + 1) * s = R * s + s
            BY Distributes
        <3>. QED BY <2>1, <3>1, <3>2
    <2>3. ptr.y = (2 * R) * job.yStep + 2 * m /\ ptr.c = R * job.cStep + m /\ ptr.rgb = (2 * R) * job.rgbStep + 2 * m
        BY <1>0, <1>1
    <2>4. (2 * R) * job.yStep \in Int /\ (2 * (R + 1)) * job.yStep = (2 * R) * job.yStep + job.yStep + job.yStep
        BY <2>0, <2>2
    <2>5. (2 * R) * job.rgbStep \in Int /\ (2 * (R + 1)) * job.rgbStep = (2 * R) * job.rgbStep + job.rgbStep + job.rgbStep
        BY <2>0, <2>2
    <2>6. R * job.cStep \in Int /\ (R + 1) * job.cStep = R * job.cStep + job.cStep
        BY <2>0, <2>2
    <2>7. (2 * m) \div 2 = m
        OBVIOUS
    <2>8. ptr.y + (job.yStep - 2 * m) + job.yStep = (2 * (R + 1)) * job.yStep + 2 * 0
        BY <2>0, <2>3, <2>4
    <2>9. ptr.c + (job.cStep - m) = (R + 1) * job.cStep + 0
        BY <2>0, <2>3, <2>6
    <2>10. ptr.rgb + (job.rgbStep - 2 * m) + job.rgbStep = (2 * (R + 1)) * job.rgbStep + 2 * 0
        BY <2>0, <2>3, <2>5
    <2>. QED BY <1>3, <2>7, <2>8, <2>9, <2>10
<1>5. Painted(job, touched', Passed(2 * n, 2 * m, 2 * (R + 1), 2, 2 * 0))
    <2>1. 2 * n \in Nat /\ 2 * m \in Nat /\ 2 * R \in Nat /\ 2 * (R + 1) = 2 * R + 2 /\ 2 * 0 = 0
        BY <1>1
    <2>2. Passed(2 * n, 2 * m, 2 * R, 2, 2 * m) = Passed(2 * n, 2 * m, 2 * R + 2, 2, 0)
        <3>1. Counts(2 * n, 2 * m, 2 * R, 2, 2, 2 * m) /\ 2 * m <= 2 * m
            BY <2>1 DEF Counts
        <3>. QED BY <3>1, PassedRows
    <2>. QED BY <1>0, <1>1, <1>3, <2>1, <2>2
<1>6. PairAt(n, m, R + 1, 0)'
    BY <1>0, <1>1, <1>3, <1>4, <1>5 DEF PairAt
<1>. QED BY <1>1, <1>6 DEF PairInv
-----------------------------------------------------------------------------
(* One pixel at a time.                                                     *)

LEMMA PixelMoves ==
    ASSUME IsCall(job), ~Walk!Halved(job.k), PixelInv, rows > 0, Walk!PixelByPixel
    PROVE  PixelInv' /\ job' = job
<1>a. PICK R \in Nat, k \in Nat : PixelAt(R, k)
    BY DEF PixelInv
<1>0. /\ R <= job.h /\ k <= job.w /\ rows = job.h - R /\ x = job.w - k
      /\ ptr = [y |-> R * job.yStep + k, c |-> R * job.cStep + k, rgb |-> R * job.rgbStep + k]
      /\ Painted(job, touched, Passed(job.h, job.w, R, 1, k))
    BY <1>a DEF PixelAt
<1>1. /\ job.yStep \in Int /\ job.cStep \in Int /\ job.rgbStep \in Int
      /\ job.w \in Nat /\ job.h \in Nat /\ R + 1 <= job.h /\ R + 1 \in Nat /\ k + 1 \in Nat
    BY <1>0 DEF IsCall
<1>2. job' = job
    BY DEF Walk!PixelByPixel
<1>3. ASSUME NEW s \in Int
      PROVE  R * s \in Int /\ (R + 1) * s = R * s + s
    BY Distributes
<1>4. /\ R * job.yStep \in Int /\ (R + 1) * job.yStep = R * job.yStep + job.yStep
      /\ R * job.cStep \in Int /\ (R + 1) * job.cStep = R * job.cStep + job.cStep
      /\ R * job.rgbStep \in Int /\ (R + 1) * job.rgbStep = R * job.rgbStep + job.rgbStep
    BY <1>1, <1>3
<1>5. ptr.y = R * job.yStep + k /\ ptr.c = R * job.cStep + k /\ ptr.rgb = R * job.rgbStep + k
    BY <1>0
<1>6. ASSUME x > 0
      PROVE  PixelAt(R, k + 1)'
    <2>1. /\ touched' = touched \cup {<<ptr.y, ptr.c, ptr.rgb>>}
          /\ ptr' = [y |-> ptr.y + 1, c |-> ptr.c + 1, rgb |-> ptr.rgb + 1]
          /\ x' = x - 1 /\ rows' = rows
        BY <1>6 DEF Walk!PixelByPixel
    <2>2. k + 1 <= job.w /\ x' = job.w - (k + 1)
        BY <1>0, <1>1, <1>6, <2>1
    <2>3. ptr' = [y |-> R * job.yStep + (k + 1), c |-> R * job.cStep + (k + 1), rgb |-> R * job.rgbStep + (k + 1)]
        <3>1. /\ (R * job.yStep + k) + 1 = R * job.yStep + (k + 1)
              /\ (R * job.cStep + k) + 1 = R * job.cStep + (k + 1)
              /\ (R * job.rgbStep + k) + 1 = R * job.rgbStep + (k + 1)
            BY <1>4
        <3>. QED BY <1>5, <2>1, <3>1
    <2>4. {Pix(job, p) : p \in Ahead(job.h, job.w, R, 1, k, 1)} = {<<ptr.y, ptr.c, ptr.rgb>>}
        <3>1. Ahead(job.h, job.w, R, 1, k, 1) = {<<R, k>>}
            <4>1. <<R, k>> \in Ahead(job.h, job.w, R, 1, k, 1)
                BY <1>1, <2>2 DEF Ahead, Box
            <4>2. ASSUME NEW p \in Ahead(job.h, job.w, R, 1, k, 1)
                  PROVE  p = <<R, k>>
                <5>1. PICK a \in Nat, b \in Nat : p = <<a, b>>
                    BY <1>1 DEF Ahead, Box
                <5>2. R <= a /\ a < R + 1 /\ k <= b /\ b < k + 1
                    BY <5>1 DEF Ahead
                <5>3. a = R /\ b = k
                    BY <5>2
                <5>. QED BY <5>1, <5>3
            <4>. QED BY <4>1, <4>2
        <3>2. Pix(job, <<R, k>>) = <<ptr.y, ptr.c, ptr.rgb>>
            BY <1>5 DEF Pix
        <3>. QED BY <3>1, <3>2
    <2>5. Painted(job, touched', Passed(job.h, job.w, R, 1, k) \cup Ahead(job.h, job.w, R, 1, k, 1))
        <3>1. Painted(job, touched \cup {Pix(job, p) : p \in Ahead(job.h, job.w, R, 1, k, 1)},
                      Passed(job.h, job.w, R, 1, k) \cup Ahead(job.h, job.w, R, 1, k, 1))
            BY <1>0, PaintsMore
        <3>. QED BY <2>1, <2>4, <3>1
    <2>6. Passed(job.h, job.w, R, 1, k + 1) = Passed(job.h, job.w, R, 1, k) \cup Ahead(job.h, job.w, R, 1, k, 1)
        <3>1. Counts(job.h, job.w, R, 1, k, 1)
            BY <1>1 DEF Counts
        <3>. QED BY <3>1, PassedMore
    <2>7. Painted(job', touched', Passed(job'.h, job'.w, R, 1, k + 1))
        BY <1>2, <2>5, <2>6
    <2>. QED BY <1>0, <1>2, <2>1, <2>2, <2>3, <2>7 DEF PixelAt
<1>7. ASSUME x = 0
      PROVE  PixelAt(R + 1, 0)'
    <2>1. /\ ptr' = [y   |-> ptr.y + (job.yStep - job.w), c |-> ptr.c + (job.cStep - job.w),
                     rgb |-> ptr.rgb + (job.rgbStep - job.w)]
          /\ x' = job.w /\ rows' = rows - 1 /\ touched' = touched
        BY <1>7 DEF Walk!PixelByPixel
    <2>2. k = job.w /\ x' = job.w - 0 /\ rows' = job.h - (R + 1) /\ 0 <= job.w
        <3>1. k = job.w /\ 0 <= job.w /\ job.w = job.w - 0
            BY <1>0, <1>1, <1>7
        <3>2. rows - 1 = job.h - (R + 1)
            BY <1>0, <1>1
        <3>. QED BY <2>1, <3>1, <3>2
    <2>3. ptr' = [y |-> (R + 1) * job.yStep + 0, c |-> (R + 1) * job.cStep + 0, rgb |-> (R + 1) * job.rgbStep + 0]
        <3>1. /\ (R * job.yStep + k) + (job.yStep - job.w) = (R + 1) * job.yStep + 0
              /\ (R * job.cStep + k) + (job.cStep - job.w) = (R + 1) * job.cStep + 0
              /\ (R * job.rgbStep + k) + (job.rgbStep - job.w) = (R + 1) * job.rgbStep + 0
            BY <1>1, <1>4, <2>2
        <3>. QED BY <1>5, <2>1, <3>1
    <2>4. Passed(job.h, job.w, R, 1, k) = Passed(job.h, job.w, R + 1, 1, 0)
        <3>1. Counts(job.h, job.w, R, 1, 1, k) /\ job.w <= k
            BY <1>1, <2>2 DEF Counts
        <3>. QED BY <3>1, PassedRows
    <2>5. Painted(job', touched', Passed(job'.h, job'.w, R + 1, 1, 0))
        BY <1>0, <1>2, <2>1, <2>4
    <2>. QED BY <1>1, <1>2, <2>2, <2>3, <2>5 DEF PixelAt
<1>8. x > 0 \/ x = 0
    BY DEF Walk!PixelByPixel
<1>. QED BY <1>1, <1>2, <1>6, <1>7, <1>8 DEF PixelInv

-----------------------------------------------------------------------------
(* YCbCr 4:2:0.                                                             *)

LEMMA PairOfRows ==
    ASSUME NEW R \in Nat, NEW a \in Nat, 2 * R <= a, a < 2 * R + 2
    PROVE  a \div 2 = R
OBVIOUS

LEMMA EncoderMoves ==
    ASSUME IsCall(job), job.k = "ycbcr_enc", EncoderInv, rows > 0, Walk!Xpp_RGBToYCbCr420_8u_P3AC4R
    PROVE  EncoderInv' /\ job' = job
<1>a. PICK n \in Nat, m \in Nat, R \in Nat, k \in Nat : EncoderAt(n, m, R, k)
    BY DEF EncoderInv
<1>0. /\ n = Walk!Half(job.h) /\ m = Walk!Half(job.w) /\ R <= n /\ k <= m
      /\ rows = n - R /\ x = 2 * m - 2 * k
      /\ ptr = [y |-> 0, c |-> R * job.cStep + k, rgb |-> 0]
      /\ Painted(job, touched, Passed(job.h, job.w, 2 * R, 2, 2 * k))
    BY <1>a DEF EncoderAt
<1>1. /\ job.cStep \in Int /\ job.w \in Nat /\ job.h \in Nat
      /\ R + 1 <= n /\ R + 1 \in Nat /\ k + 1 \in Nat
    BY <1>0 DEF IsCall
<1>2. job' = job
    BY DEF Walk!Xpp_RGBToYCbCr420_8u_P3AC4R
<1>3. R * job.cStep \in Int /\ (R + 1) * job.cStep = R * job.cStep + job.cStep
    BY <1>1, Distributes
<1>4. Walk!Columns(job) = 2 * m /\ Walk!Passes(job) = n
    BY <1>0 DEF Walk!Columns, Walk!Passes, Walk!Interleaved, Walk!YCbCr
<1>5. Walk!Halved(job.k)
    BY DEF Walk!Halved, Walk!PerPixel
<1> DEFINE here(row, col) == {p \in {row, row + 1} \X {col, col + 1} : p[1] < job.h /\ p[2] < job.w}
<1>6. ASSUME x > 0
      PROVE  EncoderAt(n, m, R, k + 1)'
    <2>1. Walk!Columns(job) - x = 2 * k /\ 2 * (Walk!Passes(job) - rows) = 2 * R
        BY <1>0, <1>4
    <2>2. /\ touched' = touched \cup
                {<<p[1] * job.yStep + p[2], ptr.c, p[1] * job.rgbStep + p[2]>> : p \in here(2 * R, 2 * k)}
          /\ ptr' = [ptr EXCEPT !.c = @ + 1]
          /\ x' = x - 2 /\ rows' = rows
        BY <1>6, <2>1 DEF Walk!Xpp_RGBToYCbCr420_8u_P3AC4R
    <2>3. k + 1 <= m /\ x' = 2 * m - 2 * (k + 1)
        <3>0. x = 2 * m - 2 * k /\ k <= m
            BY <1>0
        <3>1. k + 1 <= m /\ x - 2 = 2 * m - 2 * (k + 1)
            BY <1>6, <3>0
        <3>. QED BY <2>2, <3>1
    <2>4. ptr.c = R * job.cStep + k /\ ptr' = [y |-> 0, c |-> R * job.cStep + (k + 1), rgb |-> 0]
        <3>1. (R * job.cStep + k) + 1 = R * job.cStep + (k + 1)
            BY <1>3
        <3>. QED BY <1>0, <2>2, <3>1
    <2>5. here(2 * R, 2 * k) = Ahead(job.h, job.w, 2 * R, 2, 2 * k, 2)
        <3>1. ASSUME NEW p \in here(2 * R, 2 * k)
              PROVE  p \in Ahead(job.h, job.w, 2 * R, 2, 2 * k, 2)
            <4>1. PICK a \in {2 * R, 2 * R + 1}, b \in {2 * k, 2 * k + 1} : p = <<a, b>>
                OBVIOUS
            <4>2. a < job.h /\ b < job.w
                BY <4>1
            <4>3. a \in 0 .. job.h - 1 /\ b \in 0 .. job.w - 1
                BY <1>1, <4>2
            <4>4. 2 * R <= a /\ a < 2 * R + 2 /\ 2 * k <= b /\ b < 2 * k + 2
                OBVIOUS
            <4>. QED BY <4>1, <4>3, <4>4 DEF Ahead, Box
        <3>2. ASSUME NEW p \in Ahead(job.h, job.w, 2 * R, 2, 2 * k, 2)
              PROVE  p \in here(2 * R, 2 * k)
            <4>1. PICK a \in 0 .. job.h - 1, b \in 0 .. job.w - 1 : p = <<a, b>>
                BY DEF Ahead, Box
            <4>2. 2 * R <= a /\ a < 2 * R + 2 /\ 2 * k <= b /\ b < 2 * k + 2
                BY <4>1 DEF Ahead
            <4>3. a \in {2 * R, 2 * R + 1} /\ b \in {2 * k, 2 * k + 1} /\ a < job.h /\ b < job.w
                BY <1>1, <4>2
            <4>. QED BY <4>1, <4>3
        <3>. QED BY <3>1, <3>2
    <2>6. ASSUME NEW p \in Ahead(job.h, job.w, 2 * R, 2, 2 * k, 2)
          PROVE  Pix(job, p) = <<p[1] * job.yStep + p[2], ptr.c, p[1] * job.rgbStep + p[2]>>
        <3>1. PICK a \in Nat, b \in Nat : p = <<a, b>>
            BY <1>1 DEF Ahead, Box
        <3>2. 2 * R <= a /\ a < 2 * R + 2 /\ 2 * k <= b /\ b < 2 * k + 2
            BY <3>1 DEF Ahead
        <3>3. a \div 2 = R /\ b \div 2 = k
            BY <3>2, PairOfRows
        <3>. QED BY <1>5, <2>4, <3>1, <3>3 DEF Pix
    <2>. HIDE DEF here
    <2>7. touched' = touched \cup {Pix(job, p) : p \in Ahead(job.h, job.w, 2 * R, 2, 2 * k, 2)}
        BY <2>2, <2>5, <2>6
    <2>8. Painted(job, touched', Passed(job.h, job.w, 2 * R, 2, 2 * k) \cup Ahead(job.h, job.w, 2 * R, 2, 2 * k, 2))
        <3>1. Painted(job, touched \cup {Pix(job, p) : p \in Ahead(job.h, job.w, 2 * R, 2, 2 * k, 2)},
                      Passed(job.h, job.w, 2 * R, 2, 2 * k) \cup Ahead(job.h, job.w, 2 * R, 2, 2 * k, 2))
            BY <1>0, PaintsMore
        <3>. QED BY <2>7, <3>1
    <2>9. Passed(job.h, job.w, 2 * R, 2, 2 * (k + 1))
          = Passed(job.h, job.w, 2 * R, 2, 2 * k) \cup Ahead(job.h, job.w, 2 * R, 2, 2 * k, 2)
        <3>1. Counts(job.h, job.w, 2 * R, 2, 2 * k, 2) /\ 2 * (k + 1) = 2 * k + 2
            BY <1>1 DEF Counts
        <3>. QED BY <3>1, PassedMore
    <2>10. Painted(job', touched', Passed(job'.h, job'.w, 2 * R, 2, 2 * (k + 1)))
        BY <1>2, <2>8, <2>9
    <2>. QED BY <1>0, <1>2, <2>2, <2>3, <2>4, <2>10 DEF EncoderAt
<1>7. ASSUME ~(x > 0)
      PROVE  EncoderAt(n, m, R + 1, 0)'
    <2>1. /\ ptr' = [ptr EXCEPT !.c = @ + (job.cStep - Walk!Half(job.w))]
          /\ x' = 2 * m /\ rows' = rows - 1 /\ touched' = touched
        BY <1>4, <1>7 DEF Walk!Xpp_RGBToYCbCr420_8u_P3AC4R
    <2>2. k = m /\ 0 <= m /\ 2 * m = 2 * m - 2 * 0
        <3>1. x = 2 * m - 2 * k /\ k <= m
            BY <1>0
        <3>. QED BY <1>7, <3>1
    <2>3. rows - 1 = n - (R + 1)
        BY <1>0
    <2>4. ptr' = [y |-> 0, c |-> (R + 1) * job.cStep + 0, rgb |-> 0]
        <3>1. (R * job.cStep + m) + (job.cStep - m) = (R + 1) * job.cStep + 0
            BY <1>1, <1>3
        <3>. QED BY <1>0, <2>1, <2>2, <3>1
    <2>5. Passed(job.h, job.w, 2 * R, 2, 2 * m) = Passed(job.h, job.w, 2 * R + 2, 2, 0)
        <3>1. Counts(job.h, job.w, 2 * R, 2, 2, 2 * m)
            BY <1>1 DEF Counts
        <3>2. job.w <= 2 * m
            BY <1>0, <1>1, Evens
        <3>. QED BY <3>1, <3>2, PassedRows
    <2>6. 2 * (R + 1) = 2 * R + 2 /\ 2 * 0 = 0
        OBVIOUS
    <2>7. Painted(job', touched', Passed(job'.h, job'.w, 2 * (R + 1), 2, 2 * 0))
        BY <1>0, <1>2, <2>1, <2>2, <2>5, <2>6
    <2>. QED BY <1>0, <1>1, <1>2, <2>1, <2>2, <2>3, <2>4, <2>7 DEF EncoderAt
<1>. QED BY <1>1, <1>2, <1>6, <1>7 DEF EncoderInv

LEMMA DecoderMoves ==
    ASSUME IsCall(job), job.k = "ycbcr_dec", DecoderInv, rows > 0, Walk!Xpp_YCbCr420ToRGB_8u_P3AC4R
    PROVE  DecoderInv' /\ job' = job
<1>a. PICK n \in Nat, m \in Nat, R \in Nat, k \in Nat : \E e \in {0, 1} : DecoderAt(n, m, R, e, k)
    BY DEF DecoderInv
<1>b. PICK e \in {0, 1} : DecoderAt(n, m, R, e, k)
    BY <1>a
<1>0. /\ n = Walk!Half(job.h) /\ m = Walk!Half(job.w) /\ R <= n /\ k <= m
      /\ lower = (e = 1) /\ rows = n - R /\ x = 2 * m - 2 * k
      /\ ptr = [y |-> (2 * R + e) * job.yStep + 2 * k, c |-> R * job.cStep + k,
                rgb |-> (2 * R + e) * job.rgbStep + 2 * k]
      /\ Painted(job, touched, Passed(2 * n, job.w, 2 * R + e, 1, 2 * k))
    BY <1>b DEF DecoderAt
<1>1. /\ job.yStep \in Int /\ job.cStep \in Int /\ job.rgbStep \in Int /\ job.w \in Nat /\ job.h \in Nat
      /\ R + 1 <= n /\ R + 1 \in Nat /\ k + 1 \in Nat
    BY <1>0 DEF IsCall
<1>2. job' = job
    BY DEF Walk!Xpp_YCbCr420ToRGB_8u_P3AC4R
<1>3. R * job.cStep \in Int /\ (R + 1) * job.cStep = R * job.cStep + job.cStep
    BY <1>1, Distributes
<1>c. PICK a \in Nat : a = 2 * R + e
    OBVIOUS
<1>4. /\ a * job.yStep \in Int /\ (a + 1) * job.yStep = a * job.yStep + job.yStep
      /\ a * job.rgbStep \in Int /\ (a + 1) * job.rgbStep = a * job.rgbStep + job.rgbStep
    <2>1. ASSUME NEW s \in Int
          PROVE  a * s \in Int /\ (a + 1) * s = a * s + s
        BY Distributes
    <2>. QED BY <1>1, <2>1
<1>5. ptr.y = a * job.yStep + 2 * k /\ ptr.c = R * job.cStep + k /\ ptr.rgb = a * job.rgbStep + 2 * k
    BY <1>0, <1>c
<1>6. /\ Walk!Columns(job) = 2 * m
      /\ job.w <= 2 * m /\ 2 * m <= job.w + 1 /\ job.w % 2 = job.w - 2 * (job.w \div 2) /\ job.w \div 2 \in Nat
      /\ 2 * (job.w \div 2) <= job.w /\ job.w <= 2 * (job.w \div 2) + 1
    BY <1>0, <1>1, Evens DEF Walk!Columns, Walk!Interleaved, Walk!YCbCr
<1>7. Painted(job, touched, Passed(2 * n, job.w, a, 1, 2 * k))
    BY <1>0, <1>c
<1>8. 2 * n \in Nat /\ a + 1 \in Nat /\ a < 2 * n /\ 2 * k \in Nat /\ 2 * k + 1 \in Nat
    BY <1>1, <1>c
<1>9. ASSUME x > 0
      PROVE  DecoderAt(n, m, R, e, k + 1)'
    <2> DEFINE I == IF Walk!SecondInImage THEN {0, 1} ELSE {0}
    <2>1. /\ touched' = touched \cup {<<ptr.y + i, ptr.c, ptr.rgb + i>> : i \in I}
          /\ ptr' = [y |-> ptr.y + 2, c |-> ptr.c + 1, rgb |-> ptr.rgb + 2]
          /\ x' = x - 2 /\ rows' = rows /\ lower' = lower
        BY <1>9 DEF Walk!Xpp_YCbCr420ToRGB_8u_P3AC4R
    <2>2. k + 1 <= m /\ x - 2 = 2 * m - 2 * (k + 1)
        <3>1. x = 2 * m - 2 * k /\ k <= m
            BY <1>0
        <3>. QED BY <1>9, <3>1
    <2>3. ptr' = [y |-> a * job.yStep + 2 * (k + 1), c |-> R * job.cStep + (k + 1), rgb |-> a * job.rgbStep + 2 * (k + 1)]
        <3>1. /\ (a * job.yStep + 2 * k) + 2 = a * job.yStep + 2 * (k + 1)
              /\ (R * job.cStep + k) + 1 = R * job.cStep + (k + 1)
              /\ (a * job.rgbStep + 2 * k) + 2 = a * job.rgbStep + 2 * (k + 1)
            BY <1>3, <1>4
        <3>. QED BY <1>5, <2>1, <3>1
    <2>4. I \subseteq {0, 1} /\ \A i \in {0, 1} : i \in I <=> 2 * k + i < job.w
        <3>1. 2 * k < job.w /\ ((x = 2 /\ job.w % 2 = 1) <=> ~(2 * k + 1 < job.w))
            <4>1. PICK w \in Nat, q \in Nat :
                    /\ w = job.w /\ job.w % 2 = w - 2 * q /\ 2 * q <= w /\ w <= 2 * q + 1
                    /\ w <= 2 * m /\ 2 * m <= w + 1
                BY <1>1, <1>6
            <4>2. 2 * k < w /\ (k + 1 = m /\ w - 2 * q = 1 <=> ~(2 * k + 1 < w))
                BY <2>2, <4>1
            <4>3. x = 2 <=> k + 1 = m
                BY <1>0
            <4>. QED BY <4>1, <4>2, <4>3
        <3>2. 1 \in I <=> 2 * k + 1 < job.w
            BY <3>1 DEF Walk!SecondInImage
        <3>3. 2 * k + 0 = 2 * k /\ 0 \in I /\ I \subseteq {0, 1}
            OBVIOUS
        <3>. QED BY <3>1, <3>2, <3>3
    <2>. HIDE DEF I
    <2>5. ASSUME NEW i \in I
          PROVE  /\ <<a, 2 * k + i>> \in Ahead(2 * n, job.w, a, 1, 2 * k, 2)
                 /\ Pix(job, <<a, 2 * k + i>>) = <<ptr.y + i, ptr.c, ptr.rgb + i>>
        <3>1. i \in {0, 1} /\ 2 * k + i < job.w
            BY <2>4
        <3>2. a \in 0 .. 2 * n - 1 /\ 2 * k + i \in 0 .. job.w - 1
            BY <1>1, <1>8, <3>1
        <3>3. <<a, 2 * k + i>> \in Box(2 * n, job.w)
            BY <3>2 DEF Box
        <3>4. a <= a /\ a < a + 1 /\ 2 * k <= 2 * k + i /\ 2 * k + i < 2 * k + 2
            BY <3>1
        <3>5. (2 * k + i) \div 2 = k /\ a \div 2 = R
            <4>1. k \in Int /\ R \in Int
                OBVIOUS
            <4>. QED BY <1>c, <3>1, <4>1, Halving
        <3>6. a * job.yStep + (2 * k + i) = (a * job.yStep + 2 * k) + i
            BY <1>4, <3>1
        <3>7. a * job.rgbStep + (2 * k + i) = (a * job.rgbStep + 2 * k) + i
            BY <1>4, <3>1
        <3>8. Walk!Halved(job.k)
            BY DEF Walk!Halved, Walk!PerPixel
        <3>9. <<a, 2 * k + i>> \in Ahead(2 * n, job.w, a, 1, 2 * k, 2)
            BY <3>3, <3>4 DEF Ahead
        <3>. QED BY <1>5, <3>5, <3>6, <3>7, <3>8, <3>9 DEF Pix
    <2>6. ASSUME NEW p \in Ahead(2 * n, job.w, a, 1, 2 * k, 2)
          PROVE  \E i \in I : p = <<a, 2 * k + i>>
        <3>1. PICK u \in Nat, v \in Nat : p = <<u, v>> /\ v < job.w
            BY <1>1, <1>8 DEF Ahead, Box
        <3>2. a <= u /\ u < a + 1 /\ 2 * k <= v /\ v < 2 * k + 2
            BY <3>1 DEF Ahead
        <3>3. PICK i \in Int : i = v - 2 * k
            OBVIOUS
        <3>4. u = a /\ v = 2 * k + i /\ i \in {0, 1}
            BY <3>2, <3>3
        <3>5. i \in I
            BY <2>4, <3>1, <3>4
        <3>. QED BY <3>1, <3>4, <3>5
    <2>7. touched' = touched \cup {Pix(job, p) : p \in Ahead(2 * n, job.w, a, 1, 2 * k, 2)}
        <3>1. {<<ptr.y + i, ptr.c, ptr.rgb + i>> : i \in I}
              \subseteq {Pix(job, p) : p \in Ahead(2 * n, job.w, a, 1, 2 * k, 2)}
            BY <2>5
        <3>2. {Pix(job, p) : p \in Ahead(2 * n, job.w, a, 1, 2 * k, 2)}
              \subseteq {<<ptr.y + i, ptr.c, ptr.rgb + i>> : i \in I}
            BY <2>5, <2>6
        <3>. QED BY <2>1, <3>1, <3>2
    <2>8. Painted(job, touched', Passed(2 * n, job.w, a, 1, 2 * k) \cup Ahead(2 * n, job.w, a, 1, 2 * k, 2))
        <3>1. Painted(job, touched \cup {Pix(job, p) : p \in Ahead(2 * n, job.w, a, 1, 2 * k, 2)},
                      Passed(2 * n, job.w, a, 1, 2 * k) \cup Ahead(2 * n, job.w, a, 1, 2 * k, 2))
            BY <1>7, PaintsMore
        <3>. QED BY <2>7, <3>1
    <2>9. Passed(2 * n, job.w, a, 1, 2 * (k + 1))
          = Passed(2 * n, job.w, a, 1, 2 * k) \cup Ahead(2 * n, job.w, a, 1, 2 * k, 2)
        <3>1. Counts(2 * n, job.w, a, 1, 2 * k, 2) /\ 2 * (k + 1) = 2 * k + 2
            BY <1>1, <1>8 DEF Counts
        <3>. QED BY <3>1, PassedMore
    <2>10. Painted(job', touched', Passed(2 * n, job'.w, 2 * R + e, 1, 2 * (k + 1)))
        BY <1>2, <1>c, <2>8, <2>9
    <2>11. ptr' = [y |-> (2 * R + e) * job'.yStep + 2 * (k + 1), c |-> R * job'.cStep + (k + 1),
                   rgb |-> (2 * R + e) * job'.rgbStep + 2 * (k + 1)]
        BY <1>2, <1>c, <2>3
    <2>12. R = n => e = 0
        BY <1>1
    <2>. QED BY <1>0, <1>2, <2>1, <2>2, <2>10, <2>11, <2>12 DEF DecoderAt
<1>10. ASSUME ~(x > 0)
       PROVE  DecoderAt(n, m, R + e, 1 - e, 0)'
    <2>1. /\ ptr' = [y   |-> ptr.y + (job.yStep - 2 * m),
                     c   |-> IF lower THEN ptr.c + (job.cStep - m) ELSE ptr.c - m,
                     rgb |-> ptr.rgb + (job.rgbStep - 2 * m)]
          /\ x' = 2 * m /\ lower' = ~lower /\ touched' = touched
          /\ rows' = IF lower THEN rows - 1 ELSE rows
        BY <1>0, <1>6, <1>10 DEF Walk!Xpp_YCbCr420ToRGB_8u_P3AC4R
    <2>2. k = m /\ 0 <= m /\ 2 * m = 2 * m - 2 * 0
        <3>1. x = 2 * m - 2 * k /\ k <= m
            BY <1>0
        <3>. QED BY <1>10, <3>1
    <2>c. PICK S \in Nat, f \in {0, 1} : S = R + e /\ f = 1 - e
        OBVIOUS
    <2>3. /\ S = R + e /\ f = 1 - e /\ 2 * S + f = a + 1 /\ S <= n /\ (S = n => f = 0)
          /\ (e = 1 => S = R + 1 /\ f = 0) /\ (e = 0 => S = R /\ f = 1)
        BY <1>1, <1>c, <2>c
    <2>4. lower' = (f = 1)
        <3>1. CASE e = 1
            <4>1. f # 1
                BY <2>3, <3>1
            <4>. QED BY <1>0, <2>1, <3>1, <4>1
        <3>2. CASE e = 0
            <4>1. f = 1 /\ e # 1
                BY <2>3, <3>2
            <4>. QED BY <1>0, <2>1, <4>1
        <3>. QED BY <3>1, <3>2
    <2>5. rows' = n - S
        <3>1. rows - 1 = n - (R + 1) /\ rows = n - R
            BY <1>0
        <3>2. CASE e = 1
            BY <1>0, <2>1, <2>3, <3>1, <3>2
        <3>3. CASE e = 0
            <4>1. S = R /\ e # 1
                BY <2>3, <3>3
            <4>. QED BY <1>0, <2>1, <3>1, <4>1
        <3>. QED BY <3>2, <3>3
    <2>6. ptr' = [y |-> (a + 1) * job.yStep + 0, c |-> S * job.cStep + 0, rgb |-> (a + 1) * job.rgbStep + 0]
        <3>1. /\ (a * job.yStep + 2 * k) + (job.yStep - 2 * m) = (a + 1) * job.yStep + 0
              /\ (a * job.rgbStep + 2 * k) + (job.rgbStep - 2 * m) = (a + 1) * job.rgbStep + 0
            BY <1>1, <1>4, <2>2
        <3>2. CASE e = 1
            <4>1. S = R + 1 /\ lower
                BY <1>0, <2>3, <3>2
            <4>2. (R * job.cStep + k) + (job.cStep - m) = (R + 1) * job.cStep + 0
                BY <1>1, <1>3, <2>2
            <4>. QED BY <1>5, <2>1, <3>1, <4>1, <4>2
        <3>3. CASE e = 0
            <4>0. S = R /\ e # 1
                BY <2>3, <3>3
            <4>1. S = R /\ ~lower
                BY <1>0, <4>0
            <4>2. (R * job.cStep + k) - m = R * job.cStep + 0
                BY <1>3, <2>2
            <4>. QED BY <1>5, <2>1, <3>1, <4>1, <4>2
        <3>. QED BY <3>2, <3>3
    <2>7. Passed(2 * n, job.w, a, 1, 2 * k) = Passed(2 * n, job.w, a + 1, 1, 0)
        <3>1. Counts(2 * n, job.w, a, 1, 1, 2 * k) /\ job.w <= 2 * k
            BY <1>1, <1>6, <1>8, <2>2 DEF Counts
        <3>. QED BY <3>1, PassedRows
    <2>8. Painted(job', touched', Passed(2 * n, job'.w, 2 * S + f, 1, 2 * 0))
        BY <1>2, <1>7, <2>1, <2>3, <2>7
    <2>9. ptr' = [y |-> (2 * S + f) * job'.yStep + 2 * 0, c |-> S * job'.cStep + 0,
                  rgb |-> (2 * S + f) * job'.rgbStep + 2 * 0]
        BY <1>2, <2>3, <2>6
    <2>10. DecoderAt(n, m, S, f, 0)'
        BY <1>0, <1>2, <2>1, <2>2, <2>3, <2>4, <2>5, <2>8, <2>9 DEF DecoderAt
    <2>. QED BY <2>3, <2>10
<1>11. R + e \in Nat /\ 1 - e \in {0, 1} /\ 0 \in Nat
    OBVIOUS
<1>. QED BY <1>1, <1>2, <1>9, <1>10, <1>11 DEF DecoderInv

-----------------------------------------------------------------------------
(* The Halide pipelines.                                                    *)

PipelineStep ==
    \/ Walk!Xpp_RGBToYCoCgR_16s_P3AC4R_halide \/ Walk!Xpp_YCoCgRToRGB_16s_P3AC4R_halide
    \/ Walk!Xpp_RGBToYCoCgR420_8u_P3AC4R_halide \/ Walk!Xpp_YCoCgR420ToRGB_8u_P3AC4R_halide

PipelineTouched(h, w) == {Pix(job, <<v, u>>) : u \in 0 .. w - 1, v \in 0 .. h - 1}

LEMMA PipelinePaints ==
    ASSUME NEW h, NEW w
    PROVE  Painted(job, PipelineTouched(h, w), Box(h, w))
<1>1. ASSUME NEW p \in Box(h, w)
      PROVE  Pix(job, p) \in PipelineTouched(h, w)
    BY DEF Box, PipelineTouched
<1>2. ASSUME NEW u \in 0 .. w - 1, NEW v \in 0 .. h - 1
      PROVE  <<v, u>> \in Box(h, w)
    BY DEF Box
<1>3. ASSUME NEW u \in 0 .. w - 1, NEW v \in 0 .. h - 1
      PROVE  Pix(job, <<v, u>>) \in {Pix(job, p) : p \in Box(h, w)}
    BY <1>2
<1>4. PipelineTouched(h, w) \subseteq {Pix(job, p) : p \in Box(h, w)}
    <2> SUFFICES ASSUME NEW t \in PipelineTouched(h, w)
                 PROVE  t \in {Pix(job, p) : p \in Box(h, w)}
        OBVIOUS
    <2>1. PICK u \in 0 .. w - 1, v \in 0 .. h - 1 : t = Pix(job, <<v, u>>)
        BY DEF PipelineTouched
    <2>. QED BY <1>3, <2>1
<1>5. {Pix(job, p) : p \in Box(h, w)} \subseteq PipelineTouched(h, w)
    BY <1>1
<1>. QED BY <1>4, <1>5 DEF Painted

LEMMA PipelineRuns ==
    ASSUME IsCall(job), PipelineStep, PipelineInv
    PROVE  PipelineInv' /\ job' = job
<1>0. job' = job
    BY DEF PipelineStep, Walk!Xpp_RGBToYCoCgR_16s_P3AC4R_halide, Walk!Xpp_YCoCgRToRGB_16s_P3AC4R_halide,
           Walk!Xpp_RGBToYCoCgR420_8u_P3AC4R_halide, Walk!Xpp_YCoCgR420ToRGB_8u_P3AC4R_halide, Walk!Pipeline
<1>1. /\ rows' = 0 /\ touched = {}
      /\ IF Walk!Required(job) THEN way' = "done" ELSE way' = "error" /\ touched' = touched
    BY DEF PipelineStep, Walk!Xpp_RGBToYCoCgR_16s_P3AC4R_halide, Walk!Xpp_YCoCgRToRGB_16s_P3AC4R_halide,
           Walk!Xpp_RGBToYCoCgR420_8u_P3AC4R_halide, Walk!Xpp_YCoCgR420ToRGB_8u_P3AC4R_halide, Walk!Pipeline,
           PipelineInv, Walk!Running
<1>2. CASE ~Walk!Required(job)
    <2>1. job.w \in Nat /\ job.h \in Nat
        BY DEF IsCall
    <2>2. /\ job.k = "halide_enc" => Walk!Covers(Walk!Extent(job.w, job.h), 2 * (job.w \div 2), 2 * (job.h \div 2))
          /\ job.w % 2 = 0 => Walk!Half(job.w) = job.w \div 2
          /\ job.h % 2 = 0 => Walk!Half(job.h) = job.h \div 2
          /\ job.w % 2 \in {0, 1} /\ job.h % 2 \in {0, 1}
        BY <2>1 DEF Walk!Covers, Walk!Extent, Walk!Half
    <2>3. job.k = "halide_enc" \/ job.k = "halide_dec"
        BY <1>2 DEF Walk!Required
    <2>4. Walk!Halved(job.k)
        BY <2>3 DEF Walk!Halved, Walk!PerPixel
    <2>5. Walk!ChromaBuffer(job) = Walk!Extent(job.w \div 2, job.h \div 2)
        BY <2>4 DEF Walk!ChromaBuffer
    <2>6. job.k = "halide_dec"
        <3> SUFFICES ASSUME job.k = "halide_enc" PROVE FALSE
            BY <2>3
        <3>1. Walk!ChromaBuffer(job).w = job.w \div 2 /\ Walk!ChromaBuffer(job).h = job.h \div 2
            BY <2>5 DEF Walk!Extent
        <3>. QED BY <1>2, <2>2, <3>1 DEF Walk!Required
    <2>7. job.w % 2 = 1 \/ job.h % 2 = 1
        <3> SUFFICES ASSUME job.w % 2 = 0, job.h % 2 = 0 PROVE FALSE
            BY <2>2
        <3>1. Walk!Covers(Walk!Extent(job.w \div 2, job.h \div 2), Walk!Half(job.w), Walk!Half(job.h))
            BY <2>1, <2>2 DEF Walk!Covers, Walk!Extent
        <3>. QED BY <1>2, <2>5, <2>6, <3>1 DEF Walk!Required
    <2>. QED BY <1>0, <1>1, <1>2, <2>6, <2>7 DEF PipelineInv
<1>3. CASE Walk!Required(job)
    <2> DEFINE C == Walk!Converted
    <2>1. touched' = PipelineTouched(C.h, C.w)
        <3>1. CASE Walk!Xpp_RGBToYCoCgR_16s_P3AC4R_halide
            <4>1. job.k = "halide16_enc" /\ ~Walk!Halved(job.k) /\ C.h = job.h /\ C.w = job.w
                BY <3>1 DEF Walk!Xpp_RGBToYCoCgR_16s_P3AC4R_halide, Walk!Pipeline, Walk!Running, Walk!Halved,
                            Walk!PerPixel, Walk!Converted, Walk!Interleaved
            <4>. QED BY <1>3, <3>1, <4>1 DEF Walk!Xpp_RGBToYCoCgR_16s_P3AC4R_halide, Walk!Pipeline, Walk!Whole,
                                             PipelineTouched, Pix
        <3>2. CASE Walk!Xpp_YCoCgRToRGB_16s_P3AC4R_halide
            <4>1. job.k = "halide16_dec" /\ ~Walk!Halved(job.k) /\ C.h = job.h /\ C.w = job.w
                BY <3>2 DEF Walk!Xpp_YCoCgRToRGB_16s_P3AC4R_halide, Walk!Pipeline, Walk!Running, Walk!Halved,
                            Walk!PerPixel, Walk!Converted, Walk!Interleaved
            <4>. QED BY <1>3, <3>2, <4>1 DEF Walk!Xpp_YCoCgRToRGB_16s_P3AC4R_halide, Walk!Pipeline, Walk!Whole,
                                             PipelineTouched, Pix
        <3>3. CASE Walk!Xpp_RGBToYCoCgR420_8u_P3AC4R_halide
            <4>1. job.k = "halide_enc" /\ Walk!Halved(job.k) /\ C.h = Walk!Even(job.h) /\ C.w = Walk!Even(job.w)
                BY <3>3 DEF Walk!Xpp_RGBToYCoCgR420_8u_P3AC4R_halide, Walk!Pipeline, Walk!Running, Walk!Halved,
                            Walk!PerPixel, Walk!Converted
            <4>. QED BY <1>3, <3>3, <4>1 DEF Walk!Xpp_RGBToYCoCgR420_8u_P3AC4R_halide, Walk!Pipeline, Walk!Halves,
                                             PipelineTouched, Pix
        <3>4. CASE Walk!Xpp_YCoCgR420ToRGB_8u_P3AC4R_halide
            <4>1. job.k = "halide_dec" /\ Walk!Halved(job.k) /\ C.h = job.h /\ C.w = job.w
                BY <3>4 DEF Walk!Xpp_YCoCgR420ToRGB_8u_P3AC4R_halide, Walk!Pipeline, Walk!Running, Walk!Halved,
                            Walk!PerPixel, Walk!Converted, Walk!Interleaved
            <4>. QED BY <1>3, <3>4, <4>1 DEF Walk!Xpp_YCoCgR420ToRGB_8u_P3AC4R_halide, Walk!Pipeline, Walk!Halves,
                                             PipelineTouched, Pix
        <3>. QED BY <3>1, <3>2, <3>3, <3>4 DEF PipelineStep
    <2>2. Walk!Converted' = Walk!Converted
        BY <1>0 DEF Walk!Converted
    <2>3. Painted(job', touched', Box(C.h, C.w))
        BY <1>0, <2>1, PipelinePaints
    <2>4. Box(Walk!Converted.h, Walk!Converted.w)' = Box(C.h, C.w)
        BY <2>2 DEF Box
    <2>5. Painted(job, touched, Box(Walk!Converted.h, Walk!Converted.w))'
        BY <2>3, <2>4 DEF Painted, Pix
    <2>6. way' = "done" /\ rows' = 0
        BY <1>1, <1>3
    <2>. QED BY <1>0, <2>5, <2>6 DEF PipelineInv
<1>. QED BY <1>0, <1>2, <1>3

-----------------------------------------------------------------------------
(* The steps of all the kernels.                                            *)

LEMMA PairRoom ==
    ASSUME PairInv
    PROVE  x \in Nat /\ (x > 0 => x >= 2 * 1)
<1>1. PICK n \in Nat, m \in Nat, R \in Nat, k \in Nat : PairAt(n, m, R, k)
    BY DEF PairInv
<1>2. x = 2 * m - 2 * k /\ k <= m
    BY <1>1 DEF PairAt
<1>. QED BY <1>2

LEMMA PairSteps ==
    ASSUME WalkKinds, job.k \in Walk!Interleaved, way = "run", rows > 0, Walk!Scalar \/ Walk!Vector
    PROVE  WalkKinds'
<1>0. IsCall(job) /\ PairInv
    BY DEF WalkKinds
<1>1. x \in Nat /\ (x > 0 => x >= 2 * 1)
    BY <1>0, PairRoom
<1>2. job' = job /\ way' = way
    <2>1. CASE Walk!Convert(2)
        BY <2>1 DEF Walk!Convert
    <2>2. CASE Walk!Convert(32)
        BY <2>2 DEF Walk!Convert
    <2>3. CASE Walk!NextPair
        BY <2>3 DEF Walk!NextPair
    <2>. QED BY <2>1, <2>2, <2>3, Zenon DEF Walk!Scalar, Walk!Vector
<1>3. PairInv'
    <2>1. CASE x >= 32 /\ Walk!Convert(32)
        <3>1. 16 \in Nat /\ 16 \in {1, 16} /\ 2 * 16 = 32
            OBVIOUS
        <3>2. x >= 2 * 16 /\ Walk!Convert(2 * 16)
            BY <2>1, <3>1
        <3>. QED BY <1>0, <3>1, <3>2, PairConverts
    <2>2. CASE x > 0 /\ Walk!Convert(2)
        <3>1. 1 \in Nat /\ 1 \in {1, 16} /\ 2 * 1 = 2
            OBVIOUS
        <3>2. x >= 2 * 1 /\ Walk!Convert(2 * 1)
            BY <1>1, <2>2, <3>1
        <3>. QED BY <1>0, <3>1, <3>2, PairConverts
    <2>3. CASE x = 0 /\ Walk!NextPair
        BY <1>0, <2>3, PairEnds
    <2>. QED BY <2>1, <2>2, <2>3 DEF Walk!Scalar, Walk!Vector
<1>4. job.k \notin Walk!PerPixel /\ job.k # "ycbcr_enc" /\ job.k # "ycbcr_dec"
    BY DEF Walk!Interleaved, Walk!PerPixel
<1>5. Ways'
    BY <1>2 DEF Ways
<1>. QED BY <1>0, <1>2, <1>3, <1>4, <1>5 DEF WalkKinds, IsCall, Walk!Interleaved, Walk!PerPixel, Walk!YCbCr

LEMMA PixelSteps ==
    ASSUME WalkKinds, job.k \in Walk!PerPixel, way = "run", rows > 0, Walk!PixelByPixel
    PROVE  WalkKinds'
<1>0. IsCall(job) /\ PixelInv
    BY DEF WalkKinds
<1>1. ~Walk!Halved(job.k)
    BY DEF Walk!Halved
<1>2. PixelInv' /\ job' = job
    BY <1>0, <1>1, PixelMoves
<1>3. Ways'
    BY DEF Ways, Walk!PixelByPixel
<1>4. job.k \notin Walk!Interleaved /\ job.k # "ycbcr_enc" /\ job.k # "ycbcr_dec"
    BY DEF Walk!Interleaved, Walk!PerPixel
<1>. QED BY <1>0, <1>2, <1>3, <1>4 DEF WalkKinds, IsCall, Walk!Interleaved, Walk!PerPixel, Walk!YCbCr

LEMMA YCbCrSteps ==
    ASSUME WalkKinds, Walk!Xpp_RGBToYCbCr420_8u_P3AC4R \/ Walk!Xpp_YCbCr420ToRGB_8u_P3AC4R
    PROVE  WalkKinds'
<1>1. CASE Walk!Xpp_RGBToYCbCr420_8u_P3AC4R
    <2>1. job.k = "ycbcr_enc" /\ rows > 0 /\ Ways'
        BY <1>1 DEF Walk!Xpp_RGBToYCbCr420_8u_P3AC4R, Walk!Running, Ways
    <2>2. IsCall(job) /\ EncoderInv
        BY <2>1 DEF WalkKinds
    <2>3. EncoderInv' /\ job' = job
        BY <1>1, <2>1, <2>2, EncoderMoves
    <2>. QED BY <2>1, <2>2, <2>3 DEF WalkKinds, IsCall, Walk!Interleaved, Walk!PerPixel, Walk!YCbCr
<1>2. CASE Walk!Xpp_YCbCr420ToRGB_8u_P3AC4R
    <2>1. job.k = "ycbcr_dec" /\ rows > 0 /\ Ways'
        BY <1>2 DEF Walk!Xpp_YCbCr420ToRGB_8u_P3AC4R, Walk!Running, Ways
    <2>2. IsCall(job) /\ DecoderInv
        BY <2>1 DEF WalkKinds
    <2>3. DecoderInv' /\ job' = job
        BY <1>2, <2>1, <2>2, DecoderMoves
    <2>. QED BY <2>1, <2>2, <2>3 DEF WalkKinds, IsCall, Walk!Interleaved, Walk!PerPixel, Walk!YCbCr
<1>. QED BY <1>1, <1>2

Others == Walk!Interleaved \cup Walk!PerPixel \cup Walk!YCbCr

LEMMA PipelineSteps ==
    ASSUME WalkKinds, PipelineStep
    PROVE  WalkKinds'
<1>1. job.k \notin Others
    BY DEF PipelineStep, Walk!Xpp_RGBToYCoCgR_16s_P3AC4R_halide, Walk!Xpp_YCoCgRToRGB_16s_P3AC4R_halide,
           Walk!Xpp_RGBToYCoCgR420_8u_P3AC4R_halide, Walk!Xpp_YCoCgR420ToRGB_8u_P3AC4R_halide, Walk!Pipeline,
           Walk!Running, Others, Walk!Interleaved, Walk!PerPixel, Walk!YCbCr
<1>2. IsCall(job) /\ PipelineInv
    BY <1>1 DEF WalkKinds, Others
<1>3. PipelineInv' /\ job' = job
    BY <1>2, PipelineRuns
<1>4. job.k \notin Walk!Interleaved /\ job.k \notin Walk!PerPixel /\ job.k # "ycbcr_enc" /\ job.k # "ycbcr_dec"
    BY <1>1 DEF Others, Walk!YCbCr
<1>. QED BY <1>2, <1>3, <1>4 DEF WalkKinds, IsCall, Walk!Interleaved, Walk!PerPixel, Walk!YCbCr

LEMMA StillThere ==
    ASSUME job' = job, ptr' = ptr, x' = x, rows' = rows, lower' = lower, touched' = touched
    PROVE  /\ PairInv => PairInv'
           /\ PixelInv => PixelInv'
           /\ EncoderInv => EncoderInv'
           /\ DecoderInv => DecoderInv'
<1>1. PairInv => PairInv'
    <2>1. ASSUME NEW n, NEW m, NEW R, NEW k, PairAt(n, m, R, k)
          PROVE  PairAt(n, m, R, k)'
        BY <2>1 DEF PairAt
    <2>. QED BY <2>1 DEF PairInv
<1>2. PixelInv => PixelInv'
    <2>1. ASSUME NEW R, NEW k, PixelAt(R, k)
          PROVE  PixelAt(R, k)'
        BY <2>1 DEF PixelAt
    <2>. QED BY <2>1 DEF PixelInv
<1>3. EncoderInv => EncoderInv'
    <2>1. ASSUME NEW n, NEW m, NEW R, NEW k, EncoderAt(n, m, R, k)
          PROVE  EncoderAt(n, m, R, k)'
        BY <2>1 DEF EncoderAt
    <2>. QED BY <2>1 DEF EncoderInv
<1>4. DecoderInv => DecoderInv'
    <2>1. ASSUME NEW n, NEW m, NEW R, NEW e, NEW k, DecoderAt(n, m, R, e, k)
          PROVE  DecoderAt(n, m, R, e, k)'
        BY <2>1 DEF DecoderAt
    <2>. QED BY <2>1 DEF DecoderInv
<1>. QED BY <1>1, <1>2, <1>3, <1>4

LEMMA ReturnSteps ==
    ASSUME WalkKinds, Walk!Return
    PROVE  WalkKinds'
<1>1. /\ rows = 0 /\ way = "run" /\ way' = "done"
      /\ job' = job /\ ptr' = ptr /\ x' = x /\ rows' = rows /\ lower' = lower /\ touched' = touched
    BY DEF Walk!Return
<1>2. Ways'
    BY <1>1 DEF Ways
<1>3. /\ PairInv => PairInv'
      /\ PixelInv => PixelInv'
      /\ EncoderInv => EncoderInv'
      /\ DecoderInv => DecoderInv'
    BY <1>1, StillThere
<1>4. ~PipelineInv
    BY <1>1 DEF PipelineInv
<1>. QED BY <1>1, <1>2, <1>3, <1>4 DEF WalkKinds, IsCall, Walk!Interleaved, Walk!PerPixel, Walk!YCbCr

LEMMA WalkSteps ==
    ASSUME WalkKinds, Walk!Next
    PROVE  WalkKinds'
<1>1. CASE \/ Walk!Xpp_RGBToYCoCgR420_8u_P3AC4R_generic \/ Walk!Xpp_YCoCgR420ToRGB_8u_P3AC4R_generic
           \/ Walk!Xpp_RGBToYCoCgR420_8u_P3AC4R_sse2 \/ Walk!Xpp_YCoCgR420ToRGB_8u_P3AC4R_sse2
           \/ Walk!Xpp_RGBToYCoCgR420_8u_P3AC4R_neon \/ Walk!Xpp_YCoCgR420ToRGB_8u_P3AC4R_neon
    <2>1. job.k \in Walk!Interleaved /\ way = "run" /\ rows > 0 /\ (Walk!Scalar \/ Walk!Vector)
        BY <1>1 DEF Walk!Xpp_RGBToYCoCgR420_8u_P3AC4R_generic, Walk!Xpp_YCoCgR420ToRGB_8u_P3AC4R_generic,
                    Walk!Xpp_RGBToYCoCgR420_8u_P3AC4R_sse2, Walk!Xpp_YCoCgR420ToRGB_8u_P3AC4R_sse2,
                    Walk!Xpp_RGBToYCoCgR420_8u_P3AC4R_neon, Walk!Xpp_YCoCgR420ToRGB_8u_P3AC4R_neon,
                    Walk!Running, Walk!Interleaved
    <2>. QED BY <2>1, PairSteps
<1>2. CASE \/ Walk!Xpp_RGBToYCoCgR_16s_P3AC4R_generic \/ Walk!Xpp_YCoCgRToRGB_16s_P3AC4R_generic
           \/ Walk!Xpp_RGBToA710_16s_P3AC4R \/ Walk!Xpp_A710ToRGB_16s_P3AC4R
           \/ Walk!Xpp_MultiplyAlpha \/ Walk!Xpp_UnmultiplyAlpha
    <2>1. job.k \in Walk!PerPixel /\ way = "run" /\ rows > 0 /\ Walk!PixelByPixel
        BY <1>2 DEF Walk!Xpp_RGBToYCoCgR_16s_P3AC4R_generic, Walk!Xpp_YCoCgRToRGB_16s_P3AC4R_generic,
                    Walk!Xpp_RGBToA710_16s_P3AC4R, Walk!Xpp_A710ToRGB_16s_P3AC4R,
                    Walk!Xpp_MultiplyAlpha, Walk!Xpp_UnmultiplyAlpha, Walk!Running, Walk!PerPixel
    <2>. QED BY <2>1, PixelSteps
<1>. QED BY <1>1, <1>2, YCbCrSteps, PipelineSteps, ReturnSteps DEF Walk!Next, PipelineStep

LEMMA WalkInit == Init => WalkInv
<1> SUFFICES ASSUME Walk!Init
             PROVE  WalkKinds
    BY DEF Init, WalkInv
<1>1. /\ job \in Walk!Jobs /\ way = "run" /\ ptr = [y |-> 0, c |-> 0, rgb |-> 0]
      /\ x = Walk!Columns(job) /\ rows = Walk!Passes(job) /\ lower = FALSE /\ touched = {}
    BY DEF Walk!Init
<1>2. IsCall(job)
    <2>1. PICK k \in WalkKernels, w \in WalkWidths, h \in WalkHeights, s \in Slack, t \in Slack :
            job = [k |-> k, w |-> w, h |-> h, yStep |-> w + s, rgbStep |-> w + t,
                   cStep |-> IF Walk!Halved(k) THEN Walk!Half(w) + s ELSE w + s]
        BY <1>1 DEF Walk!Jobs
    <2>2. w \in Nat \ {0} /\ h \in Nat \ {0} /\ s \in Nat /\ t \in Nat
        BY <2>1, ParametersAreSound DEF Walk!WalkAssumption
    <2>3. Walk!Half(w) \in Nat
        BY <2>2, Evens
    <2>4. w + s \in Nat /\ w + t \in Nat /\ Walk!Half(w) + s \in Nat
        BY <2>2, <2>3
    <2>. QED BY <2>1, <2>2, <2>4 DEF IsCall
<1>3. job.w \in Nat /\ job.h \in Nat \ {0} /\ job.yStep \in Int /\ job.cStep \in Int /\ job.rgbStep \in Int
    BY <1>2 DEF IsCall
<1>4. ASSUME NEW s \in Int PROVE 0 * s = 0
    OBVIOUS
<1>5. 0 * job.yStep = 0 /\ 0 * job.cStep = 0 /\ 0 * job.rgbStep = 0
    BY <1>3, <1>4
<1>6. ASSUME NEW h \in Nat, NEW w \in Nat, NEW b \in Nat
      PROVE  Painted(job, touched, Passed(h, w, 0, b, 0))
    BY <1>1, PassedNone DEF Painted
<1>7. 1 \in Nat /\ 2 \in Nat /\ 2 * 0 = 0
    OBVIOUS
<1>8. Ways
    BY <1>1 DEF Ways
<1>9. ASSUME job.k \in Walk!Interleaved PROVE PairInv
    <2>1. PICK n \in Nat, m \in Nat : n = job.h \div 2 /\ m = job.w \div 2
        BY <1>3, Evens
    <2>2. x = 2 * m /\ rows = n
        BY <1>1, <1>3, <1>9, <2>1, Evens DEF Walk!Columns, Walk!Passes
    <2>3. x = 2 * m - 2 * 0 /\ rows = n - 0 /\ 0 <= n /\ 0 <= m
        BY <2>2
    <2>4. Painted(job, touched, Passed(2 * n, 2 * m, 2 * 0, 2, 2 * 0))
        <3>1. 2 * n \in Nat /\ 2 * m \in Nat
            OBVIOUS
        <3>. QED BY <1>6, <1>7, <3>1
    <2>5. ptr = [y |-> (2 * 0) * job.yStep + 2 * 0, c |-> 0 * job.cStep + 0, rgb |-> (2 * 0) * job.rgbStep + 2 * 0]
        BY <1>1, <1>5, <1>7
    <2>6. PairAt(n, m, 0, 0)
        BY <2>1, <2>3, <2>4, <2>5 DEF PairAt
    <2>. QED BY <2>6 DEF PairInv
<1>10. ASSUME job.k \in Walk!PerPixel PROVE PixelInv
    <2>1. x = job.w - 0 /\ rows = job.h - 0 /\ 0 <= job.w /\ 0 <= job.h
        <3>1. job.k \notin Walk!Interleaved /\ job.k \notin Walk!YCbCr
            BY <1>10 DEF Walk!PerPixel, Walk!Interleaved, Walk!YCbCr
        <3>2. x = job.w /\ rows = job.h
            BY <1>1, <3>1 DEF Walk!Columns, Walk!Passes
        <3>. QED BY <1>3, <3>2
    <2>2. Painted(job, touched, Passed(job.h, job.w, 0, 1, 0))
        <3>1. job.h \in Nat
            BY <1>3
        <3>. QED BY <1>3, <1>6, <1>7, <3>1
    <2>3. ptr = [y |-> 0 * job.yStep + 0, c |-> 0 * job.cStep + 0, rgb |-> 0 * job.rgbStep + 0]
        BY <1>1, <1>5
    <2>4. PixelAt(0, 0)
        BY <2>1, <2>2, <2>3 DEF PixelAt
    <2>. QED BY <2>4 DEF PixelInv
<1>11. ASSUME job.k \in Walk!YCbCr
       PROVE  EncoderInv /\ DecoderInv
    <2>1. PICK n \in Nat, m \in Nat : n = Walk!Half(job.h) /\ m = Walk!Half(job.w)
        BY <1>3, Evens
    <2>2. job.k \notin Walk!Interleaved
        BY <1>11 DEF Walk!Interleaved, Walk!YCbCr
    <2>3. x = 2 * m - 2 * 0 /\ rows = n - 0 /\ 0 <= n /\ 0 <= m
        <3>1. x = 2 * m /\ rows = n
            BY <1>1, <1>11, <2>1, <2>2 DEF Walk!Columns, Walk!Passes
        <3>. QED BY <3>1
    <2>4. Painted(job, touched, Passed(job.h, job.w, 2 * 0, 2, 2 * 0))
        <3>1. job.h \in Nat
            BY <1>3
        <3>. QED BY <1>3, <1>6, <1>7, <3>1
    <2>5. ptr = [y |-> 0, c |-> 0 * job.cStep + 0, rgb |-> 0]
        BY <1>1, <1>5
    <2>6. EncoderAt(n, m, 0, 0)
        BY <2>1, <2>3, <2>4, <2>5 DEF EncoderAt
    <2>7. Painted(job, touched, Passed(2 * n, job.w, 2 * 0 + 0, 1, 2 * 0))
        <3>1. 2 * n \in Nat /\ 2 * 0 + 0 = 0
            OBVIOUS
        <3>. QED BY <1>3, <1>6, <1>7, <3>1
    <2>8. ptr = [y |-> (2 * 0 + 0) * job.yStep + 2 * 0, c |-> 0 * job.cStep + 0,
                 rgb |-> (2 * 0 + 0) * job.rgbStep + 2 * 0]
        BY <1>1, <1>5
    <2>9. lower = (0 = 1)
        <3>1. 0 # 1
            OBVIOUS
        <3>. QED BY <1>1, <3>1
    <2>10. DecoderAt(n, m, 0, 0, 0)
        BY <2>1, <2>3, <2>7, <2>8, <2>9 DEF DecoderAt
    <2>. QED BY <2>6, <2>10 DEF EncoderInv, DecoderInv
<1>12. ASSUME job.k \notin Walk!Interleaved \cup Walk!PerPixel \cup Walk!YCbCr
       PROVE  PipelineInv
    <2>1. rows = job.h
        BY <1>1, <1>12 DEF Walk!Passes
    <2>. QED BY <1>1, <1>3, <2>1 DEF PipelineInv
<1>. QED BY <1>2, <1>8, <1>9, <1>10, <1>11, <1>12 DEF WalkKinds, Walk!YCbCr

LEMMA WalkNext == WalkInv /\ [Next]_vars => WalkInv'
<1> SUFFICES ASSUME WalkInv, [Next]_vars, part' = "walk" PROVE WalkKinds'
    BY DEF WalkInv
<1>1. CASE UNCHANGED vars
    <2>1. /\ WalkKinds /\ part = "walk"
          /\ job' = job /\ way' = way /\ ptr' = ptr /\ x' = x /\ rows' = rows /\ lower' = lower
          /\ touched' = touched
        BY <1>1 DEF WalkInv, vars, walks, planes
    <2>2. /\ PairInv => PairInv'
          /\ PixelInv => PixelInv'
          /\ EncoderInv => EncoderInv'
          /\ DecoderInv => DecoderInv'
        BY <2>1, StillThere
    <2>3. Walk!Converted' = Walk!Converted
        BY <2>1 DEF Walk!Converted
    <2>4. PipelineInv => PipelineInv'
        BY <2>1, <2>3 DEF PipelineInv
    <2>. QED BY <2>1, <2>2, <2>4
         DEF WalkKinds, Ways, IsCall, Walk!Interleaved, Walk!PerPixel, Walk!YCbCr
<1>2. CASE NextWalk
    BY <1>2, WalkSteps DEF WalkInv, NextWalk
<1>3. ~(NextCompare \/ NextMove \/ NextColor \/ NextPrimitives)
    BY DEF NextCompare, NextMove, NextColor, NextPrimitives
<1>. QED BY <1>1, <1>2, <1>3 DEF Next

LEMMA InImage ==
    ASSUME NEW D, NEW H \in Nat, NEW W \in Nat, Painted(job, touched, D), D \subseteq Box(H, W),
           H <= Walk!RowsWalked, Walk!RowsWalked \in Nat, W <= job.w, job.w \in Nat
    PROVE  Walk!SamePixel
<1> SUFFICES ASSUME NEW t \in touched
             PROVE  \E r \in 0 .. Walk!RowsWalked - 1, c \in 0 .. job.w - 1 : t = Walk!Sample(r, c)
    BY DEF Walk!SamePixel
<1>1. PICK p \in D : t = Pix(job, p)
    BY DEF Painted
<1>2. PICK r \in 0 .. H - 1, c \in 0 .. W - 1 : p = <<r, c>>
    BY DEF Box
<1>3. r \in 0 .. Walk!RowsWalked - 1 /\ c \in 0 .. job.w - 1
    OBVIOUS
<1>4. t = Walk!Sample(r, c)
    BY <1>1, <1>2 DEF Pix, Walk!Sample
<1>. QED BY <1>3, <1>4

LEMMA AllConverted ==
    ASSUME NEW H \in Nat, NEW W \in Nat, Painted(job, touched, Box(H, W)),
           Walk!Converted.h = H, Walk!Converted.w = W, way # "error"
    PROVE  Walk!NothingLeftOut
<1> SUFFICES ASSUME NEW r \in 0 .. H - 1, NEW c \in 0 .. W - 1
             PROVE  Walk!Sample(r, c) \in touched
    BY DEF Walk!NothingLeftOut
<1>1. <<r, c>> \in Box(H, W)
    BY DEF Box
<1>2. Pix(job, <<r, c>>) = Walk!Sample(r, c)
    BY DEF Pix, Walk!Sample
<1>. QED BY <1>1, <1>2 DEF Painted

LEMMA NotYet ==
    ASSUME way # "error", way # "done"
    PROVE  Walk!NothingLeftOut
BY DEF Walk!NothingLeftOut

\* However the pitches, the pads and the size of an image are, every kernel that
\* walks through images converts a pixel with the luma and chroma samples of that
\* same pixel, leaves the image nowhere but in the row below it that the YCbCr
\* decoder adds to an odd height, and has converted when it returns all that the
\* coding of its subsampling covers.
THEOREM PixelsStayTogether == Spec => []SamePixel
<1>1. WalkInv => SamePixel
    <2> SUFFICES ASSUME WalkKinds
                 PROVE  Walk!SamePixel /\ Walk!NothingLeftOut
        BY DEF WalkInv, SamePixel
    <2>1. job.w \in Nat /\ job.h \in Nat
        BY DEF WalkKinds, IsCall
    <2>2. \A h, w, row, b, col : Passed(h, w, row, b, col) \subseteq Box(h, w)
        BY DEF Passed
    <2>3. CASE job.k \in Walk!Interleaved
        <3>1. Ways /\ PairInv
            BY <2>3 DEF WalkKinds
        <3>2. PICK n \in Nat, m \in Nat, R \in Nat, k \in Nat : PairAt(n, m, R, k)
            BY <3>1 DEF PairInv
        <3>3. /\ n = job.h \div 2 /\ m = job.w \div 2 /\ rows = n - R /\ R <= n
              /\ Painted(job, touched, Passed(2 * n, 2 * m, 2 * R, 2, 2 * k))
            BY <3>2 DEF PairAt
        <3>4. /\ 2 * n \in Nat /\ 2 * m \in Nat /\ 2 * n <= job.h /\ 2 * m <= job.w
              /\ Walk!Even(job.h) = 2 * n /\ Walk!Even(job.w) = 2 * m
            <4>1. ASSUME NEW u \in Nat, NEW q \in Nat, q = u \div 2
                  PROVE  2 * q <= u /\ Walk!Even(u) = 2 * q
                BY <4>1, Evens
            <4>. QED BY <2>1, <3>3, <4>1
        <3>5. Walk!RowsWalked = job.h
            BY <2>3 DEF Walk!RowsWalked, Walk!Interleaved
        <3>6. Walk!SamePixel
            BY <2>1, <2>2, <3>3, <3>4, <3>5, InImage
        <3>7. CASE way = "done"
            <4>1. 2 * n <= 2 * R
                BY <3>1, <3>3, <3>7 DEF Ways
            <4>2. Counts(2 * n, 2 * m, 2 * R, 2, 2 * k, 2 * k)
                BY DEF Counts
            <4>3. Painted(job, touched, Box(2 * n, 2 * m))
                BY <3>3, <4>1, <4>2, PassedAll
            <4>4. Walk!Converted.h = 2 * n /\ Walk!Converted.w = 2 * m
                BY <2>3, <3>4 DEF Walk!Converted
            <4>. QED BY <3>4, <3>6, <3>7, <4>3, <4>4, AllConverted
        <3>. QED BY <3>1, <3>6, <3>7, NotYet DEF Ways
    <2>4. CASE job.k \in Walk!PerPixel
        <3>1. Ways /\ PixelInv
            BY <2>4 DEF WalkKinds
        <3>2. PICK R \in Nat, k \in Nat : PixelAt(R, k)
            BY <3>1 DEF PixelInv
        <3>3. rows = job.h - R /\ R <= job.h /\ Painted(job, touched, Passed(job.h, job.w, R, 1, k))
            BY <3>2 DEF PixelAt
        <3>4. job.k # "ycbcr_dec" /\ job.k # "halide_enc" /\ job.k \notin Walk!Interleaved
            BY <2>4 DEF Walk!PerPixel, Walk!Interleaved
        <3>5. Walk!RowsWalked = job.h /\ Walk!Converted.h = job.h /\ Walk!Converted.w = job.w
            BY <3>4 DEF Walk!RowsWalked, Walk!Converted
        <3>6. Walk!SamePixel
            <4>1. job.h <= job.h /\ job.w <= job.w
                BY <2>1
            <4>. QED BY <2>1, <2>2, <3>3, <3>5, <4>1, InImage
        <3>7. CASE way = "done"
            <4>1. job.h <= R
                BY <2>1, <3>1, <3>3, <3>7 DEF Ways
            <4>2. Counts(job.h, job.w, R, 1, k, k)
                BY <2>1 DEF Counts
            <4>3. Painted(job, touched, Box(job.h, job.w))
                BY <3>3, <4>1, <4>2, PassedAll
            <4>. QED BY <2>1, <3>5, <3>6, <3>7, <4>3, AllConverted
        <3>. QED BY <3>1, <3>6, <3>7, NotYet DEF Ways
    <2>5. CASE job.k = "ycbcr_enc"
        <3>1. Ways /\ EncoderInv
            BY <2>5 DEF WalkKinds
        <3>2. PICK n \in Nat, m \in Nat, R \in Nat, k \in Nat : EncoderAt(n, m, R, k)
            BY <3>1 DEF EncoderInv
        <3>3. /\ n = Walk!Half(job.h) /\ rows = n - R /\ R <= n
              /\ Painted(job, touched, Passed(job.h, job.w, 2 * R, 2, 2 * k))
            BY <3>2 DEF EncoderAt
        <3>4. job.h <= 2 * n
            BY <2>1, <3>3, Evens
        <3>5. Walk!RowsWalked = job.h /\ Walk!Converted.h = job.h /\ Walk!Converted.w = job.w
            BY <2>5 DEF Walk!RowsWalked, Walk!Converted, Walk!Interleaved
        <3>6. Walk!SamePixel
            <4>1. job.h <= job.h /\ job.w <= job.w
                BY <2>1
            <4>. QED BY <2>1, <2>2, <3>3, <3>5, <4>1, InImage
        <3>7. CASE way = "done"
            <4>1. job.h <= 2 * R
                BY <2>1, <3>1, <3>3, <3>4, <3>7 DEF Ways
            <4>2. Counts(job.h, job.w, 2 * R, 2, 2 * k, 2 * k)
                BY <2>1 DEF Counts
            <4>3. Painted(job, touched, Box(job.h, job.w))
                BY <3>3, <4>1, <4>2, PassedAll
            <4>. QED BY <2>1, <3>5, <3>6, <3>7, <4>3, AllConverted
        <3>. QED BY <3>1, <3>6, <3>7, NotYet DEF Ways
    <2>6. CASE job.k = "ycbcr_dec"
        <3>1. Ways /\ DecoderInv
            BY <2>6 DEF WalkKinds
        <3>2. PICK n \in Nat, m \in Nat, R \in Nat, k \in Nat : \E e \in {0, 1} : DecoderAt(n, m, R, e, k)
            BY <3>1 DEF DecoderInv
        <3>3. PICK e \in {0, 1} : DecoderAt(n, m, R, e, k)
            BY <3>2
        <3>4. /\ n = Walk!Half(job.h) /\ rows = n - R /\ R <= n
              /\ Painted(job, touched, Passed(2 * n, job.w, 2 * R + e, 1, 2 * k))
            BY <3>3 DEF DecoderAt
        <3>5. 2 * n \in Nat /\ job.h <= 2 * n /\ 2 * R + e \in Nat /\ 2 * k \in Nat
            <4>1. job.h <= 2 * n
                BY <2>1, <3>4, Evens
            <4>. QED BY <4>1
        <3>6. Walk!RowsWalked = 2 * n /\ Walk!Converted.h = job.h /\ Walk!Converted.w = job.w
            BY <2>6, <3>4 DEF Walk!RowsWalked, Walk!Converted, Walk!Interleaved
        <3>7. Walk!SamePixel
            <4>1. 2 * n <= 2 * n /\ job.w <= job.w
                BY <2>1
            <4>. QED BY <2>1, <2>2, <3>4, <3>5, <3>6, <4>1, InImage
        <3>8. CASE way = "done"
            <4>1. 2 * n <= 2 * R + e
                BY <3>1, <3>4, <3>8 DEF Ways
            <4>2. Counts(2 * n, job.w, 2 * R + e, 1, 2 * k, 2 * k)
                BY <2>1, <3>5 DEF Counts
            <4>3. Painted(job, touched, Box(2 * n, job.w))
                BY <3>4, <4>1, <4>2, PassedAll
            <4>4. Walk!NothingLeftOut
                <5> SUFFICES ASSUME NEW r \in 0 .. job.h - 1, NEW c \in 0 .. job.w - 1
                             PROVE  Walk!Sample(r, c) \in touched
                    BY <3>6, <3>8 DEF Walk!NothingLeftOut
                <5>1. <<r, c>> \in Box(2 * n, job.w)
                    BY <2>1, <3>5 DEF Box
                <5>2. Pix(job, <<r, c>>) = Walk!Sample(r, c)
                    BY DEF Pix, Walk!Sample
                <5>. QED BY <4>3, <5>1, <5>2 DEF Painted
            <4>. QED BY <3>7, <4>4
        <3>. QED BY <3>1, <3>7, <3>8, NotYet DEF Ways
    <2>7. CASE job.k \notin Walk!Interleaved \cup Walk!PerPixel \cup Walk!YCbCr
        <3>1. PipelineInv
            BY <2>7 DEF WalkKinds
        <3>2. Walk!RowsWalked = job.h
            BY <2>7 DEF Walk!RowsWalked, Walk!YCbCr
        <3>3. CASE touched = {} /\ way # "done"
            BY <3>1, <3>3 DEF Walk!SamePixel, Walk!NothingLeftOut, PipelineInv
        <3>4. CASE way = "done"
            <4>1. PICK H \in Nat, W \in Nat : /\ Walk!Converted.h = H /\ Walk!Converted.w = W
                                             /\ H <= job.h /\ W <= job.w
                <5>1. ASSUME NEW u \in Nat
                      PROVE  Walk!Even(u) \in Nat /\ Walk!Even(u) <= u /\ u <= u
                    <6>1. PICK q \in Nat : q = u \div 2 /\ Walk!Even(u) = 2 * q /\ 2 * q <= u
                        BY Evens
                    <6>. QED BY <6>1
                <5>. QED BY <2>1, <5>1 DEF Walk!Converted
            <4>2. Painted(job, touched, Box(H, W))
                BY <3>1, <3>4, <4>1 DEF PipelineInv
            <4>3. Box(H, W) \subseteq Box(H, W) /\ way # "error"
                BY <3>4
            <4>. QED BY <2>1, <3>2, <4>1, <4>2, <4>3, InImage, AllConverted
        <3>. QED BY <3>1, <3>3, <3>4 DEF PipelineInv
    <2>. QED BY <2>3, <2>4, <2>5, <2>6, <2>7 DEF Walk!YCbCr
<1>. QED BY <1>1, WalkInit, WalkNext, PTL DEF Spec

-----------------------------------------------------------------------------
(* The table of primitives, filled by any number of threads.               *)

\* All that one thread assigns, in order, and what an entry is to hold at last.
Stages == Primitives!Assignments
Wanted(e) == Primitives!Wanted(e)

\* What is left of the assignments from the k-th on, and where a thread can be.
Suffix(k) == SubSeq(Stages, k, Len(Stages))
Places == {"idle", "probe", "force", "clear", "assign", "raise", "call", "crashed"}

\* Nobody has begun to fill the table.
Untouched ==
    /\ ~initialized
    /\ \A t \in Threads : at[t] \in {"idle", "probe", "force", "clear"}

\* Thread t has still to assign entry e.
Owes(t, e) == at[t] = "assign" /\ \E i \in 1 .. Len(left[t]) : left[t][i][1] = e

\* A thread that fills the table has the end of the assignments before it.
Suffixes ==
    \A t \in Threads :
        IF at[t] = "assign"
        THEN \E k \in 1 .. Len(Stages) : left[t] = Suffix(k)
        ELSE left[t] = <<>>

\* Once somebody has, an entry is wanted or a thread still has to assign it.
Filled ==
    Untouched \/ \A e \in Primitives!Entries : table[e] = Wanted(e) \/ \E t \in Threads : Owes(t, e)

\* SIMD_FORCENONE is in force, or the thread that found it is about to enforce it.
Forced ==
    ForceNone /\ overrides = 0 =>
        simd \in {Primitives!Unknown, "none"} \/ \E t \in Threads : at[t] = "force"

Types ==
    /\ table \in [Primitives!Entries -> {"null", "generic", "simd", "halide"}]
    /\ simd \in Primitives!SimdTypes /\ probe \in ProbeWays
    /\ initialized \in BOOLEAN /\ overrides \in Nat
    /\ at \in [Threads -> Places]
    /\ DOMAIN left = Threads

TableInv == Types /\ Suffixes /\ Filled /\ Forced

\* The inductive invariant of the table.
PrimitivesInv == part = "primitives" => TableInv

-----------------------------------------------------------------------------
(* What the assignments are.                                               *)

Kinds == {"generic", "simd", "halide"}
Entries == Primitives!Entries

GenericNames == <<"Compare32", "Compare8", "Copy", "Move", "RGBToYCoCgR", "YCoCgRToRGB",
                  "RGBToYCoCgR420", "YCoCgR420ToRGB">>
SimdNames == <<"Compare32", "Compare8", "Copy", "Move", "RGBToYCoCgR420", "YCoCgR420ToRGB">>
HalideNames == <<"Copy", "RGBToYCoCgR", "YCoCgRToRGB", "RGBToYCoCgR420", "YCoCgR420ToRGB">>

\* A stage assigns the kernels of one kind to the entries in names.
IsStage(s, kind, names) ==
    /\ s \in Seq(Entries \X Kinds) /\ Len(s) \in Nat
    /\ \A i \in 1 .. Len(s) : s[i][2] = kind /\ s[i][1] \in names
    /\ \A e \in names : \E i \in 1 .. Len(s) : s[i][1] = e

LEMMA StageOfNames ==
    ASSUME NEW kind \in Kinds, NEW names \in Seq(Entries), NEW s, s = Primitives!Seq1(kind, names)
    PROVE  IsStage(s, kind, {names[i] : i \in 1 .. Len(names)})
<1>1. s = [i \in 1 .. Len(names) |-> <<names[i], kind>>] /\ Len(names) \in Nat
    BY DEF Primitives!Seq1
<1>2. \A i \in 1 .. Len(names) : <<names[i], kind>> \in Entries \X Kinds
    OBVIOUS
<1>3. s \in Seq(Entries \X Kinds) /\ Len(s) = Len(names)
    BY <1>1, <1>2
<1>. QED BY <1>1, <1>3 DEF IsStage

LEMMA EmptyStage == IsStage(<<>>, "none", {})
BY DEF IsStage

LEMMA GenericIsStage == IsStage(Primitives!GenericStage, "generic", Entries)
<1> DEFINE n == GenericNames
<1>1. n \in Seq(Entries) /\ Len(n) = 8
    BY DEF GenericNames, Entries, Primitives!Entries
<1>2. {n[i] : i \in 1 .. Len(n)} = Entries
    <2>1. n[1] = "Compare32" /\ n[2] = "Compare8" /\ n[3] = "Copy" /\ n[4] = "Move"
          /\ n[5] = "RGBToYCoCgR" /\ n[6] = "YCoCgRToRGB" /\ n[7] = "RGBToYCoCgR420"
          /\ n[8] = "YCoCgR420ToRGB"
        BY DEF GenericNames
    <2>. HIDE DEF n
    <2>. QED BY <1>1, <2>1 DEF Entries, Primitives!Entries
<1>3. Primitives!GenericStage = Primitives!Seq1("generic", n)
    BY DEF Primitives!GenericStage, GenericNames
<1>. QED BY <1>1, <1>2, <1>3, StageOfNames DEF Kinds

LEMMA SimdIsStage == IsStage(Primitives!SimdStage, "simd", Entries \ Primitives!Simd16)
<1> DEFINE n == SimdNames
<1>1. n \in Seq(Entries) /\ Len(n) = 6
    BY DEF SimdNames, Entries, Primitives!Entries
<1>2. {n[i] : i \in 1 .. Len(n)} = Entries \ Primitives!Simd16
    <2>1. n[1] = "Compare32" /\ n[2] = "Compare8" /\ n[3] = "Copy" /\ n[4] = "Move"
          /\ n[5] = "RGBToYCoCgR420" /\ n[6] = "YCoCgR420ToRGB"
        BY DEF SimdNames
    <2>. HIDE DEF n
    <2>. QED BY <1>1, <2>1 DEF Entries, Primitives!Entries, Primitives!Simd16
<1>3. Primitives!SimdStage = Primitives!Seq1("simd", n)
    BY DEF Primitives!SimdStage, SimdNames
<1>. QED BY <1>1, <1>2, <1>3, StageOfNames DEF Kinds

HalideEntries == Entries \ (Primitives!Compared \cup {"Move"})

LEMMA HalideIsStage == IsStage(Primitives!HalideStage, "halide", HalideEntries)
<1> DEFINE n == HalideNames
<1>1. n \in Seq(Entries) /\ Len(n) = 5
    BY DEF HalideNames, Entries, Primitives!Entries
<1>2. {n[i] : i \in 1 .. Len(n)} = HalideEntries
    <2>1. n[1] = "Copy" /\ n[2] = "RGBToYCoCgR" /\ n[3] = "YCoCgRToRGB"
          /\ n[4] = "RGBToYCoCgR420" /\ n[5] = "YCoCgR420ToRGB"
        BY DEF HalideNames
    <2>. HIDE DEF n
    <2>. QED BY <1>1, <2>1 DEF HalideEntries, Entries, Primitives!Entries, Primitives!Compared
<1>3. Primitives!HalideStage = Primitives!Seq1("halide", n)
    BY DEF Primitives!HalideStage, HalideNames
<1>. QED BY <1>1, <1>2, <1>3, StageOfNames DEF Kinds

\* Every entry is assigned, and what is assigned to it last is wanted.
LEMMA StagesEndWanted ==
    /\ Stages \in Seq(Entries \X Kinds) /\ Len(Stages) \in Nat \ {0}
    /\ \A e \in Entries : \E i \in 1 .. Len(Stages) : Stages[i][1] = e
    /\ \A i \in 1 .. Len(Stages) :
          (\A j \in (i + 1) .. Len(Stages) : Stages[j][1] # Stages[i][1])
              => Stages[i][2] = Wanted(Stages[i][1])
<1>1. WithSimd \in BOOLEAN /\ WithHalide \in BOOLEAN
    BY ParametersAreSound DEF Primitives!BuildAssumption
<1>2. PICK g : g = Primitives!GenericStage
    OBVIOUS
<1>3. PICK s : s = IF WithSimd THEN Primitives!SimdStage ELSE <<>>
    OBVIOUS
<1>4. PICK h : h = IF WithHalide THEN Primitives!HalideStage ELSE <<>>
    OBVIOUS
<1>5. Stages = (g \o s) \o h
    BY <1>2, <1>3, <1>4 DEF Stages, Primitives!Assignments
<1>6. IsStage(g, "generic", Entries)
    BY <1>2, GenericIsStage
<1>7. \/ WithSimd /\ IsStage(s, "simd", Entries \ Primitives!Simd16)
      \/ ~WithSimd /\ s = <<>> /\ IsStage(s, "none", {})
    BY <1>1, <1>3, SimdIsStage, EmptyStage
<1>8. \/ WithHalide /\ IsStage(h, "halide", HalideEntries)
      \/ ~WithHalide /\ h = <<>> /\ IsStage(h, "none", {})
    BY <1>1, <1>4, HalideIsStage, EmptyStage
<1> DEFINE E == Entries \X Kinds
           a == Len(g)
           b == Len(g) + Len(s)
           n == Len(g) + Len(s) + Len(h)
<1>9. /\ g \in Seq(E) /\ s \in Seq(E) /\ h \in Seq(E)
      /\ Len(g) \in Nat /\ Len(s) \in Nat /\ Len(h) \in Nat
    BY <1>6, <1>7, <1>8 DEF IsStage
<1>10. a \in Nat /\ b \in Nat /\ n \in Nat /\ a <= b /\ b <= n
    BY <1>9
<1>11. /\ Stages \in Seq(E) /\ Len(Stages) = n
       /\ \A i \in 1 .. n : Stages[i] = IF i <= a THEN g[i]
                                        ELSE IF i <= b THEN s[i - a] ELSE h[i - b]
    <2>. HIDE DEF E
    <2>1. g \o s \in Seq(E) /\ Len(g \o s) = b
          /\ \A i \in 1 .. b : (g \o s)[i] = IF i <= a THEN g[i] ELSE s[i - a]
        BY <1>9, ConcatProperties
    <2>2. (g \o s) \o h \in Seq(E) /\ Len((g \o s) \o h) = b + Len(h)
          /\ \A i \in 1 .. (b + Len(h)) :
                ((g \o s) \o h)[i] = IF i <= b THEN (g \o s)[i] ELSE h[i - b]
        BY <1>9, <2>1, ConcatProperties
    <2>3. b + Len(h) = n
        BY <1>9
    <2>. QED BY <1>5, <1>10, <2>1, <2>2, <2>3
<1>. HIDE DEF a, b, n, E
<1>12. /\ a \in Nat \ {0}
       /\ \A i \in 1 .. a : Stages[i] = g[i]
       /\ \A i \in 1 .. Len(s) : i + a \in (a + 1) .. b /\ Stages[i + a] = s[i]
       /\ \A i \in 1 .. Len(h) : i + b \in (b + 1) .. n /\ Stages[i + b] = h[i]
    <2>1. a > 0
        BY <1>6, <1>10 DEF IsStage, Entries, Primitives!Entries, a
    <2>2. \A i \in 1 .. a : Stages[i] = g[i]
        BY <1>10, <1>11
    <2>3. ASSUME NEW i \in 1 .. Len(s)
          PROVE  i + a \in (a + 1) .. b /\ Stages[i + a] = s[i]
        <3>1. i + a \in (a + 1) .. b /\ ~(i + a <= a) /\ (i + a) - a = i
            BY <1>9, <1>10 DEF a, b
        <3>. QED BY <1>10, <1>11, <3>1
    <2>4. ASSUME NEW i \in 1 .. Len(h)
          PROVE  i + b \in (b + 1) .. n /\ Stages[i + b] = h[i]
        <3>1. i + b \in (b + 1) .. n /\ ~(i + b <= b) /\ (i + b) - b = i
            BY <1>9, <1>10 DEF b, n
        <3>2. i + b \in 1 .. n /\ ~(i + b <= a)
            BY <1>10, <3>1
        <3>. QED BY <1>11, <3>1, <3>2
    <2>. QED BY <1>10, <2>1, <2>2, <2>3, <2>4
<1>13. \A e \in Entries : \E i \in 1 .. n : Stages[i][1] = e
    <2> SUFFICES ASSUME NEW e \in Entries PROVE \E i \in 1 .. n : Stages[i][1] = e
        OBVIOUS
    <2>1. PICK i \in 1 .. a : g[i][1] = e
        BY <1>6 DEF IsStage, a
    <2>. QED BY <1>10, <1>12, <2>1
<1>14. ASSUME NEW i \in 1 .. n, \A j \in (i + 1) .. n : Stages[j][1] # Stages[i][1]
       PROVE  Stages[i][2] = Wanted(Stages[i][1])
    <2>1. CASE i <= a
        <3>1. Stages[i][1] \in Entries /\ Stages[i][2] = "generic"
            <4>1. i \in 1 .. a /\ Stages[i] = g[i]
                BY <1>10, <1>12, <2>1
            <4>. QED BY <1>6, <4>1 DEF IsStage, a
        <3>2. WithSimd => Stages[i][1] \in Primitives!Simd16
            <4> SUFFICES ASSUME WithSimd, Stages[i][1] \notin Primitives!Simd16 PROVE FALSE
                OBVIOUS
            <4>1. PICK k \in 1 .. Len(s) : s[k][1] = Stages[i][1]
                BY <1>7, <3>1 DEF IsStage
            <4>2. k + a \in (i + 1) .. n /\ Stages[k + a] = s[k]
                BY <1>10, <1>12, <2>1, <4>1
            <4>. QED BY <1>14, <4>1, <4>2
        <3>3. WithHalide => Stages[i][1] \notin HalideEntries
            <4> SUFFICES ASSUME WithHalide, Stages[i][1] \in HalideEntries PROVE FALSE
                OBVIOUS
            <4>1. PICK k \in 1 .. Len(h) : h[k][1] = Stages[i][1]
                BY <1>8 DEF IsStage
            <4>2. k + b \in (i + 1) .. n /\ Stages[k + b] = h[k]
                BY <1>10, <1>12, <2>1, <4>1
            <4>. QED BY <1>14, <4>1, <4>2
        <3>. QED BY <3>1, <3>2, <3>3 DEF Wanted, Primitives!Wanted, HalideEntries
    <2>2. CASE i > a /\ i <= b
        <3>1. PICK k \in 1 .. Len(s) : Stages[i] = s[k]
            BY <1>9, <1>10, <1>11, <2>2 DEF a, b
        <3>2. WithSimd /\ Stages[i][1] \in Entries \ Primitives!Simd16 /\ Stages[i][2] = "simd"
            BY <1>7, <3>1 DEF IsStage
        <3>3. WithHalide => Stages[i][1] \notin HalideEntries
            <4> SUFFICES ASSUME WithHalide, Stages[i][1] \in HalideEntries PROVE FALSE
                OBVIOUS
            <4>1. PICK m \in 1 .. Len(h) : h[m][1] = Stages[i][1]
                BY <1>8 DEF IsStage
            <4>2. m + b \in (i + 1) .. n /\ Stages[m + b] = h[m]
                BY <1>10, <1>12, <2>2, <4>1
            <4>. QED BY <1>14, <4>1, <4>2
        <3>. QED BY <3>2, <3>3 DEF Wanted, Primitives!Wanted, HalideEntries
    <2>3. CASE i > b
        <3>1. PICK k \in 1 .. Len(h) : Stages[i] = h[k]
            <4>1. i - b \in 1 .. Len(h) /\ ~(i <= a) /\ ~(i <= b)
                BY <1>9, <1>10, <2>3 DEF a, b, n
            <4>. QED BY <1>11, <4>1
        <3>2. WithHalide /\ Stages[i][1] \in HalideEntries /\ Stages[i][2] = "halide"
            BY <1>8, <3>1 DEF IsStage
        <3>. QED BY <3>2 DEF Wanted, Primitives!Wanted, HalideEntries
    <2>. QED BY <1>10, <2>1, <2>2, <2>3
<1>15. Stages \in Seq(Entries \X Kinds)
    BY <1>11 DEF E
<1>16. Len(Stages) = n /\ n \in Nat \ {0}
    BY <1>10, <1>11, <1>12
<1>17. \A i \in 1 .. n : (\A j \in (i + 1) .. n : Stages[j][1] # Stages[i][1]) => Stages[i][2] = Wanted(Stages[i][1])
    BY <1>14
<1>. QED BY <1>13, <1>15, <1>16, <1>17

-----------------------------------------------------------------------------
(* The steps of one thread.                                                 *)

\* What a thread has left is told by the index of its next assignment.
LEMMA SuffixFacts ==
    ASSUME NEW k \in 1 .. Len(Stages)
    PROVE  /\ Len(Suffix(k)) = Len(Stages) - k + 1
           /\ Head(Suffix(k)) = Stages[k]
           /\ \A i \in 1 .. Len(Suffix(k)) : Suffix(k)[i] = Stages[i + k - 1]
           /\ k = Len(Stages) => Tail(Suffix(k)) = <<>>
           /\ k < Len(Stages) => Tail(Suffix(k)) = Suffix(k + 1)
<1> DEFINE E == Entries \X Kinds
           n == Len(Stages)
<1>1. Stages \in Seq(E) /\ n \in Nat \ {0}
    BY StagesEndWanted
<1>2. PICK s : s = Stages
    OBVIOUS
<1>. HIDE DEF E
<1>3. /\ Suffix(k) \in Seq(E) /\ Len(Suffix(k)) = n - k + 1
      /\ \A i \in 1 .. (n - k + 1) : Suffix(k)[i] = s[i + k - 1]
    BY <1>1, <1>2, SubSeqProperties DEF Suffix
<1>4. Head(Suffix(k)) = s[k]
    <2>1. Suffix(k) # <<>> /\ 1 \in 1 .. (n - k + 1) /\ 1 + k - 1 = k
        BY <1>1, <1>3
    <2>. QED BY <1>3, <2>1, HeadTailProperties
<1>5. /\ Tail(Suffix(k)) \in Seq(E) /\ Len(Tail(Suffix(k))) = n - k
      /\ \A i \in 1 .. (n - k) : Tail(Suffix(k))[i] = s[i + k]
    <2>1. Suffix(k) # <<>>
        BY <1>1, <1>3
    <2>2. /\ Tail(Suffix(k)) \in Seq(E) /\ Len(Tail(Suffix(k))) = n - k
          /\ \A i \in 1 .. (n - k) : Tail(Suffix(k))[i] = Suffix(k)[i + 1]
        BY <1>1, <1>3, <2>1, HeadTailProperties
    <2>3. ASSUME NEW i \in 1 .. (n - k) PROVE Suffix(k)[i + 1] = s[i + k]
        <3>1. i + 1 \in 1 .. (n - k + 1) /\ (i + 1) + k - 1 = i + k
            BY <1>1
        <3>. QED BY <1>3, <3>1
    <2>. QED BY <2>2, <2>3
<1>6. k = n => Tail(Suffix(k)) = <<>>
    <2> SUFFICES ASSUME k = n PROVE Tail(Suffix(k)) = <<>>
        OBVIOUS
    <2>1. Len(Tail(Suffix(k))) = 0
        BY <1>1, <1>5
    <2>. QED BY <1>5, <2>1, EmptySeq
<1>7. k < n => Tail(Suffix(k)) = Suffix(k + 1)
    <2> SUFFICES ASSUME k < n, NEW m, m = k + 1 PROVE Tail(Suffix(k)) = Suffix(m)
        OBVIOUS
    <2>1. m \in 1 .. n
        BY <1>1
    <2>2. /\ Suffix(m) \in Seq(E) /\ Len(Suffix(m)) = n - m + 1
          /\ \A i \in 1 .. (n - m + 1) : Suffix(m)[i] = s[i + m - 1]
        BY <1>1, <1>2, <2>1, SubSeqProperties DEF Suffix
    <2>3. n - m + 1 = n - k /\ \A i \in 1 .. (n - k) : i + m - 1 = i + k
        BY <1>1
    <2>4. \A i \in 1 .. (n - k) : Tail(Suffix(k))[i] = Suffix(m)[i]
        BY <1>5, <2>2, <2>3
    <2>5. Len(Tail(Suffix(k))) = Len(Suffix(m))
        BY <1>5, <2>2, <2>3
    <2>. QED BY <1>5, <2>2, <2>4, <2>5, SeqEqual
<1>. QED BY <1>2, <1>3, <1>4, <1>6, <1>7

\* An entry is owed by a thread when it is assigned from its index on.
LEMMA OwedFrom ==
    ASSUME NEW t, NEW e, NEW k \in 1 .. Len(Stages), at[t] = "assign", left[t] = Suffix(k)
    PROVE  Owes(t, e) <=> \E j \in k .. Len(Stages) : Stages[j][1] = e
<1> DEFINE n == Len(Stages)
<1>1. n \in Nat \ {0}
    BY StagesEndWanted
<1>2. Len(left[t]) = n - k + 1 /\ \A i \in 1 .. (n - k + 1) : left[t][i] = Stages[i + k - 1]
    BY SuffixFacts
<1>3. Owes(t, e) <=> \E i \in 1 .. (n - k + 1) : Stages[i + k - 1][1] = e
    BY <1>2 DEF Owes
<1>4. ASSUME NEW i \in 1 .. (n - k + 1), Stages[i + k - 1][1] = e
      PROVE  \E j \in k .. n : Stages[j][1] = e
    <2>1. i + k - 1 \in k .. n
        BY <1>1
    <2>. QED BY <1>4, <2>1
<1>5. ASSUME NEW j \in k .. n, Stages[j][1] = e
      PROVE  \E i \in 1 .. (n - k + 1) : Stages[i + k - 1][1] = e
    <2>1. j - k + 1 \in 1 .. (n - k + 1) /\ (j - k + 1) + k - 1 = j
        BY <1>1
    <2>. QED BY <1>5, <2>1
<1>. QED BY <1>3, <1>4, <1>5

-----------------------------------------------------------------------------
(* The invariant.                                                           *)

LEMMA InitHolds == Init => PrimitivesInv
<1> SUFFICES ASSUME Init, part = "primitives" PROVE TableInv
    BY DEF PrimitivesInv
<1>1. Primitives!Init
    BY DEF Init
<1>2. MaxOverrides \in Nat
    BY ParametersAreSound DEF Primitives!BuildAssumption
<1>3. Types
    BY <1>1 DEF Primitives!Init, Types, Places, Primitives!SimdTypes
<1>4. Suffixes
    BY <1>1 DEF Primitives!Init, Suffixes
<1>5. Filled /\ Forced
    BY <1>1 DEF Primitives!Init, Filled, Forced, Untouched
<1>. QED BY <1>3, <1>4, <1>5 DEF TableInv

\* A step of a thread that neither clears nor assigns.
Quiet(t, from, to) ==
    /\ at[t] = from /\ at' = [at EXCEPT ![t] = to]
    /\ from # "assign" /\ to \in Places \ {"assign"}
    /\ UNCHANGED <<table, left, overrides, probe>>
    /\ \/ from \in {"raise", "call"} /\ initialized' \in BOOLEAN
       \/ initialized' = initialized /\ (initialized \/ to \in {"probe", "force", "clear"})

LEMMA QuietKeeps ==
    ASSUME Types, Suffixes, Filled, NEW t \in Threads, NEW from, NEW to, Quiet(t, from, to),
           simd' \in Primitives!SimdTypes
    PROVE  Types' /\ Suffixes' /\ Filled'
<1>1. /\ \A u \in Threads : at'[u] = IF u = t THEN to ELSE at[u]
      /\ at' \in [Threads -> Places] /\ left' = left /\ table' = table
    BY DEF Quiet, Types
<1>2. Types'
    BY <1>1 DEF Quiet, Types
<1>3. Suffixes'
    <2> SUFFICES ASSUME NEW u \in Threads
                 PROVE  IF at'[u] = "assign" THEN \E k \in 1 .. Len(Stages) : left'[u] = Suffix(k)
                        ELSE left'[u] = <<>>
        BY DEF Suffixes, Suffix, Stages, Primitives!Assignments, Primitives!GenericStage,
               Primitives!SimdStage, Primitives!HalideStage, Primitives!Seq1
    <2>1. at'[u] = "assign" <=> at[u] = "assign"
        BY <1>1 DEF Quiet
    <2>. QED BY <1>1, <2>1 DEF Suffixes
<1>4. \A u \in Threads, e \in Entries : Owes(u, e) => Owes(u, e)'
    <2> SUFFICES ASSUME NEW u \in Threads, NEW e \in Entries, Owes(u, e) PROVE Owes(u, e)'
        OBVIOUS
    <2>1. at'[u] = "assign" /\ left'[u] = left[u]
        BY <1>1 DEF Owes, Quiet
    <2>. QED BY <2>1 DEF Owes
<1>5. CASE Untouched
    <2>1. ~(from \in {"raise", "call"}) /\ ~initialized
        BY <1>5 DEF Untouched, Quiet
    <2>2. Untouched'
        BY <1>1, <1>5, <2>1 DEF Untouched, Quiet
    <2>. QED BY <1>2, <1>3, <2>2 DEF Filled
<1>6. CASE ~Untouched
    <2>1. \A e \in Entries : table[e] = Wanted(e) \/ \E u \in Threads : Owes(u, e)
        BY <1>6 DEF Filled, Entries
    <2>2. \A e \in Entries : Wanted(e)' = Wanted(e)
        BY DEF Wanted, Primitives!Wanted, Primitives!Compared, Primitives!Simd16
    <2>3. \A e \in Entries : table'[e] = Wanted(e)' \/ \E u \in Threads : Owes(u, e)'
        BY <1>1, <1>4, <2>1, <2>2
    <2>. QED BY <1>2, <1>3, <2>3 DEF Filled, Entries, Primitives!Entries
<1>. QED BY <1>5, <1>6

\* CheckFlag, Probe, Force, RaiseFlag and Call are quiet.
LEMMA QuietSteps ==
    ASSUME TableInv, NEW t \in Threads,
           \/ Primitives!CheckFlag(t) \/ Primitives!Probe(t) \/ Primitives!Force(t)
           \/ Primitives!RaiseFlag(t) \/ \E e \in Primitives!Entries : Primitives!Call(t, e)
    PROVE  TableInv'
<1>. USE DEF Places
<1>1. Types /\ Suffixes /\ Filled /\ Forced
    BY DEF TableInv
<1>2. /\ initialized \in BOOLEAN /\ simd \in Primitives!SimdTypes /\ at \in [Threads -> Places]
      /\ probe \in {"x64", "x86", "arm"} /\ ForceNone \in BOOLEAN
    BY <1>1, ParametersAreSound DEF Types, Primitives!BuildAssumption
<1>3. CASE Primitives!CheckFlag(t)
    <2>1. simd' = simd /\ overrides' = overrides
        BY <1>3 DEF Primitives!CheckFlag
    <2>2. Quiet(t, "idle", "raise") \/ Quiet(t, "idle", "probe")
        BY <1>2, <1>3 DEF Primitives!CheckFlag, Primitives!Go, Quiet
    <2>3. Types' /\ Suffixes' /\ Filled'
        BY <1>1, <1>2, <2>1, <2>2, QuietKeeps
    <2>4. \A u \in Threads : at[u] = "force" => at'[u] = "force"
        BY <1>2, <2>2 DEF Quiet
    <2>. QED BY <1>1, <2>1, <2>3, <2>4 DEF TableInv, Forced
<1>4. CASE Primitives!Probe(t)
    <2>1. CASE simd # Primitives!Unknown /\ Primitives!Go(t, "probe", "clear") /\ UNCHANGED simd
        <3>1. Quiet(t, "probe", "clear")
            BY <1>2, <1>4, <2>1 DEF Primitives!Probe, Primitives!Go, Quiet
        <3>2. Types' /\ Suffixes' /\ Filled'
            BY <1>1, <1>2, <2>1, <3>1, QuietKeeps
        <3>3. \A u \in Threads : at[u] = "force" => at'[u] = "force"
            BY <1>2, <3>1 DEF Quiet
        <3>. QED BY <1>1, <1>4, <2>1, <3>2, <3>3 DEF TableInv, Forced, Primitives!Probe
    <2>2. CASE Primitives!Go(t, "probe", "force") /\ simd' \in Primitives!Found[probe]
        <3>1. Quiet(t, "probe", "force")
            BY <1>2, <1>4, <2>2 DEF Primitives!Probe, Primitives!Go, Quiet
        <3>2. simd' \in Primitives!SimdTypes
            BY <1>2, <2>2 DEF Primitives!Found, Primitives!SimdTypes, Primitives!Unknown
        <3>3. Types' /\ Suffixes' /\ Filled'
            BY <1>1, <1>2, <3>1, <3>2, QuietKeeps
        <3>4. at'[t] = "force"
            BY <1>2, <3>1 DEF Quiet
        <3>. QED BY <3>3, <3>4 DEF TableInv, Forced
    <2>. QED BY <1>4, <2>1, <2>2 DEF Primitives!Probe
<1>5. CASE Primitives!Force(t)
    <2>1. simd' = (IF ForceNone THEN "none" ELSE simd) /\ Primitives!Go(t, "force", "clear")
        BY <1>5 DEF Primitives!Force
    <2>2. Quiet(t, "force", "clear")
        BY <1>2, <1>5, <2>1 DEF Primitives!Force, Primitives!Go, Quiet
    <2>3. simd' \in Primitives!SimdTypes
        BY <1>2, <2>1 DEF Primitives!SimdTypes
    <2>4. Types' /\ Suffixes' /\ Filled'
        BY <1>1, <1>2, <2>2, <2>3, QuietKeeps
    <2>. QED BY <2>1, <2>4 DEF TableInv, Forced
<1>6. CASE Primitives!RaiseFlag(t)
    <2>1. simd' = simd /\ overrides' = overrides
        BY <1>6 DEF Primitives!RaiseFlag
    <2>2. Quiet(t, "raise", "call")
        BY <1>2, <1>6 DEF Primitives!RaiseFlag, Primitives!Go, Quiet
    <2>3. Types' /\ Suffixes' /\ Filled'
        BY <1>1, <1>2, <2>1, <2>2, QuietKeeps
    <2>4. \A u \in Threads : at[u] = "force" => at'[u] = "force"
        BY <1>2, <2>2 DEF Quiet
    <2>. QED BY <1>1, <2>1, <2>3, <2>4 DEF TableInv, Forced
<1>7. ASSUME NEW e \in Primitives!Entries, Primitives!Call(t, e) PROVE TableInv'
    <2>1. simd' = simd /\ overrides' = overrides
        BY <1>7 DEF Primitives!Call
    <2>2. Quiet(t, "call", "crashed") \/ Quiet(t, "call", "idle")
        BY <1>2, <1>7 DEF Primitives!Call, Primitives!Go, Quiet
    <2>3. Types' /\ Suffixes' /\ Filled'
        BY <1>1, <1>2, <2>1, <2>2, QuietKeeps
    <2>4. \A u \in Threads : at[u] = "force" => at'[u] = "force"
        BY <1>2, <2>2 DEF Quiet
    <2>. QED BY <1>1, <2>1, <2>3, <2>4 DEF TableInv, Forced
<1>. QED BY <1>3, <1>4, <1>5, <1>6, <1>7

\* memset empties the table, and the thread owes all of it.
LEMMA ClearKeeps ==
    ASSUME TableInv, NEW t \in Threads, Primitives!Clear(t)
    PROVE  TableInv'
<1> DEFINE n == Len(Stages)
<1>1. Types /\ Suffixes /\ Filled /\ Forced
    BY DEF TableInv
<1>2. /\ \A u \in Threads : at'[u] = IF u = t THEN "assign" ELSE at[u]
      /\ \A u \in Threads : left'[u] = IF u = t THEN Stages ELSE left[u]
      /\ at[t] = "clear" /\ at' \in [Threads -> Places] /\ DOMAIN left' = Threads
    BY <1>1 DEF Primitives!Clear, Primitives!Go, Types, Places, Stages
<1>3. n \in Nat \ {0} /\ Stages \in Seq(Entries \X Kinds)
    BY StagesEndWanted
<1>4. Stages = Suffix(1)
    <2>1. PICK s : s = Stages
        OBVIOUS
    <2>2. s \in Seq(Entries \X Kinds) /\ SubSeq(s, 1, Len(s)) = s
        BY <1>3, <2>1
    <2>. QED BY <2>1, <2>2 DEF Suffix
<1>5. Types'
    BY <1>1, <1>2 DEF Types, Primitives!Clear
<1>6. Suffixes'
    <2>1. Suffixes' = \A u \in Threads : IF at'[u] = "assign"
                                         THEN \E k \in 1 .. n : left'[u] = Suffix(k)
                                         ELSE left'[u] = <<>>
        BY DEF Suffixes, Suffix, Stages, Primitives!Assignments, Primitives!GenericStage,
               Primitives!SimdStage, Primitives!HalideStage, Primitives!Seq1
    <2>2. ASSUME NEW u \in Threads
          PROVE  IF at'[u] = "assign" THEN \E k \in 1 .. n : left'[u] = Suffix(k) ELSE left'[u] = <<>>
        <3>1. CASE u = t
            BY <1>2, <1>3, <1>4, <3>1
        <3>2. CASE u # t
            BY <1>1, <1>2, <3>2 DEF Suffixes
        <3>. QED BY <3>1, <3>2
    <2>. QED BY <2>1, <2>2
<1>7. \A e \in Entries : Owes(t, e)'
    <2> SUFFICES ASSUME NEW e \in Entries PROVE Owes(t, e)'
        OBVIOUS
    <2>1. PICK i \in 1 .. n : Stages[i][1] = e
        BY StagesEndWanted
    <2>. QED BY <1>2, <2>1 DEF Owes
<1>8. Filled'
    BY <1>7 DEF Filled, Entries
<1>9. Forced'
    <2>1. \A u \in Threads : at[u] = "force" => at'[u] = "force"
        BY <1>2
    <2>. QED BY <1>1, <2>1 DEF Forced, Primitives!Clear
<1>. QED BY <1>5, <1>6, <1>8, <1>9 DEF TableInv

\* An assignment that is not the last of its entry leaves the entry owed; the
\* last one makes it what is wanted.
LEMMA AssignKeeps ==
    ASSUME TableInv, NEW t \in Threads, Primitives!Assign(t)
    PROVE  TableInv'
<1> DEFINE n == Len(Stages)
<1>1. Types /\ Suffixes /\ Filled /\ Forced
    BY DEF TableInv
<1>2. n \in Nat \ {0} /\ \A i \in 1 .. n : Stages[i] \in Entries \X Kinds
    BY StagesEndWanted
<1>3. at[t] = "assign"
    BY DEF Primitives!Assign, Primitives!Go
<1>4. PICK k \in 1 .. n : left[t] = Suffix(k)
    BY <1>1, <1>3 DEF Suffixes
<1>5. /\ Len(left[t]) = n - k + 1 /\ Head(left[t]) = Stages[k]
      /\ k = n => Tail(left[t]) = <<>>
      /\ k < n => Tail(left[t]) = Suffix(k + 1)
    BY <1>4, SuffixFacts
<1>6. PICK now : now = Stages[k]
    OBVIOUS
<1>7. now[1] \in Entries /\ now[2] \in Kinds
    BY <1>2, <1>6
<1>8. /\ \A u \in Threads : at'[u] = IF u = t THEN IF k = n THEN "raise" ELSE "assign" ELSE at[u]
      /\ at' \in [Threads -> Places]
    BY <1>1, <1>2, <1>5 DEF Primitives!Assign, Primitives!Go, Types, Places
<1>9. /\ \A u \in Threads : left'[u] = IF u = t THEN Tail(left[t]) ELSE left[u]
      /\ DOMAIN left' = Threads
    BY <1>1 DEF Primitives!Assign, Types
<1>10. table' = [table EXCEPT ![now[1]] = now[2]]
    BY <1>5, <1>6 DEF Primitives!Assign
<1>11. Types'
    <2>1. table \in [Entries -> {"null", "generic", "simd", "halide"}]
        BY <1>1 DEF Types, Entries
    <2>2. table' \in [Entries -> {"null", "generic", "simd", "halide"}]
        BY <1>7, <1>10, <2>1 DEF Kinds
    <2>3. UNCHANGED <<initialized, simd, probe, overrides>>
        BY DEF Primitives!Assign
    <2>. QED BY <1>1, <1>8, <1>9, <2>2, <2>3 DEF Types, Entries, Primitives!Entries
<1>12. Suffixes'
    <2>1. Suffixes' = \A u \in Threads : IF at'[u] = "assign"
                                         THEN \E i \in 1 .. n : left'[u] = Suffix(i)
                                         ELSE left'[u] = <<>>
        BY DEF Suffixes, Suffix, Stages, Primitives!Assignments, Primitives!GenericStage,
               Primitives!SimdStage, Primitives!HalideStage, Primitives!Seq1
    <2>2. ASSUME NEW u \in Threads
          PROVE  IF at'[u] = "assign" THEN \E i \in 1 .. n : left'[u] = Suffix(i) ELSE left'[u] = <<>>
        <3>1. CASE u = t /\ k = n
            BY <1>5, <1>8, <1>9, <3>1
        <3>2. CASE u = t /\ k < n
            <4>1. k + 1 \in 1 .. n
                BY <1>2, <3>2
            <4>. QED BY <1>5, <1>8, <1>9, <3>2, <4>1
        <3>3. CASE u # t
            BY <1>1, <1>8, <1>9, <3>3 DEF Suffixes
        <3>. QED BY <1>2, <3>1, <3>2, <3>3
    <2>. QED BY <2>1, <2>2
<1>13. Filled'
    <2>1. ~Untouched
        BY <1>3 DEF Untouched
    <2> SUFFICES ASSUME NEW e \in Entries
                 PROVE  table'[e] = Wanted(e)' \/ \E u \in Threads : Owes(u, e)'
        BY DEF Filled, Entries, Primitives!Entries
    <2>2. Wanted(e)' = Wanted(e)
        BY DEF Wanted, Primitives!Wanted, Primitives!Compared, Primitives!Simd16
    <2>3. ASSUME NEW j \in (k + 1) .. n, Stages[j][1] = e PROVE Owes(t, e)'
        <3>1. k < n /\ k # n
            BY <1>2, <2>3
        <3>2. at'[t] = "assign" /\ left'[t] = Suffix(k + 1)
            BY <1>5, <1>8, <1>9, <3>1
        <3>3. PICK m \in 1 .. n : m = k + 1
            BY <1>2, <3>1
        <3>4. Len(Suffix(m)) = n - m + 1 /\ \A i \in 1 .. Len(Suffix(m)) : Suffix(m)[i] = Stages[i + m - 1]
            BY SuffixFacts
        <3>5. j - k \in 1 .. (n - m + 1) /\ (j - k) + m - 1 = j
            BY <1>2, <3>3
        <3>6. left'[t][j - k] = Stages[j]
            BY <3>2, <3>3, <3>4, <3>5
        <3>. QED BY <2>3, <3>2, <3>3, <3>4, <3>5, <3>6 DEF Owes
    <2>4. CASE e = now[1]
        <3>1. CASE \E j \in (k + 1) .. n : Stages[j][1] = e
            BY <2>3, <3>1
        <3>2. CASE \A j \in (k + 1) .. n : Stages[j][1] # e
            <4>1. now[2] = Wanted(e)
                BY <1>6, <2>4, <3>2, StagesEndWanted
            <4>2. table'[e] = now[2]
                BY <1>1, <1>10, <2>4 DEF Types, Entries
            <4>. QED BY <2>2, <4>1, <4>2
        <3>. QED BY <3>1, <3>2
    <2>5. CASE e # now[1]
        <3>1. table'[e] = table[e]
            BY <1>1, <1>10, <2>5 DEF Types, Entries
        <3>2. CASE table[e] = Wanted(e)
            BY <2>2, <3>1, <3>2
        <3>3. CASE \E u \in Threads : Owes(u, e)
            <4>1. PICK u \in Threads : Owes(u, e)
                BY <3>3
            <4>2. CASE u = t
                <5>1. PICK j \in k .. n : Stages[j][1] = e
                    BY <1>3, <1>4, <4>1, <4>2, OwedFrom
                <5>2. j # k
                    BY <1>6, <2>5, <5>1
                <5>3. j \in (k + 1) .. n
                    BY <1>2, <5>2
                <5>. QED BY <2>3, <5>1, <5>3
            <4>3. CASE u # t
                <5>1. at'[u] = at[u] /\ left'[u] = left[u]
                    BY <1>8, <1>9, <4>3
                <5>. QED BY <4>1, <5>1 DEF Owes
            <4>. QED BY <4>2, <4>3
        <3>. QED BY <1>1, <2>1, <3>2, <3>3 DEF Filled, Entries
    <2>. QED BY <2>4, <2>5
<1>14. Forced'
    <2>1. \A u \in Threads : at[u] = "force" => at'[u] = "force"
        BY <1>3, <1>8
    <2>. QED BY <1>1, <2>1 DEF Forced, Primitives!Assign
<1>. QED BY <1>11, <1>12, <1>13, <1>14 DEF TableInv

\* The SIMD type set from outside.
LEMMA OverrideKeeps ==
    ASSUME TableInv,
           \/ \E v \in {"none", "sse2", "neon"} : Primitives!Xpp_SimdSet(v)
           \/ Primitives!Xpp_SimdAuto
    PROVE  TableInv'
<1>1. Types /\ Suffixes /\ Filled /\ Forced
    BY DEF TableInv
<1>2. probe \in {"x64", "x86", "arm"} /\ ForceNone \in BOOLEAN
    BY <1>1, ParametersAreSound DEF Types, Primitives!BuildAssumption
<1>3. /\ UNCHANGED <<initialized, table, probe, at, left>>
      /\ overrides' = overrides + 1 /\ overrides \in Nat
    BY <1>1 DEF Types, Primitives!Xpp_SimdSet, Primitives!Xpp_SimdAuto
<1>4. simd' \in Primitives!SimdTypes
    BY <1>2 DEF Primitives!Xpp_SimdSet, Primitives!Xpp_SimdAuto, Primitives!SimdTypes,
                Primitives!Found, Primitives!Unknown
<1>5. Types'
    BY <1>1, <1>3, <1>4 DEF Types
<1>6. Suffixes'
    BY <1>1, <1>3 DEF Suffixes, Suffix, Stages, Primitives!Assignments, Primitives!GenericStage,
                      Primitives!SimdStage, Primitives!HalideStage, Primitives!Seq1
<1>7. Filled'
    BY <1>1, <1>3 DEF Filled, Untouched, Owes, Wanted, Primitives!Wanted, Primitives!Compared,
                      Primitives!Simd16, Primitives!Entries
<1>8. Forced'
    BY <1>3 DEF Forced
<1>. QED BY <1>5, <1>6, <1>7, <1>8 DEF TableInv

LEMMA NextKeeps == PrimitivesInv /\ [Next]_vars => PrimitivesInv'
<1> SUFFICES ASSUME PrimitivesInv, [Next]_vars, part' = "primitives" PROVE TableInv'
    BY DEF PrimitivesInv
<1>1. CASE UNCHANGED vars
    <2>1. TableInv /\ UNCHANGED tables
        BY <1>1 DEF PrimitivesInv, vars
    <2>2. \A t, e : Owes(t, e)' <=> Owes(t, e)
        BY <2>1 DEF tables, Owes
    <2>3. \A e : Wanted(e)' = Wanted(e)
        BY DEF Wanted, Primitives!Wanted, Primitives!Compared, Primitives!Simd16
    <2>4. Types' /\ Forced'
        BY <2>1 DEF tables, TableInv, Types, Forced
    <2>5. Suffixes'
        BY <2>1 DEF tables, TableInv, Suffixes, Suffix, Stages, Primitives!Assignments,
                    Primitives!GenericStage, Primitives!SimdStage, Primitives!HalideStage, Primitives!Seq1
    <2>6. Filled'
        BY <2>1, <2>2, <2>3 DEF tables, TableInv, Filled, Untouched, Primitives!Entries
    <2>. QED BY <2>4, <2>5, <2>6 DEF TableInv
<1>2. CASE NextPrimitives
    <2>1. TableInv
        BY <1>2 DEF PrimitivesInv, NextPrimitives
    <2>2. \/ \E t \in Threads : Primitives!Step(t)
          \/ \E v \in {"none", "sse2", "neon"} : Primitives!Xpp_SimdSet(v)
          \/ Primitives!Xpp_SimdAuto
        BY <1>2 DEF NextPrimitives, Primitives!Next
    <2>3. ASSUME NEW t \in Threads, Primitives!Step(t) PROVE TableInv'
        BY <2>1, <2>3, QuietSteps, ClearKeeps, AssignKeeps DEF Primitives!Step
    <2>. QED BY <2>1, <2>2, <2>3, OverrideKeeps
<1>3. ~(NextCompare \/ NextMove \/ NextColor \/ NextWalk)
    BY DEF NextCompare, NextMove, NextColor, NextWalk
<1>. QED BY <1>1, <1>2, <1>3 DEF Next

\* The table of primitives is whole once it is initialised and whenever no thread
\* is filling it: every entry then holds the best kernel of the build, whatever the threads that filled it
\* overwrote of one another, and SIMD_FORCENONE holds unless it was overridden.
THEOREM TableIsComplete == Spec => []TableComplete
<1>1. PrimitivesInv => TableComplete
    <2> SUFFICES ASSUME TableInv
                 PROVE  Primitives!TypeOK /\ Primitives!TableComplete /\ Primitives!ForcedNone
        BY DEF PrimitivesInv, TableComplete
    <2>1. Types /\ Suffixes /\ Filled /\ Forced
        BY DEF TableInv
    <2>2. Primitives!TypeOK
        BY <2>1 DEF Primitives!TypeOK, Types, Suffixes
    <2>3. Primitives!TableComplete
        <3> SUFFICES ASSUME initialized, ~Primitives!Busy, NEW e \in Primitives!Entries
                     PROVE  table[e] = Primitives!Wanted(e)
            BY DEF Primitives!TableComplete
        <3>1. ~Untouched
            BY DEF Untouched
        <3>2. \A t \in Threads : ~Owes(t, e)
            BY DEF Owes, Primitives!Busy, Primitives!Initialising
        <3>. QED BY <2>1, <3>1, <3>2 DEF Filled, Wanted
    <2>4. Primitives!ForcedNone
        BY <2>1 DEF Forced, Primitives!ForcedNone
    <2>. QED BY <2>2, <2>3, <2>4
<1>. QED BY <1>1, InitHolds, NextKeeps, PTL DEF Spec

\* A thread that calls through an empty entry meets it only while another thread is
\* filling the table: by itself a thread never does, whatever it called before.
THEOREM CrashTakesTwo == Spec => CrashNeedsTwo
<1>1. PrimitivesInv /\ [Next]_vars => [part = "primitives" => Primitives!NullCallNeedsTwo]_vars
    <2> SUFFICES ASSUME PrimitivesInv, Next, part = "primitives", NEW t \in Threads,
                        at[t] = "call", at'[t] = "crashed"
                 PROVE  \E u \in Threads \ {t} : at[u] = "assign"
        BY DEF Primitives!NullCallNeedsTwo
    <2>1. TableInv /\ NextPrimitives
        BY DEF PrimitivesInv, Next, NextCompare, NextMove, NextColor, NextWalk
    <2>2. Types /\ Filled
        BY <2>1 DEF TableInv
    <2>3. \E e \in Primitives!Entries : table[e] = "null"
        <3>1. at \in [Threads -> Places]
            BY <2>2 DEF Types
        <3>2. ~(UNCHANGED at)
            OBVIOUS
        <3>3. PICK u \in Threads : Primitives!Step(u)
            BY <2>1, <3>2 DEF NextPrimitives, Primitives!Next, Primitives!Xpp_SimdSet, Primitives!Xpp_SimdAuto
        <3>4. PICK from, to : Primitives!Go(u, from, to)
            BY <3>3 DEF Primitives!Step, Primitives!CheckFlag, Primitives!Probe, Primitives!Force,
                        Primitives!Clear, Primitives!Assign, Primitives!RaiseFlag, Primitives!Call
        <3>5. u = t
            BY <3>1, <3>4 DEF Primitives!Go
        <3>6. PICK e \in Primitives!Entries : Primitives!Call(t, e)
            BY <3>3, <3>5 DEF Primitives!Step, Primitives!CheckFlag, Primitives!Probe, Primitives!Force,
                              Primitives!Clear, Primitives!Assign, Primitives!RaiseFlag, Primitives!Go
        <3>. QED BY <3>1, <3>6 DEF Primitives!Call, Primitives!Go
    <2>4. PICK e \in Primitives!Entries : table[e] = "null"
        BY <2>3
    <2>5. ~Untouched
        BY DEF Untouched
    <2>6. Wanted(e) # "null"
        BY DEF Wanted, Primitives!Wanted
    <2>7. PICK u \in Threads : Owes(u, e)
        BY <2>2, <2>4, <2>5, <2>6 DEF Filled
    <2>. QED BY <2>7 DEF Owes
<1>. QED BY <1>1, InitHolds, NextKeeps, PTL DEF Spec, CrashNeedsTwo
=============================================================================
