-------------------------- MODULE PhotoEditingProofs --------------------------
(***************************************************************************)
(* Pictures of every size under every EXIF orientation and every turn, and *)
(* what the dialogs, the server and the markers of one photo agree on, for *)
(* any number of dialogs, clicks, answers lost and markers.                *)
(***************************************************************************)
EXTENDS PhotoEditing, FiniteSetTheorems, TLAPS

(* Cells and quarter turns.                                                *)

Sizes == Nat \ {0}

\* The pixels of the picture taken, and pictures of w by h of them.
Pixels == Cells(Width, Height)
Frames(w, h) == [Cells(w, h) -> Pixels]

LEMMA CellParts ==
  ASSUME NEW w \in Sizes, NEW h \in Sizes
  PROVE  /\ \A c \in Cells(w, h) : c = <<c[1], c[2]>> /\ c[1] \in 0..w - 1 /\ c[2] \in 0..h - 1
         /\ \A x \in 0..w - 1, y \in 0..h - 1 : <<x, y>> \in Cells(w, h)
BY DEF Cells, Sizes

\* The pixels of a picture turned clockwise, from those of the picture.
Quarter(w, h, f) == [c \in Cells(h, w) |-> f[<<c[2], h - 1 - c[1]>>]]

LEMMA QuarterParts ==
  ASSUME NEW w \in Sizes, NEW h \in Sizes, NEW f \in Frames(w, h)
  PROVE  /\ Clockwise(Image(w, h, f)) = Image(h, w, Quarter(w, h, f))
         /\ Quarter(w, h, f) \in Frames(h, w)
         /\ \A x \in 0..h - 1, y \in 0..w - 1 : Quarter(w, h, f)[<<x, y>>] = f[<<y, h - 1 - x>>]
<1>1. \A c \in Cells(h, w) : <<c[2], h - 1 - c[1]>> \in Cells(w, h)
  <2>. SUFFICES ASSUME NEW c \in Cells(h, w) PROVE <<c[2], h - 1 - c[1]>> \in Cells(w, h)
    OBVIOUS
  <2>1. c[1] \in 0..h - 1 /\ c[2] \in 0..w - 1
    BY CellParts
  <2>2. h - 1 - c[1] \in 0..h - 1
    BY <2>1 DEF Sizes
  <2>. QED
    BY <2>1, <2>2, CellParts
<1>2. \A x \in 0..h - 1, y \in 0..w - 1 : <<x, y>> \in Cells(h, w)
  BY CellParts
<1>. QED
  BY <1>1, <1>2 DEF Clockwise, Image, Quarter, Frames

LEMMA HalfParts ==
  ASSUME NEW w \in Sizes, NEW h \in Sizes, NEW f \in Frames(w, h)
  PROVE  LET half == Quarter(h, w, Quarter(w, h, f)) IN
         /\ Clockwise(Clockwise(Image(w, h, f))) = Image(w, h, half)
         /\ half \in Frames(w, h)
         /\ \A x \in 0..w - 1, y \in 0..h - 1 : half[<<x, y>>] = f[<<w - 1 - x, h - 1 - y>>]
<1>. DEFINE g == Quarter(w, h, f)
<1>1. /\ Clockwise(Image(w, h, f)) = Image(h, w, g) /\ g \in Frames(h, w)
      /\ \A x \in 0..h - 1, y \in 0..w - 1 : g[<<x, y>>] = f[<<y, h - 1 - x>>]
  BY QuarterParts
<1>. HIDE DEF g
<1>2. /\ Clockwise(Image(h, w, g)) = Image(w, h, Quarter(h, w, g))
      /\ Quarter(h, w, g) \in Frames(w, h)
      /\ \A x \in 0..w - 1, y \in 0..h - 1 : Quarter(h, w, g)[<<x, y>>] = g[<<y, w - 1 - x>>]
  BY <1>1, QuarterParts
<1>3. ASSUME NEW x \in 0..w - 1, NEW y \in 0..h - 1
      PROVE  Quarter(h, w, g)[<<x, y>>] = f[<<w - 1 - x, h - 1 - y>>]
  <2>1. w - 1 - x \in 0..w - 1
    BY DEF Sizes
  <2>. QED
    BY <1>1, <1>2, <2>1
<1>. QED
  BY <1>1, <1>2, <1>3 DEF g

\* Four quarters are a whole turn.
LEMMA FourQuarters ==
  ASSUME NEW w \in Sizes, NEW h \in Sizes, NEW f \in Frames(w, h)
  PROVE  Clockwise(Clockwise(Clockwise(Clockwise(Image(w, h, f))))) = Image(w, h, f)
<1>. DEFINE half == Quarter(h, w, Quarter(w, h, f))
            whole == Quarter(h, w, Quarter(w, h, half))
<1>1. /\ Clockwise(Clockwise(Image(w, h, f))) = Image(w, h, half)
      /\ half \in Frames(w, h)
      /\ \A x \in 0..w - 1, y \in 0..h - 1 : half[<<x, y>>] = f[<<w - 1 - x, h - 1 - y>>]
  BY HalfParts
<1>. HIDE DEF half
<1>2. /\ Clockwise(Clockwise(Image(w, h, half))) = Image(w, h, whole)
      /\ whole \in Frames(w, h)
      /\ \A x \in 0..w - 1, y \in 0..h - 1 : whole[<<x, y>>] = half[<<w - 1 - x, h - 1 - y>>]
  BY <1>1, HalfParts
<1>. HIDE DEF whole
<1>3. ASSUME NEW c \in Cells(w, h) PROVE whole[c] = f[c]
  <2>1. c = <<c[1], c[2]>> /\ c[1] \in 0..w - 1 /\ c[2] \in 0..h - 1
    BY CellParts
  <2>2. w - 1 - c[1] \in 0..w - 1 /\ h - 1 - c[2] \in 0..h - 1
    BY <2>1 DEF Sizes
  <2>3. whole[<<c[1], c[2]>>] = half[<<w - 1 - c[1], h - 1 - c[2]>>]
    BY <1>2, <2>1
  <2>4. half[<<w - 1 - c[1], h - 1 - c[2]>>] = f[<<w - 1 - (w - 1 - c[1]), h - 1 - (h - 1 - c[2])>>]
    BY <1>1, <2>2
  <2>5. w - 1 - (w - 1 - c[1]) = c[1] /\ h - 1 - (h - 1 - c[2]) = c[2]
    BY <2>1 DEF Sizes
  <2>. QED
    BY <2>1, <2>3, <2>4, <2>5
<1>4. whole = f
  BY <1>2, <1>3 DEF Frames
<1>. QED
  BY <1>1, <1>2, <1>4

\* The images of these pixels.
IsImage(i) ==
    \E w, h \in Sizes : \E f \in Frames(w, h) : i = Image(w, h, f)

LEMMA ClockwiseParts ==
  ASSUME NEW i, IsImage(i)
  PROVE  /\ IsImage(Clockwise(i))
         /\ Clockwise(Clockwise(Clockwise(Clockwise(i)))) = i
BY QuarterParts, FourQuarters DEF IsImage

LEMMA QuartersType ==
  ASSUME NEW i, IsImage(i), NEW n \in Int
  PROVE  IsImage(Quarters(i, n))
<1>1. /\ IsImage(Clockwise(i)) /\ IsImage(Clockwise(Clockwise(i)))
      /\ IsImage(Clockwise(Clockwise(Clockwise(i))))
  BY ClockwiseParts
<1>2. n % 4 \in {0, 1, 2, 3}
  OBVIOUS
<1>. QED
  BY <1>1, <1>2 DEF Quarters

\* Turns add up.
LEMMA QuartersAdd ==
  ASSUME NEW i, IsImage(i), NEW m \in Int, NEW n \in Int
  PROVE  Quarters(Quarters(i, m), n) = Quarters(i, m + n)
<1>. DEFINE one == Clockwise(i)
            two == Clockwise(one)
            three == Clockwise(two)
<1>1. Clockwise(three) = i
  BY ClockwiseParts
<1>2. /\ m % 4 \in {0, 1, 2, 3} /\ n % 4 \in {0, 1, 2, 3}
      /\ (m + n) % 4 = ((m % 4) + (n % 4)) % 4
  OBVIOUS
<1>3. /\ m % 4 = 0 => Quarters(i, m) = i
      /\ m % 4 = 1 => Quarters(i, m) = one
      /\ m % 4 = 2 => Quarters(i, m) = two
      /\ m % 4 = 3 => Quarters(i, m) = three
  BY DEF Quarters
<1>4. /\ (m + n) % 4 = 0 => Quarters(i, m + n) = i
      /\ (m + n) % 4 = 1 => Quarters(i, m + n) = one
      /\ (m + n) % 4 = 2 => Quarters(i, m + n) = two
      /\ (m + n) % 4 = 3 => Quarters(i, m + n) = three
  BY DEF Quarters
<1>5. \A j : /\ n % 4 = 0 => Quarters(j, n) = j
             /\ n % 4 = 1 => Quarters(j, n) = Clockwise(j)
             /\ n % 4 = 2 => Quarters(j, n) = Clockwise(Clockwise(j))
             /\ n % 4 = 3 => Quarters(j, n) = Clockwise(Clockwise(Clockwise(j)))
  BY DEF Quarters
<1>6. CASE m % 4 = 0
  BY <1>2, <1>3, <1>4, <1>5, <1>6
<1>7. CASE m % 4 = 1
  BY <1>1, <1>2, <1>3, <1>4, <1>5, <1>7
<1>8. CASE m % 4 = 2
  BY <1>1, <1>2, <1>3, <1>4, <1>5, <1>8
<1>9. CASE m % 4 = 3
  BY <1>1, <1>2, <1>3, <1>4, <1>5, <1>9
<1>. QED
  BY <1>2, <1>6, <1>7, <1>8, <1>9

-----------------------------------------------------------------------------
(* Orientations.                                                           *)

UprightW(o, w, h) == IF o >= 5 THEN h ELSE w
UprightH(o, w, h) == IF o >= 5 THEN w ELSE h

\* The stored pixel that is at a, b when the orientation is undone.
Source(o, w, h, a, b) ==
    IF o = 1 THEN <<a, b>>
    ELSE IF o = 2 THEN <<w - 1 - a, b>>
    ELSE IF o = 3 THEN <<w - 1 - a, h - 1 - b>>
    ELSE IF o = 4 THEN <<a, h - 1 - b>>
    ELSE IF o = 5 THEN <<b, a>>
    ELSE IF o = 6 THEN <<b, h - 1 - a>>
    ELSE IF o = 7 THEN <<w - 1 - b, h - 1 - a>>
    ELSE <<w - 1 - b, a>>

LEMMA UprightCases ==
  ASSUME NEW o \in Orientations, NEW w, NEW h, NEW x, NEW y
  PROVE  /\ o = 1 => Upright(o, w, h, x, y) = <<x, y>>
         /\ o = 2 => Upright(o, w, h, x, y) = <<w - 1 - x, y>>
         /\ o = 3 => Upright(o, w, h, x, y) = <<w - 1 - x, h - 1 - y>>
         /\ o = 4 => Upright(o, w, h, x, y) = <<x, h - 1 - y>>
         /\ o = 5 => Upright(o, w, h, x, y) = <<y, x>>
         /\ o = 6 => Upright(o, w, h, x, y) = <<h - 1 - y, x>>
         /\ o = 7 => Upright(o, w, h, x, y) = <<h - 1 - y, w - 1 - x>>
         /\ o = 8 => Upright(o, w, h, x, y) = <<y, w - 1 - x>>
BY DEF Upright

LEMMA UprightBack ==
  ASSUME NEW o \in Orientations, NEW w \in Sizes, NEW h \in Sizes,
         NEW s \in Cells(w, h)
  PROVE  LET c == Upright(o, w, h, s[1], s[2]) IN
         /\ c \in Cells(UprightW(o, w, h), UprightH(o, w, h))
         /\ Source(o, w, h, c[1], c[2]) = s
<1>1. s = <<s[1], s[2]>> /\ s[1] \in 0..w - 1 /\ s[2] \in 0..h - 1
  BY CellParts
<1>2. w \in Nat /\ h \in Nat /\ o \in 1..8
  BY DEF Sizes, Orientations
<1>. DEFINE x == s[1]
            y == s[2]
<1>3. x \in 0..w - 1 /\ y \in 0..h - 1 /\ s = <<x, y>>
  BY <1>1
<1>. HIDE DEF x, y
<1>4. /\ w - 1 - x \in 0..w - 1 /\ w - 1 - (w - 1 - x) = x
      /\ h - 1 - y \in 0..h - 1 /\ h - 1 - (h - 1 - y) = y
  BY <1>2, <1>3
<1>5. /\ \A a \in 0..w - 1, b \in 0..h - 1 : <<a, b>> \in Cells(w, h)
      /\ \A a \in 0..h - 1, b \in 0..w - 1 : <<a, b>> \in Cells(h, w)
  BY CellParts
<1>6. CASE o = 1
  BY <1>2, <1>3, <1>4, <1>5, <1>6, UprightCases DEF UprightW, UprightH, Source, x, y
<1>7. CASE o = 2
  BY <1>2, <1>3, <1>4, <1>5, <1>7, UprightCases DEF UprightW, UprightH, Source, x, y
<1>8. CASE o = 3
  BY <1>2, <1>3, <1>4, <1>5, <1>8, UprightCases DEF UprightW, UprightH, Source, x, y
<1>9. CASE o = 4
  BY <1>2, <1>3, <1>4, <1>5, <1>9, UprightCases DEF UprightW, UprightH, Source, x, y
<1>10. CASE o = 5
  BY <1>2, <1>3, <1>4, <1>5, <1>10, UprightCases DEF UprightW, UprightH, Source, x, y
<1>11. CASE o = 6
  BY <1>2, <1>3, <1>4, <1>5, <1>11, UprightCases DEF UprightW, UprightH, Source, x, y
<1>12. CASE o = 7
  BY <1>2, <1>3, <1>4, <1>5, <1>12, UprightCases DEF UprightW, UprightH, Source, x, y
<1>13. CASE o = 8
  BY <1>2, <1>3, <1>4, <1>5, <1>13, UprightCases DEF UprightW, UprightH, Source, x, y
<1>. QED
  BY <1>2, <1>6, <1>7, <1>8, <1>9, <1>10, <1>11, <1>12, <1>13 DEF Orientations

LEMMA UprightOnto ==
  ASSUME NEW o \in Orientations, NEW w \in Sizes, NEW h \in Sizes,
         NEW c \in Cells(UprightW(o, w, h), UprightH(o, w, h))
  PROVE  LET s == Source(o, w, h, c[1], c[2]) IN
         /\ s \in Cells(w, h)
         /\ Upright(o, w, h, s[1], s[2]) = c
<1>1. w \in Nat /\ h \in Nat /\ o \in 1..8
  BY DEF Sizes, Orientations
<1>2. UprightW(o, w, h) \in Sizes /\ UprightH(o, w, h) \in Sizes
  BY DEF UprightW, UprightH
<1>. DEFINE a == c[1]
            b == c[2]
<1>3. c = <<a, b>> /\ a \in 0..UprightW(o, w, h) - 1 /\ b \in 0..UprightH(o, w, h) - 1
  BY <1>2, CellParts
<1>. HIDE DEF a, b
<1>4. \A n \in Nat : \A i \in 0..n - 1 : n - 1 - i \in 0..n - 1 /\ n - 1 - (n - 1 - i) = i
  OBVIOUS
<1>5. \A x \in 0..w - 1, y \in 0..h - 1 : <<x, y>> \in Cells(w, h)
  BY CellParts
<1>6. CASE o = 1
  BY <1>1, <1>3, <1>4, <1>5, <1>6, UprightCases DEF UprightW, UprightH, Source, a, b
<1>7. CASE o = 2
  BY <1>1, <1>3, <1>4, <1>5, <1>7, UprightCases DEF UprightW, UprightH, Source, a, b
<1>8. CASE o = 3
  BY <1>1, <1>3, <1>4, <1>5, <1>8, UprightCases DEF UprightW, UprightH, Source, a, b
<1>9. CASE o = 4
  BY <1>1, <1>3, <1>4, <1>5, <1>9, UprightCases DEF UprightW, UprightH, Source, a, b
<1>10. CASE o = 5
  BY <1>1, <1>3, <1>4, <1>5, <1>10, UprightCases DEF UprightW, UprightH, Source, a, b
<1>11. CASE o = 6
  BY <1>1, <1>3, <1>4, <1>5, <1>11, UprightCases DEF UprightW, UprightH, Source, a, b
<1>12. CASE o = 7
  BY <1>1, <1>3, <1>4, <1>5, <1>12, UprightCases DEF UprightW, UprightH, Source, a, b
<1>13. CASE o = 8
  BY <1>1, <1>3, <1>4, <1>5, <1>13, UprightCases DEF UprightW, UprightH, Source, a, b
<1>. QED
  BY <1>1, <1>6, <1>7, <1>8, <1>9, <1>10, <1>11, <1>12, <1>13

\* A picture as it is stored, and its pixels when the orientation is undone.
Stored(w, h, o, f) == [w |-> w, h |-> h, orientation |-> o, at |-> f]

Undone(o, w, h, f) ==
    [c \in Cells(UprightW(o, w, h), UprightH(o, w, h)) |-> f[Source(o, w, h, c[1], c[2])]]

\* What a viewer shows is the picture with its orientation undone.
LEMMA ShownParts ==
  ASSUME NEW o \in Orientations, NEW w \in Sizes, NEW h \in Sizes, NEW f \in Frames(w, h)
  PROVE  /\ Shown(Stored(w, h, o, f))
                = Image(UprightW(o, w, h), UprightH(o, w, h), Undone(o, w, h, f))
         /\ Undone(o, w, h, f) \in Frames(UprightW(o, w, h), UprightH(o, w, h))
         /\ \A s \in Cells(w, h) : Undone(o, w, h, f)[Upright(o, w, h, s[1], s[2])] = f[s]
<1>. DEFINE p == Stored(w, h, o, f)
<1>1. p.w = w /\ p.h = h /\ p.orientation = o /\ p.at = f
  BY DEF Stored
<1>. HIDE DEF p
<1>2. ASSUME o = 1
      PROVE  Shown(p) = Image(UprightW(o, w, h), UprightH(o, w, h), Undone(o, w, h, f))
  <2>1. FirstRow[o] = "top" /\ FirstColumn[o] = "left"
    BY <1>2 DEF FirstRow, FirstColumn
  <2>. QED
    BY <1>1, <1>2, <2>1 DEF Shown, Undone, Source, UprightW, UprightH
<1>3. ASSUME o = 2
      PROVE  Shown(p) = Image(UprightW(o, w, h), UprightH(o, w, h), Undone(o, w, h, f))
  <2>1. FirstRow[o] = "top" /\ FirstColumn[o] = "right"
    BY <1>3 DEF FirstRow, FirstColumn
  <2>. QED
    BY <1>1, <1>3, <2>1 DEF Shown, Undone, Source, UprightW, UprightH
<1>4. ASSUME o = 3
      PROVE  Shown(p) = Image(UprightW(o, w, h), UprightH(o, w, h), Undone(o, w, h, f))
  <2>1. FirstRow[o] = "bottom" /\ FirstColumn[o] = "right"
    BY <1>4 DEF FirstRow, FirstColumn
  <2>. QED
    BY <1>1, <1>4, <2>1 DEF Shown, Undone, Source, UprightW, UprightH
<1>5. ASSUME o = 4
      PROVE  Shown(p) = Image(UprightW(o, w, h), UprightH(o, w, h), Undone(o, w, h, f))
  <2>1. FirstRow[o] = "bottom" /\ FirstColumn[o] = "left"
    BY <1>5 DEF FirstRow, FirstColumn
  <2>. QED
    BY <1>1, <1>5, <2>1 DEF Shown, Undone, Source, UprightW, UprightH
<1>6. ASSUME o = 5
      PROVE  Shown(p) = Image(UprightW(o, w, h), UprightH(o, w, h), Undone(o, w, h, f))
  <2>1. FirstRow[o] = "left" /\ FirstColumn[o] = "top"
    BY <1>6 DEF FirstRow, FirstColumn
  <2>. QED
    BY <1>1, <1>6, <2>1 DEF Shown, Undone, Source, UprightW, UprightH
<1>7. ASSUME o = 6
      PROVE  Shown(p) = Image(UprightW(o, w, h), UprightH(o, w, h), Undone(o, w, h, f))
  <2>1. FirstRow[o] = "right" /\ FirstColumn[o] = "top"
    BY <1>7 DEF FirstRow, FirstColumn
  <2>. QED
    BY <1>1, <1>7, <2>1 DEF Shown, Undone, Source, UprightW, UprightH
<1>8. ASSUME o = 7
      PROVE  Shown(p) = Image(UprightW(o, w, h), UprightH(o, w, h), Undone(o, w, h, f))
  <2>1. FirstRow[o] = "right" /\ FirstColumn[o] = "bottom"
    BY <1>8 DEF FirstRow, FirstColumn
  <2>. QED
    BY <1>1, <1>8, <2>1 DEF Shown, Undone, Source, UprightW, UprightH
<1>9. ASSUME o = 8
      PROVE  Shown(p) = Image(UprightW(o, w, h), UprightH(o, w, h), Undone(o, w, h, f))
  <2>1. FirstRow[o] = "left" /\ FirstColumn[o] = "bottom"
    BY <1>9 DEF FirstRow, FirstColumn
  <2>. QED
    BY <1>1, <1>9, <2>1 DEF Shown, Undone, Source, UprightW, UprightH
<1>10. Undone(o, w, h, f) \in Frames(UprightW(o, w, h), UprightH(o, w, h))
  BY UprightOnto DEF Undone, Frames
<1>11. \A s \in Cells(w, h) : Undone(o, w, h, f)[Upright(o, w, h, s[1], s[2])] = f[s]
  BY UprightBack DEF Undone
<1>12. Shown(p) = Image(UprightW(o, w, h), UprightH(o, w, h), Undone(o, w, h, f))
  BY <1>2, <1>3, <1>4, <1>5, <1>6, <1>7, <1>8, <1>9 DEF Orientations, p
<1>. QED
  BY <1>10, <1>11, <1>12 DEF p

-----------------------------------------------------------------------------
(* Turns of the pixels.                                                    *)

TurnedW(degrees, w, h) == IF degrees = 180 THEN w ELSE h
TurnedH(degrees, w, h) == IF degrees = 180 THEN h ELSE w

\* The cell that a turn takes to c.
TurnedFrom(degrees, w, h, c) ==
    IF degrees = 90 THEN <<c[2], h - 1 - c[1]>>
    ELSE IF degrees = -90 THEN <<w - 1 - c[2], c[1]>>
    ELSE <<w - 1 - c[1], h - 1 - c[2]>>

LEMMA TurnedCases ==
  ASSUME NEW degrees \in Rotations, NEW w, NEW h, NEW c
  PROVE  /\ degrees = 90 => Turned(degrees, w, h, c) = <<h - 1 - c[2], c[1]>>
         /\ degrees = -90 => Turned(degrees, w, h, c) = <<c[2], w - 1 - c[1]>>
         /\ degrees = 180 => Turned(degrees, w, h, c) = <<w - 1 - c[1], h - 1 - c[2]>>
BY DEF Turned

LEMMA TurnedBack ==
  ASSUME NEW degrees \in Rotations, NEW w \in Sizes, NEW h \in Sizes, NEW b \in Cells(w, h)
  PROVE  LET c == Turned(degrees, w, h, b) IN
         /\ c \in Cells(TurnedW(degrees, w, h), TurnedH(degrees, w, h))
         /\ TurnedFrom(degrees, w, h, c) = b
<1>. DEFINE x == b[1]
            y == b[2]
<1>1. b = <<x, y>> /\ x \in 0..w - 1 /\ y \in 0..h - 1 /\ w \in Nat /\ h \in Nat
  BY CellParts DEF Sizes
<1>. HIDE DEF x, y
<1>2. /\ w - 1 - x \in 0..w - 1 /\ w - 1 - (w - 1 - x) = x
      /\ h - 1 - y \in 0..h - 1 /\ h - 1 - (h - 1 - y) = y
  BY <1>1
<1>3. /\ \A i \in 0..w - 1, j \in 0..h - 1 : <<i, j>> \in Cells(w, h)
      /\ \A i \in 0..h - 1, j \in 0..w - 1 : <<i, j>> \in Cells(h, w)
  BY CellParts
<1>4. CASE degrees = 90
  BY <1>1, <1>2, <1>3, <1>4, TurnedCases DEF TurnedW, TurnedH, TurnedFrom, x, y
<1>5. CASE degrees = -90
  BY <1>1, <1>2, <1>3, <1>5, TurnedCases DEF TurnedW, TurnedH, TurnedFrom, x, y
<1>6. CASE degrees = 180
  BY <1>1, <1>2, <1>3, <1>6, TurnedCases DEF TurnedW, TurnedH, TurnedFrom, x, y
<1>. QED
  BY <1>4, <1>5, <1>6 DEF Rotations

LEMMA TurnedOnto ==
  ASSUME NEW degrees \in Rotations, NEW w \in Sizes, NEW h \in Sizes,
         NEW c \in Cells(TurnedW(degrees, w, h), TurnedH(degrees, w, h))
  PROVE  LET b == TurnedFrom(degrees, w, h, c) IN
         /\ b \in Cells(w, h)
         /\ Turned(degrees, w, h, b) = c
<1>. DEFINE x == c[1]
            y == c[2]
<1>1. TurnedW(degrees, w, h) \in Sizes /\ TurnedH(degrees, w, h) \in Sizes
  BY DEF TurnedW, TurnedH
<1>2. /\ c = <<x, y>> /\ w \in Nat /\ h \in Nat
      /\ x \in 0..TurnedW(degrees, w, h) - 1 /\ y \in 0..TurnedH(degrees, w, h) - 1
  BY <1>1, CellParts DEF Sizes
<1>. HIDE DEF x, y
<1>3. \A n \in Nat : \A i \in 0..n - 1 : n - 1 - i \in 0..n - 1 /\ n - 1 - (n - 1 - i) = i
  OBVIOUS
<1>4. \A i \in 0..w - 1, j \in 0..h - 1 : <<i, j>> \in Cells(w, h)
  BY CellParts
<1>5. CASE degrees = 90
  BY <1>2, <1>3, <1>4, <1>5, TurnedCases DEF TurnedW, TurnedH, TurnedFrom, x, y
<1>6. CASE degrees = -90
  BY <1>2, <1>3, <1>4, <1>6, TurnedCases DEF TurnedW, TurnedH, TurnedFrom, x, y
<1>7. CASE degrees = 180
  BY <1>2, <1>3, <1>4, <1>7, TurnedCases DEF TurnedW, TurnedH, TurnedFrom, x, y
<1>. QED
  BY <1>5, <1>6, <1>7 DEF Rotations

\* The pixels of a picture of w by h turned by the CSS of the preview.
TurnedFrame(degrees, w, h, g) ==
    [c \in Cells(TurnedW(degrees, w, h), TurnedH(degrees, w, h)) |-> g[TurnedFrom(degrees, w, h, c)]]

LEMMA TurnParts ==
  ASSUME NEW degrees \in Rotations, NEW w \in Sizes, NEW h \in Sizes, NEW g \in Frames(w, h)
  PROVE  /\ Turns(Image(w, h, g), degrees)
                = Image(TurnedW(degrees, w, h), TurnedH(degrees, w, h), TurnedFrame(degrees, w, h, g))
         /\ TurnedFrame(degrees, w, h, g) \in Frames(TurnedW(degrees, w, h), TurnedH(degrees, w, h))
<1>1. TurnedFrame(degrees, w, h, g) \in Frames(TurnedW(degrees, w, h), TurnedH(degrees, w, h))
  BY TurnedOnto DEF TurnedFrame, Frames
<1>. DEFINE i == Image(w, h, g)
            one == Quarter(w, h, g)
            two == Quarter(h, w, one)
            three == Quarter(w, h, two)
<1>2. /\ degrees = 90 => Turns(i, degrees) = Clockwise(i)
      /\ degrees = 180 => Turns(i, degrees) = Clockwise(Clockwise(i))
      /\ degrees = -90 => Turns(i, degrees) = Clockwise(Clockwise(Clockwise(i)))
  BY DEF Turns, Normalize, Quarters
<1>3. /\ Clockwise(i) = Image(h, w, one) /\ one \in Frames(h, w)
      /\ \A x \in 0..h - 1, y \in 0..w - 1 : one[<<x, y>>] = g[<<y, h - 1 - x>>]
  BY QuarterParts
<1>4. /\ Clockwise(Clockwise(i)) = Image(w, h, two) /\ two \in Frames(w, h)
      /\ \A x \in 0..w - 1, y \in 0..h - 1 : two[<<x, y>>] = g[<<w - 1 - x, h - 1 - y>>]
  BY HalfParts
<1>. HIDE DEF two
<1>5. /\ Clockwise(Clockwise(Clockwise(i))) = Image(h, w, three) /\ three \in Frames(h, w)
      /\ \A x \in 0..h - 1, y \in 0..w - 1 : three[<<x, y>>] = two[<<y, h - 1 - x>>]
  BY <1>4, QuarterParts
<1>. HIDE DEF one, three, i
<1>6. ASSUME NEW a \in 0..h - 1, NEW b \in 0..w - 1
      PROVE  three[<<a, b>>] = g[<<w - 1 - b, a>>]
  <2>1. h - 1 - a \in 0..h - 1 /\ h - 1 - (h - 1 - a) = a
    BY DEF Sizes
  <2>2. two[<<b, h - 1 - a>>] = g[<<w - 1 - b, h - 1 - (h - 1 - a)>>]
    BY <1>4, <2>1
  <2>. QED
    BY <1>5, <2>1, <2>2
<1>7. /\ \A c \in Cells(w, h) : c = <<c[1], c[2]>> /\ c[1] \in 0..w - 1 /\ c[2] \in 0..h - 1
      /\ \A c \in Cells(h, w) : c = <<c[1], c[2]>> /\ c[1] \in 0..h - 1 /\ c[2] \in 0..w - 1
  BY CellParts
<1>8. degrees = 90 => one = TurnedFrame(degrees, w, h, g)
  <2>. SUFFICES ASSUME degrees = 90 PROVE one = [c \in Cells(h, w) |-> g[<<c[2], h - 1 - c[1]>>]]
    BY DEF TurnedFrame, TurnedW, TurnedH, TurnedFrom
  <2>1. \A c \in Cells(h, w) : one[c] = g[<<c[2], h - 1 - c[1]>>]
    BY <1>3, <1>7
  <2>. QED
    BY <1>3, <2>1 DEF Frames
<1>9. degrees = 180 => two = TurnedFrame(degrees, w, h, g)
  <2>. SUFFICES ASSUME degrees = 180 PROVE two = [c \in Cells(w, h) |-> g[<<w - 1 - c[1], h - 1 - c[2]>>]]
    BY DEF TurnedFrame, TurnedW, TurnedH, TurnedFrom
  <2>1. \A c \in Cells(w, h) : two[c] = g[<<w - 1 - c[1], h - 1 - c[2]>>]
    BY <1>4, <1>7
  <2>. QED
    BY <1>4, <2>1 DEF Frames
<1>10. degrees = -90 => three = TurnedFrame(degrees, w, h, g)
  <2>. SUFFICES ASSUME degrees = -90 PROVE three = [c \in Cells(h, w) |-> g[<<w - 1 - c[2], c[1]>>]]
    BY DEF TurnedFrame, TurnedW, TurnedH, TurnedFrom
  <2>1. \A c \in Cells(h, w) : three[c] = g[<<w - 1 - c[2], c[1]>>]
    BY <1>6, <1>7
  <2>. QED
    BY <1>5, <2>1 DEF Frames
<1>11. Turns(i, degrees) = Image(TurnedW(degrees, w, h), TurnedH(degrees, w, h),
                                 TurnedFrame(degrees, w, h, g))
  BY <1>2, <1>3, <1>4, <1>5, <1>8, <1>9, <1>10 DEF Rotations, TurnedW, TurnedH
<1>. QED
  BY <1>1, <1>11 DEF i

\* RotatePhoto stores an upright picture that shows what the viewer saw, turned:
\* for every size, orientation and turn (photo_rotation.go).
LEMMA RotationShown ==
  ASSUME NEW degrees \in Rotations, NEW o \in Orientations, NEW w \in Sizes, NEW h \in Sizes,
         NEW f \in Frames(w, h)
  PROVE  \E tw, th \in Sizes : \E t \in Frames(tw, th) :
            /\ RotatePixels(Stored(w, h, o, f), degrees) = Stored(tw, th, 1, t)
            /\ Shown(Stored(tw, th, 1, t)) = Turns(Shown(Stored(w, h, o, f)), degrees)
<1>. DEFINE p == Stored(w, h, o, f)
            uw == UprightW(o, w, h)
            uh == UprightH(o, w, h)
            tw == TurnedW(degrees, uw, uh)
            th == TurnedH(degrees, uw, uh)
            g == Undone(o, w, h, f)
            t == TurnedFrame(degrees, uw, uh, g)
            from(c) == CHOOSE s \in Cells(w, h) :
                           c = Turned(degrees, uw, uh, Upright(o, w, h, s[1], s[2]))
<1>1. uw \in Sizes /\ uh \in Sizes
  BY DEF UprightW, UprightH
<1>2. tw \in Sizes /\ th \in Sizes
  BY <1>1 DEF TurnedW, TurnedH
<1>3. /\ Shown(p) = Image(uw, uh, g) /\ g \in Frames(uw, uh)
      /\ \A s \in Cells(w, h) : g[Upright(o, w, h, s[1], s[2])] = f[s]
  BY ShownParts
<1>4. /\ \A s \in Cells(w, h) : /\ Upright(o, w, h, s[1], s[2]) \in Cells(uw, uh)
                                /\ LET c == Upright(o, w, h, s[1], s[2]) IN Source(o, w, h, c[1], c[2]) = s
      /\ \A c \in Cells(uw, uh) : \E s \in Cells(w, h) : Upright(o, w, h, s[1], s[2]) = c
  BY UprightBack, UprightOnto
<1>. HIDE DEF uw, uh, g
<1>5. Turns(Image(uw, uh, g), degrees) = Image(tw, th, t) /\ t \in Frames(tw, th)
  BY <1>1, <1>3, TurnParts
<1>6. /\ \A b \in Cells(uw, uh) : TurnedFrom(degrees, uw, uh, Turned(degrees, uw, uh, b)) = b
      /\ \A c \in Cells(tw, th) : /\ TurnedFrom(degrees, uw, uh, c) \in Cells(uw, uh)
                                  /\ Turned(degrees, uw, uh, TurnedFrom(degrees, uw, uh, c)) = c
  BY <1>1, TurnedBack, TurnedOnto
<1>7. ASSUME NEW c \in Cells(tw, th)
      PROVE  f[from(c)] = t[c]
  <2>1. PICK s \in Cells(w, h) : Upright(o, w, h, s[1], s[2]) = TurnedFrom(degrees, uw, uh, c)
    BY <1>4, <1>6
  <2>2. c = Turned(degrees, uw, uh, Upright(o, w, h, s[1], s[2]))
    BY <1>6, <2>1
  <2>. DEFINE chosen == from(c)
  <2>3. chosen \in Cells(w, h) /\ c = Turned(degrees, uw, uh, Upright(o, w, h, chosen[1], chosen[2]))
    BY <2>2
  <2>. HIDE DEF chosen
  <2>4. Upright(o, w, h, chosen[1], chosen[2]) = TurnedFrom(degrees, uw, uh, c)
    BY <1>4, <1>6, <2>3
  <2>5. chosen = s
    BY <1>4, <2>1, <2>3, <2>4
  <2>6. t[c] = g[TurnedFrom(degrees, uw, uh, c)]
    BY DEF TurnedFrame
  <2>. QED
    BY <1>3, <2>1, <2>5, <2>6 DEF chosen
<1>8. RotatePixels(p, degrees) = Stored(tw, th, 1, t)
  <2>1. p.w = w /\ p.h = h /\ p.orientation = o /\ p.at = f
    BY DEF Stored
  <2>2. UprightWidth(p) = uw /\ UprightHeight(p) = uh
    BY <2>1 DEF UprightWidth, UprightHeight, UprightW, UprightH, uw, uh
  <2>. HIDE DEF p
  <2>3. RotatePixels(p, degrees) = [w |-> tw, h |-> th, orientation |-> 1,
                                    at |-> [c \in Cells(tw, th) |-> f[from(c)]]]
    BY <2>1, <2>2 DEF RotatePixels, TurnedW, TurnedH
  <2>4. [c \in Cells(tw, th) |-> f[from(c)]] = t
    BY <1>5, <1>7 DEF Frames
  <2>. QED
    BY <2>3, <2>4 DEF Stored
<1>. HIDE DEF tw, th, t
<1>9. Shown(Stored(tw, th, 1, t)) = Image(tw, th, t)
  <2>1. 1 \in Orientations
    BY DEF Orientations
  <2>2. Shown(Stored(tw, th, 1, t)) = Image(tw, th, Undone(1, tw, th, t))
    BY <1>2, <1>5, <2>1, ShownParts DEF UprightW, UprightH
  <2>3. \A c \in Cells(tw, th) : c = <<c[1], c[2]>>
    BY <1>2, CellParts
  <2>4. Undone(1, tw, th, t) = t
    BY <1>5, <2>3 DEF Undone, Source, UprightW, UprightH, Frames
  <2>. QED
    BY <2>2, <2>4
<1>. QED
  BY <1>2, <1>3, <1>5, <1>8, <1>9

-----------------------------------------------------------------------------
(* Markers.                                                                *)

LEMMA MiddleDivided ==
  ASSUME NEW n \in Sizes, NEW k \in Nat
  PROVE  ((2 * k + 1) * n) \div (2 * n) = k
<1>1. n \in Nat /\ n > 0 /\ 2 * n > 0
  BY DEF Sizes
<1>2. (2 * k + 1) * n = (2 * n) * k + n
  BY <1>1
<1>. DEFINE d == 2 * n
            a == (2 * n) * k + n
            q == a \div d
<1>3. d \in Nat /\ d > 0 /\ n < d /\ a \in Nat /\ a = d * k + n
  BY <1>1
<1>. HIDE DEF d
<1>4. q \in Int /\ d * q <= a /\ a < d * q + d
  <2>. HIDE DEF a
  <2>. QED
    BY <1>3
<1>. HIDE DEF q, a
<1>5. ~(q >= k + 1)
  <2>. SUFFICES ASSUME q >= k + 1 PROVE FALSE
    OBVIOUS
  <2>1. d * q >= d * (k + 1)
    BY <1>3, <1>4
  <2>2. d * (k + 1) = d * k + d
    BY <1>3
  <2>. QED
    BY <1>1, <1>3, <1>4, <2>1, <2>2
<1>6. ~(q + 1 <= k)
  <2>. SUFFICES ASSUME q + 1 <= k PROVE FALSE
    OBVIOUS
  <2>1. d * (q + 1) <= d * k
    BY <1>3, <1>4
  <2>2. d * (q + 1) = d * q + d
    BY <1>3, <1>4
  <2>. QED
    BY <1>1, <1>3, <1>4, <2>1, <2>2
<1>7. q = k
  BY <1>4, <1>5, <1>6
<1>. QED
  BY <1>2, <1>7 DEF q, a, d

\* The middle of a cell is in the cell (PhotoDialog.jsx places markers there).
LEMMA MiddleIn ==
  ASSUME NEW w \in Sizes, NEW h \in Sizes, NEW g \in Frames(w, h), NEW c \in Cells(w, h)
  PROVE  PixelAt(Image(w, h, g), MiddleX(c, w, h), MiddleY(c, w, h)) = g[c]
<1>1. c = <<c[1], c[2]>> /\ c[1] \in Nat /\ c[2] \in Nat
  BY CellParts DEF Sizes
<1>. DEFINE x == c[1]
            y == c[2]
            n == w * h
<1>2. w \in Nat /\ h \in Nat /\ w > 0 /\ h > 0 /\ x \in Nat /\ y \in Nat
  BY <1>1 DEF Sizes
<1>3. n \in Sizes
  <2>1. w * h \in Nat /\ w * h > 0
    BY <1>2
  <2>. QED
    BY <2>1 DEF Sizes
<1>. HIDE DEF x, y
<1>4. /\ ((2 * x + 1) * h) * w = (2 * x + 1) * n
      /\ ((2 * y + 1) * w) * h = (2 * y + 1) * n
      /\ 2 * w * h = 2 * n
  BY <1>2
<1>. HIDE DEF n
<1>5. /\ (((2 * x + 1) * h) * w) \div (2 * w * h) = x
      /\ (((2 * y + 1) * w) * h) \div (2 * w * h) = y
  BY <1>2, <1>3, <1>4, MiddleDivided
<1>. DEFINE i == Image(w, h, g)
<1>6. i.w = w /\ i.h = h /\ i.at = g
  BY DEF Image
<1>. HIDE DEF i
<1>7. PixelAt(i, MiddleX(c, w, h), MiddleY(c, w, h)) = g[<<x, y>>]
  BY <1>5, <1>6 DEF PixelAt, MiddleX, MiddleY, Scale, x, y
<1>. QED
  BY <1>1, <1>7 DEF x, y, i

\* A marker in the middle of a cell is in the middle of where the cell goes: the
\* UPDATE of ReplaceRotatedPhoto moves it with its pixel.
LEMMA MarkerTurned ==
  ASSUME NEW degrees \in Rotations, NEW w \in Sizes, NEW h \in Sizes, NEW c \in Cells(w, h)
  PROVE  LET b == Turned(degrees, w, h, c)
             tw == TurnedW(degrees, w, h)
             th == TurnedH(degrees, w, h)
         IN TurnMarker(degrees, Scale(w, h), MiddleX(c, w, h), MiddleY(c, w, h))
               = <<MiddleX(b, tw, th), MiddleY(b, tw, th)>>
<1>1. c = <<c[1], c[2]>> /\ c[1] \in Nat /\ c[2] \in Nat
  BY CellParts DEF Sizes
<1>. DEFINE x == c[1]
            y == c[2]
<1>2. w \in Nat /\ h \in Nat /\ x \in Nat /\ y \in Nat
  BY <1>1 DEF Sizes
<1>3. /\ MiddleX(c, w, h) = (2 * x + 1) * h /\ MiddleY(c, w, h) = (2 * y + 1) * w
      /\ Scale(w, h) = 2 * w * h
  BY DEF MiddleX, MiddleY, Scale
<1>. HIDE DEF x, y
<1>4. /\ 2 * w * h - (2 * y + 1) * w = (2 * (h - 1 - y) + 1) * w
      /\ 2 * w * h - (2 * x + 1) * h = (2 * (w - 1 - x) + 1) * h
  BY <1>2
<1>5. /\ \A s, a, b : degrees = 90 => TurnMarker(degrees, s, a, b) = <<s - b, a>>
      /\ \A s, a, b : degrees = -90 => TurnMarker(degrees, s, a, b) = <<b, s - a>>
      /\ \A s, a, b : degrees = 180 => TurnMarker(degrees, s, a, b) = <<s - a, s - b>>
  BY DEF TurnMarker
<1>6. CASE degrees = 90
  BY <1>3, <1>4, <1>5, <1>6, TurnedCases DEF TurnedW, TurnedH, MiddleX, MiddleY, x, y
<1>7. CASE degrees = -90
  BY <1>3, <1>4, <1>5, <1>7, TurnedCases DEF TurnedW, TurnedH, MiddleX, MiddleY, x, y
<1>8. CASE degrees = 180
  BY <1>3, <1>4, <1>5, <1>8, TurnedCases DEF TurnedW, TurnedH, MiddleX, MiddleY, x, y
<1>. QED
  BY <1>6, <1>7, <1>8 DEF Rotations

-----------------------------------------------------------------------------
(* The inductive invariant.                                                *)

Fits(w, h) == (w = Width /\ h = Height) \/ (w = Height /\ h = Width)

\* Every pixel of the picture taken can be seen.
Complete(i) == \A point \in Pixels : \E c \in Cells(i.w, i.h) : i.at[c] = point

AnyFrame == Frames(Width, Height) \cup Frames(Height, Width)

Views == {i \in [w : {Width, Height}, h : {Width, Height}, at : AnyFrame] :
             Fits(i.w, i.h) /\ i.at \in Frames(i.w, i.h) /\ Complete(i)}

Pictures == {p \in [w : {Width, Height}, h : {Width, Height}, orientation : Orientations,
                    at : AnyFrame] :
                Fits(p.w, p.h) /\ p.at \in Frames(p.w, p.h) /\ Shown(p) \in Views}

Photos == [picture : Pictures, key : Nat]

Dial == {0, 90, 180, 270}

Queue == [photo : Photos, current : Photos, queued : Dial, preview : Dial, timer : BOOLEAN,
          flight : {0} \cup Rotations, error : BOOLEAN, disposed : BOOLEAN, marking : BOOLEAN]

Job == [dialog : Dialogs, degrees : Rotations, sha : Pictures \X Nat,
        step : {"sent", "read", "done", "failed"}, photo : Photos, awaited : BOOLEAN,
        orphan : BOOLEAN, rest : Dial]

Place == 0..Scale(Width, Height)

Post == [dialog : Dialogs, point : Points, seen : Views, awaited : BOOLEAN, x : Place, y : Place]

Marker == [x : Place, y : Place, pointed : Points, seen : BOOLEAN, excused : BOOLEAN]

Types ==
    /\ photo \in Photos
    /\ markers \subseteq Marker
    /\ dialog \in [Dialogs -> Queue]
    /\ jobs \subseteq Job
    /\ posts \subseteq Post
    /\ wanted \in [Dialogs -> Views]
    /\ disturbed \in [Dialogs -> BOOLEAN]

\* A queue that can go on: an error ends the flight, a dialog with nothing to
\* save previews nothing, what is queued will be sent or retried.
Tidy(q) ==
    /\ q \in Queue
    /\ q.error => q.flight = 0
    /\ ~Busy(q) => q.preview = 0
    /\ q.queued # 0 => q.timer \/ q.flight # 0 \/ q.error

\* The flight of a dialog is one request, and its answer is awaited.
Flights ==
    /\ \A j \in jobs : j.awaited => j.degrees = dialog[j.dialog].flight
    /\ \A j, k \in jobs : j.awaited /\ k.awaited /\ j.dialog = k.dialog => j = k
    /\ \A d \in Dialogs : dialog[d].flight # 0 => \E j \in jobs : j.dialog = d /\ j.awaited
    /\ \A j \in jobs : j.awaited \/ disturbed[j.dialog]

Honest(q) ==
    Turns(Shown(q.photo.picture), q.preview) = Turns(Shown(q.current.picture), q.flight + q.queued)

Waiting(d, js) == \E j \in js : j.dialog = d /\ j.step # "done"

Saving(d, js) == \E j \in js : j.dialog = d /\ j.step = "done"

\* What an undisturbed dialog, its request and the server know of each other.
Agreed(d, q, js, p, image) ==
    /\ Honest(q)
    /\ ~Saving(d, js) => q.current = p
    /\ \A j \in js : j.dialog = d /\ j.step = "done" =>
           /\ j.photo = p
           /\ Shown(p.picture) = Turns(Shown(q.current.picture), q.flight)
    /\ Turns(Shown(p.picture), q.queued + (IF Waiting(d, js) THEN q.flight ELSE 0)) = image

Agreements ==
    \A d \in Dialogs : ~disturbed[d] => Agreed(d, dialog[d], jobs, photo, wanted[d])

\* x and y are the middle of where the image shows the pixel.
Middle(i, x, y, point) ==
    \E c \in Cells(i.w, i.h) : i.at[c] = point /\ x = MiddleX(c, i.w, i.h) /\ y = MiddleY(c, i.w, i.h)

\* While an open dialog awaits the answer to its marker it turns nothing.
Requests ==
    /\ \A p \in posts : p.awaited => dialog[p.dialog].marking
    /\ \A p, r \in posts : p.awaited /\ r.awaited /\ p.dialog = r.dialog => p = r
    /\ \A d \in Dialogs : dialog[d].marking =>
           ~Busy(dialog[d]) /\ \E p \in posts : p.dialog = d /\ p.awaited
    /\ \A p \in posts : Middle(p.seen, p.x, p.y, p.point)
    /\ \A p \in posts : p.awaited /\ ~disturbed[p.dialog] => p.seen = Shown(photo.picture)

Placed ==
    \A m \in markers :
        /\ m.seen => Middle(Shown(photo.picture), m.x, m.y, m.pointed)
        /\ m.seen \/ m.excused

EditingInv ==
    /\ Types
    /\ \A d \in Dialogs : Tidy(dialog[d])
    /\ Flights /\ Agreements /\ Requests /\ Placed

-----------------------------------------------------------------------------
(* Views and pictures.                                                     *)

LEMMA FitsParts ==
  /\ Width \in Sizes /\ Height \in Sizes
  /\ \A w, h : Fits(w, h) => /\ w \in Sizes /\ h \in Sizes /\ w \in {Width, Height} /\ h \in {Width, Height}
                             /\ Frames(w, h) \subseteq AnyFrame
                             /\ Scale(w, h) = Scale(Width, Height)
                             /\ Fits(h, w)
<1>1. Width \in Sizes /\ Height \in Sizes
  BY PhotoEditingAssumption DEF Sizes
<1>2. Scale(Height, Width) = Scale(Width, Height)
  BY <1>1 DEF Scale, Sizes
<1>. QED
  BY <1>1, <1>2 DEF Fits, AnyFrame

LEMMA ViewParts ==
  ASSUME NEW i \in Views
  PROVE  /\ Fits(i.w, i.h) /\ i.w \in Sizes /\ i.h \in Sizes
         /\ i.at \in Frames(i.w, i.h)
         /\ i = Image(i.w, i.h, i.at)
         /\ Complete(i)
         /\ IsImage(i)
<1>1. /\ Fits(i.w, i.h) /\ i.at \in Frames(i.w, i.h) /\ Complete(i)
      /\ i = Image(i.w, i.h, i.at)
  BY DEF Views, Image
<1>2. i.w \in Sizes /\ i.h \in Sizes
  BY <1>1, FitsParts
<1>. QED
  BY <1>1, <1>2 DEF IsImage

LEMMA ViewMade ==
  ASSUME NEW w, NEW h, Fits(w, h), NEW g \in Frames(w, h),
         \A point \in Pixels : \E c \in Cells(w, h) : g[c] = point
  PROVE  Image(w, h, g) \in Views
BY FitsParts DEF Views, Image, Complete

\* A turn of an image shows it all.
LEMMA TurnsView ==
  ASSUME NEW i \in Views, NEW degrees \in Rotations
  PROVE  Turns(i, degrees) \in Views
<1>. DEFINE w == i.w
            h == i.h
            g == i.at
            tw == TurnedW(degrees, w, h)
            th == TurnedH(degrees, w, h)
            t == TurnedFrame(degrees, w, h, g)
<1>1. /\ Fits(w, h) /\ w \in Sizes /\ h \in Sizes /\ g \in Frames(w, h) /\ i = Image(w, h, g)
      /\ \A point \in Pixels : \E c \in Cells(w, h) : g[c] = point
  BY ViewParts DEF Complete
<1>. HIDE DEF w, h, g
<1>2. Turns(i, degrees) = Image(tw, th, t) /\ t \in Frames(tw, th)
  BY <1>1, TurnParts
<1>3. Fits(tw, th)
  BY <1>1, FitsParts DEF TurnedW, TurnedH
<1>4. ASSUME NEW point \in Pixels PROVE \E c \in Cells(tw, th) : t[c] = point
  <2>1. PICK b \in Cells(w, h) : g[b] = point
    BY <1>1
  <2>2. /\ Turned(degrees, w, h, b) \in Cells(tw, th)
        /\ TurnedFrom(degrees, w, h, Turned(degrees, w, h, b)) = b
    BY <1>1, TurnedBack
  <2>3. t[Turned(degrees, w, h, b)] = point
    BY <2>1, <2>2 DEF TurnedFrame
  <2>. QED
    BY <2>2, <2>3
<1>. HIDE DEF tw, th, t
<1>. QED
  BY <1>2, <1>3, <1>4, ViewMade

LEMMA PictureParts ==
  ASSUME NEW p \in Pictures
  PROVE  /\ Fits(p.w, p.h) /\ p.w \in Sizes /\ p.h \in Sizes /\ p.orientation \in Orientations
         /\ p.at \in Frames(p.w, p.h)
         /\ p = Stored(p.w, p.h, p.orientation, p.at)
         /\ Shown(p) \in Views
BY FitsParts DEF Pictures, Stored

LEMMA PictureMade ==
  ASSUME NEW w, NEW h, Fits(w, h), NEW o \in Orientations, NEW f \in Frames(w, h),
         Shown(Stored(w, h, o, f)) \in Views
  PROVE  Stored(w, h, o, f) \in Pictures
<1>. DEFINE p == Stored(w, h, o, f)
<1>1. /\ p \in [w : {Width, Height}, h : {Width, Height}, orientation : Orientations, at : AnyFrame]
      /\ p.w = w /\ p.h = h /\ p.at = f
  BY FitsParts DEF Stored
<1>. QED
  BY <1>1 DEF Pictures

\* What RotatePhoto stores is a picture, and shows what was shown before, turned.
LEMMA RotatedPicture ==
  ASSUME NEW p \in Pictures, NEW degrees \in Rotations
  PROVE  /\ RotatePixels(p, degrees) \in Pictures
         /\ Shown(RotatePixels(p, degrees)) = Turns(Shown(p), degrees)
<1>1. /\ p.w \in Sizes /\ p.h \in Sizes /\ p.orientation \in Orientations
      /\ p.at \in Frames(p.w, p.h) /\ p = Stored(p.w, p.h, p.orientation, p.at)
      /\ Shown(p) \in Views
  BY PictureParts
<1>2. PICK tw \in Sizes, th \in Sizes : \E t \in Frames(tw, th) :
            /\ RotatePixels(p, degrees) = Stored(tw, th, 1, t)
            /\ Shown(Stored(tw, th, 1, t)) = Turns(Shown(p), degrees)
  BY <1>1, RotationShown
<1>3. PICK t \in Frames(tw, th) :
            /\ RotatePixels(p, degrees) = Stored(tw, th, 1, t)
            /\ Shown(Stored(tw, th, 1, t)) = Turns(Shown(p), degrees)
  BY <1>2
<1>4. Shown(Stored(tw, th, 1, t)) \in Views
  BY <1>1, <1>3, TurnsView
<1>5. Shown(Stored(tw, th, 1, t)).w = tw /\ Shown(Stored(tw, th, 1, t)).h = th
  <2>1. 1 \in Orientations /\ UprightW(1, tw, th) = tw /\ UprightH(1, tw, th) = th
    BY DEF Orientations, UprightW, UprightH
  <2>. QED
    BY <2>1, ShownParts DEF Image
<1>6. Fits(tw, th)
  BY <1>4, <1>5, ViewParts
<1>7. 1 \in Orientations
  BY DEF Orientations
<1>. QED
  BY <1>3, <1>4, <1>6, <1>7, PictureMade

LEMMA TakenPicture ==
  ASSUME NEW o \in Orientations
  PROVE  Taken(o) \in Pictures
<1>. DEFINE f == [c \in Cells(Width, Height) |-> c]
            uw == UprightW(o, Width, Height)
            uh == UprightH(o, Width, Height)
            g == Undone(o, Width, Height, f)
<1>1. f \in Frames(Width, Height) /\ \A c \in Cells(Width, Height) : f[c] = c
  BY DEF Frames, Pixels
<1>2. Width \in Sizes /\ Height \in Sizes /\ Fits(Width, Height)
  BY FitsParts DEF Fits
<1>3. Taken(o) = Stored(Width, Height, o, f)
  BY DEF Taken, Stored
<1>. HIDE DEF f
<1>4. /\ Shown(Taken(o)) = Image(uw, uh, g) /\ g \in Frames(uw, uh)
      /\ \A s \in Cells(Width, Height) : g[Upright(o, Width, Height, s[1], s[2])] = f[s]
  BY <1>1, <1>2, <1>3, ShownParts
<1>5. Fits(uw, uh)
  BY DEF Fits, UprightW, UprightH
<1>6. ASSUME NEW point \in Pixels PROVE \E c \in Cells(uw, uh) : g[c] = point
  <2>1. point \in Cells(Width, Height)
    BY DEF Pixels
  <2>2. Upright(o, Width, Height, point[1], point[2]) \in Cells(uw, uh)
    BY <1>2, <2>1, UprightBack
  <2>. QED
    BY <1>1, <1>4, <2>1, <2>2
<1>. HIDE DEF uw, uh, g
<1>7. Shown(Taken(o)) \in Views
  BY <1>4, <1>5, <1>6, ViewMade
<1>. QED
  BY <1>1, <1>2, <1>3, <1>7, PictureMade

-----------------------------------------------------------------------------
(* Turns by multiples of a right angle.                                    *)

Angles == {n \in Int : n % 90 = 0}

LEMMA AngleParts ==
  /\ Dial \subseteq Angles /\ {0} \cup Rotations \subseteq Angles /\ 0 \in Angles
  /\ Dial \subseteq Int /\ Angles \subseteq Int
  /\ \A a, b \in Angles : a + b \in Angles
  /\ \A a \in Angles : Normalize(a) \in Dial
BY DEF Angles, Dial, Rotations, Normalize

LEMMA TurnsZero ==
  ASSUME NEW i PROVE Turns(i, 0) = i
BY DEF Turns, Normalize, Quarters

LEMMA TurnsQuarters ==
  ASSUME NEW i, NEW a \in Angles
  PROVE  Turns(i, a) = Quarters(i, a \div 90) /\ a \div 90 \in Int
<1>1. a \in Int /\ a % 90 = 0
  BY DEF Angles
<1>. DEFINE m == (a % 360) \div 90
            n == a \div 90
<1>2. m \in Int /\ n \in Int /\ m % 4 = n % 4
  BY <1>1
<1>3. Turns(i, a) = Quarters(i, m)
  BY DEF Turns, Normalize
<1>. HIDE DEF m, n
<1>4. Quarters(i, m) = Quarters(i, n)
  BY <1>2 DEF Quarters
<1>. QED
  BY <1>2, <1>3, <1>4 DEF n

\* Turns of the screen add up, and whole turns do not count.
LEMMA TurnsAdd ==
  ASSUME NEW i \in Views, NEW a \in Angles, NEW b \in Angles
  PROVE  /\ Turns(Turns(i, a), b) = Turns(i, a + b)
         /\ Turns(i, Normalize(b)) = Turns(i, b)
         /\ Turns(i, a + Normalize(b)) = Turns(i, a + b)
<1>1. IsImage(i)
  BY ViewParts
<1>2. a + b \in Angles /\ Normalize(b) \in Angles /\ a + Normalize(b) \in Angles
  BY AngleParts
<1>3. /\ a \in Int /\ b \in Int /\ (a + b) \div 90 = (a \div 90) + (b \div 90)
  BY DEF Angles
<1>4. /\ \A j : Turns(j, b) = Quarters(j, b \div 90)
      /\ Turns(i, a) = Quarters(i, a \div 90) /\ Turns(i, a + b) = Quarters(i, (a + b) \div 90)
      /\ a \div 90 \in Int /\ b \div 90 \in Int
  BY <1>2, TurnsQuarters
<1>5. Turns(Turns(i, a), b) = Turns(i, a + b)
  <2>1. Turns(Turns(i, a), b) = Quarters(Quarters(i, a \div 90), b \div 90)
    BY <1>4
  <2>2. Quarters(Quarters(i, a \div 90), b \div 90) = Quarters(i, (a \div 90) + (b \div 90))
    BY <1>1, <1>4, QuartersAdd
  <2>. QED
    BY <1>3, <1>4, <2>1, <2>2
<1>6. Normalize(Normalize(b)) = Normalize(b) /\ Normalize(a + Normalize(b)) = Normalize(a + b)
  BY <1>3 DEF Normalize
<1>. QED
  BY <1>5, <1>6 DEF Turns

-----------------------------------------------------------------------------
(* Markers and views.                                                      *)

\* The dialog finds the pixel that was clicked and puts the marker in its middle.
LEMMA MiddleFound ==
  ASSUME NEW i \in Views, NEW point \in Pixels,
         NEW c, c = CHOOSE b \in DOMAIN i.at : i.at[b] = point
  PROVE  /\ Middle(i, MiddleX(c, i.w, i.h), MiddleY(c, i.w, i.h), point)
         /\ MiddleX(c, i.w, i.h) \in Place /\ MiddleY(c, i.w, i.h) \in Place
<1>1. /\ i.w \in Sizes /\ i.h \in Sizes /\ Complete(i) /\ Fits(i.w, i.h)
      /\ DOMAIN i.at = Cells(i.w, i.h)
  BY ViewParts DEF Frames
<1>2. c \in Cells(i.w, i.h) /\ i.at[c] = point
  BY <1>1 DEF Complete
<1>3. Middle(i, MiddleX(c, i.w, i.h), MiddleY(c, i.w, i.h), point)
  BY <1>2 DEF Middle
<1>. DEFINE x == c[1]
            y == c[2]
            w == i.w
            h == i.h
<1>4. /\ x \in Nat /\ y \in Nat /\ x <= w - 1 /\ y <= h - 1 /\ w \in Nat /\ h \in Nat
      /\ Place = 0..2 * w * h
  <2>1. Place = 0..Scale(w, h)
    BY <1>1, FitsParts DEF Place
  <2>. QED
    BY <1>1, <1>2, <2>1, CellParts DEF Sizes, Scale
<1>5. MiddleX(c, i.w, i.h) = (2 * x + 1) * h /\ MiddleY(c, i.w, i.h) = (2 * y + 1) * w
  BY DEF MiddleX, MiddleY
<1>. HIDE DEF x, y, w, h
<1>6. /\ 2 * x + 1 \in Nat /\ 2 * y + 1 \in Nat /\ 2 * x + 1 <= 2 * w /\ 2 * y + 1 <= 2 * h
  BY <1>4
<1>7. \A a, b, n \in Nat : a <= b => a * n \in Nat /\ a * n <= b * n
  OBVIOUS
<1>8. (2 * x + 1) * h \in 0..2 * w * h
  BY <1>4, <1>6, <1>7
<1>9. (2 * y + 1) * w \in 0..2 * w * h
  <2>1. (2 * y + 1) * w \in Nat /\ (2 * y + 1) * w <= (2 * h) * w
    BY <1>4, <1>6, <1>7
  <2>2. (2 * h) * w = 2 * w * h
    BY <1>4
  <2>. QED
    BY <1>4, <2>1, <2>2
<1>. QED
  BY <1>3, <1>4, <1>5, <1>8, <1>9

LEMMA MiddlePixel ==
  ASSUME NEW i \in Views, NEW x, NEW y, NEW point, Middle(i, x, y, point)
  PROVE  PixelAt(i, x, y) = point
BY ViewParts, MiddleIn DEF Middle

\* The UPDATE of the markers turns them with the image, whatever its size.
LEMMA MiddleTurned ==
  ASSUME NEW i \in Views, NEW x, NEW y, NEW point, Middle(i, x, y, point),
         NEW degrees \in Rotations
  PROVE  LET at == TurnMarker(degrees, Scale(Width, Height), x, y)
         IN Middle(Turns(i, degrees), at[1], at[2], point)
<1>. DEFINE w == i.w
            h == i.h
            g == i.at
            tw == TurnedW(degrees, w, h)
            th == TurnedH(degrees, w, h)
            t == TurnedFrame(degrees, w, h, g)
            at == TurnMarker(degrees, Scale(Width, Height), x, y)
<1>1. /\ w \in Sizes /\ h \in Sizes /\ g \in Frames(w, h) /\ i = Image(w, h, g)
      /\ Scale(w, h) = Scale(Width, Height)
  BY ViewParts, FitsParts
<1>2. PICK c \in Cells(w, h) : g[c] = point /\ x = MiddleX(c, w, h) /\ y = MiddleY(c, w, h)
  BY DEF Middle
<1>. DEFINE b == Turned(degrees, w, h, c)
<1>. HIDE DEF w, h, g
<1>3. Turns(i, degrees) = Image(tw, th, t)
  BY <1>1, TurnParts
<1>4. b \in Cells(tw, th) /\ TurnedFrom(degrees, w, h, b) = c
  BY <1>1, TurnedBack
<1>5. t[b] = point
  BY <1>2, <1>4 DEF TurnedFrame
<1>6. at = <<MiddleX(b, tw, th), MiddleY(b, tw, th)>>
  <2>1. TurnMarker(degrees, Scale(w, h), MiddleX(c, w, h), MiddleY(c, w, h))
           = <<MiddleX(b, tw, th), MiddleY(b, tw, th)>>
    BY <1>1, MarkerTurned
  <2>. QED
    BY <1>1, <1>2, <2>1
<1>. DEFINE turned == Turns(i, degrees)
<1>7. turned.w = tw /\ turned.h = th /\ turned.at = t
  BY <1>3 DEF Image
<1>. HIDE DEF tw, th, t, b, at, turned
<1>8. Middle(turned, at[1], at[2], point)
  BY <1>4, <1>5, <1>6, <1>7 DEF Middle
<1>. QED
  BY <1>8 DEF turned, at

LEMMA PlaceTurned ==
  ASSUME NEW x \in Place, NEW y \in Place, NEW degrees \in Rotations
  PROVE  LET at == TurnMarker(degrees, Scale(Width, Height), x, y)
         IN at[1] \in Place /\ at[2] \in Place
<1>. DEFINE s == Scale(Width, Height)
<1>1. s \in Int
  BY FitsParts DEF Sizes, Scale
<1>2. /\ degrees = 90 => TurnMarker(degrees, s, x, y) = <<s - y, x>>
      /\ degrees = -90 => TurnMarker(degrees, s, x, y) = <<y, s - x>>
      /\ degrees = 180 => TurnMarker(degrees, s, x, y) = <<s - x, s - y>>
  BY DEF TurnMarker
<1>3. \A a \in 0..s : s - a \in 0..s
  BY <1>1
<1>. HIDE DEF s
<1>4. Place = 0..s
  BY DEF Place, s
<1>5. CASE degrees = 90
  BY <1>2, <1>3, <1>4, <1>5 DEF s
<1>6. CASE degrees = -90
  BY <1>2, <1>3, <1>4, <1>6 DEF s
<1>7. CASE degrees = 180
  BY <1>2, <1>3, <1>4, <1>7 DEF s
<1>. QED
  BY <1>5, <1>6, <1>7 DEF Rotations

-----------------------------------------------------------------------------
(* The operations of the queue.                                            *)

\* Turns of the shown photo, from any angles the queue holds.
LEMMA ShownTurns ==
  ASSUME NEW p \in Photos, NEW a \in Angles, NEW b \in Angles
  PROVE  /\ Shown(p.picture) \in Views
         /\ Turns(Turns(Shown(p.picture), a), b) = Turns(Shown(p.picture), a + b)
         /\ Turns(Shown(p.picture), Normalize(b)) = Turns(Shown(p.picture), b)
         /\ Turns(Shown(p.picture), a + Normalize(b)) = Turns(Shown(p.picture), a + b)
<1>1. p.picture \in Pictures
  BY DEF Photos
<1>2. Shown(p.picture) \in Views
  BY <1>1, PictureParts
<1>. QED
  BY <1>2, TurnsAdd

LEMMA QueueAngles ==
  ASSUME NEW q \in Queue
  PROVE  /\ q.queued \in Angles /\ q.preview \in Angles /\ q.flight \in Angles
         /\ q.flight + q.queued \in Angles
         /\ q.photo \in Photos /\ q.current \in Photos
<1>1. q.queued \in Dial /\ q.preview \in Dial /\ q.flight \in {0} \cup Rotations
  BY DEF Queue
<1>. QED
  BY <1>1, AngleParts DEF Queue

\* When nothing is left to save, what is saved is shown.
LEMMA FinishParts ==
  ASSUME NEW q \in Queue, q.error => q.flight = 0,
         q.queued # 0 => q.timer \/ q.flight # 0 \/ q.error
  PROVE  LET r == Finish(q) IN
         /\ Tidy(r)
         /\ r.current = q.current /\ r.queued = q.queued /\ r.flight = q.flight
         /\ r.timer = q.timer /\ r.error = q.error
         /\ r.disposed = q.disposed /\ r.marking = q.marking
         /\ Honest(q) => Honest(r)
<1>1. CASE Busy(q)
  BY <1>1 DEF Finish, Tidy
<1>2. CASE ~Busy(q)
  <2>. DEFINE r == [q EXCEPT !.preview = 0, !.photo = q.current]
  <2>1. /\ r \in Queue /\ r.preview = 0 /\ r.photo = q.current
        /\ r.current = q.current /\ r.queued = q.queued /\ r.timer = q.timer
        /\ r.flight = q.flight /\ r.error = q.error
        /\ r.disposed = q.disposed /\ r.marking = q.marking
        /\ q.flight = 0 /\ q.queued = 0
    <3>1. 0 \in Dial /\ q.current \in Photos
      BY DEF Queue, Dial
    <3>2. q.flight = 0 /\ q.queued = 0
      BY <1>2 DEF Busy
    <3>3. r \in Queue
      BY <3>1 DEF Queue
    <3>. QED
      BY <3>2, <3>3 DEF Queue
  <2>2. Finish(q) = r
    BY <1>2 DEF Finish
  <2>. HIDE DEF r
  <2>3. Tidy(r) /\ Honest(r)
    BY <2>1 DEF Tidy, Honest
  <2>. QED
    BY <2>1, <2>2, <2>3
<1>. QED
  BY <1>1, <1>2

\* A flush stops the timer: whether it ran does not matter.
LEMMA FlushOfDisposed ==
  ASSUME NEW p \in Queue
  PROVE  Flush([p EXCEPT !.disposed = TRUE, !.timer = FALSE]) = Flush([p EXCEPT !.disposed = TRUE])
<1>. DEFINE q == [p EXCEPT !.disposed = TRUE, !.timer = FALSE]
            s == [p EXCEPT !.disposed = TRUE]
<1>1. q.flight = s.flight /\ q.queued = s.queued
  BY DEF Queue
<1>2. [q EXCEPT !.timer = FALSE] = [s EXCEPT !.timer = FALSE]
  BY DEF Queue
<1>3. ASSUME NEW f
      PROVE  [q EXCEPT !.timer = FALSE, !.error = FALSE, !.queued = 0, !.flight = f]
                 = [s EXCEPT !.timer = FALSE, !.error = FALSE, !.queued = 0, !.flight = f]
  BY DEF Queue
<1>. HIDE DEF q, s
<1>4. Flush(q) = Flush(s)
  BY <1>1, <1>2, <1>3 DEF Flush
<1>. QED
  BY <1>4 DEF q, s

\* A flush sends what is queued unless a request is under way.
LEMMA FlushParts ==
  ASSUME NEW q, Tidy(q)
  PROVE  LET r == Flush(q) IN
         /\ Tidy(r)
         /\ r.current = q.current /\ r.photo = q.photo /\ r.preview = q.preview
         /\ r.marking = q.marking /\ r.disposed = q.disposed
         /\ q.flight # 0 => r.flight = q.flight /\ r.queued = q.queued
         /\ q.flight = 0 => r.queued = 0 /\ \A p \in Photos :
                Turns(Shown(p.picture), r.flight) = Turns(Shown(p.picture), q.queued)
         /\ ~Busy(q) => ~Busy(r)
         /\ Honest(q) => Honest(r)
<1>1. q \in Queue
  BY DEF Tidy
<1>2. CASE q.flight # 0 \/ q.queued = 0
  <2>. DEFINE r == [q EXCEPT !.timer = FALSE]
  <2>1. /\ r \in Queue /\ r.timer = FALSE /\ r.preview = q.preview /\ r.photo = q.photo
        /\ r.current = q.current /\ r.queued = q.queued
        /\ r.flight = q.flight /\ r.error = q.error
        /\ r.disposed = q.disposed /\ r.marking = q.marking
    BY <1>1 DEF Queue
  <2>2. Flush(q) = r
    BY <1>2 DEF Flush
  <2>. HIDE DEF r
  <2>3. Tidy(r)
    BY <1>2, <2>1 DEF Tidy, Busy
  <2>. QED
    BY <1>2, <2>1, <2>2, <2>3 DEF Honest, Busy
<1>3. CASE q.flight = 0 /\ q.queued # 0
  <2>. DEFINE sent == Sent(q.queued)
              r == [q EXCEPT !.timer = FALSE, !.error = FALSE, !.queued = 0, !.flight = sent]
  <2>1. sent \in Rotations /\ sent \in Angles /\ q.queued \in Angles /\ Normalize(sent) = q.queued
    <3>1. q.queued \in {90, 180, 270}
      BY <1>1, <1>3 DEF Queue, Dial
    <3>. QED
      BY <3>1 DEF Sent, Rotations, Normalize, Angles
  <2>. HIDE DEF sent
  <2>2. /\ r \in Queue /\ r.timer = FALSE /\ r.preview = q.preview /\ r.photo = q.photo
        /\ r.current = q.current /\ r.queued = 0 /\ r.flight = sent /\ r.error = FALSE
        /\ r.disposed = q.disposed /\ r.marking = q.marking
    <3>1. 0 \in Dial /\ sent \in Rotations \cup {0} /\ FALSE \in BOOLEAN
      BY <2>1 DEF Dial
    <3>. QED
      BY <1>1, <3>1 DEF Queue
  <2>3. Flush(q) = r
    BY <1>3 DEF Flush, sent
  <2>. HIDE DEF r
  <2>4. sent # 0 /\ sent + 0 = sent /\ 0 + q.queued = q.queued
    <3>1. q.queued \in {90, 180, 270} /\ sent \in {90, -90, 180}
      BY <1>1, <1>3, <2>1 DEF Queue, Dial, Rotations
    <3>. QED
      BY <3>1
  <2>5. \A p \in Photos : Turns(Shown(p.picture), sent) = Turns(Shown(p.picture), q.queued)
    <3>. TAKE p \in Photos
    <3>1. Turns(Shown(p.picture), Normalize(sent)) = Turns(Shown(p.picture), sent)
      BY <2>1, ShownTurns
    <3>. QED
      BY <2>1, <3>1
  <2>6. Tidy(r)
    BY <2>2, <2>4 DEF Tidy, Busy
  <2>7. Honest(q) => Honest(r)
    BY <1>1, <1>3, <2>2, <2>4, <2>5, QueueAngles DEF Honest
  <2>. QED
    BY <1>3, <2>2, <2>3, <2>4, <2>5, <2>6, <2>7 DEF Busy
<1>. QED
  BY <1>2, <1>3

\* A turn that was not saved is queued again, before what was clicked since.
LEMMA FailedParts ==
  ASSUME NEW q, Tidy(q), q.flight # 0
  PROVE  LET r == Failed(q) IN
         /\ Tidy(r)
         /\ r.current = q.current /\ r.flight = 0
         /\ r.queued = Normalize(q.queued + q.flight)
         /\ r.marking = q.marking /\ r.disposed = q.disposed
         /\ Honest(q) => Honest(r)
<1>. DEFINE again == Normalize(q.queued + q.flight)
            r == [q EXCEPT !.timer = FALSE, !.error = TRUE, !.flight = 0, !.queued = again]
<1>1. q \in Queue /\ q.queued \in Angles /\ q.flight \in Angles /\ q.queued \in Int /\ q.flight \in Int
  BY QueueAngles DEF Tidy, Angles
<1>2. again \in Dial /\ q.flight + q.queued \in Angles /\ q.queued + q.flight = q.flight + q.queued
  BY <1>1, AngleParts
<1>3. Failed(q) = Finish(r)
  BY DEF Failed
<1>. HIDE DEF again
<1>4. /\ r \in Queue /\ r.timer = FALSE /\ r.preview = q.preview /\ r.photo = q.photo
      /\ r.current = q.current /\ r.queued = again
      /\ r.flight = 0 /\ r.error = TRUE
      /\ r.disposed = q.disposed /\ r.marking = q.marking
  BY <1>1, <1>2 DEF Queue
<1>. HIDE DEF r
<1>5. Honest(q) => Honest(r)
  <2>1. 0 + again = again
    BY <1>2 DEF Dial
  <2>2. Turns(Shown(q.current.picture), again) = Turns(Shown(q.current.picture), q.flight + q.queued)
    BY <1>1, <1>2, ShownTurns, QueueAngles DEF again
  <2>. QED
    BY <1>4, <2>1, <2>2 DEF Honest
<1>. QED
  BY <1>3, <1>4, <1>5, FinishParts DEF again

\* After a save the photo answered is the one known; clicks made since are sent.
LEMMA SavedParts ==
  ASSUME NEW q, Tidy(q), q.flight # 0, NEW result \in Photos
  PROVE  LET r == Saved(q, result) IN
         /\ Tidy(r)
         /\ r.current = result
         /\ r.marking = q.marking /\ r.disposed = q.disposed
         /\ IF r.flight # 0 THEN r.queued = 0 /\ q.queued # 0 ELSE r.queued = q.queued
         /\ \A p \in Photos :
                Turns(Shown(p.picture), r.queued + r.flight) = Turns(Shown(p.picture), q.queued)
         /\ Honest(q) /\ Shown(result.picture) = Turns(Shown(q.current.picture), q.flight) => Honest(r)
<1>. DEFINE s == [q EXCEPT !.current = result, !.flight = 0]
<1>1. q \in Queue /\ q.error = FALSE
  BY DEF Tidy, Queue
<1>2. /\ s \in Queue /\ s.timer = q.timer /\ s.preview = q.preview /\ s.photo = q.photo
      /\ s.current = result /\ s.queued = q.queued
      /\ s.flight = 0 /\ s.error = FALSE
      /\ s.disposed = q.disposed /\ s.marking = q.marking
  BY <1>1 DEF Queue
<1>3. Saved(q, result) = IF ~s.error /\ s.queued # 0 /\ ~s.timer THEN Flush(s) ELSE Finish(s)
  BY DEF Saved
<1>. HIDE DEF s
<1>4. Honest(q) /\ Shown(result.picture) = Turns(Shown(q.current.picture), q.flight) => Honest(s)
  <2>1. q.flight \in Angles /\ q.queued \in Angles /\ q.current \in Photos
    BY <1>1, QueueAngles
  <2>2. Turns(Turns(Shown(q.current.picture), q.flight), q.queued)
            = Turns(Shown(q.current.picture), q.flight + q.queued)
    BY <2>1, ShownTurns
  <2>3. 0 + q.queued = q.queued
    BY <2>1 DEF Angles
  <2>. QED
    BY <1>2, <2>2, <2>3 DEF Honest
<1>5. ASSUME s.queued # 0, ~s.timer
      PROVE  /\ Tidy(Flush(s)) /\ Flush(s).queued = 0 /\ Flush(s).flight # 0
             /\ Flush(s).current = result /\ Flush(s).flight \in Int
             /\ Flush(s).marking = q.marking /\ Flush(s).disposed = q.disposed
             /\ \A p \in Photos : Turns(Shown(p.picture), Flush(s).flight) = Turns(Shown(p.picture), q.queued)
             /\ Honest(s) => Honest(Flush(s))
  <2>. DEFINE sent == Sent(s.queued)
              r == [s EXCEPT !.timer = FALSE, !.error = FALSE, !.queued = 0, !.flight = sent]
  <2>1. sent \in Rotations /\ Normalize(sent) = s.queued /\ 0 + s.queued = s.queued
    <3>1. s.queued \in {90, 180, 270}
      BY <1>2, <1>5 DEF Queue, Dial
    <3>. QED
      BY <3>1 DEF Sent, Rotations, Normalize
  <2>2. Flush(s) = r
    BY <1>2, <1>5 DEF Flush
  <2>. HIDE DEF sent
  <2>3. /\ r \in Queue /\ r.timer = FALSE /\ r.preview = s.preview /\ r.photo = s.photo
        /\ r.current = result /\ r.queued = 0 /\ r.flight = sent /\ r.error = FALSE
        /\ r.disposed = q.disposed /\ r.marking = q.marking
    <3>1. sent \in {0} \cup Rotations /\ 0 \in Dial
      BY <2>1 DEF Dial
    <3>. QED
      BY <1>2, <3>1 DEF Queue
  <2>. HIDE DEF r
  <2>4. sent \in Int /\ sent # 0 /\ sent + 0 = sent /\ sent \in Angles
    BY <2>1, AngleParts DEF Rotations
  <2>5. \A p \in Photos : Turns(Shown(p.picture), sent) = Turns(Shown(p.picture), q.queued)
    BY <1>2, <2>1, <2>4, ShownTurns
  <2>6. Tidy(r)
    BY <2>3, <2>4 DEF Tidy, Busy
  <2>7. Honest(s) => Honest(r)
    <3>1. s.current \in Photos
      BY <1>2
    <3>. QED
      BY <1>2, <2>1, <2>3, <2>4, <2>5, <3>1 DEF Honest
  <2>. QED
    BY <2>2, <2>3, <2>4, <2>5, <2>6, <2>7
<1>6. q.queued + 0 = q.queued
  BY <1>1 DEF Queue, Dial
<1>7. ASSUME NEW n \in Int PROVE 0 + n = n
  OBVIOUS
<1>8. CASE s.queued # 0 /\ ~s.timer
  BY <1>2, <1>3, <1>4, <1>5, <1>7, <1>8
<1>9. CASE ~(s.queued # 0 /\ ~s.timer)
  <2>1. /\ Tidy(Finish(s)) /\ Finish(s).current = result
        /\ Finish(s).queued = q.queued /\ Finish(s).flight = 0
        /\ Finish(s).marking = q.marking /\ Finish(s).disposed = q.disposed
        /\ Honest(s) => Honest(Finish(s))
    BY <1>2, <1>9, FinishParts
  <2>. QED
    BY <1>2, <1>3, <1>4, <1>6, <1>9, <2>1
<1>. QED
  BY <1>8, <1>9

\* A click turns the preview and the queue alike.
Clicked(q, degrees) ==
    [q EXCEPT !.queued = Normalize(q.queued + degrees),
              !.preview = Normalize(q.preview + degrees),
              !.error = FALSE,
              !.timer = Normalize(q.queued + degrees) # 0]

LEMMA ClickParts ==
  ASSUME NEW q, Tidy(q), NEW degrees \in {90, -90}
  PROVE  LET r == Finish(Clicked(q, degrees)) IN
         /\ Tidy(r)
         /\ r.current = q.current /\ r.flight = q.flight
         /\ r.queued = Normalize(q.queued + degrees)
         /\ r.marking = q.marking /\ r.disposed = q.disposed
         /\ Honest(q) => Honest(r)
<1>. DEFINE queued == Normalize(q.queued + degrees)
            preview == Normalize(q.preview + degrees)
            s == Clicked(q, degrees)
<1>1. /\ q \in Queue /\ q.queued \in Angles /\ q.preview \in Angles /\ q.flight \in Angles
      /\ q.flight + q.queued \in Angles /\ q.photo \in Photos /\ q.current \in Photos
  BY QueueAngles DEF Tidy
<1>2. degrees \in Angles
  BY AngleParts DEF Rotations
<1>3. /\ queued \in Dial /\ preview \in Dial
      /\ q.queued + degrees \in Angles /\ q.preview + degrees \in Angles
  BY <1>1, <1>2, AngleParts
<1>4. Honest(q) => Turns(Shown(q.photo.picture), preview)
                       = Turns(Shown(q.current.picture), q.flight + queued)
  <2>. SUFFICES ASSUME Honest(q) PROVE Turns(Shown(q.photo.picture), preview)
                       = Turns(Shown(q.current.picture), q.flight + queued)
    OBVIOUS
  <2>1. Turns(Shown(q.photo.picture), preview) = Turns(Turns(Shown(q.photo.picture), q.preview), degrees)
    <3>1. Turns(Shown(q.photo.picture), preview) = Turns(Shown(q.photo.picture), q.preview + degrees)
      BY <1>1, <1>3, ShownTurns
    <3>2. Turns(Turns(Shown(q.photo.picture), q.preview), degrees)
             = Turns(Shown(q.photo.picture), q.preview + degrees)
      BY <1>1, <1>2, ShownTurns
    <3>. QED
      BY <3>1, <3>2
  <2>2. Turns(Shown(q.current.picture), q.flight + queued)
            = Turns(Shown(q.current.picture), q.flight + (q.queued + degrees))
    BY <1>1, <1>3, ShownTurns
  <2>3. q.flight + (q.queued + degrees) = (q.flight + q.queued) + degrees
    BY <1>1, <1>2 DEF Angles
  <2>4. Turns(Shown(q.current.picture), (q.flight + q.queued) + degrees)
            = Turns(Turns(Shown(q.current.picture), q.flight + q.queued), degrees)
    BY <1>1, <1>2, ShownTurns
  <2>. QED
    BY <2>1, <2>2, <2>3, <2>4 DEF Honest
<1>. HIDE DEF queued, preview
<1>. HIDE DEF s
<1>8. s = [q EXCEPT !.queued = queued, !.preview = preview, !.error = FALSE, !.timer = queued # 0]
  BY DEF Clicked, queued, preview, s
<1>5. /\ s \in Queue /\ s.timer = (queued # 0) /\ s.preview = preview /\ s.photo = q.photo
      /\ s.current = q.current /\ s.queued = queued
      /\ s.flight = q.flight /\ s.error = FALSE
      /\ s.disposed = q.disposed /\ s.marking = q.marking
  BY <1>1, <1>3, <1>8 DEF Queue
<1>. HIDE DEF s
<1>6. Honest(q) => Honest(s)
  BY <1>4, <1>5 DEF Honest
<1>7. /\ s.error => s.flight = 0
      /\ s.queued # 0 => s.timer \/ s.flight # 0 \/ s.error
  BY <1>5
<1>. QED
  BY <1>5, <1>6, <1>7, FinishParts DEF s, queued

-----------------------------------------------------------------------------
(* Steps of one dialog's queue.                                            *)

LEMMA Idle ==
  ASSUME EditingInv, NEW d \in Dialogs, dialog[d].flight = 0, ~disturbed[d]
  PROVE  \A j \in jobs : j.dialog # d
BY DEF EditingInv, Types, Flights, Job, Rotations

LEMMA ShaType ==
  ASSUME NEW p \in Photos
  PROVE  Sha(p) \in Pictures \X Nat
BY DEF Sha, Photos

\* The jobs when a queue has become q.
LEMMA BecomesParts ==
  ASSUME EditingInv, NEW d \in Dialogs, NEW q, Tidy(q), NEW others \in SUBSET jobs,
         Becomes(d, q, others)
  PROVE  \/ /\ jobs' = others
            /\ q.flight # 0 => \E j \in others : j.dialog = d /\ j.awaited
         \/ /\ q.flight # 0 /\ \A j \in others : ~(j.dialog = d /\ j.awaited)
            /\ \E new \in Job : /\ jobs' = others \cup {new}
                                /\ new.dialog = d /\ new.awaited /\ new.degrees = q.flight
                                /\ new.step = "sent" /\ new.photo = q.current /\ new.rest = 0
<1>1. q.current \in Photos /\ q.flight \in {0} \cup Rotations
  BY DEF Tidy, Queue
<1>2. CASE q.flight # 0 /\ ~\E j \in others : j.dialog = d /\ j.awaited
  <2>. DEFINE new == NewJob(d, q.flight, q.current, TRUE)
  <2>1. q.flight \in Rotations
    BY <1>1, <1>2
  <2>2. /\ new \in Job /\ new.dialog = d /\ new.awaited /\ new.degrees = q.flight
        /\ new.step = "sent" /\ new.photo = q.current /\ new.rest = 0
    <3>1. Sha(q.current) \in Pictures \X Nat /\ 0 \in Dial
      BY <1>1, ShaType DEF Dial
    <3>. QED
      BY <1>1, <2>1, <3>1 DEF NewJob, Job
  <2>3. jobs' = others \cup {new}
    BY <1>2 DEF Becomes
  <2>. QED
    BY <1>2, <2>2, <2>3
<1>3. CASE ~(q.flight # 0 /\ ~\E j \in others : j.dialog = d /\ j.awaited)
  BY <1>3 DEF Becomes
<1>. QED
  BY <1>2, <1>3

\* A queue becomes q: what is left to show of each operation.
LEMMA QueueStep ==
  ASSUME EditingInv, NEW d \in Dialogs, NEW q, Tidy(q), NEW others \in SUBSET jobs,
         \A j \in jobs : j.dialog # d => j \in others,
         \A j \in others : j.dialog = d /\ j.awaited => q.flight = dialog[d].flight,
         Becomes(d, q, others),
         q.marking = dialog[d].marking, q.marking => ~Busy(q),
         wanted' \in [Dialogs -> Views], \A e \in Dialogs : e # d => wanted'[e] = wanted[e],
         UNCHANGED <<server, posts, disturbed>>,
         ~disturbed[d] =>
            /\ Honest(q)
            /\ (\E j \in others : j.dialog = d) =>
                  /\ q.current = dialog[d].current
                  /\ Turns(Shown(photo.picture), q.queued + (IF Waiting(d, jobs) THEN q.flight ELSE 0))
                        = wanted'[d]
            /\ (\A j \in others : j.dialog # d) =>
                  /\ q.current = photo
                  /\ Turns(Shown(photo.picture), q.queued + q.flight) = wanted'[d]
  PROVE  EditingInv'
<1>1. /\ dialog' \in [Dialogs -> Queue] /\ dialog'[d] = q
      /\ \A e \in Dialogs : e # d => dialog'[e] = dialog[e]
  BY DEF EditingInv, Types, Becomes, Tidy
<1>2. photo' = photo /\ markers' = markers /\ posts' = posts /\ disturbed' = disturbed
  BY DEF server
<1>3. /\ \A j \in others : j \in jobs'
      /\ \A j \in jobs' : j \in Job /\ (j \in others \/ (j.dialog = d /\ j.awaited /\ j.degrees = q.flight
                                                  /\ \A k \in others : ~(k.dialog = d /\ k.awaited)))
      /\ \A j, k \in jobs' : j \notin others /\ k \notin others => j = k
      /\ q.flight # 0 => \E j \in jobs' : j.dialog = d /\ j.awaited
  BY BecomesParts DEF EditingInv, Types
<1>4. Types'
  BY <1>1, <1>2, <1>3 DEF EditingInv, Types
<1>5. \A e \in Dialogs : Tidy(dialog'[e])
  BY <1>1 DEF EditingInv
<1>6. Flights'
  <2>1. \A j \in jobs' : j.awaited => j.degrees = dialog'[j.dialog].flight
    BY <1>1, <1>3 DEF EditingInv, Types, Flights, Job
  <2>2. \A j, k \in jobs' : j.awaited /\ k.awaited /\ j.dialog = k.dialog => j = k
    BY <1>3 DEF EditingInv, Flights
  <2>3. \A e \in Dialogs : dialog'[e].flight # 0 => \E j \in jobs' : j.dialog = e /\ j.awaited
    <3>. SUFFICES ASSUME NEW e \in Dialogs, dialog'[e].flight # 0
                  PROVE  \E j \in jobs' : j.dialog = e /\ j.awaited
      OBVIOUS
    <3>1. CASE e = d
      BY <1>1, <1>3, <3>1
    <3>2. CASE e # d
      BY <1>1, <1>3, <3>2 DEF EditingInv, Flights
    <3>. QED
      BY <3>1, <3>2
  <2>4. \A j \in jobs' : j.awaited \/ disturbed'[j.dialog]
    BY <1>2, <1>3 DEF EditingInv, Flights
  <2>. QED
    BY <2>1, <2>2, <2>3, <2>4 DEF Flights
<1>7. ASSUME NEW e \in Dialogs, ~disturbed[e], e # d
      PROVE  Agreed(e, dialog'[e], jobs', photo', wanted'[e])
  <2>1. Agreed(e, dialog[e], jobs, photo, wanted[e])
    BY <1>7 DEF EditingInv, Agreements
  <2>2. \A j : j.dialog = e => (j \in jobs' <=> j \in jobs)
    BY <1>3, <1>7
  <2>3. (Waiting(e, jobs') <=> Waiting(e, jobs)) /\ (Saving(e, jobs') <=> Saving(e, jobs))
    BY <2>2 DEF Waiting, Saving
  <2>. QED
    BY <1>1, <1>2, <1>7, <2>1, <2>2, <2>3 DEF Agreed
<1>8. ASSUME ~disturbed[d] PROVE Agreed(d, q, jobs', photo, wanted'[d])
  <2>1. CASE \E j \in others : j.dialog = d
    <3>1. PICK j \in others : j.dialog = d
      BY <2>1
    <3>2. j.awaited /\ j \in jobs
      BY <1>8, <3>1 DEF EditingInv, Flights
    <3>3. \A k : k.dialog = d => (k \in jobs' <=> k \in jobs)
      BY <1>3, <1>8, <3>1, <3>2 DEF EditingInv, Flights
    <3>4. (Waiting(d, jobs') <=> Waiting(d, jobs)) /\ (Saving(d, jobs') <=> Saving(d, jobs))
      BY <3>3 DEF Waiting, Saving
    <3>5. q.current = dialog[d].current /\ q.flight = dialog[d].flight
      BY <1>8, <3>1, <3>2
    <3>6. Agreed(d, dialog[d], jobs, photo, wanted[d])
      BY <1>8 DEF EditingInv, Agreements
    <3>. QED
      BY <1>8, <2>1, <3>3, <3>4, <3>5, <3>6 DEF Agreed
  <2>2. CASE \A j \in others : j.dialog # d
    <3>1. \A j \in jobs' : j.dialog = d => q.flight # 0 /\ j.step = "sent"
      BY <2>2, BecomesParts
    <3>2. q.flight # 0 => \E j \in jobs' : j.dialog = d /\ j.step = "sent"
      BY <1>3, <3>1
    <3>3. ~Saving(d, jobs') /\ (Waiting(d, jobs') <=> q.flight # 0)
      BY <3>1, <3>2 DEF Saving, Waiting
    <3>4. (IF Waiting(d, jobs') THEN q.flight ELSE 0) = q.flight
      BY <3>3
    <3>. QED
      BY <1>8, <2>2, <3>3, <3>4 DEF Agreed, Saving
  <2>. QED
    BY <2>1, <2>2
<1>9. Agreements'
  BY <1>1, <1>2, <1>7, <1>8 DEF Agreements
<1>10. \A e \in Dialogs : dialog'[e].marking = dialog[e].marking
  BY <1>1
<1>11. Requests'
  <2>1. \A p \in posts : p.dialog \in Dialogs
    BY DEF EditingInv, Types, Post
  <2>. QED
    BY <1>1, <1>2, <1>10, <2>1 DEF EditingInv, Requests
<1>12. Placed'
  BY <1>2 DEF EditingInv, Placed
<1>. QED
  BY <1>4, <1>5, <1>6, <1>9, <1>11, <1>12 DEF EditingInv

LEMMA ClickKeeps ==
  ASSUME EditingInv, NEW d \in Dialogs, NEW degrees \in {90, -90}, Click(d, degrees)
  PROVE  EditingInv'
<1>. DEFINE q == dialog[d]
            queued == Normalize(q.queued + degrees)
            r == Finish(Clicked(q, degrees))
<1>1. /\ Tidy(q) /\ q \in Queue /\ q.queued \in Angles /\ q.flight \in Angles /\ photo \in Photos
      /\ ~q.marking /\ degrees \in Angles
  BY QueueAngles, AngleParts DEF EditingInv, Types, Tidy, Click, Rotations
<1>2. /\ dialog' = [dialog EXCEPT ![d] = r] /\ jobs' = jobs
      /\ wanted' = [wanted EXCEPT ![d] = Turns(@, degrees)]
      /\ UNCHANGED <<server, posts, disturbed>>
  BY DEF Click, Clicked
<1>3. /\ Tidy(r) /\ r.current = q.current /\ r.flight = q.flight /\ r.queued = queued
      /\ r.marking = q.marking
      /\ Honest(q) => Honest(r)
  BY <1>1, ClickParts
<1>. HIDE DEF r
<1>4. Becomes(d, r, jobs)
  BY <1>2, <1>3 DEF Becomes, EditingInv, Flights
<1>5. /\ wanted' \in [Dialogs -> Views]
      /\ \A e \in Dialogs : e # d => wanted'[e] = wanted[e]
      /\ wanted'[d] = Turns(wanted[d], degrees)
  BY <1>2, TurnsView DEF EditingInv, Types, Rotations
<1>6. ASSUME NEW n \in {0, q.flight}
      PROVE  Turns(Turns(Shown(photo.picture), q.queued + n), degrees)
                = Turns(Shown(photo.picture), queued + n)
  <2>1. n \in Angles /\ n + q.queued \in Angles /\ q.queued + degrees \in Angles
    <3>1. n \in Angles
      BY <1>1, <1>6, AngleParts
    <3>. QED
      BY <1>1, <3>1, AngleParts
  <2>2. Turns(Turns(Shown(photo.picture), n + q.queued), degrees)
            = Turns(Shown(photo.picture), (n + q.queued) + degrees)
    BY <1>1, <2>1, ShownTurns
  <2>3. Turns(Shown(photo.picture), n + queued) = Turns(Shown(photo.picture), n + (q.queued + degrees))
    BY <1>1, <2>1, ShownTurns
  <2>4. queued \in Int
    BY <2>1, AngleParts
  <2>. HIDE DEF q, queued
  <2>5. /\ (n + q.queued) + degrees = n + (q.queued + degrees)
        /\ q.queued + n = n + q.queued /\ queued + n = n + queued
    <3>1. n \in Int /\ q.queued \in Int /\ degrees \in Int
      BY <1>1, <2>1, AngleParts
    <3>. QED
      BY <2>4, <3>1
  <2>. QED
    BY <2>2, <2>3, <2>5
<1>7. ASSUME ~disturbed[d]
      PROVE  /\ Honest(r)
             /\ (\E j \in jobs : j.dialog = d) =>
                  Turns(Shown(photo.picture), r.queued + (IF Waiting(d, jobs) THEN r.flight ELSE 0))
                        = wanted'[d]
             /\ (\A j \in jobs : j.dialog # d) =>
                  /\ r.current = photo
                  /\ Turns(Shown(photo.picture), r.queued + r.flight) = wanted'[d]
  <2>1. Agreed(d, q, jobs, photo, wanted[d])
    BY <1>7 DEF EditingInv, Agreements
  <2>2. Turns(Shown(photo.picture), q.queued + (IF Waiting(d, jobs) THEN q.flight ELSE 0)) = wanted[d]
    BY <2>1 DEF Agreed
  <2>3. Turns(Shown(photo.picture), queued + (IF Waiting(d, jobs) THEN q.flight ELSE 0)) = wanted'[d]
    BY <1>5, <1>6, <2>2
  <2>4. ASSUME \A j \in jobs : j.dialog # d
        PROVE  r.current = photo /\ ~Waiting(d, jobs) /\ r.flight = 0
    BY <1>3, <2>1, <2>4 DEF Agreed, Saving, Waiting, EditingInv, Flights
  <2>. QED
    BY <1>3, <2>1, <2>3, <2>4 DEF Agreed
<1>. HIDE DEF q, queued
<1>. QED
  BY <1>1, <1>2, <1>3, <1>4, <1>5, <1>7, QueueStep DEF q

\* The queue is flushed, or left as it is.
LEMMA FlushKeeps ==
  ASSUME EditingInv, NEW d \in Dialogs, NEW q, Tidy(q),
         q.current = dialog[d].current, q.photo = dialog[d].photo, q.preview = dialog[d].preview,
         q.queued = dialog[d].queued, q.flight = dialog[d].flight, q.marking = dialog[d].marking,
         NEW r, r = Flush(q) \/ (r = q /\ q.flight = 0),
         Becomes(d, r, jobs),
         UNCHANGED <<server, posts, wanted, disturbed>>
  PROVE  EditingInv'
<1>1. /\ q \in Queue /\ q.flight \in Angles /\ q.queued \in Angles
      /\ q.queued + 0 = q.queued /\ 0 + q.queued = q.queued
  <2>1. q \in Queue
    BY DEF Tidy
  <2>. QED
    BY <2>1, QueueAngles DEF Angles
<1>2. /\ Tidy(r) /\ r.current = q.current /\ r.marking = q.marking
      /\ q.flight # 0 => r.flight = q.flight /\ r.queued = q.queued
      /\ ~Busy(q) => ~Busy(r)
      /\ Honest(q) => Honest(r)
  BY FlushParts
<1>3. q.flight = 0 => Turns(Shown(photo.picture), r.queued + r.flight) = Turns(Shown(photo.picture), q.queued)
  <2>. SUFFICES ASSUME q.flight = 0
                PROVE  Turns(Shown(photo.picture), r.queued + r.flight) = Turns(Shown(photo.picture), q.queued)
    OBVIOUS
  <2>1. photo \in Photos /\ r.flight \in Angles
    BY <1>2, QueueAngles DEF EditingInv, Types, Tidy
  <2>2. CASE r = q
    BY <1>1, <2>2
  <2>3. CASE r = Flush(q)
    <3>1. r.queued = 0 /\ Turns(Shown(photo.picture), r.flight) = Turns(Shown(photo.picture), q.queued)
      BY <2>1, <2>3, FlushParts
    <3>2. 0 + r.flight = r.flight
      BY <2>1 DEF Angles
    <3>. QED
      BY <3>1, <3>2
  <2>. QED
    BY <2>2, <2>3
<1>4. Busy(q) <=> Busy(dialog[d])
  BY DEF Busy
<1>5. q.marking => ~Busy(r)
  BY <1>2, <1>4 DEF EditingInv, Requests
<1>6. \A j \in jobs : j.dialog = d /\ j.awaited => q.flight # 0
  <2>1. \A j \in jobs : j.degrees # 0
    BY DEF EditingInv, Types, Job, Rotations
  <2>. QED
    BY <2>1 DEF EditingInv, Flights
<1>7. ASSUME ~disturbed[d]
      PROVE  /\ Honest(r)
             /\ (\E j \in jobs : j.dialog = d) =>
                  /\ r.current = dialog[d].current
                  /\ Turns(Shown(photo.picture), r.queued + (IF Waiting(d, jobs) THEN r.flight ELSE 0))
                        = wanted[d]
             /\ (\A j \in jobs : j.dialog # d) =>
                  /\ r.current = photo
                  /\ Turns(Shown(photo.picture), r.queued + r.flight) = wanted[d]
  <2>1. Agreed(d, dialog[d], jobs, photo, wanted[d])
    BY <1>7 DEF EditingInv, Agreements
  <2>2. Honest(q)
    BY <2>1 DEF Agreed, Honest
  <2>3. (\E j \in jobs : j.dialog = d) => q.flight # 0
    BY <1>6, <1>7 DEF EditingInv, Flights
  <2>4. (\A j \in jobs : j.dialog # d) => q.flight = 0 /\ ~Saving(d, jobs) /\ ~Waiting(d, jobs)
    BY DEF EditingInv, Flights, Saving, Waiting
  <2>. QED
    BY <1>1, <1>2, <1>3, <2>1, <2>2, <2>3, <2>4 DEF Agreed
<1>8. /\ wanted' = wanted /\ wanted \in [Dialogs -> Views] /\ UNCHANGED <<server, posts, disturbed>>
  BY DEF EditingInv, Types
<1>. QED
  BY <1>2, <1>5, <1>6, <1>7, <1>8, QueueStep

LEMMA SendKeeps ==
  ASSUME EditingInv, NEW d \in Dialogs, TimerFires(d) \/ Retry(d) \/ Dispose(d)
  PROVE  EditingInv'
<1>1. Tidy(dialog[d]) /\ dialog[d] \in Queue
  BY DEF EditingInv, Types
<1>2. CASE TimerFires(d) \/ Retry(d)
  <2>1. Becomes(d, Flush(dialog[d]), jobs) /\ UNCHANGED <<server, posts, wanted, disturbed>>
    BY <1>2 DEF TimerFires, Retry
  <2>. QED
    BY <1>1, <2>1, FlushKeeps
<1>3. CASE Dispose(d)
  <2>. DEFINE q == [dialog[d] EXCEPT !.disposed = TRUE, !.timer = FALSE]
              s == [dialog[d] EXCEPT !.disposed = TRUE]
  <2>1. Becomes(d, IF q.error THEN q ELSE Flush(q), jobs) /\ UNCHANGED <<server, posts, wanted, disturbed>>
    BY <1>3 DEF Dispose
  <2>2. /\ q \in Queue /\ q.current = dialog[d].current /\ q.photo = dialog[d].photo
        /\ q.preview = dialog[d].preview /\ q.queued = dialog[d].queued
        /\ q.flight = dialog[d].flight /\ q.marking = dialog[d].marking
        /\ q.error = dialog[d].error
    BY <1>1 DEF Queue
  <2>3. /\ s \in Queue /\ s.current = dialog[d].current /\ s.photo = dialog[d].photo
        /\ s.preview = dialog[d].preview /\ s.queued = dialog[d].queued
        /\ s.flight = dialog[d].flight /\ s.marking = dialog[d].marking
        /\ s.error = dialog[d].error /\ s.timer = dialog[d].timer
    BY <1>1 DEF Queue
  <2>4. Flush(q) = Flush(s)
    BY <1>1, FlushOfDisposed
  <2>. HIDE DEF q, s
  <2>5. Tidy(s)
    BY <1>1, <2>3 DEF Tidy, Busy
  <2>6. CASE q.error
    <3>1. Tidy(q) /\ q.flight = 0
      BY <1>1, <2>2, <2>6 DEF Tidy, Busy
    <3>. QED
      BY <2>1, <2>2, <2>6, <3>1, FlushKeeps
  <2>7. CASE ~q.error
    <3>1. Becomes(d, Flush(s), jobs)
      BY <2>1, <2>4, <2>7
    <3>. QED
      BY <2>1, <2>3, <2>5, <3>1, FlushKeeps
  <2>. QED
    BY <2>6, <2>7
<1>. QED
  BY <1>2, <1>3

-----------------------------------------------------------------------------
(* Steps of the server and answers.                                        *)

\* What nobody's queue waits for ends, is sent on or is forgotten: the dialog it
\* came from knows nothing of the photo, which it may be told of.
LEMMA OrphanStep ==
  ASSUME EditingInv, NEW j \in jobs, ~j.awaited, NEW more \in SUBSET Job,
         \A k \in more : ~k.awaited /\ k.dialog = j.dialog,
         jobs' = (jobs \ {j}) \cup more,
         NEW r, r = dialog[j.dialog] \/ r = [dialog[j.dialog] EXCEPT !.photo = j.photo],
         dialog' = [dialog EXCEPT ![j.dialog] = r],
         UNCHANGED <<server, posts, wanted, disturbed>>
  PROVE  EditingInv'
<1>. DEFINE d == j.dialog
            q == dialog[d]
<1>1. /\ d \in Dialogs /\ disturbed[d] /\ q \in Queue /\ Tidy(q) /\ j.photo \in Photos
      /\ photo' = photo /\ markers' = markers /\ posts' = posts
      /\ wanted' = wanted /\ disturbed' = disturbed
  BY DEF EditingInv, Types, Job, Flights, server
<1>2. /\ r \in Queue /\ r.flight = q.flight /\ r.queued = q.queued /\ r.marking = q.marking
      /\ r.preview = q.preview /\ r.timer = q.timer /\ r.error = q.error
  BY <1>1 DEF Queue
<1>3. dialog' = [dialog EXCEPT ![d] = r] /\ \A k \in more : k.dialog = d
  OBVIOUS
<1>. HIDE DEF d, q
<1>4. /\ dialog' \in [Dialogs -> Queue]
      /\ \A e \in Dialogs : /\ e # d => dialog'[e] = dialog[e]
                            /\ dialog'[e].flight = dialog[e].flight
                            /\ dialog'[e].marking = dialog[e].marking
                            /\ (Busy(dialog'[e]) <=> Busy(dialog[e]))
                            /\ Tidy(dialog'[e])
  <2>1. Tidy(r) /\ (Busy(r) <=> Busy(q))
    BY <1>1, <1>2 DEF Tidy, Busy
  <2>. QED
    BY <1>1, <1>2, <1>3, <2>1 DEF EditingInv, Types, q
<1>5. Types'
  BY <1>1, <1>4 DEF EditingInv, Types
<1>6. Flights'
  <2>1. \A a \in jobs' : a.awaited => a \in jobs /\ a.dialog \in Dialogs
    BY DEF EditingInv, Types, Job
  <2>2. \A a \in jobs : a.awaited => a \in jobs'
    OBVIOUS
  <2>3. \A a \in jobs' : a.awaited => a.degrees = dialog'[a.dialog].flight
    BY <1>4, <2>1 DEF EditingInv, Flights
  <2>4. \A a, b \in jobs' : a.awaited /\ b.awaited /\ a.dialog = b.dialog => a = b
    BY <2>1 DEF EditingInv, Flights
  <2>5. \A e \in Dialogs : dialog'[e].flight # 0 => \E a \in jobs' : a.dialog = e /\ a.awaited
    BY <1>4, <2>2 DEF EditingInv, Flights
  <2>6. \A a \in jobs' : a.awaited \/ disturbed'[a.dialog]
    BY <1>1, <1>3 DEF EditingInv, Flights
  <2>. QED
    BY <2>3, <2>4, <2>5, <2>6 DEF Flights
<1>7. Agreements'
  <2>. SUFFICES ASSUME NEW e \in Dialogs, ~disturbed[e]
                PROVE  Agreed(e, dialog'[e], jobs', photo, wanted[e])
    BY <1>1 DEF Agreements
  <2>1. e # d
    BY <1>1
  <2>2. \A a : a.dialog = e => (a \in jobs' <=> a \in jobs)
    BY <1>3, <2>1 DEF d
  <2>3. (Waiting(e, jobs') <=> Waiting(e, jobs)) /\ (Saving(e, jobs') <=> Saving(e, jobs))
    BY <2>2 DEF Waiting, Saving
  <2>4. Agreed(e, dialog[e], jobs, photo, wanted[e]) /\ dialog'[e] = dialog[e]
    BY <1>4, <2>1 DEF EditingInv, Agreements
  <2>. QED
    BY <2>2, <2>3, <2>4 DEF Agreed
<1>8. Requests'
  <2>1. \A p \in posts : p.dialog \in Dialogs
    BY DEF EditingInv, Types, Post
  <2>. QED
    BY <1>1, <1>4, <2>1 DEF EditingInv, Requests
<1>. QED
  BY <1>1, <1>4, <1>5, <1>6, <1>7, <1>8 DEF EditingInv, Placed

\* Only its end is told of a job that nobody waits for.
LEMMA OrphanEnds ==
  ASSUME EditingInv, NEW j \in jobs, ~j.awaited, jobs' = jobs \ {j},
         UNCHANGED <<server, dialog, posts, wanted, disturbed>>
  PROVE  EditingInv'
<1>1. j.dialog \in Dialogs /\ dialog' = [dialog EXCEPT ![j.dialog] = dialog[j.dialog]]
  BY DEF EditingInv, Types, Job
<1>2. jobs' = (jobs \ {j}) \cup {} /\ UNCHANGED <<server, posts, wanted, disturbed>>
  OBVIOUS
<1>3. {} \in SUBSET Job /\ \A k \in {} : ~k.awaited /\ k.dialog = j.dialog
  OBVIOUS
<1>. QED
  BY <1>1, <1>2, <1>3, OrphanStep

\* A rotation goes on or fails before anything is stored.
LEMMA JobStep ==
  ASSUME EditingInv, NEW j \in jobs, j.step \in {"sent", "read"}, NEW step \in {"read", "failed"},
         NEW p \in Photos, jobs' = Step(j, step, p),
         UNCHANGED <<server, dialog, posts, wanted, disturbed>>
  PROVE  EditingInv'
<1>. DEFINE k == [j EXCEPT !.step = step, !.photo = p]
<1>1. j \in Job
  BY DEF EditingInv, Types
<1>2. /\ k \in Job /\ k.dialog = j.dialog /\ k.awaited = j.awaited /\ k.degrees = j.degrees
      /\ k.step = step
  BY <1>1 DEF Job
<1>3. jobs' = (jobs \ {j}) \cup {k}
  BY DEF Step
<1>. HIDE DEF k
<1>4. /\ photo' = photo /\ markers' = markers /\ dialog' = dialog /\ posts' = posts
      /\ wanted' = wanted /\ disturbed' = disturbed
  BY DEF server
<1>5. Types'
  BY <1>2, <1>3, <1>4 DEF EditingInv, Types
<1>6. Flights'
  <2>1. \A a \in jobs' : a.awaited => a.degrees = dialog'[a.dialog].flight
    BY <1>2, <1>3, <1>4 DEF EditingInv, Flights
  <2>2. \A a, b \in jobs' : a.awaited /\ b.awaited /\ a.dialog = b.dialog => a = b
    BY <1>2, <1>3 DEF EditingInv, Flights
  <2>3. \A e \in Dialogs : dialog'[e].flight # 0 => \E a \in jobs' : a.dialog = e /\ a.awaited
    BY <1>2, <1>3, <1>4 DEF EditingInv, Flights
  <2>4. \A a \in jobs' : a.awaited \/ disturbed'[a.dialog]
    BY <1>2, <1>3, <1>4 DEF EditingInv, Flights
  <2>. QED
    BY <2>1, <2>2, <2>3, <2>4 DEF Flights
<1>7. Agreements'
  <2>. SUFFICES ASSUME NEW e \in Dialogs, ~disturbed[e]
                PROVE  Agreed(e, dialog[e], jobs', photo, wanted[e])
    BY <1>4 DEF Agreements
  <2>1. \A a : a.step = "done" => (a \in jobs' <=> a \in jobs)
    BY <1>2, <1>3
  <2>2. (Waiting(e, jobs') <=> Waiting(e, jobs)) /\ (Saving(e, jobs') <=> Saving(e, jobs))
    BY <1>2, <1>3 DEF Waiting, Saving
  <2>3. Agreed(e, dialog[e], jobs, photo, wanted[e])
    BY DEF EditingInv, Agreements
  <2>. QED
    BY <2>1, <2>2, <2>3 DEF Agreed
<1>. QED
  BY <1>4, <1>5, <1>6, <1>7 DEF EditingInv, Requests, Placed

LEMMA FailureStep ==
  ASSUME EditingInv, NEW j \in jobs, j.step \in {"sent", "read"},
         jobs' = Ended(j, "failed", j.photo),
         UNCHANGED <<server, dialog, posts, wanted, disturbed>>
  PROVE  EditingInv'
<1>1. j.photo \in Photos
  BY DEF EditingInv, Types, Job
<1>2. CASE j.awaited \/ j.orphan
  <2>1. jobs' = Step(j, "failed", j.photo)
    BY <1>2 DEF Ended
  <2>. QED
    BY <1>1, <2>1, JobStep
<1>3. CASE ~(j.awaited \/ j.orphan)
  <2>1. jobs' = jobs \ {j}
    BY <1>3 DEF Ended
  <2>. QED
    BY <1>3, <2>1, OrphanEnds
<1>. QED
  BY <1>2, <1>3

LEMMA ServerKeeps ==
  ASSUME EditingInv, NEW j \in jobs, ReadOriginal(j) \/ FailRotation(j)
  PROVE  EditingInv'
<1>1. photo \in Photos
  BY DEF EditingInv, Types
<1>2. CASE ReadOriginal(j)
  <2>1. j.step = "sent" /\ UNCHANGED <<server, dialog, posts, wanted, disturbed>>
    BY <1>2 DEF ReadOriginal
  <2>2. jobs' = Step(j, "read", photo) \/ jobs' = Ended(j, "failed", j.photo)
    BY <1>2 DEF ReadOriginal
  <2>. QED
    BY <1>1, <2>1, <2>2, JobStep, FailureStep
<1>3. CASE FailRotation(j)
  BY <1>3, FailureStep DEF FailRotation
<1>. QED
  BY <1>2, <1>3

\* The only request of an undisturbed dialog is the one its queue waits for.
LEMMA OneRequest ==
  ASSUME EditingInv, NEW j \in jobs, ~disturbed[j.dialog]
  PROVE  /\ j.awaited
         /\ \A k \in jobs : k.dialog = j.dialog => k = j
BY DEF EditingInv, Flights

LEMMA AnswerKeeps ==
  ASSUME EditingInv, NEW j \in jobs, Answer(j)
  PROVE  EditingInv'
<1>. DEFINE d == j.dialog
            q == dialog[d]
            others == jobs \ {j}
<1>1. j \in Job /\ d \in Dialogs /\ Tidy(q) /\ q \in Queue /\ photo \in Photos /\ j.photo \in Photos
  BY DEF EditingInv, Types, Job
<1>2. UNCHANGED <<server, posts, wanted, disturbed>> /\ j.step \in {"done", "failed"}
  BY DEF Answer
<1>3. CASE ~j.awaited
  <2>1. AnswerOrphan(j)
    BY <1>3 DEF Answer
  <2>2. dialog = [dialog EXCEPT ![d] = q]
    BY <1>1 DEF EditingInv, Types
  <2>3. CASE j.orphan /\ j.step = "done" /\ j.rest # 0
    <3>. DEFINE new == NewJob(d, Sent(j.rest), j.photo, FALSE)
    <3>1. jobs' = others \cup {new} /\ dialog' = dialog
      BY <2>1, <2>3 DEF AnswerOrphan
    <3>2. Sent(j.rest) \in Rotations
      BY <1>1, <2>3 DEF Sent, Rotations, Job, Dial
    <3>3. new \in Job /\ ~new.awaited /\ new.dialog = d
      <4>1. Sha(j.photo) \in Pictures \X Nat /\ 0 \in Dial
        BY <1>1, ShaType DEF Dial
      <4>. QED
        BY <1>1, <3>2, <4>1 DEF NewJob, Job
    <3>. HIDE DEF new
    <3>4. {new} \in SUBSET Job /\ \A k \in {new} : ~k.awaited /\ k.dialog = j.dialog
      BY <3>3
    <3>. QED
      BY <1>2, <1>3, <2>2, <3>1, <3>3, <3>4, OrphanStep
  <2>4. CASE j.orphan /\ j.step = "done" /\ j.rest = 0
    <3>1. jobs' = others \cup {} /\ dialog' = [dialog EXCEPT ![d] = [q EXCEPT !.photo = j.photo]]
      BY <2>1, <2>4 DEF AnswerOrphan
    <3>2. {} \in SUBSET Job /\ \A k \in {} : ~k.awaited /\ k.dialog = j.dialog
      OBVIOUS
    <3>. QED
      BY <1>2, <1>3, <3>1, <3>2, OrphanStep
  <2>5. CASE ~(j.orphan /\ j.step = "done")
    <3>1. jobs' = others /\ dialog' = dialog
      BY <2>1, <2>5 DEF AnswerOrphan
    <3>. QED
      BY <1>2, <1>3, <3>1, OrphanEnds
  <2>. QED
    BY <2>3, <2>4, <2>5
<1>4. CASE j.awaited
  <2>. DEFINE r == IF j.step = "done" THEN Saved(q, j.photo) ELSE Failed(q)
  <2>1. Becomes(d, r, others)
    BY <1>4 DEF Answer
  <2>2. q.flight # 0 /\ q.flight \in Angles /\ q.queued \in Angles
    <3>1. q.flight = j.degrees
      BY <1>4 DEF EditingInv, Flights
    <3>2. q.flight # 0
      BY <1>1, <3>1 DEF Job, Rotations
    <3>. QED
      BY <1>1, <3>2, QueueAngles
  <2>3. /\ j.step = "done" => Tidy(r) /\ r.current = j.photo /\ r.marking = q.marking
        /\ j.step = "done" => \A p \in Photos :
               Turns(Shown(p.picture), r.queued + r.flight) = Turns(Shown(p.picture), q.queued)
        /\ j.step = "done" =>
              (Honest(q) /\ Shown(j.photo.picture) = Turns(Shown(q.current.picture), q.flight) => Honest(r))
    BY <1>1, <2>2, SavedParts
  <2>4. j.step # "done" =>
            /\ Tidy(r) /\ r.current = q.current /\ r.marking = q.marking
            /\ r.flight = 0 /\ r.queued = Normalize(q.queued + q.flight)
            /\ Honest(q) => Honest(r)
    BY <1>1, <2>2, FailedParts
  <2>. HIDE DEF r
  <2>5. Tidy(r) /\ r.marking = q.marking /\ ~q.marking
    BY <1>1, <2>2, <2>3, <2>4 DEF EditingInv, Requests, Busy
  <2>6. \A k \in others : ~(k.dialog = d /\ k.awaited)
    BY <1>4 DEF EditingInv, Flights
  <2>7. ASSUME ~disturbed[d]
        PROVE  /\ Honest(r) /\ r.current = photo
               /\ Turns(Shown(photo.picture), r.queued + r.flight) = wanted[d]
               /\ \A k \in others : k.dialog # d
    <3>1. \A k \in jobs : k.dialog = d => k = j
      BY <2>7, OneRequest
    <3>2. Agreed(d, q, jobs, photo, wanted[d])
      BY <1>1, <2>7 DEF EditingInv, Agreements
    <3>3. CASE j.step = "done"
      <4>1. ~Waiting(d, jobs) /\ q.queued + 0 = q.queued
        <5>1. q.queued \in Int
          BY <2>2, AngleParts
        <5>. QED
          BY <3>1, <3>3, <5>1 DEF Waiting
      <4>2. j.photo = photo /\ Shown(photo.picture) = Turns(Shown(q.current.picture), q.flight)
        BY <3>2, <3>3 DEF Agreed
      <4>3. Turns(Shown(photo.picture), q.queued) = wanted[d]
        BY <3>2, <4>1 DEF Agreed
      <4>. HIDE DEF q, d, others
      <4>4. Turns(Shown(photo.picture), r.queued + r.flight) = Turns(Shown(photo.picture), q.queued)
        BY <1>1, <2>3, <3>3
      <4>5. Honest(r) /\ r.current = photo
        BY <2>3, <3>2, <3>3, <4>2 DEF Agreed
      <4>. QED
        BY <3>1, <4>3, <4>4, <4>5 DEF others
    <3>4. CASE j.step # "done"
      <4>1. Waiting(d, jobs) /\ ~Saving(d, jobs)
        BY <3>1, <3>4 DEF Waiting, Saving
      <4>2. Turns(Shown(photo.picture), q.queued + q.flight) = wanted[d] /\ q.current = photo
        BY <3>2, <4>1 DEF Agreed
      <4>3. q.queued + q.flight \in Angles
        BY <2>2, AngleParts
      <4>4. Turns(Shown(photo.picture), Normalize(q.queued + q.flight)) = wanted[d]
        BY <1>1, <4>2, <4>3, ShownTurns
      <4>5. Normalize(q.queued + q.flight) + 0 = Normalize(q.queued + q.flight)
        <5>1. Normalize(q.queued + q.flight) \in Int
          BY <4>3, AngleParts
        <5>. QED
          BY <5>1
      <4>. HIDE DEF q, d, others
      <4>6. Honest(r) /\ r.current = photo
        BY <2>4, <3>2, <3>4, <4>2 DEF Agreed
      <4>7. Turns(Shown(photo.picture), r.queued + r.flight) = wanted[d]
        BY <2>4, <3>4, <4>4, <4>5
      <4>. QED
        BY <3>1, <4>6, <4>7 DEF others
    <3>. QED
      BY <3>3, <3>4
  <2>8. wanted' = wanted /\ wanted \in [Dialogs -> Views]
    BY <1>2 DEF EditingInv, Types
  <2>9. /\ others \in SUBSET jobs
        /\ \A k \in jobs : k.dialog # d => k \in others
    OBVIOUS
  <2>. HIDE DEF d, q, others
  <2>. QED
    BY <1>1, <1>2, <2>1, <2>5, <2>6, <2>7, <2>8, <2>9, QueueStep DEF q
<1>. QED
  BY <1>3, <1>4

\* The answer is lost: the dialog is disturbed and queues the turn again.
LEMMA GiveUpAwaitedKeeps ==
  ASSUME EditingInv, NEW j \in jobs, j.awaited, GiveUp(j)
  PROVE  EditingInv'
<1>. DEFINE d == j.dialog
            q == dialog[d]
            r == Failed(q)
            k == [j EXCEPT !.awaited = FALSE, !.orphan = FALSE, !.rest = 0]
<1>1. j \in Job /\ d \in Dialogs /\ Tidy(q) /\ j.awaited
  BY DEF EditingInv, Types, Job
<1>2. q.flight # 0
  <2>1. q.flight = j.degrees
    BY <1>1 DEF EditingInv, Flights
  <2>. QED
    BY <1>1, <2>1 DEF Job, Rotations
<1>3. Tidy(r) /\ r.flight = 0 /\ r.marking = q.marking /\ ~q.marking
  <2>1. Tidy(r) /\ r.flight = 0 /\ r.marking = q.marking
    BY <1>1, <1>2, FailedParts
  <2>. QED
    BY <1>1, <1>2, <2>1 DEF EditingInv, Requests, Busy
<1>4. k \in Job /\ k.dialog = d /\ ~k.awaited
  <2>1. FALSE \in BOOLEAN /\ 0 \in Dial
    BY DEF Dial
  <2>. QED
    BY <1>1, <2>1 DEF Job
<1>5. /\ jobs' = (jobs \ {j}) \cup {k}
      /\ dialog' = [dialog EXCEPT ![d] = r]
      /\ disturbed' = [disturbed EXCEPT ![d] = TRUE]
      /\ photo' = photo /\ markers' = markers /\ posts' = posts /\ wanted' = wanted
  BY DEF GiveUp, server
<1>. HIDE DEF d, q, r, k
<1>6. /\ dialog' \in [Dialogs -> Queue] /\ dialog'[d] = r
      /\ \A e \in Dialogs : e # d => dialog'[e] = dialog[e]
      /\ disturbed' \in [Dialogs -> BOOLEAN] /\ disturbed'[d] = TRUE
      /\ \A e \in Dialogs : e # d => disturbed'[e] = disturbed[e]
  BY <1>1, <1>3, <1>5 DEF EditingInv, Types, Tidy
<1>7. Types'
  BY <1>4, <1>5, <1>6 DEF EditingInv, Types
<1>8. \A e \in Dialogs : Tidy(dialog'[e])
  BY <1>3, <1>6 DEF EditingInv
<1>9. \A a \in jobs : a.dialog \in Dialogs /\ (a.awaited /\ a.dialog = d => a = j)
  BY <1>1 DEF EditingInv, Types, Flights, Job, d
<1>10. Flights'
  <2>1. \A a \in jobs' : a.awaited => a.degrees = dialog'[a.dialog].flight
    BY <1>4, <1>5, <1>6, <1>9 DEF EditingInv, Flights
  <2>2. \A a, b \in jobs' : a.awaited /\ b.awaited /\ a.dialog = b.dialog => a = b
    BY <1>4, <1>5 DEF EditingInv, Flights
  <2>3. \A e \in Dialogs : dialog'[e].flight # 0 => \E a \in jobs' : a.dialog = e /\ a.awaited
    <3>. SUFFICES ASSUME NEW e \in Dialogs, dialog'[e].flight # 0
                  PROVE  \E a \in jobs' : a.dialog = e /\ a.awaited
      OBVIOUS
    <3>1. e # d
      BY <1>3, <1>6
    <3>2. PICK a \in jobs : a.dialog = e /\ a.awaited
      BY <1>6, <3>1 DEF EditingInv, Flights
    <3>3. a # j
      BY <3>1, <3>2 DEF d
    <3>. QED
      BY <1>5, <3>2, <3>3
  <2>4. \A a \in jobs' : a.awaited \/ disturbed'[a.dialog]
    BY <1>4, <1>5, <1>6, <1>9 DEF EditingInv, Flights
  <2>. QED
    BY <2>1, <2>2, <2>3, <2>4 DEF Flights
<1>11. Agreements'
  <2>. SUFFICES ASSUME NEW e \in Dialogs, ~disturbed'[e]
                PROVE  Agreed(e, dialog'[e], jobs', photo, wanted[e])
    BY <1>5 DEF Agreements
  <2>1. e # d
    BY <1>6
  <2>2. \A a : a.dialog = e => (a \in jobs' <=> a \in jobs)
    BY <1>4, <1>5, <2>1 DEF d
  <2>3. (Waiting(e, jobs') <=> Waiting(e, jobs)) /\ (Saving(e, jobs') <=> Saving(e, jobs))
    BY <2>2 DEF Waiting, Saving
  <2>4. Agreed(e, dialog[e], jobs, photo, wanted[e]) /\ dialog'[e] = dialog[e]
    BY <1>6, <2>1 DEF EditingInv, Agreements
  <2>. QED
    BY <2>2, <2>3, <2>4 DEF Agreed
<1>12. Requests'
  <2>1. \A p \in posts : p.dialog \in Dialogs
    BY DEF EditingInv, Types, Post
  <2>2. \A e \in Dialogs : dialog'[e].marking = dialog[e].marking
    BY <1>3, <1>6 DEF q
  <2>3. \A e \in Dialogs : dialog'[e].marking => e # d
    BY <1>3, <1>6
  <2>. QED
    BY <1>5, <1>6, <2>1, <2>2, <2>3 DEF EditingInv, Requests
<1>. QED
  BY <1>5, <1>7, <1>8, <1>10, <1>11, <1>12 DEF EditingInv, Placed

LEMMA GiveUpKeeps ==
  ASSUME EditingInv, NEW j \in jobs, GiveUp(j)
  PROVE  EditingInv'
<1>1. CASE j.awaited
  BY <1>1, GiveUpAwaitedKeeps
<1>2. CASE ~j.awaited
  <2>. DEFINE k == [j EXCEPT !.awaited = FALSE, !.orphan = FALSE, !.rest = 0]
  <2>1. k \in Job /\ ~k.awaited /\ k.dialog = j.dialog /\ j.dialog \in Dialogs
    <3>1. FALSE \in BOOLEAN /\ 0 \in Dial /\ j \in Job
      BY DEF EditingInv, Types, Dial
    <3>. QED
      BY <3>1 DEF Job
  <2>2. jobs' = (jobs \ {j}) \cup {k} /\ UNCHANGED <<server, posts, wanted>>
    BY DEF GiveUp
  <2>3. dialog' = [dialog EXCEPT ![j.dialog] = dialog[j.dialog]]
    BY <1>2, <2>1 DEF GiveUp, EditingInv, Types
  <2>4. disturbed' = disturbed
    <3>1. disturbed' = [disturbed EXCEPT ![j.dialog] = TRUE] /\ disturbed[j.dialog] = TRUE
      BY <1>2, <2>1 DEF GiveUp, EditingInv, Types, Flights
    <3>. QED
      BY <3>1 DEF EditingInv, Types
  <2>. HIDE DEF k
  <2>5. {k} \in SUBSET Job /\ \A a \in {k} : ~a.awaited /\ a.dialog = j.dialog
    BY <2>1
  <2>. QED
    BY <1>2, <2>2, <2>3, <2>4, <2>5, OrphanStep
<1>. QED
  BY <1>1, <1>2

\* The photo is fetched again: a dialog that saves something may show more than
\* it should.
LEMMA RefetchKeeps ==
  ASSUME EditingInv, NEW d \in Dialogs, Refetch(d)
  PROVE  EditingInv'
<1>. DEFINE q == dialog[d]
            r == [q EXCEPT !.photo = photo]
<1>1. q \in Queue /\ Tidy(q) /\ photo \in Photos
  BY DEF EditingInv, Types
<1>2. /\ r \in Queue /\ r.photo = photo /\ r.current = q.current /\ r.queued = q.queued
      /\ r.preview = q.preview /\ r.timer = q.timer /\ r.flight = q.flight /\ r.error = q.error
      /\ r.marking = q.marking
  BY <1>1 DEF Queue
<1>3. /\ dialog' = [dialog EXCEPT ![d] = r]
      /\ disturbed' = [disturbed EXCEPT ![d] = disturbed[d] \/ Busy(q)]
      /\ photo' = photo /\ markers' = markers /\ jobs' = jobs /\ posts' = posts /\ wanted' = wanted
  BY DEF Refetch, server
<1>. HIDE DEF r
<1>4. /\ dialog' \in [Dialogs -> Queue] /\ dialog'[d] = r
      /\ \A e \in Dialogs : e # d => dialog'[e] = dialog[e]
      /\ \A e \in Dialogs : e # d => disturbed'[e] = disturbed[e]
      /\ \A e \in Dialogs : disturbed[e] => disturbed'[e]
      /\ disturbed'[d] <=> disturbed[d] \/ Busy(q)
      /\ disturbed' \in [Dialogs -> BOOLEAN]
  <2>1. (disturbed[d] \/ Busy(q)) \in BOOLEAN
    OBVIOUS
  <2>2. /\ disturbed' \in [Dialogs -> BOOLEAN]
        /\ disturbed'[d] = (disturbed[d] \/ Busy(q))
        /\ \A e \in Dialogs : e # d => disturbed'[e] = disturbed[e]
    BY <1>3, <2>1, Zenon DEF EditingInv, Types
  <2>. QED
    BY <1>2, <1>3, <2>2 DEF EditingInv, Types
<1>5. \A e \in Dialogs : /\ dialog'[e].marking = dialog[e].marking
                         /\ dialog'[e].flight = dialog[e].flight
                         /\ dialog'[e].queued = dialog[e].queued
                         /\ Tidy(dialog'[e])
  BY <1>1, <1>2, <1>4 DEF EditingInv, Tidy, Busy
<1>6. Types'
  BY <1>3, <1>4 DEF EditingInv, Types
<1>7. Flights'
  <2>1. \A j \in jobs : j.dialog \in Dialogs
    BY DEF EditingInv, Types, Job
  <2>. QED
    BY <1>3, <1>4, <1>5, <2>1 DEF EditingInv, Flights
<1>8. Agreements'
  <2>. SUFFICES ASSUME NEW e \in Dialogs, ~disturbed'[e]
                PROVE  Agreed(e, dialog'[e], jobs, photo, wanted[e])
    BY <1>3 DEF Agreements
  <2>1. Agreed(e, dialog[e], jobs, photo, wanted[e])
    BY <1>4 DEF EditingInv, Agreements
  <2>2. CASE e # d
    BY <1>4, <2>1, <2>2
  <2>3. CASE e = d
    <3>1. ~Busy(q) /\ q.preview = 0 /\ q.flight = 0 /\ q.queued = 0
      BY <1>1, <1>4, <2>3 DEF Tidy, Busy
    <3>2. \A j \in jobs : j.dialog # d
      BY <1>4, <2>3, <3>1, Idle
    <3>3. q.current = photo
      BY <2>1, <2>3, <3>2 DEF Agreed, Saving
    <3>4. Honest(r)
      BY <1>2, <3>1, <3>3 DEF Honest
    <3>. QED
      BY <1>2, <1>4, <2>1, <2>3, <3>4 DEF Agreed
  <2>. QED
    BY <2>2, <2>3
<1>9. Requests'
  <2>1. \A p \in posts : p.dialog \in Dialogs
    BY DEF EditingInv, Types, Post
  <2>2. \A e \in Dialogs : Busy(dialog'[e]) <=> Busy(dialog[e])
    BY <1>5 DEF Busy
  <2>. QED
    BY <1>3, <1>4, <1>5, <2>1, <2>2 DEF EditingInv, Requests
<1>. QED
  BY <1>3, <1>5, <1>6, <1>7, <1>8, <1>9 DEF EditingInv, Placed

LEMMA FreshParts ==
  ASSUME NEW p \in Photos
  PROVE  /\ Tidy(Fresh(p)) /\ Fresh(p).flight = 0 /\ Fresh(p).queued = 0 /\ Fresh(p).current = p
         /\ Fresh(p).marking = FALSE
         /\ Honest(Fresh(p))
<1>. DEFINE q == Fresh(p)
<1>1. /\ q \in Queue /\ q.photo = p /\ q.current = p /\ q.queued = 0 /\ q.preview = 0
      /\ q.flight = 0 /\ q.error = FALSE /\ q.marking = FALSE
  BY DEF Fresh, Queue, Dial
<1>. HIDE DEF q
<1>2. Tidy(q) /\ Honest(q)
  BY <1>1 DEF Tidy, Honest
<1>. QED
  BY <1>1, <1>2 DEF q

LEMMA OrphanedParts ==
  ASSUME NEW d, dialog[d] \in Queue, NEW j \in Job
  PROVE  LET k == Orphaned(d, j) IN
         /\ k \in Job /\ k.dialog = j.dialog /\ k.step = j.step
         /\ j.dialog = d => ~k.awaited
         /\ j.dialog # d => k = j
         /\ k = j \/ (k.rest = dialog[d].queued /\ j.awaited /\ j.dialog = d /\ ~k.awaited)
<1>1. CASE j.dialog = d /\ j.awaited
  <2>1. dialog[d].queued \in Dial
    BY DEF Queue
  <2>2. Orphaned(d, j) = [j EXCEPT !.awaited = FALSE, !.orphan = TRUE, !.rest = dialog[d].queued]
    BY <1>1 DEF Orphaned
  <2>. QED
    BY <1>1, <2>1, <2>2 DEF Job
<1>2. CASE ~(j.dialog = d /\ j.awaited)
  BY <1>2 DEF Orphaned
<1>. QED
  BY <1>1, <1>2

LEMMA IgnoredParts ==
  ASSUME NEW d, NEW p \in Post
  PROVE  LET r == Ignored(d, p) IN
         /\ r \in Post /\ r.dialog = p.dialog /\ r.point = p.point /\ r.seen = p.seen
         /\ r.x = p.x /\ r.y = p.y
         /\ p.dialog = d => ~r.awaited
         /\ p.dialog # d => r = p
<1>1. CASE p.dialog = d
  <2>1. Ignored(d, p) = [p EXCEPT !.awaited = FALSE]
    BY <1>1 DEF Ignored
  <2>. QED
    BY <1>1, <2>1 DEF Post
<1>2. CASE p.dialog # d
  BY <1>2 DEF Ignored
<1>. QED
  BY <1>1, <1>2

\* A dialog that is opened anew awaits nothing; it knows the photo if none of its
\* rotations is under way and the page has the photo that is stored.
LEMMA OpenKeeps ==
  ASSUME EditingInv, NEW d \in Dialogs, Open(d)
  PROVE  EditingInv'
<1>1. PICK p \in {photo, dialog[d].photo} :
         /\ dialog' = [dialog EXCEPT ![d] = Fresh(p)]
         /\ wanted' = [wanted EXCEPT ![d] = Shown(p.picture)]
         /\ disturbed' = [disturbed EXCEPT ![d] = p # photo \/ \E j \in jobs : j.dialog = d]
  BY DEF Open
<1>2. /\ jobs' = {Orphaned(d, j) : j \in jobs} /\ posts' = {Ignored(d, r) : r \in posts}
      /\ photo' = photo /\ markers' = markers
  BY DEF Open, server
<1>3. dialog[d] \in Queue /\ p \in Photos /\ Shown(p.picture) \in Views
  <2>1. dialog[d] \in Queue /\ p \in Photos
    BY QueueAngles DEF EditingInv, Types
  <2>. QED
    BY <2>1, PictureParts DEF Photos
<1>. DEFINE r == Fresh(p)
            late == p # photo \/ \E j \in jobs : j.dialog = d
<1>4. /\ Tidy(r) /\ r.flight = 0 /\ r.queued = 0 /\ r.current = p /\ r.marking = FALSE
      /\ Honest(r)
  BY <1>3, FreshParts
<1>5. /\ disturbed' \in [Dialogs -> BOOLEAN] /\ disturbed'[d] = late
      /\ \A e \in Dialogs : e # d => disturbed'[e] = disturbed[e]
  <2>1. late \in BOOLEAN
    OBVIOUS
  <2>2. disturbed' = [disturbed EXCEPT ![d] = late]
    BY <1>1
  <2>. HIDE DEF late
  <2>. QED
    BY <2>1, <2>2, Zenon DEF EditingInv, Types
<1>6. disturbed'[d] <=> p # photo \/ \E j \in jobs : j.dialog = d
  BY <1>5
<1>7. dialog' = [dialog EXCEPT ![d] = r]
  BY <1>1
<1>. HIDE DEF r, late
<1>8. /\ dialog' \in [Dialogs -> Queue] /\ dialog'[d] = r
      /\ \A e \in Dialogs : e # d => dialog'[e] = dialog[e]
      /\ wanted' \in [Dialogs -> Views] /\ wanted'[d] = Shown(p.picture)
      /\ \A e \in Dialogs : e # d => wanted'[e] = wanted[e]
  BY <1>1, <1>3, <1>4, <1>7 DEF EditingInv, Types, Tidy
<1>9. /\ \A j \in jobs' : /\ j \in Job /\ j.dialog \in Dialogs
                          /\ j.dialog = d => (~j.awaited /\ \E k \in jobs : k.dialog = d)
                          /\ j.dialog # d => j \in jobs
      /\ \A j \in jobs : j.dialog # d => j \in jobs'
  <2>1. \A j \in jobs : j \in Job
    BY DEF EditingInv, Types
  <2>2. \A j \in jobs : /\ Orphaned(d, j) \in Job /\ Orphaned(d, j).dialog = j.dialog
                        /\ j.dialog = d => ~Orphaned(d, j).awaited
                        /\ j.dialog # d => Orphaned(d, j) = j
    BY <1>3, <2>1, OrphanedParts
  <2>3. \A j \in Job : j.dialog \in Dialogs
    BY DEF Job
  <2>. QED
    BY <1>2, <2>2, <2>3
<1>10. /\ \A a \in posts' : /\ a \in Post /\ a.dialog \in Dialogs
                            /\ a.awaited => (a.dialog # d /\ a \in posts)
                            /\ Middle(a.seen, a.x, a.y, a.point)
       /\ \A a \in posts : a.dialog # d => a \in posts'
  <2>1. \A a \in posts : a \in Post /\ Middle(a.seen, a.x, a.y, a.point)
    BY DEF EditingInv, Types, Requests
  <2>2. \A a \in posts : LET b == Ignored(d, a) IN
            /\ b \in Post /\ b.dialog = a.dialog /\ Middle(b.seen, b.x, b.y, b.point)
            /\ a.dialog = d => ~b.awaited
            /\ a.dialog # d => b = a
    BY <2>1, IgnoredParts
  <2>3. \A a \in Post : a.dialog \in Dialogs
    BY DEF Post
  <2>. QED
    BY <1>2, <2>2, <2>3
<1>11. Types'
  <2>1. jobs' \subseteq Job /\ posts' \subseteq Post
    BY <1>9, <1>10
  <2>. QED
    BY <1>2, <1>5, <1>8, <2>1 DEF EditingInv, Types
<1>12. Flights'
  <2>1. \A j \in jobs' : j.awaited => j.degrees = dialog'[j.dialog].flight
    BY <1>8, <1>9 DEF EditingInv, Flights
  <2>2. \A e \in Dialogs : dialog'[e].flight # 0 => \E j \in jobs' : j.dialog = e /\ j.awaited
    <3>. SUFFICES ASSUME NEW e \in Dialogs, dialog'[e].flight # 0
                  PROVE  \E j \in jobs' : j.dialog = e /\ j.awaited
      OBVIOUS
    <3>1. e # d
      BY <1>4, <1>8
    <3>. QED
      BY <1>8, <1>9, <3>1 DEF EditingInv, Flights
  <2>3. \A j \in jobs' : j.awaited \/ disturbed'[j.dialog]
    BY <1>5, <1>6, <1>9 DEF EditingInv, Flights
  <2>4. \A j, k \in jobs' : j.awaited /\ k.awaited /\ j.dialog = k.dialog => j = k
    BY <1>9 DEF EditingInv, Flights
  <2>. QED
    BY <2>1, <2>2, <2>3, <2>4 DEF Flights
<1>13. Agreements'
  <2>. SUFFICES ASSUME NEW e \in Dialogs, ~disturbed'[e]
                PROVE  Agreed(e, dialog'[e], jobs', photo, wanted'[e])
    BY <1>2 DEF Agreements
  <2>1. CASE e # d
    <3>1. \A a : a.dialog = e => (a \in jobs' <=> a \in jobs)
      BY <1>9, <2>1
    <3>2. (Waiting(e, jobs') <=> Waiting(e, jobs)) /\ (Saving(e, jobs') <=> Saving(e, jobs))
      BY <3>1 DEF Waiting, Saving
    <3>3. Agreed(e, dialog[e], jobs, photo, wanted[e])
      BY <1>5, <2>1 DEF EditingInv, Agreements
    <3>. QED
      BY <1>8, <2>1, <3>1, <3>2, <3>3 DEF Agreed
  <2>2. CASE e = d
    <3>1. p = photo /\ \A j \in jobs' : j.dialog # d
      BY <1>6, <1>9, <2>2
    <3>2. ~Waiting(d, jobs')
      BY <3>1 DEF Waiting
    <3>3. Turns(Shown(photo.picture), 0 + 0) = Shown(photo.picture)
      BY TurnsZero
    <3>. QED
      BY <1>4, <1>8, <2>2, <3>1, <3>2, <3>3 DEF Agreed
  <2>. QED
    BY <2>1, <2>2
<1>14. Requests'
  <2>1. \A a \in posts' : a.awaited => dialog'[a.dialog].marking
    BY <1>8, <1>10 DEF EditingInv, Requests
  <2>2. \A a, b \in posts' : a.awaited /\ b.awaited /\ a.dialog = b.dialog => a = b
    BY <1>10 DEF EditingInv, Requests
  <2>3. \A e \in Dialogs : dialog'[e].marking =>
            ~Busy(dialog'[e]) /\ \E a \in posts' : a.dialog = e /\ a.awaited
    <3>. SUFFICES ASSUME NEW e \in Dialogs, dialog'[e].marking
                  PROVE  ~Busy(dialog'[e]) /\ \E a \in posts' : a.dialog = e /\ a.awaited
      OBVIOUS
    <3>1. e # d
      BY <1>4, <1>8
    <3>. QED
      BY <1>8, <1>10, <3>1 DEF EditingInv, Requests
  <2>4. \A a \in posts' : a.awaited /\ ~disturbed'[a.dialog] => a.seen = Shown(photo.picture)
    BY <1>5, <1>10 DEF EditingInv, Requests
  <2>. QED
    BY <1>2, <1>10, <2>1, <2>2, <2>3, <2>4 DEF Requests
<1>. QED
  BY <1>2, <1>4, <1>8, <1>11, <1>12, <1>13, <1>14 DEF EditingInv, Placed

\* One transaction turns the photo and its markers, for the one dialog whose
\* request this is: no other knows.
LEMMA ReplaceKeeps ==
  ASSUME EditingInv, NEW j \in jobs, ReplaceRotatedPhoto(j)
  PROVE  EditingInv'
<1>. DEFINE d == j.dialog
            degrees == j.degrees
            p == Photo(RotatePixels(photo.picture, degrees), photo.key + 1)
            k == [j EXCEPT !.step = "done", !.photo = p]
<1>1. /\ j \in Job /\ d \in Dialogs /\ degrees \in Rotations /\ photo \in Photos /\ j.photo \in Photos
      /\ j.step = "read"
  BY DEF EditingInv, Types, Job, ReplaceRotatedPhoto
<1>2. CASE ~Unchanged(j)
  <2>1. jobs' = Ended(j, "failed", j.photo) /\ UNCHANGED <<server, disturbed, dialog, posts, wanted>>
    BY <1>2 DEF ReplaceRotatedPhoto
  <2>. QED
    BY <1>1, <2>1, FailureStep
<1>3. CASE Unchanged(j)
  <2>1. j.photo.picture = photo.picture
    BY <1>3 DEF Unchanged, Sha
  <2>2. /\ photo' = p /\ markers' = TurnMarkers(degrees)
        /\ jobs' = IF j.awaited \/ j.orphan THEN (jobs \ {j}) \cup {k} ELSE jobs \ {j}
        /\ disturbed' = [e \in Dialogs |-> disturbed[e] \/ e # d]
        /\ dialog' = dialog /\ posts' = posts /\ wanted' = wanted
    BY <1>3, <2>1 DEF ReplaceRotatedPhoto, Ended, Step
  <2>3. /\ p \in Photos /\ Shown(p.picture) = Turns(Shown(photo.picture), degrees)
        /\ Shown(photo.picture) \in Views
    <3>1. photo.picture \in Pictures /\ photo.key + 1 \in Nat
      BY <1>1 DEF Photos
    <3>. QED
      BY <1>1, <3>1, RotatedPicture, PictureParts DEF Photo, Photos
  <2>. HIDE DEF p
  <2>4. k \in Job /\ k.dialog = d /\ k.degrees = degrees /\ k.awaited = j.awaited /\ k.step = "done" /\ k.photo = p
    BY <1>1, <2>3 DEF Job
  <2>. HIDE DEF k, degrees, d
  <2>5. /\ \A e \in Dialogs : disturbed'[e] <=> disturbed[e] \/ e # d
        /\ disturbed' \in [Dialogs -> BOOLEAN]
    BY <2>2
  <2>6. ASSUME NEW m \in markers'
        PROVE  /\ m \in Marker
               /\ \E n \in markers : /\ m.pointed = n.pointed /\ m.seen = n.seen /\ m.excused = n.excused
                                     /\ LET at == TurnMarker(degrees, Scale(Width, Height), n.x, n.y)
                                        IN m.x = at[1] /\ m.y = at[2]
    <3>1. PICK n \in markers :
             m = LET at == TurnMarker(degrees, Scale(Width, Height), n.x, n.y)
                 IN [n EXCEPT !.x = at[1], !.y = at[2]]
      BY <2>2 DEF TurnMarkers
    <3>. DEFINE at == TurnMarker(degrees, Scale(Width, Height), n.x, n.y)
    <3>2. n \in Marker
      BY DEF EditingInv, Types
    <3>3. at[1] \in Place /\ at[2] \in Place
      BY <1>1, <3>2, PlaceTurned DEF Marker, degrees
    <3>4. m = [n EXCEPT !.x = at[1], !.y = at[2]]
      BY <3>1
    <3>. HIDE DEF at
    <3>5. /\ m \in Marker /\ m.pointed = n.pointed /\ m.seen = n.seen /\ m.excused = n.excused
          /\ m.x = at[1] /\ m.y = at[2]
      BY <3>2, <3>3, <3>4 DEF Marker
    <3>. QED
      BY <3>5 DEF at
  <2>7. Types'
    BY <2>2, <2>3, <2>4, <2>5, <2>6 DEF EditingInv, Types
  <2>8. Flights'
    <3>1. \A a \in jobs' : a.dialog \in Dialogs /\ (a \in jobs \/ (a = k /\ (j.awaited \/ j.orphan)))
      BY <1>1, <2>2, <2>4 DEF EditingInv, Types, Job
    <3>2. \A a \in jobs' : a.awaited => a.degrees = dialog'[a.dialog].flight
      BY <2>2, <2>4, <3>1 DEF EditingInv, Flights, d, degrees
    <3>3. \A a, b \in jobs' : a.awaited /\ b.awaited /\ a.dialog = b.dialog => a = b
      BY <2>2, <2>4 DEF EditingInv, Flights, d
    <3>4. \A e \in Dialogs : dialog'[e].flight # 0 => \E a \in jobs' : a.dialog = e /\ a.awaited
      BY <2>2, <2>4 DEF EditingInv, Flights, d
    <3>5. \A a \in jobs' : a.awaited \/ disturbed'[a.dialog]
      BY <2>4, <2>5, <3>1 DEF EditingInv, Flights, d
    <3>. QED
      BY <3>2, <3>3, <3>4, <3>5 DEF Flights
  <2>9. Agreements'
    <3>. SUFFICES ASSUME NEW e \in Dialogs, ~disturbed'[e]
                  PROVE  Agreed(e, dialog[e], jobs', p, wanted[e])
      BY <2>2 DEF Agreements
    <3>1. e = d /\ ~disturbed[d]
      BY <2>5
    <3>2. Agreed(d, dialog[d], jobs, photo, wanted[d])
      BY <1>1, <3>1 DEF EditingInv, Agreements
    <3>3. j.awaited /\ \A a \in jobs : a.dialog = d => a = j
      BY <3>1, OneRequest DEF d
    <3>4. \A a \in jobs' : a.dialog = d => a = k
      BY <2>2, <3>3
    <3>5. ~Saving(d, jobs) /\ Waiting(d, jobs)
      BY <1>1, <3>3 DEF Saving, Waiting, d
    <3>6. Saving(d, jobs') /\ ~Waiting(d, jobs')
      BY <2>2, <2>4, <3>3, <3>4 DEF Saving, Waiting
    <3>7. dialog[d].flight = degrees
      BY <3>3 DEF EditingInv, Flights, d, degrees
    <3>8. dialog[d].current = photo /\ Honest(dialog[d])
      BY <3>2, <3>5 DEF Agreed
    <3>9. Turns(Shown(p.picture), dialog[d].queued + 0) = wanted[d]
      <4>1. Turns(Shown(photo.picture), dialog[d].queued + degrees) = wanted[d]
        BY <3>2, <3>5, <3>7 DEF Agreed
      <4>2. dialog[d].queued \in Angles /\ degrees \in Angles
        BY <1>1, QueueAngles, AngleParts DEF EditingInv, Types, degrees, d
      <4>3. /\ dialog[d].queued + degrees = degrees + dialog[d].queued
            /\ dialog[d].queued + 0 = dialog[d].queued
        <5>1. dialog[d].queued \in Int /\ degrees \in Int
          BY <4>2, AngleParts
        <5>. QED
          BY <5>1
      <4>4. Turns(Turns(Shown(photo.picture), degrees), dialog[d].queued)
               = Turns(Shown(photo.picture), degrees + dialog[d].queued)
        BY <1>1, <4>2, ShownTurns
      <4>. QED
        BY <2>3, <4>1, <4>3, <4>4
    <3>10. k.photo = p /\ Shown(p.picture) = Turns(Shown(dialog[d].current.picture), dialog[d].flight)
      BY <2>3, <2>4, <3>7, <3>8
    <3>. QED
      BY <3>1, <3>4, <3>6, <3>8, <3>9, <3>10 DEF Agreed
  <2>10. Requests'
    <3>1. ASSUME NEW r \in posts, r.awaited, ~disturbed'[r.dialog]
          PROVE  FALSE
      <4>1. r.dialog = d /\ ~disturbed[d]
        BY <2>5, <3>1 DEF EditingInv, Types, Post
      <4>2. dialog[d].flight = degrees
        BY <4>1, OneRequest DEF EditingInv, Flights, d, degrees
      <4>3. dialog[d].flight # 0
        BY <1>1, <4>2 DEF Rotations, degrees
      <4>4. dialog[d].marking
        BY <3>1, <4>1 DEF EditingInv, Requests
      <4>. QED
        BY <1>1, <4>3, <4>4 DEF EditingInv, Requests, Busy, d
    <3>. QED
      BY <2>2, <3>1 DEF EditingInv, Requests
  <2>11. Placed'
    <3>. SUFFICES ASSUME NEW m \in markers'
                  PROVE  /\ m.seen => Middle(Shown(p.picture), m.x, m.y, m.pointed)
                         /\ m.seen \/ m.excused
      BY <2>2 DEF Placed
    <3>1. PICK n \in markers :
             /\ m.pointed = n.pointed /\ m.seen = n.seen /\ m.excused = n.excused
             /\ LET at == TurnMarker(degrees, Scale(Width, Height), n.x, n.y)
                IN m.x = at[1] /\ m.y = at[2]
      BY <2>6
    <3>2. n.seen => Middle(Shown(photo.picture), n.x, n.y, n.pointed)
      BY DEF EditingInv, Placed
    <3>3. degrees \in Rotations
      BY <1>1 DEF degrees
    <3>4. ASSUME n.seen PROVE Middle(Shown(p.picture), m.x, m.y, m.pointed)
      BY <2>3, <3>1, <3>2, <3>3, <3>4, MiddleTurned
    <3>. QED
      BY <3>1, <3>4 DEF EditingInv, Placed
  <2>. QED
    BY <2>2, <2>7, <2>8, <2>9, <2>10, <2>11 DEF EditingInv
<1>. QED
  BY <1>2, <1>3

-----------------------------------------------------------------------------
(* Steps of the markers.                                                   *)

\* The marker request of a dialog begins or ends.
LEMMA MarkingSet ==
  ASSUME EditingInv, NEW d \in Dialogs, NEW marking \in BOOLEAN,
         dialog' = [dialog EXCEPT ![d].marking = marking],
         UNCHANGED <<photo, jobs, wanted, disturbed>>
  PROVE  /\ dialog' \in [Dialogs -> Queue] /\ dialog'[d].marking = marking
         /\ \A e \in Dialogs : /\ e # d => dialog'[e] = dialog[e]
                               /\ dialog'[e].flight = dialog[e].flight
                               /\ dialog'[e].queued = dialog[e].queued
                               /\ Tidy(dialog'[e])
         /\ Flights' /\ Agreements'
<1>. DEFINE q == dialog[d]
            r == [q EXCEPT !.marking = marking]
<1>1. q \in Queue /\ Tidy(q)
  BY DEF EditingInv, Types
<1>2. /\ r \in Queue /\ r.photo = q.photo /\ r.current = q.current /\ r.queued = q.queued
      /\ r.preview = q.preview /\ r.timer = q.timer /\ r.flight = q.flight /\ r.error = q.error
      /\ r.marking = marking
  BY <1>1 DEF Queue
<1>3. dialog' = [dialog EXCEPT ![d] = r]
  OBVIOUS
<1>. HIDE DEF r
<1>4. /\ dialog' \in [Dialogs -> Queue] /\ dialog'[d] = r
      /\ \A e \in Dialogs : e # d => dialog'[e] = dialog[e]
  BY <1>2, <1>3 DEF EditingInv, Types
<1>5. Tidy(r)
  BY <1>1, <1>2 DEF Tidy, Busy
<1>6. \A e \in Dialogs : /\ dialog'[e].flight = dialog[e].flight
                         /\ dialog'[e].queued = dialog[e].queued
                         /\ Tidy(dialog'[e])
  BY <1>2, <1>4, <1>5 DEF EditingInv
<1>7. Flights'
  <2>1. \A j \in jobs : j.dialog \in Dialogs
    BY DEF EditingInv, Types, Job
  <2>. QED
    BY <1>6, <2>1 DEF EditingInv, Flights
<1>8. Agreements'
  <2>. SUFFICES ASSUME NEW e \in Dialogs, ~disturbed[e]
                PROVE  Agreed(e, dialog'[e], jobs, photo, wanted[e])
    BY DEF Agreements
  <2>1. Agreed(e, dialog[e], jobs, photo, wanted[e])
    BY DEF EditingInv, Agreements
  <2>2. CASE e # d
    BY <1>4, <2>1, <2>2
  <2>3. CASE e = d
    BY <1>2, <1>4, <2>1, <2>3 DEF Agreed, Honest
  <2>. QED
    BY <2>2, <2>3
<1>. QED
  BY <1>2, <1>4, <1>6, <1>7, <1>8

LEMMA PlaceKeeps ==
  ASSUME EditingInv, NEW d \in Dialogs, NEW point \in Points, PlaceMarker(d, point)
  PROVE  EditingInv'
<1>. DEFINE i == Shown(dialog[d].photo.picture)
            c == CHOOSE c \in DOMAIN i.at : i.at[c] = point
            new == [dialog |-> d, point |-> point, seen |-> i, awaited |-> TRUE,
                    x |-> MiddleX(c, i.w, i.h), y |-> MiddleY(c, i.w, i.h)]
<1>1. /\ MayMark(dialog[d]) /\ dialog' = [dialog EXCEPT ![d].marking = TRUE]
      /\ posts' = posts \cup {new}
      /\ UNCHANGED <<server, jobs, wanted, disturbed>>
  BY DEF PlaceMarker
<1>2. /\ photo' = photo /\ markers' = markers /\ jobs' = jobs /\ wanted' = wanted
      /\ disturbed' = disturbed
  BY <1>1 DEF server
<1>3. i \in Views /\ point \in Pixels /\ dialog[d] \in Queue /\ Tidy(dialog[d])
  <2>1. dialog[d] \in Queue /\ Tidy(dialog[d])
    BY DEF EditingInv, Types
  <2>2. dialog[d].photo \in Photos
    BY <2>1, QueueAngles
  <2>. QED
    BY <2>1, <2>2, PictureParts, PhotoEditingAssumption DEF Photos, Pixels
<1>4. /\ Middle(i, MiddleX(c, i.w, i.h), MiddleY(c, i.w, i.h), point)
      /\ MiddleX(c, i.w, i.h) \in Place /\ MiddleY(c, i.w, i.h) \in Place
  <2>. HIDE DEF i, c
  <2>1. c = CHOOSE b \in DOMAIN i.at : i.at[b] = point
    BY DEF c
  <2>. QED
    BY <1>3, <2>1, MiddleFound
<1>5. /\ new \in Post /\ new.dialog = d /\ new.point = point /\ new.seen = i /\ new.awaited
      /\ Middle(i, new.x, new.y, new.point)
  <2>. HIDE DEF i, c
  <2>. QED
    BY <1>3, <1>4 DEF Post
<1>. HIDE DEF new, c
<1>6. ~dialog[d].marking /\ ~Busy(dialog[d])
  BY <1>1 DEF MayMark
<1>7. /\ dialog' \in [Dialogs -> Queue] /\ dialog'[d].marking
      /\ \A e \in Dialogs : /\ e # d => dialog'[e] = dialog[e]
                            /\ dialog'[e].flight = dialog[e].flight
                            /\ dialog'[e].queued = dialog[e].queued
                            /\ Tidy(dialog'[e])
      /\ Flights' /\ Agreements'
  BY <1>1, <1>2, MarkingSet
<1>8. Types'
  BY <1>1, <1>2, <1>5, <1>7 DEF EditingInv, Types
<1>9. ~disturbed[d] => i = Shown(photo.picture)
  <2>. SUFFICES ASSUME ~disturbed[d] PROVE i = Shown(photo.picture)
    OBVIOUS
  <2>1. /\ dialog[d].preview = 0 /\ dialog[d].flight = 0 /\ dialog[d].queued = 0
    BY <1>3, <1>6 DEF Tidy, Busy
  <2>2. \A j \in jobs : j.dialog # d
    BY <2>1, Idle
  <2>3. Honest(dialog[d]) /\ dialog[d].current = photo
    BY <2>2 DEF EditingInv, Agreements, Agreed, Saving
  <2>4. Turns(i, 0) = Turns(Shown(photo.picture), 0 + 0)
    BY <2>1, <2>3 DEF Honest
  <2>. QED
    BY <2>4, TurnsZero
<1>10. Requests'
  <2>. HIDE DEF i
  <2>1. \A p \in posts : p.dialog \in Dialogs /\ (p.awaited => p.dialog # d)
    BY <1>6 DEF EditingInv, Types, Post, Requests
  <2>2. \A e \in Dialogs : Busy(dialog'[e]) <=> Busy(dialog[e])
    BY <1>7 DEF Busy
  <2>3. \A p \in posts' : p.awaited => dialog'[p.dialog].marking
    BY <1>1, <1>5, <1>7, <2>1 DEF EditingInv, Requests
  <2>4. \A p, r \in posts' : p.awaited /\ r.awaited /\ p.dialog = r.dialog => p = r
    BY <1>1, <1>5, <2>1 DEF EditingInv, Requests
  <2>5. \A e \in Dialogs : dialog'[e].marking =>
            ~Busy(dialog'[e]) /\ \E p \in posts' : p.dialog = e /\ p.awaited
    BY <1>1, <1>5, <1>6, <1>7, <2>2 DEF EditingInv, Requests
  <2>6. \A p \in posts' : Middle(p.seen, p.x, p.y, p.point)
    BY <1>1, <1>5 DEF EditingInv, Requests
  <2>7. \A p \in posts' : p.awaited /\ ~disturbed[p.dialog] => p.seen = Shown(photo.picture)
    BY <1>1, <1>5, <1>9 DEF EditingInv, Requests
  <2>. QED
    BY <1>2, <2>3, <2>4, <2>5, <2>6, <2>7 DEF Requests
<1>. QED
  BY <1>2, <1>7, <1>8, <1>10 DEF EditingInv, Placed

\* A request is answered, or given up: its dialog waits for it no more.
LEMMA AnsweredKeeps ==
  ASSUME EditingInv, NEW p \in posts, NEW rest \in SUBSET Post,
         \A r \in rest : r \in posts \/ (~r.awaited /\ Middle(r.seen, r.x, r.y, r.point)),
         \A r \in posts : r # p => r \in rest,
         p \notin rest \/ ~p.awaited,
         posts' = rest,
         dialog' = IF p.awaited THEN [dialog EXCEPT ![p.dialog].marking = FALSE] ELSE dialog,
         markers' \subseteq Marker, Placed', UNCHANGED <<photo, jobs, wanted, disturbed>>
  PROVE  EditingInv'
<1>. DEFINE d == p.dialog
<1>1. p \in Post /\ d \in Dialogs
  BY DEF EditingInv, Types, Post
<1>. HIDE DEF d
<1>2. CASE ~p.awaited
  <2>1. dialog' = dialog
    BY <1>2
  <2>2. Types' /\ Flights' /\ Agreements'
    BY <2>1 DEF EditingInv, Types, Flights, Agreements
  <2>3. Requests'
    <3>1. \A r \in rest : r.awaited => r \in posts
      OBVIOUS
    <3>2. \A r \in posts : r.awaited => r \in rest
      BY <1>2
    <3>. QED
      BY <2>1, <3>1, <3>2 DEF EditingInv, Requests
  <2>. QED
    BY <2>1, <2>2, <2>3 DEF EditingInv
<1>3. CASE p.awaited
  <2>1. dialog' = [dialog EXCEPT ![d].marking = FALSE] /\ FALSE \in BOOLEAN
    BY <1>3 DEF d
  <2>2. /\ dialog' \in [Dialogs -> Queue] /\ ~dialog'[d].marking
        /\ \A e \in Dialogs : /\ e # d => dialog'[e] = dialog[e]
                              /\ dialog'[e].flight = dialog[e].flight
                              /\ dialog'[e].queued = dialog[e].queued
                              /\ Tidy(dialog'[e])
        /\ Flights' /\ Agreements'
    BY <1>1, <2>1, MarkingSet
  <2>3. Types'
    BY <2>2 DEF EditingInv, Types
  <2>4. Requests'
    <3>1. \A r \in rest : r.awaited => r \in posts /\ r # p /\ r.dialog # d /\ r.dialog \in Dialogs
      BY <1>3 DEF EditingInv, Types, Post, Requests, d
    <3>2. \A e \in Dialogs : Busy(dialog'[e]) <=> Busy(dialog[e])
      BY <2>2 DEF Busy
    <3>3. \A r \in rest : r.awaited => dialog'[r.dialog].marking
      BY <2>2, <3>1 DEF EditingInv, Requests
    <3>4. \A r, s \in rest : r.awaited /\ s.awaited /\ r.dialog = s.dialog => r = s
      BY <3>1 DEF EditingInv, Requests
    <3>5. \A e \in Dialogs : dialog'[e].marking =>
              ~Busy(dialog'[e]) /\ \E r \in rest : r.dialog = e /\ r.awaited
      <4>. SUFFICES ASSUME NEW e \in Dialogs, dialog'[e].marking
                    PROVE  ~Busy(dialog'[e]) /\ \E r \in rest : r.dialog = e /\ r.awaited
        OBVIOUS
      <4>1. e # d /\ dialog[e].marking
        BY <2>2
      <4>2. PICK r \in posts : r.dialog = e /\ r.awaited
        BY <4>1 DEF EditingInv, Requests
      <4>3. r # p
        BY <4>1, <4>2 DEF d
      <4>. QED
        BY <3>2, <4>1, <4>2, <4>3 DEF EditingInv, Requests
    <3>6. \A r \in rest : Middle(r.seen, r.x, r.y, r.point)
      BY DEF EditingInv, Requests
    <3>7. \A r \in rest : r.awaited /\ ~disturbed[r.dialog] => r.seen = Shown(photo.picture)
      BY <3>1 DEF EditingInv, Requests
    <3>. QED
      BY <3>3, <3>4, <3>5, <3>6, <3>7 DEF Requests
  <2>. QED
    BY <2>2, <2>3, <2>4 DEF EditingInv
<1>. QED
  BY <1>2, <1>3

LEMMA AddKeeps ==
  ASSUME EditingInv, NEW p \in posts, AddPhotoMarker(p) \/ FailMarker(p)
  PROVE  EditingInv'
<1>1. p \in Post /\ posts \subseteq Post /\ posts \ {p} \in SUBSET Post
  BY DEF EditingInv, Types
<1>2. /\ posts' = posts \ {p}
      /\ dialog' = IF p.awaited THEN [dialog EXCEPT ![p.dialog].marking = FALSE] ELSE dialog
      /\ UNCHANGED <<photo, jobs, wanted, disturbed>>
  BY DEF AddPhotoMarker, FailMarker, Answered, server
<1>3. markers' \subseteq Marker /\ Placed'
  <2>1. CASE FailMarker(p)
    <3>1. markers' = markers /\ photo' = photo
      BY <2>1 DEF FailMarker, server
    <3>. QED
      BY <3>1 DEF EditingInv, Types, Placed
  <2>2. CASE AddPhotoMarker(p)
    <3>. DEFINE seen == p.seen = Shown(photo.picture)
                excused == ~p.awaited \/ disturbed[p.dialog]
                new == [x |-> p.x, y |-> p.y, pointed |-> p.point, seen |-> seen, excused |-> excused]
    <3>1. markers' = markers \cup {new}
      BY <2>2 DEF AddPhotoMarker
    <3>2. seen \in BOOLEAN /\ excused \in BOOLEAN
      OBVIOUS
    <3>3. seen \/ excused
      BY DEF EditingInv, Requests
    <3>4. seen => Middle(Shown(photo.picture), p.x, p.y, p.point)
      BY DEF EditingInv, Requests
    <3>. HIDE DEF seen, excused
    <3>5. /\ new \in Marker /\ new.x = p.x /\ new.y = p.y /\ new.pointed = p.point
          /\ new.seen = seen /\ new.excused = excused
      BY <1>1, <3>2 DEF Marker, Post
    <3>. HIDE DEF new
    <3>. QED
      BY <1>2, <3>1, <3>3, <3>4, <3>5 DEF EditingInv, Types, Placed
  <2>. QED
    BY <2>1, <2>2
<1>. QED
  BY <1>1, <1>2, <1>3, AnsweredKeeps

LEMMA GiveUpMarkerKeeps ==
  ASSUME EditingInv, NEW p \in posts, GiveUpMarker(p)
  PROVE  EditingInv'
<1>. DEFINE new == [p EXCEPT !.awaited = FALSE]
            rest == (posts \ {p}) \cup {new}
<1>1. p \in Post /\ posts \subseteq Post
  BY DEF EditingInv, Types
<1>2. /\ new \in Post /\ ~new.awaited /\ new.seen = p.seen /\ new.x = p.x /\ new.y = p.y
      /\ new.point = p.point
  BY <1>1 DEF Post
<1>3. /\ p.awaited /\ posts' = rest
      /\ dialog' = [dialog EXCEPT ![p.dialog].marking = FALSE]
      /\ photo' = photo /\ markers' = markers /\ jobs' = jobs
      /\ wanted' = wanted /\ disturbed' = disturbed
  BY DEF GiveUpMarker, server
<1>. HIDE DEF new
<1>4. Middle(new.seen, new.x, new.y, new.point)
  BY <1>2 DEF EditingInv, Requests
<1>5. /\ rest \in SUBSET Post
      /\ \A r \in rest : r \in posts \/ (~r.awaited /\ Middle(r.seen, r.x, r.y, r.point))
      /\ \A r \in posts : r # p => r \in rest
      /\ p \notin rest
  BY <1>1, <1>2, <1>3, <1>4
<1>6. markers' \subseteq Marker /\ Placed'
  BY <1>3 DEF EditingInv, Types, Placed
<1>. HIDE DEF rest
<1>. QED
  BY <1>3, <1>5, <1>6, AnsweredKeeps

LEMMA DeleteKeeps ==
  ASSUME EditingInv, NEW m \in markers, DeletePhotoMarker(m)
  PROVE  EditingInv'
<1>1. /\ markers' = markers \ {m}
      /\ photo' = photo /\ dialog' = dialog /\ jobs' = jobs /\ posts' = posts /\ wanted' = wanted
      /\ disturbed' = disturbed
  BY DEF DeletePhotoMarker
<1>. QED
  BY <1>1 DEF EditingInv, Types, Flights, Agreements, Requests, Placed

-----------------------------------------------------------------------------
(* The theorems.                                                           *)

LEMMA InitInv == Init => EditingInv
<1>. SUFFICES ASSUME Init PROVE EditingInv
  OBVIOUS
<1>1. PICK o \in TakenAs : photo = Photo(Taken(o), 0)
  BY DEF Init
<1>2. photo \in Photos /\ Shown(photo.picture) \in Views
  BY <1>1, TakenPicture, PictureParts, PhotoEditingAssumption DEF Photo, Photos
<1>. DEFINE r == Fresh(photo)
<1>3. Tidy(r) /\ r.flight = 0 /\ r.queued = 0 /\ r.current = photo /\ r.marking = FALSE /\ Honest(r)
  BY <1>2, FreshParts
<1>4. /\ markers = {} /\ dialog = [d \in Dialogs |-> r] /\ jobs = {} /\ posts = {}
      /\ wanted = [d \in Dialogs |-> Shown(photo.picture)]
      /\ disturbed = [d \in Dialogs |-> FALSE]
  BY DEF Init
<1>. HIDE DEF r
<1>5. \A d \in Dialogs : dialog[d] = r
  BY <1>4
<1>6. Types
  BY <1>2, <1>3, <1>4 DEF Types, Tidy
<1>7. Flights /\ Requests /\ Placed
  BY <1>3, <1>4, <1>5 DEF Flights, Requests, Placed
<1>8. Agreements
  <2>. SUFFICES ASSUME NEW d \in Dialogs PROVE Agreed(d, r, {}, photo, Shown(photo.picture))
    BY <1>4, <1>5 DEF Agreements
  <2>1. ~Waiting(d, {}) /\ Turns(Shown(photo.picture), 0 + 0) = Shown(photo.picture)
    BY TurnsZero DEF Waiting
  <2>. QED
    BY <1>3, <2>1 DEF Agreed
<1>. QED
  BY <1>3, <1>5, <1>6, <1>7, <1>8 DEF EditingInv

LEMMA NextInv == EditingInv /\ [Next]_vars => EditingInv'
<1>. SUFFICES ASSUME EditingInv, [Next]_vars PROVE EditingInv'
  OBVIOUS
<1>1. CASE UNCHANGED vars
  BY <1>1 DEF EditingInv, Types, Flights, Agreements, Requests, Placed, vars, server
<1>2. ASSUME NEW d \in Dialogs, NEW degrees \in {90, -90}, Click(d, degrees)
      PROVE  EditingInv'
  BY <1>2, ClickKeeps
<1>3. ASSUME NEW d \in Dialogs, TimerFires(d) \/ Retry(d) \/ Dispose(d) \/ Open(d) \/ Refetch(d)
      PROVE  EditingInv'
  BY <1>3, SendKeeps, OpenKeeps, RefetchKeeps
<1>4. ASSUME NEW j \in jobs,
             \/ ReadOriginal(j) \/ ReplaceRotatedPhoto(j) \/ FailRotation(j)
             \/ Answer(j) \/ GiveUp(j)
      PROVE  EditingInv'
  BY <1>4, ServerKeeps, ReplaceKeeps, AnswerKeeps, GiveUpKeeps
<1>5. ASSUME NEW d \in Dialogs, NEW point \in Points, PlaceMarker(d, point)
      PROVE  EditingInv'
  BY <1>5, PlaceKeeps
<1>6. ASSUME NEW p \in posts, AddPhotoMarker(p) \/ FailMarker(p) \/ GiveUpMarker(p)
      PROVE  EditingInv'
  BY <1>6, AddKeeps, GiveUpMarkerKeeps
<1>7. ASSUME NEW m \in markers, DeletePhotoMarker(m)
      PROVE  EditingInv'
  BY <1>7, DeleteKeeps
<1>. QED
  BY <1>1, <1>2, <1>3, <1>4, <1>5, <1>6, <1>7 DEF Next

\* What the dialogs, the requests under way and the server agree on, for any
\* size and orientation of the picture, any number of dialogs and any order of
\* clicks, saves, failures, lost answers and markers.
THEOREM Invariant == Spec => []EditingInv
<1>. QED
  BY InitInv, NextInv, PTL DEF Spec

\* What an undisturbed dialog previews is what will be stored when all it has
\* queued and sent is saved (photoRotation.js, PhotoDialog.jsx).
THEOREM PreviewIsHonest == Spec => []PreviewHonest
<1>1. EditingInv => PreviewHonest
  BY DEF EditingInv, Agreements, Agreed, Honest, PreviewHonest
<1>. QED
  BY <1>1, Invariant, PTL

\* What is stored and what is still to be saved add up to the clicks: no pixel is
\* misplaced by a rotation of any picture (RotatePhoto, photoRotation.js).
THEOREM ClicksAddUp == Spec => []AddsUp
<1>1. EditingInv => AddsUp
  <2>. SUFFICES ASSUME EditingInv, NEW d \in Dialogs, ~disturbed[d]
                PROVE  Turns(Shown(photo.picture),
                             dialog[d].queued + (IF Waiting(d, jobs) THEN dialog[d].flight ELSE 0))
                           = wanted[d]
    BY DEF AddsUp, Waiting
  <2>. QED
    BY DEF EditingInv, Agreements, Agreed
<1>. QED
  BY <1>1, Invariant, PTL

\* A marker that reached the photo it was placed on points to its pixel for good
\* (AddPhotoMarker, the UPDATE of ReplaceRotatedPhoto).
THEOREM MarkersStay == Spec => []MarkersFollow
<1>1. EditingInv => MarkersFollow
  <2>. SUFFICES ASSUME EditingInv, NEW m \in markers, m.seen
                PROVE  PixelAt(Shown(photo.picture), m.x, m.y) = m.pointed
    BY DEF MarkersFollow
  <2>1. Shown(photo.picture) \in Views
    BY PictureParts DEF EditingInv, Types, Photos
  <2>. QED
    BY <2>1, MiddlePixel DEF EditingInv, Placed
<1>. QED
  BY <1>1, Invariant, PTL

\* A dialog that stays open and knows of all rotations brings its markers to the
\* photo they were placed on: it turns nothing while one is on its way
\* (PhotoDialog.jsx).
THEOREM DialogsLock == Spec => []DialogLocks
<1>1. EditingInv => DialogLocks
  BY DEF EditingInv, Placed, DialogLocks
<1>. QED
  BY <1>1, Invariant, PTL

\* No click is forgotten: what is queued has a timer, a save under way or an
\* error with its "retry" (photoRotation.js).
THEOREM ClicksKept == Spec => []NoLostClick
<1>1. EditingInv => NoLostClick
  BY DEF EditingInv, Tidy, NoLostClick
<1>. QED
  BY <1>1, Invariant, PTL

-----------------------------------------------------------------------------
(* What a rotation turns.                                                  *)

\* A rotation at work has read the photo that its request knows.
Reads == \A j \in jobs : j.step = "read" => Sha(j.photo) = j.sha

LEMMA ReadsStep ==
  ASSUME EditingInv, Reads, NEW j \in jobs, NEW step, NEW p,
         step = "read" => Sha(p) = j.sha,
         jobs' \subseteq (jobs \ {j}) \cup {[j EXCEPT !.step = step, !.photo = p]}
  PROVE  Reads'
<1>. DEFINE k == [j EXCEPT !.step = step, !.photo = p]
<1>1. k.step = step /\ k.photo = p /\ k.sha = j.sha
  BY DEF EditingInv, Types, Job
<1>2. jobs' \subseteq jobs \cup {k}
  OBVIOUS
<1>. HIDE DEF k
<1>. QED
  BY <1>1, <1>2 DEF Reads

LEMMA ReadsKept ==
  ASSUME EditingInv, Reads, [Next]_vars
  PROVE  Reads'
<1>1. ASSUME NEW d, NEW q, NEW others \in SUBSET jobs, Becomes(d, q, others) PROVE Reads'
  <2>1. NewJob(d, q.flight, q.current, TRUE).step = "sent"
    BY DEF NewJob
  <2>2. jobs' = others \/ jobs' = others \cup {NewJob(d, q.flight, q.current, TRUE)}
    BY <1>1 DEF Becomes
  <2>. QED
    BY <2>1, <2>2 DEF Reads
<1>2. CASE UNCHANGED jobs
  BY <1>2 DEF Reads
<1>3. ASSUME NEW d \in Dialogs, TimerFires(d) \/ Retry(d) \/ Dispose(d)
      PROVE  Reads'
  BY <1>1, <1>3 DEF TimerFires, Retry, Dispose
<1>4. ASSUME NEW d \in Dialogs, Open(d) PROVE Reads'
  <2>1. ASSUME NEW j \in jobs
        PROVE  LET k == Orphaned(d, j) IN
               k.step = j.step /\ k.photo = j.photo /\ k.sha = j.sha
    BY DEF Orphaned, EditingInv, Types, Job
  <2>2. jobs' = {Orphaned(d, j) : j \in jobs}
    BY <1>4 DEF Open
  <2>. QED
    BY <2>1, <2>2 DEF Reads
<1>5. ASSUME NEW j \in jobs, ReadOriginal(j) \/ ReplaceRotatedPhoto(j) \/ FailRotation(j)
      PROVE  Reads'
  <2>1. ASSUME NEW step, NEW p, jobs' = Ended(j, step, p), step # "read" PROVE Reads'
    <3>1. jobs' \subseteq (jobs \ {j}) \cup {[j EXCEPT !.step = step, !.photo = p]}
      BY <2>1 DEF Ended, Step
    <3>2. step = "read" => Sha(p) = j.sha
      BY <2>1
    <3>. QED
      BY <3>1, <3>2, ReadsStep
  <2>2. ASSUME jobs' = Step(j, "read", photo), Sha(photo) = j.sha PROVE Reads'
    BY <2>2, ReadsStep DEF Step
  <2>. QED
    BY <1>5, <2>1, <2>2 DEF ReadOriginal, ReplaceRotatedPhoto, FailRotation
<1>6. ASSUME NEW j \in jobs, Answer(j) PROVE Reads'
  <2>1. CASE j.awaited
    BY <1>1, <1>6, <2>1 DEF Answer
  <2>2. CASE ~j.awaited
    <3>1. NewJob(j.dialog, Sent(j.rest), j.photo, FALSE).step = "sent"
      BY DEF NewJob
    <3>2. jobs' \subseteq jobs \cup {NewJob(j.dialog, Sent(j.rest), j.photo, FALSE)}
      BY <1>6, <2>2 DEF Answer, AnswerOrphan
    <3>. QED
      BY <3>1, <3>2 DEF Reads
  <2>. QED
    BY <2>1, <2>2
<1>7. ASSUME NEW j \in jobs, GiveUp(j) PROVE Reads'
  <2>. DEFINE k == [j EXCEPT !.awaited = FALSE, !.orphan = FALSE, !.rest = 0]
  <2>1. k.step = j.step /\ k.photo = j.photo /\ k.sha = j.sha
    BY DEF EditingInv, Types, Job
  <2>2. jobs' = (jobs \ {j}) \cup {k}
    BY <1>7 DEF GiveUp
  <2>. HIDE DEF k
  <2>. QED
    BY <2>1, <2>2 DEF Reads
<1>8. ASSUME ~UNCHANGED jobs
      PROVE  \/ \E d \in Dialogs : TimerFires(d) \/ Retry(d) \/ Dispose(d) \/ Open(d)
             \/ \E j \in jobs : \/ ReadOriginal(j) \/ ReplaceRotatedPhoto(j) \/ FailRotation(j)
                               \/ Answer(j) \/ GiveUp(j)
  BY <1>8 DEF Next, vars, Click, Refetch, PlaceMarker, AddPhotoMarker, FailMarker, GiveUpMarker,
              DeletePhotoMarker
<1>. QED
  BY <1>2, <1>3, <1>4, <1>5, <1>6, <1>7, <1>8

\* Only a rotation changes the photo: the photo with the hash that its request
\* carries, by the degrees that it carries.
LEMMA TurnStep ==
  ASSUME EditingInv, Reads, [Next]_vars, photo' # photo
  PROVE  \E j \in jobs \ jobs' : /\ Sha(photo) = j.sha
                               /\ photo'.picture = RotatePixels(photo.picture, j.degrees)
<1>1. PICK j \in jobs : ReplaceRotatedPhoto(j) /\ Unchanged(j)
  BY DEF Next, vars, server, Click, TimerFires, Retry, Dispose, Open, Refetch, ReadOriginal,
         ReplaceRotatedPhoto, FailRotation, Answer, GiveUp, PlaceMarker, AddPhotoMarker,
         FailMarker, GiveUpMarker, DeletePhotoMarker
<1>2. /\ j.step = "read" /\ jobs' = Ended(j, "done", photo')
      /\ photo' = Photo(RotatePixels(j.photo.picture, j.degrees), photo.key + 1)
  BY <1>1 DEF ReplaceRotatedPhoto
<1>3. j.photo.picture = photo.picture /\ Sha(photo) = Sha(j.photo)
  BY <1>1 DEF Unchanged, Sha
<1>4. j \notin jobs'
  <2>. DEFINE k == [j EXCEPT !.step = "done", !.photo = photo']
  <2>1. k.step = "done"
    BY DEF EditingInv, Types, Job
  <2>2. jobs' \subseteq (jobs \ {j}) \cup {k}
    BY <1>2 DEF Ended, Step
  <2>. HIDE DEF k
  <2>. QED
    BY <1>2, <2>1, <2>2
<1>. QED
  BY <1>2, <1>3, <1>4 DEF Reads, Photo

\* A rotation that is sent again cannot turn the photo it has turned already, nor
\* one that others turned (photoRotation.js, service/photo_rotation.go).
THEOREM TurnsKnown == Spec => TurnedAsKnown
<1>1. Init => Reads
  BY DEF Init, Reads
<1>2. EditingInv /\ Reads /\ [Next]_vars => Reads'
  BY ReadsKept
<1>3. EditingInv /\ Reads /\ [Next]_vars =>
        [photo' # photo => \E j \in jobs \ jobs' :
            /\ Sha(photo) = j.sha
            /\ photo'.picture = RotatePixels(photo.picture, j.degrees)]_vars
  BY TurnStep
<1>. QED
  BY <1>1, <1>2, <1>3, Invariant, PTL DEF Spec, TurnedAsKnown

-----------------------------------------------------------------------------
(* What pays for a replacement: a click, or a turn queued again because its *)
(* answer was lost.                                                        *)

\* The rotations that may still replace the photo or be queued again.
Live(js) == {j \in js : j.step \in {"sent", "read"} \/ (j.step = "failed" /\ j.awaited)}

Queueing(queues) == {d \in Dialogs : queues[d].queued # 0}

\* Those with clicks behind them that their dialog, closed since, had queued.
Owed(js) == {j \in js : j.rest # 0}

Paid ==
    /\ IsFiniteSet(Live(jobs)) /\ IsFiniteSet(Queueing(dialog)) /\ IsFiniteSet(Owed(jobs))
    /\ clicks \in 0..MaxClicks /\ giveUps \in 0..MaxGiveUps
    /\ photo.key + Cardinality(Live(jobs)) + Cardinality(Queueing(dialog)) + Cardinality(Owed(jobs))
           <= clicks + giveUps

LEMMA Counts ==
  ASSUME NEW S, IsFiniteSet(S), NEW T
  PROVE  /\ Cardinality(S) \in Nat
         /\ T \subseteq S => IsFiniteSet(T) /\ Cardinality(T) \in Nat /\ Cardinality(T) <= Cardinality(S)
         /\ \A k : T \subseteq S \cup {k} =>
               IsFiniteSet(T) /\ Cardinality(T) \in Nat /\ Cardinality(T) <= Cardinality(S) + 1
         /\ \A j \in S : T \subseteq S \ {j} =>
               IsFiniteSet(T) /\ Cardinality(T) \in Nat /\ Cardinality(T) <= Cardinality(S) - 1
         /\ \A j \in S : \A k : T \subseteq (S \ {j}) \cup {k} =>
               IsFiniteSet(T) /\ Cardinality(T) \in Nat /\ Cardinality(T) <= Cardinality(S)
<1>1. Cardinality(S) \in Nat
  BY FS_CardinalityType
<1>2. ASSUME NEW R, IsFiniteSet(R), T \subseteq R
      PROVE  IsFiniteSet(T) /\ Cardinality(T) \in Nat /\ Cardinality(T) <= Cardinality(R)
  <2>1. IsFiniteSet(T) /\ Cardinality(T) <= Cardinality(R)
    BY <1>2, FS_Subset
  <2>. QED
    BY <2>1, FS_CardinalityType
<1>3. ASSUME NEW k, T \subseteq S \cup {k}
      PROVE  IsFiniteSet(T) /\ Cardinality(T) \in Nat /\ Cardinality(T) <= Cardinality(S) + 1
  <2>1. IsFiniteSet(S \cup {k}) /\ Cardinality(S \cup {k}) <= Cardinality(S) + 1
    <3>1. /\ IsFiniteSet(S \cup {k})
          /\ Cardinality(S \cup {k}) = Cardinality(S) \/ Cardinality(S \cup {k}) = Cardinality(S) + 1
      BY FS_AddElement
    <3>. QED
      BY <1>1, <3>1
  <2>2. Cardinality(S \cup {k}) \in Nat
    BY <2>1, FS_CardinalityType
  <2>. QED
    BY <1>1, <1>2, <1>3, <2>1, <2>2
<1>4. ASSUME NEW j \in S
      PROVE  IsFiniteSet(S \ {j}) /\ Cardinality(S \ {j}) = Cardinality(S) - 1
  BY FS_RemoveElement
<1>5. ASSUME NEW j \in S, NEW k, T \subseteq (S \ {j}) \cup {k}
      PROVE  IsFiniteSet(T) /\ Cardinality(T) \in Nat /\ Cardinality(T) <= Cardinality(S)
  <2>. DEFINE R == S \ {j}
  <2>1. IsFiniteSet(R) /\ Cardinality(R) = Cardinality(S) - 1
    BY <1>4
  <2>. HIDE DEF R
  <2>2. IsFiniteSet(R \cup {k}) /\ Cardinality(R \cup {k}) <= Cardinality(R) + 1
    <3>1. Cardinality(R) \in Int
      BY <1>1, <2>1
    <3>2. /\ IsFiniteSet(R \cup {k})
          /\ Cardinality(R \cup {k}) = Cardinality(R) \/ Cardinality(R \cup {k}) = Cardinality(R) + 1
      BY <2>1, FS_AddElement
    <3>. QED
      BY <3>1, <3>2
  <2>3. Cardinality(R \cup {k}) \in Nat /\ T \subseteq R \cup {k}
    BY <1>5, <2>2, FS_CardinalityType DEF R
  <2>. QED
    BY <1>1, <1>2, <2>1, <2>2, <2>3
<1>. QED
  BY <1>1, <1>2, <1>3, <1>4, <1>5

\* When the counts change as the bounds say, the photo stays paid for.
LEMMA PaidChange ==
  ASSUME EditingInv, Paid, EditingInv', NEW live \in Int, NEW queued \in Int, NEW owed \in Int,
         clicks' \in 0..MaxClicks, giveUps' \in 0..MaxGiveUps,
         IsFiniteSet(Live(jobs')), Cardinality(Live(jobs')) <= Cardinality(Live(jobs)) + live,
         IsFiniteSet(Queueing(dialog')),
         Cardinality(Queueing(dialog')) <= Cardinality(Queueing(dialog)) + queued,
         IsFiniteSet(Owed(jobs')), Cardinality(Owed(jobs')) <= Cardinality(Owed(jobs)) + owed,
         photo'.key + live + queued + owed - clicks' - giveUps' <= photo.key - clicks - giveUps
  PROVE  Paid'
<1>1. photo.key \in Int /\ photo'.key \in Int
  BY DEF EditingInv, Types, Photos
<1>2. clicks \in Int /\ giveUps \in Int /\ clicks' \in Int /\ giveUps' \in Int
  BY PhotoEditingAssumption DEF Paid
<1>3. /\ Cardinality(Live(jobs)) \in Nat /\ Cardinality(Live(jobs')) \in Nat
      /\ Cardinality(Queueing(dialog)) \in Nat /\ Cardinality(Queueing(dialog')) \in Nat
      /\ Cardinality(Owed(jobs)) \in Nat /\ Cardinality(Owed(jobs')) \in Nat
  BY FS_CardinalityType DEF Paid
<1>. QED
  BY <1>1, <1>2, <1>3 DEF Paid

LEMMA PaidStep ==
  ASSUME EditingInv, Paid, EditingInv', NEW live \in Int, NEW queued \in Int,
         clicks' \in 0..MaxClicks, giveUps' \in 0..MaxGiveUps,
         IsFiniteSet(Live(jobs')), Cardinality(Live(jobs')) <= Cardinality(Live(jobs)) + live,
         IsFiniteSet(Queueing(dialog')),
         Cardinality(Queueing(dialog')) <= Cardinality(Queueing(dialog)) + queued,
         IsFiniteSet(Owed(jobs')), Cardinality(Owed(jobs')) <= Cardinality(Owed(jobs)),
         photo'.key + live + queued - clicks' - giveUps' <= photo.key - clicks - giveUps
  PROVE  Paid'
<1>1. /\ photo'.key \in Int /\ Cardinality(Owed(jobs)) \in Nat
      /\ clicks' \in Int /\ giveUps' \in Int
  BY FS_CardinalityType, PhotoEditingAssumption DEF Paid, EditingInv, Types, Photos
<1>2. /\ photo.key \in Int /\ clicks \in Int /\ giveUps \in Int
  BY PhotoEditingAssumption DEF Paid, EditingInv, Types, Photos
<1>3. Cardinality(Owed(jobs')) <= Cardinality(Owed(jobs)) + 0
  BY <1>1
<1>4. photo'.key + live + queued + 0 - clicks' - giveUps' <= photo.key - clicks - giveUps
  BY <1>1, <1>2
<1>. QED
  BY <1>3, <1>4, PaidChange

LEMMA OwedKept ==
  ASSUME Paid, Owed(jobs') \subseteq Owed(jobs)
  PROVE  IsFiniteSet(Owed(jobs')) /\ Cardinality(Owed(jobs')) <= Cardinality(Owed(jobs))
BY Counts DEF Paid

\* A job in the place of another one.
LEMMA OwedReplaced ==
  ASSUME EditingInv, Paid, NEW j \in jobs, NEW k, k.rest = j.rest, jobs' = (jobs \ {j}) \cup {k}
  PROVE  IsFiniteSet(Owed(jobs')) /\ Cardinality(Owed(jobs')) <= Cardinality(Owed(jobs))
<1>1. CASE j.rest = 0
  <2>1. Owed(jobs') \subseteq Owed(jobs)
    BY <1>1 DEF Owed
  <2>. QED
    BY <2>1, OwedKept
<1>2. CASE j.rest # 0
  <2>1. j \in Owed(jobs) /\ Owed(jobs') \subseteq (Owed(jobs) \ {j}) \cup {k}
    BY <1>2 DEF Owed
  <2>. QED
    BY <2>1, Counts DEF Paid
<1>. QED
  BY <1>1, <1>2

\* Nothing is queued or sent.
LEMMA PaidStill ==
  ASSUME EditingInv, Paid, EditingInv', photo'.key = photo.key, clicks' = clicks,
         giveUps' = giveUps \/ (giveUps < MaxGiveUps /\ giveUps' = giveUps + 1),
         Live(jobs') \subseteq Live(jobs), Queueing(dialog') \subseteq Queueing(dialog),
         Owed(jobs') \subseteq Owed(jobs)
  PROVE  Paid'
<1>1. /\ IsFiniteSet(Live(jobs')) /\ Cardinality(Live(jobs')) <= Cardinality(Live(jobs)) + 0
      /\ IsFiniteSet(Queueing(dialog'))
      /\ Cardinality(Queueing(dialog')) <= Cardinality(Queueing(dialog)) + 0
  <2>1. IsFiniteSet(Live(jobs)) /\ IsFiniteSet(Queueing(dialog))
    BY DEF Paid
  <2>2. Cardinality(Live(jobs)) + 0 = Cardinality(Live(jobs))
    BY <2>1, FS_CardinalityType
  <2>3. Cardinality(Queueing(dialog)) + 0 = Cardinality(Queueing(dialog))
    BY <2>1, FS_CardinalityType
  <2>. QED
    BY <2>1, <2>2, <2>3, Counts
<1>2. /\ clicks' \in 0..MaxClicks /\ giveUps' \in 0..MaxGiveUps
      /\ photo'.key + 0 + 0 - clicks' - giveUps' <= photo.key - clicks - giveUps
  <2>1. photo.key \in Int /\ MaxClicks \in Nat /\ MaxGiveUps \in Nat
    BY PhotoEditingAssumption DEF EditingInv, Types, Photos
  <2>. QED
    BY <2>1 DEF Paid
<1>. QED
  BY <1>1, <1>2, OwedKept, PaidStep

\* The queue of d becomes q: what it queued is sent, or stays.
LEMMA PaidSent ==
  ASSUME EditingInv, Paid, EditingInv', NEW d \in Dialogs, NEW q, Tidy(q),
         NEW others \in SUBSET jobs, Becomes(d, q, others), photo' = photo,
         clicks' = clicks, giveUps' = giveUps,
         \/ q.queued = 0 /\ dialog[d].queued # 0
         \/ /\ q.queued = 0 \/ dialog[d].queued # 0
            /\ q.flight # 0 => \E j \in others : j.dialog = d /\ j.awaited
  PROVE  Paid'
<1>1. /\ dialog'[d] = q /\ \A e \in Dialogs : e # d => dialog'[e] = dialog[e]
  BY DEF EditingInv, Types, Becomes, Tidy
<1>2. CASE q.flight # 0 => \E j \in others : j.dialog = d /\ j.awaited
  <2>1. jobs' = others
    BY <1>2, BecomesParts
  <2>2. /\ Live(jobs') \subseteq Live(jobs) /\ Queueing(dialog') \subseteq Queueing(dialog)
        /\ Owed(jobs') \subseteq Owed(jobs)
    BY <1>1, <2>1 DEF Live, Queueing, Owed
  <2>. QED
    BY <2>2, PaidStill
<1>3. CASE ~(q.flight # 0 => \E j \in others : j.dialog = d /\ j.awaited)
  <2>1. PICK new \in Job : jobs' = others \cup {new} /\ new.rest = 0
    BY <1>3, BecomesParts
  <2>2. Live(jobs') \subseteq Live(jobs) \cup {new}
    BY <2>1 DEF Live
  <2>3. d \in Queueing(dialog) /\ Queueing(dialog') \subseteq Queueing(dialog) \ {d}
    BY <1>1, <1>3 DEF Queueing
  <2>4. /\ IsFiniteSet(Live(jobs')) /\ Cardinality(Live(jobs')) <= Cardinality(Live(jobs)) + 1
    BY <2>2, Counts DEF Paid
  <2>5. /\ IsFiniteSet(Queueing(dialog'))
        /\ Cardinality(Queueing(dialog')) <= Cardinality(Queueing(dialog)) + (-1)
    <3>1. /\ IsFiniteSet(Queueing(dialog')) /\ Cardinality(Queueing(dialog)) \in Nat
          /\ Cardinality(Queueing(dialog')) <= Cardinality(Queueing(dialog)) - 1
      BY <2>3, Counts DEF Paid
    <3>2. Cardinality(Queueing(dialog)) - 1 = Cardinality(Queueing(dialog)) + (-1)
      BY <3>1
    <3>. QED
      BY <3>1, <3>2
  <2>6. /\ clicks' \in 0..MaxClicks /\ giveUps' \in 0..MaxGiveUps
        /\ photo'.key + 1 + (-1) - clicks' - giveUps' <= photo.key - clicks - giveUps
    <3>1. photo.key \in Int /\ MaxClicks \in Nat /\ MaxGiveUps \in Nat
      BY PhotoEditingAssumption DEF EditingInv, Types, Photos
    <3>. QED
      BY <3>1 DEF Paid
  <2>7. Owed(jobs') \subseteq Owed(jobs)
    BY <2>1 DEF Owed
  <2>. QED
    BY <2>4, <2>5, <2>6, <2>7, OwedKept, PaidStep
<1>. QED
  BY <1>2, <1>3

LEMMA PaidSend ==
  ASSUME EditingInv, Paid, EditingInv', NEW d \in Dialogs, TimerFires(d) \/ Retry(d) \/ Dispose(d)
  PROVE  Paid'
<1>1. Tidy(dialog[d]) /\ dialog[d] \in Queue
  BY DEF EditingInv, Types
<1>2. photo' = photo /\ clicks' = clicks /\ giveUps' = giveUps
  BY DEF TimerFires, Retry, Dispose, server, counters
<1>3. ASSUME NEW q, Tidy(q), q.queued = dialog[d].queued, q.flight = dialog[d].flight,
             NEW r, r = Flush(q) \/ (r = q /\ q.flight = 0), Becomes(d, r, jobs)
      PROVE  Paid'
  <2>1. Tidy(r)
    BY <1>3, FlushParts
  <2>2. CASE q.flight # 0
    <3>1. r.flight = q.flight /\ r.queued = q.queued
      BY <1>3, <2>2, FlushParts
    <3>2. \E j \in jobs : j.dialog = d /\ j.awaited
      BY <1>3, <2>2 DEF EditingInv, Flights
    <3>. QED
      BY <1>2, <1>3, <2>1, <3>1, <3>2, PaidSent
  <2>3. CASE q.flight = 0
    <3>1. /\ r.queued = 0 \/ (r.queued = q.queued /\ r.flight = 0)
          /\ q.queued = 0 => r.flight = 0
      BY <1>3, <2>3, FlushParts DEF Busy
    <3>. QED
      BY <1>2, <1>3, <2>1, <3>1, PaidSent
  <2>. QED
    BY <2>2, <2>3
<1>4. CASE TimerFires(d) \/ Retry(d)
  BY <1>1, <1>3, <1>4 DEF TimerFires, Retry
<1>5. CASE Dispose(d)
  <2>. DEFINE q == [dialog[d] EXCEPT !.disposed = TRUE, !.timer = FALSE]
              s == [dialog[d] EXCEPT !.disposed = TRUE]
  <2>1. Becomes(d, IF q.error THEN q ELSE Flush(q), jobs)
    BY <1>5 DEF Dispose
  <2>2. /\ q \in Queue /\ q.preview = dialog[d].preview /\ q.queued = dialog[d].queued
        /\ q.flight = dialog[d].flight /\ q.error = dialog[d].error
    BY <1>1 DEF Queue
  <2>3. /\ s \in Queue /\ s.preview = dialog[d].preview /\ s.queued = dialog[d].queued
        /\ s.flight = dialog[d].flight /\ s.error = dialog[d].error /\ s.timer = dialog[d].timer
    BY <1>1 DEF Queue
  <2>4. Flush(q) = Flush(s)
    BY <1>1, FlushOfDisposed
  <2>. HIDE DEF q, s
  <2>5. Tidy(s)
    BY <1>1, <2>3 DEF Tidy, Busy
  <2>6. CASE q.error
    <3>1. Tidy(q) /\ q.flight = 0
      BY <1>1, <2>2, <2>6 DEF Tidy, Busy
    <3>. QED
      BY <1>3, <2>1, <2>2, <2>6, <3>1
  <2>7. CASE ~q.error
    BY <1>3, <2>1, <2>3, <2>4, <2>5, <2>7
  <2>. QED
    BY <2>6, <2>7
<1>. QED
  BY <1>4, <1>5

LEMMA PaidClick ==
  ASSUME EditingInv, Paid, EditingInv', NEW d \in Dialogs, NEW degrees \in {90, -90},
         Click(d, degrees)
  PROVE  Paid'
<1>. DEFINE r == Finish(Clicked(dialog[d], degrees))
<1>1. /\ dialog' = [dialog EXCEPT ![d] = r] /\ jobs' = jobs /\ photo' = photo
      /\ clicks < MaxClicks /\ clicks' = clicks + 1 /\ giveUps' = giveUps
  BY DEF Click, Clicked, server
<1>. HIDE DEF r
<1>2. \A e \in Dialogs : e # d => dialog'[e] = dialog[e]
  BY <1>1 DEF EditingInv, Types
<1>3. Queueing(dialog') \subseteq Queueing(dialog) \cup {d}
  BY <1>2 DEF Queueing
<1>4. /\ IsFiniteSet(Queueing(dialog'))
      /\ Cardinality(Queueing(dialog')) <= Cardinality(Queueing(dialog)) + 1
  BY <1>3, Counts DEF Paid
<1>5. /\ IsFiniteSet(Live(jobs'))
      /\ Cardinality(Live(jobs')) <= Cardinality(Live(jobs)) + 0
  <2>1. Cardinality(Live(jobs)) \in Nat
    BY FS_CardinalityType DEF Paid
  <2>. QED
    BY <1>1, <2>1 DEF Paid
<1>6. /\ clicks' \in 0..MaxClicks /\ giveUps' \in 0..MaxGiveUps
      /\ photo'.key + 0 + 1 - clicks' - giveUps' <= photo.key - clicks - giveUps
  <2>1. photo.key \in Int /\ MaxClicks \in Nat /\ MaxGiveUps \in Nat
    BY PhotoEditingAssumption DEF EditingInv, Types, Photos
  <2>. QED
    BY <1>1, <2>1 DEF Paid
<1>7. Owed(jobs') \subseteq Owed(jobs)
  BY <1>1
<1>. QED
  BY <1>4, <1>5, <1>6, <1>7, OwedKept, PaidStep

\* A rotation at work goes on, fails, or replaces the photo.
LEMMA PaidServer ==
  ASSUME EditingInv, Paid, EditingInv', NEW j \in jobs,
         ReadOriginal(j) \/ ReplaceRotatedPhoto(j) \/ FailRotation(j)
  PROVE  Paid'
<1>1. /\ dialog' = dialog /\ clicks' = clicks /\ giveUps' = giveUps
      /\ j.step \in {"sent", "read"} /\ j \in Live(jobs) /\ photo.key \in Int
  BY DEF ReadOriginal, ReplaceRotatedPhoto, FailRotation, counters, Live, EditingInv, Types, Photos
<1>2. /\ Cardinality(Live(jobs)) \in Nat /\ IsFiniteSet(Live(jobs)) /\ IsFiniteSet(Queueing(dialog))
      /\ Cardinality(Queueing(dialog)) <= Cardinality(Queueing(dialog)) + 0
  BY FS_CardinalityType DEF Paid
<1>3. /\ clicks' \in 0..MaxClicks /\ giveUps' \in 0..MaxGiveUps /\ clicks' \in Int /\ giveUps' \in Int
  BY <1>1, PhotoEditingAssumption DEF Paid
<1>4. ASSUME NEW step, NEW p, jobs' = Step(j, step, p), photo' = photo PROVE Paid'
  <2>. DEFINE k == [j EXCEPT !.step = step, !.photo = p]
  <2>4. k.rest = j.rest /\ jobs' = (jobs \ {j}) \cup {k}
    BY <1>4 DEF EditingInv, Types, Job, Step
  <2>1. Live(jobs') \subseteq (Live(jobs) \ {j}) \cup {k}
    BY <1>4 DEF Live, Step
  <2>. HIDE DEF k
  <2>2. IsFiniteSet(Live(jobs')) /\ Cardinality(Live(jobs')) <= Cardinality(Live(jobs)) + 0
    <3>. DEFINE S == Live(jobs)
                T == Live(jobs')
    <3>. HIDE DEF S, T
    <3>1. IsFiniteSet(S) /\ Cardinality(S) \in Nat /\ j \in S /\ T \subseteq (S \ {j}) \cup {k}
      BY <1>1, <1>2, <2>1 DEF S, T
    <3>2. IsFiniteSet(T) /\ Cardinality(T) <= Cardinality(S)
      BY <3>1, Counts
    <3>3. Cardinality(S) + 0 = Cardinality(S)
      BY <3>1
    <3>. QED
      BY <3>2, <3>3 DEF S, T
  <2>3. photo'.key + 0 + 0 - clicks' - giveUps' <= photo.key - clicks - giveUps
    BY <1>1, <1>3, <1>4
  <2>5. IsFiniteSet(Owed(jobs')) /\ Cardinality(Owed(jobs')) <= Cardinality(Owed(jobs))
    BY <2>4, OwedReplaced
  <2>. QED
    BY <1>1, <1>2, <1>3, <2>2, <2>3, <2>5, PaidStep
<1>5. ASSUME jobs' = jobs \ {j}, photo' = photo PROVE Paid'
  <2>1. Live(jobs') \subseteq Live(jobs) /\ Owed(jobs') \subseteq Owed(jobs)
    BY <1>5 DEF Live, Owed
  <2>. QED
    BY <1>1, <1>5, <2>1, PaidStill
<1>6. ASSUME jobs' = Ended(j, "failed", j.photo), photo' = photo PROVE Paid'
  <2>1. jobs' = Step(j, "failed", j.photo) \/ jobs' = jobs \ {j}
    BY <1>6 DEF Ended
  <2>. QED
    BY <1>4, <1>5, <1>6, <2>1
<1>7. CASE ReplaceRotatedPhoto(j) /\ Unchanged(j)
  <2>1. /\ photo' = Photo(RotatePixels(j.photo.picture, j.degrees), photo.key + 1)
        /\ jobs' = Ended(j, "done", photo')
    BY <1>7 DEF ReplaceRotatedPhoto
  <2>2. photo'.key = photo.key + 1
    BY <2>1 DEF Photo
  <2>3. /\ Live(jobs') \subseteq Live(jobs) \ {j}
        /\ IsFiniteSet(Owed(jobs')) /\ Cardinality(Owed(jobs')) <= Cardinality(Owed(jobs))
    <3>1. CASE ~(j.awaited \/ j.orphan)
      <4>1. jobs' = jobs \ {j}
        BY <2>1, <3>1 DEF Ended
      <4>2. Owed(jobs') \subseteq Owed(jobs) /\ Live(jobs') \subseteq Live(jobs) \ {j}
        BY <4>1 DEF Owed, Live
      <4>. QED
        BY <4>2, OwedKept
    <3>2. CASE j.awaited \/ j.orphan
      <4>. DEFINE k == [j EXCEPT !.step = "done", !.photo = photo']
      <4>1. j \in Job
        BY DEF EditingInv, Types
      <4>2. k.step = "done" /\ k.rest = j.rest
        BY <4>1 DEF Job
      <4>3. jobs' = (jobs \ {j}) \cup {k}
        BY <2>1, <3>2 DEF Ended, Step
      <4>. HIDE DEF k
      <4>4. Live(jobs') \subseteq Live(jobs) \ {j}
        BY <4>2, <4>3 DEF Live
      <4>. QED
        BY <4>2, <4>3, <4>4, OwedReplaced
    <3>. QED
      BY <3>1, <3>2
  <2>4. IsFiniteSet(Live(jobs')) /\ Cardinality(Live(jobs')) <= Cardinality(Live(jobs)) - 1
    BY <1>1, <1>2, <2>3, Counts
  <2>5. Cardinality(Live(jobs)) - 1 = Cardinality(Live(jobs)) + (-1)
    BY <1>2
  <2>6. photo'.key + (-1) + 0 - clicks' - giveUps' <= photo.key - clicks - giveUps
    BY <1>1, <1>3, <2>2
  <2>. QED
    BY <1>1, <1>2, <1>3, <2>3, <2>4, <2>5, <2>6, PaidStep
<1>8. CASE ReplaceRotatedPhoto(j) /\ ~Unchanged(j)
  BY <1>6, <1>8 DEF ReplaceRotatedPhoto, server
<1>9. CASE ReadOriginal(j) \/ FailRotation(j)
  BY <1>4, <1>6, <1>9 DEF ReadOriginal, FailRotation, server
<1>. QED
  BY <1>7, <1>8, <1>9

\* A turn that was not saved is queued again in place of the rotation that failed;
\* what a closed dialog had queued is sent in place of the rotation it waited for.
LEMMA PaidAnswer ==
  ASSUME EditingInv, Paid, EditingInv', NEW j \in jobs, Answer(j)
  PROVE  Paid'
<1>. DEFINE d == j.dialog
            q == dialog[d]
            others == jobs \ {j}
<1>1. /\ d \in Dialogs /\ Tidy(q) /\ j.photo \in Photos /\ photo.key \in Int
      /\ photo' = photo /\ clicks' = clicks /\ giveUps' = giveUps /\ j.step \in {"done", "failed"}
  BY DEF EditingInv, Types, Job, Photos, Answer, server, counters
<1>2. CASE ~j.awaited
  <2>1. AnswerOrphan(j) /\ q \in Queue
    BY <1>1, <1>2 DEF Answer, Tidy
  <2>2. CASE jobs' = others
    <3>1. \A e \in Dialogs : dialog'[e].queued = dialog[e].queued
      <4>. DEFINE r == [q EXCEPT !.photo = j.photo]
      <4>1. r.queued = q.queued /\ (dialog' = dialog \/ dialog' = [dialog EXCEPT ![d] = r])
        BY <2>1 DEF AnswerOrphan, Queue
      <4>. HIDE DEF r
      <4>. QED
        BY <4>1 DEF EditingInv, Types
    <3>2. /\ Live(jobs') \subseteq Live(jobs) /\ Owed(jobs') \subseteq Owed(jobs)
          /\ Queueing(dialog') \subseteq Queueing(dialog)
      BY <2>2, <3>1 DEF Live, Owed, Queueing
    <3>. QED
      BY <1>1, <3>2, PaidStill
  <2>3. CASE jobs' # others
    <3>. DEFINE new == NewJob(d, Sent(j.rest), j.photo, FALSE)
    <3>1. j.rest # 0 /\ j.step = "done" /\ jobs' = others \cup {new} /\ dialog' = dialog
      BY <2>1, <2>3 DEF AnswerOrphan
    <3>2. new.rest = 0
      BY DEF NewJob
    <3>. HIDE DEF new
    <3>3. Live(jobs') \subseteq Live(jobs) \cup {new}
      BY <3>1 DEF Live
    <3>4. j \in Owed(jobs) /\ Owed(jobs') \subseteq Owed(jobs) \ {j}
      BY <3>1, <3>2 DEF Owed
    <3>5. IsFiniteSet(Live(jobs')) /\ Cardinality(Live(jobs')) <= Cardinality(Live(jobs)) + 1
      BY <3>3, Counts DEF Paid
    <3>6. IsFiniteSet(Owed(jobs')) /\ Cardinality(Owed(jobs')) <= Cardinality(Owed(jobs)) + (-1)
      <4>1. /\ IsFiniteSet(Owed(jobs')) /\ Cardinality(Owed(jobs)) \in Nat
            /\ Cardinality(Owed(jobs')) <= Cardinality(Owed(jobs)) - 1
        BY <3>4, Counts DEF Paid
      <4>2. Cardinality(Owed(jobs)) - 1 = Cardinality(Owed(jobs)) + (-1)
        BY <4>1
      <4>. QED
        BY <4>1, <4>2
    <3>7. /\ IsFiniteSet(Queueing(dialog'))
          /\ Cardinality(Queueing(dialog')) <= Cardinality(Queueing(dialog)) + 0
      BY <3>1, FS_CardinalityType DEF Paid
    <3>8. /\ clicks' \in 0..MaxClicks /\ giveUps' \in 0..MaxGiveUps
          /\ photo'.key + 1 + 0 + (-1) - clicks' - giveUps' <= photo.key - clicks - giveUps
      <4>1. MaxClicks \in Nat /\ MaxGiveUps \in Nat
        BY PhotoEditingAssumption
      <4>. QED
        BY <1>1, <4>1 DEF Paid
    <3>. QED
      BY <3>5, <3>6, <3>7, <3>8, PaidChange
  <2>. QED
    BY <2>2, <2>3
<1>3. j.awaited => q.flight # 0
  <2>1. j.degrees # 0
    BY DEF EditingInv, Types, Job, Rotations
  <2>. QED
    BY <2>1 DEF EditingInv, Flights
<1>4. CASE j.awaited /\ j.step = "done"
  <2>. DEFINE r == Saved(q, j.photo)
  <2>1. Becomes(d, r, others)
    BY <1>4 DEF Answer
  <2>2. /\ Tidy(r)
        /\ IF r.flight # 0 THEN r.queued = 0 /\ q.queued # 0 ELSE r.queued = q.queued
    BY <1>1, <1>3, <1>4, SavedParts
  <2>. HIDE DEF r
  <2>3. others \in SUBSET jobs
    OBVIOUS
  <2>. HIDE DEF others, d
  <2>. QED
    BY <1>1, <2>1, <2>2, <2>3, PaidSent
<1>5. CASE j.awaited /\ j.step = "failed"
  <2>. DEFINE r == Failed(q)
  <2>1. Becomes(d, r, others)
    BY <1>5 DEF Answer
  <2>2. Tidy(r) /\ r.flight = 0
    BY <1>1, <1>3, <1>5, FailedParts
  <2>. HIDE DEF r
  <2>3. jobs' = others /\ \A e \in Dialogs : e # d => dialog'[e] = dialog[e]
    BY <2>1, <2>2 DEF Becomes, EditingInv, Types
  <2>4. j \in Live(jobs) /\ Live(jobs') \subseteq Live(jobs) \ {j}
    BY <1>5, <2>3 DEF Live
  <2>5. Queueing(dialog') \subseteq Queueing(dialog) \cup {d}
    BY <2>3 DEF Queueing
  <2>6. /\ IsFiniteSet(Live(jobs'))
        /\ Cardinality(Live(jobs')) <= Cardinality(Live(jobs)) + (-1)
    <3>1. /\ IsFiniteSet(Live(jobs')) /\ Cardinality(Live(jobs)) \in Nat
          /\ Cardinality(Live(jobs')) <= Cardinality(Live(jobs)) - 1
      BY <2>4, Counts DEF Paid
    <3>2. Cardinality(Live(jobs)) - 1 = Cardinality(Live(jobs)) + (-1)
      BY <3>1
    <3>. QED
      BY <3>1, <3>2
  <2>7. /\ IsFiniteSet(Queueing(dialog'))
        /\ Cardinality(Queueing(dialog')) <= Cardinality(Queueing(dialog)) + 1
    <3>. HIDE DEF d
    <3>. QED
      BY <2>5, Counts DEF Paid
  <2>8. /\ clicks' \in 0..MaxClicks /\ giveUps' \in 0..MaxGiveUps
        /\ photo'.key + (-1) + 1 - clicks' - giveUps' <= photo.key - clicks - giveUps
    <3>1. MaxClicks \in Nat /\ MaxGiveUps \in Nat
      BY PhotoEditingAssumption
    <3>. QED
      BY <1>1, <3>1 DEF Paid
  <2>9. Owed(jobs') \subseteq Owed(jobs)
    BY <2>3 DEF Owed
  <2>. QED
    BY <2>6, <2>7, <2>8, <2>9, OwedKept, PaidStep
<1>. QED
  BY <1>1, <1>2, <1>4, <1>5

LEMMA PaidGiveUp ==
  ASSUME EditingInv, Paid, EditingInv', NEW j \in jobs, GiveUp(j)
  PROVE  Paid'
<1>. DEFINE d == j.dialog
            k == [j EXCEPT !.awaited = FALSE, !.orphan = FALSE, !.rest = 0]
            r == Failed(dialog[d])
<1>1. /\ photo' = photo /\ clicks' = clicks /\ giveUps < MaxGiveUps /\ giveUps' = giveUps + 1
      /\ jobs' = (jobs \ {j}) \cup {k} /\ (dialog' = dialog \/ dialog' = [dialog EXCEPT ![d] = r])
  BY DEF GiveUp, server
<1>2. j \in Job /\ photo.key \in Int
  BY DEF EditingInv, Types, Photos
<1>3. k.step = j.step /\ ~k.awaited /\ k.rest = 0
  BY <1>2 DEF Job
<1>. HIDE DEF k, r, d
<1>4. \A e \in Dialogs : e # d => dialog'[e] = dialog[e]
  BY <1>1 DEF EditingInv, Types
<1>5. Queueing(dialog') \subseteq Queueing(dialog) \cup {d}
  BY <1>4 DEF Queueing
<1>6. Live(jobs') \subseteq Live(jobs) \/ (j \in Live(jobs) /\ Live(jobs') \subseteq (Live(jobs) \ {j}) \cup {k})
  <2>1. CASE j.step \in {"sent", "read"}
    BY <1>1, <2>1 DEF Live
  <2>2. CASE j.step \notin {"sent", "read"}
    BY <1>1, <1>3, <2>2 DEF Live
  <2>. QED
    BY <2>1, <2>2
<1>7. IsFiniteSet(Live(jobs')) /\ Cardinality(Live(jobs')) <= Cardinality(Live(jobs)) + 0
  <2>. DEFINE S == Live(jobs)
              T == Live(jobs')
  <2>1. IsFiniteSet(S) /\ Cardinality(S) \in Nat
    BY FS_CardinalityType DEF Paid
  <2>2. T \subseteq S \/ (j \in S /\ T \subseteq (S \ {j}) \cup {k})
    BY <1>6
  <2>. HIDE DEF S, T
  <2>3. IsFiniteSet(T) /\ Cardinality(T) <= Cardinality(S)
    BY <2>1, <2>2, Counts
  <2>4. Cardinality(S) + 0 = Cardinality(S)
    BY <2>1
  <2>. QED
    BY <2>3, <2>4 DEF S, T
<1>8. /\ IsFiniteSet(Queueing(dialog'))
      /\ Cardinality(Queueing(dialog')) <= Cardinality(Queueing(dialog)) + 1
  BY <1>5, Counts DEF Paid
<1>9. /\ clicks' \in 0..MaxClicks /\ giveUps' \in 0..MaxGiveUps
      /\ photo'.key + 0 + 1 - clicks' - giveUps' <= photo.key - clicks - giveUps
  <2>1. MaxClicks \in Nat /\ MaxGiveUps \in Nat
    BY PhotoEditingAssumption
  <2>. QED
    BY <1>1, <1>2, <2>1 DEF Paid
<1>10. Owed(jobs') \subseteq Owed(jobs)
  BY <1>1, <1>3 DEF Owed
<1>. QED
  BY <1>7, <1>8, <1>9, <1>10, OwedKept, PaidStep

\* What a dialog had queued when it is opened anew is owed by the rotation it
\* waited for, or given up.
LEMMA PaidOpen ==
  ASSUME EditingInv, Paid, EditingInv', NEW d \in Dialogs, Open(d)
  PROVE  Paid'
<1>1. /\ photo' = photo /\ clicks' = clicks /\ giveUps' = giveUps /\ photo.key \in Int
      /\ jobs' = {Orphaned(d, j) : j \in jobs}
  BY DEF Open, server, counters, EditingInv, Types, Photos
<1>2. dialog[d] \in Queue /\ \A j \in jobs : j \in Job
  BY DEF EditingInv, Types
<1>3. \A e \in Dialogs : IF e = d THEN dialog'[e].queued = 0 ELSE dialog'[e] = dialog[e]
  <2>1. PICK p \in {photo, dialog[d].photo} : dialog' = [dialog EXCEPT ![d] = Fresh(p)]
    BY DEF Open
  <2>2. Fresh(p).queued = 0
    BY DEF Fresh
  <2>. QED
    BY <2>1, <2>2 DEF EditingInv, Types
<1>4. CASE \A j \in jobs : ~(j.dialog = d /\ j.awaited)
  <2>1. \A j \in jobs : Orphaned(d, j) = j
    BY <1>4 DEF Orphaned
  <2>2. jobs' = jobs
    BY <1>1, <2>1
  <2>3. Queueing(dialog') \subseteq Queueing(dialog)
    BY <1>3 DEF Queueing
  <2>. QED
    BY <1>1, <2>2, <2>3, PaidStill
<1>5. CASE \E j \in jobs : j.dialog = d /\ j.awaited
  <2>1. PICK j \in jobs : j.dialog = d /\ j.awaited
    BY <1>5
  <2>. DEFINE k == Orphaned(d, j)
  <2>2. \A i \in jobs : i # j => Orphaned(d, i) = i
    BY <2>1 DEF Orphaned, EditingInv, Flights
  <2>3. jobs' \subseteq (jobs \ {j}) \cup {k}
    BY <1>1, <2>2
  <2>4. /\ k.step = j.step /\ ~k.awaited /\ k.rest = dialog[d].queued
    BY <1>2, <2>1, OrphanedParts
  <2>. HIDE DEF k
  <2>5. Live(jobs') \subseteq Live(jobs) \/ (j \in Live(jobs) /\ Live(jobs') \subseteq (Live(jobs) \ {j}) \cup {k})
    <3>1. CASE j.step \in {"sent", "read"}
      BY <2>3, <3>1 DEF Live
    <3>2. CASE j.step \notin {"sent", "read"}
      BY <2>3, <2>4, <3>2 DEF Live
    <3>. QED
      BY <3>1, <3>2
  <2>6. IsFiniteSet(Live(jobs')) /\ Cardinality(Live(jobs')) <= Cardinality(Live(jobs)) + 0
    <3>. DEFINE S == Live(jobs)
                T == Live(jobs')
    <3>1. IsFiniteSet(S) /\ Cardinality(S) \in Nat
      BY FS_CardinalityType DEF Paid
    <3>2. T \subseteq S \/ (j \in S /\ T \subseteq (S \ {j}) \cup {k})
      BY <2>5
    <3>. HIDE DEF S, T
    <3>3. IsFiniteSet(T) /\ Cardinality(T) <= Cardinality(S)
      BY <3>1, <3>2, Counts
    <3>4. Cardinality(S) + 0 = Cardinality(S)
      BY <3>1
    <3>. QED
      BY <3>3, <3>4 DEF S, T
  <2>7. clicks' \in 0..MaxClicks /\ giveUps' \in 0..MaxGiveUps /\ clicks \in Int /\ giveUps \in Int
    BY <1>1, PhotoEditingAssumption DEF Paid
  <2>8. CASE dialog[d].queued = 0
    <3>1. Owed(jobs') \subseteq Owed(jobs) /\ Queueing(dialog') \subseteq Queueing(dialog)
      BY <1>3, <2>3, <2>4, <2>8 DEF Owed, Queueing
    <3>2. /\ IsFiniteSet(Queueing(dialog'))
          /\ Cardinality(Queueing(dialog')) <= Cardinality(Queueing(dialog)) + 0
      <4>1. /\ IsFiniteSet(Queueing(dialog')) /\ Cardinality(Queueing(dialog)) \in Nat
            /\ Cardinality(Queueing(dialog')) <= Cardinality(Queueing(dialog))
        BY <3>1, Counts DEF Paid
      <4>. QED
        BY <4>1
    <3>3. photo'.key + 0 + 0 - clicks' - giveUps' <= photo.key - clicks - giveUps
      BY <1>1, <2>7
    <3>. QED
      BY <2>6, <2>7, <3>1, <3>2, <3>3, OwedKept, PaidStep
  <2>9. CASE dialog[d].queued # 0
    <3>1. /\ Owed(jobs') \subseteq Owed(jobs) \cup {k}
          /\ d \in Queueing(dialog) /\ Queueing(dialog') \subseteq Queueing(dialog) \ {d}
      BY <1>3, <2>3, <2>9 DEF Owed, Queueing
    <3>2. /\ IsFiniteSet(Queueing(dialog'))
          /\ Cardinality(Queueing(dialog')) <= Cardinality(Queueing(dialog)) + (-1)
      <4>1. /\ IsFiniteSet(Queueing(dialog')) /\ Cardinality(Queueing(dialog)) \in Nat
            /\ Cardinality(Queueing(dialog')) <= Cardinality(Queueing(dialog)) - 1
        BY <3>1, Counts DEF Paid
      <4>2. Cardinality(Queueing(dialog)) - 1 = Cardinality(Queueing(dialog)) + (-1)
        BY <4>1
      <4>. QED
        BY <4>1, <4>2
    <3>3. IsFiniteSet(Owed(jobs')) /\ Cardinality(Owed(jobs')) <= Cardinality(Owed(jobs)) + 1
      <4>. DEFINE S == Owed(jobs)
                  T == Owed(jobs')
      <4>1. IsFiniteSet(S) /\ T \subseteq S \cup {k}
        BY <3>1 DEF Paid
      <4>. HIDE DEF S, T
      <4>2. IsFiniteSet(T) /\ Cardinality(T) <= Cardinality(S) + 1
        BY <4>1, Counts
      <4>. QED
        BY <4>2 DEF S, T
    <3>4. photo'.key + 0 + (-1) + 1 - clicks' - giveUps' <= photo.key - clicks - giveUps
      BY <1>1, <2>7
    <3>. QED
      BY <2>6, <2>7, <3>2, <3>3, <3>4, PaidChange
  <2>. QED
    BY <2>8, <2>9
<1>. QED
  BY <1>4, <1>5

\* Dialogs that fetch the photo again, and markers, queue and send nothing.
LEMMA PaidOthers ==
  ASSUME EditingInv, Paid, EditingInv',
         \/ \E d \in Dialogs : Refetch(d)
         \/ \E d \in Dialogs, point \in Points : PlaceMarker(d, point)
         \/ \E p \in posts : AddPhotoMarker(p) \/ FailMarker(p) \/ GiveUpMarker(p)
         \/ \E m \in markers : DeletePhotoMarker(m)
         \/ UNCHANGED vars
  PROVE  Paid'
<1>1. /\ photo' = photo /\ clicks' = clicks /\ jobs' = jobs
      /\ giveUps' = giveUps \/ (giveUps < MaxGiveUps /\ giveUps' = giveUps + 1)
  BY DEF Refetch, PlaceMarker, AddPhotoMarker, FailMarker, GiveUpMarker, DeletePhotoMarker,
         vars, server, counters
<1>2. \A e \in Dialogs : dialog'[e].queued = dialog[e].queued
  <2>2. ASSUME NEW d \in Dialogs, NEW r, dialog' = [dialog EXCEPT ![d] = r],
               r.queued = dialog[d].queued
        PROVE  \A e \in Dialogs : dialog'[e].queued = dialog[e].queued
    BY <2>2 DEF EditingInv, Types
  <2>3. \A d \in Dialogs : dialog[d] \in Queue
    BY DEF EditingInv, Types
  <2>4. ASSUME NEW d \in Dialogs, Refetch(d)
        PROVE  \A e \in Dialogs : dialog'[e].queued = dialog[e].queued
    <3>. DEFINE r == [dialog[d] EXCEPT !.photo = photo]
    <3>1. r.queued = dialog[d].queued /\ dialog' = [dialog EXCEPT ![d] = r]
      BY <2>3, <2>4 DEF Queue, Refetch
    <3>. HIDE DEF r
    <3>. QED
      BY <2>2, <3>1
  <2>5. ASSUME NEW d \in Dialogs, NEW marking, dialog' = [dialog EXCEPT ![d].marking = marking]
        PROVE  \A e \in Dialogs : dialog'[e].queued = dialog[e].queued
    <3>. DEFINE r == [dialog[d] EXCEPT !.marking = marking]
    <3>1. r.queued = dialog[d].queued /\ dialog' = [dialog EXCEPT ![d] = r]
      BY <2>3, <2>5 DEF Queue
    <3>. HIDE DEF r
    <3>. QED
      BY <2>2, <3>1
  <2>6. ASSUME NEW d \in Dialogs, NEW point \in Points, PlaceMarker(d, point)
        PROVE  \A e \in Dialogs : dialog'[e].queued = dialog[e].queued
    BY <2>5, <2>6 DEF PlaceMarker
  <2>7. ASSUME NEW p \in posts, AddPhotoMarker(p) \/ FailMarker(p) \/ GiveUpMarker(p)
        PROVE  \A e \in Dialogs : dialog'[e].queued = dialog[e].queued
    <3>1. p.dialog \in Dialogs
      BY DEF EditingInv, Types, Post
    <3>2. dialog' = dialog \/ dialog' = [dialog EXCEPT ![p.dialog].marking = FALSE]
      BY <2>7 DEF AddPhotoMarker, FailMarker, GiveUpMarker, Answered
    <3>. QED
      BY <2>5, <3>1, <3>2
  <2>8. ASSUME NEW m \in markers, DeletePhotoMarker(m)
        PROVE  dialog' = dialog
    BY <2>8 DEF DeletePhotoMarker
  <2>9. UNCHANGED vars => dialog' = dialog
    BY DEF vars
  <2>. QED
    BY <2>4, <2>6, <2>7, <2>8, <2>9
<1>3. Queueing(dialog') \subseteq Queueing(dialog)
  BY <1>2 DEF Queueing
<1>. QED
  BY <1>1, <1>3, PaidStill

\* The bound on the storage keys: every replacement was clicked, or queued again
\* after an answer was lost.
THEOREM ReplacementsPaid == Spec => []Paid
<1>1. Init => Paid
  <2>. SUFFICES ASSUME Init PROVE Paid
    OBVIOUS
  <2>1. photo.key = 0 /\ jobs = {} /\ clicks = 0 /\ giveUps = 0
    BY DEF Init, Photo
  <2>2. \A d \in Dialogs : dialog[d].queued = 0
    BY DEF Init, Fresh
  <2>3. Live(jobs) = {} /\ Queueing(dialog) = {} /\ Owed(jobs) = {}
    BY <2>1, <2>2 DEF Live, Queueing, Owed
  <2>. QED
    BY <2>1, <2>3, FS_EmptySet, PhotoEditingAssumption DEF Paid
<1>2. EditingInv /\ Paid /\ EditingInv' /\ [Next]_vars => Paid'
  <2>. SUFFICES ASSUME EditingInv, Paid, EditingInv', [Next]_vars PROVE Paid'
    OBVIOUS
  <2>1. ASSUME NEW d \in Dialogs, NEW degrees \in {90, -90}, Click(d, degrees)
        PROVE  Paid'
    BY <2>1, PaidClick
  <2>2. ASSUME NEW d \in Dialogs, TimerFires(d) \/ Retry(d) \/ Dispose(d)
        PROVE  Paid'
    BY <2>2, PaidSend
  <2>3. ASSUME NEW j \in jobs,
               \/ ReadOriginal(j) \/ ReplaceRotatedPhoto(j) \/ FailRotation(j)
               \/ Answer(j) \/ GiveUp(j)
        PROVE  Paid'
    BY <2>3, PaidServer, PaidAnswer, PaidGiveUp
  <2>. QED
    BY <2>1, <2>2, <2>3, PaidOpen, PaidOthers DEF Next
<1>. QED
  BY <1>1, <1>2, Invariant, PTL DEF Spec

\* Every part of the state has the type it is used with, a flight is one request
\* that is awaited, and the photo is replaced no more often than was clicked or
\* given up.
THEOREM TypeCorrect == Spec => []TypeOK
<1>1. EditingInv /\ Paid => TypeOK
  <2>. SUFFICES ASSUME EditingInv, Paid PROVE TypeOK
    OBVIOUS
  <2>1. photo.key \in 0..MaxClicks + MaxGiveUps
    <3>1. /\ Cardinality(Live(jobs)) \in Nat /\ Cardinality(Queueing(dialog)) \in Nat
          /\ Cardinality(Owed(jobs)) \in Nat
      BY FS_CardinalityType DEF Paid
    <3>2. photo.key \in Nat /\ MaxClicks \in Nat /\ MaxGiveUps \in Nat
      BY PhotoEditingAssumption DEF EditingInv, Types, Photos
    <3>. QED
      BY <3>1, <3>2 DEF Paid
  <2>2. DOMAIN photo.picture.at = Cells(photo.picture.w, photo.picture.h)
    BY PictureParts DEF EditingInv, Types, Photos, Frames
  <2>3. \A m \in markers : m.x \in 0..Scale(Width, Height) /\ m.y \in 0..Scale(Width, Height)
    BY DEF EditingInv, Types, Marker, Place
  <2>4. ASSUME NEW d \in Dialogs
        PROVE  /\ dialog[d].queued \in {0, 90, 180, 270}
               /\ dialog[d].preview \in {0, 90, 180, 270}
               /\ dialog[d].flight \in {0} \cup Rotations
               /\ dialog[d].flight # 0 <=> \E j \in jobs : j.dialog = d /\ j.awaited
               /\ dialog[d].marking <=> \E p \in posts : p.dialog = d /\ p.awaited
    <3>1. dialog[d] \in Queue /\ \A j \in jobs : j.degrees # 0
      BY DEF EditingInv, Types, Job, Rotations
    <3>2. dialog[d].flight # 0 <=> \E j \in jobs : j.dialog = d /\ j.awaited
      BY <3>1 DEF EditingInv, Flights
    <3>3. dialog[d].marking \in BOOLEAN
      BY <3>1 DEF Queue
    <3>4. dialog[d].marking <=> \E p \in posts : p.dialog = d /\ p.awaited
      BY DEF EditingInv, Requests
    <3>. QED
      BY <3>1, <3>2, <3>4 DEF Queue, Dial
  <2>. QED
    BY <2>1, <2>2, <2>3, <2>4 DEF TypeOK
<1>. QED
  BY <1>1, Invariant, ReplacementsPaid, PTL

=============================================================================
