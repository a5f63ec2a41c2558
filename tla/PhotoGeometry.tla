---------------------------- MODULE PhotoGeometry ----------------------------
(***************************************************************************)
(* Pixels, EXIF orientations and markers under turns.  A stored picture is *)
(* w by h pixels and the orientation its viewer has to undo; RotatePhoto   *)
(* stores pixels that are upright and turned.  Markers are stored as parts *)
(* of the width and height of the upright picture, here as integers of the *)
(* scale 2 * w * h, on which the middle of every pixel is an integer.      *)
(* Rounding of floating point numbers is left out.                         *)
(***************************************************************************)
EXTENDS Integers

Orientations == 1..8
Rotations == {90, -90, 180}

Cells(w, h) == (0..w - 1) \X (0..h - 1)

-----------------------------------------------------------------------------
(* The code.                                                               *)

\* Mutant: orientation 8 is undone like orientation 6.
UprightSixForEight(o, w, h, x, y) ==
    CASE o = 1 -> <<x, y>>
      [] o = 2 -> <<w - 1 - x, y>>
      [] o = 3 -> <<w - 1 - x, h - 1 - y>>
      [] o = 4 -> <<x, h - 1 - y>>
      [] o = 5 -> <<y, x>>
      [] o \in {6, 8} -> <<h - 1 - y, x>>
      [] o = 7 -> <<h - 1 - y, w - 1 - x>>

\* Where the stored pixel x, y is when the orientation is undone.
Upright(o, w, h, x, y) ==
    CASE o = 1 -> <<x, y>>
      [] o = 2 -> <<w - 1 - x, y>>
      [] o = 3 -> <<w - 1 - x, h - 1 - y>>
      [] o = 4 -> <<x, h - 1 - y>>
      [] o = 5 -> <<y, x>>
      [] o = 6 -> <<h - 1 - y, x>>
      [] o = 7 -> <<h - 1 - y, w - 1 - x>>
      [] o = 8 -> <<y, w - 1 - x>>

\* Where a turn takes the cell c of an upright picture of w by h.
Turned(degrees, w, h, c) ==
    CASE degrees = 90 -> <<h - 1 - c[2], c[1]>>
      [] degrees = -90 -> <<c[2], w - 1 - c[1]>>
      [] degrees = 180 -> <<w - 1 - c[1], h - 1 - c[2]>>

UprightWidth(p) == IF p.orientation >= 5 THEN p.h ELSE p.w
UprightHeight(p) == IF p.orientation >= 5 THEN p.w ELSE p.h

\* The re-encoded picture carries no EXIF data: its orientation is 1.
RotatePixels(p, degrees) ==
    LET nw == UprightWidth(p)
        nh == UprightHeight(p)
        ow == IF degrees = 180 THEN nw ELSE nh
        oh == IF degrees = 180 THEN nh ELSE nw
        Source(c) == CHOOSE s \in Cells(p.w, p.h) :
                         c = Turned(degrees, nw, nh, Upright(p.orientation, p.w, p.h, s[1], s[2]))
    IN [w |-> ow, h |-> oh, orientation |-> 1,
        at |-> [c \in Cells(ow, oh) |-> p.at[Source(c)]]]

\* x = CASE WHEN 90 THEN 1-y WHEN -90 THEN y ELSE 1-x END, and y alike.
TurnMarker(degrees, scale, x, y) ==
    CASE degrees = 90 -> <<scale - y, x>>
      [] degrees = -90 -> <<y, scale - x>>
      [] degrees = 180 -> <<scale - x, scale - y>>

-----------------------------------------------------------------------------
(* What a viewer shows, and what a turn is: by the EXIF specification and  *)
(* by the eye, without the formulas above.                                 *)

\* The visual sides at which the first row and the first column are.
FirstRow == <<"top", "top", "bottom", "bottom", "left", "right", "right", "left">>
FirstColumn == <<"left", "right", "right", "left", "top", "top", "bottom", "bottom">>

Image(w, h, at) == [w |-> w, h |-> h, at |-> at]

Shown(p) ==
    LET row == FirstRow[p.orientation]
        column == FirstColumn[p.orientation]
        From(n, length, first, side) == IF side = first THEN n ELSE length - 1 - n
    IN IF row \in {"top", "bottom"}
       THEN Image(p.w, p.h, [c \in Cells(p.w, p.h) |->
                p.at[<<From(c[1], p.w, "left", column), From(c[2], p.h, "top", row)>>]])
       ELSE Image(p.h, p.w, [c \in Cells(p.h, p.w) |->
                p.at[<<From(c[2], p.w, "top", column), From(c[1], p.h, "left", row)>>]])

\* Every column, read from the bottom, becomes a row.
Clockwise(i) ==
    Image(i.h, i.w, [c \in Cells(i.h, i.w) |-> i.at[<<c[2], i.h - 1 - c[1]>>]])

Quarters(i, n) ==
    CASE n % 4 = 0 -> i
      [] n % 4 = 1 -> Clockwise(i)
      [] n % 4 = 2 -> Clockwise(Clockwise(i))
      [] n % 4 = 3 -> Clockwise(Clockwise(Clockwise(i)))

Scale(w, h) == 2 * w * h

\* The middle of a cell of an image of w by h.
MiddleX(c, w, h) == (2 * c[1] + 1) * h
MiddleY(c, w, h) == (2 * c[2] + 1) * w

\* The pixel at x, y.
PixelAt(i, x, y) == i.at[<<(x * i.w) \div Scale(i.w, i.h), (y * i.h) \div Scale(i.w, i.h)>>]

=============================================================================
