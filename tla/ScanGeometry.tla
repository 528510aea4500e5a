---------------------------- MODULE ScanGeometry ----------------------------
(***************************************************************************)
(* Which pixels of a camera image are decoded (crop_scan_region of         *)
(* ale-gui/src/camera_frame.rs) and where the preview shows them           *)
(* (color_preview, and the cover fit of the window).  The f32 arithmetic   *)
(* of the crop is exact here; a pixel is a unit square, named by its       *)
(* column and row; a code is one pixel.                                    *)
(***************************************************************************)
EXTENDS Integers

CONSTANTS
    ImageSize,      \* [width, height] of the images of the camera
    MaxLength       \* bound: of the images and views that QrScan!CropIsTheBox tries

Rotations == {0, 90, 180, 270}

ASSUME ImageAssumption == ImageSize \in [width : Nat \ {0}, height : Nat \ {0}]
ASSUME MaxLengthAssumption == MaxLength \in Nat

\* What the window tells of its layout; ScanRegion::default() before it does.
UnsetLayout == [width |-> 0, height |-> 0, box |-> 0]
IsSet(layout) == layout.width > 0 /\ layout.height > 0 /\ layout.box > 0

Least(a, b) == IF a < b THEN a ELSE b
Largest(a, b) == IF a < b THEN b ELSE a
CeilDiv(a, b) == -((-a) \div b)

\* The image turned upright: its width and height swap for a quarter turn.
Upright(size, rotation) ==
    IF rotation \in {90, 270} THEN [width |-> size.height, height |-> size.width] ELSE size

\* The window covers the view with the upright image: one pixel of the image is
\* Cover / (width * height) of the view's units.
Cover(size, layout) == Largest(layout.width * size.height, layout.height * size.width)

-----------------------------------------------------------------------------
(* crop_scan_region.                                                       *)

\* The side of the crop, in 1 / Cover of a pixel.
Side(size, layout) ==
    Least(layout.box * size.width * size.height,
          Least(size.width, size.height) * Cover(size, layout))

\* From which column (or row) to which one the crop goes: [first, last).
FromRoundedDown(length, side, unit) == (length * unit - side) \div (2 * unit)
From(length, side, unit) == CeilDiv(length * unit - side, 2 * unit)
Until(length, side, unit) == (length * unit + side) \div (2 * unit)

InSide(n, length, side, unit) == From(length, side, unit) <= n /\ n < Until(length, side, unit)

\* Where the crop takes its pixel (x, y) from.
Source(x, y, size, rotation) ==
    CASE rotation = 90 -> <<y, size.height - 1 - x>>
      [] rotation = 180 -> <<size.width - 1 - x, size.height - 1 - y>>
      [] rotation = 270 -> <<size.width - 1 - y, x>>
      [] OTHER -> <<x, y>>

AnyRotation(region, rotation) == TRUE
SameRotation(region, rotation) == region.rotation = rotation

\* The pixels of an image of that size that reach the decoder.
Crop(size, rotation, region) ==
    LET upright == Upright(size, rotation)
        side == Side(upright, region.layout)
        unit == Cover(upright, region.layout)
    IN IF SameRotation(region, rotation) /\ IsSet(region.layout)
       THEN {Source(x, y, size, rotation) :
                x \in {n \in 0 .. upright.width - 1 : InSide(n, upright.width, side, unit)},
                y \in {n \in 0 .. upright.height - 1 : InSide(n, upright.height, side, unit)}}
       ELSE {}

-----------------------------------------------------------------------------
(* The window.                                                             *)

\* color_preview makes one pixel of every two by two and drops an odd column and row;
\* a side below two is refused.  These are the pixels that the preview stands for.
Previewed(size) == [width |-> 2 * (size.width \div 2), height |-> 2 * (size.height \div 2)]
Whole(size) == Previewed(size) = size

\* Where color_preview puts the pixel (x, y), in halves of its own pixels.
Shown(x, y, size, rotation) ==
    CASE rotation = 90 -> <<size.height - 1 - y, x>>
      [] rotation = 180 -> <<size.width - 1 - x, size.height - 1 - y>>
      [] rotation = 270 -> <<y, size.width - 1 - x>>
      [] OTHER -> <<x, y>>

\* The pixel n of a row (column) of that many in a preview of that size, which the window centers and
\* scales to cover, lies between the two edges of the box, which it centers too.
BetweenEdges(n, length, size, layout) ==
    LET box == layout.box * size.width * size.height
        unit == Cover(size, layout)
    IN -box <= (2 * n - length) * unit /\ (2 * (n + 1) - length) * unit <= box

\* The pixels of an image that are in the box, shown with that rotation.
InBox(size, rotation, layout) ==
    LET preview == Previewed(size)
        upright == Upright(preview, rotation)
    IN {pixel \in (0 .. preview.width - 1) \X (0 .. preview.height - 1) :
            LET at == Shown(pixel[1], pixel[2], preview, rotation)
            IN /\ BetweenEdges(at[1], upright.width, upright, layout)
               /\ BetweenEdges(at[2], upright.height, upright, layout)}
=============================================================================
