--------------------------- MODULE CaptureGeometry ---------------------------
(***************************************************************************)
(* The sizes an image goes through between screencapture and the client    *)
(* (internal/capture, internal/tools/capture_window.go): taken with or     *)
(* without the window's shadow, scaled to the window's points, cropped to  *)
(* a region, shrunk to MaxDimension.  An image has a size in pixels and    *)
(* the rectangle it shows, in points from the window's corner; colours and *)
(* interpolation are left out.                                             *)
(***************************************************************************)
EXTENDS Integers

Sizes == [w : Nat, h : Nat]
Rects == [x : Int, y : Int, w : Nat, h : Nat]

Images == [w : Nat, h : Nat, shows : Rects]

\* All of a window, in its own points.
Whole(window) == [x |-> 0, y |-> 0, w |-> window.w, h |-> window.h]

\* screencapture -l: with -o just the window, else with the margin that its
\* shadow takes; scale is the display's pixels for each point.
CaptureWindow(window, hideShadow, margin, scale) ==
  LET points == IF hideShadow THEN Whole(window)
                ELSE [x |-> -margin.left, w |-> margin.left + window.w + margin.right,
                      y |-> -margin.top,  h |-> margin.top + window.h + margin.bottom]
  IN [w |-> scale * points.w, h |-> scale * points.h, shows |-> points]

\* resize: the longer edge becomes max, the other follows, rounded down.
Shrink(size, max) ==
  IF size.w <= max /\ size.h <= max THEN size
  ELSE IF size.w >= size.h THEN [w |-> max, h |-> (size.h * max) \div size.w]
  ELSE [w |-> (size.w * max) \div size.h, h |-> max]

\* ResizeToTarget: as many pixels as the window has points, whatever of the
\* screen they show.
ResizeToTarget(raw, target) == [raw EXCEPT !.w = target.w, !.h = target.h]

Least(a, b) == IF a <= b THEN a ELSE b
Most(a, b) == IF a >= b THEN a ELSE b

\* SubImage: the part of the region that lies in the image, or nothing.
Crop(size, region) ==
  LET left == Most(0, region.x)     right == Least(size.w, region.x + region.w)
      top == Most(0, region.y)      bottom == Least(size.h, region.y + region.h)
  IN IF left < right /\ top < bottom
     THEN [x |-> left, y |-> top, w |-> right - left, h |-> bottom - top]
     ELSE [x |-> 0, y |-> 0, w |-> 0, h |-> 0]

SizeOf(rect) == [w |-> rect.w, h |-> rect.h]

\* capture_window: the pixels of the resized image that it keeps, and the size
\* of the image the client gets.
Part(raw, window, region) == Crop(SizeOf(ResizeToTarget(raw, window)), region)
ImageSize(raw, window, region, max) == Shrink(SizeOf(Part(raw, window, region)), max)

-----------------------------------------------------------------------------
(* What the answers say of the image.                                       *)

Inside(region, window) ==
  /\ region.x >= 0 /\ region.x + region.w <= window.w
  /\ region.y >= 0 /\ region.y + region.h <= window.h

\* Along one edge of an image, of so many pixels for so many points from first
\* on: the edge before pixel at + i is point p + i, for each of n pixels and
\* the one after them (first + (at + i) * points / pixels = p + i).
EdgesArePoints(at, p, n, pixels, first, points) ==
  \A i \in 0..n : (at + i) * points = (p + i - first) * pixels

\* "To click: use x=region_x+px, y=region_y+py": the image has one pixel for
\* each point of the region that was asked for, and pixel (px, py) shows the
\* point at that offset of it.
PixelsArePoints(raw, window, region, max) ==
  LET part == Part(raw, window, region)
      shows == raw.shows
  IN /\ ImageSize(raw, window, region, max) = SizeOf(region)
     /\ EdgesArePoints(part.x, region.x, region.w, window.w, shows.x, shows.w)
     /\ EdgesArePoints(part.y, region.y, region.h, window.h, shows.y, shows.h)
=============================================================================
