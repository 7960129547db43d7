---------------------------- MODULE ZoomStrategy ----------------------------
(***************************************************************************)
(* App::ZoomStrategy: the zoom mode and level, and the size an image takes *)
(* in the window, where a factor is a pair <<numerator, denominator>>. And *)
(* App::ViewPan: where the window's view of the zoomed image is. A pan is  *)
(* a record; its centre is kept in 1/SubPixel of a pixel, where the code   *)
(* keeps a float.                                                          *)
(***************************************************************************)
EXTENDS Orientation

CONSTANTS
    SubPixel,          \* units of the pan's centre in a pixel
    ZoomLevels,        \* the factors of the levels, smallest first
    DefaultZoomLevel   \* the index of the factor 1

ASSUME ViewPanAssumption == SubPixel \in Nat \ {0} /\ SubPixel % 2 = 0

-----------------------------------------------------------------------------
(* ViewPan                                                                 *)

\* thrown: a check of Refresh has failed.
NoPan == [center |-> <<0, 0>>, viewport |-> <<0, 0>>, constraints |-> <<0, 0>>, thrown |-> FALSE]

\* Half the viewport, in units of the centre.
Half(size, i) == (SubPixel \div 2) * size[i]

\* A conversion to int drops the fraction, whatever the sign.
Truncated(c) == IF c >= 0 THEN c \div SubPixel ELSE -((-c) \div SubPixel)

TopLeft(pan) ==
    [i \in 1..2 |-> Max2(0, Truncated(pan.center[i] - Half(pan.viewport, i)))]

BottomRight(pan) ==
    [i \in 1..2 |-> Min2(pan.constraints[i],
                         Truncated(pan.center[i] + Half(pan.viewport, i)))]

\* Mutant: the lower bound has the last word.
ConstrainLowerLast(lower, x, upper) == Max2(lower, Min2(x, upper))

\* Geom::Constrain: where the bounds cross, the upper one wins.
Constrain(lower, x, upper) == Min2(Max2(lower, x), upper)

\* What Refresh throws on: nothing catches it.
CalculationError(pan) ==
    \E i \in 1..2 : \/ pan.center[i] > SubPixel * pan.constraints[i]
                    \/ TopLeft(pan)[i] < 0
                    \/ BottomRight(pan)[i] > pan.constraints[i]

Refresh(pan) ==
    LET moved == [pan EXCEPT !.center =
                    [i \in 1..2 |-> Constrain(Half(pan.viewport, i), pan.center[i],
                                    SubPixel * pan.constraints[i] - Half(pan.viewport, i))]]
    IN  [moved EXCEPT !.thrown = @ \/ CalculationError(moved)]

Reset(pan) == [pan EXCEPT !.center = [i \in 1..2 |-> Half(pan.viewport, i)]]

Pan(pan, distance) ==
    Refresh([pan EXCEPT !.center = [i \in 1..2 |-> @[i] + SubPixel * distance[i]]])

ResizeViewport(pan, size) == Refresh([pan EXCEPT !.viewport = size])

IsPositive(size) == size[1] > 0 /\ size[2] > 0

\* The centre keeps its place in the image, unless there was no image.
ResizeConstraints(pan, size) ==
    Refresh([pan EXCEPT !.constraints = size,
                        !.center = 
                [i \in 1..2 |-> IF IsPositive(pan.constraints)
                                THEN (pan.center[i] * size[i]) \div pan.constraints[i]
                                ELSE 0]])

-----------------------------------------------------------------------------
(* ZoomStrategy                                                            *)

LessEq(a, b) == a[1] * b[2] <= b[1] * a[2]
Less(a, b) == a[1] * b[2] < b[1] * a[2]
One == <<1, 1>>
None == <<0, 1>>

ASSUME ZoomAssumption ==
    /\ ZoomLevels \in Seq((Nat \ {0}) \X (Nat \ {0}))
    /\ Len(ZoomLevels) > 1
    /\ \A k \in 1..(Len(ZoomLevels) - 1) : Less(ZoomLevels[k], ZoomLevels[k + 1])
    /\ DefaultZoomLevel \in DOMAIN ZoomLevels
    /\ ZoomLevels[DefaultZoomLevel] = One

ZoomMode == {"FitImage", "FullSize", "Free"}
ResizeBehaviour == {"Both", "EnlargeOnly", "ReduceOnly"}

InitialZoom == [mode |-> "Free", level |-> DefaultZoomLevel, lastFit |-> One]

\* The largest level that is not above the size the image was last fitted at,
\* or the smallest one.
FindLevel(zoom) ==
    CHOOSE k \in DOMAIN ZoomLevels :
        /\ k = 1 \/ LessEq(ZoomLevels[k], zoom.lastFit)
        /\ \A j \in DOMAIN ZoomLevels : LessEq(ZoomLevels[j], zoom.lastFit) => j <= k

\* The level a step starts from.
BaseLevel(zoom) ==
    CASE zoom.mode = "FullSize" -> DefaultZoomLevel
      [] zoom.mode = "FitImage" -> FindLevel(zoom)
      [] OTHER -> zoom.level

\* ZoomIn and ZoomOut answer whether the level changed; the mode is Free
\* whatever they answer.
ZoomIn(zoom) ==
    LET base == BaseLevel(zoom)
    IN  [zoom |-> [zoom EXCEPT !.mode = "Free", !.level = Min2(base + 1, Len(ZoomLevels))],
         changed |-> base < Len(ZoomLevels)]

ZoomOut(zoom) ==
    LET base == BaseLevel(zoom)
    IN  [zoom |-> [zoom EXCEPT !.mode = "Free", !.level = Max2(base - 1, 1)],
         changed |-> base > 1]

NonDynamicZoomLevel(zoom) ==
    IF zoom.mode = "FullSize" THEN One ELSE ZoomLevels[zoom.level]

\* The scale that fits the image in the area, within what is allowed.
FitScale(area, image, behaviour) ==
    LET across == <<area[1], image[1]>>
        down == <<area[2], image[2]>>
        scale == IF LessEq(across, down) THEN across ELSE down
    IN  CASE behaviour = "EnlargeOnly" /\ Less(scale, One) -> One
          [] behaviour = "ReduceOnly" /\ Less(One, scale) -> One
          [] OTHER -> scale

Round(a, b) == (2 * a + b) \div (2 * b)

\* RoundCast(size * factor)
Scaled(size, factor) == [i \in 1..2 |-> Round(size[i] * factor[1], factor[2])]

\* CalculateViewAreaSize: the zoom of the image, the zoom of the surface its
\* pixels are on (a preview is smaller than the image), the size shown, and the
\* strategy with the fit it remembers.
CalculateViewAreaSize(zoom, behaviour, area, surface, image) ==
    IF ~IsPositive(image)
    THEN [ZoomedSize |-> <<0, 0>>, ZoomImage |-> None, ZoomSurface |-> None, zoom |-> zoom]
    ELSE LET fits == zoom.mode = "FitImage"
             factor == IF fits THEN FitScale(area, image, behaviour)
                               ELSE NonDynamicZoomLevel(zoom)
             ofSurface == IF surface[1] = 0 THEN None
                          ELSE <<factor[1] * image[1], factor[2] * surface[1]>>
         IN  [ZoomedSize |-> [i \in 1..2 |-> Min2(Scaled(surface, ofSurface)[i], area[i])],
              ZoomImage |-> factor,
              ZoomSurface |-> ofSurface,
              zoom |-> IF fits THEN [zoom EXCEPT !.lastFit = factor] ELSE zoom]

=============================================================================
