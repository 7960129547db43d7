----------------------------- MODULE Orientation -----------------------------
(***************************************************************************)
(* The eight orientations of an image: the tables of illa/types.cpp that   *)
(* combine them, and the three places that turn pixels with a table of     *)
(* their own: the pan of Win::Renderer, the quads of App::GenerateQuad,    *)
(* and the pixel loops of Filter::Transformation::RotateFixed.             *)
(*                                                                         *)
(* Points and sizes are pairs <<x, y>>.                                    *)
(***************************************************************************)
EXTENDS Integers, Sequences, TLC

Max2(a, b) == IF a >= b THEN a ELSE b
Min2(a, b) == IF a <= b THEN a ELSE b

RotationAngle ==
    {"Default", "FlipX", "FlipY", "Rotate90", "Rotate90FlipY", "Rotate180",
     "Rotate270", "Rotate270FlipY"}

SwapsAxes == {"Rotate90", "Rotate90FlipY", "Rotate270", "Rotate270FlipY"}

Flipped(size) == <<size[2], size[1]>>

\* Filter::CalculateUnzoomedSize, and Renderer::Transform.
UnzoomedSize(size, angle) == IF angle \in SwapsAxes THEN Flipped(size) ELSE size

RotateRight ==
    [Default |-> "Rotate90", FlipX |-> "Rotate90FlipY", FlipY |-> "Rotate270FlipY",
     Rotate90 |-> "Rotate180", Rotate90FlipY |-> "FlipY", Rotate180 |-> "Rotate270",
     Rotate270 |-> "Default", Rotate270FlipY |-> "FlipX"]

RotateLeft == [a \in RotationAngle |-> RotateRight[RotateRight[RotateRight[a]]]]

Mirror ==
    [Default |-> "FlipX", FlipX |-> "Default", FlipY |-> "Rotate180",
     Rotate90 |-> "Rotate270FlipY", Rotate90FlipY |-> "Rotate270",
     Rotate180 |-> "FlipY", Rotate270 |-> "Rotate90FlipY",
     Rotate270FlipY |-> "Rotate90"]

Flip ==
    [Default |-> "FlipY", FlipX |-> "Rotate180", FlipY |-> "Default",
     Rotate90 |-> "Rotate90FlipY", Rotate90FlipY |-> "Rotate90",
     Rotate180 |-> "FlipX", Rotate270 |-> "Rotate270FlipY",
     Rotate270FlipY |-> "Rotate270"]

\* Mutant: the flip is done before the turn.
FinalAngleFlipFirst(meta, requested) ==
    CASE requested = "Rotate90FlipY" -> RotateRight[Flip[meta]]
      [] requested = "Rotate270FlipY" -> RotateLeft[Flip[meta]]
      [] OTHER -> meta

\* Properties::FinalAngle
FinalAngle(meta, requested) ==
    CASE requested = "Default" -> meta
      [] requested = "FlipX" -> Mirror[meta]
      [] requested = "FlipY" -> Flip[meta]
      [] requested = "Rotate90" -> RotateRight[meta]
      [] requested = "Rotate90FlipY" -> Flip[RotateRight[meta]]
      [] requested = "Rotate180" -> RotateRight[RotateRight[meta]]
      [] requested = "Rotate270" -> RotateLeft[meta]
      [] requested = "Rotate270FlipY" -> Flip[RotateLeft[meta]]

\* The orientation field of the metadata; any other value changes nothing.
MetaAngle ==
    <<"Default", "FlipX", "Rotate180", "FlipY",
      "Rotate270FlipY", "Rotate90", "Rotate90FlipY", "Rotate270">>

-----------------------------------------------------------------------------
(* The renderer draws the image unturned, and turns what it has drawn.     *)

\* Mutant: the pan is not turned.
TransformPanUnturned(pan, size, area, angle) == pan

\* Renderer::TransformPan: where the window's corner is in the unturned image
\* of that size, for a window of size area.
TransformPan(pan, size, area, angle) ==
    LET across(extent, window, p) == Max2(0, (extent - window) - p)
    IN  CASE angle = "Default" -> pan
          [] angle = "FlipX" -> <<across(size[1], area[1], pan[1]), pan[2]>>
          [] angle = "FlipY" -> <<pan[1], across(size[2], area[2], pan[2])>>
          [] angle = "Rotate90" -> <<pan[2], across(size[2], area[1], pan[1])>>
          [] angle = "Rotate90FlipY" ->
                <<across(size[1], area[2], pan[2]), across(size[2], area[1], pan[1])>>
          [] angle = "Rotate180" ->
                <<across(size[1], area[1], pan[1]), across(size[2], area[2], pan[2])>>
          [] angle = "Rotate270" -> <<across(size[1], area[2], pan[2]), pan[1]>>
          [] angle = "Rotate270FlipY" -> <<pan[2], pan[1]>>

\* The corner of GenerateQuad's quad for one pixel, and with it the pixel of
\* the window that shows pixel p. The half pixel taken off by the caller puts
\* corners on pixels.
Turned(p, target, angle) ==
    LET far(i, q) == target[i] - 1 - q
    IN  CASE angle = "Default" -> p
          [] angle = "FlipX" -> <<far(1, p[1]), p[2]>>
          [] angle = "FlipY" -> <<p[1], far(2, p[2])>>
          [] angle = "Rotate90" -> <<far(1, p[2]), p[1]>>
          [] angle = "Rotate90FlipY" -> <<far(1, p[2]), far(2, p[1])>>
          [] angle = "Rotate180" -> <<far(1, p[1]), far(2, p[2])>>
          [] angle = "Rotate270" -> <<p[2], far(2, p[1])>>
          [] angle = "Rotate270FlipY" -> <<p[2], p[1]>>

\* An axis that is reversed is moved by a pixel more when the window is odd.
Adjustment(target, angle) ==
    <<IF angle \in {"FlipX", "Rotate90", "Rotate90FlipY", "Rotate180"}
      THEN target[1] % 2 ELSE 0,
      IF angle \in {"FlipY", "Rotate90FlipY", "Rotate180", "Rotate270"}
      THEN target[2] % 2 ELSE 0>>

GenerateQuad(p, target, angle) ==
    LET q == Turned(p, target, angle)
        adjustment == Adjustment(target, angle)
    IN  <<q[1] + adjustment[1], q[2] + adjustment[2]>>

-----------------------------------------------------------------------------
(* RotateFixed on a buffer of the size given; the buffer is a function on  *)
(* its pixels. Only the angles a surface is rotated by are supported.      *)

PixelsOf(size) == (0..(size[1] - 1)) \X (0..(size[2] - 1))

mirrored(buffer, size) ==
    [p \in PixelsOf(size) |-> buffer[<<size[1] - 1 - p[1], p[2]>>]]
flipped(buffer, size) ==
    [p \in PixelsOf(size) |-> buffer[<<p[1], size[2] - 1 - p[2]>>]]
rot90(buffer, size) ==
    [p \in PixelsOf(Flipped(size)) |-> buffer[<<p[2], size[2] - 1 - p[1]>>]]
rot270(buffer, size) ==
    [p \in PixelsOf(Flipped(size)) |-> buffer[<<size[1] - 1 - p[2], p[1]>>]]

RotateFixed(buffer, size, angle) ==
    CASE angle = "Default" -> buffer
      [] angle = "FlipX" -> mirrored(buffer, size)
      [] angle = "FlipY" -> flipped(buffer, size)
      [] angle = "Rotate90" -> rot90(buffer, size)
      [] angle = "Rotate180" -> flipped(mirrored(buffer, size), size)
      [] angle = "Rotate270" -> rot270(buffer, size)

=============================================================================
