--------------------------- MODULE ViewPortProofs ---------------------------
(***************************************************************************)
(* What holds of the window for images, windows and zoom levels of any     *)
(* size: the pan never makes ViewPan throw, the eight orientations put     *)
(* pixels where the view wants them and compose, steps of the zoom go one  *)
(* way, and a screen that is not up to date is painted again. Lemmas about *)
(* the tables and arithmetic of Orientation and ZoomStrategy come first,   *)
(* then the types of what the handlers compute, then ViewInvariant,        *)
(* handler by handler, and what follows from it; then the composers and    *)
(* the stages of an image that loads, and RepaintInvariant.                *)
(***************************************************************************)
EXTENDS ViewPort, SequenceTheorems, WellFoundedInduction, TLAPS

\* The tables of illa/types.cpp, entry by entry.
LEMMA Tables ==
    /\ RotateRight["Default"] = "Rotate90" /\ RotateRight["FlipX"] = "Rotate90FlipY"
    /\ RotateRight["FlipY"] = "Rotate270FlipY" /\ RotateRight["Rotate90"] = "Rotate180"
    /\ RotateRight["Rotate90FlipY"] = "FlipY" /\ RotateRight["Rotate180"] = "Rotate270"
    /\ RotateRight["Rotate270"] = "Default" /\ RotateRight["Rotate270FlipY"] = "FlipX"
    /\ RotateLeft["Default"] = "Rotate270" /\ RotateLeft["FlipX"] = "Rotate270FlipY"
    /\ RotateLeft["FlipY"] = "Rotate90FlipY" /\ RotateLeft["Rotate90"] = "Default"
    /\ RotateLeft["Rotate90FlipY"] = "FlipX" /\ RotateLeft["Rotate180"] = "Rotate90"
    /\ RotateLeft["Rotate270"] = "Rotate180" /\ RotateLeft["Rotate270FlipY"] = "FlipY"
    /\ Mirror["Default"] = "FlipX" /\ Mirror["FlipX"] = "Default"
    /\ Mirror["FlipY"] = "Rotate180" /\ Mirror["Rotate90"] = "Rotate270FlipY"
    /\ Mirror["Rotate90FlipY"] = "Rotate270" /\ Mirror["Rotate180"] = "FlipY"
    /\ Mirror["Rotate270"] = "Rotate90FlipY" /\ Mirror["Rotate270FlipY"] = "Rotate90"
    /\ Flip["Default"] = "FlipY" /\ Flip["FlipX"] = "Rotate180"
    /\ Flip["FlipY"] = "Default" /\ Flip["Rotate90"] = "Rotate90FlipY"
    /\ Flip["Rotate90FlipY"] = "Rotate90" /\ Flip["Rotate180"] = "FlipX"
    /\ Flip["Rotate270"] = "Rotate270FlipY" /\ Flip["Rotate270FlipY"] = "Rotate270"
<1>1. /\ RotateRight["Default"] = "Rotate90" /\ RotateRight["FlipX"] = "Rotate90FlipY"
      /\ RotateRight["FlipY"] = "Rotate270FlipY" /\ RotateRight["Rotate90"] = "Rotate180"
      /\ RotateRight["Rotate90FlipY"] = "FlipY" /\ RotateRight["Rotate180"] = "Rotate270"
      /\ RotateRight["Rotate270"] = "Default" /\ RotateRight["Rotate270FlipY"] = "FlipX"
  BY DEF RotateRight
<1>2. /\ RotateLeft["Default"] = "Rotate270" /\ RotateLeft["FlipX"] = "Rotate270FlipY"
      /\ RotateLeft["FlipY"] = "Rotate90FlipY" /\ RotateLeft["Rotate90"] = "Default"
      /\ RotateLeft["Rotate90FlipY"] = "FlipX" /\ RotateLeft["Rotate180"] = "Rotate90"
      /\ RotateLeft["Rotate270"] = "Rotate180" /\ RotateLeft["Rotate270FlipY"] = "FlipY"
  BY <1>1 DEF RotateLeft, RotationAngle
<1>3. /\ Mirror["Default"] = "FlipX" /\ Mirror["FlipX"] = "Default"
      /\ Mirror["FlipY"] = "Rotate180" /\ Mirror["Rotate90"] = "Rotate270FlipY"
      /\ Mirror["Rotate90FlipY"] = "Rotate270" /\ Mirror["Rotate180"] = "FlipY"
      /\ Mirror["Rotate270"] = "Rotate90FlipY" /\ Mirror["Rotate270FlipY"] = "Rotate90"
  BY DEF Mirror
<1>4. /\ Flip["Default"] = "FlipY" /\ Flip["FlipX"] = "Rotate180"
      /\ Flip["FlipY"] = "Default" /\ Flip["Rotate90"] = "Rotate90FlipY"
      /\ Flip["Rotate90FlipY"] = "Rotate90" /\ Flip["Rotate180"] = "FlipX"
      /\ Flip["Rotate270"] = "Rotate270FlipY" /\ Flip["Rotate270FlipY"] = "Rotate270"
  BY DEF Flip
<1> QED BY <1>1, <1>2, <1>3, <1>4

\* An orientation in three bits: whether the axes change places, and which of
\* the axes of the window runs backwards.
Swaps(turn) == turn \in SwapsAxes
Reverses(turn, k) ==
    IF k = 1 THEN turn \in {"FlipX", "Rotate90", "Rotate90FlipY", "Rotate180"}
    ELSE turn \in {"FlipY", "Rotate90FlipY", "Rotate180", "Rotate270"}

\* The axis of the picture that lies along an axis of the window.
Along(turn, k) == IF Swaps(turn) THEN 3 - k ELSE k

\* Where GenerateQuad's table puts a pixel, axis by axis.
LEMMA TurnedAxis ==
    ASSUME NEW p, NEW target, NEW turn \in RotationAngle, NEW k \in 1..2
    PROVE  Turned(p, target, turn)[k] =
              IF Reverses(turn, k) THEN target[k] - 1 - p[Along(turn, k)]
              ELSE p[Along(turn, k)]
<1>1. CASE k = 1
  BY <1>1 DEF RotationAngle, Turned, Reverses, Along, Swaps, SwapsAxes
<1>2. CASE k = 2
  BY <1>2 DEF RotationAngle, Turned, Reverses, Along, Swaps, SwapsAxes
<1> QED BY <1>1, <1>2

\* It is a point again.
LEMMA TurnedPoint ==
    ASSUME NEW p \in Int \X Int, NEW target \in Int \X Int, NEW turn \in RotationAngle
    PROVE  Turned(p, target, turn) \in Int \X Int
BY DEF RotationAngle, Turned

\* The size of the picture on the axes of the window.
LEMMA UnzoomedAxis ==
    ASSUME NEW size \in Int \X Int, NEW turn, NEW k \in 1..2
    PROVE  /\ UnzoomedSize(size, turn) \in Int \X Int
           /\ UnzoomedSize(size, turn)[k] = size[Along(turn, k)]
BY DEF UnzoomedSize, Flipped, Along, Swaps

\* How the tables combine two orientations, in bits.
LEMMA FinalAngleBits ==
    ASSUME NEW meta \in RotationAngle, NEW requested \in RotationAngle
    PROVE  LET turn == FinalAngle(meta, requested)
           IN  /\ Swaps(turn) <=> ~(Swaps(meta) <=> Swaps(requested))
               /\ \A k \in 1..2 :
                    Reverses(turn, k) <=>
                        ~(Reverses(requested, k) <=> Reverses(meta, Along(requested, k)))
<1>1. \A a \in RotationAngle :
         /\ Swaps(RotateRight[a]) <=> ~Swaps(a)
         /\ Reverses(RotateRight[a], 1) <=> ~Reverses(a, 2)
         /\ Reverses(RotateRight[a], 2) <=> Reverses(a, 1)
  BY Tables DEF RotationAngle, Swaps, SwapsAxes, Reverses
<1>2. \A a \in RotationAngle :
         /\ Swaps(RotateLeft[a]) <=> ~Swaps(a)
         /\ Reverses(RotateLeft[a], 1) <=> Reverses(a, 2)
         /\ Reverses(RotateLeft[a], 2) <=> ~Reverses(a, 1)
  BY Tables DEF RotationAngle, Swaps, SwapsAxes, Reverses
<1>3. \A a \in RotationAngle :
         /\ Swaps(Mirror[a]) <=> Swaps(a)
         /\ Reverses(Mirror[a], 1) <=> ~Reverses(a, 1)
         /\ Reverses(Mirror[a], 2) <=> Reverses(a, 2)
  BY Tables DEF RotationAngle, Swaps, SwapsAxes, Reverses
<1>4. \A a \in RotationAngle :
         /\ Swaps(Flip[a]) <=> Swaps(a)
         /\ Reverses(Flip[a], 1) <=> Reverses(a, 1)
         /\ Reverses(Flip[a], 2) <=> ~Reverses(a, 2)
  BY Tables DEF RotationAngle, Swaps, SwapsAxes, Reverses
<1> DEFINE turn == FinalAngle(meta, requested)
           Claim == /\ Swaps(turn) <=> ~(Swaps(meta) <=> Swaps(requested))
                    /\ Reverses(turn, 1) <=>
                         ~(Reverses(requested, 1) <=> Reverses(meta, Along(requested, 1)))
                    /\ Reverses(turn, 2) <=>
                         ~(Reverses(requested, 2) <=> Reverses(meta, Along(requested, 2)))
<1> SUFFICES Claim
  OBVIOUS
<1>5. /\ RotateRight[meta] \in RotationAngle /\ RotateLeft[meta] \in RotationAngle
  BY Tables DEF RotationAngle
<1>6. CASE requested = "Default"
  <2>1. turn = meta
    BY <1>6 DEF FinalAngle
  <2>2. ~Swaps(requested) /\ ~Reverses(requested, 1) /\ ~Reverses(requested, 2)
        /\ Along(requested, 1) = 1 /\ Along(requested, 2) = 2
    BY <1>6 DEF Swaps, SwapsAxes, Reverses, Along
  <2> QED BY <1>1, <1>2, <1>3, <1>4, <1>5, <2>1, <2>2
<1>7. CASE requested = "FlipX"
  <2>1. turn = Mirror[meta]
    BY <1>7 DEF FinalAngle
  <2>2. ~Swaps(requested) /\ Reverses(requested, 1) /\ ~Reverses(requested, 2)
        /\ Along(requested, 1) = 1 /\ Along(requested, 2) = 2
    BY <1>7 DEF Swaps, SwapsAxes, Reverses, Along
  <2> QED BY <1>1, <1>2, <1>3, <1>4, <1>5, <2>1, <2>2
<1>8. CASE requested = "FlipY"
  <2>1. turn = Flip[meta]
    BY <1>8 DEF FinalAngle
  <2>2. ~Swaps(requested) /\ ~Reverses(requested, 1) /\ Reverses(requested, 2)
        /\ Along(requested, 1) = 1 /\ Along(requested, 2) = 2
    BY <1>8 DEF Swaps, SwapsAxes, Reverses, Along
  <2> QED BY <1>1, <1>2, <1>3, <1>4, <1>5, <2>1, <2>2
<1>9. CASE requested = "Rotate90"
  <2>1. turn = RotateRight[meta]
    BY <1>9 DEF FinalAngle
  <2>2. Swaps(requested) /\ Reverses(requested, 1) /\ ~Reverses(requested, 2)
        /\ Along(requested, 1) = 2 /\ Along(requested, 2) = 1
    BY <1>9 DEF Swaps, SwapsAxes, Reverses, Along
  <2> QED BY <1>1, <1>2, <1>3, <1>4, <1>5, <2>1, <2>2
<1>10. CASE requested = "Rotate90FlipY"
  <2>1. turn = Flip[RotateRight[meta]]
    BY <1>10 DEF FinalAngle
  <2>2. Swaps(requested) /\ Reverses(requested, 1) /\ Reverses(requested, 2)
        /\ Along(requested, 1) = 2 /\ Along(requested, 2) = 1
    BY <1>10 DEF Swaps, SwapsAxes, Reverses, Along
  <2> QED BY <1>1, <1>2, <1>3, <1>4, <1>5, <2>1, <2>2
<1>11. CASE requested = "Rotate180"
  <2>1. turn = RotateRight[RotateRight[meta]]
    BY <1>11 DEF FinalAngle
  <2>2. ~Swaps(requested) /\ Reverses(requested, 1) /\ Reverses(requested, 2)
        /\ Along(requested, 1) = 1 /\ Along(requested, 2) = 2
    BY <1>11 DEF Swaps, SwapsAxes, Reverses, Along
  <2> QED BY <1>1, <1>2, <1>3, <1>4, <1>5, <2>1, <2>2
<1>12. CASE requested = "Rotate270"
  <2>1. turn = RotateLeft[meta]
    BY <1>12 DEF FinalAngle
  <2>2. Swaps(requested) /\ ~Reverses(requested, 1) /\ Reverses(requested, 2)
        /\ Along(requested, 1) = 2 /\ Along(requested, 2) = 1
    BY <1>12 DEF Swaps, SwapsAxes, Reverses, Along
  <2> QED BY <1>1, <1>2, <1>3, <1>4, <1>5, <2>1, <2>2
<1>13. CASE requested = "Rotate270FlipY"
  <2>1. turn = Flip[RotateLeft[meta]]
    BY <1>13 DEF FinalAngle
  <2>2. Swaps(requested) /\ ~Reverses(requested, 1) /\ ~Reverses(requested, 2)
        /\ Along(requested, 1) = 2 /\ Along(requested, 2) = 1
    BY <1>13 DEF Swaps, SwapsAxes, Reverses, Along
  <2> QED BY <1>1, <1>2, <1>3, <1>4, <1>5, <2>1, <2>2
<1> QED
  BY <1>6, <1>7, <1>8, <1>9, <1>10, <1>11, <1>12, <1>13 DEF RotationAngle

\* The final angle is one of the eight.
LEMMA FinalAngleType ==
    ASSUME NEW meta \in RotationAngle, NEW requested \in RotationAngle
    PROVE  FinalAngle(meta, requested) \in RotationAngle
<1>1. \A a \in RotationAngle : /\ RotateRight[a] \in RotationAngle
                               /\ RotateLeft[a] \in RotationAngle
                               /\ Mirror[a] \in RotationAngle /\ Flip[a] \in RotationAngle
  BY Tables DEF RotationAngle
<1>2. FinalAngle(meta, requested) \in
         {meta, Mirror[meta], Flip[meta], RotateRight[meta], Flip[RotateRight[meta]],
          RotateRight[RotateRight[meta]], RotateLeft[meta], Flip[RotateLeft[meta]]}
  BY DEF FinalAngle, RotationAngle
<1> QED BY <1>1, <1>2


\* Turning by the metadata, then as asked for, is turning by the final angle:
\* in size, and for every pixel.
LEMMA FinalAngleComposes ==
    ASSUME NEW size \in Int \X Int, NEW p \in Int \X Int,
           NEW meta \in RotationAngle, NEW requested \in RotationAngle
    PROVE  LET turn == FinalAngle(meta, requested)
               turned == UnzoomedSize(size, meta)
               final == UnzoomedSize(size, turn)
           IN  /\ final = UnzoomedSize(turned, requested)
               /\ Turned(p, final, turn) = Turned(Turned(p, turned, meta), final, requested)
<1> DEFINE turn == FinalAngle(meta, requested)
           turned == UnzoomedSize(size, meta)
           final == UnzoomedSize(size, turn)
           q == Turned(p, turned, meta)
<1>1. /\ turn \in RotationAngle
      /\ Swaps(turn) <=> ~(Swaps(meta) <=> Swaps(requested))
      /\ \A k \in 1..2 : Reverses(turn, k) <=>
            ~(Reverses(requested, k) <=> Reverses(meta, Along(requested, k)))
  BY FinalAngleType, FinalAngleBits
<1> HIDE DEF turn
<1>2. /\ turned \in Int \X Int /\ final \in Int \X Int
      /\ UnzoomedSize(turned, requested) \in Int \X Int
  BY UnzoomedAxis
<1>3. \A k \in 1..2 : /\ Along(requested, k) \in 1..2 /\ Along(meta, k) \in 1..2
                      /\ Along(turn, k) = Along(meta, Along(requested, k))
  BY <1>1 DEF Along
<1>4. \A k \in 1..2 : /\ turned[k] = size[Along(meta, k)] /\ final[k] = size[Along(turn, k)]
                      /\ UnzoomedSize(turned, requested)[k] = turned[Along(requested, k)]
  <2>1. \A k \in 1..2 : turned[k] = size[Along(meta, k)] /\ final[k] = size[Along(turn, k)]
    BY UnzoomedAxis
  <2> HIDE DEF turned, final
  <2>2. \A k \in 1..2 : UnzoomedSize(turned, requested)[k] = turned[Along(requested, k)]
    BY <1>2, UnzoomedAxis
  <2> QED BY <2>1, <2>2
<1> HIDE DEF turned, final
<1>5. final = UnzoomedSize(turned, requested)
  <2>1. \A k \in 1..2 : final[k] = UnzoomedSize(turned, requested)[k]
    BY <1>3, <1>4
  <2> QED BY <1>2, <2>1
<1>6. q \in Int \X Int
  BY <1>2, TurnedPoint
<1>7. /\ Turned(p, final, turn) \in Int \X Int
      /\ Turned(q, final, requested) \in Int \X Int
  BY <1>1, <1>2, <1>6, TurnedPoint
<1>8. ASSUME NEW k \in 1..2
      PROVE  Turned(p, final, turn)[k] = Turned(q, final, requested)[k]
  <2> DEFINE a == Along(requested, k)
             o == p[Along(meta, a)]
             w == turned[a]
  <2>1. a \in 1..2 /\ Along(meta, a) \in 1..2 /\ Along(turn, k) = Along(meta, a)
    BY <1>3
  <2>2. w \in Int /\ o \in Int /\ final[k] = w
    BY <1>2, <1>4, <2>1
  <2>3. Turned(p, final, turn)[k] = IF Reverses(turn, k) THEN w - 1 - o ELSE o
    BY <1>1, <2>1, <2>2, TurnedAxis
  <2>4. q[a] = IF Reverses(meta, a) THEN w - 1 - o ELSE o
    BY <2>1, TurnedAxis
  <2>5. Turned(q, final, requested)[k] = IF Reverses(requested, k) THEN w - 1 - q[a] ELSE q[a]
    BY <2>2, TurnedAxis
  <2>6. Reverses(turn, k) <=> ~(Reverses(requested, k) <=> Reverses(meta, a))
    BY <1>1
  <2> HIDE DEF a, o, w, q
  <2>7. CASE Reverses(requested, k)
    BY <2>2, <2>3, <2>4, <2>5, <2>6, <2>7
  <2>8. CASE ~Reverses(requested, k)
    BY <2>2, <2>3, <2>4, <2>5, <2>6, <2>8
  <2> QED BY <2>7, <2>8
<1>9. Turned(p, final, turn) = Turned(q, final, requested)
  <2>1. /\ Turned(p, final, turn)[1] = Turned(q, final, requested)[1]
        /\ Turned(p, final, turn)[2] = Turned(q, final, requested)[2]
    BY <1>8
  <2> QED BY <1>7, <2>1
<1> QED BY <1>5, <1>9 DEF final, turned, turn

-----------------------------------------------------------------------------
(* The picture in the window.                                              *)

\* TransformPan and the half pixel of the quads, axis by axis.
LEMMA TransformPanAxis ==
    ASSUME NEW pan \in Nat \X Nat, NEW size, NEW shown, NEW turn \in RotationAngle,
           NEW k \in 1..2
    PROVE  /\ TransformPan(pan, size, shown, turn)[Along(turn, k)] =
                IF Reverses(turn, k)
                THEN Max2(0, (size[Along(turn, k)] - shown[k]) - pan[k]) ELSE pan[k]
           /\ Adjustment(shown, turn)[k] = IF Reverses(turn, k) THEN shown[k] % 2 ELSE 0
<1>1. CASE k = 1
  BY <1>1 DEF RotationAngle, TransformPan, Adjustment, Reverses, Along, Swaps, SwapsAxes
<1>2. CASE k = 2
  BY <1>2 DEF RotationAngle, TransformPan, Adjustment, Reverses, Along, Swaps, SwapsAxes
<1> QED BY <1>1, <1>2

\* A quad's place along an axis.
LEMMA QuadAxis ==
    ASSUME NEW p, NEW target, NEW turn, NEW k \in 1..2
    PROVE  GenerateQuad(p, target, turn)[k] = Turned(p, target, turn)[k] + Adjustment(target, turn)[k]
<1> DEFINE q == Turned(p, target, turn)  adjustment == Adjustment(target, turn)
<1>1. GenerateQuad(p, target, turn) = <<q[1] + adjustment[1], q[2] + adjustment[2]>>
  BY DEF GenerateQuad
<1> HIDE DEF q, adjustment
<1>2. k = 1 \/ k = 2
  OBVIOUS
<1>3. GenerateQuad(p, target, turn)[k] = q[k] + adjustment[k]
  BY <1>1, <1>2
<1> QED BY <1>3 DEF q, adjustment

\* What a painting leaves: the place of a picture, in whole pixels.
ScreenOK ==
    screen.image # NoImage =>
        /\ screen.size \in Nat \X Nat /\ screen.pan \in Nat \X Nat
        /\ screen.area \in Nat \X Nat /\ screen.angle \in RotationAngle

\* The pan and the quads are turned separately, and agree, for pictures and
\* windows of any size.
LEMMA PaintedOriented == ScreenOK => OrientedViewShown
<1> DEFINE size == screen.size
           shown == screen.area
           turn == screen.angle
           turned == UnzoomedSize(size, turn)
           window == UnzoomedSize(shown, turn)
           client == [k \in 1..2 |-> Min2(window[k], size[k])]
           offset == [k \in 1..2 |-> Round(window[k] - client[k], 2)]
           corner == TransformPan(screen.pan, size, shown, turn)
           adjustment == Adjustment(shown, turn)
           At(p) == GenerateQuad([k \in 1..2 |-> offset[k] + p[k]], shown, turn)
           Of(p) == Turned([k \in 1..2 |-> corner[k] + p[k]], turned, turn)
<1> SUFFICES ASSUME ScreenOK, screen.image # NoImage,
                    \A k \in 1..2 : screen.pan[k] <= Max2(turned[k] - shown[k], 0),
                    NEW p \in PixelsOf(client), NEW k \in 1..2
             PROVE  IF turned[k] >= shown[k]
                    THEN At(p)[k] + screen.pan[k] = Of(p)[k] + adjustment[k]
                    ELSE 2 * (At(p)[k] - Of(p)[k] - adjustment[k]) - (shown[k] - turned[k])
                            \in {-1, 0, 1}
  BY DEF OrientedViewShown
<1>1. /\ size \in Nat \X Nat /\ screen.pan \in Nat \X Nat /\ shown \in Nat \X Nat
      /\ turn \in RotationAngle
  BY DEF ScreenOK
<1>2. p \in Int \X Int
  BY DEF PixelsOf
<1> DEFINE s == Along(turn, k)
<1>3. s \in 1..2 /\ Along(turn, s) = k
  BY DEF Along
<1>4. turned \in Int \X Int /\ turned[k] = size[s] /\ window[s] = shown[k]
  <2>1. size \in Int \X Int /\ shown \in Int \X Int
    BY <1>1
  <2> HIDE DEF size, shown
  <2>2. turned \in Int \X Int /\ turned[k] = size[s]
    BY <2>1, UnzoomedAxis
  <2>3. window[s] = shown[Along(turn, s)]
    BY <1>3, <2>1, UnzoomedAxis
  <2> QED BY <1>3, <2>2, <2>3
<1>5. /\ corner[s] = IF Reverses(turn, k) THEN Max2(0, (size[s] - shown[k]) - screen.pan[k])
                     ELSE screen.pan[k]
      /\ adjustment[k] = IF Reverses(turn, k) THEN shown[k] % 2 ELSE 0
  BY <1>1, TransformPanAxis
<1>6. offset[s] = Round(shown[k] - Min2(shown[k], size[s]), 2)
  BY <1>3, <1>4
<1>7. At(p)[k] = (IF Reverses(turn, k) THEN shown[k] - 1 - (offset[s] + p[s])
                  ELSE offset[s] + p[s]) + adjustment[k]
  <2> DEFINE o == [i \in 1..2 |-> offset[i] + p[i]]
  <2>1. GenerateQuad(o, shown, turn)[k] = Turned(o, shown, turn)[k] + adjustment[k]
    BY QuadAxis
  <2>2. Turned(o, shown, turn)[k] = IF Reverses(turn, k) THEN shown[k] - 1 - o[s] ELSE o[s]
    BY <1>1, TurnedAxis
  <2>3. o[s] = offset[s] + p[s]
    BY <1>3
  <2> HIDE DEF o, offset, adjustment
  <2> QED BY <2>1, <2>2, <2>3 DEF o
<1>8. Of(p)[k] = IF Reverses(turn, k) THEN turned[k] - 1 - (corner[s] + p[s])
                 ELSE corner[s] + p[s]
  <2> DEFINE o == [i \in 1..2 |-> corner[i] + p[i]]
  <2>1. Turned(o, turned, turn)[k] = IF Reverses(turn, k) THEN turned[k] - 1 - o[s] ELSE o[s]
    BY <1>1, TurnedAxis
  <2>2. o[s] = corner[s] + p[s]
    BY <1>3
  <2> HIDE DEF o, corner, turned
  <2> QED BY <2>1, <2>2 DEF o
<1>9. PICK t \in Nat, a \in Nat, n \in Nat, m \in Int, adj \in Int :
         /\ t = turned[k] /\ t = size[s] /\ a = shown[k] /\ n = screen.pan[k] /\ m = p[s]
         /\ adj = adjustment[k] /\ (~Reverses(turn, k) => adj = 0)
  <2>1. size[s] \in Nat /\ shown[k] \in Nat /\ screen.pan[k] \in Nat /\ p[s] \in Int
    BY <1>1, <1>2, <1>3
  <2>2. adjustment[k] \in Int /\ (~Reverses(turn, k) => adjustment[k] = 0)
    BY <1>5, <2>1
  <2> HIDE DEF size, shown, turn, turned, adjustment, s
  <2> QED BY <1>4, <2>1, <2>2
<1>10. n <= Max2(t - a, 0)
  BY <1>9
<1>11. PICK off \in Int, back \in Int : /\ off = Round(a - Min2(a, t), 2)
                                        /\ back = Max2(0, (t - a) - n)
  <2>1. \A x \in Int : Round(x, 2) \in Int
    BY DEF Round
  <2>2. a - Min2(a, t) \in Int
    BY DEF Min2
  <2>3. Max2(0, (t - a) - n) \in Int
    BY DEF Max2
  <2> QED BY <2>1, <2>2, <2>3
<1> HIDE DEF size, shown, turn, turned, window, client, offset, corner, adjustment, At, Of, s
<1>12. At(p)[k] = (IF Reverses(turn, k) THEN a - 1 - (off + m) ELSE off + m) + adj
  BY <1>6, <1>7, <1>9, <1>11
<1>13. Of(p)[k] = IF Reverses(turn, k) THEN t - 1 - (back + m) ELSE n + m
  BY <1>5, <1>8, <1>9, <1>11
<1>14. /\ t >= a => /\ (off + m) + n = n + m
                    /\ (a - 1 - (off + m)) + adj + n = (t - 1 - (back + m)) + adj
       /\ ~(t >= a) =>
             /\ 2 * ((off + m) - (n + m)) - (a - t) \in {-1, 0, 1}
             /\ 2 * ((a - 1 - (off + m)) + adj - (t - 1 - (back + m)) - adj) - (a - t)
                   \in {-1, 0, 1}
  <2>1. CASE t >= a
    <3>1. off = 0
      BY <1>11, <2>1 DEF Round, Min2
    <3>2. back = t - a - n
      BY <1>10, <1>11, <2>1 DEF Max2
    <3> QED BY <2>1, <3>1, <3>2
  <2>2. CASE ~(t >= a)
    <3>1. PICK d \in Nat : d = a - t
      BY <2>2
    <3>2. off = (2 * d + 2) \div 4
      BY <1>11, <2>2, <3>1 DEF Round, Min2
    <3>3. 2 * off - d \in {0, 1}
      BY <3>2
    <3>4. n = 0 /\ back = 0
      BY <1>10, <1>11, <2>2 DEF Max2
    <3> QED BY <2>2, <3>1, <3>3, <3>4
  <2> QED BY <2>1, <2>2
<1>15. CASE Reverses(turn, k)
  <2>1. At(p)[k] = (a - 1 - (off + m)) + adj /\ Of(p)[k] = t - 1 - (back + m)
    BY <1>12, <1>13, <1>15
  <2> QED BY <1>9, <1>14, <2>1
<1>16. CASE ~Reverses(turn, k)
  <2>1. At(p)[k] = off + m /\ Of(p)[k] = n + m /\ adj = 0
    BY <1>9, <1>12, <1>13, <1>16
  <2> QED BY <1>9, <1>14, <2>1
<1> QED BY <1>15, <1>16

-----------------------------------------------------------------------------
(* What the variables hold.                                                *)

Size == Nat \X Nat
Factor == Nat \X (Nat \ {0})

\* A number of at least 0, divided by a positive one.
LEMMA DivNat ==
    ASSUME NEW x \in Nat, NEW y \in Nat \ {0}
    PROVE  x \div y \in Nat
  OBVIOUS

\* A zoomed size is a size.
LEMMA ScaledType ==
    ASSUME NEW size \in Size, NEW factor \in Factor
    PROVE  Scaled(size, factor) \in Size
<1>1. ASSUME NEW k \in 1..2
      PROVE  Round(size[k] * factor[1], factor[2]) \in Nat
  <2>1. PICK s \in Nat, n \in Nat, d \in Nat \ {0} :
           s = size[k] /\ n = factor[1] /\ d = factor[2]
    BY DEF Size, Factor
  <2>2. s * n \in Nat
    BY SMT
  <2>3. 2 * (s * n) + d \in Nat /\ 2 * d \in Nat \ {0}
    BY <2>2
  <2>4. (2 * (s * n) + d) \div (2 * d) \in Nat
    BY <2>3, DivNat
  <2> QED BY <2>1, <2>4 DEF Round
<1> QED BY <1>1 DEF Scaled, Size

\* A turned size is a size.
LEMMA UnzoomedType ==
    ASSUME NEW size \in Size, NEW a
    PROVE  UnzoomedSize(size, a) \in Size
BY DEF UnzoomedSize, Flipped, Size

PanType ==
    [center : Int \X Int, viewport : Size, constraints : Size, thrown : {FALSE}]

\* A conversion to int of a whole number of units.
LEMMA TruncatedType ==
    ASSUME NEW c \in Int
    PROVE  Truncated(c) \in Int
<1>1. SubPixel \in Nat \ {0}
  BY ViewPanAssumption
<1>2. CASE c >= 0
  BY <1>1, <1>2 DEF Truncated
<1>3. CASE ~(c >= 0)
  <2>1. PICK d \in Nat : d = -c
    BY <1>3
  <2>2. d \div SubPixel \in Nat
    BY <1>1, DivNat
  <2> QED BY <1>3, <2>1, <2>2 DEF Truncated
<1> QED BY <1>2, <1>3

\* Refresh passes its own checks, whatever it is called on.
LEMMA RefreshType ==
    ASSUME NEW pan \in PanType
    PROVE  /\ Refresh(pan) \in PanType
           /\ Refresh(pan).viewport = pan.viewport
           /\ Refresh(pan).constraints = pan.constraints
<1> DEFINE bound(k) == Constrain(Half(pan.viewport, k), pan.center[k],
                              SubPixel * pan.constraints[k] - Half(pan.viewport, k))
           moved == [pan EXCEPT !.center = [k \in 1..2 |-> bound(k)]]
<1>1. SubPixel \in Nat \ {0} /\ SubPixel \div 2 \in Nat
  BY ViewPanAssumption
<1>2. ASSUME NEW k \in 1..2
      PROVE  /\ Half(pan.viewport, k) \in Nat /\ bound(k) \in Int
             /\ bound(k) <= SubPixel * pan.constraints[k]
  <2>1. PICK v \in Nat, c \in Nat, x \in Int, h \in Nat :
           /\ v = pan.viewport[k] /\ c = pan.constraints[k] /\ x = pan.center[k]
           /\ h = SubPixel \div 2
    BY <1>1 DEF PanType, Size
  <2>2. h * v \in Nat /\ SubPixel * c \in Nat
    BY <1>1
  <2>3. Half(pan.viewport, k) = h * v
    BY <2>1 DEF Half
  <2>4. PICK y \in Nat, z \in Nat : y = h * v /\ z = SubPixel * c
    BY <2>2
  <2>5. bound(k) = Constrain(y, x, z - y)
    BY <2>1, <2>3, <2>4
  <2> HIDE DEF bound
  <2>6. bound(k) \in Int /\ bound(k) <= z
    BY <2>5 DEF Constrain, Min2, Max2
  <2> QED BY <2>1, <2>2, <2>3, <2>4, <2>6
<1> HIDE DEF bound
<1>3. /\ moved \in PanType /\ moved.viewport = pan.viewport
      /\ moved.constraints = pan.constraints /\ moved.thrown = FALSE
      /\ \A k \in 1..2 : moved.center[k] = bound(k)
  <2>1. PICK c : c = [k \in 1..2 |-> bound(k)]
    OBVIOUS
  <2>2. c \in Int \X Int /\ \A k \in 1..2 : c[k] = bound(k)
    BY <1>2, <2>1
  <2> QED BY <2>1, <2>2 DEF PanType
<1>4. Refresh(pan) = [moved EXCEPT !.thrown = @ \/ CalculationError(moved)]
  BY DEF Refresh, bound
<1> HIDE DEF moved
<1>5. ASSUME NEW k \in 1..2
      PROVE  /\ ~(moved.center[k] > SubPixel * moved.constraints[k])
             /\ ~(TopLeft(moved)[k] < 0)
             /\ ~(BottomRight(moved)[k] > moved.constraints[k])
  <2>1. PICK c \in Nat, x \in Int, h \in Nat :
           c = moved.constraints[k] /\ x = moved.center[k] /\ h = Half(moved.viewport, k)
    BY <1>2, <1>3 DEF PanType, Size
  <2>2. Truncated(x - h) \in Int /\ Truncated(x + h) \in Int
    BY TruncatedType
  <2>3. TopLeft(moved)[k] = Max2(0, Truncated(x - h)) /\ BottomRight(moved)[k] = Min2(c, Truncated(x + h))
    BY <2>1 DEF TopLeft, BottomRight
  <2>4. x <= SubPixel * c /\ SubPixel * c \in Int
    BY <1>1, <1>2, <1>3, <2>1
  <2> QED BY <2>1, <2>2, <2>3, <2>4 DEF Max2, Min2
<1>6. ~CalculationError(moved)
  BY <1>5 DEF CalculationError
<1>7. Refresh(pan) = moved
  BY <1>3, <1>4, <1>6 DEF PanType
<1> QED BY <1>3, <1>7

\* Every operation of the pan leaves a pan.
LEMMA PanOperations ==
    ASSUME NEW pan \in PanType, NEW size \in Size
    PROVE  /\ Reset(pan) \in PanType
           /\ \A distance \in Int \X Int : Pan(pan, distance) \in PanType
           /\ ResizeViewport(pan, size) \in PanType
           /\ ResizeConstraints(pan, size) \in PanType
<1>1. SubPixel \in Nat \ {0}
  BY ViewPanAssumption
<1>2. Reset(pan) \in PanType
  <2>1. ASSUME NEW k \in 1..2
        PROVE  Half(pan.viewport, k) \in Int
    <3>1. SubPixel \div 2 \in Nat /\ pan.viewport[k] \in Nat
      BY <1>1 DEF PanType, Size
    <3> QED BY <3>1 DEF Half
  <2>2. PICK c : c = [k \in 1..2 |-> Half(pan.viewport, k)]
    OBVIOUS
  <2>3. c \in Int \X Int
    BY <2>1, <2>2
  <2> QED BY <2>2, <2>3 DEF Reset, PanType
<1>3. ASSUME NEW distance \in Int \X Int
      PROVE  Pan(pan, distance) \in PanType
  <2>1. PICK c : c = [k \in 1..2 |-> pan.center[k] + SubPixel * distance[k]]
    OBVIOUS
  <2>2. \A k \in 1..2 : pan.center[k] + SubPixel * distance[k] \in Int
    BY <1>1 DEF PanType
  <2>3. c \in Int \X Int
    BY <2>1, <2>2
  <2>4. PICK moved : moved = [pan EXCEPT !.center = [k \in 1..2 |-> @[k] + SubPixel * distance[k]]]
    OBVIOUS
  <2>5. moved \in PanType
    BY <2>1, <2>3, <2>4 DEF PanType
  <2>6. Pan(pan, distance) = Refresh(moved)
    BY <2>4 DEF Pan
  <2> QED BY <2>5, <2>6, RefreshType
<1>4. ResizeViewport(pan, size) \in PanType
  <2>1. PICK sized \in PanType : sized = [pan EXCEPT !.viewport = size]
    BY DEF PanType
  <2>2. ResizeViewport(pan, size) = Refresh(sized)
    BY <2>1 DEF ResizeViewport
  <2> QED BY <2>2, RefreshType
<1>5. ResizeConstraints(pan, size) \in PanType
  <2> DEFINE place(k) == IF IsPositive(pan.constraints)
                         THEN (pan.center[k] * size[k]) \div pan.constraints[k] ELSE 0
  <2>1. ASSUME NEW k \in 1..2
        PROVE  place(k) \in Int
    <3>1. PICK x \in Int, s \in Nat, c \in Nat :
             x = pan.center[k] /\ s = size[k] /\ c = pan.constraints[k]
      BY DEF PanType, Size
    <3>2. PICK y \in Int : y = x * s
      OBVIOUS
    <3>3. IsPositive(pan.constraints) => c \in Nat \ {0}
      BY <3>1 DEF IsPositive
    <3>4. c \in Nat \ {0} => y \div c \in Int
      OBVIOUS
    <3> QED BY <3>1, <3>2, <3>3, <3>4
  <2>2. PICK c : c = [k \in 1..2 |-> place(k)]
    OBVIOUS
  <2> HIDE DEF place
  <2>3. c \in Int \X Int
    BY <2>1, <2>2
  <2>4. PICK moved \in PanType : moved = [pan EXCEPT !.constraints = size, !.center = c]
    BY <2>3 DEF PanType
  <2>5. ResizeConstraints(pan, size) = Refresh(moved)
    BY <2>2, <2>4 DEF ResizeConstraints, place
  <2> QED BY <2>5, RefreshType
<1> QED BY <1>2, <1>3, <1>4, <1>5

ZoomType == [mode : ZoomMode, level : DOMAIN ZoomLevels, lastFit : Factor]

\* What is calculated for a view.
LEMMA CalculateType ==
    ASSUME NEW zoom \in ZoomType, NEW behaviour, NEW window \in Size, NEW surface \in Size,
           NEW picture \in Size
    PROVE  LET r == CalculateViewAreaSize(zoom, behaviour, window, surface, picture)
           IN  /\ r.zoom \in ZoomType /\ r.zoom.mode = zoom.mode /\ r.zoom.level = zoom.level
               /\ r.ZoomedSize \in Size
               /\ r.ZoomImage \in Factor /\ r.ZoomSurface \in Factor
<1> DEFINE r == CalculateViewAreaSize(zoom, behaviour, window, surface, picture)
           Typed(x) == /\ x.zoom \in ZoomType /\ x.zoom.mode = zoom.mode
                       /\ x.zoom.level = zoom.level /\ x.ZoomedSize \in Size
                       /\ x.ZoomImage \in Factor /\ x.ZoomSurface \in Factor
<1> SUFFICES Typed(r)
  OBVIOUS
<1>1. None \in Factor /\ One \in Factor
  BY DEF None, One, Factor
<1>2. CASE ~IsPositive(picture)
  <2>1. r = [ZoomedSize |-> <<0, 0>>, ZoomImage |-> None, ZoomSurface |-> None, zoom |-> zoom]
    BY <1>2 DEF CalculateViewAreaSize
  <2> HIDE DEF r
  <2> QED BY <1>1, <2>1 DEF Size
<1>3. CASE IsPositive(picture)
  <2>1. /\ window[1] \in Nat /\ window[2] \in Nat /\ surface[1] \in Nat
        /\ picture[1] \in Nat \ {0} /\ picture[2] \in Nat \ {0}
    BY <1>3 DEF IsPositive, Size
  <2>2. FitScale(window, picture, behaviour) \in Factor
    <3>1. <<window[1], picture[1]>> \in Factor /\ <<window[2], picture[2]>> \in Factor
      BY <2>1 DEF Factor
    <3>2. FitScale(window, picture, behaviour) \in
             {<<window[1], picture[1]>>, <<window[2], picture[2]>>, One}
      BY DEF FitScale
    <3> QED BY <1>1, <3>1, <3>2
  <2>3. NonDynamicZoomLevel(zoom) \in Factor
    <3>1. ZoomLevels[zoom.level] \in (Nat \ {0}) \X (Nat \ {0})
      BY ZoomAssumption, ElementOfSeq DEF ZoomType
    <3> QED BY <1>1, <3>1 DEF NonDynamicZoomLevel, Factor
  <2>4. PICK factor \in Factor :
           factor = IF zoom.mode = "FitImage" THEN FitScale(window, picture, behaviour)
                    ELSE NonDynamicZoomLevel(zoom)
    BY <2>2, <2>3
  <2>5. PICK ofSurface \in Factor :
           ofSurface = IF surface[1] = 0 THEN None
                       ELSE <<factor[1] * picture[1], factor[2] * surface[1]>>
    <3>1. PICK n \in Nat, d \in Nat \ {0}, s \in Nat, w \in Nat :
             n = factor[1] /\ d = factor[2] /\ s = surface[1] /\ w = picture[1]
      BY <2>1 DEF Factor
    <3>2. n * w \in Nat /\ (s # 0 => d * s \in Nat \ {0})
      OBVIOUS
    <3> QED BY <1>1, <3>1, <3>2 DEF Factor
  <2>6. PICK shown \in Size : shown = [k \in 1..2 |-> Min2(Scaled(surface, ofSurface)[k], window[k])]
    <3>1. Scaled(surface, ofSurface) \in Size
      BY ScaledType
    <3>2. PICK scaled \in Size : scaled = Scaled(surface, ofSurface)
      BY <3>1
    <3>3. \A k \in 1..2 : Min2(scaled[k], window[k]) \in Nat
      BY DEF Min2, Size
    <3>4. PICK w : w = [k \in 1..2 |-> Min2(scaled[k], window[k])]
      OBVIOUS
    <3>5. w \in Size
      BY <3>3, <3>4 DEF Size
    <3> QED BY <3>2, <3>4, <3>5
  <2>7. r = [ZoomedSize |-> shown, ZoomImage |-> factor, ZoomSurface |-> ofSurface,
             zoom |-> IF zoom.mode = "FitImage" THEN [zoom EXCEPT !.lastFit = factor] ELSE zoom]
    BY <1>3, <2>4, <2>5, <2>6 DEF CalculateViewAreaSize
  <2> HIDE DEF r
  <2>8. /\ [zoom EXCEPT !.lastFit = factor] \in ZoomType
        /\ [zoom EXCEPT !.lastFit = factor].mode = zoom.mode
        /\ [zoom EXCEPT !.lastFit = factor].level = zoom.level
    BY DEF ZoomType
  <2> QED BY <2>7, <2>8
<1> QED BY <1>2, <1>3

PropsType ==
    [MetaAngle : RotationAngle, RequestedAngle : RotationAngle, Zoom : Factor]

ViewType == [pan : PanType, zoom : ZoomType, imageZoom : Factor]

ImagesOrNone == Images \cup {NoImage}

\* An image has a header's flag, whatever its other parts are.
HasHeader(r) == "header" \in DOMAIN r

TypesOK ==
    /\ start \in Starts
    /\ DOMAIN image = Images /\ \A i \in Images : HasHeader(image[i])
    /\ m_image \in ImagesOrNone
    /\ m_props \in PropsType
    /\ view \in ViewType
    /\ area \in Size
    /\ angle \in RotationAngle

\* A picture that has a zoom has a size.
ShownHasSize == view.imageZoom # None => m_image # NoImage /\ image[m_image].header

\* The files are what the assumption says they are.
LEMMA FileFields ==
    ASSUME start \in Starts, NEW i \in Images
    PROVE  /\ FileOf(i).size \in (Nat \ {0}) \X (Nat \ {0})
           /\ FileOf(i).orientation \in 1..8
<1>1. start.files[i] \in DOMAIN Files
  BY ViewPortAssumption DEF Start
<1>2. FileOf(i) \in File
  BY <1>1, ViewPortAssumption DEF FileOf
<1> QED BY <1>2 DEF File

\* The sizes of the images and of their surfaces are sizes.
LEMMA SizeTypes ==
    ASSUME start \in Starts, NEW i \in ImagesOrNone, NEW img, NEW a
    PROVE  /\ GetSize(i) \in Size
           /\ IsPositive(UnzoomedSize(GetSize(i), a)) <=> (i # NoImage /\ image[i].header)
           /\ SurfaceSize(img, i) \in Size
<1>1. <<0, 0>> \in Size /\ ~IsPositive(<<0, 0>>) /\ UnzoomedSize(<<0, 0>>, a) = <<0, 0>>
  BY DEF Size, IsPositive, UnzoomedSize, Flipped
<1>2. CASE i = NoImage
  <2>1. GetSize(i) = <<0, 0>>
    BY <1>2 DEF GetSize
  <2>2. SurfaceSize(img, i) = <<0, 0>>
    BY <1>2 DEF SurfaceSize
  <2> QED BY <1>1, <1>2, <2>1, <2>2
<1>3. CASE i # NoImage
  <2>1. i \in Images
    BY <1>3 DEF ImagesOrNone
  <2>2. PICK s \in (Nat \ {0}) \X (Nat \ {0}) : s = FileOf(i).size
    BY <2>1, FileFields
  <2>3. s \in Size /\ IsPositive(UnzoomedSize(s, a))
    BY DEF Size, IsPositive, UnzoomedSize, Flipped
  <2>4. GetSize(i) = IF image[i].header THEN s ELSE <<0, 0>>
    BY <1>3, <2>2 DEF GetSize
  <2>5. PICK half : half = [k \in 1..2 |-> (s[k] + 1) \div 2]
    OBVIOUS
  <2>6. half \in Size
    <3>1. \A k \in 1..2 : s[k] + 1 \in Nat
      OBVIOUS
    <3>2. \A k \in 1..2 : (s[k] + 1) \div 2 \in Nat
      BY <3>1, DivNat
    <3> QED BY <2>5, <3>2 DEF Size
  <2>7. SurfaceSize(img, i) \in {<<0, 0>>, half, s}
    BY <1>3, <2>2, <2>5 DEF SurfaceSize
  <2>8. SurfaceSize(img, i) \in Size
    BY <1>1, <2>3, <2>6, <2>7
  <2>9. CASE image[i].header
    BY <1>3, <2>3, <2>4, <2>8, <2>9
  <2>10. CASE ~image[i].header
    BY <1>1, <1>3, <2>4, <2>8, <2>10
  <2> QED BY <2>9, <2>10
<1> QED BY <1>2, <1>3

\* What PerformOnSize leaves of a view, and the zoom it gives the picture.
LEMMA PerformOnSizeType ==
    ASSUME start \in Starts, NEW img, NEW i \in ImagesOrNone, NEW props \in PropsType,
           NEW v \in ViewType, NEW size \in Size, PerformOnSize(img, i, props, v, size)
    PROVE  /\ view' \in ViewType
           /\ m_props' \in PropsType
           /\ m_props'.MetaAngle = props.MetaAngle
           /\ m_props'.RequestedAngle = props.RequestedAngle
<1> DEFINE turn == Angle(props)
           picture == UnzoomedSize(GetSize(i), turn)
           surface == UnzoomedSize(SurfaceSize(img, i), turn)
           r == CalculateViewAreaSize(v.zoom, start.behaviour, size, surface, picture)
           zoomed == ZoomedSize(i, props, r.ZoomImage)
           constrained == ResizeConstraints(v.pan, zoomed)
           sized == ResizeViewport(constrained, r.ZoomedSize)
<1>1. picture \in Size /\ surface \in Size
  BY SizeTypes, UnzoomedType
<1>2. v.zoom \in ZoomType /\ v.pan \in PanType
  BY DEF ViewType
<1>3. /\ r.zoom \in ZoomType /\ r.ZoomedSize \in Size
      /\ r.ZoomImage \in Factor /\ r.ZoomSurface \in Factor
  <2> HIDE DEF picture, surface
  <2> QED BY <1>1, <1>2, CalculateType
<1>4. zoomed = Scaled(picture, r.ZoomImage)
  BY DEF ZoomedSize
<1>5. zoomed \in Size
  <2> HIDE DEF r, picture, zoomed
  <2> QED BY <1>1, <1>3, <1>4, ScaledType
<1>6. constrained \in PanType
  <2> HIDE DEF zoomed
  <2> QED BY <1>2, <1>5, PanOperations
<1>7. sized \in PanType
  <2> HIDE DEF r, constrained
  <2> QED BY <1>3, <1>6, PanOperations
<1>8. /\ view' = [pan |-> sized, zoom |-> r.zoom, imageZoom |-> r.ZoomImage]
      /\ m_props' = [props EXCEPT !.Zoom = r.ZoomSurface]
  BY DEF PerformOnSize
<1> HIDE DEF r, sized
<1> QED BY <1>3, <1>7, <1>8 DEF ViewType, PropsType

\* Images are records, and a header stays read.
ImagesOK(img) == DOMAIN img = Images /\ \A i \in Images : HasHeader(img[i])

HeadersStay(img, changed) ==
    ImagesOK(changed) /\ \A i \in Images : img[i].header => changed[i].header

\* A change of other fields of one image.
LEMMA OneImageChanges ==
    ASSUME NEW img, ImagesOK(img), NEW i \in Images, NEW r, HasHeader(r),
           img[i].header => r.header
    PROVE  HeadersStay(img, [img EXCEPT ![i] = r])
BY DEF ImagesOK, HeadersStay

\* A new composer is another field.
LEMMA ComposerChanges ==
    ASSUME NEW img, ImagesOK(img), NEW i \in Images, NEW c
    PROVE  HeadersStay(img, [img EXCEPT ![i].composer = c])
<1>1. PICK r : r = [img[i] EXCEPT !.composer = c]
  OBVIOUS
<1>2. HasHeader(r) /\ r.header = img[i].header
  BY <1>1 DEF HasHeader, ImagesOK
<1>3. [img EXCEPT ![i].composer = c] = [img EXCEPT ![i] = r]
  BY <1>1
<1> QED BY <1>2, <1>3, OneImageChanges

\* So for the calls that compose a surface.
LEMMA ComposingKeepsHeaders ==
    ASSUME NEW img, ImagesOK(img), NEW i \in ImagesOrNone
    PROVE  /\ HeadersStay(img, img)
           /\ HeadersStay(img, CurrentSurface(img, i))
           /\ i # NoImage => HeadersStay(img, RestartAnimation(img, i))
<1>1. HeadersStay(img, img)
  BY DEF HeadersStay
<1>2. i # NoImage => HeadersStay(img, CurrentSurface(img, i)) /\ HeadersStay(img, RestartAnimation(img, i))
  <2> SUFFICES ASSUME i # NoImage
               PROVE  HeadersStay(img, CurrentSurface(img, i)) /\ HeadersStay(img, RestartAnimation(img, i))
    OBVIOUS
  <2>1. i \in Images
    BY DEF ImagesOrNone
  <2>2. PICK c, d : c = RequestCurrentSurface(img[i].composer, FramesOf(i)) /\ d = OnRestart(img[i].composer, FramesOf(i))
    OBVIOUS
  <2>3. CurrentSurface(img, i) \in {img, [img EXCEPT ![i].composer = c]}
    BY <2>2 DEF CurrentSurface
  <2>4. RestartAnimation(img, i) \in {img, [img EXCEPT ![i].composer = d]}
    BY <2>2 DEF RestartAnimation
  <2> QED BY <1>1, <2>1, <2>3, <2>4, ComposerChanges
<1>3. i = NoImage => CurrentSurface(img, i) = img
  BY DEF CurrentSurface
<1> QED BY <1>1, <1>2, <1>3

\* ViewPort::Image.
LEMMA ImageType ==
    ASSUME TypesOK, NEW i \in ImagesOrNone, Image(i)
    PROVE  /\ HeadersStay(image, image')
           /\ m_image' = i /\ view' \in ViewType /\ m_props' \in PropsType
           /\ area' = area /\ angle' = angle
           /\ \E img : img = image' /\ \E props \in PropsType, v \in ViewType :
                /\ PerformOnSize(img, i, props, v, area)
                /\ v.zoom = view.zoom
<1> DEFINE surfaced == CurrentSurface(image, i)
           shownImages == IF i # m_image /\ i # NoImage THEN RestartAnimation(surfaced, i) ELSE surfaced
           pan == IF i = NoImage THEN view.pan ELSE ImagePan(i, i # m_image)
           props == IF i = NoImage THEN m_props ELSE [m_props EXCEPT !.MetaAngle = MetaOf(i)]
           v == [view EXCEPT !.pan = pan]
<1>1. /\ m_image' = i /\ image' = shownImages /\ area' = area /\ angle' = angle
      /\ PerformOnSize(shownImages, i, props, v, area)
  BY DEF Image
<1>2. HeadersStay(image, surfaced) /\ ImagesOK(surfaced)
  BY ComposingKeepsHeaders DEF TypesOK, ImagesOK, HeadersStay
<1>3. HeadersStay(image, shownImages)
  <2> HIDE DEF surfaced
  <2>1. HeadersStay(surfaced, shownImages)
    BY <1>2, ComposingKeepsHeaders
  <2> HIDE DEF shownImages
  <2> QED BY <1>2, <2>1 DEF HeadersStay
<1>4. start \in Starts /\ view \in ViewType /\ view.pan \in PanType /\ area \in Size /\ m_props \in PropsType
  BY DEF TypesOK, ViewType
<1>5. pan \in PanType
  <2>1. GetSize(i) \in Size /\ UnzoomedSize(area, angle) \in Size
    BY <1>4, SizeTypes, UnzoomedType
  <2>2. ResizeConstraints(view.pan, GetSize(i)) \in PanType
    BY <1>4, <2>1, PanOperations
  <2>3. PICK p \in PanType : p = ResizeViewport(ResizeConstraints(view.pan, GetSize(i)), UnzoomedSize(area, angle))
    BY <2>1, <2>2, PanOperations
  <2>4. Reset(p) \in PanType
    BY <2>1, PanOperations
  <2>5. ImagePan(i, i # m_image) \in {p, Reset(p)}
    BY <2>3 DEF ImagePan
  <2> QED BY <1>4, <2>4, <2>5
<1>6. props \in PropsType
  <2>1. i # NoImage => MetaOf(i) \in RotationAngle
    <3>1. i # NoImage => FileOf(i).orientation \in 1..8
      BY <1>4, FileFields DEF ImagesOrNone
    <3>2. \A o \in 1..8 : MetaAngle[o] \in RotationAngle
      BY DEF MetaAngle, RotationAngle
    <3>3. "Default" \in RotationAngle
      BY DEF RotationAngle
    <3> QED BY <3>1, <3>2, <3>3 DEF MetaOf
  <2> QED BY <1>4, <2>1 DEF PropsType
<1>7. v \in ViewType /\ v.zoom = view.zoom
  <2> HIDE DEF pan
  <2> QED BY <1>4, <1>5 DEF ViewType
<1>8. view' \in ViewType /\ m_props' \in PropsType
  <2> HIDE DEF shownImages, props, v
  <2> QED BY <1>1, <1>4, <1>6, <1>7, PerformOnSizeType
<1> HIDE DEF shownImages, props, v
<1> QED BY <1>1, <1>3, <1>6, <1>7, <1>8

-----------------------------------------------------------------------------
(* The zoom of the picture, and the level a step starts from.              *)

\* A factor is between the level and the next one, as far as there are such.
Brackets(level, factor) ==
    /\ level = 1 \/ LessEq(ZoomLevels[level], factor)
    /\ level = Len(ZoomLevels) \/ Less(factor, ZoomLevels[level + 1])

\* How the zoom of a picture and the strategy's state go together: a fit is the
\* last one, a free zoom is near its level.
ZoomGoesWith(zoom, factor) ==
    /\ zoom.mode = "FitImage" => factor = zoom.lastFit
    /\ zoom.mode = "FullSize" => factor = One
    /\ zoom.mode = "Free" => Brackets(zoom.level, factor)

ZoomOK == view.imageZoom # None => ZoomGoesWith(view.zoom, view.imageZoom)

\* The levels are factors, each less than the next.
LEMMA Levels ==
    /\ Len(ZoomLevels) \in Nat /\ Len(ZoomLevels) > 1
    /\ DOMAIN ZoomLevels = 1..Len(ZoomLevels)
    /\ \A k \in 1..Len(ZoomLevels) : ZoomLevels[k] \in (Nat \ {0}) \X (Nat \ {0})
    /\ \A k \in 1..Len(ZoomLevels) : k + 1 <= Len(ZoomLevels) => Less(ZoomLevels[k], ZoomLevels[k + 1])
    /\ DefaultZoomLevel \in 1..Len(ZoomLevels) /\ ZoomLevels[DefaultZoomLevel] = One
<1>1. ZoomLevels \in Seq((Nat \ {0}) \X (Nat \ {0}))
  BY ZoomAssumption
<1>2. Len(ZoomLevels) \in Nat /\ DOMAIN ZoomLevels = 1..Len(ZoomLevels)
  BY <1>1, LenProperties
<1>3. \A k \in 1..Len(ZoomLevels) : ZoomLevels[k] \in (Nat \ {0}) \X (Nat \ {0})
  BY <1>1, ElementOfSeq
<1>4. ASSUME NEW k \in 1..Len(ZoomLevels), k + 1 <= Len(ZoomLevels)
      PROVE  Less(ZoomLevels[k], ZoomLevels[k + 1])
  <2>1. k \in 1..(Len(ZoomLevels) - 1)
    BY <1>2, <1>4
  <2> QED BY <2>1, ZoomAssumption
<1> QED BY <1>2, <1>3, <1>4, ZoomAssumption

\* Between two fractions one of which is less.
LEMMA FactorsCompare ==
    ASSUME NEW a \in Factor, NEW b \in Factor
    PROVE  Less(a, b) <=> ~LessEq(b, a)
<1>1. PICK x \in Nat, y \in Nat : x = a[1] * b[2] /\ y = b[1] * a[2]
  BY DEF Factor
<1> QED BY <1>1 DEF Less, LessEq

\* Multiplying by a positive number keeps an order.
LEMMA TimesKeepsOrder ==
    ASSUME NEW x \in Nat, NEW y \in Nat, NEW k \in Nat \ {0}
    PROVE  (x < y <=> x * k < y * k) /\ (x <= y <=> x * k <= y * k)
  BY SMT

\* Less, then no more: less.
LEMMA LessTransitive ==
    ASSUME NEW a \in Factor, NEW b \in Factor, NEW c \in Factor,
           Less(a, b), LessEq(b, c)
    PROVE  Less(a, c)
<1>1. PICK p \in Nat, q \in Nat \ {0}, r \in Nat, s \in Nat \ {0}, t \in Nat, u \in Nat \ {0} :
         /\ p = a[1] /\ q = a[2] /\ r = b[1] /\ s = b[2] /\ t = c[1] /\ u = c[2]
  BY DEF Factor
<1>2. p * s < r * q /\ r * u <= t * s
  BY <1>1 DEF Less, LessEq
<1>3. /\ p * s \in Nat /\ r * q \in Nat /\ r * u \in Nat /\ t * s \in Nat
      /\ p * u \in Nat /\ t * q \in Nat
  OBVIOUS
<1>4. (p * s) * u < (r * q) * u
  BY <1>2, <1>3, TimesKeepsOrder
<1>5. (r * u) * q <= (t * s) * q
  BY <1>2, <1>3, TimesKeepsOrder
<1>6. (p * s) * u = (p * u) * s /\ (r * q) * u = (r * u) * q /\ (t * s) * q = (t * q) * s
  OBVIOUS
<1>7. (p * u) * s < (t * q) * s
  <2>1. PICK x1 \in Nat, x2 \in Nat, x3 \in Nat :
           x1 = (p * s) * u /\ x2 = (r * q) * u /\ x3 = (t * s) * q
    BY <1>3
  <2>2. x1 < x2 /\ x2 <= x3
    BY <1>4, <1>5, <1>6, <2>1
  <2>3. x1 < x3
    BY <2>2
  <2> QED BY <1>6, <2>1, <2>3
<1>8. p * u < t * q
  BY <1>3, <1>7, TimesKeepsOrder
<1> QED BY <1>1, <1>8 DEF Less

\* The level found for a fit is the one just below it.
LEMMA FindLevelBrackets ==
    ASSUME NEW zoom \in ZoomType
    PROVE  FindLevel(zoom) \in 1..Len(ZoomLevels) /\ Brackets(FindLevel(zoom), zoom.lastFit)
<1> DEFINE n == Len(ZoomLevels)
           f == zoom.lastFit
           Below(j) == LessEq(ZoomLevels[j], f)
           Found(k) == (k = 1 \/ Below(k)) /\ \A j \in 1..n : Below(j) => j <= k
           S == {m \in Nat : \A j \in 1..n : Below(j) => j <= m}
<1>1. n \in Nat /\ n > 1 /\ DOMAIN ZoomLevels = 1..n
  BY Levels
<1> HIDE DEF n, Below
<1>2. n \in S
  BY <1>1
<1>3. PICK m \in S : \A k \in S : <<k, m>> \notin OpToRel(<, Nat)
  <2>1. S \subseteq Nat /\ S # {}
    BY <1>2
  <2> HIDE DEF S
  <2> QED BY <2>1, WFMin, NatLessThanWellFounded
<1>4. ASSUME NEW k \in S PROVE m <= k
  <2>1. <<k, m>> \in Nat \X Nat /\ <<k, m>>[1] = k /\ <<k, m>>[2] = m
    OBVIOUS
  <2>2. ~(k < m)
    BY <1>3, <2>1 DEF OpToRel
  <2> QED BY <2>2
<1>5. m \in Nat /\ m <= n /\ \A j \in 1..n : Below(j) => j <= m
  BY <1>2, <1>4
<1>6. \E k \in 1..n : Found(k)
  <2>1. CASE m <= 1
    BY <1>1, <1>5, <2>1
  <2>2. CASE m > 1
    <3>1. m - 1 \in Nat /\ m - 1 \notin S
      BY <1>4, <1>5, <2>2
    <3>2. PICK j \in 1..n : Below(j) /\ ~(j <= m - 1)
      BY <3>1
    <3>3. j = m
      BY <1>5, <3>2
    <3>4. Below(m) /\ m \in 1..n
      BY <3>2, <3>3
    <3> QED BY <1>5, <3>4
  <2> QED BY <1>5, <2>1, <2>2
<1>7. FindLevel(zoom) \in 1..n /\ Found(FindLevel(zoom))
  <2>1. FindLevel(zoom) = CHOOSE k \in 1..n : Found(k)
    BY <1>1 DEF FindLevel, Below
  <2> HIDE DEF Found
  <2> QED BY <1>6, <2>1
<1>8. PICK k \in 1..n : k = FindLevel(zoom)
  BY <1>7
<1>9. k = 1 \/ Below(k)
  BY <1>7, <1>8
<1>10. k = n \/ Less(f, ZoomLevels[k + 1])
  <2> SUFFICES ASSUME k # n PROVE Less(f, ZoomLevels[k + 1])
    OBVIOUS
  <2>1. k + 1 \in 1..n
    BY <1>1
  <2>2. ~Below(k + 1)
    BY <1>7, <1>8, <2>1
  <2>3. ZoomLevels[k + 1] \in Factor /\ f \in Factor
    BY <2>1, Levels DEF n, Factor, ZoomType
  <2> QED BY <2>2, <2>3, FactorsCompare DEF Below
<1> QED BY <1>8, <1>9, <1>10 DEF Brackets, n, Below

\* A step starts from the level the picture's zoom is at, or just above.
LEMMA BaseLevelBrackets ==
    ASSUME NEW zoom \in ZoomType, NEW factor \in Factor, ZoomGoesWith(zoom, factor)
    PROVE  BaseLevel(zoom) \in 1..Len(ZoomLevels) /\ Brackets(BaseLevel(zoom), factor)
<1>1. zoom.mode \in {"FitImage", "FullSize", "Free"} /\ zoom.level \in 1..Len(ZoomLevels)
  BY Levels DEF ZoomType, ZoomMode
<1>2. CASE zoom.mode = "FitImage"
  <2>1. BaseLevel(zoom) = FindLevel(zoom)
    BY <1>2 DEF BaseLevel
  <2> QED BY <1>2, <2>1, FindLevelBrackets DEF ZoomGoesWith
<1>3. CASE zoom.mode = "FullSize"
  <2>1. BaseLevel(zoom) = DefaultZoomLevel
    BY <1>3 DEF BaseLevel
  <2>2. factor = ZoomLevels[DefaultZoomLevel]
    BY <1>3, Levels DEF ZoomGoesWith
  <2>3. LessEq(One, One)
    BY DEF LessEq, One
  <2>4. DefaultZoomLevel = Len(ZoomLevels)
           \/ Less(ZoomLevels[DefaultZoomLevel], ZoomLevels[DefaultZoomLevel + 1])
    BY Levels
  <2> QED BY <2>1, <2>2, <2>3, <2>4, Levels DEF Brackets
<1>4. CASE zoom.mode = "Free"
  <2>1. BaseLevel(zoom) = zoom.level
    BY <1>4 DEF BaseLevel
  <2> QED BY <1>1, <1>4, <2>1 DEF ZoomGoesWith
<1> QED BY <1>1, <1>2, <1>3, <1>4

\* The four things that can come of a step.
LEMMA StepFromBase ==
    ASSUME NEW b \in 1..Len(ZoomLevels), NEW factor \in Factor, Brackets(b, factor)
    PROVE  /\ b < Len(ZoomLevels) => /\ b + 1 \in 1..Len(ZoomLevels)
                                     /\ Less(factor, ZoomLevels[b + 1])
           /\ b = Len(ZoomLevels) => LessEq(ZoomLevels[Len(ZoomLevels)], factor)
           /\ b > 1 => b - 1 \in 1..Len(ZoomLevels) /\ Less(ZoomLevels[b - 1], factor)
           /\ b = 1 => Less(factor, ZoomLevels[2])
<1> DEFINE n == Len(ZoomLevels)
<1>0. n \in Nat /\ n > 1 /\ b \in 1..n
  BY Levels
<1>1. /\ b < n => b + 1 \in 1..n /\ Less(factor, ZoomLevels[b + 1])
      /\ b = 1 => Less(factor, ZoomLevels[2])
      /\ b = n => LessEq(ZoomLevels[n], factor)
  <2>1. /\ b = 1 \/ LessEq(ZoomLevels[b], factor)
        /\ b = n \/ Less(factor, ZoomLevels[b + 1])
    BY DEF Brackets
  <2> HIDE DEF n
  <2>2. b < n => b + 1 \in 1..n /\ b # n
    BY <1>0
  <2>3. b = 1 => b # n /\ b + 1 = 2
    BY <1>0
  <2>4. b = n => b # 1
    BY <1>0
  <2> QED BY <2>1, <2>2, <2>3, <2>4
<1>2. ASSUME b > 1 PROVE b - 1 \in 1..Len(ZoomLevels) /\ Less(ZoomLevels[b - 1], factor)
  <2>1. PICK c \in 1..Len(ZoomLevels) : c = b - 1 /\ c + 1 = b
    BY <1>2, Levels
  <2>2. Less(ZoomLevels[c], ZoomLevels[b]) /\ LessEq(ZoomLevels[b], factor)
    <3>1. c + 1 <= Len(ZoomLevels)
      BY <1>0, <2>1
    <3>2. Less(ZoomLevels[c], ZoomLevels[c + 1])
      BY <3>1, Levels
    <3>3. b # 1
      BY <1>2
    <3> QED BY <2>1, <3>2, <3>3 DEF Brackets
  <2>3. ZoomLevels[c] \in Factor /\ ZoomLevels[b] \in Factor
    BY Levels DEF Factor
  <2> QED BY <2>1, <2>2, <2>3, LessTransitive
<1> QED BY <1>1, <1>2

\* What PerformOnSize makes of the zoom.
LEMMA PerformOnSizeZoom ==
    ASSUME start \in Starts, NEW img, NEW i \in ImagesOrNone, NEW props \in PropsType,
           NEW v \in ViewType, NEW size \in Size, PerformOnSize(img, i, props, v, size)
    PROVE  /\ view' \in ViewType
           /\ view'.imageZoom # None => i # NoImage /\ image[i].header
           /\ view'.imageZoom # None => ZoomGoesWith(view'.zoom, view'.imageZoom)
           /\ i # NoImage /\ image[i].header /\ v.zoom.mode = "Free" =>
                 view'.imageZoom = ZoomLevels[v.zoom.level]
<1> DEFINE turn == Angle(props)
           picture == UnzoomedSize(GetSize(i), turn)
           surface == UnzoomedSize(SurfaceSize(img, i), turn)
           r == CalculateViewAreaSize(v.zoom, start.behaviour, size, surface, picture)
<1>1. view' \in ViewType
  BY PerformOnSizeType
<1>2. view'.zoom = r.zoom /\ view'.imageZoom = r.ZoomImage
  BY DEF PerformOnSize
<1>3. IsPositive(picture) <=> (i # NoImage /\ image[i].header)
  BY SizeTypes
<1>4. PICK zoom \in ZoomType : zoom = v.zoom
  BY DEF ViewType
<1>5. CASE ~IsPositive(picture)
  <2>1. r.ZoomImage = None
    BY <1>5 DEF CalculateViewAreaSize
  <2> HIDE DEF r, picture
  <2> QED BY <1>1, <1>2, <1>3, <1>5, <2>1
<1>6. CASE IsPositive(picture)
  <2> DEFINE fits == zoom.mode = "FitImage"
             factor == IF fits THEN FitScale(size, picture, start.behaviour)
                       ELSE NonDynamicZoomLevel(zoom)
  <2>1. /\ r.ZoomImage = factor
        /\ r.zoom = IF fits THEN [zoom EXCEPT !.lastFit = factor] ELSE zoom
    BY <1>4, <1>6 DEF CalculateViewAreaSize
  <2> HIDE DEF r, factor
  <2>2. CASE zoom.mode = "FitImage"
    <3>1. r.zoom.lastFit = factor /\ r.zoom.mode = "FitImage"
      BY <2>1, <2>2 DEF ZoomType
    <3> QED BY <1>1, <1>2, <1>3, <1>4, <1>6, <2>1, <2>2, <3>1 DEF ZoomGoesWith
  <2>3. CASE zoom.mode = "FullSize"
    <3>1. factor = One /\ r.zoom.mode = "FullSize"
      BY <2>1, <2>3 DEF factor, NonDynamicZoomLevel
    <3> QED BY <1>1, <1>2, <1>3, <1>4, <1>6, <2>1, <2>3, <3>1 DEF ZoomGoesWith
  <2>4. CASE zoom.mode = "Free"
    <3>1. factor = ZoomLevels[zoom.level] /\ r.zoom = zoom
      BY <2>1, <2>4 DEF factor, NonDynamicZoomLevel
    <3>2. Brackets(zoom.level, ZoomLevels[zoom.level])
      <4>1. PICK l \in 1..Len(ZoomLevels) : l = zoom.level
        BY Levels DEF ZoomType
      <4>2. l = Len(ZoomLevels) \/ l + 1 <= Len(ZoomLevels)
        BY Levels
      <4>3. l = Len(ZoomLevels) \/ Less(ZoomLevels[l], ZoomLevels[l + 1])
        BY <4>2, Levels
      <4>4. LessEq(ZoomLevels[l], ZoomLevels[l])
        <5>1. PICK x \in Nat, y \in Nat : x = ZoomLevels[l][1] /\ y = ZoomLevels[l][2]
          BY Levels
        <5>2. x * y \in Nat
          OBVIOUS
        <5> QED BY <5>1, <5>2 DEF LessEq
      <4> QED BY <4>1, <4>3, <4>4 DEF Brackets
    <3> QED BY <1>1, <1>2, <1>3, <1>4, <1>6, <2>1, <2>4, <3>1, <3>2 DEF ZoomGoesWith
  <2> QED BY <2>2, <2>3, <2>4 DEF ZoomType, ZoomMode
<1> QED BY <1>5, <1>6

\* A zoom step, and what becomes of the zoom when it has nowhere to go.
LEMMA StepType ==
    ASSUME NEW zoom \in ZoomType
    PROVE  /\ ZoomIn(zoom).zoom \in ZoomType /\ ZoomOut(zoom).zoom \in ZoomType
           /\ ZoomIn(zoom).zoom.mode = "Free" /\ ZoomOut(zoom).zoom.mode = "Free"
           /\ BaseLevel(zoom) \in 1..Len(ZoomLevels)
           /\ ZoomIn(zoom).zoom.level = IF ZoomIn(zoom).changed THEN BaseLevel(zoom) + 1
                                        ELSE BaseLevel(zoom)
           /\ ZoomOut(zoom).zoom.level = IF ZoomOut(zoom).changed THEN BaseLevel(zoom) - 1
                                         ELSE BaseLevel(zoom)
           /\ ZoomIn(zoom).changed <=> BaseLevel(zoom) < Len(ZoomLevels)
           /\ ZoomOut(zoom).changed <=> BaseLevel(zoom) > 1
<1> DEFINE n == Len(ZoomLevels)
<1>1. n \in Nat /\ n > 1 /\ DOMAIN ZoomLevels = 1..n /\ DefaultZoomLevel \in 1..n
  BY Levels
<1>2. PICK b \in 1..n : b = BaseLevel(zoom)
  <2>1. BaseLevel(zoom) \in {DefaultZoomLevel, FindLevel(zoom), zoom.level}
    BY DEF BaseLevel
  <2>2. zoom.level \in 1..n
    BY <1>1 DEF ZoomType
  <2> QED BY <1>1, <2>1, <2>2, FindLevelBrackets
<1> HIDE DEF n
<1>3. PICK up \in 1..n, down \in 1..n :
         /\ up = Min2(b + 1, n) /\ down = Max2(b - 1, 1)
         /\ up = IF b < n THEN b + 1 ELSE b
         /\ down = IF b > 1 THEN b - 1 ELSE b
  BY <1>1 DEF Min2, Max2
<1>4. /\ ZoomIn(zoom) = [zoom |-> [zoom EXCEPT !.mode = "Free", !.level = up], changed |-> b < n]
      /\ ZoomOut(zoom) = [zoom |-> [zoom EXCEPT !.mode = "Free", !.level = down], changed |-> b > 1]
  BY <1>2, <1>3 DEF ZoomIn, ZoomOut, n
<1>5. ASSUME NEW l \in 1..n
      PROVE  /\ [zoom EXCEPT !.mode = "Free", !.level = l] \in ZoomType
             /\ [zoom EXCEPT !.mode = "Free", !.level = l].mode = "Free"
             /\ [zoom EXCEPT !.mode = "Free", !.level = l].level = l
  BY <1>1 DEF ZoomType, ZoomMode
<1>6. /\ ZoomIn(zoom).zoom \in ZoomType /\ ZoomIn(zoom).zoom.mode = "Free"
      /\ ZoomIn(zoom).zoom.level = up /\ (ZoomIn(zoom).changed <=> b < n)
  <2>1. PICK z : z = [zoom EXCEPT !.mode = "Free", !.level = up]
    OBVIOUS
  <2>2. PICK q : q = (b < n)
    OBVIOUS
  <2>3. ZoomIn(zoom) = [zoom |-> z, changed |-> q]
    BY <1>4, <2>1, <2>2
  <2>4. ZoomIn(zoom).zoom = z /\ ZoomIn(zoom).changed = q
    BY <2>3
  <2>5. z \in ZoomType /\ z.mode = "Free" /\ z.level = up
    BY <1>5, <2>1
  <2>6. ZoomIn(zoom).changed <=> b < n
    BY <2>2, <2>4
  <2> QED BY <2>4, <2>5, <2>6
<1>7. /\ ZoomOut(zoom).zoom \in ZoomType /\ ZoomOut(zoom).zoom.mode = "Free"
      /\ ZoomOut(zoom).zoom.level = down /\ (ZoomOut(zoom).changed <=> b > 1)
  <2>1. PICK z : z = [zoom EXCEPT !.mode = "Free", !.level = down]
    OBVIOUS
  <2>2. PICK q : q = (b > 1)
    OBVIOUS
  <2>3. ZoomOut(zoom) = [zoom |-> z, changed |-> q]
    BY <1>4, <2>1, <2>2
  <2>4. ZoomOut(zoom).zoom = z /\ ZoomOut(zoom).changed = q
    BY <2>3
  <2>5. z \in ZoomType /\ z.mode = "Free" /\ z.level = down
    BY <1>5, <2>1
  <2>6. ZoomOut(zoom).changed <=> b > 1
    BY <2>2, <2>4
  <2> QED BY <2>4, <2>5, <2>6
<1> QED BY <1>2, <1>3, <1>6, <1>7 DEF n

-----------------------------------------------------------------------------
(* The invariant, and the actions.                                         *)

ViewInvariant == TypesOK /\ ScreenOK /\ ShownHasSize /\ ZoomOK

\* What the decoder's steps and the painting of the screen leave alone.
LEMMA ViewIsLeftAlone ==
    ASSUME ViewInvariant, UNCHANGED <<start, m_image, m_props, view, area>>,
           HeadersStay(image, image'), angle' \in RotationAngle, ScreenOK'
    PROVE  ViewInvariant'
<1>1. TypesOK'
  BY DEF ViewInvariant, TypesOK, HeadersStay, ImagesOK
<1>2. ShownHasSize'
  BY DEF ViewInvariant, TypesOK, ShownHasSize, HeadersStay, ImagesOrNone
<1>3. ZoomOK'
  BY DEF ViewInvariant, ZoomOK
<1> QED BY <1>1, <1>2, <1>3 DEF ViewInvariant

\* PerformOnSize for the image that is shown, by a handler that leaves the
\* images alone.
LEMMA PerformOnSizeKeeps ==
    ASSUME ViewInvariant, NEW img, NEW props \in PropsType, NEW v \in ViewType,
           NEW size \in Size, PerformOnSize(img, m_image, props, v, size), area' = size,
           UNCHANGED <<start, image, m_image, angle, screen>>
    PROVE  ViewInvariant'
<1>1. start \in Starts /\ m_image \in ImagesOrNone
  BY DEF ViewInvariant, TypesOK
<1>2. view' \in ViewType /\ m_props' \in PropsType
  BY <1>1, PerformOnSizeType
<1>3. ShownHasSize' /\ ZoomOK'
  BY <1>1, PerformOnSizeZoom DEF ShownHasSize, ZoomOK
<1>4. TypesOK'
  BY <1>2 DEF ViewInvariant, TypesOK
<1>5. ScreenOK'
  BY DEF ViewInvariant, ScreenOK
<1> QED BY <1>3, <1>4, <1>5 DEF ViewInvariant

\* ViewPort::Image.
LEMMA ImageKeeps ==
    ASSUME ViewInvariant, NEW i \in ImagesOrNone, Image(i), UNCHANGED <<start, screen>>
    PROVE  ViewInvariant'
<1>1. TypesOK /\ start \in Starts /\ area \in Size
  BY DEF ViewInvariant, TypesOK
<1>2. /\ HeadersStay(image, image')
      /\ m_image' = i /\ view' \in ViewType /\ m_props' \in PropsType
      /\ area' = area /\ angle' = angle
  BY <1>1, ImageType
<1>3. PICK img : img = image' /\ \E props \in PropsType, v \in ViewType :
                    PerformOnSize(img, i, props, v, area)
  BY <1>1, ImageType
<1>4. PICK props \in PropsType, v \in ViewType : PerformOnSize(img, i, props, v, area)
  BY <1>3
<1>5. /\ view'.imageZoom # None => i # NoImage /\ image[i].header
      /\ view'.imageZoom # None => ZoomGoesWith(view'.zoom, view'.imageZoom)
  BY <1>1, <1>4, PerformOnSizeZoom
<1>6. ShownHasSize' /\ ZoomOK'
  BY <1>2, <1>5 DEF ShownHasSize, ZoomOK, HeadersStay, ImagesOrNone
<1>7. TypesOK'
  BY <1>1, <1>2 DEF TypesOK, HeadersStay, ImagesOK
<1>8. ScreenOK'
  BY DEF ViewInvariant, ScreenOK
<1> QED BY <1>6, <1>7, <1>8 DEF ViewInvariant

\* A zoom step either calculates the view, or leaves the picture as it is.
LEMMA ZoomStepKeeps ==
    ASSUME ViewInvariant, NEW direction \in {"in", "out"}, ZoomStep(direction)
    PROVE  ViewInvariant'
<1> DEFINE step == ZoomStepFrom(direction)
           v == [view EXCEPT !.zoom = step.zoom]
<1>1. /\ view \in ViewType /\ view.zoom \in ZoomType /\ view.imageZoom \in Factor
      /\ m_props \in PropsType /\ area \in Size
  BY DEF ViewInvariant, TypesOK, ViewType
<1>2. PICK zoom \in ZoomType : zoom = view.zoom
  BY <1>1
<1>3. /\ step.zoom \in ZoomType /\ step.zoom.mode = "Free"
      /\ ~step.changed => step.zoom.level = BaseLevel(zoom)
  BY <1>2, StepType DEF ZoomStepFrom
<1>4. /\ IF step.changed THEN PerformOnSize(image, m_image, m_props, v, area)
         ELSE view' = v /\ UNCHANGED <<m_props, invalid>>
      /\ UNCHANGED <<start, image, m_image, area, angle, screen>>
  BY DEF ZoomStep, Act, decoderVars
<1> HIDE DEF step
<1>5. v \in ViewType /\ v.zoom = step.zoom /\ v.imageZoom = view.imageZoom
  BY <1>1, <1>3 DEF ViewType
<1> HIDE DEF v
<1>6. CASE step.changed
  BY <1>1, <1>4, <1>5, <1>6, PerformOnSizeKeeps
<1>7. CASE ~step.changed
  <2>1. view' = v /\ UNCHANGED <<start, image, m_image, area, angle, screen, m_props>>
    BY <1>4, <1>7
  <2>2. TypesOK' /\ ScreenOK' /\ ShownHasSize'
    BY <1>5, <2>1 DEF ViewInvariant, TypesOK, ScreenOK, ShownHasSize
  <2>3. ZoomOK'
    <3> SUFFICES ASSUME view.imageZoom # None
                 PROVE  ZoomGoesWith(step.zoom, view.imageZoom)
      BY <1>5, <2>1 DEF ZoomOK
    <3>1. ZoomGoesWith(zoom, view.imageZoom)
      BY <1>2 DEF ViewInvariant, ZoomOK
    <3>2. Brackets(BaseLevel(zoom), view.imageZoom)
      BY <1>1, <3>1, BaseLevelBrackets
    <3> QED BY <1>3, <1>7, <3>2 DEF ZoomGoesWith
  <2> QED BY <2>2, <2>3 DEF ViewInvariant
<1> QED BY <1>6, <1>7

\* The other actions of the user.
LEMMA UserKeeps ==
    ASSUME ViewInvariant, User
    PROVE  ViewInvariant'
<1>1. /\ view \in ViewType /\ m_props \in PropsType /\ area \in Size
      /\ view.pan \in PanType /\ view.zoom \in ZoomType
  BY DEF ViewInvariant, TypesOK, ViewType
<1>2. ASSUME NEW i \in Images, Show(i) PROVE ViewInvariant'
  BY <1>2, ImageKeeps DEF Show, Act, ImagesOrNone
<1>3. ASSUME NEW requested \in RotationAngle, Rotate(requested) PROVE ViewInvariant'
  <2>1. [m_props EXCEPT !.RequestedAngle = requested] \in PropsType
    BY <1>1 DEF PropsType
  <2>2. /\ PerformOnSize(image, m_image, [m_props EXCEPT !.RequestedAngle = requested], view, area)
        /\ UNCHANGED <<start, image, m_image, area, angle, screen>>
    BY <1>3 DEF Rotate, Act, decoderVars
  <2> QED BY <1>1, <2>1, <2>2, PerformOnSizeKeeps
<1>4. ASSUME NEW mode \in {"FitImage", "FullSize"}, SetZoomMode(mode) PROVE ViewInvariant'
  <2>1. PICK zoom \in ZoomType : zoom = [view.zoom EXCEPT !.mode = mode]
    BY <1>1 DEF ZoomType, ZoomMode
  <2>2. [view EXCEPT !.zoom.mode = mode] = [view EXCEPT !.zoom = zoom]
    BY <2>1
  <2>3. [view EXCEPT !.zoom.mode = mode] \in ViewType
    BY <1>1, <2>2 DEF ViewType
  <2>4. /\ PerformOnSize(image, m_image, m_props, [view EXCEPT !.zoom.mode = mode], area)
        /\ UNCHANGED <<start, image, m_image, area, angle, screen>>
    BY <1>4 DEF SetZoomMode, Act, decoderVars
  <2> QED BY <1>1, <2>3, <2>4, PerformOnSizeKeeps
<1>5. ASSUME NEW distance \in PanSteps, MousePan(distance) \/ KeyPan(distance)
      PROVE  ViewInvariant'
  <2>1. /\ view' = [view EXCEPT !.pan = Pan(@, distance)]
        /\ UNCHANGED <<start, image, m_image, m_props, area, angle, screen>>
    BY <1>5 DEF MousePan, KeyPan, Panned, Act, decoderVars
  <2>2. Pan(view.pan, distance) \in PanType
    BY <1>1, ViewPortAssumption, PanOperations DEF Size
  <2>3. view' \in ViewType /\ view'.zoom = view.zoom /\ view'.imageZoom = view.imageZoom
    BY <1>1, <2>1, <2>2 DEF ViewType
  <2> QED BY <2>1, <2>3 DEF ViewInvariant, TypesOK, ScreenOK, ShownHasSize, ZoomOK
<1>6. ASSUME NEW size \in Areas, Resize(size) PROVE ViewInvariant'
  <2>1. /\ PerformOnSize(image, m_image, m_props, view, size) /\ area' = size
        /\ UNCHANGED <<start, image, m_image, angle, screen>>
    BY <1>6 DEF Resize, Act, decoderVars
  <2>2. size \in Size
    BY ViewPortAssumption DEF Size
  <2> QED BY <1>1, <2>1, <2>2, PerformOnSizeKeeps
<1>7. CASE Expose
  <2>1. UNCHANGED <<start, image, m_image, m_props, view, area, angle, screen>>
    BY <1>7 DEF Expose, Act, decoderVars, viewVars
  <2> QED BY <2>1 DEF ViewInvariant, TypesOK, ScreenOK, ShownHasSize, ZoomOK
<1> QED BY <1>2, <1>3, <1>4, <1>5, <1>6, <1>7, ZoomStepKeeps DEF User, Turn

\* The corner of the view is a place in the picture.
LEMMA TopLeftType ==
    ASSUME NEW pan \in PanType
    PROVE  TopLeft(pan) \in Nat \X Nat
<1>1. ASSUME NEW k \in 1..2
      PROVE  Max2(0, Truncated(pan.center[k] - Half(pan.viewport, k))) \in Nat
  <2>1. pan.center[k] \in Int /\ pan.viewport[k] \in Nat /\ SubPixel \div 2 \in Nat
    BY ViewPanAssumption DEF PanType, Size
  <2>2. pan.center[k] - Half(pan.viewport, k) \in Int
    BY <2>1 DEF Half
  <2>3. Truncated(pan.center[k] - Half(pan.viewport, k)) \in Int
    BY <2>2, TruncatedType
  <2> QED BY <2>3 DEF Max2
<1>2. PICK c : c = [k \in 1..2 |-> Max2(0, Truncated(pan.center[k] - Half(pan.viewport, k)))]
  OBVIOUS
<1>3. c \in Nat \X Nat
  BY <1>1, <1>2
<1> QED BY <1>2, <1>3 DEF TopLeft

\* Painting a picture puts it on the screen as the view has it.
LEMMA PaintRenderKeeps ==
    ASSUME ViewInvariant, PaintRender
    PROVE  ViewInvariant'
<1>1. /\ start \in Starts /\ m_image \in ImagesOrNone /\ view.pan \in PanType
      /\ m_props \in PropsType /\ area \in Size /\ angle \in RotationAngle
  BY DEF ViewInvariant, TypesOK, ViewType
<1>2. Angle(m_props) \in RotationAngle
  BY <1>1, FinalAngleType DEF Angle, PropsType
<1>3. /\ screen' \in {Cleared, Drawn(m_image)} /\ angle' \in {angle, Angle(m_props)}
      /\ UNCHANGED <<start, image, m_image, m_props, view, area>>
  BY DEF PaintRender, decoderVars
<1>4. HeadersStay(image, image')
  BY <1>3 DEF HeadersStay, ViewInvariant, TypesOK, ImagesOK
<1>5. ScreenOK'
  <2>1. CASE screen' = Cleared
    BY <2>1 DEF Cleared, ScreenOK
  <2>2. CASE screen' = Drawn(m_image) /\ screen' # Cleared
    <3>1. PICK size \in Size : size = Scaled(SurfaceSize(image, m_image), m_props.Zoom)
      <4>1. SurfaceSize(image, m_image) \in Size /\ m_props.Zoom \in Factor
        BY <1>1, SizeTypes DEF PropsType
      <4> QED BY <4>1, ScaledType
    <3>2. PICK pan \in Nat \X Nat : pan = TopLeft(view.pan)
      BY <1>1, TopLeftType
    <3>3. PICK turn \in RotationAngle : turn = Angle(m_props)
      BY <1>2
    <3>4. PICK content : content = SurfaceContent(image, m_image)
      OBVIOUS
    <3>5. screen' = [image |-> m_image, content |-> content, zoom |-> m_props.Zoom,
                     size |-> size, pan |-> pan, angle |-> turn, area |-> area]
      BY <2>2, <3>1, <3>2, <3>3, <3>4 DEF Drawn
    <3> QED BY <1>1, <3>5 DEF ScreenOK, Size
  <2> QED BY <1>3, <2>1, <2>2
<1> QED BY <1>1, <1>2, <1>3, <1>4, <1>5, ViewIsLeftAlone

\* The rest of the viewer's thread.
LEMMA ViewerKeeps ==
    ASSUME ViewInvariant, Tick \/ ImageUpdated \/ TickEnd \/ OnImageLoadEvent \/ Paint
    PROVE  ViewInvariant'
<1>1. /\ start \in Starts /\ m_image \in ImagesOrNone /\ angle \in RotationAngle
      /\ ImagesOK(image) /\ ScreenOK
  BY DEF ViewInvariant, TypesOK, ImagesOK
<1>2. CASE Tick
  <2>1. UNCHANGED <<start, m_image, m_props, view, area, angle, screen>>
    BY <1>2 DEF Tick, viewVars
  <2>2. \/ UNCHANGED image
        \/ /\ HasDelayNow(image, m_image)
           /\ image' = [image EXCEPT ![m_image].composer = Advance(@, FramesOf(m_image))]
    BY <1>2 DEF Tick
  <2>3. HeadersStay(image, image')
    <3>1. CASE UNCHANGED image
      BY <1>1, <3>1 DEF HeadersStay, ImagesOK
    <3>2. CASE image' = [image EXCEPT ![m_image].composer = Advance(@, FramesOf(m_image))]
      <4>1. CASE m_image \in Images
        BY <1>1, <3>2, <4>1, ComposerChanges
      <4>2. CASE m_image \notin Images
        <5>1. DOMAIN image' = Images /\ \A i \in Images : image'[i] = image[i]
          BY <1>1, <3>2, <4>2 DEF ImagesOK
        <5> QED BY <1>1, <5>1 DEF HeadersStay, ImagesOK
      <4> QED BY <4>1, <4>2
    <3> QED BY <2>2, <3>1, <3>2
  <2>4. ScreenOK'
    BY <1>1, <2>1 DEF ScreenOK
  <2> QED BY <1>1, <2>1, <2>3, <2>4, ViewIsLeftAlone
<1>3. CASE ImageUpdated
  BY <1>1, <1>3, ImageKeeps DEF ImageUpdated
<1>4. CASE TickEnd \/ OnImageLoadEvent \/ PaintEnd
  <2>1. UNCHANGED <<start, image, m_image, m_props, view, area, angle, screen>>
    BY <1>4 DEF TickEnd, OnImageLoadEvent, PaintEnd, viewVars, decoderVars
  <2> QED BY <2>1 DEF ViewInvariant, TypesOK, ScreenOK, ShownHasSize, ZoomOK
<1>5. CASE PaintBegin
  <2>1. UNCHANGED <<start, m_image, m_props, view, area, angle, screen>>
        /\ image' = CurrentSurface(image, m_image)
    BY <1>5 DEF PaintBegin, viewVars
  <2>2. HeadersStay(image, image')
    BY <1>1, <2>1, ComposingKeepsHeaders
  <2>3. ScreenOK'
    BY <1>1, <2>1 DEF ScreenOK
  <2> QED BY <1>1, <2>1, <2>2, <2>3, ViewIsLeftAlone
<1> QED BY <1>2, <1>3, <1>4, <1>5, PaintRenderKeeps DEF Paint

\* The decoder changes an image, and never takes a header back.
LEMMA DecoderKeeps ==
    ASSUME ViewInvariant, NEW i \in Images, Decoder(i) \/ Deallocate(i)
    PROVE  ViewInvariant'
<1>1. /\ ImagesOK(image) /\ angle \in RotationAngle /\ HasHeader(image[i])
      /\ DOMAIN image = Images
  BY DEF ViewInvariant, TypesOK, ImagesOK
<1>2. UNCHANGED <<start, m_image, m_props, view, area, angle, screen>>
  BY DEF Decoder, Deallocate, LoadHeader, Allocate, DecodePart, DecodeEnd, FinishImage,
         SendDone, Decoded, viewVars, paintVars
<1>3. SUFFICES HeadersStay(image, image')
  <2>1. ScreenOK'
    BY <1>2 DEF ViewInvariant, ScreenOK
  <2> QED BY <1>1, <1>2, <2>1, ViewIsLeftAlone
<1>4. CASE LoadHeader(i)
  <2>1. PICK r : r = IF FileOf(i).broken = "header"
                     THEN [image[i] EXCEPT !.stage = "done", !.finished = TRUE]
                     ELSE [image[i] EXCEPT !.stage = AfterHeader(i), !.header = TRUE,
                                           !.composer = NewComposer(FileOf(i).kind)]
    OBVIOUS
  <2>2. image' = [image EXCEPT ![i] = r]
    BY <1>4, <2>1 DEF LoadHeader, Decoded
  <2>3. HasHeader(r) /\ (image[i].header => r.header)
    BY <1>1, <2>1 DEF HasHeader
  <2> QED BY <1>1, <2>2, <2>3, OneImageChanges
<1>5. CASE Allocate(i)
  <2>1. PICK r : r = [image[i] EXCEPT
          !.stage = Surface(i), !.rows[Surface(i)] = 0,
          !.composer = IF Surface(i) = "fast" THEN UseFastSurface(@, TRUE)
                       ELSE IF FileOf(i).kind = "gif" THEN SendImageData(@) ELSE @]
    OBVIOUS
  <2>2. image' = [image EXCEPT ![i] = r]
    BY <1>5, <2>1 DEF Allocate
  <2>3. HasHeader(r) /\ (image[i].header => r.header)
    BY <1>1, <2>1 DEF HasHeader
  <2> QED BY <1>1, <2>2, <2>3, OneImageChanges
<1>6. CASE DecodePart(i)
  <2>1. PICK r : r = [image[i] EXCEPT !.rows[Surface(i)] = @ + 1,
                        !.composer = IF FileOf(i).kind = "static" THEN @ ELSE FrameFinished(@)]
    OBVIOUS
  <2>2. image' = [image EXCEPT ![i] = r]
    BY <1>6, <2>1 DEF DecodePart, Decoded
  <2>3. HasHeader(r) /\ (image[i].header => r.header)
    BY <1>1, <2>1 DEF HasHeader
  <2> QED BY <1>1, <2>2, <2>3, OneImageChanges
<1>7. CASE DecodeEnd(i)
  <2> DEFINE complete == image[i].rows[Surface(i)] = Parts(i)
             failed == ~complete /\ FileOf(i).broken = "data"
  <2>1. PICK r : r = [image[i] EXCEPT
          !.stage = IF Surface(i) = "fast" THEN (IF failed THEN "fastFailed" ELSE "fastDone")
                    ELSE (IF failed THEN "failed" ELSE "fullDone"),
          !.composer = IF complete /\ FileOf(i).preview /\ Surface(i) = "full"
                       THEN UseFastSurface(@, FALSE) ELSE @]
    OBVIOUS
  <2>2. image' = [image EXCEPT ![i] = r]
    BY <1>7, <2>1 DEF DecodeEnd, Decoded
  <2>3. HasHeader(r) /\ (image[i].header => r.header)
    BY <1>1, <2>1 DEF HasHeader
  <2> QED BY <1>1, <2>2, <2>3, OneImageChanges
<1>8. CASE FinishImage(i)
  <2>1. PICK r : r = [image[i] EXCEPT
          !.finished = TRUE,
          !.stage = CASE @ = "fastDone" -> "fastEvent"
                      [] @ = "fastFailed" -> "allocate"
                      [] @ = "fullDone" -> "event"
                      [] @ = "failed" -> "done"]
    OBVIOUS
  <2>2. image' = [image EXCEPT ![i] = r]
    BY <1>8, <2>1 DEF FinishImage, Decoded
  <2>3. HasHeader(r) /\ (image[i].header => r.header)
    BY <1>1, <2>1 DEF HasHeader
  <2> QED BY <1>1, <2>2, <2>3, OneImageChanges
<1>9. CASE SendDone(i)
  <2>1. PICK r : r = [image[i] EXCEPT !.stage = IF @ = "event" THEN "done" ELSE "allocate"]
    OBVIOUS
  <2>2. image' = [image EXCEPT ![i] = r]
    BY <1>9, <2>1 DEF SendDone
  <2>3. HasHeader(r) /\ (image[i].header => r.header)
    BY <1>1, <2>1 DEF HasHeader
  <2> QED BY <1>1, <2>2, <2>3, OneImageChanges
<1>10. CASE Deallocate(i)
  <2>1. PICK r : r = [LoadingImage EXCEPT !.header = TRUE]
    OBVIOUS
  <2>2. image' = [image EXCEPT ![i] = r]
    BY <1>10, <2>1 DEF Deallocate
  <2>3. HasHeader(r) /\ r.header
    BY <2>1 DEF HasHeader, LoadingImage
  <2> QED BY <1>1, <2>2, <2>3, OneImageChanges
<1> QED BY <1>4, <1>5, <1>6, <1>7, <1>8, <1>9, <1>10 DEF Decoder

\* ViewInvariant holds in every behaviour: every number the view is made of is
\* a size, a place or a factor, and the picture's zoom is the one its mode and
\* level stand for.
THEOREM ViewInvariance == Spec => []ViewInvariant
<1>1. Init => ViewInvariant
  <2> SUFFICES ASSUME Init PROVE ViewInvariant
    OBVIOUS
  <2>1. start \in Starts /\ area = start.area /\ start \in Start
    BY ViewPortAssumption DEF Init
  <2>2. area \in Size /\ angle \in RotationAngle /\ m_image \in ImagesOrNone
    BY <2>1, ViewPortAssumption DEF Start, Init, Size, RotationAngle, ImagesOrNone
  <2>3. None \in Factor /\ One \in Factor
    BY DEF None, One, Factor
  <2>4. m_props \in PropsType
    BY <2>3 DEF Init, PropsType, RotationAngle
  <2>5. view \in ViewType
    <3>1. NoPan \in PanType
      BY DEF NoPan, PanType, Size
    <3>2. InitialZoom \in ZoomType
      BY <2>3, ZoomAssumption DEF InitialZoom, ZoomType, ZoomMode
    <3> QED BY <2>3, <3>1, <3>2 DEF Init, ViewType
  <2>6. DOMAIN image = Images /\ \A i \in Images : HasHeader(image[i])
    <3>1. DOMAIN image = Images
      BY DEF Init
    <3>2. ASSUME NEW i \in Images PROVE HasHeader(image[i])
      <4>1. image[i] = IF i \in start.loaded THEN LoadedImage(start.files[i]) ELSE LoadingImage
        BY DEF Init
      <4>2. HasHeader(LoadingImage)
        BY DEF LoadingImage, HasHeader
      <4>3. HasHeader(LoadedImage(start.files[i]))
        BY DEF LoadedImage, HasHeader
      <4> QED BY <4>1, <4>2, <4>3
    <3> QED BY <3>1, <3>2
  <2>7. TypesOK
    BY <2>1, <2>2, <2>4, <2>5, <2>6 DEF TypesOK
  <2>8. ScreenOK /\ ShownHasSize /\ ZoomOK
    BY DEF Init, ScreenOK, Cleared, ShownHasSize, ZoomOK
  <2> QED BY <2>7, <2>8 DEF ViewInvariant
<1>2. ViewInvariant /\ [Next]_vars => ViewInvariant'
  <2> SUFFICES ASSUME ViewInvariant, [Next]_vars PROVE ViewInvariant'
    OBVIOUS
  <2>1. CASE UNCHANGED vars
    BY <2>1 DEF vars, ViewInvariant, TypesOK, ScreenOK, ShownHasSize, ZoomOK
  <2>2. CASE Next
    BY <2>2, UserKeeps, ViewerKeeps, DecoderKeeps DEF Next
  <2> QED BY <2>1, <2>2
<1> QED BY <1>1, <1>2, PTL DEF Spec

-----------------------------------------------------------------------------
(* What follows.                                                           *)

\* NoCalculationError: the check of ViewPan::Refresh that throws never does.
THEOREM ViewsAreCalculated == Spec => []NoCalculationError
<1>1. ViewInvariant => NoCalculationError
  BY DEF ViewInvariant, TypesOK, ViewType, PanType, NoCalculationError
<1> QED BY <1>1, ViewInvariance, PTL

\* OrientedViewShown: the pan of the renderer and the quads of the tiles put
\* the pixels of the picture where the view wants them.
THEOREM PixelsAreInPlace == Spec => []OrientedViewShown
<1>1. ViewInvariant => OrientedViewShown
  BY PaintedOriented DEF ViewInvariant
<1> QED BY <1>1, ViewInvariance, PTL

\* TurnsCompose: the combined angle turns every pixel as the orientation of the
\* metadata and the one asked for do, one after the other.
THEOREM AnglesCompose == Spec => []TurnsCompose
<1>1. ViewInvariant => TurnsCompose
  <2> SUFFICES ASSUME ViewInvariant, m_image # NoImage
               PROVE  TurnsCompose
    BY DEF TurnsCompose
  <2>1. PICK size \in Int \X Int : size = GetSize(m_image)
    BY SizeTypes DEF ViewInvariant, TypesOK, Size
  <2>2. PICK meta \in RotationAngle, requested \in RotationAngle :
           meta = m_props.MetaAngle /\ requested = m_props.RequestedAngle
    BY DEF ViewInvariant, TypesOK, PropsType
  <2> DEFINE turn == FinalAngle(meta, requested)
             turned == UnzoomedSize(size, meta)
             final == UnzoomedSize(size, turn)
  <2>3. Angle(m_props) = turn
    BY <2>2 DEF Angle
  <2>4. final = UnzoomedSize(turned, requested)
    BY FinalAngleComposes
  <2>5. ASSUME NEW p \in PixelsOf(size)
        PROVE  Turned(p, final, turn) = Turned(Turned(p, turned, meta), final, requested)
    <3>1. p \in Int \X Int
      BY DEF PixelsOf
    <3> QED BY <3>1, FinalAngleComposes
  <2> HIDE DEF turn
  <2> QED BY <2>1, <2>2, <2>3, <2>4, <2>5 DEF TurnsCompose
<1> QED BY <1>1, ViewInvariance, PTL

\* ZoomStepsOneWay: a step in enlarges the picture and a step out reduces it,
\* whatever mode or fit gave it the zoom it has.
THEOREM StepsGoOneWay == Spec => ZoomStepsOneWay
<1>1. ViewInvariant /\ [Next]_vars =>
         [view.imageZoom # None =>
            /\ ZoomStep("in") => \/ Less(view.imageZoom, view'.imageZoom)
                                 \/ LessEq(ZoomLevels[Len(ZoomLevels)], view.imageZoom)
            /\ ZoomStep("out") => \/ Less(view'.imageZoom, view.imageZoom)
                                  \/ Less(view.imageZoom, ZoomLevels[2])]_vars
  <2> SUFFICES ASSUME ViewInvariant, view.imageZoom # None
               PROVE  /\ ZoomStep("in") => \/ Less(view.imageZoom, view'.imageZoom)
                                           \/ LessEq(ZoomLevels[Len(ZoomLevels)], view.imageZoom)
                      /\ ZoomStep("out") => \/ Less(view'.imageZoom, view.imageZoom)
                                            \/ Less(view.imageZoom, ZoomLevels[2])
    OBVIOUS
  <2>1. /\ start \in Starts /\ m_image \in ImagesOrNone /\ m_props \in PropsType
        /\ view \in ViewType /\ area \in Size
        /\ m_image # NoImage /\ image[m_image].header
    BY DEF ViewInvariant, TypesOK, ShownHasSize
  <2>2. PICK zoom \in ZoomType, factor \in Factor : zoom = view.zoom /\ factor = view.imageZoom
    BY <2>1 DEF ViewType
  <2>3. ZoomGoesWith(zoom, factor)
    BY <2>2 DEF ViewInvariant, ZoomOK
  <2>4. PICK b \in 1..Len(ZoomLevels) : b = BaseLevel(zoom) /\ Brackets(b, factor)
    BY <2>3, BaseLevelBrackets
  <2>5. ASSUME NEW direction \in {"in", "out"}, ZoomStep(direction), ZoomStepFrom(direction).changed
        PROVE  view'.imageZoom = ZoomLevels[ZoomStepFrom(direction).zoom.level]
    <3> DEFINE step == ZoomStepFrom(direction)
               v == [view EXCEPT !.zoom = step.zoom]
    <3>1. step.zoom \in ZoomType /\ step.zoom.mode = "Free"
      BY <2>2, StepType DEF ZoomStepFrom
    <3>2. PerformOnSize(image, m_image, m_props, v, area)
      BY <2>5 DEF ZoomStep
    <3> HIDE DEF step
    <3>3. v \in ViewType /\ v.zoom = step.zoom
      BY <2>1, <3>1 DEF ViewType
    <3> HIDE DEF v
    <3>4. view'.imageZoom = ZoomLevels[v.zoom.level]
      BY <2>1, <3>1, <3>2, <3>3, PerformOnSizeZoom
    <3> QED BY <3>3, <3>4 DEF step
  <2>6. ASSUME ZoomStep("in")
        PROVE  \/ Less(factor, view'.imageZoom)
               \/ LessEq(ZoomLevels[Len(ZoomLevels)], factor)
    <3>1. ZoomStepFrom("in") = ZoomIn(zoom)
      BY <2>2 DEF ZoomStepFrom
    <3>2. CASE b < Len(ZoomLevels)
      <4>1. ZoomIn(zoom).changed /\ ZoomIn(zoom).zoom.level = b + 1
        BY <2>4, <3>2, StepType
      <4>2. view'.imageZoom = ZoomLevels[b + 1]
        BY <2>5, <2>6, <3>1, <4>1
      <4>3. Less(factor, ZoomLevels[b + 1])
        BY <2>4, <3>2, StepFromBase
      <4> QED BY <4>2, <4>3
    <3>3. CASE b = Len(ZoomLevels)
      BY <2>4, <3>3, StepFromBase
    <3>4. b < Len(ZoomLevels) \/ b = Len(ZoomLevels)
      <4>1. PICK n \in Nat : n = Len(ZoomLevels)
        BY Levels
      <4> QED BY <4>1
    <3> QED BY <3>2, <3>3, <3>4
  <2>7. ASSUME ZoomStep("out")
        PROVE  \/ Less(view'.imageZoom, factor)
               \/ Less(factor, ZoomLevels[2])
    <3>1. ZoomStepFrom("out") = ZoomOut(zoom)
      BY <2>2 DEF ZoomStepFrom
    <3>2. CASE b > 1
      <4>1. ZoomOut(zoom).changed /\ ZoomOut(zoom).zoom.level = b - 1
        BY <2>4, <3>2, StepType
      <4>2. view'.imageZoom = ZoomLevels[b - 1]
        BY <2>5, <2>7, <3>1, <4>1
      <4> QED BY <2>4, <3>2, <4>2, StepFromBase
    <3>3. CASE b = 1
      BY <2>4, <3>3, StepFromBase
    <3> QED BY <3>2, <3>3, Levels
  <2> QED BY <2>2, <2>6, <2>7
<1> QED BY <1>1, ViewInvariance, PTL DEF Spec, ZoomStepsOneWay

-----------------------------------------------------------------------------
(* The composers. A picture that stands still is settled once its surface  *)
(* was asked for: asking again shows the same.                             *)

ComposerFields ==
    {"kind", "allocated", "frame", "loading", "rendered", "current", "canvas",
     "undisposed", "useFast", "recompose"}

\* The surface a picture that stands still is shown with.
Want(c) == IF c.kind = "static" THEN (IF c.useFast THEN "fast" ELSE "full") ELSE "canvas"

ComposerOK(c) ==
    /\ DOMAIN c = ComposerFields
    /\ c.recompose => c.kind = "static"
    /\ c.kind = "static" /\ c.current # "none" /\ ~c.recompose => c.current = Want(c)
    /\ c.kind # "static" => c.current \in {"none", "canvas"}

\* What no call of the viewer's thread changes.
SameKind(c, d) ==
    /\ DOMAIN d = ComposerFields
    /\ d.kind = c.kind /\ d.allocated = c.allocated /\ d.useFast = c.useFast
    /\ d.loading = c.loading

\* A GIF has a frame at least.
FramesFor(c, frames) == c.kind = "gif" => Len(frames) = 1 \/ Len(frames) > 1

\* Composing a surface.
LEMMA ComposeKeeps ==
    ASSUME NEW c, DOMAIN c = ComposerFields, NEW frames, FramesFor(c, frames)
    PROVE  /\ SameKind(c, Compose(c, frames))
           /\ Compose(c, frames).recompose = c.recompose
           /\ c.kind = "static" => /\ Compose(c, frames).current = Want(c)
                                   /\ Compose(c, frames).canvas = c.canvas
           /\ c.kind \in {"gif", "webp"} =>
                 Compose(c, frames).current \in {c.current, "canvas"}
           /\ c.kind = "gif" /\ c.allocated /\ Len(frames) = 1 =>
                 Compose(c, frames).current = "canvas"
<1>1. CASE c.kind \notin {"gif", "webp"}
  <2>1. Compose(c, frames) = [c EXCEPT !.current = IF c.useFast THEN "fast" ELSE "full"]
    BY <1>1 DEF Compose, ComposeStatic
  <2> QED BY <1>1, <2>1 DEF SameKind, Want, ComposerFields
<1>2. CASE c.kind = "gif"
  <2> DEFINE Changes(d) == /\ SameKind(c, d) /\ d.recompose = c.recompose
                           /\ d.current \in {c.current, "canvas"}
  <2>1. Compose(c, frames) = ComposeGif(c, frames)
    BY <1>2 DEF Compose
  <2>2. Changes(c)
    BY DEF SameKind
  <2>3. PICK p : p = Prepared(c)
    OBVIOUS
  <2>4. Changes(p)
    BY <2>2, <2>3 DEF Prepared, SameKind, ComposerFields
  <2>5. PICK q : q = Disposed(p, frames)
    OBVIOUS
  <2>6. Changes(q)
    <3>1. PICK a, b : q \in {[p EXCEPT !.undisposed = a], [p EXCEPT !.canvas = b]}
      <4>1. \/ Disposed(p, frames) = [p EXCEPT !.undisposed = p.canvas]
            \/ Disposed(p, frames) = [p EXCEPT !.canvas = p.undisposed]
            \/ Disposed(p, frames) = [p EXCEPT !.canvas = FillRect(p.canvas, frames[p.frame])]
        BY DEF Disposed
      <4> QED BY <2>5, <4>1
    <3> QED BY <2>4, <3>1 DEF SameKind, ComposerFields
  <2>7. PICK drawn : drawn = [q EXCEPT !.canvas = Draw(q.canvas, frames[c.frame + 1], c.frame + 1),
                                       !.rendered = TRUE]
    OBVIOUS
  <2>8. Changes(drawn)
    BY <2>6, <2>7 DEF SameKind, ComposerFields
  <2>9. CASE c.allocated /\ Len(frames) = 1
    <3>1. ComposeGif(c, frames) = [c EXCEPT !.current = "canvas"]
      BY <2>9 DEF ComposeGif
    <3> QED
      BY <1>2, <2>1, <2>9, <3>1, ZenonT(60) DEF SameKind, ComposerFields
  <2>10. CASE ~c.allocated
    <3>1. ComposeGif(c, frames) = c
      BY <2>10 DEF ComposeGif
    <3> QED BY <1>2, <2>1, <2>2, <2>10, <3>1
  <2>11. CASE c.allocated /\ Len(frames) > 1 /\ Len(frames) # 1
    <3>1. ComposeGif(c, frames) \in {p, drawn}
      BY <2>3, <2>5, <2>7, <2>11 DEF ComposeGif
    <3> QED BY <1>2, <2>1, <2>4, <2>8, <2>11, <3>1
  <2> QED BY <1>2, <2>9, <2>10, <2>11 DEF FramesFor
<1>3. CASE c.kind = "webp"
  <2>1. Compose(c, frames) = ComposeWebp(c, frames)
    BY <1>3 DEF Compose
  <2>2. PICK canvas : ComposeWebp(c, frames) \in {c, [c EXCEPT !.current = "canvas", !.canvas = canvas]}
    BY DEF ComposeWebp
  <2> QED
    BY <1>3, <2>1, <2>2, ZenonT(60) DEF SameKind, ComposerFields
<1> QED BY <1>1, <1>2, <1>3

\* Going on to the next frame, or to the first.
LEMMA AdvanceKeeps ==
    ASSUME NEW c, DOMAIN c = ComposerFields, NEW frames, NEW d,
           \/ d = OnAdvance(c, frames)
           \/ d = [c EXCEPT !.frame = 0, !.rendered = FALSE]
           \/ d = [c EXCEPT !.frame = 0]
    PROVE  /\ SameKind(c, d) /\ d.recompose = c.recompose
           /\ d.current = c.current /\ d.canvas = c.canvas
<1>1. PICK a, b : d \in {c, [c EXCEPT !.frame = a], [c EXCEPT !.rendered = b, !.frame = a],
                         [c EXCEPT !.frame = a, !.rendered = b]}
  BY DEF OnAdvance, OnAdvanceGif, OnAdvanceWebp
<1> QED BY <1>1 DEF SameKind, ComposerFields

\* The calls of Img::Image keep a composer in order.
LEMMA CallsKeep ==
    ASSUME NEW c, ComposerOK(c), NEW frames, FramesFor(c, frames),
           c.kind \in {"static", "gif", "webp"},
           NEW d, d \in {RequestCurrentSurface(c, frames), OnRestart(c, frames), Advance(c, frames)}
    PROVE  SameKind(c, d) /\ ComposerOK(d)
<1>1. ASSUME NEW e, SameKind(c, e), e.recompose = c.recompose,
             e.current = c.current \/ e.current = "none" \/ e.current = Want(c)
      PROVE  /\ SameKind(c, Compose(e, frames)) /\ ComposerOK(Compose(e, frames))
             /\ FramesFor(e, frames)
  <2>1. PICK g : g = Compose(e, frames)
    OBVIOUS
  <2>2. DOMAIN e = ComposerFields /\ FramesFor(e, frames)
    BY <1>1 DEF SameKind, FramesFor
  <2>3. /\ SameKind(e, g) /\ g.recompose = e.recompose
        /\ e.kind = "static" => g.current = Want(e)
        /\ e.kind \in {"gif", "webp"} => g.current \in {e.current, "canvas"}
    BY <2>1, <2>2, ComposeKeeps
  <2> QED BY <1>1, <2>1, <2>2, <2>3 DEF SameKind, ComposerOK, Want
<1>2. CASE d = RequestCurrentSurface(c, frames)
  <2>1. SameKind(c, c)
    BY DEF SameKind, ComposerOK
  <2>2. PICK g : g = Compose(c, frames)
    OBVIOUS
  <2>3. SameKind(c, g) /\ ComposerOK(g)
    BY <1>1, <2>1, <2>2
  <2>4. CASE c.current = "none"
    BY <1>2, <2>2, <2>3, <2>4 DEF RequestCurrentSurface
  <2>5. CASE c.current # "none"
    <3>1. PICK e : e = IF c.recompose THEN g ELSE c
      OBVIOUS
    <3>2. d = [e EXCEPT !.recompose = FALSE]
      BY <1>2, <2>2, <2>5, <3>1 DEF RequestCurrentSurface
    <3>3. SameKind(c, e) /\ ComposerOK(e)
      BY <2>1, <2>3, <3>1
    <3>4. c.kind = "static" /\ c.recompose => e.current = Want(c)
      BY <2>2, <3>1, ComposeKeeps DEF ComposerOK
    <3>5. c.kind = "static" /\ ~c.recompose => e.current = Want(c)
      BY <2>5, <3>1 DEF ComposerOK
    <3> QED BY <3>2, <3>3, <3>4, <3>5 DEF SameKind, ComposerOK, ComposerFields, Want
  <2> QED BY <2>4, <2>5
<1>3. CASE d = Advance(c, frames)
  <2>1. PICK e : e = OnAdvance(c, frames)
    OBVIOUS
  <2>2. SameKind(c, e) /\ e.recompose = c.recompose /\ e.current = c.current
    BY <2>1, AdvanceKeeps, ZenonT(60) DEF ComposerOK
  <2>3. d = Compose(e, frames)
    BY <1>3, <2>1 DEF Advance
  <2> QED BY <1>1, <2>2, <2>3
<1>4. CASE d = OnRestart(c, frames)
  <2>1. CASE c.kind = "static"
    BY <1>3, <1>4, <2>1 DEF OnRestart
  <2>2. CASE c.kind = "webp"
    <3>1. d = [c EXCEPT !.frame = 0]
      BY <1>4, <2>2 DEF OnRestart
    <3>2. SameKind(c, d) /\ d.recompose = c.recompose /\ d.current = c.current
      BY <3>1, AdvanceKeeps DEF ComposerOK
    <3> QED BY <2>2, <3>2 DEF SameKind, ComposerOK
  <2>3. CASE c.kind = "gif"
    <3>1. PICK e : e = [c EXCEPT !.frame = 0, !.rendered = FALSE]
      OBVIOUS
    <3>2. SameKind(c, e) /\ e.recompose = c.recompose /\ e.current = c.current
      BY <3>1, AdvanceKeeps DEF ComposerOK
    <3>3. d = ComposeGif(e, frames)
      BY <1>4, <2>3, <3>1 DEF OnRestart, OnRestartGif
    <3>4. d = Compose(e, frames)
      BY <2>3, <3>2, <3>3 DEF Compose, SameKind
    <3> QED BY <1>1, <3>2, <3>4
  <2> QED BY <2>1, <2>2, <2>3
<1> QED BY <1>2, <1>3, <1>4

Settled(c) == c.current = Want(c)

\* A picture that stands still, asked for its surface or started again.
LEMMA CallsSettle ==
    ASSUME NEW c, ComposerOK(c), NEW frames, FramesFor(c, frames),
           c.kind \in {"static", "gif", "webp"}, ~HasDelay(c, frames)
    PROVE  Settled(RequestCurrentSurface(c, frames)) /\ Settled(OnRestart(c, frames))
<1>1. c.kind = "static" \/ (c.kind = "gif" /\ c.allocated /\ Len(frames) = 1)
  BY DEF HasDelay, FramesFor
<1>2. ASSUME NEW e, SameKind(c, e)
      PROVE  Compose(e, frames).current = Want(c)
  <2>1. DOMAIN e = ComposerFields /\ FramesFor(e, frames)
    BY <1>2 DEF SameKind, FramesFor
  <2>2. PICK g : g = Compose(e, frames)
    OBVIOUS
  <2>3. /\ e.kind = "static" => g.current = Want(e)
        /\ e.kind = "gif" /\ e.allocated /\ Len(frames) = 1 => g.current = "canvas"
    BY <2>1, <2>2, ComposeKeeps
  <2> QED BY <1>1, <1>2, <2>2, <2>3 DEF SameKind, Want
<1>3. SameKind(c, c)
  BY DEF SameKind, ComposerOK
<1>4. Settled(RequestCurrentSurface(c, frames))
  <2>1. PICK g : g = Compose(c, frames)
    OBVIOUS
  <2>2. g.current = Want(c) /\ SameKind(c, g)
    BY <1>2, <1>3, <2>1, ComposeKeeps DEF ComposerOK
  <2>3. CASE c.current = "none"
    BY <2>1, <2>2, <2>3 DEF RequestCurrentSurface, Settled, Want, SameKind
  <2>4. CASE c.current # "none"
    <3>1. PICK e : e = IF c.recompose THEN g ELSE c
      OBVIOUS
    <3>2. RequestCurrentSurface(c, frames) = [e EXCEPT !.recompose = FALSE]
      BY <2>1, <2>4, <3>1 DEF RequestCurrentSurface
    <3>3. SameKind(c, e) /\ e.current = Want(c)
      BY <1>1, <1>3, <2>2, <2>4, <3>1 DEF ComposerOK, Want
    <3> QED BY <3>2, <3>3 DEF Settled, SameKind, Want, ComposerFields
  <2> QED BY <2>3, <2>4
<1>5. Settled(OnRestart(c, frames))
  <2>1. PICK d : d = OnRestart(c, frames)
    OBVIOUS
  <2>2. SameKind(c, d)
    BY <2>1, CallsKeep
  <2>3. PICK e : SameKind(c, e) /\ d = Compose(e, frames)
    <3>1. CASE c.kind = "static"
      <4>1. SameKind(c, OnAdvance(c, frames))
        BY AdvanceKeeps DEF ComposerOK
      <4> QED BY <2>1, <3>1, <4>1 DEF OnRestart, Advance
    <3>2. CASE c.kind = "gif"
      <4>1. PICK e : e = [c EXCEPT !.frame = 0, !.rendered = FALSE]
        OBVIOUS
      <4>2. SameKind(c, e)
        BY <4>1, AdvanceKeeps DEF ComposerOK
      <4>3. d = ComposeGif(e, frames)
        BY <2>1, <3>2, <4>1 DEF OnRestart, OnRestartGif
      <4> QED BY <3>2, <4>2, <4>3 DEF Compose, SameKind
    <3> QED BY <1>1, <3>1, <3>2
  <2>4. d.current = Want(c)
    BY <1>2, <2>3
  <2> QED BY <2>1, <2>2, <2>4 DEF Settled, Want, SameKind
<1> QED BY <1>4, <1>5

\* Asked for again, a settled picture is what it was.
LEMMA SettledStays ==
    ASSUME NEW c, ComposerOK(c), NEW frames, FramesFor(c, frames),
           c.kind \in {"static", "gif", "webp"}, Settled(c),
           NEW d, d = RequestCurrentSurface(c, frames)
    PROVE  /\ SameKind(c, d) /\ Settled(d)
           /\ d.current = c.current /\ d.canvas = c.canvas
<1>1. c.current # "none"
  BY DEF Settled, Want
<1>2. PICK g : g = Compose(c, frames)
  OBVIOUS
<1>3. PICK e : e = IF c.recompose THEN g ELSE c
  OBVIOUS
<1>4. d = [e EXCEPT !.recompose = FALSE]
  BY <1>1, <1>2, <1>3 DEF RequestCurrentSurface
<1>5. SameKind(c, e) /\ e.current = c.current /\ e.canvas = c.canvas
  <2>1. CASE c.recompose
    BY <1>2, <1>3, <2>1, ComposeKeeps DEF ComposerOK, Settled
  <2>2. CASE ~c.recompose
    BY <1>3, <2>2 DEF ComposerOK, SameKind
  <2> QED BY <2>1, <2>2
<1> QED BY <1>4, <1>5 DEF SameKind, ComposerFields, Settled, Want

-----------------------------------------------------------------------------
(* An image that loads, what there is to see of it, and what was painted.  *)

ImageFields == {"stage", "header", "finished", "composer", "rows"}

\* The stages of a preview; the ones in which the preview is on show.
PreviewStages == {"allocateFast", "fast", "fastDone", "fastFailed"}
OnPreview(r) ==
    \/ r.stage \in {"fast", "fastDone", "fastFailed", "fastEvent"}
    \/ r.stage \in {"allocate", "full", "failed"} /\ r.finished

LoadingOK(file, r) ==
    /\ DOMAIN r = ImageFields /\ ComposerOK(r.composer)
    /\ r.composer.kind \in {"none", file.kind}
    /\ DOMAIN r.rows = {"fast", "full"} /\ r.rows["fast"] \in Int /\ r.rows["full"] \in Int
    /\ r.stage = "fast" => r.rows["fast"] >= 0
    /\ r.stage = "full" => r.rows["full"] >= 0
    /\ r.stage = "header" => ~r.finished
    /\ r.stage \in PreviewStages => ~r.finished
    /\ r.header => file.broken # "header"
    /\ ~r.header => r.stage \in {"header", "done"}
    /\ r.header /\ r.stage # "header" => r.composer.kind = file.kind
    /\ r.stage \in PreviewStages => file.preview
    /\ OnPreview(r) => file.preview /\ r.composer.useFast

\* Whether it moves, and the composer once the surface was asked for.
Moves(file, r) ==
    r.header /\ r.composer.kind # "none" /\ HasDelay(r.composer, file.frames)
Asked(file, r) ==
    IF r.header /\ r.composer.kind # "none" THEN RequestCurrentSurface(r.composer, file.frames)
    ELSE r.composer

\* GetSize, SurfaceSize and SurfaceContent of one image.
PictureSize(file, r) == IF r.header THEN file.size ELSE <<0, 0>>
SizeOf(file, c, rows) ==
    CASE c.current = "none" -> <<0, 0>>
      [] c.current = "fast" -> IF rows["fast"] < 0 THEN <<0, 0>>
                               ELSE [k \in 1..2 |-> (file.size[k] + 1) \div 2]
      [] c.current = "full" -> IF rows["full"] < 0 THEN <<0, 0>> ELSE file.size
      [] OTHER -> file.size
ContentOf(file, c, rows) ==
    IF c.kind = "static" /\ c.current # "none" THEN <<c.current, rows[c.current]>>
    ELSE <<"frame", ShownContent(c, file.frames)>>

\* The zoom of a surface shows it in the size of the picture.
FitsZoom(surface, picture, turn, zoom, imageZoom) ==
    zoom[1] * UnzoomedSize(surface, turn)[1] * imageZoom[2]
        = zoom[2] * UnzoomedSize(picture, turn)[1] * imageZoom[1]

HasRoom(picture, props, v, window) ==
    /\ IsPositive(window)
    /\ IsPositive(Scaled(UnzoomedSize(picture, Angle(props)), v.imageZoom))

\* UpToDate, for a surface of this size and content.
ScreenIs(surface, content, picture, m, props, v, window, panned, s) ==
    IF IsPositive(surface) /\ HasRoom(picture, props, v, window)
    THEN /\ s.image = m
         /\ s.content = content
         /\ FitsZoom(surface, picture, Angle(props), s.zoom, v.imageZoom)
         /\ s.angle = Angle(props)
         /\ s.area = window
         /\ ~panned => s.pan = TopLeft(v.pan)
    ELSE s = Cleared

\* The image that is shown.
Shown == image[m_image]
ShownFile == FileOf(m_image)
Moving == Moves(ShownFile, Shown)
Due == \E k \in DOMAIN events : events[k].image = m_image
Settles == Settled(Shown.composer)
ZoomFits ==
    LET surface == SizeOf(ShownFile, Shown.composer, Shown.rows)
    IN  IsPositive(surface) =>
            FitsZoom(surface, PictureSize(ShownFile, Shown), Angle(m_props), m_props.Zoom, view.imageZoom)
Room == HasRoom(PictureSize(ShownFile, Shown), m_props, view, area)
Current ==
    LET c == Asked(ShownFile, Shown)
    IN  ScreenIs(SizeOf(ShownFile, c, Shown.rows), ContentOf(ShownFile, c, Shown.rows),
                 PictureSize(ShownFile, Shown), m_image, m_props, view, area, keyPanned, screen)

\* The model's operators, for an image of the program.
LEMMA Reading ==
    ASSUME NEW img, DOMAIN img = Images, NEW i \in Images
    PROVE  /\ HasDelayNow(img, i) <=> Moves(FileOf(i), img[i])
           /\ \/ CurrentSurface(img, i) = [img EXCEPT ![i] = [@ EXCEPT !.composer = Asked(FileOf(i), img[i])]]
              \/ CurrentSurface(img, i) = img /\ Asked(FileOf(i), img[i]) = img[i].composer
           /\ SurfaceSize(img, i) = SizeOf(FileOf(i), img[i].composer, img[i].rows)
           /\ SurfaceContent(img, i) = ContentOf(FileOf(i), img[i].composer, img[i].rows)
           /\ GetSize(i) = PictureSize(FileOf(i), image[i])
<1>1. i # NoImage
  BY ViewPortAssumption
<1>2. HasDelayNow(img, i) <=> Moves(FileOf(i), img[i])
  BY DEF HasDelayNow, Moves, FramesOf
<1>3. \/ CurrentSurface(img, i) = [img EXCEPT ![i] = [@ EXCEPT !.composer = Asked(FileOf(i), img[i])]]
      \/ CurrentSurface(img, i) = img /\ Asked(FileOf(i), img[i]) = img[i].composer
  BY <1>1 DEF CurrentSurface, Asked, FramesOf
<1>4. SurfaceSize(img, i) = SizeOf(FileOf(i), img[i].composer, img[i].rows)
  BY <1>1 DEF SurfaceSize, SizeOf
<1>5. SurfaceContent(img, i) = ContentOf(FileOf(i), img[i].composer, img[i].rows)
  BY DEF SurfaceContent, ContentOf, FramesOf
<1>6. GetSize(i) = PictureSize(FileOf(i), image[i])
  BY <1>1 DEF GetSize, PictureSize
<1> QED BY <1>2, <1>3, <1>4, <1>5, <1>6

\* UpToDate, read off the image that is shown.
LEMMA ReadsUpToDate ==
    ASSUME DOMAIN image = Images, m_image \in Images, DOMAIN Shown = ImageFields
    PROVE  UpToDate <=> Current
<1> DEFINE surfaced == CurrentSurface(image, m_image)
           c == Asked(ShownFile, Shown)
<1>1. DOMAIN surfaced = Images /\ surfaced[m_image].composer = c /\ surfaced[m_image].rows = Shown.rows
  <2>1. PICK a : a = c
    OBVIOUS
  <2>2. surfaced = [image EXCEPT ![m_image] = [@ EXCEPT !.composer = a]] \/ (surfaced = image /\ a = Shown.composer)
    BY <2>1, Reading DEF ShownFile, Shown
  <2> HIDE DEF surfaced, c
  <2> QED BY <2>1, <2>2 DEF ImageFields, Shown
<1>2. PICK size, content, picture :
         /\ size = SurfaceSize(surfaced, m_image) /\ content = SurfaceContent(surfaced, m_image)
         /\ picture = GetSize(m_image)
  OBVIOUS
<1>3. /\ size = SizeOf(ShownFile, c, Shown.rows) /\ content = ContentOf(ShownFile, c, Shown.rows)
      /\ picture = PictureSize(ShownFile, Shown)
  <2> HIDE DEF surfaced, c
  <2> QED BY <1>1, <1>2, Reading DEF ShownFile, Shown
<1>4. UpToDate <=> ScreenIs(size, content, picture, m_image, m_props, view, area, keyPanned, screen)
  BY <1>2 DEF UpToDate, ScreenIs, FitsZoom, HasRoom, ZoomedSize
<1> QED BY <1>3, <1>4 DEF Current

\* What the files are.
LEMMA FileFacts ==
    ASSUME start \in Starts, NEW i \in Images, NEW c, c.kind \in {"none", FileOf(i).kind}
    PROVE  /\ FileOf(i).kind \in {"static", "gif", "webp"}
           /\ FileOf(i).preview => FileOf(i).kind = "static"
           /\ FramesFor(c, FramesOf(i)) /\ FramesFor(c, FileOf(i).frames)
<1>1. start.files[i] \in DOMAIN Files
  BY ViewPortAssumption DEF Start
<1>2. PICK f : f = FileOf(i)
  OBVIOUS
<1>3. f \in File /\ (f.preview => f.kind = "static") /\ (f.kind = "gif" => f.frames # <<>>)
  BY <1>1, <1>2, ViewPortAssumption DEF FileOf
<1>4. f.kind \in {"static", "gif", "webp"} /\ f.frames \in Seq(Frame)
  BY <1>3 DEF File
<1>5. f.kind = "gif" => Len(f.frames) = 1 \/ Len(f.frames) > 1
  <2>1. PICK s \in Seq(Frame) : s = f.frames
    BY <1>4
  <2>2. s # <<>> => Len(s) # 0
    BY EmptySeq
  <2>3. PICK n \in Nat : n = Len(s)
    BY LenProperties
  <2>4. n # 0 => n = 1 \/ n > 1
    OBVIOUS
  <2>5. f.kind = "gif" => s # <<>>
    BY <1>3, <2>1
  <2> QED BY <2>1, <2>2, <2>3, <2>4, <2>5
<1>6. \A x : x.kind \in {"none", f.kind} => FramesFor(x, f.frames)
  BY <1>5 DEF FramesFor
<1> QED BY <1>2, <1>3, <1>4, <1>6 DEF FramesOf

\* The steps of the decoder, by what they change of an image.
ReadsHeader(file, r, d) ==
    /\ r.stage = "header"
    /\ \/ d.stage = "done" /\ ~d.header
       \/ d.stage \in {"allocate", "allocateFast"} /\ ~d.finished /\ (Moves(file, d) => d.stage = "allocate")
Decodes(r, d) ==
    /\ d.stage = r.stage /\ d.finished = r.finished /\ d.header = r.header
    /\ r.stage \in {"fast", "full"}
    /\ d.rows[IF r.stage = "fast" THEN "full" ELSE "fast"] = r.rows[IF r.stage = "fast" THEN "full" ELSE "fast"]
    /\ r.rows[r.stage] >= 0 /\ d.rows[r.stage] >= 0
    /\ d.composer.kind = r.composer.kind /\ d.composer.allocated = r.composer.allocated
    /\ d.composer.useFast = r.composer.useFast /\ d.composer.current = r.composer.current
    /\ r.composer.kind = "static" => d.composer = r.composer
SameLook(r, d) == d.header = r.header /\ d.composer = r.composer /\ d.rows = r.rows
Ends(r, d) ==
    /\ r.stage \in {"fast", "full"}
    /\ d.finished = r.finished /\ d.header = r.header
    /\ d.composer.kind = r.composer.kind /\ d.composer.allocated = r.composer.allocated
    /\ \/ d.stage \in {"fastDone", "fullDone"}
       \/ r.stage = "fast" /\ d.stage = "fastFailed" /\ SameLook(r, d)
       \/ r.stage = "full" /\ d.stage = "failed" /\ SameLook(r, d)
Finishes(r, d) ==
    /\ r.stage \in {"fastDone", "fastFailed", "fullDone", "failed"}
    /\ d.finished /\ SameLook(r, d)
    /\ \/ d.stage \in {"fastEvent", "event"}
       \/ r.stage = "fastFailed" /\ d.stage = "allocate"
       \/ r.stage = "failed" /\ d.stage = "done"

Event == [image : Images, message : {"LoadAllocated", "LoadDone"}]

\* Each keeps the image in order, and sends an event or changes little of it.
LEMMA DecoderStep ==
    ASSUME start \in Starts, DOMAIN image = Images, NEW i \in Images,
           LoadingOK(FileOf(i), image[i]), Decoder(i) \/ Deallocate(i)
    PROVE  \E d :
             /\ image' = [image EXCEPT ![i] = d] /\ LoadingOK(FileOf(i), d)
             /\ \/ /\ \E e \in Event : e.image = i /\ events' = Append(events, e)
                   /\ d.finished = image[i].finished /\ d.header = image[i].header
                \/ /\ events' = events
                   /\ \/ ReadsHeader(FileOf(i), image[i], d)
                      \/ Decodes(image[i], d) \/ Ends(image[i], d) \/ Finishes(image[i], d)
                      \/ i # m_image
<1> DEFINE Claim(f, r, d) ==
             /\ image' = [image EXCEPT ![i] = d] /\ LoadingOK(f, d)
             /\ \/ /\ \E e \in Event : e.image = i /\ events' = Append(events, e)
                   /\ d.finished = r.finished /\ d.header = r.header
                \/ /\ events' = events
                   /\ \/ ReadsHeader(f, r, d)
                      \/ Decodes(r, d) \/ Ends(r, d) \/ Finishes(r, d)
                      \/ i # m_image
<1>1. PICK f, r : f = FileOf(i) /\ r = image[i]
  OBVIOUS
<1>2. LoadingOK(f, r) /\ f.kind \in {"static", "gif", "webp"} /\ (f.preview => f.kind = "static")
  BY <1>1, FileFacts DEF LoadingOK
<1>3. SUFFICES \E d : Claim(f, r, d)
  BY <1>1
<1>4. CASE LoadHeader(i)
  <2>1. PICK d : d = IF f.broken = "header"
                     THEN [r EXCEPT !.stage = "done", !.finished = TRUE]
                     ELSE [r EXCEPT !.stage = AfterHeader(i), !.header = TRUE,
                                    !.composer = NewComposer(f.kind)]
    OBVIOUS
  <2>2. r.stage = "header" /\ image' = [image EXCEPT ![i] = d] /\ events' = events
    BY <1>1, <1>4, <2>1 DEF LoadHeader, Decoded
  <2>3. CASE f.broken = "header"
    <3>1. d = [r EXCEPT !.stage = "done", !.finished = TRUE]
      BY <2>1, <2>3
    <3>2. ~r.header
      BY <1>2, <2>3 DEF LoadingOK
    <3>3. LoadingOK(f, d)
      BY <1>2, <3>1, <3>2 DEF LoadingOK, ImageFields, PreviewStages, OnPreview
    <3>4. ReadsHeader(f, r, d)
      BY <1>2, <2>2, <3>1, <3>2 DEF ReadsHeader, LoadingOK, ImageFields
    <3> QED BY <2>2, <3>3, <3>4
  <2>4. CASE f.broken # "header"
    <3>1. PICK stage, c : stage = AfterHeader(i) /\ c = NewComposer(f.kind)
      OBVIOUS
    <3>2. d = [r EXCEPT !.stage = stage, !.header = TRUE, !.composer = c]
      BY <2>1, <2>4, <3>1
    <3>3. ComposerOK(c) /\ c.kind = f.kind
      BY <1>2, <3>1 DEF NewComposer, ComposerOK, ComposerFields
    <3>4. stage = IF f.preview THEN "allocateFast" ELSE "allocate"
      BY <1>1, <3>1 DEF AfterHeader
    <3>5. ~r.finished
      BY <1>2, <2>2 DEF LoadingOK
    <3>6. /\ d.stage = stage /\ d.header /\ d.composer = c /\ d.finished = r.finished
          /\ d.rows = r.rows /\ DOMAIN d = ImageFields
      BY <1>2, <3>2 DEF LoadingOK, ImageFields
    <3>7. LoadingOK(f, d)
      BY <1>2, <2>4, <3>3, <3>4, <3>5, <3>6 DEF LoadingOK, PreviewStages, OnPreview
    <3>8. Moves(f, d) => c.kind # "static"
      BY <3>6 DEF Moves, HasDelay
    <3>9. ReadsHeader(f, r, d)
      BY <1>2, <2>2, <3>3, <3>4, <3>5, <3>6, <3>8 DEF ReadsHeader
    <3> QED BY <2>2, <3>7, <3>9
  <2> QED BY <2>3, <2>4
<1>5. CASE Allocate(i)
  <2>1. PICK part : part = IF r.stage = "allocateFast" THEN "fast" ELSE "full"
    OBVIOUS
  <2>2. r.stage \in {"allocateFast", "allocate"} /\ Surface(i) = part
    BY <1>1, <1>5, <2>1 DEF Allocate, Surface
  <2>3. PICK c : c = IF part = "fast" THEN UseFastSurface(r.composer, TRUE)
                     ELSE IF f.kind = "gif" THEN SendImageData(r.composer) ELSE r.composer
    OBVIOUS
  <2>4. PICK rows : rows = [r.rows EXCEPT ![part] = 0]
    OBVIOUS
  <2>5. PICK d : d = [r EXCEPT !.stage = part, !.rows = rows, !.composer = c]
    OBVIOUS
  <2>6. image' = [image EXCEPT ![i] = d]
    <3>1. [r EXCEPT !.stage = part, !.rows[part] = 0,
             !.composer = IF part = "fast" THEN UseFastSurface(@, TRUE)
                          ELSE IF f.kind = "gif" THEN SendImageData(@) ELSE @] = d
      <4>1. DOMAIN r = ImageFields
        BY <1>2 DEF LoadingOK
      <4> QED BY <2>3, <2>4, <2>5, <4>1 DEF ImageFields
    <3> QED BY <1>1, <1>5, <2>2, <3>1 DEF Allocate
  <2>7. /\ r.header /\ r.composer.kind = f.kind /\ ComposerOK(r.composer)
        /\ DOMAIN r = ImageFields /\ DOMAIN r.rows = {"fast", "full"}
        /\ r.rows["fast"] \in Int /\ r.rows["full"] \in Int
    BY <1>2, <2>2 DEF LoadingOK
  <2>8. part = "fast" => f.preview /\ f.kind = "static" /\ ~r.finished
    BY <1>2, <2>1 DEF LoadingOK, PreviewStages
  <2>9. ComposerOK(c) /\ c.kind = f.kind /\ (part = "fast" => c.useFast)
        /\ (part = "full" => c.useFast = r.composer.useFast)
    BY <2>1, <2>3, <2>7, <2>8 DEF ComposerOK, UseFastSurface, SendImageData, ComposerFields, Want
  <2>10. /\ d.stage = part /\ d.header = r.header /\ d.composer = c /\ d.finished = r.finished
         /\ d.rows = rows /\ DOMAIN d = ImageFields
    BY <2>5, <2>7 DEF ImageFields
  <2>11. DOMAIN rows = {"fast", "full"} /\ rows["fast"] \in Int /\ rows["full"] \in Int
         /\ rows[part] = 0
    BY <2>1, <2>4, <2>7
  <2>12. part = "full" /\ r.finished => f.preview /\ r.composer.useFast
    BY <1>2, <2>1, <2>2 DEF LoadingOK, OnPreview
  <2>13. LoadingOK(f, d)
    BY <1>2, <2>1, <2>7, <2>8, <2>9, <2>10, <2>11, <2>12 DEF LoadingOK, PreviewStages, OnPreview
  <2>14. \E e \in Event : e.image = i /\ events' = Append(events, e)
    BY <1>5 DEF Allocate, Event
  <2> QED BY <2>6, <2>10, <2>13, <2>14
<1>6. CASE DecodePart(i)
  <2>1. PICK part : part = IF r.stage = "fast" THEN "fast" ELSE "full"
    OBVIOUS
  <2>2. r.stage = part /\ Surface(i) = part /\ part \in {"fast", "full"}
    BY <1>1, <1>6, <2>1 DEF DecodePart, Surface
  <2>3. PICK c : c = IF f.kind = "static" THEN r.composer ELSE FrameFinished(r.composer)
    OBVIOUS
  <2>4. PICK rows : rows = [r.rows EXCEPT ![part] = @ + 1]
    OBVIOUS
  <2>5. PICK d : d = [r EXCEPT !.rows = rows, !.composer = c]
    OBVIOUS
  <2>6. image' = [image EXCEPT ![i] = d] /\ events' = events
    <3>1. [r EXCEPT !.rows[part] = @ + 1,
             !.composer = IF f.kind = "static" THEN @ ELSE FrameFinished(@)] = d
      <4>1. DOMAIN r = ImageFields
        BY <1>2 DEF LoadingOK
      <4> QED BY <2>3, <2>4, <2>5, <4>1 DEF ImageFields
    <3> QED BY <1>1, <1>6, <2>2, <3>1 DEF DecodePart, Decoded
  <2>7. /\ r.header /\ r.composer.kind = f.kind /\ ComposerOK(r.composer)
        /\ DOMAIN r = ImageFields /\ DOMAIN r.rows = {"fast", "full"}
        /\ r.rows["fast"] \in Int /\ r.rows["full"] \in Int /\ r.rows[part] >= 0
    BY <1>2, <2>2 DEF LoadingOK
  <2>8. /\ ComposerOK(c) /\ c.kind = r.composer.kind /\ c.useFast = r.composer.useFast
        /\ c.allocated = r.composer.allocated /\ c.current = r.composer.current
        /\ r.composer.kind = "static" => c = r.composer
    BY <2>3, <2>7 DEF ComposerOK, FrameFinished, ComposerFields, Want
  <2>9. /\ d.stage = r.stage /\ d.header = r.header /\ d.composer = c /\ d.finished = r.finished
        /\ d.rows = rows /\ DOMAIN d = ImageFields
    BY <2>5, <2>7 DEF ImageFields
  <2>10. /\ DOMAIN rows = {"fast", "full"} /\ rows["fast"] \in Int /\ rows["full"] \in Int
         /\ rows[part] >= 0 /\ \A p \in {"fast", "full"} \ {part} : rows[p] = r.rows[p]
    BY <2>2, <2>4, <2>7
  <2>11. LoadingOK(f, d)
    BY <1>2, <2>2, <2>7, <2>8, <2>9, <2>10 DEF LoadingOK, PreviewStages, OnPreview
  <2>12. Decodes(r, d)
    BY <2>2, <2>7, <2>8, <2>9, <2>10 DEF Decodes
  <2> QED BY <2>6, <2>11, <2>12
<1>7. CASE DecodeEnd(i)
  <2>1. PICK part : part = IF r.stage = "fast" THEN "fast" ELSE "full"
    OBVIOUS
  <2>2. r.stage = part /\ Surface(i) = part /\ part \in {"fast", "full"}
    BY <1>1, <1>7, <2>1 DEF DecodeEnd, Surface
  <2>3. PICK complete \in BOOLEAN : complete = (r.rows[part] = Parts(i))
    OBVIOUS
  <2>4. PICK failed \in BOOLEAN : failed = (~complete /\ f.broken = "data")
    OBVIOUS
  <2>5. PICK c : c = IF complete /\ f.preview /\ part = "full"
                     THEN UseFastSurface(r.composer, FALSE) ELSE r.composer
    OBVIOUS
  <2>6. PICK stage : stage = IF part = "fast" THEN (IF failed THEN "fastFailed" ELSE "fastDone")
                             ELSE (IF failed THEN "failed" ELSE "fullDone")
    OBVIOUS
  <2>7. PICK d : d = [r EXCEPT !.stage = stage, !.composer = c]
    OBVIOUS
  <2>8. image' = [image EXCEPT ![i] = d] /\ events' = events
    <3>1. DOMAIN r = ImageFields
      BY <1>2 DEF LoadingOK
    <3>2. [r EXCEPT !.stage = stage,
             !.composer = IF complete /\ f.preview /\ part = "full"
                          THEN UseFastSurface(@, FALSE) ELSE @] = d
      BY <2>5, <2>7, <3>1 DEF ImageFields
    <3> QED BY <1>1, <1>7, <2>2, <2>3, <2>4, <2>6, <3>2 DEF DecodeEnd, Decoded
  <2>9. /\ r.header /\ r.composer.kind = f.kind /\ ComposerOK(r.composer)
        /\ DOMAIN r = ImageFields /\ DOMAIN r.rows = {"fast", "full"}
        /\ r.rows["fast"] \in Int /\ r.rows["full"] \in Int
    BY <1>2, <2>2 DEF LoadingOK
  <2>10. /\ ComposerOK(c) /\ c.kind = r.composer.kind /\ c.allocated = r.composer.allocated
         /\ (failed \/ part = "fast") => c = r.composer
    BY <1>2, <2>2, <2>4, <2>5, <2>9 DEF ComposerOK, UseFastSurface, ComposerFields
  <2>11. /\ d.stage = stage /\ d.header = r.header /\ d.composer = c /\ d.finished = r.finished
         /\ d.rows = r.rows /\ DOMAIN d = ImageFields
    BY <2>7, <2>9 DEF ImageFields
  <2>12. LoadingOK(f, d)
    BY <1>2, <2>2, <2>6, <2>9, <2>10, <2>11 DEF LoadingOK, PreviewStages, OnPreview
  <2>13. Ends(r, d)
    BY <2>2, <2>6, <2>10, <2>11 DEF Ends, SameLook
  <2> QED BY <2>8, <2>12, <2>13
<1>8. CASE FinishImage(i)
  <2>1. r.stage \in {"fastDone", "fastFailed", "fullDone", "failed"}
    BY <1>1, <1>8 DEF FinishImage
  <2>2. PICK stage : stage = CASE r.stage = "fastDone" -> "fastEvent"
                               [] r.stage = "fastFailed" -> "allocate"
                               [] r.stage = "fullDone" -> "event"
                               [] r.stage = "failed" -> "done"
    OBVIOUS
  <2>3. PICK d : d = [r EXCEPT !.finished = TRUE, !.stage = stage]
    OBVIOUS
  <2>4. image' = [image EXCEPT ![i] = d] /\ events' = events
    BY <1>1, <1>8, <2>2, <2>3 DEF FinishImage, Decoded
  <2>5. /\ d.stage = stage /\ d.header = r.header /\ d.composer = r.composer /\ d.finished
        /\ d.rows = r.rows /\ DOMAIN d = ImageFields
    BY <1>2, <2>3 DEF ImageFields, LoadingOK
  <2>6. \/ r.stage = "fastDone" /\ stage = "fastEvent"
        \/ r.stage = "fastFailed" /\ stage = "allocate"
        \/ r.stage = "fullDone" /\ stage = "event"
        \/ r.stage = "failed" /\ stage = "done"
    BY <2>1, <2>2
  <2>7. LoadingOK(f, d)
    BY <1>2, <2>5, <2>6 DEF LoadingOK, PreviewStages, OnPreview
  <2>8. Finishes(r, d)
    BY <2>5, <2>6 DEF Finishes, SameLook
  <2> QED BY <2>4, <2>7, <2>8
<1>9. CASE SendDone(i)
  <2>1. r.stage \in {"fastEvent", "event"}
    BY <1>1, <1>9 DEF SendDone
  <2>2. PICK d : d = [r EXCEPT !.stage = IF r.stage = "event" THEN "done" ELSE "allocate"]
    OBVIOUS
  <2>3. image' = [image EXCEPT ![i] = d]
    <3>1. [image EXCEPT ![i].stage = IF @ = "event" THEN "done" ELSE "allocate"] = [image EXCEPT ![i] = d]
      BY <1>1, <2>2
    <3> QED BY <1>9, <3>1 DEF SendDone
  <2>4. /\ d.stage = (IF r.stage = "event" THEN "done" ELSE "allocate")
        /\ d.header = r.header /\ d.composer = r.composer /\ d.finished = r.finished
        /\ d.rows = r.rows /\ DOMAIN d = ImageFields
    BY <1>2, <2>2 DEF ImageFields, LoadingOK
  <2>5. LoadingOK(f, d)
    BY <1>2, <2>1, <2>4 DEF LoadingOK, PreviewStages, OnPreview
  <2>6. \E e \in Event : e.image = i /\ events' = Append(events, e)
    BY <1>9 DEF SendDone, Event
  <2> QED BY <2>3, <2>4, <2>5, <2>6
<1>10. CASE Deallocate(i)
  <2>1. PICK d : d = [LoadingImage EXCEPT !.header = TRUE]
    OBVIOUS
  <2>2. image' = [image EXCEPT ![i] = d] /\ events' = events /\ i # m_image /\ r.header
    BY <1>1, <1>10, <2>1 DEF Deallocate
  <2>3. LoadingOK(f, d)
    <3>1. d = [stage |-> "header", header |-> TRUE, finished |-> FALSE, composer |-> NoComposer,
               rows |-> [fast |-> -1, full |-> -1]]
      BY <2>1 DEF LoadingImage
    <3>2. ComposerOK(NoComposer) /\ NoComposer.kind = "none"
      BY DEF NoComposer, NewComposer, ComposerOK, ComposerFields
    <3>3. f.broken # "header"
      BY <1>2, <2>2 DEF LoadingOK
    <3> QED BY <3>1, <3>2, <3>3 DEF LoadingOK, ImageFields, PreviewStages, OnPreview
  <2> QED BY <2>2, <2>3
<1> QED BY <1>4, <1>5, <1>6, <1>7, <1>8, <1>9, <1>10 DEF Decoder

\* The stages from which an image gets to its end without another event; the
\* ones at which nothing changes on its surface any more, but by an event.
Rests(r) ==
    \/ r.stage \in {"fast", "fastFailed", "full", "failed", "done"}
    \/ r.stage = "allocate" /\ r.finished
Final(r) ==
    \/ r.stage = "done"
    \/ r.stage \in {"allocate", "full", "failed"} /\ r.finished

\* The timer runs for what is not finished or moves, but while a handler sees
\* to it; and it is stopped only for what was finished before it was drawn.
TimerRuns ==
    /\ ~Shown.finished \/ Moving => timer \/ Due \/ painting \in {"update", "tick"}
    /\ painting \in {"unfinished", "drawn"} => timer \/ Due
    /\ painting \in {"tick", "updated"} /\ Moving =>
            Due \/ (Shown.stage = "allocate" /\ ~Shown.finished)
    /\ painting \in {"finished", "drawnFinished"} => Shown.finished /\ Shown.header

\* No event is due: the surface that is wanted is on show, and zoomed as it is.
SurfaceRests ==
    Shown.header /\ ~Moving /\ Rests(Shown) /\ ~Due /\ painting \notin {"update", "tick"} =>
        Settles /\ ZoomFits

\* Nothing will paint it again: what was painted is what there is to see.
ScreenFollows ==
    /\ painting = "no" /\ ~(invalid \/ timer \/ Due) /\ Final(Shown) => Current
    /\ painting = "clear" /\ ~(invalid \/ timer \/ Due) => ~Room
    /\ painting = "finished" => Room
    /\ painting = "drawnFinished" /\ ~(invalid \/ Due) /\ Shown.header /\ ~Moving /\ Final(Shown)
            => Current

Followed == TimerRuns /\ SurfaceRests /\ ScreenFollows

ImagesLoad == \A i \in Images : LoadingOK(FileOf(i), image[i])

Repaints ==
    /\ ImagesLoad
    /\ events \in Seq(Event)
    /\ m_image # NoImage => Followed

RepaintInvariant == ViewInvariant /\ Repaints

\* One more event: those that were due are.
LEMMA OneMoreEvent ==
    ASSUME events \in Seq(Event), NEW e \in Event, events' = Append(events, e), m_image' = m_image
    PROVE  /\ events' \in Seq(Event)
           /\ Due => Due'
           /\ e.image = m_image => Due'
<1>1. /\ Len(events) \in Nat /\ Len(events') = Len(events) + 1 /\ events' \in Seq(Event)
      /\ \A k \in 1..Len(events) : events'[k] = events[k]
      /\ events'[Len(events) + 1] = e
  BY AppendProperties, LenProperties
<1>2. DOMAIN events = 1..Len(events) /\ DOMAIN events' = 1..(Len(events) + 1)
  BY <1>1, LenProperties
<1>3. Len(events) + 1 \in DOMAIN events' /\ DOMAIN events \subseteq DOMAIN events'
  BY <1>1, <1>2
<1> QED BY <1>1, <1>2, <1>3 DEF Due

\* What looks the same, on a screen and in a view that stay as they are.
LEMMA LookStays ==
    ASSUME UNCHANGED <<start, m_image, m_props, area, screen>>,
           view'.imageZoom = view.imageZoom,
           keyPanned' \/ (UNCHANGED keyPanned /\ view'.pan = view.pan),
           SameLook(Shown, Shown')
    PROVE  /\ Moving' <=> Moving
           /\ Settles' <=> Settles
           /\ ZoomFits' <=> ZoomFits
           /\ Room' <=> Room
           /\ Current => Current'
<1>1. PICK f, r, d : f = ShownFile /\ f = ShownFile' /\ r = Shown /\ d = Shown'
  BY DEF ShownFile, FileOf
<1>2. d.header = r.header /\ d.composer = r.composer /\ d.rows = r.rows
  BY <1>1 DEF SameLook
<1>3. Moving' <=> Moving
  BY <1>1, <1>2 DEF Moving, Moves
<1>4. Settles' <=> Settles
  BY <1>1, <1>2 DEF Settles
<1>5. PICK size, picture : /\ size = SizeOf(f, r.composer, r.rows) /\ size = SizeOf(f, d.composer, d.rows)
                           /\ picture = PictureSize(f, r) /\ picture = PictureSize(f, d)
  BY <1>2 DEF PictureSize
<1>6. ZoomFits' <=> ZoomFits
  BY <1>1, <1>5 DEF ZoomFits, FitsZoom
<1>7. Room' <=> Room
  BY <1>1, <1>5 DEF Room, HasRoom
<1>8. Asked(f, d) = Asked(f, r)
  BY <1>2 DEF Asked
<1>9. PICK c : c = Asked(f, r) /\ c = Asked(f, d)
  BY <1>8
<1>10. PICK surface, content :
          /\ surface = SizeOf(f, c, r.rows) /\ surface = SizeOf(f, c, d.rows)
          /\ content = ContentOf(f, c, r.rows) /\ content = ContentOf(f, c, d.rows)
  BY <1>2
<1>11. /\ Current <=> ScreenIs(surface, content, picture, m_image, m_props, view, area, keyPanned, screen)
       /\ Current' <=> ScreenIs(surface, content, picture, m_image, m_props, view', area, keyPanned', screen)
  BY <1>1, <1>5, <1>9, <1>10 DEF Current
<1>12. Current => Current'
  BY <1>11 DEF ScreenIs, HasRoom
<1> QED BY <1>3, <1>4, <1>6, <1>7, <1>12

\* So for an image that does not change at all.
LEMMA ImageStays ==
    ASSUME UNCHANGED <<start, m_image, m_props, area, screen>>,
           view'.imageZoom = view.imageZoom,
           keyPanned' \/ (UNCHANGED keyPanned /\ view'.pan = view.pan),
           image'[m_image] = image[m_image]
    PROVE  /\ Shown' = Shown
           /\ Moving' <=> Moving
           /\ Settles' <=> Settles
           /\ ZoomFits' <=> ZoomFits
           /\ Room' <=> Room
           /\ Current => Current'
<1>1. Shown' = Shown
  BY DEF Shown
<1>2. SameLook(Shown, Shown')
  BY <1>1 DEF SameLook
<1> QED BY <1>1, <1>2, LookStays

\* A row more of a surface: the size is what it was, and the content of a
\* preview that is finished.
LEMMA RowStays ==
    ASSUME UNCHANGED <<start, m_image, viewVars, keyPanned, screen>>, start \in Starts,
           m_image \in Images, LoadingOK(ShownFile, Shown), LoadingOK(ShownFile, Shown'),
           Decodes(Shown, Shown')
    PROVE  /\ Moving' <=> Moving
           /\ Room' <=> Room
           /\ Settles => Settles'
           /\ Settles /\ ZoomFits => ZoomFits'
           /\ Settles /\ Shown.finished /\ Current => Current'
<1>1. PICK f, r, d : f = ShownFile /\ f = ShownFile' /\ r = Shown /\ d = Shown'
  BY DEF ShownFile, FileOf
<1>2. LoadingOK(f, r) /\ LoadingOK(f, d) /\ Decodes(r, d)
  BY <1>1
<1>3. UNCHANGED <<m_props, view, area, keyPanned, screen, m_image>>
  BY DEF viewVars
<1>4. /\ f.kind \in {"static", "gif", "webp"} /\ (f.preview => f.kind = "static")
      /\ FramesFor(r.composer, f.frames)
  <2>1. PICK c : c = r.composer /\ c.kind \in {"none", f.kind}
    BY <1>2 DEF LoadingOK
  <2>2. f = FileOf(m_image)
    BY <1>1 DEF ShownFile
  <2>3. /\ f.kind \in {"static", "gif", "webp"} /\ (f.preview => f.kind = "static")
        /\ FramesFor(c, f.frames)
    BY <2>1, <2>2, FileFacts
  <2> QED BY <2>1, <2>3
<1>5. r.header /\ d.header /\ r.composer.kind = f.kind /\ d.composer.kind = f.kind
      /\ ComposerOK(r.composer) /\ ComposerOK(d.composer)
      /\ DOMAIN r.rows = {"fast", "full"} /\ DOMAIN d.rows = {"fast", "full"}
  BY <1>2 DEF LoadingOK, Decodes
<1>6. Moving' <=> Moving
  BY <1>1, <1>2, <1>5 DEF Moving, Moves, HasDelay, Decodes
<1>7. PICK picture : picture = PictureSize(f, r) /\ picture = PictureSize(f, d)
  BY <1>5 DEF PictureSize
<1>8. Room' <=> Room
  BY <1>1, <1>3, <1>7 DEF Room, HasRoom
<1>9. Settles => Settles'
  BY <1>1, <1>2 DEF Settles, Settled, Want, Decodes
<1>10. ASSUME Settles
       PROVE  SizeOf(f, d.composer, d.rows) = SizeOf(f, r.composer, r.rows)
  <2>1. /\ r.composer.current = Want(r.composer) /\ d.composer.current = r.composer.current
    BY <1>1, <1>2, <1>10 DEF Settles, Settled, Decodes
  <2>2. CASE r.composer.current = "canvas"
    BY <2>1, <2>2 DEF SizeOf
  <2>3. CASE r.composer.current \in {"fast", "full"}
    <3>1. PICK p : p = r.composer.current /\ p \in {"fast", "full"}
      BY <2>3
    <3>2. (d.rows[p] < 0) <=> (r.rows[p] < 0)
      <4>1. CASE p = r.stage
        <5>1. r.rows[p] >= 0 /\ d.rows[p] >= 0 /\ r.rows[p] \in Int /\ d.rows[p] \in Int
          BY <1>2, <3>1, <4>1 DEF Decodes, LoadingOK
        <5> QED BY <5>1
      <4>2. CASE p # r.stage
        BY <1>2, <3>1, <4>2 DEF Decodes
      <4> QED BY <4>1, <4>2
    <3> QED BY <2>1, <3>1, <3>2 DEF SizeOf
  <2> QED BY <2>1, <2>2, <2>3 DEF Want
<1>11. Settles /\ ZoomFits => ZoomFits'
  <2> SUFFICES ASSUME Settles PROVE ZoomFits => ZoomFits'
    OBVIOUS
  <2>1. PICK size : size = SizeOf(f, r.composer, r.rows) /\ size = SizeOf(f, d.composer, d.rows)
    BY <1>10
  <2> QED BY <1>1, <1>3, <1>7, <2>1 DEF ZoomFits, FitsZoom
<1>12. ASSUME Settles, Shown.finished, Current
       PROVE  Current'
  <2>1. r.stage = "full" /\ f.kind = "static" /\ r.composer.useFast
    BY <1>1, <1>2, <1>4, <1>12 DEF LoadingOK, Decodes, OnPreview, PreviewStages
  <2>2. d.composer = r.composer /\ d.rows["fast"] = r.rows["fast"]
    BY <1>2, <1>5, <2>1 DEF Decodes
  <2>3. PICK c : c = RequestCurrentSurface(r.composer, f.frames)
    OBVIOUS
  <2>4. c.kind = "static" /\ c.current = "fast"
    BY <1>1, <1>4, <1>5, <1>12, <2>1, <2>3, SettledStays DEF Settles, Settled, Want, SameKind
  <2>5. Asked(f, r) = c /\ Asked(f, d) = c
    BY <1>4, <1>5, <2>2, <2>3 DEF Asked
  <2>6. PICK surface, content :
           /\ surface = SizeOf(f, c, r.rows) /\ surface = SizeOf(f, c, d.rows)
           /\ content = ContentOf(f, c, r.rows) /\ content = ContentOf(f, c, d.rows)
    BY <2>2, <2>4 DEF SizeOf, ContentOf
  <2>7. /\ Current <=> ScreenIs(surface, content, picture, m_image, m_props, view, area, keyPanned, screen)
        /\ Current' <=> ScreenIs(surface, content, picture, m_image, m_props, view, area, keyPanned, screen)
    BY <1>1, <1>3, <1>7, <2>5, <2>6 DEF Current
  <2> QED BY <1>12, <2>7
<1> QED BY <1>6, <1>8, <1>9, <1>11, <1>12

\* The steps of the decoder.
LEMMA DecoderFollows ==
    ASSUME RepaintInvariant, NEW i \in Images, Decoder(i) \/ Deallocate(i)
    PROVE  Repaints'
<1>1. /\ start \in Starts /\ DOMAIN image = Images /\ m_image \in ImagesOrNone
      /\ LoadingOK(FileOf(i), image[i]) /\ events \in Seq(Event)
  BY DEF RepaintInvariant, Repaints, ViewInvariant, TypesOK, ImagesLoad
<1>2. UNCHANGED <<start, viewVars, timer, invalid, keyPanned, painting, screen>>
      /\ UNCHANGED <<m_image, m_props, view, area>>
  BY DEF Decoder, Deallocate, LoadHeader, Allocate, DecodePart, DecodeEnd, FinishImage,
         SendDone, Decoded, viewVars, paintVars
<1>3. PICK d :
         /\ image' = [image EXCEPT ![i] = d] /\ LoadingOK(FileOf(i), d)
         /\ \/ /\ \E e \in Event : e.image = i /\ events' = Append(events, e)
               /\ d.finished = image[i].finished /\ d.header = image[i].header
            \/ /\ events' = events
               /\ \/ ReadsHeader(FileOf(i), image[i], d)
                  \/ Decodes(image[i], d) \/ Ends(image[i], d) \/ Finishes(image[i], d)
                  \/ i # m_image
  BY <1>1, DecoderStep
<1>4. image'[i] = d /\ \A j \in Images \ {i} : image'[j] = image[j]
  BY <1>1, <1>3
<1>5. ImagesLoad'
  <2>1. ASSUME NEW j \in Images PROVE LoadingOK(FileOf(j), image[j])'
    <3>1. FileOf(j)' = FileOf(j)
      BY <1>2 DEF FileOf
    <3> QED BY <1>3, <1>4, <3>1 DEF RepaintInvariant, Repaints, ImagesLoad
  <2> QED BY <2>1 DEF ImagesLoad
<1>6. /\ events' \in Seq(Event) /\ (Due => Due')
      /\ events' = events => (Due' <=> Due)
      /\ (\E e \in Event : e.image = i /\ events' = Append(events, e)) /\ i = m_image => Due'
  <2>1. events' = events => (Due' <=> Due)
    BY <1>2 DEF Due
  <2>2. ASSUME NEW e \in Event, e.image = i, events' = Append(events, e)
        PROVE  events' \in Seq(Event) /\ (Due => Due') /\ (i = m_image => Due')
    BY <1>1, <1>2, <2>2, OneMoreEvent
  <2> QED BY <1>1, <1>3, <2>1, <2>2
<1>7. ASSUME m_image' # NoImage
      PROVE  Followed'
  <2>1. /\ m_image \in Images /\ TimerRuns /\ SurfaceRests /\ ScreenFollows
        /\ LoadingOK(ShownFile, Shown)
    BY <1>1, <1>2, <1>7 DEF RepaintInvariant, Repaints, ImagesOrNone, Followed, ImagesLoad, ShownFile, Shown
  <2>2. CASE i # m_image
    <3>1. image'[m_image] = image[m_image]
      BY <1>4, <2>1, <2>2
    <3>2. /\ Shown' = Shown /\ (Moving' <=> Moving) /\ (Settles' <=> Settles)
          /\ (ZoomFits' <=> ZoomFits) /\ (Room' <=> Room) /\ (Current => Current')
      BY <1>2, <3>1, ImageStays
    <3> QED BY <1>2, <1>6, <2>1, <3>2 DEF Followed, TimerRuns, SurfaceRests, ScreenFollows
  <2>3. CASE i = m_image
    <3>1. /\ Shown = image[i] /\ Shown' = d /\ ShownFile' = ShownFile /\ ShownFile = FileOf(i)
      BY <1>2, <1>4, <2>3 DEF Shown, ShownFile, FileOf
    <3>2. LoadingOK(ShownFile, Shown')
      BY <1>3, <3>1
    <3>3. CASE events' # events
      <4>1. Due' /\ Shown'.finished = Shown.finished /\ Shown'.header = Shown.header
        BY <1>3, <1>6, <2>3, <3>1, <3>3
      <4>2. Room' <=> Room
        BY <1>2, <3>1, <4>1 DEF Room, PictureSize
      <4> QED BY <1>2, <2>1, <4>1, <4>2 DEF Followed, TimerRuns, SurfaceRests, ScreenFollows
    <3>4. CASE events' = events /\ ReadsHeader(FileOf(i), image[i], d)
      <4>1. /\ Shown.stage = "header" /\ ~Shown.finished
            /\ \/ Shown'.stage = "done" /\ ~Shown'.header
               \/ Shown'.stage \in {"allocate", "allocateFast"} /\ ~Shown'.finished
                  /\ (Moving' => Shown'.stage = "allocate")
        BY <2>1, <3>1, <3>4 DEF ReadsHeader, LoadingOK, Moving
      <4>2. ~Shown'.header => ~Moving'
        BY DEF Moving, Moves
      <4>3. Due' <=> Due
        BY <1>6, <3>4
      <4>4. timer \/ Due \/ painting \in {"update", "tick"}
        BY <2>1, <4>1 DEF TimerRuns
      <4>5. painting \notin {"finished", "drawnFinished"}
        BY <2>1, <4>1 DEF TimerRuns
      <4> QED BY <1>2, <2>1, <4>1, <4>2, <4>3, <4>4, <4>5
              DEF Followed, TimerRuns, SurfaceRests, ScreenFollows, Rests, Final
    <3>5. CASE events' = events /\ Decodes(image[i], d)
      <4>1. /\ Decodes(Shown, Shown') /\ (Due' <=> Due)
            /\ Shown'.stage = Shown.stage /\ Shown'.finished = Shown.finished
            /\ Shown'.header = Shown.header /\ Shown.stage \in {"fast", "full"} /\ Shown.header
        BY <1>6, <2>1, <3>1, <3>5 DEF Decodes, LoadingOK
      <4>2. /\ (Moving' <=> Moving) /\ (Room' <=> Room)
            /\ (Settles => Settles') /\ (Settles /\ ZoomFits => ZoomFits')
            /\ (Settles /\ Shown.finished /\ Current => Current')
        BY <1>1, <1>2, <2>1, <3>2, <4>1, RowStays
      <4>3. Final(Shown) => Shown.finished /\ Rests(Shown)
        BY <4>1 DEF Final, Rests
      <4>4. TimerRuns'
        BY <1>2, <2>1, <4>1, <4>2 DEF TimerRuns
      <4>5. SurfaceRests'
        BY <1>2, <2>1, <4>1, <4>2 DEF SurfaceRests, Rests
      <4>6. ScreenFollows'
        <5>1. Final(Shown') <=> Final(Shown)
          BY <4>1 DEF Final
        <5> QED BY <1>2, <2>1, <4>1, <4>2, <4>3, <5>1 DEF ScreenFollows, SurfaceRests, TimerRuns
      <4> QED BY <4>4, <4>5, <4>6 DEF Followed
    <3>6. CASE events' = events /\ Ends(image[i], d)
      <4>1. Ends(Shown, Shown') /\ (Due' <=> Due)
        BY <1>6, <3>1, <3>6
      <4>2. CASE SameLook(Shown, Shown') /\ Shown'.finished = Shown.finished
                 /\ \/ Shown.stage = "fast" /\ Shown'.stage = "fastFailed"
                    \/ Shown.stage = "full" /\ Shown'.stage = "failed"
        <5>1. /\ (Moving' <=> Moving) /\ (Settles' <=> Settles)
              /\ (ZoomFits' <=> ZoomFits) /\ (Room' <=> Room) /\ (Current => Current')
          BY <1>2, <4>2, LookStays
        <5>2. Shown'.header = Shown.header
          BY <4>2 DEF SameLook
        <5> QED BY <1>2, <2>1, <4>1, <4>2, <5>1, <5>2
                DEF Followed, TimerRuns, SurfaceRests, ScreenFollows, Rests, Final
      <4>3. CASE Shown'.stage \in {"fastDone", "fullDone"}
        <5>1. /\ Shown'.finished = Shown.finished /\ Shown'.header = Shown.header
              /\ Shown'.composer.kind = Shown.composer.kind
              /\ Shown'.composer.allocated = Shown.composer.allocated
          BY <4>1 DEF Ends
        <5>2. Moving' <=> Moving
          BY <3>1, <5>1 DEF Moving, Moves, HasDelay
        <5>3. Room' <=> Room
          BY <1>2, <3>1, <5>1 DEF Room, PictureSize
        <5>4. Shown.stage \in {"fast", "full"}
          BY <4>1 DEF Ends
        <5> QED BY <1>2, <2>1, <4>1, <4>3, <5>1, <5>2, <5>3, <5>4
                DEF Followed, TimerRuns, SurfaceRests, ScreenFollows, Rests, Final
      <4> QED BY <4>1, <4>2, <4>3 DEF Ends
    <3>7. CASE events' = events /\ Finishes(image[i], d)
      <4>1. /\ SameLook(Shown, Shown') /\ Shown'.finished /\ (Due' <=> Due)
            /\ Shown.stage \in {"fastDone", "fastFailed", "fullDone", "failed"}
            /\ \/ Shown'.stage \in {"fastEvent", "event"}
               \/ Shown.stage = "fastFailed" /\ Shown'.stage = "allocate"
               \/ Shown.stage = "failed" /\ Shown'.stage = "done"
        BY <1>6, <3>1, <3>7 DEF Finishes
      <4>2. /\ (Moving' <=> Moving) /\ (Settles' <=> Settles)
            /\ (ZoomFits' <=> ZoomFits) /\ (Room' <=> Room) /\ (Current => Current')
        BY <1>2, <4>1, LookStays
      <4>3. Shown'.header = Shown.header
        BY <4>1 DEF SameLook
      <4>4. Shown.stage = "fastFailed" => ~Shown.finished
        BY <2>1 DEF LoadingOK, PreviewStages
      <4> QED BY <1>2, <2>1, <4>1, <4>2, <4>3, <4>4
              DEF Followed, TimerRuns, SurfaceRests, ScreenFollows, Rests, Final
    <3> QED BY <1>3, <2>3, <3>3, <3>4, <3>5, <3>6, <3>7
  <2> QED BY <2>2, <2>3
<1> QED BY <1>5, <1>6, <1>7 DEF Repaints

\* The zoom PerformOnSize gives the surface shows it in the picture's size.
LEMMA PerformOnSizeFits ==
    ASSUME start \in Starts, NEW img, DOMAIN img = Images, NEW i \in Images,
           NEW props \in PropsType, NEW v \in ViewType, NEW size \in Size,
           PerformOnSize(img, i, props, v, size),
           NEW surface, surface = SizeOf(FileOf(i), img[i].composer, img[i].rows),
           NEW picture, picture = PictureSize(FileOf(i), image[i])
    PROVE  /\ IsPositive(surface) =>
                 FitsZoom(surface, picture, Angle(props), m_props'.Zoom, view'.imageZoom)
           /\ Angle(m_props') = Angle(props)
           /\ invalid'
<1>1. i \in ImagesOrNone
  BY DEF ImagesOrNone
<1>2. surface = SurfaceSize(img, i) /\ picture = GetSize(i) /\ surface \in Size /\ picture \in Size
  <2>1. surface = SurfaceSize(img, i) /\ picture = GetSize(i)
    BY Reading
  <2>2. SurfaceSize(img, i) \in Size /\ GetSize(i) \in Size
    BY <1>1, SizeTypes
  <2> QED BY <2>1, <2>2
<1>3. PICK s \in Size, p \in Size :
         s = UnzoomedSize(surface, Angle(props)) /\ p = UnzoomedSize(picture, Angle(props))
  BY <1>2, UnzoomedType
<1>4. PICK r : r = CalculateViewAreaSize(v.zoom, start.behaviour, size, s, p)
  OBVIOUS
<1>5. /\ m_props' = [props EXCEPT !.Zoom = r.ZoomSurface]
      /\ view'.imageZoom = r.ZoomImage /\ invalid' = TRUE
  BY <1>2, <1>3, <1>4 DEF PerformOnSize
<1>6. m_props'.Zoom = r.ZoomSurface /\ Angle(m_props') = Angle(props)
  BY <1>5 DEF PropsType, Angle
<1>7. r.ZoomImage \in Factor
  BY <1>4, CalculateType DEF ViewType
<1>8. ASSUME IsPositive(surface)
      PROVE  r.ZoomSurface[1] * s[1] * r.ZoomImage[2] = r.ZoomSurface[2] * p[1] * r.ZoomImage[1]
  <2>1. PICK s1 \in Nat \ {0}, p1 \in Nat : s1 = s[1] /\ p1 = p[1]
    BY <1>2, <1>3, <1>8 DEF IsPositive, UnzoomedSize, Flipped, Size
  <2>2. CASE ~IsPositive(p)
    <3>1. r.ZoomSurface = <<0, 1>> /\ r.ZoomImage = <<0, 1>>
      BY <1>4, <2>2 DEF CalculateViewAreaSize, None
    <3> QED BY <2>1, <3>1
  <2>3. CASE IsPositive(p)
    <3>1. r.ZoomSurface = <<r.ZoomImage[1] * p[1], r.ZoomImage[2] * s[1]>>
      BY <1>4, <2>1, <2>3 DEF CalculateViewAreaSize
    <3>2. PICK n \in Nat, d \in Nat : n = r.ZoomImage[1] /\ d = r.ZoomImage[2]
      BY <1>7 DEF Factor
    <3>3. (n * p1) * s1 * d = (d * s1) * p1 * n
      OBVIOUS
    <3> QED BY <2>1, <3>1, <3>2, <3>3
  <2> QED BY <2>2, <2>3
<1> QED BY <1>3, <1>5, <1>6, <1>8 DEF FitsZoom

\* A file, as the steps on its image need to know it.
FileOK(f) ==
    /\ f.kind \in {"static", "gif", "webp"}
    /\ f.preview => f.kind = "static"
    /\ f.kind = "gif" => Len(f.frames) = 1 \/ Len(f.frames) > 1

\* The files of the program's images are.
LEMMA FilesOK ==
    ASSUME start \in Starts, NEW i \in Images
    PROVE  FileOK(FileOf(i)) /\ FramesOf(i) = FileOf(i).frames
<1>1. PICK f : f = FileOf(i)
  OBVIOUS
<1>2. PICK c : c = NewComposer(f.kind)
  OBVIOUS
<1>3. c.kind = f.kind
  BY <1>2 DEF NewComposer
<1>4. /\ f.kind \in {"static", "gif", "webp"} /\ (f.preview => f.kind = "static")
      /\ FramesFor(c, f.frames)
  BY <1>1, <1>3, FileFacts
<1> QED BY <1>1, <1>3, <1>4 DEF FileOK, FramesFor, FramesOf

\* An image with another composer.
Recompose(r, c) == [r EXCEPT !.composer = c]
Composes(r) == r.header /\ r.composer.kind # "none"

\* What a call of the viewer's thread leaves of an image.
Touched(file, r, d) ==
    /\ LoadingOK(file, d)
    /\ Moves(file, d) <=> Moves(file, r)
    /\ d.stage = r.stage /\ d.finished = r.finished /\ d.header = r.header
    /\ d.rows = r.rows /\ d.composer.kind = r.composer.kind

\* A call that composes a surface leaves the rest of the image as it was, and
\* settles a picture that stands still.
LEMMA Recomposed ==
    ASSUME NEW f, FileOK(f), NEW r, LoadingOK(f, r), Composes(r),
           NEW a, a = r.composer, NEW c, NEW d, d = Recompose(r, c),
           c \in {RequestCurrentSurface(a, f.frames), OnRestart(a, f.frames),
                  Advance(a, f.frames)}
    PROVE  /\ Touched(f, r, d) /\ d.composer = c
           /\ ~Moves(f, r) /\ c = RequestCurrentSurface(a, f.frames) => Settled(c)
           /\ ~Moves(f, r) /\ c = OnRestart(a, f.frames) => Settled(c)
           /\ Settled(a) /\ c = RequestCurrentSurface(a, f.frames) =>
                 Settled(c) /\ c.current = a.current
<1>1. a = r.composer /\ r.header /\ r.composer.kind # "none"
  BY DEF Composes
<1>2. a.kind \in {"none", f.kind} /\ ComposerOK(a) /\ DOMAIN r = ImageFields
  BY <1>1 DEF LoadingOK
<1>3. a.kind \in {"static", "gif", "webp"} /\ FramesFor(a, f.frames)
  BY <1>1, <1>2 DEF FileOK, FramesFor
<1>5. SameKind(a, c) /\ ComposerOK(c)
  BY <1>2, <1>3, CallsKeep
<1>6. /\ d.stage = r.stage /\ d.finished = r.finished /\ d.header = r.header
      /\ d.composer = c /\ d.rows = r.rows /\ DOMAIN d = ImageFields
  BY <1>2 DEF ImageFields, Recompose
<1>7. LoadingOK(f, d)
  BY <1>1, <1>2, <1>5, <1>6 DEF LoadingOK, SameKind, OnPreview
<1>8. Moves(f, d) <=> Moves(f, r)
  BY <1>1, <1>5, <1>6 DEF Moves, HasDelay, SameKind
<1>9. ~Moves(f, r) => Settled(RequestCurrentSurface(a, f.frames)) /\ Settled(OnRestart(a, f.frames))
  <2>1. ~Moves(f, r) => ~HasDelay(a, f.frames)
    BY <1>1 DEF Moves
  <2> QED BY <1>2, <1>3, <2>1, CallsSettle
<1>10. ASSUME Settled(a), c = RequestCurrentSurface(a, f.frames)
       PROVE  Settled(c) /\ c.current = a.current
  BY <1>2, <1>3, <1>10, SettledStays
<1>11. c.kind = a.kind
  BY <1>5 DEF SameKind
<1>12. Touched(f, r, d)
  BY <1>1, <1>6, <1>7, <1>8, <1>11 DEF Touched
<1> QED BY <1>1, <1>6, <1>9, <1>10, <1>12

\* The surface of an image was asked for.
LEMMA SurfaceAsked ==
    ASSUME start \in Starts, NEW img, DOMAIN img = Images, NEW i \in Images,
           LoadingOK(FileOf(i), img[i]), NEW changed, changed = CurrentSurface(img, i)
    PROVE  /\ DOMAIN changed = Images /\ \A j \in Images \ {i} : changed[j] = img[j]
           /\ Touched(FileOf(i), img[i], changed[i])
           /\ ~Moves(FileOf(i), img[i]) /\ Composes(img[i]) => Settled(changed[i].composer)
           /\ Settled(img[i].composer) =>
                 Settled(changed[i].composer) /\ changed[i].composer.current = img[i].composer.current
<1>1. PICK f, r : f = FileOf(i) /\ r = img[i]
  OBVIOUS
<1>2. i # NoImage
  BY ViewPortAssumption
<1>3. CASE ~Composes(r)
  <2>1. changed = img
    BY <1>1, <1>2, <1>3 DEF CurrentSurface, Composes
  <2>2. Touched(f, r, r)
    BY <1>1 DEF Touched
  <2> QED BY <1>1, <1>3, <2>1, <2>2
<1>4. CASE Composes(r)
  <2>1. PICK a, c : a = r.composer /\ c = RequestCurrentSurface(a, f.frames)
    OBVIOUS
  <2>2. PICK d : d = Recompose(r, c)
    OBVIOUS
  <2>3. FileOK(f) /\ FramesOf(i) = f.frames /\ LoadingOK(f, r)
    BY <1>1, FilesOK
  <2>4. changed = [img EXCEPT ![i] = d]
    BY <1>1, <1>2, <1>4, <2>1, <2>2, <2>3 DEF CurrentSurface, Recompose, Composes
  <2>5. changed[i] = d /\ DOMAIN changed = Images /\ \A j \in Images \ {i} : changed[j] = img[j]
    BY <2>4
  <2>6. c \in {RequestCurrentSurface(a, f.frames), OnRestart(a, f.frames), Advance(a, f.frames)}
    BY <2>1
  <2>7. /\ Touched(f, r, d) /\ d.composer = c
        /\ ~Moves(f, r) => Settled(c)
        /\ Settled(a) => Settled(c) /\ c.current = a.current
    BY <1>4, <2>1, <2>2, <2>3, <2>6, Recomposed
  <2> QED BY <1>1, <1>4, <2>1, <2>5, <2>7
<1> QED BY <1>3, <1>4

\* An image is started again, or goes on.
LEMMA ImageMoved ==
    ASSUME start \in Starts, NEW img, DOMAIN img = Images, NEW i \in Images,
           LoadingOK(FileOf(i), img[i]), NEW changed,
           \/ changed = RestartAnimation(img, i)
           \/ /\ HasDelayNow(img, i)
              /\ changed = [img EXCEPT ![i].composer = Advance(@, FramesOf(i))]
    PROVE  /\ DOMAIN changed = Images /\ \A j \in Images \ {i} : changed[j] = img[j]
           /\ Touched(FileOf(i), img[i], changed[i])
           /\ ~Moves(FileOf(i), img[i]) /\ Composes(img[i]) => Settled(changed[i].composer)
<1>1. PICK f, r : f = FileOf(i) /\ r = img[i]
  OBVIOUS
<1>2. FileOK(f) /\ FramesOf(i) = f.frames /\ LoadingOK(f, r)
  BY <1>1, FilesOK
<1>3. CASE changed = img /\ ~Composes(r)
  <2>1. Touched(f, r, r)
    BY <1>2 DEF Touched
  <2> QED BY <1>1, <1>3, <2>1
<1>4. ASSUME NEW a, a = r.composer, NEW c, NEW d, d = Recompose(r, c), Composes(r),
             c \in {OnRestart(a, f.frames), Advance(a, f.frames)},
             c = OnRestart(a, f.frames) \/ Moves(f, r),
             changed = [img EXCEPT ![i] = d]
      PROVE  /\ DOMAIN changed = Images /\ \A j \in Images \ {i} : changed[j] = img[j]
             /\ Touched(FileOf(i), img[i], changed[i])
             /\ ~Moves(FileOf(i), img[i]) /\ Composes(img[i]) => Settled(changed[i].composer)
  <2>1. changed[i] = d /\ DOMAIN changed = Images /\ \A j \in Images \ {i} : changed[j] = img[j]
    BY <1>4
  <2>2. c \in {RequestCurrentSurface(a, f.frames), OnRestart(a, f.frames), Advance(a, f.frames)}
    BY <1>4
  <2>3. /\ Touched(f, r, d) /\ d.composer = c
        /\ ~Moves(f, r) /\ c = OnRestart(a, f.frames) => Settled(c)
    BY <1>2, <1>4, <2>2, Recomposed
  <2> QED BY <1>1, <1>4, <2>1, <2>3
<1>5. CASE Composes(r) /\ changed = RestartAnimation(img, i)
  <2>1. PICK a, c : a = r.composer /\ c = OnRestart(a, f.frames)
    OBVIOUS
  <2>2. PICK d : d = Recompose(r, c)
    OBVIOUS
  <2>3. changed = [img EXCEPT ![i] = d]
    BY <1>1, <1>2, <1>5, <2>1, <2>2 DEF RestartAnimation, Recompose, Composes
  <2> QED BY <1>4, <1>5, <2>1, <2>2, <2>3
<1>6. CASE /\ HasDelayNow(img, i)
           /\ changed = [img EXCEPT ![i].composer = Advance(@, FramesOf(i))]
  <2>1. PICK a, c : a = r.composer /\ c = Advance(a, f.frames)
    OBVIOUS
  <2>2. PICK d : d = Recompose(r, c)
    OBVIOUS
  <2>3. changed = [img EXCEPT ![i] = d]
    BY <1>1, <1>2, <1>6, <2>1, <2>2 DEF Recompose
  <2>4. Composes(r) /\ Moves(f, r)
    BY <1>1, <1>2, <1>6 DEF HasDelayNow, Moves, Composes
  <2> QED BY <1>4, <2>1, <2>2, <2>3, <2>4
<1>7. changed = RestartAnimation(img, i) => Composes(r) \/ changed = img
  BY <1>1 DEF RestartAnimation, Composes
<1> QED BY <1>3, <1>5, <1>6, <1>7

\* What the handlers find.
LEMMA WhatIsShown ==
    ASSUME RepaintInvariant
    PROVE  /\ start \in Starts /\ DOMAIN image = Images /\ m_image \in ImagesOrNone
           /\ view \in ViewType /\ m_props \in PropsType /\ area \in Size
           /\ ImagesLoad /\ events \in Seq(Event)
           /\ m_image # NoImage =>
                 /\ m_image \in Images /\ TimerRuns /\ SurfaceRests /\ ScreenFollows
                 /\ LoadingOK(FileOf(m_image), image[m_image])
                 /\ LoadingOK(ShownFile, Shown)
<1>1. /\ start \in Starts /\ DOMAIN image = Images /\ m_image \in ImagesOrNone
      /\ view \in ViewType /\ m_props \in PropsType /\ area \in Size
  BY DEF RepaintInvariant, ViewInvariant, TypesOK, ViewType
<1>2. ImagesLoad /\ events \in Seq(Event) /\ (m_image # NoImage => Followed)
  BY DEF RepaintInvariant, Repaints
<1> QED BY <1>1, <1>2 DEF ImagesOrNone, Followed, ImagesLoad, Shown, ShownFile

\* The image that is shown is calculated again, and will be painted.
LEMMA Refitted ==
    ASSUME RepaintInvariant, NEW props \in PropsType, NEW v \in ViewType, NEW size \in Size,
           PerformOnSize(image, m_image, props, v, size),
           UNCHANGED <<start, image, events, m_image, timer>>,
           painting = "no", painting' \in {"no", "update"}
    PROVE  Repaints'
<1>1. ImagesLoad' /\ events' \in Seq(Event)
  BY WhatIsShown DEF ImagesLoad, FileOf
<1>2. ASSUME m_image' # NoImage PROVE Followed'
  <2>1. /\ start \in Starts /\ DOMAIN image = Images /\ m_image \in Images
        /\ TimerRuns /\ SurfaceRests /\ ScreenFollows
    BY <1>2, WhatIsShown
  <2>2. PICK surface, picture :
           /\ surface = SizeOf(FileOf(m_image), image[m_image].composer, image[m_image].rows)
           /\ picture = PictureSize(FileOf(m_image), image[m_image])
    OBVIOUS
  <2>3. /\ IsPositive(surface) =>
              FitsZoom(surface, picture, Angle(props), m_props'.Zoom, view'.imageZoom)
        /\ Angle(m_props') = Angle(props)
        /\ invalid'
    BY <2>1, <2>2, PerformOnSizeFits
  <2>4. Shown' = Shown /\ ShownFile' = ShownFile /\ (Due' <=> Due)
    BY DEF Shown, ShownFile, FileOf, Due
  <2>5. (Moving' <=> Moving) /\ (Settles' <=> Settles)
    BY <2>4 DEF Moving, Settles
  <2>6. /\ surface = SizeOf(ShownFile', Shown'.composer, Shown'.rows)
        /\ picture = PictureSize(ShownFile', Shown')
    BY <2>2, <2>4 DEF Shown, ShownFile
  <2>7. ZoomFits'
    BY <2>3, <2>6 DEF ZoomFits
  <2> QED BY <2>1, <2>3, <2>4, <2>5, <2>7 DEF Followed, TimerRuns, SurfaceRests, ScreenFollows
<1> QED BY <1>1, <1>2 DEF Repaints

\* Nothing is calculated, and what changes of the view is painted.
LEMMA OnlyRepainted ==
    ASSUME RepaintInvariant, UNCHANGED <<start, image, events, m_image, m_props, area, timer, screen>>,
           view'.imageZoom = view.imageZoom, painting = "no", painting' = "no",
           \/ invalid'
           \/ UNCHANGED invalid /\ (keyPanned' \/ (UNCHANGED keyPanned /\ view'.pan = view.pan))
    PROVE  Repaints'
<1>1. ImagesLoad' /\ events' \in Seq(Event)
  BY WhatIsShown DEF ImagesLoad, FileOf
<1>2. ASSUME m_image' # NoImage PROVE Followed'
  <2>1. TimerRuns /\ SurfaceRests /\ ScreenFollows
    BY <1>2, WhatIsShown
  <2>2. Shown' = Shown /\ ShownFile' = ShownFile /\ (Due' <=> Due)
    BY DEF Shown, ShownFile, FileOf, Due
  <2>3. (Moving' <=> Moving) /\ (Settles' <=> Settles) /\ (ZoomFits' <=> ZoomFits)
    BY <2>2 DEF Moving, Settles, ZoomFits, FitsZoom
  <2>4. CASE UNCHANGED invalid /\ (keyPanned' \/ (UNCHANGED keyPanned /\ view'.pan = view.pan))
    <3>1. Current => Current'
      <4>1. image'[m_image] = image[m_image]
        OBVIOUS
      <4> QED BY <2>4, <4>1, ImageStays
    <3> QED BY <2>1, <2>2, <2>3, <2>4, <3>1 DEF Followed, TimerRuns, SurfaceRests, ScreenFollows
  <2>5. CASE invalid'
    BY <2>1, <2>2, <2>3, <2>5 DEF Followed, TimerRuns, SurfaceRests, ScreenFollows
  <2> QED BY <2>4, <2>5
<1> QED BY <1>1, <1>2 DEF Repaints

\* One image changed, and is in order.
LEMMA ImageChanged ==
    ASSUME ImagesLoad, DOMAIN image = Images, UNCHANGED start, NEW i \in Images,
           NEW changed, image' = changed, \A j \in Images \ {i} : changed[j] = image[j],
           LoadingOK(FileOf(i), changed[i])
    PROVE  ImagesLoad'
<1>1. ASSUME NEW j \in Images PROVE LoadingOK(FileOf(j), image[j])'
  <2>1. FileOf(j)' = FileOf(j)
    BY DEF FileOf
  <2>2. CASE j = i
    BY <2>1, <2>2
  <2>3. CASE j # i
    BY <2>1, <2>3 DEF ImagesLoad
  <2> QED BY <2>2, <2>3
<1> QED BY <1>1 DEF ImagesLoad

\* ViewPort::Image looks at the image, and sees to the timer.
LEMMA LooksAgain ==
    ASSUME RepaintInvariant, NEW i \in ImagesOrNone, Image(i), UNCHANGED <<start, events>>,
           \/ painting' = "no"
           \/ painting' = "updated" /\ painting = "tick" /\ i = m_image
    PROVE  Repaints'
<1>1. /\ start \in Starts /\ DOMAIN image = Images /\ TypesOK /\ area \in Size
      /\ ImagesLoad /\ events' \in Seq(Event)
  BY WhatIsShown DEF RepaintInvariant, ViewInvariant
<1>2. PICK surfaced : surfaced = CurrentSurface(image, i)
  OBVIOUS
<1>3. PICK img : img = IF i # m_image /\ i # NoImage THEN RestartAnimation(surfaced, i) ELSE surfaced
  OBVIOUS
<1>4. image' = img /\ m_image' = i /\ timer' = TimerFor(img, i)
  BY <1>2, <1>3 DEF Image
<1>5. CASE i = NoImage
  <2>1. image' = image
    BY <1>2, <1>3, <1>4, <1>5 DEF CurrentSurface
  <2> QED BY <1>1, <1>4, <1>5, <2>1 DEF Repaints, ImagesLoad, FileOf
<1>6. CASE i \in Images
  <2>1. PICK f, r, d : f = FileOf(i) /\ r = image[i] /\ d = img[i]
    OBVIOUS
  <2>2. LoadingOK(f, r)
    BY <1>1, <1>6, <2>1 DEF ImagesLoad
  <2>3. /\ DOMAIN surfaced = Images /\ \A j \in Images \ {i} : surfaced[j] = image[j]
        /\ Touched(f, r, surfaced[i])
        /\ ~Moves(f, r) /\ Composes(r) => Settled(surfaced[i].composer)
    BY <1>1, <1>2, <1>6, <2>1, <2>2, SurfaceAsked
  <2>4. /\ DOMAIN img = Images /\ \A j \in Images \ {i} : img[j] = image[j]
        /\ Touched(f, r, d)
        /\ ~Moves(f, r) /\ Composes(r) => Settled(d.composer)
    <3>1. CASE img = surfaced
      BY <2>1, <2>3, <3>1
    <3>2. CASE img = RestartAnimation(surfaced, i)
      <4>1. PICK q : q = surfaced[i]
        OBVIOUS
      <4>2. LoadingOK(f, q)
        BY <2>3, <4>1 DEF Touched
      <4>3. /\ DOMAIN img = Images /\ \A j \in Images \ {i} : img[j] = surfaced[j]
            /\ Touched(f, q, d)
            /\ ~Moves(f, q) /\ Composes(q) => Settled(d.composer)
        BY <1>1, <1>6, <2>1, <2>3, <3>2, <4>1, <4>2, ImageMoved
      <4> QED BY <2>3, <4>1, <4>3 DEF Touched, Composes
    <3> QED BY <1>3, <3>1, <3>2
  <2>5. ImagesLoad'
    BY <1>1, <1>4, <1>6, <2>1, <2>4, ImageChanged DEF Touched
  <2>6. /\ ShownFile' = f /\ Shown' = d
        /\ Moving' <=> Moves(f, r)
    <3>1. ShownFile' = f /\ Shown' = d
      BY <1>4, <2>1 DEF ShownFile, FileOf, Shown
    <3> QED BY <2>4, <3>1 DEF Touched, Moving
  <2>7. timer' <=> Moving' \/ ~Shown'.finished
    <3>1. HasDelayNow(img, i) <=> Moves(f, d)
      BY <1>6, <2>1, <2>4, Reading
    <3>2. i # NoImage
      BY <1>6, ViewPortAssumption
    <3> QED BY <1>4, <2>1, <2>6, <3>1, <3>2 DEF TimerFor, Moving
  <2>8. invalid' /\ ZoomFits'
    <3>1. PICK props \in PropsType, v \in ViewType : PerformOnSize(img, i, props, v, area)
      BY <1>1, <1>4, ImageType
    <3>2. PICK surface, picture : /\ surface = SizeOf(f, d.composer, d.rows)
                                  /\ picture = PictureSize(f, r)
      OBVIOUS
    <3>3. /\ IsPositive(surface) =>
                FitsZoom(surface, picture, Angle(props), m_props'.Zoom, view'.imageZoom)
          /\ Angle(m_props') = Angle(props)
          /\ invalid'
      BY <1>1, <1>6, <2>1, <2>4, <3>1, <3>2, PerformOnSizeFits
    <3>4. picture = PictureSize(f, d)
      BY <2>4, <3>2 DEF PictureSize, Touched
    <3> QED BY <2>6, <3>2, <3>3, <3>4 DEF ZoomFits
  <2>9. Shown'.header /\ ~Moving' /\ Rests(Shown') => Settles'
    <3>1. Shown'.header /\ Rests(Shown') => Composes(r)
      <4>1. r.header /\ r.stage # "header" => r.composer.kind = f.kind
        BY <2>2 DEF LoadingOK
      <4>2. f.kind # "none"
        BY <1>1, <1>6, <2>1, FilesOK DEF FileOK
      <4> QED BY <2>4, <2>6, <4>1, <4>2 DEF Touched, Composes, Rests
    <3> QED BY <2>4, <2>6, <3>1 DEF Settles
  <2>10. painting' = "updated" /\ Moving' =>
            Due' \/ (Shown'.stage = "allocate" /\ ~Shown'.finished)
    <3> SUFFICES ASSUME painting' = "updated", Moving'
                 PROVE  Due' \/ (Shown'.stage = "allocate" /\ ~Shown'.finished)
      OBVIOUS
    <3>1. painting = "tick" /\ i = m_image /\ TimerRuns
      BY <1>6, ViewPortAssumption, WhatIsShown
    <3>2. ShownFile = f /\ Shown = r /\ (Due' <=> Due)
      BY <1>4, <2>1, <3>1 DEF ShownFile, Shown, Due
    <3>3. Moving
      BY <2>6, <3>2 DEF Moving
    <3> QED BY <2>4, <2>6, <3>1, <3>2, <3>3 DEF TimerRuns, Touched
  <2>11. Followed'
    BY <2>7, <2>8, <2>9, <2>10 DEF Followed, TimerRuns, SurfaceRests, ScreenFollows
  <2> QED BY <1>1, <2>5, <2>11 DEF Repaints
<1> QED BY <1>5, <1>6 DEF ImagesOrNone

\* What a step needs that leaves the images and the view alone.
LEMMA NothingIsCalculated ==
    ASSUME RepaintInvariant, UNCHANGED <<start, image, m_image, m_props, view, area>>,
           events' \in Seq(Event), m_image # NoImage => Followed'
    PROVE  Repaints'
<1>1. ImagesLoad'
  BY WhatIsShown DEF ImagesLoad, FileOf
<1> QED BY <1>1 DEF Repaints

\* ImageRefreshCallback.
LEMMA TickFollows ==
    ASSUME RepaintInvariant, Tick
    PROVE  Repaints'
<1>1. /\ start \in Starts /\ DOMAIN image = Images /\ m_image \in ImagesOrNone
      /\ ImagesLoad /\ events \in Seq(Event)
  BY WhatIsShown
<1>2. /\ UNCHANGED <<start, events, m_image, m_props, view, area, timer, screen>>
      /\ timer /\ painting = "no"
  BY DEF Tick, viewVars
<1>3. events' \in Seq(Event) /\ (Due' <=> Due)
  BY <1>1, <1>2 DEF Due
<1>4. CASE UNCHANGED image /\ painting' = "no"
  <2>1. UNCHANGED <<image, painting>> /\ (invalid' \/ UNCHANGED <<invalid, keyPanned>>)
    BY <1>2, <1>4 DEF Tick
  <2> QED BY <1>2, <2>1, OnlyRepainted
<1>5. CASE UNCHANGED image /\ painting' = "tick" /\ ~HasDelayNow(image, m_image)
  <2>1. ASSUME m_image # NoImage PROVE Followed'
    <3>1. TimerRuns /\ m_image \in Images
      BY <2>1, WhatIsShown
    <3>2. ~Moving
      BY <1>1, <1>5, <3>1, Reading DEF Moving, ShownFile, Shown
    <3>3. Shown' = Shown /\ ShownFile' = ShownFile
      BY <1>2, <1>5 DEF Shown, ShownFile, FileOf
    <3>4. ~Moving'
      BY <3>2, <3>3 DEF Moving
    <3> QED BY <1>5, <3>4 DEF Followed, TimerRuns, SurfaceRests, ScreenFollows
  <2> QED BY <1>2, <1>3, <1>5, <2>1, NothingIsCalculated
<1>6. CASE /\ HasDelayNow(image, m_image)
           /\ image' = [image EXCEPT ![m_image].composer = Advance(@, FramesOf(m_image))]
           /\ invalid' /\ painting' = "no"
  <2>1. CASE m_image \notin Images
    <3>1. DOMAIN image' = Images /\ \A j \in Images : image'[j] = image[j]
      BY <1>1, <1>6, <2>1
    <3>2. ImagesLoad'
      BY <1>1, <1>2, <3>1 DEF ImagesLoad, FileOf
    <3>3. m_image' = NoImage
      BY <1>1, <1>2, <2>1 DEF ImagesOrNone
    <3> QED BY <1>3, <3>2, <3>3 DEF Repaints
  <2>2. CASE m_image \in Images
    <3>1. PICK img : image' = img /\ img = [image EXCEPT ![m_image].composer = Advance(@, FramesOf(m_image))]
      BY <1>6
    <3>2. LoadingOK(FileOf(m_image), image[m_image])
      BY <1>1, <2>2 DEF ImagesLoad
    <3>3. /\ DOMAIN img = Images /\ \A j \in Images \ {m_image} : img[j] = image[j]
          /\ Touched(FileOf(m_image), image[m_image], img[m_image])
      BY <1>1, <1>6, <2>2, <3>1, <3>2, ImageMoved
    <3>4. ImagesLoad'
      BY <1>1, <1>2, <2>2, <3>1, <3>3, ImageChanged DEF Touched
    <3>5. Moves(FileOf(m_image), image[m_image])
      BY <1>1, <1>6, <2>2, Reading
    <3>6. ShownFile' = FileOf(m_image) /\ Shown' = img[m_image]
      BY <1>2, <3>1 DEF ShownFile, FileOf, Shown
    <3>7. Moving'
      BY <3>3, <3>5, <3>6 DEF Touched, Moving
    <3>8. Followed'
      BY <1>2, <1>6, <3>7 DEF Followed, TimerRuns, SurfaceRests, ScreenFollows
    <3> QED BY <1>3, <3>4, <3>8 DEF Repaints
  <2> QED BY <2>1, <2>2
<1> QED BY <1>2, <1>4, <1>5, <1>6 DEF Tick

\* The end of a tick, the events, and the end of a painting.
LEMMA HandlersFollow ==
    ASSUME RepaintInvariant, TickEnd \/ OnImageLoadEvent \/ PaintEnd
    PROVE  Repaints'
<1>1. /\ DOMAIN image = Images /\ events \in Seq(Event)
      /\ UNCHANGED <<start, image, m_image, m_props, view, area, keyPanned, screen>>
  BY WhatIsShown DEF TickEnd, OnImageLoadEvent, PaintEnd, viewVars, decoderVars
<1>2. SUFFICES /\ events' \in Seq(Event)
               /\ m_image # NoImage => Followed'
  BY <1>1, NothingIsCalculated
<1>3. /\ Shown' = Shown /\ (Moving' <=> Moving) /\ (Settles' <=> Settles)
      /\ (ZoomFits' <=> ZoomFits) /\ (Room' <=> Room) /\ (Current => Current')
  <2>1. image'[m_image] = image[m_image]
    BY <1>1
  <2> QED BY <1>1, <2>1, ImageStays
<1>4. m_image # NoImage => m_image \in Images /\ TimerRuns /\ SurfaceRests /\ ScreenFollows
  BY WhatIsShown
<1>5. CASE TickEnd
  <2>1. /\ painting = "updated" /\ painting' = "no" /\ invalid' /\ events' = events
        /\ timer' <=> timer /\ ~Shown.finished
    BY <1>5 DEF TickEnd, Shown, decoderVars
  <2>2. Due' <=> Due
    BY <1>1, <2>1 DEF Due
  <2> QED BY <1>1, <1>3, <1>4, <2>1, <2>2 DEF Followed, TimerRuns, SurfaceRests, ScreenFollows
<1>6. CASE OnImageLoadEvent
  <2>1. /\ events # <<>> /\ painting = "no" /\ events' = Tail(events)
        /\ painting' = IF Head(events).image = m_image /\ HandledEvent(Head(events).message)
                       THEN "update" ELSE "no"
        /\ UNCHANGED <<timer, invalid>>
    BY <1>6 DEF OnImageLoadEvent
  <2>2. /\ events' \in Seq(Event) /\ Head(events) \in Event
        /\ Head(events).image # m_image => (Due' <=> Due)
    <3>1. PICK n \in Nat : n = Len(events)
      BY <1>1, LenProperties
    <3>2. n # 0
      BY <1>1, <2>1, <3>1, EmptySeq
    <3>3. /\ events' \in Seq(Event) /\ Len(events') = n - 1 /\ Head(events) = events[1]
          /\ \A k \in 1..(n - 1) : events'[k] = events[k + 1]
      BY <1>1, <2>1, <3>1, HeadTailProperties
    <3>4. DOMAIN events = 1..n /\ DOMAIN events' = 1..(n - 1)
      BY <1>1, <3>1, <3>3, LenProperties
    <3>5. Head(events) \in Event
      BY <1>1, <3>1, <3>2, <3>3, ElementOfSeq
    <3>6. Due' => Due
      <4> SUFFICES ASSUME NEW k \in 1..(n - 1), events'[k].image = m_image PROVE Due
        BY <1>1, <3>4 DEF Due
      <4>1. k + 1 \in 1..n /\ events[k + 1].image = m_image
        BY <3>3
      <4> QED BY <3>4, <4>1 DEF Due
    <3>7. Head(events).image # m_image /\ Due => Due'
      <4> SUFFICES ASSUME events[1].image # m_image, NEW k \in 1..n, events[k].image = m_image
                   PROVE  Due'
        BY <3>3, <3>4 DEF Due
      <4>1. k - 1 \in 1..(n - 1) /\ (k - 1) + 1 = k
        BY <3>2
      <4>2. events'[k - 1] = events[k]
        BY <3>3, <4>1
      <4> QED BY <1>1, <3>4, <4>1, <4>2 DEF Due
    <3> QED BY <3>3, <3>5, <3>6, <3>7
  <2>3. Head(events).image = m_image => painting' = "update"
    BY <2>1, <2>2 DEF Event, HandledEvent
  <2>4. CASE painting' = "update"
    BY <1>3, <2>2, <2>4 DEF Followed, TimerRuns, SurfaceRests, ScreenFollows
  <2>5. CASE painting' = "no" /\ (Due' <=> Due)
    BY <1>1, <1>3, <1>4, <2>1, <2>2, <2>5 DEF Followed, TimerRuns, SurfaceRests, ScreenFollows
  <2> QED BY <2>1, <2>2, <2>3, <2>4, <2>5
<1>7. CASE PaintEnd
  <2>1. /\ painting \in {"drawn", "drawnFinished"} /\ painting' = "no"
        /\ UNCHANGED <<events, invalid>>
        /\ painting = "drawn" => (timer' <=> timer)
        /\ painting = "drawnFinished" => (timer' <=> timer /\ HasDelayNow(image, m_image))
    BY <1>7 DEF PaintEnd, TimerAfter, decoderVars
  <2>2. Due' <=> Due
    BY <1>1, <2>1 DEF Due
  <2>3. m_image # NoImage => (HasDelayNow(image, m_image) <=> Moving)
    BY <1>1, <1>4, Reading DEF Moving, ShownFile, Shown
  <2> QED BY <1>1, <1>3, <1>4, <2>1, <2>2, <2>3 DEF Followed, TimerRuns, SurfaceRests, ScreenFollows
<1> QED BY <1>5, <1>6, <1>7

\* A picture that stands still is shown as it will be when it is asked for again.
LEMMA AskedAgain ==
    ASSUME NEW f, FileOK(f), NEW r, LoadingOK(f, r), Composes(r), Settled(r.composer),
           NEW c, c = Asked(f, r)
    PROVE  /\ SizeOf(f, c, r.rows) = SizeOf(f, r.composer, r.rows)
           /\ ContentOf(f, c, r.rows) = ContentOf(f, r.composer, r.rows)
<1>1. PICK a : a = r.composer
  OBVIOUS
<1>2. a.kind \in {"static", "gif", "webp"} /\ ComposerOK(a) /\ FramesFor(a, f.frames)
  BY <1>1 DEF LoadingOK, FileOK, FramesFor, Composes
<1>3. c = RequestCurrentSurface(a, f.frames)
  BY <1>1 DEF Asked, Composes
<1>4. SameKind(a, c) /\ c.current = a.current /\ c.canvas = a.canvas
  BY <1>1, <1>2, <1>3, SettledStays
<1>5. SizeOf(f, c, r.rows) = SizeOf(f, a, r.rows)
  BY <1>4 DEF SizeOf
<1>6. ShownContent(c, f.frames) = ShownContent(a, f.frames)
  BY <1>4 DEF ShownContent, SameKind
<1>7. ContentOf(f, c, r.rows) = ContentOf(f, a, r.rows)
  BY <1>4, <1>6 DEF ContentOf, SameKind
<1> QED BY <1>1, <1>5, <1>7

\* A picture without a size has no room on the screen.
LEMMA NoPictureNoRoom ==
    ASSUME NEW props, NEW v, v.imageZoom \in Factor, NEW window
    PROVE  ~HasRoom(<<0, 0>>, props, v, window)
<1>1. PICK n \in Nat, d \in Nat \ {0} : n = v.imageZoom[1] /\ d = v.imageZoom[2]
  BY DEF Factor
<1>2. UnzoomedSize(<<0, 0>>, Angle(props)) = <<0, 0>>
  BY DEF UnzoomedSize, Flipped
<1>3. Round(0 * n, d) = 0
  <2>1. d < 2 * d /\ 0 * n = 0
    OBVIOUS
  <2>2. d \div (2 * d) = 0
    BY <2>1
  <2> QED BY <2>1, <2>2 DEF Round
<1>4. Scaled(<<0, 0>>, v.imageZoom)[1] = 0
  BY <1>1, <1>3 DEF Scaled
<1> QED BY <1>2, <1>4 DEF HasRoom, IsPositive

\* PerformOnPaint, before anything is drawn.
LEMMA PaintBeginFollows ==
    ASSUME RepaintInvariant, PaintBegin
    PROVE  Repaints'
<1>1. /\ start \in Starts /\ DOMAIN image = Images /\ m_image \in ImagesOrNone
      /\ ImagesLoad /\ events \in Seq(Event) /\ view.imageZoom \in Factor
  BY WhatIsShown DEF ViewType
<1>2. /\ UNCHANGED <<start, events, m_image, m_props, view, area, timer, keyPanned, screen>>
      /\ invalid' = FALSE /\ painting = "no"
  BY DEF PaintBegin, viewVars
<1>3. events' \in Seq(Event) /\ (Due' <=> Due)
  BY <1>1, <1>2 DEF Due
<1>4. PICK img : img = CurrentSurface(image, m_image) /\ image' = img
  BY DEF PaintBegin
<1>5. CASE m_image = NoImage
  <2>1. image' = image
    BY <1>4, <1>5 DEF CurrentSurface
  <2> QED BY <1>1, <1>2, <1>3, <1>5, <2>1 DEF Repaints, ImagesLoad, FileOf
<1>6. CASE m_image \in Images
  <2>1. PICK f, r, d : f = FileOf(m_image) /\ r = image[m_image] /\ d = img[m_image]
    OBVIOUS
  <2>2. /\ m_image # NoImage /\ TimerRuns /\ SurfaceRests /\ LoadingOK(f, r)
    BY <1>6, <2>1, ViewPortAssumption, WhatIsShown
  <2>3. /\ DOMAIN img = Images /\ \A j \in Images \ {m_image} : img[j] = image[j]
        /\ Touched(f, r, d)
        /\ Settled(r.composer) => Settled(d.composer) /\ d.composer.current = r.composer.current
    BY <1>1, <1>4, <1>6, <2>1, <2>2, SurfaceAsked
  <2>4. ImagesLoad'
    BY <1>1, <1>2, <1>4, <1>6, <2>1, <2>3, ImageChanged DEF Touched
  <2>5. /\ ShownFile' = f /\ Shown' = d /\ ShownFile = f /\ Shown = r
    BY <1>2, <1>4, <2>1 DEF ShownFile, FileOf, Shown
  <2>6. Moving' <=> Moving
    BY <2>3, <2>5 DEF Touched, Moving
  <2>7. d.stage = r.stage /\ d.finished = r.finished /\ d.header = r.header /\ d.rows = r.rows
    BY <2>3 DEF Touched
  <2>8. Settles => Settles' /\ (ZoomFits => ZoomFits')
    <3> SUFFICES ASSUME Settles PROVE Settles' /\ (ZoomFits => ZoomFits')
      OBVIOUS
    <3>1. Settled(d.composer) /\ d.composer.current = r.composer.current
      BY <2>3, <2>5 DEF Settles
    <3>2. PICK size, picture : /\ size = SizeOf(f, r.composer, r.rows) /\ size = SizeOf(f, d.composer, d.rows)
                               /\ picture = PictureSize(f, r) /\ picture = PictureSize(f, d)
      BY <2>7, <3>1 DEF SizeOf, PictureSize
    <3> QED BY <1>2, <2>5, <3>1, <3>2 DEF Settles, ZoomFits, FitsZoom
  <2>9. PICK picture : picture = PictureSize(f, r) /\ picture = PictureSize(f, d)
    BY <2>7 DEF PictureSize
  <2>10. picture = GetSize(m_image)
    BY <1>1, <1>6, <2>1, <2>9, Reading
  <2>11. Room' <=> HasRoom(picture, m_props, view, area)
    BY <1>2, <2>5, <2>9 DEF Room, HasRoom
  <2>12. ~r.header => ~Room'
    <3>1. ~r.header => picture = <<0, 0>>
      BY <2>9 DEF PictureSize
    <3> QED BY <1>1, <2>11, <3>1, NoPictureNoRoom
  <2>13. painting' = IF r.header /\ Room' THEN (IF r.finished THEN "finished" ELSE "unfinished")
                     ELSE "clear"
    <3>1. HasRoom(picture, m_props, view, area) <=>
             IsPositive(area) /\ IsPositive(ZoomedSize(m_image, m_props, view.imageZoom))
      BY <2>10 DEF HasRoom, ZoomedSize
    <3> QED BY <2>1, <2>2, <2>11, <3>1 DEF PaintBegin
  <2>14. TimerRuns'
    BY <1>2, <1>3, <2>2, <2>5, <2>6, <2>7, <2>13 DEF TimerRuns
  <2>15. SurfaceRests'
    BY <1>2, <1>3, <2>2, <2>5, <2>6, <2>7, <2>8 DEF SurfaceRests, Rests
  <2>16. ScreenFollows'
    BY <2>12, <2>13 DEF ScreenFollows
  <2> QED BY <1>3, <2>4, <2>14, <2>15, <2>16 DEF Repaints, Followed
<1> QED BY <1>1, <1>5, <1>6 DEF ImagesOrNone

\* What is drawn of a picture that stands still is what there is to see.
LEMMA PaintRenderFollows ==
    ASSUME RepaintInvariant, PaintRender
    PROVE  Repaints'
<1>1. /\ start \in Starts /\ DOMAIN image = Images /\ events \in Seq(Event)
  BY WhatIsShown
<1>2. /\ UNCHANGED <<start, image, events, m_image, m_props, view, area, timer, invalid>>
      /\ painting \in {"clear", "finished", "unfinished"} /\ keyPanned' = FALSE
      /\ screen' = IF painting = "clear" THEN Cleared ELSE Drawn(m_image)
      /\ painting' = IF painting = "clear" THEN "no"
                     ELSE IF painting = "finished" THEN "drawnFinished" ELSE "drawn"
  BY DEF PaintRender, decoderVars
<1>3. events' \in Seq(Event) /\ (Due' <=> Due)
  BY <1>1, <1>2 DEF Due
<1>4. ASSUME m_image # NoImage PROVE Followed'
  <2>1. /\ m_image \in Images /\ TimerRuns /\ SurfaceRests /\ ScreenFollows
        /\ LoadingOK(ShownFile, Shown)
    BY <1>4, WhatIsShown
  <2>2. PICK f, r : f = ShownFile /\ r = Shown
    OBVIOUS
  <2>3. /\ ShownFile' = f /\ Shown' = r /\ FileOf(m_image) = f /\ image[m_image] = r
    BY <1>2, <2>2 DEF ShownFile, FileOf, Shown
  <2>4. (Moving' <=> Moving) /\ (Settles' <=> Settles)
    BY <2>2, <2>3 DEF Moving, Settles
  <2>5. PICK size, picture, content :
           /\ size = SizeOf(f, r.composer, r.rows) /\ picture = PictureSize(f, r)
           /\ content = ContentOf(f, r.composer, r.rows)
    OBVIOUS
  <2>6. (ZoomFits' <=> ZoomFits) /\ (Room' <=> Room) /\ (Room <=> HasRoom(picture, m_props, view, area))
    BY <1>2, <2>2, <2>3, <2>5 DEF ZoomFits, FitsZoom, Room, HasRoom
  <2>7. TimerRuns' /\ SurfaceRests'
    BY <1>2, <1>3, <2>1, <2>2, <2>3, <2>4, <2>6 DEF TimerRuns, SurfaceRests
  <2>8. PICK c, asked, shown : /\ c = Asked(f, r) /\ asked = SizeOf(f, c, r.rows)
                               /\ shown = ContentOf(f, c, r.rows)
    OBVIOUS
  <2>9. Current' <=> ScreenIs(asked, shown, picture, m_image, m_props, view, area, FALSE, screen')
    BY <1>2, <2>3, <2>5, <2>8 DEF Current
  <2>10. screen' = Cleared /\ ~Room => Current'
    BY <2>6, <2>9 DEF ScreenIs
  <2>11. ASSUME painting = "finished", ~Due, Shown.header, ~Moving, Final(Shown)
         PROVE  Current'
    <3>1. Room /\ Settles /\ ZoomFits
      BY <2>1, <2>11 DEF ScreenFollows, SurfaceRests, Final, Rests
    <3>2. Composes(r) /\ FileOK(f)
      <4>1. r.header /\ r.stage # "header"
        BY <2>2, <2>11 DEF Final
      <4>2. FileOK(f)
        BY <1>1, <2>1, <2>3, FilesOK
      <4> QED BY <2>1, <2>2, <4>1, <4>2 DEF Composes, LoadingOK, FileOK
    <3>3. asked = size /\ shown = content
      BY <2>1, <2>2, <2>5, <2>8, <3>1, <3>2, AskedAgain DEF Settles
    <3>4. SurfaceSize(image, m_image) = size /\ SurfaceContent(image, m_image) = content
      BY <1>1, <2>1, <2>3, <2>5, Reading
    <3>5. IsPositive(size) =>
             FitsZoom(size, picture, Angle(m_props), m_props.Zoom, view.imageZoom)
      BY <2>2, <2>5, <3>1 DEF ZoomFits
    <3>6. CASE ~IsPositive(size)
      BY <1>2, <2>9, <2>11, <3>3, <3>4, <3>6 DEF Drawn, ScreenIs
    <3>7. CASE IsPositive(size)
      <4>1. PICK pixels, pan, turn : /\ pixels = Scaled(size, m_props.Zoom)
                                     /\ pan = TopLeft(view.pan) /\ turn = Angle(m_props)
        OBVIOUS
      <4>2. screen' = [image |-> m_image, content |-> content, zoom |-> m_props.Zoom,
                       size |-> pixels, pan |-> pan, angle |-> turn, area |-> area]
        BY <1>2, <2>11, <3>4, <3>7, <4>1 DEF Drawn
      <4>3. /\ screen'.image = m_image /\ screen'.content = content
            /\ screen'.zoom = m_props.Zoom /\ screen'.pan = pan
            /\ screen'.angle = turn /\ screen'.area = area
        BY <4>2
      <4>4. FitsZoom(size, picture, Angle(m_props), screen'.zoom, view.imageZoom)
        BY <3>5, <3>7, <4>3
      <4> QED BY <2>6, <2>9, <3>1, <3>3, <3>7, <4>1, <4>3, <4>4 DEF ScreenIs
    <3> QED BY <3>6, <3>7
  <2>12. ScreenFollows'
    BY <1>2, <1>3, <2>1, <2>2, <2>3, <2>4, <2>6, <2>10, <2>11 DEF ScreenFollows
  <2> QED BY <2>7, <2>12 DEF Followed
<1> QED BY <1>2, <1>3, <1>4, NothingIsCalculated

\* The actions of the user.
LEMMA UserFollows ==
    ASSUME RepaintInvariant, User
    PROVE  Repaints'
<1>1. /\ view \in ViewType /\ m_props \in PropsType /\ area \in Size
      /\ view.pan \in PanType /\ view.zoom \in ZoomType
  BY WhatIsShown DEF ViewType
<1>2. ASSUME NEW i \in Images, Show(i) PROVE Repaints'
  <2>1. Image(i) /\ i \in ImagesOrNone /\ painting' = "no" /\ UNCHANGED <<start, events>>
    BY <1>2 DEF Show, Act, ImagesOrNone
  <2> QED BY <2>1, LooksAgain
<1>3. ASSUME NEW requested \in RotationAngle, Rotate(requested) PROVE Repaints'
  <2>1. PICK props \in PropsType : props = [m_props EXCEPT !.RequestedAngle = requested]
    BY <1>1 DEF PropsType
  <2>2. /\ PerformOnSize(image, m_image, props, view, area)
        /\ UNCHANGED <<start, image, events, m_image, timer>>
        /\ painting = "no" /\ painting' = "update"
    BY <1>3, <2>1 DEF Rotate, Act, decoderVars
  <2> QED BY <1>1, <2>2, Refitted
<1>4. ASSUME NEW direction \in {"in", "out"}, ZoomStep(direction) PROVE Repaints'
  <2>1. PICK step : step = ZoomStepFrom(direction)
    OBVIOUS
  <2>2. PICK zoom \in ZoomType : zoom = step.zoom
    <3>1. PICK from \in ZoomType : from = view.zoom
      BY <1>1
    <3>2. ZoomIn(from).zoom \in ZoomType /\ ZoomOut(from).zoom \in ZoomType
      BY StepType
    <3> QED BY <2>1, <3>1, <3>2 DEF ZoomStepFrom
  <2>3. PICK v : v = [view EXCEPT !.zoom = zoom]
    OBVIOUS
  <2>4. v \in ViewType /\ v.imageZoom = view.imageZoom /\ v.pan = view.pan
    BY <1>1, <2>3 DEF ViewType
  <2>5. /\ IF step.changed THEN PerformOnSize(image, m_image, m_props, v, area)
           ELSE view' = v /\ UNCHANGED <<m_props, invalid>>
        /\ UNCHANGED <<start, image, events, m_image, area, timer, keyPanned, screen>>
        /\ painting = "no" /\ painting' = "no"
    BY <1>4, <2>1, <2>2, <2>3, <2>4 DEF ZoomStep, Act, decoderVars
  <2>6. CASE step.changed
    BY <1>1, <2>4, <2>5, <2>6, Refitted
  <2>7. CASE ~step.changed
    <3>1. view'.imageZoom = view.imageZoom /\ view'.pan = view.pan /\ UNCHANGED <<m_props, invalid>>
      BY <2>4, <2>5, <2>7
    <3> QED BY <2>5, <3>1, OnlyRepainted
  <2> QED BY <2>6, <2>7
<1>5. ASSUME NEW mode \in {"FitImage", "FullSize"}, SetZoomMode(mode) PROVE Repaints'
  <2>1. PICK zoom \in ZoomType : zoom = [view.zoom EXCEPT !.mode = mode]
    BY <1>1 DEF ZoomType, ZoomMode
  <2>2. [view EXCEPT !.zoom.mode = mode] = [view EXCEPT !.zoom = zoom]
    BY <2>1
  <2>3. PICK v \in ViewType : v = [view EXCEPT !.zoom.mode = mode]
    BY <1>1, <2>2 DEF ViewType
  <2>4. /\ PerformOnSize(image, m_image, m_props, v, area)
        /\ UNCHANGED <<start, image, events, m_image, timer>>
        /\ painting = "no" /\ painting' = "no"
    BY <1>5, <2>3 DEF SetZoomMode, Act, decoderVars
  <2> QED BY <1>1, <2>4, Refitted
<1>6. ASSUME NEW distance \in PanSteps, MousePan(distance) \/ KeyPan(distance)
      PROVE  Repaints'
  <2>1. PICK pan : view' = [view EXCEPT !.pan = pan]
    BY <1>6 DEF MousePan, KeyPan, Panned
  <2>2. view'.imageZoom = view.imageZoom
    BY <1>1, <2>1 DEF ViewType
  <2>3. /\ UNCHANGED <<start, image, events, m_image, m_props, area, timer, screen>>
        /\ painting = "no" /\ painting' = "no"
        /\ invalid' \/ (UNCHANGED invalid /\ keyPanned')
    BY <1>6 DEF MousePan, KeyPan, Panned, Act, decoderVars
  <2> QED BY <2>2, <2>3, OnlyRepainted
<1>7. ASSUME NEW size \in Areas, Resize(size) PROVE Repaints'
  <2>1. /\ PerformOnSize(image, m_image, m_props, view, size)
        /\ UNCHANGED <<start, image, events, m_image, timer>>
        /\ painting = "no" /\ painting' = "no"
    BY <1>7 DEF Resize, Act, decoderVars
  <2>2. size \in Size
    BY ViewPortAssumption DEF Size
  <2> QED BY <1>1, <2>1, <2>2, Refitted
<1>8. CASE Expose
  <2>1. /\ UNCHANGED <<start, image, events, m_image, m_props, view, area, timer, screen>>
        /\ painting = "no" /\ painting' = "no" /\ invalid'
    BY <1>8 DEF Expose, Act, decoderVars, viewVars
  <2> QED BY <2>1, OnlyRepainted
<1> QED BY <1>2, <1>3, <1>4, <1>5, <1>6, <1>7, <1>8 DEF User, Turn

\* The images a behaviour begins with.
LEMMA ImagesBegin ==
    ASSUME Init
    PROVE  ImagesLoad
<1>1. /\ start \in Starts /\ start \in Start
      /\ \A i \in start.loaded : Files[start.files[i]].broken = "no"
  BY ViewPortAssumption DEF Init
<1> SUFFICES ASSUME NEW i \in Images PROVE LoadingOK(FileOf(i), image[i])
  BY DEF ImagesLoad
<1>2. PICK f : f = FileOf(i)
  OBVIOUS
<1>3. f \in File /\ Files[start.files[i]] = f
  BY <1>1, <1>2, ViewPortAssumption DEF FileOf, Start
<1>4. image[i] = IF i \in start.loaded THEN LoadedImage(start.files[i]) ELSE LoadingImage
  BY DEF Init
<1>5. LoadingOK(f, LoadingImage)
  <2>1. ComposerOK(NoComposer) /\ NoComposer.kind = "none"
    BY DEF NoComposer, NewComposer, ComposerOK, ComposerFields
  <2> QED BY <2>1 DEF LoadingImage, LoadingOK, ImageFields, PreviewStages, OnPreview
<1>6. ASSUME i \in start.loaded
      PROVE  LoadingOK(f, LoadedImage(start.files[i]))
  <2>1. PICK parts \in Int : parts = IF f.kind = "static" THEN 2 ELSE Len(f.frames)
    <3>1. f.frames \in Seq(Frame)
      BY <1>3 DEF File
    <3>2. Len(f.frames) \in Nat
      BY <3>1, LenProperties
    <3> QED BY <3>2
  <2>2. PICK a, l : /\ a = (NewComposer(f.kind).kind = "gif")
                    /\ l = IF NewComposer(f.kind).kind = "static" THEN 0 ELSE parts
    OBVIOUS
  <2>3. PICK c : c = [NewComposer(f.kind) EXCEPT !.allocated = a, !.loading = l]
    OBVIOUS
  <2>4. ComposerOK(c) /\ c.kind = f.kind
    BY <2>3 DEF NewComposer, ComposerOK, ComposerFields, Want
  <2>5. LoadedImage(start.files[i]) =
          [stage |-> "done", header |-> TRUE, finished |-> TRUE, composer |-> c,
           rows |-> [fast |-> -1, full |-> parts]]
    BY <1>3, <2>1, <2>2, <2>3 DEF LoadedImage
  <2>6. f.broken = "no"
    BY <1>1, <1>3, <1>6
  <2> QED BY <2>4, <2>5, <2>6 DEF LoadingOK, ImageFields, PreviewStages, OnPreview
<1> QED BY <1>2, <1>4, <1>5, <1>6

\* RepaintInvariant holds in every behaviour: whatever the decoder does to the
\* image that is shown, the timer runs on or one of its events is due.
THEOREM RepaintInvariance == Spec => []RepaintInvariant
<1>1. Init => Repaints
  <2> SUFFICES ASSUME Init PROVE Repaints
    OBVIOUS
  <2>1. events \in Seq(Event) /\ m_image = NoImage
    BY EmptySeq DEF Init
  <2> QED BY <2>1, ImagesBegin DEF Repaints
<1>2. ViewInvariant /\ Repaints /\ [Next]_vars => Repaints'
  <2> SUFFICES ASSUME RepaintInvariant, [Next]_vars PROVE Repaints'
    BY DEF RepaintInvariant
  <2>1. CASE UNCHANGED vars
    <3>1. /\ UNCHANGED <<start, image, events, m_image, m_props, view, area, timer, invalid>>
          /\ UNCHANGED <<keyPanned, painting, screen>>
      BY <2>1 DEF vars
    <3>2. Repaints
      BY DEF RepaintInvariant
    <3> QED BY <3>1, <3>2 DEF Repaints, ImagesLoad, FileOf, Followed, TimerRuns, SurfaceRests,
                ScreenFollows, Shown, ShownFile, Moving, Due, Settles, ZoomFits, FitsZoom, Room,
                HasRoom, Current, ScreenIs
  <2>2. CASE ImageUpdated
    <3>1. /\ Image(m_image) /\ UNCHANGED <<start, events>>
          /\ painting' = IF painting = "tick" THEN "updated" ELSE "no"
      BY <2>2 DEF ImageUpdated
    <3> QED BY <3>1, WhatIsShown, LooksAgain
  <2>3. ASSUME NEW i \in Images, Decoder(i) \/ Deallocate(i) PROVE Repaints'
    BY <2>3, DecoderFollows
  <2> QED BY <2>1, <2>2, <2>3, UserFollows, TickFollows, HandlersFollow, PaintBeginFollows,
             PaintRenderFollows DEF Next, Paint
<1> QED BY <1>1, <1>2, ViewInvariance, PTL DEF Spec, RepaintInvariant

\* StaleScreenIsRepainted: whenever nothing will paint the picture again, the
\* screen shows it as it is decoded, zoomed, turned and panned.
THEOREM StaleScreensAreRepainted == Spec => []StaleScreenIsRepainted
<1>1. RepaintInvariant => StaleScreenIsRepainted
  <2> SUFFICES ASSUME RepaintInvariant, m_image # NoImage,
                      painting = "no", ~(invalid \/ timer \/ Due), Shown.stage = "done"
               PROVE  UpToDate
    BY DEF StaleScreenIsRepainted, Due, Shown
  <2>1. /\ DOMAIN image = Images /\ m_image \in Images /\ ScreenFollows
        /\ LoadingOK(ShownFile, Shown)
    BY WhatIsShown
  <2>2. Current
    BY <2>1 DEF ScreenFollows, Final
  <2>3. DOMAIN Shown = ImageFields
    BY <2>1 DEF LoadingOK
  <2> QED BY <2>1, <2>2, <2>3, ReadsUpToDate
<1> QED BY <1>1, RepaintInvariance, PTL

=============================================================================
