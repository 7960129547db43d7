---------------------------- MODULE ViewerProofs ----------------------------
(***************************************************************************)
(* What holds of the sessions for displays, images, settings and shortcuts *)
(* of any number and size: the parts of the viewer agree with its settings,*)
(* the window stays on a display, only what the user edited changes, the   *)
(* next session finds what the last one left, the mouse is given back, and *)
(* an image that is shown again finds the window where it was for it.      *)
(* The handlers take and give states, so most lemmas are about states:     *)
(* what a handler leaves alone (Keeps, Quiet, Leaves), what it upholds     *)
(* (Steady), and that the dialog says what the settings are (Filled). From *)
(* them follows SessionInv, one lemma for each action, and what it implies.*)
(***************************************************************************)
EXTENDS Viewer, SequenceTheorems, FiniteSetTheorems, WellFoundedInduction, TLAPS

-----------------------------------------------------------------------------
(* The state of a viewer, its shape, and what it is made of.               *)

\* The parts of a viewer's state, of its window, of its zoom, and its settings.
ViewerParts ==
    {"win", "used", "image", "turned", "zoom", "imageZoom", "menu", "list", "at", "forward",
     "known", "pending", "adjust", "placed", "placedBy", "onTopLost"}
StateParts == ViewerParts \cup {"cfg", "dialog"}
WinParts ==
    {"rect", "normalRect", "restored", "maximized", "iconized", "fullscreen", "bar", "style",
     "previousStyle", "previousRegion"}
ZoomParts == {"mode", "level", "lastFit"}
CfgParts == Fields \cup {"Bindings"}
Anchors == {"AnchorTL", "AnchorCenter"}

IsState(s) == s = [part \in StateParts |-> s[part]]

Factor == Int \X (Nat \ {0})
ZoomOK(z) ==
    /\ DOMAIN z = ZoomParts
    /\ z.level \in 1..Len(ZoomLevels) /\ z.lastFit \in Factor

WinOK(w) ==
    /\ DOMAIN w = WinParts
    /\ w.rect \in Rect /\ w.normalRect \in Rect /\ w.restored \in Rect
    /\ w.previousRegion \in Rect

CfgOK(c) ==
    /\ DOMAIN c = CfgParts
    /\ c.AnchorTL \in Point /\ c.AnchorCenter \in Point
    /\ c.Pos \in Point /\ c.WindowSize \in Point

\* A state as the handlers take and give it.
Shape(s) ==
    /\ IsState(s)
    /\ WinOK(s.win)
    /\ CfgOK(s.cfg)
    /\ ZoomOK(s.zoom) /\ s.imageZoom \in Factor
    /\ s.known \subseteq Images

\* The settings are the same, but for where the window is held.
SameSettings(c, e) ==
    /\ DOMAIN e = CfgParts
    /\ \A f \in CfgParts \ Anchors : e[f] = c[f]

\* What the viewer leaves alone when it moves its window or fits the picture.
Keeps(s, t) ==
    /\ Shape(t)
    /\ SameSettings(s.cfg, t.cfg)
    /\ \A part \in StateParts \ {"cfg", "win", "zoom", "imageZoom", "placedBy"} : t[part] = s[part]
    /\ t.zoom.mode = s.zoom.mode /\ t.zoom.level = s.zoom.level
    /\ \A part \in WinParts \ {"rect", "normalRect", "bar"} : t.win[part] = s.win[part]
    /\ t.win.bar = s.win.bar \/ (s.win.fullscreen /\ t.win.bar = FALSE)

\* The state that Now makes of the variables, and that Become takes apart.
LEMMA NowIs ==
    ASSUME DOMAIN viewer = ViewerParts
    PROVE  /\ IsState(Now) /\ Now.cfg = cfg /\ Now.dialog = dialog
           /\ \A part \in ViewerParts : Now[part] = viewer[part]
BY DEF Now, IsState, StateParts, ViewerParts

\* What Become leaves in the variables.
LEMMA BecomeIs ==
    ASSUME NEW s, IsState(s), Become(s)
    PROVE  /\ cfg' = s.cfg /\ dialog' = s.dialog
           /\ DOMAIN viewer' = ViewerParts
           /\ \A part \in ViewerParts : viewer'[part] = s[part]
BY DEF Become, IsState, StateParts, ViewerParts

\* Now gives back the state Become took apart.
LEMMA NowIsNext ==
    ASSUME NEW s, IsState(s), Become(s)
    PROVE  Now' = s
<1>1. /\ cfg' = s.cfg /\ dialog' = s.dialog /\ DOMAIN viewer' = ViewerParts
      /\ \A part \in ViewerParts : viewer'[part] = s[part]
  BY BecomeIs
<1>2. Now' = [part \in StateParts |-> Now'[part]]
  BY <1>1 DEF Now, StateParts, ViewerParts
<1>3. \A part \in StateParts : Now'[part] = s[part]
  BY <1>1 DEF Now, StateParts, ViewerParts
<1> QED BY <1>2, <1>3 DEF IsState

\* A part of a state is given another value.
LEMMA Update ==
    ASSUME NEW s, IsState(s), NEW part \in StateParts, NEW v
    PROVE  /\ IsState([s EXCEPT ![part] = v]) /\ [s EXCEPT ![part] = v][part] = v
           /\ \A rest \in StateParts \ {part} : [s EXCEPT ![part] = v][rest] = s[rest]
BY DEF IsState

\* A state keeps itself.
LEMMA KeepsSelf ==
    ASSUME NEW s, Shape(s)
    PROVE  Keeps(s, s)
BY DEF Keeps, Shape, SameSettings, CfgOK

\* Two steps that keep these keep them together.
LEMMA KeepsAgain ==
    ASSUME NEW s, NEW t, NEW u, Keeps(s, t), Keeps(t, u)
    PROVE  Keeps(s, u)
BY DEF Keeps, SameSettings, WinParts

-----------------------------------------------------------------------------
(* Points, rectangles, displays and zoom levels.                           *)

\* Points, and what is computed of them.
LEMMA PlusIs ==
    ASSUME NEW p \in Point, NEW q \in Point
    PROVE  Plus(p, q) \in Point /\ \A a \in Axis : Plus(p, q)[a] = p[a] + q[a]
BY DEF Plus, Point, Axis

\* The difference of two points, coordinate by coordinate.
LEMMA MinusIs ==
    ASSUME NEW p \in Point, NEW q \in Point
    PROVE  Minus(p, q) \in Point /\ \A a \in Axis : Minus(p, q)[a] = p[a] - q[a]
BY DEF Minus, Point, Axis

\* The smaller coordinates of two points.
LEMMA SmallerIs ==
    ASSUME NEW p \in Point, NEW q \in Point
    PROVE  /\ Smaller(p, q) \in Point
           /\ \A a \in Axis : Smaller(p, q)[a] = IF p[a] < q[a] THEN p[a] ELSE q[a]
BY DEF Smaller, Point, Axis

\* The larger coordinates of two points.
LEMMA LargerIs ==
    ASSUME NEW p \in Point, NEW q \in Point
    PROVE  /\ Larger(p, q) \in Point
           /\ \A a \in Axis : Larger(p, q)[a] = IF p[a] < q[a] THEN q[a] ELSE p[a]
BY DEF Larger, Point, Axis

\* A corner and a size make a rectangle.
LEMMA RectIs ==
    ASSUME NEW p \in Point, NEW q \in Point
    PROVE  LET r == [pos |-> p, size |-> q] IN r \in Rect /\ r.pos = p /\ r.size = q
BY DEF Rect

\* The points the code names are points.
LEMMA PointValues ==
    /\ <<0, 0>> \in Point /\ <<1, 1>> \in Point
    /\ MinWindow \in Point /\ Border \in Point /\ <<0, BarHeight>> \in Point
    /\ \A a \in Axis : <<0, 0>>[a] = 0 /\ <<1, 1>>[a] = 1 /\ MinWindow[a] >= 0 /\ Border[a] >= 0
BY WindowAssumption DEF Point, Axis

\* Half a point is a point, and not below zero where the point is not.
LEMMA HalfType ==
    ASSUME NEW p \in Point
    PROVE  /\ Half(p) \in Point
           /\ \A a \in Axis : p[a] >= 0 => 0 <= Half(p)[a] /\ Half(p)[a] <= p[a]
<1>1. ASSUME NEW a \in Axis
      PROVE  /\ (IF p[a] >= -1 THEN (p[a] + 1) \div 2 ELSE -((-1 - p[a]) \div 2)) \in Int
             /\ p[a] >= 0 => 0 <= (p[a] + 1) \div 2 /\ (p[a] + 1) \div 2 <= p[a]
  <2>1. PICK n \in Int : n = p[a]
    BY <1>1 DEF Point
  <2>2. /\ (n + 1) \div 2 \in Int /\ ((-1 - n) \div 2) \in Int
        /\ n >= 0 => 0 <= (n + 1) \div 2 /\ (n + 1) \div 2 <= n
    OBVIOUS
  <2> QED BY <2>1, <2>2
<1> QED BY <1>1 DEF Half, Point

\* The parts of a rectangle, and the one that is a pixel smaller.
LEMMA RectOps ==
    ASSUME NEW r \in Rect
    PROVE  /\ r.pos \in Point /\ r.size \in Point
           /\ BottomRight(r) \in Point /\ wxToRect(r) \in Rect
           /\ wxToRect(r).pos = r.pos
           /\ \A a \in Axis : /\ wxToRect(r).size[a] = r.size[a] - 1
                              /\ BottomRight(r)[a] = r.pos[a] + r.size[a]
<1>1. r.pos \in Point /\ r.size \in Point
  BY DEF Rect
<1>2. Minus(r.size, <<1, 1>>) \in Point /\ \A a \in Axis : Minus(r.size, <<1, 1>>)[a] = r.size[a] - 1
  <2>1. PICK one : one = <<1, 1>>
    OBVIOUS
  <2>2. one \in Point /\ \A a \in Axis : one[a] = 1
    BY <2>1, PointValues
  <2>3. Minus(r.size, one) \in Point /\ \A a \in Axis : Minus(r.size, one)[a] = r.size[a] - 1
    BY <1>1, <2>2, MinusIs
  <2> QED BY <2>1, <2>3
<1>3. wxToRect(r) \in Rect /\ wxToRect(r).pos = r.pos /\ wxToRect(r).size = Minus(r.size, <<1, 1>>)
  BY <1>1, <1>2 DEF wxToRect, Rect
<1>4. BottomRight(r) \in Point /\ \A a \in Axis : BottomRight(r)[a] = r.pos[a] + r.size[a]
  BY <1>1, PlusIs DEF BottomRight
<1> QED BY <1>1, <1>2, <1>3, <1>4

\* The displays, the first of them among them.
LEMMA DisplayTypes ==
    ASSUME Arrangement(displays)
    PROVE  /\ 1 \in DOMAIN displays
           /\ \A d \in DOMAIN displays : displays[d] \in Rect
BY DEF Arrangement

\* The desktop of a window is a display, less a pixel.
LEMMA DesktopType ==
    ASSUME Arrangement(displays), NEW s
    PROVE  /\ \E d \in DOMAIN displays :
                /\ DisplayFromPointFallback(s.win.rect.pos) = displays[d]
                /\ Desktop(s) = wxToRect(displays[d])
           /\ Desktop(s) \in Rect /\ Desktop(s).pos \in Point /\ Desktop(s).size \in Point
           /\ DisplayFromPointFallback(s.win.rect.pos) \in Rect
<1>1. PICK p : p = s.win.rect.pos
  OBVIOUS
<1>2. PICK d \in DOMAIN displays : DisplayFromPointFallback(p) = displays[d]
  <2>1. GetFromPoint(p) \subseteq DOMAIN displays
    BY DEF GetFromPoint
  <2>2. CASE GetFromPoint(p) = {}
    BY <2>2, DisplayTypes DEF DisplayFromPointFallback
  <2>3. CASE GetFromPoint(p) # {}
    <3>1. PICK d : d = CHOOSE e \in GetFromPoint(p) : TRUE
      OBVIOUS
    <3>2. d \in GetFromPoint(p)
      BY <2>3, <3>1
    <3> QED BY <2>1, <2>3, <3>1, <3>2 DEF DisplayFromPointFallback
  <2> QED BY <2>2, <2>3
<1>3. displays[d] \in Rect
  BY DisplayTypes
<1> QED BY <1>1, <1>2, <1>3, RectOps DEF Desktop

\* The frame of a window and what it leaves of it.
LEMMA EdgeTypes ==
    ASSUME NEW w, WinOK(w)
    PROVE  /\ WindowEdges(w) \in Point /\ ClientSize(w) \in Point
           /\ \A a \in Axis : WindowEdges(w)[a] >= 0
<1>1. PICK p : p = IF w.style.border THEN Border ELSE <<0, 0>>
  OBVIOUS
<1>2. PICK q : q = <<0, IF w.bar THEN BarHeight ELSE 0>>
  OBVIOUS
<1>3. p \in Point /\ \A a \in Axis : p[a] >= 0
  BY <1>1, PointValues
<1>4. q \in Point /\ \A a \in Axis : q[a] >= 0
  BY <1>2, WindowAssumption DEF Point, Axis
<1>5. WindowEdges(w) = Plus(p, q)
  BY <1>1, <1>2 DEF WindowEdges
<1>6. WindowEdges(w) \in Point /\ \A a \in Axis : WindowEdges(w)[a] >= 0
  <2>1. Plus(p, q) \in Point /\ \A a \in Axis : p[a] \in Int /\ Plus(p, q)[a] = p[a] + q[a]
    BY <1>3, <1>4, PlusIs DEF Point
  <2>2. \A a \in Axis : q[a] \in Int
    BY <1>4 DEF Point
  <2> QED BY <1>3, <1>4, <1>5, <2>1, <2>2
<1>7. w.rect.size \in Point
  BY DEF WinOK, Rect
<1>8. Minus(w.rect.size, WindowEdges(w)) \in Point
  BY <1>6, <1>7, MinusIs
<1> QED BY <1>6, <1>8, LargerIs, PointValues DEF ClientSize

\* The size of the picture shown is a size.
LEMMA ViewportTypes ==
    ASSUME NEW s, Shape(s)
    PROVE  OptimalViewportSize(s) \in Point
<1>1. CASE s.image \notin s.known
  BY <1>1, PointValues DEF OptimalViewportSize
<1>2. CASE s.image \in s.known
  <2>1. SizeOf[s.image] \in (Nat \ {0}) \X (Nat \ {0})
    BY <1>2, WindowAssumption DEF Shape
  <2>2. PICK m \in Nat, n \in Nat : SizeOf[s.image] = <<m, n>>
    BY <2>1
  <2>3. <<m, n>> \in Point /\ <<n, m>> \in Point
    BY DEF Point, Axis
  <2> QED BY <1>2, <2>2, <2>3 DEF OptimalViewportSize
<1> QED BY <1>1, <1>2

\* A size times a factor, to the nearest pixel.
LEMMA ScaledTypes ==
    ASSUME NEW p \in Point, NEW f \in Factor
    PROVE  Zoom!Scaled(p, f) \in Point
<1>1. PICK m \in Int, n \in Nat \ {0} : f = <<m, n>>
  BY DEF Factor
<1>2. ASSUME NEW a \in Axis
      PROVE  Zoom!Round(p[a] * m, n) \in Int
  <2>1. PICK x \in Int : x = p[a] * m
    BY <1>2 DEF Point
  <2>2. PICK y : y = 2 * x + n
    OBVIOUS
  <2>3. PICK z : z = 2 * n
    OBVIOUS
  <2>4. y \in Int /\ z \in Nat \ {0}
    BY <2>2, <2>3
  <2>5. y \div z \in Int
    BY <2>4
  <2> QED BY <2>1, <2>2, <2>3, <2>5 DEF Zoom!Round
<1> QED BY <1>1, <1>2 DEF Zoom!Scaled, Point, Axis

\* The factor that fits one size into another is a positive one.
LEMMA FitScaleTypes ==
    ASSUME NEW area \in Point, NEW size \in Point, size[1] > 0, size[2] > 0, NEW behaviour
    PROVE  Zoom!FitScale(area, size, behaviour) \in Factor
<1>1. PICK c : c = <<area[1], size[1]>>
  OBVIOUS
<1>2. PICK d : d = <<area[2], size[2]>>
  OBVIOUS
<1>3. c \in Factor /\ d \in Factor
  BY <1>1, <1>2 DEF Factor, Point, Axis
<1>4. PICK e : e = IF Zoom!LessEq(c, d) THEN c ELSE d
  OBVIOUS
<1>5. e \in Factor /\ Zoom!One \in Factor
  BY <1>3, <1>4 DEF Zoom!One, Factor
<1>6. Zoom!FitScale(area, size, behaviour) = 
        CASE behaviour = "EnlargeOnly" /\ Zoom!Less(e, Zoom!One) -> Zoom!One
          [] behaviour = "ReduceOnly" /\ Zoom!Less(Zoom!One, e) -> Zoom!One
          [] OTHER -> e
  BY <1>1, <1>2, <1>4 DEF Zoom!FitScale
<1> QED BY <1>5, <1>6

\* What the zoom strategy computes of an area and a size is a zoom of the same mode.
LEMMA CalculateTypes ==
    ASSUME NEW zoom, ZoomOK(zoom), NEW behaviour, NEW area \in Point, NEW size \in Point
    PROVE  LET r == Zoom!CalculateViewAreaSize(zoom, behaviour, area, size, size)
           IN  /\ ZoomOK(r.zoom) /\ r.zoom.mode = zoom.mode /\ r.zoom.level = zoom.level
               /\ r.ZoomImage \in Factor
               /\ (size[1] > 0 /\ size[2] > 0 /\ zoom.mode # "FitImage") =>
                    r.ZoomImage = Zoom!NonDynamicZoomLevel(zoom)
<1> DEFINE r == Zoom!CalculateViewAreaSize(zoom, behaviour, area, size, size)
<1>1. CASE ~(size[1] > 0 /\ size[2] > 0)
  <2>1. r.zoom = zoom /\ r.ZoomImage = <<0, 1>>
    BY <1>1 DEF Zoom!CalculateViewAreaSize, Zoom!IsPositive, Zoom!None
  <2>2. <<0, 1>> \in Factor
    BY DEF Factor
  <2> QED BY <1>1, <2>1, <2>2
<1>2. CASE size[1] > 0 /\ size[2] > 0
  <2>1. PICK f : f = IF zoom.mode = "FitImage" THEN Zoom!FitScale(area, size, behaviour)
                     ELSE Zoom!NonDynamicZoomLevel(zoom)
    OBVIOUS
  <2>2. Zoom!NonDynamicZoomLevel(zoom) \in Factor
    <3>1. zoom.level \in 1..Len(ZoomLevels)
      BY DEF ZoomOK
    <3>2. ZoomLevels[zoom.level] \in (Nat \ {0}) \X (Nat \ {0})
      BY <3>1, WindowAssumption
    <3> QED BY <3>2 DEF Zoom!NonDynamicZoomLevel, Zoom!One, Factor
  <2>3. f \in Factor
    BY <1>2, <2>1, <2>2, FitScaleTypes
  <2>4. /\ r.ZoomImage = f
        /\ r.zoom = IF zoom.mode = "FitImage" THEN [zoom EXCEPT !.lastFit = f] ELSE zoom
    BY <1>2, <2>1 DEF Zoom!CalculateViewAreaSize, Zoom!IsPositive
  <2>5. ZoomOK([zoom EXCEPT !.lastFit = f]) /\ [zoom EXCEPT !.lastFit = f].mode = zoom.mode
        /\ [zoom EXCEPT !.lastFit = f].level = zoom.level
    BY <2>3 DEF ZoomOK, ZoomParts
  <2> QED BY <2>1, <2>3, <2>4, <2>5
<1> QED BY <1>1, <1>2

-----------------------------------------------------------------------------
(* The window and the picture in it.                                       *)

\* The picture is fitted into the window: only the zoom changes.
LEMMA FittedKeeps ==
    ASSUME NEW s, Shape(s)
    PROVE  /\ Keeps(s, Fitted(s)) /\ Fitted(s).win = s.win /\ Fitted(s).cfg = s.cfg
           /\ Fitted(s).placedBy = s.placedBy
           /\ (\A a \in Axis : OptimalViewportSize(s)[a] > 0) /\ s.zoom.mode # "FitImage" =>
                Fitted(s).imageZoom = Zoom!NonDynamicZoomLevel(s.zoom)
<1> DEFINE r == Zoom!CalculateViewAreaSize(s.zoom, BehaviourName(s.used.ResizeBehaviour),
                    ClientSize(s.win), OptimalViewportSize(s), OptimalViewportSize(s))
<1>1. ClientSize(s.win) \in Point /\ OptimalViewportSize(s) \in Point /\ ZoomOK(s.zoom)
  BY EdgeTypes, ViewportTypes DEF Shape
<1>2. PICK z : z = r.zoom
  OBVIOUS
<1>3. PICK f : f = r.ZoomImage
  OBVIOUS
<1>4. /\ ZoomOK(z) /\ z.mode = s.zoom.mode /\ z.level = s.zoom.level /\ f \in Factor
      /\ (OptimalViewportSize(s)[1] > 0 /\ OptimalViewportSize(s)[2] > 0 /\ s.zoom.mode # "FitImage") =>
            f = Zoom!NonDynamicZoomLevel(s.zoom)
  BY <1>1, <1>2, <1>3, CalculateTypes
<1>5. Fitted(s) = [s EXCEPT !.zoom = z, !.imageZoom = f]
  BY <1>2, <1>3 DEF Fitted
<1> HIDE DEF r
<1>6. PICK t : t = [s EXCEPT !.zoom = z, !.imageZoom = f]
  OBVIOUS
<1>7. /\ IsState(t) /\ t.zoom = z /\ t.imageZoom = f
      /\ \A part \in StateParts \ {"zoom", "imageZoom"} : t[part] = s[part]
  BY <1>6 DEF Shape, IsState, StateParts, ViewerParts
<1>8. /\ t.win = s.win /\ t.cfg = s.cfg /\ t.placedBy = s.placedBy /\ t.known = s.known
  BY <1>7 DEF StateParts, ViewerParts
<1>9. Shape(t)
  BY <1>4, <1>7, <1>8 DEF Shape
<1>10. Keeps(s, t)
  BY <1>4, <1>7, <1>8, <1>9 DEF Keeps, SameSettings, Shape, CfgOK
<1> QED BY <1>4, <1>5, <1>6, <1>8, <1>10 DEF Axis

\* The window is given another rectangle, or another bar.
SameButPlace(w, v) ==
    /\ WinOK(v)
    /\ \A part \in WinParts \ {"rect", "normalRect", "bar"} : v[part] = w[part]
    /\ v.bar = w.bar \/ (w.fullscreen /\ v.bar = FALSE)

\* The window changes: only it and the zoom are others.
LEMMA WithWindowIs ==
    ASSUME NEW s, Shape(s), NEW w, WinOK(w)
    PROVE  /\ Shape(WithWindow(s, w)) /\ WithWindow(s, w).win = w
           /\ WithWindow(s, w).cfg = s.cfg
           /\ \A part \in StateParts \ {"win", "zoom", "imageZoom"} : WithWindow(s, w)[part] = s[part]
           /\ WithWindow(s, w).zoom.mode = s.zoom.mode /\ WithWindow(s, w).zoom.level = s.zoom.level
<1>1. PICK t : t = [s EXCEPT !.win = w]
  OBVIOUS
<1>2. /\ IsState(t) /\ t.win = w /\ \A part \in StateParts \ {"win"} : t[part] = s[part]
  BY <1>1 DEF Shape, IsState, StateParts, ViewerParts
<1>3. /\ t.cfg = s.cfg /\ t.zoom = s.zoom /\ t.imageZoom = s.imageZoom /\ t.known = s.known
  BY <1>2 DEF StateParts, ViewerParts
<1>4. Shape(t)
  BY <1>2, <1>3 DEF Shape
<1>5. WithWindow(s, w) = t \/ WithWindow(s, w) = Fitted(t)
  BY <1>1 DEF WithWindow
<1>6. /\ Shape(Fitted(t)) /\ Fitted(t).win = w /\ Fitted(t).cfg = t.cfg
      /\ \A part \in StateParts \ {"win", "zoom", "imageZoom"} : Fitted(t)[part] = t[part]
      /\ Fitted(t).zoom.mode = t.zoom.mode /\ Fitted(t).zoom.level = t.zoom.level
  <2>1. Keeps(t, Fitted(t)) /\ Fitted(t).win = t.win /\ Fitted(t).cfg = t.cfg
        /\ Fitted(t).placedBy = t.placedBy
    BY <1>4, FittedKeeps
  <2> QED BY <1>2, <2>1 DEF Keeps
<1> QED BY <1>2, <1>3, <1>4, <1>5, <1>6

\* The window changes its place or its bar.
LEMMA WithWindowKeeps ==
    ASSUME NEW s, Shape(s), NEW w, SameButPlace(s.win, w)
    PROVE  Keeps(s, WithWindow(s, w))
<1>1. PICK t : t = WithWindow(s, w)
  OBVIOUS
<1>2. /\ Shape(t) /\ t.win = w /\ t.cfg = s.cfg
      /\ \A part \in StateParts \ {"win", "zoom", "imageZoom"} : t[part] = s[part]
      /\ t.zoom.mode = s.zoom.mode /\ t.zoom.level = s.zoom.level
  BY <1>1, WithWindowIs DEF SameButPlace
<1>3. SameSettings(s.cfg, t.cfg)
  BY <1>2 DEF SameSettings, Shape, CfgOK
<1> QED BY <1>1, <1>2, <1>3 DEF Keeps, SameButPlace

\* The anchors change, and nothing else of the settings.
LEMMA AnchorsIs ==
    ASSUME NEW s, Shape(s), NEW r \in Rect
    PROVE  /\ Keeps(s, AnchorsAt(s, r)) /\ AnchorsAt(s, r).win = s.win
           /\ AnchorsAt(s, r).placedBy = s.placedBy
           /\ Keeps(s, AnchorsFor(s, r)) /\ AnchorsFor(s, r).win = s.win
           /\ AnchorsFor(s, r).placedBy = s.placedBy
           /\ AnchorsFor(s, r).zoom = s.zoom /\ AnchorsFor(s, r).imageZoom = s.imageZoom
           /\ AnchorsFor(s, r).cfg.ResizePositionMethod = s.cfg.ResizePositionMethod
           /\ s.cfg.ResizePositionMethod = PositionToCurrent =>
                AnchorsFor(s, r).cfg.AnchorCenter = s.cfg.AnchorCenter
           /\ s.cfg.ResizePositionMethod \notin {PositionToScreen, PositionToCurrent} =>
                AnchorsFor(s, r).cfg.AnchorTL = s.cfg.AnchorTL
<1>1. PICK p : p = r.pos
  OBVIOUS
<1>2. PICK q : q = Plus(r.pos, Half(r.size))
  OBVIOUS
<1>3. p \in Point /\ q \in Point
  BY <1>1, <1>2, RectOps, HalfType, PlusIs
<1>4. {"AnchorTL", "AnchorCenter"} \subseteq CfgParts /\ Anchors = {"AnchorTL", "AnchorCenter"}
      /\ {"Pos", "WindowSize", "ResizePositionMethod"} \subseteq CfgParts \ Anchors
  BY DEF CfgParts, Fields, WindowFields, Anchors, Enumeration
<1>5. ASSUME NEW c, CfgOK(c), SameSettings(s.cfg, c)
      PROVE  LET t == [s EXCEPT !.cfg = c]
             IN  /\ Keeps(s, t) /\ t.win = s.win /\ t.placedBy = s.placedBy /\ t.cfg = c
                 /\ t.zoom = s.zoom /\ t.imageZoom = s.imageZoom
  <2>1. PICK t : t = [s EXCEPT !.cfg = c]
    OBVIOUS
  <2>2. /\ IsState(t) /\ t.cfg = c /\ \A part \in StateParts \ {"cfg"} : t[part] = s[part]
    BY <2>1 DEF Shape, IsState, StateParts, ViewerParts
  <2>3. /\ t.win = s.win /\ t.zoom = s.zoom /\ t.imageZoom = s.imageZoom /\ t.known = s.known
        /\ t.placedBy = s.placedBy
    BY <2>2 DEF StateParts, ViewerParts
  <2>4. Shape(t)
    BY <1>5, <2>2, <2>3 DEF Shape
  <2> QED BY <1>5, <2>1, <2>2, <2>3, <2>4 DEF Keeps
<1>6. CfgOK(s.cfg) /\ SameSettings(s.cfg, s.cfg)
  BY DEF Shape, SameSettings, CfgOK
<1>7. PICK c : c = [s.cfg EXCEPT !.AnchorTL = p]
  OBVIOUS
<1>8. PICK e : e = [s.cfg EXCEPT !.AnchorCenter = q]
  OBVIOUS
<1>9. PICK g : g = [s.cfg EXCEPT !.AnchorTL = p, !.AnchorCenter = q]
  OBVIOUS
<1>10. /\ CfgOK(c) /\ SameSettings(s.cfg, c) /\ c.AnchorCenter = s.cfg.AnchorCenter
  BY <1>3, <1>4, <1>6, <1>7 DEF CfgOK, SameSettings
<1>11. /\ CfgOK(e) /\ SameSettings(s.cfg, e) /\ e.AnchorTL = s.cfg.AnchorTL
  BY <1>3, <1>4, <1>6, <1>8 DEF CfgOK, SameSettings
<1>12. CfgOK(g) /\ SameSettings(s.cfg, g)
  BY <1>3, <1>4, <1>6, <1>9 DEF CfgOK, SameSettings
<1>13. AnchorsAt(s, r) = [s EXCEPT !.cfg = g]
  BY <1>1, <1>2, <1>9, <1>4, <1>6 DEF AnchorsAt, Shape, IsState, StateParts, ViewerParts, CfgOK
<1>14. AnchorsFor(s, r) = CASE s.cfg.ResizePositionMethod = PositionToScreen -> s
                            [] s.cfg.ResizePositionMethod = PositionToCurrent -> [s EXCEPT !.cfg = c]
                            [] OTHER -> [s EXCEPT !.cfg = e]
  BY <1>1, <1>2, <1>7, <1>8, <1>4, <1>6 DEF AnchorsFor, Shape, IsState, StateParts, ViewerParts, CfgOK
<1>15. Keeps(s, s)
  BY KeepsSelf
<1>16. c.ResizePositionMethod = s.cfg.ResizePositionMethod /\ e.ResizePositionMethod = s.cfg.ResizePositionMethod
  BY <1>4, <1>10, <1>11 DEF SameSettings
<1>17. /\ Keeps(s, AnchorsAt(s, r)) /\ AnchorsAt(s, r).win = s.win
       /\ AnchorsAt(s, r).placedBy = s.placedBy
  BY <1>5, <1>12, <1>13
<1>18. CASE s.cfg.ResizePositionMethod = PositionToScreen
  <2>1. PositionToScreen # PositionToCurrent
    BY DEF PositionToScreen, PositionToCurrent
  <2>2. AnchorsFor(s, r) = s
    BY <1>14, <1>18, <2>1
  <2>3. s.cfg.ResizePositionMethod # PositionToCurrent
    BY <1>18, <2>1
  <2> QED BY <1>15, <1>17, <1>18, <2>2, <2>3
<1>19. CASE s.cfg.ResizePositionMethod = PositionToCurrent
  <2>1. PositionToScreen # PositionToCurrent
    BY DEF PositionToScreen, PositionToCurrent
  <2>2. PICK t : t = [s EXCEPT !.cfg = c]
    OBVIOUS
  <2>3. AnchorsFor(s, r) = t
    BY <1>14, <1>19, <2>1, <2>2
  <2>4. /\ Keeps(s, t) /\ t.win = s.win /\ t.placedBy = s.placedBy /\ t.cfg = c
        /\ t.zoom = s.zoom /\ t.imageZoom = s.imageZoom
    BY <1>5, <1>10, <2>2
  <2> QED BY <1>10, <1>16, <1>17, <1>19, <2>1, <2>3, <2>4
<1>20. CASE s.cfg.ResizePositionMethod \notin {PositionToScreen, PositionToCurrent}
  BY <1>5, <1>11, <1>14, <1>16, <1>17, <1>20
<1> QED BY <1>18, <1>19, <1>20

\* The window with the rectangle it goes back to.
Kept(w) ==
    IF IsMaximized(w) \/ w.iconized THEN w ELSE [w EXCEPT !.normalRect = wxToRect(w.rect)]

\* The window with its rectangle to return to is a window.
LEMMA KeptIs ==
    ASSUME NEW w, WinOK(w)
    PROVE  /\ WinOK(Kept(w)) /\ \A part \in WinParts \ {"normalRect"} : Kept(w)[part] = w[part]
           /\ w.maximized \/ w.iconized => Kept(w) = w
           /\ ~w.maximized /\ ~w.iconized => Kept(w).normalRect = wxToRect(w.rect)
<1>1. PICK r : r = wxToRect(w.rect)
  OBVIOUS
<1>2. r \in Rect
  BY <1>1, RectOps DEF WinOK
<1>3. PICK v : v = [w EXCEPT !.normalRect = r]
  OBVIOUS
<1>4. /\ DOMAIN v = WinParts /\ v.normalRect = r
      /\ \A part \in WinParts \ {"normalRect"} : v[part] = w[part]
  BY <1>3 DEF WinOK, WinParts
<1>5. WinOK(v)
  BY <1>2, <1>4 DEF WinOK, WinParts
<1>6. Kept(w) = w \/ Kept(w) = v
  BY <1>1, <1>3 DEF Kept
<1> QED BY <1>1, <1>3, <1>4, <1>5, <1>6 DEF Kept, IsMaximized

\* A move or a change of size, heard as the viewer's or the user's.
LEMMA MovedIs ==
    ASSUME NEW s, Shape(s), NEW w, WinOK(w), NEW user \in BOOLEAN
    PROVE  LET t == Moved(s, w, user)
           IN  /\ Shape(t) /\ t.win = Kept(w) /\ SameSettings(s.cfg, t.cfg)
               /\ ~user => t.cfg = s.cfg
               /\ \A part \in StateParts \ {"win", "zoom", "imageZoom", "cfg"} : t[part] = s[part]
               /\ t.zoom.mode = s.zoom.mode /\ t.zoom.level = s.zoom.level
<1>1. PICK h : h = IF user THEN AnchorsAt(s, w.rect) ELSE s
  OBVIOUS
<1>2. PICK k : k = Kept(w)
  OBVIOUS
<1>3. PICK t : t = WithWindow(h, k)
  OBVIOUS
<1>4. t = Moved(s, w, user)
  BY <1>1, <1>2, <1>3 DEF Moved, Kept
<1>5. WinOK(k)
  BY <1>2, KeptIs
<1>6. /\ Shape(h) /\ SameSettings(s.cfg, h.cfg) /\ (~user => h.cfg = s.cfg)
      /\ \A part \in StateParts \ {"win", "zoom", "imageZoom", "cfg"} : h[part] = s[part]
      /\ h.zoom.mode = s.zoom.mode /\ h.zoom.level = s.zoom.level
  <2>1. Keeps(s, s)
    BY KeepsSelf
  <2>2. Keeps(s, AnchorsAt(s, w.rect)) /\ AnchorsAt(s, w.rect).placedBy = s.placedBy
    BY AnchorsIs DEF WinOK
  <2>3. Keeps(s, h) /\ h.placedBy = s.placedBy
    BY <1>1, <2>1, <2>2
  <2> QED BY <1>1, <2>3 DEF Keeps
<1>7. /\ Shape(t) /\ t.win = k /\ t.cfg = h.cfg
      /\ \A part \in StateParts \ {"win", "zoom", "imageZoom"} : t[part] = h[part]
      /\ t.zoom.mode = h.zoom.mode /\ t.zoom.level = h.zoom.level
  BY <1>3, <1>5, <1>6, WithWindowIs
<1> HIDE DEF Moved
<1> QED BY <1>2, <1>4, <1>6, <1>7

\* The viewer puts its window somewhere.
LEMMA SetSizeIs ==
    ASSUME NEW s, Shape(s), NEW r \in Rect
    PROVE  LET t == SetSize(s, r)
           IN  /\ Keeps(s, t) /\ t.win = Kept([s.win EXCEPT !.rect = r]) /\ t.win.rect = r
               /\ t.win.bar = s.win.bar
               /\ t.cfg = s.cfg /\ t.placedBy = s.placedBy
<1>1. PICK w : w = [s.win EXCEPT !.rect = r]
  OBVIOUS
<1>2. /\ WinOK(w) /\ w.rect = r /\ \A part \in WinParts \ {"rect"} : w[part] = s.win[part]
  <2>1. /\ DOMAIN w = WinParts /\ w.rect = r
        /\ \A part \in WinParts \ {"rect"} : w[part] = s.win[part]
    BY <1>1 DEF Shape, WinOK, WinParts
  <2> QED BY <2>1 DEF Shape, WinOK, WinParts
<1>3. PICK t : t = SetSize(s, r)
  OBVIOUS
<1>4. t = Moved(s, w, FALSE)
  BY <1>1, <1>3 DEF SetSize
<1>5. PICK user \in BOOLEAN : user = FALSE
  OBVIOUS
<1>6. /\ Shape(t) /\ t.win = Kept(w) /\ t.cfg = s.cfg /\ SameSettings(s.cfg, t.cfg)
      /\ \A part \in StateParts \ {"win", "zoom", "imageZoom", "cfg"} : t[part] = s[part]
      /\ t.zoom.mode = s.zoom.mode /\ t.zoom.level = s.zoom.level
  <2>1. t = Moved(s, w, user) /\ ~user
    BY <1>4, <1>5
  <2> QED BY <1>2, <2>1, MovedIs
<1>7. /\ t.win.rect = r /\ t.win.bar = s.win.bar /\ t.placedBy = s.placedBy
      /\ \A part \in WinParts \ {"rect", "normalRect"} : t.win[part] = s.win[part]
  <2>1. \A part \in WinParts \ {"normalRect"} : t.win[part] = w[part]
    BY <1>2, <1>6, KeptIs
  <2>2. {"rect", "bar"} \subseteq WinParts \ {"normalRect"} /\ "bar" \in WinParts \ {"rect"}
        /\ "placedBy" \in StateParts \ {"win", "zoom", "imageZoom", "cfg"}
    BY DEF WinParts, StateParts, ViewerParts
  <2> QED BY <1>2, <1>6, <2>1, <2>2
<1>8. Keeps(s, t)
  BY <1>6, <1>7 DEF Keeps
<1> QED BY <1>1, <1>3, <1>6, <1>7, <1>8

\* The viewer puts its window somewhere, with the anchors for that.
LEMMA PutAtIs ==
    ASSUME NEW s, Shape(s), NEW r \in Rect
    PROVE  LET t == PutAt(s, r)
           IN  /\ Keeps(s, t) /\ t.placedBy = "viewer"
               /\ t.win = Kept([s.win EXCEPT !.rect = r]) /\ t.win.rect = r
               /\ t.win.bar = s.win.bar /\ t.cfg = AnchorsFor(s, r).cfg
<1>1. PICK h : h = AnchorsFor(s, r)
  OBVIOUS
<1>2. Keeps(s, h) /\ h.win = s.win
  BY <1>1, AnchorsIs
<1>3. Shape(h)
  BY <1>2 DEF Keeps
<1>4. PICK u : u = SetSize(h, r)
  OBVIOUS
<1>5. /\ Keeps(h, u) /\ u.win = Kept([h.win EXCEPT !.rect = r]) /\ u.win.rect = r
      /\ u.win.bar = h.win.bar /\ u.cfg = h.cfg
  BY <1>3, <1>4, SetSizeIs
<1>6. Keeps(s, u) /\ Shape(u)
  BY <1>2, <1>5, KeepsAgain DEF Keeps
<1>7. PICK t : t = [u EXCEPT !.placedBy = "viewer"]
  OBVIOUS
<1>8. t = PutAt(s, r)
  BY <1>1, <1>4, <1>7 DEF PutAt, PlaceWindow
<1>9. /\ IsState(t) /\ t.placedBy = "viewer"
      /\ \A part \in StateParts \ {"placedBy"} : t[part] = u[part]
  BY <1>6, <1>7 DEF Shape, IsState, StateParts, ViewerParts
<1>10. /\ t.win = u.win /\ t.cfg = u.cfg /\ t.zoom = u.zoom /\ t.imageZoom = u.imageZoom
       /\ t.known = u.known
  BY <1>9 DEF StateParts, ViewerParts
<1>11. Shape(t)
  BY <1>6, <1>9, <1>10 DEF Shape
<1>12. Keeps(s, t)
  BY <1>6, <1>9, <1>10, <1>11 DEF Keeps
<1> QED BY <1>1, <1>2, <1>5, <1>8, <1>9, <1>10, <1>12

\* The smallest window has room on the desktop.
LEMMA MinFits ==
    ASSUME Arrangement(displays), NEW s
    PROVE  \A a \in Axis : MinWindow[a] <= Desktop(s).size[a]
<1>1. PICK d \in DOMAIN displays : Desktop(s) = wxToRect(displays[d])
  BY DesktopType
<1>2. displays[d] \in Rect
  BY DisplayTypes
<1>3. \A a \in Axis : MinWindow[a] < displays[d].size[a]
  BY DEF Arrangement
<1>4. PICK m : m = Desktop(s).size
  OBVIOUS
<1>5. PICK n : n = displays[d].size
  OBVIOUS
<1>6. \A a \in Axis : m[a] = n[a] - 1
  BY <1>1, <1>2, <1>4, <1>5, RectOps
<1>7. ASSUME NEW a \in Axis PROVE MinWindow[a] <= m[a]
  <2>1. n[a] \in Int /\ MinWindow[a] \in Int
    BY <1>2, <1>5, RectOps, PointValues DEF Point
  <2>2. MinWindow[a] < n[a] /\ m[a] = n[a] - 1
    BY <1>3, <1>5, <1>6
  <2> QED BY <2>1, <2>2
<1> QED BY <1>4, <1>7

\* A size is capped from above, then from below.
LEMMA CappedSizes ==
    ASSUME NEW low \in Point, NEW p \in Point, NEW top \in Point,
           \A a \in Axis : low[a] <= top[a]
    PROVE  /\ Larger(low, Smaller(p, top)) \in Point /\ Larger(low, Smaller(top, p)) \in Point
           /\ \A a \in Axis : /\ Larger(low, Smaller(p, top))[a] \in low[a]..top[a]
                              /\ Larger(low, Smaller(top, p))[a] \in low[a]..top[a]
<1>1. PICK q : q = Smaller(p, top)
  OBVIOUS
<1>2. PICK r : r = Smaller(top, p)
  OBVIOUS
<1>3. /\ q \in Point /\ r \in Point
      /\ \A a \in Axis : q[a] <= top[a] /\ r[a] <= top[a]
  <2>1. /\ q \in Point /\ r \in Point
        /\ \A a \in Axis : /\ q[a] = (IF p[a] < top[a] THEN p[a] ELSE top[a])
                           /\ r[a] = (IF top[a] < p[a] THEN top[a] ELSE p[a])
    BY <1>1, <1>2, SmallerIs
  <2>2. \A a \in Axis : p[a] \in Int /\ top[a] \in Int
    BY DEF Point
  <2> QED BY <2>1, <2>2
<1>4. ASSUME NEW v \in Point, \A a \in Axis : v[a] <= top[a]
      PROVE  Larger(low, v) \in Point /\ \A a \in Axis : Larger(low, v)[a] \in low[a]..top[a]
  <2>1. /\ Larger(low, v) \in Point
        /\ \A a \in Axis : Larger(low, v)[a] = IF low[a] < v[a] THEN v[a] ELSE low[a]
    BY LargerIs
  <2>2. \A a \in Axis : low[a] \in Int /\ v[a] \in Int /\ top[a] \in Int
    BY DEF Point
  <2> QED BY <2>1, <2>2, <1>4
<1> QED BY <1>1, <1>2, <1>3, <1>4

\* The size a window takes for a picture is no larger than the desktop.
LEMMA NewSizeFits ==
    ASSUME NEW s, Shape(s), Arrangement(displays), FollowsImage(s)
    PROVE  /\ NewSize(s) \in Point
           /\ \A a \in Axis : NewSize(s)[a] >= 0 /\ NewSize(s)[a] <= Desktop(s).size[a]
<1>1. PICK top : top = Desktop(s).size
  OBVIOUS
<1>2. PICK size : size = OptimalViewportSize(s)
  OBVIOUS
<1>3. PICK edges : edges = WindowEdges(s.win)
  OBVIOUS
<1>4. PICK room : room = Minus(top, edges)
  OBVIOUS
<1>5. /\ top \in Point /\ size \in Point /\ edges \in Point /\ room \in Point
      /\ MinWindow \in Point
      /\ \A a \in Axis : MinWindow[a] <= top[a] /\ room[a] = top[a] - edges[a] /\ size[a] > 0
      /\ \A a \in Axis : edges[a] \in Int /\ top[a] \in Int /\ size[a] \in Int
      /\ \A a \in Axis : MinWindow[a] \in Int /\ MinWindow[a] >= 0
  <2>1. top \in Point /\ \A a \in Axis : MinWindow[a] <= top[a]
    BY <1>1, DesktopType, MinFits
  <2>2. size \in Point /\ edges \in Point
    BY <1>2, <1>3, ViewportTypes, EdgeTypes DEF Shape
  <2>3. room \in Point /\ \A a \in Axis : room[a] = top[a] - edges[a]
    BY <1>4, <2>1, <2>2, MinusIs
  <2>4. \A a \in Axis : size[a] > 0
    BY <1>2 DEF FollowsImage
  <2>5. \A a \in Axis : edges[a] \in Int /\ top[a] \in Int /\ size[a] \in Int
    BY <2>1, <2>2 DEF Point
  <2>6. \A a \in Axis : MinWindow[a] \in Int /\ MinWindow[a] >= 0
    BY PointValues DEF Point
  <2> QED BY <2>1, <2>2, <2>3, <2>4, <2>5, <2>6, PointValues
<1>6. PICK big : big = Plus(Zoom!Scaled(size, Zoom!FitScale(room, size, "Both")), edges)
  OBVIOUS
<1>7. big \in Point
  <2>1. PICK f : f = Zoom!FitScale(room, size, "Both")
    OBVIOUS
  <2>2. size[1] > 0 /\ size[2] > 0
    BY <1>5 DEF Axis
  <2>3. f \in Factor
    BY <1>5, <2>1, <2>2, FitScaleTypes
  <2>4. Zoom!Scaled(size, f) \in Point
    BY <1>5, <2>3, ScaledTypes
  <2> QED BY <1>5, <1>6, <2>1, <2>4, PlusIs
<1>8. PICK framed : framed = Plus(size, edges)
  OBVIOUS
<1>9. framed \in Point /\ \A a \in Axis : framed[a] = size[a] + edges[a]
  BY <1>5, <1>8, PlusIs
<1>10. PICK behaviour : behaviour = BehaviourName(s.cfg.ResizeBehaviour)
  OBVIOUS
<1>11. calculateImageSize(s) =
        CASE behaviour = "EnlargeOnly" /\ (\A a \in Axis : room[a] < size[a]) -> top
          [] behaviour = "ReduceOnly" /\ (\A a \in Axis : room[a] > size[a]) ->
                Larger(MinWindow, framed)
          [] OTHER -> Larger(MinWindow, Smaller(big, top))
  BY <1>1, <1>2, <1>3, <1>4, <1>6, <1>8, <1>10 DEF calculateImageSize
<1>12. ASSUME behaviour = "ReduceOnly", \A a \in Axis : room[a] > size[a]
       PROVE  /\ Larger(MinWindow, framed) \in Point
              /\ \A a \in Axis : Larger(MinWindow, framed)[a] \in MinWindow[a]..top[a]
  <2>1. \A a \in Axis : framed[a] <= top[a]
    BY <1>5, <1>9, <1>12
  <2>2. Larger(MinWindow, framed) \in Point
        /\ \A a \in Axis : Larger(MinWindow, framed)[a] =
                              IF MinWindow[a] < framed[a] THEN framed[a] ELSE MinWindow[a]
    BY <1>5, <1>9, LargerIs
  <2>3. \A a \in Axis : framed[a] \in Int
    BY <1>9 DEF Point
  <2> QED BY <1>5, <2>1, <2>2, <2>3
<1>13. /\ Larger(MinWindow, Smaller(big, top)) \in Point
       /\ \A a \in Axis : Larger(MinWindow, Smaller(big, top))[a] \in MinWindow[a]..top[a]
  BY <1>5, <1>7, CappedSizes
<1>14. \A a \in Axis : top[a] \in MinWindow[a]..top[a]
  BY <1>5
<1>15. /\ calculateImageSize(s) \in Point
       /\ \A a \in Axis : calculateImageSize(s)[a] \in MinWindow[a]..top[a]
  <2>1. CASE behaviour = "EnlargeOnly" /\ (\A a \in Axis : room[a] < size[a])
    <3>1. calculateImageSize(s) = top
      BY <1>11, <2>1
    <3> QED BY <1>5, <1>14, <3>1
  <2>2. CASE behaviour = "ReduceOnly" /\ (\A a \in Axis : room[a] > size[a])
    <3>1. calculateImageSize(s) = Larger(MinWindow, framed)
      BY <1>11, <2>2
    <3> QED BY <1>12, <2>2, <3>1
  <2>3. CASE /\ ~(behaviour = "EnlargeOnly" /\ (\A a \in Axis : room[a] < size[a]))
             /\ ~(behaviour = "ReduceOnly" /\ (\A a \in Axis : room[a] > size[a]))
    <3>1. calculateImageSize(s) = Larger(MinWindow, Smaller(big, top))
      BY <1>11, <2>3
    <3> QED BY <1>13, <3>1
  <2> QED BY <2>1, <2>2, <2>3
<1>16. calculateCappedImageSize(s) \in Point
       /\ \A a \in Axis : calculateCappedImageSize(s)[a] \in MinWindow[a]..top[a]
  <2>1. PICK p : p = Plus(ZoomedImageSize(s), edges)
    OBVIOUS
  <2>2. ZoomedImageSize(s) \in Point
    BY <1>2, <1>5, ScaledTypes DEF ZoomedImageSize, Shape
  <2>3. p \in Point
    BY <1>5, <2>1, <2>2, PlusIs
  <2>4. calculateCappedImageSize(s) = Larger(MinWindow, Smaller(top, p))
    BY <1>1, <1>3, <2>1 DEF calculateCappedImageSize
  <2> QED BY <1>5, <2>3, <2>4, CappedSizes
<1>17. PICK n : n = NewSize(s)
  OBVIOUS
<1>18. n \in Point /\ \A a \in Axis : n[a] \in MinWindow[a]..top[a]
  BY <1>15, <1>16, <1>17 DEF NewSize
<1>19. \A a \in Axis : n[a] >= 0 /\ n[a] <= top[a]
  BY <1>5, <1>18 DEF Point
<1> QED BY <1>1, <1>17, <1>18, <1>19

\* A rectangle no larger than the desktop is put on it.
LEMMA CappedFits ==
    ASSUME NEW s, Arrangement(displays), NEW p \in Point, NEW size \in Point,
           \A a \in Axis : size[a] <= Desktop(s).size[a]
    PROVE  /\ Capped(s, p, size) \in Point
           /\ Within([pos |-> Capped(s, p, size), size |-> size], Desktop(s))
<1>1. PICK desktop : desktop = Desktop(s)
  OBVIOUS
<1>2. PICK limit : limit = BottomRight(desktop)
  OBVIOUS
<1>3. PICK q : q = [a \in Axis |-> IF p[a] + size[a] > limit[a] THEN limit[a] - size[a]
                                   ELSE IF p[a] < desktop.pos[a] THEN desktop.pos[a] ELSE p[a]]
  OBVIOUS
<1>4. q = Capped(s, p, size)
  BY <1>1, <1>2, <1>3 DEF Capped
<1>5. /\ desktop \in Rect /\ desktop.pos \in Point /\ desktop.size \in Point /\ limit \in Point
      /\ \A a \in Axis : limit[a] = desktop.pos[a] + desktop.size[a]
  BY <1>1, <1>2, DesktopType, RectOps
<1>6. ASSUME NEW a \in Axis
      PROVE  q[a] \in Int /\ q[a] >= desktop.pos[a] /\ q[a] + size[a] <= limit[a]
  <2>1. PICK x \in Int : x = p[a]
    BY DEF Point
  <2>2. PICK n \in Int : n = size[a]
    BY DEF Point
  <2>3. PICK l \in Int : l = limit[a]
    BY <1>5 DEF Point
  <2>4. PICK o \in Int : o = desktop.pos[a]
    BY <1>5 DEF Point
  <2>5. PICK m \in Int : m = desktop.size[a]
    BY <1>5 DEF Point
  <2>6. n <= m /\ l = o + m
    BY <1>1, <1>5, <2>2, <2>3, <2>4, <2>5
  <2>7. q[a] = IF x + n > l THEN l - n ELSE IF x < o THEN o ELSE x
    BY <1>3, <2>1, <2>2, <2>3, <2>4
  <2> QED BY <2>2, <2>3, <2>4, <2>6, <2>7
<1>7. q \in Point
  BY <1>3, <1>6 DEF Point
<1>8. PICK r : r = [pos |-> q, size |-> size]
  OBVIOUS
<1>9. r \in Rect /\ r.pos = q /\ r.size = size
  BY <1>7, <1>8, RectIs
<1>10. \A a \in Axis : BottomRight(r)[a] = q[a] + size[a]
  BY <1>9, RectOps
<1>11. Within(r, desktop)
  BY <1>2, <1>6, <1>9, <1>10 DEF Within
<1> QED BY <1>1, <1>4, <1>7, <1>8, <1>11

\* The place a window of such a size takes is on the desktop.
LEMMA PlaceFits ==
    ASSUME NEW s, Shape(s), Arrangement(displays), NEW size \in Point,
           \A a \in Axis : size[a] <= Desktop(s).size[a]
    PROVE  /\ calculateWindowTopLeft(s, size) \in Point
           /\ Within([pos |-> calculateWindowTopLeft(s, size), size |-> size], Desktop(s))
<1>1. CASE s.cfg.ResizePositionMethod = PositionToScreen
  <2>1. PICK desktop : desktop = Desktop(s)
    OBVIOUS
  <2>2. PICK gap : gap = Minus(desktop.size, size)
    OBVIOUS
  <2>3. PICK q : q = Plus(desktop.pos, Half(gap))
    OBVIOUS
  <2>4. calculateWindowTopLeft(s, size) = q
    <3>1. PositionToScreen # PositionToCurrent
      BY DEF PositionToScreen, PositionToCurrent
    <3> QED BY <1>1, <2>1, <2>2, <2>3, <3>1 DEF calculateWindowTopLeft
  <2>5. /\ desktop \in Rect /\ desktop.pos \in Point /\ desktop.size \in Point
        /\ gap \in Point /\ \A a \in Axis : gap[a] = desktop.size[a] - size[a]
    BY <2>1, <2>2, DesktopType, MinusIs
  <2>6. ASSUME NEW a \in Axis
        PROVE  /\ desktop.size[a] \in Int /\ size[a] \in Int /\ desktop.pos[a] \in Int
               /\ gap[a] >= 0
    <3>1. desktop.size[a] \in Int /\ size[a] \in Int /\ desktop.pos[a] \in Int
      BY <2>5 DEF Point
    <3> QED BY <2>1, <2>5, <3>1
  <2>7. Half(gap) \in Point /\ \A a \in Axis : 0 <= Half(gap)[a] /\ Half(gap)[a] <= gap[a]
    BY <2>5, <2>6, HalfType
  <2>8. q \in Point /\ \A a \in Axis : q[a] = desktop.pos[a] + Half(gap)[a] /\ Half(gap)[a] \in Int
    <3>1. q \in Point /\ \A a \in Axis : q[a] = desktop.pos[a] + Half(gap)[a]
      BY <2>3, <2>5, <2>7, PlusIs
    <3> QED BY <3>1, <2>7 DEF Point
  <2>9. PICK r : r = [pos |-> q, size |-> size]
    OBVIOUS
  <2>10. r \in Rect /\ r.pos = q /\ r.size = size
    BY <2>8, <2>9, RectIs
  <2>11. /\ \A a \in Axis : BottomRight(r)[a] = q[a] + size[a]
         /\ \A a \in Axis : BottomRight(desktop)[a] = desktop.pos[a] + desktop.size[a]
    BY <2>5, <2>10, RectOps
  <2>12. Within(r, desktop)
    <3>1. ASSUME NEW a \in Axis
          PROVE  r.pos[a] >= desktop.pos[a] /\ BottomRight(r)[a] <= BottomRight(desktop)[a]
      <4>1. PICK h \in Int : h = Half(gap)[a]
        BY <2>8
      <4>2. 0 <= h /\ h <= desktop.size[a] - size[a] /\ q[a] = desktop.pos[a] + h
        BY <2>5, <2>7, <2>8, <4>1
      <4> QED BY <2>6, <2>10, <2>11, <4>2
    <3> QED BY <3>1 DEF Within
  <2> QED BY <2>1, <2>4, <2>8, <2>9, <2>12
<1>2. CASE s.cfg.ResizePositionMethod = PositionToCurrent
  <2>1. PICK p : p = Plus(s.cfg.AnchorCenter, Half(Minus(<<0, 0>>, size)))
    OBVIOUS
  <2>2. p \in Point
    BY <2>1, PlusIs, MinusIs, PointValues, HalfType DEF Shape, CfgOK
  <2>3. calculateWindowTopLeft(s, size) = Capped(s, p, size)
    BY <1>2, <2>1 DEF calculateWindowTopLeft, PositionToScreen, PositionToCurrent
  <2> QED BY <2>2, <2>3, CappedFits
<1>3. CASE s.cfg.ResizePositionMethod \notin {PositionToScreen, PositionToCurrent}
  <2>1. calculateWindowTopLeft(s, size) = Capped(s, s.cfg.AnchorTL, size)
    BY <1>3 DEF calculateWindowTopLeft
  <2>2. s.cfg.AnchorTL \in Point
    BY DEF Shape, CfgOK
  <2> QED BY <2>1, <2>2, CappedFits
<1> QED BY <1>1, <1>2, <1>3

\* The window follows the picture onto the desktop, or stays.
PlaceFor(s) == [pos |-> calculateWindowTopLeft(s, NewSize(s)), size |-> NewSize(s)]

\* What FollowImage does, when it does something.
LEMMA FollowImageIs ==
    ASSUME NEW s, Shape(s), Arrangement(displays)
    PROVE  LET t == FollowImage(s)
           IN  /\ Keeps(s, t) /\ t.win.bar = s.win.bar
               /\ ~FollowsImage(s) => t = s
               /\ FollowsImage(s) =>
                    /\ t.placedBy = "viewer" /\ t.win.rect = PlaceFor(s)
                    /\ PlaceFor(s) \in Rect /\ Within(PlaceFor(s), Desktop(s))
                    /\ \A a \in Axis : PlaceFor(s).size[a] >= 0
                    /\ t.win = Kept([s.win EXCEPT !.rect = PlaceFor(s)])
                    /\ t.cfg = AnchorsFor(s, PlaceFor(s)).cfg
<1>1. PICK r : r = PlaceFor(s)
  OBVIOUS
<1>2. PICK t : t = FollowImage(s)
  OBVIOUS
<1>3. CASE ~FollowsImage(s)
  <2>1. t = s
    BY <1>2, <1>3 DEF FollowImage
  <2> QED BY <1>2, <1>3, <2>1, KeepsSelf
<1>4. CASE FollowsImage(s)
  <2>1. PICK size : size = NewSize(s)
    OBVIOUS
  <2>2. size \in Point /\ \A a \in Axis : size[a] >= 0 /\ size[a] <= Desktop(s).size[a]
    BY <1>4, <2>1, NewSizeFits
  <2>3. /\ calculateWindowTopLeft(s, size) \in Point
        /\ Within([pos |-> calculateWindowTopLeft(s, size), size |-> size], Desktop(s))
    BY <2>2, PlaceFits
  <2>4. r \in Rect /\ Within(r, Desktop(s)) /\ r.size = size
    BY <1>1, <2>1, <2>2, <2>3, RectIs DEF PlaceFor
  <2>5. t = PutAt(s, r)
    BY <1>1, <1>2, <1>4 DEF FollowImage, PutFor, PlaceFor
  <2>6. /\ Keeps(s, t) /\ t.placedBy = "viewer"
        /\ t.win = Kept([s.win EXCEPT !.rect = r]) /\ t.win.rect = r
        /\ t.win.bar = s.win.bar /\ t.cfg = AnchorsFor(s, r).cfg
    BY <2>4, <2>5, PutAtIs
  <2>7. \A a \in Axis : r.size[a] >= 0
    BY <2>2, <2>4
  <2> QED BY <1>1, <1>2, <1>4, <2>4, <2>6, <2>7
<1> QED BY <1>3, <1>4

-----------------------------------------------------------------------------
(* What is quiet: images, zoom, and the list.                              *)

\* The menu's mark, where the window is and the rectangle it goes back to, of one state.
MenuAgrees(s) == s.zoom.mode # "?" => s.menu.fit = (s.zoom.mode = "FitImage")

\* The display grown by a pixel to the left and above.
Grown(r) == [pos |-> Minus(r.pos, <<1, 1>>), size |-> Plus(r.size, <<1, 1>>)]

OnDisplay(s) ==
    s.placedBy \in {"start", "viewer"} =>
        \E d \in DOMAIN displays :
            Within(s.win.rect, IF s.placedBy = "viewer" THEN displays[d] ELSE Grown(displays[d]))

ReturnsTo(w) ==
    /\ w.maximized => w.normalRect = wxToRect(w.restored)
    /\ ~w.maximized /\ ~w.iconized => w.normalRect = wxToRect(w.rect)

\* What the images, their zoom and the list leave alone, and what they uphold.
Quiet(s, t) ==
    /\ Shape(t)
    /\ SameSettings(s.cfg, t.cfg)
    /\ \A part \in {"used", "dialog", "adjust", "onTopLost"} : t[part] = s[part]
    /\ \A part \in WinParts \ {"rect", "normalRect", "bar"} : t.win[part] = s.win[part]
    /\ t.win.bar = s.win.bar \/ (s.win.fullscreen /\ t.win.bar = FALSE)
    /\ MenuAgrees(s) => MenuAgrees(t)
    /\ OnDisplay(s) => OnDisplay(t)
    /\ ReturnsTo(s.win) => ReturnsTo(t.win)
    /\ s.known = {} => /\ t.known = {} /\ t.win.rect = s.win.rect
                       /\ t.placedBy = s.placedBy

\* Only the parts that belong to the list, and the ghost that says where images were.
LEMMA QuietSelf ==
    ASSUME NEW s, Shape(s)
    PROVE  Quiet(s, s)
BY DEF Quiet, Shape, SameSettings, CfgOK

\* Two quiet steps are quiet together.
LEMMA QuietAgain ==
    ASSUME NEW s, NEW t, NEW u, Quiet(s, t), Quiet(t, u)
    PROVE  Quiet(s, u)
<1>1. /\ SameSettings(s.cfg, u.cfg)
      /\ \A part \in {"used", "dialog", "adjust", "onTopLost"} : u[part] = s[part]
  BY DEF Quiet, SameSettings
<1>2. /\ \A part \in WinParts \ {"rect", "normalRect", "bar"} : u.win[part] = s.win[part]
      /\ u.win.bar = s.win.bar \/ (s.win.fullscreen /\ u.win.bar = FALSE)
  BY DEF Quiet, WinParts
<1> QED BY <1>1, <1>2 DEF Quiet

\* Where the window stays, a state that Keeps relates is quiet.
LEMMA KeepsQuiet ==
    ASSUME NEW s, NEW t, Keeps(s, t), t.win.rect = s.win.rect,
           t.win.normalRect = s.win.normalRect, t.placedBy = s.placedBy
    PROVE  Quiet(s, t)
<1>1. /\ t.menu = s.menu /\ t.known = s.known /\ t.zoom.mode = s.zoom.mode
      /\ \A part \in {"used", "dialog", "adjust", "onTopLost"} : t[part] = s[part]
      /\ t.win.maximized = s.win.maximized /\ t.win.iconized = s.win.iconized
      /\ t.win.restored = s.win.restored
  BY DEF Keeps, StateParts, ViewerParts, WinParts
<1>2. OnDisplay(s) => OnDisplay(t)
  BY DEF OnDisplay
<1>3. ReturnsTo(s.win) => ReturnsTo(t.win)
  BY <1>1 DEF ReturnsTo
<1>4. MenuAgrees(s) => MenuAgrees(t)
  BY <1>1 DEF MenuAgrees
<1> QED BY <1>1, <1>2, <1>3, <1>4 DEF Keeps, Quiet

\* Fitting the picture is quiet.
LEMMA FittedQuiet ==
    ASSUME NEW s, Shape(s)
    PROVE  Quiet(s, Fitted(s))
<1>1. Keeps(s, Fitted(s)) /\ Fitted(s).win = s.win /\ Fitted(s).placedBy = s.placedBy
  BY FittedKeeps
<1> QED BY <1>1, KeepsQuiet

\* The status bar comes or goes: the window keeps its place.
LEMMA BarIs ==
    ASSUME NEW w, WinOK(w), NEW bar
    PROVE  LET v == [w EXCEPT !.bar = bar]
           IN  WinOK(v) /\ v.bar = bar /\ \A part \in WinParts \ {"bar"} : v[part] = w[part]
<1>1. PICK v : v = [w EXCEPT !.bar = bar]
  OBVIOUS
<1>2. DOMAIN v = WinParts /\ v.bar = bar /\ \A part \in WinParts \ {"bar"} : v[part] = w[part]
  BY <1>1 DEF WinOK, WinParts
<1>3. WinOK(v)
  BY <1>2 DEF WinOK, WinParts
<1> QED BY <1>1, <1>2, <1>3

\* The status bar is hidden in full screen: quiet.
LEMMA UpdateImageInformationQuiet ==
    ASSUME NEW s, Shape(s)
    PROVE  LET t == UpdateImageInformation(s)
           IN  /\ Quiet(s, t) /\ Keeps(s, t) /\ t.win.rect = s.win.rect
               /\ ~s.win.fullscreen => t = s
<1>1. CASE ~s.win.fullscreen
  BY <1>1, QuietSelf, KeepsSelf DEF UpdateImageInformation
<1>2. CASE s.win.fullscreen
  <2>1. PICK bar : bar = FALSE
    OBVIOUS
  <2>2. PICK w : w = [s.win EXCEPT !.bar = bar]
    OBVIOUS
  <2>3. PICK t : t = WithWindow(s, w)
    OBVIOUS
  <2>4. t = UpdateImageInformation(s)
    BY <1>2, <2>1, <2>2, <2>3 DEF UpdateImageInformation
  <2>5. WinOK(w) /\ w.bar = bar /\ \A part \in WinParts \ {"bar"} : w[part] = s.win[part]
    BY <2>2, BarIs DEF Shape
  <2>6. SameButPlace(s.win, w)
    BY <1>2, <2>1, <2>5 DEF SameButPlace, WinParts
  <2>7. Keeps(s, t)
    BY <2>3, <2>6, WithWindowKeeps
  <2>8. t.win = w /\ t.placedBy = s.placedBy
    <3>1. t.win = w /\ \A part \in StateParts \ {"win", "zoom", "imageZoom"} : t[part] = s[part]
      BY <2>3, <2>5, WithWindowIs
    <3> QED BY <3>1 DEF StateParts, ViewerParts
  <2>9. w.rect = s.win.rect /\ w.normalRect = s.win.normalRect
    BY <2>5 DEF WinParts
  <2>10. Quiet(s, t)
    BY <2>7, <2>8, <2>9, KeepsQuiet
  <2> QED BY <1>2, <2>4, <2>7, <2>8, <2>9, <2>10
<1> QED BY <1>1, <1>2

\* What is on the desktop is on a display.
LEMMA OnDesktop ==
    ASSUME NEW s, Arrangement(displays), NEW r \in Rect, Within(r, Desktop(s))
    PROVE  \E d \in DOMAIN displays : Within(r, displays[d])
<1>1. PICK d \in DOMAIN displays : Desktop(s) = wxToRect(displays[d])
  BY DesktopType
<1>2. PICK e : e = displays[d]
  OBVIOUS
<1>3. e \in Rect /\ Within(r, wxToRect(e))
  BY <1>1, <1>2, DisplayTypes
<1>4. PICK f : f = wxToRect(e)
  OBVIOUS
<1>5. /\ f \in Rect /\ f.pos = e.pos
      /\ \A a \in Axis : f.size[a] = e.size[a] - 1 /\ BottomRight(e)[a] = e.pos[a] + e.size[a]
      /\ e.pos \in Point /\ e.size \in Point
  BY <1>3, <1>4, RectOps
<1>6. \A a \in Axis : BottomRight(f)[a] = f.pos[a] + f.size[a]
  BY <1>5, RectOps
<1>7. ASSUME NEW a \in Axis
      PROVE  r.pos[a] >= e.pos[a] /\ BottomRight(r)[a] <= BottomRight(e)[a]
  <2>1. e.pos[a] \in Int /\ e.size[a] \in Int
    BY <1>5 DEF Point
  <2>2. BottomRight(r)[a] \in Int
    BY RectOps DEF Point
  <2>3. r.pos[a] >= f.pos[a] /\ BottomRight(r)[a] <= BottomRight(f)[a]
    BY <1>3, <1>4 DEF Within
  <2> QED BY <1>5, <1>6, <2>1, <2>2, <2>3
<1> QED BY <1>2, <1>7 DEF Within

\* Nothing is followed as long as nothing is known of the image.
LEMMA NothingToFollow ==
    ASSUME NEW s, s.known = {}
    PROVE  ~FollowsImage(s)
BY DEF FollowsImage, OptimalViewportSize, Axis

\* The window that follows the picture is quiet.
LEMMA FollowImageQuiet ==
    ASSUME NEW s, Shape(s), Arrangement(displays)
    PROVE  Quiet(s, FollowImage(s))
<1>1. PICK t : t = FollowImage(s)
  OBVIOUS
<1>2. CASE ~FollowsImage(s)
  <2>1. t = s
    BY <1>1, <1>2 DEF FollowImage
  <2> QED BY <1>1, <2>1, QuietSelf
<1>3. CASE FollowsImage(s)
  <2>1. PICK r : r = PlaceFor(s)
    OBVIOUS
  <2>2. /\ Keeps(s, t) /\ t.placedBy = "viewer" /\ t.win.rect = r
        /\ r \in Rect /\ Within(r, Desktop(s))
        /\ t.win = Kept([s.win EXCEPT !.rect = r])
    BY <1>1, <1>3, <2>1, FollowImageIs
  <2>3. s.known # {}
    BY <1>3, NothingToFollow
  <2>4. OnDisplay(t)
    BY <2>2, OnDesktop DEF OnDisplay
  <2>5. /\ t.menu = s.menu /\ t.zoom.mode = s.zoom.mode
        /\ \A part \in {"used", "dialog", "adjust", "onTopLost"} : t[part] = s[part]
    BY <2>2 DEF Keeps, StateParts, ViewerParts
  <2>6. ASSUME ReturnsTo(s.win)
        PROVE  ReturnsTo(t.win)
    <3>1. PICK w : w = [s.win EXCEPT !.rect = r]
      OBVIOUS
    <3>2. /\ DOMAIN w = WinParts /\ w.rect = r
          /\ \A part \in WinParts \ {"rect"} : w[part] = s.win[part]
      BY <3>1 DEF Shape, WinOK, WinParts
    <3>3. WinOK(w) /\ w.maximized = s.win.maximized /\ w.iconized = s.win.iconized
          /\ w.restored = s.win.restored /\ w.normalRect = s.win.normalRect
      BY <2>2, <3>2 DEF Shape, WinOK, WinParts
    <3>4. PICK v : v = Kept(w)
      OBVIOUS
    <3>5. /\ v.maximized = w.maximized /\ v.iconized = w.iconized
          /\ v.restored = w.restored /\ v.rect = w.rect
          /\ w.maximized \/ w.iconized => v = w
          /\ ~w.maximized /\ ~w.iconized => v.normalRect = wxToRect(w.rect)
      <4>1. /\ \A part \in WinParts \ {"normalRect"} : v[part] = w[part]
            /\ w.maximized \/ w.iconized => v = w
            /\ ~w.maximized /\ ~w.iconized => v.normalRect = wxToRect(w.rect)
        BY <3>3, <3>4, KeptIs
      <4> QED BY <4>1 DEF WinParts
    <3>6. t.win = v
      BY <2>2, <3>1, <3>4
    <3> QED BY <2>6, <3>3, <3>5, <3>6 DEF ReturnsTo
  <2>7. MenuAgrees(s) => MenuAgrees(t)
    BY <2>5 DEF MenuAgrees
  <2>8. /\ \A part \in WinParts \ {"rect", "normalRect", "bar"} : t.win[part] = s.win[part]
        /\ t.win.bar = s.win.bar \/ (s.win.fullscreen /\ t.win.bar = FALSE)
        /\ Shape(t) /\ SameSettings(s.cfg, t.cfg)
    BY <2>2 DEF Keeps
  <2> QED BY <1>1, <2>3, <2>4, <2>5, <2>6, <2>7, <2>8 DEF Quiet
<1> QED BY <1>2, <1>3

\* What the viewer does when the picture changed is quiet.
LEMMA ImageChangedQuiet ==
    ASSUME NEW s, Shape(s), Arrangement(displays)
    PROVE  Quiet(s, ImageChanged(s))
<1>1. PICK t : t = UpdateImageInformation(s)
  OBVIOUS
<1>2. Quiet(s, t) /\ Shape(t)
  BY <1>1, UpdateImageInformationQuiet DEF Quiet
<1>3. Quiet(t, FollowImage(t))
  BY <1>2, FollowImageQuiet
<1>4. ImageChanged(s) = FollowImage(t)
  BY <1>1 DEF ImageChanged
<1> QED BY <1>2, <1>3, <1>4, QuietAgain

\* The parts of a state that belong to the list and to the image shown.
FreeParts ==
    {"zoom", "imageZoom", "menu", "image", "turned", "list", "at", "forward", "known",
     "pending", "placed"}

\* Any other values of these are quiet, if the menu goes with the zoom.
LEMMA FreePartsQuiet ==
    ASSUME NEW s, Shape(s), NEW t, IsState(t),
           \A part \in StateParts \ FreeParts : t[part] = s[part],
           ZoomOK(t.zoom), t.imageZoom \in Factor, t.known \subseteq Images,
           s.known = {} => t.known = {}, MenuAgrees(s) => MenuAgrees(t)
    PROVE  Quiet(s, t)
<1>1. /\ t.win = s.win /\ t.cfg = s.cfg /\ t.placedBy = s.placedBy
      /\ \A part \in {"used", "dialog", "adjust", "onTopLost"} : t[part] = s[part]
  BY DEF StateParts, ViewerParts, FreeParts
<1>2. Shape(t)
  BY <1>1 DEF Shape
<1>3. SameSettings(s.cfg, t.cfg)
  BY <1>1 DEF Shape, SameSettings, CfgOK
<1>4. OnDisplay(s) => OnDisplay(t)
  BY <1>1 DEF OnDisplay
<1> QED BY <1>1, <1>2, <1>3, <1>4 DEF Quiet

\* The mark of the menu goes with the mode of the zoom.
LEMMA MenuForIs ==
    ASSUME NEW s, NEW mode
    PROVE  \/ ModeName(mode) = "FitImage" /\ MenuFor(s, mode).fit = TRUE
           \/ ModeName(mode) \in {"Free", "FullSize"} /\ MenuFor(s, mode).fit = FALSE
           \/ ModeName(mode) = "?"
<1>1. ZoomFree # ZoomFitImage /\ ZoomFree # ZoomFullSize /\ ZoomFitImage # ZoomFullSize
  BY DEF ZoomFree, ZoomFitImage, ZoomFullSize
<1>2. CASE mode = ZoomFitImage
  <2>1. ModeName(mode) = "FitImage"
    BY <1>1, <1>2 DEF ModeName
  <2>2. PICK m : m = MenuFor(s, mode)
    OBVIOUS
  <2>3. m = [fit |-> TRUE, full |-> FALSE]
    BY <1>2, <1>1, <2>2 DEF MenuFor
  <2>4. m.fit = TRUE
    BY <2>3
  <2> QED BY <2>1, <2>2, <2>4
<1>3. CASE mode \in {ZoomFullSize, ZoomFree}
  <2>1. ModeName(mode) \in {"Free", "FullSize"}
    BY <1>1, <1>3 DEF ModeName
  <2>2. PICK m : m = MenuFor(s, mode)
    OBVIOUS
  <2>3. m = [fit |-> FALSE, full |-> TRUE]
    BY <1>3, <1>1, <2>2 DEF MenuFor
  <2>4. m.fit = FALSE
    BY <2>3
  <2> QED BY <2>1, <2>2, <2>4
<1>4. CASE mode \notin {ZoomFitImage, ZoomFullSize, ZoomFree}
  BY <1>4, <1>1 DEF ModeName
<1> QED BY <1>2, <1>3, <1>4

\* Another mode of the zoom is quiet.
LEMMA WithZoomModeQuiet ==
    ASSUME NEW s, Shape(s), NEW mode
    PROVE  Quiet(s, WithZoomMode(s, mode))
<1>1. PICK name : name = ModeName(mode)
  OBVIOUS
<1>2. PICK u : u = [s EXCEPT !.zoom.mode = name]
  OBVIOUS
<1>3. /\ IsState(u) /\ \A part \in StateParts \ {"zoom"} : u[part] = s[part]
      /\ u.zoom = [s.zoom EXCEPT !.mode = name]
  BY <1>2 DEF Shape, IsState, StateParts, ViewerParts
<1>4. ZoomOK(u.zoom) /\ u.zoom.mode = name
  BY <1>3 DEF Shape, ZoomOK, ZoomParts
<1>5. u.win = s.win /\ u.cfg = s.cfg /\ u.imageZoom = s.imageZoom /\ u.known = s.known
  BY <1>3 DEF StateParts, ViewerParts
<1>6. Shape(u)
  BY <1>3, <1>4, <1>5 DEF Shape
<1>7. PICK v : v = Fitted(u)
  OBVIOUS
<1>8. /\ Keeps(u, v) /\ v.win = u.win /\ v.cfg = u.cfg /\ v.placedBy = u.placedBy
  BY <1>6, <1>7, FittedKeeps
<1>9. PICK menu : menu = MenuFor(s, mode)
  OBVIOUS
<1>10. PICK t : t = [v EXCEPT !.menu = menu]
  OBVIOUS
<1>11. t = WithZoomMode(s, mode)
  BY <1>1, <1>2, <1>7, <1>9, <1>10 DEF WithZoomMode
<1>12. IsState(t) /\ t.menu = menu /\ \A part \in StateParts \ {"menu"} : t[part] = v[part]
  BY <1>8, <1>10 DEF Keeps, Shape, IsState, StateParts, ViewerParts
<1>13. \A part \in StateParts \ FreeParts : t[part] = s[part]
  <2>1. \A part \in StateParts \ FreeParts : t[part] = v[part]
    BY <1>12 DEF FreeParts
  <2>2. \A part \in StateParts \ FreeParts : v[part] = u[part]
    BY <1>8 DEF Keeps, FreeParts
  <2>3. \A part \in StateParts \ FreeParts : u[part] = s[part]
    BY <1>3 DEF FreeParts
  <2> QED BY <2>1, <2>2, <2>3
<1>14. t.zoom = v.zoom /\ t.imageZoom = v.imageZoom /\ t.known = v.known /\ v.known = u.known
  BY <1>8, <1>12 DEF Keeps, StateParts, ViewerParts
<1>15. ZoomOK(t.zoom) /\ t.imageZoom \in Factor /\ t.known \subseteq Images /\ t.zoom.mode = name
  BY <1>4, <1>8, <1>14 DEF Keeps, Shape
<1>16. MenuAgrees(t)
  <2>1. \/ name = "FitImage" /\ menu.fit = TRUE
        \/ name \in {"Free", "FullSize"} /\ menu.fit = FALSE
        \/ name = "?"
    BY <1>1, <1>9, MenuForIs
  <2>2. t.zoom.mode = name /\ t.menu.fit = menu.fit
    BY <1>12, <1>15
  <2> QED BY <2>1, <2>2 DEF MenuAgrees
<1> QED BY <1>5, <1>11, <1>12, <1>13, <1>14, <1>15, <1>16, FreePartsQuiet

\* Another mode of the zoom, and the window follows.
LEMMA SetZoomModeQuiet ==
    ASSUME NEW s, Shape(s), Arrangement(displays), NEW mode
    PROVE  Quiet(s, SetZoomMode(s, mode))
<1>1. PICK t : t = WithZoomMode(s, mode)
  OBVIOUS
<1>2. Quiet(s, t)
  BY <1>1, WithZoomModeQuiet
<1>3. Quiet(t, ImageChanged(t))
  BY <1>2, ImageChangedQuiet DEF Quiet
<1> QED BY <1>1, <1>2, <1>3, QuietAgain DEF SetZoomMode

\* A set of numbers that is not empty has a smallest one.
LEMMA SmallestOf ==
    ASSUME NEW S, S \subseteq Nat, S # {}
    PROVE  \E m \in S : \A k \in S : m <= k
<1>1. PICK m \in S : \A k \in S : <<k, m>> \notin OpToRel(<, Nat)
  BY WFMin, NatLessThanWellFounded
<1>2. ASSUME NEW k \in S
      PROVE  m <= k
  <2>1. <<k, m>> \in Nat \X Nat /\ <<k, m>>[1] = k /\ <<k, m>>[2] = m
    OBVIOUS
  <2>2. ~(k < m)
    BY <1>1, <2>1 DEF OpToRel
  <2> QED BY <2>2
<1> QED BY <1>2

\* The level that fits best is one of the levels.
LEMMA FindLevelType ==
    ASSUME NEW z, ZoomOK(z)
    PROVE  Zoom!FindLevel(z) \in 1..Len(ZoomLevels)
<1> DEFINE n == Len(ZoomLevels)
           Below(j) == Zoom!LessEq(ZoomLevels[j], z.lastFit)
           Top(k) == k \in 1..n /\ \A j \in 1..n : Below(j) => j <= k
<1>1. n \in Nat /\ n >= 1 /\ DOMAIN ZoomLevels = 1..n
  BY WindowAssumption, LenProperties
<1> HIDE DEF n, Below
<1>2. \E k \in 1..n : (k = 1 \/ Below(k)) /\ \A j \in 1..n : Below(j) => j <= k
  <2> DEFINE S == {m \in Nat : \A j \in 1..n : Below(j) => j <= m}
  <2>1. n \in S
    BY <1>1
  <2>2. PICK m \in S : \A k \in S : m <= k
    <3>1. S \subseteq Nat /\ S # {}
      BY <2>1
    <3> HIDE DEF S
    <3> QED BY <3>1, SmallestOf
  <2>3. m \in Nat /\ m <= n /\ \A j \in 1..n : Below(j) => j <= m
    BY <2>1, <2>2
  <2>4. CASE m <= 1
    BY <1>1, <2>3, <2>4
  <2>5. CASE m > 1
    <3>1. m - 1 \in Nat /\ m - 1 \notin S
      BY <2>2, <2>3, <2>5
    <3>2. PICK j \in 1..n : Below(j) /\ ~(j <= m - 1)
      BY <3>1
    <3>3. j = m
      BY <2>3, <3>2
    <3> QED BY <2>3, <3>2, <3>3
  <2> QED BY <2>3, <2>4, <2>5
<1>3. Zoom!FindLevel(z) = CHOOSE k \in 1..n : (k = 1 \/ Below(k)) /\ \A j \in 1..n : Below(j) => j <= k
  BY <1>1 DEF Zoom!FindLevel, Below
<1> QED BY <1>2, <1>3 DEF n

\* A step of the zoom stays among the levels, and makes the mode "Free".
LEMMA ZoomStepsType ==
    ASSUME NEW z, ZoomOK(z)
    PROVE  \A r \in {Zoom!ZoomIn(z), Zoom!ZoomOut(z)} :
                ZoomOK(r.zoom) /\ r.zoom.mode = "Free"
<1>1. PICK n \in Nat : n = Len(ZoomLevels)
  BY WindowAssumption, LenProperties
<1>2. n >= 1 /\ DOMAIN ZoomLevels = 1..n /\ DefaultZoomLevel \in 1..n
  BY <1>1, WindowAssumption, LenProperties
<1>3. PICK base \in 1..n : base = Zoom!BaseLevel(z)
  <2>1. Zoom!BaseLevel(z) \in {DefaultZoomLevel, Zoom!FindLevel(z), z.level}
    BY DEF Zoom!BaseLevel
  <2> QED BY <1>1, <1>2, <2>1, FindLevelType DEF ZoomOK
<1>4. ASSUME NEW level \in 1..n
      PROVE  LET y == [z EXCEPT !.mode = "Free", !.level = level]
             IN  ZoomOK(y) /\ y.mode = "Free"
  <2>1. PICK y : y = [z EXCEPT !.mode = "Free", !.level = level]
    OBVIOUS
  <2>2. DOMAIN y = ZoomParts /\ y.mode = "Free" /\ y.level = level /\ y.lastFit = z.lastFit
    BY <2>1 DEF ZoomOK, ZoomParts
  <2> QED BY <1>1, <2>1, <2>2 DEF ZoomOK
<1>5. PICK up : up = Zoom!Min2(base + 1, n)
  OBVIOUS
<1>6. PICK down : down = Zoom!Max2(base - 1, 1)
  OBVIOUS
<1>7. up \in 1..n /\ down \in 1..n
  BY <1>2, <1>3, <1>5, <1>6 DEF Zoom!Min2, Zoom!Max2
<1>8. Zoom!ZoomIn(z).zoom = [z EXCEPT !.mode = "Free", !.level = up]
  BY <1>1, <1>3, <1>5 DEF Zoom!ZoomIn
<1>9. Zoom!ZoomOut(z).zoom = [z EXCEPT !.mode = "Free", !.level = down]
  BY <1>1, <1>3, <1>6 DEF Zoom!ZoomOut
<1> QED BY <1>4, <1>7, <1>8, <1>9

\* A step of the zoom is quiet.
LEMMA ZoomStepQuiet ==
    ASSUME NEW s, Shape(s), Arrangement(displays),
           NEW r, ZoomOK(r.zoom), r.zoom.mode = "Free"
    PROVE  Quiet(s, ZoomStep(s, r))
<1>1. PICK z : z = r.zoom
  OBVIOUS
<1>2. PICK u : u = [s EXCEPT !.zoom = z]
  OBVIOUS
<1>3. /\ IsState(u) /\ u.zoom = z /\ \A part \in StateParts \ {"zoom"} : u[part] = s[part]
  BY <1>2 DEF Shape, IsState, StateParts, ViewerParts
<1>4. u.win = s.win /\ u.cfg = s.cfg /\ u.imageZoom = s.imageZoom /\ u.known = s.known
  BY <1>3 DEF StateParts, ViewerParts
<1>5. Shape(u)
  BY <1>1, <1>3, <1>4 DEF Shape
<1>6. PICK v : v = IF r.changed THEN Fitted(u) ELSE u
  OBVIOUS
<1>7. Keeps(u, v) /\ v.win = u.win /\ v.cfg = u.cfg /\ v.placedBy = u.placedBy
  BY <1>5, <1>6, FittedKeeps, KeepsSelf
<1>8. PICK full : full = (v.imageZoom[1] = v.imageZoom[2])
  OBVIOUS
<1>9. PICK menu : menu = [fit |-> FALSE, full |-> full]
  OBVIOUS
<1>10. PICK t : t = [v EXCEPT !.menu = menu]
  OBVIOUS
<1>11. t = MenuForLevel(v)
  BY <1>8, <1>9, <1>10 DEF MenuForLevel
<1>12. IsState(t) /\ t.menu = menu /\ \A part \in StateParts \ {"menu"} : t[part] = v[part]
  BY <1>7, <1>10 DEF Keeps, Shape, IsState, StateParts, ViewerParts
<1>13. \A part \in StateParts \ FreeParts : t[part] = s[part]
  <2>1. \A part \in StateParts \ FreeParts : t[part] = v[part]
    BY <1>12 DEF FreeParts
  <2>2. \A part \in StateParts \ FreeParts : v[part] = u[part]
    BY <1>7 DEF Keeps, FreeParts
  <2>3. \A part \in StateParts \ FreeParts : u[part] = s[part]
    BY <1>3 DEF FreeParts
  <2> QED BY <2>1, <2>2, <2>3
<1>14. t.zoom = v.zoom /\ t.imageZoom = v.imageZoom /\ t.known = v.known /\ v.known = u.known
  BY <1>7, <1>12 DEF Keeps, StateParts, ViewerParts
<1>15. ZoomOK(t.zoom) /\ t.imageZoom \in Factor /\ t.known \subseteq Images /\ t.zoom.mode = "Free"
  BY <1>1, <1>3, <1>7, <1>14 DEF Keeps, Shape
<1>16. MenuAgrees(t)
  <2>1. t.menu.fit = FALSE
    BY <1>9, <1>12
  <2> QED BY <1>15, <2>1 DEF MenuAgrees
<1>17. Quiet(s, t) /\ Shape(t)
  <2>1. s.known = {} => t.known = {}
    BY <1>4, <1>14
  <2>2. Quiet(s, t)
    BY <1>12, <1>13, <1>15, <1>16, <2>1, FreePartsQuiet
  <2> QED BY <2>2 DEF Quiet
<1>18. Quiet(t, ImageChanged(t))
  BY <1>17, ImageChangedQuiet
<1>19. ZoomStep(s, r) = ImageChanged(t)
  BY <1>1, <1>2, <1>6, <1>11 DEF ZoomStep
<1> QED BY <1>17, <1>18, <1>19, QuietAgain

\* Other values for the parts of the list, the image shown or how it is turned.
LEMMA ListPartQuiet ==
    ASSUME NEW s, Shape(s), NEW part \in {"image", "turned", "list", "at", "forward", "pending", "placed"},
           NEW v
    PROVE  Quiet(s, [s EXCEPT ![part] = v])
<1>1. PICK t : t = [s EXCEPT ![part] = v]
  OBVIOUS
<1>2. IsState(t) /\ \A p \in StateParts \ {part} : t[p] = s[p]
  BY <1>1 DEF Shape, IsState, StateParts, ViewerParts
<1>3. /\ \A p \in StateParts \ FreeParts : t[p] = s[p]
      /\ t.zoom = s.zoom /\ t.imageZoom = s.imageZoom /\ t.known = s.known /\ t.menu = s.menu
  BY <1>2 DEF StateParts, ViewerParts, FreeParts
<1>4. MenuAgrees(s) => MenuAgrees(t)
  BY <1>3 DEF MenuAgrees
<1> QED BY <1>1, <1>2, <1>3, <1>4, FreePartsQuiet DEF Shape

\* Forgetting where images were is quiet.
LEMMA UnplacedQuiet ==
    ASSUME NEW s, Shape(s)
    PROVE  Quiet(s, Unplaced(s))
BY ListPartQuiet DEF Unplaced

\* Noting where an image is is quiet.
LEMMA PlacedQuiet ==
    ASSUME NEW s, Shape(s)
    PROVE  Quiet(s, Placed(s))
<1>1. PICK v : v = [i \in DOMAIN s.placed \cup {s.image} |->
                        IF i = s.image THEN s.win.rect ELSE s.placed[i]]
  OBVIOUS
<1>2. Placed(s) = [s EXCEPT !.placed = v] \/ Placed(s) = s
  BY <1>1 DEF Placed, Shape, IsState, StateParts, ViewerParts
<1>3. Quiet(s, [s EXCEPT !.placed = v])
  BY ListPartQuiet
<1> QED BY <1>2, <1>3, QuietSelf

\* Turning the picture is quiet.
LEMMA RotateQuiet ==
    ASSUME NEW s, Shape(s), Arrangement(displays), NEW turned
    PROVE  Quiet(s, Rotate(s, turned))
<1>1. PICK t : t = [s EXCEPT !.turned = turned]
  OBVIOUS
<1>2. Quiet(s, t) /\ Shape(t)
  BY <1>1, ListPartQuiet DEF Quiet
<1>3. PICK u : u = Fitted(t)
  OBVIOUS
<1>4. Quiet(t, u) /\ Shape(u)
  BY <1>2, <1>3, FittedQuiet DEF Quiet
<1>5. PICK v : v = ImageChanged(u)
  OBVIOUS
<1>6. Quiet(u, v) /\ Shape(v)
  BY <1>4, <1>5, ImageChangedQuiet DEF Quiet
<1>7. Quiet(v, Fitted(v))
  BY <1>6, FittedQuiet
<1>8. Rotate(s, turned) = Fitted(v)
  BY <1>1, <1>3, <1>5 DEF Rotate
<1> QED BY <1>2, <1>4, <1>6, <1>7, <1>8, QuietAgain

\* Showing another image is quiet.
LEMMA ShowImageQuiet ==
    ASSUME NEW s, Shape(s), Arrangement(displays), NEW i
    PROVE  Quiet(s, ShowImage(s, i))
<1>1. PICK t : t = [s EXCEPT !.image = i]
  OBVIOUS
<1>2. Quiet(s, t) /\ Shape(t)
  BY <1>1, ListPartQuiet DEF Quiet
<1>3. PICK u : u = Fitted(t)
  OBVIOUS
<1>4. Quiet(t, u) /\ Shape(u)
  BY <1>2, <1>3, FittedQuiet DEF Quiet
<1>5. PICK v : v = IF s.cfg.ResetZoom THEN WithZoomMode(u, s.cfg.DefaultZoom) ELSE u
  OBVIOUS
<1>6. Quiet(u, v) /\ Shape(v)
  <2>1. Quiet(u, WithZoomMode(u, s.cfg.DefaultZoom))
    BY <1>4, WithZoomModeQuiet
  <2>2. Quiet(u, u)
    BY <1>4, QuietSelf
  <2> QED BY <1>5, <2>1, <2>2 DEF Quiet
<1>7. PICK w : w = ImageChanged(v)
  OBVIOUS
<1>8. Quiet(v, w) /\ Shape(w)
  BY <1>6, <1>7, ImageChangedQuiet DEF Quiet
<1>9. Quiet(w, Placed(w))
  BY <1>8, PlacedQuiet
<1>10. ShowImage(s, i) = Placed(w)
  BY <1>1, <1>3, <1>5, <1>7 DEF ShowImage
<1> QED BY <1>2, <1>4, <1>6, <1>8, <1>9, <1>10, QuietAgain

\* Showing another image if it is another one is quiet.
LEMMA ActiveImageQuiet ==
    ASSUME NEW s, Shape(s), Arrangement(displays), NEW i
    PROVE  Quiet(s, ActiveImage(s, i))
<1>1. ActiveImage(s, i) \in {s, ShowImage(s, i)}
  BY DEF ActiveImage
<1>2. Quiet(s, s) /\ Quiet(s, ShowImage(s, i))
  BY QuietSelf, ShowImageQuiet
<1> QED BY <1>1, <1>2

\* The folder is read: the list is another one, and nothing is known of its images.
LEMMA SetImageLocationQuiet ==
    ASSUME NEW s, Shape(s), Arrangement(displays), NEW path
    PROVE  Quiet(s, SetImageLocation(s, path))
<1>1. PICK at : at = IF path \in Range(start.folder)
                     THEN CHOOSE k \in DOMAIN start.folder : start.folder[k] = path
                     ELSE 1
  OBVIOUS
<1>2. PICK pending : pending = [i \in Images |-> {}]
  OBVIOUS
<1>3. PICK t : t = [s EXCEPT !.list = start.folder, !.forward = TRUE, !.known = {},
                             !.pending = pending, !.at = at]
  OBVIOUS
<1>4. /\ IsState(t) /\ t.known = {}
      /\ \A part \in StateParts \ {"list", "forward", "known", "pending", "at"} : t[part] = s[part]
  BY <1>3 DEF Shape, IsState, StateParts, ViewerParts
<1>5. /\ \A part \in StateParts \ FreeParts : t[part] = s[part]
      /\ t.zoom = s.zoom /\ t.imageZoom = s.imageZoom /\ t.menu = s.menu
  BY <1>4 DEF StateParts, ViewerParts, FreeParts
<1>6. MenuAgrees(s) => MenuAgrees(t)
  BY <1>5 DEF MenuAgrees
<1>7. Quiet(s, t) /\ Shape(t)
  <2>1. ZoomOK(t.zoom) /\ t.imageZoom \in Factor /\ t.known \subseteq Images
    BY <1>4, <1>5 DEF Shape
  <2>2. Quiet(s, t)
    BY <1>4, <1>5, <1>6, <2>1, FreePartsQuiet
  <2> QED BY <2>2 DEF Quiet
<1>8. Quiet(t, ShowImage(t, CurrentImage(t)))
  BY <1>7, ShowImageQuiet
<1>9. SetImageLocation(s, path) \in {s, ShowImage(t, CurrentImage(t))}
  BY <1>1, <1>2, <1>3 DEF SetImageLocation
<1>10. Quiet(s, ShowImage(t, CurrentImage(t)))
  BY <1>7, <1>8, QuietAgain
<1> QED BY <1>9, <1>10, QuietSelf

\* What is done to the list alone is quiet.
LEMMA ListResultsQuiet ==
    ASSUME NEW s, Shape(s), NEW r, r.do \in ListRequests, NEW t \in ListResults(s, r)
    PROVE  Quiet(s, t) /\ \A part \in StateParts \ {"list", "at", "forward"} : t[part] = s[part]
<1> DEFINE OnlyList(u) == /\ IsState(u)
                          /\ \A part \in StateParts \ {"list", "at", "forward"} : u[part] = s[part]
<1>1. ASSUME NEW u, OnlyList(u)
      PROVE  /\ Quiet(s, u)
             /\ \A part \in StateParts \ {"list", "at", "forward"} : u[part] = s[part]
  <2>1. /\ \A part \in StateParts \ FreeParts : u[part] = s[part]
        /\ u.zoom = s.zoom /\ u.imageZoom = s.imageZoom /\ u.menu = s.menu /\ u.known = s.known
    BY <1>1 DEF StateParts, ViewerParts, FreeParts
  <2>2. MenuAgrees(s) => MenuAgrees(u)
    BY <2>1 DEF MenuAgrees
  <2> QED BY <1>1, <2>1, <2>2, FreePartsQuiet DEF Shape
<1>2. CASE r.do \in BrowseActions
  <2>1. ListResults(s, r) = Browse(s, r.do)
    <3>1. r.do \notin RemoveActions /\ r.do # "Sort"
      BY <1>2 DEF BrowseActions, RemoveActions
    <3> QED BY <1>2, <3>1 DEF ListResults
  <2>2. PICK at : t = [s EXCEPT !.at = at, !.forward = r.do \notin Backwards]
    BY <2>1 DEF Browse
  <2>3. OnlyList(t)
    BY <2>2 DEF Shape, IsState, StateParts, ViewerParts
  <2> QED BY <1>1, <2>3
<1>3. CASE r.do \in RemoveActions
  <2>1. r.do \notin BrowseActions /\ r.do # "Sort"
    BY <1>3 DEF BrowseActions, RemoveActions
  <2>2. ListResults(s, r) = RemoveImage(s)
    BY <1>3, <2>1 DEF ListResults
  <2>3. t = RemoveCurrentImage(s)
    BY <2>2 DEF RemoveImage
  <2>4. PICK left : left = RemoveAt(s.list, s.at)
    OBVIOUS
  <2>5. PICK at : at = IF s.at > Len(left) \/ (~s.forward /\ s.at > 1) THEN s.at - 1 ELSE s.at
    OBVIOUS
  <2>6. t = [s EXCEPT !.list = left, !.at = at]
    BY <2>3, <2>4, <2>5 DEF RemoveCurrentImage, Shape, IsState, StateParts, ViewerParts
  <2>7. OnlyList(t)
    BY <2>6 DEF Shape, IsState, StateParts, ViewerParts
  <2> QED BY <1>1, <2>7
<1>4. CASE r.do = "Sort"
  <2>1. "Sort" \notin BrowseActions /\ "Sort" \notin RemoveActions
    BY DEF BrowseActions, RemoveActions
  <2>2. t = Sorted(s, r.list)
    BY <1>4, <2>1 DEF ListResults
  <2>3. PICK list : list = r.list
    OBVIOUS
  <2>4. PICK at : at = CHOOSE k \in DOMAIN list : list[k] = s.list[s.at]
    OBVIOUS
  <2>5. \/ t = [s EXCEPT !.list = list, !.forward = TRUE, !.at = at]
        \/ t = [s EXCEPT !.list = list]
    BY <2>2, <2>3, <2>4 DEF Sorted
  <2>6. OnlyList([s EXCEPT !.list = list, !.forward = TRUE, !.at = at])
    BY DEF Shape, IsState, StateParts, ViewerParts
  <2>7. OnlyList([s EXCEPT !.list = list])
    BY DEF Shape, IsState, StateParts, ViewerParts
  <2> HIDE DEF OnlyList
  <2> QED BY <1>1, <2>5, <2>6, <2>7
<1> QED BY <1>2, <1>3, <1>4 DEF ListRequests

\* What the user may ask for besides leaves the window and the settings alone, or is
\* full screen, a dialog or the adjustments.
LEMMA ResultsQuiet ==
    ASSUME NEW s, Shape(s), Arrangement(displays), NEW r, NEW t \in Results(s, r)
    PROVE  \/ Quiet(s, t)
           \/ t = ToggledFullscreen(s)
           \/ t = [s EXCEPT !.dialog = ShowSettings(@, s.cfg)]
           \/ t = ShowAdjust(s)
<1>1. /\ "Open" \notin ListRequests
      /\ "ToggleFullscreen" \notin ListRequests \cup {"Open"}
      /\ ModeRequests \cap (ListRequests \cup {"Open", "ToggleFullscreen"}) = {}
      /\ {"ZoomIn", "ZoomOut"} \cap (ListRequests \cup ModeRequests \cup {"Open", "ToggleFullscreen"}) = {}
  BY DEF ListRequests, BrowseActions, RemoveActions, ModeRequests
<1>2. /\ {"RotateLeft", "RotateRight", "Turn"} \cap (ListRequests \cup ModeRequests
                 \cup {"Open", "ToggleFullscreen", "ZoomIn", "ZoomOut"}) = {}
      /\ {"OpenSettings", "Adjust"} \cap (ListRequests \cup ModeRequests
                 \cup {"Open", "ToggleFullscreen", "ZoomIn", "ZoomOut", "RotateLeft",
                       "RotateRight", "Turn"}) = {}
  BY DEF ListRequests, BrowseActions, RemoveActions, ModeRequests
<1>3. ASSUME NEW u, Quiet(s, u)
      PROVE  Quiet(s, Unplaced(u))
  BY <1>3, UnplacedQuiet, QuietAgain DEF Quiet
<1>4. CASE r.do \in ListRequests
  <2>0. Results(s, r) = {ActiveImage(u, CurrentImage(u)) : u \in ListResults(s, r)}
    <3>1. r.do \notin ModeRequests \cup {"Open", "ToggleFullscreen", "ZoomIn", "ZoomOut",
                    "RotateLeft", "RotateRight", "Turn", "OpenSettings", "Adjust"}
      BY <1>1, <1>2, <1>4
    <3> QED BY <1>4, <3>1 DEF Results
  <2>1. PICK u \in ListResults(s, r) : t = ActiveImage(u, CurrentImage(u))
    BY <2>0
  <2>2. Quiet(s, u)
    BY <1>4, ListResultsQuiet
  <2>3. PICK i : i = CurrentImage(u)
    OBVIOUS
  <2>4. Quiet(u, ActiveImage(u, i))
    BY <2>2, ActiveImageQuiet DEF Quiet
  <2> QED BY <2>1, <2>2, <2>3, <2>4, QuietAgain
<1>5. CASE r.do = "Open"
  <2>1. t = SetImageLocation(s, r.path)
    BY <1>1, <1>5 DEF Results
  <2>2. PICK path : path = r.path
    OBVIOUS
  <2> QED BY <2>1, <2>2, SetImageLocationQuiet
<1>6. CASE r.do = "ToggleFullscreen"
  BY <1>1, <1>6 DEF Results
<1>7. CASE r.do \in ModeRequests
  <2>1. PICK mode : mode = RequestedMode(s, r)
    OBVIOUS
  <2>2. t = Unplaced(SetZoomMode(s, mode))
    <3>1. r.do \notin ListRequests \cup {"Open", "ToggleFullscreen", "ZoomIn", "ZoomOut",
                    "RotateLeft", "RotateRight", "Turn", "OpenSettings", "Adjust"}
      BY <1>1, <1>2, <1>7
    <3>2. Results(s, r) = {Unplaced(SetZoomMode(s, RequestedMode(s, r)))}
      BY <1>7, <3>1 DEF Results
    <3> QED BY <2>1, <3>2
  <2>3. Quiet(s, SetZoomMode(s, mode))
    BY SetZoomModeQuiet
  <2> QED BY <1>3, <2>2, <2>3
<1>8. CASE r.do \in {"ZoomIn", "ZoomOut"}
  <2>1. PICK q : q = IF r.do = "ZoomIn" THEN Zoom!ZoomIn(s.zoom) ELSE Zoom!ZoomOut(s.zoom)
    OBVIOUS
  <2>2. PICK z : z = s.zoom
    OBVIOUS
  <2>3. q \in {Zoom!ZoomIn(z), Zoom!ZoomOut(z)} /\ ZoomOK(z)
    BY <2>1, <2>2 DEF Shape
  <2>4. ZoomOK(q.zoom) /\ q.zoom.mode = "Free"
    BY <2>3, ZoomStepsType
  <2>5. t = Unplaced(ZoomStep(s, q))
    BY <1>1, <1>8, <2>1 DEF Results
  <2>6. Quiet(s, ZoomStep(s, q))
    BY <2>4, ZoomStepQuiet
  <2> QED BY <1>3, <2>5, <2>6
<1>9. CASE r.do \in {"RotateLeft", "RotateRight", "Turn"}
  <2>1. PICK turned : t = Unplaced(Rotate(s, turned))
    BY <1>1, <1>2, <1>9 DEF Results
  <2>2. Quiet(s, Rotate(s, turned))
    BY RotateQuiet
  <2> QED BY <1>3, <2>1, <2>2
<1>10. CASE r.do = "OpenSettings"
  BY <1>1, <1>2, <1>10 DEF Results
<1>11. CASE r.do = "Adjust"
  BY <1>1, <1>2, <1>11 DEF Results
<1>12. CASE r.do \notin ListRequests \cup ModeRequests \cup {"Open", "ToggleFullscreen", "ZoomIn", "ZoomOut",
                    "RotateLeft", "RotateRight", "Turn", "OpenSettings", "Adjust"}
  <2>1. t = s
    BY <1>12 DEF Results
  <2> QED BY <2>1, QuietSelf
<1> QED BY <1>4, <1>5, <1>6, <1>7, <1>8, <1>9, <1>10, <1>11, <1>12

-----------------------------------------------------------------------------
(* What the parts agree on, in full screen and out of it.                  *)

\* The style the window has when it is not in full screen.
OwnStyle(w) == IF w.fullscreen THEN w.previousStyle ELSE w.style

\* The parts of the adjustment dialog.
AdjustParts == {"shown", "sliders", "auto", "applied"}

\* What the parts of the viewer agree on; lax is a state after an Apply that failed.
Steady(s, lax) ==
    /\ Shape(s)
    /\ MenuAgrees(s)
    /\ OnDisplay(s)
    /\ ReturnsTo(s.win)
    /\ DOMAIN s.adjust = AdjustParts
    /\ s.adjust.auto => s.adjust.applied = s.adjust.sliders
    /\ OwnStyle(s.win) = [border |-> TRUE, onTop |-> OwnStyle(s.win).onTop]
    /\ ~lax => /\ s.used = PartsFrom(s.cfg)
               /\ s.win.bar = (s.cfg.ShowStatusBar /\ ~s.win.fullscreen)
               /\ ~s.onTopLost => OwnStyle(s.win).onTop = s.cfg.AlwaysOnTop

\* What holds without an Apply that failed holds after one.
LEMMA SteadyLax ==
    ASSUME NEW s, NEW lax, Steady(s, lax)
    PROVE  Steady(s, TRUE)
BY DEF Steady

\* The copies of settings that differ in where the window is held are the same.
LEMMA PartsFromSame ==
    ASSUME NEW c, NEW e, SameSettings(c, e)
    PROVE  PartsFrom(c) = PartsFrom(e)
<1>1. UsedFields \cup {"AutoMemoryLimit"} \subseteq CfgParts \ Anchors
  BY DEF UsedFields, MouseFields, ClickFields, DblFields, WheelFields, CfgParts, Fields, Flags,
         Enumeration, WindowFields, Anchors
<1>2. \A f \in UsedFields \cup {"AutoMemoryLimit"} : e[f] = c[f]
  BY <1>1 DEF SameSettings
<1> QED BY <1>2 DEF PartsFrom

\* A quiet step of a steady state ends in one.
LEMMA QuietSteady ==
    ASSUME NEW s, NEW lax, Steady(s, lax), NEW t, Quiet(s, t)
    PROVE  Steady(t, lax)
<1>1. /\ t.used = s.used /\ t.adjust = s.adjust /\ t.onTopLost = s.onTopLost
      /\ PartsFrom(t.cfg) = PartsFrom(s.cfg)
  BY PartsFromSame DEF Quiet
<1>2. t.cfg.ShowStatusBar = s.cfg.ShowStatusBar /\ t.cfg.AlwaysOnTop = s.cfg.AlwaysOnTop
  <2>1. {"ShowStatusBar", "AlwaysOnTop"} \subseteq CfgParts \ Anchors
    BY DEF CfgParts, Fields, Flags, Anchors
  <2> QED BY <2>1 DEF Quiet, SameSettings
<1>3. OwnStyle(t.win) = OwnStyle(s.win) /\ t.win.fullscreen = s.win.fullscreen
  BY DEF Quiet, OwnStyle, WinParts
<1>4. s.win.bar = (s.cfg.ShowStatusBar /\ ~s.win.fullscreen) =>
        t.win.bar = (t.cfg.ShowStatusBar /\ ~t.win.fullscreen)
  <2>1. t.win.bar = s.win.bar \/ (s.win.fullscreen /\ t.win.bar = FALSE)
    BY DEF Quiet
  <2>2. PICK b1 : b1 = t.win.bar
    OBVIOUS
  <2> QED BY <1>2, <1>3, <2>1
<1> QED BY <1>1, <1>2, <1>3, <1>4 DEF Quiet, Steady

\* A window that moves or is resized goes back to where it says.
LEMMA KeptReturns ==
    ASSUME NEW w, WinOK(w), w.maximized => w.normalRect = wxToRect(w.restored)
    PROVE  /\ ReturnsTo(Kept(w)) /\ WinOK(Kept(w))
           /\ Kept(w).fullscreen = w.fullscreen /\ Kept(w).bar = w.bar /\ Kept(w).rect = w.rect
           /\ OwnStyle(Kept(w)) = OwnStyle(w)
<1>1. PICK v : v = Kept(w)
  OBVIOUS
<1>2. /\ WinOK(v) /\ \A part \in WinParts \ {"normalRect"} : v[part] = w[part]
      /\ w.maximized \/ w.iconized => v = w
      /\ ~w.maximized /\ ~w.iconized => v.normalRect = wxToRect(w.rect)
  BY <1>1, KeptIs
<1>3. /\ v.maximized = w.maximized /\ v.iconized = w.iconized
      /\ v.restored = w.restored /\ v.rect = w.rect
      /\ v.fullscreen = w.fullscreen /\ v.bar = w.bar /\ v.style = w.style
      /\ v.previousStyle = w.previousStyle
  BY <1>2 DEF WinParts
<1>4. ReturnsTo(v)
  BY <1>2, <1>3 DEF ReturnsTo
<1> QED BY <1>1, <1>2, <1>3, <1>4 DEF OwnStyle

\* The user, or full screen, puts the window somewhere.
LEMMA PutSteady ==
    ASSUME NEW s, NEW lax, Steady(s, lax), NEW t, Shape(t),
           SameSettings(s.cfg, t.cfg),
           \A part \in {"used", "adjust", "onTopLost", "menu"} : t[part] = s[part],
           t.zoom.mode = s.zoom.mode,
           NEW w, WinOK(w), t.win = Kept(w),
           w.maximized => w.normalRect = wxToRect(w.restored),
           OwnStyle(w) = OwnStyle(s.win),
           ~lax => w.bar = (s.cfg.ShowStatusBar /\ ~w.fullscreen),
           OnDisplay(t)
    PROVE  Steady(t, lax)
<1>1. /\ ReturnsTo(t.win) /\ t.win.fullscreen = w.fullscreen /\ t.win.bar = w.bar
      /\ OwnStyle(t.win) = OwnStyle(s.win)
  BY KeptReturns
<1>2. t.cfg.ShowStatusBar = s.cfg.ShowStatusBar /\ t.cfg.AlwaysOnTop = s.cfg.AlwaysOnTop
  <2>1. {"ShowStatusBar", "AlwaysOnTop"} \subseteq CfgParts \ Anchors
    BY DEF CfgParts, Fields, Flags, Anchors
  <2> QED BY <2>1 DEF SameSettings
<1>3. PartsFrom(t.cfg) = PartsFrom(s.cfg)
  BY PartsFromSame
<1>4. MenuAgrees(t)
  BY DEF MenuAgrees, Steady
<1>5. /\ t.adjust = s.adjust /\ t.used = s.used /\ t.onTopLost = s.onTopLost
  OBVIOUS
<1> QED BY <1>1, <1>2, <1>3, <1>4, <1>5 DEF Steady

\* A display grown by a pixel.
LEMMA GrownIs ==
    ASSUME NEW e \in Rect
    PROVE  /\ Grown(e) \in Rect
           /\ \A a \in Axis : /\ Grown(e).pos[a] = e.pos[a] - 1
                              /\ BottomRight(Grown(e))[a] = e.pos[a] + e.size[a]
<1>1. e.pos \in Point /\ e.size \in Point
  BY RectOps
<1>2. PICK one : one = <<1, 1>>
  OBVIOUS
<1>3. one \in Point /\ \A a \in Axis : one[a] = 1
  BY <1>2 DEF Point, Axis
<1>4. /\ Minus(e.pos, one) \in Point /\ \A a \in Axis : Minus(e.pos, one)[a] = e.pos[a] - 1
      /\ Plus(e.size, one) \in Point /\ \A a \in Axis : Plus(e.size, one)[a] = e.size[a] + 1
  BY <1>1, <1>3, PlusIs, MinusIs
<1>5. PICK p \in Point : p = Minus(e.pos, one)
  BY <1>4
<1>6. PICK z \in Point : z = Plus(e.size, one)
  BY <1>4
<1>7. PICK g : g = Grown(e)
  OBVIOUS
<1>8. g = [pos |-> p, size |-> z]
  BY <1>2, <1>5, <1>6, <1>7 DEF Grown
<1>9. g \in Rect /\ g.pos = p /\ g.size = z
  BY <1>8, RectIs
<1>10. \A a \in Axis : BottomRight(g)[a] = g.pos[a] + g.size[a]
  BY <1>9, RectOps
<1>11. ASSUME NEW a \in Axis
       PROVE  g.pos[a] = e.pos[a] - 1 /\ BottomRight(g)[a] = e.pos[a] + e.size[a]
  <2>1. e.pos[a] \in Int /\ e.size[a] \in Int
    BY <1>1 DEF Point
  <2>2. p[a] = e.pos[a] - 1 /\ z[a] = e.size[a] + 1
    BY <1>4, <1>5, <1>6
  <2> QED BY <1>9, <1>10, <2>1, <2>2
<1> QED BY <1>7, <1>9, <1>11

\* The desktop is a display, less a pixel.
LEMMA DesktopFits ==
    ASSUME NEW s, Arrangement(displays)
    PROVE  \E d \in DOMAIN displays :
                Within(Desktop(s), displays[d]) /\ Within(Desktop(s), Grown(displays[d]))
<1>1. PICK d \in DOMAIN displays : Desktop(s) = wxToRect(displays[d])
  BY DesktopType
<1>2. PICK e : e = displays[d]
  OBVIOUS
<1>3. e \in Rect
  BY <1>2, DisplayTypes
<1>4. PICK f : f = wxToRect(e)
  OBVIOUS
<1>5. /\ f \in Rect /\ f.pos = e.pos
      /\ \A a \in Axis : f.size[a] = e.size[a] - 1 /\ BottomRight(e)[a] = e.pos[a] + e.size[a]
      /\ e.pos \in Point /\ e.size \in Point
  BY <1>3, <1>4, RectOps
<1>6. \A a \in Axis : BottomRight(f)[a] = f.pos[a] + f.size[a]
  BY <1>5, RectOps
<1>7. PICK g : g = Grown(e)
  OBVIOUS
<1>8. \A a \in Axis : g.pos[a] = e.pos[a] - 1 /\ BottomRight(g)[a] = e.pos[a] + e.size[a]
  BY <1>3, <1>7, GrownIs
<1>9. ASSUME NEW a \in Axis
      PROVE  /\ f.pos[a] >= e.pos[a] /\ BottomRight(f)[a] <= BottomRight(e)[a]
             /\ f.pos[a] >= g.pos[a] /\ BottomRight(f)[a] <= BottomRight(g)[a]
  <2>1. e.pos[a] \in Int /\ e.size[a] \in Int
    BY <1>5 DEF Point
  <2> QED BY <1>5, <1>6, <1>8, <2>1
<1>10. Within(f, e) /\ Within(f, g)
  BY <1>9 DEF Within
<1> QED BY <1>1, <1>2, <1>4, <1>7, <1>10

\* Full screen and the user's hand leave the settings and what is made of them alone.
Leaves(s, t) ==
    /\ SameSettings(s.cfg, t.cfg)
    /\ \A part \in {"used", "dialog", "adjust", "onTopLost", "menu", "known", "placed", "image",
                    "turned"} : t[part] = s[part]
    /\ t.zoom.mode = s.zoom.mode /\ t.zoom.level = s.zoom.level

\* The window is put to a rectangle, with the style and the bar it is given.
LEMMA RectIn ==
    ASSUME NEW w, WinOK(w), NEW r \in Rect
    PROVE  LET v == [w EXCEPT !.rect = r]
           IN  WinOK(v) /\ v.rect = r /\ \A part \in WinParts \ {"rect"} : v[part] = w[part]
<1>1. PICK v : v = [w EXCEPT !.rect = r]
  OBVIOUS
<1>2. DOMAIN v = WinParts /\ v.rect = r /\ \A part \in WinParts \ {"rect"} : v[part] = w[part]
  BY <1>1 DEF WinOK, WinParts
<1>3. WinOK(v)
  BY <1>2 DEF WinOK, WinParts
<1> QED BY <1>1, <1>2, <1>3

\* A window that changes and is then put somewhere.
LEMMA ResizedIs ==
    ASSUME NEW s, Shape(s), NEW w, WinOK(w), NEW r \in Rect
    PROVE  LET t == SetSize(WithWindow(s, w), r)
           IN  /\ Shape(t) /\ t.cfg = s.cfg /\ Leaves(s, t) /\ t.placedBy = s.placedBy
               /\ t.win = Kept([w EXCEPT !.rect = r]) /\ t.win.rect = r
<1>1. PICK u : u = WithWindow(s, w)
  OBVIOUS
<1>2. /\ Shape(u) /\ u.win = w /\ u.cfg = s.cfg
      /\ u.zoom.mode = s.zoom.mode /\ u.zoom.level = s.zoom.level
      /\ \A part \in StateParts \ {"win", "zoom", "imageZoom"} : u[part] = s[part]
  BY <1>1, WithWindowIs
<1>3. PICK t : t = SetSize(u, r)
  OBVIOUS
<1>4. /\ Keeps(u, t) /\ t.win = Kept([u.win EXCEPT !.rect = r]) /\ t.win.rect = r
      /\ t.cfg = u.cfg /\ t.placedBy = u.placedBy
  BY <1>2, <1>3, SetSizeIs
<1>5. \A part \in {"used", "dialog", "adjust", "onTopLost", "menu", "known", "placed", "image",
                   "turned"} : t[part] = s[part]
  <2>1. \A part \in StateParts \ {"cfg", "win", "zoom", "imageZoom", "placedBy"} : t[part] = u[part]
    BY <1>4 DEF Keeps
  <2>2. {"used", "dialog", "adjust", "onTopLost", "menu", "known", "placed", "image", "turned"}
            \subseteq StateParts \ {"cfg", "win", "zoom", "imageZoom", "placedBy"}
    BY DEF StateParts, ViewerParts
  <2> QED BY <1>2, <2>1, <2>2
<1>6. t.zoom.mode = s.zoom.mode /\ t.zoom.level = s.zoom.level /\ Shape(t)
  BY <1>2, <1>4 DEF Keeps
<1>7. SameSettings(s.cfg, t.cfg)
  BY <1>2, <1>4 DEF Shape, CfgOK, SameSettings
<1>8. t.placedBy = s.placedBy
  BY <1>2, <1>4 DEF StateParts, ViewerParts
<1>9. Leaves(s, t)
  BY <1>5, <1>6, <1>7 DEF Leaves
<1> QED BY <1>1, <1>2, <1>3, <1>4, <1>6, <1>8, <1>9

\* Full screen is entered.
LEMMA EnterFullscreenSteady ==
    ASSUME NEW s, NEW lax, Steady(s, lax), Arrangement(displays), ~s.win.fullscreen
    PROVE  LET t == EnterFullscreen(s)
           IN  /\ Steady(t, lax) /\ Leaves(s, t) /\ t.cfg = s.cfg
               /\ t.win.fullscreen = TRUE /\ t.win.rect = Desktop(s)
               /\ t.win.previousRegion = wxToRect(s.win.rect)
<1> DEFINE none == [border |-> FALSE, onTop |-> FALSE]
<1>1. PICK r \in Rect : r = Desktop(s)
  BY DesktopType
<1>2. PICK region \in Rect : region = wxToRect(s.win.rect)
  BY RectOps DEF Steady, Shape, WinOK
<1>3. PICK style : style = s.win.style
  OBVIOUS
<1>4. PICK w : w = [s.win EXCEPT !.fullscreen = TRUE, !.bar = FALSE, !.previousStyle = style,
                                 !.style = none, !.previousRegion = region]
  OBVIOUS
<1>5. /\ DOMAIN w = WinParts /\ w.fullscreen = TRUE /\ w.bar = FALSE /\ w.previousStyle = style
      /\ w.previousRegion = region
      /\ \A part \in WinParts \ {"fullscreen", "bar", "previousStyle", "style", "previousRegion"} :
            w[part] = s.win[part]
  BY <1>4 DEF Steady, Shape, WinOK, WinParts
<1>6. /\ w.rect = s.win.rect /\ w.normalRect = s.win.normalRect /\ w.restored = s.win.restored
      /\ w.maximized = s.win.maximized
  BY <1>5 DEF WinParts
<1>7. WinOK(w)
  BY <1>5, <1>6 DEF Steady, Shape, WinOK
<1>8. PICK v : v = [w EXCEPT !.rect = r]
  OBVIOUS
<1>9. WinOK(v) /\ \A part \in WinParts \ {"rect"} : v[part] = w[part]
  BY <1>7, <1>8, RectIn
<1>10. /\ v.normalRect = s.win.normalRect /\ v.restored = s.win.restored
       /\ v.maximized = s.win.maximized /\ v.fullscreen = TRUE /\ v.bar = FALSE
       /\ v.previousStyle = style /\ v.previousRegion = region
  BY <1>5, <1>6, <1>9 DEF WinParts
<1>11. PICK t : t = EnterFullscreen(s)
  OBVIOUS
<1>12. t = SetSize(WithWindow(s, w), r)
  BY <1>1, <1>2, <1>3, <1>4, <1>11 DEF EnterFullscreen
<1>13. /\ Shape(t) /\ t.cfg = s.cfg /\ Leaves(s, t) /\ t.placedBy = s.placedBy
       /\ t.win = Kept(v) /\ t.win.rect = r
  BY <1>7, <1>8, <1>12, ResizedIs DEF Steady
<1>14. OnDisplay(t)
  BY <1>1, <1>13, DesktopFits DEF OnDisplay
<1>15. OwnStyle(v) = OwnStyle(s.win)
  BY <1>3, <1>10 DEF OwnStyle
<1>16. v.maximized => v.normalRect = wxToRect(v.restored)
  BY <1>10 DEF Steady, ReturnsTo
<1>17. v.bar = (s.cfg.ShowStatusBar /\ ~v.fullscreen)
  BY <1>10
<1>18. \A part \in {"used", "adjust", "onTopLost", "menu"} : t[part] = s[part]
  BY <1>13 DEF Leaves
<1>19. t.zoom.mode = s.zoom.mode /\ SameSettings(s.cfg, t.cfg)
  BY <1>13 DEF Leaves
<1>20. Steady(t, lax)
  BY <1>9, <1>13, <1>14, <1>15, <1>16, <1>17, <1>18, <1>19, PutSteady
<1>21. t.win.fullscreen = TRUE /\ t.win.previousRegion = region
  BY <1>9, <1>10, <1>13, KeptIs DEF WinParts
<1> QED BY <1>1, <1>2, <1>11, <1>13, <1>20, <1>21

\* Full screen is left: the style, the bar and the place are those before.
LEMMA LeaveFullscreenSteady ==
    ASSUME NEW s, NEW lax, Steady(s, lax), s.win.fullscreen, s.cfg.ShowStatusBar \in BOOLEAN
    PROVE  LET t == LeaveFullscreen(s)
           IN  /\ Steady(t, lax) /\ Leaves(s, t) /\ t.cfg = s.cfg
               /\ t.win.fullscreen = FALSE /\ t.win.rect = s.win.previousRegion
<1>1. PICK style : style = s.win.previousStyle
  OBVIOUS
<1>2. PICK bar \in BOOLEAN : bar = s.cfg.ShowStatusBar
  OBVIOUS
<1>3. PICK r \in Rect : r = s.win.previousRegion
  BY DEF Steady, Shape, WinOK
<1>4. PICK w : w = [s.win EXCEPT !.fullscreen = FALSE, !.style = style, !.bar = bar]
  OBVIOUS
<1>5. /\ DOMAIN w = WinParts /\ w.fullscreen = FALSE /\ w.bar = bar /\ w.style = style
      /\ \A part \in WinParts \ {"fullscreen", "bar", "style"} : w[part] = s.win[part]
  BY <1>4 DEF Steady, Shape, WinOK, WinParts
<1>6. /\ w.rect = s.win.rect /\ w.normalRect = s.win.normalRect /\ w.restored = s.win.restored
      /\ w.maximized = s.win.maximized /\ w.previousRegion = r
  BY <1>3, <1>5 DEF WinParts
<1>7. WinOK(w)
  BY <1>5, <1>6 DEF Steady, Shape, WinOK
<1>8. PICK v : v = [w EXCEPT !.rect = r]
  OBVIOUS
<1>9. WinOK(v) /\ \A part \in WinParts \ {"rect"} : v[part] = w[part]
  BY <1>7, <1>8, RectIn
<1>10. /\ v.normalRect = s.win.normalRect /\ v.restored = s.win.restored
       /\ v.maximized = s.win.maximized /\ v.fullscreen = FALSE /\ v.bar = bar
       /\ v.style = style
  BY <1>5, <1>6, <1>9 DEF WinParts
<1>11. PICK u : u = SetSize(WithWindow(s, w), r)
  OBVIOUS
<1>12. PICK t : t = [u EXCEPT !.placedBy = "user"]
  OBVIOUS
<1>13. t = LeaveFullscreen(s)
  BY <1>1, <1>2, <1>4, <1>6, <1>11, <1>12 DEF LeaveFullscreen
<1>14. /\ Shape(u) /\ u.cfg = s.cfg /\ Leaves(s, u) /\ u.win = Kept(v) /\ u.win.rect = r
  BY <1>7, <1>8, <1>11, ResizedIs DEF Steady
<1>15. /\ Shape(t) /\ t.win = u.win /\ t.cfg = u.cfg /\ Leaves(s, t) /\ t.placedBy = "user"
  <2>1. /\ IsState(t) /\ t.placedBy = "user" /\ \A part \in StateParts \ {"placedBy"} : t[part] = u[part]
    BY <1>12, <1>14 DEF Shape, IsState, StateParts, ViewerParts
  <2>2. /\ t.win = u.win /\ t.cfg = u.cfg /\ t.zoom = u.zoom /\ t.imageZoom = u.imageZoom /\ t.known = u.known
        /\ \A part \in {"used", "dialog", "adjust", "onTopLost", "menu", "known", "placed", "image",
                        "turned"} : t[part] = u[part]
    BY <2>1 DEF StateParts, ViewerParts
  <2> QED BY <1>14, <2>1, <2>2 DEF Shape, Leaves
<1>16. OnDisplay(t)
  BY <1>15 DEF OnDisplay
<1>17. OwnStyle(v) = OwnStyle(s.win)
  BY <1>1, <1>10 DEF OwnStyle
<1>18. v.maximized => v.normalRect = wxToRect(v.restored)
  BY <1>10 DEF Steady, ReturnsTo
<1>19. v.bar = (s.cfg.ShowStatusBar /\ ~v.fullscreen)
  BY <1>2, <1>10
<1>20. \A part \in {"used", "adjust", "onTopLost", "menu"} : t[part] = s[part]
  BY <1>15 DEF Leaves
<1>21. t.zoom.mode = s.zoom.mode /\ SameSettings(s.cfg, t.cfg)
  BY <1>15 DEF Leaves
<1>22. Steady(t, lax)
  BY <1>9, <1>14, <1>15, <1>16, <1>17, <1>18, <1>19, <1>20, <1>21, PutSteady
<1>23. t.win.fullscreen = FALSE
  BY <1>9, <1>10, <1>14, <1>15, KeptIs DEF WinParts
<1> QED BY <1>3, <1>13, <1>14, <1>15, <1>22, <1>23

\* The dialog is made or shown.
LEMMA DialogSteady ==
    ASSUME NEW s, NEW lax, Steady(s, lax), NEW d
    PROVE  LET t == [s EXCEPT !.dialog = d]
           IN  /\ Steady(t, lax) /\ t.dialog = d
               /\ \A part \in StateParts \ {"dialog"} : t[part] = s[part]
<1>1. PICK t : t = [s EXCEPT !.dialog = d]
  OBVIOUS
<1>2. IsState(t) /\ t.dialog = d /\ \A part \in StateParts \ {"dialog"} : t[part] = s[part]
  BY <1>1 DEF Steady, Shape, IsState, StateParts, ViewerParts
<1>3. /\ t.cfg = s.cfg /\ t.win = s.win /\ t.zoom = s.zoom /\ t.imageZoom = s.imageZoom
      /\ t.known = s.known /\ t.menu = s.menu /\ t.placedBy = s.placedBy /\ t.adjust = s.adjust
      /\ t.used = s.used /\ t.onTopLost = s.onTopLost
  BY <1>2 DEF StateParts, ViewerParts
<1>4. Shape(t)
  BY <1>2, <1>3 DEF Steady, Shape
<1>5. MenuAgrees(t) /\ OnDisplay(t)
  BY <1>3 DEF Steady, MenuAgrees, OnDisplay
<1>6. Steady(t, lax)
  BY <1>3, <1>4, <1>5 DEF Steady
<1> QED BY <1>1, <1>2, <1>6

\* The adjustment dialog with the picture as its sliders say, or not automatic.
LEMMA AdjustSteady ==
    ASSUME NEW s, NEW lax, Steady(s, lax), NEW adjust, DOMAIN adjust = AdjustParts,
           adjust.auto => adjust.applied = adjust.sliders
    PROVE  LET t == [s EXCEPT !.adjust = adjust]
           IN  /\ Steady(t, lax) /\ t.adjust = adjust
               /\ \A part \in StateParts \ {"adjust"} : t[part] = s[part]
<1>1. PICK t : t = [s EXCEPT !.adjust = adjust]
  OBVIOUS
<1>2. IsState(t) /\ t.adjust = adjust /\ \A part \in StateParts \ {"adjust"} : t[part] = s[part]
  BY <1>1 DEF Steady, Shape, IsState, StateParts, ViewerParts
<1>3. /\ t.cfg = s.cfg /\ t.win = s.win /\ t.zoom = s.zoom /\ t.imageZoom = s.imageZoom
      /\ t.known = s.known /\ t.menu = s.menu /\ t.placedBy = s.placedBy
      /\ t.used = s.used /\ t.onTopLost = s.onTopLost
  BY <1>2 DEF StateParts, ViewerParts
<1>4. Shape(t)
  BY <1>2, <1>3 DEF Steady, Shape
<1>5. MenuAgrees(t) /\ OnDisplay(t)
  BY <1>3 DEF Steady, MenuAgrees, OnDisplay
<1>6. Steady(t, lax)
  BY <1>2, <1>3, <1>4, <1>5 DEF Steady
<1> QED BY <1>1, <1>2, <1>6

\* The adjustment dialog is shown, with what the picture has.
LEMMA ShowAdjustSteady ==
    ASSUME NEW s, NEW lax, Steady(s, lax)
    PROVE  /\ Steady(ShowAdjust(s), lax)
           /\ \A part \in StateParts \ {"adjust"} : ShowAdjust(s)[part] = s[part]
<1>1. PICK shown : shown = [s.adjust EXCEPT !.shown = TRUE, !.sliders = s.adjust.applied]
  OBVIOUS
<1>2. /\ DOMAIN shown = AdjustParts /\ shown.sliders = s.adjust.applied
      /\ shown.applied = s.adjust.applied
  BY <1>1 DEF AdjustParts, Steady
<1>3. ShowAdjust(s) = [s EXCEPT !.adjust = shown]
  BY <1>1 DEF ShowAdjust, Steady, Shape, IsState, StateParts, ViewerParts
<1> QED BY <1>2, <1>3, AdjustSteady

\* With auto apply, every use of the dialog applies its sliders.
LEMMA AdjustResultsAgree ==
    ASSUME NEW a, DOMAIN a = AdjustParts, a.auto => a.applied = a.sliders, NEW b \in AdjustResults(a)
    PROVE  DOMAIN b = AdjustParts /\ (b.auto => b.applied = b.sliders)
<1>1. ASSUME NEW c, DOMAIN c = AdjustParts
      PROVE  /\ DOMAIN Adjusted(c) = AdjustParts /\ Adjusted(c).applied = Adjusted(c).sliders
             /\ DOMAIN IfAuto(c) = AdjustParts
             /\ IfAuto(c).auto => IfAuto(c).applied = IfAuto(c).sliders
  BY <1>1 DEF Adjusted, IfAuto, AdjustParts
<1>2. CASE \E level \in Levels : b = IfAuto([a EXCEPT !.sliders = level])
  <2>1. PICK level \in Levels : b = IfAuto([a EXCEPT !.sliders = level])
    BY <1>2
  <2>2. PICK c : c = [a EXCEPT !.sliders = level]
    OBVIOUS
  <2>3. DOMAIN c = AdjustParts
    BY <2>2
  <2> QED BY <1>1, <2>1, <2>2, <2>3
<1>3. CASE b = ToggleAuto(a)
  <2>1. PICK c : c = [a EXCEPT !.auto = ~@]
    OBVIOUS
  <2>2. DOMAIN c = AdjustParts
    BY <2>1
  <2> QED BY <1>1, <1>3, <2>1, <2>2 DEF ToggleAuto
<1>4. CASE b = Adjusted(a)
  BY <1>1, <1>4
<1>5. CASE b = [a EXCEPT !.shown = FALSE]
  BY <1>5 DEF AdjustParts
<1>6. CASE b = IfAuto([a EXCEPT !.sliders = 0])
  <2>1. PICK c : c = [a EXCEPT !.sliders = 0]
    OBVIOUS
  <2>2. DOMAIN c = AdjustParts
    BY <2>1
  <2> QED BY <1>1, <1>6, <2>1, <2>2
<1> QED BY <1>2, <1>3, <1>4, <1>5, <1>6 DEF AdjustResults

\* The user puts the window somewhere, or makes it another one.
LEMMA UserPuts ==
    ASSUME NEW s, NEW lax, Steady(s, lax), NEW user \in BOOLEAN,
           NEW w, WinOK(w), w.maximized => w.normalRect = wxToRect(w.restored),
           w.fullscreen = s.win.fullscreen, w.bar = s.win.bar, w.style = s.win.style,
           w.previousStyle = s.win.previousStyle
    PROVE  LET t == [Moved(s, w, user) EXCEPT !.placedBy = "user"]
           IN  /\ Steady(t, lax) /\ Leaves(s, t)
               /\ t.win.fullscreen = w.fullscreen /\ t.win.rect = w.rect
               /\ t.win.previousRegion = w.previousRegion
<1>1. PICK u : u = Moved(s, w, user)
  OBVIOUS
<1>2. /\ Shape(u) /\ u.win = Kept(w) /\ SameSettings(s.cfg, u.cfg)
      /\ \A part \in StateParts \ {"win", "zoom", "imageZoom", "cfg"} : u[part] = s[part]
      /\ u.zoom.mode = s.zoom.mode /\ u.zoom.level = s.zoom.level
  BY <1>1, MovedIs DEF Steady
<1>3. PICK t : t = [u EXCEPT !.placedBy = "user"]
  OBVIOUS
<1>4. /\ IsState(t) /\ t.placedBy = "user" /\ \A part \in StateParts \ {"placedBy"} : t[part] = u[part]
  BY <1>2, <1>3 DEF Shape, IsState, StateParts, ViewerParts
<1>5. /\ t.win = u.win /\ t.cfg = u.cfg /\ t.zoom = u.zoom /\ t.imageZoom = u.imageZoom /\ t.known = u.known
      /\ \A part \in {"used", "dialog", "adjust", "onTopLost", "menu", "known", "placed", "image",
                      "turned"} : t[part] = s[part]
  BY <1>2, <1>4 DEF StateParts, ViewerParts
<1>6. Shape(t) /\ t.zoom.mode = s.zoom.mode /\ t.zoom.level = s.zoom.level
  BY <1>2, <1>4, <1>5 DEF Shape
<1>7. Leaves(s, t)
  BY <1>2, <1>5, <1>6 DEF Leaves
<1>8. OnDisplay(t)
  BY <1>4 DEF OnDisplay
<1>9. OwnStyle(w) = OwnStyle(s.win)
  BY DEF OwnStyle
<1>10. ~lax => w.bar = (s.cfg.ShowStatusBar /\ ~w.fullscreen)
  BY DEF Steady
<1>11. \A part \in {"used", "adjust", "onTopLost", "menu"} : t[part] = s[part]
  BY <1>5
<1>12. t.win = Kept(w) /\ SameSettings(s.cfg, t.cfg)
  BY <1>2, <1>5
<1>13. Steady(t, lax)
  BY <1>6, <1>8, <1>9, <1>10, <1>11, <1>12, PutSteady
<1>14. /\ t.win.fullscreen = w.fullscreen /\ t.win.rect = w.rect
       /\ t.win.previousRegion = w.previousRegion
  BY <1>12, KeptIs DEF WinParts
<1> QED BY <1>1, <1>3, <1>7, <1>13, <1>14

\* What the settings and the viewer's copies of them keep.
SameUse(s, t) == SameSettings(s.cfg, t.cfg) /\ t.used = s.used

\* Settings that are the same as the same ones.
LEMMA SameSettingsAgain ==
    ASSUME NEW c, NEW e, NEW g, SameSettings(c, e), SameSettings(e, g)
    PROVE  SameSettings(c, g)
BY DEF SameSettings

\* Two steps that keep settings and copies keep them together.
LEMMA SameUseAgain ==
    ASSUME NEW s, NEW t, NEW u, SameUse(s, t), SameUse(t, u)
    PROVE  SameUse(s, u)
BY SameSettingsAgain DEF SameUse

\* A step that touches neither settings nor copies.
LEMMA SameUseSelf ==
    ASSUME NEW s, NEW t, CfgOK(s.cfg), t.cfg = s.cfg, t.used = s.used
    PROVE  SameUse(s, t)
BY DEF SameUse, SameSettings, CfgOK

\* Full screen is entered or left, with what that does for the dialogs.
LEMMA ToggledFullscreenSteady ==
    ASSUME NEW s, NEW lax, Steady(s, lax), Arrangement(displays), s.cfg.ShowStatusBar \in BOOLEAN
    PROVE  LET t == ToggledFullscreen(s)
           IN  /\ Steady(t, lax) /\ SameUse(s, t)
               /\ t.dialog = InitDialogs(s.dialog, s.cfg)
<1>1. PICK d : d = InitDialogs(s.dialog, s.cfg)
  OBVIOUS
<1>2. PICK made : made = [s EXCEPT !.dialog = d]
  OBVIOUS
<1>3. /\ Steady(made, lax) /\ made.dialog = d
      /\ \A part \in StateParts \ {"dialog"} : made[part] = s[part]
  BY <1>2, DialogSteady
<1>4. PICK u : u = IF s.adjust.shown THEN ShowAdjust(made) ELSE made
  OBVIOUS
<1>5. /\ Steady(u, lax) /\ u.dialog = d
      /\ \A part \in StateParts \ {"dialog", "adjust"} : u[part] = s[part]
  <2>1. /\ Steady(ShowAdjust(made), lax)
        /\ \A part \in StateParts \ {"adjust"} : ShowAdjust(made)[part] = made[part]
    BY <1>3, ShowAdjustSteady
  <2>2. Steady(u, lax) /\ \A part \in StateParts \ {"adjust"} : u[part] = made[part]
    BY <1>3, <1>4, <2>1
  <2> QED BY <1>3, <2>2 DEF StateParts, ViewerParts
<1>6. u.cfg = s.cfg /\ u.win = s.win /\ u.used = s.used
  BY <1>5 DEF StateParts, ViewerParts
<1>7. PICK v : v = IF u.win.fullscreen THEN LeaveFullscreen(u) ELSE EnterFullscreen(u)
  OBVIOUS
<1>8. Steady(v, lax) /\ Leaves(u, v)
  <2>1. CASE u.win.fullscreen
    <3>1. v = LeaveFullscreen(u)
      BY <1>7, <2>1
    <3> QED BY <1>5, <1>6, <2>1, <3>1, LeaveFullscreenSteady
  <2>2. CASE ~u.win.fullscreen
    <3>1. v = EnterFullscreen(u)
      BY <1>7, <2>2
    <3> QED BY <1>5, <2>2, <3>1, EnterFullscreenSteady
  <2> QED BY <2>1, <2>2
<1>9. PICK t : t = ImageChanged(v)
  OBVIOUS
<1>10. Quiet(v, t)
  BY <1>8, <1>9, ImageChangedQuiet DEF Steady
<1>11. t = ToggledFullscreen(s)
  <2>1. made = [s EXCEPT !.dialog = InitDialogs(@, s.cfg)]
    BY <1>1, <1>2
  <2> QED BY <1>4, <1>7, <1>9, <2>1 DEF ToggledFullscreen, ToggleFullscreenMode
<1>12. Steady(t, lax)
  BY <1>8, <1>10, QuietSteady
<1>13. SameUse(s, t)
  <2>1. SameUse(u, v) /\ SameUse(v, t)
    BY <1>8, <1>10 DEF SameUse, Leaves, Quiet
  <2>2. SameUse(s, u)
    BY <1>6, SameUseSelf DEF Steady, Shape
  <2> QED BY <2>1, <2>2, SameUseAgain
<1>14. t.dialog = d
  BY <1>5, <1>8, <1>10 DEF Leaves, Quiet
<1> QED BY <1>1, <1>11, <1>12, <1>13, <1>14

\* Whatever the user asks for by a key, the menu or the mouse.
LEMMA ResultsSteady ==
    ASSUME NEW s, NEW lax, Steady(s, lax), Arrangement(displays), s.cfg.ShowStatusBar \in BOOLEAN,
           NEW r, NEW t \in Results(s, r)
    PROVE  /\ Steady(t, lax) /\ SameUse(s, t)
           /\ t.dialog \in {s.dialog, InitDialogs(s.dialog, s.cfg), ShowSettings(s.dialog, s.cfg)}
<1>1. Shape(s) /\ CfgOK(s.cfg)
  BY DEF Steady, Shape
<1>2. CASE Quiet(s, t)
  <2>1. Steady(t, lax)
    BY <1>2, QuietSteady
  <2> QED BY <1>2, <2>1 DEF Quiet, SameUse
<1>3. CASE t = ToggledFullscreen(s)
  BY <1>3, ToggledFullscreenSteady
<1>4. CASE t = [s EXCEPT !.dialog = ShowSettings(@, s.cfg)]
  <2>1. PICK d : d = ShowSettings(s.dialog, s.cfg)
    OBVIOUS
  <2>2. t = [s EXCEPT !.dialog = d]
    BY <1>4, <2>1
  <2>3. Steady(t, lax) /\ t.dialog = d /\ \A part \in StateParts \ {"dialog"} : t[part] = s[part]
    BY <2>2, DialogSteady
  <2>4. t.cfg = s.cfg /\ t.used = s.used
    BY <2>3 DEF StateParts, ViewerParts
  <2> QED BY <1>1, <2>1, <2>3, <2>4, SameUseSelf
<1>5. CASE t = ShowAdjust(s)
  <2>1. Steady(t, lax) /\ \A part \in StateParts \ {"adjust"} : t[part] = s[part]
    BY <1>5, ShowAdjustSteady
  <2>2. t.cfg = s.cfg /\ t.used = s.used /\ t.dialog = s.dialog
    BY <2>1 DEF StateParts, ViewerParts
  <2> QED BY <1>1, <2>1, <2>2, SameUseSelf
<1> QED BY <1>1, <1>2, <1>3, <1>4, <1>5, ResultsQuiet

\* In full screen the window stays where it is, and where it goes back to.
StaysHome(w, v) ==
    /\ v.fullscreen = w.fullscreen
    /\ w.fullscreen => v.rect = w.rect /\ v.previousRegion = w.previousRegion

\* The user's hand on the window.
LEMMA WindowResultsSteady ==
    ASSUME NEW s, NEW lax, Steady(s, lax), Arrangement(displays),
           start.moves \subseteq Point, start.sizes \subseteq Point, NEW t \in WindowResults(s)
    PROVE  Steady(t, lax) /\ Leaves(s, t) /\ StaysHome(s.win, t.win)
<1>1. WinOK(s.win) /\ s.win.rect \in Rect /\ s.win.restored \in Rect
  BY DEF Steady, Shape, WinOK
<1> DEFINE Placeable(w) ==
        /\ WinOK(w) /\ (w.maximized => w.normalRect = wxToRect(w.restored))
        /\ w.fullscreen = s.win.fullscreen /\ w.bar = s.win.bar /\ w.style = s.win.style
        /\ w.previousStyle = s.win.previousStyle /\ StaysHome(s.win, w)
<1>2. ASSUME NEW w, Placeable(w), NEW user \in BOOLEAN, t = [Moved(s, w, user) EXCEPT !.placedBy = "user"]
      PROVE  Steady(t, lax) /\ Leaves(s, t) /\ StaysHome(s.win, t.win)
  BY <1>2, UserPuts DEF StaysHome
<1>3. PICK yes \in BOOLEAN : yes = TRUE
  OBVIOUS
<1>4. PICK no \in BOOLEAN : no = FALSE
  OBVIOUS
<1>5. CASE \E iconized \in BOOLEAN : t = Iconized(s, iconized)
  <2>1. PICK iconized \in BOOLEAN : t = Iconized(s, iconized)
    BY <1>5
  <2>2. PICK w : w = [s.win EXCEPT !.iconized = iconized]
    OBVIOUS
  <2>3. DOMAIN w = WinParts /\ \A part \in WinParts \ {"iconized"} : w[part] = s.win[part]
    BY <1>1, <2>2 DEF WinOK, WinParts
  <2>4. Placeable(w)
    BY <1>1, <2>3 DEF WinOK, WinParts, Steady, ReturnsTo, StaysHome
  <2>5. t = [Moved(s, w, yes) EXCEPT !.placedBy = "user"]
    BY <1>3, <2>1, <2>2 DEF Iconized, UserMoves
  <2> HIDE DEF Placeable
  <2> QED BY <1>2, <2>4, <2>5
<1>6. CASE ~s.win.iconized /\ ~s.win.fullscreen /\ ~s.win.maximized /\ t = Maximized(s)
  <2>1. PICK r \in Rect : r = DisplayFromPointFallback(s.win.rect.pos)
    BY DesktopType
  <2>2. PICK old \in Rect : old = s.win.rect
    BY <1>1
  <2>3. PICK w : w = [s.win EXCEPT !.maximized = TRUE, !.restored = old, !.rect = r]
    OBVIOUS
  <2>4. /\ DOMAIN w = WinParts /\ w.restored = old /\ w.rect = r
        /\ \A part \in WinParts \ {"maximized", "restored", "rect"} : w[part] = s.win[part]
    BY <1>1, <2>3 DEF WinOK, WinParts
  <2>5. s.win.normalRect = wxToRect(old)
    BY <1>6, <2>2 DEF Steady, ReturnsTo
  <2>6. Placeable(w)
    BY <1>1, <1>6, <2>4, <2>5 DEF WinOK, WinParts, StaysHome
  <2>7. t = [Moved(s, w, yes) EXCEPT !.placedBy = "user"]
    BY <1>3, <1>6, <2>1, <2>2, <2>3 DEF Maximized, UserMoves
  <2> HIDE DEF Placeable
  <2> QED BY <1>2, <2>6, <2>7
<1>7. CASE ~s.win.fullscreen /\ t = Unmaximized(s)
  <2>1. PICK r \in Rect : r = s.win.restored
    BY <1>1
  <2>2. PICK w : w = [s.win EXCEPT !.maximized = FALSE, !.rect = r]
    OBVIOUS
  <2>3. /\ DOMAIN w = WinParts /\ w.maximized = FALSE /\ w.rect = r
        /\ \A part \in WinParts \ {"maximized", "rect"} : w[part] = s.win[part]
    BY <1>1, <2>2 DEF WinOK, WinParts
  <2>4. Placeable(w)
    BY <1>1, <1>7, <2>3 DEF WinOK, WinParts, StaysHome
  <2>5. t = [Moved(s, w, yes) EXCEPT !.placedBy = "user"]
    BY <1>3, <1>7, <2>1, <2>2 DEF Unmaximized, UserMoves
  <2> HIDE DEF Placeable
  <2> QED BY <1>2, <2>4, <2>5
<1>8. ASSUME NEW r \in Rect, ~s.win.maximized, ~s.win.fullscreen
      PROVE  Placeable([s.win EXCEPT !.rect = r])
  <2>1. PICK w : w = [s.win EXCEPT !.rect = r]
    OBVIOUS
  <2>2. WinOK(w) /\ \A part \in WinParts \ {"rect"} : w[part] = s.win[part]
    BY <1>1, <2>1, RectIn
  <2>3. Placeable(w)
    BY <1>8, <2>2 DEF WinParts, StaysHome
  <2> QED BY <2>1, <2>3
<1>9. CASE ~s.win.maximized /\ ~s.win.fullscreen /\ \E pos \in start.moves :
                t = UserMoves(s, [s.win EXCEPT !.rect.pos = pos])
  <2>1. PICK pos \in start.moves : t = UserMoves(s, [s.win EXCEPT !.rect.pos = pos])
    BY <1>9
  <2>2. PICK r : r = [s.win.rect EXCEPT !.pos = pos]
    OBVIOUS
  <2>3. r \in Rect
    BY <1>1, <2>2 DEF Rect
  <2>4. PICK w : w = [s.win EXCEPT !.rect = r]
    OBVIOUS
  <2>5. Placeable(w)
    BY <1>8, <1>9, <2>3, <2>4
  <2>6. t = [Moved(s, w, yes) EXCEPT !.placedBy = "user"]
    BY <1>3, <2>1, <2>2, <2>4 DEF UserMoves
  <2> HIDE DEF Placeable
  <2> QED BY <1>2, <2>5, <2>6
<1>10. CASE ~s.win.maximized /\ ~s.win.fullscreen /\ \E size \in start.sizes : t = UserResizes(s, size)
  <2>1. PICK size \in start.sizes : t = UserResizes(s, size)
    BY <1>10
  <2>2. PICK r : r = [s.win.rect EXCEPT !.size = size]
    OBVIOUS
  <2>3. r \in Rect
    BY <1>1, <2>2 DEF Rect
  <2>4. PICK w : w = [s.win EXCEPT !.rect = r]
    OBVIOUS
  <2>5. Placeable(w)
    BY <1>8, <1>10, <2>3, <2>4
  <2>6. t = [Moved(s, w, no) EXCEPT !.placedBy = "user"]
    BY <1>4, <2>1, <2>2, <2>4 DEF UserResizes
  <2> HIDE DEF Placeable
  <2> QED BY <1>2, <2>5, <2>6
<1> HIDE DEF Placeable
<1>11. \/ \E iconized \in BOOLEAN : t = Iconized(s, iconized)
       \/ ~s.win.iconized /\ ~s.win.fullscreen /\ ~s.win.maximized /\ t = Maximized(s)
       \/ ~s.win.fullscreen /\ t = Unmaximized(s)
       \/ ~s.win.maximized /\ ~s.win.fullscreen /\ \E pos \in start.moves :
                t = UserMoves(s, [s.win EXCEPT !.rect.pos = pos])
       \/ ~s.win.maximized /\ ~s.win.fullscreen /\ \E size \in start.sizes : t = UserResizes(s, size)
  BY DEF WindowResults
<1> QED BY <1>5, <1>6, <1>7, <1>9, <1>10, <1>11

-----------------------------------------------------------------------------
(* A session begins, and an Apply reaches every part.                      *)

\* No point is on two displays.
LEMMA OneDisplay ==
    ASSUME Arrangement(displays), NEW p \in Point,
           NEW d \in GetFromPoint(p), NEW e \in GetFromPoint(p)
    PROVE  d = e
<1> SUFFICES ASSUME d # e
             PROVE  FALSE
  OBVIOUS
<1>1. d \in DOMAIN displays /\ e \in DOMAIN displays
  BY DEF GetFromPoint
<1>2. PICK x : x = displays[d]
  OBVIOUS
<1>3. PICK y : y = displays[e]
  OBVIOUS
<1>4. x \in Rect /\ y \in Rect /\ Holds(x, p) /\ Holds(y, p)
  BY <1>1, <1>2, <1>3, DisplayTypes DEF GetFromPoint
<1>5. PICK a \in Axis : BottomRight(x)[a] <= y.pos[a] \/ BottomRight(y)[a] <= x.pos[a]
  BY <1>1, <1>2, <1>3 DEF Arrangement
<1>6. /\ p[a] >= x.pos[a] /\ p[a] < BottomRight(x)[a]
      /\ p[a] >= y.pos[a] /\ p[a] < BottomRight(y)[a]
  BY <1>4 DEF Holds
<1>7. /\ p[a] \in Int /\ x.pos[a] \in Int /\ y.pos[a] \in Int
      /\ BottomRight(x)[a] \in Int /\ BottomRight(y)[a] \in Int
  <2>1. /\ x.pos \in Point /\ y.pos \in Point /\ BottomRight(x) \in Point
        /\ BottomRight(y) \in Point
    BY <1>4, RectOps
  <2> QED BY <2>1 DEF Point
<1> QED BY <1>5, <1>6, <1>7

\* A point between two others, or the one it is beyond.
LEMMA ConstrainIs ==
    ASSUME NEW low \in Point, NEW p \in Point, NEW top \in Point
    PROVE  /\ Constrain(low, p, top) \in Point
           /\ \A a \in Axis :
                /\ Constrain(low, p, top)[a] <= top[a]
                /\ \/ Constrain(low, p, top)[a] = top[a]
                   \/ Constrain(low, p, top)[a] >= low[a]
                /\ low[a] <= p[a] /\ p[a] <= top[a] => Constrain(low, p, top)[a] = p[a]
<1>1. PICK q : q = Larger(low, p)
  OBVIOUS
<1>2. q \in Point /\ \A a \in Axis : q[a] = IF low[a] < p[a] THEN p[a] ELSE low[a]
  BY <1>1, LargerIs
<1>3. PICK r : r = Smaller(q, top)
  OBVIOUS
<1>4. r \in Point /\ \A a \in Axis : r[a] = IF q[a] < top[a] THEN q[a] ELSE top[a]
  BY <1>2, <1>3, SmallerIs
<1>5. ASSUME NEW a \in Axis
      PROVE  /\ r[a] <= top[a] /\ (r[a] = top[a] \/ r[a] >= low[a])
             /\ low[a] <= p[a] /\ p[a] <= top[a] => r[a] = p[a]
  <2>1. low[a] \in Int /\ p[a] \in Int /\ top[a] \in Int
    BY DEF Point
  <2> QED BY <1>2, <1>4, <2>1
<1> QED BY <1>1, <1>3, <1>4, <1>5 DEF Constrain

\* A new window: on the display its corner is on, as it was if that is possible.
LEMMA CreateWindowIs ==
    ASSUME Arrangement(displays), NEW c, c.Pos \in Point, c.WindowSize \in Point
    PROVE  /\ CreateWindow(c) \in Rect
           /\ GetFromPoint(c.Pos) # {} =>
                \E d \in DOMAIN displays : Within(CreateWindow(c), Grown(displays[d]))
           /\ LET r == [pos |-> c.Pos, size |-> c.WindowSize]
              IN  Fits(r) /\ (\A a \in Axis : r.size[a] >= MinWindow[a]) => CreateWindow(c) = r
<1>1. PICK p \in Point : p = c.Pos
  OBVIOUS
<1>2. PICK z \in Point : z = c.WindowSize
  OBVIOUS
<1>3. PICK r : r = [pos |-> p, size |-> z]
  OBVIOUS
<1>4. r \in Rect /\ r.pos = p /\ r.size = z
  BY <1>3, RectIs
<1>5. CASE GetFromPoint(p) = {}
  <2>1. CreateWindow(c) = DefaultRect
    BY <1>1, <1>5 DEF CreateWindow
  <2>2. ~Fits(r)
    BY <1>4, <1>5 DEF Fits, GetFromPoint
  <2> QED BY <1>1, <1>2, <1>3, <1>5, <2>1, <2>2, WindowAssumption
<1>6. CASE GetFromPoint(p) # {}
  <2>1. PICK k \in GetFromPoint(p) : k = CHOOSE d \in GetFromPoint(p) : TRUE
    BY <1>6
  <2>2. PICK d : d = displays[k]
    OBVIOUS
  <2>3. k \in DOMAIN displays /\ d \in Rect
    BY <2>1, <2>2, DisplayTypes DEF GetFromPoint
  <2>4. /\ d.pos \in Point /\ d.size \in Point /\ BottomRight(d) \in Point
        /\ \A a \in Axis : BottomRight(d)[a] = d.pos[a] + d.size[a]
    BY <2>3, RectOps
  <2>5. PICK one : one = <<1, 1>>
    OBVIOUS
  <2>6. one \in Point /\ \A a \in Axis : one[a] = 1
    BY <2>5 DEF Point, Axis
  <2>7. PICK last \in Point : last = Minus(BottomRight(d), one)
    BY <2>4, <2>6, MinusIs
  <2>8. \A a \in Axis : last[a] = BottomRight(d)[a] - 1
    BY <2>4, <2>6, <2>7, MinusIs
  <2>9. PICK size : size = Constrain(MinWindow, z, d.size)
    OBVIOUS
  <2>10. /\ size \in Point /\ \A a \in Axis : size[a] <= d.size[a]
         /\ \A a \in Axis : MinWindow[a] <= z[a] /\ z[a] <= d.size[a] => size[a] = z[a]
    BY <2>4, <2>9, ConstrainIs, PointValues
  <2>11. PICK top \in Point : top = Minus(last, size)
    BY <2>10, MinusIs
  <2>12. \A a \in Axis : top[a] = last[a] - size[a]
    BY <2>10, <2>11, MinusIs
  <2>13. PICK pos : pos = Constrain(d.pos, p, top)
    OBVIOUS
  <2>14. /\ pos \in Point
         /\ \A a \in Axis : pos[a] <= top[a] /\ (pos[a] = top[a] \/ pos[a] >= d.pos[a])
         /\ \A a \in Axis : d.pos[a] <= p[a] /\ p[a] <= top[a] => pos[a] = p[a]
    BY <2>4, <2>13, ConstrainIs
  <2>15. PICK w : w = [pos |-> pos, size |-> size]
    OBVIOUS
  <2>16. w \in Rect /\ w.pos = pos /\ w.size = size
    BY <2>10, <2>14, <2>15, RectIs
  <2>17. w = CreateWindow(c)
    BY <1>1, <1>2, <1>6, <2>1, <2>2, <2>5, <2>7, <2>9, <2>11, <2>13, <2>15 DEF CreateWindow
  <2>18. \A a \in Axis : BottomRight(w)[a] = pos[a] + size[a]
    BY <2>16, RectOps
  <2>19. PICK g : g = Grown(d)
    OBVIOUS
  <2>20. \A a \in Axis : g.pos[a] = d.pos[a] - 1 /\ BottomRight(g)[a] = d.pos[a] + d.size[a]
    BY <2>3, <2>19, GrownIs
  <2>21. ASSUME NEW a \in Axis
         PROVE  /\ d.pos[a] \in Int /\ d.size[a] \in Int /\ p[a] \in Int /\ z[a] \in Int
                /\ size[a] \in Int /\ pos[a] \in Int /\ MinWindow[a] \in Int
    BY <2>4, <2>10, <2>14, PointValues DEF Point
  <2>22. ASSUME NEW a \in Axis
         PROVE  w.pos[a] >= g.pos[a] /\ BottomRight(w)[a] <= BottomRight(g)[a]
    BY <2>4, <2>8, <2>10, <2>12, <2>14, <2>16, <2>18, <2>20, <2>21
  <2>23. Within(w, g)
    BY <2>22 DEF Within
  <2>24. ASSUME Fits(r), \A a \in Axis : r.size[a] >= MinWindow[a]
         PROVE  w = r
    <3>1. PICK e \in DOMAIN displays : Within(r, wxToRect(displays[e])) /\ Holds(displays[e], r.pos)
      BY <2>24 DEF Fits
    <3>2. e = k
      <4>1. e \in GetFromPoint(p)
        BY <1>4, <3>1 DEF GetFromPoint
      <4> QED BY <2>1, <4>1, OneDisplay
    <3>3. PICK f : f = wxToRect(d)
      OBVIOUS
    <3>4. f \in Rect /\ f.pos = d.pos /\ \A a \in Axis : f.size[a] = d.size[a] - 1
      BY <2>3, <3>3, RectOps
    <3>5. \A a \in Axis : BottomRight(f)[a] = f.pos[a] + f.size[a]
      BY <3>4, RectOps
    <3>6. \A a \in Axis : BottomRight(r)[a] = p[a] + z[a]
      BY <1>4, RectOps
    <3>7. Within(r, f)
      BY <2>2, <3>1, <3>2, <3>3
    <3>8. ASSUME NEW a \in Axis
          PROVE  d.pos[a] <= p[a] /\ p[a] + z[a] <= d.pos[a] + d.size[a] - 1 /\ MinWindow[a] <= z[a]
      <4>1. r.pos[a] >= f.pos[a] /\ BottomRight(r)[a] <= BottomRight(f)[a]
        BY <3>7 DEF Within
      <4> QED BY <1>4, <2>21, <2>24, <3>4, <3>5, <3>6, <4>1
    <3>9. ASSUME NEW a \in Axis
          PROVE  size[a] = z[a]
      BY <2>10, <2>21, <3>8
    <3>10. ASSUME NEW a \in Axis
           PROVE  pos[a] = p[a]
      <4>1. top[a] = d.pos[a] + d.size[a] - 1 - z[a]
        BY <2>4, <2>8, <2>12, <2>21, <3>9
      <4> QED BY <2>14, <2>21, <3>8, <4>1
    <3>11. size = z /\ pos = p
      BY <2>10, <2>14, <3>9, <3>10 DEF Point
    <3> QED BY <1>3, <2>15, <3>11
  <2> QED BY <1>1, <1>2, <1>3, <2>2, <2>3, <2>16, <2>17, <2>19, <2>23, <2>24
<1> QED BY <1>5, <1>6

\* The window and the viewer of a new session.
LEMMA NewWindowIs ==
    ASSUME Arrangement(displays), NEW c, c.Pos \in Point, c.WindowSize \in Point
    PROVE  LET w == NewWindow(c)
           IN  /\ WinOK(w) /\ ReturnsTo(w) /\ w.rect = CreateWindow(c) /\ ~w.fullscreen
               /\ w.bar = c.ShowStatusBar
               /\ OwnStyle(w) = [border |-> TRUE, onTop |-> c.AlwaysOnTop]
<1>1. PICK r \in Rect : r = CreateWindow(c)
  BY CreateWindowIs
<1>2. PICK n \in Rect : n = wxToRect(r)
  BY RectOps
<1>3. PICK z : z = [pos |-> <<0, 0>>, size |-> <<0, 0>>]
  OBVIOUS
<1>4. z \in Rect
  BY <1>3, PointValues DEF Rect
<1>5. PICK w : w = NewWindow(c)
  OBVIOUS
<1>6. /\ DOMAIN w = WinParts /\ w.rect = r /\ w.normalRect = n /\ w.restored = r
      /\ w.previousRegion = z /\ w.maximized = FALSE /\ w.iconized = FALSE /\ w.fullscreen = FALSE
      /\ w.bar = c.ShowStatusBar
      /\ w.style = [border |-> TRUE, onTop |-> c.AlwaysOnTop]
  BY <1>1, <1>2, <1>3, <1>5 DEF NewWindow, WinParts
<1>7. WinOK(w) /\ ReturnsTo(w) /\ OwnStyle(w) = w.style
  BY <1>2, <1>4, <1>6 DEF WinOK, ReturnsTo, OwnStyle
<1> QED BY <1>1, <1>5, <1>6, <1>7

\* A new viewer is steady.
LEMMA NewViewerSteady ==
    ASSUME Arrangement(displays), NEW c, CfgOK(c), c.ShowStatusBar \in BOOLEAN
    PROVE  LET s == NewViewer(c)
           IN  /\ Steady(s, FALSE) /\ s.cfg = c /\ s.dialog = NoDialog /\ s.known = {}
               /\ s.win.rect = CreateWindow(c)
<1>1. PICK w : w = NewWindow(c)
  OBVIOUS
<1>2. /\ WinOK(w) /\ ReturnsTo(w) /\ w.rect = CreateWindow(c) /\ ~w.fullscreen
      /\ w.bar = c.ShowStatusBar
      /\ OwnStyle(w) = [border |-> TRUE, onTop |-> c.AlwaysOnTop]
  BY <1>1, NewWindowIs DEF CfgOK
<1>3. PICK u : u = PartsFrom(c)
  OBVIOUS
<1>4. PICK z : z = Zoom!InitialZoom
  OBVIOUS
<1>5. ZoomOK(z) /\ z.mode = "Free"
  <2>1. DefaultZoomLevel \in 1..Len(ZoomLevels)
    BY WindowAssumption, LenProperties
  <2>2. Zoom!One \in Factor
    BY DEF Zoom!One, Factor
  <2> QED BY <1>4, <2>1, <2>2 DEF Zoom!InitialZoom, ZoomOK, ZoomParts
<1>6. PICK by : by = IF GetFromPoint(c.Pos) = {} THEN "system" ELSE "start"
  OBVIOUS
<1>7. PICK pending : pending = [i \in Images |-> {}]
  OBVIOUS
<1>8. PICK adjust : adjust = [shown |-> FALSE, sliders |-> 0, auto |-> FALSE, applied |-> 0]
  OBVIOUS
<1>9. PICK menu : menu = [fit |-> FALSE, full |-> FALSE]
  OBVIOUS
<1>10. PICK none : none = <<0, 1>>
  OBVIOUS
<1>11. PICK empty : empty = <<>>
  OBVIOUS
<1>12. PICK s : s = [cfg |-> c, dialog |-> NoDialog, win |-> w, used |-> u,
                     image |-> NoImage, turned |-> FALSE, zoom |-> z, imageZoom |-> none,
                     menu |-> menu, list |-> empty, at |-> 0, forward |-> TRUE,
                     known |-> {}, pending |-> pending, adjust |-> adjust,
                     placed |-> empty, placedBy |-> by, onTopLost |-> FALSE]
  OBVIOUS
<1>13. s = NewViewer(c)
  BY <1>1, <1>3, <1>4, <1>6, <1>7, <1>8, <1>9, <1>10, <1>11, <1>12 DEF NewViewer
<1>14. /\ s.cfg = c /\ s.dialog = NoDialog /\ s.win = w /\ s.used = u /\ s.zoom = z
       /\ s.imageZoom = none /\ s.menu = menu /\ s.known = {} /\ s.adjust = adjust
       /\ s.placedBy = by /\ s.onTopLost = FALSE
  BY <1>12
<1>15. IsState(s)
  BY <1>12 DEF IsState, StateParts, ViewerParts
<1>16. none \in Factor
  BY <1>10 DEF Factor
<1>17. Shape(s)
  BY <1>2, <1>5, <1>14, <1>15, <1>16 DEF Shape
<1>18. MenuAgrees(s)
  <2>1. menu.fit = FALSE
    BY <1>9
  <2> QED BY <1>5, <1>14, <2>1 DEF MenuAgrees
<1>19. OnDisplay(s)
  <2>1. CASE GetFromPoint(c.Pos) = {}
    BY <1>6, <1>14, <2>1 DEF OnDisplay
  <2>2. CASE GetFromPoint(c.Pos) # {}
    <3>1. s.placedBy = "start"
      BY <1>6, <1>14, <2>2
    <3>2. \E d \in DOMAIN displays : Within(CreateWindow(c), Grown(displays[d]))
      BY <2>2, CreateWindowIs DEF CfgOK
    <3> QED BY <1>2, <1>14, <3>1, <3>2 DEF OnDisplay
  <2> QED BY <2>1, <2>2
<1>20. DOMAIN s.adjust = AdjustParts /\ (s.adjust.auto => s.adjust.applied = s.adjust.sliders)
  BY <1>8, <1>14 DEF AdjustParts
<1>21. OwnStyle(w).onTop = c.AlwaysOnTop
  BY <1>2
<1>22. w.bar = (c.ShowStatusBar /\ ~w.fullscreen)
  BY <1>2
<1>23. Steady(s, FALSE)
  BY <1>2, <1>3, <1>14, <1>17, <1>18, <1>19, <1>20, <1>21, <1>22 DEF Steady
<1> QED BY <1>2, <1>13, <1>14, <1>23

\* A session starts with the settings it read and its window where these say.
LEMMA StartedSteady ==
    ASSUME Arrangement(displays), NEW c, CfgOK(c), c.ShowStatusBar \in BOOLEAN,
           NEW reported, NEW path
    PROVE  LET s == Started(c, reported, path)
           IN  /\ Steady(s, FALSE) /\ SameSettings(c, s.cfg) /\ s.dialog = NoDialog
               /\ s.win.rect = CreateWindow(c)
<1>1. PICK s : s = NewViewer(c)
  OBVIOUS
<1>2. /\ Steady(s, FALSE) /\ s.cfg = c /\ s.dialog = NoDialog /\ s.known = {}
      /\ s.win.rect = CreateWindow(c)
  BY <1>1, NewViewerSteady
<1>3. PICK t : t = IF reported THEN AnchorsAt(s, s.win.rect) ELSE s
  OBVIOUS
<1>4. Quiet(s, t)
  <2>1. PICK r \in Rect : r = s.win.rect
    BY <1>2 DEF Steady, Shape, WinOK
  <2>2. /\ Keeps(s, AnchorsAt(s, r)) /\ AnchorsAt(s, r).win = s.win
        /\ AnchorsAt(s, r).placedBy = s.placedBy
    BY <1>2, AnchorsIs DEF Steady
  <2>3. Quiet(s, AnchorsAt(s, r))
    BY <2>2, KeepsQuiet
  <2>4. Quiet(s, s)
    BY <1>2, QuietSelf DEF Steady
  <2> QED BY <1>3, <2>1, <2>3, <2>4
<1>5. PICK u : u = SetZoomMode(t, c.DefaultZoom)
  OBVIOUS
<1>6. Quiet(t, u)
  <2>1. Shape(t)
    BY <1>4 DEF Quiet
  <2>2. PICK mode : mode = c.DefaultZoom
    OBVIOUS
  <2> QED BY <1>5, <2>1, <2>2, SetZoomModeQuiet
<1>7. PICK v : v = SetImageLocation(u, path)
  OBVIOUS
<1>8. Quiet(u, v)
  <2>1. Shape(u)
    BY <1>6 DEF Quiet
  <2> QED BY <1>7, <2>1, SetImageLocationQuiet
<1>9. Quiet(s, v)
  BY <1>4, <1>6, <1>8, QuietAgain
<1>10. v = Started(c, reported, path)
  BY <1>1, <1>3, <1>5, <1>7 DEF Started
<1>11. Steady(v, FALSE)
  BY <1>2, <1>9, QuietSteady
<1> QED BY <1>2, <1>9, <1>10, <1>11 DEF Quiet

\* Other settings, of which no part has heard yet.
LEMMA CfgSteady ==
    ASSUME NEW s, NEW lax, Steady(s, lax), NEW c, CfgOK(c)
    PROVE  LET t == [s EXCEPT !.cfg = c]
           IN  /\ Steady(t, TRUE) /\ t.cfg = c
               /\ \A part \in StateParts \ {"cfg"} : t[part] = s[part]
<1>1. PICK t : t = [s EXCEPT !.cfg = c]
  OBVIOUS
<1>2. IsState(t) /\ t.cfg = c /\ \A part \in StateParts \ {"cfg"} : t[part] = s[part]
  BY <1>1 DEF Steady, Shape, IsState, StateParts, ViewerParts
<1>3. /\ t.win = s.win /\ t.zoom = s.zoom /\ t.imageZoom = s.imageZoom
      /\ t.known = s.known /\ t.menu = s.menu /\ t.placedBy = s.placedBy /\ t.adjust = s.adjust
  BY <1>2 DEF StateParts, ViewerParts
<1>4. Shape(t)
  BY <1>2, <1>3 DEF Steady, Shape
<1>5. MenuAgrees(t) /\ OnDisplay(t)
  BY <1>3 DEF Steady, MenuAgrees, OnDisplay
<1>6. Steady(t, TRUE)
  BY <1>3, <1>4, <1>5 DEF Steady
<1> QED BY <1>1, <1>2, <1>6

\* The style of a window with a border, above the others or not.
LEMMA OnTopOf ==
    ASSUME NEW style, style = [border |-> TRUE, onTop |-> style.onTop], NEW onTop
    PROVE  [style EXCEPT !.onTop = onTop] = [border |-> TRUE, onTop |-> onTop]
<1>1. DOMAIN style = {"border", "onTop"} /\ style.border = TRUE
  OBVIOUS
<1>2. PICK t : t = [style EXCEPT !.onTop = onTop]
  OBVIOUS
<1>3. t = [f \in {"border", "onTop"} |-> t[f]] /\ t.border = TRUE /\ t.onTop = onTop
  BY <1>1, <1>2
<1> QED BY <1>2, <1>3

\* They all hear of them.
LEMMA SettingsChangedSteady ==
    ASSUME NEW s, Steady(s, TRUE), Arrangement(displays)
    PROVE  LET t == SettingsChanged(s)
           IN  /\ Steady(t, FALSE) /\ SameSettings(s.cfg, t.cfg) /\ t.dialog = s.dialog
               /\ \E u : /\ t = ImageChanged(u) /\ Shape(u)
                         /\ \A part \in {"rect", "fullscreen", "previousRegion"} :
                                u.win[part] = s.win[part]
<1>1. PICK bar : bar = (s.cfg.ShowStatusBar /\ ~s.win.fullscreen)
  OBVIOUS
<1>2. PICK w : w = [s.win EXCEPT !.bar = bar]
  OBVIOUS
<1>3. WinOK(w) /\ w.bar = bar /\ \A part \in WinParts \ {"bar"} : w[part] = s.win[part]
  BY <1>2, BarIs DEF Steady, Shape
<1>4. PICK b : b = WithWindow(s, w)
  OBVIOUS
<1>5. /\ Shape(b) /\ b.win = w /\ b.cfg = s.cfg /\ b.zoom.mode = s.zoom.mode
      /\ \A part \in StateParts \ {"win", "zoom", "imageZoom"} : b[part] = s[part]
  BY <1>3, <1>4, WithWindowIs DEF Steady
<1>6. PICK used : used = PartsFrom(s.cfg)
  OBVIOUS
<1>7. PICK style : style = [w.style EXCEPT !.onTop = s.cfg.AlwaysOnTop]
  OBVIOUS
<1>8. PICK v : v = [w EXCEPT !.style = style]
  OBVIOUS
<1>9. PICK lost : lost = s.win.fullscreen
  OBVIOUS
<1>10. PICK t : t = [b EXCEPT !.used = used, !.win = v, !.onTopLost = lost]
  OBVIOUS
<1>11. t = [b EXCEPT !.used = PartsFrom(s.cfg), !.win.style.onTop = s.cfg.AlwaysOnTop,
                     !.onTopLost = s.win.fullscreen]
  BY <1>3, <1>5, <1>6, <1>7, <1>8, <1>9, <1>10 DEF Shape, IsState, StateParts, ViewerParts, WinOK, WinParts
<1>12. SettingsChanged(s) = ImageChanged(t)
  BY <1>1, <1>2, <1>4, <1>11 DEF SettingsChanged
<1>13. /\ IsState(t) /\ t.used = used /\ t.win = v /\ t.onTopLost = lost
       /\ \A part \in StateParts \ {"used", "win", "onTopLost"} : t[part] = b[part]
  BY <1>5, <1>10 DEF Shape, IsState, StateParts, ViewerParts
<1>14. /\ t.cfg = s.cfg /\ t.zoom = b.zoom /\ t.imageZoom = b.imageZoom /\ t.known = b.known
       /\ t.menu = s.menu /\ t.placedBy = s.placedBy /\ t.adjust = s.adjust /\ t.dialog = s.dialog
  BY <1>5, <1>13 DEF StateParts, ViewerParts
<1>15. /\ DOMAIN v = WinParts /\ v.style = style
       /\ \A part \in WinParts \ {"style"} : v[part] = w[part]
  BY <1>3, <1>8 DEF WinOK, WinParts
<1>16. /\ v.rect = s.win.rect /\ v.normalRect = s.win.normalRect /\ v.restored = s.win.restored
       /\ v.previousRegion = s.win.previousRegion /\ v.fullscreen = s.win.fullscreen
       /\ v.maximized = s.win.maximized /\ v.iconized = s.win.iconized
       /\ v.previousStyle = s.win.previousStyle /\ v.bar = bar /\ w.style = s.win.style
  BY <1>3, <1>15 DEF WinParts
<1>17. WinOK(v) /\ ReturnsTo(v)
  BY <1>15, <1>16 DEF Steady, Shape, WinOK, ReturnsTo
<1>18. Shape(t)
  BY <1>5, <1>13, <1>14, <1>17 DEF Shape
<1>19. MenuAgrees(t) /\ OnDisplay(t)
  BY <1>5, <1>13, <1>14, <1>16 DEF Steady, MenuAgrees, OnDisplay
<1>20. OwnStyle(v) = [border |-> TRUE, onTop |-> OwnStyle(v).onTop]
  <2>1. CASE s.win.fullscreen
    BY <1>16, <2>1 DEF Steady, OwnStyle
  <2>2. CASE ~s.win.fullscreen
    <3>1. s.win.style = [border |-> TRUE, onTop |-> s.win.style.onTop]
      BY <2>2 DEF Steady, OwnStyle
    <3>2. style = [border |-> TRUE, onTop |-> s.cfg.AlwaysOnTop]
      BY <1>7, <1>16, <3>1, OnTopOf
    <3> QED BY <1>15, <1>16, <2>2, <3>2 DEF OwnStyle
  <2> QED BY <2>1, <2>2
<1>21. ~t.onTopLost => OwnStyle(v).onTop = s.cfg.AlwaysOnTop
  <2> SUFFICES ASSUME ~s.win.fullscreen
               PROVE  OwnStyle(v).onTop = s.cfg.AlwaysOnTop
    BY <1>9, <1>13
  <2>1. s.win.style = [border |-> TRUE, onTop |-> s.win.style.onTop]
    BY DEF Steady, OwnStyle
  <2>2. style = [border |-> TRUE, onTop |-> s.cfg.AlwaysOnTop]
    BY <1>7, <1>16, <2>1, OnTopOf
  <2> QED BY <1>15, <1>16, <2>2 DEF OwnStyle
<1>22. t.win.bar = (t.cfg.ShowStatusBar /\ ~t.win.fullscreen)
  BY <1>1, <1>13, <1>14, <1>16
<1>23. Steady(t, FALSE)
  BY <1>6, <1>13, <1>14, <1>17, <1>18, <1>19, <1>20, <1>21, <1>22 DEF Steady
<1>24. Quiet(t, ImageChanged(t))
  BY <1>18, ImageChangedQuiet
<1>25. Steady(ImageChanged(t), FALSE)
  BY <1>23, <1>24, QuietSteady
<1>26. /\ SettingsChanged(s) = ImageChanged(t) /\ Shape(t)
       /\ \A part \in {"rect", "fullscreen", "previousRegion"} : t.win[part] = s.win[part]
  BY <1>12, <1>13, <1>16, <1>18
<1> QED BY <1>12, <1>14, <1>24, <1>25, <1>26 DEF Quiet

-----------------------------------------------------------------------------
(* The settings and their file.                                            *)

\* The settings have the types their controls and translators give them.
ColourOK(c) == c = [rgb |-> c.rgb, a |-> c.a]

BindingOK(b) ==
    /\ b = [Key |-> <<b.Key[1], b.Key[2]>>, Action |-> b.Action]
    /\ b.Key[2] \subseteq Modifiers /\ b.Action \in KeyActions

BindingsOK(bs) == bs \in Seq(Range(bs)) /\ \A i \in DOMAIN bs : BindingOK(bs[i])

ValueOK(f, v) ==
    /\ f \in WindowFields => v \in Point
    /\ f \in Flags => v \in BOOLEAN
    /\ f \in MouseFields => v \in MouseAction
    /\ f \in DOMAIN Enumeration =>
        v \in Enumerators(f) \cup (IF f = "DefaultZoom" THEN {NoZoomMode} ELSE {})
    /\ f = "BackgroundColor" => ColourOK(v)
    /\ f = "Bindings" => BindingsOK(v)

CfgTyped(c) == DOMAIN c = CfgParts /\ \A f \in CfgParts : ValueOK(f, c[f])

\* The kinds of settings are apart.
LEMMA Kinds ==
    /\ DOMAIN Enumeration = {"DefaultZoom", "ResizeBehaviour", "ResizePositionMethod", "Language",
                             "MagFilter", "MinFilter"}
    /\ DOMAIN Enumeration \cap (Flags \cup MouseFields \cup WindowFields
            \cup {"BackgroundColor", "ManualMemoryLimit", "Bindings"}) = {}
    /\ Flags \cap (MouseFields \cup WindowFields
            \cup {"BackgroundColor", "ManualMemoryLimit", "Bindings"}) = {}
    /\ MouseFields \cap (WindowFields \cup {"BackgroundColor", "ManualMemoryLimit", "Bindings"}) = {}
    /\ WindowFields \cap {"BackgroundColor", "ManualMemoryLimit", "Bindings"} = {}
    /\ Fields = Flags \cup MouseFields \cup DOMAIN Enumeration \cup WindowFields
                    \cup {"BackgroundColor", "ManualMemoryLimit"}
    /\ CfgParts = Fields \cup {"Bindings"} /\ "Bindings" \notin Fields
<1>1. DOMAIN Enumeration = {"DefaultZoom", "ResizeBehaviour", "ResizePositionMethod", "Language",
                            "MagFilter", "MinFilter"}
  BY DEF Enumeration
<1>2. DOMAIN Enumeration \cap (Flags \cup MouseFields \cup WindowFields
            \cup {"BackgroundColor", "ManualMemoryLimit", "Bindings"}) = {}
  BY <1>1 DEF Flags, MouseFields, ClickFields, DblFields, WheelFields, WindowFields
<1>3. Flags \cap (MouseFields \cup WindowFields
            \cup {"BackgroundColor", "ManualMemoryLimit", "Bindings"}) = {}
  BY DEF Flags, MouseFields, ClickFields, DblFields, WheelFields, WindowFields
<1>4. MouseFields \cap (WindowFields \cup {"BackgroundColor", "ManualMemoryLimit", "Bindings"}) = {}
  BY DEF MouseFields, ClickFields, DblFields, WheelFields, WindowFields
<1>5. WindowFields \cap {"BackgroundColor", "ManualMemoryLimit", "Bindings"} = {}
  BY DEF WindowFields
<1>6. Fields = Flags \cup MouseFields \cup DOMAIN Enumeration \cup WindowFields
                    \cup {"BackgroundColor", "ManualMemoryLimit"}
  BY DEF Fields
<1>7. CfgParts = Fields \cup {"Bindings"}
  BY DEF CfgParts
<1> QED BY <1>1, <1>2, <1>3, <1>4, <1>5, <1>6, <1>7

\* Typed settings have the shape the handlers need.
LEMMA CfgTypedIs ==
    ASSUME NEW c, CfgTyped(c)
    PROVE  CfgOK(c) /\ c.ShowStatusBar \in BOOLEAN
<1>1. WindowFields = {"Pos", "WindowSize", "AnchorTL", "AnchorCenter"} /\ WindowFields \subseteq CfgParts
  BY Kinds DEF WindowFields
<1>2. "ShowStatusBar" \in Flags /\ Flags \subseteq CfgParts
  BY Kinds DEF Flags
<1> QED BY <1>1, <1>2 DEF CfgTyped, ValueOK, CfgOK

\* Every setting of a kind is as its kind asks, and asks for nothing else.
LEMMA OneKind ==
    ASSUME NEW f, NEW v
    PROVE  /\ f \in WindowFields /\ v \in Point => ValueOK(f, v)
           /\ f \in Flags /\ v \in BOOLEAN => ValueOK(f, v)
           /\ f \in MouseFields /\ v \in MouseAction => ValueOK(f, v)
           /\ f \in DOMAIN Enumeration /\ v \in Enumerators(f) => ValueOK(f, v)
           /\ f = "DefaultZoom" /\ v = NoZoomMode => ValueOK(f, v)
           /\ f = "BackgroundColor" /\ ColourOK(v) => ValueOK(f, v)
           /\ f = "ManualMemoryLimit" => ValueOK(f, v)
           /\ f = "Bindings" /\ BindingsOK(v) => ValueOK(f, v)
<1>1. ASSUME f \in WindowFields, v \in Point PROVE ValueOK(f, v)
  BY <1>1, Kinds DEF ValueOK
<1>2. ASSUME f \in Flags, v \in BOOLEAN PROVE ValueOK(f, v)
  BY <1>2, Kinds DEF ValueOK
<1>3. ASSUME f \in MouseFields, v \in MouseAction PROVE ValueOK(f, v)
  BY <1>3, Kinds DEF ValueOK
<1>4. ASSUME f \in DOMAIN Enumeration,
             v \in Enumerators(f) \/ (f = "DefaultZoom" /\ v = NoZoomMode)
      PROVE ValueOK(f, v)
  BY <1>4, Kinds DEF ValueOK
<1>5. ASSUME f = "BackgroundColor", ColourOK(v) PROVE ValueOK(f, v)
  BY <1>5, Kinds DEF ValueOK
<1>6. ASSUME f = "ManualMemoryLimit" PROVE ValueOK(f, v)
  BY <1>6, Kinds DEF ValueOK
<1>7. ASSUME f = "Bindings", BindingsOK(v) PROVE ValueOK(f, v)
  BY <1>7, Kinds DEF ValueOK
<1>8. "DefaultZoom" \in DOMAIN Enumeration
  BY Kinds
<1> QED BY <1>1, <1>2, <1>3, <1>4, <1>5, <1>6, <1>7, <1>8

\* The actions of the mouse have numbers.
LEMMA MouseNumbers ==
    /\ MouseAction = 0..13
    /\ \A k \in MouseAction : MouseNumber(MouseActions[k + 1]) \in MouseAction
    /\ \A f \in MouseFields : Default(f) \in MouseAction
<1>1. MouseAction = 0..13
  BY DEF MouseAction, MouseActions
<1>2. ASSUME NEW name, \E k \in MouseAction : MouseActions[k + 1] = name
      PROVE  MouseNumber(name) \in MouseAction
  BY <1>2 DEF MouseNumber
<1>3. \A name \in {"Pan", "Fullscreen", "ToggleFullSizeDefaultZoom", "Context", "NextImage",
                   "PrevImage", "Disable"} : \E k \in MouseAction : MouseActions[k + 1] = name
  <2>1. /\ MouseActions[1 + 0] = "Disable" /\ MouseActions[1 + 1] = "Pan" /\ MouseActions[2 + 1] = "Context"
        /\ MouseActions[3 + 1] = "ToggleFullSizeDefaultZoom" /\ MouseActions[4 + 1] = "NextImage"
        /\ MouseActions[5 + 1] = "PrevImage" /\ MouseActions[8 + 1] = "Fullscreen"
    BY DEF MouseActions
  <2> QED BY <1>1, <2>1
<1>4. ASSUME NEW f \in MouseFields
      PROVE  Default(f) \in MouseAction
  <2> DEFINE name == CASE f = "OnMouseLeft" -> "Pan"
          [] f = "OnMouseLeftDbl" -> "Fullscreen"
          [] f = "OnMouseMiddle" -> "ToggleFullSizeDefaultZoom"
          [] f = "OnMouseRight" -> "Context"
          [] f \in {"OnMouseWheelDown", "OnMouseExtra2"} -> "NextImage"
          [] f \in {"OnMouseWheelUp", "OnMouseExtra1"} -> "PrevImage"
          [] OTHER -> "Disable"
  <2>1. name \in {"Pan", "Fullscreen", "ToggleFullSizeDefaultZoom", "Context", "NextImage",
                  "PrevImage", "Disable"}
    OBVIOUS
  <2>2. DefaultMouse[f] = MouseNumber(name)
    BY DEF DefaultMouse
  <2>3. f \notin Flags /\ f \notin {"ManualMemoryLimit", "Language", "BackgroundColor", "MagFilter",
            "MinFilter", "DefaultZoom", "ResizeBehaviour", "ResizePositionMethod", "WindowSize"}
    BY Kinds DEF WindowFields
  <2>4. Default(f) = DefaultMouse[f]
    BY <2>3 DEF Default, Flags
  <2> HIDE DEF name
  <2> QED BY <1>2, <1>3, <2>1, <2>2, <2>4
<1> QED BY <1>1, <1>2, <1>4

DigitTexts == {"0", "1", "2", "3"}

\* The identifiers of an enumeration differ, and none is a number, empty or no identifier.
LEMMA EnumerationIs ==
    ASSUME NEW f \in DOMAIN Enumeration
    PROVE  \E first \in {0, 1}, n \in {2, 3} :
            /\ Enumeration[f].first = first /\ DOMAIN Enumeration[f].names = 1..n
            /\ \A i, j \in 1..n : Enumeration[f].names[i] = Enumeration[f].names[j] => i = j
            /\ \A i \in 1..n : Enumeration[f].names[i] \notin DigitTexts \cup {"", "?"}
<1>1. ASSUME NEW x, NEW y, NEW z, NEW first \in {0, 1}, x # y, y # z, x # z,
             {x, y, z} \cap (DigitTexts \cup {"", "?"}) = {},
             Enumeration[f] = [first |-> first, names |-> <<x, y, z>>]
      PROVE  \E o \in {0, 1}, n \in {2, 3} :
            /\ Enumeration[f].first = o /\ DOMAIN Enumeration[f].names = 1..n
            /\ \A i, j \in 1..n : Enumeration[f].names[i] = Enumeration[f].names[j] => i = j
            /\ \A i \in 1..n : Enumeration[f].names[i] \notin DigitTexts \cup {"", "?"}
  <2>1. PICK names : names = <<x, y, z>>
    OBVIOUS
  <2>2. Enumeration[f].first = first /\ Enumeration[f].names = names
    <3>1. PICK record : record = [first |-> first, names |-> names]
      OBVIOUS
    <3>2. record.first = first /\ record.names = names
      BY <3>1
    <3>3. Enumeration[f] = record
      BY <1>1, <2>1, <3>1
    <3> QED BY <3>2, <3>3
  <2>3. DOMAIN names = 1..3 /\ names[1] = x /\ names[2] = y /\ names[3] = z
    BY <2>1
  <2>4. \A i \in 1..3 : i = 1 \/ i = 2 \/ i = 3
    OBVIOUS
  <2>5. \A i, j \in 1..3 : names[i] = names[j] => i = j
    BY <1>1, <2>3, <2>4
  <2>6. \A i \in 1..3 : names[i] \notin DigitTexts \cup {"", "?"}
    BY <1>1, <2>3, <2>4
  <2> QED BY <2>2, <2>3, <2>5, <2>6
<1>2. CASE f = "DefaultZoom"
  <2>1. Enumeration[f] = [first |-> 0, names |-> <<"ZoomFree", "ZoomFitImage", "ZoomFullSize">>]
    BY <1>2 DEF Enumeration, ZoomMode
  <2> QED BY <1>1, <2>1 DEF DigitTexts
<1>3. CASE f = "ResizeBehaviour"
  <2>1. Enumeration[f] = [first |-> 0, names |-> <<"EnlargeOrReduce", "EnlargeOnly", "ReduceOnly">>]
    BY <1>3 DEF Enumeration, Resizing
  <2> QED BY <1>1, <2>1 DEF DigitTexts
<1>4. CASE f = "ResizePositionMethod"
  <2>1. Enumeration[f] = [first |-> 0, names |-> <<"PositionToScreen", "PositionToCurrent",
                                                    "PositionNothing">>]
    BY <1>4 DEF Enumeration, Positioning
  <2> QED BY <1>1, <2>1 DEF DigitTexts
<1>5. CASE f = "Language"
  <2>1. Enumeration[f] = [first |-> 0, names |-> <<"English", "Swedish">>]
    BY <1>5 DEF Enumeration, Language
  <2>2. PICK names : names = <<"English", "Swedish">>
    OBVIOUS
  <2>3. Enumeration[f].first = 0 /\ Enumeration[f].names = names
    BY <2>1, <2>2
  <2>4. DOMAIN names = 1..2 /\ names[1] = "English" /\ names[2] = "Swedish"
    BY <2>2
  <2>5. \A i \in 1..2 : i = 1 \/ i = 2
    OBVIOUS
  <2>6. /\ \A i, j \in 1..2 : names[i] = names[j] => i = j
        /\ \A i \in 1..2 : names[i] \notin DigitTexts \cup {"", "?"}
    BY <2>4, <2>5 DEF DigitTexts
  <2> QED BY <2>3, <2>4, <2>6
<1>6. CASE f \in {"MagFilter", "MinFilter"}
  <2>1. Enumeration[f] = [first |-> 1, names |-> <<"Nearest", "Bilinear", "Lanczos3">>]
    BY <1>6 DEF Enumeration, FilterMode
  <2> QED BY <1>1, <2>1 DEF DigitTexts
<1> QED BY <1>2, <1>3, <1>4, <1>5, <1>6, Kinds

\* An enumerator is read as it was written, and nothing is read from what is none.
LEMMA EnumeratorsAreRead ==
    ASSUME NEW f \in DOMAIN Enumeration
    PROVE  /\ \A v \in Enumerators(f) : GetEnumerator(f, PutEnumerator(f, v)) = {v}
           /\ \A v \in Enumerators(f) : PutEnumerator(f, v) # ""
           /\ GetEnumerator(f, "?") = {}
           /\ NoZoomMode \notin Enumerators(f)
<1>1. PICK first \in {0, 1}, n \in {2, 3} :
            /\ Enumeration[f].first = first /\ DOMAIN Enumeration[f].names = 1..n
            /\ \A i, j \in 1..n : Enumeration[f].names[i] = Enumeration[f].names[j] => i = j
            /\ \A i \in 1..n : Enumeration[f].names[i] \notin DigitTexts \cup {"", "?"}
  BY EnumerationIs
<1>2. PICK names : names = Enumeration[f].names
  OBVIOUS
<1>3. PICK E : E = Enumerators(f)
  OBVIOUS
<1>4. E = {first + i - 1 : i \in 1..n}
  BY <1>1, <1>3 DEF Enumerators
<1>5. \A v \in E : v \in Int /\ v - first + 1 \in 1..n /\ v + 1 \in 1..4
  <2>1. ASSUME NEW v \in E
        PROVE  v \in Int /\ v - first + 1 \in 1..n /\ v + 1 \in 1..4
    <3>1. PICK i \in 1..n : v = first + i - 1
      BY <1>4
    <3>2. i \in Int /\ n \in Int /\ first \in Int
      OBVIOUS
    <3>3. 1 <= i /\ i <= n /\ n <= 3 /\ 0 <= first /\ first <= 1
      OBVIOUS
    <3>4. first + i - 1 \in Int /\ (first + i - 1) - first + 1 = i /\ (first + i - 1) + 1 = first + i
      BY <3>2
    <3>5. first + i \in 1..4
      BY <3>2, <3>3
    <3> QED BY <3>1, <3>4, <3>5
  <2> QED BY <2>1
<1>6. \A v \in E : PutEnumerator(f, v) = names[v - first + 1]
  BY <1>1, <1>2, <1>3 DEF PutEnumerator
<1>7. \A v, w \in E : PutEnumerator(f, v) = PutEnumerator(f, w) => v = w
  <2>1. ASSUME NEW v \in E, NEW w \in E, PutEnumerator(f, v) = PutEnumerator(f, w)
        PROVE  v = w
    <3>1. PICK i \in 1..n : i = v - first + 1
      BY <1>5
    <3>2. PICK j \in 1..n : j = w - first + 1
      BY <1>5
    <3>3. names[i] = names[j]
      BY <1>6, <2>1, <3>1, <3>2
    <3>4. i = j
      BY <1>1, <1>2, <3>3
    <3>5. v \in Int /\ w \in Int
      BY <1>5
    <3>6. first \in Int
      OBVIOUS
    <3>7. v - first + 1 = w - first + 1
      BY <3>1, <3>2, <3>4
    <3>8. (v - first + 1) + (first - 1) = v /\ (w - first + 1) + (first - 1) = w
      BY <3>5, <3>6
    <3> QED BY <3>7, <3>8
  <2> QED BY <2>1
<1>8. \A v \in E : PutEnumerator(f, v) \notin DigitTexts \cup {"", "?"}
  <2>1. ASSUME NEW v \in E
        PROVE  PutEnumerator(f, v) \notin DigitTexts \cup {"", "?"}
    <3>1. PICK i \in 1..n : i = v - first + 1
      BY <1>5
    <3>2. names[i] \notin DigitTexts \cup {"", "?"}
      BY <1>1, <1>2
    <3> QED BY <1>6, <3>1, <3>2
  <2> QED BY <2>1
<1>9. \A k \in 1..4 : Digits[k] \in DigitTexts
  <2>1. Digits[1] = "0" /\ Digits[2] = "1" /\ Digits[3] = "2" /\ Digits[4] = "3"
    BY DEF Digits
  <2>2. \A k \in 1..4 : k = 1 \/ k = 2 \/ k = 3 \/ k = 4
    OBVIOUS
  <2> QED BY <2>1, <2>2 DEF DigitTexts
<1>10. \A text : GetEnumerator(f, text) = {v \in E : text \in {PutEnumerator(f, v), Digits[v + 1]}}
  BY <1>3 DEF GetEnumerator
<1>11. ASSUME NEW v \in E
       PROVE  GetEnumerator(f, PutEnumerator(f, v)) = {v}
  <2>1. PICK text : text = PutEnumerator(f, v)
    OBVIOUS
  <2>2. ASSUME NEW w \in E
        PROVE  text \in {PutEnumerator(f, w), Digits[w + 1]} <=> w = v
    <3>1. text # Digits[w + 1]
      BY <1>5, <1>8, <1>9, <2>1
    <3> QED BY <1>7, <2>1, <3>1
  <2> QED BY <1>10, <2>1, <2>2
<1>12. GetEnumerator(f, "?") = {}
  <2>1. \A v \in E : "?" # PutEnumerator(f, v) /\ "?" # Digits[v + 1]
    BY <1>5, <1>8, <1>9 DEF DigitTexts
  <2> QED BY <1>10, <2>1
<1>13. NoZoomMode \notin E
  <2>1. ASSUME NEW v \in E
        PROVE  v # NoZoomMode
    <3>1. PICK i \in 1..n : v = first + i - 1
      BY <1>4
    <3>2. i \in Int /\ 1 <= i /\ first \in Int /\ 0 <= first
      OBVIOUS
    <3>3. first + i - 1 >= 0 /\ NoZoomMode = 0 - 1
      BY <3>2 DEF NoZoomMode, ZoomFree
    <3>4. ~(0 - 1 >= 0)
      OBVIOUS
    <3> QED BY <3>1, <3>3, <3>4
  <2> QED BY <2>1
<1> QED BY <1>3, <1>8, <1>11, <1>12, <1>13

\* What is not a zoom mode is not a text that stands for one.
LEMMA NoZoomModeIsNotRead ==
    GetEnumerator("DefaultZoom", PutEnumerator("DefaultZoom", NoZoomMode)) = {}
<1>1. "DefaultZoom" \in DOMAIN Enumeration
  BY Kinds
<1>2. NoZoomMode \notin Enumerators("DefaultZoom") /\ GetEnumerator("DefaultZoom", "?") = {}
  BY <1>1, EnumeratorsAreRead
<1>3. PutEnumerator("DefaultZoom", NoZoomMode) = "?"
  BY <1>2 DEF PutEnumerator
<1> QED BY <1>2, <1>3

\* A setting is read as it was written.
LEMMA GetsBack ==
    ASSUME NEW f \in Fields, NEW v, ValueOK(f, v)
    PROVE  /\ f = "DefaultZoom" /\ v = NoZoomMode => Get(f, Put(f, v)) = {}
           /\ f = "BackgroundColor" => Get(f, Put(f, v)) = {[v EXCEPT !.a = 0]}
           /\ ~(f = "DefaultZoom" /\ v = NoZoomMode) /\ f # "BackgroundColor" =>
                Get(f, Put(f, v)) = {v}
<1>1. CASE f \in DOMAIN Enumeration
  <2>1. f \notin Flags \cup MouseFields /\ f # "BackgroundColor"
    BY <1>1, Kinds
  <2>2. Put(f, v) = PutEnumerator(f, v)
    BY <1>1, <2>1 DEF Put
  <2>3. PICK text : text = PutEnumerator(f, v)
    OBVIOUS
  <2>4. f # "Language" => Get(f, text) = GetEnumerator(f, text)
    <3>1. CASE f # "Language"
      <4>1. f \in DOMAIN Enumeration \ {"Language"}
        BY <1>1, <3>1
      <4> QED BY <2>1, <3>1, <4>1 DEF Get
    <3> QED BY <3>1
  <2>5. f = "Language" => Get(f, text) = GetLanguage(text)
    BY <2>1 DEF Get
  <2>6. v \in Enumerators(f) \/ (f = "DefaultZoom" /\ v = NoZoomMode)
    BY <1>1 DEF ValueOK
  <2>7. CASE v \in Enumerators(f)
    <3>1. GetEnumerator(f, text) = {v} /\ text # "" /\ v # NoZoomMode
      BY <1>1, <2>3, <2>7, EnumeratorsAreRead
    <3>2. f = "Language" => GetLanguage(text) = {v}
      BY <3>1 DEF GetLanguage
    <3> QED BY <2>1, <2>2, <2>3, <2>4, <2>5, <3>1, <3>2
  <2>8. CASE f = "DefaultZoom" /\ v = NoZoomMode
    <3>1. GetEnumerator(f, text) = {}
      BY <2>3, <2>8, NoZoomModeIsNotRead
    <3> QED BY <2>1, <2>2, <2>3, <2>4, <2>8, <3>1
  <2> QED BY <2>6, <2>7, <2>8
<1>2. CASE f = "BackgroundColor"
  <2>1. f \notin DOMAIN Enumeration \cup Flags \cup MouseFields /\ f # "Language" /\ f # "DefaultZoom"
    BY <1>2, Kinds
  <2>2. Put(f, v) = [form |-> "hex", rgb |-> v.rgb, a |-> 0]
    BY <1>2, <2>1 DEF Put, PutColour
  <2>3. PICK text : text = Put(f, v)
    OBVIOUS
  <2>4. Get(f, text) = GetColour(text)
    BY <1>2, <2>1 DEF Get
  <2>5. GetColour(text) = {[rgb |-> v.rgb, a |-> 0]}
    BY <2>2, <2>3 DEF GetColour
  <2>6. [v EXCEPT !.a = 0] = [rgb |-> v.rgb, a |-> 0]
    <3>1. v = [rgb |-> v.rgb, a |-> v.a]
      BY <1>2 DEF ValueOK, ColourOK
    <3>2. DOMAIN v = {"rgb", "a"}
      BY <3>1
    <3>3. PICK t : t = [v EXCEPT !.a = 0]
      OBVIOUS
    <3>4. t = [x \in {"rgb", "a"} |-> t[x]] /\ t.rgb = v.rgb /\ t.a = 0
      BY <3>2, <3>3
    <3> QED BY <3>3, <3>4
  <2> QED BY <1>2, <2>1, <2>3, <2>4, <2>5, <2>6
<1>3. CASE f \in MouseFields
  <2>1. f \notin DOMAIN Enumeration \cup Flags /\ f \notin {"Language", "DefaultZoom", "BackgroundColor"}
    BY <1>3, Kinds
  <2>2. Put(f, v) = v
    BY <2>1 DEF Put
  <2>3. Get(f, v) = GetMouseAction(v)
    BY <1>3, <2>1 DEF Get
  <2>4. v \in MouseAction
    BY <1>3 DEF ValueOK
  <2> QED BY <2>1, <2>2, <2>3, <2>4 DEF GetMouseAction
<1>4. CASE f \in Flags
  <2>1. f \notin DOMAIN Enumeration \cup MouseFields /\ f \notin {"Language", "DefaultZoom", "BackgroundColor"}
    BY <1>4, Kinds
  <2>2. Put(f, v) = PutFlag(v)
    BY <1>4, <2>1 DEF Put
  <2>3. PICK text : text = PutFlag(v)
    OBVIOUS
  <2>4. Get(f, text) = {b \in BOOLEAN : text \in {PutFlag(b), IF b THEN "1" ELSE "0"}}
    BY <1>4, <2>1 DEF Get
  <2>5. v \in BOOLEAN
    BY <1>4 DEF ValueOK
  <2>6. CASE v = TRUE
    <3>1. text = "true"
      BY <2>3, <2>6 DEF PutFlag
    <3>2. Get(f, text) = {TRUE}
      BY <2>4, <3>1 DEF PutFlag
    <3> QED BY <2>1, <2>2, <2>3, <2>6, <3>2
  <2>7. CASE v = FALSE
    <3>1. text = "false"
      BY <2>3, <2>7 DEF PutFlag
    <3>2. Get(f, text) = {FALSE}
      BY <2>4, <3>1 DEF PutFlag
    <3> QED BY <2>1, <2>2, <2>3, <2>7, <3>2
  <2> QED BY <2>5, <2>6, <2>7
<1>5. CASE f \in WindowFields \cup {"ManualMemoryLimit"}
  <2>1. f \notin DOMAIN Enumeration \cup MouseFields \cup Flags
        /\ f \notin {"Language", "DefaultZoom", "BackgroundColor"}
    BY <1>5, Kinds
  <2>2. Put(f, v) = v
    BY <2>1 DEF Put
  <2>3. Get(f, v) = {v}
    BY <2>1 DEF Get
  <2> QED BY <2>1, <2>2, <2>3
<1> QED BY <1>1, <1>2, <1>3, <1>4, <1>5, Kinds

\* What the file holds, however it came about: places are places, and the bindings are
\* numbered from the first.
FileOK(ini) ==
    /\ \A f \in WindowFields \cap DOMAIN ini.entries : ini.entries[f] \in Point
    /\ ini.keyboard \in Seq(Range(ini.keyboard))

\* The enumerators the code's defaults name exist.
LEMMA SomeEnumerators ==
    /\ {0, 1, 2} \subseteq Enumerators("DefaultZoom")
    /\ 2 \in Enumerators("ResizeBehaviour") /\ 2 \in Enumerators("ResizePositionMethod")
    /\ 0 \in Enumerators("Language")
    /\ 2 \in Enumerators("MagFilter") /\ 2 \in Enumerators("MinFilter")
<1>1. ASSUME NEW f \in DOMAIN Enumeration, NEW first \in {0, 1}, NEW n \in {2, 3},
             Enumeration[f].first = first, DOMAIN Enumeration[f].names = 1..n,
             NEW v \in Int, first <= v, v - first < n
      PROVE  v \in Enumerators(f)
  <2>1. PICK i : i = v - first + 1
    OBVIOUS
  <2>2. first \in Int /\ n \in Int
    OBVIOUS
  <2>3. i \in 1..n /\ v = first + i - 1
    BY <1>1, <2>1, <2>2
  <2>4. \E k \in 1..n : v = first + k - 1
    BY <2>3
  <2>5. Enumerators(f) = {first + k - 1 : k \in 1..n}
    BY <1>1 DEF Enumerators
  <2> QED BY <2>4, <2>5
<1>2. ASSUME NEW f \in {"DefaultZoom", "ResizeBehaviour", "ResizePositionMethod"},
             NEW v \in {0, 1, 2}
      PROVE  v \in Enumerators(f)
  <2>1. PICK names : names \in Seq({"ZoomFree", "ZoomFitImage", "ZoomFullSize", "EnlargeOrReduce",
             "EnlargeOnly", "ReduceOnly", "PositionToScreen", "PositionToCurrent", "PositionNothing"})
             /\ Len(names) = 3 /\ Enumeration[f] = [first |-> 0, names |-> names]
    <3>1. PICK N : N = {"ZoomFree", "ZoomFitImage", "ZoomFullSize", "EnlargeOrReduce",
             "EnlargeOnly", "ReduceOnly", "PositionToScreen", "PositionToCurrent", "PositionNothing"}
      OBVIOUS
    <3>2. CASE f = "DefaultZoom"
      <4>1. Enumeration[f] = [first |-> 0, names |-> <<"ZoomFree", "ZoomFitImage", "ZoomFullSize">>]
        BY <3>2 DEF Enumeration, ZoomMode
      <4>2. PICK names : names = <<"ZoomFree", "ZoomFitImage", "ZoomFullSize">>
        OBVIOUS
      <4>3. names \in Seq(N) /\ Len(names) = 3
        BY <3>1, <4>2
      <4> QED BY <3>1, <4>1, <4>2, <4>3
    <3>3. CASE f = "ResizeBehaviour"
      <4>1. Enumeration[f] = [first |-> 0, names |-> <<"EnlargeOrReduce", "EnlargeOnly", "ReduceOnly">>]
        BY <3>3 DEF Enumeration, Resizing
      <4>2. PICK names : names = <<"EnlargeOrReduce", "EnlargeOnly", "ReduceOnly">>
        OBVIOUS
      <4>3. names \in Seq(N) /\ Len(names) = 3
        BY <3>1, <4>2
      <4> QED BY <3>1, <4>1, <4>2, <4>3
    <3>4. CASE f = "ResizePositionMethod"
      <4>1. Enumeration[f] = [first |-> 0, names |-> <<"PositionToScreen", "PositionToCurrent",
                                                        "PositionNothing">>]
        BY <3>4 DEF Enumeration, Positioning
      <4>2. PICK names : names = <<"PositionToScreen", "PositionToCurrent", "PositionNothing">>
        OBVIOUS
      <4>3. names \in Seq(N) /\ Len(names) = 3
        BY <3>1, <4>2
      <4> QED BY <3>1, <4>1, <4>2, <4>3
    <3> QED BY <3>2, <3>3, <3>4
  <2>2. Enumeration[f].first = 0 /\ Enumeration[f].names = names
    <3>1. PICK record : record = [first |-> 0, names |-> names]
      OBVIOUS
    <3>2. record.first = 0 /\ record.names = names
      BY <3>1
    <3> QED BY <2>1, <3>1, <3>2
  <2>3. DOMAIN names = 1..3
    BY <2>1
  <2>4. v \in Int /\ 0 <= v /\ v - 0 < 3
    OBVIOUS
  <2>5. f \in DOMAIN Enumeration
    BY Kinds
  <2>6. PICK first \in {0, 1} : first = 0
    OBVIOUS
  <2>7. PICK n \in {2, 3} : n = 3
    OBVIOUS
  <2>8. first <= v /\ v - first < n
    BY <2>4, <2>6, <2>7
  <2> QED BY <1>1, <2>2, <2>3, <2>4, <2>5, <2>6, <2>7, <2>8
<1>3. 0 \in Enumerators("Language")
  <2>1. Enumeration["Language"] = [first |-> 0, names |-> <<"English", "Swedish">>]
    BY DEF Enumeration, Language
  <2>2. PICK names : names = <<"English", "Swedish">>
    OBVIOUS
  <2>3. Enumeration["Language"].first = 0 /\ Enumeration["Language"].names = names
    BY <2>1, <2>2
  <2>4. DOMAIN names = 1..2
    BY <2>2
  <2>5. PICK f \in DOMAIN Enumeration : f = "Language"
    BY Kinds
  <2>6. PICK first \in {0, 1} : first = 0
    OBVIOUS
  <2>7. PICK n \in {2, 3} : n = 2
    OBVIOUS
  <2>8. PICK v \in Int : v = 0
    OBVIOUS
  <2>9. first <= v /\ v - first < n
    BY <2>6, <2>7, <2>8
  <2>10. v \in Enumerators(f)
    BY <1>1, <2>3, <2>4, <2>5, <2>6, <2>7, <2>9
  <2> QED BY <2>5, <2>8, <2>10
<1>4. ASSUME NEW f \in {"MagFilter", "MinFilter"}
      PROVE  2 \in Enumerators(f)
  <2>1. Enumeration[f] = [first |-> 1, names |-> <<"Nearest", "Bilinear", "Lanczos3">>]
    BY DEF Enumeration, FilterMode
  <2>2. PICK names : names = <<"Nearest", "Bilinear", "Lanczos3">>
    OBVIOUS
  <2>3. Enumeration[f].first = 1 /\ Enumeration[f].names = names
    BY <2>1, <2>2
  <2>4. DOMAIN names = 1..3
    BY <2>2
  <2>5. f \in DOMAIN Enumeration
    BY Kinds
  <2>6. PICK first \in {0, 1} : first = 1
    OBVIOUS
  <2>7. PICK n \in {2, 3} : n = 3
    OBVIOUS
  <2>8. PICK v \in Int : v = 2
    OBVIOUS
  <2>9. first <= v /\ v - first < n
    BY <2>6, <2>7, <2>8
  <2>10. v \in Enumerators(f)
    BY <1>1, <2>3, <2>4, <2>5, <2>6, <2>7, <2>9
  <2> QED BY <2>8, <2>10
<1> QED BY <1>2, <1>3, <1>4

\* The settings of a Load that finds none are settings.
LEMMA DefaultOK ==
    ASSUME NEW f \in Fields
    PROVE  ValueOK(f, Default(f))
<1>1. CASE f \in MouseFields
  BY <1>1, MouseNumbers, OneKind
<1>2. CASE f \in Flags
  <2>1. f \notin MouseFields
    BY <1>2, Kinds
  <2>2. Default(f) \in BOOLEAN
    BY <1>2, <2>1 DEF Default, Flags
  <2> QED BY <1>2, <2>2, OneKind
<1>3. CASE f \in DOMAIN Enumeration
  <2>1. f \notin MouseFields /\ f \notin Flags
    BY <1>3, Kinds
  <2>2. Default(f) \in Enumerators(f)
    <3>1. CASE f = "DefaultZoom"
      <4>1. Default(f) = 1
        BY <2>1, <3>1 DEF Default, Flags, ZoomFitImage
      <4> QED BY <3>1, <4>1, SomeEnumerators
    <3>2. CASE f = "Language"
      <4>1. Default(f) = 0
        BY <2>1, <3>2 DEF Default, Flags
      <4> QED BY <3>2, <4>1, SomeEnumerators
    <3>3. CASE f \in {"ResizeBehaviour", "ResizePositionMethod"}
      <4>1. Default(f) = 2
        BY <2>1, <3>3 DEF Default, Flags
      <4> QED BY <3>3, <4>1, SomeEnumerators
    <3>4. CASE f \in {"MagFilter", "MinFilter"}
      <4>1. Default(f) = 2
        BY <2>1, <3>4 DEF Default, Flags
      <4> QED BY <3>4, <4>1, SomeEnumerators
    <3> QED BY <1>3, <3>1, <3>2, <3>3, <3>4, Kinds
  <2> QED BY <1>3, <2>2, OneKind
<1>4. CASE f \in WindowFields
  <2>1. f \notin MouseFields /\ f \notin Flags /\ f \notin DOMAIN Enumeration
        /\ f \notin {"ManualMemoryLimit", "BackgroundColor"}
    BY <1>4, Kinds
  <2>2. f = "WindowSize" => Default(f) = DefaultSize
    BY <2>1, Kinds DEF Default, Flags
  <2>3. f # "WindowSize" => Default(f) = DefaultPos
    BY <2>1, Kinds DEF Default, Flags
  <2>4. DefaultPos \in Point /\ DefaultSize \in Point
    BY RegistryAssumption DEF Point, Axis
  <2> QED BY <1>4, <2>2, <2>3, <2>4, OneKind
<1>5. CASE f = "BackgroundColor"
  <2>1. f \notin MouseFields /\ f \notin Flags
    BY <1>5, Kinds
  <2>2. Default(f) = [rgb |-> DefaultColour, a |-> 0]
    BY <1>5, <2>1 DEF Default, Flags
  <2>3. ColourOK(Default(f))
    BY <2>2 DEF ColourOK
  <2> QED BY <1>5, <2>3, OneKind
<1>6. CASE f = "ManualMemoryLimit"
  BY <1>6, OneKind
<1> QED BY <1>1, <1>2, <1>3, <1>4, <1>5, <1>6, Kinds

\* What is read from a text is a setting.
LEMMA GetOK ==
    ASSUME NEW f \in Fields, NEW text, f \in WindowFields => text \in Point, NEW v \in Get(f, text)
    PROVE  ValueOK(f, v)
<1>1. CASE f \in DOMAIN Enumeration
  <2>1. f \notin Flags \cup MouseFields /\ f # "BackgroundColor"
    BY <1>1, Kinds
  <2>2. Get(f, text) \subseteq Enumerators(f)
    <3>1. CASE f = "Language"
      <4>1. Get(f, text) = GetLanguage(text)
        BY <2>1, <3>1 DEF Get
      <4>2. GetEnumerator("Language", text) \subseteq Enumerators("Language")
        BY DEF GetEnumerator
      <4>3. {w \in {0} : \A i \in DOMAIN Digits : text # Digits[i]} \subseteq Enumerators("Language")
        BY SomeEnumerators
      <4>4. GetLanguage(text) \subseteq Enumerators("Language")
        BY <4>2, <4>3 DEF GetLanguage
      <4> QED BY <3>1, <4>1, <4>4
    <3>2. CASE f # "Language"
      <4>1. f \in DOMAIN Enumeration \ {"Language"}
        BY <1>1, <3>2
      <4>2. Get(f, text) = GetEnumerator(f, text)
        BY <2>1, <3>2, <4>1 DEF Get
      <4> QED BY <4>2 DEF GetEnumerator
    <3> QED BY <3>1, <3>2
  <2> QED BY <1>1, <2>2, OneKind
<1>2. CASE f = "BackgroundColor"
  <2>1. f \notin DOMAIN Enumeration \cup Flags \cup MouseFields /\ f # "Language"
    BY <1>2, Kinds
  <2>2. Get(f, text) = GetColour(text)
    BY <1>2, <2>1 DEF Get
  <2>3. PICK alpha : alpha = IF text.form = "hex" THEN 0 ELSE text.a
    OBVIOUS
  <2>4. v = [rgb |-> text.rgb, a |-> alpha]
    BY <2>2, <2>3 DEF GetColour
  <2>5. ColourOK(v)
    BY <2>4 DEF ColourOK
  <2> QED BY <1>2, <2>5, OneKind
<1>3. CASE f \in MouseFields
  <2>1. f \notin DOMAIN Enumeration \cup Flags /\ f \notin {"Language", "BackgroundColor"}
    BY <1>3, Kinds
  <2>2. Get(f, text) = GetMouseAction(text)
    BY <1>3, <2>1 DEF Get
  <2>3. Disable \in MouseAction
    BY MouseNumbers DEF Disable, MouseActions
  <2>4. v \in MouseAction
    BY <2>2, <2>3 DEF GetMouseAction
  <2> QED BY <1>3, <2>4, OneKind
<1>4. CASE f \in Flags
  <2>1. f \notin DOMAIN Enumeration \cup MouseFields /\ f \notin {"Language", "BackgroundColor"}
    BY <1>4, Kinds
  <2>2. Get(f, text) = {b \in BOOLEAN : text \in {PutFlag(b), IF b THEN "1" ELSE "0"}}
    BY <1>4, <2>1 DEF Get
  <2>3. v \in BOOLEAN
    BY <2>2
  <2> QED BY <1>4, <2>3, OneKind
<1>5. CASE f \in WindowFields \cup {"ManualMemoryLimit"}
  <2>1. f \notin DOMAIN Enumeration \cup MouseFields \cup Flags
        /\ f \notin {"Language", "BackgroundColor"}
    BY <1>5, Kinds
  <2>2. Get(f, text) = {text}
    BY <2>1 DEF Get
  <2>3. v = text
    BY <2>2
  <2> QED BY <1>5, <2>3, OneKind
<1> QED BY <1>1, <1>2, <1>3, <1>4, <1>5, Kinds

\* Every setting has a value the file gives, or the one of a Load that finds none.
LEMMA ValuesOK ==
    ASSUME NEW ini, FileOK(ini), NEW f \in Fields
    PROVE  /\ Values(f, ini) # {}
           /\ \A v \in Values(f, ini) : ValueOK(f, v)
<1>1. PICK e : e = EntryOf(f)
  OBVIOUS
<1>2. f \in WindowFields => e = f
  BY <1>1 DEF EntryOf, WindowFields
<1>3. CASE e \in DOMAIN ini.entries /\ Get(f, ini.entries[e]) # {}
  <2>1. Values(f, ini) = Get(f, ini.entries[e])
    BY <1>1, <1>3 DEF Values
  <2>2. PICK text : text = ini.entries[e]
    OBVIOUS
  <2>3. f \in WindowFields => text \in Point
    BY <1>2, <1>3, <2>2 DEF FileOK
  <2>4. \A v \in Get(f, text) : ValueOK(f, v)
    BY <2>3, GetOK
  <2> QED BY <1>3, <2>1, <2>2, <2>4
<1>4. CASE ~(e \in DOMAIN ini.entries /\ Get(f, ini.entries[e]) # {})
  <2>1. Values(f, ini) = {Default(f)}
    BY <1>1, <1>4 DEF Values
  <2> QED BY <2>1, DefaultOK
<1> QED BY <1>3, <1>4

\* What is read from a text is a binding.
LEMMA GetBindingOK ==
    ASSUME NEW text, NEW b \in GetBinding(text)
    PROVE  BindingOK(b)
<1>1. PICK a \in KeyActions : b = [Key |-> <<text[1], text[2] \cap Modifiers>>, Action |-> a]
  BY DEF GetBinding
<1>2. PICK key : key = text[1]
  OBVIOUS
<1>3. PICK modifiers : modifiers = text[2] \cap Modifiers
  OBVIOUS
<1>4. b = [Key |-> <<key, modifiers>>, Action |-> a] /\ modifiers \subseteq Modifiers
  BY <1>1, <1>2, <1>3
<1>5. b.Key = <<key, modifiers>> /\ b.Action = a
  BY <1>4
<1>6. b.Key[1] = key /\ b.Key[2] = modifiers
  BY <1>5
<1> QED BY <1>4, <1>5, <1>6 DEF BindingOK

\* The bindings the program has when the file has none.
LEMMA DefaultBindingsOK ==
    BindingsOK(DefaultBindings)
<1>1. DefaultBindings \in Seq(Binding)
  BY RegistryAssumption
<1>2. PICK bs : bs = DefaultBindings
  OBVIOUS
<1>3. bs \in Seq(Binding) /\ DOMAIN bs = 1..Len(bs) /\ Len(bs) \in Nat
      /\ \A i \in DOMAIN bs : bs[i] \in Binding
  BY <1>1, <1>2
<1>4. Range(bs) = {bs[i] : i \in DOMAIN bs}
  BY DEF Range
<1>5. bs \in Seq(Range(bs))
  BY <1>3, <1>4, SeqDef
<1>6. ASSUME NEW b \in Binding
      PROVE  BindingOK(b)
  <2>1. b = [Key |-> b.Key, Action |-> b.Action] /\ b.Key \in KeyboardPress /\ b.Action \in KeyActions
    BY DEF Binding
  <2>2. PICK key : key = b.Key
    OBVIOUS
  <2>3. key = <<key[1], key[2]>> /\ key[2] \subseteq Modifiers
    BY <2>1, <2>2 DEF KeyboardPress
  <2> QED BY <2>1, <2>2, <2>3 DEF BindingOK
<1> QED BY <1>2, <1>3, <1>5, <1>6 DEF BindingsOK

HasBinding(ini, i) == i \in DOMAIN ini.keyboard /\ GetBinding(ini.keyboard[i]) # {}

\* The bindings are read up to the first number that has none.
LEMMA BindingsOfIs ==
    ASSUME NEW ini, FileOK(ini)
    PROVE  \E last \in 0..Len(ini.keyboard) :
            /\ ~HasBinding(ini, last + 1) /\ \A i \in 1..last : HasBinding(ini, i)
            /\ BindingsOf(ini) = IF last = 0 THEN DefaultBindings
                ELSE [i \in 1..last |-> CHOOSE b \in GetBinding(ini.keyboard[i]) : TRUE]
<1>1. PICK n : n = Len(ini.keyboard)
  OBVIOUS
<1>2. n \in Nat /\ DOMAIN ini.keyboard = 1..n
  BY <1>1 DEF FileOK
<1>3. PICK S : S = {k \in 0..n : ~HasBinding(ini, k + 1)}
  OBVIOUS
<1>4. n \in S /\ S \subseteq Nat
  <2>1. n + 1 \notin 1..n
    BY <1>2
  <2>2. ~HasBinding(ini, n + 1)
    BY <1>2, <2>1 DEF HasBinding
  <2> QED BY <1>2, <1>3, <2>2
<1>5. PICK m \in S : \A k \in S : m <= k
  BY <1>4, SmallestOf
<1>6. ASSUME NEW i \in 1..m
      PROVE  HasBinding(ini, i)
  <2>1. m \in 0..n
    BY <1>3, <1>5
  <2>2. PICK k : k = i - 1
    OBVIOUS
  <2>3. i \in Int /\ m \in Int /\ k \in Int /\ k + 1 = i /\ 0 <= k /\ k < m /\ m <= n
    BY <1>2, <2>1, <2>2
  <2>4. k \in 0..n /\ ~(m <= k)
    BY <1>2, <2>3
  <2>5. k \notin S
    BY <1>5, <2>4
  <2> QED BY <1>3, <2>3, <2>4, <2>5
<1>7. \E k \in 0..n : ~HasBinding(ini, k + 1) /\ \A i \in 1..k : HasBinding(ini, i)
  BY <1>3, <1>5, <1>6
<1>8. PICK last : last = CHOOSE k \in 0..n : ~HasBinding(ini, k + 1) /\ \A i \in 1..k : HasBinding(ini, i)
  OBVIOUS
<1>9. last \in 0..n /\ ~HasBinding(ini, last + 1) /\ \A i \in 1..last : HasBinding(ini, i)
  BY <1>7, <1>8
<1>10. BindingsOf(ini) = IF last = 0 THEN DefaultBindings
                ELSE [i \in 1..last |-> CHOOSE b \in GetBinding(ini.keyboard[i]) : TRUE]
  BY <1>1, <1>8 DEF BindingsOf, HasBinding
<1> QED BY <1>1, <1>9, <1>10

\* What is read of the bindings are bindings.
LEMMA BindingsOfOK ==
    ASSUME NEW ini, FileOK(ini)
    PROVE  BindingsOK(BindingsOf(ini))
<1>1. PICK last \in 0..Len(ini.keyboard) :
            /\ ~HasBinding(ini, last + 1) /\ \A i \in 1..last : HasBinding(ini, i)
            /\ BindingsOf(ini) = IF last = 0 THEN DefaultBindings
                ELSE [i \in 1..last |-> CHOOSE b \in GetBinding(ini.keyboard[i]) : TRUE]
  BY BindingsOfIs
<1>2. CASE last = 0
  BY <1>1, <1>2, DefaultBindingsOK
<1>3. CASE last # 0
  <2>1. Len(ini.keyboard) \in Nat
    BY DEF FileOK
  <2>2. PICK bs : bs = [i \in 1..last |-> CHOOSE b \in GetBinding(ini.keyboard[i]) : TRUE]
    OBVIOUS
  <2>3. last \in Nat
    BY <2>1
  <2>4. DOMAIN bs = 1..last /\ bs = [i \in 1..last |-> bs[i]]
    BY <2>2
  <2>5. \A i \in 1..last : BindingOK(bs[i])
    <3>1. ASSUME NEW i \in 1..last
          PROVE  BindingOK(bs[i])
      <4>1. PICK text : text = ini.keyboard[i]
        OBVIOUS
      <4>2. GetBinding(text) # {}
        BY <1>1, <4>1 DEF HasBinding
      <4>3. bs[i] = CHOOSE b \in GetBinding(text) : TRUE
        BY <2>2, <4>1
      <4>4. bs[i] \in GetBinding(text)
        BY <4>2, <4>3
      <4> QED BY <4>4, GetBindingOK
    <3> QED BY <3>1
  <2>6. Range(bs) = {bs[i] : i \in 1..last}
    BY <2>4 DEF Range
  <2>7. bs \in Seq(Range(bs))
    BY <2>3, <2>4, <2>6, SeqDef
  <2>8. BindingsOK(bs)
    BY <2>4, <2>5, <2>7 DEF BindingsOK
  <2> QED BY <1>1, <1>3, <2>2, <2>8
<1> QED BY <1>2, <1>3

\* A member of Load, setting by setting.
LEMMA LoadIs ==
    ASSUME NEW ini, NEW c \in Load(ini)
    PROVE  /\ DOMAIN c = CfgParts
           /\ c["Bindings"] = BindingsOf(ini)
           /\ c["Language"] \in Values("Language", ini)
           /\ \A f \in Fields \ {"Language"} : c[f] = CHOOSE v \in Values(f, ini) : TRUE
<1>1. PICK l \in Values("Language", ini) :
        c = [f \in Fields \cup {"Bindings"} |->
            CASE f = "Bindings" -> BindingsOf(ini)
              [] f = "Language" -> l
              [] OTHER -> CHOOSE v \in Values(f, ini) : TRUE]
  BY DEF Load
<1>2. "Bindings" \notin Fields /\ CfgParts = Fields \cup {"Bindings"}
  BY Kinds
<1>3. "Language" \in Fields
  BY Kinds
<1>4. DOMAIN c = CfgParts
  BY <1>1, <1>2
<1>5. c["Bindings"] = BindingsOf(ini)
  BY <1>1
<1>6. c["Language"] = l
  BY <1>1, <1>3
<1>7. ASSUME NEW f \in Fields \ {"Language"}
      PROVE  c[f] = CHOOSE v \in Values(f, ini) : TRUE
  <2>1. f # "Bindings" /\ f # "Language"
    BY <1>2
  <2> QED BY <1>1, <2>1
<1> QED BY <1>4, <1>5, <1>6, <1>7

\* The settings of a session are settings.
LEMMA LoadTyped ==
    ASSUME NEW ini, FileOK(ini), NEW c \in Load(ini)
    PROVE  CfgTyped(c)
<1>1. /\ DOMAIN c = CfgParts
      /\ c["Bindings"] = BindingsOf(ini)
      /\ c["Language"] \in Values("Language", ini)
      /\ \A f \in Fields \ {"Language"} : c[f] = CHOOSE v \in Values(f, ini) : TRUE
  BY LoadIs
<1>2. ValueOK("Bindings", c["Bindings"])
  BY <1>1, BindingsOfOK, OneKind
<1>3. ASSUME NEW f \in Fields
      PROVE  ValueOK(f, c[f])
  <2>1. Values(f, ini) # {} /\ \A v \in Values(f, ini) : ValueOK(f, v)
    BY ValuesOK
  <2>2. c[f] \in Values(f, ini)
    BY <1>1, <2>1
  <2> QED BY <2>1, <2>2
<1>4. CfgParts = Fields \cup {"Bindings"}
  BY Kinds
<1> QED BY <1>1, <1>2, <1>3, <1>4 DEF CfgTyped

\* No two settings have the same entry.
LEMMA EntriesApart ==
    ASSUME NEW f \in Fields, NEW g \in Fields, EntryOf(f) = EntryOf(g)
    PROVE  f = g
<1>1. "OnMouseMioddle" \notin Fields
  BY Kinds DEF Flags, MouseFields, ClickFields, DblFields, WheelFields, WindowFields
<1> QED BY <1>1 DEF EntryOf

\* What is saved of a setting.
LEMMA SavedEntry ==
    ASSUME NEW c, NEW f \in Fields
    PROVE  EntryOf(f) \in DOMAIN Saved(c).entries
           /\ Saved(c).entries[EntryOf(f)] = Put(f, c[f])
<1>1. PICK entries : entries = [e \in {EntryOf(g) : g \in Fields} |->
        LET g == CHOOSE g \in Fields : EntryOf(g) = e IN Put(g, c[g])]
  OBVIOUS
<1>2. Saved(c).entries = entries
  BY <1>1 DEF Saved
<1>3. PICK e : e = EntryOf(f)
  OBVIOUS
<1>4. e \in {EntryOf(g) : g \in Fields}
  BY <1>3
<1>5. PICK h : h = CHOOSE g \in Fields : EntryOf(g) = e
  OBVIOUS
<1>6. h \in Fields /\ EntryOf(h) = e
  BY <1>3, <1>5
<1>7. h = f
  BY <1>3, <1>6, EntriesApart
<1>8. entries[e] = Put(h, c[h])
  BY <1>1, <1>4, <1>5
<1> QED BY <1>1, <1>2, <1>3, <1>4, <1>7, <1>8

\* The bindings as they are written.
LEMMA SavedKeyboard ==
    ASSUME NEW c, CfgTyped(c)
    PROVE  /\ Saved(c).keyboard \in Seq(Range(Saved(c).keyboard))
           /\ Len(Saved(c).keyboard) = Len(c.Bindings) /\ Len(c.Bindings) \in Nat
           /\ DOMAIN c.Bindings = 1..Len(c.Bindings)
           /\ DOMAIN Saved(c).keyboard = 1..Len(c.Bindings)
           /\ \A i \in 1..Len(c.Bindings) : Saved(c).keyboard[i] = PutBinding(c.Bindings[i])
<1>1. PICK bs : bs = c.Bindings
  OBVIOUS
<1>2. BindingsOK(bs)
  BY <1>1, Kinds DEF CfgTyped, ValueOK
<1>3. PICK n : n = Len(bs)
  OBVIOUS
<1>4. n \in Nat /\ DOMAIN bs = 1..n
  BY <1>2, <1>3 DEF BindingsOK
<1>5. PICK keyboard : keyboard = [i \in 1..n |-> PutBinding(bs[i])]
  OBVIOUS
<1>6. Saved(c).keyboard = keyboard
  BY <1>1, <1>4, <1>5 DEF Saved
<1>7. DOMAIN keyboard = 1..n /\ keyboard = [i \in 1..n |-> keyboard[i]]
      /\ \A i \in 1..n : keyboard[i] = PutBinding(bs[i])
  BY <1>5
<1>8. Range(keyboard) = {keyboard[i] : i \in 1..n}
  BY <1>7 DEF Range
<1>9. keyboard \in Seq(Range(keyboard))
  BY <1>4, <1>7, <1>8, SeqDef
<1>10. Len(keyboard) = n
  BY <1>4, <1>7, <1>9
<1> QED BY <1>1, <1>3, <1>4, <1>6, <1>7, <1>9, <1>10

\* A file that was saved is one a Load can read.
LEMMA SavedFileOK ==
    ASSUME NEW c, CfgTyped(c)
    PROVE  FileOK(Saved(c))
<1>1. ASSUME NEW f \in WindowFields
      PROVE  Saved(c).entries[f] \in Point
  <2>1. f \in Fields /\ f # "OnMouseMiddle" /\ f \in CfgParts
    BY Kinds DEF WindowFields
  <2>2. EntryOf(f) = f
    BY <2>1 DEF EntryOf
  <2>3. Saved(c).entries[f] = Put(f, c[f])
    BY <2>1, <2>2, SavedEntry
  <2>4. f \notin DOMAIN Enumeration \cup Flags /\ f # "BackgroundColor"
    BY Kinds
  <2>5. Put(f, c[f]) = c[f]
    BY <2>4 DEF Put
  <2>6. ValueOK(f, c[f])
    BY <2>1 DEF CfgTyped
  <2> QED BY <2>3, <2>5, <2>6 DEF ValueOK
<1>2. Saved(c).keyboard \in Seq(Range(Saved(c).keyboard))
  BY SavedKeyboard
<1> QED BY <1>1, <1>2 DEF FileOK

\* A file without entries is one a Load can read.
LEMMA NoEntriesOK ==
    FileOK(NoEntries)
<1>1. NoEntries.entries = <<>> /\ NoEntries.keyboard = <<>>
  BY DEF NoEntries
<1>2. WindowFields \cap DOMAIN NoEntries.entries = {}
  BY <1>1 DEF WindowFields
<1>3. <<>> \in Seq(Range(<<>>))
  OBVIOUS
<1> QED BY <1>1, <1>2, <1>3 DEF FileOK

\* Every action has an identifier of its own.
LEMMA IdentifiersApart ==
    ASSUME NEW a \in KeyActions, NEW b \in KeyActions, ActionIdentifier[a] = ActionIdentifier[b]
    PROVE  a = b
<1>1. KeyActions = {"NextImage", "NextSkipImage", "PreviousImage", "PreviousSkipImage",
        "RenameFile", "RandomImage", "ZoomIn", "ZoomOut", "ZoomDefault", "ZoomFull", "ZoomFree",
        "PanUp", "PanDown", "PanLeft", "PanRight", "FirstImage", "LastImage", "RecycleCurrentFile",
        "DeleteCurrentFile", "RemoveCurrentImage", "ToggleFullscreen", "CloseApplication",
        "OpenSettings", "CopyImage", "ToggleFullSizeDefaultZoom", "RotateLeft", "RotateRight",
        "PanScreenUp", "PanScreenDown", "PanScreenLeft", "PanScreenRight", "PanUpperEdge",
        "PanLowerEdge", "PanLeftEdge", "PanRightEdge"}
  BY DEF KeyActions, ActionIdentifier
<1>2. PICK Renamed : Renamed = {"PreviousImage", "PreviousSkipImage", "RecycleCurrentFile",
                                "DeleteCurrentFile", "RemoveCurrentImage"}
  OBVIOUS
<1>3. /\ ActionIdentifier["PreviousImage"] = "PrevImage"
      /\ ActionIdentifier["PreviousSkipImage"] = "PrevSkipImage"
      /\ ActionIdentifier["RecycleCurrentFile"] = "RecycleFile"
      /\ ActionIdentifier["DeleteCurrentFile"] = "RemoveFile"
      /\ ActionIdentifier["RemoveCurrentImage"] = "RemoveImage"
  BY DEF ActionIdentifier
<1>4. ASSUME NEW k \in KeyActions \ Renamed
      PROVE  ActionIdentifier[k] = k
  <2>1. k \in {"NextImage", "NextSkipImage", "RenameFile", "RandomImage", "ZoomIn", "ZoomOut",
        "ZoomDefault", "ZoomFull", "ZoomFree", "PanUp", "PanDown", "PanLeft", "PanRight"}
        \/ k \in {"FirstImage", "LastImage", "ToggleFullscreen", "CloseApplication",
        "OpenSettings", "CopyImage", "ToggleFullSizeDefaultZoom", "RotateLeft", "RotateRight",
        "PanScreenUp", "PanScreenDown", "PanScreenLeft", "PanScreenRight", "PanUpperEdge",
        "PanLowerEdge", "PanLeftEdge", "PanRightEdge"}
    BY <1>1, <1>2
  <2>2. CASE k \in {"NextImage", "NextSkipImage", "RenameFile", "RandomImage", "ZoomIn", "ZoomOut",
        "ZoomDefault", "ZoomFull", "ZoomFree", "PanUp", "PanDown", "PanLeft", "PanRight"}
    BY <2>2 DEF ActionIdentifier
  <2>3. CASE k \in {"FirstImage", "LastImage", "ToggleFullscreen", "CloseApplication",
        "OpenSettings", "CopyImage", "ToggleFullSizeDefaultZoom", "RotateLeft", "RotateRight",
        "PanScreenUp", "PanScreenDown", "PanScreenLeft", "PanScreenRight", "PanUpperEdge",
        "PanLowerEdge", "PanLeftEdge", "PanRightEdge"}
    BY <2>3 DEF ActionIdentifier
  <2> QED BY <2>1, <2>2, <2>3
<1>5. {"PrevImage", "PrevSkipImage", "RecycleFile", "RemoveFile", "RemoveImage"} \cap KeyActions = {}
  BY <1>1
<1>6. CASE a \in Renamed /\ b \in Renamed
  BY <1>2, <1>3, <1>6
<1>7. CASE a \in Renamed /\ b \notin Renamed
  <2>1. ActionIdentifier[b] = b
    BY <1>4, <1>7
  <2>2. ActionIdentifier[a] \in {"PrevImage", "PrevSkipImage", "RecycleFile", "RemoveFile", "RemoveImage"}
    BY <1>2, <1>3, <1>7
  <2> QED BY <1>5, <2>1, <2>2
<1>8. CASE a \notin Renamed /\ b \in Renamed
  <2>1. ActionIdentifier[a] = a
    BY <1>4, <1>8
  <2>2. ActionIdentifier[b] \in {"PrevImage", "PrevSkipImage", "RecycleFile", "RemoveFile", "RemoveImage"}
    BY <1>2, <1>3, <1>8
  <2> QED BY <1>5, <2>1, <2>2
<1>9. CASE a \notin Renamed /\ b \notin Renamed
  BY <1>4, <1>9
<1> QED BY <1>6, <1>7, <1>8, <1>9

\* A binding is read as it was written.
LEMMA GetsBindingBack ==
    ASSUME NEW b, BindingOK(b)
    PROVE  GetBinding(PutBinding(b)) = {b}
<1>1. PICK key : key = b.Key[1]
  OBVIOUS
<1>2. PICK modifiers : modifiers = b.Key[2]
  OBVIOUS
<1>3. PICK action : action = b.Action
  OBVIOUS
<1>4. action \in KeyActions /\ modifiers \subseteq Modifiers
      /\ b = [Key |-> <<key, modifiers>>, Action |-> action]
  BY <1>1, <1>2, <1>3 DEF BindingOK
<1>5. PICK id : id = ActionIdentifier[action]
  OBVIOUS
<1>6. PICK text : text = <<key, modifiers, id>>
  OBVIOUS
<1>7. PutBinding(b) = text
  BY <1>1, <1>2, <1>3, <1>5, <1>6 DEF PutBinding
<1>8. text[1] = key /\ text[2] = modifiers /\ text[3] = id /\ Len(text) = 3
  BY <1>6
<1>9. {k \in KeyActions : Len(text) = 3 /\ ActionIdentifier[k] = text[3]} = {action}
  <2>1. \A k \in KeyActions : ActionIdentifier[k] = id <=> k = action
    BY <1>4, <1>5, IdentifiersApart
  <2> QED BY <1>4, <1>8, <2>1
<1>10. text[2] \cap Modifiers = modifiers
  BY <1>4, <1>8
<1>11. GetBinding(text) = {[Key |-> <<text[1], text[2] \cap Modifiers>>, Action |-> k] : k \in {action}}
  BY <1>9 DEF GetBinding
<1>12. GetBinding(text) = {[Key |-> <<key, modifiers>>, Action |-> k] : k \in {action}}
  BY <1>8, <1>10, <1>11
<1>13. GetBinding(text) = {[Key |-> <<key, modifiers>>, Action |-> action]}
  BY <1>12
<1> QED BY <1>4, <1>7, <1>13

\* The bindings are read as they were written, and the default ones for none.
LEMMA BindingsBack ==
    ASSUME NEW c, CfgTyped(c)
    PROVE  BindingsOf(Saved(c)) = IF c.Bindings = <<>> THEN DefaultBindings ELSE c.Bindings
<1>1. PICK ini : ini = Saved(c)
  OBVIOUS
<1>2. PICK n : n = Len(c.Bindings)
  OBVIOUS
<1>3. PICK bs : bs = c.Bindings
  OBVIOUS
<1>4. /\ n \in Nat /\ DOMAIN bs = 1..n /\ DOMAIN ini.keyboard = 1..n /\ Len(ini.keyboard) = n
      /\ \A i \in 1..n : ini.keyboard[i] = PutBinding(bs[i])
  BY <1>1, <1>2, <1>3, SavedKeyboard
<1>5. BindingsOK(bs)
  BY <1>3, Kinds DEF CfgTyped, ValueOK
<1>6. FileOK(ini)
  BY <1>1, SavedFileOK
<1>7. \A i \in 1..n : GetBinding(ini.keyboard[i]) = {bs[i]}
  BY <1>4, <1>5, GetsBindingBack DEF BindingsOK
<1>8. PICK last \in 0..Len(ini.keyboard) :
            /\ ~HasBinding(ini, last + 1) /\ \A i \in 1..last : HasBinding(ini, i)
            /\ BindingsOf(ini) = IF last = 0 THEN DefaultBindings
                ELSE [i \in 1..last |-> CHOOSE b \in GetBinding(ini.keyboard[i]) : TRUE]
  BY <1>6, BindingsOfIs
<1>9. last = n
  <2>1. \A i \in 1..n : HasBinding(ini, i)
    BY <1>4, <1>7 DEF HasBinding
  <2>2. last + 1 \notin 1..n
    BY <1>8, <2>1
  <2> QED BY <1>4, <1>8, <2>2
<1>10. n = 0 <=> bs = <<>>
  BY <1>2, <1>3, <1>5 DEF BindingsOK
<1>11. CASE n = 0
  BY <1>1, <1>3, <1>8, <1>9, <1>10, <1>11
<1>12. CASE n # 0
  <2>1. BindingsOf(ini) = [i \in 1..n |-> CHOOSE b \in GetBinding(ini.keyboard[i]) : TRUE]
    BY <1>8, <1>9, <1>12
  <2>2. \A i \in 1..n : (CHOOSE b \in GetBinding(ini.keyboard[i]) : TRUE) = bs[i]
    BY <1>7
  <2>3. BindingsOf(ini) = [i \in 1..n |-> bs[i]]
    BY <2>1, <2>2
  <2>4. bs = [i \in 1..n |-> bs[i]]
    BY <1>4, <1>5 DEF BindingsOK
  <2> QED BY <1>1, <1>3, <1>10, <1>12, <2>3, <2>4
<1> QED BY <1>11, <1>12

\* A setting is found as it was saved, but for what the file cannot say of it.
LEMMA Restored ==
    ASSUME NEW c, CfgTyped(c), NEW d \in Load(Saved(c)), NEW f \in CfgParts
    PROVE  d[f] = Reloaded(c, f)
<1>1. PICK ini : ini = Saved(c)
  OBVIOUS
<1>2. /\ DOMAIN d = CfgParts
      /\ d["Bindings"] = BindingsOf(ini)
      /\ d["Language"] \in Values("Language", ini)
      /\ \A g \in Fields \ {"Language"} : d[g] = CHOOSE v \in Values(g, ini) : TRUE
  BY <1>1, LoadIs
<1>3. CASE f = "Bindings"
  <2>1. Reloaded(c, f) = IF c.Bindings = <<>> THEN DefaultBindings ELSE c.Bindings
    BY <1>3 DEF Reloaded
  <2> QED BY <1>1, <1>2, <1>3, <2>1, BindingsBack
<1>4. CASE f # "Bindings"
  <2>1. f \in Fields
    BY <1>4, Kinds
  <2>2. ValueOK(f, c[f])
    BY DEF CfgTyped
  <2>3. PICK v : v = c[f]
    OBVIOUS
  <2>4. /\ f = "DefaultZoom" /\ v = NoZoomMode => Get(f, Put(f, v)) = {}
        /\ f = "BackgroundColor" => Get(f, Put(f, v)) = {[v EXCEPT !.a = 0]}
        /\ ~(f = "DefaultZoom" /\ v = NoZoomMode) /\ f # "BackgroundColor" =>
                Get(f, Put(f, v)) = {v}
    BY <2>1, <2>2, <2>3, GetsBack
  <2>5. PICK e : e = EntryOf(f)
    OBVIOUS
  <2>6. e \in DOMAIN ini.entries /\ ini.entries[e] = Put(f, v)
    BY <1>1, <2>1, <2>3, <2>5, SavedEntry
  <2>7. Values(f, ini) = IF Get(f, Put(f, v)) # {} THEN Get(f, Put(f, v)) ELSE {Default(f)}
    BY <2>5, <2>6 DEF Values
  <2>8. Values(f, ini) = {Reloaded(c, f)}
    <3>1. CASE f = "DefaultZoom" /\ v = NoZoomMode
      <4>1. ~Writable(c)
        BY <2>3, <3>1 DEF Writable
      <4>2. Reloaded(c, f) = Default(f)
        BY <3>1, <4>1 DEF Reloaded
      <4> QED BY <2>4, <2>7, <3>1, <4>2
    <3>2. CASE f = "BackgroundColor"
      <4>1. Reloaded(c, f) = [v EXCEPT !.a = 0]
        BY <2>3, <3>2 DEF Reloaded
      <4> QED BY <2>4, <2>7, <3>2, <4>1
    <3>3. CASE ~(f = "DefaultZoom" /\ v = NoZoomMode) /\ f # "BackgroundColor"
      <4>1. ~(f = "DefaultZoom" /\ ~Writable(c))
        BY <2>3, <3>3 DEF Writable
      <4>2. Reloaded(c, f) = v
        BY <1>4, <2>3, <3>3, <4>1 DEF Reloaded
      <4> QED BY <2>4, <2>7, <3>3, <4>2
    <3> QED BY <3>1, <3>2, <3>3
  <2>9. d[f] \in Values(f, ini)
    <3>1. CASE f = "Language"
      BY <1>2, <3>1
    <3>2. CASE f # "Language"
      <4>1. d[f] = CHOOSE w \in Values(f, ini) : TRUE
        BY <1>2, <2>1, <3>2
      <4> QED BY <2>8, <4>1
    <3> QED BY <3>1, <3>2
  <2> QED BY <2>8, <2>9
<1> QED BY <1>3, <1>4

-----------------------------------------------------------------------------
(* The dialog.                                                             *)

\* In a finite set of numbers there is one with so many below it.
LEMMA Ranked ==
    ASSUME NEW S, IsFiniteSet(S), S \subseteq Nat, NEW n \in 1..Cardinality(S)
    PROVE  \E x \in S : Cardinality({k \in S : k < x}) = n - 1
<1>1. PICK m : m = Cardinality(S)
  OBVIOUS
<1>2. m \in Nat
  BY <1>1, FS_CardinalityType
<1>3. PICK f : f = [x \in S |-> Cardinality({k \in S : k < x})]
  OBVIOUS
<1>4. ASSUME NEW x \in S
      PROVE  f[x] \in 0..(m - 1) /\ IsFiniteSet({k \in S : k < x})
  <2>1. PICK below : below = {k \in S : k < x}
    OBVIOUS
  <2>7. PICK rest : rest = S \ {x}
    OBVIOUS
  <2>8. \A k \in S : k \in Int
    OBVIOUS
  <2>2. below \in SUBSET rest
    BY <2>1, <2>7, <2>8
  <2>3. IsFiniteSet(rest) /\ Cardinality(rest) = m - 1
    BY <1>1, <2>7, FS_RemoveElement
  <2>4. IsFiniteSet(below) /\ Cardinality(below) <= m - 1
    BY <2>2, <2>3, FS_Subset
  <2>5. Cardinality(below) \in Nat
    BY <2>4, FS_CardinalityType
  <2>6. f[x] = Cardinality(below)
    BY <1>3, <2>1
  <2> QED BY <1>2, <2>1, <2>4, <2>5, <2>6
<1>5. ASSUME NEW x \in S, NEW y \in S, f[x] = f[y]
      PROVE  x = y
  <2>1. ASSUME NEW a \in S, NEW b \in S, f[a] = f[b]
        PROVE  ~(a < b)
    <3>1. SUFFICES ASSUME a < b
                   PROVE  FALSE
      OBVIOUS
    <3>2. PICK A : A = {k \in S : k < a}
      OBVIOUS
    <3>3. PICK B : B = {k \in S : k < b}
      OBVIOUS
    <3>8. \A k \in S : k \in Int
      OBVIOUS
    <3>9. \A k \in S : k < a => k < b
      BY <3>1, <3>8
    <3>10. ~(a < a)
      BY <3>8
    <3>4. A \in SUBSET B /\ a \in B /\ a \notin A
      BY <3>1, <3>2, <3>3, <3>9, <3>10
    <3>5. IsFiniteSet(B)
      BY <1>4, <3>3
    <3>6. Cardinality(A) = Cardinality(B)
      BY <1>3, <2>1, <3>2, <3>3
    <3>7. B = A
      BY <3>4, <3>5, <3>6, FS_Subset
    <3> QED BY <3>4, <3>7
  <2>2. ~(x < y) /\ ~(y < x)
    BY <1>5, <2>1
  <2> QED BY <2>2
<1>6. PICK T : T = 0..(m - 1)
  OBVIOUS
<1>7. IsFiniteSet(T) /\ Cardinality(T) = m
  <2>1. 0 \in Int /\ m - 1 \in Int
    BY <1>2
  <2>2. IsFiniteSet(0..(m - 1)) /\ Cardinality(0..(m - 1)) = IF 0 > m - 1 THEN 0 ELSE (m - 1) - 0 + 1
    BY <2>1, FS_Interval
  <2> QED BY <1>2, <1>6, <2>2
<1>8. f \in Injection(S, T)
  <2>1. DOMAIN f = S /\ f \in [S -> T]
    BY <1>3, <1>4, <1>6
  <2> QED BY <1>5, <2>1 DEF Injection, IsInjective
<1>9. f \in Surjection(S, T)
  BY <1>1, <1>7, <1>8, FS_Injection
<1>10. n - 1 \in T
  BY <1>1, <1>2, <1>6
<1>11. PICK x \in S : f[x] = n - 1
  BY <1>9, <1>10 DEF Surjection
<1> QED BY <1>3, <1>11

\* The rows of the shortcuts.
RowOK(b) ==
    /\ b = [Key |-> <<b.Key[1], b.Key[2]>>, Action |-> b.Action]
    /\ b.Key[2] \subseteq Modifiers /\ b.Action \in KeyActions \cup {"Undefined"}

RowsOK(d) ==
    /\ d.next \in Nat /\ IsFiniteSet(DOMAIN d.rows) /\ DOMAIN d.rows \subseteq Nat
    /\ \A id \in DOMAIN d.rows : RowOK(d.rows[id])

\* What is written of the shortcuts are bindings.
LEMMA WrittenBindingsOK ==
    ASSUME NEW d, RowsOK(d)
    PROVE  BindingsOK(WrittenBindings(d))
<1>1. PICK ids : ids = {id \in DOMAIN d.rows : d.rows[id].Action # "Undefined"}
  OBVIOUS
<1>2. IsFiniteSet(ids) /\ ids \subseteq Nat
  <2>1. ids \in SUBSET DOMAIN d.rows
    BY <1>1
  <2> QED BY <2>1, FS_Subset DEF RowsOK
<1>3. PICK n : n = Cardinality(ids)
  OBVIOUS
<1>4. n \in Nat
  BY <1>2, <1>3, FS_CardinalityType
<1>5. PICK bs : bs = [k \in 1..n |->
            d.rows[CHOOSE id \in ids : Cardinality({j \in ids : j < id}) = k - 1]]
  OBVIOUS
<1>6. WrittenBindings(d) = bs
  BY <1>1, <1>3, <1>5 DEF WrittenBindings
<1>7. ASSUME NEW k \in 1..n
      PROVE  BindingOK(bs[k])
  <2>1. PICK id : id = CHOOSE i \in ids : Cardinality({j \in ids : j < i}) = k - 1
    OBVIOUS
  <2>2. \E i \in ids : Cardinality({j \in ids : j < i}) = k - 1
    BY <1>2, <1>3, Ranked
  <2>3. id \in ids
    BY <2>1, <2>2
  <2>4. bs[k] = d.rows[id]
    BY <1>5, <2>1
  <2>5. RowOK(d.rows[id]) /\ d.rows[id].Action # "Undefined"
    BY <1>1, <2>3 DEF RowsOK
  <2>6. PICK row : row = d.rows[id]
    OBVIOUS
  <2>7. BindingOK(row)
    BY <2>5, <2>6 DEF RowOK, BindingOK
  <2> QED BY <2>4, <2>6, <2>7
<1>8. DOMAIN bs = 1..n /\ bs = [k \in 1..n |-> bs[k]]
  BY <1>5
<1>9. Range(bs) = {bs[k] : k \in 1..n}
  BY <1>8 DEF Range
<1>10. bs \in Seq(Range(bs))
  BY <1>4, <1>8, <1>9, SeqDef
<1> QED BY <1>6, <1>7, <1>8, <1>10 DEF BindingsOK

\* The rows a dialog is made with say the bindings it was made for.
LEMMA NewRows ==
    ASSUME NEW bs, BindingsOK(bs), NEW d,
           d.rows = [id \in 0..(Len(bs) - 1) |-> bs[id + 1]], d.next = Len(bs)
    PROVE  RowsOK(d) /\ WrittenBindings(d) = bs
<1>1. PICK n : n = Len(bs)
  OBVIOUS
<1>2. n \in Nat /\ DOMAIN bs = 1..n /\ bs = [k \in 1..n |-> bs[k]]
  BY <1>1 DEF BindingsOK
<1>3. PICK rows : rows = [id \in 0..(n - 1) |-> bs[id + 1]]
  OBVIOUS
<1>4. d.rows = rows /\ d.next = n
  BY <1>1, <1>3
<1>5. DOMAIN rows = 0..(n - 1) /\ \A id \in 0..(n - 1) : rows[id] = bs[id + 1]
  BY <1>3
<1>6. ASSUME NEW id \in 0..(n - 1)
      PROVE  BindingOK(rows[id])
  <2>1. PICK k : k = id + 1
    OBVIOUS
  <2>2. k \in 1..n
    BY <1>2, <2>1
  <2> QED BY <1>2, <1>5, <2>1, <2>2 DEF BindingsOK
<1>7. ASSUME NEW b, BindingOK(b)
      PROVE  RowOK(b) /\ b.Action # "Undefined"
  <2>1. "Undefined" \notin KeyActions
    BY DEF KeyActions, ActionIdentifier
  <2> QED BY <1>7, <2>1 DEF BindingOK, RowOK
<1>8. IsFiniteSet(0..(n - 1)) /\ 0..(n - 1) \subseteq Nat
  <2>1. 0 \in Int /\ n - 1 \in Int
    BY <1>2
  <2>2. IsFiniteSet(0..(n - 1))
    BY <2>1, FS_Interval
  <2> QED BY <1>2, <2>2
<1>9. RowsOK(d)
  BY <1>2, <1>4, <1>5, <1>6, <1>7, <1>8 DEF RowsOK
<1>10. {id \in DOMAIN d.rows : d.rows[id].Action # "Undefined"} = 0..(n - 1)
  BY <1>4, <1>5, <1>6, <1>7
<1>11. Cardinality(0..(n - 1)) = n
  <2>1. 0 \in Int /\ n - 1 \in Int
    BY <1>2
  <2>2. Cardinality(0..(n - 1)) = IF 0 > n - 1 THEN 0 ELSE (n - 1) - 0 + 1
    BY <2>1, FS_Interval
  <2> QED BY <1>2, <2>2
<1>12. ASSUME NEW id \in 0..(n - 1)
       PROVE  Cardinality({j \in 0..(n - 1) : j < id}) = id
  <2>1. id \in Nat /\ 0 \in Int /\ id - 1 \in Int
    BY <1>2
  <2>2. {j \in 0..(n - 1) : j < id} = 0..(id - 1)
    BY <1>2, <2>1
  <2>3. Cardinality(0..(id - 1)) = IF 0 > id - 1 THEN 0 ELSE (id - 1) - 0 + 1
    BY <2>1, FS_Interval
  <2>4. (IF 0 > id - 1 THEN 0 ELSE (id - 1) - 0 + 1) = id
    BY <2>1
  <2> QED BY <2>2, <2>3, <2>4
<1>17. PICK ids : ids = {id \in DOMAIN d.rows : d.rows[id].Action # "Undefined"}
  OBVIOUS
<1>13. ids = 0..(n - 1)
  BY <1>10, <1>17
<1>18. WrittenBindings(d) = [k \in 1..Cardinality(ids) |->
            d.rows[CHOOSE id \in ids : Cardinality({j \in ids : j < id}) = k - 1]]
  BY <1>17 DEF WrittenBindings
<1>14. WrittenBindings(d) = [k \in 1..n |->
            rows[CHOOSE id \in ids : Cardinality({j \in ids : j < id}) = k - 1]]
  BY <1>4, <1>11, <1>13, <1>18
<1>15. ASSUME NEW k \in 1..n
       PROVE  rows[CHOOSE id \in ids : Cardinality({j \in ids : j < id}) = k - 1] = bs[k]
  <2>1. PICK i : i = k - 1
    OBVIOUS
  <2>2. i \in ids /\ i + 1 = k
    BY <1>2, <1>13, <2>1
  <2>3. \A id \in ids : Cardinality({j \in ids : j < id}) = id
    BY <1>12, <1>13
  <2>4. \A id \in ids : Cardinality({j \in ids : j < id}) = i <=> id = i
    BY <2>3
  <2>5. PICK chosen : chosen = CHOOSE id \in ids : Cardinality({j \in ids : j < id}) = i
    OBVIOUS
  <2>6. chosen = i
    BY <2>2, <2>4, <2>5
  <2>7. rows[i] = bs[k]
    BY <1>5, <1>13, <2>2
  <2> QED BY <2>1, <2>5, <2>6, <2>7
<1>16. WrittenBindings(d) = [k \in 1..n |-> bs[k]]
  BY <1>14, <1>15
<1> QED BY <1>2, <1>9, <1>16

DialogParts ==
    {"made", "shown", "ctl", "picker", "rows", "next", "selected", "enabled", "edited"}

\* A control has a value its kind offers, or none selected.
ControlOK(f, v) ==
    /\ f \in Flags => v \in BOOLEAN
    /\ f \in MouseFields => v \in MouseAction \cup {NoSelection}
    /\ f \in DOMAIN Enumeration =>
        v \in Enumerators(f) \cup (IF f = "DefaultZoom" THEN {NoSelection} ELSE {})

PickerOK(p) ==
    p = [useRgb |-> p.useRgb, rgb |-> p.rgb, hls |-> p.hls] /\ ColourOK(p.rgb)

Made(d) ==
    /\ DOMAIN d.ctl = Controls /\ \A f \in Controls : ControlOK(f, d.ctl[f])
    /\ PickerOK(d.picker)
    /\ RowsOK(d)

\* The control of a setting says what the setting is, as far as it can.
Says(d, c, f) ==
    CASE f = "BackgroundColor" -> PickerRgb(d.picker) = c[f]
      [] f = "Bindings" -> WrittenBindings(d) = c[f]
      [] OTHER -> \/ d.ctl[f] = c[f]
                  \/ f \in MouseFields /\ d.ctl[f] = NoSelection
                  \/ f = "DefaultZoom" /\ c[f] \notin ZoomChoices
                  \/ f = "ManualMemoryLimit" /\ d.ctl[f] = Blank

\* The dialog says what the settings are, but for those the user edited.
Filled(d, c) ==
    /\ DOMAIN d = DialogParts
    /\ d.shown => d.made
    /\ d.made => Made(d) /\ \A f \in Settings \ d.edited : Says(d, c, f)

\* The settings an Apply writes, with what writes them.
LEMMA SettingsAre ==
    /\ Settings = MouseFields \cup DOMAIN Enumeration \cup
            {"BrowseWrapAround", "ResetZoom", "ResetPan", "ResizeWindow", "ShowStatusBar",
             "AlwaysOnTop", "BackgroundColor", "Bindings", "MultipleInstances",
             "AutoMemoryLimit", "ManualMemoryLimit"}
    /\ Controls = Settings \ {"BackgroundColor", "Bindings"}
    /\ Settings \subseteq CfgParts /\ Settings \cap WindowFields = {}
    /\ Controls \subseteq Flags \cup MouseFields \cup DOMAIN Enumeration \cup {"ManualMemoryLimit"}
<1>1. PICK order : order = WriteOrder
  OBVIOUS
<1>2. DOMAIN order = 1..29
  BY <1>1 DEF WriteOrder
<1>3. /\ order[1] = "BrowseWrapAround" /\ order[2] = "ResetZoom" /\ order[3] = "ResetPan"
      /\ order[4] = "ResizeWindow" /\ order[5] = "MinFilter" /\ order[6] = "MagFilter"
      /\ order[7] = "DefaultZoom" /\ order[8] = "ResizeBehaviour"
      /\ order[9] = "ResizePositionMethod" /\ order[10] = "ShowStatusBar"
  BY <1>1 DEF WriteOrder
<1>4. /\ order[11] = "AlwaysOnTop" /\ order[12] = "BackgroundColor" /\ order[13] = "Language"
      /\ order[14] = "OnMouseLeft" /\ order[15] = "OnMouseMiddle" /\ order[16] = "OnMouseRight"
      /\ order[17] = "OnMouseExtra1" /\ order[18] = "OnMouseExtra2"
      /\ order[19] = "OnMouseLeftDbl" /\ order[20] = "OnMouseMiddleDbl"
  BY <1>1 DEF WriteOrder
<1>5. /\ order[21] = "OnMouseRightDbl" /\ order[22] = "OnMouseExtra1Dbl"
      /\ order[23] = "OnMouseExtra2Dbl" /\ order[24] = "OnMouseWheelUp"
      /\ order[25] = "OnMouseWheelDown" /\ order[26] = "Bindings"
      /\ order[27] = "MultipleInstances" /\ order[28] = "AutoMemoryLimit"
      /\ order[29] = "ManualMemoryLimit"
  BY <1>1 DEF WriteOrder
<1>6. 1..29 = {1, 2, 3, 4, 5, 6, 7, 8, 9, 10} \cup {11, 12, 13, 14, 15, 16, 17, 18, 19, 20}
                \cup {21, 22, 23, 24, 25, 26, 27, 28, 29}
  OBVIOUS
<1>7. {order[i] : i \in {1, 2, 3, 4, 5, 6, 7, 8, 9, 10}} =
        {"BrowseWrapAround", "ResetZoom", "ResetPan", "ResizeWindow", "MinFilter", "MagFilter",
         "DefaultZoom", "ResizeBehaviour", "ResizePositionMethod", "ShowStatusBar"}
  BY <1>3
<1>8. {order[i] : i \in {11, 12, 13, 14, 15, 16, 17, 18, 19, 20}} =
        {"AlwaysOnTop", "BackgroundColor", "Language", "OnMouseLeft", "OnMouseMiddle",
         "OnMouseRight", "OnMouseExtra1", "OnMouseExtra2", "OnMouseLeftDbl", "OnMouseMiddleDbl"}
  BY <1>4
<1>9. {order[i] : i \in {21, 22, 23, 24, 25, 26, 27, 28, 29}} =
        {"OnMouseRightDbl", "OnMouseExtra1Dbl", "OnMouseExtra2Dbl", "OnMouseWheelUp",
         "OnMouseWheelDown", "Bindings", "MultipleInstances", "AutoMemoryLimit",
         "ManualMemoryLimit"}
  BY <1>5
<1>10. Settings = {order[i] : i \in {1, 2, 3, 4, 5, 6, 7, 8, 9, 10}}
            \cup {order[i] : i \in {11, 12, 13, 14, 15, 16, 17, 18, 19, 20}}
            \cup {order[i] : i \in {21, 22, 23, 24, 25, 26, 27, 28, 29}}
  BY <1>1, <1>2, <1>6 DEF Settings
<1>11. MouseFields = {"OnMouseLeft", "OnMouseMiddle", "OnMouseRight", "OnMouseExtra1",
            "OnMouseExtra2", "OnMouseLeftDbl", "OnMouseMiddleDbl", "OnMouseRightDbl",
            "OnMouseExtra1Dbl", "OnMouseExtra2Dbl", "OnMouseWheelUp", "OnMouseWheelDown"}
  BY DEF MouseFields, ClickFields, DblFields, WheelFields
<1>12. DOMAIN Enumeration = {"DefaultZoom", "ResizeBehaviour", "ResizePositionMethod", "Language",
                             "MagFilter", "MinFilter"}
  BY Kinds
<1>13. Settings = MouseFields \cup DOMAIN Enumeration \cup
            {"BrowseWrapAround", "ResetZoom", "ResetPan", "ResizeWindow", "ShowStatusBar",
             "AlwaysOnTop", "BackgroundColor", "Bindings", "MultipleInstances",
             "AutoMemoryLimit", "ManualMemoryLimit"}
  BY <1>7, <1>8, <1>9, <1>10, <1>11, <1>12
<1>14. Controls = Settings \ {"BackgroundColor", "Bindings"}
  BY DEF Controls
<1>15. {"BrowseWrapAround", "ResetZoom", "ResetPan", "ResizeWindow", "ShowStatusBar",
        "AlwaysOnTop", "MultipleInstances", "AutoMemoryLimit"} \subseteq Flags
  BY DEF Flags
<1>16. Settings \subseteq CfgParts /\ Settings \cap WindowFields = {}
  BY <1>13, <1>15, Kinds
<1>17. Controls \subseteq Flags \cup MouseFields \cup DOMAIN Enumeration \cup {"ManualMemoryLimit"}
  BY <1>13, <1>14, <1>15
<1> QED BY <1>13, <1>14, <1>16, <1>17

\* Everything before a control that throws is written, and with none everything is.
LEMMA AllWritten ==
    ASSUME NEW d, Readable(d), NEW f \in Settings
    PROVE  IsWritten(d, f)
<1>1. \A k \in DOMAIN WriteOrder : ~Unreadable(d, WriteOrder[k])
  BY DEF Readable, Unreadable
<1>2. PICK i \in DOMAIN WriteOrder : WriteOrder[i] = f
  BY DEF Settings
<1>3. DOMAIN WriteOrder = 1..29
  BY DEF WriteOrder
<1>4. 1..i \subseteq DOMAIN WriteOrder
  BY <1>2, <1>3
<1> QED BY <1>1, <1>2, <1>4 DEF IsWritten

\* What is written is a setting whose control does not throw.
LEMMA WrittenIsReadable ==
    ASSUME NEW d, NEW f, IsWritten(d, f)
    PROVE  f \in Settings /\ ~Unreadable(d, f)
<1>1. PICK i \in DOMAIN WriteOrder : WriteOrder[i] = f /\ \A k \in 1..i : ~Unreadable(d, WriteOrder[k])
  BY DEF IsWritten
<1>2. DOMAIN WriteOrder = 1..29
  BY DEF WriteOrder
<1>3. i \in 1..i
  BY <1>1, <1>2
<1> QED BY <1>1, <1>3 DEF Settings

\* What an Apply leaves, setting by setting.
LEMMA WrittenIs ==
    ASSUME NEW d, NEW c, DOMAIN c = CfgParts, NEW e \in Written(d, c)
    PROVE  /\ DOMAIN e = CfgParts
           /\ \A f \in CfgParts : IsWritten(d, f) => e[f] \in ValuesWritten(d, f)
           /\ \A f \in CfgParts : ~IsWritten(d, f) => e[f] = c[f]
<1>1. PICK limit \in ValuesWritten(d, "ManualMemoryLimit") :
        e = [f \in DOMAIN c |->
            CASE f = "ManualMemoryLimit" /\ IsWritten(d, f) -> limit
              [] f \in Settings \ {"ManualMemoryLimit"} /\ IsWritten(d, f) ->
                    CHOOSE v \in ValuesWritten(d, f) : TRUE
              [] OTHER -> c[f]]
  BY DEF Written
<1>2. ASSUME NEW f \in CfgParts, IsWritten(d, f)
      PROVE  e[f] \in ValuesWritten(d, f)
  <2>1. f \in Settings
    BY <1>2, WrittenIsReadable
  <2>2. CASE f = "ManualMemoryLimit"
    <3>1. e[f] = limit
      BY <1>1, <1>2, <2>2
    <3> QED BY <2>2, <3>1
  <2>3. CASE f # "ManualMemoryLimit"
    <3>1. e[f] = CHOOSE v \in ValuesWritten(d, f) : TRUE
      BY <1>1, <1>2, <2>1, <2>3
    <3>2. ValuesWritten(d, f) # {}
      <4>1. ~(f = "ManualMemoryLimit" /\ d.ctl[f] = Blank)
        BY <2>3
      <4>2. CASE f = "BackgroundColor"
        BY <2>3, <4>1, <4>2 DEF ValuesWritten
      <4>3. CASE f = "Bindings"
        BY <2>3, <4>1, <4>3 DEF ValuesWritten
      <4>4. CASE f # "BackgroundColor" /\ f # "Bindings"
        BY <2>3, <4>1, <4>4 DEF ValuesWritten
      <4> QED BY <4>2, <4>3, <4>4
    <3> QED BY <3>1, <3>2
  <2> QED BY <2>2, <2>3
<1>3. ASSUME NEW f \in CfgParts, ~IsWritten(d, f)
      PROVE  e[f] = c[f]
  BY <1>1, <1>3
<1> QED BY <1>1, <1>2, <1>3

\* A dialog that was not made says nothing wrong.
LEMMA NoDialogFilled ==
    ASSUME NEW c
    PROVE  Filled(NoDialog, c)
BY DEF Filled, NoDialog, DialogParts

\* A new dialog says what the settings are.
LEMMA NewDialogFilled ==
    ASSUME NEW c, CfgTyped(c), language = c.Language
    PROVE  Filled(NewDialog(c), c) /\ NewDialog(c).made = TRUE
<1>1. PICK ctl : ctl = [f \in Controls |->
                    IF f = "Language" THEN language
                    ELSE IF f = "ManualMemoryLimit" THEN c[f] ELSE Selected(f, c[f])]
  OBVIOUS
<1>2. PICK picker : picker = PickedRgb(c.BackgroundColor)
  OBVIOUS
<1>3. PICK bs : bs = c.Bindings
  OBVIOUS
<1>4. PICK rows : rows = [id \in 0..(Len(bs) - 1) |-> bs[id + 1]]
  OBVIOUS
<1>5. PICK d : d = NewDialog(c)
  OBVIOUS
<1>6. /\ DOMAIN d = DialogParts /\ d.made = TRUE /\ d.shown = FALSE /\ d.ctl = ctl
      /\ d.picker = picker /\ d.rows = rows /\ d.next = Len(bs) /\ d.edited = {}
  BY <1>1, <1>2, <1>3, <1>4, <1>5 DEF NewDialog, NoDialog, DialogParts
<1>7. BindingsOK(bs) /\ ColourOK(c.BackgroundColor)
  BY <1>3, Kinds DEF CfgTyped, ValueOK
<1>8. RowsOK(d) /\ WrittenBindings(d) = bs
  BY <1>4, <1>6, <1>7, NewRows
<1>9. PickerOK(picker) /\ PickerRgb(picker) = c.BackgroundColor
  <2>1. PICK colour : colour = c.BackgroundColor
    OBVIOUS
  <2>2. PICK h : h = RgbHls[colour.rgb]
    OBVIOUS
  <2>3. picker = [useRgb |-> TRUE, rgb |-> colour, hls |-> h]
    BY <1>2, <2>1, <2>2 DEF PickedRgb
  <2>4. picker.useRgb = TRUE /\ picker.rgb = colour /\ picker.hls = h
    BY <2>3
  <2> QED BY <1>7, <2>1, <2>3, <2>4 DEF PickerOK, PickerRgb
<1>10. ASSUME NEW f \in Controls
       PROVE  ControlOK(f, ctl[f]) /\ Says(d, c, f)
  <2>1. f \in CfgParts /\ f \notin {"BackgroundColor", "Bindings"}
        /\ f \in Flags \cup MouseFields \cup DOMAIN Enumeration \cup {"ManualMemoryLimit"}
    BY SettingsAre
  <2>2. PICK v : v = c[f]
    OBVIOUS
  <2>3. ValueOK(f, v)
    BY <2>1, <2>2 DEF CfgTyped
  <2>4. Says(d, c, f) <=> \/ ctl[f] = v
                          \/ f \in MouseFields /\ ctl[f] = NoSelection
                          \/ f = "DefaultZoom" /\ v \notin ZoomChoices
                          \/ f = "ManualMemoryLimit" /\ ctl[f] = Blank
    BY <1>6, <2>1, <2>2 DEF Says
  <2>5. CASE f = "Language"
    <3>1. ctl[f] = v
      BY <1>1, <2>2, <2>5
    <3>2. f \notin Flags /\ f \notin MouseFields /\ f # "DefaultZoom" /\ f \in DOMAIN Enumeration
      BY <2>5, Kinds
    <3> QED BY <2>3, <2>4, <3>1, <3>2 DEF ValueOK, ControlOK
  <2>6. CASE f = "ManualMemoryLimit"
    <3>1. ctl[f] = v
      BY <1>1, <2>2, <2>6
    <3>2. f \notin Flags /\ f \notin MouseFields /\ f \notin DOMAIN Enumeration
      BY <2>6, Kinds
    <3> QED BY <2>4, <3>1, <3>2 DEF ControlOK
  <2>7. CASE f \notin {"Language", "ManualMemoryLimit"}
    <3>1. ctl[f] = Selected(f, v)
      BY <1>1, <2>2, <2>7
    <3>2. CASE f \in Flags
      <4>1. f \notin MouseFields /\ f \notin DOMAIN Enumeration
        BY <3>2, Kinds
      <4>2. Offered(f) = BOOLEAN
        BY <3>2 , <4>1, Kinds DEF Offered
      <4>3. v \in BOOLEAN
        BY <2>3, <3>2 DEF ValueOK
      <4>4. ctl[f] = v
        BY <3>1, <4>2, <4>3 DEF Selected
      <4> QED BY <2>4, <4>1, <4>3, <4>4 DEF ControlOK
    <3>3. CASE f \in MouseFields
      <4>1. f \notin Flags /\ f \notin DOMAIN Enumeration
        BY <3>3, Kinds
      <4>2. v \in MouseAction
        BY <2>3, <3>3 DEF ValueOK
      <4>3. ctl[f] = v \/ ctl[f] = NoSelection
        BY <3>1 DEF Selected
      <4> QED BY <2>4, <3>3, <4>1, <4>2, <4>3 DEF ControlOK
    <3>4. CASE f \in DOMAIN Enumeration /\ f # "DefaultZoom"
      <4>1. f \notin Flags /\ f \notin MouseFields /\ f # "ManualMemoryLimit"
        BY <3>4, Kinds
      <4>2. Offered(f) = Enumerators(f)
        BY <3>4, <4>1 DEF Offered
      <4>3. v \in Enumerators(f)
        BY <2>3, <3>4 DEF ValueOK
      <4>4. ctl[f] = v
        BY <3>1, <4>2, <4>3 DEF Selected
      <4> QED BY <2>4, <3>4, <4>1, <4>3, <4>4 DEF ControlOK
    <3>5. CASE f = "DefaultZoom"
      <4>1. f \notin Flags /\ f \notin MouseFields /\ f \in DOMAIN Enumeration
        BY <3>5, Kinds
      <4>2. Offered(f) = ZoomChoices
        BY <3>5, <4>1 DEF Offered
      <4>3. v \in Enumerators(f) \cup {NoSelection}
        BY <2>3, <3>5, <4>1 DEF ValueOK, NoZoomMode, NoSelection, ZoomFree
      <4>4. ctl[f] = v \/ (ctl[f] = NoSelection /\ v \notin ZoomChoices)
        BY <3>1, <4>2 DEF Selected
      <4> QED BY <2>4, <3>5, <4>1, <4>3, <4>4 DEF ControlOK
    <3> QED BY <2>1, <2>7, <3>2, <3>3, <3>4, <3>5
  <2> QED BY <2>5, <2>6, <2>7
<1>11. DOMAIN ctl = Controls
  BY <1>1
<1>12. Made(d)
  BY <1>6, <1>8, <1>9, <1>10, <1>11 DEF Made
<1>13. Says(d, c, "BackgroundColor") /\ Says(d, c, "Bindings")
  BY <1>3, <1>6, <1>8, <1>9 DEF Says
<1>14. \A f \in Settings : Says(d, c, f)
  BY <1>10, <1>13, SettingsAre
<1> QED BY <1>5, <1>6, <1>12, <1>14 DEF Filled

\* What the viewer does to the dialog when it shows it.
LEMMA ShownFilled ==
    ASSUME NEW c, CfgTyped(c), language = c.Language, NEW d, Filled(d, c),
           NEW e \in {d, InitDialogs(d, c), ShowSettings(d, c)}
    PROVE  Filled(e, c)
<1>1. PICK made : made = InitDialogs(d, c)
  OBVIOUS
<1>2. Filled(made, c) /\ (made.made \/ made.made = TRUE)
  BY <1>1, NewDialogFilled DEF InitDialogs
<1>3. CASE e = ShowSettings(d, c)
  <2>1. e = [made EXCEPT !.shown = TRUE]
    BY <1>1, <1>3 DEF ShowSettings
  <2>2. DOMAIN made = DialogParts
    BY <1>2 DEF Filled
  <2>3. /\ DOMAIN e = DialogParts /\ e.made = made.made /\ e.ctl = made.ctl
        /\ e.picker = made.picker /\ e.rows = made.rows /\ e.next = made.next
        /\ e.edited = made.edited
    BY <2>1, <2>2 DEF DialogParts
  <2>4. WrittenBindings(e) = WrittenBindings(made)
    BY <2>3 DEF WrittenBindings
  <2>5. \A f \in Settings : Says(made, c, f) => Says(e, c, f)
    BY <2>3, <2>4 DEF Says
  <2>6. Made(made) => Made(e)
    BY <2>3 DEF Made, RowsOK
  <2> QED BY <1>2, <2>3, <2>5, <2>6 DEF Filled
<1> QED BY <1>1, <1>2, <1>3

\* An edit of some settings leaves the dialog saying what the others are.
LEMMA EditKeeps ==
    ASSUME NEW c, NEW d, Filled(d, c), d.made, NEW e, DOMAIN e = DialogParts,
           e.made = d.made, Made(e), d.edited \subseteq e.edited,
           \A f \in Controls \ e.edited : e.ctl[f] = d.ctl[f],
           "BackgroundColor" \in e.edited \/ e.picker = d.picker,
           "Bindings" \in e.edited \/ e.rows = d.rows
    PROVE  Filled(e, c)
<1>1. ASSUME NEW f \in Settings \ e.edited
      PROVE  Says(e, c, f)
  <2>1. Says(d, c, f)
    BY DEF Filled
  <2>2. CASE f = "BackgroundColor"
    BY <2>1, <2>2 DEF Says
  <2>3. CASE f = "Bindings"
    <3>1. e.rows = d.rows
      BY <2>3
    <3>2. WrittenBindings(e) = WrittenBindings(d)
      BY <3>1 DEF WrittenBindings
    <3> QED BY <2>1, <2>3, <3>2 DEF Says
  <2>4. CASE f \notin {"BackgroundColor", "Bindings"}
    <3>1. f \in Controls \ e.edited
      BY <2>4, SettingsAre
    <3>2. e.ctl[f] = d.ctl[f]
      BY <3>1
    <3> QED BY <2>1, <2>4, <3>2 DEF Says
  <2> QED BY <2>2, <2>3, <2>4
<1> QED BY <1>1 DEF Filled

\* What a control offers is a value of its setting.
LEMMA OfferedOK ==
    ASSUME NEW f \in Controls, NEW v \in Offered(f)
    PROVE  ControlOK(f, v)
<1>1. f \in Flags \cup MouseFields \cup DOMAIN Enumeration \cup {"ManualMemoryLimit"}
  BY SettingsAre
<1>2. CASE f \in Flags
  <2>1. f \notin MouseFields /\ f \notin DOMAIN Enumeration
    BY <1>2, Kinds
  <2>2. Offered(f) = BOOLEAN
    BY <1>2, <2>1, Kinds DEF Offered
  <2> QED BY <2>1, <2>2 DEF ControlOK
<1>3. CASE f \in MouseFields
  <2>1. f \notin Flags /\ f \notin DOMAIN Enumeration /\ f \notin {"DefaultZoom", "ManualMemoryLimit"}
    BY <1>3, Kinds
  <2>2. Offered(f) = MouseChoices(f)
    BY <1>3, <2>1 DEF Offered
  <2>3. PICK name \in ClickActions : v = MouseNumber(name)
    BY <2>2 DEF MouseChoices, ClickActions, DblActions
  <2>4. \E k \in MouseAction : MouseActions[k + 1] = name
    <3>1. /\ MouseActions[0 + 1] = "Disable" /\ MouseActions[1 + 1] = "Pan"
          /\ MouseActions[2 + 1] = "Context" /\ MouseActions[3 + 1] = "ToggleFullSizeDefaultZoom"
          /\ MouseActions[4 + 1] = "NextImage" /\ MouseActions[5 + 1] = "PrevImage"
          /\ MouseActions[6 + 1] = "ZoomIn" /\ MouseActions[7 + 1] = "ZoomOut"
          /\ MouseActions[8 + 1] = "Fullscreen" /\ MouseActions[11 + 1] = "RotateLeft"
          /\ MouseActions[12 + 1] = "RotateRight"
      BY DEF MouseActions
    <3>2. name \in {"Disable", "NextImage", "PrevImage", "ZoomIn", "ZoomOut", "RotateLeft",
            "RotateRight", "Context", "ToggleFullSizeDefaultZoom", "Fullscreen", "Pan"}
      BY DEF ClickActions, DblActions, WheelActions
    <3>3. \A k \in {0, 1, 2, 3, 4, 5, 6, 7, 8, 11, 12} : k \in MouseAction
      BY MouseNumbers
    <3> QED BY <3>1, <3>2, <3>3
  <2>5. v \in MouseAction
    BY <2>3, <2>4, MouseNumbers
  <2> QED BY <2>1, <2>5 DEF ControlOK
<1>4. CASE f = "DefaultZoom"
  <2>1. f \notin Flags /\ f \notin MouseFields
    BY <1>4, Kinds
  <2>2. Offered(f) = ZoomChoices
    BY <1>4, <2>1 DEF Offered
  <2>3. v \in Enumerators(f)
    BY <1>4, <2>2, SomeEnumerators DEF ZoomChoices, ZoomFree, ZoomFitImage
  <2> QED BY <1>4, <2>1, <2>3 DEF ControlOK
<1>5. CASE f \in DOMAIN Enumeration /\ f # "DefaultZoom"
  <2>1. f \notin Flags /\ f \notin MouseFields /\ f # "ManualMemoryLimit"
    BY <1>5, Kinds
  <2>2. Offered(f) = Enumerators(f)
    BY <1>5, <2>1 DEF Offered
  <2> QED BY <1>5, <2>1, <2>2 DEF ControlOK
<1>6. CASE f = "ManualMemoryLimit"
  <2>1. f \notin Flags /\ f \notin MouseFields /\ f \notin DOMAIN Enumeration
    BY <1>6, Kinds
  <2> QED BY <2>1 DEF ControlOK
<1> QED BY <1>1, <1>2, <1>3, <1>4, <1>5, <1>6

\* The user edits a control.
LEMMA EditControlFilled ==
    ASSUME NEW c, Filled(dialog, c), dialog.shown, NEW f \in Controls, NEW v, EditControl(f, v)
    PROVE  Filled(dialog', c)
<1>1. DOMAIN dialog = DialogParts /\ dialog.made /\ Made(dialog)
  BY DEF Filled
<1>2. PICK d : d = dialog
  OBVIOUS
<1>3. PICK e : e = [Edited(d, f) EXCEPT !.ctl[f] = v]
  OBVIOUS
<1>4. dialog' = e /\ v \in Offered(f)
  BY <1>2, <1>3 DEF EditControl
<1>5. /\ DOMAIN e = DialogParts /\ e.made = d.made /\ e.picker = d.picker /\ e.rows = d.rows
      /\ e.next = d.next /\ e.edited = d.edited \cup {f} /\ e.ctl = [d.ctl EXCEPT ![f] = v]
  BY <1>1, <1>2, <1>3 DEF Edited, DialogParts
<1>6. /\ DOMAIN e.ctl = Controls /\ e.ctl[f] = v
      /\ \A g \in Controls \ {f} : e.ctl[g] = d.ctl[g]
  BY <1>1, <1>2, <1>5 DEF Made
<1>7. ControlOK(f, v)
  BY <1>4, OfferedOK
<1>8. Made(e)
  BY <1>1, <1>2, <1>5, <1>6, <1>7 DEF Made, RowsOK
<1> QED BY <1>1, <1>2, <1>4, <1>5, <1>6, <1>8, EditKeeps

\* The user picks a colour.
LEMMA PickColourFilled ==
    ASSUME NEW c, Filled(dialog, c), dialog.shown, PickColour
    PROVE  Filled(dialog', c)
<1>1. DOMAIN dialog = DialogParts /\ dialog.made /\ Made(dialog)
  BY DEF Filled
<1>2. PICK d : d = dialog
  OBVIOUS
<1>3. PICK picker : PickerOK(picker) /\ EditColour(picker)
  <2>1. CASE \E rgb \in Colours : EditColour(PickedRgb([rgb |-> rgb, a |-> 0]))
    <3>1. PICK rgb \in Colours : EditColour(PickedRgb([rgb |-> rgb, a |-> 0]))
      BY <2>1
    <3>2. PICK colour : colour = [rgb |-> rgb, a |-> 0]
      OBVIOUS
    <3>3. ColourOK(colour)
      BY <3>2 DEF ColourOK
    <3>4. PICK h : h = RgbHls[colour.rgb]
      OBVIOUS
    <3>5. PICK picker : picker = [useRgb |-> TRUE, rgb |-> colour, hls |-> h]
      OBVIOUS
    <3>6. PickedRgb(colour) = picker
      BY <3>4, <3>5 DEF PickedRgb
    <3>7. PickerOK(picker)
      BY <3>3, <3>5 DEF PickerOK
    <3> QED BY <3>1, <3>2, <3>6, <3>7
  <2>2. CASE \E h \in Hls : EditColour(PickedHls(h))
    <3>1. PICK h \in Hls : EditColour(PickedHls(h))
      BY <2>2
    <3>2. PICK rgb : rgb = HlsRgb[h]
      OBVIOUS
    <3>3. PICK colour : colour = [rgb |-> rgb, a |-> 0]
      OBVIOUS
    <3>4. ColourOK(colour)
      BY <3>3 DEF ColourOK
    <3>5. PICK picker : picker = [useRgb |-> FALSE, rgb |-> colour, hls |-> h]
      OBVIOUS
    <3>6. PickedHls(h) = picker
      BY <3>2, <3>3, <3>5 DEF PickedHls
    <3>7. PickerOK(picker)
      BY <3>4, <3>5 DEF PickerOK
    <3> QED BY <3>1, <3>6, <3>7
  <2>3. CASE \E h \in Hls : EditColour(PickedCursor(dialog.picker, h))
    <3>1. PICK h \in Hls : EditColour(PickedCursor(dialog.picker, h))
      BY <2>3
    <3>2. PICK old : old = dialog.picker
      OBVIOUS
    <3>3. old = [useRgb |-> old.useRgb, rgb |-> old.rgb, hls |-> old.hls] /\ ColourOK(old.rgb)
      BY <1>1, <3>2 DEF Made, PickerOK
    <3>4. PICK picker : picker = [old EXCEPT !.useRgb = FALSE, !.hls = h]
      OBVIOUS
    <3>5. DOMAIN old = {"useRgb", "rgb", "hls"}
      BY <3>3
    <3>6. picker = [useRgb |-> picker.useRgb, rgb |-> picker.rgb, hls |-> picker.hls]
          /\ picker.rgb = old.rgb
      <4>1. /\ DOMAIN picker = {"useRgb", "rgb", "hls"} /\ picker.rgb = old.rgb
            /\ picker = [part \in {"useRgb", "rgb", "hls"} |-> picker[part]]
        BY <3>4, <3>5
      <4> QED BY <4>1
    <3>7. PickerOK(picker)
      BY <3>3, <3>6 DEF PickerOK
    <3> QED BY <3>1, <3>2, <3>4, <3>7 DEF PickedCursor
  <2> QED BY <2>1, <2>2, <2>3 DEF PickColour
<1>4. PICK e : e = [Edited(d, "BackgroundColor") EXCEPT !.picker = picker]
  OBVIOUS
<1>5. dialog' = e
  BY <1>2, <1>3, <1>4 DEF EditColour
<1>6. /\ DOMAIN e = DialogParts /\ e.made = d.made /\ e.picker = picker /\ e.rows = d.rows
      /\ e.next = d.next /\ e.edited = d.edited \cup {"BackgroundColor"} /\ e.ctl = d.ctl
  BY <1>1, <1>2, <1>4 DEF Edited, DialogParts
<1>7. Made(e)
  BY <1>1, <1>2, <1>3, <1>6 DEF Made, RowsOK
<1> QED BY <1>1, <1>2, <1>5, <1>6, <1>7, EditKeeps

\* The dialog after a step of the page of the keyboard.
LEMMA RowsKeep ==
    ASSUME NEW c, NEW d, Filled(d, c), d.made, NEW e, DOMAIN e = DialogParts,
           e.made = d.made, e.ctl = d.ctl, e.picker = d.picker, RowsOK(e),
           \/ e.rows = d.rows /\ e.edited = d.edited
           \/ e.edited = d.edited \cup {"Bindings"}
    PROVE  Filled(e, c)
<1>1. Made(e)
  BY DEF Filled, Made
<1> QED BY <1>1, EditKeeps

\* The user selects shortcuts.
LEMMA SelectFilled ==
    ASSUME NEW c, Filled(dialog, c), dialog.shown,
           (\E id \in DOMAIN dialog.rows, adding \in BOOLEAN : SelectRow(id, adding)) \/ DeselectRows
    PROVE  Filled(dialog', c)
<1>1. DOMAIN dialog = DialogParts /\ dialog.made /\ Made(dialog)
  BY DEF Filled
<1>2. PICK d : d = dialog
  OBVIOUS
<1>3. PICK e : e = dialog'
  OBVIOUS
<1>4. /\ DOMAIN e = DialogParts /\ e.made = d.made /\ e.ctl = d.ctl /\ e.picker = d.picker
      /\ e.rows = d.rows /\ e.next = d.next /\ e.edited = d.edited
  BY <1>1, <1>2, <1>3 DEF SelectRow, DeselectRows, DialogParts
<1>5. RowsOK(e)
  BY <1>1, <1>2, <1>4 DEF Made, RowsOK
<1> QED BY <1>1, <1>2, <1>3, <1>4, <1>5, RowsKeep

\* The user adds a shortcut.
LEMMA AddShortcutFilled ==
    ASSUME NEW c, Filled(dialog, c), dialog.shown, AddShortcut
    PROVE  Filled(dialog', c)
<1>1. DOMAIN dialog = DialogParts /\ dialog.made /\ Made(dialog)
  BY DEF Filled
<1>2. PICK d : d = dialog
  OBVIOUS
<1>3. PICK rows : rows = [id \in DOMAIN d.rows \cup {d.next} |->
                            IF id = d.next THEN NoShortcut ELSE d.rows[id]]
  OBVIOUS
<1>4. PICK e : e = [Edited(d, "Bindings") EXCEPT !.rows = rows, !.next = d.next + 1,
                        !.selected = @ \cup {d.next}, !.enabled = TRUE]
  OBVIOUS
<1>5. dialog' = e
  BY <1>1, <1>2, <1>3, <1>4 DEF AddShortcut, Edited, DialogParts
<1>6. /\ DOMAIN e = DialogParts /\ e.made = d.made /\ e.ctl = d.ctl /\ e.picker = d.picker
      /\ e.rows = rows /\ e.next = d.next + 1 /\ e.edited = d.edited \cup {"Bindings"}
  BY <1>1, <1>2, <1>4 DEF Edited, DialogParts
<1>7. RowOK(NoShortcut)
  <2>1. PICK key : key = <<0, {}>>
    OBVIOUS
  <2>2. NoShortcut.Key = key /\ NoShortcut.Action = "Undefined"
        /\ NoShortcut = [Key |-> key, Action |-> "Undefined"]
    BY <2>1 DEF NoShortcut
  <2>3. key = <<key[1], key[2]>> /\ key[2] \subseteq Modifiers
    BY <2>1
  <2> QED BY <2>2, <2>3 DEF RowOK
<1>8. IsFiniteSet(DOMAIN rows) /\ DOMAIN rows \subseteq Nat
  <2>1. DOMAIN rows = DOMAIN d.rows \cup {d.next}
    BY <1>3
  <2>2. IsFiniteSet(DOMAIN d.rows) /\ DOMAIN d.rows \subseteq Nat /\ d.next \in Nat
    BY <1>1, <1>2 DEF Made, RowsOK
  <2>3. PICK ids : ids = DOMAIN d.rows
    OBVIOUS
  <2>4. IsFiniteSet(ids \cup {d.next})
    BY <2>2, <2>3, FS_AddElement
  <2> QED BY <2>1, <2>2, <2>3, <2>4
<1>9. \A id \in DOMAIN rows : RowOK(rows[id])
  BY <1>1, <1>2, <1>3, <1>7 DEF Made, RowsOK
<1>10. RowsOK(e)
  BY <1>1, <1>2, <1>6, <1>8, <1>9 DEF Made, RowsOK
<1> QED BY <1>1, <1>2, <1>5, <1>6, <1>10, RowsKeep

\* The user removes a shortcut.
LEMMA RemoveShortcutFilled ==
    ASSUME NEW c, Filled(dialog, c), dialog.shown, RemoveShortcut
    PROVE  Filled(dialog', c)
<1>1. DOMAIN dialog = DialogParts /\ dialog.made /\ Made(dialog)
  BY DEF Filled
<1>2. PICK d : d = dialog
  OBVIOUS
<1>3. PICK id : id = SelectedId(d)
  OBVIOUS
<1>4. PICK left : left = d.selected \ {id}
  OBVIOUS
<1>5. PICK enabled : enabled = (left # {})
  OBVIOUS
<1>6. PICK rows : rows = [k \in DOMAIN d.rows \ {id} |-> d.rows[k]]
  OBVIOUS
<1>7. CASE d.selected = {}
  <2>1. PICK e : e = [d EXCEPT !.enabled = FALSE]
    OBVIOUS
  <2>2. dialog' = e
    BY <1>2, <1>7, <2>1 DEF RemoveShortcut
  <2>3. /\ DOMAIN e = DialogParts /\ e.made = d.made /\ e.ctl = d.ctl /\ e.picker = d.picker
        /\ e.rows = d.rows /\ e.next = d.next /\ e.edited = d.edited
    BY <1>1, <1>2, <2>1 DEF DialogParts
  <2>4. RowsOK(e)
    BY <1>1, <1>2, <2>3 DEF Made, RowsOK
  <2> QED BY <1>1, <1>2, <2>2, <2>3, <2>4, RowsKeep
<1>8. CASE d.selected # {}
  <2>1. PICK e : e = [Edited(d, "Bindings") EXCEPT !.rows = rows, !.selected = left,
                                                  !.enabled = enabled]
    OBVIOUS
  <2>2. dialog' = e
    BY <1>1, <1>2, <1>3, <1>4, <1>5, <1>6, <1>8, <2>1 DEF RemoveShortcut, Edited, DialogParts
  <2>3. /\ DOMAIN e = DialogParts /\ e.made = d.made /\ e.ctl = d.ctl /\ e.picker = d.picker
        /\ e.rows = rows /\ e.next = d.next /\ e.edited = d.edited \cup {"Bindings"}
    BY <1>1, <1>2, <2>1 DEF Edited, DialogParts
  <2>4. IsFiniteSet(DOMAIN rows) /\ DOMAIN rows \subseteq Nat
    <3>1. PICK ids : ids = DOMAIN d.rows
      OBVIOUS
    <3>2. IsFiniteSet(ids) /\ ids \subseteq Nat
      BY <1>1, <1>2, <3>1 DEF Made, RowsOK
    <3>3. IsFiniteSet(ids \ {id})
      BY <3>2, FS_RemoveElement
    <3>4. DOMAIN rows = ids \ {id}
      BY <1>6, <3>1
    <3> QED BY <3>2, <3>3, <3>4
  <2>5. \A k \in DOMAIN rows : RowOK(rows[k])
    BY <1>1, <1>2, <1>6 DEF Made, RowsOK
  <2>6. RowsOK(e)
    BY <1>1, <1>2, <2>3, <2>4, <2>5 DEF Made, RowsOK
  <2> QED BY <1>1, <1>2, <2>2, <2>3, <2>6, RowsKeep
<1> QED BY <1>7, <1>8

\* A row is given another key or another action.
LEMMA SetRowFilled ==
    ASSUME NEW c, Filled(dialog, c), dialog.shown, NEW id \in DOMAIN dialog.rows, NEW row, RowOK(row),
           dialog' = [Edited(dialog, "Bindings") EXCEPT !.rows[id] = row]
    PROVE  Filled(dialog', c)
<1>1. DOMAIN dialog = DialogParts /\ dialog.made /\ Made(dialog)
  BY DEF Filled
<1>2. PICK d : d = dialog
  OBVIOUS
<1>3. PICK rows : rows = [d.rows EXCEPT ![id] = row]
  OBVIOUS
<1>4. PICK e : e = [Edited(d, "Bindings") EXCEPT !.rows = rows]
  OBVIOUS
<1>5. dialog' = e
  BY <1>1, <1>2, <1>3, <1>4 DEF Edited, DialogParts
<1>6. /\ DOMAIN e = DialogParts /\ e.made = d.made /\ e.ctl = d.ctl /\ e.picker = d.picker
      /\ e.rows = rows /\ e.next = d.next /\ e.edited = d.edited \cup {"Bindings"}
  BY <1>1, <1>2, <1>4 DEF Edited, DialogParts
<1>7. DOMAIN rows = DOMAIN d.rows
      /\ \A k \in DOMAIN d.rows : rows[k] = IF k = id THEN row ELSE d.rows[k]
  BY <1>3
<1>8. RowsOK(e)
  BY <1>1, <1>2, <1>6, <1>7 DEF Made, RowsOK
<1> QED BY <1>1, <1>2, <1>5, <1>6, <1>8, RowsKeep

\* The user gives a shortcut another action or other keys.
LEMMA SetShortcutFilled ==
    ASSUME NEW c, Filled(dialog, c), dialog.shown,
           (\E a \in KeyActions : SetShortcutFunction(a))
            \/ (\E press \in KeyboardPress : SetShortcutCombo(press))
    PROVE  Filled(dialog', c)
<1>1. PICK id : id = SelectedId(dialog)
  OBVIOUS
<1>2. id \in DOMAIN dialog.rows
  BY <1>1 DEF SetShortcutFunction, SetShortcutCombo, SetShortcut
<1>3. PICK old : old = dialog.rows[id]
  OBVIOUS
<1>4. RowOK(old)
  BY <1>2, <1>3 DEF Filled, Made, RowsOK
<1>5. PICK key : key = old.Key
  OBVIOUS
<1>6. old = [Key |-> key, Action |-> old.Action] /\ key = <<key[1], key[2]>>
      /\ key[2] \subseteq Modifiers /\ old.Action \in KeyActions \cup {"Undefined"}
  BY <1>4, <1>5 DEF RowOK
<1>7. CASE \E a \in KeyActions : SetShortcutFunction(a)
  <2>1. PICK a \in KeyActions : SetShortcutFunction(a)
    BY <1>7
  <2>2. PICK row : row = [old EXCEPT !.Action = a]
    OBVIOUS
  <2>3. row = [Key |-> key, Action |-> a]
    BY <1>6, <2>2
  <2>4. RowOK(row)
    BY <1>6, <2>3 DEF RowOK
  <2>5. dialog' = [Edited(dialog, "Bindings") EXCEPT !.rows[id] = row]
    <3>1. dialog' = [Edited(dialog, "Bindings") EXCEPT !.rows[id] = [@ EXCEPT !.Action = a]]
      BY <1>1, <2>1 DEF SetShortcutFunction, SetShortcut
    <3>2. Edited(dialog, "Bindings").rows[id] = old
      BY <1>3 DEF Edited, Filled, DialogParts
    <3> QED BY <2>2, <3>1, <3>2
  <2> QED BY <1>2, <2>4, <2>5, SetRowFilled
<1>8. CASE \E press \in KeyboardPress : SetShortcutCombo(press)
  <2>1. PICK press \in KeyboardPress : SetShortcutCombo(press)
    BY <1>8
  <2>2. PICK row : row = [old EXCEPT !.Key = press]
    OBVIOUS
  <2>3. row = [Key |-> press, Action |-> old.Action]
    BY <1>6, <2>2
  <2>4. press = <<press[1], press[2]>> /\ press[2] \subseteq Modifiers
    BY <2>1 DEF KeyboardPress
  <2>5. RowOK(row)
    BY <1>6, <2>3, <2>4 DEF RowOK
  <2>6. dialog' = [Edited(dialog, "Bindings") EXCEPT !.rows[id] = row]
    <3>1. dialog' = [Edited(dialog, "Bindings") EXCEPT !.rows[id] = [@ EXCEPT !.Key = press]]
      BY <1>1, <2>1 DEF SetShortcutCombo, SetShortcut
    <3>2. Edited(dialog, "Bindings").rows[id] = old
      BY <1>3 DEF Edited, Filled, DialogParts
    <3> QED BY <2>2, <3>1, <3>2
  <2> QED BY <1>2, <2>5, <2>6, SetRowFilled
<1> QED BY <1>7, <1>8

\* What a control writes is a setting, and the control says so.
LEMMA WrittenValueOK ==
    ASSUME NEW d, Made(d), NEW f \in Settings, ~Unreadable(d, f), NEW v \in ValuesWritten(d, f)
    PROVE  /\ ValueOK(f, v)
           /\ \A c : c[f] = v => Says(d, c, f)
<1>1. CASE f = "BackgroundColor"
  <2>1. v = PickerRgb(d.picker)
    BY <1>1 DEF ValuesWritten
  <2>2. PickerOK(d.picker)
    BY DEF Made
  <2>3. PICK p : p = d.picker
    OBVIOUS
  <2>4. ColourOK(PickerRgb(p))
    <3>1. PICK rgb : rgb = HlsRgb[p.hls]
      OBVIOUS
    <3>2. ColourOK([rgb |-> rgb, a |-> 0])
      BY DEF ColourOK
    <3> QED BY <2>2, <2>3, <3>1, <3>2 DEF PickerRgb, PickerOK
  <2> QED BY <1>1, <2>1, <2>3, <2>4, OneKind DEF Says
<1>2. CASE f = "Bindings"
  <2>1. v = WrittenBindings(d)
    BY <1>2 DEF ValuesWritten
  <2>2. BindingsOK(v)
    BY <2>1, WrittenBindingsOK DEF Made
  <2> QED BY <1>2, <2>1, <2>2, OneKind DEF Says
<1>3. CASE f = "ManualMemoryLimit"
  <2>1. ValueOK(f, v)
    BY <1>3, OneKind
  <2>2. v = d.ctl[f] \/ d.ctl[f] = Blank
    BY <1>3 DEF ValuesWritten
  <2> QED BY <1>3, <2>1, <2>2 DEF Says
<1>4. CASE f \notin {"BackgroundColor", "Bindings", "ManualMemoryLimit"}
  <2>1. v = d.ctl[f]
    BY <1>4 DEF ValuesWritten
  <2>2. f \in Controls /\ f \in Flags \cup MouseFields \cup DOMAIN Enumeration
    BY <1>4, SettingsAre
  <2>3. ControlOK(f, v)
    BY <2>1, <2>2 DEF Made
  <2>4. ValueOK(f, v)
    <3>1. CASE f \in Flags
      <4>1. v \in BOOLEAN
        BY <2>3, <3>1 DEF ControlOK
      <4> QED BY <3>1, <4>1, OneKind
    <3>2. CASE f \in MouseFields
      <4>1. v \in MouseAction
        BY <2>1, <2>3, <3>2 DEF ControlOK, Unreadable
      <4> QED BY <3>2, <4>1, OneKind
    <3>3. CASE f \in DOMAIN Enumeration
      <4>1. v \in Enumerators(f) \/ (f = "DefaultZoom" /\ v = NoZoomMode)
        BY <2>3, <3>3 DEF ControlOK, NoSelection, NoZoomMode, ZoomFree
      <4> QED BY <3>3, <4>1, OneKind
    <3> QED BY <2>2, <3>1, <3>2, <3>3
  <2>5. \A c : c[f] = v => Says(d, c, f)
    BY <1>4, <2>1 DEF Says
  <2> QED BY <2>4, <2>5
<1> QED BY <1>1, <1>2, <1>3, <1>4

\* An Apply, whether it comes to its end or not, leaves settings.
LEMMA WrittenTyped ==
    ASSUME NEW d, NEW c, CfgTyped(c), Made(d), NEW e \in Written(d, c)
    PROVE  CfgTyped(e) /\ \A f \in WindowFields : e[f] = c[f]
<1>1. /\ DOMAIN e = CfgParts
      /\ \A f \in CfgParts : IsWritten(d, f) => e[f] \in ValuesWritten(d, f)
      /\ \A f \in CfgParts : ~IsWritten(d, f) => e[f] = c[f]
  BY WrittenIs DEF CfgTyped
<1>2. ASSUME NEW f \in CfgParts
      PROVE  ValueOK(f, e[f])
  <2>1. CASE IsWritten(d, f)
    <3>1. f \in Settings /\ ~Unreadable(d, f)
      BY <2>1, WrittenIsReadable
    <3>2. PICK v : v = e[f]
      OBVIOUS
    <3>3. v \in ValuesWritten(d, f)
      BY <1>1, <2>1, <3>2
    <3>4. ValueOK(f, v)
      BY <3>1, <3>3, WrittenValueOK
    <3> QED BY <3>2, <3>4
  <2>2. CASE ~IsWritten(d, f)
    BY <1>1, <2>2 DEF CfgTyped
  <2> QED BY <2>1, <2>2
<1>3. ASSUME NEW f \in WindowFields
      PROVE  e[f] = c[f]
  <2>1. f \in CfgParts /\ f \notin Settings
    BY SettingsAre, Kinds
  <2>2. ~IsWritten(d, f)
    BY <2>1, WrittenIsReadable
  <2> QED BY <1>1, <2>1, <2>2
<1> QED BY <1>1, <1>2, <1>3 DEF CfgTyped

\* The controls of settings the user did not edit write what the settings are.
LEMMA UneditedWritten ==
    ASSUME NEW d, NEW c, CfgTyped(c), Filled(d, c), d.made, NEW e \in Written(d, c)
    PROVE  /\ \A f \in Settings : IsWritten(d, f) => Says(d, e, f)
           /\ \A f \in Settings \ d.edited : Says(d, e, f)
           /\ \A f \in Settings : e[f] # c[f] =>
                \/ f \in d.edited
                \/ f = "DefaultZoom" /\ c[f] \notin ZoomChoices
                \/ f = "ManualMemoryLimit" /\ d.ctl[f] = Blank
<1>1. /\ DOMAIN e = CfgParts
      /\ \A f \in CfgParts : IsWritten(d, f) => e[f] \in ValuesWritten(d, f)
      /\ \A f \in CfgParts : ~IsWritten(d, f) => e[f] = c[f]
  BY WrittenIs DEF CfgTyped
<1>2. Made(d)
  BY DEF Filled
<1>3. ASSUME NEW f \in Settings, IsWritten(d, f)
      PROVE  Says(d, e, f) /\ ~Unreadable(d, f) /\ e[f] \in ValuesWritten(d, f)
  <2>1. f \in CfgParts /\ ~Unreadable(d, f)
    BY <1>3, SettingsAre, WrittenIsReadable
  <2>2. PICK v : v = e[f]
    OBVIOUS
  <2>3. v \in ValuesWritten(d, f)
    BY <1>1, <1>3, <2>1, <2>2
  <2>4. \A k : k[f] = v => Says(d, k, f)
    BY <1>2, <2>1, <2>3, WrittenValueOK
  <2> QED BY <2>1, <2>2, <2>3, <2>4
<1>4. ASSUME NEW f \in Settings \ d.edited, ~IsWritten(d, f)
      PROVE  Says(d, e, f)
  <2>1. e[f] = c[f]
    BY <1>1, <1>4, SettingsAre
  <2>2. Says(d, c, f)
    BY DEF Filled
  <2> QED BY <2>1, <2>2 DEF Says
<1>5. ASSUME NEW f \in Settings, e[f] # c[f], f \notin d.edited
      PROVE  \/ f = "DefaultZoom" /\ c[f] \notin ZoomChoices
             \/ f = "ManualMemoryLimit" /\ d.ctl[f] = Blank
  <2>1. IsWritten(d, f)
    BY <1>1, <1>5, SettingsAre
  <2>2. e[f] \in ValuesWritten(d, f) /\ ~Unreadable(d, f)
    BY <1>3, <2>1
  <2>3. Says(d, c, f)
    BY <1>5 DEF Filled
  <2>4. CASE f = "BackgroundColor"
    <3>1. e[f] = PickerRgb(d.picker)
      BY <2>2, <2>4 DEF ValuesWritten
    <3> QED BY <1>5, <2>3, <2>4, <3>1 DEF Says
  <2>5. CASE f = "Bindings"
    <3>1. e[f] = WrittenBindings(d)
      BY <2>2, <2>5 DEF ValuesWritten
    <3> QED BY <1>5, <2>3, <2>5, <3>1 DEF Says
  <2>6. CASE f \notin {"BackgroundColor", "Bindings"}
    <3>1. \/ d.ctl[f] = c[f]
          \/ f \in MouseFields /\ d.ctl[f] = NoSelection
          \/ f = "DefaultZoom" /\ c[f] \notin ZoomChoices
          \/ f = "ManualMemoryLimit" /\ d.ctl[f] = Blank
      BY <2>3, <2>6 DEF Says
    <3>2. e[f] = d.ctl[f] \/ (f = "ManualMemoryLimit" /\ d.ctl[f] = Blank)
      BY <2>2, <2>6 DEF ValuesWritten
    <3> QED BY <1>5, <2>2, <3>1, <3>2 DEF Unreadable
  <2> QED BY <2>4, <2>5, <2>6
<1> QED BY <1>3, <1>4, <1>5

\* An Apply that fails leaves a dialog that still says what was not edited.
LEMMA FailedFilled ==
    ASSUME NEW d, NEW c, CfgTyped(c), Filled(d, c), d.made, NEW e \in Written(d, c)
    PROVE  Filled(d, e)
BY UneditedWritten DEF Filled

\* One that does not fail leaves a dialog that says what all settings are.
LEMMA AppliedFilled ==
    ASSUME NEW d, NEW c, CfgTyped(c), Filled(d, c), d.made, Readable(d), NEW e \in Written(d, c),
           NEW shown
    PROVE  /\ Filled([d EXCEPT !.edited = {}, !.shown = shown], e)
           /\ e.Language = d.ctl.Language
<1>1. PICK n : n = [d EXCEPT !.edited = {}, !.shown = shown]
  OBVIOUS
<1>2. DOMAIN d = DialogParts /\ Made(d)
  BY DEF Filled
<1>3. /\ DOMAIN n = DialogParts /\ n.made = d.made /\ n.ctl = d.ctl /\ n.picker = d.picker
      /\ n.rows = d.rows /\ n.next = d.next /\ n.edited = {}
  BY <1>1, <1>2 DEF DialogParts
<1>4. Made(n)
  BY <1>2, <1>3 DEF Made, RowsOK
<1>5. WrittenBindings(n) = WrittenBindings(d)
  BY <1>3 DEF WrittenBindings
<1>6. ASSUME NEW f \in Settings
      PROVE  Says(n, e, f)
  <2>1. Says(d, e, f)
    BY AllWritten, UneditedWritten
  <2> QED BY <1>3, <1>5, <2>1 DEF Says
<1>7. e.Language = d.ctl.Language
  <2>1. "Language" \in Settings /\ "Language" \in CfgParts
    BY SettingsAre, Kinds
  <2>2. IsWritten(d, "Language")
    BY <2>1, AllWritten
  <2>3. e["Language"] \in ValuesWritten(d, "Language")
    BY <2>1, <2>2, WrittenIs DEF CfgTyped
  <2>4. ValuesWritten(d, "Language") = {d.ctl["Language"]}
    BY DEF ValuesWritten
  <2> QED BY <2>3, <2>4
<1> QED BY <1>1, <1>3, <1>4, <1>6, <1>7 DEF Filled

\* The settings a second session or another handler holds at another place.
LEMMA SameSettingsTyped ==
    ASSUME NEW c, CfgTyped(c), NEW e, SameSettings(c, e), CfgOK(e)
    PROVE  CfgTyped(e) /\ \A f \in CfgParts \ Anchors : e[f] = c[f]
<1>1. ASSUME NEW f \in CfgParts
      PROVE  ValueOK(f, e[f])
  <2>1. CASE f \in Anchors
    <3>1. f \in WindowFields /\ e[f] \in Point
      BY <2>1 DEF Anchors, WindowFields, CfgOK
    <3> QED BY <3>1, OneKind
  <2>2. CASE f \notin Anchors
    BY <2>2 DEF CfgTyped, SameSettings
  <2> QED BY <2>1, <2>2
<1> QED BY <1>1 DEF CfgTyped, SameSettings

\* The dialog has no control for where the window is held.
LEMMA SameSettingsFilled ==
    ASSUME NEW d, NEW c, Filled(d, c), NEW e, SameSettings(c, e)
    PROVE  Filled(d, e)
<1>1. ASSUME NEW f \in Settings
      PROVE  e[f] = c[f]
  <2>1. f \in CfgParts \ Anchors
    BY SettingsAre DEF Anchors, WindowFields
  <2> QED BY <2>1 DEF SameSettings
<1>2. \A f \in Settings : Says(d, c, f) => Says(d, e, f)
  BY <1>1 DEF Says
<1> QED BY <1>2 DEF Filled

-----------------------------------------------------------------------------
(* The sessions: the invariant, handler by handler.                        *)

\* What the start of a behaviour fixes.
World == start \in Starts /\ displays \in start.arrangements

\* The file, what it should give back, and the settings of another instance.
OnDisk ==
    /\ FileOK(file)
    /\ other # Nothing => CfgTyped(other.cfg)
    /\ saved # Nothing =>
        /\ saved = [is |-> saved.is, cfg |-> saved.cfg, place |-> saved.place]
        /\ CfgTyped(saved.cfg) /\ file = Saved(saved.cfg)
        /\ saved.place # Nothing =>
            saved.place = [pos |-> saved.cfg.Pos, size |-> saved.cfg.WindowSize]

\* The viewer, its settings and its dialog.
InMemory ==
    /\ DOMAIN viewer = ViewerParts
    /\ Steady(Now, failed)
    /\ CfgTyped(cfg) /\ Filled(dialog, cfg)
    /\ language = cfg.Language

SessionInv == World /\ OnDisk /\ (running => InMemory)

\* No setting with a control changes, and no part of the viewer hears of any.
Stays ==
    /\ \A f \in Settings : cfg'[f] = cfg[f]
    /\ viewer'.used = viewer.used

\* What the assumptions say of the world of a behaviour.
LEMMA WorldIs ==
    ASSUME World
    PROVE  /\ Arrangement(displays)
           /\ start.moves \subseteq Point /\ start.sizes \subseteq Point
           /\ \A areas \in start.arrangements : Arrangement(areas)
BY StartsAssumption DEF World

\* The state that Now makes of the next values of the variables.
LEMMA NowBecomes ==
    ASSUME NEW s, IsState(s), cfg' = s.cfg, dialog' = s.dialog, DOMAIN viewer' = ViewerParts,
           \A part \in ViewerParts : viewer'[part] = s[part]
    PROVE  Now' = s
<1>1. Now' = [part \in ViewerParts \cup {"cfg", "dialog"} |->
                CASE part = "cfg" -> s.cfg [] part = "dialog" -> s.dialog [] OTHER -> viewer'[part]]
  BY DEF Now
<1>2. Now' = [part \in ViewerParts \cup {"cfg", "dialog"} |-> s[part]]
  BY <1>1 DEF ViewerParts
<1> QED BY <1>2 DEF IsState, StateParts, ViewerParts

\* What holds of the state a handler gives holds of the next state of the program.
LEMMA SteadyNext ==
    ASSUME NEW t, NEW lax, Steady(t, lax), Now' = t, failed' = lax, displays' = displays
    PROVE  Steady(Now, failed)'
<1>1. Steady(t, failed')
  BY DEF Steady
<1>2. OnDisplay(Now)'
  BY DEF Steady, OnDisplay
<1> QED BY <1>1, <1>2 DEF Steady

\* A steady state with typed settings and a dialog that says what they are.
LEMMA InMemoryNext ==
    ASSUME NEW t, NEW lax, Steady(t, lax), Now' = t, failed' = lax, displays' = displays,
           DOMAIN viewer' = ViewerParts, cfg' = t.cfg, dialog' = t.dialog,
           CfgTyped(t.cfg), Filled(t.dialog, t.cfg), language' = t.cfg.Language
    PROVE  InMemory'
<1>1. Steady(Now, failed)'
  BY SteadyNext
<1>2. CfgTyped(cfg)' /\ Filled(dialog, cfg)'
  BY DEF CfgTyped, Filled
<1> QED BY <1>1, <1>2 DEF InMemory

\* The next values of the variables are those of a state a handler gives.
Becomes(t) ==
    /\ cfg' = t.cfg /\ dialog' = t.dialog
    /\ DOMAIN viewer' = ViewerParts
    /\ \A part \in ViewerParts : viewer'[part] = t[part]

\* Become gives the next values of the variables.
LEMMA BecomeBecomes ==
    ASSUME NEW t, Shape(t), Become(t)
    PROVE  Becomes(t)
BY BecomeIs DEF Shape, Becomes

\* The state the handlers take.
LEMMA NowOf ==
    ASSUME InMemory
    PROVE  /\ Steady(Now, failed) /\ IsState(Now) /\ Now.cfg = cfg /\ Now.dialog = dialog
           /\ \A part \in ViewerParts : Now[part] = viewer[part]
BY NowIs DEF InMemory

\* A handler that gives a steady state with the same settings.
LEMMA HandlerStays ==
    ASSUME World, InMemory, NEW t, Becomes(t), Steady(t, failed), SameUse(Now, t),
           NEW d, d = dialog,
           t.dialog \in {d, InitDialogs(d, cfg), ShowSettings(d, cfg)},
           failed' = failed, displays' = displays, language' = language
    PROVE  InMemory' /\ Stays
<1>1. CfgTyped(cfg) /\ Filled(dialog, cfg) /\ language = cfg.Language
  BY DEF InMemory
<1>2. Now.cfg = cfg /\ Now.used = viewer.used
  BY NowOf DEF ViewerParts
<1>3. SameSettings(cfg, t.cfg) /\ t.used = viewer.used
  BY <1>2 DEF SameUse
<1>4. Shape(t) /\ IsState(t) /\ CfgOK(t.cfg)
  BY DEF Steady, Shape
<1>5. PICK e : e = t.cfg
  OBVIOUS
<1>6. CfgTyped(e) /\ \A f \in CfgParts \ Anchors : e[f] = cfg[f]
  BY <1>1, <1>3, <1>4, <1>5, SameSettingsTyped
<1>7. Filled(t.dialog, e)
  <2>1. Filled(t.dialog, cfg)
    BY <1>1, ShownFilled
  <2> QED BY <2>1, <1>3, <1>5, SameSettingsFilled
<1>8. Settings \subseteq CfgParts \ Anchors /\ "Language" \in CfgParts \ Anchors
  BY SettingsAre, Kinds DEF Anchors, WindowFields
<1>9. Now' = t
  BY <1>4, NowBecomes DEF Becomes
<1>10. cfg' = e /\ dialog' = t.dialog /\ DOMAIN viewer' = ViewerParts /\ viewer'.used = t.used
  BY <1>5 DEF Becomes, ViewerParts
<1>11. InMemory'
  <2>1. language' = t.cfg.Language
    BY <1>1, <1>5, <1>6, <1>8
  <2> QED BY <1>5, <1>6, <1>7, <1>9, <1>10, <2>1, InMemoryNext
<1>12. Stays
  BY <1>3, <1>6, <1>8, <1>10 DEF Stays
<1> QED BY <1>11, <1>12

\* No one touches the file, the other instance or the displays.
LEMMA DiskStays ==
    ASSUME World, OnDisk, UNCHANGED <<start, displays, file, other, saved>>
    PROVE  World' /\ OnDisk'
<1>1. World'
  BY DEF World
<1>2. OnDisk'
  BY DEF OnDisk, CfgTyped, FileOK, Saved
<1> QED BY <1>1, <1>2

\* StartSession: a session in order, with the settings it read.
LEMMA SessionStarts ==
    ASSUME World, OnDisk, StartSession
    PROVE  /\ InMemory'
           /\ \E c \in Load(file) : SameSettings(c, cfg') /\ viewer'.win.rect = CreateWindow(c)
<1>1. PICK c \in Load(file), reported \in BOOLEAN, path \in start.paths :
            Become(Started(c, reported, path)) /\ language' = c.Language
  BY DEF StartSession
<1>2. displays' = displays /\ failed' = FALSE
  BY DEF StartSession
<1>3. CfgTyped(c) /\ CfgOK(c) /\ c.ShowStatusBar \in BOOLEAN
  BY LoadTyped, CfgTypedIs DEF OnDisk
<1>4. PICK t : t = Started(c, reported, path)
  OBVIOUS
<1>5. /\ Steady(t, FALSE) /\ SameSettings(c, t.cfg) /\ t.dialog = NoDialog
      /\ t.win.rect = CreateWindow(c)
  BY <1>3, <1>4, WorldIs, StartedSteady
<1>6. Becomes(t)
  BY <1>1, <1>4, <1>5, BecomeBecomes DEF Steady
<1>7. Now' = t
  BY <1>5, <1>6, NowBecomes DEF Becomes, Steady, Shape
<1>8. CfgTyped(t.cfg) /\ t.cfg.Language = c.Language
  <2>1. PICK e : e = t.cfg
    OBVIOUS
  <2>2. CfgTyped(e) /\ \A f \in CfgParts \ Anchors : e[f] = c[f]
    BY <1>3, <1>5, <2>1, SameSettingsTyped DEF Steady, Shape
  <2>3. "Language" \in CfgParts \ Anchors
    BY Kinds DEF Anchors
  <2> QED BY <2>1, <2>2, <2>3
<1>9. Filled(t.dialog, t.cfg)
  BY <1>5, NoDialogFilled
<1>10. InMemory'
  BY <1>1, <1>2, <1>5, <1>6, <1>7, <1>8, <1>9, InMemoryNext DEF Becomes
<1>11. viewer'.win = t.win /\ cfg' = t.cfg
  BY <1>6 DEF Becomes, ViewerParts
<1> QED BY <1>5, <1>10, <1>11

\* UserAsks: no setting changes.
LEMMA AskedStays ==
    ASSUME World, InMemory, UserAsks
    PROVE  InMemory' /\ Stays
<1>1. /\ displays' = displays /\ failed' = failed /\ language' = language
      /\ \E r : \E t \in Results(Now, r) : Become(t)
  BY DEF UserAsks, Act, sessionVars
<1>2. PICK r : \E t \in Results(Now, r) : Become(t)
  BY <1>1
<1>3. PICK t \in Results(Now, r) : Become(t)
  BY <1>2
<1>4. PICK s : s = Now
  OBVIOUS
<1>5. Steady(s, failed) /\ s.cfg = cfg /\ s.dialog = dialog
  BY <1>4, NowOf
<1>6. s.cfg.ShowStatusBar \in BOOLEAN
  BY <1>5, CfgTypedIs DEF InMemory
<1>7. /\ Steady(t, failed) /\ SameUse(s, t)
      /\ t.dialog \in {s.dialog, InitDialogs(s.dialog, s.cfg), ShowSettings(s.dialog, s.cfg)}
  BY <1>3, <1>4, <1>5, <1>6, WorldIs, ResultsSteady
<1>8. Becomes(t)
  BY <1>3, <1>7, BecomeBecomes DEF Steady
<1> QED BY <1>1, <1>4, <1>5, <1>7, <1>8, HandlerStays

\* A handler that is quiet.
LEMMA QuietStays ==
    ASSUME World, InMemory, NEW t, Becomes(t), Quiet(Now, t),
           failed' = failed, displays' = displays, language' = language
    PROVE  InMemory' /\ Stays
<1>1. PICK s : s = Now
  OBVIOUS
<1>2. Steady(s, failed) /\ s.cfg = cfg /\ s.dialog = dialog
  BY <1>1, NowOf
<1>3. Steady(t, failed)
  BY <1>1, <1>2, QuietSteady
<1>4. SameUse(s, t) /\ t.dialog = dialog
  BY <1>1, <1>2 DEF Quiet, SameUse
<1> QED BY <1>1, <1>3, <1>4, HandlerStays

\* Window: no setting with a control changes.
LEMMA WindowStays ==
    ASSUME World, InMemory, Window
    PROVE  InMemory' /\ Stays
<1>1. displays' = displays /\ failed' = failed /\ language' = language
  BY DEF Window, Act, sessionVars
<1>2. PICK s : s = Now
  OBVIOUS
<1>3. PICK t \in WindowResults(s) : Become(Unplaced(t))
  BY <1>2 DEF Window
<1>4. Steady(s, failed) /\ s.cfg = cfg /\ s.dialog = dialog
  BY <1>2, NowOf
<1>5. Steady(t, failed) /\ Leaves(s, t)
  BY <1>3, <1>4, WorldIs, WindowResultsSteady
<1>6. PICK u : u = Unplaced(t)
  OBVIOUS
<1>7. Quiet(t, u)
  BY <1>5, <1>6, UnplacedQuiet DEF Steady
<1>8. Steady(u, failed) /\ Shape(u)
  BY <1>5, <1>7, QuietSteady DEF Quiet
<1>9. SameUse(s, u) /\ u.dialog = dialog
  <2>1. SameUse(s, t) /\ t.dialog = dialog
    BY <1>4, <1>5 DEF Leaves, SameUse
  <2>2. SameUse(t, u) /\ u.dialog = t.dialog
    BY <1>7 DEF Quiet, SameUse
  <2> QED BY <2>1, <2>2, SameUseAgain
<1>10. Becomes(u)
  BY <1>3, <1>6, <1>8, BecomeBecomes
<1> QED BY <1>1, <1>2, <1>8, <1>9, <1>10, HandlerStays

\* HeaderRead: no setting changes.
LEMMA HeaderReadStays ==
    ASSUME World, InMemory, NEW i \in Images, HeaderRead(i)
    PROVE  InMemory' /\ Stays
<1>1. displays' = displays /\ failed' = failed /\ language' = language
  BY DEF HeaderRead, OnlyViewer, sessionVars
<1>2. PICK s : s = Now
  OBVIOUS
<1>3. /\ Steady(s, failed) /\ IsState(s) /\ s.cfg = cfg /\ s.dialog = dialog
      /\ \A part \in ViewerParts : s[part] = viewer[part]
  BY <1>2, NowOf
<1>4. PICK known, pending : known = s.known \cup {i} /\ pending = viewer'.pending
  OBVIOUS
<1>5. /\ DOMAIN viewer = ViewerParts
      /\ DOMAIN viewer' = ViewerParts /\ viewer'.known = known /\ viewer'.pending = pending
      /\ \A part \in ViewerParts \ {"known", "pending"} : viewer'[part] = viewer[part]
  <2>1. DOMAIN viewer = ViewerParts
    BY DEF InMemory
  <2>2. viewer' = [viewer EXCEPT !.known = @ \cup {i}, !.pending[i] = {"LoadAllocated", "LoadDone"}]
    BY DEF HeaderRead
  <2> QED BY <1>3, <1>4, <2>1, <2>2 DEF ViewerParts
<1>6. PICK u : u = [s EXCEPT !.known = known]
  OBVIOUS
<1>7. IsState(u) /\ u.known = known /\ \A part \in StateParts \ {"known"} : u[part] = s[part]
  BY <1>3, <1>6, Update DEF StateParts, ViewerParts
<1>8. Steady(u, failed)
  <2>1. known \subseteq Images
    BY <1>3, <1>4 DEF Steady, Shape
  <2>2. Shape(u)
    BY <1>3, <1>7, <2>1 DEF Steady, Shape, StateParts, ViewerParts
  <2>3. MenuAgrees(u) /\ OnDisplay(u)
    BY <1>3, <1>7 DEF Steady, MenuAgrees, OnDisplay, StateParts, ViewerParts
  <2> QED BY <1>3, <1>7, <2>2, <2>3 DEF Steady, StateParts, ViewerParts
<1>9. PICK t : t = [u EXCEPT !.pending = pending]
  OBVIOUS
<1>10. Quiet(u, t)
  BY <1>8, <1>9, ListPartQuiet DEF Steady
<1>11. t.pending = pending /\ \A part \in StateParts \ {"pending"} : t[part] = u[part]
  BY <1>7, <1>9, Update DEF StateParts, ViewerParts
<1>12. Steady(t, failed)
  BY <1>8, <1>10, QuietSteady
<1>13. SameUse(s, t) /\ t.dialog = dialog
  <2>1. t.cfg = s.cfg /\ t.used = s.used /\ t.dialog = s.dialog
    BY <1>7, <1>11 DEF StateParts, ViewerParts
  <2> QED BY <1>3, <2>1, SameUseSelf DEF Steady, Shape
<1>14. Becomes(t)
  <2>1. cfg' = t.cfg /\ dialog' = t.dialog
    BY <1>3, <1>7, <1>11 DEF HeaderRead, StateParts
  <2>2. \A part \in ViewerParts \ {"known", "pending"} : t[part] = viewer'[part]
    BY <1>3, <1>5, <1>7, <1>11 DEF StateParts
  <2>3. t.known = viewer'.known /\ t.pending = viewer'.pending
    BY <1>5, <1>7, <1>11 DEF StateParts, ViewerParts
  <2> QED BY <1>5, <2>1, <2>2, <2>3 DEF Becomes
<1> QED BY <1>1, <1>2, <1>12, <1>13, <1>14, HandlerStays

\* LoadMessage: no setting with a control changes.
LEMMA LoadMessageStays ==
    ASSUME World, InMemory, NEW i \in Images, NEW message, LoadMessage(i, message)
    PROVE  InMemory' /\ Stays
<1>1. displays' = displays /\ failed' = failed /\ language' = language
  BY DEF LoadMessage, OnlyViewer, sessionVars
<1>2. PICK now : now = Now
  OBVIOUS
<1>3. Steady(now, failed) /\ Shape(now)
  BY <1>2, NowOf DEF Steady
<1>4. PICK s : s = [now EXCEPT !.pending[i] = @ \ {message}]
  OBVIOUS
<1>5. Quiet(now, s) /\ Shape(s)
  <2>1. PICK pending : pending = [now.pending EXCEPT ![i] = @ \ {message}]
    OBVIOUS
  <2>2. s = [now EXCEPT !.pending = pending]
    BY <1>4, <2>1
  <2>3. Quiet(now, s)
    BY <1>3, <2>2, ListPartQuiet
  <2> QED BY <2>3 DEF Quiet
<1>6. PICK f : f = Fitted(s)
  OBVIOUS
<1>7. Quiet(s, f) /\ Shape(f)
  BY <1>5, <1>6, FittedQuiet DEF Quiet
<1>8. PICK g : g = ImageChanged(f)
  OBVIOUS
<1>9. Quiet(f, g) /\ Shape(g)
  BY <1>7, <1>8, WorldIs, ImageChangedQuiet DEF Quiet
<1>10. PICK h : h = Placed(g)
  OBVIOUS
<1>11. Quiet(g, h)
  BY <1>9, <1>10, PlacedQuiet
<1>12. Become(IF i # s.image THEN s ELSE IF message = "LoadAllocated" THEN h ELSE f)
  BY <1>2, <1>4, <1>6, <1>8, <1>10 DEF LoadMessage
<1>13. Quiet(now, f) /\ Quiet(now, h)
  BY <1>5, <1>7, <1>9, <1>11, QuietAgain
<1>14. PICK t : t \in {s, f, h} /\ Become(t)
  BY <1>12
<1>15. Quiet(now, t)
  BY <1>5, <1>13, <1>14
<1>16. Becomes(t)
  BY <1>14, <1>15, BecomeBecomes DEF Quiet
<1> QED BY <1>1, <1>2, <1>15, <1>16, QuietStays

\* Adjust: no setting changes.
LEMMA AdjustStays ==
    ASSUME World, InMemory, Adjust
    PROVE  InMemory' /\ Stays
<1>1. /\ displays' = displays /\ failed' = failed /\ language' = language
      /\ cfg' = cfg /\ dialog' = dialog
  BY DEF Adjust, Act, OnlyAdjust, sessionVars
<1>2. PICK s : s = Now
  OBVIOUS
<1>3. /\ Steady(s, failed) /\ s.cfg = cfg /\ s.dialog = dialog /\ IsState(s)
      /\ \A part \in ViewerParts : s[part] = viewer[part]
  BY <1>2, NowOf
<1>4. PICK a : a = s.adjust
  OBVIOUS
<1>5. a = viewer.adjust /\ DOMAIN a = AdjustParts /\ (a.auto => a.applied = a.sliders)
  BY <1>3, <1>4 DEF Steady, ViewerParts
<1>6. PICK b \in AdjustResults(a) : viewer' = [viewer EXCEPT !.adjust = b]
  BY <1>5 DEF Adjust
<1>7. DOMAIN b = AdjustParts /\ (b.auto => b.applied = b.sliders)
  BY <1>5, <1>6, AdjustResultsAgree
<1>8. PICK t : t = [s EXCEPT !.adjust = b]
  OBVIOUS
<1>9. /\ Steady(t, failed) /\ t.adjust = b
      /\ \A part \in StateParts \ {"adjust"} : t[part] = s[part]
  BY <1>3, <1>7, <1>8, AdjustSteady
<1>10. Becomes(t)
  <2>1. cfg' = t.cfg /\ dialog' = t.dialog
    BY <1>1, <1>3, <1>9 DEF StateParts
  <2>2. DOMAIN viewer = ViewerParts
    BY DEF InMemory
  <2>3. DOMAIN viewer' = ViewerParts /\ viewer'.adjust = t.adjust
    BY <1>6, <1>9, <2>2 DEF ViewerParts
  <2>4. \A part \in ViewerParts \ {"adjust"} : viewer'[part] = t[part]
    BY <1>3, <1>6, <1>9, <2>2 DEF StateParts
  <2> QED BY <2>1, <2>3, <2>4 DEF Becomes
<1>11. SameUse(s, t) /\ t.dialog = dialog
  <2>1. t.cfg = s.cfg /\ t.used = s.used /\ t.dialog = s.dialog
    BY <1>9 DEF StateParts, ViewerParts
  <2> QED BY <1>3, <2>1, SameUseSelf DEF Steady, Shape
<1> QED BY <1>1, <1>2, <1>9, <1>10, <1>11, HandlerStays

\* A step that touches neither the viewer nor its settings nor the dialog.
LEMMA UntouchedStays ==
    ASSUME InMemory, UNCHANGED <<cfg, dialog, viewer, failed, displays, language>>
    PROVE  InMemory' /\ Stays
<1>1. Now' = Now
  BY DEF Now
<1>2. Steady(Now, failed)'
  BY <1>1, NowOf, SteadyNext
<1>3. CfgTyped(cfg)' /\ Filled(dialog, cfg)'
  BY DEF InMemory, CfgTyped, Filled
<1>4. InMemory'
  BY <1>2, <1>3 DEF InMemory
<1> QED BY <1>4 DEF Stays

\* Mouse: no setting changes.
LEMMA MouseStays ==
    ASSUME InMemory, Mouse
    PROVE  InMemory' /\ Stays
<1>1. OnlyMouse /\ displays' = displays
  BY DEF Mouse, Panning, PanStarts, MouseUp, CaptureLost, Act, sessionVars
<1> QED BY <1>1, UntouchedStays DEF OnlyMouse

\* A step of the dialog alone, which still says what the settings are.
LEMMA DialogStays ==
    ASSUME World, InMemory, DialogAct, OnlyDialog, Filled(dialog', cfg)
    PROVE  InMemory' /\ Stays
<1>1. /\ displays' = displays /\ failed' = failed /\ language' = language
      /\ cfg' = cfg /\ viewer' = viewer
  BY DEF DialogAct, Act, OnlyDialog, sessionVars
<1>2. PICK s : s = Now
  OBVIOUS
<1>3. /\ Steady(s, failed) /\ s.cfg = cfg /\ IsState(s)
      /\ \A part \in ViewerParts : s[part] = viewer[part]
  BY <1>2, NowOf
<1>4. PICK d : d = dialog'
  OBVIOUS
<1>5. PICK t : t = [s EXCEPT !.dialog = d]
  OBVIOUS
<1>6. /\ Steady(t, failed) /\ t.dialog = d
      /\ \A part \in StateParts \ {"dialog"} : t[part] = s[part]
  BY <1>3, <1>5, DialogSteady
<1>7. t.cfg = cfg /\ t.used = viewer.used /\ \A part \in ViewerParts : t[part] = viewer[part]
  BY <1>3, <1>6 DEF StateParts, ViewerParts
<1>8. Now' = t
  <2>1. IsState(t)
    BY <1>6 DEF Steady, Shape
  <2>2. DOMAIN viewer' = ViewerParts
    BY <1>1 DEF InMemory
  <2> QED BY <1>1, <1>4, <1>6, <1>7, <2>1, <2>2, NowBecomes
<1>9. InMemory'
  <2>1. CfgTyped(t.cfg) /\ Filled(t.dialog, t.cfg) /\ language' = t.cfg.Language
    BY <1>1, <1>4, <1>6, <1>7 DEF InMemory
  <2>2. DOMAIN viewer' = ViewerParts /\ cfg' = t.cfg /\ dialog' = t.dialog
    BY <1>1, <1>4, <1>6, <1>7 DEF InMemory
  <2> QED BY <1>1, <1>6, <1>8, <2>1, <2>2, InMemoryNext
<1> QED BY <1>1, <1>9 DEF Stays

\* EditSetting: no setting changes before an Apply.
LEMMA EditSettingStays ==
    ASSUME World, InMemory, EditSetting
    PROVE  InMemory' /\ Stays
<1>1. DialogAct /\ OnlyDialog /\ dialog.shown /\ Filled(dialog, cfg)
  BY DEF EditSetting, DialogAct, InMemory
<1>2. Filled(dialog', cfg)
  <2>1. CASE \E f \in Controls : \E v : EditControl(f, v)
    BY <1>1, <2>1, EditControlFilled
  <2>2. CASE PickColour
    BY <1>1, <2>2, PickColourFilled
  <2> QED BY <2>1, <2>2 DEF EditSetting
<1> QED BY <1>1, <1>2, DialogStays

\* EditShortcuts: no setting changes before an Apply.
LEMMA EditShortcutsStays ==
    ASSUME World, InMemory, EditShortcuts
    PROVE  InMemory' /\ Stays
<1>1. DialogAct /\ OnlyDialog /\ dialog.shown /\ Filled(dialog, cfg)
  BY DEF EditShortcuts, DialogAct, InMemory
<1>2. Filled(dialog', cfg)
  <2>1. CASE (\E id \in DOMAIN dialog.rows, adding \in BOOLEAN : SelectRow(id, adding))
                \/ DeselectRows
    BY <1>1, <2>1, SelectFilled
  <2>2. CASE AddShortcut
    BY <1>1, <2>2, AddShortcutFilled
  <2>3. CASE RemoveShortcut
    BY <1>1, <2>3, RemoveShortcutFilled
  <2>4. CASE \E a \in EditActions \cap KeyActions : SetShortcutFunction(a)
    <3>1. \E a \in KeyActions : SetShortcutFunction(a)
      BY <2>4
    <3> QED BY <1>1, <3>1, SetShortcutFilled
  <2>5. CASE \E press \in EditPresses : SetShortcutCombo(press)
    <3>1. \E press \in KeyboardPress : SetShortcutCombo(press)
      BY <2>5, StartsAssumption
    <3> QED BY <1>1, <3>1, SetShortcutFilled
  <2> QED BY <2>1, <2>2, <2>3, <2>4, <2>5 DEF EditShortcuts
<1> QED BY <1>1, <1>2, DialogStays

\* Cancel: no setting changes, and the controls keep what was edited.
LEMMA CancelStays ==
    ASSUME World, InMemory, Cancel
    PROVE  InMemory' /\ Stays
<1>1. DialogAct /\ OnlyDialog /\ dialog.shown /\ Filled(dialog, cfg) /\ dialog' = Hide(dialog)
  BY DEF Cancel, DialogAct, InMemory
<1>2. PICK d : d = dialog
  OBVIOUS
<1>3. PICK e : e = [d EXCEPT !.shown = FALSE]
  OBVIOUS
<1>4. Filled(d, cfg) /\ d.made
  BY <1>1, <1>2 DEF Filled
<1>5. DOMAIN d = DialogParts
  BY <1>4 DEF Filled
<1>6. DOMAIN e = DialogParts /\ \A part \in DialogParts \ {"shown"} : e[part] = d[part]
  BY <1>3, <1>5
<1>7. /\ e.made = d.made /\ e.ctl = d.ctl /\ e.picker = d.picker /\ e.rows = d.rows
      /\ e.edited = d.edited /\ e.next = d.next /\ e.selected = d.selected
      /\ e.enabled = d.enabled
  BY <1>6 DEF DialogParts
<1>8. RowsOK(e)
  BY <1>4, <1>7 DEF Filled, Made, RowsOK
<1>9. Filled(e, cfg)
  BY <1>4, <1>6, <1>7, <1>8, RowsKeep
<1> QED BY <1>1, <1>2, <1>3, <1>9, DialogStays DEF Hide

\* Another instance hands over what it was started with, or stays beside this one.
LEMMA OtherStartsStays ==
    ASSUME World, OnDisk, InMemory, OtherStarts
    PROVE  InMemory' /\ Stays /\ World' /\ OnDisk'
<1>1. /\ displays' = displays /\ failed' = failed /\ language' = language
      /\ start' = start /\ file' = file /\ saved' = saved /\ other = Nothing
  BY DEF OtherStarts
<1>2. PICK c \in Load(file), path \in start.paths :
        \/ /\ other' = [is |-> "running", cfg |-> c]
           /\ UNCHANGED <<cfg, dialog, viewer>>
        \/ Become(SetImageLocation(Now, path)) /\ other' = other
  BY DEF OtherStarts
<1>3. World'
  BY <1>1 DEF World
<1>4. CASE /\ other' = [is |-> "running", cfg |-> c]
           /\ UNCHANGED <<cfg, dialog, viewer>>
  <2>1. InMemory' /\ Stays
    BY <1>1, <1>4, UntouchedStays
  <2>2. CfgTyped(c)
    BY <1>2, LoadTyped DEF OnDisk
  <2>3. other'.cfg = c
    BY <1>4
  <2>4. CfgTyped(other.cfg)'
    BY <2>2, <2>3 DEF CfgTyped
  <2>5. OnDisk'
    BY <1>1, <2>4 DEF OnDisk, CfgTyped, FileOK, Saved
  <2> QED BY <1>3, <2>1, <2>5
<1>5. CASE Become(SetImageLocation(Now, path)) /\ other' = other
  <2>1. PICK s : s = Now
    OBVIOUS
  <2>2. Shape(s)
    BY <2>1, NowOf DEF Steady
  <2>3. PICK t : t = SetImageLocation(s, path)
    OBVIOUS
  <2>4. Quiet(s, t)
    BY <2>2, <2>3, WorldIs, SetImageLocationQuiet
  <2>5. Becomes(t)
    BY <1>5, <2>1, <2>3, <2>4, BecomeBecomes DEF Quiet
  <2>6. InMemory' /\ Stays
    BY <1>1, <2>1, <2>4, <2>5, QuietStays
  <2> QED BY <1>1, <1>5, <2>6, DiskStays
<1> QED BY <1>2, <1>4, <1>5

\* The settings that change are those the user meant: see UneditedStays.
Meant ==
    \A f \in Settings : cfg'[f] # cfg[f] =>
        \/ f \in dialog.edited
        \/ f = "DefaultZoom" /\ cfg[f] \notin ZoomChoices
        \/ f = "ManualMemoryLimit" /\ dialog.ctl[f] = Blank

\* The dialog an Apply leaves.
LEMMA AppliedIs ==
    ASSUME NEW s, IsState(s), NEW c, NEW d, s.dialog = d, NEW shown
    PROVE  [s EXCEPT !.cfg = c, !.dialog.edited = {}, !.dialog.shown = shown]
            = [[s EXCEPT !.cfg = c] EXCEPT !.dialog = [d EXCEPT !.edited = {}, !.shown = shown]]
<1>1. PICK u : u = [s EXCEPT !.cfg = c]
  OBVIOUS
<1>2. IsState(u) /\ u.dialog = d
  BY <1>1, Update DEF StateParts
<1>3. PICK g : g = [d EXCEPT !.edited = {}]
  OBVIOUS
<1>4. PICK v : v = [u EXCEPT !.dialog = g]
  OBVIOUS
<1>5. IsState(v) /\ v.dialog = g
  BY <1>2, <1>4, Update DEF StateParts
<1>6. [s EXCEPT !.cfg = c, !.dialog.edited = {}, !.dialog.shown = shown]
        = [v EXCEPT !.dialog = [g EXCEPT !.shown = shown]]
  BY <1>1, <1>2, <1>3, <1>4, <1>5
<1>7. [v EXCEPT !.dialog = [g EXCEPT !.shown = shown]]
        = [u EXCEPT !.dialog = [g EXCEPT !.shown = shown]]
  BY <1>2, <1>4 DEF IsState
<1> QED BY <1>1, <1>3, <1>6, <1>7

\* Apply: the settings are saved, meant, and every part has heard of them.
LEMMA ApplyStays ==
    ASSUME World, OnDisk, InMemory, dialog.shown, Readable(dialog), NEW hides \in BOOLEAN, Apply(hides)
    PROVE  /\ InMemory' /\ Meant /\ World' /\ OnDisk'
           /\ \E b : /\ Steady(b, TRUE) /\ b.win = viewer.win
                     /\ Becomes(Unplaced(SettingsChanged(b))) /\ Shape(Unplaced(SettingsChanged(b)))
<1>1. /\ displays' = displays /\ failed' = FALSE /\ language' = dialog.ctl.Language
      /\ start' = start /\ other' = other
  BY DEF Apply
<1>2. PICK s, d : s = Now /\ d = dialog
  OBVIOUS
<1>3. PICK shown : shown = ~hides
  OBVIOUS
<1>4. PICK c \in Written(d, cfg) :
        /\ Save(c, TRUE)
        /\ saved' = [is |-> "applied", cfg |-> c, place |-> [pos |-> c.Pos, size |-> c.WindowSize]]
        /\ Become(Unplaced(SettingsChanged([s EXCEPT
                !.cfg = c, !.dialog.edited = {}, !.dialog.shown = shown])))
  BY <1>2, <1>3 DEF Apply
<1>5. CfgTyped(cfg) /\ Filled(d, cfg) /\ d.made /\ Made(d)
  BY <1>2 DEF InMemory, Filled
<1>6. CfgTyped(c) /\ CfgOK(c)
  BY <1>4, <1>5, WrittenTyped, CfgTypedIs
<1>7. PICK e : e = [d EXCEPT !.edited = {}, !.shown = shown]
  OBVIOUS
<1>8. Filled(e, c) /\ c.Language = d.ctl.Language
  BY <1>2, <1>4, <1>5, <1>7, AppliedFilled
<1>9. Steady(s, failed) /\ IsState(s) /\ s.dialog = d
  BY <1>2, NowOf
<1>10. PICK a : a = [s EXCEPT !.cfg = c]
  OBVIOUS
<1>11. Steady(a, TRUE) /\ a.cfg = c
  BY <1>6, <1>9, <1>10, CfgSteady
<1>12. PICK b : b = [a EXCEPT !.dialog = e]
  OBVIOUS
<1>13. /\ Steady(b, TRUE) /\ b.dialog = e /\ b.cfg = c
       /\ \A part \in StateParts \ {"dialog"} : b[part] = a[part]
  <2>1. PICK lax : lax = TRUE
    OBVIOUS
  <2>2. Steady(a, lax)
    BY <1>11, <2>1
  <2>3. /\ Steady(b, lax) /\ b.dialog = e
        /\ \A part \in StateParts \ {"dialog"} : b[part] = a[part]
    BY <1>12, <2>2, DialogSteady
  <2> QED BY <1>11, <2>1, <2>3 DEF StateParts
<1>14. PICK t : t = SettingsChanged(b)
  OBVIOUS
<1>15. Steady(t, FALSE) /\ SameSettings(c, t.cfg) /\ t.dialog = e
  BY <1>13, <1>14, WorldIs, SettingsChangedSteady
<1>16. PICK u : u = Unplaced(t)
  OBVIOUS
<1>17. Quiet(t, u)
  BY <1>15, <1>16, UnplacedQuiet DEF Steady
<1>18. Steady(u, FALSE) /\ u.dialog = e
  BY <1>15, <1>17, QuietSteady DEF Quiet
<1>19. SameSettings(c, u.cfg) /\ CfgOK(u.cfg)
  BY <1>15, <1>17, <1>18, SameSettingsAgain DEF Quiet, Shape
<1>20. Become(u)
  <2>1. PICK w : w = [s EXCEPT !.cfg = c, !.dialog.edited = {}, !.dialog.shown = shown]
    OBVIOUS
  <2>2. w = [[s EXCEPT !.cfg = c] EXCEPT !.dialog = [d EXCEPT !.edited = {}, !.shown = shown]]
    BY <1>9, <2>1, AppliedIs
  <2>3. w = b
    BY <1>7, <1>10, <1>12, <2>2
  <2>4. Become(Unplaced(SettingsChanged(w)))
    BY <1>4, <2>1
  <2> QED BY <1>14, <1>16, <2>3, <2>4
<1>21. Becomes(u)
  BY <1>18, <1>20, BecomeBecomes DEF Steady
<1>22. Now' = u
  BY <1>18, <1>21, NowBecomes DEF Becomes, Steady, Shape
<1>23. PICK g : g = u.cfg
  OBVIOUS
<1>24. CfgTyped(g) /\ \A f \in CfgParts \ Anchors : g[f] = c[f]
  BY <1>6, <1>19, <1>23, SameSettingsTyped
<1>25. Filled(e, g)
  BY <1>8, <1>19, <1>23, SameSettingsFilled
<1>26. Settings \subseteq CfgParts \ Anchors /\ "Language" \in CfgParts \ Anchors
  BY SettingsAre, Kinds DEF Anchors, WindowFields
<1>27. InMemory'
  <2>1. language' = u.cfg.Language
    BY <1>1, <1>2, <1>8, <1>23, <1>24, <1>26
  <2> QED BY <1>1, <1>18, <1>21, <1>22, <1>23, <1>24, <1>25, <2>1, InMemoryNext DEF Becomes
<1>28. Meant
  <2>1. \A f \in Settings : cfg'[f] = c[f]
    BY <1>21, <1>23, <1>24, <1>26 DEF Becomes
  <2>2. \A f \in Settings : c[f] # cfg[f] =>
                \/ f \in d.edited
                \/ f = "DefaultZoom" /\ cfg[f] \notin ZoomChoices
                \/ f = "ManualMemoryLimit" /\ d.ctl[f] = Blank
    BY <1>4, <1>5, UneditedWritten
  <2> QED BY <1>2, <2>1, <2>2 DEF Meant
<1>29. World'
  BY <1>1 DEF World
<1>30. OnDisk'
  <2>1. file' = Saved(c)
    BY <1>4 DEF Save
  <2>2. /\ saved' = [is |-> saved'.is, cfg |-> saved'.cfg, place |-> saved'.place]
        /\ saved'.cfg = c /\ saved'.place = [pos |-> c.Pos, size |-> c.WindowSize]
    BY <1>4
  <2>3. FileOK(file)'
    <3>1. FileOK(Saved(c))
      BY <1>6, SavedFileOK
    <3> QED BY <2>1, <3>1 DEF FileOK
  <2>4. CfgTyped(saved.cfg)' /\ file' = Saved(saved.cfg)'
    BY <1>6, <2>1, <2>2 DEF CfgTyped, Saved
  <2>5. other' # Nothing => CfgTyped(other.cfg)'
    BY <1>1 DEF OnDisk, CfgTyped
  <2> QED BY <2>2, <2>3, <2>4, <2>5 DEF OnDisk
<1>31. b.win = viewer.win
  <2>1. a.win = s.win
    BY <1>6, <1>9, <1>10, CfgSteady DEF StateParts, ViewerParts
  <2>2. b.win = a.win
    BY <1>13 DEF StateParts, ViewerParts
  <2>3. s.win = viewer.win
    BY <1>2, NowOf DEF ViewerParts
  <2> QED BY <2>1, <2>2, <2>3
<1>32. Becomes(Unplaced(SettingsChanged(b))) /\ Shape(Unplaced(SettingsChanged(b)))
  BY <1>14, <1>16, <1>18, <1>21 DEF Steady
<1> QED BY <1>13, <1>27, <1>28, <1>29, <1>30, <1>31, <1>32

\* ApplyFails: the settings that were written are meant.
LEMMA ApplyFailsStays ==
    ASSUME World, InMemory, ApplyFails
    PROVE  InMemory' /\ Meant
<1>1. /\ displays' = displays /\ failed' = TRUE /\ dialog' = dialog /\ viewer' = viewer
      /\ cfg' \in Written(dialog, cfg) /\ dialog.shown
      /\ language' = IF IsWritten(dialog, "Language") THEN dialog.ctl.Language ELSE language
  BY DEF ApplyFails, DialogAct, Act, WriteSettings, sessionVars
<1>2. PICK s, d : s = Now /\ d = dialog
  OBVIOUS
<1>3. PICK c \in Written(d, cfg) : cfg' = c
  BY <1>1, <1>2
<1>4. CfgTyped(cfg) /\ Filled(d, cfg) /\ d.made /\ Made(d) /\ language = cfg.Language
  BY <1>1, <1>2 DEF InMemory, Filled
<1>5. CfgTyped(c) /\ CfgOK(c) /\ Filled(d, c)
  BY <1>3, <1>4, WrittenTyped, CfgTypedIs, FailedFilled
<1>6. /\ Steady(s, failed) /\ IsState(s) /\ s.dialog = d
      /\ \A part \in ViewerParts : s[part] = viewer[part]
  BY <1>2, NowOf
<1>7. PICK t : t = [s EXCEPT !.cfg = c]
  OBVIOUS
<1>8. /\ Steady(t, TRUE) /\ t.cfg = c
      /\ \A part \in StateParts \ {"cfg"} : t[part] = s[part]
  <2>1. Steady(s, failed)
    BY <1>6
  <2>2. CfgOK(c)
    BY <1>5
  <2>3. Steady(t, TRUE) /\ t.cfg = c
    BY <1>7, <2>1, <2>2, CfgSteady
  <2>4. ASSUME NEW part \in StateParts \ {"cfg"}
        PROVE  t[part] = s[part]
    BY <1>6, <1>7, Update DEF Steady, Shape, StateParts
  <2> QED BY <2>3, <2>4
<1>9. t.dialog = d /\ \A part \in ViewerParts : t[part] = viewer[part]
  BY <1>6, <1>8 DEF StateParts, ViewerParts
<1>10. language' = c.Language
  <2>1. "Language" \in Settings
    BY SettingsAre, Kinds
  <2>2. "Language" \in CfgParts
    BY Kinds
  <2>3. PICK f : f = "Language"
    OBVIOUS
  <2>4. CASE IsWritten(d, f)
    <3>1. c[f] \in ValuesWritten(d, f)
      BY <1>3, <1>4, <2>2, <2>3, <2>4, WrittenIs DEF CfgTyped
    <3>2. c[f] = d.ctl[f]
      BY <2>3, <3>1 DEF ValuesWritten
    <3> QED BY <1>1, <1>2, <2>3, <2>4, <3>2
  <2>5. CASE ~IsWritten(d, f)
    <3>1. c[f] = cfg[f]
      BY <1>3, <1>4, <2>2, <2>3, <2>5, WrittenIs DEF CfgTyped
    <3> QED BY <1>1, <1>2, <1>4, <2>3, <2>5, <3>1
  <2> QED BY <2>4, <2>5
<1>11. Now' = t
  <2>1. IsState(t)
    BY <1>8 DEF Steady, Shape
  <2>2. DOMAIN viewer' = ViewerParts
    BY <1>1 DEF InMemory
  <2> QED BY <1>1, <1>2, <1>3, <1>8, <1>9, <2>1, <2>2, NowBecomes
<1>12. InMemory'
  <2>1. DOMAIN viewer' = ViewerParts
    BY <1>1 DEF InMemory
  <2> QED BY <1>1, <1>2, <1>3, <1>5, <1>8, <1>9, <1>10, <1>11, <2>1, InMemoryNext
<1>13. Meant
  BY <1>2, <1>3, <1>4, UneditedWritten DEF Meant
<1> QED BY <1>12, <1>13

\* What is kept of a window when the program ends: settings, with the place to return to.
LEMMA ClosedIs ==
    ASSUME InMemory
    PROVE  /\ CfgTyped(Closed(Now))
           /\ PlaceToReturn # Nothing =>
                PlaceToReturn = [pos |-> Closed(Now).Pos, size |-> Closed(Now).WindowSize]
<1>1. PICK s, w, e : s = Now /\ w = viewer.win /\ e = cfg
  OBVIOUS
<1>2. Steady(s, failed) /\ s.cfg = e /\ s.win = w
  BY <1>1, NowOf DEF ViewerParts
<1>3. WinOK(w) /\ ReturnsTo(w)
  BY <1>2 DEF Steady, Shape
<1>4. CfgTyped(e) /\ DOMAIN e = CfgParts
  BY <1>1 DEF InMemory, CfgTyped
<1>5. PICK m \in BOOLEAN : m = IsMaximized(w)
  BY Zenon DEF IsMaximized
<1>6. PICK r \in Rect : r = IF w.fullscreen \/ IsMaximized(w) THEN w.normalRect ELSE w.rect
  BY <1>3 DEF WinOK
<1>7. PICK p, q : p = r.pos /\ q = r.size
  OBVIOUS
<1>8. p \in Point /\ q \in Point /\ r = [pos |-> p, size |-> q]
  BY <1>6, <1>7 DEF Rect
<1>9. PICK g : g = IF w.iconized THEN e ELSE [e EXCEPT !.Pos = p, !.WindowSize = q]
  OBVIOUS
<1>10. PICK c : c = [g EXCEPT !.Maximized = m]
  OBVIOUS
<1>11. c = Closed(Now)
  BY <1>1, <1>2, <1>5, <1>6, <1>7, <1>9, <1>10 DEF Closed
<1>12. {"Pos", "WindowSize", "Maximized"} \subseteq CfgParts
  BY Kinds DEF WindowFields, Flags
<1>13. /\ DOMAIN g = CfgParts /\ \A f \in CfgParts \ {"Pos", "WindowSize"} : g[f] = e[f]
       /\ ~w.iconized => g.Pos = p /\ g.WindowSize = q
       /\ w.iconized => g.Pos = e.Pos /\ g.WindowSize = e.WindowSize
  BY <1>4, <1>9, <1>12
<1>14. /\ DOMAIN c = CfgParts /\ c.Maximized = m
       /\ \A f \in CfgParts \ {"Maximized"} : c[f] = g[f]
  BY <1>10, <1>12, <1>13
<1>15. c.Pos = g.Pos /\ c.WindowSize = g.WindowSize
  BY <1>12, <1>14
<1>16. CfgTyped(c)
  <2>1. ASSUME NEW f \in CfgParts
        PROVE  ValueOK(f, c[f])
    <3>1. CASE f = "Maximized"
      BY <1>14, <3>1, OneKind DEF Flags
    <3>2. CASE f \in {"Pos", "WindowSize"}
      <4>1. c[f] \in Point
        BY <1>4, <1>8, <1>12, <1>13, <1>15, <3>2, CfgTypedIs DEF CfgOK
      <4> QED BY <3>2, <4>1, OneKind DEF WindowFields
    <3>3. CASE f \notin {"Maximized", "Pos", "WindowSize"}
      <4>1. c[f] = e[f]
        BY <1>13, <1>14, <3>3
      <4> QED BY <1>4, <4>1 DEF CfgTyped
    <3> QED BY <3>1, <3>2, <3>3
  <2> QED BY <1>14, <2>1 DEF CfgTyped
<1>17. PlaceToReturn # Nothing => PlaceToReturn = [pos |-> c.Pos, size |-> c.WindowSize]
  <2>1. CASE w.iconized
    <3>1. PlaceToReturn = [pos |-> e.Pos, size |-> e.WindowSize]
      BY <1>1, <2>1 DEF PlaceToReturn
    <3> QED BY <1>13, <1>15, <2>1, <3>1
  <2>2. CASE ~w.iconized /\ w.fullscreen
    BY <1>1, <2>2 DEF PlaceToReturn
  <2>3. CASE ~w.iconized /\ ~w.fullscreen
    <3>1. PlaceToReturn = r
      <4>1. CASE w.maximized
        BY <1>1, <1>3, <1>6, <2>3, <4>1 DEF PlaceToReturn, IsMaximized, ReturnsTo
      <4>2. CASE ~w.maximized
        BY <1>1, <1>6, <2>3, <4>2 DEF PlaceToReturn, IsMaximized
      <4> QED BY <4>1, <4>2
    <3> QED BY <1>8, <1>13, <1>15, <2>3, <3>1
  <2> QED BY <2>1, <2>2, <2>3
<1> QED BY <1>11, <1>16, <1>17

\* Another file that a Load can read, and nothing it should give back.
LEMMA NothingSaved ==
    ASSUME OnDisk, NEW ini, FileOK(ini), file' = ini, other' = other, saved' = Nothing
    PROVE  OnDisk'
<1>1. FileOK(file)'
  BY DEF FileOK
<1>2. other' # Nothing => CfgTyped(other.cfg)'
  BY DEF OnDisk, CfgTyped
<1> QED BY <1>1, <1>2 DEF OnDisk

\* The settings that were saved are in the file.
LEMMA SomethingSaved ==
    ASSUME OnDisk, NEW i, NEW c, CfgTyped(c), NEW place,
           place # Nothing => place = [pos |-> c.Pos, size |-> c.WindowSize],
           file' = Saved(c), other' = other, saved' = [is |-> i, cfg |-> c, place |-> place]
    PROVE  OnDisk'
<1>1. saved'.is = i /\ saved'.cfg = c /\ saved'.place = place
  OBVIOUS
<1>2. FileOK(file)'
  <2>1. FileOK(Saved(c))
    BY SavedFileOK
  <2> QED BY <2>1 DEF FileOK
<1>3. CfgTyped(saved.cfg)' /\ file' = Saved(saved.cfg)'
  BY <1>1 DEF CfgTyped, Saved
<1>4. other' # Nothing => CfgTyped(other.cfg)'
  BY DEF OnDisk, CfgTyped
<1>5. saved' = [is |-> saved'.is, cfg |-> saved'.cfg, place |-> saved'.place]
  BY <1>1
<1>6. saved'.place # Nothing =>
        saved'.place = [pos |-> saved'.cfg.Pos, size |-> saved'.cfg.WindowSize]
  BY <1>1
<1> QED BY <1>2, <1>3, <1>4, <1>5, <1>6 DEF OnDisk

\* The ways a session ends: what is in the file, and what it should give back.
LEMMA EndsOnDisk ==
    ASSUME World, OnDisk, running => InMemory, CloseWindow \/ Die \/ DieSaving \/ ApplyAndDie
    PROVE  World' /\ OnDisk' /\ ~running'
<1>1. Stop
  BY DEF CloseWindow, Close, Die, DieSaving, ApplyAndDie
<1>2. UNCHANGED <<start, displays, other>> /\ ~running'
  BY <1>1 DEF Stop
<1>3. World'
  BY <1>2 DEF World
<1>4. CASE CloseWindow
  <2>1. PICK c \in {Closed(Now)}, returns \in BOOLEAN :
        /\ Save(c, returns)
        /\ saved' = IF returns THEN [is |-> "closed", cfg |-> c, place |-> PlaceToReturn]
                    ELSE saved
    BY <1>4 DEF CloseWindow, Close
  <2>2. CASE returns = FALSE
    <3>1. file' = file /\ saved' = saved
      BY <2>1, <2>2 DEF Save
    <3> QED BY <1>2, <3>1, DiskStays
  <2>3. CASE returns = TRUE
    <3>1. PICK place : place = PlaceToReturn
      OBVIOUS
    <3>2. file' = Saved(c) /\ saved' = [is |-> "closed", cfg |-> c, place |-> place]
      BY <2>1, <2>3, <3>1 DEF Save
    <3>3. running
      BY <1>4 DEF CloseWindow
    <3>4. CfgTyped(c) /\ (place # Nothing => place = [pos |-> c.Pos, size |-> c.WindowSize])
      BY <2>1, <3>1, <3>3, ClosedIs
    <3> QED BY <1>2, <1>3, <3>2, <3>4, SomethingSaved
  <2> QED BY <2>2, <2>3
<1>5. CASE Die
  BY <1>2, <1>5, DiskStays DEF Die
<1>6. CASE DieSaving
  <2>1. file' = NoEntries /\ saved' = Nothing
    BY <1>6 DEF DieSaving, SaveCutShort
  <2> QED BY <1>2, <1>3, <2>1, NoEntriesOK, NothingSaved
<1>7. CASE ApplyAndDie
  <2>1. file' = file /\ saved' = saved
    BY <1>7 DEF ApplyAndDie, Save
  <2> QED BY <1>2, <2>1, DiskStays
<1> QED BY <1>2, <1>3, <1>4, <1>5, <1>6, <1>7

\* OtherCloses: the file is the other one's, and nothing is promised of it.
LEMMA OtherClosesOnDisk ==
    ASSUME World, OnDisk, OtherCloses
    PROVE  World' /\ OnDisk'
<1>1. /\ other # Nothing /\ other' = Nothing /\ saved' = Nothing
      /\ file' = IF Writable(other.cfg) THEN Saved(other.cfg) ELSE file
      /\ UNCHANGED <<start, displays>>
  BY DEF OtherCloses
<1>2. PICK ini : ini = file'
  OBVIOUS
<1>3. FileOK(ini)
  <2>1. PICK c : c = other.cfg
    OBVIOUS
  <2>2. FileOK(Saved(c)) /\ FileOK(file)
    BY <1>1, <2>1, SavedFileOK DEF OnDisk
  <2> QED BY <1>1, <1>2, <2>1, <2>2
<1>4. FileOK(file)'
  BY <1>2, <1>3 DEF FileOK
<1>5. World'
  BY <1>1 DEF World
<1> QED BY <1>1, <1>4, <1>5 DEF OnDisk

\* Rearrange: the place of the window is no longer promised.
LEMMA RearrangeOnDisk ==
    ASSUME World, OnDisk, Rearrange
    PROVE  World' /\ OnDisk'
<1>1. /\ displays' \in start.arrangements
      /\ saved' = IF saved = Nothing THEN saved ELSE [saved EXCEPT !.place = Nothing]
      /\ UNCHANGED <<start, other, file>>
  BY DEF Rearrange
<1>2. World'
  BY <1>1 DEF World
<1>3. CASE saved = Nothing
  <2>1. PICK ini : ini = file
    OBVIOUS
  <2>2. FileOK(ini)
    BY <2>1 DEF OnDisk
  <2> QED BY <1>1, <1>2, <1>3, <2>1, <2>2, NothingSaved
<1>4. CASE saved # Nothing
  <2>1. PICK i, c, p : i = saved.is /\ c = saved.cfg /\ p = saved.place
    OBVIOUS
  <2>2. saved = [is |-> i, cfg |-> c, place |-> p] /\ CfgTyped(c) /\ file = Saved(c)
    BY <1>4, <2>1 DEF OnDisk
  <2>3. PICK place : place = Nothing
    OBVIOUS
  <2>4. saved' = [is |-> i, cfg |-> c, place |-> place]
    BY <1>1, <1>4, <2>2, <2>3
  <2>5. file' = Saved(c)
    BY <1>1, <2>2
  <2> QED BY <1>1, <1>2, <2>2, <2>3, <2>4, <2>5, SomethingSaved
<1> QED BY <1>2, <1>3, <1>4

\* A behaviour begins in order.
LEMMA SessionInit ==
    ASSUME Init
    PROVE  SessionInv
<1>1. start \in Starts /\ displays \in start.arrangements /\ World
  BY DEF Init, World
<1>2. FileOK(file)
  BY <1>1, StartsAssumption DEF Init, FileOK
<1>3. OnDisk
  BY <1>2 DEF Init, OnDisk
<1> QED BY <1>1, <1>3 DEF Init, SessionInv

\* Settings that do not change are no surprise.
LEMMA StaysMeant ==
    ASSUME Stays
    PROVE  Meant
BY DEF Stays, Meant

\* What a step of a session leaves: the invariant, and the settings nobody meant.
LEMMA RunningStep ==
    ASSUME World, OnDisk, InMemory,
           UserAsks \/ Mouse \/ Window \/ ImageLoads \/ Adjust \/ EditSetting \/ EditShortcuts
            \/ Cancel \/ OtherStarts
    PROVE  InMemory' /\ Stays /\ World' /\ OnDisk'
<1>1. CASE UserAsks
  <2>1. UNCHANGED <<start, displays, file, other, saved>>
    BY <1>1 DEF UserAsks, Act, sessionVars
  <2> QED BY <1>1, <2>1, AskedStays, DiskStays
<1>2. CASE Mouse
  <2>1. UNCHANGED <<start, displays, file, other, saved>>
    BY <1>2 DEF Mouse, Panning, PanStarts, MouseUp, CaptureLost, Act, OnlyMouse, sessionVars
  <2> QED BY <1>2, <2>1, MouseStays, DiskStays
<1>3. CASE Window
  <2>1. UNCHANGED <<start, displays, file, other, saved>>
    BY <1>3 DEF Window, Act, sessionVars
  <2> QED BY <1>3, <2>1, WindowStays, DiskStays
<1>4. CASE ImageLoads
  <2>1. UNCHANGED <<start, displays, file, other, saved>>
    BY <1>4 DEF ImageLoads, HeaderRead, LoadMessage, OnlyViewer, sessionVars
  <2>2. InMemory' /\ Stays
    BY <1>4, HeaderReadStays, LoadMessageStays DEF ImageLoads
  <2> QED BY <2>1, <2>2, DiskStays
<1>5. CASE Adjust
  <2>1. UNCHANGED <<start, displays, file, other, saved>>
    BY <1>5 DEF Adjust, Act, OnlyAdjust, sessionVars
  <2> QED BY <1>5, <2>1, AdjustStays, DiskStays
<1>6. CASE EditSetting \/ EditShortcuts \/ Cancel
  <2>1. DialogAct /\ OnlyDialog
    BY <1>6 DEF EditSetting, EditShortcuts, Cancel
  <2>2. UNCHANGED <<start, displays, file, other, saved>>
    BY <2>1 DEF DialogAct, Act, OnlyDialog, sessionVars
  <2> QED BY <1>6, <2>2, EditSettingStays, EditShortcutsStays, CancelStays, DiskStays
<1>7. CASE OtherStarts
  BY <1>7, OtherStartsStays
<1> QED BY <1>1, <1>2, <1>3, <1>4, <1>5, <1>6, <1>7

\* The steps of a session, by what they do to the settings.
LEMMA SessionSteps ==
    ASSUME SessionInv, Next
    PROVE  \/ ~running /\ StartSession /\ mouse' = NoMouse
           \/ ~running' /\ World' /\ OnDisk' /\ mouse' \in {NoMouse, mouse}
           \/ running' = running /\ mouse' = mouse /\ viewer' = viewer
                /\ UNCHANGED <<cfg, dialog, failed, language, displays>> /\ World' /\ OnDisk'
           \/ /\ running /\ running' = running /\ InMemory /\ InMemory' /\ World' /\ OnDisk'
              /\ \/ Stays /\ (mouse' = mouse \/ UserAsks \/ Mouse)
                 \/ Meant /\ viewer'.used = viewer.used /\ mouse' = mouse
                 \/ Meant /\ mouse' = [mouse EXCEPT !.reassigned = @ \/ mouse.captures > 0]
<1>1. World /\ OnDisk /\ (running => InMemory)
  BY DEF SessionInv
<1>2. CASE StartSession
  BY <1>2 DEF StartSession
<1>3. CASE CloseWindow \/ Die \/ DieSaving
  <2>1. mouse' = NoMouse
    BY <1>3 DEF CloseWindow, Close, Die, DieSaving, Stop
  <2> QED BY <1>1, <1>3, <2>1, EndsOnDisk
<1>4. CASE ApplySettings
  <2>1. running /\ dialog.shown /\ Readable(dialog) /\ InMemory
    BY <1>1, <1>4 DEF ApplySettings
  <2>2. CASE ApplyAndDie
    <3>1. mouse' = NoMouse
      BY <2>2 DEF ApplyAndDie, Stop
    <3> QED BY <1>1, <2>2, <3>1, EndsOnDisk
  <2>3. CASE \E hides \in BOOLEAN : Apply(hides)
    <3>1. PICK hides \in BOOLEAN : Apply(hides)
      BY <2>3
    <3>2. running' = running /\ mouse' = [mouse EXCEPT !.reassigned = @ \/ mouse.captures > 0]
      BY <3>1 DEF Apply
    <3>3. InMemory' /\ Meant /\ World' /\ OnDisk'
      BY <1>1, <2>1, <3>1, ApplyStays
    <3> QED BY <2>1, <3>2, <3>3
  <2> QED BY <1>4, <2>2, <2>3 DEF ApplySettings
<1>5. CASE ApplyFails
  <2>1. /\ running /\ running' = running /\ mouse' = mouse /\ viewer' = viewer
        /\ UNCHANGED <<start, displays, file, other, saved>>
    BY <1>5 DEF ApplyFails, DialogAct, Act, sessionVars
  <2>2. InMemory' /\ Meant
    BY <1>1, <1>5, <2>1, ApplyFailsStays
  <2> QED BY <1>1, <2>1, <2>2, DiskStays
<1>6. CASE UserAsks \/ Mouse \/ Window \/ ImageLoads \/ Adjust \/ EditSetting \/ EditShortcuts
            \/ Cancel \/ OtherStarts
  <2>1. running /\ running' = running
    BY <1>6 DEF UserAsks, Mouse, Panning, PanStarts, MouseUp, CaptureLost, Window, ImageLoads,
        HeaderRead, LoadMessage, Loading, OnlyViewer, Adjust, EditSetting, EditShortcuts, Cancel,
        DialogAct, OtherStarts, Act, sessionVars
  <2>2. InMemory' /\ Stays /\ World' /\ OnDisk'
    BY <1>1, <1>6, <2>1, RunningStep
  <2>3. mouse' = mouse \/ UserAsks \/ Mouse
    BY <1>6 DEF Window, ImageLoads, HeaderRead, LoadMessage, OnlyViewer, Adjust, OnlyAdjust,
        EditSetting, EditShortcuts, Cancel, OnlyDialog, OtherStarts
  <2> QED BY <1>1, <2>1, <2>2, <2>3
<1>7. CASE OtherCloses \/ Rearrange
  <2>1. CASE OtherCloses
    <3>1. UNCHANGED <<running, mouse, viewer, cfg, dialog, failed, language, displays>>
      BY <2>1 DEF OtherCloses
    <3> QED BY <1>1, <2>1, <3>1, OtherClosesOnDisk
  <2>2. CASE Rearrange
    <3>1. ~running' /\ mouse' = mouse
      BY <2>2 DEF Rearrange
    <3> QED BY <1>1, <2>2, <3>1, RearrangeOnDisk
  <2> QED BY <1>7, <2>1, <2>2
<1> QED BY <1>2, <1>3, <1>4, <1>5, <1>6, <1>7 DEF Next

-----------------------------------------------------------------------------
(* The theorems of the sessions.                                           *)

\* SessionInv from one session to the next.
LEMMA SessionStarted ==
    ASSUME SessionInv, StartSession
    PROVE  SessionInv'
<1>1. World /\ OnDisk
  BY DEF SessionInv
<1>2. UNCHANGED <<start, displays, file, other, saved>>
  BY DEF StartSession
<1> QED BY <1>1, <1>2, DiskStays, SessionStarts DEF SessionInv

\* SessionInv over a step that leaves the viewer alone.
LEMMA SessionUntouched ==
    ASSUME SessionInv, World', OnDisk', running' = running,
           UNCHANGED <<cfg, dialog, viewer, failed, displays, language>>
    PROVE  SessionInv'
<1>1. CASE running
  BY <1>1, UntouchedStays DEF SessionInv
<1>2. CASE ~running
  BY <1>2 DEF SessionInv
<1> QED BY <1>1, <1>2

\* SessionInv is inductive.
LEMMA SessionStep ==
    ASSUME SessionInv, [Next]_vars
    PROVE  SessionInv'
<1>1. CASE Next
  <2>1. CASE ~running /\ StartSession
    BY <2>1, SessionStarted
  <2>2. CASE ~running' /\ World' /\ OnDisk'
    BY <2>2 DEF SessionInv
  <2>3. CASE /\ running' = running
             /\ UNCHANGED <<cfg, dialog, viewer, failed, displays, language>> /\ World' /\ OnDisk'
    BY <2>3, SessionUntouched
  <2>4. CASE InMemory' /\ World' /\ OnDisk'
    BY <2>4 DEF SessionInv
  <2> QED BY <1>1, <2>1, <2>2, <2>3, <2>4, SessionSteps
<1>2. CASE UNCHANGED vars
  <2>1. World' /\ OnDisk'
    BY <1>2, DiskStays DEF vars, SessionInv
  <2> QED BY <1>2, <2>1, SessionUntouched DEF vars
<1> QED BY <1>1, <1>2

\* From start to end of every session, the viewer, its settings, its dialog and the
\* file agree (App::Viewer, App::Settings, Reg::Load and Reg::Save).
THEOREM SessionInvariant == Spec => []SessionInv
<1>1. Init => SessionInv
  BY SessionInit
<1>2. SessionInv /\ [Next]_vars => SessionInv'
  BY SessionStep
<1> QED BY <1>1, <1>2, PTL DEF Spec

\* The invariant has the copies.
LEMMA CopiesOfSession ==
    ASSUME SessionInv
    PROVE  CopiesAgree
<1> SUFFICES ASSUME running
             PROVE  /\ ~failed =>
                        /\ viewer.used = PartsFrom(cfg)
                        /\ viewer.win.bar = (cfg.ShowStatusBar /\ ~viewer.win.fullscreen)
                        /\ (~viewer.win.fullscreen /\ ~viewer.onTopLost) =>
                                viewer.win.style = [border |-> TRUE, onTop |-> cfg.AlwaysOnTop]
                        /\ viewer.adjust.auto => viewer.adjust.applied = viewer.adjust.sliders
                    /\ viewer.zoom.mode # "?" => viewer.menu.fit = (viewer.zoom.mode = "FitImage")
  BY DEF CopiesAgree
<1>1. PICK s : s = Now
  OBVIOUS
<1>2. /\ Steady(s, failed) /\ s.cfg = cfg
      /\ \A part \in ViewerParts : s[part] = viewer[part]
  BY <1>1, NowOf DEF SessionInv
<1>3. /\ s.used = viewer.used /\ s.win = viewer.win /\ s.adjust = viewer.adjust
      /\ s.onTopLost = viewer.onTopLost /\ s.zoom = viewer.zoom /\ s.menu = viewer.menu
  BY <1>2 DEF ViewerParts
<1>4. viewer.zoom.mode # "?" => viewer.menu.fit = (viewer.zoom.mode = "FitImage")
  BY <1>2, <1>3 DEF Steady, MenuAgrees
<1>5. viewer.adjust.auto => viewer.adjust.applied = viewer.adjust.sliders
  BY <1>2, <1>3 DEF Steady
<1>6. ASSUME ~failed
      PROVE  /\ viewer.used = PartsFrom(cfg)
             /\ viewer.win.bar = (cfg.ShowStatusBar /\ ~viewer.win.fullscreen)
  BY <1>2, <1>3, <1>6 DEF Steady
<1>7. ASSUME ~failed, ~viewer.win.fullscreen, ~viewer.onTopLost
      PROVE  viewer.win.style = [border |-> TRUE, onTop |-> cfg.AlwaysOnTop]
  <2>1. PICK style : style = viewer.win.style
    OBVIOUS
  <2>2. OwnStyle(s.win) = style
    BY <1>3, <1>7, <2>1 DEF OwnStyle
  <2>3. style = [border |-> TRUE, onTop |-> style.onTop] /\ style.onTop = cfg.AlwaysOnTop
    BY <1>2, <1>3, <1>7, <2>2 DEF Steady
  <2> QED BY <2>1, <2>3
<1> QED BY <1>4, <1>5, <1>6, <1>7

\* Every part that has copies of settings has the current ones (SettingsChanged).
THEOREM CopiesStayCurrent == Spec => []CopiesAgree
BY SessionInvariant, CopiesOfSession, PTL

\* The invariant has the place of the window.
LEMMA PlaceOfSession ==
    ASSUME SessionInv
    PROVE  StaysOnDisplay
<1> SUFFICES ASSUME running, viewer.placedBy \in {"start", "viewer"}
             PROVE  \E d \in DOMAIN displays :
                        Within(viewer.win.rect,
                               IF viewer.placedBy = "viewer" THEN displays[d]
                               ELSE [pos |-> Minus(displays[d].pos, <<1, 1>>),
                                     size |-> Plus(displays[d].size, <<1, 1>>)])
  BY DEF StaysOnDisplay
<1>1. PICK s : s = Now
  OBVIOUS
<1>2. Steady(s, failed) /\ \A part \in ViewerParts : s[part] = viewer[part]
  BY <1>1, NowOf DEF SessionInv
<1>3. s.placedBy = viewer.placedBy /\ s.win = viewer.win
  BY <1>2 DEF ViewerParts
<1> QED BY <1>2, <1>3 DEF Steady, OnDisplay, Grown

\* A window the viewer placed is on a display, all of it (CreateWindow,
\* calculateWindowTopLeft), whatever the displays, the frame and the images are.
THEOREM WindowStaysOnDisplay == Spec => []StaysOnDisplay
BY SessionInvariant, PlaceOfSession, PTL

\* Every step of a session changes only what was meant.
LEMMA MeantStep ==
    ASSUME SessionInv, [Next]_vars, running, running'
    PROVE  Meant
<1>1. CASE Next
  <2>1. CASE cfg' = cfg
    BY <2>1 DEF Meant
  <2>2. CASE Stays
    BY <2>2, StaysMeant
  <2>3. CASE Meant
    BY <2>3
  <2> QED BY <1>1, <2>1, <2>2, <2>3, SessionSteps
<1>2. CASE UNCHANGED vars
  BY <1>2 DEF vars, Meant
<1> QED BY <1>1, <1>2

\* No setting changes but those the user edited (Settings::OnApply), however many
\* shortcuts, colours and cache sizes there are.
THEOREM OnlyEditedChange == Spec => UneditedStays
<1>1. SessionInv /\ [Next]_vars => [(running /\ running') => Meant]_vars
  BY MeantStep
<1>2. Spec => [][(running /\ running') => Meant]_vars
  BY <1>1, SessionInvariant, PTL DEF Spec
<1> QED BY <1>2 DEF UneditedStays, Meant

\* What a start of the program finds.
Restores ==
    (~running /\ running' /\ saved # Nothing) =>
        /\ \A f \in (Fields \cup {"Bindings"}) \ WindowFields :
            cfg'[f] = Reloaded(saved.cfg, f)
        /\ (saved.place # Nothing /\ Fits(saved.place)
                /\ \A a \in Axis : saved.place.size[a] >= MinWindow[a]) =>
            viewer'.win.rect = saved.place

\* A session that starts finds what was saved.
LEMMA RestoresStep ==
    ASSUME SessionInv, [Next]_vars
    PROVE  Restores
<1> SUFFICES ASSUME ~running, running', saved # Nothing
             PROVE  /\ \A f \in (Fields \cup {"Bindings"}) \ WindowFields :
                            cfg'[f] = Reloaded(saved.cfg, f)
                    /\ (saved.place # Nothing /\ Fits(saved.place)
                            /\ \A a \in Axis : saved.place.size[a] >= MinWindow[a]) =>
                        viewer'.win.rect = saved.place
  BY DEF Restores
<1>1. StartSession
  BY SessionSteps DEF vars
<1>2. World /\ OnDisk
  BY DEF SessionInv
<1>3. PICK e, p : e = saved.cfg /\ p = saved.place
  OBVIOUS
<1>4. /\ CfgTyped(e) /\ file = Saved(e)
      /\ p # Nothing => p = [pos |-> e.Pos, size |-> e.WindowSize]
  BY <1>2, <1>3 DEF OnDisk
<1>5. PICK c \in Load(file) : SameSettings(c, cfg') /\ viewer'.win.rect = CreateWindow(c)
  BY <1>1, <1>2, SessionStarts
<1>6. \A f \in CfgParts : c[f] = Reloaded(e, f)
  BY <1>4, <1>5, Restored
<1>7. \A f \in (Fields \cup {"Bindings"}) \ WindowFields : cfg'[f] = Reloaded(e, f)
  BY <1>5, <1>6 DEF SameSettings, CfgParts, Anchors, WindowFields
<1>8. ASSUME p # Nothing, Fits(p), \A a \in Axis : p.size[a] >= MinWindow[a]
      PROVE  CreateWindow(c) = p
  <2>1. {"Pos", "WindowSize"} \subseteq CfgParts
    BY Kinds DEF WindowFields
  <2>2. Reloaded(e, "Pos") = e.Pos /\ Reloaded(e, "WindowSize") = e.WindowSize
    BY DEF Reloaded
  <2>3. c.Pos = e.Pos /\ c.WindowSize = e.WindowSize
    BY <1>6, <2>1, <2>2
  <2>4. p = [pos |-> c.Pos, size |-> c.WindowSize]
    BY <1>4, <1>8, <2>3
  <2>5. c.Pos \in Point /\ c.WindowSize \in Point
    BY <1>4, <2>3, CfgTypedIs DEF CfgOK
  <2> QED BY <1>2, <1>8, <2>4, <2>5, WorldIs, CreateWindowIs
<1> QED BY <1>3, <1>5, <1>7, <1>8

\* The next session finds every setting, and its window the place it had (Reg::Load,
\* Reg::Save, PerformOnClose).
THEOREM SettingsRestored == Spec => NextStartRestores
<1>1. SessionInv /\ [Next]_vars => [Restores]_vars
  BY RestoresStep
<1>2. Spec => [][Restores]_vars
  BY <1>1, SessionInvariant, PTL DEF Spec
<1> QED BY <1>2 DEF NextStartRestores, Restores

-----------------------------------------------------------------------------
(* The mouse.                                                              *)

MouseParts == {"isPanning", "captures", "down", "reassigned"}

MouseOK(m) ==
    /\ DOMAIN m = MouseParts
    /\ m.captures \in Nat /\ m.down \subseteq Buttons

\* One button pans at most, and no wheel does, with these copies of the settings.
PansWith(used, f) == used[f] = MouseNumber("Pan")

OnePans(used) ==
    /\ Cardinality({f \in ClickFields : PansWith(used, f)}) <= 1
    /\ \A f \in WheelFields : ~PansWith(used, f)

\* The mouse is captured once, for a button that is held and pans.
Held(m, used) ==
    /\ m.captures <= 1
    /\ m.captures > 0 => m.isPanning = TRUE /\ \E b \in m.down : PansWith(used, Click[b])

MouseInv ==
    /\ MouseOK(mouse)
    /\ running /\ OnePans(viewer.used) /\ ~mouse.reassigned => Held(mouse, viewer.used)

\* Every button has a setting of its own.
LEMMA ButtonsApart ==
    /\ \A b \in Buttons : Click[b] \in ClickFields
    /\ \A b, c \in Buttons : b # c => Click[b] # Click[c]
BY DEF Buttons, Click, ClickFields

\* Two buttons that pan are one.
LEMMA OneButton ==
    ASSUME NEW used, OnePans(used), NEW b \in Buttons, NEW c \in Buttons,
           PansWith(used, Click[b]), PansWith(used, Click[c])
    PROVE  b = c
<1> SUFFICES ASSUME b # c PROVE FALSE
  OBVIOUS
<1>1. PICK f, g : f = Click[b] /\ g = Click[c]
  OBVIOUS
<1>2. f \in ClickFields /\ g \in ClickFields /\ f # g
  BY <1>1, ButtonsApart
<1>3. PICK S : S = {h \in ClickFields : PansWith(used, h)}
  OBVIOUS
<1>4. IsFiniteSet(ClickFields)
  <2>1. IsFiniteSet({}) 
    BY FS_EmptySet
  <2>2. IsFiniteSet({} \cup {"OnMouseLeft"})
    BY <2>1, FS_AddElement
  <2>3. IsFiniteSet(({} \cup {"OnMouseLeft"}) \cup {"OnMouseMiddle"})
    BY <2>2, FS_AddElement
  <2>4. IsFiniteSet((({} \cup {"OnMouseLeft"}) \cup {"OnMouseMiddle"}) \cup {"OnMouseRight"})
    BY <2>3, FS_AddElement
  <2>5. IsFiniteSet(((({} \cup {"OnMouseLeft"}) \cup {"OnMouseMiddle"}) \cup {"OnMouseRight"})
                        \cup {"OnMouseExtra1"})
    BY <2>4, FS_AddElement
  <2>6. IsFiniteSet((((({} \cup {"OnMouseLeft"}) \cup {"OnMouseMiddle"}) \cup {"OnMouseRight"})
                        \cup {"OnMouseExtra1"}) \cup {"OnMouseExtra2"})
    BY <2>5, FS_AddElement
  <2>7. ClickFields = (((({} \cup {"OnMouseLeft"}) \cup {"OnMouseMiddle"}) \cup {"OnMouseRight"})
                        \cup {"OnMouseExtra1"}) \cup {"OnMouseExtra2"}
    BY DEF ClickFields
  <2> QED BY <2>6, <2>7
<1>5. S \subseteq ClickFields /\ f \in S /\ g \in S
  BY <1>1, <1>2, <1>3
<1>6. IsFiniteSet(S) /\ Cardinality(S) <= 1
  BY <1>3, <1>4, <1>5, FS_Subset DEF OnePans
<1>7. /\ IsFiniteSet(S \ {f}) /\ Cardinality(S \ {f}) = Cardinality(S) - 1
      /\ Cardinality(S) \in Nat
  BY <1>5, <1>6, FS_RemoveElement, FS_CardinalityType
<1>8. g \in S \ {f}
  BY <1>2, <1>5
<1>9. Cardinality(S \ {f}) \in Nat /\ Cardinality(S \ {f}) # 0
  BY <1>7, <1>8, FS_CardinalityType, FS_EmptySet
<1> QED BY <1>6, <1>7, <1>9

\* What the mouse asks for holds a button down, or none.
LEMMA AskedDown ==
    ASSUME UserAsks, MouseOK(mouse)
    PROVE  \E held \in SUBSET Buttons : mouse' = [mouse EXCEPT !.down = @ \cup held]
<1> PICK kind \in start.acts :
            \E asked \in Requests(kind) : mouse' = [mouse EXCEPT !.down = @ \cup asked.down]
  BY DEF UserAsks
<1>1. PICK asked \in Requests(kind) : mouse' = [mouse EXCEPT !.down = @ \cup asked.down]
  OBVIOUS
<1>2. asked.down \subseteq Buttons
  <2>1. CASE kind = "key"
    BY <1>1, <2>1 DEF Requests
  <2>2. CASE kind = "menu"
    BY <1>1, <2>2 DEF Requests
  <2>3. CASE kind = "mouse"
    <3>1. asked \in MouseRequests
      BY <1>1, <2>3 DEF Requests
    <3>2. \/ asked.down = {}
          \/ \E b \in Buttons : asked.down = {b}
      BY <3>1 DEF MouseRequests
    <3> QED BY <3>2
  <2>4. CASE kind \notin {"key", "menu", "mouse"}
    BY <1>1, <2>4 DEF Requests
  <2> QED BY <2>1, <2>2, <2>3, <2>4
<1> QED BY <1>1, <1>2

\* A button that pans, or the wheel, takes the mouse.
LEMMA PanningHolds ==
    ASSUME NEW m, MouseOK(m), NEW used, OnePans(used), Held(m, used),
           NEW b \in Buttons \ m.down, PansWith(used, Click[b]), NEW n,
           n = [m EXCEPT !.isPanning = TRUE, !.captures = @ + 1, !.down = m.down \cup {b}]
    PROVE  Held(n, used)
<1>1. n.isPanning = TRUE /\ n.captures = m.captures + 1 /\ n.down = m.down \cup {b}
  BY DEF MouseOK, MouseParts
<1>2. m.captures = 0
  <2>1. ASSUME m.captures > 0
        PROVE  FALSE
    <3>1. PICK c \in m.down : PansWith(used, Click[c])
      BY <2>1 DEF Held
    <3>2. c \in Buttons /\ b # c
      BY <3>1 DEF MouseOK
    <3> QED BY <3>1, <3>2, OneButton
  <2> QED BY <2>1 DEF MouseOK
<1> QED BY <1>1, <1>2 DEF Held

\* A button is let go.
LEMMA ReleasedHolds ==
    ASSUME NEW m, MouseOK(m), NEW b \in m.down
    PROVE  /\ MouseOK(Released(m, b))
           /\ \A used : Held(m, used) => Held(Released(m, b), used)
           /\ Released(m, b).reassigned = m.reassigned
<1>1. PICK captures : captures = IF m.isPanning /\ m.captures > 0 THEN m.captures - 1 ELSE m.captures
  OBVIOUS
<1>2. PICK n : n = [m EXCEPT !.isPanning = FALSE, !.down = @ \ {b}, !.captures = captures]
  OBVIOUS
<1>3. n = Released(m, b)
  BY <1>1, <1>2 DEF Released
<1>4. /\ DOMAIN n = MouseParts /\ n.captures = captures /\ n.down = m.down \ {b}
      /\ n.reassigned = m.reassigned
  BY <1>2 DEF MouseOK, MouseParts
<1>5. captures \in Nat
  BY <1>1 DEF MouseOK
<1>6. MouseOK(n)
  BY <1>4, <1>5 DEF MouseOK
<1>7. ASSUME NEW used, Held(m, used)
      PROVE  Held(n, used)
  <2>1. captures = 0
    <3>1. CASE m.captures > 0
      <4>1. m.isPanning = TRUE /\ m.captures = 1
        BY <1>7, <3>1 DEF Held, MouseOK
      <4> QED BY <1>1, <4>1
    <3>2. CASE ~(m.captures > 0)
      BY <1>1, <3>2 DEF MouseOK
    <3> QED BY <3>1, <3>2
  <2> QED BY <1>4, <2>1 DEF Held
<1> QED BY <1>3, <1>4, <1>6, <1>7

\* The user's hand on the mouse.
LEMMA MouseHolds ==
    ASSUME MouseOK(mouse), Mouse
    PROVE  /\ MouseOK(mouse') /\ mouse'.reassigned = mouse.reassigned
           /\ OnePans(viewer.used) /\ Held(mouse, viewer.used) => Held(mouse', viewer.used)
<1>1. PICK m, n, used : m = mouse /\ n = mouse' /\ used = viewer.used
  OBVIOUS
<1>2. MouseOK(m) /\ DOMAIN m = MouseParts
  BY <1>1 DEF MouseOK
<1>3. \A f : Pans(f) <=> PansWith(used, f)
  BY <1>1 DEF Pans, PansWith
<1>4. CASE Panning
  <2>1. PICK held :
            /\ n = [m EXCEPT !.isPanning = TRUE, !.captures = @ + 1, !.down = held]
            /\ \/ \E b \in Buttons \ m.down : Pans(Click[b]) /\ held = m.down \cup {b}
               \/ held = m.down /\ \E f \in WheelFields : Pans(f)
    BY <1>1, <1>4 DEF Panning, PanStarts
  <2>2. /\ DOMAIN n = MouseParts /\ n.captures = m.captures + 1 /\ n.down = held
        /\ n.reassigned = m.reassigned
    BY <1>2, <2>1 DEF MouseParts
  <2>3. held \subseteq Buttons
    BY <1>2, <2>1 DEF MouseOK
  <2>4. MouseOK(n)
    BY <1>2, <2>2, <2>3 DEF MouseOK
  <2>5. ASSUME OnePans(used), Held(m, used)
        PROVE  Held(n, used)
    <3>1. CASE \E b \in Buttons \ m.down : Pans(Click[b]) /\ held = m.down \cup {b}
      BY <1>2, <1>3, <2>1, <2>5, <3>1, PanningHolds
    <3>2. CASE \E f \in WheelFields : Pans(f)
      BY <1>3, <2>5, <3>2 DEF OnePans
    <3> QED BY <2>1, <3>1, <3>2
  <2> QED BY <1>1, <2>2, <2>4, <2>5
<1>5. CASE \E b \in Buttons : MouseUp(b)
  <2>1. PICK b \in m.down : n = Released(m, b)
    BY <1>1, <1>5 DEF MouseUp
  <2> QED BY <1>1, <1>2, <2>1, ReleasedHolds
<1>6. CASE CaptureLost
  <2>1. n = [m EXCEPT !.captures = 0, !.down = {}]
    BY <1>1, <1>6 DEF CaptureLost
  <2>2. DOMAIN n = MouseParts /\ n.captures = 0 /\ n.down = {} /\ n.reassigned = m.reassigned
    BY <1>2, <2>1 DEF MouseParts
  <2> QED BY <1>1, <2>2 DEF MouseOK, Held
<1> QED BY <1>4, <1>5, <1>6 DEF Mouse

\* No button is held, and nothing is captured.
LEMMA NoMouseHolds ==
    /\ MouseOK(NoMouse)
    /\ \A used : Held(NoMouse, used)
<1>1. /\ DOMAIN NoMouse = MouseParts /\ NoMouse.captures = 0 /\ NoMouse.down = {}
  BY DEF NoMouse, MouseParts
<1> QED BY <1>1 DEF MouseOK, Held

\* The same mouse, or none, and the same copies of the settings.
LEMMA SameMouse ==
    ASSUME MouseInv, mouse' = mouse, running' => running /\ viewer'.used = viewer.used
    PROVE  MouseInv'
<1>1. MouseOK(mouse)'
  BY DEF MouseInv, MouseOK
<1>2. ASSUME running', OnePans(viewer.used)', ~mouse'.reassigned
      PROVE  Held(mouse, viewer.used)'
  <2>1. PICK used : used = viewer.used
    OBVIOUS
  <2>2. OnePans(used)
    BY <1>2, <2>1 DEF OnePans, PansWith
  <2>3. Held(mouse, used)
    BY <1>2, <2>1, <2>2 DEF MouseInv
  <2> QED BY <1>2, <2>1, <2>3 DEF Held, PansWith
<1> QED BY <1>1, <1>2 DEF MouseInv

\* A session starts or ends without a button held.
LEMMA NewMouse ==
    ASSUME mouse' = NoMouse
    PROVE  MouseInv'
<1>1. MouseOK(mouse)' /\ Held(mouse, viewer.used)'
  BY NoMouseHolds DEF MouseOK, Held
<1> QED BY <1>1 DEF MouseInv

\* The user asks for something, with a button or without.
LEMMA AskedHolds ==
    ASSUME MouseInv, UserAsks
    PROVE  /\ MouseOK(mouse') /\ mouse'.reassigned = mouse.reassigned
           /\ \A used : Held(mouse, used) => Held(mouse', used)
<1>1. PICK m, n : m = mouse /\ n = mouse'
  OBVIOUS
<1>2. MouseOK(m)
  BY <1>1 DEF MouseInv
<1>3. PICK held \in SUBSET Buttons : n = [m EXCEPT !.down = @ \cup held]
  BY <1>1, <1>2, AskedDown
<1>4. /\ DOMAIN n = MouseParts /\ n.down = m.down \cup held /\ n.captures = m.captures
      /\ n.isPanning = m.isPanning /\ n.reassigned = m.reassigned
  BY <1>2, <1>3 DEF MouseOK, MouseParts
<1>5. MouseOK(n)
  BY <1>2, <1>3, <1>4 DEF MouseOK
<1>6. \A used : Held(m, used) => Held(n, used)
  BY <1>4 DEF Held
<1> QED BY <1>1, <1>4, <1>5, <1>6

\* A step that gives another mouse, with the same copies of the settings.
LEMMA OtherMouse ==
    ASSUME MouseInv, running, NEW n, mouse' = n, MouseOK(n), n.reassigned = mouse.reassigned,
           OnePans(viewer.used) /\ Held(mouse, viewer.used) => Held(n, viewer.used),
           viewer'.used = viewer.used
    PROVE  MouseInv'
<1>1. MouseOK(mouse)'
  BY DEF MouseOK
<1>2. ASSUME running', OnePans(viewer.used)', ~mouse'.reassigned
      PROVE  Held(mouse, viewer.used)'
  <2>1. PICK used : used = viewer.used
    OBVIOUS
  <2>2. OnePans(used)
    BY <1>2, <2>1 DEF OnePans, PansWith
  <2>3. Held(mouse, used)
    BY <1>2, <2>1, <2>2 DEF MouseInv
  <2>4. Held(n, used)
    BY <2>1, <2>2, <2>3
  <2> QED BY <1>2, <2>1, <2>4 DEF Held, PansWith
<1> QED BY <1>1, <1>2 DEF MouseInv

\* An Apply: the mouse may be captured for a button that no longer pans.
LEMMA AppliedMouse ==
    ASSUME MouseInv, mouse' = [mouse EXCEPT !.reassigned = @ \/ mouse.captures > 0]
    PROVE  MouseInv'
<1>1. PICK m, n : m = mouse /\ n = mouse'
  OBVIOUS
<1>2. MouseOK(m)
  BY <1>1 DEF MouseInv
<1>3. PICK r : r = (m.reassigned \/ m.captures > 0)
  OBVIOUS
<1>4. n = [m EXCEPT !.reassigned = r]
  BY <1>1, <1>3
<1>5. /\ DOMAIN n = MouseParts /\ n.down = m.down /\ n.captures = m.captures
      /\ n.reassigned = r
  BY <1>2, <1>4 DEF MouseOK, MouseParts
<1>6. MouseOK(n)
  BY <1>2, <1>5 DEF MouseOK
<1>7. ~r => ~(m.captures > 0)
  BY <1>3
<1>8. ~r => \A used : Held(n, used)
  BY <1>2, <1>5, <1>7 DEF Held, MouseOK
<1>9. MouseOK(mouse)'
  BY <1>1, <1>6 DEF MouseOK
<1>10. ~mouse'.reassigned => Held(mouse, viewer.used)'
  BY <1>1, <1>5, <1>8 DEF Held, PansWith
<1> QED BY <1>9, <1>10 DEF MouseInv

\* MouseInv is inductive, together with SessionInv.
LEMMA MouseStep ==
    ASSUME SessionInv, MouseInv, [Next]_vars
    PROVE  MouseInv'
<1>1. CASE Next
  <2>1. CASE mouse' = NoMouse
    BY <2>1, NewMouse
  <2>2. CASE mouse' = mouse /\ (running' => running /\ viewer'.used = viewer.used)
    BY <2>2, SameMouse
  <2>3. CASE running /\ Stays /\ UserAsks
    <3>1. PICK n : n = mouse'
      OBVIOUS
    <3> QED BY <2>3, <3>1, AskedHolds, OtherMouse DEF Stays
  <2>4. CASE running /\ Stays /\ Mouse
    <3>1. PICK n : n = mouse'
      OBVIOUS
    <3>2. MouseOK(mouse)
      BY DEF MouseInv
    <3> QED BY <2>4, <3>1, <3>2, MouseHolds, OtherMouse DEF Stays
  <2>5. CASE mouse' = [mouse EXCEPT !.reassigned = @ \/ mouse.captures > 0]
    BY <2>5, AppliedMouse
  <2> QED BY <1>1, <2>1, <2>2, <2>3, <2>4, <2>5, SessionSteps DEF Stays
<1>2. CASE UNCHANGED vars
  BY <1>2, SameMouse DEF vars
<1> QED BY <1>1, <1>2

\* The invariant has the mouse.
LEMMA MouseOfSession ==
    ASSUME MouseInv
    PROVE  MouseIsReleased
<1>1. ASSUME running, Cardinality({f \in ClickFields : Pans(f)}) <= 1,
             \A f \in WheelFields : ~Pans(f), ~mouse.reassigned, mouse.captures > 0
      PROVE  \E b \in mouse.down : Pans(Click[b])
  <2>1. OnePans(viewer.used)
    BY <1>1 DEF OnePans, PansWith, Pans
  <2>2. Held(mouse, viewer.used)
    BY <1>1, <2>1 DEF MouseInv
  <2> QED BY <1>1, <2>2 DEF Held, PansWith, Pans
<1> QED BY <1>1 DEF MouseIsReleased

\* The mouse is given back when the buttons are up (ViewPort::OnMouseUp).
THEOREM MouseGivenBack == Spec => []MouseIsReleased
<1>1. Init => MouseInv
  BY NoMouseHolds DEF Init, MouseInv
<1>2. SessionInv /\ MouseInv /\ [Next]_vars => MouseInv'
  BY MouseStep
<1>3. Spec => []MouseInv
  BY <1>1, <1>2, SessionInvariant, PTL DEF Spec
<1> QED BY <1>3, MouseOfSession, PTL

-----------------------------------------------------------------------------
(* The place of the window for an image.                                   *)

\* The display of a window.
OnScreen(s) == DisplayFromPointFallback(s.win.rect.pos)

\* Full screen is on the display the window goes back to.
AtHome(w) ==
    w.fullscreen =>
        DisplayFromPointFallback(w.previousRegion.pos) = DisplayFromPointFallback(w.rect.pos)

\* The anchor that the window is placed by.
SameAnchor(c, e) ==
    /\ c.ResizePositionMethod = PositionToCurrent => e.AnchorCenter = c.AnchorCenter
    /\ c.ResizePositionMethod \notin {PositionToScreen, PositionToCurrent} =>
        e.AnchorTL = c.AnchorTL

\* Nothing changes that the place for any image depends on.
Framed(s, t) ==
    /\ SameSettings(s.cfg, t.cfg) /\ SameAnchor(s.cfg, t.cfg)
    /\ t.turned = s.turned
    /\ t.zoom.level = s.zoom.level /\ (~s.cfg.ResetZoom => t.zoom.mode = s.zoom.mode)
    /\ OnScreen(t) = OnScreen(s)
    /\ AtHome(s.win) => AtHome(t.win)

\* The zoom another image is shown with, and the state in which it is.
ShownMode(s) == IF s.cfg.ResetZoom THEN ModeName(s.cfg.DefaultZoom) ELSE s.zoom.mode

Shown(s, i) ==
    [cfg |-> s.cfg,
     win |-> [rect |-> s.win.rect, bar |-> s.cfg.ShowStatusBar, style |-> [border |-> TRUE]],
     image |-> i, known |-> {i}, turned |-> s.turned,
     zoom |-> [mode |-> ShownMode(s), level |-> s.zoom.level],
     imageZoom |-> Zoom!NonDynamicZoomLevel([mode |-> ShownMode(s), level |-> s.zoom.level])]

\* The place of an image follows from settings, turn, zoom, display and anchor.
PlaceIn(s, i) == PlaceFor(Shown(s, i))

PlacesOK(s) == \A i \in DOMAIN s.placed : s.placed[i] = PlaceIn(s, i)

\* What the place of a window is made of.
LEMMA SamePlace ==
    ASSUME NEW s, NEW t, OnScreen(t) = OnScreen(s),
           OptimalViewportSize(t) = OptimalViewportSize(s),
           WindowEdges(t.win) = WindowEdges(s.win),
           t.zoom.mode = s.zoom.mode, s.zoom.mode # "FitImage" => t.imageZoom = s.imageZoom,
           t.cfg.ResizeBehaviour = s.cfg.ResizeBehaviour,
           t.cfg.ResizePositionMethod = s.cfg.ResizePositionMethod, SameAnchor(s.cfg, t.cfg)
    PROVE  PlaceFor(t) = PlaceFor(s)
<1>1. Desktop(t) = Desktop(s)
  BY DEF Desktop, OnScreen
<1>2. calculateImageSize(t) = calculateImageSize(s)
  BY <1>1 DEF calculateImageSize
<1>3. s.zoom.mode # "FitImage" => calculateCappedImageSize(t) = calculateCappedImageSize(s)
  BY <1>1 DEF calculateCappedImageSize, ZoomedImageSize
<1>4. NewSize(t) = NewSize(s)
  BY <1>2, <1>3 DEF NewSize
<1>5. PICK size : size = NewSize(s)
  OBVIOUS
<1>6. \A p : Capped(t, p, size) = Capped(s, p, size)
  BY <1>1 DEF Capped
<1>7. calculateWindowTopLeft(t, size) = calculateWindowTopLeft(s, size)
  <2>1. CASE s.cfg.ResizePositionMethod = PositionToScreen
    BY <1>1, <2>1 DEF calculateWindowTopLeft, PositionToScreen, PositionToCurrent
  <2>2. CASE /\ s.cfg.ResizePositionMethod # PositionToScreen
             /\ s.cfg.ResizePositionMethod = PositionToCurrent
    <3>1. t.cfg.AnchorCenter = s.cfg.AnchorCenter
      BY <2>2 DEF SameAnchor
    <3> QED BY <1>6, <2>2, <3>1 DEF calculateWindowTopLeft
  <2>3. CASE s.cfg.ResizePositionMethod \notin {PositionToScreen, PositionToCurrent}
    <3>1. t.cfg.AnchorTL = s.cfg.AnchorTL
      BY <2>3 DEF SameAnchor
    <3> QED BY <1>6, <2>3, <3>1 DEF calculateWindowTopLeft
  <2> QED BY <2>1, <2>2, <2>3
<1> QED BY <1>4, <1>5, <1>7 DEF PlaceFor

\* Steps of this kind make one.
LEMMA FramedAgain ==
    ASSUME NEW s, NEW t, NEW u, Framed(s, t), Framed(t, u)
    PROVE  Framed(s, u)
<1>1. SameSettings(s.cfg, u.cfg)
  BY SameSettingsAgain DEF Framed
<1>2. t.cfg.ResizePositionMethod = s.cfg.ResizePositionMethod /\ t.cfg.ResetZoom = s.cfg.ResetZoom
  BY DEF Framed, SameSettings, CfgParts, Fields, Flags, Enumeration, Anchors
<1>3. SameAnchor(s.cfg, u.cfg)
  BY <1>2 DEF Framed, SameAnchor
<1> QED BY <1>1, <1>2, <1>3 DEF Framed

\* A state is framed by itself.
LEMMA FramedSelf ==
    ASSUME NEW s, Shape(s)
    PROVE  Framed(s, s)
BY DEF Framed, SameAnchor, SameSettings, Shape, CfgOK

\* Such a step changes the place of no image.
LEMMA FramedPlaces ==
    ASSUME NEW s, NEW t, Framed(s, t), NEW i
    PROVE  PlaceIn(t, i) = PlaceIn(s, i)
<1>1. /\ t.cfg.ResizePositionMethod = s.cfg.ResizePositionMethod
      /\ t.cfg.ResizeBehaviour = s.cfg.ResizeBehaviour
      /\ t.cfg.ResetZoom = s.cfg.ResetZoom /\ t.cfg.DefaultZoom = s.cfg.DefaultZoom
      /\ t.cfg.ShowStatusBar = s.cfg.ShowStatusBar
  BY DEF Framed, SameSettings, CfgParts, Fields, Flags, Enumeration, Anchors
<1>2. ShownMode(t) = ShownMode(s)
  BY <1>1 DEF ShownMode, Framed
<1>3. PICK u : u = Shown(s, i)
  OBVIOUS
<1>4. PICK v : v = Shown(t, i)
  OBVIOUS
<1>5. /\ u.cfg = s.cfg /\ u.win.rect = s.win.rect /\ u.win.bar = s.cfg.ShowStatusBar
      /\ u.win.style.border = TRUE
      /\ u.image = i /\ u.known = {i} /\ u.turned = s.turned /\ u.zoom.mode = ShownMode(s)
      /\ u.imageZoom = Zoom!NonDynamicZoomLevel([mode |-> ShownMode(s), level |-> s.zoom.level])
  BY <1>3 DEF Shown
<1>6. /\ v.cfg = t.cfg /\ v.win.rect = t.win.rect /\ v.win.bar = t.cfg.ShowStatusBar
      /\ v.win.style.border = TRUE
      /\ v.image = i /\ v.known = {i} /\ v.turned = t.turned /\ v.zoom.mode = ShownMode(t)
      /\ v.imageZoom = Zoom!NonDynamicZoomLevel([mode |-> ShownMode(t), level |-> t.zoom.level])
  BY <1>4 DEF Shown
<1>7. OnScreen(v) = OnScreen(u)
  BY <1>5, <1>6 DEF Framed, OnScreen
<1>8. OptimalViewportSize(v) = OptimalViewportSize(u)
  BY <1>5, <1>6 DEF OptimalViewportSize, Framed
<1>9. WindowEdges(v.win) = WindowEdges(u.win)
  BY <1>1, <1>5, <1>6 DEF WindowEdges
<1>10. v.zoom.mode = u.zoom.mode /\ v.imageZoom = u.imageZoom
  BY <1>2, <1>5, <1>6 DEF Framed
<1>11. SameAnchor(u.cfg, v.cfg)
  BY <1>5, <1>6 DEF Framed
<1>12. PlaceFor(v) = PlaceFor(u)
  BY <1>1, <1>5, <1>6, <1>7, <1>8, <1>9, <1>10, <1>11, SamePlace
<1> QED BY <1>3, <1>4, <1>12 DEF PlaceIn

\* The places that were noted stay right.
LEMMA PlacesStay ==
    ASSUME NEW s, NEW t, Framed(s, t), t.placed = s.placed, PlacesOK(s)
    PROVE  PlacesOK(t)
BY FramedPlaces DEF PlacesOK

\* A window put on the desktop is on the same display as before.
LEMMA StaysOnScreen ==
    ASSUME Arrangement(displays), NEW s, NEW r \in Rect, Within(r, Desktop(s)),
           \A a \in Axis : r.size[a] >= 0
    PROVE  DisplayFromPointFallback(r.pos) = OnScreen(s)
<1>1. PICK d \in DOMAIN displays : /\ DisplayFromPointFallback(s.win.rect.pos) = displays[d]
                                   /\ Desktop(s) = wxToRect(displays[d])
  BY DesktopType
<1>2. PICK e \in Rect : e = displays[d]
  BY DisplayTypes
<1>3. PICK p \in Point : p = r.pos
  BY RectOps
<1>4. PICK size \in Point : size = r.size
  BY RectOps
<1>5. PICK desk \in Rect : desk = wxToRect(e)
  BY RectOps
<1>6. ASSUME NEW a \in Axis
      PROVE  p[a] >= e.pos[a] /\ p[a] < BottomRight(e)[a]
  <2>1. p[a] >= desk.pos[a] /\ BottomRight(r)[a] <= BottomRight(desk)[a]
    BY <1>1, <1>2, <1>3, <1>5 DEF Within
  <2>2. desk.pos = e.pos /\ desk.size[a] = e.size[a] - 1
    BY <1>5, RectOps
  <2>3. /\ BottomRight(r)[a] = p[a] + size[a] /\ BottomRight(desk)[a] = desk.pos[a] + desk.size[a]
        /\ BottomRight(e)[a] = e.pos[a] + e.size[a]
    BY <1>3, <1>4, RectOps
  <2>4. p[a] \in Int /\ size[a] \in Int /\ e.pos[a] \in Int /\ e.size[a] \in Int /\ size[a] >= 0
    BY <1>4, RectOps DEF Point
  <2> QED BY <2>1, <2>2, <2>3, <2>4
<1>7. d \in GetFromPoint(p)
  BY <1>2, <1>6 DEF GetFromPoint, Holds
<1>8. PICK k \in GetFromPoint(p) : k = CHOOSE c \in GetFromPoint(p) : TRUE
  BY <1>7
<1>9. k = d
  BY <1>7, <1>8, OneDisplay
<1>10. GetFromPoint(p) # {}
  BY <1>7
<1>11. DisplayFromPointFallback(p) = displays[d]
  BY <1>8, <1>9, <1>10 DEF DisplayFromPointFallback
<1> QED BY <1>1, <1>3, <1>11 DEF OnScreen

\* A step that leaves the settings, and the window where it is.
LEMMA KeepsFramed ==
    ASSUME NEW s, NEW t, Keeps(s, t), t.cfg = s.cfg, t.win.rect = s.win.rect
    PROVE  Framed(s, t) /\ t.placed = s.placed
<1>1. t.turned = s.turned /\ t.placed = s.placed
  BY DEF Keeps, StateParts, ViewerParts
<1>2. t.win.fullscreen = s.win.fullscreen /\ t.win.previousRegion = s.win.previousRegion
  BY DEF Keeps, WinParts
<1>3. AtHome(s.win) => AtHome(t.win)
  BY <1>2 DEF AtHome
<1> QED BY <1>1, <1>3 DEF Keeps, Framed, SameAnchor, OnScreen

\* The picture is fitted.
LEMMA FittedFramed ==
    ASSUME NEW s, Shape(s)
    PROVE  Framed(s, Fitted(s)) /\ Fitted(s).placed = s.placed
<1>1. PICK t : t = Fitted(s)
  OBVIOUS
<1>2. Keeps(s, t) /\ t.win = s.win /\ t.cfg = s.cfg
  BY <1>1, FittedKeeps
<1> QED BY <1>1, <1>2, KeepsFramed

\* The window follows the picture, on its display and at its anchor.
LEMMA FollowImageFramed ==
    ASSUME NEW s, Shape(s), Arrangement(displays)
    PROVE  Framed(s, FollowImage(s)) /\ FollowImage(s).placed = s.placed
<1>1. PICK t : t = FollowImage(s)
  OBVIOUS
<1>2. CASE ~FollowsImage(s)
  <2>1. t = s
    BY <1>1, <1>2, FollowImageIs
  <2> QED BY <1>1, <2>1, FramedSelf
<1>3. CASE FollowsImage(s)
  <2>1. PICK r : r = PlaceFor(s)
    OBVIOUS
  <2>2. /\ Keeps(s, t) /\ t.win.rect = r /\ r \in Rect /\ Within(r, Desktop(s))
        /\ t.cfg = AnchorsFor(s, r).cfg
        /\ \A a \in Axis : r.size[a] >= 0
    BY <1>1, <1>3, <2>1, FollowImageIs
  <2>3. OnScreen(t) = OnScreen(s)
    BY <2>2, StaysOnScreen DEF OnScreen
  <2>4. SameAnchor(s.cfg, t.cfg)
    BY <2>2, AnchorsIs DEF SameAnchor
  <2>5. t.turned = s.turned /\ t.placed = s.placed
    BY <2>2 DEF Keeps, StateParts, ViewerParts
  <2>6. t.win.fullscreen = s.win.fullscreen
    BY <2>2 DEF Keeps, WinParts
  <2>7. AtHome(t.win)
    BY <1>3, <2>6 DEF FollowsImage, AtHome
  <2> QED BY <1>1, <2>2, <2>3, <2>4, <2>5, <2>7 DEF Keeps, Framed
<1> QED BY <1>2, <1>3

\* What the viewer does when the picture changed.
LEMMA ImageChangedFramed ==
    ASSUME NEW s, Shape(s), Arrangement(displays)
    PROVE  Framed(s, ImageChanged(s)) /\ ImageChanged(s).placed = s.placed
<1>1. PICK u : u = UpdateImageInformation(s)
  OBVIOUS
<1>2. Keeps(s, u) /\ u.win.rect = s.win.rect
  BY <1>1, UpdateImageInformationQuiet
<1>3. u.cfg = s.cfg
  <2>1. CASE ~s.win.fullscreen
    BY <1>1, <2>1 DEF UpdateImageInformation
  <2>2. CASE s.win.fullscreen
    <3>1. PICK w : w = [s.win EXCEPT !.bar = FALSE]
      OBVIOUS
    <3>2. WinOK(w)
      BY <3>1, BarIs DEF Shape
    <3>3. u = WithWindow(s, w)
      BY <1>1, <2>2, <3>1 DEF UpdateImageInformation
    <3> QED BY <3>2, <3>3, WithWindowIs
  <2> QED BY <2>1, <2>2
<1>4. Framed(s, u) /\ u.placed = s.placed
  BY <1>2, <1>3, KeepsFramed
<1>5. PICK t : t = ImageChanged(s)
  OBVIOUS
<1>6. t = FollowImage(u) /\ Shape(u)
  BY <1>1, <1>2, <1>5 DEF ImageChanged, Keeps
<1>7. Framed(u, t) /\ t.placed = u.placed
  BY <1>6, FollowImageFramed
<1> QED BY <1>4, <1>5, <1>7, FramedAgain

\* A part of the list, the picture or the window's history changes.
LEMMA PartFramed ==
    ASSUME NEW s, Shape(s), NEW part \in StateParts \ {"cfg", "win", "zoom", "turned"}, NEW v, NEW t,
           t = [s EXCEPT ![part] = v]
    PROVE  Framed(s, t) /\ (part # "placed" => t.placed = s.placed)
<1>1. t.cfg = s.cfg /\ t.win = s.win /\ t.zoom = s.zoom /\ t.turned = s.turned
  BY Update DEF Shape, StateParts, ViewerParts
<1>2. part # "placed" => t.placed = s.placed
  BY Update DEF Shape, StateParts, ViewerParts
<1> QED BY <1>1, <1>2 DEF Framed, SameAnchor, SameSettings, OnScreen, Shape, CfgOK

\* The picture has the zoom that its mode and level say, unless it is fitted.
Zoomed(s) ==
    (\A a \in Axis : OptimalViewportSize(s)[a] > 0) /\ s.zoom.mode # "FitImage" =>
        s.imageZoom = Zoom!NonDynamicZoomLevel(s.zoom)

\* A picture that is fitted has its zoom.
LEMMA FittedZoomed ==
    ASSUME NEW s, Shape(s)
    PROVE  Zoomed(Fitted(s))
<1>1. PICK t : t = Fitted(s)
  OBVIOUS
<1>2. /\ Keeps(s, t)
      /\ (\A a \in Axis : OptimalViewportSize(s)[a] > 0) /\ s.zoom.mode # "FitImage" =>
            t.imageZoom = Zoom!NonDynamicZoomLevel(s.zoom)
  BY <1>1, FittedKeeps
<1>3. t.image = s.image /\ t.known = s.known /\ t.turned = s.turned
  BY <1>2 DEF Keeps, StateParts, ViewerParts
<1>4. OptimalViewportSize(t) = OptimalViewportSize(s)
  BY <1>3 DEF OptimalViewportSize
<1>5. t.zoom.mode = s.zoom.mode /\ t.zoom.level = s.zoom.level
  BY <1>2 DEF Keeps
<1>6. Zoom!NonDynamicZoomLevel(t.zoom) = Zoom!NonDynamicZoomLevel(s.zoom)
  BY <1>5 DEF Zoom!NonDynamicZoomLevel
<1> QED BY <1>1, <1>2, <1>4, <1>5, <1>6 DEF Zoomed

\* Another mode of the zoom: it is the one for every image, or the zoom is reset anyway.
LEMMA WithZoomModeFramed ==
    ASSUME NEW s, Shape(s), NEW mode
    PROVE  LET t == WithZoomMode(s, mode)
           IN  /\ s.cfg.ResetZoom => Framed(s, t)
               /\ t.placed = s.placed /\ Zoomed(t) /\ t.zoom.mode = ModeName(mode)
               /\ t.win = s.win /\ t.cfg = s.cfg
<1>1. PICK name : name = ModeName(mode)
  OBVIOUS
<1>2. PICK u : u = [s EXCEPT !.zoom.mode = name]
  OBVIOUS
<1>3. /\ IsState(u) /\ \A part \in StateParts \ {"zoom"} : u[part] = s[part]
      /\ u.zoom = [s.zoom EXCEPT !.mode = name]
  BY <1>2 DEF Shape, IsState, StateParts, ViewerParts
<1>4. ZoomOK(u.zoom) /\ u.zoom.mode = name /\ u.zoom.level = s.zoom.level
  BY <1>3 DEF Shape, ZoomOK, ZoomParts
<1>5. /\ u.win = s.win /\ u.cfg = s.cfg /\ u.imageZoom = s.imageZoom /\ u.known = s.known
      /\ u.placed = s.placed /\ u.turned = s.turned
  BY <1>3 DEF StateParts, ViewerParts
<1>6. Shape(u)
  BY <1>3, <1>4, <1>5 DEF Shape
<1>7. s.cfg.ResetZoom => Framed(s, u)
  BY <1>4, <1>5 DEF Framed, SameAnchor, SameSettings, OnScreen, Shape, CfgOK
<1>8. PICK v : v = Fitted(u)
  OBVIOUS
<1>9. Keeps(u, v) /\ v.win = u.win /\ v.cfg = u.cfg
  BY <1>6, <1>8, FittedKeeps
<1>10. Framed(u, v) /\ v.placed = u.placed /\ Zoomed(v)
  BY <1>6, <1>8, FittedFramed, FittedZoomed
<1>11. PICK menu : menu = MenuFor(s, mode)
  OBVIOUS
<1>12. PICK t : t = [v EXCEPT !.menu = menu]
  OBVIOUS
<1>13. t = WithZoomMode(s, mode)
  BY <1>1, <1>2, <1>8, <1>11, <1>12 DEF WithZoomMode
<1>14. \A part \in StateParts \ {"menu"} : t[part] = v[part]
  BY <1>9, <1>12 DEF Keeps, Shape, IsState, StateParts, ViewerParts
<1>15. /\ t.win = v.win /\ t.cfg = v.cfg /\ t.zoom = v.zoom /\ t.imageZoom = v.imageZoom
       /\ t.image = v.image /\ t.known = v.known /\ t.turned = v.turned /\ t.placed = v.placed
  BY <1>14 DEF StateParts, ViewerParts
<1>16. Zoomed(t)
  BY <1>10, <1>15 DEF Zoomed, OptimalViewportSize
<1>17. Shape(v)
  BY <1>9 DEF Keeps
<1>18. Framed(v, t)
  BY <1>15, <1>17 DEF Framed, SameAnchor, SameSettings, OnScreen, Shape, CfgOK
<1>19. s.cfg.ResetZoom => Framed(s, t)
  BY <1>7, <1>10, <1>18, FramedAgain
<1>20. t.zoom.mode = name
  BY <1>4, <1>9, <1>15 DEF Keeps
<1> QED BY <1>1, <1>5, <1>9, <1>10, <1>13, <1>15, <1>16, <1>19, <1>20

\* The zoom is the one that counts.
Counts(s) == s.cfg.ResetZoom => s.zoom.mode = ModeName(s.cfg.DefaultZoom)

\* The window is where an image has its place, once the viewer has put it there.
LEMMA FollowedPlace ==
    ASSUME NEW s, Steady(s, FALSE), Arrangement(displays), s.cfg.ShowStatusBar \in BOOLEAN,
           Zoomed(s), NEW t, t = ImageChanged(s), FollowsImage(t), Counts(t)
    PROVE  t.win.rect = PlaceIn(t, t.image)
<1>1. Shape(s)
  BY DEF Steady
<1>2. PICK u : u = UpdateImageInformation(s)
  OBVIOUS
<1>3. Keeps(s, u) /\ Shape(u) /\ (~s.win.fullscreen => u = s)
  BY <1>1, <1>2, UpdateImageInformationQuiet DEF Keeps
<1>4. t = FollowImage(u)
  BY <1>2 DEF ImageChanged
<1>5. Keeps(s, t)
  BY <1>3, <1>4, FollowImageIs, KeepsAgain
<1>6. /\ t.win.fullscreen = s.win.fullscreen /\ t.win.maximized = s.win.maximized
      /\ t.win.iconized = s.win.iconized
  BY <1>5 DEF Keeps, WinParts
<1>7. ~s.win.fullscreen /\ u = s
  BY <1>3, <1>6 DEF FollowsImage
<1>8. t.image = s.image /\ t.known = s.known /\ t.turned = s.turned
  BY <1>5 DEF Keeps, StateParts, ViewerParts
<1>9. OptimalViewportSize(t) = OptimalViewportSize(s)
  BY <1>8 DEF OptimalViewportSize
<1>10. /\ t.cfg.ResizeWindow = s.cfg.ResizeWindow /\ t.cfg.ResizeBehaviour = s.cfg.ResizeBehaviour
       /\ t.cfg.ResizePositionMethod = s.cfg.ResizePositionMethod
       /\ t.cfg.ShowStatusBar = s.cfg.ShowStatusBar
  BY <1>5 DEF Keeps, SameSettings, CfgParts, Fields, Flags, Enumeration, Anchors
<1>11. FollowsImage(s)
  BY <1>6, <1>9, <1>10 DEF FollowsImage, IsMaximized
<1>12. t.win.rect = PlaceFor(s)
  BY <1>1, <1>4, <1>7, <1>11, FollowImageIs
<1>13. Framed(s, t)
  BY <1>1, <1>4, <1>7, FollowImageFramed
<1>14. PICK i : i = t.image
  OBVIOUS
<1>15. PICK v : v = Shown(t, i)
  OBVIOUS
<1>16. /\ v.cfg = t.cfg /\ v.win.rect = t.win.rect /\ v.win.bar = t.cfg.ShowStatusBar
       /\ v.win.style.border = TRUE
       /\ v.image = i /\ v.known = {i} /\ v.turned = t.turned /\ v.zoom.mode = ShownMode(t)
       /\ v.imageZoom = Zoom!NonDynamicZoomLevel([mode |-> ShownMode(t), level |-> t.zoom.level])
  BY <1>15 DEF Shown
<1>17. OnScreen(v) = OnScreen(s)
  BY <1>13, <1>16 DEF Framed, OnScreen
<1>18. \A a \in Axis : OptimalViewportSize(s)[a] > 0
  BY <1>11 DEF FollowsImage
<1>19. s.image \in s.known
  <2>1. SUFFICES ASSUME s.image \notin s.known
                 PROVE  FALSE
    OBVIOUS
  <2>2. OptimalViewportSize(s)[1] = 0
    BY <2>1 DEF OptimalViewportSize
  <2> QED BY <1>18, <2>2 DEF Axis
<1>20. OptimalViewportSize(v) = OptimalViewportSize(s)
  BY <1>8, <1>14, <1>16, <1>19 DEF OptimalViewportSize
<1>21. s.win.style.border = TRUE /\ s.win.bar = s.cfg.ShowStatusBar
  BY <1>7 DEF Steady, OwnStyle
<1>22. WindowEdges(v.win) = WindowEdges(s.win)
  BY <1>10, <1>16, <1>21 DEF WindowEdges
<1>23. t.zoom.mode = s.zoom.mode /\ t.zoom.level = s.zoom.level
  BY <1>5 DEF Keeps
<1>24. v.zoom.mode = s.zoom.mode
  BY <1>16, <1>23 DEF ShownMode, Counts
<1>25. s.zoom.mode # "FitImage" => v.imageZoom = s.imageZoom
  BY <1>16, <1>18, <1>23, <1>24 DEF Zoomed, Zoom!NonDynamicZoomLevel
<1>26. SameAnchor(s.cfg, v.cfg)
  BY <1>13, <1>16 DEF Framed
<1>27. PlaceFor(v) = PlaceFor(s)
  BY <1>10, <1>16, <1>17, <1>20, <1>22, <1>24, <1>25, <1>26, SamePlace
<1> QED BY <1>12, <1>14, <1>15, <1>27 DEF PlaceIn

\* The place is noted.
LEMMA PlacedFramed ==
    ASSUME NEW s, Shape(s)
    PROVE  /\ Framed(s, Placed(s))
           /\ (FollowsImage(s) /\ Counts(s) => s.win.rect = PlaceIn(s, s.image)) /\ PlacesOK(s) =>
                PlacesOK(Placed(s))
<1>1. PICK t : t = Placed(s)
  OBVIOUS
<1>2. CASE ~(FollowsImage(s) /\ Counts(s))
  <2>1. t = s
    BY <1>1, <1>2 DEF Placed, Counts
  <2> QED BY <1>1, <2>1, FramedSelf
<1>3. CASE FollowsImage(s) /\ Counts(s)
  <2>1. PICK places : places = [i \in DOMAIN s.placed \cup {s.image} |->
                                    IF i = s.image THEN s.win.rect ELSE s.placed[i]]
    OBVIOUS
  <2>2. PICK part \in StateParts \ {"cfg", "win", "zoom", "turned"} : part = "placed"
    BY DEF StateParts, ViewerParts
  <2>3. t = [s EXCEPT ![part] = places]
    <3>1. Placed(s) = [s EXCEPT !.placed = places]
      BY <1>3, <2>1 DEF Placed, Counts
    <3> QED BY <1>1, <2>2, <3>1
  <2>4. Framed(s, t)
    BY <2>2, <2>3, PartFramed
  <2>5. t.placed = places
    <3>1. IsState(s) /\ part \in StateParts
      BY <2>2 DEF Shape
    <3>2. t[part] = places
      BY <2>3, <3>1, Update
    <3> QED BY <2>2, <3>2
  <2>6. ASSUME PlacesOK(s), s.win.rect = PlaceIn(s, s.image), NEW i \in DOMAIN places
        PROVE  places[i] = PlaceIn(t, i)
    <3>1. PlaceIn(t, i) = PlaceIn(s, i)
      BY <2>4, FramedPlaces
    <3>2. places[i] = PlaceIn(s, i)
      BY <2>1, <2>6 DEF PlacesOK
    <3> QED BY <3>1, <3>2
  <2> QED BY <1>1, <1>3, <2>4, <2>5, <2>6 DEF PlacesOK
<1> QED BY <1>2, <1>3

\* What is noted stays right, unless an Apply failed.
Upholds(s, t, lax) == Framed(s, t) /\ (~lax /\ PlacesOK(s) => PlacesOK(t))

\* Two such steps make one.
LEMMA UpholdsAgain ==
    ASSUME NEW s, NEW t, NEW u, NEW lax, Upholds(s, t, lax), Upholds(t, u, lax)
    PROVE  Upholds(s, u, lax)
<1>1. Framed(s, u)
  BY FramedAgain DEF Upholds
<1> QED BY <1>1 DEF Upholds

\* Where nothing is noted, the places stay right if they depend on nothing that changes.
LEMMA UpholdsSame ==
    ASSUME NEW s, NEW t, NEW lax, Framed(s, t), t.placed = s.placed
    PROVE  Upholds(s, t, lax)
BY PlacesStay DEF Upholds

\* Parts that have nothing to do with it.
LEMMA PartsUphold ==
    ASSUME NEW s, Shape(s), NEW t, NEW lax,
           \A part \in {"cfg", "win", "zoom", "turned", "placed"} : t[part] = s[part]
    PROVE  Upholds(s, t, lax)
<1>1. t.cfg = s.cfg /\ t.win = s.win /\ t.zoom = s.zoom /\ t.turned = s.turned /\ t.placed = s.placed
  OBVIOUS
<1>2. Framed(s, t)
  BY <1>1 DEF Framed, SameAnchor, SameSettings, OnScreen, Shape, CfgOK
<1> QED BY <1>1, <1>2, UpholdsSame

\* The viewer follows a picture that has its zoom, and notes the place.
LEMMA NotedPlace ==
    ASSUME NEW s, NEW lax \in BOOLEAN, Steady(s, lax), Arrangement(displays),
           s.cfg.ShowStatusBar \in BOOLEAN, Zoomed(s)
    PROVE  Upholds(s, Placed(ImageChanged(s)), lax)
<1>1. Shape(s)
  BY DEF Steady
<1>2. PICK t : t = ImageChanged(s)
  OBVIOUS
<1>3. Framed(s, t) /\ t.placed = s.placed
  BY <1>1, <1>2, ImageChangedFramed
<1>4. Upholds(s, t, lax)
  BY <1>3, UpholdsSame
<1>5. Shape(t)
  BY <1>1, <1>2, ImageChangedQuiet DEF Quiet
<1>6. ASSUME ~lax
      PROVE  FollowsImage(t) /\ Counts(t) => t.win.rect = PlaceIn(t, t.image)
  <2>1. lax = FALSE
    BY <1>6
  <2>2. Steady(s, FALSE)
    BY <2>1
  <2> QED BY <1>2, <2>2, FollowedPlace
<1>7. Upholds(t, Placed(t), lax)
  BY <1>5, <1>6, PlacedFramed DEF Upholds
<1> QED BY <1>2, <1>4, <1>7, UpholdsAgain

\* Another image is shown.
LEMMA ShowImageUpholds ==
    ASSUME NEW s, NEW lax \in BOOLEAN, Steady(s, lax), Arrangement(displays),
           s.cfg.ShowStatusBar \in BOOLEAN, NEW i
    PROVE  Upholds(s, ShowImage(s, i), lax)
<1>1. PICK t : t = [s EXCEPT !.image = i]
  OBVIOUS
<1>2. Quiet(s, t) /\ Shape(t) /\ Shape(s)
  BY <1>1, ListPartQuiet DEF Quiet, Steady
<1>3. \A part \in {"cfg", "win", "zoom", "turned", "placed"} : t[part] = s[part]
  BY <1>1, <1>2 DEF Shape, IsState, StateParts, ViewerParts
<1>4. Upholds(s, t, lax) /\ t.cfg = s.cfg
  BY <1>2, <1>3, PartsUphold
<1>5. PICK u : u = Fitted(t)
  OBVIOUS
<1>6. Quiet(t, u) /\ Shape(u) /\ Zoomed(u) /\ u.cfg = t.cfg
  BY <1>2, <1>5, FittedQuiet, FittedZoomed, FittedKeeps DEF Quiet
<1>7. Upholds(t, u, lax)
  BY <1>2, <1>5, FittedFramed, UpholdsSame
<1>8. PICK mode : mode = s.cfg.DefaultZoom
  OBVIOUS
<1>9. PICK v : v = IF s.cfg.ResetZoom THEN WithZoomMode(u, mode) ELSE u
  OBVIOUS
<1>10. Quiet(u, v) /\ Zoomed(v) /\ Upholds(u, v, lax) /\ v.cfg = u.cfg
  <2>1. CASE s.cfg.ResetZoom
    <3>1. v = WithZoomMode(u, mode)
      BY <1>9, <2>1
    <3>2. Quiet(u, v)
      BY <1>6, <3>1, WithZoomModeQuiet
    <3>3. Framed(u, v) /\ v.placed = u.placed /\ Zoomed(v) /\ v.cfg = u.cfg
      BY <1>4, <1>6, <2>1, <3>1, WithZoomModeFramed
    <3> QED BY <3>2, <3>3, UpholdsSame
  <2>2. CASE ~s.cfg.ResetZoom
    <3>1. v = u
      BY <1>9, <2>2
    <3>2. Quiet(u, u) /\ Framed(u, u)
      BY <1>6, QuietSelf, FramedSelf
    <3> QED BY <1>6, <3>1, <3>2, UpholdsSame
  <2> QED BY <2>1, <2>2
<1>11. Steady(v, lax)
  BY <1>2, <1>6, <1>10, QuietSteady
<1>12. v.cfg.ShowStatusBar \in BOOLEAN
  BY <1>4, <1>6, <1>10
<1>13. Upholds(v, Placed(ImageChanged(v)), lax)
  BY <1>10, <1>11, <1>12, NotedPlace
<1>14. ShowImage(s, i) = Placed(ImageChanged(v))
  BY <1>1, <1>5, <1>8, <1>9 DEF ShowImage
<1>15. Upholds(s, v, lax)
  BY <1>4, <1>7, <1>10, UpholdsAgain
<1> QED BY <1>13, <1>14, <1>15, UpholdsAgain

\* Another image is shown if it is another one.
LEMMA ActiveImageUpholds ==
    ASSUME NEW s, NEW lax \in BOOLEAN, Steady(s, lax), Arrangement(displays),
           s.cfg.ShowStatusBar \in BOOLEAN, NEW i
    PROVE  Upholds(s, ActiveImage(s, i), lax)
<1>1. ActiveImage(s, i) \in {s, ShowImage(s, i)}
  BY DEF ActiveImage
<1>2. Upholds(s, s, lax)
  BY PartsUphold DEF Steady
<1> QED BY <1>1, <1>2, ShowImageUpholds

\* The folder is read.
LEMMA SetImageLocationUpholds ==
    ASSUME NEW s, NEW lax \in BOOLEAN, Steady(s, lax), Arrangement(displays),
           s.cfg.ShowStatusBar \in BOOLEAN, NEW path
    PROVE  Upholds(s, SetImageLocation(s, path), lax)
<1>1. PICK at : at = IF path \in Range(start.folder)
                     THEN CHOOSE k \in DOMAIN start.folder : start.folder[k] = path
                     ELSE 1
  OBVIOUS
<1>2. PICK pending : pending = [i \in Images |-> {}]
  OBVIOUS
<1>3. PICK t : t = [s EXCEPT !.list = start.folder, !.forward = TRUE, !.known = {},
                             !.pending = pending, !.at = at]
  OBVIOUS
<1>4. /\ IsState(t) /\ t.known = {}
      /\ \A part \in StateParts \ {"list", "forward", "known", "pending", "at"} : t[part] = s[part]
  BY <1>3 DEF Steady, Shape, IsState, StateParts, ViewerParts
<1>5. /\ \A part \in StateParts \ FreeParts : t[part] = s[part]
      /\ t.zoom = s.zoom /\ t.imageZoom = s.imageZoom /\ t.menu = s.menu
      /\ \A part \in {"cfg", "win", "zoom", "turned", "placed"} : t[part] = s[part]
  BY <1>4 DEF StateParts, ViewerParts, FreeParts
<1>6. Shape(s)
  BY DEF Steady
<1>7. Steady(t, lax)
  <2>1. ZoomOK(t.zoom) /\ t.imageZoom \in Factor /\ t.known \subseteq Images
    BY <1>4, <1>5, <1>6 DEF Shape
  <2>2. MenuAgrees(s) => MenuAgrees(t)
    BY <1>5 DEF MenuAgrees
  <2>3. Quiet(s, t)
    BY <1>4, <1>5, <1>6, <2>1, <2>2, FreePartsQuiet
  <2> QED BY <2>3, QuietSteady
<1>8. Upholds(s, t, lax)
  BY <1>5, <1>6, PartsUphold
<1>9. t.cfg.ShowStatusBar \in BOOLEAN
  BY <1>5
<1>10. PICK i : i = CurrentImage(t)
  OBVIOUS
<1>11. Upholds(s, ShowImage(t, i), lax)
  BY <1>7, <1>8, <1>9, ShowImageUpholds, UpholdsAgain
<1>12. SetImageLocation(s, path) \in {s, ShowImage(t, i)}
  BY <1>1, <1>2, <1>3, <1>10 DEF SetImageLocation
<1>13. Upholds(s, s, lax)
  BY <1>6, PartsUphold
<1> QED BY <1>11, <1>12, <1>13

\* Full screen is on the display of the window, and left to it again.
LEMMA EnterFullscreenFramed ==
    ASSUME NEW s, NEW lax, Steady(s, lax), Arrangement(displays), ~s.win.fullscreen
    PROVE  LET t == EnterFullscreen(s) IN Framed(s, t) /\ t.placed = s.placed
<1>1. PICK t : t = EnterFullscreen(s)
  OBVIOUS
<1>2. /\ Leaves(s, t) /\ t.cfg = s.cfg /\ t.win.fullscreen = TRUE
      /\ t.win.rect = Desktop(s) /\ t.win.previousRegion = wxToRect(s.win.rect)
  BY <1>1, EnterFullscreenSteady
<1>3. PICK r \in Rect : r = Desktop(s)
  BY DesktopType
<1>4. ASSUME NEW a \in Axis
      PROVE  r.size[a] >= 0
  <2>1. MinWindow[a] <= r.size[a] /\ MinWindow[a] >= 0
    BY <1>3, MinFits, PointValues
  <2>2. MinWindow[a] \in Int /\ r.size[a] \in Int
    BY <1>3, RectOps, PointValues DEF Point
  <2> QED BY <2>1, <2>2
<1>5. ASSUME NEW a \in Axis
      PROVE  r.pos[a] >= r.pos[a] /\ BottomRight(r)[a] <= BottomRight(r)[a]
  <2>1. r.pos[a] \in Int /\ BottomRight(r)[a] \in Int
    BY <1>3, RectOps DEF Point
  <2> QED BY <2>1
<1>6. Within(r, Desktop(s))
  BY <1>3, <1>5 DEF Within
<1>7. OnScreen(t) = OnScreen(s)
  BY <1>2, <1>3, <1>4, <1>6, StaysOnScreen DEF OnScreen
<1>8. wxToRect(s.win.rect).pos = s.win.rect.pos
  BY RectOps DEF Steady, Shape, WinOK
<1>9. AtHome(t.win)
  BY <1>2, <1>7, <1>8 DEF AtHome, OnScreen
<1>10. SameAnchor(s.cfg, t.cfg)
  BY <1>2 DEF SameAnchor
<1>11. t.placed = s.placed /\ t.turned = s.turned
  BY <1>2 DEF Leaves
<1> QED BY <1>1, <1>2, <1>7, <1>9, <1>10, <1>11 DEF Framed, Leaves

\* Full screen is left.
LEMMA LeaveFullscreenFramed ==
    ASSUME NEW s, NEW lax, Steady(s, lax), s.win.fullscreen, s.cfg.ShowStatusBar \in BOOLEAN,
           AtHome(s.win)
    PROVE  LET t == LeaveFullscreen(s) IN Framed(s, t) /\ t.placed = s.placed
<1>1. PICK t : t = LeaveFullscreen(s)
  OBVIOUS
<1>2. /\ Leaves(s, t) /\ t.cfg = s.cfg /\ t.win.fullscreen = FALSE
      /\ t.win.rect = s.win.previousRegion
  BY <1>1, LeaveFullscreenSteady
<1>3. OnScreen(t) = OnScreen(s)
  BY <1>2 DEF OnScreen, AtHome
<1>4. AtHome(t.win)
  BY <1>2 DEF AtHome
<1>5. SameAnchor(s.cfg, t.cfg)
  BY <1>2 DEF SameAnchor
<1>6. t.placed = s.placed /\ t.turned = s.turned
  BY <1>2 DEF Leaves
<1> QED BY <1>1, <1>2, <1>3, <1>4, <1>5, <1>6 DEF Framed, Leaves

\* Full screen and back, with the dialogs, changes the place of no image.
LEMMA ToggledFullscreenUpholds ==
    ASSUME NEW s, NEW lax, Steady(s, lax), Arrangement(displays), s.cfg.ShowStatusBar \in BOOLEAN,
           AtHome(s.win)
    PROVE  Upholds(s, ToggledFullscreen(s), lax)
<1>1. PICK d : d = InitDialogs(s.dialog, s.cfg)
  OBVIOUS
<1>2. PICK made : made = [s EXCEPT !.dialog = d]
  OBVIOUS
<1>3. Steady(made, lax) /\ \A part \in StateParts \ {"dialog"} : made[part] = s[part]
  BY <1>2, DialogSteady
<1>4. PICK u : u = IF s.adjust.shown THEN ShowAdjust(made) ELSE made
  OBVIOUS
<1>5. /\ Steady(u, lax)
      /\ \A part \in StateParts \ {"dialog", "adjust"} : u[part] = s[part]
  <2>1. /\ Steady(ShowAdjust(made), lax)
        /\ \A part \in StateParts \ {"adjust"} : ShowAdjust(made)[part] = made[part]
    BY <1>3, ShowAdjustSteady
  <2>2. Steady(u, lax) /\ \A part \in StateParts \ {"adjust"} : u[part] = made[part]
    BY <1>3, <1>4, <2>1
  <2> QED BY <1>3, <2>2
<1>6. \A part \in {"cfg", "win", "zoom", "turned", "placed"} : u[part] = s[part]
  BY <1>5 DEF StateParts, ViewerParts
<1>7. Upholds(s, u, lax)
  BY <1>6, PartsUphold DEF Steady
<1>8. u.win = s.win /\ u.cfg = s.cfg
  BY <1>6
<1>9. PICK v : v = IF u.win.fullscreen THEN LeaveFullscreen(u) ELSE EnterFullscreen(u)
  OBVIOUS
<1>10. Framed(u, v) /\ v.placed = u.placed /\ Shape(v)
  <2>1. CASE u.win.fullscreen
    <3>1. v = LeaveFullscreen(u)
      BY <1>9, <2>1
    <3>2. Framed(u, v) /\ v.placed = u.placed
      BY <1>5, <1>8, <2>1, <3>1, LeaveFullscreenFramed
    <3>3. Steady(v, lax)
      BY <1>5, <1>8, <2>1, <3>1, LeaveFullscreenSteady
    <3> QED BY <3>2, <3>3 DEF Steady
  <2>2. CASE ~u.win.fullscreen
    <3>1. v = EnterFullscreen(u)
      BY <1>9, <2>2
    <3>2. Framed(u, v) /\ v.placed = u.placed
      BY <1>5, <2>2, <3>1, EnterFullscreenFramed
    <3>3. Steady(v, lax)
      BY <1>5, <2>2, <3>1, EnterFullscreenSteady
    <3> QED BY <3>2, <3>3 DEF Steady
  <2> QED BY <2>1, <2>2
<1>11. Upholds(u, v, lax)
  BY <1>10, UpholdsSame
<1>12. PICK t : t = ImageChanged(v)
  OBVIOUS
<1>13. Upholds(v, t, lax)
  BY <1>10, <1>12, ImageChangedFramed, UpholdsSame
<1>14. t = ToggledFullscreen(s)
  <2>1. made = [s EXCEPT !.dialog = InitDialogs(@, s.cfg)]
    BY <1>1, <1>2
  <2> QED BY <1>4, <1>9, <1>12, <2>1 DEF ToggledFullscreen, ToggleFullscreenMode
<1> QED BY <1>7, <1>11, <1>13, <1>14, UpholdsAgain

\* Zoom and turn take the window along, in full screen too.
LEMMA FollowsHome ==
    ASSUME NEW s, Shape(s), Arrangement(displays), NEW t, t.win = s.win, Shape(t), AtHome(s.win)
    PROVE  /\ AtHome(ImageChanged(t).win) /\ AtHome(Fitted(t).win)
           /\ AtHome(Fitted(ImageChanged(t)).win)
<1>1. AtHome(t.win)
  OBVIOUS
<1>2. AtHome(ImageChanged(t).win)
  BY <1>1, ImageChangedFramed DEF Framed
<1>3. Shape(ImageChanged(t))
  BY ImageChangedQuiet DEF Quiet
<1> QED BY <1>1, <1>2, <1>3, FittedKeeps

\* A window that forgets its places.
LEMMA UnplacedIs ==
    ASSUME NEW s, Shape(s)
    PROVE  Unplaced(s).placed = <<>> /\ Unplaced(s).win = s.win
<1>1. PICK t : t = [s EXCEPT !.placed = <<>>]
  OBVIOUS
<1>2. t.placed = <<>> /\ t.win = s.win
  BY <1>1 DEF Shape, IsState, StateParts, ViewerParts
<1> QED BY <1>1, <1>2 DEF Unplaced

\* Where no place is noted, none is wrong.
LEMMA NothingPlaced ==
    ASSUME NEW s, s.placed = <<>>
    PROVE  PlacesOK(s)
BY DEF PlacesOK

\* Another mode of the zoom, which forgets the places.
LEMMA SetZoomModeHome ==
    ASSUME NEW s, Shape(s), Arrangement(displays), AtHome(s.win), NEW mode
    PROVE  LET t == Unplaced(SetZoomMode(s, mode)) IN AtHome(t.win) /\ t.placed = <<>>
<1>1. PICK u : u = WithZoomMode(s, mode)
  OBVIOUS
<1>2. u.win = s.win /\ Shape(u)
  BY <1>1, WithZoomModeFramed, WithZoomModeQuiet DEF Quiet
<1>3. PICK v : v = ImageChanged(u)
  OBVIOUS
<1>4. AtHome(v.win) /\ Shape(v)
  BY <1>2, <1>3, FollowsHome, ImageChangedQuiet DEF Quiet
<1>5. v = SetZoomMode(s, mode)
  BY <1>1, <1>3 DEF SetZoomMode
<1> QED BY <1>4, <1>5, UnplacedIs

\* A step of the zoom, which forgets them too.
LEMMA ZoomStepHome ==
    ASSUME NEW s, Shape(s), Arrangement(displays), AtHome(s.win),
           NEW r, ZoomOK(r.zoom), r.zoom.mode = "Free"
    PROVE  LET t == Unplaced(ZoomStep(s, r)) IN AtHome(t.win) /\ t.placed = <<>>
<1>1. PICK z : z = r.zoom
  OBVIOUS
<1>2. PICK u : u = [s EXCEPT !.zoom = z]
  OBVIOUS
<1>3. /\ IsState(u) /\ u.zoom = z /\ \A part \in StateParts \ {"zoom"} : u[part] = s[part]
  BY <1>2 DEF Shape, IsState, StateParts, ViewerParts
<1>4. u.win = s.win /\ u.cfg = s.cfg /\ u.imageZoom = s.imageZoom /\ u.known = s.known
  BY <1>3 DEF StateParts, ViewerParts
<1>5. Shape(u)
  BY <1>1, <1>3, <1>4 DEF Shape
<1>6. PICK v : v = IF r.changed THEN Fitted(u) ELSE u
  OBVIOUS
<1>7. Shape(v) /\ v.win = u.win
  BY <1>5, <1>6, FittedKeeps DEF Keeps
<1>8. PICK menu : menu = [fit |-> FALSE, full |-> v.imageZoom[1] = v.imageZoom[2]]
  OBVIOUS
<1>9. PICK w : w = [v EXCEPT !.menu = menu]
  OBVIOUS
<1>10. w = MenuForLevel(v)
  BY <1>8, <1>9 DEF MenuForLevel
<1>11. IsState(w) /\ \A part \in StateParts \ {"menu"} : w[part] = v[part]
  BY <1>7, <1>9 DEF Shape, IsState, StateParts, ViewerParts
<1>12. /\ w.win = v.win /\ w.cfg = v.cfg /\ w.zoom = v.zoom /\ w.imageZoom = v.imageZoom
       /\ w.known = v.known
  BY <1>11 DEF StateParts, ViewerParts
<1>13. Shape(w)
  BY <1>7, <1>11, <1>12 DEF Shape
<1>14. PICK t : t = ImageChanged(w)
  OBVIOUS
<1>15. AtHome(t.win) /\ Shape(t)
  <2>1. w.win = s.win
    BY <1>4, <1>7, <1>12
  <2>2. AtHome(t.win)
    BY <1>13, <1>14, <2>1, FollowsHome
  <2> QED BY <1>13, <1>14, <2>2, ImageChangedQuiet DEF Quiet
<1>16. t = ZoomStep(s, r)
  BY <1>1, <1>2, <1>6, <1>10, <1>14 DEF ZoomStep
<1> QED BY <1>15, <1>16, UnplacedIs

\* The picture is turned, which forgets them too.
LEMMA RotateHome ==
    ASSUME NEW s, Shape(s), Arrangement(displays), AtHome(s.win), NEW turned
    PROVE  LET t == Unplaced(Rotate(s, turned)) IN AtHome(t.win) /\ t.placed = <<>>
<1>1. PICK u : u = [s EXCEPT !.turned = turned]
  OBVIOUS
<1>2. Shape(u) /\ u.win = s.win
  BY <1>1, ListPartQuiet DEF Quiet, Shape, IsState, StateParts, ViewerParts
<1>3. PICK v : v = Fitted(u)
  OBVIOUS
<1>4. Shape(v) /\ v.win = s.win
  BY <1>2, <1>3, FittedKeeps DEF Keeps
<1>5. PICK w : w = ImageChanged(v)
  OBVIOUS
<1>6. PICK t : t = Fitted(w)
  OBVIOUS
<1>7. AtHome(t.win)
  BY <1>4, <1>5, <1>6, FollowsHome
<1>8. Shape(w)
  BY <1>4, <1>5, ImageChangedQuiet DEF Quiet
<1>9. Shape(t)
  BY <1>6, <1>8, FittedKeeps DEF Keeps
<1>10. t = Rotate(s, turned)
  BY <1>1, <1>3, <1>5, <1>6 DEF Rotate
<1> QED BY <1>7, <1>9, <1>10, UnplacedIs

\* What is noted stays right, or is forgotten.
Replaces(s, t, lax) == Upholds(s, t, lax) \/ (AtHome(t.win) /\ t.placed = <<>>)

\* The list, or the image in it, changes.
LEMMA ListResultsUphold ==
    ASSUME NEW s, NEW lax \in BOOLEAN, Steady(s, lax), Arrangement(displays),
           s.cfg.ShowStatusBar \in BOOLEAN, NEW r, r.do \in ListRequests,
           NEW u \in ListResults(s, r), NEW i
    PROVE  Upholds(s, ActiveImage(u, i), lax)
<1>1. Shape(s)
  BY DEF Steady
<1>2. Quiet(s, u) /\ \A part \in StateParts \ {"list", "at", "forward"} : u[part] = s[part]
  BY <1>1, ListResultsQuiet
<1>3. \A part \in {"cfg", "win", "zoom", "turned", "placed"} : u[part] = s[part]
  BY <1>2 DEF StateParts, ViewerParts
<1>4. Upholds(s, u, lax) /\ u.cfg.ShowStatusBar \in BOOLEAN
  BY <1>1, <1>3, PartsUphold
<1>5. Steady(u, lax)
  BY <1>2, QuietSteady
<1>6. Upholds(u, ActiveImage(u, i), lax)
  BY <1>4, <1>5, ActiveImageUpholds
<1> QED BY <1>4, <1>6, UpholdsAgain

\* The settings dialog.
LEMMA DialogUpholds ==
    ASSUME NEW s, NEW lax, Steady(s, lax), NEW d
    PROVE  Upholds(s, [s EXCEPT !.dialog = d], lax)
<1>1. PICK t : t = [s EXCEPT !.dialog = d]
  OBVIOUS
<1>2. /\ Steady(t, lax) /\ t.dialog = d
      /\ \A part \in StateParts \ {"dialog"} : t[part] = s[part]
  BY <1>1, DialogSteady DEF Steady
<1>3. \A part \in {"cfg", "win", "zoom", "turned", "placed"} : t[part] = s[part]
  BY <1>2 DEF StateParts, ViewerParts
<1> QED BY <1>1, <1>3, PartsUphold DEF Steady

\* What the user asks for.
LEMMA ResultsReplace ==
    ASSUME NEW s, NEW lax \in BOOLEAN, Steady(s, lax), Arrangement(displays),
           s.cfg.ShowStatusBar \in BOOLEAN, AtHome(s.win), NEW r, NEW t \in Results(s, r)
    PROVE  Replaces(s, t, lax)
<1>0. Shape(s)
  BY DEF Steady
<1>1. /\ "Open" \notin ListRequests
      /\ "ToggleFullscreen" \notin ListRequests \cup {"Open"}
      /\ ModeRequests \cap (ListRequests \cup {"Open", "ToggleFullscreen"}) = {}
      /\ {"ZoomIn", "ZoomOut"} \cap (ListRequests \cup ModeRequests \cup {"Open", "ToggleFullscreen"}) = {}
  BY DEF ListRequests, BrowseActions, RemoveActions, ModeRequests
<1>2. /\ {"RotateLeft", "RotateRight", "Turn"} \cap (ListRequests \cup ModeRequests
                 \cup {"Open", "ToggleFullscreen", "ZoomIn", "ZoomOut"}) = {}
      /\ {"OpenSettings", "Adjust"} \cap (ListRequests \cup ModeRequests
                 \cup {"Open", "ToggleFullscreen", "ZoomIn", "ZoomOut", "RotateLeft",
                       "RotateRight", "Turn"}) = {}
  BY DEF ListRequests, BrowseActions, RemoveActions, ModeRequests
<1>3. CASE r.do \in ListRequests
  <2>1. r.do \notin ModeRequests \cup {"Open", "ToggleFullscreen", "ZoomIn", "ZoomOut",
                    "RotateLeft", "RotateRight", "Turn", "OpenSettings", "Adjust"}
    BY <1>1, <1>2, <1>3
  <2>2. Results(s, r) = {ActiveImage(u, CurrentImage(u)) : u \in ListResults(s, r)}
    BY <1>3, <2>1 DEF Results
  <2>3. PICK u \in ListResults(s, r) : t = ActiveImage(u, CurrentImage(u))
    BY <2>2
  <2>4. PICK i : i = CurrentImage(u)
    OBVIOUS
  <2>5. Upholds(s, ActiveImage(u, i), lax)
    BY <1>3, ListResultsUphold
  <2> QED BY <2>3, <2>4, <2>5 DEF Replaces
<1>4. CASE r.do = "Open"
  <2>1. t = SetImageLocation(s, r.path)
    BY <1>1, <1>4 DEF Results
  <2>2. PICK path : path = r.path
    OBVIOUS
  <2> QED BY <2>1, <2>2, SetImageLocationUpholds DEF Replaces
<1>5. CASE r.do = "ToggleFullscreen"
  <2>1. t = ToggledFullscreen(s)
    BY <1>1, <1>5 DEF Results
  <2> QED BY <2>1, ToggledFullscreenUpholds DEF Replaces
<1>6. CASE r.do \in ModeRequests
  <2>1. PICK mode : mode = RequestedMode(s, r)
    OBVIOUS
  <2>2. t = Unplaced(SetZoomMode(s, mode))
    <3>1. r.do \notin ListRequests \cup {"Open", "ToggleFullscreen", "ZoomIn", "ZoomOut",
                    "RotateLeft", "RotateRight", "Turn", "OpenSettings", "Adjust"}
      BY <1>1, <1>2, <1>6
    <3>2. Results(s, r) = {Unplaced(SetZoomMode(s, RequestedMode(s, r)))}
      BY <1>6, <3>1 DEF Results
    <3> QED BY <2>1, <3>2
  <2> QED BY <1>0, <2>2, SetZoomModeHome DEF Replaces
<1>7. CASE r.do \in {"ZoomIn", "ZoomOut"}
  <2>1. PICK q : q = IF r.do = "ZoomIn" THEN Zoom!ZoomIn(s.zoom) ELSE Zoom!ZoomOut(s.zoom)
    OBVIOUS
  <2>2. PICK z : z = s.zoom
    OBVIOUS
  <2>3. q \in {Zoom!ZoomIn(z), Zoom!ZoomOut(z)} /\ ZoomOK(z)
    BY <1>0, <2>1, <2>2 DEF Shape
  <2>4. ZoomOK(q.zoom) /\ q.zoom.mode = "Free"
    BY <2>3, ZoomStepsType
  <2>5. t = Unplaced(ZoomStep(s, q))
    BY <1>1, <1>7, <2>1 DEF Results
  <2> QED BY <1>0, <2>4, <2>5, ZoomStepHome DEF Replaces
<1>8. CASE r.do \in {"RotateLeft", "RotateRight", "Turn"}
  <2>1. PICK turned : t = Unplaced(Rotate(s, turned))
    BY <1>1, <1>2, <1>8 DEF Results
  <2> QED BY <1>0, <2>1, RotateHome DEF Replaces
<1>9. CASE r.do = "OpenSettings"
  <2>1. t = [s EXCEPT !.dialog = ShowSettings(@, s.cfg)]
    BY <1>1, <1>2, <1>9 DEF Results
  <2>2. PICK d : d = ShowSettings(s.dialog, s.cfg)
    OBVIOUS
  <2>3. t = [s EXCEPT !.dialog = d]
    BY <2>1, <2>2
  <2>4. Upholds(s, [s EXCEPT !.dialog = d], lax)
    BY DialogUpholds
  <2> QED BY <2>3, <2>4 DEF Replaces
<1>10. CASE r.do = "Adjust"
  <2>1. t = ShowAdjust(s)
    BY <1>1, <1>2, <1>10 DEF Results
  <2>2. \A part \in StateParts \ {"adjust"} : t[part] = s[part]
    BY <2>1, ShowAdjustSteady
  <2>3. \A part \in {"cfg", "win", "zoom", "turned", "placed"} : t[part] = s[part]
    BY <2>2 DEF StateParts, ViewerParts
  <2> QED BY <1>0, <2>3, PartsUphold DEF Replaces
<1>11. CASE r.do \notin ListRequests \cup ModeRequests \cup {"Open", "ToggleFullscreen", "ZoomIn",
                    "ZoomOut", "RotateLeft", "RotateRight", "Turn", "OpenSettings", "Adjust"}
  <2>1. t = s
    BY <1>11 DEF Results
  <2>2. Upholds(s, s, lax)
    BY <1>0, PartsUphold
  <2> QED BY <2>1, <2>2 DEF Replaces
<1> QED BY <1>3, <1>4, <1>5, <1>6, <1>7, <1>8, <1>9, <1>10, <1>11

\* The picture of the image shown has room now, or is there.
LEMMA LoadedUpholds ==
    ASSUME NEW s, NEW lax \in BOOLEAN, Steady(s, lax), Arrangement(displays),
           s.cfg.ShowStatusBar \in BOOLEAN
    PROVE  Upholds(s, Fitted(s), lax) /\ Upholds(s, Placed(ImageChanged(Fitted(s))), lax)
<1>1. Shape(s)
  BY DEF Steady
<1>2. PICK u : u = Fitted(s)
  OBVIOUS
<1>3. Quiet(s, u) /\ Zoomed(u) /\ u.cfg = s.cfg
  BY <1>1, <1>2, FittedQuiet, FittedZoomed, FittedKeeps
<1>4. Upholds(s, u, lax)
  BY <1>1, <1>2, FittedFramed, UpholdsSame
<1>5. Steady(u, lax) /\ u.cfg.ShowStatusBar \in BOOLEAN
  BY <1>3, QuietSteady
<1>6. Upholds(u, Placed(ImageChanged(u)), lax)
  BY <1>3, <1>5, NotedPlace
<1>7. Upholds(s, Placed(ImageChanged(u)), lax)
  BY <1>4, <1>6, UpholdsAgain
<1> QED BY <1>2, <1>4, <1>7

\* The user's hand on the window, which forgets the places.
LEMMA WindowResultsHome ==
    ASSUME NEW s, NEW lax, Steady(s, lax), Arrangement(displays), AtHome(s.win),
           start.moves \subseteq Point, start.sizes \subseteq Point, NEW t \in WindowResults(s)
    PROVE  AtHome(Unplaced(t).win) /\ Unplaced(t).placed = <<>>
<1>1. Shape(t) /\ StaysHome(s.win, t.win)
  BY WindowResultsSteady DEF Steady
<1>2. AtHome(t.win)
  BY <1>1 DEF AtHome, StaysHome
<1> QED BY <1>1, <1>2, UnplacedIs

\* New settings, which forget them too.
LEMMA SettingsChangedHome ==
    ASSUME NEW s, Steady(s, TRUE), Arrangement(displays), AtHome(s.win)
    PROVE  LET t == Unplaced(SettingsChanged(s)) IN AtHome(t.win) /\ t.placed = <<>>
<1>1. PICK u : /\ SettingsChanged(s) = ImageChanged(u) /\ Shape(u)
               /\ \A part \in {"rect", "fullscreen", "previousRegion"} : u.win[part] = s.win[part]
  BY SettingsChangedSteady
<1>2. AtHome(u.win)
  BY <1>1 DEF AtHome
<1>3. PICK v : v = ImageChanged(u)
  OBVIOUS
<1>4. AtHome(v.win) /\ Shape(v)
  BY <1>1, <1>2, <1>3, ImageChangedFramed, ImageChangedQuiet DEF Framed, Quiet
<1> QED BY <1>1, <1>3, <1>4, UnplacedIs

-----------------------------------------------------------------------------
(* Where the images are, from step to step.                                *)

\* While the program runs full screen is on the display the window goes back to, and
\* each place that was noted is the one of its image, unless an Apply failed.
PlacesInv ==
    /\ failed \in BOOLEAN
    /\ running => \A s : s = Now => AtHome(s.win) /\ (~failed => PlacesOK(s))

\* The displays stay, so do the places.
LEMMA SamePlaces ==
    ASSUME NEW t, displays' = displays
    PROVE  PlacesOK(t)' <=> PlacesOK(t)
BY DEF PlacesOK, PlaceIn, PlaceFor, calculateWindowTopLeft, NewSize, Capped,
       calculateImageSize, calculateCappedImageSize, Desktop, DisplayFromPointFallback,
       GetFromPoint

\* What holds of the state a handler gives holds of the next state of the program.
LEMMA PlacesNext ==
    ASSUME NEW t, Now' = t, displays' = displays, failed' \in BOOLEAN,
           AtHome(t.win), ~failed' => PlacesOK(t)
    PROVE  PlacesInv'
<1>1. AtHome(t.win)'
  BY DEF AtHome, DisplayFromPointFallback, GetFromPoint
<1>2. PlacesOK(t)' <=> PlacesOK(t)
  BY SamePlaces
<1> QED BY <1>1, <1>2 DEF PlacesInv

\* The images that have a place before and after a step have the same one.
Remembers ==
    ~failed => \A i \in DOMAIN viewer.placed \cap DOMAIN viewer'.placed :
                    viewer'.placed[i] = viewer.placed[i]

\* A handler that leaves the places right, or forgets them.
LEMMA HandlerRemembers ==
    ASSUME InMemory, PlacesInv, running, NEW t, Now' = t, viewer'.placed = t.placed,
           Replaces(Now, t, failed), failed' = failed, displays' = displays
    PROVE  PlacesInv' /\ Remembers
<1>1. PICK s : s = Now
  OBVIOUS
<1>2. AtHome(s.win) /\ (~failed => PlacesOK(s)) /\ failed \in BOOLEAN
  BY <1>1 DEF PlacesInv
<1>3. s.placed = viewer.placed
  BY <1>1, NowOf DEF ViewerParts
<1>4. Replaces(s, t, failed)
  BY <1>1
<1>5. AtHome(t.win) /\ (~failed => PlacesOK(t))
  BY <1>2, <1>4, NothingPlaced DEF Replaces, Upholds, Framed
<1>6. PlacesInv'
  BY <1>2, <1>5, PlacesNext
<1>7. ASSUME ~failed, NEW i \in DOMAIN s.placed \cap DOMAIN t.placed
      PROVE  t.placed[i] = s.placed[i]
  <2>1. CASE t.placed = <<>>
    BY <1>7, <2>1
  <2>2. CASE Framed(s, t)
    <3>1. t.placed[i] = PlaceIn(t, i) /\ s.placed[i] = PlaceIn(s, i)
      BY <1>2, <1>5, <1>7 DEF PlacesOK
    <3> QED BY <2>2, <3>1, FramedPlaces
  <2> QED BY <1>4, <2>1, <2>2 DEF Replaces, Upholds
<1> QED BY <1>3, <1>6, <1>7 DEF Remembers

\* What it gives is the next state.
LEMMA BecomesRemembers ==
    ASSUME InMemory, PlacesInv, running, NEW t, Become(t), Shape(t), NEW s, s = Now,
           Replaces(s, t, failed), failed' = failed, displays' = displays
    PROVE  PlacesInv' /\ Remembers
<1>1. Now' = t
  BY NowIsNext DEF Shape
<1>2. viewer'.placed = t.placed
  BY BecomeBecomes DEF Becomes, ViewerParts
<1> QED BY <1>1, <1>2, HandlerRemembers

\* A step that leaves the window, the zoom and the turn alone.
LEMMA PartsRemember ==
    ASSUME InMemory, PlacesInv, running, DOMAIN viewer' = ViewerParts, cfg' = cfg,
           \A part \in {"win", "zoom", "turned", "placed"} : viewer'[part] = viewer[part],
           failed' = failed, displays' = displays
    PROVE  PlacesInv' /\ Remembers
<1>1. PICK s, t : s = Now /\ t = Now'
  OBVIOUS
<1>2. /\ Steady(s, failed) /\ s.cfg = cfg
      /\ \A part \in ViewerParts : s[part] = viewer[part]
  BY <1>1, NowOf
<1>3. t.cfg = cfg' /\ \A part \in ViewerParts : t[part] = viewer'[part]
  BY <1>1 DEF Now, ViewerParts
<1>4. \A part \in {"cfg", "win", "zoom", "turned", "placed"} : t[part] = s[part]
  BY <1>2, <1>3 DEF ViewerParts
<1>5. Replaces(s, t, failed)
  BY <1>2, <1>4, PartsUphold DEF Replaces, Steady
<1>6. viewer'.placed = t.placed
  BY <1>3 DEF ViewerParts
<1> QED BY <1>1, <1>5, <1>6, HandlerRemembers

\* A step that does not touch the viewer, though an Apply may fail in it.
LEMMA SameViewerRemembers ==
    ASSUME InMemory, PlacesInv, running, viewer' = viewer, displays' = displays,
           (failed' = failed /\ cfg' = cfg) \/ failed' = TRUE
    PROVE  PlacesInv' /\ Remembers
<1>1. DOMAIN viewer = ViewerParts
  BY DEF InMemory
<1>2. CASE failed' = failed /\ cfg' = cfg
  BY <1>1, <1>2, PartsRemember
<1>3. CASE failed' = TRUE
  <2>1. PICK s, t : s = Now /\ t = Now'
    OBVIOUS
  <2>2. AtHome(s.win)
    BY <2>1 DEF PlacesInv
  <2>3. t.win = s.win
    BY <1>1, <2>1 DEF Now, ViewerParts
  <2>4. PlacesInv'
    BY <1>3, <2>1, <2>2, <2>3, PlacesNext
  <2> QED BY <2>4 DEF Remembers
<1> QED BY <1>2, <1>3

\* A session starts with no place noted, or with that of the first image.
LEMMA StartedPlaces ==
    ASSUME Arrangement(displays), NEW c, CfgOK(c), c.ShowStatusBar \in BOOLEAN,
           NEW reported, NEW path
    PROVE  LET t == Started(c, reported, path) IN AtHome(t.win) /\ PlacesOK(t)
<1>1. PICK s : s = NewViewer(c)
  OBVIOUS
<1>2. Steady(s, FALSE) /\ s.cfg = c /\ s.known = {}
  BY <1>1, NewViewerSteady
<1>3. s.placed = <<>> /\ s.win.fullscreen = FALSE
  <2>1. s.win = NewWindow(c) /\ s.placed = <<>>
    BY <1>1 DEF NewViewer
  <2>2. PICK r : r = CreateWindow(c)
    OBVIOUS
  <2>3. PICK style : style = [border |-> TRUE, onTop |-> c.AlwaysOnTop]
    OBVIOUS
  <2>4. NewWindow(c).fullscreen = FALSE
    BY DEF NewWindow
  <2> QED BY <2>1, <2>4
<1>4. PICK t : t = IF reported THEN AnchorsAt(s, s.win.rect) ELSE s
  OBVIOUS
<1>5. /\ Quiet(s, t) /\ t.placed = <<>> /\ t.win = s.win
      /\ t.cfg.ShowStatusBar = c.ShowStatusBar
  <2>1. PICK r \in Rect : r = s.win.rect
    BY <1>2 DEF Steady, Shape, WinOK
  <2>2. /\ Keeps(s, AnchorsAt(s, r)) /\ AnchorsAt(s, r).win = s.win
        /\ AnchorsAt(s, r).placedBy = s.placedBy
    BY <1>2, AnchorsIs DEF Steady
  <2>3. PICK v : v = AnchorsAt(s, r)
    OBVIOUS
  <2>4. Quiet(s, v)
    BY <2>2, <2>3, KeepsQuiet
  <2>5. v.placed = s.placed
    BY <2>2, <2>3 DEF Keeps, StateParts, ViewerParts
  <2>6. "ShowStatusBar" \in CfgParts \ Anchors
    BY DEF CfgParts, Fields, Flags, Enumeration, Anchors
  <2>7. v.cfg.ShowStatusBar = c.ShowStatusBar
    BY <1>2, <2>4, <2>6 DEF Quiet, SameSettings
  <2>8. Quiet(s, s)
    BY <1>2, QuietSelf DEF Steady
  <2>9. CASE reported
    BY <1>3, <1>4, <2>1, <2>2, <2>3, <2>4, <2>5, <2>7, <2>9
  <2>10. CASE ~reported
    BY <1>2, <1>3, <1>4, <2>8, <2>10
  <2> QED BY <2>9, <2>10
<1>6. Shape(t)
  BY <1>5 DEF Quiet
<1>7. PICK mode : mode = c.DefaultZoom
  OBVIOUS
<1>8. PICK w : w = WithZoomMode(t, mode)
  OBVIOUS
<1>9. Quiet(t, w) /\ w.placed = <<>> /\ w.win = t.win /\ w.cfg = t.cfg
  BY <1>5, <1>6, <1>8, WithZoomModeQuiet, WithZoomModeFramed
<1>10. PICK u : u = ImageChanged(w)
  OBVIOUS
<1>11. Quiet(w, u) /\ Framed(w, u) /\ u.placed = <<>>
  BY <1>9, <1>10, ImageChangedQuiet, ImageChangedFramed DEF Quiet
<1>12. AtHome(u.win) /\ PlacesOK(u)
  BY <1>3, <1>5, <1>9, <1>11, NothingPlaced DEF AtHome, Framed
<1>13. Steady(u, FALSE)
  <2>1. Quiet(s, u)
    BY <1>5, <1>9, <1>11, QuietAgain
  <2> QED BY <1>2, <2>1, QuietSteady
<1>14. u.cfg.ShowStatusBar \in BOOLEAN
  <2>1. "ShowStatusBar" \in CfgParts \ Anchors
    BY DEF CfgParts, Fields, Flags, Enumeration, Anchors
  <2> QED BY <1>5, <1>9, <1>11, <2>1 DEF Quiet, SameSettings
<1>15. PICK v : v = SetImageLocation(u, path)
  OBVIOUS
<1>16. Upholds(u, v, FALSE)
  <2>1. PICK lax \in BOOLEAN : lax = FALSE
    OBVIOUS
  <2>2. Upholds(u, v, lax)
    BY <1>13, <1>14, <1>15, <2>1, SetImageLocationUpholds
  <2> QED BY <2>1, <2>2
<1>17. AtHome(v.win) /\ PlacesOK(v)
  BY <1>12, <1>16 DEF Upholds, Framed
<1>18. v = Started(c, reported, path)
  BY <1>1, <1>4, <1>7, <1>8, <1>10, <1>15 DEF Started, SetZoomMode
<1> QED BY <1>17, <1>18

\* StartSession: the places are right.
LEMMA StartPlaces ==
    ASSUME World, OnDisk, StartSession
    PROVE  PlacesInv'
<1>1. PICK c \in Load(file), reported \in BOOLEAN, path \in start.paths :
            Become(Started(c, reported, path))
  BY DEF StartSession
<1>2. displays' = displays /\ failed' = FALSE
  BY DEF StartSession
<1>3. CfgOK(c) /\ c.ShowStatusBar \in BOOLEAN
  BY LoadTyped, CfgTypedIs DEF OnDisk
<1>4. PICK t : t = Started(c, reported, path)
  OBVIOUS
<1>5. Shape(t)
  BY <1>3, <1>4, WorldIs, StartedSteady DEF Steady
<1>6. Now' = t
  BY <1>1, <1>4, <1>5, NowIsNext DEF Shape
<1>7. AtHome(t.win) /\ PlacesOK(t)
  BY <1>3, <1>4, WorldIs, StartedPlaces
<1> QED BY <1>2, <1>6, <1>7, PlacesNext

\* UserAsks: every image keeps its place, or all are forgotten.
LEMMA AskedRemembers ==
    ASSUME World, InMemory, PlacesInv, running, UserAsks
    PROVE  PlacesInv' /\ Remembers
<1>1. /\ displays' = displays /\ failed' = failed
      /\ \E r : \E t \in Results(Now, r) : Become(t)
  BY DEF UserAsks, Act, sessionVars
<1>2. PICK r : \E t \in Results(Now, r) : Become(t)
  BY <1>1
<1>3. PICK t \in Results(Now, r) : Become(t)
  BY <1>2
<1>4. PICK s : s = Now
  OBVIOUS
<1>5. Steady(s, failed) /\ s.cfg = cfg
  BY <1>4, NowOf
<1>6. s.cfg.ShowStatusBar \in BOOLEAN
  BY <1>5, CfgTypedIs DEF InMemory
<1>7. failed \in BOOLEAN /\ AtHome(s.win)
  BY <1>4 DEF PlacesInv
<1>8. Replaces(s, t, failed)
  BY <1>3, <1>4, <1>5, <1>6, <1>7, WorldIs, ResultsReplace
<1>9. Shape(t)
  BY <1>3, <1>4, <1>5, <1>6, WorldIs, ResultsSteady DEF Steady
<1> QED BY <1>1, <1>3, <1>4, <1>8, <1>9, BecomesRemembers

\* Window: the user has a say in the place, so all are forgotten.
LEMMA WindowRemembers ==
    ASSUME World, InMemory, PlacesInv, running, Window
    PROVE  PlacesInv' /\ Remembers
<1>1. displays' = displays /\ failed' = failed
  BY DEF Window, Act, sessionVars
<1>2. PICK s : s = Now
  OBVIOUS
<1>3. PICK t \in WindowResults(s) : Become(Unplaced(t))
  BY <1>2 DEF Window
<1>4. Steady(s, failed) /\ AtHome(s.win)
  BY <1>2, NowOf DEF PlacesInv
<1>5. PICK u : u = Unplaced(t)
  OBVIOUS
<1>6. AtHome(u.win) /\ u.placed = <<>>
  BY <1>3, <1>4, <1>5, WorldIs, WindowResultsHome
<1>7. Shape(u)
  <2>1. Shape(t)
    BY <1>3, <1>4, WorldIs, WindowResultsSteady DEF Steady
  <2> QED BY <1>5, <2>1, UnplacedQuiet DEF Quiet
<1>8. Replaces(s, u, failed)
  BY <1>6 DEF Replaces
<1> QED BY <1>1, <1>2, <1>3, <1>5, <1>7, <1>8, BecomesRemembers

\* LoadMessage: the place is noted when the picture has room.
LEMMA LoadRemembers ==
    ASSUME World, InMemory, PlacesInv, running, NEW i \in Images, NEW message,
           LoadMessage(i, message)
    PROVE  PlacesInv' /\ Remembers
<1>1. displays' = displays /\ failed' = failed
  BY DEF LoadMessage, OnlyViewer, sessionVars
<1>2. PICK now : now = Now
  OBVIOUS
<1>3. Steady(now, failed) /\ Shape(now) /\ now.cfg.ShowStatusBar \in BOOLEAN /\ failed \in BOOLEAN
  <2>1. Steady(now, failed) /\ now.cfg = cfg
    BY <1>2, NowOf
  <2>2. cfg.ShowStatusBar \in BOOLEAN
    BY CfgTypedIs DEF InMemory
  <2> QED BY <2>1, <2>2 DEF Steady, PlacesInv
<1>4. PICK s : s = [now EXCEPT !.pending[i] = @ \ {message}]
  OBVIOUS
<1>5. Quiet(now, s) /\ Upholds(now, s, failed) /\ s.cfg = now.cfg
  <2>1. PICK pending : pending = [now.pending EXCEPT ![i] = @ \ {message}]
    OBVIOUS
  <2>2. s = [now EXCEPT !.pending = pending]
    BY <1>4, <2>1
  <2>3. Quiet(now, s)
    BY <1>3, <2>2, ListPartQuiet
  <2>4. \A part \in StateParts \ {"pending"} : s[part] = now[part]
    BY <1>3, <2>2, Update DEF Shape, StateParts, ViewerParts
  <2>5. \A part \in {"cfg", "win", "zoom", "turned", "placed"} : s[part] = now[part]
    BY <2>4 DEF StateParts, ViewerParts
  <2> QED BY <1>3, <2>3, <2>5, PartsUphold
<1>6. Steady(s, failed)
  BY <1>3, <1>5, QuietSteady
<1>7. PICK f, h : f = Fitted(s) /\ h = Placed(ImageChanged(Fitted(s)))
  OBVIOUS
<1>8. Upholds(s, f, failed) /\ Upholds(s, h, failed)
  BY <1>3, <1>5, <1>6, <1>7, WorldIs, LoadedUpholds
<1>9. PICK t : t \in {s, f, h} /\ Become(t)
  BY <1>2, <1>4, <1>7 DEF LoadMessage
<1>10. Replaces(now, t, failed)
  BY <1>5, <1>8, <1>9, UpholdsAgain DEF Replaces
<1>11. Shape(t)
  <2>1. Quiet(s, f)
    BY <1>6, <1>7, FittedQuiet DEF Steady
  <2>2. Quiet(f, ImageChanged(f))
    BY <2>1, WorldIs, ImageChangedQuiet DEF Quiet
  <2>3. Quiet(ImageChanged(f), h)
    <3>1. PICK g : g = ImageChanged(f)
      OBVIOUS
    <3>2. h = Placed(g) /\ Shape(g)
      BY <1>7, <2>2, <3>1 DEF Quiet
    <3>3. Quiet(g, h)
      BY <3>2, PlacedQuiet
    <3> QED BY <3>1, <3>3
  <2> QED BY <1>6, <1>9, <2>1, <2>3 DEF Quiet, Steady
<1> QED BY <1>1, <1>2, <1>9, <1>10, <1>11, BecomesRemembers

\* OtherStarts: the images of another folder are placed as these were.
LEMMA OtherRemembers ==
    ASSUME World, InMemory, PlacesInv, running, OtherStarts
    PROVE  PlacesInv' /\ Remembers
<1>1. displays' = displays /\ failed' = failed
  BY DEF OtherStarts
<1>2. PICK s : s = Now
  OBVIOUS
<1>3. PICK path : UNCHANGED <<cfg, dialog, viewer>> \/ Become(SetImageLocation(s, path))
  BY <1>2 DEF OtherStarts
<1>4. CASE UNCHANGED <<cfg, dialog, viewer>>
  BY <1>1, <1>4, SameViewerRemembers
<1>5. CASE Become(SetImageLocation(s, path))
  <2>1. PICK t : t = SetImageLocation(s, path)
    OBVIOUS
  <2>2. Steady(s, failed) /\ s.cfg = cfg /\ failed \in BOOLEAN
    BY <1>2, NowOf DEF PlacesInv
  <2>3. s.cfg.ShowStatusBar \in BOOLEAN
    BY <2>2, CfgTypedIs DEF InMemory
  <2>4. Replaces(s, t, failed)
    BY <2>1, <2>2, <2>3, WorldIs, SetImageLocationUpholds DEF Replaces
  <2>5. Shape(t)
    BY <2>1, <2>2, WorldIs, SetImageLocationQuiet DEF Quiet, Steady
  <2> QED BY <1>1, <1>2, <1>5, <2>1, <2>4, <2>5, BecomesRemembers
<1> QED BY <1>3, <1>4, <1>5

\* Apply: the places are forgotten.
LEMMA ApplyRemembers ==
    ASSUME World, OnDisk, InMemory, PlacesInv, running, dialog.shown, Readable(dialog),
           NEW hides \in BOOLEAN, Apply(hides)
    PROVE  PlacesInv' /\ Remembers
<1>1. displays' = displays /\ failed' = FALSE
  BY DEF Apply
<1>2. PICK b : /\ Steady(b, TRUE) /\ b.win = viewer.win
               /\ Becomes(Unplaced(SettingsChanged(b))) /\ Shape(Unplaced(SettingsChanged(b)))
  BY ApplyStays
<1>3. PICK t : t = Unplaced(SettingsChanged(b))
  OBVIOUS
<1>4. AtHome(b.win)
  <2>1. PICK s : s = Now
    OBVIOUS
  <2>2. AtHome(s.win) /\ s.win = viewer.win
    BY <2>1, NowOf DEF PlacesInv, ViewerParts
  <2> QED BY <1>2, <2>2
<1>5. AtHome(t.win) /\ t.placed = <<>>
  BY <1>2, <1>3, <1>4, WorldIs, SettingsChangedHome
<1>6. Now' = t
  BY <1>2, <1>3, NowBecomes DEF Becomes, Shape
<1>7. PlacesInv'
  BY <1>1, <1>5, <1>6, PlacesNext, NothingPlaced
<1>8. viewer'.placed = <<>>
  BY <1>2, <1>3, <1>5 DEF Becomes, ViewerParts
<1> QED BY <1>7, <1>8 DEF Remembers

\* HeaderRead: nothing moves yet.
LEMMA HeaderRemembers ==
    ASSUME InMemory, PlacesInv, running, NEW i \in Images, HeaderRead(i)
    PROVE  PlacesInv' /\ Remembers
<1>1. displays' = displays /\ failed' = failed /\ cfg' = cfg
  BY DEF HeaderRead, OnlyViewer, sessionVars
<1>2. DOMAIN viewer = ViewerParts
  BY DEF InMemory
<1>3. viewer' = [viewer EXCEPT !.known = @ \cup {i}, !.pending[i] = {"LoadAllocated", "LoadDone"}]
  BY DEF HeaderRead
<1>4. /\ DOMAIN viewer' = ViewerParts
      /\ \A part \in {"win", "zoom", "turned", "placed"} : viewer'[part] = viewer[part]
  BY <1>2, <1>3 DEF ViewerParts
<1> QED BY <1>1, <1>4, PartsRemember

\* Adjust: nothing moves.
LEMMA AdjustRemembers ==
    ASSUME InMemory, PlacesInv, running, Adjust
    PROVE  PlacesInv' /\ Remembers
<1>1. displays' = displays /\ failed' = failed /\ cfg' = cfg
  BY DEF Adjust, OnlyAdjust, Act, sessionVars
<1>2. DOMAIN viewer = ViewerParts
  BY DEF InMemory
<1>3. PICK adjust : viewer' = [viewer EXCEPT !.adjust = adjust]
  BY DEF Adjust
<1>4. /\ DOMAIN viewer' = ViewerParts
      /\ \A part \in {"win", "zoom", "turned", "placed"} : viewer'[part] = viewer[part]
  BY <1>2, <1>3 DEF ViewerParts
<1> QED BY <1>1, <1>4, PartsRemember

\* Steps that do not touch the viewer.
LEMMA OthersRemember ==
    ASSUME InMemory, PlacesInv, running,
           Mouse \/ EditSetting \/ EditShortcuts \/ Cancel \/ ApplyFails \/ OtherCloses
    PROVE  PlacesInv' /\ Remembers
<1>1. CASE Mouse
  <2>1. OnlyMouse /\ displays' = displays
    BY <1>1 DEF Mouse, Panning, PanStarts, MouseUp, CaptureLost, Act, sessionVars
  <2> QED BY <2>1, SameViewerRemembers DEF OnlyMouse
<1>2. CASE EditSetting \/ EditShortcuts \/ Cancel
  <2>1. OnlyDialog /\ displays' = displays
    BY <1>2 DEF EditSetting, EditShortcuts, Cancel, DialogAct, Act, sessionVars
  <2> QED BY <2>1, SameViewerRemembers DEF OnlyDialog
<1>3. CASE ApplyFails
  <2>1. viewer' = viewer /\ displays' = displays /\ failed' = TRUE
    BY <1>3 DEF ApplyFails, DialogAct, Act, sessionVars
  <2> QED BY <2>1, SameViewerRemembers
<1>4. CASE OtherCloses
  BY <1>4, SameViewerRemembers DEF OtherCloses
<1> QED BY <1>1, <1>2, <1>3, <1>4

\* Steps out of a session, or between two.
LEMMA PlacesBetween ==
    ASSUME PlacesInv,
           \/ CloseWindow \/ Die \/ DieSaving \/ ApplyAndDie \/ Rearrange
           \/ ~running /\ (OtherCloses \/ UNCHANGED vars)
    PROVE  PlacesInv' /\ ~running'
<1>1. CASE CloseWindow \/ Die \/ DieSaving \/ ApplyAndDie
  <2>1. Stop
    BY <1>1 DEF CloseWindow, Close, Die, DieSaving, ApplyAndDie
  <2> QED BY <2>1 DEF Stop, PlacesInv
<1>2. CASE Rearrange
  BY <1>2 DEF Rearrange, PlacesInv
<1>3. CASE ~running /\ (OtherCloses \/ UNCHANGED vars)
  BY <1>3 DEF OtherCloses, vars, PlacesInv
<1> QED BY <1>1, <1>2, <1>3

\* PlacesInv is inductive, together with SessionInv, and no image changes its place.
LEMMA PlacesStep ==
    ASSUME SessionInv, PlacesInv, [Next]_vars
    PROVE  PlacesInv' /\ (running /\ running' => Remembers)
<1>1. World /\ OnDisk /\ (running => InMemory)
  BY DEF SessionInv
<1>2. CASE StartSession
  <2>1. ~running
    BY <1>2 DEF StartSession
  <2> QED BY <1>1, <1>2, <2>1, StartPlaces
<1>3. CASE CloseWindow \/ Die \/ DieSaving \/ Rearrange
  BY <1>3, PlacesBetween
<1>4. CASE ApplySettings
  <2>1. running /\ dialog.shown /\ Readable(dialog)
    BY <1>4 DEF ApplySettings
  <2>2. CASE ApplyAndDie
    BY <2>2, PlacesBetween
  <2>3. CASE \E hides \in BOOLEAN : Apply(hides)
    BY <1>1, <2>1, <2>3, ApplyRemembers
  <2> QED BY <1>4, <2>2, <2>3 DEF ApplySettings
<1>5. CASE UserAsks \/ Mouse \/ Window \/ ImageLoads \/ Adjust \/ EditSetting \/ EditShortcuts
            \/ Cancel \/ ApplyFails \/ OtherStarts
  <2>1. running
    BY <1>5 DEF UserAsks, Mouse, Panning, MouseUp, CaptureLost, Window, ImageLoads,
        HeaderRead, LoadMessage, Loading, Adjust, EditSetting, EditShortcuts, Cancel, ApplyFails,
        DialogAct, OtherStarts, Act
  <2>2. CASE ImageLoads
    BY <1>1, <2>1, <2>2, HeaderRemembers, LoadRemembers DEF ImageLoads
  <2> QED BY <1>1, <1>5, <2>1, <2>2, AskedRemembers, OthersRemember, WindowRemembers,
             AdjustRemembers, OtherRemembers
<1>6. CASE OtherCloses
  BY <1>1, <1>6, PlacesBetween, OthersRemember
<1>7. CASE UNCHANGED vars
  <2>1. CASE running
    BY <1>1, <1>7, <2>1, SameViewerRemembers DEF vars
  <2>2. CASE ~running
    BY <1>7, <2>2, PlacesBetween
  <2> QED BY <2>1, <2>2
<1> QED BY <1>2, <1>3, <1>4, <1>5, <1>6, <1>7 DEF Next

\* Going to other images and back, to full screen and back, puts the window where it
\* was for that image (SamePlaceForSameImage): the viewer does not take its own moves
\* for the user's.
THEOREM SamePlaceReturned == Spec => SamePlaceForSameImage
<1>1. Init => PlacesInv
  BY DEF Init, PlacesInv
<1>2. SessionInv /\ PlacesInv /\ [Next]_vars => PlacesInv'
  BY PlacesStep
<1>3. Spec => []PlacesInv
  BY <1>1, <1>2, SessionInvariant, PTL DEF Spec
<1>4. SessionInv /\ PlacesInv /\ [Next]_vars => [(running /\ running') => Remembers]_vars
  BY PlacesStep
<1>5. Spec => [][(running /\ running') => Remembers]_vars
  BY <1>3, <1>4, SessionInvariant, PTL DEF Spec
<1>6. ((running /\ running') => Remembers) =>
        ((running /\ running' /\ ~failed) =>
            \A i \in DOMAIN viewer.placed \cap DOMAIN viewer'.placed :
                viewer'.placed[i] = viewer.placed[i])
  BY DEF Remembers
<1> QED BY <1>5, <1>6, PTL DEF SamePlaceForSameImage
=============================================================================
