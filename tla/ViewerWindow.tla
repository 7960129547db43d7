---------------------------- MODULE ViewerWindow ----------------------------
(***************************************************************************)
(* The window of App::Viewer: where it is put, how it follows the picture  *)
(* it shows, and what of it is kept in the settings. A handler often       *)
(* changes several of these one after the other, so the definitions take   *)
(* and give the state of a viewer: see Viewer.                             *)
(***************************************************************************)
EXTENDS Registry

CONSTANTS
    Images,
    NoImage,
    SizeOf,            \* the sizes of the images
    ZoomLevels, DefaultZoomLevel,
    MinWindow,         \* MinWindowWidth, MinWindowHeight
    Border,            \* what the frame takes of the window, without the status bar
    BarHeight,
    DefaultRect        \* where the system puts a window that says nothing

Zoom == INSTANCE ZoomStrategy WITH SubPixel <- 2

(***************************************************************************)
(* Points, sizes and rectangles of the screen. GetRight and GetBottom of a *)
(* wxRect are its last pixels, so what wxToRect makes of it is a pixel     *)
(* smaller.                                                                *)
(***************************************************************************)
Axis == 1..2
Point == [Axis -> Int]
Rect == [pos : Point, size : Point]

ASSUME WindowAssumption ==
    /\ NoImage \notin Images
    /\ SizeOf \in [Images -> (Nat \ {0}) \X (Nat \ {0})]
    /\ MinWindow \in Nat \X Nat /\ Border \in Nat \X Nat /\ BarHeight \in Nat
    /\ DefaultRect \in Rect
    /\ ZoomLevels \in Seq((Nat \ {0}) \X (Nat \ {0})) /\ DefaultZoomLevel \in DOMAIN ZoomLevels

Plus(p, q) == [a \in Axis |-> p[a] + q[a]]
Minus(p, q) == [a \in Axis |-> p[a] - q[a]]
Smaller(p, q) == [a \in Axis |-> IF p[a] < q[a] THEN p[a] ELSE q[a]]
Larger(p, q) == [a \in Axis |-> IF p[a] < q[a] THEN q[a] ELSE p[a]]
BottomRight(r) == Plus(r.pos, r.size)

\* RoundCast(p * 0.5f): a half is rounded up, and a number below zero towards it.
Half(p) ==
    [a \in Axis |-> IF p[a] >= -1 THEN (p[a] + 1) \div 2 ELSE -((-1 - p[a]) \div 2)]

wxToRect(r) == [r EXCEPT !.size = Minus(@, <<1, 1>>)]

Holds(r, p) == \A a \in Axis : p[a] >= r.pos[a] /\ p[a] < BottomRight(r)[a]

Within(inner, outer) ==
    \A a \in Axis : /\ inner.pos[a] >= outer.pos[a]
                    /\ BottomRight(inner)[a] <= BottomRight(outer)[a]

-----------------------------------------------------------------------------
(* displays: the client areas of the displays. s.win: the window; rect is  *)
(* what it takes of the screen, restored what it goes back to when it is   *)
(* no longer maximized.                                                    *)

VARIABLES displays

GetFromPoint(p) == {d \in DOMAIN displays : Holds(displays[d], p)}

\* The first display if the window is on none.
DisplayFromPointFallback(p) ==
    displays[IF GetFromPoint(p) = {} THEN 1 ELSE CHOOSE d \in GetFromPoint(p) : TRUE]

Desktop(s) == wxToRect(DisplayFromPointFallback(s.win.rect.pos))

IsMaximized(w) == w.maximized /\ ~w.iconized

WindowEdges(w) ==
    Plus(IF w.style.border THEN Border ELSE <<0, 0>>, <<0, IF w.bar THEN BarHeight ELSE 0>>)

ClientSize(w) == Larger(<<0, 0>>, Minus(w.rect.size, WindowEdges(w)))

(***************************************************************************)
(* The picture: s.image, turned or not, and its zoom.                      *)
(***************************************************************************)
ModeName(n) ==
    CASE n = ZoomFree -> "Free" [] n = ZoomFitImage -> "FitImage"
      [] n = ZoomFullSize -> "FullSize" [] OTHER -> "?"

BehaviourName(n) == <<"Both", "EnlargeOnly", "ReduceOnly">>[n + 1]

OptimalViewportSize(s) ==
    IF s.image \notin s.known THEN <<0, 0>>
    ELSE IF s.turned THEN <<SizeOf[s.image][2], SizeOf[s.image][1]>> ELSE SizeOf[s.image]

ZoomedImageSize(s) == Zoom!Scaled(OptimalViewportSize(s), s.imageZoom)

\* ViewPort::PerformOnSize.
Fitted(s) ==
    LET r == Zoom!CalculateViewAreaSize(s.zoom, BehaviourName(s.used.ResizeBehaviour), ClientSize(s.win),
                                        OptimalViewportSize(s), OptimalViewportSize(s))
    IN  [s EXCEPT !.zoom = r.zoom, !.imageZoom = r.ZoomImage]

(***************************************************************************)
(* The window moves, and the viewer hears of it.                           *)
(***************************************************************************)
\* The canvas follows the window's client area.
WithWindow(s, w) ==
    LET changed == [s EXCEPT !.win = w]
    IN  IF ClientSize(w) = ClientSize(s.win) THEN changed ELSE Fitted(changed)

AnchorsAt(s, r) ==
    [s EXCEPT !.cfg.AnchorTL = r.pos, !.cfg.AnchorCenter = Plus(r.pos, Half(r.size))]

\* OnMoveEvent and OnSizeEvent, after a change of the user's or of the viewer's.
Moved(s, w, user) ==
    LET kept == IF IsMaximized(w) \/ w.iconized THEN w
                ELSE [w EXCEPT !.normalRect = wxToRect(w.rect)]
        heard == IF user THEN AnchorsAt(s, w.rect) ELSE s
    IN  WithWindow(heard, kept)

\* SetSize between m_userInitiatedMove = false and = true.
SetSize(s, r) == Moved(s, [s.win EXCEPT !.rect = r], FALSE)

\* Mutant: the viewer takes its own moves for the user's.
SetSizeAsUser(s, r) == Moved(s, [s.win EXCEPT !.rect = r], TRUE)

PlaceWindow(s, r) == SetSize(s, r)

(***************************************************************************)
(* The size and the place the window takes for a picture.                  *)
(***************************************************************************)
calculateImageSize(s) ==
    LET size == OptimalViewportSize(s)
        edges == WindowEdges(s.win)
        room == Minus(Desktop(s).size, edges)
        mode == BehaviourName(s.cfg.ResizeBehaviour)
    IN  CASE mode = "EnlargeOnly" /\ (\A a \in Axis : room[a] < size[a]) -> Desktop(s).size
          [] mode = "ReduceOnly" /\ (\A a \in Axis : room[a] > size[a]) ->
                Larger(MinWindow, Plus(size, edges))
          [] OTHER -> Larger(MinWindow,
                Smaller(Plus(Zoom!Scaled(size, Zoom!FitScale(room, size, "Both")), edges),
                        Desktop(s).size))

calculateCappedImageSize(s) ==
    Larger(MinWindow,
           Smaller(Desktop(s).size, Plus(ZoomedImageSize(s), WindowEdges(s.win))))

NewSize(s) ==
    IF s.zoom.mode = "FitImage" THEN calculateImageSize(s) ELSE calculateCappedImageSize(s)

\* Mutant: only what leaves the display to the right or below is put back.
CappedBelow(s, pos, size) ==
    LET limit == BottomRight(Desktop(s))
    IN  [a \in Axis |-> IF pos[a] + size[a] > limit[a] THEN limit[a] - size[a] ELSE pos[a]]

Capped(s, pos, size) ==
    LET desktop == Desktop(s)
        limit == BottomRight(desktop)
    IN  [a \in Axis |->
            IF pos[a] + size[a] > limit[a] THEN limit[a] - size[a]
            ELSE IF pos[a] < desktop.pos[a] THEN desktop.pos[a] ELSE pos[a]]

\* The place of a window of this size.
calculateWindowTopLeft(s, size) ==
    CASE s.cfg.ResizePositionMethod = PositionToScreen ->
            Plus(Desktop(s).pos, Half(Minus(Desktop(s).size, size)))
      [] s.cfg.ResizePositionMethod = PositionToCurrent ->
            Capped(s, Plus(s.cfg.AnchorCenter, Half(Minus(<<0, 0>>, size))), size)
      [] OTHER -> Capped(s, s.cfg.AnchorTL, size)

\* Keeping its centre moves the anchor of its corner, and the other way round.
AnchorsFor(s, r) ==
    CASE s.cfg.ResizePositionMethod = PositionToScreen -> s
      [] s.cfg.ResizePositionMethod = PositionToCurrent -> [s EXCEPT !.cfg.AnchorTL = r.pos]
      [] OTHER -> [s EXCEPT !.cfg.AnchorCenter = Plus(r.pos, Half(r.size))]

\* In full screen the status bar is hidden whenever there is something to say.
UpdateImageInformation(s) ==
    IF s.win.fullscreen THEN WithWindow(s, [s.win EXCEPT !.bar = FALSE]) ELSE s

FollowsImage(s) ==
    /\ ~IsMaximized(s.win) /\ ~s.win.fullscreen /\ s.cfg.ResizeWindow
    /\ \A a \in Axis : OptimalViewportSize(s)[a] > 0

\* The ghost placedBy says who put the window where it is.
PutAt(s, r) == [PlaceWindow(AnchorsFor(s, r), r) EXCEPT !.placedBy = "viewer"]

PutFor(s, size) == PutAt(s, [pos |-> calculateWindowTopLeft(s, size), size |-> size])

FollowImage(s) == IF FollowsImage(s) THEN PutFor(s, NewSize(s)) ELSE s

ImageChanged(s) == FollowImage(UpdateImageInformation(s))

(***************************************************************************)
(* Full screen.                                                            *)
(***************************************************************************)
EnterFullscreen(s) ==
    LET display == Desktop(s)
        w == [s.win EXCEPT !.fullscreen = TRUE, !.bar = FALSE,
                           !.previousStyle = s.win.style,
                           !.style = [border |-> FALSE, onTop |-> FALSE],
                           !.previousRegion = wxToRect(s.win.rect)]
    IN  SetSize(WithWindow(s, w), display)

LeaveFullscreen(s) ==
    LET w == [s.win EXCEPT !.fullscreen = FALSE, !.style = s.win.previousStyle,
                           !.bar = s.cfg.ShowStatusBar]
    IN  [SetSize(WithWindow(s, w), w.previousRegion) EXCEPT !.placedBy = "user"]

ToggleFullscreenMode(s) ==
    ImageChanged(IF s.win.fullscreen THEN LeaveFullscreen(s) ELSE EnterFullscreen(s))

(***************************************************************************)
(* The user moves, resizes, maximizes and minimizes the window. The system *)
(* reports a minimized window where it was.                                *)
(***************************************************************************)
UserMoves(s, w) == [Moved(s, w, TRUE) EXCEPT !.placedBy = "user"]

\* A change of size alone is not a move.
UserResizes(s, size) ==
    [Moved(s, [s.win EXCEPT !.rect.size = size], FALSE) EXCEPT !.placedBy = "user"]

Maximized(s) ==
    UserMoves(s, [s.win EXCEPT !.maximized = TRUE, !.restored = s.win.rect,
                               !.rect = DisplayFromPointFallback(s.win.rect.pos)])

Unmaximized(s) ==
    UserMoves(s, [s.win EXCEPT !.maximized = FALSE, !.rect = s.win.restored])

Iconized(s, iconized) == UserMoves(s, [s.win EXCEPT !.iconized = iconized])

(***************************************************************************)
(* CreateWindow, and what PerformOnClose keeps.                            *)
(***************************************************************************)
Constrain(lower, p, upper) == Smaller(Larger(lower, p), upper)

CreateWindow(c) ==
    LET on == GetFromPoint(c.Pos)
        d == displays[CHOOSE k \in on : TRUE]
        size == Constrain(MinWindow, c.WindowSize, d.size)
        last == Minus(BottomRight(d), <<1, 1>>)
    IN  IF on = {} THEN DefaultRect
        ELSE [pos |-> Constrain(d.pos, c.Pos, Minus(last, size)), size |-> size]

NewWindow(c) ==
    [rect |-> CreateWindow(c), normalRect |-> wxToRect(CreateWindow(c)),
     restored |-> CreateWindow(c), maximized |-> FALSE, iconized |-> FALSE,
     fullscreen |-> FALSE, bar |-> c.ShowStatusBar,
     style |-> [border |-> TRUE, onTop |-> c.AlwaysOnTop],
     previousStyle |-> [border |-> TRUE, onTop |-> FALSE],
     previousRegion |-> [pos |-> <<0, 0>>, size |-> <<0, 0>>]]

Closed(s) ==
    LET r == IF s.win.fullscreen \/ IsMaximized(s.win) THEN s.win.normalRect ELSE s.win.rect
        c == IF s.win.iconized THEN s.cfg
             ELSE [s.cfg EXCEPT !.Pos = r.pos, !.WindowSize = r.size]
    IN  [c EXCEPT !.Maximized = IsMaximized(s.win)]

=============================================================================
