----------------------------- MODULE TiledRedraw -----------------------------
(***************************************************************************)
(* RedrawStrategyTiled: renders the viewer's current surface to the tiles  *)
(* at each paint, and only the part that is new if it can. A decoder's     *)
(* thread writes the surfaces meanwhile; a surface's dirty flag says that  *)
(* it has been written since it was rendered.                              *)
(***************************************************************************)
EXTENDS TileManager

CONSTANTS
    Surfaces,       \* addresses of surfaces
    Zooms,          \* rendering properties: whatever forces a full redraw
    ZoomedSize,     \* external: the size of the zoomed image, for each of Zooms
    Clients,        \* sizes of the window, for each of Zooms
    Changes,        \* bound of the model: which of Zooms a paint may have after which
    NoSurface,
    MaxWrites,      \* bound of the model: writes to a surface
    MaxImages,      \* bound of the model: one surface may be followed by others up to it
    MaxPaints       \* bound of the model: paints

ASSUME RedrawAssumption ==
    /\ ZoomedSize \in [Zooms -> Nat \X Nat]
    /\ Clients \in [Zooms -> SUBSET (Nat \X Nat)]
    /\ NoSurface \notin Surfaces

VARIABLES
    surface,        \* the surfaces
    m_tiles,        \* the tile manager, or none
    m_redrawNext,
    m_currPosition,
    m_currentSize,
    m_prevProperties,
    m_prevSurface,
    shown,          \* what the last paint was to show: the image, as written so far
    lapses,         \* what the tiles are known to have missed
    paints          \* how many paints there have been

strategyVars == <<m_tiles, m_redrawNext, m_currPosition, m_currentSize,
                  m_prevProperties, m_prevSurface>>
vars == <<surface, strategyVars, shown, lapses, paints>>

NoTiles == [tiles |-> "none"]

\* A surface that was just made. The image tells it from others at its address.
EmptySurface(image) == [image |-> image, phase |-> "empty", isDirty |-> TRUE, writes |-> 0]

Init ==
    /\ surface \in [Surfaces -> {EmptySurface(1)}]
    /\ m_tiles = NoTiles /\ m_redrawNext = TRUE
    /\ m_currPosition = <<0, 0>> /\ m_currentSize = <<0, 0>>
    /\ m_prevProperties = NoSurface /\ m_prevSurface = NoSurface
    /\ shown = [image |-> 0, writes |-> 0]
    /\ lapses = {}
    /\ paints = 0

-----------------------------------------------------------------------------
(* The thread of a decoder: surfaces are sized, created and written.       *)

Become(s, phase, next) ==
    /\ surface[s].phase = phase
    /\ surface' = [surface EXCEPT ![s].phase = next]
    /\ UNCHANGED <<strategyVars, shown, lapses, paints>>

\* CreateSurface, up to ForceDirty.
SizeSurface(s) ==
    /\ surface[s].phase = "empty"
    /\ surface' = [surface EXCEPT ![s].phase = "sized", ![s].isDirty = TRUE]
    /\ UNCHANGED <<strategyVars, shown, lapses, paints>>

\* onCreateSurface: from here on it can be locked.
CreateSurface(s) == Become(s, "sized", "created")

\* LockSurface for writing.
LockSurface(s) ==
    /\ surface[s].phase = "created" /\ surface[s].writes < MaxWrites
    /\ surface' = [surface EXCEPT ![s].phase = "locked", ![s].isDirty = TRUE]
    /\ UNCHANGED <<strategyVars, shown, lapses, paints>>

\* The rows that are locked are decoded, and unlocked. Nobody will know, if the
\* flag has been read since they were locked.
WriteRows(s) ==
    /\ surface[s].phase = "locked"
    /\ surface' = [surface EXCEPT ![s].phase = "created", ![s].writes = @ + 1]
    /\ lapses' = IF s = m_prevSurface /\ ~surface[s].isDirty THEN lapses \cup {"torn"} ELSE lapses
    /\ UNCHANGED <<strategyVars, shown, paints>>

\* The image is purged, and another's surface is made at the address.
MakeSurface(s) ==
    /\ surface[s].phase = "created" /\ \A t \in Surfaces : surface[t].image < MaxImages
    /\ surface' = [surface EXCEPT ![s] = EmptySurface(@.image + 1)]
    /\ UNCHANGED <<strategyVars, shown, lapses, paints>>

-----------------------------------------------------------------------------
(* A paint.                                                                *)

Least(a, b) == <<LesserOf(a[1], b[1]), LesserOf(a[2], b[2])>>

Positive(size) == size[1] > 0 /\ size[2] > 0

Magnitude(a) == IF a < 0 THEN -a ELSE a

IsFullScreenPan(panDelta, sizeDelta, client) ==
    Magnitude(panDelta) > client \/ (panDelta < 0 /\ panDelta + sizeDelta < 0)

\* Mutant: only the view's movement counts.
StripsOfPan(client, delta, sizeDelta) ==
    (IF delta > 0 THEN {<<0, delta>>} ELSE {})
      \cup (IF delta < 0 THEN {<<client + delta, -delta>>} ELSE {})

\* What is new along an axis after the view moved by delta and its size changed:
\* a strip at its start, and one at its end.
Strips(client, delta, sizeDelta) ==
    LET rest == IF sizeDelta < 0 THEN delta + sizeDelta ELSE delta
    IN  (IF delta > 0 THEN {<<0, delta>>} ELSE {})
          \cup (IF rest < 0 THEN {<<client + rest, -rest>>} ELSE {})

\* The surface s as it is, zoomed, at a point of the window when panned.
Content(s, zoom, pan, p) == <<surface[s].image, surface[s].writes, zoom, Plus(pan, p)>>

NewAreas(client, delta, sizeDelta) ==
    {<< <<0, strip[1]>>, <<client[1], strip[2]>> >> : strip \in Strips(client[2], delta[2], sizeDelta[2])}
      \cup
    {<< <<strip[1], 0>>, <<strip[2], client[2]>> >> : strip \in Strips(client[1], delta[1], sizeDelta[1])}

\* BeginRender: the device is found lost at any time, and made anew.
RenderStatus == {"OK", "CurrentViewLost"}

\* RedrawStrategy::Render lets go of the tiles when the device was lost.
Reset(lost) == IF lost THEN NoTiles ELSE m_tiles

\* The tile manager there is, or a new one.
TilesAfter(lost) == IF Reset(lost) = NoTiles THEN NewTileManager ELSE Reset(lost)

\* RenderToDDSurface draws nothing of a surface whose buffer is not there yet.
CanBeDrawn(s) == surface[s].phase # "sized"

\* Render, of a surface that has no size yet: the tiles are cut down to an empty
\* view, and OnRender returns.
PaintEmpty(s, lost) ==
    /\ paints < MaxPaints /\ surface[s].phase = "empty"
    /\ m_tiles' = SetViewportSize(TilesAfter(lost), <<0, 0>>)
    /\ m_redrawNext' = (m_redrawNext \/ Reset(lost) = NoTiles)
    /\ lapses' = lapses \cup {"collapsed"}
    /\ paints' = paints + 1
    /\ UNCHANGED <<surface, m_currPosition, m_currentSize, m_prevProperties, m_prevSurface, shown>>

\* Mutant: the tiles are not known to be of another surface.
RedrawsForZoom(s, zoom, client, delta, sizeDelta, lost) ==
    \/ m_redrawNext \/ Reset(lost) = NoTiles \/ zoom # m_prevProperties
    \/ \E axis \in {1, 2} : IsFullScreenPan(delta[axis], sizeDelta[axis], client[axis])

\* What forces a full redraw, other than the surface's flag.
Redraws(s, zoom, client, delta, sizeDelta, lost) ==
    \/ m_redrawNext \/ Reset(lost) = NoTiles
    \/ zoom # m_prevProperties \/ s # m_prevSurface
    \/ \E axis \in {1, 2} : IsFullScreenPan(delta[axis], sizeDelta[axis], client[axis])

\* Render. The flag is read, and reset by that, only if nothing else forces a
\* redraw; a surface whose buffer is not there yet draws nothing.
Paint(s, zoom, window, pan, lost) ==
    LET client == Least(window, ZoomedSize[zoom])
        delta == Minus(m_currPosition, pan)
        sizeDelta == Minus(m_currentSize, client)
        tiles == SetViewportSize(TilesAfter(lost), client)
        redraw == Redraws(s, zoom, client, delta, sizeDelta, lost)
        full == redraw \/ surface[s].isDirty
        drawn == CanBeDrawn(s)
        content == [p \in Area(client) |-> Content(s, zoom, pan, p)]
        areas == IF full THEN {<< <<0, 0>>, client>>} ELSE NewAreas(client, delta, sizeDelta)
    IN  /\ paints < MaxPaints /\ surface[s].phase # "empty"
        /\ m_prevProperties # NoSurface => <<m_prevProperties, zoom>> \in Changes
        /\ Positive(client)
        /\ \A axis \in {1, 2} : pan[axis] + client[axis] <= ZoomedSize[zoom][axis]
        /\ m_tiles' = RenderArea(IF full THEN tiles ELSE AddOffset(tiles, delta),
                                 IF drawn THEN areas ELSE {}, content)
        /\ surface' = [surface EXCEPT ![s].isDirty = redraw /\ @]
        /\ m_currPosition' = pan /\ m_currentSize' = client
        /\ m_prevProperties' = zoom /\ m_prevSurface' = s
        /\ m_redrawNext' = FALSE
        /\ shown' = [image |-> surface[s].image, writes |-> surface[s].writes]
        /\ lapses' = IF ~drawn THEN lapses \cup {"undrawn"}
                     ELSE IF full THEN {} ELSE lapses
        /\ paints' = paints + 1

-----------------------------------------------------------------------------

Decoder(s) ==
    \/ SizeSurface(s) \/ CreateSurface(s)
    \/ LockSurface(s) \/ WriteRows(s)

Pans == UNION {Area(Plus(ZoomedSize[zoom], <<1, 1>>)) : zoom \in Zooms}

Next ==
    \E s \in Surfaces :
        \/ Decoder(s)
        \/ MakeSurface(s)
        \/ \E lost \in {status = "CurrentViewLost" : status \in RenderStatus} :
             \/ PaintEmpty(s, lost)
             \/ \E zoom \in Zooms, pan \in Pans :
                  \E window \in Clients[zoom] : Paint(s, zoom, window, pan, lost)

Spec == Init /\ [][Next]_vars

-----------------------------------------------------------------------------
(* Properties.                                                             *)

\* The tile manager never throws "out of bounds" or "Invalid offset": however the
\* window is resized and the image panned, each pixel of the view has its tile.
TilesCoverView == m_tiles # NoTiles => CoversView(m_tiles)

\* What a paint shows is what a full redraw would have shown: each pixel of the
\* window is the pixel of the image it should be, of the image that was to be
\* shown, zoomed as asked for, and as decoded so far. Three ways are known in
\* which it is not, until the next full redraw.
ScreenShowsImage ==
    m_tiles # NoTiles /\ lapses = {} =>
        \A p \in Area(m_tiles.viewSize) :
            Presented(m_tiles, p) =
                <<shown.image, shown.writes, m_prevProperties, Plus(m_currPosition, p)>>

\* w32_rs_tiled.cpp says it will "Always do a full redraw if the pan/size changes
\* are big enough to invalidate all existing rendered data": no pixel of the
\* window comes from a tile that was never rendered to.
InvalidatedIsRedrawn ==
    m_tiles # NoTiles /\ lapses \subseteq {"collapsed"} =>
        \A p \in Area(m_tiles.viewSize) : Presented(m_tiles, p) # Undrawn

=============================================================================
