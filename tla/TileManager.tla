----------------------------- MODULE TileManager -----------------------------
(***************************************************************************)
(* Win::TileManager: the part of the zoomed image that is in the window is *)
(* kept in square textures. Panning moves the origin of the view over the  *)
(* tiles; tiles that leave at one edge come back at the other.             *)
(*                                                                         *)
(* A tile manager is a record; a point, a size or an offset is a pair. The *)
(* deque of rows of tiles is a function on <<column, row>>.                *)
(***************************************************************************)
EXTENDS Integers

CONSTANT MaximumTileEdgeLength

ASSUME EdgeAssumption == MaximumTileEdgeLength \in Nat \ {0}

Edge == MaximumTileEdgeLength

\* The pixels 0..size-1.
Area(size) == (0..size[1] - 1) \X (0..size[2] - 1)

Plus(a, b) == <<a[1] + b[1], a[2] + b[2]>>
Minus(a, b) == <<a[1] - b[1], a[2] - b[2]>>

\* The content of a pixel nothing has been rendered to.
Undrawn == <<>>

NewSurface == [pixel \in Area(<<Edge, Edge>>) |-> Undrawn]

NewTileManager ==
    [tiles |-> [coords \in {} |-> NewSurface], topLeftOffset |-> <<0, 0>>, viewSize |-> <<0, 0>>]

\* Mutant: as many tiles as the view is long, though it seldom starts at a tile's edge.
TilesForView(dims) == <<(dims[1] + Edge - 1) \div Edge, (dims[2] + Edge - 1) \div Edge>>

NumTiles(dims) == <<2 + dims[1] \div Edge, 2 + dims[2] \div Edge>>

SetViewportSize(manager, dims) ==
    [tiles |-> [coords \in Area(NumTiles(dims)) |->
                   IF coords \in DOMAIN manager.tiles THEN manager.tiles[coords] ELSE NewSurface],
     topLeftOffset |-> manager.topLeftOffset,
     viewSize |-> dims]

-----------------------------------------------------------------------------
(* Panning.                                                                *)

\* The machine's division.
Quotient(a) == IF a >= 0 THEN a \div Edge ELSE -((-a) \div Edge)

TlIndex(offset) == Quotient(IF offset < 0 THEN offset - (Edge - 1) ELSE offset)

AddOffset(manager, pt) ==
    LET offset == Minus(manager.topLeftOffset, pt)
        newTlIndex == <<TlIndex(offset[1]), TlIndex(offset[2])>>
        count == NumTiles(manager.viewSize)
    IN  [tiles |-> [coords \in DOMAIN manager.tiles |->
                       manager.tiles[<<(coords[1] + newTlIndex[1]) % count[1],
                                       (coords[2] + newTlIndex[2]) % count[2]>>]],
         topLeftOffset |-> <<offset[1] % Edge, offset[2] % Edge>>,
         viewSize |-> manager.viewSize]

-----------------------------------------------------------------------------
(* Rendering to the tiles.                                                 *)

LesserOf(a, b) == IF a < b THEN a ELSE b

\* determineLockableRect, along one axis: where a request of `length` pixels at p
\* starts in its tile, and how much of it is served.
Panned(offset, p) == (p + offset) % Edge

LockableLength(offset, view, p, length) ==
    LesserOf(Edge - Panned(offset, p), LesserOf(LesserOf(p + length, offset + view), length))

\* What a request at p is given, along one axis: a tile, by determineTileCoords,
\* and the pixels of it from `start` on.
Grant(offset, view, p, end) ==
    [at |-> p, coord |-> (p + offset) \div Edge, start |-> Panned(offset, p),
     length |-> LockableLength(offset, view, p, end - p)]

\* The loop of RenderArea along one axis: each request is for what the last left.
Grants(offset, view, first, end) ==
    LET from[p \in first..end] ==
            LET grant == Grant(offset, view, p, end)
                next == p + grant.length
            IN  {grant} \cup (IF next > p /\ next < end THEN from[next] ELSE {})
    IN  from[first]

\* RedrawStrategyTiled::RenderArea, for some areas: a set of <<top left, size>>.
\* content[p] is what to draw for the pixel p of the view.
RenderedTiles(manager, areas, content) ==
    LET Along(axis, area) == Grants(manager.topLeftOffset[axis], manager.viewSize[axis],
                                    area[1][axis], area[1][axis] + area[2][axis])
        served == UNION {Along(1, area) \X Along(2, area) : area \in areas}
        Into(coords, pixel) ==
            {grant \in served : \A axis \in {1, 2} :
                /\ grant[axis].coord = coords[axis]
                /\ pixel[axis] - grant[axis].start \in 0..grant[axis].length - 1}
        Source(grant, pixel) == Plus(<<grant[1].at, grant[2].at>>,
                                     Minus(pixel, <<grant[1].start, grant[2].start>>))
    IN  [coords \in DOMAIN manager.tiles |->
            [pixel \in Area(<<Edge, Edge>>) |->
                IF Into(coords, pixel) = {} THEN manager.tiles[coords][pixel]
                ELSE content[Source(CHOOSE grant \in Into(coords, pixel) : TRUE, pixel)]]]

RenderArea(manager, areas, content) ==
    [tiles |-> RenderedTiles(manager, areas, content),
     topLeftOffset |-> manager.topLeftOffset,
     viewSize |-> manager.viewSize]

-----------------------------------------------------------------------------
(* Presenting.                                                             *)

\* The tile and the pixel of it that Render presents at p.
TileOf(manager, p) ==
    LET q == Plus(p, manager.topLeftOffset) IN <<q[1] \div Edge, q[2] \div Edge>>

Presented(manager, p) ==
    LET q == Plus(p, manager.topLeftOffset)
    IN  manager.tiles[TileOf(manager, p)][<<q[1] % Edge, q[2] % Edge>>]

\* Render and RequestDDSurface find a tile for every pixel of the view.
CoversView(manager) ==
    /\ manager.topLeftOffset \in Area(<<Edge, Edge>>)
    /\ \A p \in Area(manager.viewSize) : TileOf(manager, p) \in DOMAIN manager.tiles

=============================================================================
