-------------------------- MODULE TiledRedrawProofs --------------------------
(***************************************************************************)
(* Whatever the edge of a tile, the windows and the zooms: however the     *)
(* window is resized and the image panned, the tiles cover the view        *)
(* (ViewIsCovered), and a paint that draws no more than what is new leaves *)
(* on the screen what a full one would have drawn (ScreenIsUpToDate).      *)
(***************************************************************************)
EXTENDS TiledRedraw, WellFoundedInduction, TLAPS

\* A tile manager that has a view: there are tiles enough for it.
ManagerOK(manager) ==
    /\ manager.viewSize \in Nat \X Nat
    /\ manager.topLeftOffset \in (0..Edge - 1) \X (0..Edge - 1)
    /\ DOMAIN manager.tiles = Area(NumTiles(manager.viewSize))

TilesInv == m_tiles # NoTiles => ManagerOK(m_tiles)

-----------------------------------------------------------------------------
(* Tiles along an axis.                                                    *)

LEMMA EdgeIsPositive == Edge \in Nat \ {0}
BY EdgeAssumption DEF Edge

\* What division leaves.
LEMMA Division ==
    ASSUME NEW a \in Int
    PROVE  /\ a \div Edge \in Int
           /\ a % Edge \in 0..Edge - 1
           /\ a = (Edge * (a \div Edge)) + (a % Edge)
BY EdgeIsPositive, Z3T(30)

\* A view of v pixels that starts in its first tile ends in one there is.
LEMMA LastTile ==
    ASSUME NEW v \in Nat, NEW o \in 0..Edge - 1, NEW p \in 0..v - 1
    PROVE  (p + o) \div Edge \in 0..(2 + v \div Edge) - 1
<1> DEFINE t == (p + o) \div Edge  last == v \div Edge
<1>1. v \in Int /\ p + o \in Nat
  BY EdgeIsPositive
<1>2. t \in Int /\ (p + o) % Edge \in 0..Edge - 1 /\ p + o = (Edge * t) + ((p + o) % Edge)
  BY <1>1, Division
<1>3. last \in Int /\ v % Edge \in 0..Edge - 1 /\ v = (Edge * last) + (v % Edge)
  BY <1>1, Division
<1> HIDE DEF t, last
<1>4. t >= 0
  BY <1>1, <1>2, EdgeIsPositive, SMTT(30)
<1>5. t < 2 + last
  BY <1>1, <1>2, <1>3, EdgeIsPositive, SMTT(30)
<1> QED BY <1>2, <1>3, <1>4, <1>5 DEF t, last

-----------------------------------------------------------------------------
(* The operations of the tile manager.                                     *)

\* What a tile manager with tiles enough needs for a view.
LEMMA ManagerCovers ==
    ASSUME NEW manager, ManagerOK(manager)
    PROVE  CoversView(manager)
<1> DEFINE offset == manager.topLeftOffset  view == manager.viewSize
<1>1. /\ view[1] \in Nat /\ view[2] \in Nat
      /\ offset[1] \in 0..Edge - 1 /\ offset[2] \in 0..Edge - 1
      /\ offset \in (0..Edge - 1) \X (0..Edge - 1)
  BY DEF ManagerOK
<1>2. ASSUME NEW p \in Area(view)
      PROVE  TileOf(manager, p) \in DOMAIN manager.tiles
  <2>1. p[1] \in 0..view[1] - 1 /\ p[2] \in 0..view[2] - 1
    BY DEF Area
  <2>2. /\ (p[1] + offset[1]) \div Edge \in 0..(2 + view[1] \div Edge) - 1
        /\ (p[2] + offset[2]) \div Edge \in 0..(2 + view[2] \div Edge) - 1
    BY <1>1, <2>1, LastTile
  <2>3. TileOf(manager, p) = <<(p[1] + offset[1]) \div Edge, (p[2] + offset[2]) \div Edge>>
    BY DEF TileOf, Plus
  <2>4. NumTiles(view) = <<2 + view[1] \div Edge, 2 + view[2] \div Edge>>
    BY DEF NumTiles
  <2> QED BY <2>2, <2>3, <2>4 DEF ManagerOK, Area
<1>3. Area(<<Edge, Edge>>) = (0..Edge - 1) \X (0..Edge - 1)
  BY DEF Area
<1> QED BY <1>1, <1>2, <1>3 DEF CoversView

LEMMA SetViewportSizeOK ==
    ASSUME NEW lost \in BOOLEAN, NEW dims \in Nat \X Nat, TilesInv
    PROVE  ManagerOK(SetViewportSize(TilesAfter(lost), dims))
<1> DEFINE manager == TilesAfter(lost)
<1>1. manager.topLeftOffset \in (0..Edge - 1) \X (0..Edge - 1)
  <2>1. CASE lost \/ m_tiles = NoTiles
    BY <2>1, EdgeIsPositive DEF TilesAfter, Reset, NewTileManager
  <2>2. CASE ~(lost \/ m_tiles = NoTiles)
    BY <2>2 DEF TilesAfter, Reset, TilesInv, ManagerOK
  <2> QED BY <2>1, <2>2
<1> HIDE DEF manager
<1> DEFINE tiles == [coords \in Area(NumTiles(dims)) |->
                        IF coords \in DOMAIN manager.tiles THEN manager.tiles[coords] ELSE NewSurface]
<1>2. SetViewportSize(manager, dims)
        = [tiles |-> tiles, topLeftOffset |-> manager.topLeftOffset, viewSize |-> dims]
  BY DEF SetViewportSize
<1>3. DOMAIN tiles = Area(NumTiles(dims))
  OBVIOUS
<1> HIDE DEF tiles
<1> QED BY <1>1, <1>2, <1>3 DEF ManagerOK, manager

LEMMA AddOffsetOK ==
    ASSUME NEW manager, ManagerOK(manager), NEW pt \in Int \X Int
    PROVE  ManagerOK(AddOffset(manager, pt))
<1> DEFINE offset == Minus(manager.topLeftOffset, pt)
           newTlIndex == <<TlIndex(offset[1]), TlIndex(offset[2])>>
           count == NumTiles(manager.viewSize)
           tiles == [coords \in DOMAIN manager.tiles |->
                        manager.tiles[<<(coords[1] + newTlIndex[1]) % count[1],
                                        (coords[2] + newTlIndex[2]) % count[2]>>]]
           topLeftOffset == <<offset[1] % Edge, offset[2] % Edge>>
<1>1. AddOffset(manager, pt)
        = [tiles |-> tiles, topLeftOffset |-> topLeftOffset, viewSize |-> manager.viewSize]
  BY DEF AddOffset
<1>2. offset[1] \in Int /\ offset[2] \in Int
  BY EdgeIsPositive DEF Minus, ManagerOK
<1>3. topLeftOffset \in (0..Edge - 1) \X (0..Edge - 1)
  BY <1>2, Division
<1>4. DOMAIN tiles = DOMAIN manager.tiles
  OBVIOUS
<1> HIDE DEF tiles, topLeftOffset
<1> QED BY <1>1, <1>3, <1>4 DEF ManagerOK

\* Rendering to the tiles changes nothing but what they hold.
LEMMA RenderAreaOK ==
    ASSUME NEW manager, ManagerOK(manager), NEW areas, NEW content
    PROVE  ManagerOK(RenderArea(manager, areas, content))
<1> DEFINE tiles == RenderedTiles(manager, areas, content)
<1>1. DOMAIN tiles = DOMAIN manager.tiles
  BY DEF RenderedTiles
<1>2. RenderArea(manager, areas, content)
        = [tiles |-> tiles, topLeftOffset |-> manager.topLeftOffset, viewSize |-> manager.viewSize]
  BY DEF RenderArea
<1> HIDE DEF tiles
<1> QED BY <1>1, <1>2 DEF ManagerOK

-----------------------------------------------------------------------------
(* The steps.                                                              *)

\* What is inductive: TilesCoverView holds as there are tiles enough, and there
\* are as the origin of the view, panned by a step, stays within a tile.
IInv == TilesInv /\ m_currPosition \in Int \X Int

LEMMA InitInv == Init => IInv
BY DEF Init, IInv, TilesInv

LEMMA PaintInv ==
    ASSUME IInv, NEW s \in Surfaces, NEW lost \in BOOLEAN, NEW zoom \in Zooms,
           NEW window \in Clients[zoom], NEW pan \in Pans, Paint(s, zoom, window, pan, lost)
    PROVE  IInv'
<1> DEFINE client == Least(window, ZoomedSize[zoom])
           delta == Minus(m_currPosition, pan)
           sizeDelta == Minus(m_currentSize, client)
           tiles == SetViewportSize(TilesAfter(lost), client)
           full == Redraws(s, zoom, client, delta, sizeDelta, lost) \/ surface[s].isDirty
           before == IF full THEN tiles ELSE AddOffset(tiles, delta)
           areas == IF CanBeDrawn(s)
                    THEN IF full THEN {<< <<0, 0>>, client>>} ELSE NewAreas(client, delta, sizeDelta)
                    ELSE {}
           content == [p \in Area(client) |-> Content(s, zoom, pan, p)]
<1>1. m_tiles' = RenderArea(before, areas, content) /\ m_currPosition' = pan
  BY DEF Paint
<1>2. client \in Nat \X Nat
  BY RedrawAssumption DEF Least, LesserOf
<1>3. pan \in Int \X Int
  BY DEF Pans, Area
<1>4. delta \in Int \X Int
  BY <1>3 DEF IInv, Minus
<1>5. ManagerOK(tiles)
  BY <1>2, SetViewportSizeOK DEF IInv
<1> HIDE DEF client, delta, sizeDelta, tiles, full, areas, content
<1>6. ManagerOK(before)
  BY <1>4, <1>5, AddOffsetOK
<1> HIDE DEF before
<1>7. ManagerOK(RenderArea(before, areas, content))
  BY <1>6, RenderAreaOK
<1> QED BY <1>1, <1>3, <1>7 DEF IInv, TilesInv

LEMMA NextInv == IInv /\ [Next]_vars => IInv'
<1> SUFFICES ASSUME IInv, [Next]_vars PROVE IInv'
  OBVIOUS
<1>1. CASE UNCHANGED <<m_tiles, m_currPosition>>
  BY <1>1 DEF IInv, TilesInv
<1>2. ASSUME NEW s \in Surfaces, Decoder(s) \/ MakeSurface(s)
      PROVE  UNCHANGED <<m_tiles, m_currPosition>>
  BY <1>2 DEF Decoder, SizeSurface, CreateSurface, Become, LockSurface, WriteRows, MakeSurface,
              strategyVars
<1>3. ASSUME NEW s \in Surfaces, NEW lost \in BOOLEAN, PaintEmpty(s, lost)
      PROVE  IInv'
  <2>1. m_tiles' = SetViewportSize(TilesAfter(lost), <<0, 0>>) /\ m_currPosition' = m_currPosition
    BY <1>3 DEF PaintEmpty
  <2>2. ManagerOK(SetViewportSize(TilesAfter(lost), <<0, 0>>))
    BY SetViewportSizeOK DEF IInv
  <2> QED BY <2>1, <2>2 DEF IInv, TilesInv
<1>4. CASE UNCHANGED vars
  BY <1>1, <1>4 DEF vars, strategyVars
<1> QED BY <1>1, <1>2, <1>3, <1>4, PaintInv DEF Next

LEMMA InvCoversView == IInv => TilesCoverView
BY ManagerCovers DEF IInv, TilesInv, TilesCoverView

\* For tiles of any size: every pixel of the view has its tile, so neither
\* RequestDDSurface nor Render throws, however the image is zoomed and panned,
\* the window resized or the device lost.
THEOREM ViewIsCovered == Spec => []TilesCoverView
<1>1. Init => IInv
  BY InitInv
<1>2. IInv /\ [Next]_vars => IInv'
  BY NextInv
<1>3. IInv => TilesCoverView
  BY InvCoversView
<1> QED BY <1>1, <1>2, <1>3, PTL DEF Spec

-----------------------------------------------------------------------------
(* Pixels of the view and of the tiles.                                    *)

\* Division is what leaves a remainder less than an edge.
LEMMA DivisionUnique ==
    ASSUME NEW a \in Int, NEW q \in Int, NEW r \in 0..Edge - 1, a = (Edge * q) + r
    PROVE  a \div Edge = q /\ a % Edge = r
<1>1. PICK b \in Int, s \in 0..Edge - 1 :
         /\ b = a \div Edge /\ s = a % Edge /\ a = (Edge * b) + s
  BY Division
<1>2. PICK e \in Nat \ {0} : e = Edge
  BY EdgeIsPositive
<1>3. e * (q - b) = s - r
  BY <1>1, <1>2
<1>4. s - r < e /\ r - s < e
  BY <1>1, <1>2
<1>5. PICK d \in Int : d = q - b
  BY <1>1
<1>6. e * d < e /\ e * d > -e
  BY <1>3, <1>4, <1>5
<1>7. d = 0
  <2>1. ASSUME d >= 1 PROVE e * d >= e
    BY <2>1
  <2>2. ASSUME d <= -1 PROVE e * d <= -e
    BY <2>2
  <2> QED BY <1>6, <2>1, <2>2
<1>8. q = b /\ r = s
  BY <1>1, <1>3, <1>5, <1>7
<1> QED BY <1>1, <1>8

\* The machine's division, with the edge taken off first, rounds down.
LEMMA TlIndexRoundsDown ==
    ASSUME NEW a \in Int
    PROVE  TlIndex(a) = a \div Edge
<1>1. PICK e \in Nat \ {0}, q \in Int, r \in 0..Edge - 1 :
         e = Edge /\ q = a \div Edge /\ a = (e * q) + r
  BY EdgeIsPositive, Division
<1>2. CASE a >= 0
  BY <1>1, <1>2 DEF TlIndex, Quotient
<1>3. CASE a < 0
  <2>1. PICK c \in Int : c = (e - 1) - a
    BY <1>1
  <2>2. PICK t \in Int : t = -q
    BY <1>1
  <2>3. PICK rest \in Int : rest = (e - 1) - r /\ rest \in 0..Edge - 1
    BY <1>1
  <2>4. e * t = -(e * q)
    BY <1>1, <2>2
  <2>5. c = (Edge * t) + rest
    BY <1>1, <2>1, <2>3, <2>4
  <2>6. c \div Edge = t
    BY <2>1, <2>2, <2>3, <2>5, DivisionUnique
  <2>7. TlIndex(a) = Quotient(a - (Edge - 1))
    BY <1>3 DEF TlIndex
  <2>8. /\ a - (Edge - 1) \in Int /\ ~(a - (Edge - 1) >= 0)
        /\ -(a - (Edge - 1)) = c
    BY <1>1, <1>3, <2>1
  <2>9. Quotient(a - (Edge - 1)) = -(c \div Edge)
    BY <2>8 DEF Quotient
  <2> QED BY <1>1, <2>2, <2>6, <2>7, <2>9
<1> QED BY <1>2, <1>3

-----------------------------------------------------------------------------
(* What RenderArea is given, along an axis.                                *)

\* Induction: what holds of 0, and of the next number whenever it holds of one,
\* holds of all.
LEMMA Induction ==
    ASSUME NEW S \in SUBSET Nat, 0 \in S, \A n \in S : n + 1 \in S
    PROVE  S = Nat
<1> SUFFICES ASSUME Nat \ S # {} PROVE FALSE
  OBVIOUS
<1>1. PICK m \in Nat \ S : \A k \in Nat \ S : ~(k < m)
  <2> DEFINE T == Nat \ S
  <2>1. T \in SUBSET Nat /\ T # {}
    OBVIOUS
  <2> HIDE DEF T
  <2>2. PICK m \in T : \A k \in T : <<k, m>> \notin OpToRel(<, Nat)
    BY <2>1, WFMin, NatLessThanWellFounded
  <2>3. ASSUME NEW k \in T PROVE ~(k < m)
    <3>1. <<k, m>> \in Nat \X Nat /\ <<k, m>>[1] = k /\ <<k, m>>[2] = m
      BY <2>1
    <3> QED BY <2>2, <3>1 DEF OpToRel
  <2> QED BY <2>3 DEF T
<1>2. m # 0 /\ m - 1 \in Nat /\ m - 1 < m
  OBVIOUS
<1>3. m - 1 \in S
  BY <1>1, <1>2
<1> QED BY <1>2, <1>3

\* What comes of requests that each leave the next by what they are served.
Chained(from, G, len, first, end) ==
    from = [p \in first..end |->
               {G[p]} \cup (IF p + len[p] > p /\ p + len[p] < end THEN from[p + len[p]] ELSE {})]

\* There is such a function, as requests go one way.
LEMMA ChainExists ==
    ASSUME NEW G, NEW len \in [Int -> Int], NEW first \in Int, NEW end \in Int, first <= end
    PROVE  \E from : Chained(from, G, len, first, end)
<1> DEFINE S == {n \in Nat : \E from : Chained(from, G, len, end - n, end)}
<1>1. 0 \in S
  <2> DEFINE from == [p \in end..end |-> {G[p]}]
             rest(p) == IF p + len[p] > p /\ p + len[p] < end THEN from[p + len[p]] ELSE {}
  <2>1. \A p \in end..end : p = end /\ len[p] \in Int
    OBVIOUS
  <2>2. \A p \in end..end : rest(p) = {}
    BY <2>1
  <2>3. from = [p \in end..end |-> {G[p]} \cup rest(p)]
    BY <2>2
  <2>4. end - 0 = end
    OBVIOUS
  <2> HIDE DEF from
  <2>5. Chained(from, G, len, end - 0, end)
    BY <2>3, <2>4 DEF Chained
  <2> QED BY <2>5
<1>2. ASSUME NEW n \in S PROVE n + 1 \in S
  <2>1. PICK a \in Int : a = end - n /\ a <= end
    OBVIOUS
  <2>2. PICK old : Chained(old, G, len, a, end)
    BY <2>1
  <2> DEFINE Of(f, p) == {G[p]} \cup (IF p + len[p] > p /\ p + len[p] < end THEN f[p + len[p]] ELSE {})
             new == [p \in (a - 1)..end |-> IF p = a - 1 THEN Of(old, p) ELSE old[p]]
  <2>3. \A p \in a..end : old[p] = Of(old, p)
    BY <2>2 DEF Chained
  <2>4. ASSUME NEW p \in (a - 1)..end PROVE Of(new, p) = Of(old, p)
    <3>1. PICK next \in Int : next = p + len[p]
      BY <2>1
    <3>2. ASSUME next > p, next < end PROVE new[next] = old[next]
      <4>1. next \in (a - 1)..end /\ next # a - 1
        BY <2>1, <3>1, <3>2
      <4> HIDE DEF Of
      <4> QED BY <4>1
    <3>3. \A f : Of(f, p) = {G[p]} \cup (IF next > p /\ next < end THEN f[next] ELSE {})
      BY <3>1
    <3> HIDE DEF Of, new
    <3> QED BY <3>2, <3>3
  <2>5. ASSUME NEW p \in (a - 1)..end PROVE new[p] = Of(old, p)
    <3>1. p = a - 1 \/ p \in a..end
      BY <2>1
    <3> HIDE DEF Of
    <3> QED BY <2>3, <3>1
  <2>6. new = [p \in (a - 1)..end |-> Of(new, p)]
    <3>1. \A p \in (a - 1)..end : new[p] = Of(new, p)
      BY <2>4, <2>5
    <3>2. DOMAIN new = (a - 1)..end /\ new = [p \in (a - 1)..end |-> new[p]]
      OBVIOUS
    <3> HIDE DEF new, Of
    <3> QED BY <3>1, <3>2
  <2>7. end - (n + 1) = a - 1 /\ n + 1 \in Nat
    BY <2>1
  <2> HIDE DEF new
  <2>8. Chained(new, G, len, a - 1, end)
    BY <2>6 DEF Chained
  <2> QED BY <2>7, <2>8
<1>3. S = Nat
  BY <1>1, <1>2, Induction
<1>4. end - first \in Nat /\ end - (end - first) = first
  OBVIOUS
<1> QED BY <1>3, <1>4

\* A request along an axis: where it starts, its tile, where in that, and how
\* much of it is served: at least a pixel, and no more than the tile has.
Serves(grant, offset, first, end) ==
    /\ grant.at \in first..(end - 1)
    /\ grant.coord = (grant.at + offset) \div Edge
    /\ grant.start = (grant.at + offset) % Edge
    /\ grant.length \in 1..(end - grant.at)
    /\ grant.start + grant.length <= Edge

InGrant(grant, x) == x \in grant.at..(grant.at + grant.length - 1)

LEMMA GrantServes ==
    ASSUME NEW offset \in 0..Edge - 1, NEW view \in Nat \ {0}, NEW p \in Nat, NEW end \in Int, p < end
    PROVE  /\ Serves(Grant(offset, view, p, end), offset, p, end)
           /\ Grant(offset, view, p, end).at = p
<1> DEFINE grant == Grant(offset, view, p, end)
<1>1. PICK start \in 0..Edge - 1 : start = (p + offset) % Edge
  <2>1. p + offset \in Int
    BY EdgeIsPositive
  <2> QED BY <2>1, Division
<1>2. /\ grant.at = p /\ grant.coord = (p + offset) \div Edge /\ grant.start = start
      /\ grant.length = LockableLength(offset, view, p, end - p)
  BY <1>1 DEF Grant, Panned
<1>3. LockableLength(offset, view, p, end - p) \in 1..(end - p)
  BY <1>1, EdgeIsPositive DEF LockableLength, Panned, LesserOf
<1>4. LockableLength(offset, view, p, end - p) <= Edge - start
  BY <1>1, EdgeIsPositive DEF LockableLength, Panned, LesserOf
<1> HIDE DEF grant
<1>5. start + grant.length <= Edge
  BY <1>1, <1>2, <1>3, <1>4, EdgeIsPositive
<1>6. grant.at \in p..(end - 1)
  BY <1>2
<1>7. Serves(grant, offset, p, end)
  BY <1>1, <1>2, <1>3, <1>5, <1>6 DEF Serves
<1> QED BY <1>2, <1>7 DEF grant

LEMMA LengthIsInteger ==
    ASSUME NEW offset \in Int, NEW view \in Int, NEW p \in Int, NEW end \in Int
    PROVE  Grant(offset, view, p, end).length \in Int
<1>1. PICK start \in Int : start = (p + offset) % Edge
  <2>1. p + offset \in Int
    OBVIOUS
  <2> QED BY <2>1, Division
<1>2. Grant(offset, view, p, end).length = LockableLength(offset, view, p, end - p)
  BY DEF Grant
<1>3. LockableLength(offset, view, p, end - p) \in Int
  BY <1>1, EdgeIsPositive DEF LockableLength, Panned, LesserOf
<1> QED BY <1>2, <1>3

\* The requests of the loop are served, and leave no pixel out.
LEMMA GrantsServe ==
    ASSUME NEW offset \in 0..Edge - 1, NEW view \in Nat \ {0}, NEW first \in Nat, NEW end \in Int,
           first < end
    PROVE  /\ \A grant \in Grants(offset, view, first, end) : Serves(grant, offset, first, end)
           /\ \A x \in first..(end - 1) : \E grant \in Grants(offset, view, first, end) : InGrant(grant, x)
<1> DEFINE G == [p \in Int |-> Grant(offset, view, p, end)]
           len == [p \in Int |-> Grant(offset, view, p, end).length]
<1>1. len \in [Int -> Int]
  <2>1. offset \in Int /\ view \in Int
    BY EdgeIsPositive
  <2>2. \A p \in Int : Grant(offset, view, p, end).length \in Int
    BY <2>1, LengthIsInteger
  <2> QED BY <2>2
<1>2. \A p \in first..end : G[p] = Grant(offset, view, p, end) /\ len[p] = G[p].length
  OBVIOUS
<1>3. PICK from : Chained(from, G, len, first, end) /\ Grants(offset, view, first, end) = from[first]
  <2> DEFINE Of(f, p) == LET grant == Grant(offset, view, p, end)
                             next == p + grant.length
                         IN  {grant} \cup (IF next > p /\ next < end THEN f[next] ELSE {})
  <2>1. ASSUME NEW f, NEW p \in first..end
        PROVE  Of(f, p) = {G[p]} \cup (IF p + len[p] > p /\ p + len[p] < end THEN f[p + len[p]] ELSE {})
    <3>1. Of(f, p) = {G[p]} \cup (IF p + G[p].length > p /\ p + G[p].length < end
                                  THEN f[p + G[p].length] ELSE {})
      BY <1>2
    <3> HIDE DEF Of, G, len
    <3> QED BY <3>1, <1>2
  <2>2. \A f : Chained(f, G, len, first, end) <=> f = [p \in first..end |-> Of(f, p)]
    <3> HIDE DEF Of, G, len
    <3> QED BY <2>1 DEF Chained
  <2>3. \E f : f = [p \in first..end |-> Of(f, p)]
    <3> HIDE DEF Of, G, len
    <3>1. first \in Int /\ end \in Int /\ first <= end
      OBVIOUS
    <3>2. \E f : Chained(f, G, len, first, end)
      BY <1>1, <3>1, ChainExists
    <3> QED BY <2>2, <3>2
  <2> DEFINE chosen == CHOOSE f : f = [p \in first..end |-> Of(f, p)]
  <2>4. chosen = [p \in first..end |-> Of(chosen, p)]
    <3> HIDE DEF Of
    <3> QED BY <2>3
  <2>5. Grants(offset, view, first, end) = chosen[first]
    BY DEF Grants
  <2> HIDE DEF Of, G, len, chosen
  <2> QED BY <2>2, <2>4, <2>5
<1> HIDE DEF G, len
<1> DEFINE Good(p) == /\ \A grant \in from[p] : Serves(grant, offset, p, end)
                      /\ \A x \in p..(end - 1) : \E grant \in from[p] : InGrant(grant, x)
           S == {n \in Nat : \A k \in 1..n : k <= end - first => Good(end - k)}
<1>4. 0 \in S
  OBVIOUS
<1>5. ASSUME NEW n \in S PROVE n + 1 \in S
  <2>1. n \in Nat /\ \A k \in 1..n : k <= end - first => Good(end - k)
    OBVIOUS
  <2> HIDE DEF S
  <2>2. SUFFICES ASSUME n + 1 <= end - first PROVE Good(end - (n + 1))
    <3>1. ASSUME NEW k \in 1..(n + 1), k <= end - first PROVE Good(end - k)
      <4>1. k \in 1..n \/ k = n + 1
        BY <2>1
      <4> HIDE DEF Good
      <4> QED BY <2>1, <2>2, <3>1, <4>1
    <3> HIDE DEF Good
    <3> QED BY <2>1, <3>1 DEF S
  <2>3. PICK p \in Nat : p = end - (n + 1) /\ p \in first..end /\ p < end
    BY <2>1, <2>2
  <2>4. PICK g : g = Grant(offset, view, p, end)
    OBVIOUS
  <2>5. Serves(g, offset, p, end) /\ g.at = p
    BY <2>3, <2>4, GrantServes
  <2>6. PICK next \in (p + 1)..end : next = p + len[p] /\ next = p + g.length
    BY <1>2, <2>3, <2>4, <2>5 DEF Serves
  <2>7. from[p] = {g} \cup (IF next < end THEN from[next] ELSE {})
    <3>1. from[p] = {G[p]} \cup (IF p + len[p] > p /\ p + len[p] < end THEN from[p + len[p]] ELSE {})
      BY <1>3, <2>3 DEF Chained
    <3>2. G[p] = g
      BY <1>2, <2>3, <2>4
    <3> QED BY <3>1, <3>2, <2>6, <2>3
  <2>8. ASSUME NEW x \in p..(next - 1) PROVE InGrant(g, x)
    <3>1. g.length = next - p
      BY <2>3, <2>5, <2>6 DEF Serves
    <3> QED BY <2>3, <2>5, <3>1 DEF InGrant
  <2>9. CASE next = end
    <3>1. from[p] = {g}
      BY <2>7, <2>9
    <3> QED BY <2>3, <2>5, <2>8, <2>9, <3>1
  <2>10. CASE next < end
    <3>1. from[p] = {g} \cup from[next]
      BY <2>7, <2>10
    <3>2. PICK k \in 1..n : k = end - next /\ next = end - k /\ k <= end - first
      BY <2>1, <2>3, <2>10
    <3>3. Good(next)
      BY <2>1, <3>2
    <3>4. ASSUME NEW grant \in from[next] PROVE Serves(grant, offset, p, end)
      <4>1. Serves(grant, offset, next, end)
        BY <3>3
      <4> QED BY <2>3, <2>6, <4>1 DEF Serves
    <3>5. ASSUME NEW x \in p..(end - 1) PROVE \E grant \in from[p] : InGrant(grant, x)
      <4>1. x \in p..(next - 1) \/ x \in next..(end - 1)
        BY <2>3, <2>6
      <4> QED BY <2>8, <3>1, <3>3, <4>1
    <3>6. Good(p)
      BY <2>5, <3>1, <3>4, <3>5
    <3> QED BY <2>3, <3>6
  <2>11. next = end \/ next < end
    BY <2>3, <2>6
  <2> QED BY <2>9, <2>10, <2>11
<1>6. S = Nat
  <2> HIDE DEF S
  <2>1. S \in SUBSET Nat
    BY DEF S
  <2> QED BY <1>4, <1>5, <2>1, Induction
<1>7. Good(first)
  <2>1. PICK n \in Nat : n = end - first /\ n >= 1 /\ end - n = first
    OBVIOUS
  <2>2. \A k \in 1..n : k <= end - first => Good(end - k)
    BY <1>6, <2>1
  <2> HIDE DEF Good
  <2> QED BY <2>1, <2>2
<1> QED BY <1>3, <1>7

\* A pixel is served by a request if the tile and the pixel of it that show it are.
LEMMA PixelInGrant ==
    ASSUME NEW offset \in 0..Edge - 1, NEW x \in Int, NEW first \in Int, NEW end \in Int,
           NEW grant, Serves(grant, offset, first, end)
    PROVE  /\ InGrant(grant, x)
                <=> /\ grant.coord = (x + offset) \div Edge
                    /\ ((x + offset) % Edge) - grant.start \in 0..(grant.length - 1)
           /\ InGrant(grant, x) => grant.at + (((x + offset) % Edge) - grant.start) = x
<1>1. PICK e \in Nat \ {0} : e = Edge
  BY EdgeIsPositive
<1>2. offset \in Int
  BY EdgeIsPositive
<1>3. PICK a \in Int, l \in Nat :
        grant.at = a /\ grant.length = l /\ grant.start = (a + offset) % Edge
          /\ grant.coord = (a + offset) \div Edge /\ grant.start + l <= Edge
  BY DEF Serves
<1>4. PICK c \in Int, s \in 0..Edge - 1 :
        c = (a + offset) \div Edge /\ s = (a + offset) % Edge /\ a + offset = (Edge * c) + s
  <2>1. a + offset \in Int
    BY <1>2
  <2> QED BY <2>1, Division
<1>5. PICK b \in Int, r \in 0..Edge - 1 :
        b = (x + offset) \div Edge /\ r = (x + offset) % Edge /\ x + offset = (Edge * b) + r
  <2>1. x + offset \in Int
    BY <1>2
  <2> QED BY <2>1, Division
<1>6. ASSUME InGrant(grant, x) PROVE b = c /\ r = s + (x - a)
  <2>1. x \in a..(a + l - 1)
    BY <1>3, <1>6 DEF InGrant
  <2>2. s + (x - a) \in 0..Edge - 1
    BY <1>1, <1>3, <1>4, <2>1
  <2>3. PICK base \in Int : base = Edge * c
    BY <1>1, <1>4
  <2>4. x + offset = base + (s + (x - a))
    BY <1>1, <1>2, <1>3, <1>4, <2>3
  <2>5. PICK rest \in 0..Edge - 1 : rest = s + (x - a)
    BY <2>2
  <2> QED BY <1>2, <1>4, <1>5, <2>3, <2>4, <2>5, DivisionUnique
<1>7. ASSUME b = c, r - s \in 0..(l - 1) PROVE x \in a..(a + l - 1)
  <2>1. PICK base \in Int : base = e * c
    BY <1>4
  <2>2. x + offset = base + r /\ a + offset = base + s
    BY <1>1, <1>4, <1>5, <1>7, <2>1
  <2>3. x = a + (r - s)
    BY <1>1, <1>2, <1>4, <1>5, <2>2
  <2> QED BY <1>3, <1>7, <2>3
<1>8. ASSUME InGrant(grant, x) PROVE r - s \in 0..(l - 1) /\ a + (r - s) = x
  <2>1. x \in a..(a + l - 1)
    BY <1>3, <1>8 DEF InGrant
  <2> QED BY <1>1, <1>3, <1>4, <1>5, <1>6, <1>8, <2>1
<1> QED BY <1>3, <1>4, <1>5, <1>6, <1>7, <1>8 DEF InGrant

-----------------------------------------------------------------------------
(* Rendering to the tiles.                                                 *)

\* An area has a place, and pixels.
Areas == (Nat \X Nat) \X ((Nat \ {0}) \X (Nat \ {0}))

InArea(area, p) == \A axis \in {1, 2} : p[axis] \in area[1][axis]..(area[1][axis] + area[2][axis] - 1)

\* What is presented at a pixel is what was drawn there, if something was.
LEMMA RenderedPixel ==
    ASSUME NEW manager, ManagerOK(manager), NEW areas \in SUBSET Areas, NEW content,
           NEW p \in Area(manager.viewSize)
    PROVE  Presented(RenderArea(manager, areas, content), p)
             = IF \E area \in areas : InArea(area, p) THEN content[p] ELSE Presented(manager, p)
<1>1. PICK offset, view : offset = manager.topLeftOffset /\ view = manager.viewSize
  OBVIOUS
<1>2. /\ view[1] \in Nat \ {0} /\ view[2] \in Nat \ {0}
      /\ offset[1] \in 0..Edge - 1 /\ offset[2] \in 0..Edge - 1
      /\ p[1] \in Nat /\ p[2] \in Nat /\ p = <<p[1], p[2]>>
  BY <1>1 DEF ManagerOK, Area
<1> DEFINE pixel == <<(p[1] + offset[1]) % Edge, (p[2] + offset[2]) % Edge>>
           coords == <<(p[1] + offset[1]) \div Edge, (p[2] + offset[2]) \div Edge>>
           Along(axis, area) == Grants(offset[axis], view[axis],
                                       area[1][axis], area[1][axis] + area[2][axis])
           served == UNION {Along(1, area) \X Along(2, area) : area \in areas}
           Fits(grant, c, x) == \A axis \in {1, 2} :
                /\ grant[axis].coord = c[axis]
                /\ x[axis] - grant[axis].start \in 0..grant[axis].length - 1
           Into(c, x) == {grant \in served : Fits(grant, c, x)}
           Source(grant, x) == Plus(<<grant[1].at, grant[2].at>>,
                                    Minus(x, <<grant[1].start, grant[2].start>>))
           tiles == [c \in DOMAIN manager.tiles |->
                        [x \in Area(<<Edge, Edge>>) |->
                            IF Into(c, x) = {} THEN manager.tiles[c][x]
                            ELSE content[Source(CHOOSE grant \in Into(c, x) : TRUE, x)]]]
<1>3. RenderedTiles(manager, areas, content) = tiles
  BY <1>1 DEF RenderedTiles
<1>4. Presented(manager, p) = manager.tiles[coords][pixel] /\ TileOf(manager, p) = coords
  BY <1>1 DEF Presented, TileOf, Plus
<1>5. Presented(RenderArea(manager, areas, content), p) = tiles[coords][pixel]
  <2> HIDE DEF tiles
  <2>1. PICK rendered : rendered = RenderArea(manager, areas, content)
    OBVIOUS
  <2>2. rendered.tiles = tiles /\ rendered.topLeftOffset = offset
    BY <1>1, <1>3, <2>1 DEF RenderArea
  <2> QED BY <2>1, <2>2 DEF Presented, TileOf, Plus
<1>6. coords \in DOMAIN manager.tiles
  BY <1>4, ManagerCovers DEF CoversView
<1>7. pixel \in Area(<<Edge, Edge>>)
  <2>1. p[1] + offset[1] \in Int /\ p[2] + offset[2] \in Int
    BY <1>2, EdgeIsPositive
  <2> QED BY <2>1, Division DEF Area
<1>8. tiles[coords][pixel] = IF Into(coords, pixel) = {} THEN manager.tiles[coords][pixel]
                             ELSE content[Source(CHOOSE grant \in Into(coords, pixel) : TRUE, pixel)]
  <2> HIDE DEF Into, Source, coords, pixel
  <2> QED BY <1>6, <1>7
<1>9. ASSUME NEW area \in areas, NEW axis \in {1, 2}
      PROVE  /\ area[1][axis] \in Int /\ area[1][axis] + area[2][axis] \in Int
             /\ \A grant \in Along(axis, area) :
                   Serves(grant, offset[axis], area[1][axis], area[1][axis] + area[2][axis])
             /\ \A x \in area[1][axis]..(area[1][axis] + area[2][axis] - 1) :
                   \E grant \in Along(axis, area) : InGrant(grant, x)
  <2>1. PICK first \in Nat, size \in Nat \ {0} : first = area[1][axis] /\ size = area[2][axis]
    BY DEF Areas
  <2>2. offset[axis] \in 0..Edge - 1 /\ view[axis] \in Nat \ {0}
    BY <1>2
  <2>3. PICK end \in Int : end = first + size /\ first < end
    BY <2>1
  <2>4. PICK o \in 0..Edge - 1, v \in Nat \ {0} : o = offset[axis] /\ v = view[axis]
    BY <2>2
  <2>5. PICK requests : requests = Along(axis, area) /\ requests = Grants(o, v, first, end)
    BY <2>1, <2>3, <2>4
  <2>6. /\ \A grant \in requests : Serves(grant, o, first, end)
        /\ \A x \in first..(end - 1) : \E grant \in requests : InGrant(grant, x)
    BY <2>3, <2>5, GrantsServe
  <2> HIDE DEF Along
  <2> QED BY <2>1, <2>3, <2>4, <2>5, <2>6
<1>10. ASSUME NEW area \in areas, NEW axis \in {1, 2}, NEW grant \in Along(axis, area)
       PROVE  /\ InGrant(grant, p[axis])
                   <=> /\ grant.coord = coords[axis]
                       /\ pixel[axis] - grant.start \in 0..grant.length - 1
              /\ InGrant(grant, p[axis]) => grant.at + (pixel[axis] - grant.start) = p[axis]
              /\ InGrant(grant, p[axis]) => p[axis] \in area[1][axis]..(area[1][axis] + area[2][axis] - 1)
  <2>1. PICK first \in Nat, size \in Nat, end \in Int :
          /\ first = area[1][axis] /\ size = area[2][axis]
          /\ end = first + size /\ end = area[1][axis] + area[2][axis]
    BY DEF Areas
  <2>2. Serves(grant, offset[axis], first, end)
    BY <1>9, <2>1
  <2>3. PICK o \in 0..Edge - 1, x \in Int : o = offset[axis] /\ x = p[axis]
    BY <1>2
  <2>4. PICK c, r : c = (x + o) \div Edge /\ r = (x + o) % Edge
    OBVIOUS
  <2>5. /\ InGrant(grant, x) <=> grant.coord = c /\ r - grant.start \in 0..grant.length - 1
        /\ InGrant(grant, x) => grant.at + (r - grant.start) = x
    BY <2>2, <2>3, <2>4, PixelInGrant
  <2>6. InGrant(grant, x) => x \in first..(end - 1)
    <3>1. PICK at \in first..(end - 1) : grant.at = at /\ grant.length \in 1..(end - at)
      BY <2>2 DEF Serves
    <3>2. PICK length \in 1..(end - at) : grant.length = length
      BY <3>1
    <3> QED BY <2>1, <2>3, <3>1, <3>2 DEF InGrant
  <2>7. coords[axis] = c /\ pixel[axis] = r
    BY <2>3, <2>4
  <2> HIDE DEF coords, pixel, Along
  <2>8. InGrant(grant, p[axis])
          <=> /\ grant.coord = coords[axis]
              /\ pixel[axis] - grant.start \in 0..grant.length - 1
    BY <2>3, <2>5, <2>7
  <2>9. InGrant(grant, p[axis]) => grant.at + (pixel[axis] - grant.start) = p[axis]
    BY <2>3, <2>5, <2>7
  <2>10. InGrant(grant, p[axis]) => p[axis] \in area[1][axis]..(area[1][axis] + area[2][axis] - 1)
    BY <2>1, <2>3, <2>6
  <2> QED BY <2>8, <2>9, <2>10
<1> HIDE DEF Along, coords, pixel
<1>11. ASSUME NEW grant \in Into(coords, pixel)
       PROVE  Source(grant, pixel) = p /\ \E area \in areas : InArea(area, p)
  <2>1. PICK area \in areas : grant \in Along(1, area) \X Along(2, area)
    OBVIOUS
  <2>2. Fits(grant, coords, pixel)
    OBVIOUS
  <2> HIDE DEF Into, served
  <2>3. grant[1] \in Along(1, area) /\ grant[2] \in Along(2, area)
    BY <2>1
  <2>4. ASSUME NEW axis \in {1, 2}
        PROVE  /\ grant[axis].at + (pixel[axis] - grant[axis].start) = p[axis]
               /\ p[axis] \in area[1][axis]..(area[1][axis] + area[2][axis] - 1)
    <3>1. PICK one \in Along(axis, area) : one = grant[axis]
      BY <2>3
    <3>2. /\ one.coord = coords[axis]
          /\ pixel[axis] - one.start \in 0..one.length - 1
      BY <2>2, <3>1
    <3> HIDE DEF Fits, Source
    <3> QED BY <1>10, <3>1, <3>2
  <2>5. InArea(area, p)
    BY <2>4 DEF InArea
  <2>6. Source(grant, pixel) = <<grant[1].at + (pixel[1] - grant[1].start), grant[2].at + (pixel[2] - grant[2].start)>>
    BY DEF Plus, Minus
  <2> HIDE DEF Source, Fits
  <2>7. Source(grant, pixel) = <<p[1], p[2]>>
    BY <2>4, <2>6
  <2> QED BY <1>2, <2>5, <2>7
<1>12. ASSUME NEW area \in areas, InArea(area, p) PROVE Into(coords, pixel) # {}
  <2>1. ASSUME NEW axis \in {1, 2}
        PROVE  \E grant \in Along(axis, area) : InGrant(grant, p[axis])
    <3>1. p[axis] \in area[1][axis]..(area[1][axis] + area[2][axis] - 1)
      BY <1>12 DEF InArea
    <3> QED BY <1>9, <3>1
  <2>2. PICK g1 \in Along(1, area) : InGrant(g1, p[1])
    BY <2>1
  <2>3. PICK g2 \in Along(2, area) : InGrant(g2, p[2])
    BY <2>1
  <2>4. PICK grant : grant = <<g1, g2>>
    OBVIOUS
  <2>5. grant \in served
    BY <2>4
  <2>6. Fits(grant, coords, pixel)
    <3>1. /\ g1.coord = coords[1] /\ pixel[1] - g1.start \in 0..g1.length - 1
          /\ g2.coord = coords[2] /\ pixel[2] - g2.start \in 0..g2.length - 1
      BY <1>10, <2>2, <2>3
    <3> QED BY <2>4, <3>1
  <2> HIDE DEF Fits, served
  <2> QED BY <2>5, <2>6
<1> HIDE DEF Into, Source, tiles
<1>13. Into(coords, pixel) # {} => content[Source(CHOOSE grant \in Into(coords, pixel) : TRUE, pixel)] = content[p]
  BY <1>11
<1> QED BY <1>4, <1>5, <1>8, <1>11, <1>12, <1>13

-----------------------------------------------------------------------------
(* Panning.                                                                *)

LEMMA RemainderOfLess ==
    ASSUME NEW a \in Nat, NEW b \in Nat \ {0}, a < b
    PROVE  a % b = a
OBVIOUS

\* Where a pixel that stays in the view has its tile, along an axis: the tiles
\* are counted from another one, and go around.
LEMMA MovedAxis ==
    ASSUME NEW o \in 0..Edge - 1, NEW delta \in Int, NEW client \in Nat,
           NEW p \in 0..client - 1, p - delta \in 0..client - 1
    PROVE  LET from == (o - delta) % Edge
               tile == (p + from) \div Edge
           IN  /\ tile \in 0..(2 + client \div Edge) - 1
               /\ ((p - delta) + o) \div Edge = (tile + TlIndex(o - delta)) % (2 + client \div Edge)
               /\ ((p - delta) + o) % Edge = (p + from) % Edge
<1>1. PICK e \in Nat \ {0} : e = Edge
  BY EdgeIsPositive
<1>2. PICK off \in Int : off = o - delta
  BY <1>1
<1>3. PICK tl \in Int, from \in 0..Edge - 1 :
        tl = off \div Edge /\ from = off % Edge /\ off = (Edge * tl) + from
  BY Division
<1>4. PICK tile \in Int, pixel \in 0..Edge - 1 :
        /\ tile = (p + from) \div Edge /\ pixel = (p + from) % Edge
        /\ p + from = (Edge * tile) + pixel
  <2>1. p + from \in Int
    BY <1>1
  <2> QED BY <2>1, Division
<1>5. TlIndex(off) = tl
  BY <1>3, TlIndexRoundsDown
<1>6. PICK q \in 0..client - 1 : q = p - delta
  OBVIOUS
<1>7. PICK count \in Nat \ {0} : count = 2 + client \div Edge
  <2>1. client \div Edge \in Nat
    BY <1>1
  <2> QED BY <2>1
<1>8. PICK sum \in Int : sum = tile + tl
  OBVIOUS
<1>9. q + o = (Edge * sum) + pixel
  <2>1. e * sum = (e * tile) + (e * tl)
    BY <1>1, <1>8
  <2>2. PICK x \in Int, y \in Int, z \in Int : x = Edge * tile /\ y = Edge * tl /\ z = Edge * sum /\ z = x + y
    BY <1>1, <2>1
  <2> QED BY <1>1, <1>2, <1>3, <1>4, <1>6, <2>2
<1>10. (q + o) \div Edge = sum /\ (q + o) % Edge = pixel
  <2>1. PICK a \in Int : a = q + o
    BY <1>1
  <2> QED BY <1>9, <2>1, DivisionUnique
<1>11. sum \in 0..count - 1
  BY <1>6, <1>7, <1>10, LastTile
<1>12. sum % count = sum
  BY <1>11, RemainderOfLess
<1>13. tile \in 0..count - 1
  BY <1>3, <1>4, <1>7, LastTile
<1> QED BY <1>2, <1>3, <1>4, <1>5, <1>6, <1>7, <1>8, <1>10, <1>12, <1>13

\* What is presented at a pixel is what was presented where it came from.
LEMMA MovedPixel ==
    ASSUME NEW manager, ManagerOK(manager), NEW client \in Nat \X Nat, NEW delta \in Int \X Int,
           NEW p \in Area(client), Minus(p, delta) \in Area(client),
           Minus(p, delta) \in Area(manager.viewSize)
    PROVE  Presented(AddOffset(SetViewportSize(manager, client), delta), p)
             = Presented(manager, Minus(p, delta))
<1>1. PICK o, view : o = manager.topLeftOffset /\ view = manager.viewSize
  OBVIOUS
<1>2. PICK q : q = Minus(p, delta)
  OBVIOUS
<1>3. ASSUME NEW axis \in {1, 2}
      PROVE  /\ o[axis] \in 0..Edge - 1 /\ view[axis] \in Nat /\ client[axis] \in Nat
             /\ delta[axis] \in Int /\ p[axis] \in 0..client[axis] - 1
             /\ q[axis] = p[axis] - delta[axis] /\ q[axis] \in 0..client[axis] - 1
             /\ q[axis] \in 0..view[axis] - 1
  BY <1>1, <1>2 DEF ManagerOK, Area, Minus
<1> DEFINE from == <<(o[1] - delta[1]) % Edge, (o[2] - delta[2]) % Edge>>
           tile == <<(p[1] + from[1]) \div Edge, (p[2] + from[2]) \div Edge>>
           pixel == <<(p[1] + from[1]) % Edge, (p[2] + from[2]) % Edge>>
           tl == <<TlIndex(o[1] - delta[1]), TlIndex(o[2] - delta[2])>>
           count == <<2 + client[1] \div Edge, 2 + client[2] \div Edge>>
           came == <<(q[1] + o[1]) \div Edge, (q[2] + o[2]) \div Edge>>
<1>4. ASSUME NEW axis \in {1, 2}
      PROVE  /\ tile[axis] \in 0..count[axis] - 1
             /\ came[axis] = (tile[axis] + tl[axis]) % count[axis]
             /\ (q[axis] + o[axis]) % Edge = pixel[axis]
             /\ came[axis] \in 0..count[axis] - 1
             /\ came[axis] \in 0..(2 + view[axis] \div Edge) - 1
  <2>1. PICK oo \in 0..Edge - 1, d \in Int, c \in Nat, pp \in Nat, qq \in Nat, v \in Nat :
          /\ oo = o[axis] /\ d = delta[axis] /\ c = client[axis] /\ pp = p[axis]
          /\ qq = q[axis] /\ qq = pp - d /\ v = view[axis]
          /\ pp \in 0..c - 1 /\ qq \in 0..c - 1 /\ qq \in 0..v - 1
    <3>1. PICK c \in Nat, d \in Int, v \in Nat : c = client[axis] /\ d = delta[axis] /\ v = view[axis]
      BY <1>3
    <3>2. PICK pp \in 0..c - 1, qq \in 0..c - 1 : pp = p[axis] /\ qq = q[axis] /\ qq = pp - d
      BY <1>3, <3>1
    <3>3. qq \in 0..v - 1 /\ pp \in Nat /\ qq \in Nat
      BY <1>3, <3>1, <3>2
    <3>4. PICK oo \in 0..Edge - 1 : oo = o[axis]
      BY <1>3
    <3> QED BY <3>1, <3>2, <3>3, <3>4
  <2>2. LET start == (oo - d) % Edge
            t == (pp + start) \div Edge
        IN  /\ t \in 0..(2 + c \div Edge) - 1
            /\ (qq + oo) \div Edge = (t + TlIndex(oo - d)) % (2 + c \div Edge)
            /\ (qq + oo) % Edge = (pp + start) % Edge
    BY <2>1, MovedAxis
  <2>3. /\ (qq + oo) \div Edge \in 0..(2 + c \div Edge) - 1
        /\ (qq + oo) \div Edge \in 0..(2 + v \div Edge) - 1
    BY <2>1, LastTile
  <2>4. /\ from[axis] = (oo - d) % Edge
        /\ tile[axis] = (pp + from[axis]) \div Edge /\ pixel[axis] = (pp + from[axis]) % Edge
        /\ tl[axis] = TlIndex(oo - d) /\ count[axis] = 2 + c \div Edge
        /\ came[axis] = (qq + oo) \div Edge
    <3>1. from[axis] = (o[axis] - delta[axis]) % Edge
      OBVIOUS
    <3>2. /\ tile[axis] = (p[axis] + from[axis]) \div Edge
          /\ pixel[axis] = (p[axis] + from[axis]) % Edge
      <4> HIDE DEF from
      <4> QED OBVIOUS
    <3>3. tl[axis] = TlIndex(o[axis] - delta[axis]) /\ count[axis] = 2 + client[axis] \div Edge
      OBVIOUS
    <3>4. came[axis] = (q[axis] + o[axis]) \div Edge
      OBVIOUS
    <3> HIDE DEF from, tile, pixel, tl, count, came
    <3> QED BY <2>1, <3>1, <3>2, <3>3, <3>4
  <2> HIDE DEF from, tile, pixel, tl, count, came
  <2> QED BY <2>1, <2>2, <2>3, <2>4
<1> DEFINE sized == SetViewportSize(manager, client)
           sizedTiles == [coords \in Area(NumTiles(client)) |->
                            IF coords \in DOMAIN manager.tiles THEN manager.tiles[coords] ELSE NewSurface]
           moved == AddOffset(sized, delta)
           movedTiles == [coords \in Area(NumTiles(client)) |->
                            sizedTiles[<<(coords[1] + tl[1]) % count[1], (coords[2] + tl[2]) % count[2]>>]]
<1>5. NumTiles(client) = count /\ NumTiles(view) = <<2 + view[1] \div Edge, 2 + view[2] \div Edge>>
  BY DEF NumTiles
<1>6. sized = [tiles |-> sizedTiles, topLeftOffset |-> o, viewSize |-> client]
  BY <1>1 DEF SetViewportSize
<1>7. moved.tiles = movedTiles /\ moved.topLeftOffset = from
  <2>1. PICK s : s = sized /\ s.tiles = sizedTiles /\ s.topLeftOffset = o /\ s.viewSize = client
    <3> HIDE DEF sizedTiles, sized
    <3> QED BY <1>6
  <2>2. DOMAIN s.tiles = Area(NumTiles(client))
    BY <2>1
  <2>3. Minus(o, delta)[1] = o[1] - delta[1] /\ Minus(o, delta)[2] = o[2] - delta[2]
    BY DEF Minus
  <2>4. AddOffset(s, delta).topLeftOffset = from
    BY <2>1, <2>3 DEF AddOffset
  <2>5. AddOffset(s, delta).tiles = movedTiles
    <3> HIDE DEF sizedTiles, sized
    <3> QED BY <1>5, <2>1, <2>2, <2>3 DEF AddOffset
  <2> QED BY <2>1, <2>4, <2>5
<1> HIDE DEF sized, sizedTiles, moved, movedTiles
<1>8. Presented(moved, p) = movedTiles[tile][pixel]
  BY <1>7 DEF Presented, TileOf, Plus
<1>9. Presented(manager, q) = manager.tiles[came][<<(q[1] + o[1]) % Edge, (q[2] + o[2]) % Edge>>]
  BY <1>1 DEF Presented, TileOf, Plus
<1>10. <<(q[1] + o[1]) % Edge, (q[2] + o[2]) % Edge>> = pixel
  BY <1>4
<1>11. tile \in Area(NumTiles(client)) /\ came \in Area(NumTiles(client)) /\ came \in Area(NumTiles(view))
  BY <1>4, <1>5 DEF Area
<1>12. came = <<(tile[1] + tl[1]) % count[1], (tile[2] + tl[2]) % count[2]>>
  BY <1>4
<1> HIDE DEF tile, tl, count, came, pixel
<1>13. movedTiles[tile] = sizedTiles[came]
  BY <1>11, <1>12 DEF movedTiles
<1>14. sizedTiles[came] = manager.tiles[came]
  BY <1>1, <1>11 DEF sizedTiles, ManagerOK
<1> QED BY <1>2, <1>8, <1>9, <1>10, <1>13, <1>14 DEF moved, sized

-----------------------------------------------------------------------------
(* What a partial paint draws.                                             *)

\* A pixel that no strip has came from within the view as it was.
LEMMA StripsCoverNew ==
    ASSUME NEW client \in Nat \ {0}, NEW before \in Nat, NEW delta \in Int,
           ~IsFullScreenPan(delta, before - client, client)
    PROVE  /\ Strips(client, delta, before - client) \in SUBSET (Nat \X (Nat \ {0}))
           /\ \A p \in 0..client - 1 :
                 \/ \E strip \in Strips(client, delta, before - client) :
                       p \in strip[1]..(strip[1] + strip[2] - 1)
                 \/ p - delta \in 0..client - 1 /\ p - delta \in 0..before - 1
<1> DEFINE sizeDelta == before - client
           rest == IF sizeDelta < 0 THEN delta + sizeDelta ELSE delta
           strips == Strips(client, delta, sizeDelta)
<1>1. strips = (IF delta > 0 THEN {<<0, delta>>} ELSE {})
                 \cup (IF rest < 0 THEN {<<client + rest, -rest>>} ELSE {})
  BY DEF Strips
<1>2. PICK r \in Int : r = rest
  OBVIOUS
<1>3. /\ delta <= client /\ -delta <= client
      /\ ~(delta < 0 /\ delta + sizeDelta < 0)
  BY DEF IsFullScreenPan, Magnitude
<1>4. r < 0 => client + r >= 0
  BY <1>2, <1>3
<1>5. strips = (IF delta > 0 THEN {<<0, delta>>} ELSE {})
                 \cup (IF r < 0 THEN {<<client + r, -r>>} ELSE {})
  BY <1>1, <1>2
<1>6. ASSUME NEW p \in 0..client - 1, delta > 0 => p >= delta, r < 0 => p < client + r
      PROVE  p - delta \in 0..client - 1 /\ p - delta \in 0..before - 1
  BY <1>2, <1>3, <1>6
<1> HIDE DEF strips, rest, sizeDelta
<1>7. strips \in SUBSET (Nat \X (Nat \ {0}))
  BY <1>2, <1>4, <1>5
<1>8. ASSUME NEW p \in 0..client - 1
      PROVE  \/ \E strip \in strips : p \in strip[1]..(strip[1] + strip[2] - 1)
             \/ p - delta \in 0..client - 1 /\ p - delta \in 0..before - 1
  <2>1. CASE delta > 0 /\ p < delta
    <3>1. <<0, delta>> \in strips
      BY <1>5, <2>1
    <3>2. p \in 0..(0 + delta - 1)
      BY <2>1
    <3> QED BY <3>1, <3>2
  <2>2. CASE r < 0 /\ p >= client + r
    <3>1. <<client + r, -r>> \in strips
      BY <1>5, <2>2
    <3>2. p \in (client + r)..((client + r) + (-r) - 1)
      BY <1>2, <2>2
    <3> QED BY <3>1, <3>2
  <2>3. CASE ~(delta > 0 /\ p < delta) /\ ~(r < 0 /\ p >= client + r)
    BY <1>2, <1>6, <2>3
  <2> QED BY <2>1, <2>2, <2>3
<1> QED BY <1>7, <1>8 DEF strips, sizeDelta

\* A pixel that no area has came from within the view as it was.
LEMMA NewAreasCoverNew ==
    ASSUME NEW client \in (Nat \ {0}) \X (Nat \ {0}), NEW before \in Nat \X Nat, NEW delta \in Int \X Int,
           \A axis \in {1, 2} : ~IsFullScreenPan(delta[axis], Minus(before, client)[axis], client[axis])
    PROVE  /\ NewAreas(client, delta, Minus(before, client)) \in SUBSET Areas
           /\ \A p \in Area(client) :
                 \/ \E area \in NewAreas(client, delta, Minus(before, client)) : InArea(area, p)
                 \/ Minus(p, delta) \in Area(client) /\ Minus(p, delta) \in Area(before)
<1> DEFINE strips(axis) == Strips(client[axis], delta[axis], before[axis] - client[axis])
           areas == NewAreas(client, delta, Minus(before, client))
<1>1. /\ Minus(before, client)[1] = before[1] - client[1]
      /\ Minus(before, client)[2] = before[2] - client[2]
  BY DEF Minus
<1>2. areas = {<< <<0, strip[1]>>, <<client[1], strip[2]>> >> : strip \in strips(2)}
                \cup {<< <<strip[1], 0>>, <<strip[2], client[2]>> >> : strip \in strips(1)}
  BY <1>1 DEF NewAreas
<1>3. ASSUME NEW axis \in {1, 2}
      PROVE  /\ strips(axis) \in SUBSET (Nat \X (Nat \ {0}))
             /\ \A p \in 0..client[axis] - 1 :
                   \/ \E strip \in strips(axis) : p \in strip[1]..(strip[1] + strip[2] - 1)
                   \/ p - delta[axis] \in 0..client[axis] - 1 /\ p - delta[axis] \in 0..before[axis] - 1
  <2>1. PICK c \in Nat \ {0}, b \in Nat, d \in Int : c = client[axis] /\ b = before[axis] /\ d = delta[axis]
    OBVIOUS
  <2>2. ~IsFullScreenPan(d, b - c, c)
    BY <1>1, <2>1
  <2> QED BY <2>1, <2>2, StripsCoverNew
<1> HIDE DEF strips, areas
<1>4. areas \in SUBSET Areas
  <2>1. ASSUME NEW strip \in strips(2) PROVE << <<0, strip[1]>>, <<client[1], strip[2]>> >> \in Areas
    <3>1. strip \in Nat \X (Nat \ {0})
      BY <1>3
    <3> QED BY <3>1 DEF Areas
  <2>2. ASSUME NEW strip \in strips(1) PROVE << <<strip[1], 0>>, <<strip[2], client[2]>> >> \in Areas
    <3>1. strip \in Nat \X (Nat \ {0})
      BY <1>3
    <3> QED BY <3>1 DEF Areas
  <2> QED BY <1>2, <2>1, <2>2
<1>5. ASSUME NEW p \in Area(client)
      PROVE  \/ \E area \in areas : InArea(area, p)
             \/ Minus(p, delta) \in Area(client) /\ Minus(p, delta) \in Area(before)
  <2>1. p[1] \in 0..client[1] - 1 /\ p[2] \in 0..client[2] - 1
    BY DEF Area
  <2>2. ASSUME NEW strip \in strips(1), p[1] \in strip[1]..(strip[1] + strip[2] - 1)
        PROVE  \E area \in areas : InArea(area, p)
    <3>1. PICK area : area = << <<strip[1], 0>>, <<strip[2], client[2]>> >>
      OBVIOUS
    <3>2. area \in areas
      BY <1>2, <3>1
    <3>3. p[2] \in 0..(0 + client[2] - 1)
      BY <2>1
    <3>4. InArea(area, p)
      BY <2>2, <3>1, <3>3 DEF InArea
    <3> QED BY <3>2, <3>4
  <2>3. ASSUME NEW strip \in strips(2), p[2] \in strip[1]..(strip[1] + strip[2] - 1)
        PROVE  \E area \in areas : InArea(area, p)
    <3>1. PICK area : area = << <<0, strip[1]>>, <<client[1], strip[2]>> >>
      OBVIOUS
    <3>2. area \in areas
      BY <1>2, <3>1
    <3>3. p[1] \in 0..(0 + client[1] - 1)
      BY <2>1
    <3>4. InArea(area, p)
      BY <2>3, <3>1, <3>3 DEF InArea
    <3> QED BY <3>2, <3>4
  <2>4. CASE /\ p[1] - delta[1] \in 0..client[1] - 1 /\ p[1] - delta[1] \in 0..before[1] - 1
             /\ p[2] - delta[2] \in 0..client[2] - 1 /\ p[2] - delta[2] \in 0..before[2] - 1
    BY <2>4 DEF Minus, Area
  <2> QED BY <1>3, <2>1, <2>2, <2>3, <2>4
<1> QED BY <1>4, <1>5 DEF areas

-----------------------------------------------------------------------------
(* What is on the screen.                                                  *)

SurfaceState ==
    [image : Nat, phase : {"empty", "sized", "created", "locked"}, isDirty : BOOLEAN, writes : Nat]

\* What the next paint relies on, unless a lapse is known: the tiles are of the
\* size that was painted last, and the surface's flag tells if it was written.
TilesAreKnown ==
    m_tiles # NoTiles /\ lapses = {} =>
        /\ m_tiles.viewSize = m_currentSize
        /\ m_prevSurface \in Surfaces
        /\ ~surface[m_prevSurface].isDirty =>
              /\ surface[m_prevSurface].image = shown.image
              /\ surface[m_prevSurface].writes = shown.writes

\* ScreenShowsImage with what makes it inductive: a partial paint keeps the
\* pixels that stay, so that it must know what they are.
ScreenInv ==
    /\ IInv
    /\ surface \in [Surfaces -> SurfaceState]
    /\ m_currentSize \in Nat \X Nat
    /\ TilesAreKnown
    /\ ScreenShowsImage

LEMMA InitScreen == Init => ScreenInv
<1> SUFFICES ASSUME Init PROVE ScreenInv
  OBVIOUS
<1>1. EmptySurface(1) \in SurfaceState
  BY DEF EmptySurface, SurfaceState
<1>2. surface \in [Surfaces -> SurfaceState]
  BY <1>1 DEF Init
<1>3. m_tiles = NoTiles /\ m_currentSize \in Nat \X Nat
  BY DEF Init
<1> QED BY <1>2, <1>3, InitInv DEF ScreenInv, TilesAreKnown, ScreenShowsImage

\* What a decoder does is known by the flag, or is a lapse.
LEMMA DecoderScreen ==
    ASSUME ScreenInv, NEW s \in Surfaces, Decoder(s) \/ MakeSurface(s)
    PROVE  ScreenInv'
<1>1. UNCHANGED strategyVars /\ shown' = shown /\ (lapses' = {} => lapses = {})
  BY DEF Decoder, SizeSurface, CreateSurface, Become, LockSurface, WriteRows, MakeSurface
<1>2. surface \in [Surfaces -> SurfaceState] /\ surface[s] \in SurfaceState
  BY DEF ScreenInv
<1>3. PICK old \in SurfaceState : old = surface[s]
  BY <1>2
<1>4. PICK new \in SurfaceState :
        /\ surface' = [surface EXCEPT ![s] = new]
        /\ \/ new.isDirty
           \/ new.isDirty = old.isDirty /\ new.image = old.image /\ new.writes = old.writes
           \/ s = m_prevSurface => lapses' # {}
  <2>1. CASE SizeSurface(s)
    <3>1. surface' = [surface EXCEPT ![s] = [old EXCEPT !.phase = "sized", !.isDirty = TRUE]]
      BY <1>2, <1>3, <2>1 DEF SizeSurface
    <3>2. PICK new : new = [old EXCEPT !.phase = "sized", !.isDirty = TRUE]
      OBVIOUS
    <3>3. new \in SurfaceState /\ new.isDirty
      BY <3>2 DEF SurfaceState
    <3> QED BY <3>1, <3>2, <3>3
  <2>2. CASE CreateSurface(s)
    <3>1. surface' = [surface EXCEPT ![s] = [old EXCEPT !.phase = "created"]]
      BY <1>2, <1>3, <2>2 DEF CreateSurface, Become
    <3>2. PICK new : new = [old EXCEPT !.phase = "created"]
      OBVIOUS
    <3>3. /\ new \in SurfaceState
          /\ new.isDirty = old.isDirty /\ new.image = old.image /\ new.writes = old.writes
      BY <3>2 DEF SurfaceState
    <3> QED BY <3>1, <3>2, <3>3
  <2>3. CASE LockSurface(s)
    <3>1. surface' = [surface EXCEPT ![s] = [old EXCEPT !.phase = "locked", !.isDirty = TRUE]]
      BY <1>2, <1>3, <2>3 DEF LockSurface
    <3>2. PICK new : new = [old EXCEPT !.phase = "locked", !.isDirty = TRUE]
      OBVIOUS
    <3>3. new \in SurfaceState /\ new.isDirty
      BY <3>2 DEF SurfaceState
    <3> QED BY <3>1, <3>2, <3>3
  <2>4. CASE WriteRows(s)
    <3> DEFINE writes == old.writes + 1
    <3>0. writes \in Nat
      BY DEF SurfaceState
    <3>1. surface' = [surface EXCEPT ![s] = [old EXCEPT !.phase = "created", !.writes = writes]]
      BY <1>2, <1>3, <2>4 DEF WriteRows
    <3> HIDE DEF writes
    <3>2. PICK new : new = [old EXCEPT !.phase = "created", !.writes = writes]
      OBVIOUS
    <3>3. new \in SurfaceState /\ new.isDirty = old.isDirty
      BY <3>0, <3>2 DEF SurfaceState
    <3>4. old.isDirty \/ (s = m_prevSurface => lapses' # {})
      BY <1>3, <2>4 DEF WriteRows
    <3> QED BY <3>1, <3>2, <3>3, <3>4
  <2>5. CASE MakeSurface(s)
    <3>1. surface' = [surface EXCEPT ![s] = EmptySurface(old.image + 1)]
      BY <1>2, <1>3, <2>5 DEF MakeSurface
    <3>2. PICK new : new = EmptySurface(old.image + 1)
      OBVIOUS
    <3>3. new \in SurfaceState /\ new.isDirty
      BY <3>2 DEF SurfaceState, EmptySurface
    <3> QED BY <3>1, <3>2, <3>3
  <2> QED BY <2>1, <2>2, <2>3, <2>4, <2>5 DEF Decoder
<1>5. surface' \in [Surfaces -> SurfaceState]
  BY <1>2, <1>4
<1>6. IInv' /\ ScreenShowsImage' /\ (m_currentSize \in Nat \X Nat)'
  BY <1>1 DEF ScreenInv, IInv, TilesInv, ScreenShowsImage, strategyVars
<1>7. TilesAreKnown'
  <2>1. SUFFICES ASSUME m_tiles # NoTiles, lapses' = {}
                 PROVE  /\ m_tiles.viewSize = m_currentSize
                        /\ m_prevSurface \in Surfaces
                        /\ ~surface'[m_prevSurface].isDirty =>
                              /\ surface'[m_prevSurface].image = shown.image
                              /\ surface'[m_prevSurface].writes = shown.writes
    BY <1>1 DEF TilesAreKnown, strategyVars
  <2>2. /\ m_tiles.viewSize = m_currentSize
        /\ m_prevSurface \in Surfaces
        /\ ~surface[m_prevSurface].isDirty =>
              /\ surface[m_prevSurface].image = shown.image
              /\ surface[m_prevSurface].writes = shown.writes
    BY <1>1, <2>1 DEF ScreenInv, TilesAreKnown
  <2>3. CASE s # m_prevSurface
    <3>1. surface'[m_prevSurface] = surface[m_prevSurface]
      BY <1>2, <1>4, <2>2, <2>3
    <3> QED BY <2>2, <3>1
  <2>4. CASE s = m_prevSurface
    <3>1. surface'[m_prevSurface] = new
      BY <1>2, <1>4, <2>4
    <3> QED BY <1>3, <1>4, <2>1, <2>2, <2>4, <3>1
  <2> QED BY <2>3, <2>4
<1> QED BY <1>5, <1>6, <1>7 DEF ScreenInv

LEMMA PaintEmptyScreen ==
    ASSUME ScreenInv, NEW s \in Surfaces, NEW lost \in BOOLEAN, PaintEmpty(s, lost)
    PROVE  ScreenInv'
<1>1. IInv'
  BY NextInv DEF ScreenInv, Next, RenderStatus
<1>2. UNCHANGED <<surface, m_currentSize>> /\ lapses' # {}
  BY DEF PaintEmpty
<1> QED BY <1>1, <1>2 DEF ScreenInv, TilesAreKnown, ScreenShowsImage

LEMMA PaintScreen ==
    ASSUME ScreenInv, NEW s \in Surfaces, NEW lost \in BOOLEAN, NEW zoom \in Zooms,
           NEW window \in Clients[zoom], NEW pan \in Pans, Paint(s, zoom, window, pan, lost)
    PROVE  ScreenInv'
<1> DEFINE client == Least(window, ZoomedSize[zoom])
           delta == Minus(m_currPosition, pan)
           sizeDelta == Minus(m_currentSize, client)
           tiles == SetViewportSize(TilesAfter(lost), client)
           redraw == Redraws(s, zoom, client, delta, sizeDelta, lost)
           full == redraw \/ surface[s].isDirty
           before == IF full THEN tiles ELSE AddOffset(tiles, delta)
           drawn == CanBeDrawn(s)
           areas == IF full THEN {<< <<0, 0>>, client>>} ELSE NewAreas(client, delta, sizeDelta)
           content == [p \in Area(client) |-> Content(s, zoom, pan, p)]
<1>1. /\ m_tiles' = RenderArea(before, IF drawn THEN areas ELSE {}, content)
      /\ surface' = [surface EXCEPT ![s].isDirty = redraw /\ @]
      /\ m_currPosition' = pan /\ m_currentSize' = client
      /\ m_prevProperties' = zoom /\ m_prevSurface' = s
      /\ shown' = [image |-> surface[s].image, writes |-> surface[s].writes]
      /\ lapses' = IF ~drawn THEN lapses \cup {"undrawn"} ELSE IF full THEN {} ELSE lapses
      /\ Positive(client)
  BY DEF Paint
<1>2. client \in (Nat \ {0}) \X (Nat \ {0})
  <2>1. client \in Nat \X Nat
    BY RedrawAssumption DEF Least, LesserOf
  <2> HIDE DEF client
  <2> QED BY <1>1, <2>1 DEF Positive
<1>3. pan \in Int \X Int /\ m_currPosition \in Int \X Int
  BY DEF Pans, Area, ScreenInv, IInv
<1>4. delta \in Int \X Int
  BY <1>3 DEF Minus
<1>5. IInv'
  BY PaintInv DEF ScreenInv
<1>6. surface \in [Surfaces -> SurfaceState] /\ m_currentSize \in Nat \X Nat
  BY DEF ScreenInv
<1>7. surface' \in [Surfaces -> SurfaceState]
  <2>1. redraw \in BOOLEAN
    BY DEF Redraws
  <2> HIDE DEF redraw
  <2>2. PICK old \in SurfaceState : old = surface[s]
    BY <1>6
  <2>3. PICK new : new = [old EXCEPT !.isDirty = redraw /\ @]
    OBVIOUS
  <2>4. new \in SurfaceState
    BY <2>1, <2>3 DEF SurfaceState
  <2>5. surface' = [surface EXCEPT ![s] = new]
    BY <1>1, <1>6, <2>2, <2>3
  <2> QED BY <1>6, <2>4, <2>5
<1>8. surface'[s].image = surface[s].image /\ surface'[s].writes = surface[s].writes
  <2> HIDE DEF redraw
  <2> QED BY <1>1, <1>6 DEF SurfaceState
<1>9. ManagerOK(tiles) /\ tiles.viewSize = client
  <2>1. client \in Nat \X Nat
    BY <1>2
  <2> HIDE DEF client
  <2> QED BY <2>1, SetViewportSizeOK DEF ScreenInv, IInv, SetViewportSize
<1> HIDE DEF client, delta, sizeDelta, tiles, redraw, drawn
<1>10. ManagerOK(before) /\ before.viewSize = client
  <2>1. ManagerOK(AddOffset(tiles, delta)) /\ AddOffset(tiles, delta).viewSize = client
    BY <1>4, <1>9, AddOffsetOK DEF AddOffset
  <2> QED BY <1>9, <2>1
<1> HIDE DEF before, areas, content, full
<1>11. m_tiles'.viewSize = client
  BY <1>1, <1>10 DEF RenderArea
<1>12. TilesAreKnown'
  BY <1>1, <1>8, <1>11 DEF TilesAreKnown
<1>13. ScreenShowsImage'
  <2>1. SUFFICES ASSUME lapses' = {}, NEW p \in Area(client)
                 PROVE  Presented(m_tiles', p) = Content(s, zoom, pan, p)
    BY <1>1, <1>11 DEF ScreenShowsImage, Content, Presented, TileOf
  <2>2. drawn /\ (full \/ lapses = {})
    BY <1>1, <2>1
  <2>3. m_tiles' = RenderArea(before, areas, content)
    BY <1>1, <2>2
  <2>4. content[p] = Content(s, zoom, pan, p)
    BY DEF content
  <2>5. CASE full
    <3>1. areas = {<< <<0, 0>>, client>>}
      BY <2>5 DEF areas
    <3>2. areas \in SUBSET Areas
      BY <1>2, <3>1 DEF Areas
    <3>3. PICK area : area = << <<0, 0>>, client>>
      OBVIOUS
    <3>4. InArea(area, p)
      BY <1>2, <2>1, <3>3 DEF InArea, Area
    <3>5. \E one \in areas : InArea(one, p)
      BY <3>1, <3>3, <3>4
    <3> QED BY <1>10, <2>3, <2>4, <3>2, <3>5, RenderedPixel
  <2>6. CASE ~full
    <3>1. /\ Reset(lost) # NoTiles /\ zoom = m_prevProperties /\ s = m_prevSurface
          /\ \A axis \in {1, 2} : ~IsFullScreenPan(delta[axis], sizeDelta[axis], client[axis])
          /\ ~surface[s].isDirty
      BY <2>6 DEF full, redraw, Redraws
    <3>2. TilesAfter(lost) = m_tiles /\ m_tiles # NoTiles
      BY <3>1 DEF TilesAfter, Reset
    <3>3. lapses = {}
      BY <2>2, <2>6
    <3>4. /\ ManagerOK(m_tiles) /\ m_tiles.viewSize = m_currentSize
          /\ surface[s].image = shown.image /\ surface[s].writes = shown.writes
      BY <3>1, <3>2, <3>3 DEF ScreenInv, IInv, TilesInv, TilesAreKnown
    <3>5. areas = NewAreas(client, delta, sizeDelta)
      BY <2>6 DEF areas
    <3>6. /\ areas \in SUBSET Areas
          /\ \/ \E area \in areas : InArea(area, p)
             \/ Minus(p, delta) \in Area(client) /\ Minus(p, delta) \in Area(m_currentSize)
      BY <1>2, <1>4, <1>6, <3>1, <3>5, NewAreasCoverNew DEF sizeDelta
    <3>7. Presented(m_tiles', p) = IF \E area \in areas : InArea(area, p) THEN content[p] ELSE Presented(before, p)
      BY <1>10, <2>3, <3>6, RenderedPixel
    <3>8. CASE \E area \in areas : InArea(area, p)
      BY <2>4, <3>7, <3>8
    <3>9. CASE ~\E area \in areas : InArea(area, p)
      <4>1. PICK q : q = Minus(p, delta)
        OBVIOUS
      <4>2. q \in Area(client) /\ q \in Area(m_currentSize)
        BY <3>6, <3>9, <4>1
      <4>3. before = AddOffset(SetViewportSize(m_tiles, client), delta)
        BY <2>6, <3>2 DEF before, tiles
      <4>4. Presented(before, p) = Presented(m_tiles, q)
        BY <1>2, <1>4, <3>4, <4>1, <4>2, <4>3, MovedPixel
      <4>5. Presented(m_tiles, q) = <<shown.image, shown.writes, m_prevProperties, Plus(m_currPosition, q)>>
        BY <3>2, <3>3, <3>4, <4>2 DEF ScreenInv, ScreenShowsImage
      <4>6. Plus(m_currPosition, q) = Plus(pan, p)
        <5>1. p[1] \in Int /\ p[2] \in Int
          BY <1>2 DEF Area
        <5> QED BY <1>3, <4>1, <5>1 DEF Plus, Minus, delta
      <4> QED BY <3>1, <3>4, <3>7, <3>9, <4>4, <4>5, <4>6 DEF Content
    <3> QED BY <3>8, <3>9
  <2> QED BY <2>5, <2>6
<1>14. (m_currentSize \in Nat \X Nat)'
  BY <1>1, <1>2
<1> QED BY <1>5, <1>7, <1>12, <1>13, <1>14 DEF ScreenInv

LEMMA NextScreen == ScreenInv /\ [Next]_vars => ScreenInv'
<1> SUFFICES ASSUME ScreenInv, [Next]_vars PROVE ScreenInv'
  OBVIOUS
<1>1. CASE UNCHANGED vars
  BY <1>1 DEF ScreenInv, IInv, TilesInv, TilesAreKnown, ScreenShowsImage, vars, strategyVars
<1>2. CASE Next
  <2>1. \A lost \in {status = "CurrentViewLost" : status \in RenderStatus} : lost \in BOOLEAN
    OBVIOUS
  <2> QED BY <1>2, <2>1, DecoderScreen, PaintEmptyScreen, PaintScreen DEF Next
<1> QED BY <1>1, <1>2

\* For tiles, windows, zooms and pans of any size: what a paint has put on the
\* screen, drawing no more than the strips that the pan and the new size of the
\* window laid bare, is what RenderArea would have drawn of the whole window.
THEOREM ScreenIsUpToDate == Spec => []ScreenShowsImage
<1>1. ScreenInv => ScreenShowsImage
  BY DEF ScreenInv
<1> QED BY <1>1, InitScreen, NextScreen, PTL DEF Spec

=============================================================================
