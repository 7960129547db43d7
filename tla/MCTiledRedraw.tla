---------------------------- MODULE MCTiledRedraw ----------------------------
(***************************************************************************)
(* Small windows on small images, with tiles of two pixels.                *)
(***************************************************************************)
EXTENDS TiledRedraw, TLC

\* Two surfaces that are written, replaced and shown in turn, zoomed in and out; or
\* one image that is panned anywhere while the window is resized.
SmallZooms == [in |-> <<3, 1>>, out |-> <<2, 1>>, panned |-> <<4, 3>>]

SmallClients ==
    [in |-> {<<2, 1>>}, out |-> {<<2, 1>>}, panned |-> {<<3, 2>>, <<2, 3>>}]

SmallChanges == ({"in", "out"} \X {"in", "out"}) \cup {<<"panned", "panned">>}

\* The image that is panned is not written, and the only one.
PannedAlone ==
    m_prevProperties' = "panned" =>
        /\ lapses' = {}
        /\ \A s \in Surfaces :
              surface'[s] = IF s = m_prevSurface'
                            THEN [EmptySurface(1) EXCEPT !.phase = "created",
                                                         !.isDirty = surface'[s].isDirty]
                            ELSE EmptySurface(1)

\* A window of more than two tiles.
LongZooms == [in |-> <<5, 1>>]

LongClients == [in |-> {<<5, 1>>}]

LongChanges == {<<"in", "in">>}

Symmetry == Permutations(Surfaces)

=============================================================================
