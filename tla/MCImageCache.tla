---------------------------- MODULE MCImageCache ----------------------------
(* ImageCache on small instances: one name per kind of file.               *)
EXTENDS ImageCache, TLC

CONSTANTS Plain, Photo, Torn, Unreliable  \* the names

\* A plain image has no fast preview, a photo has one, the header of a torn file
\* may be unreadable; with an unreliable file any stage may fail, or find out
\* that it is not supported.
KindOf ==
    (Plain :> [header |-> {"ok"}, fast |-> {"unsupported"}, full |-> {"ok"},
               data |-> {"finished"}])
    @@ (Photo :> [header |-> {"ok"}, fast |-> {"ok"}, full |-> {"ok"},
                  data |-> {"finished"}])
    @@ (Torn :> [header |-> {"ok", "failed"}, fast |-> {"unsupported"}, full |-> {"ok"},
                 data |-> {"finished", "failed"}])
    @@ (Unreliable :> [header |-> {"ok", "failed"}, fast |-> {"ok", "unsupported", "failed"},
                       full |-> {"ok", "failed"}, data |-> {"finished", "failed"}])

CodecValue == [n \in Names |-> KindOf[n]]
CostValue == [n \in Names |-> IF n = Photo THEN 2 ELSE 3]

\* Bound of the larger instances: browsing stops at the ends of the list.
DoesNotWrap == ~m_wrapAround

\* Bound of the safety run: a third file is a plain one among plain ones, with a memory
\* limit, in a list whose ends do not meet.
ThirdIsPlain ==
    Len(m_files') > 2 =>
        /\ \A k \in DOMAIN m_files' : m_files'[k].name = Plain
        /\ m_newMemoryLimit' > 0 /\ ~m_wrapAround'

Symmetry == Permutations(Images)

=============================================================================
