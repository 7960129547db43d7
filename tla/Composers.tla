------------------------------ MODULE Composers ------------------------------
(***************************************************************************)
(* The image composers: what Img::Image shows of the surfaces its codec    *)
(* decodes into. A composer is a record; Image's mutex makes every call of *)
(* the viewer's thread one step, the decoder's calls come in between.      *)
(*                                                                         *)
(* A surface is a function from pixels to what was drawn there last: the   *)
(* number of a frame, Fill for a disposal, Blank for nothing.              *)
(***************************************************************************)
EXTENDS Integers, Sequences, SequencesExt

CONSTANT Pixels     \* the pixels of an animation's canvas

Blank == 0
Fill == -1

BlankSurface == [p \in Pixels |-> Blank]

\* A frame of an animation: the pixels of its rectangle, those it draws, and
\* what becomes of them.
Frame ==
    [area : SUBSET Pixels, drawn : SUBSET Pixels,
     dispose : {"NoDispose", "Background", "ToPrevious"}]

Draw(surface, frame, k) == [p \in Pixels |-> IF p \in frame.drawn THEN k ELSE surface[p]]
FillRect(surface, frame) == [p \in Pixels |-> IF p \in frame.area THEN Fill ELSE surface[p]]

\* m_currentFrame counts from 0; the first frame is frames[1].
\* current names the surface on show: none yet, the static codec's "fast" or
\* "full" one, or the composer's own canvas. useFast and recompose belong to
\* ImageComposerStatic, the rest to the animations.
NewComposer(kind) ==
    [kind |-> kind, allocated |-> FALSE, frame |-> 0, loading |-> 0, rendered |-> FALSE,
     current |-> "none", canvas |-> BlankSurface, undisposed |-> BlankSurface,
     useFast |-> FALSE, recompose |-> FALSE]

-----------------------------------------------------------------------------
(* ImageComposerStatic: the preview's surface, or the picture's.           *)

ComposeStatic(c) == [c EXCEPT !.current = IF c.useFast THEN "fast" ELSE "full"]

UseFastSurface(c, fast) == [c EXCEPT !.useFast = fast, !.recompose = TRUE]

-----------------------------------------------------------------------------
(* ImageComposerGif. m_ids is set once the frames are allocated; the only  *)
(* frame of a GIF that stands still is shown as it is (see ShownContent).  *)

\* What became of the frame before the current one.
PreviousDispose(c, frames) ==
    IF c.frame > 0 THEN frames[c.frame].dispose ELSE "NoDispose"

\* The two surfaces once the previous frame is disposed of.
Disposed(c, frames) ==
    CASE PreviousDispose(c, frames) = "NoDispose" -> [c EXCEPT !.undisposed = c.canvas]
      [] PreviousDispose(c, frames) = "ToPrevious" -> [c EXCEPT !.canvas = c.undisposed]
      [] OTHER -> [c EXCEPT !.canvas = FillRect(@, frames[c.frame])]

\* Surfaces that are still to be created, or cleared for the first frame.
Prepared(c) ==
    IF c.current = "none" \/ c.frame = 0
    THEN [c EXCEPT !.current = "canvas", !.canvas = BlankSurface, !.undisposed = BlankSurface]
    ELSE c

ComposeGif(c, frames) ==
    LET prepared == Prepared(c)
        disposed == Disposed(prepared, frames)
    IN  CASE ~c.allocated -> c
          [] c.allocated /\ Len(frames) = 1 -> [c EXCEPT !.current = "canvas"]
          [] c.allocated /\ Len(frames) > 1 ->
                IF prepared.loading <= prepared.frame THEN prepared
                ELSE [disposed EXCEPT !.canvas = Draw(@, frames[c.frame + 1], c.frame + 1),
                                      !.rendered = TRUE]

\* Mutant: after the last frame the animation waits for one more.
AdvanceGifWhenLoaded(c, frames) ==
    IF c.rendered /\ c.loading > c.frame + 1
    THEN [c EXCEPT !.rendered = FALSE, !.frame = @ + 1] ELSE c

OnAdvanceGif(c, frames) ==
    IF ~c.rendered THEN c
    ELSE IF c.frame + 1 >= Len(frames) THEN [c EXCEPT !.rendered = FALSE, !.frame = 0]
    ELSE IF c.loading > c.frame + 1 THEN [c EXCEPT !.rendered = FALSE, !.frame = @ + 1]
    ELSE c

OnRestartGif(c, frames) == ComposeGif([c EXCEPT !.frame = 0, !.rendered = FALSE], frames)

-----------------------------------------------------------------------------
(* WebpImageComposer: a frame that disposes to the background clears the   *)
(* canvas before it is drawn.                                              *)

ComposeWebp(c, frames) ==
    IF c.loading = 0 THEN c
    ELSE LET frame == frames[c.frame + 1]
             cleared == IF frame.dispose = "Background" THEN BlankSurface ELSE c.canvas
             whole == [frame EXCEPT !.drawn = frame.area]
         IN  [c EXCEPT !.current = "canvas",
                       !.canvas = Draw(cleared, IF c.frame = 0 THEN whole ELSE frame, c.frame + 1)]

OnAdvanceWebp(c, frames) ==
    IF c.frame + 1 < c.loading /\ c.current # "none" THEN [c EXCEPT !.frame = @ + 1]
    ELSE [c EXCEPT !.frame = IF @ + 1 = Len(frames) THEN 0 ELSE @]

-----------------------------------------------------------------------------
(* ImageComposer, for all of them.                                         *)

Compose(c, frames) ==
    CASE c.kind = "gif" -> ComposeGif(c, frames)
      [] c.kind = "webp" -> ComposeWebp(c, frames)
      [] OTHER -> ComposeStatic(c)

OnAdvance(c, frames) ==
    CASE c.kind = "gif" -> OnAdvanceGif(c, frames)
      [] c.kind = "webp" -> OnAdvanceWebp(c, frames)
      [] OTHER -> c

Advance(c, frames) == Compose(OnAdvance(c, frames), frames)

RequestCurrentSurface(c, frames) ==
    IF c.current = "none" THEN Compose(c, frames)
    ELSE [(IF c.recompose THEN Compose(c, frames) ELSE c) EXCEPT !.recompose = FALSE]

OnRestart(c, frames) ==
    CASE c.kind = "gif" -> OnRestartGif(c, frames)
      [] c.kind = "webp" -> [c EXCEPT !.frame = 0]
      [] OTHER -> Advance(c, frames)

\* Whether Delay is other than -1: a picture that moves, as far as is known. A
\* GIF of one frame turns out to stand still, a WebP of one frame never does.
HasDelay(c, frames) ==
    \/ c.kind = "gif" /\ (~c.allocated \/ Len(frames) > 1)
    \/ c.kind = "webp"

\* The decoder: the frames are allocated, one more of them is complete.
SendImageData(c) == [c EXCEPT !.allocated = TRUE]
FrameFinished(c) == [c EXCEPT !.loading = @ + 1]

ShownContent(c, frames) ==
    IF c.kind = "gif" /\ Len(frames) = 1 /\ c.current # "none" /\ c.loading = 1
    THEN Draw(BlankSurface, frames[1], 1)
    ELSE c.canvas

=============================================================================
