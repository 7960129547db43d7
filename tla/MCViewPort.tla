----------------------------- MODULE MCViewPort -----------------------------
(***************************************************************************)
(* Pictures of a few pixels in windows of a few pixels.                    *)
(***************************************************************************)
EXTENDS ViewPort

Levels == <<<<1, 2>>, <<1, 1>>, <<2, 1>>>>

Windows == {<<4, 4>>, <<3, 2>>, <<2, 5>>}

Distances == {<<1, 0>>, <<0, 2>>}

Static(orientation, size) ==
    [kind |-> "static", preview |-> FALSE, broken |-> "no", size |-> size,
     orientation |-> orientation, frames |-> <<>>]

Part(n, dispose) ==
    [area |-> {1, 2}, drawn |-> {n}, dispose |-> dispose]

MCFiles ==
    [plain |-> Static(1, <<4, 2>>),
     turned |-> Static(6, <<4, 2>>),
     transposed |-> Static(5, <<2, 4>>),
     preview |-> [Static(1, <<4, 2>>) EXCEPT !.preview = TRUE],
     previewThrows |-> [Static(8, <<4, 2>>) EXCEPT !.preview = TRUE, !.broken = "throws"],
     truncated |-> [Static(1, <<4, 2>>) EXCEPT !.broken = "data"],
     unreadable |-> [Static(1, <<4, 2>>) EXCEPT !.broken = "header"],
     gif |-> [Static(1, <<4, 2>>) EXCEPT !.kind = "gif",
                !.frames = <<Part(1, "NoDispose"), Part(2, "Background"), Part(1, "NoDispose")>>],
     restored |-> [Static(1, <<4, 2>>) EXCEPT !.kind = "gif",
                     !.frames = <<[Part(1, "NoDispose") EXCEPT !.drawn = {1, 2}],
                                  [Part(1, "Background") EXCEPT !.area = {1}],
                                  Part(2, "ToPrevious"), Part(2, "NoDispose")>>],
     still |-> [Static(1, <<4, 2>>) EXCEPT !.kind = "gif", !.frames = <<Part(1, "NoDispose")>>],
     webp |-> [Static(1, <<4, 2>>) EXCEPT !.kind = "webp",
                !.frames = <<Part(1, "NoDispose"), Part(2, "Background")>>]]

Begin(first, second, loaded, behaviour, acts, n) ==
    [files |-> [i1 |-> first, i2 |-> second], loaded |-> loaded, area |-> <<4, 4>>,
     behaviour |-> behaviour, resetPan |-> TRUE, acts |-> acts, budget |-> n]

MCImages == {"i1", "i2"}

\* The geometry of pictures that are there; the decoding of one that is not,
\* beside one that is or one that is decoded as well.
MCStarts ==
    {Begin(f, "plain", MCImages, "Both", {"show", "turn", "zoom", "mode", "pan", "resize"}, 3) :
        f \in {"turned", "transposed"}}
    \cup {Begin("turned", "plain", MCImages, "Both", {"show", "zoom", "mode", "resize"}, 4)}
    \cup {Begin("preview", "plain", {"i2"}, "ReduceOnly", {"show", "mode"}, 2)}
    \cup {Begin("plain", "unreadable", {}, "ReduceOnly", {"show"}, 2)}
    \cup {Begin(f, "still", {"i2"}, "ReduceOnly", {"show"}, 2) :
        f \in {"previewThrows", "truncated", "gif"}}
    \cup {Begin("restored", "plain", MCImages, "ReduceOnly", {"show"}, 1)}
    \cup {Begin("webp", "plain", {"i2"}, "ReduceOnly", {"show"}, 1)}
    \cup {Begin("gif", "still", MCImages, "ReduceOnly", {"show", "drop", "expose"}, 3)}

=============================================================================
