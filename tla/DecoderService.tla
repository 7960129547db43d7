--------------------------- MODULE DecoderService ---------------------------
(***************************************************************************)
(* What the background decoder promises the list of files, without its     *)
(* threads: it touches only the images it holds; what it holds changes     *)
(* only as a whole, to exactly what is requested at that moment; and a     *)
(* request that stays is eventually what it holds.                         *)
(***************************************************************************)
CONSTANT Images

VARIABLES
    requested,  \* the images in the request list
    held,       \* the images the decoder may read, load or deallocate
    open        \* the decoder has not been told to stop

serviceVars == <<requested, held, open>>

Init == requested = {} /\ held = {} /\ open = TRUE

Ask(images) == open /\ requested' = images /\ UNCHANGED <<held, open>>

Adopt == open /\ held' = requested /\ UNCHANGED <<requested, open>>

Stop == open /\ open' = FALSE /\ UNCHANGED <<requested, held>>

Drop == ~open /\ held' = {} /\ UNCHANGED <<requested, open>>

Next == (\E images \in SUBSET Images : Ask(images)) \/ Adopt \/ Stop \/ Drop

Spec == Init /\ [][Next]_serviceVars /\ WF_serviceVars(Adopt) /\ WF_serviceVars(Drop)

=============================================================================
