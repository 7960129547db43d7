---------------------------- MODULE ImageLoader ----------------------------
(***************************************************************************)
(* Img::ImageLoader: loads one image in steps (header, allocation, data,   *)
(* once for a fast preview and once in full), driving a codec. A loader is *)
(* a record; the worker thread takes one step of one loader at a time.     *)
(*                                                                         *)
(* Whether the loader has a codec follows from its state: Purge deletes    *)
(* the codec and LoadHeader creates it, so there is none exactly in        *)
(* Unprocessed and Error.                                                  *)
(***************************************************************************)
EXTENDS WorkRequest

CONSTANTS
    Codec,  \* what each file makes its codec do: see CodecOutcome
    Cost    \* the codec's memory estimate for each file

\* What the codec of a file may answer at each stage. A stage with several
\* outcomes is one that fails now and then: out of memory, a file being written.
CodecOutcome ==
    [header : SUBSET {"ok", "failed"} \ {{}},
     fast   : SUBSET {"ok", "unsupported", "failed"} \ {{}},
     full   : SUBSET {"ok", "failed"} \ {{}},
     data   : SUBSET {"finished", "failed"} \ {{}}]

ASSUME LoaderAssumption ==
    /\ Codec \in [Names -> CodecOutcome]
    /\ Cost \in [Names -> Nat \ {0}]

InternalLoadState ==
    {"Unprocessed", "LoadedHeader", "LoadingFast", "DoneFast",
     "LoadingFull", "DoneFull", "Error"}

Loader ==
    [image : Images, filename : Names, state : InternalLoadState,
     maySkipFast : BOOLEAN, abort : BOOLEAN]

NewLoader(image, filename) ==
    [image |-> image, filename |-> filename, state |-> "Unprocessed",
     maySkipFast |-> FALSE, abort |-> FALSE]

HasCodec(l) == l.state \notin {"Unprocessed", "Error"}

\* GetState, as the ordered LoadState: unprocessed, header, loading, done.
LoadStateHeader == 1
LoadStateLoading == 2
LoadStateDone == 3

GetState(l) ==
    CASE l.state = "Unprocessed" -> 0
      [] l.state \in {"LoadedHeader", "DoneFast"} -> LoadStateHeader
      [] l.state \in {"LoadingFast", "LoadingFull"} -> LoadStateLoading
      [] OTHER -> LoadStateDone

FastPassFinished(l) == l.state \in {"DoneFast", "LoadingFull", "DoneFull", "Error"}

MemoryRequirements(l) == IF l.state = "Error" THEN 0 ELSE Cost[l.filename]

-----------------------------------------------------------------------------
(* The codec's abort flag lives in the codec: it goes when the codec goes. *)

Abort(l) == IF HasCodec(l) THEN [l EXCEPT !.abort = TRUE] ELSE l

\* Mutant: the flag stays up, as if the codec were not told to carry on.
ResetAbortForgotten(l) == l

ResetAbort(l) == IF HasCodec(l) THEN [l EXCEPT !.abort = FALSE] ELSE l

Purge(l) == [l EXCEPT !.state = "Unprocessed", !.abort = FALSE]

FailState(l) == [Purge(l) EXCEPT !.state = "Error"]

-----------------------------------------------------------------------------
(* One call of Load: the loader it leaves, the event it returns and        *)
(* whether it called Image::FinishImage.                                   *)

Result(l, event, finish) == [loader |-> l, event |-> event, finish |-> finish]

Failed(l, event) == Result(FailState(l), event, TRUE)

\* The header event is sent whether or not the header could be loaded.
LoadHeader(l) ==
    {IF outcome = "ok"
     THEN Result([l EXCEPT !.state = "LoadedHeader"], "HeaderLoaded", FALSE)
     ELSE Failed(l, "HeaderLoaded")
        : outcome \in Codec[l.filename].header}

FullAllocate(l) ==
    {IF outcome = "ok"
     THEN Result([l EXCEPT !.state = "LoadingFull"], "Allocated", FALSE)
     ELSE Failed(l, "Allocated")
        : outcome \in Codec[l.filename].full}

\* A codec without a fast pass (or no resolution hint set) either goes on to
\* the full allocation or, behind other images, counts its fast pass as done.
FastAllocate(l, outcome) ==
    CASE outcome = "ok" -> {Result([l EXCEPT !.state = "LoadingFast"], "Allocated", FALSE)}
      [] outcome = "failed" -> {Failed(l, "Allocated")}
      [] outcome = "unsupported" /\ l.maySkipFast -> FullAllocate(l)
      [] OTHER -> {Result([l EXCEPT !.state = "DoneFast"], "Allocated", FALSE)}

Allocate(l) ==
    IF l.state = "DoneFast" THEN FullAllocate(l)
    ELSE UNION {FastAllocate(l, outcome) : outcome \in Codec[l.filename].fast}

DataDone(l) == IF l.state = "LoadingFast" THEN "DoneFast" ELSE "DoneFull"

\* A codec asked to stop may stop, or may just have been done; one that fails
\* counts as done, but sends no event.
LoadImageData(l) ==
    {Result([l EXCEPT !.state = DataDone(l)],
            IF outcome = "finished" THEN "Done" ELSE "None", TRUE)
        : outcome \in Codec[l.filename].data}
    \cup (IF l.abort THEN {Result(l, "None", FALSE)} ELSE {})

\* Load throws nothing here: a codec's exception ends in FailState as a failed
\* stage does.
Load(l) ==
    CASE l.state = "Unprocessed" -> LoadHeader(l)
      [] GetState(l) = LoadStateHeader -> Allocate(l)
      [] GetState(l) = LoadStateLoading -> LoadImageData(l)
      [] OTHER -> {Result(l, "None", FALSE)}

=============================================================================
