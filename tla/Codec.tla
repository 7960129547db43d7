------------------------------- MODULE Codec -------------------------------
(***************************************************************************)
(* A picture is decoded: ImageLoader finds the codec of the file and calls *)
(* AbstractCodec's LoadHeader, Allocate and LoadImageData on the worker's  *)
(* thread. The viewer's thread may stop the codec between two chunks       *)
(* (Terminate; the load is resumed later) and rename the file under it.    *)
(*                                                                         *)
(* A file is a record: the codec whose format it has, the extension of its *)
(* name, what its header says, its bytes, the picture that it shows,       *)
(* whether all of it is there, and the window it is shown in.              *)
(***************************************************************************)
EXTENDS BmpDecoder, TgaDecoder, GifDecoder, PsdDecoder, PcxDecoder, PspDecoder, LibraryDecoders

CONSTANTS
    Files,
    MaxTerminations,    \* how often the load is stopped
    MaxRenames

\* The codecs of CodecFactoryStore, in their order.
BuiltinCodecs ==
    <<"WEBP", "BMP", "GIF", "JPEG", "PCX", "PNG", "TGA", "WBMP", "PSP", "TIFF", "PSD", "XYZ">>

\* What the bytes of a file are, and its header: numbers without a sign, but for
\* the sizes that a codec computes or takes as they are. What a codec refuses
\* is among them. libjpeg's samples start within the file, libtiff tells of as
\* many strips or tiles as it gives lengths.
Bytes == 0..255

HeaderTyped(c, h, data) ==
    /\ c # "WBMP" => h.width \in Int /\ h.height \in Int
    /\ c \in {"BMP", "PSD", "PCX", "XYZ", "PSP", "PNG", "WEBP", "TIFF"} => h.offset \in Nat
    /\ c = "TGA" => h.flipVertical \in BOOLEAN /\ h.idSize \in Nat /\ h.mapLength \in Nat
    /\ c = "PSD" => h.channels \in Nat /\ h.bits \in Nat
    /\ c = "PCX" => h.bytesPerLine \in Nat
    /\ c = "XYZ" => \A i \in DOMAIN data : h.inflates[data[i]] \in Seq(Bytes)
    /\ c = "PSP" =>
          /\ h.blocks \in Seq(Range(h.blocks))
          /\ \A i \in DOMAIN h.blocks : {h.blocks[i].at, h.blocks[i].size, h.blocks[i].end} \subseteq Nat
    /\ c = "PNG" => h.pixelSize \in Nat /\ h.passes \in {1, 7}
    /\ c = "JPEG" => h.rowsAtOnce \in Nat /\ h.offset \in 0 .. Len(data)
    /\ c = "TIFF" =>
          /\ h.tiled \in BOOLEAN /\ h.bits \in Nat \ {0} /\ h.chunkSize \in Nat
          /\ h.at \in Seq(Nat) \ {<<>>} /\ h.lengths \in Seq(Nat) /\ Len(h.lengths) = Len(h.at)
          /\ h.tiled => h.tileWidth \in Nat \ {0} /\ h.tileHeight \in Nat \ {0}

ASSUME FilesAssumption ==
    \A f \in Files :
        f.codec \in Range(BuiltinCodecs) /\ f.data \in Seq(Bytes) /\ HeaderTyped(f.codec, f.header, f.data)

VARIABLES
    file,
    codec,          \* ImageLoader's m_codec
    d,              \* its streams and what it has decoded, see Streams
    state,          \* ImageLoader's m_state
    inside,         \* the worker is in PerformLoadImageData
    doAbort,        \* m_doAbort
    isFinished,     \* m_isFinished
    terminations,
    renames,
    worked          \* changes with every step of the worker: its fairness

vars == <<file, codec, d, state, inside, doAbort, isFinished, terminations, renames, worked>>

-----------------------------------------------------------------------------
(* CodecFactoryStore and DetectAndLoadHeader                               *)

\* What a codec accepts: files of its format with a header it supports. CodecTGA
\* has no signature, but refuses the headers of the other formats.
Accepts(c, f) ==
    /\ f.codec = c
    /\ CASE c = "BMP" -> BmpAccepted(f.header)
         [] c = "GIF" -> GifAccepted(f.header)
         [] c = "PCX" -> PcxAccepted(f.header)
         [] c = "TGA" -> TgaAccepted(f.header)
         [] c = "PSP" -> PspAccepted(f.header)
         [] c = "PSD" -> PsdAccepted(f.header)
         [] c = "XYZ" -> f.header.width > 0 /\ f.header.height > 0
         [] c \in {"PNG", "JPEG", "WEBP", "TIFF"} -> LibraryAccepted(f.header)
         [] OTHER -> TRUE

LoadHeaderOf(c, f) ==
    LET new == NewDecoder(f.data)
    IN  CASE c = "BMP" -> LoadHeaderBmp(new, f.header)
          [] c = "GIF" -> LoadHeaderGif(new, f.header)
          [] c = "PCX" -> LoadHeaderPcx(new, f.header)
          [] c = "WBMP" -> LoadHeaderWbmp(new)
          [] c = "XYZ" -> LoadHeaderXyz(new, f.header)
          [] c = "TGA" -> LoadHeaderTga(new, f.header)
          [] c = "PSP" -> LoadHeaderPsp(new, f.header)
          [] c = "PSD" -> LoadHeaderPsd(new, f.header)
          [] c = "PNG" -> LoadHeaderPng(new, f.header)
          [] c = "JPEG" -> LoadHeaderJpeg(new, f.header)
          [] c = "WEBP" -> LoadHeaderWebp(new, f.header)
          [] OTHER -> LoadHeaderTiff(new, f.header)

\* AbstractCodec::LoadHeader: an exception, and sizes that are no sizes, are a
\* header that is not accepted.
HeaderLoads(c, f) ==
    /\ Accepts(c, f)
    /\ LoadHeaderOf(c, f).out = "more"
    /\ c = "WBMP" => LoadHeaderOf(c, f).accepted

\* The codec of the extension is asked first, then every codec in its turn.
CodecsTried(f) == <<f.ext>> \o BuiltinCodecs
DetectedCodec(f) ==
    LET accepted == {i \in DOMAIN CodecsTried(f) : HeaderLoads(CodecsTried(f)[i], f)}
    IN  IF accepted = {} THEN "none" ELSE CodecsTried(f)[Min(accepted)]

-----------------------------------------------------------------------------

\* Part of every step of the worker's thread.
WorkerStep == worked' = ~worked

Init ==
    /\ file \in Files
    /\ codec = "none"
    /\ d = NewDecoder(file.data)
    /\ state = "ILUnprocessed"
    /\ inside = FALSE /\ doAbort = FALSE /\ isFinished = FALSE
    /\ terminations = 0 /\ renames = 0
    /\ worked = FALSE

LoadHeader ==
    /\ state = "ILUnprocessed"
    /\ codec' = DetectedCodec(file)
    /\ IF codec' = "none"
       THEN /\ d' = Closed(d)
            /\ state' = "ILError"
       ELSE /\ d' = LoadHeaderOf(codec', file)
            /\ state' = "ILLoadedHeader"
    /\ WorkerStep
    /\ UNCHANGED <<file, inside, doAbort, isFinished, terminations, renames>>

\* PerformAllocate; the size is the header's.
AllocateOf(e) ==
    CASE codec = "BMP" -> AllocateBmp(e)
      [] codec = "GIF" -> AllocateGif(e)
      [] codec = "PCX" -> AllocatePcx(e)
      [] codec = "WBMP" -> AllocateWbmp(e)
      [] codec = "XYZ" -> AllocateXyz(e)
      [] codec = "TGA" -> AllocateTga(e)
      [] codec = "PSP" -> AllocatePsp(e)
      [] codec = "PSD" -> AllocatePsd(e)
      [] codec = "PNG" -> AllocatePng(e)
      [] codec = "JPEG" -> AllocateJpeg(e)
      [] codec = "WEBP" -> AllocateWebp(e)
      [] OTHER -> AllocateTiff(e)

AllocatedAs(e, loading) ==
    IF e.out = "throw"
    THEN d' = Closed(e) /\ state' = "ILError"
    ELSE d' = e /\ state' = loading

\* A preview is made for the hint of the window's size, if there is one and the
\* codec makes previews of this size.
AllocateFast ==
    /\ state = "ILLoadedHeader"
    /\ IF codec = "JPEG" /\ file.hint.w > 0 /\ JpegScale(file.header, file.hint) > 0
       THEN AllocatedAs(AllocateJpegFast(d, file.hint), "ILLoadingFast")
       ELSE d' = d /\ state' = "ILDoneFast"
    /\ WorkerStep
    /\ UNCHANGED <<file, codec, inside, doAbort, isFinished, terminations, renames>>

AllocateFull ==
    /\ state = "ILDoneFast"
    /\ AllocatedAs(AllocateOf([d EXCEPT !.out = "more"]), "ILLoadingFull")
    /\ WorkerStep
    /\ UNCHANGED <<file, codec, inside, doAbort, isFinished, terminations, renames>>

-----------------------------------------------------------------------------
(* LoadImageData                                                           *)

Loading == state \in {"ILLoadingFast", "ILLoadingFull"}

\* What a codec does before its loop, at each call.
BeginLoad ==
    /\ Loading /\ ~inside /\ ~doAbort
    /\ d.open
    /\ inside' = TRUE
    /\ d' = CASE codec = "PSD" -> EnterPsd(d)
              [] codec = "PSP" -> EnterPsp(d)
              [] OTHER -> d
    /\ WorkerStep
    /\ UNCHANGED <<file, codec, state, doAbort, isFinished, terminations, renames>>

\* A turn of a codec's loop. The area it locked is released, however it ends.
Turn(c, e) ==
    /\ inside /\ ~doAbort
    /\ codec = c /\ d.out = "more"
    /\ d' = Unlock(e)
    /\ WorkerStep
    /\ UNCHANGED <<file, codec, state, inside, doAbort, isFinished, terminations, renames>>

BmpTurn == Turn("BMP", ProcessBmp(d))
TgaTurn == Turn("TGA", ProcessTga(d))
GifTurn == Turn("GIF", ProcessGif(d))
PsdTurn == Turn("PSD", ProcessPsd(d))
PcxTurn == Turn("PCX", ProcessPcx(d))
WbmpTurn == Turn("WBMP", ProcessWbmp(d))
XyzTurn == Turn("XYZ", ProcessXyz(d))
PspTurn == Turn("PSP", ProcessPsp(d))
PngTurn == Turn("PNG", ProcessPng(d))
JpegTurn == Turn("JPEG", ProcessJpeg(d))
WebpTurn == Turn("WEBP", ProcessWebp(d))
TiffTurn == Turn("TIFF", ProcessTiff(d))

\* libpng's error jumps over the destructors of the codec's turn: whether the
\* area is released is up to the compiler.
PngErrorKeepsLock ==
    /\ inside /\ ~doAbort
    /\ codec = "PNG" /\ d.out = "more"
    /\ ProcessPng(d).out = "Failed"
    /\ d' = ProcessPng(d)
    /\ WorkerStep
    /\ UNCHANGED <<file, codec, state, inside, doAbort, isFinished, terminations, renames>>

\* The loop has returned, or an exception ended it, which counts as finished.
\* The file is closed unless it is still needed; ImageLoader goes on.
Returned ==
    /\ inside /\ d.out \in {"Finished", "Failed", "throw"}
    /\ inside' = FALSE
    /\ isFinished' = TRUE
    /\ d' = IF state = "ILLoadingFull" THEN Closed(d) ELSE d
    /\ state' = IF state = "ILLoadingFull" THEN "ILDoneFull" ELSE "ILDoneFast"
    /\ WorkerStep
    /\ UNCHANGED <<file, codec, doAbort, terminations, renames>>

\* The loop sees the flag.
Aborted ==
    /\ inside /\ doAbort /\ d.out = "more"
    /\ inside' = FALSE
    /\ isFinished' = FALSE
    /\ WorkerStep
    /\ UNCHANGED <<file, codec, d, state, doAbort, terminations, renames>>

-----------------------------------------------------------------------------
(* The viewer's thread                                                     *)

Terminate ==
    /\ terminations < MaxTerminations
    /\ codec # "none"
    /\ doAbort' = TRUE
    /\ terminations' = terminations + 1
    /\ UNCHANGED <<file, codec, d, state, inside, isFinished, renames, worked>>

ResetTerminate ==
    /\ doAbort /\ ~inside
    /\ doAbort' = FALSE
    /\ UNCHANGED <<file, codec, d, state, inside, isFinished, terminations, renames, worked>>

FileRenamed ==
    /\ renames < MaxRenames
    /\ d.out = "more"
    /\ d' = Renamed(d)
    /\ renames' = renames + 1
    /\ UNCHANGED <<file, codec, state, inside, doAbort, isFinished, terminations, worked>>

Ended == state \in {"ILDoneFull", "ILError"}

Turns ==
    \/ BmpTurn \/ TgaTurn \/ GifTurn \/ PsdTurn \/ PcxTurn \/ WbmpTurn \/ XyzTurn \/ PspTurn
    \/ PngTurn \/ JpegTurn \/ WebpTurn \/ TiffTurn \/ PngErrorKeepsLock

Worker == LoadHeader \/ AllocateFast \/ AllocateFull \/ BeginLoad \/ Turns \/ Returned \/ Aborted

\* Nothing is left to do; any other stop is a deadlock.
LoadEnded == Ended /\ UNCHANGED vars

Next == Worker \/ Terminate \/ ResetTerminate \/ FileRenamed \/ LoadEnded

\* The worker's thread goes on with a load that has not ended, and one that was
\* stopped is resumed. (It is stopped MaxTerminations times at most.)
WorkerCan ==
    \/ state \in {"ILUnprocessed", "ILLoadedHeader", "ILDoneFast"}
    \/ Loading /\ ~inside /\ ~doAbort /\ d.open
    \/ inside /\ d.out \in {"more", "Finished", "Failed", "throw"}

WorkerGoesOn == WorkerCan /\ WorkerStep

Spec == Init /\ [][Next]_vars /\ WF_worked(WorkerGoesOn) /\ WF_doAbort(ResetTerminate)

-----------------------------------------------------------------------------
(* Properties                                                              *)

\* What the decoder has made of the file.
Animates(e) == codec \in {"GIF", "WEBP"}
Picture(e) == IF Animates(e) THEN e.frames ELSE e.surf

\* The picture that it is decoding, of an animation the frame.
DecodedFrame(e) ==
    IF codec = "GIF" THEN Max({1, Len(e.frames) + (IF e.table = <<>> THEN 0 ELSE 1)})
    ELSE AtMost(Len(e.frames) + 1, Len(file.picture))
PictureOfFile(e) == IF Animates(e) THEN file.picture[DecodedFrame(e)] ELSE file.picture

\* A file that is all there is opened whatever the extension of its name, and
\* shows its picture once it is loaded, however often the load was stopped and
\* resumed, in whichever chunk, and the file renamed; of a preview and a
\* picture the picture.
PictureIsTheFiles ==
    /\ file.whole => state # "ILError"
    /\ file.whole /\ state = "ILDoneFull" =>
          /\ Picture(d) = file.picture
          /\ codec = "JPEG" => d.shown = "full"

\* While a picture is loaded, and when its file ends too early, each byte that is
\* shown is the one the surface was created with or the file's: nothing is
\* shown in a place where it does not belong.
OnlyTheFilesBytes ==
    file.partial /\ state \in {"ILLoadingFull", "ILDoneFull"} =>
        \A p \in DOMAIN d.surf : \A i \in DOMAIN d.surf[p] :
            d.surf[p][i] \in {file.created[i], PictureOfFile(d)[p][i]}

\* A decoder writes the pixels of the area it has locked and no others, and
\* never waits for a lock that it holds itself.
LockedPixelsOnly == d.out \notin {"outside", "deadlock"}

\* An XYZ file that ends within its palette: FillBuffer's failure is not looked
\* at, and the bytes that are there keep the loop going.
PaletteCutOff == codec = "XYZ" /\ ~d.paletteSet /\ FileLeft(d) = 0

\* Every load comes to an end, with a picture or without, but for that file's.
EveryLoadEnds == <>(Ended \/ PaletteCutOff)
=============================================================================
