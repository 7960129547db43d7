----------------------------- MODULE BmpDecoder -----------------------------
(***************************************************************************)
(* CodecBMP: the header, and the decoders of raw rows (1, 4, 8, 16, 24 and *)
(* 32 bits) and of run-length encoded ones (4 and 8 bits).                 *)
(***************************************************************************)
EXTENDS Streams

CONSTANT RLEChunks  \* commands of a run-length encoded picture in one chunk

ASSUME RLEAssumption == RLEChunks \in Nat \ {0}

\* The fields of a header, as the file has them, and what Load makes of them.
\* The pixels start at offset.
BmpCompressions(depth) ==
    CASE depth \in {1, 24} -> {"RGB"}
      [] depth = 4 -> {"RGB", "RLE4"}
      [] depth = 8 -> {"RGB", "RLE8"}
      [] OTHER -> {"RGB", "Bitfields"}

CountSet(mask) == Cardinality({i \in 0..30 : (mask \div 2^i) % 2 = 1})
calcShift(mask) == Min({i \in 0..30 : (mask \div 2^i) % 2 = 1})

DefaultMasks == <<16711680, 65280, 255>>
Masks(h) == IF h.compression = "Bitfields" THEN h.masks ELSE DefaultMasks

FileStride(h) ==
    IF h.depth >= 8 THEN (h.width * h.depth) \div 8 ELSE (7 + h.width * h.depth) \div 8

\* Mutant: a row that needs no padding gets four bytes of it.
PaddingNeverZero(h) == 4 - (FileStride(h) % 4)

ScanPadding(h) == IF FileStride(h) % 4 # 0 THEN 4 - (FileStride(h) % 4) ELSE 0

\* The layout of 16-bit pixels; 8-bit channels stand for 555.
Layout16(h) ==
    LET bits == [i \in 1..3 |-> CountSet(Masks(h)[i])]
    IN  CASE bits = <<5, 6, 5>> -> "565"
          [] bits \in {<<5, 5, 5>>, <<8, 8, 8>>} -> "555"
          [] OTHER -> "Undefined"

BmpPixelSize(h) == CASE h.depth <= 8 -> 1 [] h.depth = 16 -> 2 [] OTHER -> 4

\* What BMPHeader::Load, the choice of a decoder and AbstractCodec's check of
\* the size let through. A negative height is kept in the size, so that a
\* picture stored from its top is rejected.
BmpAccepted(h) ==
    /\ h.size \in {12, 40, 56, 108, 124}
    /\ h.planes = 1
    /\ h.depth \in {1, 4, 8, 16, 24, 32}
    /\ h.size # 12 => h.compression \in BmpCompressions(h.depth)
    /\ \A i \in 1..3 : Masks(h)[i] # 0
    /\ h.depth = 16 => Layout16(h) # "Undefined"
    /\ h.width > 0 /\ h.height > 0

LoadHeaderBmp(d, h) ==
    WithFields([SeekBegin(d, h.offset) EXCEPT !.w = h.width, !.h = h.height],
        [header |-> h, row |-> 0, x |-> 0])

AllocateBmp(d) == CreateSurface(d, BmpPixelSize(d.header), 0)

-----------------------------------------------------------------------------
(* Rows are stored from the bottom; a decoder locks the one it writes.     *)

BmpRow(d) == d.h - d.row - 1
GetScanlinePtr(d) == LockRows(d, BmpRow(d), 1)

\* BmpRawDecoder24 writes a pixel when it has all of its bytes. Masks of the
\* fourth byte are left out.
Pixel24(h, bytes) ==
    LET pixel == FoldRight(LAMBDA b, v : b + 256 * v, SubSeq(bytes, 1, 3), 0)
        channel(i) == (pixel \div 2^calcShift(Masks(h)[i])) % 2^CountSet(Masks(h)[i])
    IN  <<channel(3), channel(2), channel(1), 255>>

\* BmpRawDecoder16 writes a byte as soon as it has it; the one of pixel 555
\* that holds the alpha bit gets it set.
Byte16(h, i, b) == IF Layout16(h) = "555" /\ i % 2 = 0 THEN (b % 128) + 128 ELSE b

\* The pixels that a row of the file gives, of which bytes could be read, over
\* those that are there. A row of 1 or 4 bits is converted when all is read.
RawPixels(d, bytes, old) ==
    LET h == d.header
        b == h.depth \div 8
    IN  CASE h.depth \in {1, 4} ->
                IF Len(bytes) < FileStride(h) THEN <<>>
                ELSE Indexed(ConvertToBytes(bytes, h.depth, d.w))
          [] h.depth = 8 -> Indexed(bytes)
          [] h.depth = 16 ->
                [x \in 1 .. (Len(bytes) + 1) \div 2 |-> [i \in 1..2 |->
                    IF 2 * (x - 1) + i <= Len(bytes) THEN Byte16(h, i, bytes[2 * (x - 1) + i])
                    ELSE old[x][i]]]
          [] OTHER ->
                [x \in 1 .. Len(bytes) \div b |-> Pixel24(h, SubSeq(bytes, b * (x - 1) + 1, b * x))]

BmpRawRow(d) ==
    LET locked == GetScanlinePtr(d)
        y == BmpRow(d)
        old == [x \in 1..d.w |-> d.surf[<<x - 1, y>>]]
        n == FileStride(d.header)
        read == ReadFull(WritePixels(locked, 0, y, RawPixels(d, Upcoming(d, n), old)), n)
        padded == IF read.out = "more" THEN SeekCurrent(read, ScanPadding(d.header)) ELSE read
    IN  [padded EXCEPT !.row = @ + 1,
                       !.out = IF @ = "more" /\ d.row + 1 = d.h THEN "Finished" ELSE @]

-----------------------------------------------------------------------------
(* Run-length encoding: pairs of bytes; the first is a count, or 0 for one *)
(* of the commands end of line (0), end of bitmap (1), move (2) and for a  *)
(* run of pixels as they are.                                              *)

\* AddPixelRLE for each of the pixels: those past the end of the row are lost.
AddPixels(d, pixels) ==
    LET n == AtMost(Len(pixels), Max({0, d.w - d.x}))
    IN  [WritePixels(d, d.x, BmpRow(d), SubSeq(Indexed(pixels), 1, n)) EXCEPT !.x = @ + n]

\* Mutant: the area of the row that is done is still locked.
MovedLocked(d, x, row) == GetScanlinePtr([d EXCEPT !.x = x, !.row = row])

MovedTo(d, x, row) == GetScanlinePtr([Unlock(d) EXCEPT !.x = x, !.row = row])

\* End of line: nothing on a line that has no pixel yet.
EndOfLine(d) == IF d.x # 0 THEN MovedTo(d, 0, d.row + 1) ELSE d

Delta(d) ==
    LET read == ReadFull(d, 2)
    IN  IF read.out = "throw" THEN read ELSE MovedTo(read, d.x + Byte(d, 1), d.row + Byte(d, 2))

\* The pixels of the bytes of an absolute run, of which n were announced, and
\* of a pair.
AbsolutePixels(h, bytes, n) ==
    IF h.depth = 8 THEN bytes ELSE NibblesToBytes(bytes, AtMost(n, 2 * Len(bytes)))
RunPixels(h, count, value) ==
    IF h.depth = 8 THEN [i \in 1..count |-> value]
    ELSE [i \in 1..count |-> IF i % 2 = 1 THEN value \div 16 ELSE value % 16]

\* Runs are padded to an even number of bytes.
AbsoluteRun(d, n) ==
    LET bytes == IF d.header.depth = 8 THEN n ELSE (n + 1) \div 2
        read == ReadFull(AddPixels(d, AbsolutePixels(d.header, Upcoming(d, bytes), n)), bytes)
    IN  IF read.out = "more" /\ bytes % 2 = 1 THEN SeekCurrent(read, 1) ELSE read

RleCommand(d) ==
    LET read == ReadFull(d, 2)
    IN  IF read.out = "throw" THEN read
        ELSE CASE Byte(d, 1) > 0 -> AddPixels(read, RunPixels(d.header, Byte(d, 1), Byte(d, 2)))
               [] Byte(d, 1) = 0 /\ Byte(d, 2) = 0 -> EndOfLine(read)
               [] Byte(d, 1) = 0 /\ Byte(d, 2) = 1 -> Finishing(read)
               [] Byte(d, 1) = 0 /\ Byte(d, 2) = 2 -> Delta(read)
               [] OTHER -> AbsoluteRun(read, Byte(d, 2))

\* The commands of a chunk, in the row that was left off at.
RleCommands(d) == Repeated(GetScanlinePtr(d), RLEChunks, RleCommand)

BmpRleChunk(d) ==
    LET done == RleCommands(d)
    IN  IF done.out = "more" /\ done.row = d.h THEN Finishing(done) ELSE done

\* One turn of PerformLoadImageData's loop.
ProcessBmp(d) ==
    IF d.header.compression \in {"RLE4", "RLE8"} THEN BmpRleChunk(d) ELSE BmpRawRow(d)
=============================================================================
