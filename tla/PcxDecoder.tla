----------------------------- MODULE PcxDecoder -----------------------------
(***************************************************************************)
(* CodecPCX, and the small formats CodecWBMP and CodecXYZ.                 *)
(***************************************************************************)
EXTENDS Streams

CONSTANTS
    PcxChunkRows,
    InBufferSize,       \* compressed bytes that CodecXYZ reads at once
    OutBufferSize,      \* bytes it inflates at once
    XyzPaletteSize      \* bytes of its palette: 768

ASSUME PcxAssumption == {PcxChunkRows, InBufferSize, OutBufferSize, XyzPaletteSize} \subseteq Nat \ {0}

-----------------------------------------------------------------------------
(* CodecPCX: a row has the bytes of its planes one after the other.        *)

TotColorDepth(h) == h.planeDepth * h.planes

PcxPixelSize(h) ==
    CASE TotColorDepth(h) <= 8 -> 1
      [] TotColorDepth(h) = 16 -> 2
      [] TotColorDepth(h) = 24 -> 4
      [] OTHER -> 0

\* Compression is 0 or 1: the rows as they are, or in runs.
PcxAccepted(h) ==
    /\ h.manufacturer = 10
    /\ h.version \in {0, 2, 3, 5}
    /\ h.compression \in {"Raw", "Rle"}
    /\ h.planes \in {1, 3, 4}
    /\ 8 * h.planes * h.bytesPerLine >= h.width * TotColorDepth(h)
    /\ PcxPixelSize(h) # 0
    /\ h.width > 0 /\ h.height > 0

LoadHeaderPcx(d, h) ==
    WithFields([SetFileReader(SeekBegin(d, h.offset)) EXCEPT !.w = h.width, !.h = h.height],
        [header |-> h, scan |-> 0, row |-> <<>>])

AllocatePcx(d) == CreateSurface(d, PcxPixelSize(d.header), 0)

ScanBytes(h) == h.planes * h.bytesPerLine

\* DecodeScanline: one code of a row of which done bytes are there. A run is cut
\* at the end of its row; a row stays as it is where the file ends.
DecodeTurn(e) ==
    LET first == CachedByte(e, 1)
        one == ReadByte(e)
        run == first >= 192
        n == AtMost(IF run THEN first - 192 ELSE 1, ScanBytes(e.header) - e.done)
        data == IF run THEN CachedByte(one, 1) ELSE first
        read == IF run THEN ReadByte(one) ELSE one
    IN  IF e.ended \/ e.done >= ScanBytes(e.header) THEN e
        ELSE IF e.left = 0 THEN [e EXCEPT !.ended = TRUE]
        ELSE IF run /\ one.left = 0 THEN [one EXCEPT !.ended = TRUE]
        ELSE [read EXCEPT !.row = [i \in DOMAIN @ |-> IF i - e.done \in 1..n THEN data ELSE @[i]],
                          !.done = @ + n]

DecodeTurns(d) ==
    FoldLeft(LAMBDA u, i : DecodeTurn(u), WithFields(d, [done |-> 0, ended |-> FALSE]),
             [i \in 1 .. d.left + 1 |-> i])
DecodeScanline(d) ==
    LET e == DecodeTurns(d)
    IN  [f \in DOMAIN d |-> e[f]]

\* Whole planes that cannot be read are a failure.
RawScanline(d) ==
    LET n == ScanBytes(d.header)
    IN  IF FileLeft(d) < n THEN Failing(Read(d, n))
        ELSE [Read(d, n) EXCEPT !.row = Upcoming(d, n)]

\* Four planes are the bits of a palette index, three of 8 bits the channels;
\* other sets of planes show nothing.
PlaneByte(d, plane, i) == d.row[plane * d.header.bytesPerLine + i]

Planar4(d, y) ==
    LET bit(plane, x) == (PlaneByte(d, plane, x \div 8 + 1) \div 2^(7 - (x % 8))) % 2
        index(x) == bit(0, x) + 2 * bit(1, x) + 4 * bit(2, x) + 8 * bit(3, x)
    IN  WritePixels(d, 0, y, [x \in 1 .. AtMost(d.w, 8 * d.header.bytesPerLine) |-> <<index(x - 1)>>])

Planar38(d, y) ==
    WritePixels(d, 0, y,
        [x \in 1..d.w |-> <<PlaneByte(d, 2, x), PlaneByte(d, 1, x), PlaneByte(d, 0, x), 255>>])

TransferRow(d, y) ==
    CASE d.header.planes = 4 -> Planar4(d, y)
      [] d.header.planes = 3 -> IF d.header.planeDepth = 8 THEN Planar38(d, y) ELSE d
      [] OTHER -> IF d.header.planeDepth \notin {1, 4, 8} THEN Throw(d)
                  ELSE WritePixels(d, 0, y, Indexed(ConvertToBytes(d.row, d.header.planeDepth, d.w)))

PcxRow(d, y) ==
    LET loaded == IF d.header.compression = "Rle" THEN DecodeScanline(d) ELSE RawScanline(d)
    IN  IF loaded.out = "more" THEN TransferRow(loaded, y) ELSE loaded

\* A chunk of rows, with a buffer for all of them.
PcxRows(d, n) ==
    LET buffer == [i \in 1 .. ScanBytes(d.header) |-> 0]
    IN  FoldLeft(LAMBDA e, i : IF e.out = "more" THEN PcxRow(e, d.scan + i - 1) ELSE e,
                 [LockRows(d, d.scan, n) EXCEPT !.row = buffer], [i \in 1..n |-> i])

ProcessPcx(d) ==
    LET n == AtMost(PcxChunkRows, d.h - d.scan)
        rows == PcxRows(d, n)
    IN  IF rows.out # "more" THEN rows
        ELSE [rows EXCEPT !.scan = @ + n, !.out = IF d.scan + n = d.h THEN "Finished" ELSE "more"]

-----------------------------------------------------------------------------
(* CodecWBMP: two numbers of seven bits a byte, then rows of bits.         *)

\* The number that starts at byte i: whether all of it is there, its value and
\* the byte after it.
ReadUIntVar(data, i) ==
    LET ends == {k \in i .. Len(data) : data[k] < 128}
        last == Min(ends)
    IN  IF ends = {} THEN [there |-> FALSE, value |-> 0, next |-> Len(data) + 1]
        ELSE [there |-> TRUE, next |-> last + 1,
              value |-> FoldLeft(LAMBDA v, b : 128 * v + (b % 128), 0, SubSeq(data, i, last))]

LoadHeaderWbmp(d) ==
    LET type == ReadUIntVar(d.data, 1)
        width == ReadUIntVar(d.data, type.next + 1)
        height == ReadUIntVar(d.data, width.next)
        accepted == /\ type.there /\ width.there /\ height.there
                    /\ type.value = 0 /\ d.data[type.next] = 0
                    /\ width.value > 0 /\ height.value > 0
    IN  WithFields([SeekBegin(d, height.next - 1) EXCEPT !.w = width.value, !.h = height.value],
            [scan |-> 0, accepted |-> accepted])

AllocateWbmp(d) == CreateSurface(d, 1, 255)

\* A row that cannot be read is not counted; the last turn finds nothing to do.
ProcessWbmp(d) ==
    LET n == (d.w + 7) \div 8
        read == ReadFull(LockRows(d, d.scan, 1), n)
        done == WritePixels(read, 0, d.scan, Indexed(BitsToBytes(Upcoming(d, n), d.w)))
    IN  IF d.scan = d.h THEN Finishing(d)
        ELSE IF read.out # "more" THEN read
        ELSE [done EXCEPT !.scan = @ + 1]

-----------------------------------------------------------------------------
(* CodecXYZ: a palette and the pixels, compressed. zlib is external: each  *)
(* byte of the file inflates to the bytes inflates gives for it; those it  *)
(* had no room for wait in pending.                                        *)

LoadHeaderXyz(d, h) ==
    WithFields([SeekBegin(d, h.offset) EXCEPT !.w = h.width, !.h = h.height],
        [header |-> h, paletteSet |-> FALSE, x |-> 0, y |-> 0,
         outData |-> <<>>, pending |-> <<>>])

AllocateXyz(d) == CreateSurface(d, 1, 0)

\* inflate, called until all that was read is taken; at the end of the stream
\* once, for what is still pending.
Inflated(d, input) == FoldLeft(LAMBDA s, b : s \o d.header.inflates[b], d.pending, input)

FillBuffer(d) ==
    LET input == Upcoming(d, InBufferSize)
        bytes == Inflated(d, input)
        n == IF input = <<>> THEN AtMost(OutBufferSize, Len(bytes)) ELSE Len(bytes)
    IN  [Read(d, InBufferSize) EXCEPT !.outData = @ \o SubSeq(bytes, 1, n),
                                      !.pending = SubSeq(bytes, n + 1, Len(bytes))]

\* The palette is taken off when all of it is there.
WithPalette(d) ==
    IF ~d.paletteSet /\ Len(d.outData) >= XyzPaletteSize
    THEN [d EXCEPT !.paletteSet = TRUE, !.outData = SubSeq(@, XyzPaletteSize + 1, Len(@))]
    ELSE d

\* The next pixel of those that are there.
XyzPixel(d) ==
    LET moved == [WritePixels(d, d.x, d.y, <<<<Head(d.outData)>>>>) EXCEPT !.outData = Tail(@)]
        rowDone == d.x + 1 = d.w
        next == [moved EXCEPT !.x = IF rowDone THEN 0 ELSE @ + 1, !.y = IF rowDone THEN @ + 1 ELSE @]
    IN  IF d.outData = <<>> THEN d
        ELSE IF next.y = d.h THEN Finishing(next)
        ELSE next

XyzPixels(d, n) == Repeated(d, n, XyzPixel)

\* Mutant: that the file has nothing more to give is not looked at.
ProcessXyzUnguarded(d) ==
    LET ready == WithPalette(FillBuffer(d))
        locked == LockRows(ready, d.y, d.h - d.y)
    IN  IF ready.paletteSet THEN XyzPixels(locked, Len(ready.outData)) ELSE ready

ProcessXyz(d) ==
    LET filled == FillBuffer(d)
        ready == WithPalette(filled)
        locked == LockRows(ready, d.y, d.h - d.y)
    IN  IF filled.outData = <<>> THEN Failing(filled)
        ELSE IF ready.paletteSet THEN XyzPixels(locked, Len(ready.outData))
        ELSE ready
=============================================================================
