----------------------------- MODULE TgaDecoder -----------------------------
(***************************************************************************)
(* CodecTGA: the header and its footer, and the decoders of raw and of     *)
(* run-length encoded pixels, which fill the surface in batches of rows. A *)
(* run may cross the ends of rows and of batches.                          *)
(***************************************************************************)
EXTENDS Streams

CONSTANT RowsPerBatch

ASSUME BatchAssumption == RowsPerBatch \in Nat \ {0}

TgaDepths == {8, 16, 24, 32}
TgaRawTypes == {"RawColormap", "RawTrueColor", "RawBW"}
TgaRleTypes == {"RLEColormap", "RLETrueColor", "RLEBW"}

\* What the attribute bits are: the descriptor says, unless there is a footer;
\* then the extension area, if any. An extension that denies the alpha bits of
\* the descriptor is not believed.
AttributesType(h) ==
    CASE h.footer = "none" -> IF h.alphaBits > 0 THEN "Alpha" ELSE "UndefinedIgnore"
      [] h.footer = "plain" -> "UndefinedIgnore"
      [] OTHER -> IF h.extension = "NoAlpha" /\ h.alphaBits > 0 THEN "Alpha" ELSE h.extension

\* A footer whose extension area is too short is refused, and so is a colour
\* map of more than 256 colours.
TgaAccepted(h) ==
    /\ h.footer # "short"
    /\ h.type \in TgaRawTypes \cup TgaRleTypes
    /\ h.depth \in TgaDepths
    /\ h.type \in {"RawColormap", "RLEColormap"} => h.mapStart + h.mapLength <= 256
    /\ h.width > 0 /\ h.height > 0

TgaPixelSize(h) == CASE h.depth = 8 -> 1 [] h.depth = 16 -> 2 [] OTHER -> 4

\* The identification is skipped, and a colour map read that a mapped picture
\* has in 24 or 32 bits; the cache takes the file over there.
PaletteBytes(h) ==
    IF h.type \notin {"RawColormap", "RLEColormap"} THEN 0
    ELSE CASE h.mapBits = 24 -> 3 * h.mapLength
           [] h.mapBits = 32 -> 4 * h.mapLength
           [] OTHER -> 0

LoadHeaderTga(d, h) ==
    LET at == ReadFull(SeekCurrent(d, h.idSize), PaletteBytes(h))
    IN  WithFields([SetFileReader(at) EXCEPT !.w = h.width, !.h = h.height],
            [header |-> h, scanline |-> IF h.flipVertical THEN h.height ELSE 0,
             x |-> 0, y |-> 0, run |-> 0, isRun |-> FALSE, pixel |-> <<>>])

AllocateTga(d) == CreateSurface(d, TgaPixelSize(d.header), 255)

-----------------------------------------------------------------------------
(* Batches: rows are taken from the top, or from the bottom upwards. The   *)
(* k-th row of a batch is counted from 0 in the order of the file.         *)

NumRows(d) ==
    AtMost(RowsPerBatch, IF d.header.flipVertical THEN d.scanline ELSE d.h - d.scanline)

StartScan(d) == IF d.header.flipVertical THEN d.scanline - NumRows(d) ELSE d.scanline

BatchRow(d, k) ==
    IF d.header.flipVertical THEN StartScan(d) + NumRows(d) - 1 - k ELSE StartScan(d) + k

PrepareBatch(d) == LockRows(d, StartScan(d), NumRows(d))

\* The bytes of a pixel in the file, and the pixel they make.
SourcePixelSize(h) == h.depth \div 8
TgaPixel(h, bytes) == IF h.depth = 24 THEN Append(bytes, 255) ELSE bytes

\* FinalizeBatch: mirrors the rows of the batch if the file is, and sets the
\* alpha byte of 32-bit pixels when it means nothing.
Mirrored(d) ==
    IF ~d.header.flipHorizontal THEN d.surf
    ELSE [p \in DOMAIN d.surf |-> IF p[2] \in d.locked THEN d.surf[<<d.w - 1 - p[1], p[2]>>] ELSE d.surf[p]]

AlphaReset(d, surf) ==
    IF d.header.depth = 32 /\ AttributesType(d.header) \in {"UndefinedIgnore", "NoAlpha"}
    THEN [p \in DOMAIN surf |-> IF p[2] \in d.locked THEN [surf[p] EXCEPT ![4] = 255] ELSE surf[p]]
    ELSE surf

\* A decoder that returned is done; so is one whose last row this was.
FinalizeBatch(d) ==
    LET scanline == IF d.header.flipVertical THEN d.scanline - NumRows(d) ELSE d.scanline + NumRows(d)
        last == scanline = (IF d.header.flipVertical THEN 0 ELSE d.h)
    IN  [d EXCEPT !.surf = AlphaReset(d, Mirrored(d)), !.scanline = scanline,
                  !.out = IF last THEN "Finished" ELSE @]

-----------------------------------------------------------------------------
(* CodecTgaRawDecoder: whole rows read from the file, or pixels of 24 bits *)
(* from the cache.                                                         *)

\* The pixels of the bytes that were read: of the last one perhaps not all.
RawTgaPixels(d, bytes, old) ==
    LET s == SourcePixelSize(d.header)
    IN  [x \in 1 .. (Len(bytes) + s - 1) \div s |-> [i \in 1..s |->
            IF s * (x - 1) + i <= Len(bytes) THEN bytes[s * (x - 1) + i] ELSE old[x][i]]]

RawTgaRow(d, y) ==
    LET n == d.w * SourcePixelSize(d.header)
        old == [x \in 1..d.w |-> d.surf[<<x - 1, y>>]]
    IN  ReadFull(WritePixels(d, 0, y, RawTgaPixels(d, Upcoming(d, n), old)), n)

\* The next pixel through the cache, as CachedByte and ReadBytes give it.
CachedPixel(d) == TgaPixel(d.header, [i \in 1..SourcePixelSize(d.header) |-> CachedByte(d, i)])
CachedPixels(d, n) ==
    LET s == SourcePixelSize(d.header)
    IN  [x \in 1..n |-> TgaPixel(d.header, [i \in 1..s |-> CachedByte(d, s * (x - 1) + i)])]

Raw24Row(d, y) ==
    LET n == AtMost(d.w, d.left \div 3)
    IN  ReadBytes(WritePixels(d, 0, y, CachedPixels(d, n)), 3 * d.w)

RawTga(d) ==
    FoldLeft(LAMBDA e, k :
                IF e.out # "more" THEN e
                ELSE IF e.header.depth = 24 THEN Raw24Row(e, BatchRow(d, k - 1))
                ELSE RawTgaRow(e, BatchRow(d, k - 1)),
             d, [k \in 1..NumRows(d) |-> k])

-----------------------------------------------------------------------------
(* CodecTgaRleDecoder: x and y count the pixels of the row and the rows of *)
(* the batch, run the pixels the current packet has left.                  *)

\* A new packet: its header, and the pixel that it repeats.
Packet(d) ==
    LET s == SourcePixelSize(d.header)
        repeats == CachedByte(d, 1) >= 128
        read == ReadByte(d)
        opened == [read EXCEPT !.run = (CachedByte(d, 1) % 128) + 1, !.isRun = repeats]
    IN  IF d.left < 1 + s THEN Finishing(d)
        ELSE IF repeats THEN [ReadBytes(opened, s) EXCEPT !.pixel = CachedPixel(read)]
        ELSE opened

\* As much of the packet as the row has room for.
Transfer(d, y) ==
    LET n == AtMost(d.w - d.x, d.run)
        taken == [d EXCEPT !.run = @ - n, !.x = @ + n]
    IN  IF d.isRun THEN WritePixels(taken, d.x, y, [i \in 1..n |-> d.pixel])
        ELSE IF d.left < n * SourcePixelSize(d.header) THEN Finishing(taken)
        ELSE ReadBytes(WritePixels(taken, d.x, y, CachedPixels(d, n)), n * SourcePixelSize(d.header))

RleTurn(d) ==
    LET packet == IF d.run = 0 THEN Packet(d) ELSE d
        moved == Transfer(packet, BatchRow(d, d.y))
    IN  IF d.y = NumRows(d) THEN d
        ELSE IF packet.out # "more" THEN packet
        ELSE IF moved.x = d.w THEN [moved EXCEPT !.x = 0, !.y = @ + 1]
        ELSE moved

\* Every turn takes a pixel at least.
RleTga(d) == Repeated([d EXCEPT !.x = 0, !.y = 0], d.w * NumRows(d), RleTurn)

\* One turn of PerformLoadImageData's loop, a call of Process. An exception
\* leaves the batch as it is.
ProcessTga(d) ==
    LET batch == PrepareBatch(d)
        done == IF batch.out # "more" THEN batch
                ELSE IF d.header.type \in TgaRleTypes THEN RleTga(batch) ELSE RawTga(batch)
    IN  IF done.out \in {"more", "Finished"} THEN FinalizeBatch(done) ELSE done
=============================================================================
