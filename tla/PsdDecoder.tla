----------------------------- MODULE PsdDecoder -----------------------------
(***************************************************************************)
(* CodecPSD: one plane of bytes after the other, each row of a plane raw   *)
(* or packed (PackBits); the lengths of the packed rows stand before them. *)
(* The bytes of a row are unpacked into plane, a buffer that lives as long *)
(* as one call of LoadImageData: a row that fails shows what it holds.     *)
(***************************************************************************)
EXTENDS Streams

CONSTANT PsdScansPerChunk

ASSUME PsdAssumption == PsdScansPerChunk \in Nat \ {0}

PsdIndexedModes == {"Bitmap", "Grayscale", "Indexed"}

PsdPixelSize(h) ==
    CASE h.mode \in PsdIndexedModes -> 1
      [] h.mode = "Rgb" /\ h.bits = 8 /\ h.channels >= 3 -> 4
      [] OTHER -> 0

\* The signature, the version and the reserved bytes are one condition here.
PsdAccepted(h) ==
    /\ h.signature
    /\ h.width > 0 /\ h.height > 0
    /\ h.bits <= 8
    /\ h.colors <= 256
    /\ h.compression \in {"Raw", "Rle"}
    /\ h.compression = "Rle" => h.channels # 0
    /\ PsdPixelSize(h) # 0

\* The rows' lengths of a packed picture are read with the header; the pixels
\* follow them.
PsdLengths(d, h) ==
    [i \in 1 .. h.height * h.channels |->
        256 * d.data[h.offset + 2 * i - 1] + d.data[h.offset + 2 * i]]

LoadHeaderPsd(d, h) ==
    LET n == IF h.compression = "Rle" THEN 2 * h.height * h.channels ELSE 0
        read == ReadFull(SeekBegin(d, h.offset), n)
        lengths == IF n = 0 \/ read.out = "throw" THEN <<>> ELSE PsdLengths(d, h)
    IN  WithFields([read EXCEPT !.w = h.width, !.h = h.height],
            [header |-> h, scanline |-> 0, channel |-> 0, plane |-> <<>>, stream |-> 1,
             lengths |-> lengths])

AllocatePsd(d) == CreateSurface(d, PsdPixelSize(d.header), 255)

EnterPsd(d) == [d EXCEPT !.plane = [i \in 1..d.w |-> 0]]

BytesPerScanline(h) == (h.bits * h.width + 7) \div 8

-----------------------------------------------------------------------------
(* loadRleStream: u is the state of one row: the bytes of its stream, how  *)
(* many of them and of the row's are done, and whether it failed.          *)

Copied(u, n, bytes) ==
    [u EXCEPT !.plane = [i \in DOMAIN @ |->
                  IF i - u.done \in 1..n THEN bytes[i - u.done] ELSE @[i]],
              !.done = @ + n]

\* A control byte and what it stands for: a run of bytes as they are, a byte
\* repeated, or nothing. It must be followed by one byte at least.
UnpackTurn(u) ==
    LET control == u.bytes[u.at + 1]
        n == IF control < 128 THEN control + 1 ELSE 257 - control
        literal == SubSeq(u.bytes, u.at + 2, u.at + 1 + n)
    IN  IF u.done >= u.total \/ u.failed THEN u
        ELSE IF u.at + 1 >= Len(u.bytes) THEN [u EXCEPT !.failed = TRUE]
        ELSE IF control = 128 THEN [u EXCEPT !.at = @ + 1]
        ELSE IF u.done + n > u.total \/ (control < 128 /\ u.at + 1 + n > Len(u.bytes))
             THEN [u EXCEPT !.failed = TRUE]
        ELSE IF control < 128 THEN [Copied(u, n, literal) EXCEPT !.at = @ + 1 + n]
        ELSE [Copied(u, n, [i \in 1..n |-> u.bytes[u.at + 2]]) EXCEPT !.at = @ + 2]

Unpacked(plane, bytes, total) ==
    FoldLeft(LAMBDA u, i : UnpackTurn(u),
             [plane |-> plane, bytes |-> bytes, at |-> 0, done |-> 0, total |-> total, failed |-> FALSE],
             [i \in 1 .. Len(bytes) + 1 |-> i])

\* A row that fails keeps its place in the list of lengths.
loadRleStream(d) ==
    LET n == d.lengths[d.stream]
        u == Unpacked(d.plane, Upcoming(d, n), BytesPerScanline(d.header))
        read == Read(d, n)
    IN  IF d.stream > Len(d.lengths) THEN d
        ELSE IF FileLeft(d) < n THEN read
        ELSE IF u.failed THEN [read EXCEPT !.plane = u.plane]
        ELSE [read EXCEPT !.plane = u.plane, !.stream = @ + 1]

loadRawStream(d) ==
    LET n == BytesPerScanline(d.header)
    IN  [ReadFull(d, n) EXCEPT !.plane = [i \in DOMAIN @ |->
             IF i <= AtMost(n, FileLeft(d)) THEN Byte(d, i) ELSE @[i]]]

-----------------------------------------------------------------------------

\* The byte of a pixel that a channel is: red, green, blue, alpha.
ChannelByte(channel) == IF channel = 3 THEN 4 ELSE 3 - channel

TransferScanline(d, y) ==
    CASE d.header.mode = "Rgb" -> WriteChannel(d, y, ChannelByte(d.channel), d.plane)
      [] d.header.mode = "Bitmap" -> WritePixels(d, 0, y, Indexed(BitsToBytes(d.plane, d.w)))
      [] OTHER -> WritePixels(d, 0, y, Indexed(d.plane))

LoadScanline(d, y) ==
    LET loaded == IF d.header.compression = "Rle" THEN loadRleStream(d) ELSE loadRawStream(d)
    IN  IF loaded.out = "more" THEN TransferScanline(loaded, y) ELSE loaded

LoadScanlines(d, n) ==
    FoldLeft(LAMBDA e, i : IF e.out = "more" THEN LoadScanline(e, d.scanline + i - 1) ELSE e,
             LockRows(d, d.scanline, n), [i \in 1..n |-> i])

\* One turn of loadRgb's loop: some rows of a plane.
ProcessPsd(d) ==
    LET n == AtMost(d.h - d.scanline, PsdScansPerChunk)
        rows == LoadScanlines(d, n)
        next == [rows EXCEPT !.scanline = IF d.scanline + n = d.h THEN 0 ELSE d.scanline + n,
                             !.channel = IF d.scanline + n = d.h THEN @ + 1 ELSE @]
    IN  IF rows.out # "more" THEN rows
        ELSE IF next.channel >= d.header.channels \/ next.channel = 4 THEN Finishing(next)
        ELSE next
=============================================================================
