-------------------------- MODULE LibraryDecoders --------------------------
(***************************************************************************)
(* The codecs around a library: CodecPNG, CodecJPEG, CodecWebp, CodecTIFF. *)
(* What libpng, libjpeg, libwebp and libtiff do with the bytes is external *)
(* and the identity here: the data of a file are the bytes the library     *)
(* gives. What is modelled is where the codecs put them.                   *)
(***************************************************************************)
EXTENDS Streams

CONSTANTS
    PngChunkRows,
    JpegChunkRows

ASSUME LibraryAssumption == {PngChunkRows, JpegChunkRows} \subseteq Nat \ {0}

\* The codecs' checks of what the library tells of the file.
LibraryAccepted(h) == h.signature /\ h.supported /\ h.width > 0 /\ h.height > 0

-----------------------------------------------------------------------------
(* CodecPNG: rows in order, once for each pass of an interlaced picture.   *)

LoadHeaderPng(d, h) ==
    WithFields([SeekBegin(d, h.offset) EXCEPT !.w = h.width, !.h = h.height],
        [header |-> h, scan |-> 0, pass |-> 0])

AllocatePng(d) == CreateSurface(d, d.header.pixelSize, 0)

\* libpng: the columns of row y in a pass (all of them in the only pass of a
\* picture that is not interlaced).
PassColumns(h, pass, y) ==
    LET firstX == <<0, 4, 0, 2, 0, 1, 0>>[pass + 1]
        stepX == <<8, 8, 4, 4, 2, 2, 1>>[pass + 1]
        firstY == <<0, 0, 4, 0, 2, 0, 1>>[pass + 1]
        stepY == <<8, 8, 8, 4, 4, 2, 2>>[pass + 1]
    IN  IF h.passes = 1 THEN [i \in 1..h.width |-> i - 1]
        ELSE IF y % stepY # firstY THEN <<>>
        ELSE [i \in 1 .. (h.width - firstX + stepX - 1) \div stepX |-> firstX + stepX * (i - 1)]

\* libpng: the pixels of a row in the current pass. A file that ends is an
\* error: the codec's handler jumps out of the library into PerformLoadImageData.
PassPixels(d, y) ==
    LET xs == PassColumns(d.header, d.pass, y)
        s == d.header.pixelSize
        pixel(i) == [b \in 1..s |-> Byte(d, s * (i - 1) + b)]
    IN  FoldLeft(LAMBDA e, i : WritePixels(e, xs[i], y, <<pixel(i)>>),
                 Read(d, s * Len(xs)), [i \in DOMAIN xs |-> i])

png_read_row(d, y) ==
    LET n == d.header.pixelSize * Len(PassColumns(d.header, d.pass, y))
    IN  IF FileLeft(d) < n THEN Failing(Read(d, n)) ELSE PassPixels(d, y)

png_read_rows(d, n) ==
    FoldLeft(LAMBDA e, i : IF e.out = "more" THEN png_read_row(e, d.scan + i - 1) ELSE e,
             LockRows(d, d.scan, n), [i \in 1..n |-> i])

ProcessPng(d) ==
    LET n == AtMost(PngChunkRows, d.h - d.scan)
        rows == png_read_rows(d, n)
        next == [rows EXCEPT !.scan = IF @ + n = d.h THEN 0 ELSE @ + n,
                             !.pass = IF d.scan + n = d.h THEN @ + 1 ELSE @]
    IN  IF rows.out # "more" THEN rows
        ELSE IF next.pass = d.header.passes THEN Finishing(next)
        ELSE next

-----------------------------------------------------------------------------
(* CodecJPEG: a preview of 1/2, 1/4 or 1/8 of the size first, when the     *)
(* window is smaller than the picture, and then the picture. The surface   *)
(* is surf of the decoder; fast is the preview that is done, shown which   *)
(* of the two StaticCodec's composer shows.                                *)

\* PrepareLibJpeg starts the file again for each of the two.
PrepareLibJpeg(d) == [SeekBegin(d, 0) EXCEPT !.isInit = TRUE]

LoadHeaderJpeg(d, h) ==
    PrepareLibJpeg(WithFields([d EXCEPT !.w = h.width, !.h = h.height],
        [header |-> h, isInit |-> FALSE, scan |-> 0, scale |-> 1, doFast |-> FALSE,
         fast |-> <<>>, shown |-> "full"]))

\* The preview's scale for a hint of the window's size; 0 for no preview.
JpegScale(h, hint) ==
    LET under(k) == hint.w * k < h.width /\ hint.h * k < h.height
    IN  IF \E k \in {1, 2, 4, 8} : under(k) THEN Max({k \in {1, 2, 4, 8} : under(k)}) ELSE 0

JpegPixelSize(h) == IF h.components = 1 THEN 1 ELSE 4

\* CreateSurface of the codec; jpeg_start_decompress gives the scaled size.
StartDecompress(d, scale) ==
    LET ready == IF d.isInit THEN d ELSE PrepareLibJpeg(d)
        sized == [ready EXCEPT !.w = (d.header.width + scale - 1) \div scale,
                               !.h = (d.header.height + scale - 1) \div scale,
                               !.scale = scale, !.scan = 0]
    IN  IF ready.out = "throw" THEN ready
        ELSE CreateSurface([sized EXCEPT !.pos = d.header.offset], JpegPixelSize(d.header), 255)

AllocateJpegFast(d, hint) ==
    StartDecompress([d EXCEPT !.doFast = TRUE, !.shown = "fast"], JpegScale(d.header, hint))
AllocateJpeg(d) == StartDecompress([d EXCEPT !.doFast = FALSE], 1)

\* libjpeg: row y of the output, every scale-th sample; grey past the end of
\* the file.
JpegSample(d, x, y) ==
    LET n == d.header.components
        at == d.header.offset + n * (d.header.width * y * d.scale + x * d.scale)
    IN  [i \in 1..n |-> IF at + i <= Len(d.data) THEN d.data[at + i] ELSE 128]

\* The codec stores the samples in reverse; CMYK is converted (inverted: each
\* of c, m, y scaled with k).
JpegPixel(h, s) ==
    CASE h.components = 1 -> s
      [] h.components = 3 -> <<s[3], s[2], s[1], 255>>
      [] OTHER -> [i \in 1..4 |-> IF i = 4 THEN 255 ELSE (s[4 - i] * s[4]) \div 255]

\* The next n rows of the surface.
JpegRow(d, y) == [x \in 1..d.w |-> JpegPixel(d.header, JpegSample(d, x - 1, y))]
ScanlinesShown(d, n) ==
    FoldLeft(LAMBDA e, i : WritePixels(e, 0, d.scan + i - 1, JpegRow(d, d.scan + i - 1)),
             LockRows(d, d.scan, n), [i \in 1..n |-> i])

\* jpeg_read_scanlines gives rowsAtOnce rows at most; row badRow is an error.
ScanlinesRead(d) ==
    LET n == AtMost(AtMost(d.header.rowsAtOnce, JpegChunkRows), d.h - d.scan)
    IN  IF d.header.badRow \in d.scan .. d.scan + n - 1 THEN Failing(d)
        ELSE [Unlock(ScanlinesShown(d, n)) EXCEPT !.scan = @ + n]

\* destroy, and what the end of the preview leaves for the viewer.
Destroyed(d) == [d EXCEPT !.isInit = FALSE, !.fast = IF d.doFast THEN d.surf ELSE @]
FinalizeSurface(d) == [d EXCEPT !.shown = IF d.doFast THEN @ ELSE "full"]

\* A chunk has JpegChunkRows rows or more.
ScanlinesTurn(e) ==
    IF e.scan >= e.first + JpegChunkRows \/ e.scan >= e.h THEN e ELSE ScanlinesRead(e)

JpegTurns(d) == Repeated(WithFields(d, [first |-> d.scan]), JpegChunkRows, ScanlinesTurn)

ProcessJpeg(d) ==
    LET e == JpegTurns(d)
        done == [f \in DOMAIN d |-> e[f]]
    IN  IF d.scan >= d.h THEN Finishing(Destroyed(FinalizeSurface(d)))
        ELSE IF done.out = "Failed" THEN Destroyed(done)
        ELSE done

-----------------------------------------------------------------------------
(* CodecWebp: the file is read with the header; a turn decodes a frame     *)
(* into a surface of its own and sends it to the composer.                 *)

LoadHeaderWebp(d, h) ==
    LET read == ReadFull(d, h.offset)
    IN  WithFields([Read(read, FileLeft(read)) EXCEPT !.w = h.width, !.h = h.height],
            [header |-> h, frames |-> <<>>])

\* The surfaces of all frames are created at once; surf is the current one.
FrameOf(d) == d.header.frames[Len(d.frames) + 1]
WebpSurface(d) ==
    IF Len(d.frames) = Len(d.header.frames) THEN d
    ELSE CreateSurface([d EXCEPT !.w = FrameOf(d).w, !.h = FrameOf(d).h], 4, 0)
AllocateWebp(d) == WebpSurface(d)

\* libwebp: a frame whose data are cut is not decoded, which is not noticed.
WebPDecode(d) ==
    LET f == FrameOf(d)
        pixel(p) == [b \in 1..4 |-> d.data[f.at + 4 * (p[1] + f.w * p[2]) + b]]
    IN  IF f.at + 4 * f.w * f.h > Len(d.data) THEN d
        ELSE [d EXCEPT !.surf = [p \in DOMAIN @ |-> pixel(p)]]

ProcessWebp(d) ==
    LET decoded == WebPDecode(LockRows(d, 0, d.h))
    IN  IF Len(d.frames) = Len(d.header.frames) THEN Finishing(d)
        ELSE WebpSurface(Unlock([decoded EXCEPT !.frames = Append(@, decoded.surf)]))

-----------------------------------------------------------------------------
(* CodecTIFF: strips of whole rows, or tiles.                              *)

LoadHeaderTiff(d, h) ==
    WithFields([SeekBegin(d, h.offset) EXCEPT !.w = h.width, !.h = h.height],
        [header |-> h, current |-> 0, bufferPosition |-> 0, tileX |-> 0, tileY |-> 0])

TiffPixelSize(h) == IF h.photometric = "YCbCr" \/ h.samples \in {3, 4} THEN 4 ELSE 1
AllocateTiff(d) == CreateSurface(d, TiffPixelSize(d.header), 0)

\* libtiff: the n bytes of the strip or tile, where they are all there.
EncodedBytes(d, n) ==
    LET at == d.header.at[d.current + 1]
    IN  SubSeq(d.data, at + 1, AtMost(at + n, Len(d.data)))

\* TiffRawConverter: the pixels of the bytes, in rows of the given width.
RawConverted(h, bytes, width) ==
    LET stride == (width * h.bits + 7) \div 8
        rows == Len(bytes) \div stride
        row(y) == ConvertToBytes(SubSeq(bytes, stride * y + 1, stride * (y + 1)), h.bits, width)
    IN  CASE h.samples = 1 /\ h.bits < 8 ->
                [i \in 1 .. rows * width |-> <<row((i - 1) \div width)[((i - 1) % width) + 1]>>]
          [] h.samples = 1 /\ h.bits = 16 ->
                [i \in 1 .. Len(bytes) \div 2 |-> <<bytes[2 * i]>>]
          [] h.samples = 3 ->
                [i \in 1 .. Len(bytes) \div 3 |-> <<bytes[3 * i], bytes[3 * i - 1], bytes[3 * i - 2], 255>>]
          [] h.samples = 4 ->
                [i \in 1 .. Len(bytes) \div 4 |->
                    <<bytes[4 * i - 1], bytes[4 * i - 2], bytes[4 * i - 3], bytes[4 * i]>>]
          [] OTHER -> Indexed(bytes)

\* TiffYCbCrConverter: blocks of 2x1 or 2x2 pixels share Cb and Cr, which follow
\* their luminances. The colour itself is libtiff's. The pixels of the rows follow
\* each other, those of two rows of 2x2 blocks after a row's width each (of an
\* odd width the last column has no block); what is left of the buffer is zero.
YCbCrPixel(y, cb, cr) == <<cb, y, cr, 255>>
YCbCrConverted(h, bytes, width) ==
    LET ver == h.subsampling[2]
        unit == 2 * ver + 2
        blocks == width \div 2
        n == (2 * ver * Len(bytes)) \div unit
        rows == n \div width
        period == Max({1, 2 * blocks + (ver - 1) * width})
        lower(k) == IF k % period >= width THEN 1 ELSE 0
        x(k) == (k % period) - width * lower(k)
        start(k) == unit * (blocks * (k \div period) + (x(k) \div 2))
        pixel(k) == YCbCrPixel(bytes[start(k) + 2 * lower(k) + (x(k) % 2) + 1],
                               bytes[start(k) + 2 * ver + 1], bytes[start(k) + 2 * ver + 2])
    IN  [i \in 1..n |->
            IF x(i - 1) < 2 * blocks /\ ver * ((i - 1) \div period) + lower(i - 1) < rows
            THEN pixel(i - 1) ELSE <<0, 0, 0, 0>>]

Converted(d, bytes, width) ==
    IF d.header.photometric = "YCbCr" THEN YCbCrConverted(d.header, bytes, width)
    ELSE RawConverted(d.header, bytes, width)

\* The converter throws for blocks of another size.
Unsupported(h) == h.photometric = "YCbCr" /\ h.subsampling \notin {<<2, 1>>, <<2, 2>>}

\* Rows of the surface, from column x of row y on, become the pixels.
TiffRows(d, x, y, width, rows, pixels) ==
    FoldLeft(LAMBDA e, k : WritePixels(e, x, y + k - 1, SubSeq(pixels, width * (k - 1) + 1, width * k)),
             LockRows(d, 0, d.h), [k \in 1..rows |-> k])

\* A strip that cannot be read counts as one of zeros. The rows of a strip
\* follow those of the strips before it, as far as the surface goes.
StripChunk(d) ==
    LET n == d.header.chunkSize
        strip == EncodedBytes(d, d.header.lengths[d.current + 1])
        bytes == IF Len(strip) < d.header.lengths[d.current + 1] THEN [i \in 1..n |-> 0] ELSE strip
        pixels == Converted(d, bytes, d.w)
        first == d.bufferPosition
        rows == AtMost(Len(pixels) \div d.w, d.h - first)
        shown == TiffRows(d, 0, first, d.w, rows, pixels)
    IN  IF Unsupported(d.header) THEN Throw(d)
        ELSE [Unlock(shown) EXCEPT !.current = @ + 1, !.bufferPosition = @ + rows,
                                   !.out = IF d.current + 1 = Len(d.header.at) THEN "Finished" ELSE @]

\* A tile that cannot be read is a failure. Tiles are cut at the right and the
\* lower edge of the surface, but their pixels are taken in a row.
TileChunk(d) ==
    LET tile == EncodedBytes(d, d.header.lengths[d.current + 1])
        pixels == Converted(d, tile, d.header.tileWidth)
        th == AtMost(d.h - d.tileY, d.header.tileHeight)
        tw == AtMost(d.w - d.tileX, d.header.tileWidth)
        shown == TiffRows(d, d.tileX, d.tileY, tw, th, pixels)
        rowDone == d.tileX + tw = d.w
    IN  IF Len(tile) < d.header.lengths[d.current + 1] THEN Failing(d)
        ELSE IF Unsupported(d.header) THEN Throw(d)
        ELSE [Unlock(shown) EXCEPT !.current = @ + 1,
                                   !.tileX = IF rowDone THEN 0 ELSE @ + tw,
                                   !.tileY = IF rowDone THEN @ + th ELSE @,
                                   !.out = IF d.current + 1 = Len(d.header.at) THEN "Finished" ELSE @]

ProcessTiff(d) == IF d.header.tiled THEN TileChunk(d) ELSE StripChunk(d)
=============================================================================
