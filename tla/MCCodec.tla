------------------------------ MODULE MCCodec ------------------------------
(***************************************************************************)
(* Small files of every format for Codec: pictures of a few rows, encoded  *)
(* by Encoders, whole and cut at every byte.                               *)
(***************************************************************************)
EXTENDS Codec

E == INSTANCE Encoders

SumOf(s) == FoldLeft(LAMBDA a, b : a + b, 0, s)

NoHint == [w |-> 0, h |-> 0]

Whole(c, header, data, picture, created) ==
    [codec |-> c, ext |-> c, header |-> header, data |-> data, picture |-> picture,
     whole |-> TRUE, created |-> created, partial |-> TRUE, hint |-> NoHint]

\* The formats whose decoders show what stale buffers hold when the file ends.
ShowsStale(f) ==
    \/ f.codec \in {"PCX", "JPEG"}
    \/ f.codec = "PSD" /\ f.header.compression = "Rle"
    \/ f.codec = "TIFF" /\ TiffPixelSize(f.header) = 4
    \/ f.codec = "TGA" /\ (f.header.flipHorizontal \/ f.header.depth = 32)

Cut(f, n) ==
    [f EXCEPT !.data = SubSeq(@, 1, n), !.whole = FALSE, !.partial = ~ShowsStale(f),
              !.header = IF f.codec # "GIF" THEN @
                         ELSE [@ EXCEPT !.blocks = SelectSeq(@, LAMBDA b : b.offset <= n)]]

Width == 5
Height == 3
Bottom(rows) == Reverse(rows)
RowsOf(picture, depth) == [y \in 1..Height |-> E!RowBytes(E!RowOf(picture, Width, y - 1), depth)]

-----------------------------------------------------------------------------
(* BMP                                                                     *)

BmpHeader(depth, compression) ==
    [size |-> 40, planes |-> 1, depth |-> depth, compression |-> compression,
     masks |-> <<63488, 2016, 31>>, width |-> Width, height |-> Height, offset |-> 2]

\* 16 bits with five bits each have the unused one set in the surface.
BmpRaw(depth, compression) ==
    LET range == IF depth < 8 THEN 2^depth ELSE 256
        s == CASE depth <= 8 -> 1 [] depth = 16 -> 2 [] OTHER -> 4
        painted == E!Painted(Width, Height, s, range)
        alpha == CASE s = 4 -> E!Opaque(painted)
                   [] s = 2 /\ compression = "RGB" -> [p \in DOMAIN painted |-> [painted[p] EXCEPT ![2] = (@ % 128) + 128]]
                   [] OTHER -> painted
        rows == [y \in 1..Height |-> E!PaddedTo(RowsOf(painted, depth)[y], 4)]
    IN  Whole("BMP", BmpHeader(depth, compression), E!Filler(2) \o FlattenSeq(Bottom(rows)), alpha, E!Times(s, 0))

\* Rows of runs from the bottom; the second one is moved to, past three pixels
\* and from the first.
BmpRleRows(depth) ==
    IF depth = 8
    THEN <<<<E!Repeat(2, 200), E!AsIs(<<7, 9, 11>>)>>, <<E!Repeat(2, 5)>>, <<E!Repeat(5, 77)>>>>
    ELSE <<<<E!Repeat(2, 9), E!AsIs(<<7, 1, 11>>)>>, <<E!Repeat(2, 5)>>, <<E!Repeat(5, 12)>>>>
BmpRle(depth) ==
    LET rows == BmpRleRows(depth)
        bytes(y) == FlattenSeq([i \in DOMAIN rows[y] |-> E!BmpRun(rows[y][i], depth)])
        values == E!Expanded(rows[3]) \o <<0, 0, 0>> \o E!Expanded(rows[2]) \o E!Expanded(rows[1])
    IN  Whole("BMP", BmpHeader(depth, IF depth = 8 THEN "RLE8" ELSE "RLE4"),
              E!Filler(2) \o bytes(1) \o <<0, 0, 0, 2, 3, 0>> \o bytes(2) \o <<0, 0>> \o bytes(3) \o <<0, 0, 0, 1>>,
              E!PictureOf(Indexed(values), Width, Height), <<0>>)

BmpFiles ==
    {BmpRaw(depth, "RGB") : depth \in {1, 4, 8, 16, 24, 32}} \cup {BmpRaw(16, "Bitfields"), BmpRle(4), BmpRle(8)}

-----------------------------------------------------------------------------
(* TGA: raw, and packets that cross the ends of rows and of batches        *)

TgaHeader(type, depth, alphaBits, flipVertical, flipHorizontal) ==
    [footer |-> "none", extension |-> "NoAlpha", alphaBits |-> alphaBits, type |-> type, depth |-> depth,
     mapStart |-> 0, mapLength |-> IF type = "RawColormap" THEN 2 ELSE 0, mapBits |-> 24, idSize |-> 1,
     width |-> Width, height |-> Height, flipVertical |-> flipVertical, flipHorizontal |-> flipHorizontal]

\* The pixels as they are shown, from those in the order of the file.
TgaShown(values, h) ==
    [p \in E!Canvas(Width, Height) |->
        LET x == IF h.flipHorizontal THEN Width - 1 - p[1] ELSE p[1]
            y == IF h.flipVertical THEN Height - 1 - p[2] ELSE p[2]
            v == values[x + Width * y + 1]
        IN  IF h.depth >= 24 /\ AttributesType(h) # "Alpha" THEN [v EXCEPT ![4] = 255] ELSE v]

TgaStart(h) == E!Filler(h.idSize + 3 * h.mapLength)
TgaFile(h, bytes, values) ==
    Whole("TGA", h, TgaStart(h) \o bytes, TgaShown(values, h), E!Times(TgaPixelSize(h), 255))

TgaRaw(h) ==
    LET rows == E!Rows(E!Painted(Width, Height, TgaPixelSize(h), 256), Width, Height)
    IN  TgaFile(h, FlattenSeq([y \in 1..Height |-> E!RowBytes(rows[y], h.depth)]), FlattenSeq(rows))

TgaRle(h) ==
    LET v == FlattenSeq(E!Rows(E!Painted(Width, Height, TgaPixelSize(h), 256), Width, Height))
        runs == <<E!Repeat(3, v[1]), E!AsIs(SubSeq(v, 4, 8)), E!Repeat(7, v[9])>>
    IN  TgaFile(h, FlattenSeq([i \in DOMAIN runs |-> E!TgaRun(runs[i], h.depth)]), E!Expanded(runs))

TgaFiles ==
    {TgaRaw(TgaHeader(t[1], t[2], t[3], flip, flip)) :
        t \in {<<"RawColormap", 8, 0>>, <<"RawTrueColor", 24, 0>>, <<"RawTrueColor", 32, 0>>}, flip \in BOOLEAN}
    \cup {TgaRle(TgaHeader(t[1], t[2], t[3], flip, ~flip)) :
        t \in {<<"RLEBW", 8, 0>>, <<"RLETrueColor", 16, 1>>, <<"RLETrueColor", 24, 0>>}, flip \in BOOLEAN}

-----------------------------------------------------------------------------
(* GIF: frames whose table of strings fills up                             *)

GifHeader(frames, starts) ==
    [width |-> Width, height |-> 5,
     blocks |-> FlattenSeq([i \in DOMAIN frames |->
        <<[type |-> "Extension", control |-> i, offset |-> starts[i]],
          [type |-> "Descriptor", w |-> frames[i].w, h |-> frames[i].h, offset |-> starts[i],
           interlace |-> frames[i].interlace]>>])]

GifValues(f) ==
    LET order == IF f.interlace THEN E!Interlaced(f.h) ELSE [y \in 1 .. f.h |-> y - 1]
        value(p) == IF f.plain THEN 1 ELSE ((p[1] * p[1] + 2 * p[2] + (p[1] \div 3) * p[2]) % 4)
    IN  [at |-> [p \in E!Canvas(f.w, f.h) |-> <<value(p)>>],
         seq |-> FlattenSeq([i \in 1 .. f.h |-> [x \in 1 .. f.w |-> value(<<x - 1, order[i]>>)]])]

GifFile(frames) ==
    LET bytes(i) == E!GifFrame(GifValues(frames[i]).seq, 2, LZWTableSize, frames[i].drop, frames[i].block)
        starts == [i \in DOMAIN frames |-> 1 + SumOf([k \in 1 .. i - 1 |-> Len(bytes(k))])]
    IN  Whole("GIF", GifHeader(frames, starts),
              E!Filler(1) \o FlattenSeq([i \in DOMAIN frames |-> bytes(i)]),
              [i \in DOMAIN frames |-> GifValues(frames[i]).at], <<255>>)

GifFrameOf(w, h, interlace, plain, drop, block) ==
    [w |-> w, h |-> h, interlace |-> interlace, plain |-> plain, drop |-> drop, block |-> block]

GifFiles ==
    {GifFile(<<GifFrameOf(5, 5, TRUE, FALSE, drop, block)>>) : drop \in BOOLEAN, block \in {3, 20}}
    \cup {GifFile(<<GifFrameOf(3, 3, FALSE, TRUE, TRUE, 2), GifFrameOf(4, 2, FALSE, FALSE, TRUE, 1)>>)}

-----------------------------------------------------------------------------
(* PSD, PSP: planes of bytes                                               *)

PlaneRuns(k) ==
    <<<<E!Repeat(3, 10 * k), E!AsIs(<<1, 2>>)>>, <<E!AsIs(<<k, k + 1, k + 2, k + 3, k + 4>>)>>,
      <<E!AsIs(<<200 + k>>), E!Repeat(4, 100 + k)>>>>
Plane(k) == [y \in 1..Height |-> E!Expanded(PlaneRuns(k)[y])]

\* The byte of a pixel that each plane is.
PlanesPicture(bytes, alpha) ==
    [p \in E!Canvas(Width, Height) |->
        [i \in DOMAIN bytes |-> IF bytes[i] = 0 THEN alpha ELSE Plane(bytes[i])[p[2] + 1][p[1] + 1]]]

PsdFile(mode, channels, bits, compression) ==
    LET row(k, y) == IF compression = "Rle"
                     THEN FlattenSeq([i \in DOMAIN PlaneRuns(k)[y] |-> E!PackBitsRun(PlaneRuns(k)[y][i])])
                     ELSE Plane(k)[y]
        rows == FlattenSeq([k \in 1..channels |-> [y \in 1..Height |-> row(k, y)]])
        lengths == FlattenSeq([i \in DOMAIN rows |-> <<0, Len(rows[i])>>])
        header == [signature |-> TRUE, width |-> Width, height |-> Height, bits |-> bits, colors |-> 0,
                   mode |-> mode, channels |-> channels, compression |-> compression, offset |-> 1]
        picture == CASE channels = 1 -> PlanesPicture(<<1>>, 0)
                     [] channels = 3 -> PlanesPicture(<<3, 2, 1, 0>>, 255)
                     [] OTHER -> PlanesPicture(<<3, 2, 1, 4>>, 0)
    IN  Whole("PSD", header,
              E!Filler(1) \o (IF compression = "Rle" THEN lengths ELSE <<>>) \o FlattenSeq(rows),
              picture, E!Times(IF channels = 1 THEN 1 ELSE 4, 255))

PsdFiles ==
    {PsdFile("Grayscale", 1, 8, "Raw"), PsdFile("Rgb", 3, 8, "Raw"),
     PsdFile("Rgb", 3, 8, "Rle"), PsdFile("Rgb", 4, 8, "Rle")}

\* Blocks before and between the channels; the bytes read of a channel's are 2.
PspBlocks(lengths, depth, start) ==
    <<[type |-> "Color", count |-> 2, at |-> 1, size |-> 1, end |-> 2],
      [type |-> "LayerStart", count |-> 0, at |-> 2, size |-> 1, end |-> 2],
      [type |-> "Layer", count |-> 0, at |-> 3, size |-> 1, end |-> 3]>>
    \o [i \in DOMAIN lengths |->
        [type |-> "Channel", count |-> 0, at |-> start[i], size |-> 2, end |-> start[i] + 2 + lengths[i]]]

PspFile(depth, compression) ==
    LET channels == IF depth = 24 THEN 3 ELSE 1
        packed == E!Painted(Width, Height, 1, 2^depth)
        bytes(k) ==
            FlattenSeq([y \in 1..Height |->
                IF depth < 8
                THEN LET row == E!PaddedTo(E!RowBytes(E!RowOf(packed, Width, y - 1), depth), depth)
                     IN  IF compression = "Rle" THEN E!PspRun(E!AsIs(row)) ELSE row
                ELSE IF compression = "Rle"
                THEN FlattenSeq([i \in DOMAIN PlaneRuns(k)[y] |-> E!PspRun(PlaneRuns(k)[y][i])])
                ELSE Plane(k)[y]])
        lengths == [k \in 1..channels |-> Len(bytes(k))]
        start == [k \in 1..channels |-> 4 + SumOf([j \in 1 .. k - 1 |-> 2 + lengths[j]])]
        header == [signature |-> TRUE, version |-> 3, compression |-> compression, depth |-> depth,
                   width |-> Width, height |-> Height, offset |-> 1, blocks |-> PspBlocks(lengths, depth, start)]
        picture == CASE depth < 8 -> packed
                     [] depth = 8 -> PlanesPicture(<<1>>, 0)
                     [] OTHER -> PlanesPicture(<<3, 2, 1, 0>>, 255)
    IN  Whole("PSP", header, E!Filler(4) \o FlattenSeq([k \in 1..channels |-> E!Filler(2) \o bytes(k)]),
              picture, IF depth = 24 THEN <<0, 0, 0, 255>> ELSE <<0>>)

PspFiles == {PspFile(depth, compression) : depth \in {1, 4, 8, 24}, compression \in {"None", "Rle"}}

-----------------------------------------------------------------------------
(* PCX, WBMP, XYZ                                                          *)

PcxHeader(planes, planeDepth, bytesPerLine, compression) ==
    [manufacturer |-> 10, version |-> 5, compression |-> compression, planes |-> planes,
     planeDepth |-> planeDepth, bytesPerLine |-> bytesPerLine, width |-> Width, height |-> Height, offset |-> 2]

PcxPlanes(planes, compression) ==
    LET row(k, y) == IF compression = "Rle"
                     THEN FlattenSeq([i \in DOMAIN PlaneRuns(k)[y] |-> E!PcxRun(PlaneRuns(k)[y][i])])
                     ELSE Plane(k)[y]
        rows == FlattenSeq([y \in 1..Height |-> [k \in 1..planes |-> row(k, y)]])
    IN  Whole("PCX", PcxHeader(planes, 8, Width, compression), E!Filler(2) \o FlattenSeq(rows),
              IF planes = 1 THEN PlanesPicture(<<1>>, 0) ELSE PlanesPicture(<<3, 2, 1, 0>>, 255),
              E!Times(IF planes = 1 THEN 1 ELSE 4, 0))

\* One plane of packed values, or one for each of their four bits.
PcxPacked(depth) ==
    LET painted == E!Painted(Width, Height, 1, 2^depth)
        row(y) == E!PaddedTo(E!RowBytes(E!RowOf(painted, Width, y - 1), depth), 2)
        coded(bytes) == FlattenSeq([i \in DOMAIN bytes |-> E!PcxRun(E!AsIs(<<bytes[i]>>))])
    IN  Whole("PCX", PcxHeader(1, depth, Len(row(1)), "Rle"),
              E!Filler(2) \o FlattenSeq([y \in 1..Height |-> coded(row(y))]), painted, <<0>>)
PcxBits ==
    LET painted == E!Painted(Width, Height, 1, 16)
        plane(k, y) == [x \in 1..Width |-> <<E!BitOf(painted[<<x - 1, y - 1>>][1], k)>>]
        row(y) == FlattenSeq([k \in 1..4 |-> E!RowBytes(plane(k - 1, y), 1)])
    IN  Whole("PCX", PcxHeader(4, 1, 1, "Raw"), E!Filler(2) \o FlattenSeq([y \in 1..Height |-> row(y)]), painted, <<0>>)

WbmpFile ==
    LET painted == E!Painted(Width, Height, 1, 2)
    IN  Whole("WBMP", [offset |-> 5], <<0, 0, 128, Width, Height>> \o FlattenSeq(RowsOf(painted, 1)), painted, <<255>>)

\* zlib: a byte stands for two bytes, for one or for none.
XyzFile ==
    LET painted == E!Painted(Width, Height, 1, 256)
        pixels == FlattenSeq(FlattenSeq(E!Rows(painted, Width, Height)))
        all == E!Times(XyzPaletteSize, 9) \o pixels
        n == Len(all) - 2
        inflates == [b \in 1 .. n + 1 |-> CASE b = 1 -> SubSeq(all, 1, 2)
                                            [] b = 2 -> <<>>
                                            [] b = n + 1 /\ n > 1 -> SubSeq(all, n + 1, n + 2)
                                            [] OTHER -> <<all[b]>>]
    IN  Whole("XYZ", [width |-> Width, height |-> Height, offset |-> 1, inflates |-> inflates],
              <<1>> \o [b \in 1 .. n + 1 |-> b], painted, <<0>>)

SmallFormatFiles ==
    {PcxPlanes(planes, compression) : planes \in {1, 3}, compression \in {"Raw", "Rle"}}
    \cup {PcxPacked(1), PcxPacked(4), PcxBits, WbmpFile, XyzFile}

-----------------------------------------------------------------------------
(* The libraries' formats                                                  *)

LibraryHeader == [signature |-> TRUE, supported |-> TRUE, width |-> Width, height |-> Height, offset |-> 1]

PngFile(passes) ==
    LET painted == E!Painted(Width, Height, 1, 256)
        order == IF passes = 7 THEN E!Adam7(Width, Height)
                 ELSE [i \in 1 .. Width * Height |-> <<(i - 1) % Width, (i - 1) \div Width>>]
    IN  Whole("PNG", LibraryHeader @@ [passes |-> passes, pixelSize |-> 1],
              <<0>> \o [i \in DOMAIN order |-> painted[order[i]][1]], painted, <<0>>)

JpegFile(components, rowsAtOnce, hint) ==
    LET painted == E!Painted(Width, Height, components, 256)
        scaled(s, i) == (s[i] * s[4]) \div 255
        shown == [p \in DOMAIN painted |->
                    LET s == painted[p]
                    IN  CASE components = 1 -> s
                          [] components = 3 -> <<s[3], s[2], s[1], 255>>
                          [] OTHER -> <<scaled(s, 3), scaled(s, 2), scaled(s, 1), 255>>]
        row(y) == FlattenSeq(E!RowOf(painted, Width, y - 1))
    IN  [Whole("JPEG", LibraryHeader @@ [components |-> components, rowsAtOnce |-> rowsAtOnce, badRow |-> -1],
               <<0>> \o FlattenSeq([y \in 1..Height |-> row(y)]), shown,
               E!Times(IF components = 1 THEN 1 ELSE 4, 255))
            EXCEPT !.hint = hint]

WebpFile ==
    LET frame(w, h, at) == [w |-> w, h |-> h, at |-> at]
        frames == <<frame(3, 2, 1), frame(2, 2, 25)>>
        painted(f) == E!Painted(f.w, f.h, 4, 256)
        bytes(f) == FlattenSeq(FlattenSeq(E!Rows(painted(f), f.w, f.h)))
    IN  Whole("WEBP", LibraryHeader @@ [frames |-> frames], <<0>> \o bytes(frames[1]) \o bytes(frames[2]),
              [i \in 1..2 |-> painted(frames[i])], E!Times(4, 0))

\* Strips of two rows; the last has one.
TiffStrips(samples, bits) ==
    LET s == IF samples = 1 THEN 1 ELSE 4
        painted == E!Painted(Width, Height, s, IF bits < 8 THEN 2^bits ELSE 256)
        picture == IF samples = 3 THEN E!Opaque(painted) ELSE painted
        pixel(v) == CASE bits = 16 /\ samples = 1 -> <<17, v[1]>>
                      [] samples = 3 -> <<v[3], v[2], v[1]>>
                      [] samples = 4 -> <<v[3], v[2], v[1], v[4]>>
                      [] OTHER -> v
        row(y) == LET pixels == [x \in 1..Width |-> pixel(painted[<<x - 1, y - 1>>])]
                  IN  IF bits < 8 THEN E!RowBytes(pixels, bits) ELSE FlattenSeq(pixels)
        n == Len(row(1))
    IN  Whole("TIFF",
              LibraryHeader @@ [tiled |-> FALSE, photometric |-> "Other", samples |-> samples, bits |-> bits,
                                at |-> <<1, 1 + 2 * n>>, lengths |-> <<2 * n, n>>, chunkSize |-> 2 * n],
              <<0>> \o FlattenSeq([y \in 1..Height |-> row(y)]), picture, E!Times(s, 0))

\* Tiles of 2 by 2 pixels that fit the width of the picture, and blocks of luminances.
TiffTiles ==
    LET painted == E!Painted(4, Height, 1, 256)
        value(x, y) == IF y < Height THEN painted[<<x, y>>][1] ELSE 0
        tile(x, y) == <<value(x, y), value(x + 1, y), value(x, y + 1), value(x + 1, y + 1)>>
    IN  Whole("TIFF",
              [LibraryHeader EXCEPT !.width = 4]
                @@ [tiled |-> TRUE, photometric |-> "Other", samples |-> 1, bits |-> 8, tileWidth |-> 2,
                    tileHeight |-> 2, at |-> <<1, 5, 9, 13>>, lengths |-> E!Times(4, 4), chunkSize |-> 4],
              <<0>> \o tile(0, 0) \o tile(2, 0) \o tile(0, 2) \o tile(2, 2), painted, <<0>>)

TiffYCbCr(ver) ==
    LET y(p) == 10 * p[2] + p[1]
        chroma(p) == <<100 + p[1] \div 2, 200 + p[2] \div ver>>
        block(x, row) == [k \in 1 .. 2 * ver |-> y(<<x + ((k - 1) % 2), row + ((k - 1) \div 2)>>)] \o chroma(<<x, row>>)
        strip(row) == block(0, row) \o block(2, row)
        rows == IF ver = 1 THEN <<0, 1, 2>> ELSE <<0, 2>>
        n == Len(strip(0))
    IN  Whole("TIFF",
              [LibraryHeader EXCEPT !.width = 4]
                @@ [tiled |-> FALSE, photometric |-> "YCbCr", samples |-> 3, bits |-> 8, subsampling |-> <<2, ver>>,
                    at |-> [i \in DOMAIN rows |-> 1 + n * (i - 1)], lengths |-> [i \in DOMAIN rows |-> n], chunkSize |-> n],
              <<0>> \o FlattenSeq([i \in DOMAIN rows |-> strip(rows[i])]),
              [p \in E!Canvas(4, Height) |-> YCbCrPixel(y(p), chroma(p)[1], chroma(p)[2])], E!Times(4, 0))

LibraryFiles ==
    {PngFile(1), PngFile(7), WebpFile, TiffTiles, TiffYCbCr(1), TiffYCbCr(2)}
    \cup {TiffStrips(t[1], t[2]) : t \in {<<1, 4>>, <<1, 8>>, <<1, 16>>, <<3, 8>>, <<4, 8>>}}
    \cup {JpegFile(components, 1 + (components % 2), hint) :
            components \in {1, 3, 4}, hint \in {NoHint, [w |-> 4, h |-> 1], [w |-> 1, h |-> 1]}}

-----------------------------------------------------------------------------

WholeFiles == BmpFiles \cup TgaFiles \cup GifFiles \cup PsdFiles \cup PspFiles \cup SmallFormatFiles \cup LibraryFiles

\* A picture whose library finds an error in the second row.
Corrupt(f) == [f EXCEPT !.header.badRow = 1, !.whole = FALSE, !.partial = FALSE]

\* Every file whole, under its own name and under a wrong one; and cut at every
\* byte after those of its header that are not modelled.
MCFiles ==
    WholeFiles
    \cup {[f EXCEPT !.ext = "PNG"] : f \in {WbmpFile, XyzFile, BmpRle(8)}}
    \cup UNION {{Cut(f, n) : n \in f.header.offset .. Len(f.data) - 1} :
                    f \in {g \in WholeFiles : "offset" \in DOMAIN g.header}}
    \cup UNION {{Cut(f, n) : n \in 1 .. Len(f.data) - 1} :
                    f \in {g \in WholeFiles : "offset" \notin DOMAIN g.header}}
    \cup {Corrupt(f) : f \in {g \in LibraryFiles : g.codec = "JPEG"}}
=============================================================================
