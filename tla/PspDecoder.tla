----------------------------- MODULE PspDecoder -----------------------------
(***************************************************************************)
(* CodecPSP: the blocks of a Paint Shop Pro file, and its channels, raw or *)
(* run-length encoded. A chunk of rows takes its part of each channel, so  *)
(* that the decoder goes back and forth in the file.                       *)
(***************************************************************************)
EXTENDS Streams

CONSTANT PspScansPerChunk

ASSUME PspAssumption == PspScansPerChunk \in Nat \ {0}

PspAccepted(h) ==
    /\ h.signature
    /\ h.version >= 3
    /\ h.compression \in {"None", "Rle"}
    /\ h.depth \in {1, 4, 8, 24}
    /\ h.width > 0 /\ h.height > 0

\* Channels have the place of their data, and how much of it was used.
LoadHeaderPsp(d, h) ==
    WithFields([SeekBegin(d, h.offset) EXCEPT !.w = h.width, !.h = h.height],
        [header |-> h, parsed |-> FALSE, channels |-> <<>>, scan |-> 0,
         x |-> 0, row |-> <<>>, bad |-> FALSE])

AllocatePsp(d) ==
    LET e == CreateSurface(d, IF d.header.depth = 24 THEN 4 ELSE 1, 0)
    IN  IF d.header.depth = 24 THEN [e EXCEPT !.surf = [p \in DOMAIN @ |-> [@[p] EXCEPT ![4] = 255]]] ELSE e

-----------------------------------------------------------------------------
(* ParseFileStructure: a block starts at at, what is read of it has size   *)
(* bytes, and it ends at end. Layers are entered, other blocks skipped.    *)

EndsStructure(block) ==
    \/ block.type = "Mismatch"
    \/ block.type = "TableBank" /\ block.count # 1
    \/ block.type = "Color" /\ block.count > 256

BlockRead(d, block) ==
    IF d.parsed \/ d.out # "more" THEN d
    ELSE IF block.at + block.size > Len(d.data) \/ EndsStructure(block)
    THEN [d EXCEPT !.parsed = TRUE]
    ELSE IF block.type \in {"LayerStart", "TableBank", "Layer"} THEN d
    ELSE    LET found == [d EXCEPT !.channels = IF block.type # "Channel" THEN @
                             ELSE Append(@, [data |-> block.at + block.size, used |-> 0])]
            IN  SeekBegin(found, block.end)

\* A block that would end past the file is no end of the list but an exception.
BlocksRead(d) == FoldLeft(BlockRead, d, d.header.blocks)
ParseFileStructure(d) == IF d.parsed THEN d ELSE [BlocksRead(d) EXCEPT !.parsed = TRUE]

EnterPsp(d) == ParseFileStructure(d)

-----------------------------------------------------------------------------
(* The rows of a channel. Rows of less than a byte a pixel are decoded     *)
(* into a buffer first; the others where they are shown.                   *)

Packed(d) == d.header.depth \in {1, 4}
BytesPerRow(d) == IF Packed(d) THEN ((d.w + 7) \div 8) * d.header.depth ELSE d.w

\* The i-th channel that is read, and the byte of a pixel it is.
ChannelRead(d, i) == Len(d.channels) + 1 - i

ShowRow(d, i, y, bytes) ==
    IF d.header.depth = 24 THEN WriteChannel(d, y, i, bytes)
    ELSE WritePixels(d, 0, y, Indexed(IF Packed(d) THEN ConvertToBytes(bytes, d.header.depth, d.w) ELSE bytes))

RawRow(d, i, y) ==
    LET n == BytesPerRow(d)
        read == ReadFull(d, n)
    IN  IF read.out = "more" \/ d.header.depth = 8 THEN ShowRow(read, i, y, Upcoming(d, n)) ELSE read

\* DecodeRLEChannel: one code of a row. A code that does not fit is refused.
RowExtended(d, bytes) ==
    [d EXCEPT !.row = [k \in DOMAIN @ |-> IF k - d.x \in 1..Len(bytes) THEN bytes[k - d.x] ELSE @[k]],
              !.x = @ + Len(bytes)]

CodeTurn(d) ==
    LET coded == ReadByte(d)
        first == CachedByte(d, 1)
        run == first > 128
        n == IF run THEN first - 128 ELSE first
        there == AtMost(n, coded.left)
    IN  IF d.x = Len(d.row) \/ d.bad THEN d
        ELSE IF coded.out = "throw" THEN coded
        ELSE IF d.x + n > Len(d.row) THEN [coded EXCEPT !.bad = TRUE]
        ELSE IF ~run THEN ReadBytes(RowExtended(coded, [k \in 1..there |-> CachedByte(coded, k)]), n)
        ELSE IF coded.left = 0 THEN Throw(coded)
        ELSE ReadByte(RowExtended(coded, [k \in 1..n |-> CachedByte(coded, 1)]))

RowCodes(d, n) == Repeated(d, n, CodeTurn)

\* The row is shown as far as it got; only a packed one whose code was refused
\* does not fail the picture, and only one that was cut off is not shown.
RleRow(d, i, y) ==
    LET old == [x \in 1..d.w |-> d.surf[<<x - 1, y>>][i]]
        start == [d EXCEPT !.x = 0, !.bad = FALSE, !.row = IF Packed(d) THEN @ ELSE old]
        e == RowCodes(start, d.left + 1)
        shown == ShowRow(e, i, y, e.row)
    IN  IF Packed(d) THEN IF e.out = "throw" THEN e ELSE shown
        ELSE IF e.bad THEN Failing(shown)
        ELSE shown

\* The rows of a chunk.
ChannelRow(d, i, y) == IF d.header.compression = "Rle" THEN RleRow(d, i, y) ELSE RawRow(d, i, y)
ChannelRows(d, i, n) ==
    FoldLeft(LAMBDA e, k : IF e.out = "more" THEN ChannelRow(e, i, d.scan + k - 1) ELSE e,
             d, [k \in 1..n |-> k])

\* The rows of a chunk of one channel, from where the channel was left.
ChannelChunk(d, i, n) ==
    LET c == ChannelRead(d, i)
        at == d.channels[c].data
        begun == SetFileReader(SeekBegin(d, at + d.channels[c].used))
        buffer == [begun EXCEPT !.row = [k \in 1..BytesPerRow(d) |-> 0]]
        rows == ChannelRows(buffer, i, n)
    IN  IF d.out # "more" THEN d
        ELSE IF d.header.compression = "Rle" THEN [rows EXCEPT !.channels[c].used = VirtualFilePosition(rows) - at]
        ELSE [rows EXCEPT !.channels[c].used = @ + n * BytesPerRow(d)]

ChannelChunks(d, channels, n) ==
    FoldLeft(LAMBDA e, i : ChannelChunk(e, i, n), LockRows(d, d.scan, n), [i \in 1..channels |-> i])

\* One turn of PerformLoadImageData's loop: a palette has one channel, 24 bits
\* have three.
ProcessPsp(d) ==
    LET n == AtMost(d.h - d.scan, PspScansPerChunk)
        channels == IF d.header.depth = 24 THEN 3 ELSE 1
        done == ChannelChunks(d, channels, n)
    IN  IF d.scan = d.h THEN Finishing(d)
        ELSE IF Len(d.channels) # channels THEN Failing(d)
        ELSE IF done.out = "more" THEN [done EXCEPT !.scan = @ + n]
        ELSE done
=============================================================================
