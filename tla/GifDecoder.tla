----------------------------- MODULE GifDecoder -----------------------------
(***************************************************************************)
(* CodecGIF and its StringTable: the frames of a file, each compressed     *)
(* with LZW in blocks of at most 255 bytes. A chunk is one block; words    *)
(* may cross the ends of blocks. surf is the surface of the frame that is  *)
(* decoded, frames the surfaces of those that are done.                    *)
(***************************************************************************)
EXTENDS Streams

CONSTANT LZWTableSize  \* strings in a table: 4096 in the code

\* The largest word: 12 bits in the code.
MaxWordSize == Max({b \in 1..12 : 2^b <= LZWTableSize})

\* What the blocks of the header come to: the frames that have a descriptor,
\* each with the graphic control extension read before it. A block that is not
\* known, or a file that is cropped, ends the list.
BlockTaken(e, block) ==
    IF e.done THEN e
    ELSE CASE block.type = "Extension" -> [e EXCEPT !.control = block.control]
      [] block.type = "Descriptor" ->
            [e EXCEPT !.frames = Append(@, WithFields(block, [control |-> e.control])), !.control = <<>>]
      [] OTHER -> [e EXCEPT !.done = TRUE]

FramesOf(blocks) ==
    FoldLeft(BlockTaken, [frames |-> <<>>, control |-> <<>>, done |-> FALSE], blocks).frames

GifAccepted(h) == FramesOf(h.blocks) # <<>> /\ h.width > 0 /\ h.height > 0

LoadHeaderGif(d, h) ==
    WithFields(d, [header |-> h, frames |-> <<>>, frameFinished |-> 0, table |-> <<>>])

-----------------------------------------------------------------------------
(* StringTable. Codes count from 0; strings[c] is what code c stands for.  *)

\* The roots of the table. The strings above them are stale until they are
\* made again: resize keeps the first byte of each.
FirstOf(strings, i) == IF strings[i] = <<>> THEN <<i % 256>> ELSE <<Head(strings[i])>>

resetTable(t) ==
    [t EXCEPT !.stream = ChangeWordSize(@, t.initialCodeSize + 1),
              !.strings = [i \in DOMAIN @ |-> FirstOf(@, i)],
              !.numCodes = 2^t.initialCodeSize + 2]

NewStringTable(initialCodeSize, interlace) ==
    resetTable([x |-> 0, y |-> 0, pass |-> 0, lastCode |-> -1, interlace |-> interlace,
                initialCodeSize |-> initialCodeSize, stream |-> NewConverter,
                numCodes |-> 0, strings |-> [i \in 0 .. LZWTableSize - 1 |-> <<>>],
                startWithClear |-> FALSE])

clearCode(t) == 2^t.initialCodeSize
endCode(t) == clearCode(t) + 1

\* The row after y: the next, or in one of the four passes of an interlaced
\* picture the next of the pass or the first of the next one.
NextRow(t, h) ==
    LET step == CASE t.pass \in {0, 1} -> 8 [] t.pass = 2 -> 4 [] OTHER -> 2
        ends == t.y + step >= h /\ t.pass < 3
    IN  IF ~t.interlace THEN [t EXCEPT !.x = 0, !.y = @ + 1]
        ELSE [t EXCEPT !.x = 0, !.pass = IF ends THEN @ + 1 ELSE @,
                       !.y = IF ends THEN CASE t.pass = 0 -> 4 [] t.pass = 1 -> 2 [] OTHER -> 1
                             ELSE @ + step]

\* One byte of a string, unless the picture is full.
WriteByte(d, byte) ==
    LET t == d.table
        written == WritePixels(d, t.x, t.y, <<<<byte>>>>)
    IN  IF t.x >= d.w \/ t.y >= d.h THEN d
        ELSE [written EXCEPT !.table = IF t.x + 1 = d.w THEN NextRow(t, d.h) ELSE [t EXCEPT !.x = @ + 1]]

writeString(d, code) == FoldLeft(WriteByte, d, d.table.strings[code])

\* Mutant: the words grow one string late.
AddStringGrowsLate(t, lastCode, currentCode) ==
    IF t.numCodes = LZWTableSize THEN t
    ELSE [t EXCEPT !.strings[t.numCodes] = t.strings[lastCode] \o <<Head(t.strings[currentCode])>>,
                   !.numCodes = @ + 1,
                   !.stream = IF t.numCodes + 1 > 2^@.wordSize /\ @.wordSize < MaxWordSize
                              THEN ChangeWordSize(@, @.wordSize + 1) ELSE @]

\* A table that is full stays as it is.
addString(t, lastCode, currentCode) ==
    IF t.numCodes = LZWTableSize THEN t
    ELSE [t EXCEPT !.strings[t.numCodes] = t.strings[lastCode] \o <<Head(t.strings[currentCode])>>,
                   !.numCodes = @ + 1,
                   !.stream = IF t.numCodes + 1 >= 2^@.wordSize /\ @.wordSize < MaxWordSize
                              THEN ChangeWordSize(@, @.wordSize + 1) ELSE @]

\* The table with the next word read, and a root written as the first string.
WithWord(t) == [t EXCEPT !.stream = GetWord(@)]

FirstString(d) ==
    LET t == WithWord(resetTable(d.table))
    IN  writeString([d EXCEPT !.table = [t EXCEPT !.lastCode = t.stream.word, !.startWithClear = FALSE]],
                    t.stream.word)

\* The code of a string in the table, or of the one that is made of the last.
\* An exception is thrown for a first code that is not in the table.
StringOf(d, code) ==
    LET t == d.table
        known == writeString(d, code)
        fresh == [d EXCEPT !.table = addString(t, t.lastCode, t.lastCode)]
    IN  IF t.numCodes > code THEN
            [known EXCEPT !.table = [(IF t.lastCode # -1 THEN addString(@, t.lastCode, code) ELSE @)
                                        EXCEPT !.lastCode = code]]
        ELSE IF t.lastCode < 0 THEN Throw(d)
        ELSE [writeString(fresh, t.numCodes) EXCEPT !.table.lastCode = code]

\* One turn of Decompress's loop. The end code ends the frame; a clear code
\* whose root is still to come is remembered for the next block.
WordTurn(d) ==
    LET read == [d EXCEPT !.table = WithWord(@)]
        code == read.table.stream.word
    IN  IF ~IsWordsLeft(d.table.stream) \/ d.frameEnds THEN d
        ELSE IF code = endCode(d.table) THEN [read EXCEPT !.frameEnds = TRUE]
        ELSE IF code # clearCode(d.table) THEN StringOf(read, code)
        ELSE IF IsWordsLeft(read.table.stream) THEN FirstString(read)
        ELSE [read EXCEPT !.table.startWithClear = TRUE]

\* Every word has three bits at least.
Decompress(d, bytes) ==
    LET fed == [LockRows(d, 0, d.h) EXCEPT !.table.stream = AddBytes(@, bytes)]
        begun == IF fed.table.startWithClear /\ IsWordsLeft(fed.table.stream) THEN FirstString(fed) ELSE fed
    IN  Unlock(Repeated(WithFields(begun, [frameEnds |-> FALSE]), 3 * Len(bytes) + 4, WordTurn))

-----------------------------------------------------------------------------
(* CodecGIF::PerformLoadImageData                                          *)

CurrentFrame(d) == FramesOf(d.header.blocks)[Len(d.frames) + 1]

FrameSurface(d, frame) ==
    CreateSurface([d EXCEPT !.w = frame.w, !.h = frame.h], 1, 255)

AllocateGif(d) == FrameSurface(d, CurrentFrame(d))

\* The first chunk of a frame finds it, reads the size of its codes and makes
\* the table.
FrameBegun(d) ==
    LET found == ReadFull(SeekBegin(d, CurrentFrame(d).offset), 1)
        codeSize == d.data[CurrentFrame(d).offset + 1]
    IN  IF d.table # <<>> THEN d
        ELSE IF found.out = "throw" THEN found
        ELSE IF codeSize > 12 THEN Failing(found)
        ELSE IF codeSize > 11 THEN Throw(found)
        ELSE [FrameSurface(found, CurrentFrame(d)) EXCEPT
                 !.table = NewStringTable(codeSize, CurrentFrame(d).interlace)]

\* The composer is told; the next chunk begins the next frame.
FrameDone(d) ==
    LET done == [d EXCEPT !.table = <<>>, !.frames = Append(@, d.surf), !.frameFinished = @ + 1]
    IN  IF Len(done.frames) = Len(FramesOf(d.header.blocks)) THEN Finishing(done) ELSE done

\* A frame ends with its end code, with an empty block, or where the file is
\* cropped within a block.
ProcessGif(d) ==
    LET begun == FrameBegun(d)
        sized == ReadFull(begun, 1)
        left == Byte(begun, 1)
        block == Upcoming(sized, left)
        fed == Decompress(Read(sized, left), block)
        plain == [f \in DOMAIN fed \ {"frameEnds"} |-> fed[f]]
    IN  IF begun.out # "more" THEN begun
        ELSE IF sized.out # "more" THEN sized
        ELSE IF left = 0 THEN FrameDone(sized)
        ELSE IF plain.out # "more" THEN plain
        ELSE IF fed.frameEnds \/ Len(block) < left THEN FrameDone(plain)
        ELSE plain
=============================================================================
