------------------------------ MODULE Streams ------------------------------
(***************************************************************************)
(* The streams a decoder reads: a file (IO::StreamFile behind              *)
(* IO::FileReader), a byte cache over it (IO::FileReaderByteStreamer) and  *)
(* words of any number of bits over bytes (Util::StreamConverter).         *)
(*                                                                         *)
(* They are fields of the decoder's record d: data, pos and open are the   *)
(* file; left, at and size the cache (at of the size cached bytes are      *)
(* used); out is "more" until the decoder returns or an exception is       *)
(* thrown. An operation whose call throws leaves out = "throw".            *)
(***************************************************************************)
EXTENDS Integers, Sequences, SequencesExt, FiniteSetsExt

CONSTANT CacheSize  \* bytes that FileReaderByteStreamer reads at once

ASSUME CacheAssumption == CacheSize \in Nat \ {0}

Throw(d) == [d EXCEPT !.out = "throw"]
AtMost(a, b) == IF a < b THEN a ELSE b

\* The record d with the fields of r that it has not.
WithFields(d, r) == [f \in DOMAIN d \cup DOMAIN r |-> IF f \in DOMAIN d THEN d[f] ELSE r[f]]

-----------------------------------------------------------------------------
(* StreamFile and FileReader                                               *)

Opened(d) == [d EXCEPT !.open = TRUE, !.pos = 0]
Closed(d) == [d EXCEPT !.open = FALSE, !.pos = 0]
FileLeft(d) == Len(d.data) - d.pos

\* The k-th byte from here, and what is left of the next n.
Byte(d, k) == d.data[d.pos + k]
Upcoming(d, n) == SubSeq(d.data, d.pos + 1, d.pos + AtMost(n, FileLeft(d)))

\* Read reads what there is; ReadFull throws when that is not enough, and has
\* read what there was.
Read(d, n) == [d EXCEPT !.pos = @ + AtMost(n, FileLeft(d))]
ReadFull(d, n) ==
    IF ~d.open \/ FileLeft(d) < n THEN Throw(Read(d, n)) ELSE Read(d, n)

SeekBegin(d, p) == IF p > Len(d.data) THEN Throw(d) ELSE [d EXCEPT !.pos = p]
SeekCurrent(d, n) == SeekBegin(d, d.pos + n)

\* The file got another name: the stream is closed, opened again and put back.
Renamed(d) == IF d.open THEN SeekBegin(Opened(Closed(d)), d.pos) ELSE d

-----------------------------------------------------------------------------
(* FileReaderByteStreamer                                                  *)

SetFileReader(d) == [d EXCEPT !.left = FileLeft(d), !.at = 0, !.size = 0]

VirtualFilePosition(d) == d.pos - (d.size - d.at)

\* The k-th byte the cache gives from here.
CachedByte(d, k) == d.data[VirtualFilePosition(d) + k]

Refilled(d) ==
    IF d.at # d.size THEN d
    ELSE [Read(d, CacheSize) EXCEPT !.at = 0, !.size = AtMost(CacheSize, FileLeft(d))]

ReadByte(d) ==
    IF d.left = 0 THEN Throw(d)
    ELSE [Refilled(d) EXCEPT !.left = @ - 1, !.at = @ + 1]

ReadBytes(d, n) ==
    FoldLeft(LAMBDA e, i : IF e.out = "throw" THEN e ELSE ReadByte(e), d, [i \in 1..n |-> i])

-----------------------------------------------------------------------------
(* StreamConverter: a queue of bytes, the bits used of the first of them,  *)
(* and the number of bits of a word; word is the last word read.           *)

NewConverter == [source |-> <<>>, srcPos |-> 0, wordSize |-> 8, word |-> 0]

AddBytes(c, bytes) == [c EXCEPT !.source = @ \o bytes]
ChangeWordSize(c, bits) == [c EXCEPT !.wordSize = bits]
IsWordsLeft(c) == Len(c.source) * 8 - c.srcPos >= c.wordSize

\* One turn of GetWord's loop, copied of the word's bits being there already.
CopyBits(c, copied) ==
    LET toCopy == AtMost(8 - c.srcPos, c.wordSize - copied)
        part == (Head(c.source) \div 2^c.srcPos) % 2^toCopy
        srcPos == c.srcPos + toCopy
    IN  [c EXCEPT !.word = @ + part * 2^copied,
                  !.srcPos = IF srcPos > 7 THEN 0 ELSE srcPos,
                  !.source = IF srcPos > 7 THEN Tail(@) ELSE @]

\* How many bits of the word have been copied when the i-th byte is reached.
CopiedBefore(c, i) == IF i = 1 THEN 0 ELSE 8 - c.srcPos + 8 * (i - 2)

\* The converter after GetWord, the word in its field. Only words of which
\* IsWordsLeft was asked are read.
GetWord(c) ==
    LET bytes == (c.srcPos + c.wordSize + 7) \div 8
    IN  FoldLeft(LAMBDA e, i : CopyBits(e, CopiedBefore(c, i)),
                 [c EXCEPT !.word = 0], [i \in 1..bytes |-> i])

\* GetWordMsbToLsb for a whole row, as ConvertToBytes uses it for the depths
\* without a loop of their own: word i of n, of the given number of bits.
WordMsbToLsb(bytes, bits, i) ==
    LET first == (i - 1) * bits
        bit(k) == (bytes[(first + k) \div 8 + 1] \div 2^(7 - ((first + k) % 8))) % 2
    IN  FoldLeft(LAMBDA w, k : 2 * w + bit(k - 1), 0, [k \in 1..bits |-> k])

BitsToBytes(bytes, n) == [i \in 1..n |-> (bytes[(i + 7) \div 8] \div 2^(7 - ((i - 1) % 8))) % 2]
NibblesToBytes(bytes, n) ==
    [i \in 1..n |-> IF i % 2 = 1 THEN bytes[(i + 1) \div 2] \div 16 ELSE bytes[i \div 2] % 16]
CrumbsToBytes(bytes, n) ==
    [i \in 1..n |-> (bytes[(i + 3) \div 4] \div 4^(3 - ((i - 1) % 4))) % 4]

ConvertToBytes(bytes, bits, n) ==
    CASE bits = 1 -> BitsToBytes(bytes, n)
      [] bits = 2 -> CrumbsToBytes(bytes, n)
      [] bits = 4 -> NibblesToBytes(bytes, n)
      [] OTHER -> [i \in 1..n |-> WordMsbToLsb(bytes, bits, i)]

-----------------------------------------------------------------------------
(* What the decoders share: the record d they keep between two chunks, and *)
(* the locked rows of the surface they write.                              *)
(*                                                                         *)
(* surf maps a pixel <<x, y>> to its bytes in memory order (blue, green,   *)
(* red, alpha; or a palette index). locked holds the rows of the area that *)
(* is locked. A write outside of it is out = "outside": memory corrupted;  *)
(* locking twice is out = "deadlock", for the lock is not recursive.       *)

Failing(d) == [d EXCEPT !.out = "Failed"]
Finishing(d) == [d EXCEPT !.out = "Finished"]

NewDecoder(data) ==
    [data |-> data, pos |-> 0, open |-> TRUE, left |-> 0, at |-> 0, size |-> 0,
     out |-> "more", w |-> 0, h |-> 0, locked |-> {}, surf |-> <<>>]

SurfacePixels(d) == (0 .. d.w - 1) \X (0 .. d.h - 1)

\* CreateSurface, then ClearSurface with a colour of equal bytes.
CreateSurface(d, pixelSize, byte) ==
    [d EXCEPT !.surf = [p \in SurfacePixels(d) |-> [i \in 1..pixelSize |-> byte]]]

\* LockSurface for writing: rows first to first + n - 1, all of their width.
LockRows(d, first, n) ==
    IF d.locked # {} THEN [d EXCEPT !.out = "deadlock"]
    ELSE IF first < 0 \/ n < 0 \/ first + n > d.h THEN Throw(d)
    ELSE [d EXCEPT !.locked = first .. first + n - 1]

Unlock(d) == [d EXCEPT !.locked = {}]

\* The pixels of row y from column x on become those of the sequence.
WritePixels(d, x, y, pixels) ==
    IF pixels = <<>> THEN d
    ELSE IF y \notin d.locked \/ x < 0 \/ x + Len(pixels) > d.w THEN [d EXCEPT !.out = "outside"]
    ELSE [d EXCEPT !.surf = [p \in DOMAIN @ |->
             IF p[2] = y /\ p[1] \in x .. x + Len(pixels) - 1 THEN pixels[p[1] - x + 1] ELSE @[p]]]

\* The same for one byte of each pixel.
WriteChannel(d, y, channel, bytes) ==
    IF y \notin d.locked \/ Len(bytes) > d.w THEN [d EXCEPT !.out = "outside"]
    ELSE [d EXCEPT !.surf = [p \in DOMAIN @ |->
             IF p[2] = y /\ p[1] < Len(bytes) THEN [@[p] EXCEPT ![channel] = bytes[p[1] + 1]] ELSE @[p]]]

Indexed(bytes) == [i \in DOMAIN bytes |-> <<bytes[i]>>]

\* Up to n turns of a loop that ends when the decoder has returned or thrown.
Repeated(d, n, Turn(_)) ==
    FoldLeft(LAMBDA e, i : IF e.out = "more" THEN Turn(e) ELSE e, d, [i \in 1..n |-> i])

=============================================================================
