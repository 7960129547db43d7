------------------------------ MODULE Encoders ------------------------------
(***************************************************************************)
(* How the picture formats store a picture: encoders, from a picture to    *)
(* the bytes of a file. They are what the decoders are checked against, so *)
(* they are written from the formats and share nothing with the decoders.  *)
(*                                                                         *)
(* A picture maps <<x, y>> to the bytes of a pixel, a row is the sequence  *)
(* of its pixels. A run is a pixel repeated, or some pixels as they are.   *)
(***************************************************************************)
EXTENDS Integers, Sequences, SequencesExt, FiniteSetsExt

Times(n, v) == [i \in 1..n |-> v]
Filler(n) == Times(n, 0)

\* A picture of w by h pixels of s bytes whose bytes are all told apart as far
\* as values below range allow. Four bytes of a pixel may be opaque.
Canvas(w, h) == (0 .. w - 1) \X (0 .. h - 1)
Painted(w, h, s, range) ==
    [p \in Canvas(w, h) |-> [i \in 1..s |-> (29 * (p[1] + w * p[2]) + 7 * i + 3) % range]]
Opaque(pic) == [p \in DOMAIN pic |-> [pic[p] EXCEPT ![4] = 255]]

RowOf(pic, w, y) == [x \in 1..w |-> pic[<<x - 1, y>>]]
Rows(pic, w, h) == [y \in 1..h |-> RowOf(pic, w, y - 1)]
PictureOf(pixels, w, h) == [p \in Canvas(w, h) |-> pixels[p[1] + w * p[2] + 1]]

-----------------------------------------------------------------------------
(* Rows as they are                                                        *)

\* Values of so many bits, the first in the highest bits; or, for words, the
\* lowest bit first.
BitOf(value, k) == (value \div 2^k) % 2
PackedBits(values, bits) ==
    [i \in 1 .. (Len(values) * bits + 7) \div 8 |->
        LET bit(k) == LET n == 8 * (i - 1) + k
                      IN  IF n \div bits >= Len(values) THEN 0
                          ELSE BitOf(values[n \div bits + 1], bits - 1 - (n % bits))
        IN  SumSet({bit(k) * 2^(7 - k) : k \in 0..7})]

\* The words are <<value, bits>>.
PackedWords(words) ==
    LET bits == FlattenSeq([i \in DOMAIN words |-> [k \in 1 .. words[i][2] |-> BitOf(words[i][1], k - 1)]])
    IN  [i \in 1 .. (Len(bits) + 7) \div 8 |->
            SumSet({IF 8 * (i - 1) + k <= Len(bits) THEN bits[8 * (i - 1) + k] * 2^(k - 1) ELSE 0 : k \in 1..8})]

FirstBytes(row) == [i \in DOMAIN row |-> row[i][1]]
\* A row of a given depth: 24 bits leave out the fourth byte.
RowBytes(row, depth) ==
    CASE depth < 8 -> PackedBits(FirstBytes(row), depth)
      [] depth = 24 -> FlattenSeq([i \in DOMAIN row |-> SubSeq(row[i], 1, 3)])
      [] OTHER -> FlattenSeq(row)

PaddedTo(bytes, n) == bytes \o Filler((n - (Len(bytes) % n)) % n)

-----------------------------------------------------------------------------
(* Runs                                                                    *)

Repeat(n, v) == [n |-> n, values |-> <<v>>]
AsIs(values) == [n |-> 1, values |-> values]
Expanded(runs) ==
    FlattenSeq([i \in DOMAIN runs |-> IF runs[i].n > 1 THEN Times(runs[i].n, runs[i].values[1]) ELSE runs[i].values])

TgaRun(r, depth) ==
    <<IF r.n > 1 THEN 127 + r.n ELSE Len(r.values) - 1>> \o RowBytes(r.values, depth)
PackBitsRun(r) == IF r.n > 1 THEN <<257 - r.n, r.values[1]>> ELSE <<Len(r.values) - 1>> \o r.values
PspRun(r) == IF r.n > 1 THEN <<128 + r.n, r.values[1]>> ELSE <<Len(r.values)>> \o r.values
PcxRun(r) ==
    IF r.n > 1 THEN <<192 + r.n, r.values[1]>>
    ELSE FlattenSeq([i \in DOMAIN r.values |->
            IF r.values[i] >= 192 THEN <<193, r.values[i]>> ELSE <<r.values[i]>>])
BmpRun(r, depth) ==
    IF r.n > 1 THEN <<r.n, IF depth = 4 THEN 17 * r.values[1] ELSE r.values[1]>>
    ELSE <<0, Len(r.values)>> \o PaddedTo(PackedBits(r.values, depth), 2)

-----------------------------------------------------------------------------
(* LZW, as GIF has it                                                      *)

\* The state of the encoder: strings are the table's, prefix the one that is
\* matched. The table is dropped when it is full, or kept as it is.
FreshTable(b) == [i \in 1 .. 2^b + 2 |-> IF i <= 2^b THEN <<i - 1>> ELSE <<-i>>]

CodeOf(strings, s) == CHOOSE i \in DOMAIN strings : strings[i] = s

EncodedPixel(e, v, b, size, drop) ==
    LET s == Append(e.prefix, v)
        code == <<CodeOf(e.strings, e.prefix) - 1, e.bits>>
        grown == IF Len(e.strings) < size THEN Append(e.strings, s) ELSE e.strings
        bits == IF Len(grown) > 2^e.bits /\ 2^(e.bits + 1) <= size THEN e.bits + 1 ELSE e.bits
    IN  IF \E i \in DOMAIN e.strings : e.strings[i] = s THEN [e EXCEPT !.prefix = s]
        ELSE IF drop /\ Len(e.strings) = size
        THEN [prefix |-> <<v>>, strings |-> FreshTable(b), bits |-> b + 1,
              words |-> e.words \o <<code, <<2^b, e.bits>>>>]
        ELSE [prefix |-> <<v>>, strings |-> grown, bits |-> bits, words |-> Append(e.words, code)]

\* The words for some values of b bits, with a table of so many strings: a
\* clear code first, and the end code last.
LzwWords(values, b, size, drop) ==
    LET e == FoldLeft(LAMBDA a, v : EncodedPixel(a, v, b, size, drop),
                      [prefix |-> <<Head(values)>>, strings |-> FreshTable(b), bits |-> b + 1,
                       words |-> <<<<2^b, b + 1>>>>],
                      Tail(values))
        grows == Len(e.strings) = 2^e.bits /\ 2^(e.bits + 1) <= size
    IN  e.words \o <<<<CodeOf(e.strings, e.prefix) - 1, e.bits>>,
                     <<2^b + 1, IF grows THEN e.bits + 1 ELSE e.bits>>>>

\* Blocks of so many bytes, each with its length before it, and an empty one.
Blocks(bytes, n) ==
    LET count == (Len(bytes) + n - 1) \div n
        block(i) == SubSeq(bytes, n * (i - 1) + 1, IF n * i < Len(bytes) THEN n * i ELSE Len(bytes))
    IN  FlattenSeq([i \in 1..count |-> <<Len(block(i))>> \o block(i)]) \o <<0>>

GifFrame(values, b, size, drop, blockSize) ==
    <<b>> \o Blocks(PackedWords(LzwWords(values, b, size, drop)), blockSize)

\* The rows of an interlaced picture, in the order of its four passes.
Interlaced(h) ==
    LET pass(first, step) == SelectSeq([y \in 1..h |-> y - 1], LAMBDA y : y >= first /\ (y - first) % step = 0)
    IN  pass(0, 8) \o pass(4, 8) \o pass(2, 4) \o pass(1, 2)

-----------------------------------------------------------------------------
(* The passes of an interlaced PNG picture: the pixels of each of them     *)

Adam7(w, h) ==
    LET first == <<<<0, 0>>, <<4, 0>>, <<0, 4>>, <<2, 0>>, <<0, 2>>, <<1, 0>>, <<0, 1>>>>
        step == <<<<8, 8>>, <<8, 8>>, <<4, 8>>, <<4, 4>>, <<2, 4>>, <<2, 2>>, <<1, 2>>>>
        all == [i \in 1 .. w * h |-> <<(i - 1) % w, (i - 1) \div w>>]
        pass(k) == SelectSeq(all, LAMBDA p : /\ p[1] >= first[k][1] /\ (p[1] - first[k][1]) % step[k][1] = 0
                                             /\ p[2] >= first[k][2] /\ (p[2] - first[k][2]) % step[k][2] = 0)
    IN  FlattenSeq([k \in 1..7 |-> pass(k)])
=============================================================================
