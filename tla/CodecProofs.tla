---------------------------- MODULE CodecProofs ----------------------------
(***************************************************************************)
(* A decoder writes only the pixels that it has locked, for all files: the *)
(* proof of LockedPixelsOnly.                                              *)
(*                                                                         *)
(* The streams move on and nothing else changes (Moved), a write within    *)
(* what is locked changes nothing but the surface (Drawn). Each format has *)
(* the invariant that its decoder keeps between two chunks (BmpReady, ...),*)
(* from which a chunk stays within its locked rows. The loops of a chunk   *)
(* are instances of Loops.                                                 *)
(***************************************************************************)
EXTENDS Codec, SequenceTheorems, WellFoundedInduction, TLAPS

-----------------------------------------------------------------------------
(* Induction over the turns of a loop: the hypothesis of Loops             *)

\* Every set of natural numbers that is not empty has a smallest member.
LEMMA LeastNumber ==
    ASSUME NEW S \in SUBSET Nat, S # {}
    PROVE  \E m \in S : \A k \in S : m <= k
<1>1. PICK m \in S : \A k \in S : <<k, m>> \notin OpToRel(<, Nat)
  BY WFMin, NatLessThanWellFounded
<1>2. ASSUME NEW k \in S PROVE m <= k
  <2>1. <<k, m>> \in Nat \X Nat /\ <<k, m>>[1] = k /\ <<k, m>>[2] = m
    OBVIOUS
  <2>2. ~(k < m)
    BY <1>1, <2>1 DEF OpToRel
  <2> QED BY <2>2
<1> QED BY <1>2

\* What holds of 0, and of the next number whenever it holds of one, holds of all.
LEMMA AllNumbers == \A S \in SUBSET Nat : 0 \in S /\ (\A n \in S : n + 1 \in S) => S = Nat
<1> SUFFICES ASSUME NEW S \in SUBSET Nat, 0 \in S, \A n \in S : n + 1 \in S, Nat \ S # {}
             PROVE  FALSE
  OBVIOUS
<1>1. PICK m \in Nat \ S : \A k \in Nat \ S : m <= k
  <2> DEFINE T == Nat \ S
  <2>1. T \in SUBSET Nat /\ T # {}
    OBVIOUS
  <2>2. \E m \in T : \A k \in T : m <= k
    BY <2>1, LeastNumber
  <2> QED BY <2>2
<1>2. m # 0 /\ m - 1 \in Nat
  OBVIOUS
<1>3. m - 1 \in S
  BY <1>1, <1>2
<1> QED BY <1>2, <1>3

-----------------------------------------------------------------------------
(* The decoder's record and its streams                                    *)

Base == {"data", "pos", "open", "left", "at", "size", "out", "w", "h", "locked", "surf"}
StreamFields == {"pos", "open", "left", "at", "size", "out"}

\* How a decoder may stand: not with memory corrupted, nor waiting for itself.
Outs == {"more", "Finished", "Failed", "throw"}

Streaming(e) ==
    /\ Base \subseteq DOMAIN e
    /\ e.data \in Seq(Bytes)
    /\ e.pos \in 0 .. Len(e.data)
    /\ e.open \in BOOLEAN
    /\ e.left \in Nat /\ e.at \in Int /\ e.size \in Int

\* u is e with its streams moved on.
Moved(e, u) ==
    /\ DOMAIN u = DOMAIN e
    /\ \A x \in DOMAIN e \ StreamFields : u[x] = e[x]
    /\ u.out \in {e.out, "throw"}
    /\ Streaming(u)

LEMMA MovedOn ==
    ASSUME NEW e, NEW u, NEW v, Moved(e, u), Moved(u, v)
    PROVE  Moved(e, v)
BY DEF Moved

LEMMA NotMoved ==
    ASSUME NEW e, Streaming(e)
    PROVE  Moved(e, e)
BY DEF Moved

LEMMA ThrowMoves ==
    ASSUME NEW e, Streaming(e)
    PROVE  Moved(e, Throw(e)) /\ Throw(e).out = "throw"
BY DEF Moved, Streaming, Base, StreamFields, Throw

LEMMA ReadMoves ==
    ASSUME NEW e, Streaming(e), NEW n \in Nat
    PROVE  Moved(e, Read(e, n)) /\ Read(e, n).out = e.out
BY DEF Moved, Streaming, Base, StreamFields, Read, AtMost, FileLeft

LEMMA ReadFullMoves ==
    ASSUME NEW e, Streaming(e), NEW n \in Nat
    PROVE  /\ Moved(e, ReadFull(e, n))
           /\ ReadFull(e, n).out # "throw" => FileLeft(e) >= n /\ ReadFull(e, n).pos = e.pos + n
<1>1. PICK u : u = Read(e, n)
  OBVIOUS
<1>2. Moved(e, u) /\ Streaming(u)
  BY <1>1, ReadMoves DEF Moved
<1>3. Moved(u, Throw(u)) /\ Throw(u).out = "throw"
  BY <1>2, ThrowMoves
<1>4. CASE ~e.open \/ FileLeft(e) < n
  <2>1. ReadFull(e, n) = Throw(u)
    BY <1>1, <1>4 DEF ReadFull
  <2> QED BY <1>2, <1>3, <2>1, MovedOn
<1>5. CASE ~(~e.open \/ FileLeft(e) < n)
  <2>1. ReadFull(e, n) = u
    BY <1>1, <1>5 DEF ReadFull
  <2>2. FileLeft(e) \in Int
    BY DEF FileLeft, Streaming
  <2>3. AtMost(n, FileLeft(e)) = n /\ FileLeft(e) >= n
    BY <1>5, <2>2 DEF AtMost
  <2>4. u.pos = e.pos + n
    BY <1>1, <2>3 DEF Read, Streaming, Base
  <2> QED BY <1>2, <2>1, <2>3, <2>4
<1> QED BY <1>4, <1>5

LEMMA SeekBeginMoves ==
    ASSUME NEW e, Streaming(e), NEW n \in Nat
    PROVE  Moved(e, SeekBegin(e, n))
<1>1. CASE n > Len(e.data)
  BY <1>1, ThrowMoves DEF SeekBegin
<1>2. CASE ~(n > Len(e.data))
  <2>1. PICK u : u = [e EXCEPT !.pos = n]
    OBVIOUS
  <2>2. SeekBegin(e, n) = u
    BY <1>2, <2>1 DEF SeekBegin
  <2>3. n \in 0 .. Len(e.data)
    BY <1>2 DEF Streaming
  <2>4. Moved(e, u)
    BY <2>1, <2>3 DEF Moved, Streaming, Base, StreamFields
  <2> QED BY <2>2, <2>4
<1> QED BY <1>1, <1>2

LEMMA SeekCurrentMoves ==
    ASSUME NEW e, Streaming(e), NEW n \in Nat
    PROVE  Moved(e, SeekCurrent(e, n))
<1>1. e.pos + n \in Nat
  BY DEF Streaming
<1> QED BY <1>1, SeekBeginMoves DEF SeekCurrent

\* The fields of the cache.
LEMMA AtAndSize ==
    ASSUME NEW u, Streaming(u), NEW a \in Int, NEW b \in Int
    PROVE  /\ Moved(u, [u EXCEPT !.at = a, !.size = b])
           /\ [u EXCEPT !.at = a, !.size = b].left = u.left
           /\ [u EXCEPT !.at = a, !.size = b].out = u.out
<1>1. Moved(u, [u EXCEPT !.at = a, !.size = b])
  BY DEF Streaming, Base, Moved, StreamFields
<1>2. /\ [u EXCEPT !.at = a, !.size = b].left = u.left
      /\ [u EXCEPT !.at = a, !.size = b].out = u.out
  BY DEF Streaming, Base
<1> QED BY <1>1, <1>2

LEMMA LeftAndAt ==
    ASSUME NEW u, Streaming(u), NEW a \in Int, NEW l \in Nat
    PROVE  Moved(u, [u EXCEPT !.left = l, !.at = a])
BY DEF Streaming, Base, Moved, StreamFields

LEMMA SetFileReaderMoves ==
    ASSUME NEW e, Streaming(e)
    PROVE  Moved(e, SetFileReader(e))
<1>1. PICK l : l = FileLeft(e)
  OBVIOUS
<1>2. l \in Nat
  BY <1>1 DEF FileLeft, Streaming
<1>3. PICK u : u = [e EXCEPT !.left = l]
  OBVIOUS
<1>4. Moved(e, u)
  <2>1. Moved(e, [e EXCEPT !.left = l])
    BY <1>2 DEF Moved, Streaming, Base, StreamFields
  <2> QED BY <1>3, <2>1
<1>5. Moved(u, [u EXCEPT !.at = 0, !.size = 0])
  <2>1. Streaming(u) /\ 0 \in Int
    BY <1>4 DEF Moved
  <2> QED BY <2>1, AtAndSize
<1>6. SetFileReader(e) = [u EXCEPT !.at = 0, !.size = 0]
  BY <1>1, <1>3 DEF SetFileReader
<1> QED BY <1>4, <1>5, <1>6, MovedOn

LEMMA OpenAndPos ==
    ASSUME NEW e, Streaming(e), NEW o \in BOOLEAN
    PROVE  Moved(e, [e EXCEPT !.open = o, !.pos = 0])
<1>1. PICK u : u = [e EXCEPT !.open = o]
  OBVIOUS
<1>2. Moved(e, u) /\ Streaming(u)
  BY <1>1 DEF Moved, Streaming, Base, StreamFields
<1>3. 0 \in 0 .. Len(u.data)
  BY <1>2 DEF Streaming
<1>4. Moved(u, [u EXCEPT !.pos = 0])
  BY <1>2, <1>3 DEF Moved, Streaming, Base, StreamFields
<1> QED BY <1>1, <1>2, <1>4, MovedOn

LEMMA ClosedMoves ==
    ASSUME NEW e, Streaming(e)
    PROVE  Moved(e, Closed(e)) /\ Closed(e).out = e.out
<1>1. Moved(e, Closed(e))
  BY OpenAndPos DEF Closed
<1>2. Closed(e).out = e.out
  BY DEF Closed, Streaming, Base
<1> QED BY <1>1, <1>2

LEMMA RenamedMoves ==
    ASSUME NEW e, Streaming(e)
    PROVE  Moved(e, Renamed(e))
<1>1. CASE ~e.open
  BY <1>1, NotMoved DEF Renamed
<1>2. CASE e.open
  <2>1. PICK u : u = Closed(e)
    OBVIOUS
  <2>2. Moved(e, u) /\ Streaming(u)
    BY <2>1, ClosedMoves DEF Moved
  <2>3. PICK v : v = Opened(u)
    OBVIOUS
  <2>4. Moved(u, v) /\ Streaming(v)
    BY <2>2, <2>3, OpenAndPos DEF Opened, Moved
  <2>5. e.pos \in Nat
    BY DEF Streaming
  <2>6. Moved(v, SeekBegin(v, e.pos))
    BY <2>4, <2>5, SeekBeginMoves
  <2>7. Renamed(e) = SeekBegin(v, e.pos)
    BY <1>2, <2>1, <2>3 DEF Renamed
  <2> QED BY <2>2, <2>4, <2>6, <2>7, MovedOn
<1> QED BY <1>1, <1>2 DEF Streaming

LEMMA RefilledMoves ==
    ASSUME NEW e, Streaming(e)
    PROVE  Moved(e, Refilled(e)) /\ Refilled(e).left = e.left /\ Refilled(e).out = e.out
<1>1. CASE e.at # e.size
  <2>1. Refilled(e) = e
    BY <1>1 DEF Refilled
  <2> QED BY <2>1, NotMoved
<1>2. CASE e.at = e.size
  <2>1. PICK u : u = Read(e, CacheSize)
    OBVIOUS
  <2>2. PICK n : n = AtMost(CacheSize, FileLeft(e))
    OBVIOUS
  <2>3. Moved(e, u) /\ u.out = e.out /\ u.left = e.left
    <3>1. CacheSize \in Nat
      BY CacheAssumption
    <3>2. Moved(e, u) /\ u.out = e.out
      BY <2>1, <3>1, ReadMoves
    <3>3. u.left = e.left
      BY <2>1 DEF Read, Streaming, Base
    <3> QED BY <3>2, <3>3
  <2>4. n \in Int /\ 0 \in Int
    BY <2>2, CacheAssumption DEF AtMost, FileLeft, Streaming
  <2>5. Streaming(u)
    BY <2>3 DEF Moved
  <2>6. PICK v : v = [u EXCEPT !.at = 0, !.size = n]
    OBVIOUS
  <2>7. Moved(u, v) /\ v.out = u.out /\ v.left = u.left
    BY <2>4, <2>5, <2>6, AtAndSize
  <2>8. Moved(e, v)
    BY <2>3, <2>7, MovedOn
  <2>9. Refilled(e) = v
    BY <1>2, <2>1, <2>2, <2>6 DEF Refilled
  <2> QED BY <2>3, <2>7, <2>8, <2>9
<1> QED BY <1>1, <1>2

LEMMA ReadByteMoves ==
    ASSUME NEW e, Streaming(e)
    PROVE  Moved(e, ReadByte(e))
<1>1. CASE e.left = 0
  BY <1>1, ThrowMoves DEF ReadByte
<1>2. CASE e.left # 0
  <2>1. PICK u : u = Refilled(e)
    OBVIOUS
  <2>2. Moved(e, u) /\ u.left = e.left
    BY <2>1, RefilledMoves
  <2>3. Streaming(u) /\ u.left - 1 \in Nat /\ u.at + 1 \in Int
    BY <1>2, <2>2 DEF Moved, Streaming
  <2>4. PICK v : v = [u EXCEPT !.left = u.left - 1, !.at = u.at + 1]
    OBVIOUS
  <2>5. Moved(u, v)
    BY <2>3, <2>4, LeftAndAt
  <2>6. ReadByte(e) = v
    BY <1>2, <2>1, <2>4 DEF ReadByte
  <2> QED BY <2>2, <2>5, <2>6, MovedOn
<1> QED BY <1>1, <1>2

-----------------------------------------------------------------------------
(* What is locked, and what is written                                     *)

\* u is e with pixels written.
Drawn(e, u) ==
    /\ DOMAIN u = DOMAIN e
    /\ \A x \in DOMAIN e \ {"surf"} : u[x] = e[x]

\* u is e with its streams moved on and pixels written, or a failure.
Filled(e, u) ==
    /\ DOMAIN u = DOMAIN e
    /\ \A x \in DOMAIN e \ (StreamFields \cup {"surf"}) : u[x] = e[x]
    /\ u.out \in {e.out, "throw", "Failed"}
    /\ Streaming(u)

\* u is e with n rows locked from the first, or an exception.
LockedRows(e, u, first, n) ==
    /\ DOMAIN u = DOMAIN e
    /\ \A x \in DOMAIN e \ {"locked", "out"} : u[x] = e[x]
    /\ \/ u.out = "throw" /\ u.locked = {}
       \/ /\ u.out = e.out
          /\ u.locked = first .. first + n - 1
          /\ first >= 0 /\ n >= 0 /\ first + n <= e.h

LEMMA LockLocks ==
    ASSUME NEW e, Base \subseteq DOMAIN e, e.locked = {}, e.h \in Int, NEW first \in Int, NEW n \in Int
    PROVE  LockedRows(e, LockRows(e, first, n), first, n)
<1>1. CASE first < 0 \/ n < 0 \/ first + n > e.h
  <2>1. LockRows(e, first, n) = [e EXCEPT !.out = "throw"]
    BY <1>1 DEF LockRows, Throw
  <2>2. "out" \in DOMAIN e /\ "locked" \in DOMAIN e
    BY DEF Base
  <2>3. PICK u : u = [e EXCEPT !.out = "throw"]
    OBVIOUS
  <2>4. u.out = "throw" /\ u.locked = {}
    BY <2>2, <2>3
  <2>5. DOMAIN u = DOMAIN e /\ \A x \in DOMAIN e \ {"locked", "out"} : u[x] = e[x]
    BY <2>3
  <2> QED BY <2>1, <2>3, <2>4, <2>5 DEF LockedRows
<1>2. CASE ~(first < 0 \/ n < 0 \/ first + n > e.h)
  <2>1. LockRows(e, first, n) = [e EXCEPT !.locked = first .. first + n - 1]
    BY <1>2 DEF LockRows
  <2>2. "out" \in DOMAIN e /\ "locked" \in DOMAIN e
    BY DEF Base
  <2>3. PICK r : r = first .. first + n - 1
    OBVIOUS
  <2>4. PICK u : u = [e EXCEPT !.locked = r]
    OBVIOUS
  <2>5. u.out = e.out /\ u.locked = r
    BY <2>2, <2>4
  <2>6. DOMAIN u = DOMAIN e /\ \A x \in DOMAIN e \ {"locked", "out"} : u[x] = e[x]
    BY <2>4
  <2> QED BY <1>2, <2>1, <2>3, <2>4, <2>5, <2>6 DEF LockedRows
<1> QED BY <1>1, <1>2

\* u is e with n rows locked from the first.
Locked(e, u, first, n) ==
    /\ DOMAIN u = DOMAIN e
    /\ \A x \in DOMAIN e \ {"locked"} : u[x] = e[x]
    /\ u.locked = first .. first + n - 1

LEMMA LocksRows ==
    ASSUME NEW e, Streaming(e), e.locked = {}, e.h \in Int, NEW first \in Nat, NEW n \in Nat, first + n <= e.h
    PROVE  /\ Locked(e, LockRows(e, first, n), first, n)
           /\ Streaming(LockRows(e, first, n))
           /\ LockRows(e, first, n).out = e.out
<1>1. LockRows(e, first, n) = [e EXCEPT !.locked = first .. first + n - 1]
  BY DEF LockRows
<1>2. PICK r : r = first .. first + n - 1
  OBVIOUS
<1>3. PICK u : u = [e EXCEPT !.locked = r]
  OBVIOUS
<1>4. Base \subseteq DOMAIN e
  BY DEF Streaming
<1>5. DOMAIN u = DOMAIN e /\ \A x \in DOMAIN e \ {"locked"} : u[x] = e[x]
  BY <1>3
<1>6. u.locked = r /\ u.out = e.out
  BY <1>3, <1>4 DEF Base
<1>7. Streaming(u)
  BY <1>3, <1>4 DEF Streaming, Base
<1> QED BY <1>1, <1>2, <1>3, <1>5, <1>6, <1>7 DEF Locked

LEMMA FilledOn ==
    ASSUME NEW e, NEW u, NEW v, Filled(e, u), Filled(u, v)
    PROVE  Filled(e, v)
BY DEF Filled

LEMMA MovedFills ==
    ASSUME NEW e, NEW u, Moved(e, u)
    PROVE  Filled(e, u)
BY DEF Filled, Moved

LEMMA DrawnFills ==
    ASSUME NEW e, NEW u, Streaming(e), Drawn(e, u)
    PROVE  Filled(e, u) /\ u.out = e.out
<1>1. Streaming(u)
  BY DEF Drawn, Streaming, Base
<1>2. u.out = e.out
  BY DEF Drawn, Streaming, Base
<1> QED BY <1>1, <1>2 DEF Drawn, Filled

\* What a lock leaves of the streams.
LEMMA LockedStreams ==
    ASSUME NEW e, NEW u, NEW first, NEW n, Streaming(e), LockedRows(e, u, first, n)
    PROVE  Streaming(u)
BY DEF LockedRows, Streaming, Base

\* A write within the rows that are locked, and their width.
LEMMA WriteDraws ==
    ASSUME NEW e, Base \subseteq DOMAIN e, NEW x, NEW y, NEW pixels,
           \/ pixels = <<>>
           \/ y \in e.locked /\ ~(x < 0) /\ ~(x + Len(pixels) > e.w)
    PROVE  Drawn(e, WritePixels(e, x, y, pixels))
<1>1. CASE pixels = <<>>
  BY <1>1 DEF WritePixels, Drawn
<1>2. CASE pixels # <<>>
  <2>1. PICK s : WritePixels(e, x, y, pixels) = [e EXCEPT !.surf = s]
    BY <1>2 DEF WritePixels
  <2> QED BY <2>1 DEF Drawn
<1> QED BY <1>1, <1>2

LEMMA ChannelDraws ==
    ASSUME NEW e, Base \subseteq DOMAIN e, NEW y, NEW c, NEW bytes,
           y \in e.locked, ~(Len(bytes) > e.w)
    PROVE  Drawn(e, WriteChannel(e, y, c, bytes))
<1>1. PICK s : WriteChannel(e, y, c, bytes) = [e EXCEPT !.surf = s]
  BY DEF WriteChannel
<1> QED BY <1>1 DEF Drawn

LEMMA SubSeqLength ==
    ASSUME NEW s, NEW m \in Int, NEW n \in Nat
    PROVE  Len(SubSeq(s, m + 1, m + n)) = n /\ DOMAIN SubSeq(s, m + 1, m + n) = 1..n
OBVIOUS

LEMMA FirstOfSequence ==
    ASSUME NEW s, NEW n \in Nat
    PROVE  /\ Len(SubSeq(s, 1, n)) = n
           /\ n = 0 => SubSeq(s, 1, n) = <<>>
OBVIOUS

LEMMA IndexedLength ==
    ASSUME NEW s, NEW n \in Nat, DOMAIN s = 1..n
    PROVE  Len(Indexed(s)) = n /\ DOMAIN Indexed(s) = 1..n
BY DEF Indexed

LEMMA UpcomingLength ==
    ASSUME NEW e, Streaming(e), NEW n \in Nat
    PROVE  \E m \in Nat : m <= n /\ Len(Upcoming(e, n)) = m /\ DOMAIN Upcoming(e, n) = 1..m
<1>1. PICK m : m = AtMost(n, FileLeft(e))
  OBVIOUS
<1>2. m \in Nat /\ m <= n
  BY <1>1 DEF AtMost, FileLeft, Streaming
<1>3. e.pos \in Int
  BY DEF Streaming
<1>4. Upcoming(e, n) = SubSeq(e.data, e.pos + 1, e.pos + m)
  BY <1>1 DEF Upcoming
<1>5. PICK s, p : s = SubSeq(e.data, p + 1, p + m) /\ p = e.pos
  OBVIOUS
<1>6. Len(s) = m /\ DOMAIN s = 1..m
  BY <1>2, <1>3, <1>5
<1> QED BY <1>2, <1>4, <1>5, <1>6

LEMMA MaxOfTwo ==
    ASSUME NEW a \in Int, NEW b \in Int
    PROVE  Max({a, b}) = IF a >= b THEN a ELSE b
BY DEF Max

\* The bytes that ReadFull has read.
LEMMA ByteTyped ==
    ASSUME NEW e, Streaming(e), NEW n \in Nat, FileLeft(e) >= n, NEW k \in 1..n
    PROVE  Byte(e, k) \in Bytes
<1>1. e.pos + k \in 1 .. Len(e.data)
  BY DEF Streaming, FileLeft
<1> QED BY <1>1 DEF Byte, Streaming


\* What a codec's turn may come to: out is good, and there is a lock to release.
Sound(e) == Base \subseteq DOMAIN e /\ e.out \in Outs

LEMMA FilledSound ==
    ASSUME NEW e, NEW u, e.out \in Outs, Filled(e, u)
    PROVE  Sound(u)
BY DEF Filled, Sound, Outs, Streaming

LEMMA FinishingSound ==
    ASSUME NEW e, Base \subseteq DOMAIN e
    PROVE  Sound(Finishing(e)) /\ Finishing(e).out = "Finished"
BY DEF Sound, Finishing, Base, Outs

LEMMA FailingSound ==
    ASSUME NEW e, Base \subseteq DOMAIN e
    PROVE  Sound(Failing(e)) /\ Failing(e).out = "Failed"
BY DEF Sound, Failing, Base, Outs

\* Rows are locked and filled: what else the record holds stays.
LEMMA LockedFilled ==
    ASSUME NEW e, NEW b, NEW u, NEW first, NEW n, Locked(e, b, first, n), Filled(b, u)
    PROVE  /\ DOMAIN u = DOMAIN e
           /\ \A x \in DOMAIN e \ (StreamFields \cup {"surf", "locked"}) : u[x] = e[x]
           /\ Streaming(u)
BY DEF Locked, Filled
-----------------------------------------------------------------------------
(* CodecBMP                                                                *)

BmpFields == Base \cup {"header", "row", "x"}

BmpTyped(e) ==
    /\ DOMAIN e = BmpFields
    /\ Streaming(e)
    /\ e.w \in Nat /\ e.h \in Nat
    /\ e.header.width = e.w
    /\ e.header.depth \in {1, 4, 8, 16, 24, 32}
    /\ e.row \in Nat /\ e.x \in Nat

RunLengthEncoded(e) == e.header.compression \in {"RLE4", "RLE8"}

\* What holds between two commands of a run-length encoded picture: the row that
\* is written is locked.
BmpHolds(e, p) ==
    /\ DOMAIN e = BmpFields
    /\ e.out \in Outs
    /\ e.out = "more" => BmpTyped(e) /\ RunLengthEncoded(e) /\ BmpRow(e) \in e.locked

BmpCommand(e, i, p) == IF e.out = "more" THEN RleCommand(e) ELSE e

Bmp == INSTANCE Loops WITH Step <- BmpCommand, Holds <- BmpHolds

LEMMA BmpFilled ==
    ASSUME NEW e, NEW u, BmpTyped(e), Filled(e, u)
    PROVE  /\ BmpTyped(u)
           /\ u.w = e.w /\ u.h = e.h /\ u.row = e.row /\ u.x = e.x /\ u.locked = e.locked
           /\ u.header = e.header
<1>1. {"w", "h", "header", "row", "x", "locked"} \subseteq DOMAIN e \ (StreamFields \cup {"surf"})
  BY DEF BmpTyped, BmpFields, Base, StreamFields
<1>2. /\ u["w"] = e["w"] /\ u["h"] = e["h"] /\ u["row"] = e["row"] /\ u["x"] = e["x"]
      /\ u["locked"] = e["locked"] /\ u["header"] = e["header"]
  BY <1>1 DEF Filled
<1> QED BY <1>2 DEF BmpTyped, Filled

\* Commands that move the streams, and those that write within the row.
LEMMA BmpFilledHolds ==
    ASSUME NEW e, NEW u, BmpHolds(e, 0), e.out = "more", Filled(e, u)
    PROVE  BmpHolds(u, 0)
<1>1. BmpTyped(e) /\ RunLengthEncoded(e) /\ BmpRow(e) \in e.locked
  BY DEF BmpHolds
<1>2. BmpTyped(u) /\ u.h = e.h /\ u.row = e.row /\ u.locked = e.locked /\ u.header = e.header
  BY <1>1, BmpFilled
<1>3. BmpRow(u) \in u.locked /\ RunLengthEncoded(u)
  BY <1>1, <1>2 DEF BmpRow, RunLengthEncoded
<1>4. DOMAIN u = BmpFields /\ u.out \in Outs
  BY <1>2 DEF BmpTyped, Filled, Outs
<1> QED BY <1>2, <1>3, <1>4 DEF BmpHolds

LEMMA AddPixelsHolds ==
    ASSUME NEW e, BmpHolds(e, 0), e.out = "more", NEW pixels, NEW m \in Nat, Len(pixels) = m
    PROVE  BmpHolds(AddPixels(e, pixels), 0) /\ AddPixels(e, pixels).out = "more"
<1>1. BmpTyped(e) /\ BmpRow(e) \in e.locked
  BY DEF BmpHolds
<1>2. Max({0, e.w - e.x}) = IF 0 >= e.w - e.x THEN 0 ELSE e.w - e.x
  <2>1. e.w - e.x \in Int /\ 0 \in Int
    BY <1>1 DEF BmpTyped
  <2> QED BY <2>1, MaxOfTwo
<1>3. PICK n : n = AtMost(Len(pixels), Max({0, e.w - e.x}))
  OBVIOUS
<1>4. n \in Nat /\ (n = 0 \/ e.x + n <= e.w)
  BY <1>1, <1>2, <1>3 DEF AtMost, BmpTyped
<1>5. PICK s : s = SubSeq(Indexed(pixels), 1, n)
  OBVIOUS
<1>6. Len(s) = n /\ (n = 0 => s = <<>>)
  BY <1>4, <1>5, FirstOfSequence
<1>7. PICK u : u = WritePixels(e, e.x, BmpRow(e), s)
  OBVIOUS
<1>8. Drawn(e, u)
  <2>1. s = <<>> \/ (BmpRow(e) \in e.locked /\ ~(e.x < 0) /\ ~(e.x + Len(s) > e.w))
    BY <1>1, <1>4, <1>6 DEF BmpTyped
  <2>2. Base \subseteq DOMAIN e
    BY <1>1 DEF BmpTyped, Streaming
  <2> QED BY <1>7, <2>1, <2>2, WriteDraws
<1>9. Filled(e, u) /\ u.out = "more"
  BY <1>1, <1>8, DrawnFills DEF BmpTyped
<1>10. BmpTyped(u) /\ RunLengthEncoded(u) /\ BmpRow(u) \in u.locked
  BY <1>9, BmpFilledHolds DEF BmpHolds
<1>11. PICK v : v = [u EXCEPT !.x = u.x + n]
  OBVIOUS
<1>12. BmpTyped(v) /\ BmpRow(v) \in v.locked /\ v.out = "more" /\ DOMAIN v = BmpFields
  BY <1>4, <1>9, <1>10, <1>11 DEF BmpTyped, Streaming, Base, BmpFields, BmpRow
<1>14. RunLengthEncoded(v)
  BY <1>10, <1>11 DEF RunLengthEncoded, BmpTyped, BmpFields
<1>13. AddPixels(e, pixels) = v
  BY <1>3, <1>5, <1>7, <1>11 DEF AddPixels
<1> QED BY <1>12, <1>13, <1>14 DEF BmpHolds, Outs

\* The row that is moved to is locked, or the move throws.
LEMMA ScanlineHolds ==
    ASSUME NEW e, BmpTyped(e), RunLengthEncoded(e), e.out = "more", e.locked = {}
    PROVE  BmpHolds(GetScanlinePtr(e), 0)
<1>1. PICK r : r = BmpRow(e)
  OBVIOUS
<1>2. r \in Int /\ e.h \in Int /\ Base \subseteq DOMAIN e
  BY <1>1 DEF BmpRow, BmpTyped, Streaming
<1>3. PICK u : u = LockRows(e, r, 1)
  OBVIOUS
<1>4. LockedRows(e, u, r, 1)
  BY <1>2, <1>3, LockLocks
<1>5. DOMAIN u = BmpFields /\ u.out \in Outs
  BY <1>4 DEF LockedRows, BmpTyped, Outs
<1>6. ASSUME u.out = "more" PROVE BmpTyped(u) /\ RunLengthEncoded(u) /\ BmpRow(u) \in u.locked
  <2>1. u.locked = r .. r + 1 - 1
    BY <1>4, <1>6 DEF LockedRows
  <2>2. r \in u.locked
    BY <1>2, <2>1
  <2>3. Streaming(u)
    BY <1>4, LockedStreams DEF BmpTyped
  <2>4. {"w", "h", "header", "row", "x"} \subseteq DOMAIN e \ {"locked", "out"}
    BY DEF BmpTyped, BmpFields, Base
  <2>5. u["w"] = e["w"] /\ u["h"] = e["h"] /\ u["row"] = e["row"] /\ u["x"] = e["x"] /\ u["header"] = e["header"]
    BY <1>4, <2>4 DEF LockedRows
  <2> QED BY <1>1, <1>5, <2>2, <2>3, <2>5 DEF BmpTyped, BmpRow, RunLengthEncoded
<1>7. BmpHolds(u, 0)
  BY <1>5, <1>6 DEF BmpHolds
<1>8. GetScanlinePtr(e) = u
  BY <1>1, <1>3 DEF GetScanlinePtr
<1> QED BY <1>7, <1>8

LEMMA MovedToHolds ==
    ASSUME NEW e, BmpTyped(e), RunLengthEncoded(e), e.out = "more", NEW x \in Nat, NEW row \in Nat
    PROVE  BmpHolds(MovedTo(e, x, row), 0)
<1>1. PICK u : u = Unlock(e)
  OBVIOUS
<1>2. BmpTyped(u) /\ u.out = "more" /\ u.locked = {}
  BY <1>1 DEF Unlock, BmpTyped, Streaming, Base, BmpFields
<1>3. PICK v : v = [u EXCEPT !.x = x, !.row = row]
  OBVIOUS
<1>4. DOMAIN v = BmpFields /\ v.x = x /\ v.row = row /\ \A y \in Base \cup {"header"} : v[y] = u[y]
  BY <1>2, <1>3 DEF BmpTyped, BmpFields, Base
<1>5. BmpTyped(v) /\ v.out = "more" /\ v.locked = {}
  BY <1>2, <1>4 DEF BmpTyped, BmpFields, Streaming, Base
<1>7. RunLengthEncoded(v)
  <2>1. u.header = e.header
    BY <1>1 DEF Unlock, BmpTyped, Streaming, Base, BmpFields
  <2> QED BY <1>4, <2>1 DEF RunLengthEncoded
<1>6. MovedTo(e, x, row) = GetScanlinePtr(v)
  BY <1>1, <1>3 DEF MovedTo
<1> QED BY <1>5, <1>6, <1>7, ScanlineHolds

LEMMA AbsoluteRunHolds ==
    ASSUME NEW e, BmpHolds(e, 0), e.out = "more", NEW n \in Nat
    PROVE  BmpHolds(AbsoluteRun(e, n), 0)
<1>1. BmpTyped(e) /\ Streaming(e)
  BY DEF BmpHolds, BmpTyped
<1>2. PICK b : b = IF e.header.depth = 8 THEN n ELSE (n + 1) \div 2
  OBVIOUS
<1>3. b \in Nat
  BY <1>2
<1>4. PICK s : s = AbsolutePixels(e.header, Upcoming(e, b), n)
  OBVIOUS
<1>5. \E m \in Nat : Len(s) = m
  <2>1. PICK k \in Nat : Len(Upcoming(e, b)) = k
    BY <1>1, <1>3, UpcomingLength
  <2>2. CASE e.header.depth = 8
    BY <1>4, <2>1, <2>2 DEF AbsolutePixels
  <2>3. CASE e.header.depth # 8
    <3>1. PICK m : m = AtMost(n, 2 * k)
      OBVIOUS
    <3>2. m \in Nat
      BY <3>1 DEF AtMost
    <3>3. s = NibblesToBytes(Upcoming(e, b), m)
      BY <1>4, <2>1, <2>3, <3>1 DEF AbsolutePixels
    <3>4. Len(s) = m
      BY <3>2, <3>3 DEF NibblesToBytes
    <3> QED BY <3>2, <3>4
  <2> QED BY <2>2, <2>3
<1>6. PICK u : u = AddPixels(e, s)
  OBVIOUS
<1>7. BmpHolds(u, 0) /\ u.out = "more" /\ Streaming(u)
  BY <1>5, <1>6, AddPixelsHolds DEF BmpHolds, BmpTyped
<1>8. PICK v : v = ReadFull(u, b)
  OBVIOUS
<1>9. Moved(u, v) /\ Streaming(v)
  BY <1>3, <1>7, <1>8, ReadFullMoves DEF Moved
<1>10. BmpHolds(v, 0)
  BY <1>7, <1>9, MovedFills, BmpFilledHolds
<1>11. CASE v.out = "more" /\ b % 2 = 1
  <2>1. AbsoluteRun(e, n) = SeekCurrent(v, 1)
    BY <1>2, <1>4, <1>6, <1>8, <1>11 DEF AbsoluteRun
  <2>2. Moved(v, SeekCurrent(v, 1))
    BY <1>9, SeekCurrentMoves
  <2> QED BY <1>10, <1>11, <2>1, <2>2, MovedFills, BmpFilledHolds
<1>12. CASE ~(v.out = "more" /\ b % 2 = 1)
  <2>1. AbsoluteRun(e, n) = v
    BY <1>2, <1>4, <1>6, <1>8, <1>12 DEF AbsoluteRun
  <2> QED BY <1>10, <2>1
<1> QED BY <1>11, <1>12

LEMMA DeltaHolds ==
    ASSUME NEW e, BmpHolds(e, 0), e.out = "more"
    PROVE  BmpHolds(Delta(e), 0)
<1>1. BmpTyped(e) /\ Streaming(e)
  BY DEF BmpHolds, BmpTyped
<1>2. PICK u : u = ReadFull(e, 2)
  OBVIOUS
<1>3. Moved(e, u) /\ (u.out # "throw" => FileLeft(e) >= 2)
  BY <1>1, <1>2, ReadFullMoves
<1>4. BmpHolds(u, 0)
  BY <1>3, MovedFills, BmpFilledHolds
<1>5. CASE u.out = "throw"
  BY <1>2, <1>4, <1>5 DEF Delta
<1>6. CASE u.out # "throw"
  <2>1. u.out = "more" /\ RunLengthEncoded(u) /\ BmpTyped(u)
    BY <1>3, <1>4, <1>6 DEF Moved, BmpHolds
  <2>2. Byte(e, 1) \in Nat /\ Byte(e, 2) \in Nat
    BY <1>1, <1>3, <1>6, ByteTyped DEF Bytes
  <2>3. u.x = e.x /\ u.row = e.row /\ e.x \in Nat /\ e.row \in Nat
    BY <1>1, <1>3, MovedFills, BmpFilled DEF BmpTyped
  <2>4. e.x + Byte(e, 1) \in Nat /\ e.row + Byte(e, 2) \in Nat
    BY <2>2, <2>3
  <2>5. Delta(e) = MovedTo(u, e.x + Byte(e, 1), e.row + Byte(e, 2))
    BY <1>2, <1>6 DEF Delta
  <2> QED BY <2>1, <2>4, <2>5, MovedToHolds
<1> QED BY <1>5, <1>6

LEMMA RunLength ==
    ASSUME NEW h, NEW n \in Nat, NEW b
    PROVE  Len(RunPixels(h, n, b)) = n
<1>1. CASE h.depth = 8
  BY <1>1 DEF RunPixels
<1>2. CASE h.depth # 8
  BY <1>2 DEF RunPixels
<1> QED BY <1>1, <1>2

LEMMA RleCommandHolds ==
    ASSUME NEW e, BmpHolds(e, 0), e.out = "more"
    PROVE  BmpHolds(RleCommand(e), 0)
<1>1. BmpTyped(e) /\ Streaming(e)
  BY DEF BmpHolds, BmpTyped
<1>2. PICK u : u = ReadFull(e, 2)
  OBVIOUS
<1>3. Moved(e, u) /\ (u.out # "throw" => FileLeft(e) >= 2)
  BY <1>1, <1>2, ReadFullMoves
<1>4. BmpHolds(u, 0)
  BY <1>3, MovedFills, BmpFilledHolds
<1>5. CASE u.out = "throw"
  BY <1>2, <1>4, <1>5 DEF RleCommand
<1>6. CASE u.out # "throw"
  <2>1. u.out = "more" /\ RunLengthEncoded(u) /\ BmpTyped(u)
    BY <1>3, <1>4, <1>6 DEF Moved, BmpHolds
  <2>2. PICK a, b : a = Byte(e, 1) /\ b = Byte(e, 2)
    OBVIOUS
  <2>3. a \in Nat /\ b \in Nat
    BY <1>1, <1>3, <1>6, <2>2, ByteTyped DEF Bytes
  <2>4. CASE a > 0
    <3>1. RleCommand(e) = AddPixels(u, RunPixels(e.header, a, b))
      BY <1>2, <1>6, <2>2, <2>4 DEF RleCommand
    <3>2. Len(RunPixels(e.header, a, b)) = a
      BY <2>3, RunLength
    <3> QED BY <1>4, <2>1, <2>3, <3>1, <3>2, AddPixelsHolds
  <2>5. CASE a = 0 /\ b = 0
    <3>1. RleCommand(e) = EndOfLine(u)
      BY <1>2, <1>6, <2>2, <2>5 DEF RleCommand
    <3>2. u.row + 1 \in Nat /\ 0 \in Nat
      BY <2>1 DEF BmpTyped
    <3>3. BmpHolds(MovedTo(u, 0, u.row + 1), 0)
      BY <2>1, <3>2, MovedToHolds
    <3> QED BY <1>4, <3>1, <3>3 DEF EndOfLine
  <2>6. CASE a = 0 /\ b = 1
    <3>1. RleCommand(e) = Finishing(u)
      BY <1>2, <1>6, <2>2, <2>6 DEF RleCommand
    <3>2. DOMAIN Finishing(u) = BmpFields /\ Finishing(u).out = "Finished"
      BY <2>1 DEF Finishing, BmpTyped, BmpFields, Base
    <3> QED BY <3>1, <3>2 DEF BmpHolds, Outs
  <2>7. CASE a = 0 /\ b = 2
    <3>1. RleCommand(e) = Delta(u)
      BY <1>2, <1>6, <2>2, <2>7 DEF RleCommand
    <3> QED BY <1>4, <2>1, <3>1, DeltaHolds
  <2>8. CASE a = 0 /\ b \notin {0, 1, 2}
    <3>1. RleCommand(e) = AbsoluteRun(u, b)
      BY <1>2, <1>6, <2>2, <2>8 DEF RleCommand
    <3> QED BY <1>4, <2>1, <2>3, <3>1, AbsoluteRunHolds
  <2> QED BY <2>3, <2>4, <2>5, <2>6, <2>7, <2>8
<1> QED BY <1>5, <1>6

\* What a BMP decoder keeps between two chunks: a raw picture has a row left.
BmpReady(e) == BmpTyped(e) /\ (~RunLengthEncoded(e) => e.row < e.h)

LEMMA BmpRleChunkSound ==
    ASSUME NEW e, BmpTyped(e), RunLengthEncoded(e), e.out = "more", e.locked = {}
    PROVE  Sound(BmpRleChunk(e)) /\ (BmpRleChunk(e).out = "more" => BmpReady(BmpRleChunk(e)))
<1> DEFINE b == GetScanlinePtr(e)
<1>2. BmpHolds(b, 0)
  BY ScanlineHolds
<1>3. \A v : \A i \in 1..RLEChunks : BmpHolds(v, 0) => BmpHolds(BmpCommand(v, i, 0), 0)
  BY RleCommandHolds DEF BmpCommand
<1> HIDE DEF b
<1>4. BmpHolds(Bmp!Result(b, Bmp!Counted(RLEChunks), 0), 0)
  <2>1. RLEChunks \in Int
    BY RLEAssumption
  <2> QED BY <1>2, <1>3, <2>1, AllNumbers, Bmp!TurnsHold DEF Bmp!Inductive
<1>5. RleCommands(e) = Bmp!Result(b, Bmp!Counted(RLEChunks), 0)
  BY DEF b, RleCommands, Repeated, BmpCommand, Bmp!Result, Bmp!Counted, FoldLeft, MapThenFoldSet,
         Max, Bmp!Last
<1>6. PICK v : v = RleCommands(e)
  OBVIOUS
<1>7. BmpHolds(v, 0)
  BY <1>4, <1>5, <1>6
<1>8. Sound(v) /\ (v.out = "more" => BmpReady(v))
  BY <1>7 DEF BmpHolds, Sound, BmpFields, BmpReady, RunLengthEncoded
<1>9. Sound(Finishing(v)) /\ Finishing(v).out = "Finished"
  BY <1>8 DEF Sound, Finishing, Base, Outs
<1>10. PICK r : r = BmpRleChunk(e)
  OBVIOUS
<1>11. r = IF v.out = "more" /\ v.row = e.h THEN Finishing(v) ELSE v
  BY <1>6, <1>10 DEF BmpRleChunk
<1>12. Sound(r) /\ (r.out = "more" => BmpReady(r))
  BY <1>8, <1>9, <1>11
<1> QED BY <1>10, <1>12


\* A row of the file gives as many pixels as the row of the surface has, or
\* fewer.
LEMMA RawPixelsFit ==
    ASSUME NEW e, BmpTyped(e), NEW old, NEW m \in Nat, m <= FileStride(e.header),
           NEW bytes, Len(bytes) = m, DOMAIN bytes = 1..m
    PROVE  \/ RawPixels(e, bytes, old) = <<>>
           \/ Len(RawPixels(e, bytes, old)) \in Nat /\ Len(RawPixels(e, bytes, old)) <= e.w
<1>1. PICK depth : depth = e.header.depth
  OBVIOUS
<1>2. depth \in {1, 4, 8, 16, 24, 32} /\ e.w \in Nat /\ e.header.width = e.w
  BY <1>1 DEF BmpTyped
<1>3. CASE depth \in {1, 4}
  <2>1. CASE m < FileStride(e.header)
    BY <1>1, <1>3, <2>1 DEF RawPixels
  <2>2. CASE ~(m < FileStride(e.header))
    <3>1. PICK s : s = ConvertToBytes(bytes, depth, e.w)
      OBVIOUS
    <3>2. DOMAIN s = 1 .. e.w
      BY <1>2, <1>3, <3>1 DEF ConvertToBytes, BitsToBytes, NibblesToBytes
    <3>3. Len(Indexed(s)) = e.w
      BY <1>2, <3>2, IndexedLength
    <3>4. RawPixels(e, bytes, old) = Indexed(s)
      BY <1>1, <1>3, <2>2, <3>1 DEF RawPixels
    <3> QED BY <1>2, <3>3, <3>4
  <2> QED BY <2>1, <2>2
<1>4. CASE depth = 8
  <2>1. m <= e.w
    BY <1>1, <1>2, <1>4 DEF FileStride
  <2>2. RawPixels(e, bytes, old) = Indexed(bytes)
    BY <1>1, <1>4 DEF RawPixels
  <2> QED BY <2>1, <2>2, IndexedLength
<1>5. CASE depth = 16
  <2>1. (m + 1) \div 2 <= e.w /\ (m + 1) \div 2 \in Nat
    <3>1. m <= 2 * e.w
      BY <1>1, <1>2, <1>5 DEF FileStride
    <3> QED BY <1>2, <3>1
  <2>2. Len(RawPixels(e, bytes, old)) = (m + 1) \div 2
    <3>1. PICK n : n = (m + 1) \div 2
      OBVIOUS
    <3>2. n \in Nat
      BY <2>1, <3>1
    <3> QED BY <1>1, <1>5, <3>1, <3>2 DEF RawPixels
  <2> QED BY <2>1, <2>2
<1>6. CASE depth \in {24, 32}
  <2>1. PICK b : b = depth \div 8
    OBVIOUS
  <2>2. b \in {3, 4} /\ (depth = 24 => b = 3) /\ (depth = 32 => b = 4)
    BY <1>6, <2>1
  <2>3. m \div b <= e.w /\ m \div b \in Nat
    <3>1. CASE depth = 24
      BY <1>1, <1>2, <2>2, <3>1 DEF FileStride
    <3>2. CASE depth = 32
      BY <1>1, <1>2, <2>2, <3>2 DEF FileStride
    <3> QED BY <1>6, <3>1, <3>2
  <2>4. Len(RawPixels(e, bytes, old)) = m \div b
    <3>1. PICK n \in Nat : n = m \div b
      BY <2>3
    <3>2. RawPixels(e, bytes, old) =
            [x \in 1 .. Len(bytes) \div (e.header.depth \div 8) |->
                Pixel24(e.header, SubSeq(bytes, (e.header.depth \div 8) * (x - 1) + 1, (e.header.depth \div 8) * x))]
      BY <1>1, <1>6 DEF RawPixels
    <3>3. Len(bytes) \div (e.header.depth \div 8) = n
      BY <1>1, <2>1, <3>1
    <3>4. PICK k : k = Len(bytes) \div (e.header.depth \div 8)
      OBVIOUS
    <3>5. Len(RawPixels(e, bytes, old)) = k
      BY <3>1, <3>2, <3>3, <3>4
    <3> QED BY <3>1, <3>3, <3>4, <3>5
  <2> QED BY <2>3, <2>4
<1> QED BY <1>2, <1>3, <1>4, <1>5, <1>6

LEMMA BmpRawRowSound ==
    ASSUME NEW e, BmpTyped(e), e.row < e.h, e.out = "more", e.locked = {}
    PROVE  /\ Sound(BmpRawRow(e))
           /\ BmpRawRow(e).out = "more" => BmpTyped(BmpRawRow(e)) /\ BmpRawRow(e).row < BmpRawRow(e).h
<1>1. PICK y : y = BmpRow(e)
  OBVIOUS
<1>2. y \in Nat /\ y + 1 <= e.h /\ e.h \in Nat /\ e.row \in Nat /\ e.w \in Nat /\ Streaming(e)
  BY <1>1 DEF BmpRow, BmpTyped
<1>3. PICK b : b = LockRows(e, y, 1)
  OBVIOUS
<1>4. Locked(e, b, y, 1) /\ Streaming(b) /\ b.out = "more"
  <2>1. e.h \in Int /\ 1 \in Nat /\ y + 1 <= e.h
    BY <1>2
  <2>2. Locked(e, LockRows(e, y, 1), y, 1) /\ Streaming(LockRows(e, y, 1)) /\ LockRows(e, y, 1).out = e.out
    BY <1>2, <2>1, LocksRows
  <2> QED BY <1>3, <2>2
<1>5. PICK n : n = FileStride(e.header)
  OBVIOUS
<1>6. n \in Nat
  BY <1>5 DEF FileStride, BmpTyped
<1>7. PICK s : s = RawPixels(e, Upcoming(e, n), [x \in 1..e.w |-> e.surf[<<x - 1, y>>]])
  OBVIOUS
<1>8. s = <<>> \/ (Len(s) \in Nat /\ Len(s) <= e.w)
  <2>1. PICK m \in Nat : m <= n /\ Len(Upcoming(e, n)) = m /\ DOMAIN Upcoming(e, n) = 1..m
    BY <1>2, <1>6, UpcomingLength
  <2> QED BY <1>5, <1>7, <2>1, RawPixelsFit
<1>9. PICK t : t = WritePixels(b, 0, y, s)
  OBVIOUS
<1>10. Filled(b, t)
  <2>1. y \in b.locked
    BY <1>2, <1>4 DEF Locked
  <2>2. b["w"] = e["w"] /\ Base \subseteq DOMAIN b
    BY <1>4 DEF Locked, Streaming, Base
  <2>3. s = <<>> \/ (y \in b.locked /\ ~(0 < 0) /\ ~(0 + Len(s) > b.w))
    BY <1>2, <1>8, <2>1, <2>2
  <2>4. Drawn(b, t)
    BY <1>9, <2>2, <2>3, WriteDraws
  <2> QED BY <1>4, <2>4, DrawnFills
<1>11. PICK r : r = ReadFull(t, n)
  OBVIOUS
<1>12. Filled(b, r) /\ Streaming(r)
  <2>1. Filled(t, r)
    BY <1>6, <1>10, <1>11, ReadFullMoves, MovedFills DEF Filled
  <2> QED BY <1>10, <2>1, FilledOn DEF Filled
<1>13. PICK p : p = IF r.out = "more" THEN SeekCurrent(r, ScanPadding(e.header)) ELSE r
  OBVIOUS
<1>14. Filled(b, p)
  <2>1. ScanPadding(e.header) \in Nat
    BY <1>5, <1>6 DEF ScanPadding
  <2>2. Filled(r, SeekCurrent(r, ScanPadding(e.header)))
    BY <1>12, <2>1, SeekCurrentMoves, MovedFills
  <2> QED BY <1>12, <1>13, <2>2, FilledOn
<1>15. PICK v : v = BmpRawRow(e)
  OBVIOUS
<1>16. v = [p EXCEPT !.row = p.row + 1,
                     !.out = IF p.out = "more" /\ e.row + 1 = e.h THEN "Finished" ELSE p.out]
  BY <1>1, <1>3, <1>5, <1>7, <1>9, <1>11, <1>13, <1>15 DEF BmpRawRow, GetScanlinePtr
<1>17. BmpTyped(b)
  <2>1. DOMAIN e = BmpFields
    BY DEF BmpTyped
  <2>2. /\ b["w"] = e["w"] /\ b["h"] = e["h"] /\ b["header"] = e["header"] /\ b["row"] = e["row"]
        /\ b["x"] = e["x"] /\ DOMAIN b = BmpFields
    BY <1>4, <2>1 DEF Locked, BmpFields, Base
  <2> QED BY <1>4, <2>2 DEF BmpTyped
<1>18. BmpTyped(p) /\ p.row = e.row /\ p.h = e.h /\ p.out \in {"more", "throw", "Failed"}
  <2>1. b["row"] = e["row"] /\ b["h"] = e["h"]
    BY <1>4 DEF Locked, BmpTyped, BmpFields, Base
  <2> QED BY <1>4, <1>14, <1>17, <2>1, BmpFilled DEF Filled
<1>19. PICK o : o = IF p.out = "more" /\ e.row + 1 = e.h THEN "Finished" ELSE p.out
  OBVIOUS
<1>20. o \in Outs /\ (o = "more" => e.row + 1 < e.h)
  BY <1>2, <1>18, <1>19 DEF Outs
<1>21. PICK q : q = [p EXCEPT !.row = p.row + 1]
  OBVIOUS
<1>22. BmpTyped(q) /\ q.row = e.row + 1 /\ q.h = e.h
  BY <1>18, <1>21 DEF BmpTyped, Streaming, Base, BmpFields
<1>23. v = [q EXCEPT !.out = o]
  BY <1>16, <1>19, <1>21
<1>24. BmpTyped(v) /\ v.row = q.row /\ v.h = q.h /\ v.out = o
  BY <1>22, <1>23 DEF BmpTyped, Streaming, Base, BmpFields
<1>25. Base \subseteq DOMAIN v
  BY <1>24 DEF BmpTyped, Streaming
<1> QED BY <1>15, <1>20, <1>22, <1>24, <1>25 DEF Sound

LEMMA ProcessBmpSound ==
    ASSUME NEW e, BmpReady(e), e.out = "more", e.locked = {}
    PROVE  /\ Sound(ProcessBmp(e))
           /\ ProcessBmp(e).out = "more" => BmpReady(ProcessBmp(e))
<1>1. CASE RunLengthEncoded(e)
  BY <1>1, BmpRleChunkSound DEF ProcessBmp, BmpReady, RunLengthEncoded
<1>2. CASE ~RunLengthEncoded(e)
  BY <1>2, BmpRawRowSound DEF ProcessBmp, BmpReady, RunLengthEncoded
<1> QED BY <1>1, <1>2

-----------------------------------------------------------------------------
(* CodecWBMP                                                               *)

WbmpFields == Base \cup {"scan", "accepted"}

WbmpReady(e) ==
    /\ DOMAIN e = WbmpFields
    /\ Streaming(e)
    /\ e.w \in Nat /\ e.h \in Nat
    /\ e.scan \in Nat /\ e.scan <= e.h

LEMMA ProcessWbmpSound ==
    ASSUME NEW e, WbmpReady(e), e.out = "more", e.locked = {}
    PROVE  /\ Sound(ProcessWbmp(e))
           /\ ProcessWbmp(e).out = "more" => WbmpReady(ProcessWbmp(e))
<1>1. Streaming(e) /\ Base \subseteq DOMAIN e /\ e.w \in Nat /\ e.h \in Nat /\ e.scan \in Nat
  BY DEF WbmpReady, Streaming
<1>2. CASE e.scan = e.h
  BY <1>1, <1>2, FinishingSound DEF ProcessWbmp
<1>3. CASE e.scan # e.h
  <2>1. e.scan + 1 <= e.h
    BY <1>1, <1>3 DEF WbmpReady
  <2>2. PICK b : b = LockRows(e, e.scan, 1)
    OBVIOUS
  <2>3. Locked(e, b, e.scan, 1) /\ Streaming(b) /\ b.out = "more"
    BY <1>1, <2>1, <2>2, LocksRows
  <2>4. PICK n \in Nat : n = (e.w + 7) \div 8
    BY <1>1
  <2>5. PICK r : r = ReadFull(b, n)
    OBVIOUS
  <2>6. Filled(b, r) /\ Streaming(r) /\ r.out \in {"more", "throw", "Failed"}
    BY <2>3, <2>4, <2>5, ReadFullMoves, MovedFills DEF Filled
  <2>7. CASE r.out # "more"
    <3>1. ProcessWbmp(e) = r
      BY <1>3, <2>2, <2>4, <2>5, <2>7 DEF ProcessWbmp
    <3>2. Sound(r)
      BY <2>3, <2>6, FilledSound DEF Outs
    <3> QED BY <2>7, <3>1, <3>2
  <2>8. CASE r.out = "more"
    <3>1. PICK s : s = Indexed(BitsToBytes(Upcoming(e, n), e.w))
      OBVIOUS
    <3>2. Len(s) = e.w
      <4>1. DOMAIN BitsToBytes(Upcoming(e, n), e.w) = 1 .. e.w
        BY DEF BitsToBytes
      <4> QED BY <1>1, <3>1, <4>1, IndexedLength
    <3>3. PICK t : t = WritePixels(r, 0, e.scan, s)
      OBVIOUS
    <3>4. r["locked"] = b["locked"] /\ r["w"] = b["w"] /\ b["w"] = e["w"] /\ b.locked = e.scan .. e.scan + 1 - 1
      <4>1. {"locked", "w"} \subseteq DOMAIN b \ (StreamFields \cup {"surf"})
        BY <2>3 DEF Streaming, Base, StreamFields
      <4>2. "w" \in DOMAIN e \ {"locked"}
        BY <1>1 DEF Base
      <4> QED BY <2>3, <2>6, <4>1, <4>2 DEF Filled, Locked
    <3>5. e.scan \in r.locked /\ ~(0 < 0) /\ ~(0 + Len(s) > r.w)
      BY <1>1, <3>2, <3>4
    <3>6. Filled(r, t) /\ t.out = "more"
      BY <2>6, <2>8, <3>3, <3>5, WriteDraws, DrawnFills DEF Streaming
    <3>7. Filled(b, t)
      BY <2>6, <3>6, FilledOn
    <3>8. DOMAIN t = WbmpFields /\ Streaming(t) /\ t["w"] = e["w"] /\ t["h"] = e["h"] /\ t["scan"] = e["scan"]
      <4>1. DOMAIN e = WbmpFields
        BY DEF WbmpReady
      <4>2. {"w", "h", "scan"} \subseteq DOMAIN e \ (StreamFields \cup {"surf", "locked"})
        BY <4>1 DEF WbmpFields, Base, StreamFields
      <4> QED BY <2>3, <3>7, <4>1, <4>2, LockedFilled
    <3>9. PICK v : v = [t EXCEPT !.scan = t.scan + 1]
      OBVIOUS
    <3>10. WbmpReady(v) /\ v.out = "more"
      BY <1>1, <2>1, <3>6, <3>8, <3>9 DEF WbmpReady, Streaming, Base, WbmpFields
    <3>11. ProcessWbmp(e) = v
      BY <1>3, <2>2, <2>4, <2>5, <2>8, <3>1, <3>3, <3>9 DEF ProcessWbmp
    <3> QED BY <3>10, <3>11 DEF Sound, Outs, WbmpReady, Streaming
  <2> QED BY <2>7, <2>8
<1> QED BY <1>2, <1>3

-----------------------------------------------------------------------------
(* CodecXYZ                                                                *)

XyzFields == Base \cup {"header", "paletteSet", "x", "y", "outData", "pending"}

XyzTyped(e) ==
    /\ DOMAIN e = XyzFields
    /\ Streaming(e)
    /\ e.w \in Nat /\ e.h \in Nat
    /\ e.x \in Nat /\ e.x < e.w /\ e.y \in Nat /\ e.y < e.h
    /\ e.outData \in Seq(Bytes)

Inflates(e) ==
    /\ e.pending \in Seq(Bytes)
    /\ \A i \in DOMAIN e.data : e.header.inflates[e.data[i]] \in Seq(Bytes)

XyzReady(e) == XyzTyped(e) /\ Inflates(e)

\* What is inflated are bytes.
Inflating(s, b, e) == s \o e.header.inflates[b]
InflatedTyped(s, e) == s \in Seq(Bytes)

Inflation == INSTANCE Loops WITH Step <- Inflating, Holds <- InflatedTyped

LEMMA InflatedIsTyped ==
    ASSUME NEW e, XyzReady(e), NEW n \in Nat
    PROVE  Inflated(e, Upcoming(e, n)) \in Seq(Bytes)
<1>1. PICK m \in Nat : m <= n /\ Len(Upcoming(e, n)) = m /\ DOMAIN Upcoming(e, n) = 1..m
  BY UpcomingLength DEF XyzReady, XyzTyped
<1>2. ASSUME NEW i \in 1..m PROVE e.header.inflates[Upcoming(e, n)[i]] \in Seq(Bytes)
  <2>1. PICK p : p = e.pos
    OBVIOUS
  <2>2. PICK k : k = AtMost(n, FileLeft(e))
    OBVIOUS
  <2>3. p \in Nat /\ k \in Nat /\ p + k <= Len(e.data)
    BY <2>1, <2>2 DEF XyzReady, XyzTyped, Streaming, AtMost, FileLeft
  <2>4. PICK s : s = SubSeq(e.data, p + 1, p + k)
    OBVIOUS
  <2>5. Upcoming(e, n) = s
    BY <2>1, <2>2, <2>4 DEF Upcoming
  <2>6. Len(s) = k
    BY <2>3, <2>4
  <2>7. i \in 1..k
    BY <1>1, <2>5, <2>6
  <2>8. s[i] = e.data[p + i]
    BY <2>3, <2>4, <2>7
  <2>9. p + i \in DOMAIN e.data
    BY <2>3, <2>7 DEF XyzReady, XyzTyped, Streaming
  <2> QED BY <2>5, <2>8, <2>9 DEF XyzReady, Inflates
<1>3. \A s : \A i \in 1..m : InflatedTyped(s, e) => InflatedTyped(Inflating(s, Upcoming(e, n)[i], e), e)
  BY <1>2 DEF InflatedTyped, Inflating
<1>4. InflatedTyped(e.pending, e)
  BY DEF InflatedTyped, XyzReady, Inflates
<1>5. InflatedTyped(Inflation!Result(e.pending, Upcoming(e, n), e), e)
  BY <1>1, <1>3, <1>4, AllNumbers, Inflation!LoopHolds DEF Inflation!Inductive
<1>6. Inflated(e, Upcoming(e, n)) = Inflation!Result(e.pending, Upcoming(e, n), e)
  BY DEF Inflated, Inflating, Inflation!Result, FoldLeft, MapThenFoldSet,
         Max, Inflation!Last
<1> QED BY <1>5, <1>6 DEF InflatedTyped

LEMMA FillBufferReady ==
    ASSUME NEW e, XyzReady(e)
    PROVE  /\ XyzReady(FillBuffer(e)) /\ FillBuffer(e).out = e.out /\ FillBuffer(e).locked = e.locked
           /\ FillBuffer(e).y = e.y /\ FillBuffer(e).h = e.h
<1>1. PICK s : s = Upcoming(e, InBufferSize)
  OBVIOUS
<1>2. InBufferSize \in Nat /\ OutBufferSize \in Nat
  BY PcxAssumption
<1>3. PICK b : b = Inflated(e, s)
  OBVIOUS
<1>4. b \in Seq(Bytes)
  BY <1>1, <1>2, <1>3, InflatedIsTyped
<1>5. PICK n : n = IF s = <<>> THEN AtMost(OutBufferSize, Len(b)) ELSE Len(b)
  OBVIOUS
<1>6. n \in 0 .. Len(b)
  BY <1>2, <1>4, <1>5 DEF AtMost
<1>7. PICK r : r = Read(e, InBufferSize)
  OBVIOUS
<1>8. Moved(e, r) /\ Streaming(r) /\ r.out = e.out
  BY <1>2, <1>7, ReadMoves DEF XyzReady, XyzTyped, Moved
<1>9. PICK o, q : o = r.outData \o SubSeq(b, 1, n) /\ q = SubSeq(b, n + 1, Len(b))
  OBVIOUS
<1>10. r["outData"] = e["outData"] /\ r["pending"] = e["pending"] /\ r["header"] = e["header"]
       /\ r["w"] = e["w"] /\ r["h"] = e["h"] /\ r["x"] = e["x"] /\ r["y"] = e["y"]
       /\ r["data"] = e["data"] /\ r["locked"] = e["locked"] /\ DOMAIN r = XyzFields
  BY <1>8 DEF Moved, XyzReady, XyzTyped, XyzFields, Base, StreamFields
<1>11. o \in Seq(Bytes) /\ q \in Seq(Bytes)
  <2>1. e.outData \in Seq(Bytes)
    BY DEF XyzReady, XyzTyped
  <2>2. SubSeq(b, 1, n) \in Seq(Bytes) /\ SubSeq(b, n + 1, Len(b)) \in Seq(Bytes)
    BY <1>4, <1>6
  <2> QED BY <1>9, <1>10, <2>1, <2>2
<1>12. PICK v : v = [r EXCEPT !.outData = o, !.pending = q]
  OBVIOUS
<1>13. /\ DOMAIN v = XyzFields /\ v.outData = o /\ v.pending = q
       /\ \A f \in XyzFields \ {"outData", "pending"} : v[f] = r[f]
  BY <1>10, <1>12 DEF XyzFields
<1>14. Streaming(v) /\ v.out = r.out
  BY <1>8, <1>13 DEF Streaming, XyzFields, Base
<1>15. v["header"] = e["header"] /\ v["w"] = e["w"] /\ v["h"] = e["h"] /\ v["x"] = e["x"] /\ v["y"] = e["y"]
       /\ v["data"] = e["data"] /\ v["locked"] = e["locked"]
  BY <1>10, <1>13 DEF XyzFields, Base
<1>16. XyzReady(v)
  BY <1>11, <1>13, <1>14, <1>15 DEF XyzReady, XyzTyped, Inflates
<1>17. FillBuffer(e) = v
  BY <1>1, <1>3, <1>5, <1>7, <1>9, <1>12 DEF FillBuffer
<1> QED BY <1>8, <1>14, <1>15, <1>16, <1>17

LEMMA WithPaletteReady ==
    ASSUME NEW e, XyzReady(e)
    PROVE  /\ XyzReady(WithPalette(e)) /\ WithPalette(e).out = e.out /\ WithPalette(e).locked = e.locked
           /\ WithPalette(e).y = e.y /\ WithPalette(e).h = e.h
<1>1. CASE ~e.paletteSet /\ Len(e.outData) >= XyzPaletteSize
  <2>1. PICK o : o = SubSeq(e.outData, XyzPaletteSize + 1, Len(e.outData))
    OBVIOUS
  <2>2. o \in Seq(Bytes)
    BY <1>1, <2>1, PcxAssumption DEF XyzReady, XyzTyped
  <2>3. PICK v : v = [e EXCEPT !.paletteSet = TRUE, !.outData = o]
    OBVIOUS
  <2>4. /\ DOMAIN v = XyzFields /\ v.outData = o
        /\ \A f \in XyzFields \ {"outData", "paletteSet"} : v[f] = e[f]
    BY <2>3 DEF XyzReady, XyzTyped, XyzFields
  <2>5. Streaming(v) /\ v.out = e.out /\ v.locked = e.locked
    BY <2>4 DEF XyzReady, XyzTyped, Streaming, XyzFields, Base
  <2>6. v["header"] = e["header"] /\ v["w"] = e["w"] /\ v["h"] = e["h"] /\ v["x"] = e["x"] /\ v["y"] = e["y"]
        /\ v["data"] = e["data"] /\ v["pending"] = e["pending"]
    BY <2>4 DEF XyzFields, Base
  <2>7. XyzReady(v)
    BY <2>2, <2>4, <2>5, <2>6 DEF XyzReady, XyzTyped, Inflates
  <2>8. WithPalette(e) = v
    BY <1>1, <2>1, <2>3 DEF WithPalette
  <2> QED BY <2>5, <2>6, <2>7, <2>8
<1>2. CASE ~(~e.paletteSet /\ Len(e.outData) >= XyzPaletteSize)
  BY <1>2 DEF WithPalette
<1> QED BY <1>1, <1>2

\* What holds between two pixels: the rows from the first on are locked.
XyzHolds(e, first) ==
    /\ DOMAIN e = XyzFields
    /\ e.out \in Outs
    /\ e.out = "more" =>
          /\ XyzReady(e)
          /\ e.locked = first .. first + (e.h - first) - 1
          /\ first <= e.y

XyzTurnOf(e, i, first) == IF e.out = "more" THEN XyzPixel(e) ELSE e

Xyz == INSTANCE Loops WITH Step <- XyzTurnOf, Holds <- XyzHolds

LEMMA XyzPixelHolds ==
    ASSUME NEW first \in Nat, NEW e, XyzHolds(e, first), e.out = "more"
    PROVE  XyzHolds(XyzPixel(e), first)
<1>1. /\ XyzReady(e) /\ Streaming(e) /\ Base \subseteq DOMAIN e /\ DOMAIN e = XyzFields
      /\ e.w \in Nat /\ e.h \in Nat /\ e.x \in Nat /\ e.x < e.w /\ e.y \in Nat /\ e.y < e.h
      /\ e.outData \in Seq(Bytes) /\ e.locked = first .. first + (e.h - first) - 1 /\ first <= e.y
  BY DEF XyzHolds, XyzReady, XyzTyped, Streaming
<1>2. CASE e.outData = <<>>
  <2>1. XyzPixel(e) = e
    BY <1>2 DEF XyzPixel
  <2> QED BY <2>1
<1>3. CASE e.outData # <<>>
  <2>1. PICK t : t = WritePixels(e, e.x, e.y, <<<<Head(e.outData)>>>>)
    OBVIOUS
  <2>2. Filled(e, t) /\ t.out = "more"
    <3>1. PICK s : s = <<<<Head(e.outData)>>>>
      OBVIOUS
    <3>2. Len(s) = 1
      BY <3>1
    <3>3. e.y \in e.locked /\ ~(e.x < 0) /\ ~(e.x + Len(s) > e.w)
      BY <1>1, <3>2
    <3> QED BY <1>1, <2>1, <3>1, <3>3, WriteDraws, DrawnFills
  <2>3. /\ DOMAIN t = XyzFields /\ Streaming(t)
        /\ \A f \in {"header", "w", "h", "x", "y", "data", "locked", "pending", "outData"} : t[f] = e[f]
    BY <1>1, <2>2 DEF Filled, XyzFields, Base, StreamFields
  <2>4. PICK o : o = Tail(t.outData)
    OBVIOUS
  <2>5. o \in Seq(Bytes)
    BY <1>1, <1>3, <2>3, <2>4, HeadTailProperties
  <2>6. PICK m : m = [t EXCEPT !.outData = o]
    OBVIOUS
  <2>7. /\ DOMAIN m = XyzFields /\ m.outData = o /\ m.out = "more" /\ Streaming(m)
        /\ \A f \in {"header", "w", "h", "x", "y", "data", "locked", "pending"} : m[f] = e[f]
    <3>1. \A f \in XyzFields \ {"outData"} : m[f] = t[f]
      BY <2>3, <2>6
    <3>2. DOMAIN m = XyzFields /\ m.outData = o
      BY <2>3, <2>6 DEF XyzFields
    <3>3. Streaming(m) /\ m.out = "more"
      BY <2>2, <2>3, <3>1, <3>2 DEF Streaming, XyzFields, Base
    <3>4. \A f \in {"header", "w", "h", "x", "y", "data", "locked", "pending"} : m[f] = e[f]
      BY <2>3, <3>1 DEF XyzFields, Base
    <3> QED BY <3>2, <3>3, <3>4
  <2>8. PICK x, y : x = (IF e.x + 1 = e.w THEN 0 ELSE m.x + 1) /\ y = (IF e.x + 1 = e.w THEN m.y + 1 ELSE m.y)
    OBVIOUS
  <2>9. m.x = e.x /\ m.y = e.y /\ m.h = e.h /\ m.w = e.w /\ m.locked = e.locked /\ m.header = e.header
        /\ m.data = e.data /\ m.pending = e.pending
    BY <2>7
  <2>10. x \in Nat /\ x < e.w /\ y \in Nat /\ first <= y /\ y <= e.h
    BY <1>1, <2>8, <2>9
  <2>11. PICK n : n = [m EXCEPT !.x = x, !.y = y]
    OBVIOUS
  <2>12. /\ DOMAIN n = XyzFields /\ n.x = x /\ n.y = y
         /\ \A f \in XyzFields \ {"x", "y"} : n[f] = m[f]
    BY <2>7, <2>11 DEF XyzFields
  <2>13. Streaming(n) /\ n.out = "more" /\ n.outData = o
    BY <2>7, <2>12 DEF Streaming, XyzFields, Base
  <2>14. n.h = e.h /\ n.w = e.w /\ n.locked = e.locked /\ n.header = e.header /\ n.data = e.data /\ n.pending = e.pending
    BY <2>9, <2>12 DEF XyzFields, Base
  <2>15. XyzPixel(e) = IF n.y = e.h THEN Finishing(n) ELSE n
    BY <1>3, <2>1, <2>4, <2>6, <2>8, <2>11 DEF XyzPixel
  <2>16. CASE y = e.h
    <3>1. XyzPixel(e) = Finishing(n)
      BY <2>12, <2>15, <2>16
    <3>2. DOMAIN Finishing(n) = XyzFields /\ Finishing(n).out = "Finished"
      BY <2>12 DEF Finishing, XyzFields, Base
    <3> QED BY <3>1, <3>2 DEF XyzHolds, Outs
  <2>17. CASE y # e.h
    <3>1. XyzPixel(e) = n
      BY <2>12, <2>15, <2>17
    <3>2. XyzTyped(n)
      BY <1>1, <2>5, <2>10, <2>12, <2>13, <2>14, <2>17 DEF XyzTyped
    <3>3. Inflates(n)
      BY <1>1, <2>14 DEF XyzReady, Inflates
    <3> QED BY <1>1, <2>10, <2>12, <2>13, <2>14, <3>1, <3>2, <3>3 DEF XyzHolds, XyzReady, Outs
  <2> QED BY <2>16, <2>17
<1> QED BY <1>2, <1>3

LEMMA XyzPixelsHold ==
    ASSUME NEW first \in Nat, NEW e, XyzHolds(e, first), NEW n \in Nat
    PROVE  XyzHolds(XyzPixels(e, n), first)
<1>1. \A v : \A i \in 1..n : XyzHolds(v, first) => XyzHolds(XyzTurnOf(v, i, first), first)
  BY XyzPixelHolds DEF XyzTurnOf
<1>2. XyzHolds(Xyz!Result(e, Xyz!Counted(n), first), first)
  <2>1. n \in Int
    OBVIOUS
  <2> QED BY <1>1, <2>1, AllNumbers, Xyz!TurnsHold DEF Xyz!Inductive
<1>3. XyzPixels(e, n) = Xyz!Result(e, Xyz!Counted(n), first)
  BY DEF XyzPixels, Repeated, XyzTurnOf, Xyz!Result, Xyz!Counted, FoldLeft, MapThenFoldSet,
         Max, Xyz!Last
<1> QED BY <1>2, <1>3

LEMMA ProcessXyzSound ==
    ASSUME NEW e, XyzReady(e), e.out = "more", e.locked = {}
    PROVE  /\ Sound(ProcessXyz(e))
           /\ ProcessXyz(e).out = "more" => XyzReady(ProcessXyz(e))
<1>1. PICK f : f = FillBuffer(e)
  OBVIOUS
<1>2. XyzReady(f) /\ f.out = "more" /\ f.locked = {} /\ f.y = e.y /\ f.h = e.h
  BY <1>1, FillBufferReady
<1>3. PICK r : r = WithPalette(f)
  OBVIOUS
<1>4. XyzReady(r) /\ r.out = "more" /\ r.locked = {} /\ r.y = e.y /\ r.h = e.h
  BY <1>2, <1>3, WithPaletteReady
<1>5. PICK b : b = LockRows(r, r.y, r.h - r.y)
  OBVIOUS
<1>6. r.y \in Nat /\ r.h \in Nat /\ r.y < r.h /\ r.outData \in Seq(Bytes) /\ Streaming(r) /\ DOMAIN r = XyzFields
  BY <1>4 DEF XyzReady, XyzTyped
<1>7. Locked(r, b, r.y, r.h - r.y) /\ Streaming(b) /\ b.out = "more"
  <2>1. PICK n \in Nat : n = r.h - r.y
    BY <1>6
  <2>2. PICK y \in Nat : y = r.y
    BY <1>6
  <2>3. y + n <= r.h /\ r.h \in Int
    BY <1>6, <2>1, <2>2
  <2>4. /\ Locked(r, LockRows(r, y, n), y, n)
        /\ Streaming(LockRows(r, y, n))
        /\ LockRows(r, y, n).out = r.out
    BY <1>4, <1>6, <2>3, LocksRows
  <2> QED BY <1>4, <1>5, <2>1, <2>2, <2>4
<1>8. XyzHolds(b, r.y)
  <2>1. DOMAIN b = XyzFields /\ \A x \in XyzFields \ {"locked"} : b[x] = r[x]
    BY <1>6, <1>7 DEF Locked
  <2>2. /\ b["w"] = r["w"] /\ b["h"] = r["h"] /\ b["x"] = r["x"] /\ b["y"] = r["y"] /\ b["data"] = r["data"]
        /\ b["outData"] = r["outData"] /\ b["pending"] = r["pending"] /\ b["header"] = r["header"]
    BY <2>1 DEF XyzFields, Base
  <2>3. XyzReady(b)
    BY <1>4, <1>7, <2>1, <2>2 DEF XyzReady, XyzTyped, Inflates
  <2> QED BY <1>6, <1>7, <2>1, <2>2, <2>3 DEF XyzHolds, Outs, Locked
<1>9. PICK u : u = XyzPixels(b, Len(r.outData))
  OBVIOUS
<1>10. XyzHolds(u, r.y)
  <2>1. Len(r.outData) \in Nat
    BY <1>6
  <2> QED BY <1>6, <1>8, <1>9, <2>1, XyzPixelsHold
<1>11. CASE f.outData = <<>>
  BY <1>1, <1>2, <1>11, FailingSound DEF ProcessXyz, XyzReady, XyzTyped, Streaming
<1>12. CASE f.outData # <<>> /\ r.paletteSet
  <2>1. ProcessXyz(e) = u
    BY <1>1, <1>3, <1>4, <1>5, <1>9, <1>12 DEF ProcessXyz
  <2> QED BY <1>10, <2>1 DEF XyzHolds, Sound, XyzFields
<1>13. CASE f.outData # <<>> /\ ~r.paletteSet
  <2>1. ProcessXyz(e) = r
    BY <1>1, <1>3, <1>13 DEF ProcessXyz
  <2> QED BY <1>4, <1>6, <2>1 DEF Sound, Outs, XyzFields
<1> QED BY <1>11, <1>12, <1>13

-----------------------------------------------------------------------------
(* CodecPNG                                                                *)

PngFields == Base \cup {"header", "scan", "pass"}

PngReady(e) ==
    /\ DOMAIN e = PngFields
    /\ Streaming(e)
    /\ e.w \in Nat /\ e.h \in Nat /\ e.header.width = e.w
    /\ e.header.pixelSize \in Nat /\ e.header.passes \in {1, 7}
    /\ e.scan \in Nat /\ e.scan < e.h
    /\ e.pass \in Nat /\ e.pass < e.header.passes

\* The columns of a pass are columns of the picture.
LEMMA ColumnsFit ==
    ASSUME NEW h, h.width \in Nat, h.passes \in {1, 7}, NEW pass \in Nat, pass < h.passes, NEW y \in Nat
    PROVE  \E n \in Nat :
              /\ DOMAIN PassColumns(h, pass, y) = 1..n
              /\ Len(PassColumns(h, pass, y)) = n
              /\ \A i \in 1..n : PassColumns(h, pass, y)[i] \in 0 .. h.width - 1
<1>1. CASE h.passes = 1
  <2>1. PICK w \in Nat : w = h.width
    OBVIOUS
  <2>2. PassColumns(h, pass, y) = [i \in 1..w |-> i - 1]
    BY <1>1, <2>1 DEF PassColumns
  <2>3. DOMAIN [i \in 1..w |-> i - 1] = 1..w /\ Len([i \in 1..w |-> i - 1]) = w
        /\ \A i \in 1..w : [j \in 1..w |-> j - 1][i] \in 0 .. w - 1
    OBVIOUS
  <2> QED BY <2>1, <2>2, <2>3
<1>2. CASE h.passes = 7
  <2>1. pass \in {0, 1, 2, 3, 4, 5, 6}
    BY <1>2
  <2>2. PICK first, step : /\ first = <<0, 4, 0, 2, 0, 1, 0>>[pass + 1]
                           /\ step = <<8, 8, 4, 4, 2, 2, 1>>[pass + 1]
    OBVIOUS
  <2>3. <<first, step>> \in {<<0, 8>>, <<4, 8>>, <<0, 4>>, <<2, 4>>, <<0, 2>>, <<1, 2>>, <<0, 1>>}
    BY <2>1, <2>2
  <2>4. PICK n : n = (h.width - first + step - 1) \div step
    OBVIOUS
  <2>5. n \in Nat /\ \A i \in 1..n : first + step * (i - 1) \in 0 .. h.width - 1
    BY <2>3, <2>4
  <2>6. \/ PassColumns(h, pass, y) = <<>>
        \/ PassColumns(h, pass, y) = [i \in 1..n |-> first + step * (i - 1)]
    BY <1>2, <2>2, <2>4 DEF PassColumns
  <2>7. CASE PassColumns(h, pass, y) = <<>>
    BY <2>7
  <2>8. CASE PassColumns(h, pass, y) = [i \in 1..n |-> first + step * (i - 1)]
    <3>1. PICK s : s = [i \in 1..n |-> first + step * (i - 1)]
      OBVIOUS
    <3>2. DOMAIN s = 1..n /\ Len(s) = n /\ \A i \in 1..n : s[i] = first + step * (i - 1)
      BY <2>5, <3>1
    <3> QED BY <2>5, <2>8, <3>1, <3>2
  <2> QED BY <2>6, <2>7, <2>8
<1> QED BY <1>1, <1>2

\* The pixels of a row: p has what the row is read from, and its number.
PixelWritten(e, i, p) ==
    WritePixels(e, PassColumns(p[1].header, p[1].pass, p[2])[i], p[2],
                <<[b \in 1..p[1].header.pixelSize |-> Byte(p[1], p[1].header.pixelSize * (i - 1) + b)]>>)
RowFilled(e, p) == Filled(p[1], e)

PngRow == INSTANCE Loops WITH Step <- PixelWritten, Holds <- RowFilled

\* Rows are locked, of which y is one, and a row of them is read.
LEMMA PngRowFilled ==
    ASSUME NEW e, PngReady(e), NEW y \in e.locked, y \in Nat
    PROVE  Filled(e, png_read_row(e, y))
<1>1. /\ Streaming(e) /\ e.w \in Nat /\ e.header.width = e.w /\ e.header.pixelSize \in Nat
      /\ e.header.passes \in {1, 7} /\ e.pass \in Nat /\ e.pass < e.header.passes
  BY DEF PngReady
<1>2. PICK xs : xs = PassColumns(e.header, e.pass, y)
  OBVIOUS
<1>3. PICK n \in Nat : DOMAIN xs = 1..n /\ Len(xs) = n /\ \A i \in 1..n : xs[i] \in 0 .. e.w - 1
  BY <1>1, <1>2, ColumnsFit
<1>4. PICK m : m = e.header.pixelSize * n
  OBVIOUS
<1>5. m \in Nat
  BY <1>1, <1>4
<1>6. PICK r : r = Read(e, m)
  OBVIOUS
<1>7. Filled(e, r) /\ Streaming(r)
  BY <1>1, <1>5, <1>6, ReadMoves, MovedFills DEF Moved
<1>8. CASE FileLeft(e) < m
  <2>1. png_read_row(e, y) = Failing(r)
    BY <1>2, <1>3, <1>4, <1>6, <1>8 DEF png_read_row
  <2>2. Filled(r, Failing(r))
    BY <1>7 DEF Filled, Failing, Streaming, Base, StreamFields
  <2> QED BY <1>7, <2>1, <2>2, FilledOn
<1>9. CASE ~(FileLeft(e) < m)
  <2>1. PICK k : k = [i \in DOMAIN xs |-> i]
    OBVIOUS
  <2>2. DOMAIN k = 1..n /\ \A i \in 1..n : k[i] = i
    BY <1>3, <2>1
  <2>3. ASSUME NEW u, NEW i \in 1..n, Filled(e, u)
        PROVE  Filled(e, PixelWritten(u, i, <<e, y>>))
    <3>1. PICK s : s = <<[b \in 1..e.header.pixelSize |-> Byte(e, e.header.pixelSize * (i - 1) + b)]>>
      OBVIOUS
    <3>2. Len(s) = 1
      BY <3>1
    <3>3. PixelWritten(u, i, <<e, y>>) = WritePixels(u, xs[i], y, s)
      BY <1>2, <3>1 DEF PixelWritten
    <3>4. {"locked", "w"} \subseteq DOMAIN e \ (StreamFields \cup {"surf"}) /\ Streaming(u) /\ Base \subseteq DOMAIN u
      BY <2>3, <1>1 DEF Filled, Streaming, Base, StreamFields
    <3>5. u["locked"] = e["locked"] /\ u["w"] = e["w"]
      BY <2>3, <3>4 DEF Filled
    <3>6. y \in u.locked /\ ~(xs[i] < 0) /\ ~(xs[i] + Len(s) > u.w)
      BY <1>1, <1>3, <3>2, <3>5
    <3>7. Filled(u, WritePixels(u, xs[i], y, s))
      BY <3>4, <3>6, WriteDraws, DrawnFills
    <3> QED BY <2>3, <3>3, <3>7, FilledOn
  <2>4. \A u : \A i \in 1..n : RowFilled(u, <<e, y>>) => RowFilled(PixelWritten(u, k[i], <<e, y>>), <<e, y>>)
    BY <2>2, <2>3 DEF RowFilled
  <2>5. RowFilled(r, <<e, y>>)
    BY <1>7 DEF RowFilled
  <2>6. RowFilled(PngRow!Result(r, k, <<e, y>>), <<e, y>>)
    BY <2>2, <2>4, <2>5, AllNumbers, PngRow!LoopHolds DEF PngRow!Inductive
  <2>7. PassPixels(e, y) = PngRow!Result(Read(e, e.header.pixelSize * Len(PassColumns(e.header, e.pass, y))),
                                         [i \in DOMAIN PassColumns(e.header, e.pass, y) |-> i], <<e, y>>)
    <3>1. PICK p : p = <<e, y>>
      OBVIOUS
    <3>2. p[1] = e /\ p[2] = y
      BY <3>1
    <3> QED BY <3>1, <3>2 DEF PassPixels, PixelWritten, PngRow!Result, FoldLeft, MapThenFoldSet,
                Max, PngRow!Last
  <2>8. PassPixels(e, y) = PngRow!Result(r, k, <<e, y>>)
    BY <1>2, <1>3, <1>4, <1>6, <2>1, <2>7
  <2>9. png_read_row(e, y) = PassPixels(e, y)
    BY <1>2, <1>3, <1>4, <1>9 DEF png_read_row
  <2> QED BY <2>6, <2>8, <2>9 DEF RowFilled
<1> QED BY <1>8, <1>9

\* The rows of a chunk: p has the decoder before them, and with them locked.
PngRowTurn(e, i, p) == IF e.out = "more" THEN png_read_row(e, p[1].scan + i - 1) ELSE e
RowsFilled(e, p) == Filled(p[2], e)

PngRows == INSTANCE Loops WITH Step <- PngRowTurn, Holds <- RowsFilled

LEMMA PngRowsFilled ==
    ASSUME NEW e, PngReady(e), NEW n \in Nat, e.scan + n <= e.h, NEW b, b = LockRows(e, e.scan, n),
           Locked(e, b, e.scan, n), Streaming(b), b.out = "more"
    PROVE  Filled(b, png_read_rows(e, n))
<1>1. e.scan \in Nat /\ PngReady(b) /\ b.locked = e.scan .. e.scan + n - 1
  <2>1. DOMAIN e = PngFields
    BY DEF PngReady
  <2>2. /\ b["w"] = e["w"] /\ b["h"] = e["h"] /\ b["header"] = e["header"] /\ b["scan"] = e["scan"]
        /\ b["pass"] = e["pass"] /\ DOMAIN b = PngFields
    BY <2>1 DEF Locked, PngFields, Base
  <2> QED BY <2>2 DEF PngReady, Locked
<1>2. ASSUME NEW u, NEW i \in 1..n, Filled(b, u)
      PROVE  Filled(b, PngRowTurn(u, i, <<e, b>>))
  <2>1. DOMAIN b = PngFields
    BY <1>1 DEF PngReady
  <2>2. /\ u["w"] = b["w"] /\ u["h"] = b["h"] /\ u["header"] = b["header"] /\ u["scan"] = b["scan"]
        /\ u["pass"] = b["pass"] /\ u["locked"] = b["locked"] /\ DOMAIN u = PngFields /\ Streaming(u)
    BY <1>2, <2>1 DEF Filled, PngFields, Base, StreamFields
  <2>3. PngReady(u)
    BY <1>1, <2>2 DEF PngReady
  <2>4. PICK y : y = e.scan + i - 1
    OBVIOUS
  <2>5. y \in u.locked /\ y \in Nat
    BY <1>1, <2>2, <2>4
  <2>6. Filled(u, png_read_row(u, y))
    BY <2>3, <2>5, PngRowFilled
  <2>7. PngRowTurn(u, i, <<e, b>>) = IF u.out = "more" THEN png_read_row(u, y) ELSE u
    BY <2>4 DEF PngRowTurn
  <2> QED BY <1>2, <2>6, <2>7, FilledOn
<1>3. \A u : \A i \in 1..n : RowsFilled(u, <<e, b>>) => RowsFilled(PngRowTurn(u, i, <<e, b>>), <<e, b>>)
  BY <1>2 DEF RowsFilled
<1>4. RowsFilled(b, <<e, b>>)
  BY NotMoved, MovedFills DEF RowsFilled
<1>5. RowsFilled(PngRows!Result(b, PngRows!Counted(n), <<e, b>>), <<e, b>>)
  <2>1. n \in Int
    OBVIOUS
  <2> QED BY <1>3, <1>4, <2>1, AllNumbers, PngRows!TurnsHold DEF PngRows!Inductive
<1>6. png_read_rows(e, n) = PngRows!Result(LockRows(e, e.scan, n), PngRows!Counted(n), <<e, LockRows(e, e.scan, n)>>)
  BY DEF png_read_rows, PngRowTurn, PngRows!Result, PngRows!Counted, FoldLeft, MapThenFoldSet,
         Max, PngRows!Last
<1>7. png_read_rows(e, n) = PngRows!Result(b, PngRows!Counted(n), <<e, b>>)
  BY <1>6
<1> QED BY <1>5, <1>7 DEF RowsFilled

LEMMA ProcessPngSound ==
    ASSUME NEW e, PngReady(e), e.out = "more", e.locked = {}
    PROVE  /\ Sound(ProcessPng(e))
           /\ ProcessPng(e).out = "more" => PngReady(ProcessPng(e))
<1>1. /\ Streaming(e) /\ e.h \in Nat /\ e.scan \in Nat /\ e.scan < e.h /\ DOMAIN e = PngFields
      /\ e.pass \in Nat /\ e.pass < e.header.passes /\ e.header.passes \in {1, 7}
  BY DEF PngReady
<1>2. PICK n : n = AtMost(PngChunkRows, e.h - e.scan)
  OBVIOUS
<1>3. n \in Nat /\ n > 0 /\ e.scan + n <= e.h
  BY <1>1, <1>2, LibraryAssumption DEF AtMost
<1>4. PICK b : b = LockRows(e, e.scan, n)
  OBVIOUS
<1>5. Locked(e, b, e.scan, n) /\ Streaming(b) /\ b.out = "more"
  BY <1>1, <1>3, <1>4, LocksRows
<1>6. PICK r : r = png_read_rows(e, n)
  OBVIOUS
<1>7. Filled(b, r)
  BY <1>3, <1>4, <1>5, <1>6, PngRowsFilled
<1>8. /\ r["w"] = e["w"] /\ r["h"] = e["h"] /\ r["header"] = e["header"] /\ r["scan"] = e["scan"]
      /\ r["pass"] = e["pass"] /\ DOMAIN r = PngFields /\ Streaming(r)
  <2>1. {"w", "h", "header", "scan", "pass"} \subseteq DOMAIN e \ (StreamFields \cup {"surf", "locked"})
    BY <1>1 DEF PngFields, Base, StreamFields
  <2> QED BY <1>1, <1>5, <1>7, <2>1, LockedFilled
<1>9. CASE r.out # "more"
  <2>1. ProcessPng(e) = r
    BY <1>2, <1>6, <1>9 DEF ProcessPng
  <2> QED BY <1>5, <1>7, <1>9, <2>1, FilledSound DEF Outs
<1>10. CASE r.out = "more"
  <2>1. PICK scan, pass : /\ scan = (IF r.scan + n = e.h THEN 0 ELSE r.scan + n)
                          /\ pass = (IF e.scan + n = e.h THEN r.pass + 1 ELSE r.pass)
    OBVIOUS
  <2>2. scan \in Nat /\ scan < e.h /\ pass \in Nat /\ (pass # e.header.passes => pass < e.header.passes)
    BY <1>1, <1>3, <1>8, <2>1
  <2>3. PICK v : v = [r EXCEPT !.scan = scan, !.pass = pass]
    OBVIOUS
  <2>4. /\ DOMAIN v = PngFields /\ v.scan = scan /\ v.pass = pass
        /\ \A x \in PngFields \ {"scan", "pass"} : v[x] = r[x]
    BY <1>8, <2>3 DEF PngFields
  <2>5. Streaming(v) /\ v["w"] = e["w"] /\ v["h"] = e["h"] /\ v["header"] = e["header"] /\ v["out"] = "more"
    BY <1>8, <1>10, <2>4 DEF Streaming, PngFields, Base
  <2>6. ProcessPng(e) = IF v.pass = e.header.passes THEN Finishing(v) ELSE v
    BY <1>2, <1>6, <1>10, <2>1, <2>3 DEF ProcessPng
  <2>7. pass # e.header.passes => PngReady(v)
    BY <2>2, <2>4, <2>5, <1>8 DEF PngReady
  <2>8. Base \subseteq DOMAIN v
    BY <2>5 DEF Streaming
  <2>9. CASE pass = e.header.passes
    BY <2>4, <2>6, <2>8, <2>9, FinishingSound
  <2>10. CASE pass # e.header.passes
    BY <2>4, <2>5, <2>6, <2>7, <2>8, <2>10 DEF Sound, Outs
  <2> QED BY <2>9, <2>10
<1> QED BY <1>9, <1>10

-----------------------------------------------------------------------------
(* CodecPSD                                                                *)

PsdFields == Base \cup {"header", "scanline", "channel", "plane", "stream", "lengths"}

PsdReady(e) ==
    /\ DOMAIN e = PsdFields
    /\ Streaming(e)
    /\ e.w \in Nat /\ e.h \in Nat
    /\ e.header.width = e.w /\ e.header.bits \in Nat
    /\ e.scanline \in Nat /\ e.scanline < e.h
    /\ e.stream \in Nat \ {0} /\ e.lengths \in Seq(Nat)

\* The buffer of a row, while a call of LoadImageData lasts.
OfWidth(plane, w) == DOMAIN plane = 1..w /\ Len(plane) = w

\* u is e with some of a row read, unpacked and shown.
PsdLoaded(e, u) ==
    /\ PsdReady(u)
    /\ OfWidth(u.plane, u.w)
    /\ \A x \in {"w", "h", "header", "scanline", "lengths", "locked"} : u[x] = e[x]
    /\ u.out \in {"more", "throw", "Failed"}

LEMMA PsdMoved ==
    ASSUME NEW e, PsdLoaded(e, e), NEW u, Filled(e, u)
    PROVE  PsdLoaded(e, u) /\ u.plane = e.plane /\ u.stream = e.stream
<1>1. DOMAIN e = PsdFields
  BY DEF PsdLoaded, PsdReady
<1>2. \A x \in {"w", "h", "header", "scanline", "lengths", "locked", "plane", "stream"} : u[x] = e[x]
  BY <1>1 DEF Filled, PsdFields, Base, StreamFields
<1>3. /\ u.w = e.w /\ u.h = e.h /\ u.header = e.header /\ u.scanline = e.scanline /\ u.lengths = e.lengths
      /\ u.plane = e.plane /\ u.stream = e.stream
  BY <1>2
<1>4. PsdReady(u) /\ OfWidth(u.plane, u.w)
  BY <1>1, <1>3 DEF PsdLoaded, PsdReady, Filled
<1>5. u.out \in {"more", "throw", "Failed"}
  BY DEF PsdLoaded, Filled
<1> QED BY <1>2, <1>3, <1>4, <1>5 DEF PsdLoaded

\* The buffer of the row has other bytes, and the next stream is begun.
LEMMA PsdPlaneSet ==
    ASSUME NEW e, NEW u, PsdLoaded(e, u), NEW plane, OfWidth(plane, u.w), NEW s \in Nat \ {0}
    PROVE  PsdLoaded(e, [u EXCEPT !.plane = plane, !.stream = s])
<1>1. PICK v : v = [u EXCEPT !.plane = plane, !.stream = s]
  OBVIOUS
<1>2. DOMAIN u = PsdFields
  BY DEF PsdLoaded, PsdReady
<1>3. DOMAIN v = PsdFields /\ v.plane = plane /\ v.stream = s /\ \A x \in PsdFields \ {"plane", "stream"} : v[x] = u[x]
  BY <1>1, <1>2 DEF PsdFields
<1>4. Streaming(v)
  BY <1>3 DEF PsdLoaded, PsdReady, Streaming, PsdFields, Base
<1>5. \A x \in {"w", "h", "header", "scanline", "lengths", "locked", "out"} : v[x] = u[x]
  BY <1>3 DEF PsdFields, Base
<1>6. /\ v.w = u.w /\ v.h = u.h /\ v.header = u.header /\ v.scanline = u.scanline /\ v.lengths = u.lengths
      /\ v.out = u.out
  BY <1>5
<1>7. PsdReady(v) /\ OfWidth(v.plane, v.w)
  BY <1>3, <1>4, <1>6 DEF PsdLoaded, PsdReady
<1> QED BY <1>1, <1>5, <1>6, <1>7 DEF PsdLoaded

\* What is unpacked goes into a buffer of the same width.
UnpackedFields == {"plane", "bytes", "at", "done", "total", "failed"}
PlaneKept(u, w) == DOMAIN u = UnpackedFields /\ OfWidth(u.plane, w)
Unpacking(u, i, w) == UnpackTurn(u)

Unpack == INSTANCE Loops WITH Step <- Unpacking, Holds <- PlaneKept

LEMMA CopiedKeeps ==
    ASSUME NEW w \in Nat, NEW u, PlaneKept(u, w), NEW n, NEW bytes
    PROVE  PlaneKept(Copied(u, n, bytes), w)
<1>1. PICK p : p = [i \in DOMAIN u.plane |-> IF i - u.done \in 1..n THEN bytes[i - u.done] ELSE u.plane[i]]
  OBVIOUS
<1>2. OfWidth(p, w)
  BY <1>1 DEF PlaneKept, OfWidth
<1>3. PICK v : v = [u EXCEPT !.plane = p, !.done = u.done + n]
  OBVIOUS
<1>4. Copied(u, n, bytes) = v
  BY <1>1, <1>3 DEF Copied
<1>5. DOMAIN v = UnpackedFields /\ v.plane = p
  BY <1>3 DEF PlaneKept, UnpackedFields
<1> QED BY <1>2, <1>4, <1>5 DEF PlaneKept

LEMMA OtherKept ==
    ASSUME NEW w \in Nat, NEW u, PlaneKept(u, w), NEW a
    PROVE  PlaneKept([u EXCEPT !.at = a], w) /\ PlaneKept([u EXCEPT !.failed = a], w)
BY DEF PlaneKept, UnpackedFields

LEMMA UnpackTurnKeeps ==
    ASSUME NEW w \in Nat, NEW u, PlaneKept(u, w)
    PROVE  PlaneKept(UnpackTurn(u), w)
<1> DEFINE c == u.bytes[u.at + 1]
           n == IF c < 128 THEN c + 1 ELSE 257 - c
           f == [u EXCEPT !.failed = TRUE]
           a == [u EXCEPT !.at = u.at + 1]
           l == Copied(u, n, SubSeq(u.bytes, u.at + 2, u.at + 1 + n))
           r == Copied(u, n, [i \in 1..n |-> u.bytes[u.at + 2]])
           m == [l EXCEPT !.at = l.at + 1 + n]
           q == [r EXCEPT !.at = r.at + 2]
<1>5. UnpackTurn(u) =
        IF u.done >= u.total \/ u.failed THEN u
        ELSE IF u.at + 1 >= Len(u.bytes) THEN f
        ELSE IF c = 128 THEN a
        ELSE IF u.done + n > u.total \/ (c < 128 /\ u.at + 1 + n > Len(u.bytes)) THEN f
        ELSE IF c < 128 THEN m
        ELSE q
  BY DEF UnpackTurn
<1> HIDE DEF c, n
<1>6. PlaneKept(f, w) /\ PlaneKept(a, w)
  BY OtherKept
<1>8. PlaneKept(l, w) /\ PlaneKept(r, w)
  BY CopiedKeeps
<1> HIDE DEF l, r
<1>7. PlaneKept(m, w) /\ PlaneKept(q, w)
  BY <1>8, OtherKept
<1> HIDE DEF f, a, m, q
<1> QED BY <1>5, <1>6, <1>7

LEMMA UnpackedKeeps ==
    ASSUME NEW w \in Nat, NEW plane, OfWidth(plane, w), NEW bytes, Len(bytes) \in Nat, NEW total
    PROVE  OfWidth(Unpacked(plane, bytes, total).plane, w)
<1>1. PICK u : u = [plane |-> plane, bytes |-> bytes, at |-> 0, done |-> 0, total |-> total, failed |-> FALSE]
  OBVIOUS
<1>2. PlaneKept(u, w)
  BY <1>1 DEF PlaneKept, UnpackedFields
<1>3. PICK n \in Nat : n = Len(bytes) + 1
  OBVIOUS
<1>4. \A v : \A i \in 1..n : PlaneKept(v, w) => PlaneKept(Unpacking(v, i, w), w)
  BY UnpackTurnKeeps DEF Unpacking
<1>5. PlaneKept(Unpack!Result(u, Unpack!Counted(n), w), w)
  <2>1. n \in Int
    OBVIOUS
  <2> QED BY <1>2, <1>4, <2>1, AllNumbers, Unpack!TurnsHold DEF Unpack!Inductive
<1>6. Unpacked(plane, bytes, total) =
        Unpack!Result([plane |-> plane, bytes |-> bytes, at |-> 0, done |-> 0, total |-> total, failed |-> FALSE],
                      Unpack!Counted(Len(bytes) + 1), w)
  BY DEF Unpacked, Unpacking, Unpack!Result, Unpack!Counted, FoldLeft, MapThenFoldSet,
         Max, Unpack!Last
<1> QED BY <1>1, <1>3, <1>5, <1>6 DEF PlaneKept

LEMMA RleStreamLoaded ==
    ASSUME NEW e, PsdLoaded(e, e)
    PROVE  PsdLoaded(e, loadRleStream(e))
<1>1. /\ Streaming(e) /\ e.w \in Nat /\ OfWidth(e.plane, e.w) /\ e.stream \in Nat \ {0} /\ e.lengths \in Seq(Nat)
      /\ DOMAIN e = PsdFields
  BY DEF PsdLoaded, PsdReady
<1>2. CASE e.stream > Len(e.lengths)
  <2>1. loadRleStream(e) = e
    BY <1>2 DEF loadRleStream
  <2> QED BY <2>1
<1>3. CASE ~(e.stream > Len(e.lengths))
  <2>1. PICK n \in Nat : n = e.lengths[e.stream]
    BY <1>1, <1>3
  <2>2. PICK s : s = Upcoming(e, n)
    OBVIOUS
  <2>3. Len(s) \in Nat
    BY <1>1, <2>1, <2>2, UpcomingLength
  <2>4. PICK u : u = Unpacked(e.plane, s, BytesPerScanline(e.header))
    OBVIOUS
  <2>5. OfWidth(u.plane, e.w)
    BY <1>1, <2>3, <2>4, UnpackedKeeps
  <2>6. PICK r : r = Read(e, n)
    OBVIOUS
  <2>7. PsdLoaded(e, r) /\ r.plane = e.plane /\ r.stream = e.stream
    BY <1>1, <2>1, <2>6, ReadMoves, MovedFills, PsdMoved
  <2>8. OfWidth(u.plane, r.w)
    BY <2>5, <2>7 DEF PsdLoaded
  <2>9. PsdLoaded(e, [r EXCEPT !.plane = u.plane, !.stream = r.stream])
        /\ PsdLoaded(e, [r EXCEPT !.plane = u.plane, !.stream = r.stream + 1])
    <3>1. r.stream \in Nat \ {0} /\ r.stream + 1 \in Nat \ {0}
      BY <1>1, <2>7
    <3> QED BY <2>7, <2>8, <3>1, PsdPlaneSet
  <2>10. [r EXCEPT !.plane = u.plane, !.stream = r.stream] = [r EXCEPT !.plane = u.plane]
    OBVIOUS
  <2>11. loadRleStream(e) = IF FileLeft(e) < n THEN r
                            ELSE IF u.failed THEN [r EXCEPT !.plane = u.plane]
                            ELSE [r EXCEPT !.plane = u.plane, !.stream = r.stream + 1]
    BY <1>3, <2>1, <2>2, <2>4, <2>6 DEF loadRleStream
  <2>12. CASE FileLeft(e) < n
    BY <2>7, <2>11, <2>12
  <2>13. CASE ~(FileLeft(e) < n) /\ u.failed
    BY <2>9, <2>10, <2>11, <2>13
  <2>14. CASE ~(FileLeft(e) < n) /\ ~u.failed
    BY <2>9, <2>11, <2>14
  <2> QED BY <2>12, <2>13, <2>14
<1> QED BY <1>2, <1>3

LEMMA RawStreamLoaded ==
    ASSUME NEW e, PsdLoaded(e, e)
    PROVE  PsdLoaded(e, loadRawStream(e))
<1>1. /\ Streaming(e) /\ e.w \in Nat /\ OfWidth(e.plane, e.w) /\ e.stream \in Nat \ {0}
      /\ e.header.width = e.w /\ e.header.bits \in Nat
  BY DEF PsdLoaded, PsdReady
<1>2. PICK n \in Nat : n = BytesPerScanline(e.header)
  BY <1>1 DEF BytesPerScanline
<1>3. PICK r : r = ReadFull(e, n)
  OBVIOUS
<1>4. PsdLoaded(e, r) /\ r.plane = e.plane /\ r.stream = e.stream
  BY <1>1, <1>2, <1>3, ReadFullMoves, MovedFills, PsdMoved
<1>5. PICK p : p = [i \in DOMAIN r.plane |-> IF i <= AtMost(n, FileLeft(e)) THEN Byte(e, i) ELSE r.plane[i]]
  OBVIOUS
<1>6. OfWidth(p, r.w)
  BY <1>1, <1>4, <1>5 DEF OfWidth, PsdLoaded
<1>7. PsdLoaded(e, [r EXCEPT !.plane = p, !.stream = r.stream])
  BY <1>1, <1>4, <1>6, PsdPlaneSet
<1>8. [r EXCEPT !.plane = p, !.stream = r.stream] = [r EXCEPT !.plane = p]
  OBVIOUS
<1>9. loadRawStream(e) = [r EXCEPT !.plane = p]
  BY <1>2, <1>3, <1>5 DEF loadRawStream
<1> QED BY <1>7, <1>8, <1>9

\* A row of a plane is shown.
LEMMA TransferLoaded ==
    ASSUME NEW e, PsdLoaded(e, e), NEW y \in e.locked
    PROVE  PsdLoaded(e, TransferScanline(e, y))
<1>1. Streaming(e) /\ Base \subseteq DOMAIN e /\ e.w \in Nat /\ OfWidth(e.plane, e.w)
  BY DEF PsdLoaded, PsdReady, Streaming
<1>2. CASE e.header.mode = "Rgb"
  <2>1. TransferScanline(e, y) = WriteChannel(e, y, ChannelByte(e.channel), e.plane)
    BY <1>2 DEF TransferScanline
  <2>2. ~(Len(e.plane) > e.w)
    BY <1>1 DEF OfWidth
  <2> QED BY <1>1, <2>1, <2>2, ChannelDraws, DrawnFills, PsdMoved
<1>3. CASE e.header.mode # "Rgb"
  <2>1. PICK s : s = Indexed(IF e.header.mode = "Bitmap" THEN BitsToBytes(e.plane, e.w) ELSE e.plane)
    OBVIOUS
  <2>2. TransferScanline(e, y) = WritePixels(e, 0, y, s)
    BY <1>3, <2>1 DEF TransferScanline
  <2>3. Len(s) = e.w
    <3>1. DOMAIN BitsToBytes(e.plane, e.w) = 1 .. e.w /\ DOMAIN e.plane = 1 .. e.w
      BY <1>1 DEF BitsToBytes, OfWidth
    <3> QED BY <1>1, <2>1, <3>1, IndexedLength
  <2>4. ~(0 < 0) /\ ~(0 + Len(s) > e.w)
    BY <1>1, <2>3
  <2>5. Drawn(e, WritePixels(e, 0, y, s))
    BY <1>1, <2>4, WriteDraws
  <2> QED BY <1>1, <2>2, <2>5, DrawnFills, PsdMoved
<1> QED BY <1>2, <1>3

LEMMA LoadScanlineLoaded ==
    ASSUME NEW e, PsdLoaded(e, e), NEW y \in e.locked
    PROVE  PsdLoaded(e, LoadScanline(e, y))
<1>1. PICK l : l = IF e.header.compression = "Rle" THEN loadRleStream(e) ELSE loadRawStream(e)
  OBVIOUS
<1>2. PsdLoaded(e, l)
  BY <1>1, RleStreamLoaded, RawStreamLoaded
<1>3. CASE l.out = "more"
  <2>1. LoadScanline(e, y) = TransferScanline(l, y)
    BY <1>1, <1>3 DEF LoadScanline
  <2>2. PsdLoaded(l, l) /\ y \in l.locked
    BY <1>2 DEF PsdLoaded
  <2>3. PsdLoaded(l, TransferScanline(l, y))
    BY <2>2, TransferLoaded
  <2> QED BY <1>2, <2>1, <2>3 DEF PsdLoaded
<1>4. CASE l.out # "more"
  BY <1>1, <1>2, <1>4 DEF LoadScanline
<1> QED BY <1>3, <1>4

\* The rows of a chunk: p has the decoder before them, and with them locked.
PsdTurnOf(e, i, p) == IF e.out = "more" THEN LoadScanline(e, p[1].scanline + i - 1) ELSE e
PsdHolds(e, p) == PsdLoaded(p[2], e)

Psd == INSTANCE Loops WITH Step <- PsdTurnOf, Holds <- PsdHolds

LEMMA ScanlinesLoaded ==
    ASSUME NEW e, NEW n \in Nat, NEW b, b = LockRows(e, e.scanline, n), PsdLoaded(b, b),
           e.scanline \in Nat, b.locked = e.scanline .. e.scanline + n - 1
    PROVE  PsdLoaded(b, LoadScanlines(e, n))
<1>1. ASSUME NEW u, NEW i \in 1..n, PsdLoaded(b, u)
      PROVE  PsdLoaded(b, PsdTurnOf(u, i, <<e, b>>))
  <2>1. PICK y : y = e.scanline + i - 1
    OBVIOUS
  <2>2. u.locked = b.locked /\ y \in u.locked
    BY <1>1, <2>1 DEF PsdLoaded
  <2>3. PsdLoaded(u, u)
    BY <1>1 DEF PsdLoaded
  <2>4. PsdLoaded(u, LoadScanline(u, y))
    BY <2>2, <2>3, LoadScanlineLoaded
  <2>5. PsdLoaded(b, LoadScanline(u, y))
    BY <1>1, <2>4 DEF PsdLoaded
  <2>6. PsdTurnOf(u, i, <<e, b>>) = IF u.out = "more" THEN LoadScanline(u, y) ELSE u
    BY <2>1 DEF PsdTurnOf
  <2> QED BY <1>1, <2>5, <2>6
<1>2. \A u : \A i \in 1..n : PsdHolds(u, <<e, b>>) => PsdHolds(PsdTurnOf(u, i, <<e, b>>), <<e, b>>)
  BY <1>1 DEF PsdHolds
<1>3. PsdHolds(b, <<e, b>>)
  BY DEF PsdHolds
<1>4. PsdHolds(Psd!Result(b, Psd!Counted(n), <<e, b>>), <<e, b>>)
  <2>1. n \in Int
    OBVIOUS
  <2> QED BY <1>2, <1>3, <2>1, AllNumbers, Psd!TurnsHold DEF Psd!Inductive
<1>5. LoadScanlines(e, n) = Psd!Result(LockRows(e, e.scanline, n), Psd!Counted(n), <<e, LockRows(e, e.scanline, n)>>)
  BY DEF LoadScanlines, PsdTurnOf, Psd!Result, Psd!Counted, FoldLeft, MapThenFoldSet,
         Max, Psd!Last
<1>6. LoadScanlines(e, n) = Psd!Result(b, Psd!Counted(n), <<e, b>>)
  BY <1>5
<1> QED BY <1>4, <1>6 DEF PsdHolds

LEMMA ProcessPsdSound ==
    ASSUME NEW e, PsdReady(e), OfWidth(e.plane, e.w), e.out = "more", e.locked = {}
    PROVE  /\ Sound(ProcessPsd(e))
           /\ ProcessPsd(e).out = "more" => PsdReady(ProcessPsd(e)) /\ OfWidth(ProcessPsd(e).plane, ProcessPsd(e).w)
<1>1. /\ Streaming(e) /\ e.h \in Nat /\ e.scanline \in Nat /\ e.scanline < e.h /\ DOMAIN e = PsdFields
  BY DEF PsdReady
<1>2. PICK n : n = AtMost(e.h - e.scanline, PsdScansPerChunk)
  OBVIOUS
<1>3. n \in Nat /\ n > 0 /\ e.scanline + n <= e.h
  BY <1>1, <1>2, PsdAssumption DEF AtMost
<1>4. PICK b : b = LockRows(e, e.scanline, n)
  OBVIOUS
<1>5. Locked(e, b, e.scanline, n) /\ Streaming(b) /\ b.out = "more"
  BY <1>1, <1>3, <1>4, LocksRows
<1>6. PsdLoaded(b, b) /\ b.locked = e.scanline .. e.scanline + n - 1 /\ b.h = e.h /\ b.scanline = e.scanline
  <2>1. /\ b["w"] = e["w"] /\ b["h"] = e["h"] /\ b["header"] = e["header"] /\ b["scanline"] = e["scanline"]
        /\ b["plane"] = e["plane"] /\ b["stream"] = e["stream"] /\ b["lengths"] = e["lengths"] /\ DOMAIN b = PsdFields
    BY <1>1, <1>5 DEF Locked, PsdFields, Base
  <2>2. PsdReady(b)
    BY <1>5, <2>1 DEF PsdReady
  <2> QED BY <1>5, <2>1, <2>2 DEF PsdLoaded, Locked
<1>7. PICK r : r = LoadScanlines(e, n)
  OBVIOUS
<1>8. PsdLoaded(b, r)
  BY <1>1, <1>3, <1>4, <1>6, <1>7, ScanlinesLoaded
<1>9. /\ DOMAIN r = PsdFields /\ PsdReady(r) /\ OfWidth(r.plane, r.w) /\ r.h = e.h
      /\ r.out \in {"more", "throw", "Failed"}
  BY <1>6, <1>8 DEF PsdLoaded, PsdReady
<1>10. CASE r.out # "more"
  <2>1. ProcessPsd(e) = r
    BY <1>2, <1>7, <1>10 DEF ProcessPsd
  <2> QED BY <1>9, <1>10, <2>1 DEF Sound, Outs, PsdFields
<1>11. CASE r.out = "more"
  <2>1. PICK s, c : /\ s = (IF e.scanline + n = e.h THEN 0 ELSE e.scanline + n)
                    /\ c = (IF e.scanline + n = e.h THEN r.channel + 1 ELSE r.channel)
    OBVIOUS
  <2>2. s \in Nat /\ s < e.h
    BY <1>1, <1>3, <2>1
  <2>3. PICK v : v = [r EXCEPT !.scanline = s, !.channel = c]
    OBVIOUS
  <2>4. DOMAIN v = PsdFields /\ v.scanline = s /\ \A x \in PsdFields \ {"scanline", "channel"} : v[x] = r[x]
    BY <1>9, <2>3 DEF PsdFields
  <2>5. Streaming(v)
    BY <1>9, <2>4 DEF PsdReady, Streaming, PsdFields, Base
  <2>6. /\ v["w"] = r["w"] /\ v["h"] = r["h"] /\ v["header"] = r["header"] /\ v["plane"] = r["plane"]
        /\ v["stream"] = r["stream"] /\ v["lengths"] = r["lengths"] /\ v["out"] = "more"
    BY <1>11, <2>4 DEF PsdFields, Base
  <2>7. PsdReady(v) /\ OfWidth(v.plane, v.w)
    BY <1>9, <2>2, <2>4, <2>5, <2>6 DEF PsdReady
  <2>8. ProcessPsd(e) = IF v.channel >= e.header.channels \/ v.channel = 4 THEN Finishing(v) ELSE v
    BY <1>2, <1>7, <1>11, <2>1, <2>3 DEF ProcessPsd
  <2>9. Base \subseteq DOMAIN v
    BY <2>5 DEF Streaming
  <2>10. CASE v.channel >= e.header.channels \/ v.channel = 4
    BY <2>8, <2>9, <2>10, FinishingSound
  <2>11. CASE ~(v.channel >= e.header.channels \/ v.channel = 4)
    BY <2>6, <2>7, <2>8, <2>9, <2>11 DEF Sound, Outs
  <2> QED BY <2>10, <2>11
<1> QED BY <1>10, <1>11

-----------------------------------------------------------------------------
(* CodecPCX                                                                *)

PcxFields == Base \cup {"header", "scan", "row"}

PcxReady(e) ==
    /\ DOMAIN e = PcxFields
    /\ Streaming(e)
    /\ e.w \in Nat /\ e.h \in Nat
    /\ e.header.bytesPerLine \in Nat /\ e.header.planes \in {1, 3, 4}
    /\ e.scan \in Nat /\ e.scan < e.h

\* u is e with some of a row read and shown; its buffer may hold anything.
PcxSame(e, u) == \A x \in {"w", "h", "header", "scan", "locked"} : u[x] = e[x]
PcxLoaded(e, u) ==
    /\ PcxReady(u)
    /\ PcxSame(e, u)
    /\ u.out \in {"more", "throw", "Failed"}

LEMMA PcxMoved ==
    ASSUME NEW e, PcxLoaded(e, e), NEW u, Filled(e, u)
    PROVE  PcxLoaded(e, u)
<1>1. DOMAIN e = PcxFields
  BY DEF PcxLoaded, PcxReady
<1>2. PcxSame(e, u)
  BY <1>1 DEF Filled, PcxFields, Base, StreamFields, PcxSame
<1>3. u.w = e.w /\ u.h = e.h /\ u.header = e.header /\ u.scan = e.scan
  BY <1>2 DEF PcxSame
<1>4. PcxReady(u)
  BY <1>1, <1>3 DEF PcxLoaded, PcxReady, Filled
<1>5. u.out \in {"more", "throw", "Failed"}
  BY DEF PcxLoaded, Filled
<1> QED BY <1>2, <1>4, <1>5 DEF PcxLoaded

LEMMA PcxRowSet ==
    ASSUME NEW e, NEW u, PcxLoaded(e, u), NEW row
    PROVE  PcxLoaded(e, [u EXCEPT !.row = row])
<1>1. PICK v : v = [u EXCEPT !.row = row]
  OBVIOUS
<1>2. DOMAIN u = PcxFields
  BY DEF PcxLoaded, PcxReady
<1>3. DOMAIN v = PcxFields /\ \A x \in PcxFields \ {"row"} : v[x] = u[x]
  BY <1>1, <1>2 DEF PcxFields
<1>4. Streaming(v)
  BY <1>3 DEF PcxLoaded, PcxReady, Streaming, PcxFields, Base
<1>5. \A x \in {"w", "h", "header", "scan", "locked", "out"} : v[x] = u[x]
  BY <1>3 DEF PcxFields, Base
<1>6. v.w = u.w /\ v.h = u.h /\ v.header = u.header /\ v.scan = u.scan /\ v.out = u.out
  BY <1>5
<1>7. PcxReady(v)
  BY <1>3, <1>4, <1>6 DEF PcxLoaded, PcxReady
<1> QED BY <1>1, <1>5, <1>6, <1>7 DEF PcxLoaded, PcxSame

\* A row is decoded in a record with two more fields.
DecodeFields == PcxFields \cup {"done", "ended"}
DecodeHolds(u, e) ==
    /\ DOMAIN u = DecodeFields
    /\ Streaming(u)
    /\ PcxSame(e, u)
    /\ u.out \in {"more", "throw"}
DecodeTurnOf(u, i, e) == DecodeTurn(u)

Decode == INSTANCE Loops WITH Step <- DecodeTurnOf, Holds <- DecodeHolds

LEMMA DecodeMoved ==
    ASSUME NEW e, NEW u, DecodeHolds(u, e), NEW v, Moved(u, v)
    PROVE  DecodeHolds(v, e)
<1>1. DOMAIN u = DecodeFields
  BY DEF DecodeHolds
<1>2. \A x \in {"w", "h", "header", "scan", "locked"} : v[x] = u[x]
  BY <1>1 DEF Moved, DecodeFields, PcxFields, Base, StreamFields
<1> QED BY <1>1, <1>2 DEF DecodeHolds, Moved, PcxSame

LEMMA DecodeSet ==
    ASSUME NEW e, NEW u, DecodeHolds(u, e), NEW a, NEW b
    PROVE  DecodeHolds([u EXCEPT !.ended = a], e) /\ DecodeHolds([u EXCEPT !.row = a, !.done = b], e)
<1>1. DOMAIN u = DecodeFields
  BY DEF DecodeHolds
<1>2. ASSUME NEW v, DOMAIN v = DecodeFields, \A x \in DecodeFields \ {"ended", "row", "done"} : v[x] = u[x]
      PROVE  DecodeHolds(v, e)
  <2>1. \A x \in Base \cup {"header", "scan"} : v[x] = u[x]
    BY <1>2 DEF DecodeFields, PcxFields, Base
  <2>2. Streaming(v)
    BY <1>2, <2>1 DEF DecodeHolds, Streaming, DecodeFields, PcxFields, Base
  <2>3. PcxSame(e, v) /\ v["out"] = u["out"]
    BY <2>1 DEF DecodeHolds, PcxSame, Base
  <2> QED BY <1>2, <2>2, <2>3 DEF DecodeHolds
<1>3. DecodeHolds([u EXCEPT !.ended = a], e)
  <2>1. PICK v : v = [u EXCEPT !.ended = a]
    OBVIOUS
  <2>2. DOMAIN v = DecodeFields /\ \A x \in DecodeFields \ {"ended", "row", "done"} : v[x] = u[x]
    BY <1>1, <2>1
  <2> QED BY <1>2, <2>1, <2>2
<1>4. DecodeHolds([u EXCEPT !.row = a, !.done = b], e)
  <2>1. PICK v : v = [u EXCEPT !.row = a, !.done = b]
    OBVIOUS
  <2>2. DOMAIN v = DecodeFields /\ \A x \in DecodeFields \ {"ended", "row", "done"} : v[x] = u[x]
    BY <1>1, <2>1
  <2> QED BY <1>2, <2>1, <2>2
<1> QED BY <1>3, <1>4

LEMMA DecodeTurnHolds ==
    ASSUME NEW e, NEW u, DecodeHolds(u, e)
    PROVE  DecodeHolds(DecodeTurn(u), e)
<1> DEFINE first == CachedByte(u, 1)
           one == ReadByte(u)
           run == first >= 192
           n == AtMost(IF run THEN first - 192 ELSE 1, ScanBytes(u.header) - u.done)
           data == IF run THEN CachedByte(one, 1) ELSE first
           read == IF run THEN ReadByte(one) ELSE one
           row == [i \in DOMAIN read.row |-> IF i - u.done \in 1..n THEN data ELSE read.row[i]]
           done == read.done + n
           next == [read EXCEPT !.row = row, !.done = done]
<1>1. DecodeTurn(u) = IF u.ended \/ u.done >= ScanBytes(u.header) THEN u
                      ELSE IF u.left = 0 THEN [u EXCEPT !.ended = TRUE]
                      ELSE IF run /\ one.left = 0 THEN [one EXCEPT !.ended = TRUE]
                      ELSE next
  BY DEF DecodeTurn
<1>2. DecodeHolds(one, e)
  BY ReadByteMoves, DecodeMoved DEF DecodeHolds
<1> HIDE DEF one, run
<1>3. DecodeHolds(read, e)
  BY <1>2, ReadByteMoves, DecodeMoved DEF DecodeHolds
<1> HIDE DEF first, n, data, read, row, done
<1>4. DecodeHolds(next, e)
  BY <1>3, DecodeSet
<1>5. DecodeHolds([u EXCEPT !.ended = TRUE], e) /\ DecodeHolds([one EXCEPT !.ended = TRUE], e)
  BY <1>2, DecodeSet
<1> HIDE DEF next
<1> QED BY <1>1, <1>4, <1>5

LEMMA DecodeScanlineLoaded ==
    ASSUME NEW e, PcxLoaded(e, e), e.out = "more"
    PROVE  PcxLoaded(e, DecodeScanline(e))
<1>1. DOMAIN e = PcxFields /\ Streaming(e) /\ e.left \in Nat
  BY DEF PcxLoaded, PcxReady, Streaming
<1>2. PICK s : s = WithFields(e, [done |-> 0, ended |-> FALSE])
  OBVIOUS
<1>3. DOMAIN s = DecodeFields /\ \A x \in PcxFields : s[x] = e[x]
  <2>1. DOMAIN [done |-> 0, ended |-> FALSE] = {"done", "ended"}
    OBVIOUS
  <2> QED BY <1>1, <1>2, <2>1 DEF WithFields, DecodeFields
<1>4. DecodeHolds(s, e)
  <2>1. Streaming(s)
    BY <1>1, <1>3 DEF Streaming, DecodeFields, PcxFields, Base
  <2>2. PcxSame(e, s) /\ s["out"] = e["out"]
    BY <1>3 DEF PcxSame, PcxFields, Base
  <2> QED BY <1>3, <2>1, <2>2 DEF DecodeHolds
<1>5. PICK n \in Int : n = e.left + 1
  BY <1>1
<1>6. \A u : \A i \in 1..n : DecodeHolds(u, e) => DecodeHolds(DecodeTurnOf(u, i, e), e)
  BY DecodeTurnHolds DEF DecodeTurnOf
<1>7. DecodeHolds(Decode!Result(s, Decode!Counted(n), e), e)
  BY <1>4, <1>6, AllNumbers, Decode!TurnsHold DEF Decode!Inductive
<1>8. DecodeTurns(e) = Decode!Result(WithFields(e, [done |-> 0, ended |-> FALSE]), Decode!Counted(e.left + 1), e)
  BY DEF DecodeTurns, DecodeTurnOf, Decode!Result, Decode!Counted, FoldLeft, MapThenFoldSet,
         Max, Decode!Last
<1>9. PICK u : u = DecodeTurns(e)
  OBVIOUS
<1>10. DecodeHolds(u, e)
  BY <1>2, <1>5, <1>7, <1>8, <1>9
<1>11. PICK v : v = [f \in DOMAIN e |-> u[f]]
  OBVIOUS
<1>12. DOMAIN v = PcxFields /\ \A f \in PcxFields : v[f] = u[f]
  BY <1>1, <1>11
<1>13. Streaming(v)
  BY <1>10, <1>12 DEF DecodeHolds, Streaming, PcxFields, Base
<1>14. PcxSame(e, v) /\ v["out"] = u["out"]
  BY <1>10, <1>12 DEF DecodeHolds, PcxSame, PcxFields, Base
<1>15. v.w = e.w /\ v.h = e.h /\ v.header = e.header /\ v.scan = e.scan
  BY <1>14 DEF PcxSame
<1>16. PcxReady(v)
  BY <1>12, <1>13, <1>15 DEF PcxLoaded, PcxReady
<1>17. DecodeScanline(e) = v
  BY <1>9, <1>11 DEF DecodeScanline
<1> QED BY <1>10, <1>14, <1>16, <1>17 DEF PcxLoaded, DecodeHolds

LEMMA RawScanlineLoaded ==
    ASSUME NEW e, PcxLoaded(e, e)
    PROVE  PcxLoaded(e, RawScanline(e))
<1>1. Streaming(e) /\ e.header.bytesPerLine \in Nat /\ e.header.planes \in {1, 3, 4}
  BY DEF PcxLoaded, PcxReady
<1>2. PICK n \in Nat : n = ScanBytes(e.header)
  BY <1>1 DEF ScanBytes
<1>3. PICK r : r = Read(e, n)
  OBVIOUS
<1>4. PcxLoaded(e, r)
  BY <1>1, <1>2, <1>3, ReadMoves, MovedFills, PcxMoved
<1>5. CASE FileLeft(e) < n
  <2>1. Filled(r, Failing(r))
    BY <1>4 DEF Filled, Failing, PcxLoaded, PcxReady, Streaming, Base, StreamFields
  <2>2. PcxLoaded(r, Failing(r))
    <3>1. PcxLoaded(r, r)
      BY <1>4 DEF PcxLoaded, PcxSame
    <3> QED BY <2>1, <3>1, PcxMoved
  <2>3. RawScanline(e) = Failing(r)
    BY <1>2, <1>3, <1>5 DEF RawScanline
  <2> QED BY <1>4, <2>2, <2>3 DEF PcxLoaded, PcxSame
<1>6. CASE ~(FileLeft(e) < n)
  <2>1. RawScanline(e) = [r EXCEPT !.row = Upcoming(e, n)]
    BY <1>2, <1>3, <1>6 DEF RawScanline
  <2> QED BY <1>4, <2>1, PcxRowSet
<1> QED BY <1>5, <1>6

LEMMA TransferRowLoaded ==
    ASSUME NEW e, PcxLoaded(e, e), NEW y \in e.locked
    PROVE  PcxLoaded(e, TransferRow(e, y))
<1>1. /\ Streaming(e) /\ Base \subseteq DOMAIN e /\ e.w \in Nat
      /\ e.header.bytesPerLine \in Nat /\ e.header.planes \in {1, 3, 4}
  BY DEF PcxLoaded, PcxReady, Streaming
<1>2. ASSUME NEW s, Len(s) \in Nat, Len(s) <= e.w
      PROVE  PcxLoaded(e, WritePixels(e, 0, y, s))
  <2>1. ~(0 < 0) /\ ~(0 + Len(s) > e.w)
    BY <1>1, <1>2
  <2> QED BY <1>1, <2>1, WriteDraws, DrawnFills, PcxMoved
<1>3. CASE e.header.planes = 4
  <2>1. PICK n : n = AtMost(e.w, 8 * e.header.bytesPerLine)
    OBVIOUS
  <2>2. n \in Nat /\ n <= e.w
    BY <1>1, <2>1 DEF AtMost
  <2> DEFINE bit(plane, x) == (PlaneByte(e, plane, x \div 8 + 1) \div 2^(7 - (x % 8))) % 2
             index(x) == bit(0, x) + 2 * bit(1, x) + 4 * bit(2, x) + 8 * bit(3, x)
             s == [x \in 1..n |-> <<index(x - 1)>>]
  <2>3. TransferRow(e, y) = WritePixels(e, 0, y, s)
    BY <1>3, <2>1 DEF TransferRow, Planar4
  <2> HIDE DEF index
  <2>4. Len(s) = n
    BY <2>2
  <2> HIDE DEF s
  <2> QED BY <1>2, <2>2, <2>3, <2>4
<1>4. CASE e.header.planes = 3
  <2>1. CASE e.header.planeDepth = 8
    <3> DEFINE s == [x \in 1 .. e.w |-> <<PlaneByte(e, 2, x), PlaneByte(e, 1, x), PlaneByte(e, 0, x), 255>>]
    <3>1. TransferRow(e, y) = WritePixels(e, 0, y, s)
      BY <1>4, <2>1 DEF TransferRow, Planar38
    <3>2. PICK w \in Nat : w = e.w
      BY <1>1
    <3>3. Len(s) = w
      BY <3>2
    <3> HIDE DEF s
    <3> QED BY <1>2, <3>1, <3>2, <3>3
  <2>2. CASE e.header.planeDepth # 8
    BY <1>4, <2>2 DEF TransferRow
  <2> QED BY <2>1, <2>2
<1>5. CASE e.header.planes = 1
  <2>1. CASE e.header.planeDepth \notin {1, 4, 8}
    <3>1. TransferRow(e, y) = Throw(e)
      BY <1>5, <2>1 DEF TransferRow
    <3> QED BY <1>1, <3>1, ThrowMoves, MovedFills, PcxMoved
  <2>2. CASE e.header.planeDepth \in {1, 4, 8}
    <3>1. PICK c : c = ConvertToBytes(e.row, e.header.planeDepth, e.w)
      OBVIOUS
    <3>2. DOMAIN c = 1 .. e.w
      BY <2>2, <3>1 DEF ConvertToBytes, BitsToBytes, NibblesToBytes
    <3>3. Len(Indexed(c)) = e.w
      BY <1>1, <3>2, IndexedLength
    <3>4. TransferRow(e, y) = WritePixels(e, 0, y, Indexed(c))
      BY <1>5, <2>2, <3>1 DEF TransferRow
    <3>5. Len(Indexed(c)) \in Nat /\ Len(Indexed(c)) <= e.w
      BY <1>1, <3>3
    <3> QED BY <1>2, <3>4, <3>5
  <2> QED BY <2>1, <2>2
<1> QED BY <1>1, <1>3, <1>4, <1>5

LEMMA PcxRowLoaded ==
    ASSUME NEW e, PcxLoaded(e, e), e.out = "more", NEW y \in e.locked
    PROVE  PcxLoaded(e, PcxRow(e, y))
<1>1. PICK l : l = IF e.header.compression = "Rle" THEN DecodeScanline(e) ELSE RawScanline(e)
  OBVIOUS
<1>2. PcxLoaded(e, l)
  BY <1>1, DecodeScanlineLoaded, RawScanlineLoaded
<1>3. CASE l.out = "more"
  <2>1. PcxRow(e, y) = TransferRow(l, y)
    BY <1>1, <1>3 DEF PcxRow
  <2>2. PcxLoaded(l, l) /\ y \in l.locked
    BY <1>2 DEF PcxLoaded, PcxSame
  <2>3. PcxLoaded(l, TransferRow(l, y))
    BY <2>2, TransferRowLoaded
  <2> QED BY <1>2, <2>1, <2>3 DEF PcxLoaded, PcxSame
<1>4. CASE l.out # "more"
  BY <1>1, <1>2, <1>4 DEF PcxRow
<1> QED BY <1>3, <1>4

\* The rows of a chunk: p has the decoder before them, and with them locked.
PcxTurnOf(e, i, p) == IF e.out = "more" THEN PcxRow(e, p[1].scan + i - 1) ELSE e
PcxHolds(e, p) == PcxLoaded(p[2], e)

Pcx == INSTANCE Loops WITH Step <- PcxTurnOf, Holds <- PcxHolds

LEMMA PcxRowsLoaded ==
    ASSUME NEW e, NEW n \in Nat, NEW b, PcxLoaded(b, b), e.scan \in Nat, b.locked = e.scan .. e.scan + n - 1,
           b = [LockRows(e, e.scan, n) EXCEPT !.row = [i \in 1 .. ScanBytes(e.header) |-> 0]]
    PROVE  PcxLoaded(b, PcxRows(e, n))
<1>1. ASSUME NEW u, NEW i \in 1..n, PcxLoaded(b, u)
      PROVE  PcxLoaded(b, PcxTurnOf(u, i, <<e, b>>))
  <2>1. PICK y : y = e.scan + i - 1
    OBVIOUS
  <2>2. u.locked = b.locked /\ y \in u.locked
    BY <1>1, <2>1 DEF PcxLoaded, PcxSame
  <2>3. PcxLoaded(u, u)
    BY <1>1 DEF PcxLoaded, PcxSame
  <2>4. PcxTurnOf(u, i, <<e, b>>) = IF u.out = "more" THEN PcxRow(u, y) ELSE u
    BY <2>1 DEF PcxTurnOf
  <2>5. ASSUME u.out = "more" PROVE PcxLoaded(b, PcxRow(u, y))
    <3>1. PcxLoaded(u, PcxRow(u, y))
      BY <2>2, <2>3, <2>5, PcxRowLoaded
    <3> QED BY <1>1, <3>1 DEF PcxLoaded, PcxSame
  <2> QED BY <1>1, <2>4, <2>5
<1>2. \A u : \A i \in 1..n : PcxHolds(u, <<e, b>>) => PcxHolds(PcxTurnOf(u, i, <<e, b>>), <<e, b>>)
  BY <1>1 DEF PcxHolds
<1>3. PcxHolds(b, <<e, b>>)
  BY DEF PcxHolds
<1>4. PcxHolds(Pcx!Result(b, Pcx!Counted(n), <<e, b>>), <<e, b>>)
  <2>1. n \in Int
    OBVIOUS
  <2> QED BY <1>2, <1>3, <2>1, AllNumbers, Pcx!TurnsHold DEF Pcx!Inductive
<1> DEFINE c == [LockRows(e, e.scan, n) EXCEPT !.row = [i \in 1 .. ScanBytes(e.header) |-> 0]]
<1>5. PcxRows(e, n) = Pcx!Result(c, Pcx!Counted(n), <<e, c>>)
  BY DEF PcxRows, PcxTurnOf, Pcx!Result, Pcx!Counted, FoldLeft, MapThenFoldSet,
         Max, Pcx!Last
<1>6. b = c
  OBVIOUS
<1> HIDE DEF c
<1>7. PcxRows(e, n) = Pcx!Result(b, Pcx!Counted(n), <<e, b>>)
  BY <1>5, <1>6
<1> QED BY <1>4, <1>7 DEF PcxHolds

LEMMA ProcessPcxSound ==
    ASSUME NEW e, PcxReady(e), e.out = "more", e.locked = {}
    PROVE  /\ Sound(ProcessPcx(e))
           /\ ProcessPcx(e).out = "more" => PcxReady(ProcessPcx(e))
<1>1. /\ Streaming(e) /\ e.h \in Nat /\ e.scan \in Nat /\ e.scan < e.h /\ DOMAIN e = PcxFields
  BY DEF PcxReady
<1>2. PICK n : n = AtMost(PcxChunkRows, e.h - e.scan)
  OBVIOUS
<1>3. n \in Nat /\ n > 0 /\ e.scan + n <= e.h
  BY <1>1, <1>2, PcxAssumption DEF AtMost
<1>4. PICK l : l = LockRows(e, e.scan, n)
  OBVIOUS
<1>5. Locked(e, l, e.scan, n) /\ Streaming(l) /\ l.out = "more"
  BY <1>1, <1>3, <1>4, LocksRows
<1>6. PcxLoaded(l, l) /\ l.locked = e.scan .. e.scan + n - 1 /\ l.h = e.h /\ l.scan = e.scan
  <2>1. /\ l["w"] = e["w"] /\ l["h"] = e["h"] /\ l["header"] = e["header"] /\ l["scan"] = e["scan"]
        /\ DOMAIN l = PcxFields
    BY <1>1, <1>5 DEF Locked, PcxFields, Base
  <2>2. PcxReady(l)
    BY <1>5, <2>1 DEF PcxReady
  <2> QED BY <1>5, <2>1, <2>2 DEF PcxLoaded, PcxSame, Locked
<1>7. PICK b : b = [l EXCEPT !.row = [i \in 1 .. ScanBytes(e.header) |-> 0]]
  OBVIOUS
<1>8. PcxLoaded(l, b)
  BY <1>6, <1>7, PcxRowSet
<1>9. PcxLoaded(b, b) /\ b.locked = e.scan .. e.scan + n - 1 /\ b.h = e.h /\ b.scan = e.scan
  BY <1>6, <1>8 DEF PcxLoaded, PcxSame
<1>10. PICK r : r = PcxRows(e, n)
  OBVIOUS
<1>11. PcxLoaded(b, r)
  BY <1>1, <1>3, <1>4, <1>7, <1>9, <1>10, PcxRowsLoaded
<1>12. /\ DOMAIN r = PcxFields /\ PcxReady(r) /\ r.h = e.h /\ r.scan = e.scan
       /\ r.out \in {"more", "throw", "Failed"}
  BY <1>9, <1>11 DEF PcxLoaded, PcxReady, PcxSame
<1>13. CASE r.out # "more"
  <2>1. ProcessPcx(e) = r
    BY <1>2, <1>10, <1>13 DEF ProcessPcx
  <2> QED BY <1>12, <1>13, <2>1 DEF Sound, Outs, PcxFields
<1>14. CASE r.out = "more"
  <2>1. PICK o : o = IF e.scan + n = e.h THEN "Finished" ELSE "more"
    OBVIOUS
  <2>2. PICK v : v = [r EXCEPT !.scan = r.scan + n, !.out = o]
    OBVIOUS
  <2>3. DOMAIN v = PcxFields /\ v.scan = e.scan + n /\ v.out = o /\ \A x \in PcxFields \ {"scan", "out"} : v[x] = r[x]
    BY <1>12, <2>2 DEF PcxFields, Base
  <2>4. Streaming(v)
    BY <1>12, <2>3 DEF PcxReady, Streaming, PcxFields, Base
  <2>5. v["w"] = r["w"] /\ v["h"] = r["h"] /\ v["header"] = r["header"]
    BY <2>3 DEF PcxFields, Base
  <2>6. o = "more" => PcxReady(v)
    BY <1>1, <1>3, <1>12, <2>1, <2>3, <2>4, <2>5 DEF PcxReady
  <2>7. ProcessPcx(e) = v
    BY <1>2, <1>10, <1>14, <2>1, <2>2 DEF ProcessPcx
  <2> QED BY <2>1, <2>3, <2>4, <2>6, <2>7 DEF Sound, Outs, Streaming
<1> QED BY <1>13, <1>14

-----------------------------------------------------------------------------
(* The byte cache: what is left of the file starts at the next byte.       *)

CacheOK(e) == e.left = Len(e.data) - VirtualFilePosition(e) /\ VirtualFilePosition(e) >= 0

LEMMA ReadByteCaches ==
    ASSUME NEW e, Streaming(e), CacheOK(e)
    PROVE  CacheOK(ReadByte(e))
<1>1. PICK n : n = AtMost(CacheSize, FileLeft(e))
  OBVIOUS
<1>2. n \in Int /\ e.pos \in Int /\ e.at \in Int /\ e.size \in Int /\ e.left \in Int /\ Len(e.data) \in Int
  BY <1>1, CacheAssumption DEF AtMost, FileLeft, Streaming
<1>3. PICK u : u = Refilled(e)
  OBVIOUS
<1>4. /\ u.data = e.data /\ u.left = e.left
      /\ u.pos \in Int /\ u.at \in Int /\ u.size \in Int
      /\ u.pos - (u.size - u.at) = e.pos - (e.size - e.at)
      /\ {"left", "at", "pos", "size", "data"} \subseteq DOMAIN u
  <2>1. CASE e.at # e.size
    <3>1. u = e
      BY <1>3, <2>1 DEF Refilled
    <3> QED BY <1>2, <3>1 DEF Streaming, Base
  <2>2. CASE e.at = e.size
    <3>1. u = [[e EXCEPT !.pos = e.pos + n] EXCEPT !.at = 0, !.size = n]
      BY <1>1, <1>3, <2>2 DEF Refilled, Read
    <3>2. /\ u.data = e.data /\ u.left = e.left /\ u.pos = e.pos + n /\ u.at = 0 /\ u.size = n
          /\ {"left", "at", "pos", "size", "data"} \subseteq DOMAIN u
      BY <3>1 DEF Streaming, Base
    <3> QED BY <1>2, <2>2, <3>2
  <2> QED BY <2>1, <2>2
<1>5. CASE e.left = 0
  <2>1. PICK v : v = Throw(e)
    OBVIOUS
  <2>2. v.data = e.data /\ v.left = e.left /\ v.pos = e.pos /\ v.at = e.at /\ v.size = e.size
    BY <2>1 DEF Throw, Streaming, Base
  <2>3. ReadByte(e) = v
    BY <1>5, <2>1 DEF ReadByte
  <2> QED BY <2>2, <2>3 DEF CacheOK, VirtualFilePosition
<1>6. CASE e.left # 0
  <2>1. PICK v : v = [u EXCEPT !.left = u.left - 1, !.at = u.at + 1]
    OBVIOUS
  <2>2. v.data = u.data /\ v.left = u.left - 1 /\ v.pos = u.pos /\ v.at = u.at + 1 /\ v.size = u.size
    BY <1>4, <2>1
  <2>3. ReadByte(e) = v
    BY <1>3, <1>6, <2>1 DEF ReadByte
  <2>4. e.left = Len(e.data) - (e.pos - (e.size - e.at)) /\ e.pos - (e.size - e.at) >= 0
    BY DEF CacheOK, VirtualFilePosition
  <2>5. v.pos - (v.size - v.at) = e.pos - (e.size - e.at) + 1
    BY <1>2, <1>4, <2>2
  <2>6. v.left = e.left - 1 /\ v.data = e.data
    BY <1>4, <2>2
  <2>7. v.left = Len(v.data) - (v.pos - (v.size - v.at)) /\ v.pos - (v.size - v.at) >= 0
    <3>1. PICK a, b, l, m : a = e.pos - (e.size - e.at) /\ b = v.pos - (v.size - v.at) /\ l = Len(e.data) /\ m = e.left
      OBVIOUS
    <3>2. {a, l, m} \subseteq Int
      BY <1>2, <3>1
    <3>3. b = a + 1 /\ m = l - a /\ a >= 0 /\ v.left = m - 1 /\ Len(v.data) = l
      BY <2>4, <2>5, <2>6, <3>1
    <3>4. v.left = l - b /\ b >= 0
      BY <3>2, <3>3
    <3> QED BY <3>1, <3>3, <3>4
  <2> QED BY <2>3, <2>7 DEF CacheOK, VirtualFilePosition
<1> QED BY <1>5, <1>6

\* Bytes read one after the other.
BytesTurn(e, i, p) == IF e.out = "throw" THEN e ELSE ReadByte(e)
BytesHold(e, p) == Moved(p, e) /\ (CacheOK(p) => CacheOK(e))

Cached == INSTANCE Loops WITH Step <- BytesTurn, Holds <- BytesHold

LEMMA ReadBytesMoves ==
    ASSUME NEW e, Streaming(e), NEW n \in Int
    PROVE  Moved(e, ReadBytes(e, n)) /\ (CacheOK(e) => CacheOK(ReadBytes(e, n)))
<1>1. BytesHold(e, e)
  BY NotMoved DEF BytesHold
<1>2. ASSUME NEW u, BytesHold(u, e) PROVE BytesHold(BytesTurn(u, 0, e), e)
  <2>1. Streaming(u) /\ Moved(e, u)
    BY <1>2 DEF BytesHold, Moved
  <2>2. Moved(e, ReadByte(u))
    BY <2>1, ReadByteMoves, MovedOn
  <2>3. CacheOK(e) => CacheOK(ReadByte(u))
    BY <1>2, <2>1, ReadByteCaches DEF BytesHold
  <2>4. BytesTurn(u, 0, e) = u \/ BytesTurn(u, 0, e) = ReadByte(u)
    BY DEF BytesTurn
  <2> QED BY <1>2, <2>2, <2>3, <2>4 DEF BytesHold
<1>3. \A u : \A i \in 1..n : BytesHold(u, e) => BytesHold(BytesTurn(u, i, e), e)
  BY <1>2 DEF BytesTurn
<1>4. BytesHold(Cached!Result(e, Cached!Counted(n), e), e)
  BY <1>1, <1>3, AllNumbers, Cached!TurnsHold DEF Cached!Inductive
<1>5. ReadBytes(e, n) = Cached!Result(e, Cached!Counted(n), e)
  BY DEF ReadBytes, BytesTurn, Cached!Result, Cached!Counted, FoldLeft, MapThenFoldSet,
         Max, Cached!Last
<1> QED BY <1>4, <1>5 DEF BytesHold

\* The next byte the cache gives, where there is one.
LEMMA CachedByteTyped ==
    ASSUME NEW e, Streaming(e), CacheOK(e), e.left >= 1
    PROVE  CachedByte(e, 1) \in Bytes
<1>1. PICK v : v = VirtualFilePosition(e)
  OBVIOUS
<1>2. v \in Int /\ e.left \in Int /\ Len(e.data) \in Nat
  BY <1>1 DEF VirtualFilePosition, Streaming
<1>3. v + 1 \in 1 .. Len(e.data)
  BY <1>1, <1>2 DEF CacheOK
<1>4. CachedByte(e, 1) = e.data[v + 1]
  BY <1>1 DEF CachedByte
<1> QED BY <1>3, <1>4 DEF Streaming

\* A write does not touch the cache.
LEMMA DrawnCached ==
    ASSUME NEW u, NEW v, Streaming(u), Drawn(u, v), CacheOK(u)
    PROVE  CacheOK(v)
<1>1. v.data = u.data /\ v.left = u.left /\ v.pos = u.pos /\ v.at = u.at /\ v.size = u.size
  BY DEF Drawn, Streaming, Base
<1> QED BY <1>1 DEF CacheOK, VirtualFilePosition

-----------------------------------------------------------------------------
(* CodecTGA                                                                *)

TgaFields == Base \cup {"header", "scanline", "x", "y", "run", "isRun", "pixel"}

TgaReady(e) ==
    /\ DOMAIN e = TgaFields
    /\ Streaming(e)
    /\ e.w \in Nat \ {0} /\ e.h \in Nat
    /\ e.header.depth \in TgaDepths /\ e.header.flipVertical \in BOOLEAN
    /\ e.scanline \in 0 .. e.h
    /\ IF e.header.flipVertical THEN e.scanline > 0 ELSE e.scanline < e.h
    /\ e.run \in Nat
    /\ e.header.type \in TgaRleTypes => CacheOK(e)

\* u is e with some of a batch read and shown.
TgaSame(e, u) == \A x \in {"w", "h", "header", "scanline", "locked"} : u[x] = e[x]
TgaLoaded(e, u) ==
    /\ TgaReady(u)
    /\ TgaSame(e, u)
    /\ u.out \in {"more", "throw", "Finished"}

\* The batch that is locked.
TgaBatch(e) == e.locked = StartScan(e) .. StartScan(e) + NumRows(e) - 1

LEMMA BatchBounds ==
    ASSUME NEW e, TgaReady(e)
    PROVE  /\ NumRows(e) \in Nat \ {0} /\ StartScan(e) \in Nat
           /\ StartScan(e) + NumRows(e) <= e.h
<1>1. e.h \in Nat /\ e.scanline \in 0 .. e.h /\ RowsPerBatch \in Nat \ {0}
      /\ IF e.header.flipVertical THEN e.scanline > 0 ELSE e.scanline < e.h
  BY BatchAssumption DEF TgaReady
<1> QED BY <1>1 DEF NumRows, StartScan, AtMost

LEMMA BatchRowLocked ==
    ASSUME NEW e, TgaReady(e), TgaBatch(e), NEW k \in 0 .. NumRows(e) - 1
    PROVE  BatchRow(e, k) \in e.locked
<1>1. NumRows(e) \in Nat /\ StartScan(e) \in Nat
  BY BatchBounds
<1>2. BatchRow(e, k) \in StartScan(e) .. StartScan(e) + NumRows(e) - 1
  BY <1>1 DEF BatchRow
<1> QED BY <1>2 DEF TgaBatch

\* What the batch is does not change with what is read of it.
LEMMA TgaSameBatch ==
    ASSUME NEW e, NEW u, TgaSame(e, u)
    PROVE  /\ NumRows(u) = NumRows(e) /\ StartScan(u) = StartScan(e)
           /\ \A k : BatchRow(u, k) = BatchRow(e, k)
           /\ TgaBatch(e) => TgaBatch(u)
<1>1. u.h = e.h /\ u.header = e.header /\ u.scanline = e.scanline /\ u.locked = e.locked
  BY DEF TgaSame
<1>2. NumRows(u) = NumRows(e)
  BY <1>1 DEF NumRows
<1>3. StartScan(u) = StartScan(e)
  BY <1>1, <1>2 DEF StartScan
<1>4. \A k : BatchRow(u, k) = BatchRow(e, k)
  BY <1>1, <1>2, <1>3 DEF BatchRow
<1> QED BY <1>1, <1>2, <1>3, <1>4 DEF TgaBatch

LEMMA TgaLoadedOn ==
    ASSUME NEW e, NEW u, NEW v, TgaLoaded(e, u), TgaLoaded(u, v)
    PROVE  TgaLoaded(e, v)
BY DEF TgaLoaded, TgaSame

LEMMA TgaFilled ==
    ASSUME NEW e, NEW u, TgaLoaded(e, u), NEW v, Filled(u, v), v.out # "Failed",
           u.header.type \in TgaRleTypes => CacheOK(v)
    PROVE  TgaLoaded(e, v) /\ v.x = u.x /\ v.y = u.y /\ v.isRun = u.isRun /\ v.run = u.run
<1>1. DOMAIN u = TgaFields
  BY DEF TgaLoaded, TgaReady
<1>2. \A x \in {"w", "h", "header", "scanline", "locked", "x", "y", "run", "isRun"} : v[x] = u[x]
  BY <1>1 DEF Filled, TgaFields, Base, StreamFields
<1>3. v.w = u.w /\ v.h = u.h /\ v.header = u.header /\ v.scanline = u.scanline /\ v.run = u.run
      /\ v.x = u.x /\ v.y = u.y /\ v.isRun = u.isRun
  BY <1>2
<1>4. TgaReady(v)
  BY <1>1, <1>3 DEF TgaLoaded, TgaReady, Filled
<1>5. TgaSame(e, v)
  BY <1>2 DEF TgaLoaded, TgaSame
<1>6. v.out \in {"more", "throw", "Finished"}
  BY DEF TgaLoaded, Filled
<1> QED BY <1>3, <1>4, <1>5, <1>6 DEF TgaLoaded

LEMMA TgaDrawn ==
    ASSUME NEW e, NEW u, TgaLoaded(e, u), NEW v, Drawn(u, v)
    PROVE  TgaLoaded(e, v) /\ v.x = u.x /\ v.y = u.y /\ v.isRun = u.isRun /\ v.run = u.run /\ v.out = u.out
<1>1. Streaming(u)
  BY DEF TgaLoaded, TgaReady
<1>2. Filled(u, v) /\ v.out = u.out
  BY <1>1, DrawnFills
<1>3. v.out # "Failed"
  BY <1>2 DEF TgaLoaded
<1>4. u.header.type \in TgaRleTypes => CacheOK(v)
  BY <1>1, DrawnCached DEF TgaLoaded, TgaReady
<1> QED BY <1>2, <1>3, <1>4, TgaFilled

LEMMA TgaReadBytes ==
    ASSUME NEW e, NEW u, TgaLoaded(e, u), NEW n \in Int, NEW v, v = ReadBytes(u, n)
    PROVE  TgaLoaded(e, v) /\ v.x = u.x /\ v.y = u.y /\ v.isRun = u.isRun /\ v.run = u.run
           /\ v.out \in {u.out, "throw"}
<1>1. Streaming(u)
  BY DEF TgaLoaded, TgaReady
<1>2. Moved(u, v) /\ (CacheOK(u) => CacheOK(v))
  BY <1>1, ReadBytesMoves
<1>3. Filled(u, v)
  BY <1>2, MovedFills
<1>4. v.out # "Failed" /\ v.out \in {u.out, "throw"}
  BY <1>2 DEF Moved, TgaLoaded
<1>5. u.header.type \in TgaRleTypes => CacheOK(v)
  BY <1>2 DEF TgaLoaded, TgaReady
<1> QED BY <1>3, <1>4, <1>5, TgaFilled

\* A record with what the next pixels are for changed.
LEMMA TgaSet ==
    ASSUME NEW e, NEW u, TgaLoaded(e, u), NEW v, DOMAIN v = DOMAIN u,
           \A x \in DOMAIN u \ {"x", "y", "run", "isRun", "pixel", "out"} : v[x] = u[x],
           v.run \in Nat, v.out \in {"more", "throw", "Finished"}
    PROVE  TgaLoaded(e, v)
<1>1. DOMAIN u = TgaFields
  BY DEF TgaLoaded, TgaReady
<1>2. \A x \in (Base \cup {"header", "scanline"}) \ {"out"} : v[x] = u[x]
  BY <1>1 DEF TgaFields, Base
<1>3. Streaming(v)
  BY <1>1, <1>2 DEF TgaLoaded, TgaReady, Streaming, TgaFields, Base
<1>4. v.w = u.w /\ v.h = u.h /\ v.header = u.header /\ v.scanline = u.scanline
      /\ v.data = u.data /\ v.left = u.left /\ v.pos = u.pos /\ v.at = u.at /\ v.size = u.size
  BY <1>2 DEF Base
<1>5. CacheOK(u) => CacheOK(v)
  BY <1>4 DEF CacheOK, VirtualFilePosition
<1>6. TgaReady(v)
  BY <1>1, <1>3, <1>4, <1>5 DEF TgaLoaded, TgaReady
<1>7. TgaSame(e, v)
  BY <1>2 DEF TgaLoaded, TgaSame, Base
<1> QED BY <1>6, <1>7 DEF TgaLoaded

\* A turn of the run-length decoder.
RlePlace(u) == u.y \in 0 .. NumRows(u) /\ u.x \in 0 .. u.w - 1
RleHolds(u, e) == TgaLoaded(e, u) /\ (u.out = "more" => RlePlace(u))
RleTurnOf(u, i, e) == IF u.out = "more" THEN RleTurn(u) ELSE u

Rle == INSTANCE Loops WITH Step <- RleTurnOf, Holds <- RleHolds

LEMMA PixelSizes ==
    ASSUME NEW h, h.depth \in TgaDepths
    PROVE  SourcePixelSize(h) \in {1, 2, 3, 4}
BY DEF TgaDepths, SourcePixelSize

\* A packet has a pixel at least.
LEMMA PacketLoaded ==
    ASSUME NEW e, NEW u, TgaLoaded(e, u), u.header.type \in TgaRleTypes, u.out = "more", NEW v, v = Packet(u)
    PROVE  /\ TgaLoaded(e, v) /\ v.x = u.x /\ v.y = u.y
           /\ v.out = "more" => v.run > 0
<1> DEFINE s == SourcePixelSize(u.header)
           repeats == CachedByte(u, 1) >= 128
           read == ReadByte(u)
           run == (CachedByte(u, 1) % 128) + 1
           opened == [read EXCEPT !.run = run, !.isRun = repeats]
           pixel == CachedPixel(read)
           repeated == [ReadBytes(opened, s) EXCEPT !.pixel = pixel]
<1>1. v = IF u.left < 1 + s THEN Finishing(u) ELSE IF repeats THEN repeated ELSE opened
  BY DEF Packet
<1>2. Streaming(u) /\ CacheOK(u) /\ DOMAIN u = TgaFields /\ s \in {1, 2, 3, 4} /\ u.left \in Nat
  BY PixelSizes DEF TgaLoaded, TgaReady, Streaming
<1> HIDE DEF s
<1>3. CASE u.left < 1 + s
  <2>1. v = [u EXCEPT !.out = "Finished"]
    BY <1>1, <1>3 DEF Finishing
  <2>2. DOMAIN v = DOMAIN u /\ v.out = "Finished"
        /\ \A x \in TgaFields \ {"out"} : v[x] = u[x]
    BY <1>2, <2>1 DEF TgaFields, Base
  <2>3. v.run = u.run /\ v.x = u.x /\ v.y = u.y
    BY <2>2 DEF TgaFields, Base
  <2>4. v.run \in Nat
    BY <2>3 DEF TgaLoaded, TgaReady
  <2>5. TgaLoaded(e, v)
    BY <1>2, <2>2, <2>4, TgaSet
  <2> QED BY <2>2, <2>3, <2>5
<1>4. CASE ~(u.left < 1 + s)
  <2>1. run \in Nat /\ run > 0
    <3>1. u.left >= 1
      BY <1>2, <1>4
    <3>2. CachedByte(u, 1) \in Bytes
      BY <1>2, <3>1, CachedByteTyped
    <3> QED BY <3>2 DEF Bytes
  <2>2. Moved(u, read) /\ CacheOK(read)
    BY <1>2, ReadByteMoves, ReadByteCaches
  <2> HIDE DEF read, run, repeats
  <2>3. TgaLoaded(e, read) /\ read.x = u.x /\ read.y = u.y
    <3>1. Filled(u, read) /\ read.out # "Failed"
      BY <2>2, MovedFills DEF Moved, TgaLoaded
    <3> QED BY <2>2, <3>1, TgaFilled
  <2>4. DOMAIN read = TgaFields
    BY <2>3 DEF TgaLoaded, TgaReady
  <2>5. /\ DOMAIN opened = DOMAIN read /\ opened.run = run
        /\ \A x \in TgaFields \ {"run", "isRun"} : opened[x] = read[x]
    BY <2>4 DEF TgaFields, Base
  <2> HIDE DEF opened
  <2>6. opened.x = read.x /\ opened.y = read.y /\ opened.out = read.out
    BY <2>5 DEF TgaFields, Base
  <2>7. TgaLoaded(e, opened)
    <3>1. opened.out \in {"more", "throw", "Finished"} /\ opened.run \in Nat
      BY <2>1, <2>3, <2>5, <2>6 DEF TgaLoaded
    <3> QED BY <2>3, <2>4, <2>5, <3>1, TgaSet
  <2>8. CASE ~repeats
    <3>1. v = opened
      BY <1>1, <1>4, <2>8
    <3> QED BY <2>1, <2>3, <2>5, <2>6, <2>7, <3>1
  <2>9. CASE repeats
    <3>1. PICK r : r = ReadBytes(opened, s)
      OBVIOUS
    <3>2. TgaLoaded(e, r) /\ r.x = opened.x /\ r.y = opened.y /\ r.run = opened.run
      <4>1. s \in Int
        BY <1>2
      <4> QED BY <2>7, <3>1, <4>1, TgaReadBytes
    <3>3. v = [r EXCEPT !.pixel = pixel]
      BY <1>1, <1>4, <2>9, <3>1
    <3>4. DOMAIN r = TgaFields
      BY <3>2 DEF TgaLoaded, TgaReady
    <3> HIDE DEF pixel
    <3>5. DOMAIN v = DOMAIN r /\ \A x \in TgaFields \ {"pixel"} : v[x] = r[x]
      BY <3>3, <3>4
    <3>6. v.x = r.x /\ v.y = r.y /\ v.run = r.run /\ v.out = r.out
      BY <3>5 DEF TgaFields, Base
    <3>7. v.run \in Nat /\ v.out \in {"more", "throw", "Finished"}
      BY <2>1, <2>5, <3>2, <3>6 DEF TgaLoaded
    <3>8. TgaLoaded(e, v)
      BY <3>2, <3>4, <3>5, <3>7, TgaSet
    <3> QED BY <2>1, <2>3, <2>5, <2>6, <3>2, <3>6, <3>8
  <2> QED BY <2>8, <2>9
<1> QED BY <1>3, <1>4

LEMMA PixelsTransferred ==
    ASSUME NEW e, NEW u, TgaLoaded(e, u), u.out = "more", RlePlace(u), u.run > 0, NEW y \in u.locked,
           NEW v, v = Transfer(u, y)
    PROVE  TgaLoaded(e, v) /\ v.y = u.y /\ v.x \in 0 .. u.w
<1>1. DOMAIN u = TgaFields /\ u.run \in Nat /\ u.w \in Nat /\ u.x \in 0 .. u.w - 1
  BY DEF TgaLoaded, TgaReady, RlePlace
<1>2. PICK n : n = AtMost(u.w - u.x, u.run)
  OBVIOUS
<1>3. n \in Nat /\ n <= u.run /\ u.x + n <= u.w
  BY <1>1, <1>2 DEF AtMost
<1>4. PICK t : t = [u EXCEPT !.run = u.run - n, !.x = u.x + n]
  OBVIOUS
<1>5. /\ DOMAIN t = DOMAIN u /\ t.run = u.run - n /\ t.x = u.x + n
      /\ \A x \in TgaFields \ {"run", "x"} : t[x] = u[x]
  BY <1>1, <1>4 DEF TgaFields, Base
<1>6. t.y = u.y /\ t.locked = u.locked /\ t.w = u.w /\ t.out = u.out
  BY <1>5 DEF TgaFields, Base
<1>7. TgaLoaded(e, t)
  <2>1. t.run \in Nat /\ t.out \in {"more", "throw", "Finished"}
    BY <1>1, <1>3, <1>5, <1>6
  <2> QED BY <1>1, <1>5, <2>1, TgaSet
<1>8. Base \subseteq DOMAIN t
  BY <1>1, <1>5 DEF TgaFields
<1>9. ASSUME NEW s, Len(s) = n
      PROVE  TgaLoaded(e, WritePixels(t, u.x, y, s)) /\ WritePixels(t, u.x, y, s).x = t.x
             /\ WritePixels(t, u.x, y, s).y = u.y
  <2>1. y \in t.locked /\ ~(u.x < 0) /\ ~(u.x + Len(s) > t.w)
    BY <1>1, <1>3, <1>6, <1>9
  <2>2. Drawn(t, WritePixels(t, u.x, y, s))
    BY <1>8, <2>1, WriteDraws
  <2> QED BY <1>6, <1>7, <2>2, TgaDrawn
<1>10. CASE u.isRun
  <2>1. PICK s : s = [i \in 1..n |-> u.pixel]
    OBVIOUS
  <2>2. Len(s) = n
    BY <1>3, <2>1
  <2>3. v = WritePixels(t, u.x, y, s)
    BY <1>2, <1>4, <1>10, <2>1 DEF Transfer
  <2> QED BY <1>1, <1>3, <1>5, <1>9, <2>2, <2>3
<1>11. CASE ~u.isRun /\ u.left < n * SourcePixelSize(u.header)
  <2>1. v = [t EXCEPT !.out = "Finished"]
    BY <1>2, <1>4, <1>11 DEF Transfer, Finishing
  <2>2. DOMAIN v = DOMAIN t /\ v.out = "Finished"
        /\ \A x \in TgaFields \ {"out"} : v[x] = t[x]
    BY <1>1, <1>5, <2>1 DEF TgaFields, Base
  <2>3. v.run = t.run /\ v.x = t.x /\ v.y = t.y
    BY <2>2 DEF TgaFields, Base
  <2>4. v.run \in Nat
    BY <1>1, <1>3, <1>5, <2>3
  <2>5. TgaLoaded(e, v)
    BY <1>1, <1>5, <1>7, <2>2, <2>4, TgaSet
  <2> QED BY <1>1, <1>3, <1>5, <1>6, <2>3, <2>5
<1>12. CASE ~u.isRun /\ ~(u.left < n * SourcePixelSize(u.header))
  <2>1. PICK s : s = CachedPixels(u, n)
    OBVIOUS
  <2>2. Len(s) = n
    BY <1>3, <2>1 DEF CachedPixels
  <2>3. PICK w : w = WritePixels(t, u.x, y, s)
    OBVIOUS
  <2>4. TgaLoaded(e, w) /\ w.x = t.x /\ w.y = u.y
    BY <1>9, <2>2, <2>3
  <2>5. n * SourcePixelSize(u.header) \in Int
    <3>1. SourcePixelSize(u.header) \in {1, 2, 3, 4}
      BY PixelSizes DEF TgaLoaded, TgaReady
    <3> QED BY <1>3, <3>1
  <2>6. v = ReadBytes(w, n * SourcePixelSize(u.header))
    BY <1>2, <1>4, <1>12, <2>1, <2>3 DEF Transfer
  <2>7. TgaLoaded(e, v) /\ v.x = w.x /\ v.y = w.y
    BY <2>4, <2>5, <2>6, TgaReadBytes
  <2> QED BY <1>1, <1>3, <1>5, <2>4, <2>7
<1> QED BY <1>10, <1>11, <1>12

LEMMA RleTurnHolds ==
    ASSUME NEW e, NEW u, RleHolds(u, e), u.out = "more", u.header.type \in TgaRleTypes, TgaBatch(e)
    PROVE  RleHolds(RleTurn(u), e)
<1>1. TgaLoaded(e, u) /\ RlePlace(u) /\ u.w \in Nat \ {0} /\ u.run \in Nat /\ TgaSame(e, u)
  BY DEF RleHolds, TgaLoaded, TgaReady
<1>2. CASE u.y = NumRows(u)
  BY <1>2 DEF RleTurn
<1>3. CASE u.y # NumRows(u)
  <2>1. PICK p : p = IF u.run = 0 THEN Packet(u) ELSE u
    OBVIOUS
  <2>2. /\ TgaLoaded(e, p) /\ p.x = u.x /\ p.y = u.y
        /\ p.out = "more" => p.run > 0
    BY <1>1, <2>1, PacketLoaded
  <2>3. CASE p.out # "more"
    <3>1. RleTurn(u) = p
      BY <1>3, <2>1, <2>3 DEF RleTurn
    <3> QED BY <2>2, <2>3, <3>1 DEF RleHolds
  <2>4. CASE p.out = "more"
    <3>1. TgaSame(e, p) /\ p.w = u.w /\ p.locked = u.locked
      BY <1>1, <2>2 DEF TgaLoaded, TgaSame
    <3>2. NumRows(p) = NumRows(u) /\ NumRows(u) = NumRows(e) /\ NumRows(e) \in Nat
      <4>1. NumRows(p) = NumRows(e) /\ NumRows(u) = NumRows(e)
        BY <1>1, <3>1, TgaSameBatch
      <4>2. NumRows(u) \in Nat
        BY <1>1, BatchBounds DEF TgaLoaded
      <4> QED BY <4>1, <4>2
    <3>3. RlePlace(p)
      BY <1>1, <2>2, <3>1, <3>2 DEF RlePlace
    <3>4. PICK y : y = BatchRow(u, u.y)
      OBVIOUS
    <3>5. y \in p.locked
      <4>1. u.y \in 0 .. NumRows(u) - 1
        BY <1>1, <1>3, <3>2 DEF RlePlace
      <4>2. TgaBatch(u) /\ TgaReady(u)
        BY <1>1, TgaSameBatch DEF TgaLoaded
      <4> QED BY <3>1, <3>4, <4>1, <4>2, BatchRowLocked
    <3>6. PICK m : m = Transfer(p, y)
      OBVIOUS
    <3>7. TgaLoaded(e, m) /\ m.y = u.y /\ m.x \in 0 .. u.w
      BY <2>2, <2>4, <3>1, <3>3, <3>5, <3>6, PixelsTransferred
    <3>8. m.w = u.w /\ NumRows(m) = NumRows(e)
      BY <1>1, <3>7, TgaSameBatch DEF TgaLoaded, TgaSame
    <3>9. CASE m.x = u.w
      <4>1. PICK v : v = [m EXCEPT !.x = 0, !.y = m.y + 1]
        OBVIOUS
      <4>2. DOMAIN m = TgaFields
        BY <3>7 DEF TgaLoaded, TgaReady
      <4>3. /\ DOMAIN v = DOMAIN m /\ v.x = 0 /\ v.y = m.y + 1
            /\ \A x \in TgaFields \ {"x", "y"} : v[x] = m[x]
        BY <4>1, <4>2 DEF TgaFields, Base
      <4>4. v.run = m.run /\ v.out = m.out /\ v.w = m.w
        BY <4>3 DEF TgaFields, Base
      <4>5. TgaLoaded(e, v)
        <5>1. v.run \in Nat /\ v.out \in {"more", "throw", "Finished"}
          BY <3>7, <4>4 DEF TgaLoaded, TgaReady
        <5> QED BY <3>7, <4>2, <4>3, <5>1, TgaSet
      <4>6. NumRows(v) = NumRows(e)
        BY <4>5, TgaSameBatch DEF TgaLoaded
      <4>7. RlePlace(v)
        BY <1>1, <1>3, <3>2, <3>7, <3>8, <4>3, <4>4, <4>6 DEF RlePlace
      <4>8. RleTurn(u) = v
        BY <1>3, <2>1, <2>4, <3>4, <3>6, <3>8, <3>9, <4>1, <2>2 DEF RleTurn
      <4> QED BY <4>5, <4>7, <4>8 DEF RleHolds
    <3>10. CASE m.x # u.w
      <4>1. RlePlace(m)
        BY <1>1, <3>2, <3>7, <3>8, <3>10 DEF RlePlace
      <4>2. RleTurn(u) = m
        BY <1>3, <2>1, <2>4, <3>4, <3>6, <3>8, <3>10 DEF RleTurn
      <4> QED BY <3>7, <4>1, <4>2 DEF RleHolds
    <3> QED BY <3>9, <3>10
  <2> QED BY <2>3, <2>4
<1> QED BY <1>2, <1>3

\* A batch that is locked, and nothing read of it yet.
TgaBegun(e) == TgaLoaded(e, e) /\ TgaBatch(e) /\ e.out = "more"

LEMMA RleTgaLoaded ==
    ASSUME NEW e, TgaBegun(e), e.header.type \in TgaRleTypes
    PROVE  TgaLoaded(e, RleTga(e))
<1>1. /\ TgaLoaded(e, e) /\ TgaBatch(e) /\ e.w \in Nat \ {0} /\ e.run \in Nat /\ DOMAIN e = TgaFields
  BY DEF TgaBegun, TgaLoaded, TgaReady
<1>2. NumRows(e) \in Nat
  BY <1>1, BatchBounds DEF TgaLoaded
<1>3. PICK b : b = [e EXCEPT !.x = 0, !.y = 0]
  OBVIOUS
<1>4. DOMAIN b = DOMAIN e /\ b.x = 0 /\ b.y = 0 /\ \A x \in TgaFields \ {"x", "y"} : b[x] = e[x]
  BY <1>1, <1>3 DEF TgaFields, Base
<1>5. b.run = e.run /\ b.out = e.out /\ b.w = e.w
  BY <1>4 DEF TgaFields, Base
<1>6. TgaLoaded(e, b)
  <2>1. b.run \in Nat /\ b.out \in {"more", "throw", "Finished"}
    BY <1>1, <1>5 DEF TgaLoaded
  <2> QED BY <1>1, <1>4, <2>1, TgaSet
<1>7. RleHolds(b, e)
  <2>1. NumRows(b) = NumRows(e)
    BY <1>6, TgaSameBatch DEF TgaLoaded
  <2>2. RlePlace(b)
    BY <1>1, <1>2, <1>4, <1>5, <2>1 DEF RlePlace
  <2> QED BY <1>6, <2>2 DEF RleHolds
<1>8. ASSUME NEW u, RleHolds(u, e) PROVE RleHolds(RleTurnOf(u, 0, e), e)
  <2>1. CASE u.out = "more"
    <3>1. u.header.type \in TgaRleTypes
      BY <1>8 DEF RleHolds, TgaLoaded, TgaSame
    <3> QED BY <1>1, <1>8, <2>1, <3>1, RleTurnHolds DEF RleTurnOf
  <2>2. CASE u.out # "more"
    BY <1>8, <2>2 DEF RleTurnOf
  <2> QED BY <2>1, <2>2
<1>9. PICK n \in Int : n = e.w * NumRows(e)
  BY <1>1, <1>2
<1>10. \A u : \A i \in 1..n : RleHolds(u, e) => RleHolds(RleTurnOf(u, i, e), e)
  BY <1>8 DEF RleTurnOf
<1>11. RleHolds(Rle!Result(b, Rle!Counted(n), e), e)
  BY <1>7, <1>10, AllNumbers, Rle!TurnsHold DEF Rle!Inductive
<1>12. RleTga(e) = Rle!Result([e EXCEPT !.x = 0, !.y = 0], Rle!Counted(e.w * NumRows(e)), e)
  BY DEF RleTga, Repeated, RleTurnOf, Rle!Result, Rle!Counted, FoldLeft, MapThenFoldSet,
         Max, Rle!Last
<1>13. RleTga(e) = Rle!Result(b, Rle!Counted(n), e)
  BY <1>3, <1>9, <1>12
<1> QED BY <1>11, <1>13 DEF RleHolds

\* The rows of a raw picture.
LEMMA RawPixelsLength ==
    ASSUME NEW h, h.depth \in TgaDepths, NEW w \in Nat, NEW m \in Nat, m <= w * SourcePixelSize(h)
    PROVE  LET s == SourcePixelSize(h) IN (m + s - 1) \div s \in Nat /\ (m + s - 1) \div s <= w
<1>1. CASE SourcePixelSize(h) = 1
  BY <1>1
<1>2. CASE SourcePixelSize(h) = 2
  BY <1>2
<1>3. CASE SourcePixelSize(h) = 3
  BY <1>3
<1>4. CASE SourcePixelSize(h) = 4
  BY <1>4
<1> QED BY <1>1, <1>2, <1>3, <1>4, PixelSizes

LEMMA RawTgaRowLoaded ==
    ASSUME NEW e, NEW u, TgaLoaded(e, u), u.header.type \notin TgaRleTypes, NEW y \in u.locked
    PROVE  TgaLoaded(e, RawTgaRow(u, y))
<1>1. /\ Streaming(u) /\ u.w \in Nat /\ u.header.depth \in TgaDepths /\ Base \subseteq DOMAIN u
  BY DEF TgaLoaded, TgaReady, Streaming
<1>2. PICK s \in {1, 2, 3, 4} : s = SourcePixelSize(u.header)
  BY <1>1, PixelSizes
<1>3. PICK n \in Nat : n = u.w * s
  BY <1>1, <1>2
<1>4. PICK m \in Nat : m <= n /\ Len(Upcoming(u, n)) = m
  BY <1>1, UpcomingLength
<1>5. PICK p : p = RawTgaPixels(u, Upcoming(u, n), [x \in 1..u.w |-> u.surf[<<x - 1, y>>]])
  OBVIOUS
<1>6. PICK l \in Nat : l = (m + s - 1) \div s /\ l <= u.w
  BY <1>1, <1>2, <1>3, <1>4, RawPixelsLength
<1>7. Len(p) = l
  <2> DEFINE old == [x \in 1..u.w |-> u.surf[<<x - 1, y>>]]
             byte(x) == [i \in 1..s |-> IF s * (x - 1) + i <= Len(Upcoming(u, n))
                                        THEN Upcoming(u, n)[s * (x - 1) + i] ELSE old[x][i]]
  <2>1. p = [x \in 1 .. (Len(Upcoming(u, n)) + s - 1) \div s |-> byte(x)]
    BY <1>2, <1>5 DEF RawTgaPixels
  <2> HIDE DEF byte
  <2>2. p = [x \in 1 .. l |-> byte(x)]
    BY <1>4, <1>6, <2>1
  <2> QED BY <2>2
<1>8. PICK w : w = WritePixels(u, 0, y, p)
  OBVIOUS
<1>9. Drawn(u, w)
  <2>1. ~(0 < 0) /\ ~(0 + Len(p) > u.w)
    BY <1>1, <1>6, <1>7
  <2> QED BY <1>1, <1>8, <2>1, WriteDraws
<1>10. TgaLoaded(e, w) /\ w.out = u.out
  BY <1>9, TgaDrawn
<1>11. RawTgaRow(u, y) = ReadFull(w, n)
  BY <1>2, <1>3, <1>5, <1>8 DEF RawTgaRow
<1>12. PICK r : r = ReadFull(w, n)
  OBVIOUS
<1>13. Moved(w, r)
  BY <1>10, <1>12, ReadFullMoves DEF TgaLoaded, TgaReady
<1>14. Filled(w, r) /\ r.out # "Failed"
  BY <1>10, <1>13, MovedFills DEF Moved, TgaLoaded
<1>15. w.header.type \notin TgaRleTypes
  BY <1>1, <1>9 DEF Drawn, TgaLoaded, TgaReady, TgaFields
<1> QED BY <1>10, <1>11, <1>12, <1>14, <1>15, TgaFilled

LEMMA Raw24RowLoaded ==
    ASSUME NEW e, NEW u, TgaLoaded(e, u), NEW y \in u.locked
    PROVE  TgaLoaded(e, Raw24Row(u, y))
<1>1. /\ u.left \in Nat /\ u.w \in Nat /\ Base \subseteq DOMAIN u
  BY DEF TgaLoaded, TgaReady, Streaming
<1>2. PICK n : n = AtMost(u.w, u.left \div 3)
  OBVIOUS
<1>3. n \in Nat /\ n <= u.w
  BY <1>1, <1>2 DEF AtMost
<1>4. PICK p : p = CachedPixels(u, n)
  OBVIOUS
<1>5. Len(p) = n
  BY <1>3, <1>4 DEF CachedPixels
<1>6. PICK w : w = WritePixels(u, 0, y, p)
  OBVIOUS
<1>7. TgaLoaded(e, w)
  <2>1. ~(0 < 0) /\ ~(0 + Len(p) > u.w)
    BY <1>1, <1>3, <1>5
  <2>2. Drawn(u, w)
    BY <1>1, <1>6, <2>1, WriteDraws
  <2> QED BY <2>2, TgaDrawn
<1>8. PICK m \in Int : m = 3 * u.w
  BY <1>1
<1>9. Raw24Row(u, y) = ReadBytes(w, m)
  BY <1>2, <1>4, <1>6, <1>8 DEF Raw24Row
<1> QED BY <1>7, <1>9, TgaReadBytes

RawTurnOf(u, k, e) ==
    IF u.out # "more" THEN u
    ELSE IF u.header.depth = 24 THEN Raw24Row(u, BatchRow(e, k - 1))
    ELSE RawTgaRow(u, BatchRow(e, k - 1))
RawHolds(u, e) == TgaLoaded(e, u)

Raw == INSTANCE Loops WITH Step <- RawTurnOf, Holds <- RawHolds

LEMMA RawTgaLoaded ==
    ASSUME NEW e, TgaBegun(e), e.header.type \notin TgaRleTypes
    PROVE  TgaLoaded(e, RawTga(e))
<1>1. TgaLoaded(e, e) /\ TgaBatch(e) /\ TgaReady(e)
  BY DEF TgaBegun, TgaLoaded
<1>2. PICK n \in Nat : n = NumRows(e)
  BY <1>1, BatchBounds
<1>3. ASSUME NEW u, NEW k \in 1..n, TgaLoaded(e, u)
      PROVE  TgaLoaded(e, RawTurnOf(u, k, e))
  <2>1. PICK y : y = BatchRow(e, k - 1)
    OBVIOUS
  <2>2. y \in e.locked
    <3>1. k - 1 \in 0 .. NumRows(e) - 1
      BY <1>2
    <3> QED BY <1>1, <2>1, <3>1, BatchRowLocked
  <2>3. u.locked = e.locked /\ u.header.type \notin TgaRleTypes
    BY <1>3 DEF TgaLoaded, TgaSame
  <2>4. TgaLoaded(e, Raw24Row(u, y)) /\ TgaLoaded(e, RawTgaRow(u, y))
    BY <1>3, <2>2, <2>3, Raw24RowLoaded, RawTgaRowLoaded
  <2> QED BY <1>3, <2>1, <2>4 DEF RawTurnOf
<1>4. \A u : \A k \in 1..n : RawHolds(u, e) => RawHolds(RawTurnOf(u, k, e), e)
  BY <1>3 DEF RawHolds
<1>5. RawHolds(e, e)
  BY <1>1 DEF RawHolds
<1>6. RawHolds(Raw!Result(e, Raw!Counted(n), e), e)
  <2>1. n \in Int
    OBVIOUS
  <2> QED BY <1>4, <1>5, <2>1, AllNumbers, Raw!TurnsHold DEF Raw!Inductive
<1>7. RawTga(e) = Raw!Result(e, Raw!Counted(NumRows(e)), e)
  BY DEF RawTga, RawTurnOf, Raw!Result, Raw!Counted, FoldLeft, MapThenFoldSet,
         Max, Raw!Last
<1> QED BY <1>2, <1>6, <1>7 DEF RawHolds

LEMMA ProcessTgaSound ==
    ASSUME NEW e, TgaReady(e), e.out = "more", e.locked = {}
    PROVE  /\ Sound(ProcessTga(e))
           /\ ProcessTga(e).out = "more" => TgaReady(ProcessTga(e))
<1>1. /\ Streaming(e) /\ e.h \in Nat /\ DOMAIN e = TgaFields
  BY DEF TgaReady
<1>2. PICK n : n = NumRows(e)
  OBVIOUS
<1>3. PICK f : f = StartScan(e)
  OBVIOUS
<1>4. n \in Nat \ {0} /\ f \in Nat /\ f + n <= e.h
  BY <1>2, <1>3, BatchBounds
<1>5. PICK b : b = PrepareBatch(e)
  OBVIOUS
<1>6. Locked(e, b, f, n) /\ Streaming(b) /\ b.out = "more"
  BY <1>1, <1>2, <1>3, <1>4, <1>5, LocksRows DEF PrepareBatch
<1>7. TgaBegun(b) /\ b.h = e.h /\ b.header = e.header /\ b.scanline = e.scanline
  <2>1. DOMAIN b = TgaFields /\ \A x \in TgaFields \ {"locked"} : b[x] = e[x]
    BY <1>1, <1>6 DEF Locked
  <2>2. b.w = e.w /\ b.h = e.h /\ b.header = e.header /\ b.scanline = e.scanline /\ b.run = e.run
        /\ b.data = e.data /\ b.left = e.left /\ b.pos = e.pos /\ b.at = e.at /\ b.size = e.size
    BY <2>1 DEF TgaFields, Base
  <2>3. CacheOK(e) => CacheOK(b)
    BY <2>2 DEF CacheOK, VirtualFilePosition
  <2>4. TgaReady(b)
    BY <1>6, <2>1, <2>2, <2>3 DEF TgaReady
  <2>5. NumRows(b) = n
    BY <1>2, <2>2 DEF NumRows
  <2>6. StartScan(b) = f
    BY <1>2, <1>3, <2>2, <2>5 DEF StartScan
  <2>7. TgaBatch(b)
    BY <1>6, <2>5, <2>6 DEF TgaBatch, Locked
  <2> QED BY <1>6, <2>2, <2>4, <2>7 DEF TgaBegun, TgaLoaded, TgaSame
<1>8. PICK r : r = IF e.header.type \in TgaRleTypes THEN RleTga(b) ELSE RawTga(b)
  OBVIOUS
<1>9. TgaLoaded(b, r)
  BY <1>7, <1>8, RleTgaLoaded, RawTgaLoaded
<1>10. /\ DOMAIN r = TgaFields /\ TgaReady(r) /\ r.h = e.h /\ r.header = e.header /\ r.scanline = e.scanline
       /\ r.out \in {"more", "throw", "Finished"} /\ r.scanline \in 0 .. r.h /\ r.header.flipVertical \in BOOLEAN
  BY <1>7, <1>9 DEF TgaLoaded, TgaReady, TgaSame
<1>11. CASE r.out = "throw"
  <2>1. ProcessTga(e) = r
    BY <1>5, <1>6, <1>8, <1>11 DEF ProcessTga
  <2> QED BY <1>10, <1>11, <2>1 DEF Sound, Outs, TgaFields
<1>12. CASE r.out \in {"more", "Finished"}
  <2>1. PICK s : s = IF r.header.flipVertical THEN r.scanline - NumRows(r) ELSE r.scanline + NumRows(r)
    OBVIOUS
  <2>2. PICK last \in BOOLEAN : last = (s = (IF r.header.flipVertical THEN 0 ELSE r.h))
    OBVIOUS
  <2>3. PICK o : o = IF last THEN "Finished" ELSE r.out
    OBVIOUS
  <2>4. PICK g : g = AlphaReset(r, Mirrored(r))
    OBVIOUS
  <2>5. PICK v : v = [r EXCEPT !.surf = g, !.scanline = s, !.out = o]
    OBVIOUS
  <2>6. FinalizeBatch(r) = v
    BY <2>1, <2>2, <2>3, <2>4, <2>5 DEF FinalizeBatch
  <2>7. ProcessTga(e) = v
    BY <1>5, <1>6, <1>8, <1>12, <2>6 DEF ProcessTga
  <2>8. DOMAIN v = TgaFields /\ v.scanline = s /\ v.out = o
        /\ \A x \in TgaFields \ {"surf", "scanline", "out"} : v[x] = r[x]
    BY <1>10, <2>5 DEF TgaFields, Base
  <2>9. o \in Outs
    BY <1>12, <2>3 DEF Outs
  <2>10. ASSUME o = "more" PROVE TgaReady(v)
    <3>1. ~last /\ NumRows(r) \in Nat \ {0} /\ StartScan(r) \in Nat /\ StartScan(r) + NumRows(r) <= r.h
      BY <1>10, <2>3, <2>10, BatchBounds
    <3>2. r.h \in Nat
      BY <1>1, <1>10
    <3>3. s \in 0 .. r.h /\ IF r.header.flipVertical THEN s > 0 ELSE s < r.h
      <4>1. CASE r.header.flipVertical
        <5>1. StartScan(r) = s
          BY <2>1, <4>1 DEF StartScan
        <5>2. s # 0
          BY <2>2, <3>1, <4>1
        <5> QED BY <3>1, <3>2, <4>1, <5>1, <5>2
      <4>2. CASE ~r.header.flipVertical
        <5>1. StartScan(r) = r.scanline /\ s = r.scanline + NumRows(r)
          BY <2>1, <4>2 DEF StartScan
        <5>2. s # r.h
          BY <2>2, <3>1, <4>2
        <5> QED BY <3>1, <3>2, <4>2, <5>1, <5>2
      <4> QED BY <4>1, <4>2
    <3>4. v.w = r.w /\ v.h = r.h /\ v.header = r.header /\ v.run = r.run
          /\ v.data = r.data /\ v.left = r.left /\ v.pos = r.pos /\ v.at = r.at /\ v.size = r.size
      BY <2>8 DEF TgaFields, Base
    <3>5. Streaming(v)
      BY <1>10, <2>8 DEF TgaReady, Streaming, TgaFields, Base
    <3>6. CacheOK(r) => CacheOK(v)
      BY <3>4 DEF CacheOK, VirtualFilePosition
    <3> QED BY <1>10, <2>8, <3>3, <3>4, <3>5, <3>6 DEF TgaReady
  <2> QED BY <2>7, <2>8, <2>9, <2>10 DEF Sound, TgaFields
<1> QED BY <1>10, <1>11, <1>12

-----------------------------------------------------------------------------
(* CodecWebp                                                               *)

WebpFields == Base \cup {"header", "frames"}

WebpReady(e) == DOMAIN e = WebpFields /\ Streaming(e)

LEMMA WebpSurfaceReady ==
    ASSUME NEW e, WebpReady(e)
    PROVE  WebpReady(WebpSurface(e)) /\ WebpSurface(e).out = e.out /\ WebpSurface(e).locked = e.locked
<1>1. CASE WebpSurface(e) = e
  BY <1>1
<1>2. CASE WebpSurface(e) # e
  <2>1. PICK w, h : w = FrameOf(e).w /\ h = FrameOf(e).h
    OBVIOUS
  <2>2. PICK t : t = [e EXCEPT !.w = w, !.h = h]
    OBVIOUS
  <2>3. PICK s : CreateSurface(t, 4, 0) = [t EXCEPT !.surf = s]
    BY DEF CreateSurface
  <2>4. PICK v : v = [t EXCEPT !.surf = s]
    OBVIOUS
  <2>5. WebpSurface(e) = v
    BY <1>2, <2>1, <2>2, <2>3, <2>4 DEF WebpSurface
  <2>6. DOMAIN v = WebpFields /\ \A x \in WebpFields \ {"w", "h", "surf"} : v[x] = e[x]
    BY <2>2, <2>4 DEF WebpReady, WebpFields, Base
  <2>7. v.out = e.out /\ v.locked = e.locked
    BY <2>6 DEF WebpFields, Base
  <2>8. Streaming(v)
    BY <2>6 DEF WebpReady, Streaming, WebpFields, Base
  <2> QED BY <2>5, <2>6, <2>7, <2>8 DEF WebpReady
<1> QED BY <1>1, <1>2

LEMMA ProcessWebpSound ==
    ASSUME NEW e, WebpReady(e), e.out = "more", e.locked = {}
    PROVE  /\ Sound(ProcessWebp(e))
           /\ ProcessWebp(e).out = "more" => WebpReady(ProcessWebp(e))
<1>1. DOMAIN e = WebpFields /\ Streaming(e)
  BY DEF WebpReady
<1>2. PICK l : l = LockRows(e, 0, e.h)
  OBVIOUS
<1>3. DOMAIN l = WebpFields /\ l.out \in {"more", "throw"}
      /\ \A x \in WebpFields \ {"locked", "out"} : l[x] = e[x]
  <2>1. CASE l = Throw(e)
    BY <1>1, <2>1 DEF Throw, WebpFields, Base
  <2>2. CASE l # Throw(e)
    <3>1. PICK r : l = [e EXCEPT !.locked = r]
      BY <1>2, <2>2 DEF LockRows
    <3> QED BY <1>1, <3>1 DEF WebpFields, Base
  <2> QED BY <2>1, <2>2
<1>4. PICK c : c = WebPDecode(l)
  OBVIOUS
<1>5. DOMAIN c = WebpFields /\ \A x \in WebpFields \ {"surf"} : c[x] = l[x]
  <2>1. CASE c = l
    BY <1>3, <2>1
  <2>2. CASE c # l
    <3>1. PICK s : c = [l EXCEPT !.surf = s]
      BY <1>4, <2>2 DEF WebPDecode
    <3> QED BY <1>3, <3>1 DEF WebpFields, Base
  <2> QED BY <2>1, <2>2
<1>6. PICK a : a = Append(c.frames, c.surf)
  OBVIOUS
<1>7. PICK u : u = Unlock([c EXCEPT !.frames = a])
  OBVIOUS
<1>8. DOMAIN u = WebpFields /\ u.out = l.out
      /\ \A x \in WebpFields \ {"frames", "locked", "surf", "out"} : u[x] = e[x]
  <2>1. DOMAIN u = WebpFields /\ \A x \in WebpFields \ {"frames", "locked"} : u[x] = c[x]
    BY <1>5, <1>7 DEF Unlock, WebpFields, Base
  <2>2. u.out = c.out /\ c.out = l.out
    BY <1>5, <2>1 DEF WebpFields, Base
  <2> QED BY <1>3, <1>5, <2>1, <2>2
<1>9. WebpReady(u)
  BY <1>1, <1>3, <1>8 DEF WebpReady, Streaming, WebpFields, Base
<1>10. CASE Len(e.frames) = Len(e.header.frames)
  <2>1. ProcessWebp(e) = Finishing(e)
    BY <1>10 DEF ProcessWebp
  <2> QED BY <1>1, <2>1, FinishingSound DEF Streaming
<1>11. CASE Len(e.frames) # Len(e.header.frames)
  <2>1. ProcessWebp(e) = WebpSurface(u)
    BY <1>2, <1>4, <1>6, <1>7, <1>11 DEF ProcessWebp
  <2>2. WebpReady(WebpSurface(u)) /\ WebpSurface(u).out \in {"more", "throw"}
    BY <1>3, <1>8, <1>9, WebpSurfaceReady
  <2> QED BY <2>1, <2>2 DEF Sound, Outs, WebpReady, Streaming
<1> QED BY <1>10, <1>11

-----------------------------------------------------------------------------
(* CodecJPEG                                                               *)

JpegFields == Base \cup {"header", "isInit", "scan", "scale", "doFast", "fast", "shown"}

JpegReady(e) ==
    /\ DOMAIN e = JpegFields
    /\ Streaming(e)
    /\ e.w \in Nat /\ e.h \in Nat
    /\ e.header.rowsAtOnce \in Nat
    /\ e.scan \in 0 .. e.h

\* Rows of libjpeg's output: p has the decoder, and the rows locked.
DrawnFrom(u, p) == Drawn(p[2], u)
ShownTurnOf(u, i, p) == WritePixels(u, 0, p[1].scan + i - 1, JpegRow(p[1], p[1].scan + i - 1))

Shown == INSTANCE Loops WITH Step <- ShownTurnOf, Holds <- DrawnFrom

LEMMA DrawnOn ==
    ASSUME NEW e, NEW u, NEW v, Drawn(e, u), Drawn(u, v)
    PROVE  Drawn(e, v)
BY DEF Drawn

LEMMA ScanlinesDrawn ==
    ASSUME NEW e, Streaming(e), e.locked = {}, e.h \in Nat, e.w \in Nat, e.scan \in Nat,
           NEW n \in Nat, e.scan + n <= e.h
    PROVE  Drawn(LockRows(e, e.scan, n), ScanlinesShown(e, n))
<1>1. PICK b : b = LockRows(e, e.scan, n)
  OBVIOUS
<1>2. Locked(e, b, e.scan, n) /\ Streaming(b)
  BY <1>1, LocksRows
<1>3. b.locked = e.scan .. e.scan + n - 1 /\ b.w = e.w /\ Base \subseteq DOMAIN b
  <2>1. b["w"] = e["w"]
    BY <1>2 DEF Locked, Streaming, Base
  <2> QED BY <1>2, <2>1 DEF Locked, Streaming
<1>4. ASSUME NEW u, NEW i \in 1..n, Drawn(b, u)
      PROVE  Drawn(b, ShownTurnOf(u, i, <<e, b>>))
  <2>1. PICK y : y = e.scan + i - 1
    OBVIOUS
  <2>2. PICK w \in Nat : w = e.w
    OBVIOUS
  <2>3. PICK r : r = JpegRow(e, y)
    OBVIOUS
  <2>4. Len(r) = w
    <3> DEFINE pixel(x) == JpegPixel(e.header, JpegSample(e, x - 1, y))
    <3>1. r = [x \in 1..w |-> pixel(x)]
      BY <2>2, <2>3 DEF JpegRow
    <3> HIDE DEF pixel
    <3> QED BY <3>1
  <2>5. u.locked = b.locked /\ u.w = w /\ Base \subseteq DOMAIN u
    <3>1. u["locked"] = b["locked"] /\ u["w"] = b["w"]
      BY <1>3, <1>4 DEF Drawn, Base
    <3> QED BY <1>3, <1>4, <2>2, <3>1 DEF Drawn
  <2>6. y \in u.locked /\ ~(0 < 0) /\ ~(0 + Len(r) > u.w)
    BY <1>3, <2>1, <2>4, <2>5
  <2>7. Drawn(u, WritePixels(u, 0, y, r))
    BY <2>5, <2>6, WriteDraws
  <2>8. ShownTurnOf(u, i, <<e, b>>) = WritePixels(u, 0, y, r)
    BY <2>1, <2>3 DEF ShownTurnOf
  <2> QED BY <1>4, <2>7, <2>8, DrawnOn
<1>5. \A u : \A i \in 1..n : DrawnFrom(u, <<e, b>>) => DrawnFrom(ShownTurnOf(u, i, <<e, b>>), <<e, b>>)
  BY <1>4 DEF DrawnFrom
<1>6. DrawnFrom(b, <<e, b>>)
  BY DEF DrawnFrom, Drawn
<1>7. DrawnFrom(Shown!Result(b, Shown!Counted(n), <<e, b>>), <<e, b>>)
  <2>1. n \in Int
    OBVIOUS
  <2> QED BY <1>5, <1>6, <2>1, AllNumbers, Shown!TurnsHold DEF Shown!Inductive
<1> DEFINE c == LockRows(e, e.scan, n)
<1>8. ScanlinesShown(e, n) = Shown!Result(c, Shown!Counted(n), <<e, c>>)
  BY DEF ScanlinesShown, ShownTurnOf, Shown!Result, Shown!Counted, FoldLeft, MapThenFoldSet,
         Max, Shown!Last
<1>9. c = b
  BY <1>1
<1> HIDE DEF c
<1>10. ScanlinesShown(e, n) = Shown!Result(b, Shown!Counted(n), <<e, b>>)
  BY <1>8, <1>9
<1> QED BY <1>1, <1>7, <1>10 DEF DrawnFrom

\* A chunk is read in a record with one more field.
JpegTurnFields == JpegFields \cup {"first"}
JpegHolds(u, e) ==
    /\ DOMAIN u = JpegTurnFields
    /\ Streaming(u)
    /\ \A x \in {"w", "h", "header", "locked", "data"} : u[x] = e[x]
    /\ u.scan \in 0 .. e.h
    /\ u.out \in {"more", "Failed"}
JpegTurnOf(u, i, e) == IF u.out = "more" THEN ScanlinesTurn(u) ELSE u

Jpeg == INSTANCE Loops WITH Step <- JpegTurnOf, Holds <- JpegHolds

LEMMA ScanlinesReadHolds ==
    ASSUME NEW e, JpegReady(e), e.locked = {}, NEW u, JpegHolds(u, e), u.out = "more", u.scan < u.h
    PROVE  JpegHolds(ScanlinesRead(u), e)
<1>1. /\ Streaming(u) /\ u.w \in Nat /\ u.h \in Nat /\ u.header.rowsAtOnce \in Nat /\ u.locked = {}
      /\ u.scan \in 0 .. u.h /\ u.h = e.h /\ DOMAIN u = JpegTurnFields
  BY DEF JpegReady, JpegHolds
<1>2. PICK n : n = AtMost(AtMost(u.header.rowsAtOnce, JpegChunkRows), u.h - u.scan)
  OBVIOUS
<1>3. n \in Nat /\ u.scan + n <= u.h
  BY <1>1, <1>2, LibraryAssumption DEF AtMost
<1>4. CASE ScanlinesRead(u) = Failing(u)
  <2>1. PICK v : v = [u EXCEPT !.out = "Failed"]
    OBVIOUS
  <2>2. DOMAIN v = JpegTurnFields /\ v.out = "Failed" /\ \A x \in JpegTurnFields \ {"out"} : v[x] = u[x]
    BY <1>1, <2>1 DEF JpegTurnFields, JpegFields, Base
  <2>3. Streaming(v)
    BY <1>1, <2>2 DEF Streaming, JpegTurnFields, JpegFields, Base
  <2>4. \A x \in {"w", "h", "header", "locked", "scan", "data"} : v[x] = u[x]
    BY <2>2 DEF JpegTurnFields, JpegFields, Base
  <2>5. JpegHolds(v, e)
    BY <2>2, <2>3, <2>4 DEF JpegHolds
  <2> QED BY <1>4, <2>1, <2>5 DEF Failing
<1>5. CASE ScanlinesRead(u) # Failing(u)
  <2>1. PICK b : b = LockRows(u, u.scan, n)
    OBVIOUS
  <2>2. Locked(u, b, u.scan, n) /\ b.out = "more"
    BY <1>1, <1>3, <2>1, LocksRows
  <2>3. PICK s : s = ScanlinesShown(u, n)
    OBVIOUS
  <2>4. Drawn(b, s)
    BY <1>1, <1>3, <2>1, <2>3, ScanlinesDrawn
  <2>5. DOMAIN s = JpegTurnFields /\ \A x \in JpegTurnFields \ {"locked", "surf"} : s[x] = u[x]
    BY <1>1, <2>2, <2>4 DEF Locked, Drawn
  <2>6. PICK v : v = [Unlock(s) EXCEPT !.scan = @ + n]
    OBVIOUS
  <2>7. ScanlinesRead(u) = v
    BY <1>2, <1>5, <2>3, <2>6 DEF ScanlinesRead
  <2>8. s.scan = u.scan
    BY <2>5 DEF JpegTurnFields, JpegFields, Base
  <2>9. DOMAIN v = JpegTurnFields /\ v.scan = u.scan + n /\ v.locked = {}
        /\ \A x \in JpegTurnFields \ {"locked", "scan"} : v[x] = s[x]
    BY <2>5, <2>6, <2>8 DEF Unlock, JpegTurnFields, JpegFields, Base
  <2>10. \A x \in JpegTurnFields \ {"locked", "surf", "scan"} : v[x] = u[x]
    BY <2>5, <2>9
  <2>11. Streaming(v)
    BY <1>1, <2>9, <2>10 DEF Streaming, JpegTurnFields, JpegFields, Base
  <2>12. /\ v["w"] = u["w"] /\ v["h"] = u["h"] /\ v["header"] = u["header"] /\ v["out"] = u["out"]
         /\ v["data"] = u["data"]
    BY <2>10 DEF JpegTurnFields, JpegFields, Base
  <2>13. v["locked"] = u["locked"]
    BY <1>1, <2>9
  <2> QED BY <1>1, <1>3, <2>7, <2>9, <2>11, <2>12, <2>13 DEF JpegHolds
<1> QED BY <1>4, <1>5

LEMMA JpegTurnsHold ==
    ASSUME NEW e, JpegReady(e), e.locked = {}, e.out = "more"
    PROVE  JpegHolds(JpegTurns(e), e)
<1>1. /\ DOMAIN e = JpegFields /\ Streaming(e) /\ e.scan \in 0 .. e.h /\ e.h \in Nat
  BY DEF JpegReady
<1>2. PICK s : s = WithFields(e, [first |-> e.scan])
  OBVIOUS
<1>3. DOMAIN s = JpegTurnFields /\ \A x \in JpegFields : s[x] = e[x]
  <2>1. DOMAIN [first |-> e.scan] = {"first"}
    OBVIOUS
  <2> QED BY <1>1, <1>2, <2>1 DEF WithFields, JpegTurnFields
<1>4. JpegHolds(s, e)
  <2>1. Streaming(s)
    BY <1>1, <1>3 DEF Streaming, JpegTurnFields, JpegFields, Base
  <2>2. \A x \in {"w", "h", "header", "locked", "out", "scan", "data"} : s[x] = e[x]
    BY <1>3 DEF JpegFields, Base
  <2> QED BY <1>1, <1>3, <2>1, <2>2 DEF JpegHolds
<1>5. ASSUME NEW u, JpegHolds(u, e) PROVE JpegHolds(JpegTurnOf(u, 0, e), e)
  <2>1. CASE u.out = "more" /\ u.scan < u.h
    <3>1. JpegHolds(ScanlinesRead(u), e)
      BY <1>5, <2>1, ScanlinesReadHolds
    <3> QED BY <1>5, <3>1 DEF JpegTurnOf, ScanlinesTurn
  <2>2. CASE u.out = "more" /\ ~(u.scan < u.h)
    <3>1. u.scan >= u.h
      <4>1. u.h = e.h /\ u.scan \in 0 .. e.h
        BY <1>5 DEF JpegHolds
      <4> QED BY <1>1, <2>2, <4>1
    <3> QED BY <1>5, <3>1 DEF JpegTurnOf, ScanlinesTurn
  <2>3. CASE u.out # "more"
    BY <1>5, <2>3 DEF JpegTurnOf
  <2> QED BY <2>1, <2>2, <2>3
<1>6. PICK n \in Int : n = JpegChunkRows
  BY LibraryAssumption
<1>7. \A u : \A i \in 1..n : JpegHolds(u, e) => JpegHolds(JpegTurnOf(u, i, e), e)
  BY <1>5 DEF JpegTurnOf
<1>8. JpegHolds(Jpeg!Result(s, Jpeg!Counted(n), e), e)
  BY <1>4, <1>7, AllNumbers, Jpeg!TurnsHold DEF Jpeg!Inductive
<1>9. JpegTurns(e) = Jpeg!Result(WithFields(e, [first |-> e.scan]), Jpeg!Counted(JpegChunkRows), e)
  BY DEF JpegTurns, Repeated, JpegTurnOf, Jpeg!Result, Jpeg!Counted, FoldLeft, MapThenFoldSet,
         Max, Jpeg!Last
<1>10. JpegTurns(e) = Jpeg!Result(s, Jpeg!Counted(n), e)
  BY <1>2, <1>6, <1>9
<1> QED BY <1>8, <1>10

LEMMA ProcessJpegSound ==
    ASSUME NEW e, JpegReady(e), e.out = "more", e.locked = {}
    PROVE  /\ Sound(ProcessJpeg(e))
           /\ ProcessJpeg(e).out = "more" => JpegReady(ProcessJpeg(e))
<1>1. /\ DOMAIN e = JpegFields /\ Streaming(e) /\ e.scan \in 0 .. e.h /\ e.h \in Nat
  BY DEF JpegReady
<1>2. ASSUME NEW u, Base \cup {"isInit", "fast", "doFast"} \subseteq DOMAIN u
      PROVE  Base \cup {"isInit", "fast", "doFast"} \subseteq DOMAIN Destroyed(u) /\ Destroyed(u).out = u.out
  <2>1. PICK s : Destroyed(u) = [u EXCEPT !.isInit = FALSE, !.fast = s]
    BY DEF Destroyed
  <2> QED BY <1>2, <2>1 DEF Base
<1>3. CASE e.scan >= e.h
  <2>1. PICK u : u = FinalizeSurface(e)
    OBVIOUS
  <2>2. DOMAIN u = JpegFields
    BY <1>1, <2>1 DEF FinalizeSurface
  <2>3. PICK v : v = Destroyed(u)
    OBVIOUS
  <2>4. Base \subseteq DOMAIN v
    BY <1>2, <2>2, <2>3 DEF JpegFields
  <2>5. ProcessJpeg(e) = Finishing(v)
    BY <1>3, <2>1, <2>3 DEF ProcessJpeg
  <2> QED BY <2>4, <2>5, FinishingSound
<1>4. CASE ~(e.scan >= e.h)
  <2>1. PICK t : t = JpegTurns(e)
    OBVIOUS
  <2>2. JpegHolds(t, e)
    BY <2>1, JpegTurnsHold
  <2>3. PICK v : v = [f \in DOMAIN e |-> t[f]]
    OBVIOUS
  <2>4. DOMAIN v = JpegFields /\ \A f \in JpegFields : v[f] = t[f]
    BY <1>1, <2>3
  <2>5. \A x \in {"w", "h", "header", "locked", "out", "scan"} : v[x] = t[x]
    BY <2>4 DEF JpegFields, Base
  <2>6. v.w = e.w /\ v.h = e.h /\ v.header = e.header /\ v.scan \in 0 .. e.h /\ v.out \in {"more", "Failed"}
    BY <2>2, <2>5 DEF JpegHolds
  <2>7. Streaming(v)
    BY <2>2, <2>4 DEF JpegHolds, Streaming, JpegFields, Base
  <2>8. JpegReady(v)
    BY <2>4, <2>6, <2>7 DEF JpegReady
  <2>9. CASE v.out = "Failed"
    <3>1. ProcessJpeg(e) = Destroyed(v)
      BY <1>4, <2>1, <2>3, <2>9 DEF ProcessJpeg
    <3>2. Base \subseteq DOMAIN Destroyed(v) /\ Destroyed(v).out = "Failed"
      BY <1>2, <2>4, <2>9 DEF JpegFields
    <3> QED BY <3>1, <3>2 DEF Sound, Outs
  <2>10. CASE v.out = "more"
    <3>1. ProcessJpeg(e) = v
      BY <1>4, <2>1, <2>3, <2>10 DEF ProcessJpeg
    <3> QED BY <2>7, <2>8, <2>10, <3>1 DEF Sound, Outs, Streaming
  <2> QED BY <2>6, <2>9, <2>10
<1> QED BY <1>3, <1>4


\* However a chunk ends, the decoder may begin again, with the picture after the preview.
JpegSame(e, u) ==
    /\ DOMAIN u = JpegFields
    /\ Streaming(u)
    /\ \A x \in {"header", "locked", "data"} : u[x] = e[x]

LEMMA JpegSameBut ==
    ASSUME NEW e, NEW u, JpegSame(e, u), NEW v, DOMAIN v = JpegFields,
           \A x \in JpegFields \ {"shown", "isInit", "fast", "out"} : v[x] = u[x]
    PROVE  JpegSame(e, v)
<1>1. \A x \in {"data", "pos", "open", "left", "at", "size", "header", "locked"} : v[x] = u[x]
  BY DEF JpegFields, Base
<1>2. /\ v.data = u.data /\ v.pos = u.pos /\ v.open = u.open
      /\ v.left = u.left /\ v.at = u.at /\ v.size = u.size
  BY <1>1
<1>3. Streaming(v)
  BY <1>2 DEF JpegSame, Streaming
<1> QED BY <1>1, <1>3 DEF JpegSame

LEMMA ProcessJpegSame ==
    ASSUME NEW e, JpegReady(e), e.out = "more", e.locked = {}
    PROVE  JpegSame(e, ProcessJpeg(e))
<1>1. DOMAIN e = JpegFields /\ Streaming(e)
  BY DEF JpegReady
<1>2. ASSUME NEW u, JpegSame(e, u)
      PROVE  /\ JpegSame(e, FinalizeSurface(u)) /\ JpegSame(e, Destroyed(u)) /\ JpegSame(e, Finishing(u))
  <2>1. PICK a : FinalizeSurface(u) = [u EXCEPT !.shown = a]
    BY DEF FinalizeSurface
  <2>2. PICK b : Destroyed(u) = [u EXCEPT !.isInit = FALSE, !.fast = b]
    BY DEF Destroyed
  <2>3. DOMAIN u = JpegFields
    BY <1>2 DEF JpegSame
  <2>4. JpegSame(e, FinalizeSurface(u))
    <3>1. PICK v : v = [u EXCEPT !.shown = a]
      OBVIOUS
    <3>2. DOMAIN v = JpegFields /\ \A x \in JpegFields \ {"shown", "isInit", "fast", "out"} : v[x] = u[x]
      BY <2>3, <3>1
    <3> QED BY <1>2, <2>1, <3>1, <3>2, JpegSameBut
  <2>5. JpegSame(e, Destroyed(u))
    <3>1. PICK v : v = [u EXCEPT !.isInit = FALSE, !.fast = b]
      OBVIOUS
    <3>2. DOMAIN v = JpegFields /\ \A x \in JpegFields \ {"shown", "isInit", "fast", "out"} : v[x] = u[x]
      BY <2>3, <3>1
    <3> QED BY <1>2, <2>2, <3>1, <3>2, JpegSameBut
  <2>6. JpegSame(e, Finishing(u))
    <3>1. PICK v : v = Finishing(u)
      OBVIOUS
    <3>2. DOMAIN v = JpegFields /\ \A x \in JpegFields \ {"shown", "isInit", "fast", "out"} : v[x] = u[x]
      BY <2>3, <3>1 DEF Finishing
    <3> QED BY <1>2, <3>1, <3>2, JpegSameBut
  <2> QED BY <2>4, <2>5, <2>6
<1>3. CASE e.scan >= e.h
  <2>1. JpegSame(e, e)
    BY <1>1 DEF JpegSame
  <2>2. JpegSame(e, Finishing(Destroyed(FinalizeSurface(e))))
    BY <1>2, <2>1
  <2> QED BY <1>3, <2>2 DEF ProcessJpeg
<1>4. CASE ~(e.scan >= e.h)
  <2>1. PICK t : t = JpegTurns(e)
    OBVIOUS
  <2>2. JpegHolds(t, e)
    BY <2>1, JpegTurnsHold
  <2>3. PICK v : v = [f \in DOMAIN e |-> t[f]]
    OBVIOUS
  <2>4. DOMAIN v = JpegFields /\ \A f \in JpegFields : v[f] = t[f]
    BY <1>1, <2>3
  <2>5. \A x \in {"header", "locked", "data"} : v[x] = t[x]
    BY <2>4 DEF JpegFields, Base
  <2>6. Streaming(v)
    BY <2>2, <2>4 DEF JpegHolds, Streaming, JpegFields, Base
  <2>7. JpegSame(e, v)
    BY <2>2, <2>4, <2>5, <2>6 DEF JpegHolds, JpegSame
  <2>8. ProcessJpeg(e) = v \/ ProcessJpeg(e) = Destroyed(v)
    BY <1>4, <2>1, <2>3 DEF ProcessJpeg
  <2> QED BY <1>2, <2>7, <2>8
<1> QED BY <1>3, <1>4
-----------------------------------------------------------------------------
(* CodecTIFF                                                               *)

TiffFields == Base \cup {"header", "current", "bufferPosition", "tileX", "tileY"}

TiffHeader(h) ==
    /\ h.tiled \in BOOLEAN /\ h.bits \in Nat \ {0} /\ h.chunkSize \in Nat
    /\ h.at \in Seq(Nat) /\ h.lengths \in Seq(Nat) /\ Len(h.lengths) = Len(h.at)
    /\ h.tiled => h.tileWidth \in Nat \ {0} /\ h.tileHeight \in Nat \ {0}

TiffReady(e) ==
    /\ DOMAIN e = TiffFields
    /\ Streaming(e)
    /\ e.w \in Nat \ {0} /\ e.h \in Nat
    /\ TiffHeader(e.header)
    /\ e.current \in Nat /\ e.current < Len(e.header.at)
    /\ e.bufferPosition \in 0 .. e.h
    /\ e.tileX \in 0 .. e.w - 1 /\ e.tileY \in 0 .. e.h

LEMMA CountedLength ==
    ASSUME NEW f, NEW k \in Int, DOMAIN f = 1..k
    PROVE  Len(f) \in Nat
<1>1. PICK m \in Nat : m = IF k < 0 THEN 0 ELSE k
  OBVIOUS
<1>2. DOMAIN f = 1..m
  BY <1>1
<1> QED BY <1>2

LEMMA RawConvertedLength ==
    ASSUME NEW h, h.bits \in Nat \ {0}, NEW bytes \in Seq(Bytes), NEW width \in Nat \ {0}
    PROVE  Len(RawConverted(h, bytes, width)) \in Nat
<1>1. PICK n \in Nat : n = Len(bytes) /\ DOMAIN bytes = 1..n
  OBVIOUS
<1>2. CASE h.samples = 1 /\ h.bits < 8
  <2>1. PICK m \in Nat : m = width * h.bits /\ m >= 1
    <3>1. PICK a \in Nat \ {0}, b \in Nat \ {0} : a = width /\ b = h.bits
      OBVIOUS
    <3>2. a * b \in Nat /\ a * b >= 1
      OBVIOUS
    <3> QED BY <3>1, <3>2
  <2>2. PICK stride \in Nat \ {0} : stride = (m + 7) \div 8
    BY <2>1
  <2>3. PICK rows \in Int : rows = n \div stride
    OBVIOUS
  <2>4. PICK k \in Int : k = rows * width
    OBVIOUS
  <2>5. PICK f : f = RawConverted(h, bytes, width)
    OBVIOUS
  <2>6. DOMAIN f = 1 .. (Len(bytes) \div ((width * h.bits + 7) \div 8)) * width
    BY <1>2, <2>5 DEF RawConverted
  <2>7. DOMAIN f = 1 .. k
    BY <1>1, <2>1, <2>2, <2>3, <2>4, <2>6
  <2> QED BY <2>5, <2>7, CountedLength
<1>3. CASE h.samples = 1 /\ ~(h.bits < 8) /\ h.bits = 16
  <2>1. RawConverted(h, bytes, width) = [i \in 1 .. n \div 2 |-> <<bytes[2 * i]>>]
    BY <1>1, <1>3 DEF RawConverted
  <2>2. PICK k \in Int : k = n \div 2
    OBVIOUS
  <2> QED BY <2>1, <2>2, CountedLength
<1>4. CASE h.samples = 3
  <2>1. RawConverted(h, bytes, width)
          = [i \in 1 .. n \div 3 |-> <<bytes[3 * i], bytes[3 * i - 1], bytes[3 * i - 2], 255>>]
    BY <1>1, <1>4 DEF RawConverted
  <2>2. PICK k \in Int : k = n \div 3
    OBVIOUS
  <2> QED BY <2>1, <2>2, CountedLength
<1>5. CASE h.samples = 4
  <2>1. RawConverted(h, bytes, width)
          = [i \in 1 .. n \div 4 |-> <<bytes[4 * i - 1], bytes[4 * i - 2], bytes[4 * i - 3], bytes[4 * i]>>]
    BY <1>1, <1>5 DEF RawConverted
  <2>2. PICK k \in Int : k = n \div 4
    OBVIOUS
  <2> QED BY <2>1, <2>2, CountedLength
<1>6. CASE h.samples \notin {3, 4} /\ ~(h.samples = 1 /\ h.bits < 8) /\ ~(h.samples = 1 /\ h.bits = 16)
  <2>1. RawConverted(h, bytes, width) = Indexed(bytes)
    BY <1>6 DEF RawConverted
  <2> QED BY <1>1, <2>1, IndexedLength
<1> QED BY <1>2, <1>3, <1>4, <1>5, <1>6

LEMMA ConvertedLength ==
    ASSUME NEW e, ~Unsupported(e.header), e.header.bits \in Nat \ {0},
           NEW bytes \in Seq(Bytes), NEW width \in Nat \ {0}
    PROVE  Len(Converted(e, bytes, width)) \in Nat
<1>1. CASE e.header.photometric # "YCbCr"
  <2>1. Converted(e, bytes, width) = RawConverted(e.header, bytes, width)
    BY <1>1 DEF Converted
  <2> QED BY <2>1, RawConvertedLength
<1>2. CASE e.header.photometric = "YCbCr"
  <2>1. PICK ver \in {1, 2} : ver = e.header.subsampling[2]
    BY <1>2 DEF Unsupported
  <2>2. PICK m \in Nat : m = Len(bytes)
    OBVIOUS
  <2>3. PICK k \in Int : k = (2 * ver * m) \div (2 * ver + 2)
    OBVIOUS
  <2>4. PICK f : f = YCbCrConverted(e.header, bytes, width)
    OBVIOUS
  <2>5. DOMAIN f = 1 .. (2 * e.header.subsampling[2] * Len(bytes)) \div (2 * e.header.subsampling[2] + 2)
    BY <2>4 DEF YCbCrConverted
  <2>6. DOMAIN f = 1 .. k
    BY <2>1, <2>2, <2>3, <2>5
  <2> QED BY <1>2, <2>4, <2>6, CountedLength DEF Converted
<1> QED BY <1>1, <1>2

\* Rows of the surface: p has the decoder, the rows locked, and where the pixels go.
TiffTurnOf(u, k, p) == WritePixels(u, p[3], p[4] + k - 1, SubSeq(p[6], p[5] * (k - 1) + 1, p[5] * k))

Tiff == INSTANCE Loops WITH Step <- TiffTurnOf, Holds <- DrawnFrom

LEMMA TiffRowsDrawn ==
    ASSUME NEW e, Streaming(e), e.locked = {}, e.w \in Nat, e.h \in Nat, NEW x \in Nat, NEW y \in Nat,
           NEW width \in Nat, x + width <= e.w, NEW rows \in Int, y + rows <= e.h, NEW pixels
    PROVE  Drawn(LockRows(e, 0, e.h), TiffRows(e, x, y, width, rows, pixels))
<1>1. PICK b : b = LockRows(e, 0, e.h)
  OBVIOUS
<1>2. Locked(e, b, 0, e.h) /\ Streaming(b)
  <2>1. PICK h \in Nat : h = e.h
    OBVIOUS
  <2>2. e.h \in Int /\ 0 + h <= e.h
    BY <2>1
  <2>3. Locked(e, LockRows(e, 0, h), 0, h) /\ Streaming(LockRows(e, 0, h))
    BY <2>2, LocksRows
  <2> QED BY <1>1, <2>1, <2>3
<1>3. b.locked = 0 .. e.h - 1 /\ b.w = e.w /\ Base \subseteq DOMAIN b
  <2>1. b["w"] = e["w"]
    BY <1>2 DEF Locked, Streaming, Base
  <2> QED BY <1>2, <2>1 DEF Locked, Streaming
<1> DEFINE q == <<e, b, x, y, width, pixels>>
<1>4. ASSUME NEW u, NEW k \in 1..rows, Drawn(b, u)
      PROVE  Drawn(b, TiffTurnOf(u, k, q))
  <2>1. PICK r : r = y + k - 1
    OBVIOUS
  <2>2. PICK m \in Int : m = width * (k - 1)
    OBVIOUS
  <2>3. width * k = m + width
    BY <2>2
  <2>4. PICK s : s = SubSeq(pixels, m + 1, m + width)
    OBVIOUS
  <2>5. Len(s) = width
    BY <2>4, SubSeqLength
  <2>6. u.locked = b.locked /\ u.w = e.w /\ Base \subseteq DOMAIN u
    <3>1. u["locked"] = b["locked"] /\ u["w"] = b["w"]
      BY <1>3, <1>4 DEF Drawn, Base
    <3> QED BY <1>3, <1>4, <3>1 DEF Drawn
  <2>7. r \in u.locked /\ ~(x < 0) /\ ~(x + Len(s) > u.w)
    BY <1>3, <2>1, <2>5, <2>6
  <2>8. Drawn(u, WritePixels(u, x, r, s))
    BY <2>6, <2>7, WriteDraws
  <2>9. TiffTurnOf(u, k, q) = WritePixels(u, x, r, s)
    BY <2>1, <2>2, <2>3, <2>4 DEF TiffTurnOf
  <2> QED BY <1>4, <2>8, <2>9, DrawnOn
<1>5. \A u : \A k \in 1..rows : DrawnFrom(u, q) => DrawnFrom(TiffTurnOf(u, k, q), q)
  BY <1>4 DEF DrawnFrom
<1>6. DrawnFrom(b, q)
  BY DEF DrawnFrom, Drawn
<1> HIDE DEF q
<1>7. DrawnFrom(Tiff!Result(b, Tiff!Counted(rows), q), q)
  BY <1>5, <1>6, AllNumbers, Tiff!TurnsHold DEF Tiff!Inductive
<1>8. TiffRows(e, x, y, width, rows, pixels)
        = Tiff!Result(LockRows(e, 0, e.h), Tiff!Counted(rows), <<e, LockRows(e, 0, e.h), x, y, width, pixels>>)
  BY DEF TiffRows, TiffTurnOf, Tiff!Result, Tiff!Counted, FoldLeft, MapThenFoldSet,
         Max, Tiff!Last
<1>9. TiffRows(e, x, y, width, rows, pixels) = Tiff!Result(b, Tiff!Counted(rows), q)
  BY <1>1, <1>8 DEF q
<1>10. Drawn(b, TiffRows(e, x, y, width, rows, pixels))
  BY <1>7, <1>9 DEF DrawnFrom, q
<1> QED BY <1>1, <1>10

LEMMA EncodedTyped ==
    ASSUME NEW e, TiffReady(e)
    PROVE  /\ e.header.lengths[e.current + 1] \in Nat
           /\ EncodedBytes(e, e.header.lengths[e.current + 1]) \in Seq(Bytes)
<1>1. /\ e.header.at \in Seq(Nat) /\ e.header.lengths \in Seq(Nat) /\ Len(e.header.lengths) = Len(e.header.at)
      /\ e.current \in Nat /\ e.current < Len(e.header.at) /\ e.data \in Seq(Bytes)
  BY DEF TiffReady, TiffHeader, Streaming
<1>2. e.current + 1 \in 1 .. Len(e.header.at)
  BY <1>1
<1>3. PICK n \in Nat : n = e.header.lengths[e.current + 1]
  BY <1>1, <1>2
<1>4. PICK a \in Nat : a = e.header.at[e.current + 1]
  BY <1>1, <1>2
<1>5. PICK l \in Nat : l = Len(e.data)
  BY <1>1
<1>6. PICK m \in Int : m = AtMost(a + n, l) /\ m <= l
  BY <1>5 DEF AtMost
<1>7. \A i \in a + 1 .. m : e.data[i] \in Bytes
  BY <1>1, <1>5, <1>6
<1>8. SubSeq(e.data, a + 1, m) \in Seq(Bytes)
  BY <1>6, <1>7, SubSeqProperties
<1>9. EncodedBytes(e, n) = SubSeq(e.data, a + 1, m)
  BY <1>4, <1>5, <1>6 DEF EncodedBytes
<1> QED BY <1>3, <1>8, <1>9

\* What is left of a chunk when its rows are shown.
LEMMA TiffShown ==
    ASSUME NEW e, TiffReady(e), e.out = "more", e.locked = {}, NEW s, Drawn(LockRows(e, 0, e.h), s)
    PROVE  /\ DOMAIN s = TiffFields
           /\ \A x \in TiffFields \ {"locked", "surf"} : s[x] = e[x]
<1>1. Streaming(e) /\ e.h \in Nat /\ DOMAIN e = TiffFields
  BY DEF TiffReady
<1>2. PICK h \in Nat : h = e.h
  BY <1>1
<1>3. Locked(e, LockRows(e, 0, h), 0, h)
  <2>1. e.h \in Int /\ 0 + h <= e.h
    BY <1>2
  <2> QED BY <1>1, <2>1, LocksRows
<1> QED BY <1>1, <1>2, <1>3 DEF Locked, Drawn

\* A chunk has moved to the next one.
LEMMA TiffMoved ==
    ASSUME NEW e, TiffReady(e), e.out = "more", NEW v, DOMAIN v = TiffFields,
           \A x \in TiffFields \ {"locked", "surf", "current", "bufferPosition", "tileX", "tileY", "out"} : v[x] = e[x],
           v.current = e.current + 1, v.bufferPosition \in 0 .. e.h,
           v.tileX \in 0 .. e.w - 1, v.tileY \in 0 .. e.h,
           v.out = IF e.current + 1 = Len(e.header.at) THEN "Finished" ELSE "more"
    PROVE  Sound(v) /\ (v.out = "more" => TiffReady(v))
<1>1. /\ e.current \in Nat /\ e.current < Len(e.header.at) /\ Len(e.header.at) \in Nat
  <2>1. e.header.at \in Seq(Nat) /\ e.current \in Nat /\ e.current < Len(e.header.at)
    BY DEF TiffReady, TiffHeader
  <2> QED BY <2>1
<1>2. v.w = e.w /\ v.h = e.h /\ v.header = e.header
  BY DEF TiffFields, Base
<1>3. Streaming(v)
  BY DEF TiffReady, Streaming, TiffFields, Base
<1>4. v.out = "more" => v.current \in Nat /\ v.current < Len(v.header.at)
  BY <1>1, <1>2
<1>5. Sound(v)
  BY DEF Sound, Outs, TiffFields
<1> QED BY <1>2, <1>3, <1>4, <1>5 DEF TiffReady

LEMMA StripSound ==
    ASSUME NEW e, TiffReady(e), e.out = "more", e.locked = {}
    PROVE  /\ Sound(StripChunk(e))
           /\ StripChunk(e).out = "more" => TiffReady(StripChunk(e))
<1>1. /\ Streaming(e) /\ e.w \in Nat \ {0} /\ e.h \in Nat /\ TiffHeader(e.header)
      /\ e.bufferPosition \in 0 .. e.h /\ Base \subseteq DOMAIN e /\ e.tileX \in 0 .. e.w - 1 /\ e.tileY \in 0 .. e.h
  BY DEF TiffReady, Streaming
<1>2. CASE Unsupported(e.header)
  <2>1. StripChunk(e) = Throw(e)
    BY <1>2 DEF StripChunk
  <2>2. Filled(e, Throw(e)) /\ Throw(e).out = "throw"
    BY <1>1, ThrowMoves, MovedFills
  <2> QED BY <2>1, <2>2, FilledSound DEF Outs
<1>3. CASE ~Unsupported(e.header)
  <2>1. PICK l : l = e.header.lengths[e.current + 1]
    OBVIOUS
  <2>2. PICK strip \in Seq(Bytes) : strip = EncodedBytes(e, l)
    BY <2>1, EncodedTyped
  <2>3. PICK bytes \in Seq(Bytes) :
            bytes = IF Len(strip) < l THEN [i \in 1 .. e.header.chunkSize |-> 0] ELSE strip
    <3>1. PICK n \in Nat : n = e.header.chunkSize
      BY <1>1 DEF TiffHeader
    <3>2. 0 \in Bytes
      BY DEF Bytes
    <3>3. [i \in 1..n |-> 0] \in Seq(Bytes)
      BY <3>2
    <3> QED BY <3>1, <3>3
  <2>4. PICK pixels : pixels = Converted(e, bytes, e.w)
    OBVIOUS
  <2>5. PICK k \in Nat : k = Len(pixels)
    BY <1>1, <1>3, <2>4, ConvertedLength DEF TiffHeader
  <2>6. PICK rows \in Int : rows = AtMost(Len(pixels) \div e.w, e.h - e.bufferPosition)
    BY <1>1, <2>5 DEF AtMost
  <2>7. rows >= 0 /\ e.bufferPosition + rows <= e.h
    <3>1. PICK w \in Nat \ {0} : w = e.w
      BY <1>1
    <3>2. k \div w \in Int /\ k \div w >= 0
      OBVIOUS
    <3> QED BY <1>1, <2>5, <2>6, <3>1, <3>2 DEF AtMost
  <2>8. PICK s : s = TiffRows(e, 0, e.bufferPosition, e.w, rows, pixels)
    OBVIOUS
  <2>9. Drawn(LockRows(e, 0, e.h), s)
    <3>1. PICK w \in Nat : w = e.w
      BY <1>1
    <3>2. PICK p \in Nat : p = e.bufferPosition
      BY <1>1
    <3>3. 0 \in Nat /\ 0 + w <= e.w /\ p + rows <= e.h
      BY <2>7, <3>1, <3>2
    <3>4. e.w \in Nat
      BY <1>1
    <3>5. Drawn(LockRows(e, 0, e.h), TiffRows(e, 0, p, w, rows, pixels))
      BY <1>1, <3>3, <3>4, TiffRowsDrawn
    <3> QED BY <2>8, <3>1, <3>2, <3>5
  <2>10. DOMAIN s = TiffFields /\ \A x \in TiffFields \ {"locked", "surf"} : s[x] = e[x]
    BY <2>9, TiffShown
  <2>11. s.current = e.current /\ s.bufferPosition = e.bufferPosition /\ s.out = e.out
         /\ s.tileX = e.tileX /\ s.tileY = e.tileY
    BY <2>10 DEF TiffFields, Base
  <2>12. PICK o : o = IF e.current + 1 = Len(e.header.at) THEN "Finished" ELSE "more"
    OBVIOUS
  <2>13. PICK v : v = [Unlock(s) EXCEPT !.current = e.current + 1, !.bufferPosition = e.bufferPosition + rows, !.out = o]
    OBVIOUS
  <2>14. StripChunk(e) = v
    <3>1. [Unlock(s) EXCEPT !.current = @ + 1, !.bufferPosition = @ + rows,
                            !.out = IF e.current + 1 = Len(e.header.at) THEN "Finished" ELSE @] = v
      BY <2>10, <2>11, <2>12, <2>13 DEF Unlock, TiffFields, Base
    <3>2. StripChunk(e) = [Unlock(s) EXCEPT !.current = @ + 1, !.bufferPosition = @ + rows,
                            !.out = IF e.current + 1 = Len(e.header.at) THEN "Finished" ELSE @]
      BY <1>3, <2>1, <2>2, <2>3, <2>4, <2>6, <2>8 DEF StripChunk
    <3> QED BY <3>1, <3>2
  <2>15. DOMAIN v = TiffFields /\ v.current = e.current + 1 /\ v.bufferPosition = e.bufferPosition + rows /\ v.out = o
         /\ \A x \in TiffFields \ {"locked", "current", "bufferPosition", "out"} : v[x] = s[x]
    BY <2>10, <2>13 DEF Unlock, TiffFields, Base
  <2>16. v.tileX = s.tileX /\ v.tileY = s.tileY
    BY <2>15 DEF TiffFields, Base
  <2>17. v.bufferPosition \in 0 .. e.h
    BY <1>1, <2>7, <2>15
  <2>18. \A x \in TiffFields \ {"locked", "surf", "current", "bufferPosition", "tileX", "tileY", "out"} : v[x] = e[x]
    BY <2>10, <2>15
  <2>19. v.tileX \in 0 .. e.w - 1 /\ v.tileY \in 0 .. e.h
    BY <1>1, <2>11, <2>16
  <2> QED BY <2>12, <2>14, <2>15, <2>17, <2>18, <2>19, TiffMoved
<1> QED BY <1>2, <1>3

LEMMA TileSound ==
    ASSUME NEW e, TiffReady(e), e.header.tiled, e.out = "more", e.locked = {}
    PROVE  /\ Sound(TileChunk(e))
           /\ TileChunk(e).out = "more" => TiffReady(TileChunk(e))
<1>1. /\ Streaming(e) /\ e.w \in Nat \ {0} /\ e.h \in Nat
      /\ e.bufferPosition \in 0 .. e.h /\ Base \subseteq DOMAIN e /\ e.tileX \in 0 .. e.w - 1 /\ e.tileY \in 0 .. e.h
      /\ e.header.tileWidth \in Nat \ {0} /\ e.header.tileHeight \in Nat \ {0}
  BY DEF TiffReady, TiffHeader, Streaming
<1>2. PICK tile : tile = EncodedBytes(e, e.header.lengths[e.current + 1])
  OBVIOUS
<1>3. CASE Len(tile) < e.header.lengths[e.current + 1]
  <2>1. TileChunk(e) = Failing(e)
    BY <1>2, <1>3 DEF TileChunk
  <2> QED BY <1>1, <2>1, FailingSound
<1>4. CASE ~(Len(tile) < e.header.lengths[e.current + 1]) /\ Unsupported(e.header)
  <2>1. TileChunk(e) = Throw(e)
    BY <1>2, <1>4 DEF TileChunk
  <2>2. Filled(e, Throw(e)) /\ Throw(e).out = "throw"
    BY <1>1, ThrowMoves, MovedFills
  <2> QED BY <2>1, <2>2, FilledSound DEF Outs
<1>5. CASE ~(Len(tile) < e.header.lengths[e.current + 1]) /\ ~Unsupported(e.header)
  <2>1. PICK pixels : pixels = Converted(e, tile, e.header.tileWidth)
    OBVIOUS
  <2>2. PICK th \in Nat : th = AtMost(e.h - e.tileY, e.header.tileHeight) /\ e.tileY + th <= e.h
    BY <1>1 DEF AtMost
  <2>3. PICK tw \in Nat \ {0} : tw = AtMost(e.w - e.tileX, e.header.tileWidth) /\ e.tileX + tw <= e.w
    BY <1>1 DEF AtMost
  <2>4. PICK s : s = TiffRows(e, e.tileX, e.tileY, tw, th, pixels)
    OBVIOUS
  <2>5. Drawn(LockRows(e, 0, e.h), s)
    <3>1. PICK x \in Nat, y \in Nat : x = e.tileX /\ y = e.tileY
      BY <1>1
    <3>2. x + tw <= e.w /\ y + th <= e.h /\ th \in Int /\ tw \in Nat /\ e.w \in Nat
      BY <1>1, <2>2, <2>3, <3>1
    <3>3. Drawn(LockRows(e, 0, e.h), TiffRows(e, x, y, tw, th, pixels))
      BY <1>1, <3>2, TiffRowsDrawn
    <3> QED BY <2>4, <3>1, <3>3
  <2>6. DOMAIN s = TiffFields /\ \A x \in TiffFields \ {"locked", "surf"} : s[x] = e[x]
    BY <2>5, TiffShown
  <2>7. s.current = e.current /\ s.bufferPosition = e.bufferPosition /\ s.out = e.out
        /\ s.tileX = e.tileX /\ s.tileY = e.tileY
    BY <2>6 DEF TiffFields, Base
  <2>8. PICK o : o = IF e.current + 1 = Len(e.header.at) THEN "Finished" ELSE "more"
    OBVIOUS
  <2>9. PICK rowDone \in BOOLEAN : rowDone = (e.tileX + tw = e.w)
    OBVIOUS
  <2>10. PICK x, y : x = (IF rowDone THEN 0 ELSE e.tileX + tw) /\ y = (IF rowDone THEN e.tileY + th ELSE e.tileY)
    OBVIOUS
  <2>11. PICK v : v = [Unlock(s) EXCEPT !.current = e.current + 1, !.tileX = x, !.tileY = y, !.out = o]
    OBVIOUS
  <2>12. TileChunk(e) = v
    <3>1. [Unlock(s) EXCEPT !.current = @ + 1,
                            !.tileX = IF rowDone THEN 0 ELSE @ + tw,
                            !.tileY = IF rowDone THEN @ + th ELSE @,
                            !.out = IF e.current + 1 = Len(e.header.at) THEN "Finished" ELSE @] = v
      BY <2>6, <2>7, <2>8, <2>10, <2>11 DEF Unlock, TiffFields, Base
    <3>2. TileChunk(e) = [Unlock(s) EXCEPT !.current = @ + 1,
                            !.tileX = IF rowDone THEN 0 ELSE @ + tw,
                            !.tileY = IF rowDone THEN @ + th ELSE @,
                            !.out = IF e.current + 1 = Len(e.header.at) THEN "Finished" ELSE @]
      BY <1>2, <1>5, <2>1, <2>2, <2>3, <2>4, <2>9 DEF TileChunk
    <3> QED BY <3>1, <3>2
  <2>13. DOMAIN v = TiffFields /\ v.current = e.current + 1 /\ v.tileX = x /\ v.tileY = y /\ v.out = o
         /\ \A f \in TiffFields \ {"locked", "current", "tileX", "tileY", "out"} : v[f] = s[f]
    BY <2>6, <2>11 DEF Unlock, TiffFields, Base
  <2>14. v.bufferPosition \in 0 .. e.h
    <3>1. v.bufferPosition = s.bufferPosition
      BY <2>13 DEF TiffFields, Base
    <3> QED BY <1>1, <2>7, <3>1
  <2>15. \A f \in TiffFields \ {"locked", "surf", "current", "bufferPosition", "tileX", "tileY", "out"} : v[f] = e[f]
    BY <2>6, <2>13
  <2>16. v.tileX \in 0 .. e.w - 1 /\ v.tileY \in 0 .. e.h
    <3>1. CASE rowDone
      BY <1>1, <2>2, <2>10, <2>13, <3>1
    <3>2. CASE ~rowDone
      <4>1. e.tileX + tw # e.w /\ v.tileX = e.tileX + tw /\ v.tileY = e.tileY
        BY <2>9, <2>10, <2>13, <3>2
      <4> QED BY <1>1, <2>3, <4>1
    <3> QED BY <3>1, <3>2
  <2> QED BY <2>8, <2>12, <2>13, <2>14, <2>15, <2>16, TiffMoved
<1> QED BY <1>3, <1>4, <1>5

LEMMA ProcessTiffSound ==
    ASSUME NEW e, TiffReady(e), e.out = "more", e.locked = {}
    PROVE  /\ Sound(ProcessTiff(e))
           /\ ProcessTiff(e).out = "more" => TiffReady(ProcessTiff(e))
<1>1. e.header.tiled \in BOOLEAN
  BY DEF TiffReady, TiffHeader
<1> QED BY <1>1, StripSound, TileSound DEF ProcessTiff

-----------------------------------------------------------------------------
(* CodecPSP                                                                *)

PspFields == Base \cup {"header", "parsed", "channels", "scan", "x", "row", "bad"}

\* Each channel has the place of its data, and goes on at a place of the file.
Channels == [data : Nat, used : Int]
ChannelsTyped(s) == s \in Seq(Channels) /\ \A c \in DOMAIN s : s[c].data + s[c].used >= 0

PspHeader(h) ==
    /\ h.depth \in {1, 4, 8, 24}
    /\ h.blocks \in Seq(Range(h.blocks))
    /\ \A i \in DOMAIN h.blocks : {h.blocks[i].at, h.blocks[i].size, h.blocks[i].end} \subseteq Nat

PspReady(e) ==
    /\ DOMAIN e = PspFields
    /\ Streaming(e)
    /\ e.w \in Nat /\ e.h \in Nat
    /\ PspHeader(e.header)
    /\ ChannelsTyped(e.channels)
    /\ e.scan \in 0 .. e.h

\* u is e with some of a chunk read and shown.
PspSame(e, u) == \A x \in {"w", "h", "header", "scan", "locked"} : u[x] = e[x]
PspLoaded(e, u) ==
    /\ PspReady(u)
    /\ PspSame(e, u)
    /\ u.out \in {"more", "throw", "Failed"}

LEMMA PspLoadedOn ==
    ASSUME NEW e, NEW u, NEW v, PspLoaded(e, u), PspLoaded(u, v)
    PROVE  PspLoaded(e, v)
BY DEF PspLoaded, PspSame

LEMMA PspFilled ==
    ASSUME NEW e, NEW u, PspLoaded(e, u), NEW v, Filled(u, v)
    PROVE  PspLoaded(e, v) /\ v.row = u.row /\ v.channels = u.channels
<1>1. DOMAIN u = PspFields
  BY DEF PspLoaded, PspReady
<1>2. \A x \in {"w", "h", "header", "scan", "locked", "row", "channels"} : v[x] = u[x]
  BY <1>1 DEF Filled, PspFields, Base, StreamFields
<1>3. v.w = u.w /\ v.h = u.h /\ v.header = u.header /\ v.scan = u.scan /\ v.row = u.row
      /\ v.channels = u.channels
  BY <1>2
<1>4. PspReady(v)
  BY <1>1, <1>3 DEF PspLoaded, PspReady, Filled
<1>5. PspSame(e, v)
  BY <1>2 DEF PspLoaded, PspSame
<1>6. v.out \in {"more", "throw", "Failed"}
  BY DEF PspLoaded, Filled
<1> QED BY <1>3, <1>4, <1>5, <1>6 DEF PspLoaded

\* A record with what a row is decoded with changed.
LEMMA PspSet ==
    ASSUME NEW e, NEW u, PspLoaded(e, u), NEW v, DOMAIN v = DOMAIN u,
           \A x \in DOMAIN u \ {"x", "row", "bad", "parsed", "channels", "out"} : v[x] = u[x],
           ChannelsTyped(v.channels), v.out \in {"more", "throw", "Failed"}
    PROVE  PspLoaded(e, v) /\ (CacheOK(u) => CacheOK(v))
<1>1. DOMAIN u = PspFields
  BY DEF PspLoaded, PspReady
<1>2. \A x \in (Base \cup {"header", "scan"}) \ {"out"} : v[x] = u[x]
  BY <1>1 DEF PspFields, Base
<1>3. Streaming(v)
  BY <1>1, <1>2 DEF PspLoaded, PspReady, Streaming, PspFields, Base
<1>4. v.w = u.w /\ v.h = u.h /\ v.header = u.header /\ v.scan = u.scan
      /\ v.data = u.data /\ v.left = u.left /\ v.pos = u.pos /\ v.at = u.at /\ v.size = u.size
  BY <1>2 DEF Base
<1>5. CacheOK(u) => CacheOK(v)
  BY <1>4 DEF CacheOK, VirtualFilePosition
<1>6. PspReady(v)
  BY <1>1, <1>3, <1>4 DEF PspLoaded, PspReady
<1>7. PspSame(e, v)
  BY <1>2 DEF PspLoaded, PspSame, Base
<1> QED BY <1>5, <1>6, <1>7 DEF PspLoaded

\* The rows of a chunk have one size.
PspRow(e) == DOMAIN e.row = 1 .. BytesPerRow(e)

LEMMA RowBytes ==
    ASSUME NEW e, PspReady(e)
    PROVE  BytesPerRow(e) \in Nat /\ (~Packed(e) => BytesPerRow(e) = e.w)
<1>1. e.w \in Nat /\ e.header.depth \in {1, 4, 8, 24}
  BY DEF PspReady, PspHeader
<1>2. CASE Packed(e)
  <2>1. (e.w + 7) \div 8 \in Nat
    BY <1>1
  <2>2. e.header.depth \in {1, 4}
    BY <1>2 DEF Packed
  <2>3. ((e.w + 7) \div 8) * e.header.depth \in Nat
    BY <2>1, <2>2
  <2> QED BY <1>2, <2>3 DEF BytesPerRow
<1>3. CASE ~Packed(e)
  BY <1>1, <1>3 DEF BytesPerRow
<1> QED BY <1>2, <1>3

LEMMA RowBytesSame ==
    ASSUME NEW e, NEW u, PspSame(e, u)
    PROVE  BytesPerRow(u) = BytesPerRow(e) /\ Packed(u) = Packed(e)
<1>1. u.w = e.w /\ u.header = e.header
  BY DEF PspSame
<1> QED BY <1>1 DEF BytesPerRow, Packed

LEMMA ShowRowDraws ==
    ASSUME NEW e, PspReady(e), NEW i, NEW y \in e.locked, NEW bytes, NEW m \in Nat,
           DOMAIN bytes = 1..m, Packed(e) \/ m <= e.w
    PROVE  Drawn(e, ShowRow(e, i, y, bytes))
<1>1. e.w \in Nat /\ e.header.depth \in {1, 4, 8, 24} /\ Base \subseteq DOMAIN e
  BY DEF PspReady, PspHeader, Streaming
<1>2. Len(bytes) = m
  OBVIOUS
<1>3. ASSUME NEW s, NEW k \in Nat, Len(s) = k, k <= e.w
      PROVE  Drawn(e, WritePixels(e, 0, y, s))
  <2>1. ~(0 < 0) /\ ~(0 + Len(s) > e.w)
    BY <1>1, <1>3
  <2> QED BY <1>1, <2>1, WriteDraws
<1>4. CASE e.header.depth = 24
  <2>1. ShowRow(e, i, y, bytes) = WriteChannel(e, y, i, bytes)
    BY <1>4 DEF ShowRow
  <2>2. ~(Len(bytes) > e.w)
    BY <1>1, <1>2, <1>4 DEF Packed
  <2> QED BY <1>1, <2>1, <2>2, ChannelDraws
<1>5. CASE e.header.depth = 8
  <2>1. ShowRow(e, i, y, bytes) = WritePixels(e, 0, y, Indexed(bytes))
    BY <1>5 DEF ShowRow, Packed
  <2>2. Len(Indexed(bytes)) = m /\ m <= e.w
    BY <1>5, IndexedLength DEF Packed
  <2> QED BY <1>3, <2>1, <2>2
<1>6. CASE e.header.depth \in {1, 4}
  <2>1. PICK c : c = ConvertToBytes(bytes, e.header.depth, e.w)
    OBVIOUS
  <2>2. ShowRow(e, i, y, bytes) = WritePixels(e, 0, y, Indexed(c))
    BY <1>6, <2>1 DEF ShowRow, Packed
  <2>3. DOMAIN c = 1 .. e.w
    BY <1>6, <2>1 DEF ConvertToBytes, BitsToBytes, NibblesToBytes
  <2>4. Len(Indexed(c)) = e.w
    BY <1>1, <2>3, IndexedLength
  <2> QED BY <1>1, <1>3, <2>2, <2>4
<1> QED BY <1>1, <1>4, <1>5, <1>6

LEMMA PspShown ==
    ASSUME NEW e, NEW u, PspLoaded(e, u), NEW v, Drawn(u, v)
    PROVE  PspLoaded(e, v) /\ v.row = u.row /\ v.channels = u.channels /\ (CacheOK(u) => CacheOK(v))
           /\ v.out = u.out
<1>1. Streaming(u)
  BY DEF PspLoaded, PspReady
<1>2. Filled(u, v) /\ v.out = u.out
  BY <1>1, DrawnFills
<1>3. CacheOK(u) => CacheOK(v)
  BY <1>1, DrawnCached
<1> QED BY <1>2, <1>3, PspFilled

\* A row of codes.
PspCoded(u, e) == PspLoaded(e, u) /\ CacheOK(u) /\ PspRow(u) /\ u.channels = e.channels
CodeTurnOf(u, i, e) == IF u.out = "more" THEN CodeTurn(u) ELSE u

Codes == INSTANCE Loops WITH Step <- CodeTurnOf, Holds <- PspCoded

LEMMA CodedMoved ==
    ASSUME NEW e, NEW u, PspCoded(u, e), NEW v, Moved(u, v), CacheOK(v)
    PROVE  PspCoded(v, e)
<1>1. PspLoaded(e, v) /\ v.row = u.row /\ v.channels = u.channels
  BY MovedFills, PspFilled DEF PspCoded
<1>2. BytesPerRow(v) = BytesPerRow(u)
  <2>1. PspSame(e, u) /\ PspSame(e, v)
    BY <1>1 DEF PspCoded, PspLoaded
  <2> QED BY <2>1, RowBytesSame
<1> QED BY <1>1, <1>2 DEF PspCoded, PspRow

LEMMA CodedByte ==
    ASSUME NEW e, NEW u, PspCoded(u, e)
    PROVE  PspCoded(ReadByte(u), e)
<1>1. Streaming(u) /\ CacheOK(u)
  BY DEF PspCoded, PspLoaded, PspReady
<1> QED BY <1>1, ReadByteMoves, ReadByteCaches, CodedMoved

LEMMA CodedBytes ==
    ASSUME NEW e, NEW u, PspCoded(u, e), NEW n \in Int
    PROVE  PspCoded(ReadBytes(u, n), e)
<1>1. Streaming(u) /\ CacheOK(u)
  BY DEF PspCoded, PspLoaded, PspReady
<1> QED BY <1>1, ReadBytesMoves, CodedMoved

LEMMA CodedSet ==
    ASSUME NEW e, NEW u, PspCoded(u, e), NEW v, DOMAIN v = DOMAIN u,
           \A x \in DOMAIN u \ {"x", "row", "bad", "out"} : v[x] = u[x],
           DOMAIN v.row = DOMAIN u.row, v.out \in {"more", "throw", "Failed"}
    PROVE  PspCoded(v, e)
<1>1. PspLoaded(e, u) /\ DOMAIN u = PspFields /\ ChannelsTyped(u.channels)
  BY DEF PspCoded, PspLoaded, PspReady
<1>2. v.channels = u.channels
  BY <1>1 DEF PspFields, Base
<1>3. PspLoaded(e, v) /\ (CacheOK(u) => CacheOK(v))
  BY <1>1, <1>2, PspSet
<1>4. BytesPerRow(v) = BytesPerRow(u)
  <2>1. PspSame(e, u) /\ PspSame(e, v)
    BY <1>1, <1>3 DEF PspLoaded
  <2> QED BY <2>1, RowBytesSame
<1> QED BY <1>2, <1>3, <1>4 DEF PspCoded, PspRow

LEMMA RowExtendedHolds ==
    ASSUME NEW e, NEW u, PspCoded(u, e), NEW bytes
    PROVE  PspCoded(RowExtended(u, bytes), e)
<1>1. DOMAIN u = PspFields /\ u.out \in {"more", "throw", "Failed"}
  BY DEF PspCoded, PspLoaded, PspReady
<1> DEFINE row == [k \in DOMAIN u.row |-> IF k - u.x \in 1..Len(bytes) THEN bytes[k - u.x] ELSE u.row[k]]
<1>2. DOMAIN row = DOMAIN u.row
  OBVIOUS
<1>3. RowExtended(u, bytes) = [u EXCEPT !.row = row, !.x = u.x + Len(bytes)]
  BY DEF RowExtended
<1> HIDE DEF row
<1>4. PICK x : x = u.x + Len(bytes)
  OBVIOUS
<1>5. PICK v : v = [u EXCEPT !.row = row, !.x = x]
  OBVIOUS
<1>6. DOMAIN v = DOMAIN u /\ v.row = row /\ \A f \in DOMAIN u \ {"x", "row", "bad", "out"} : v[f] = u[f]
  BY <1>1, <1>5 DEF PspFields, Base
<1>7. v.out = u.out
  BY <1>1, <1>5 DEF PspFields, Base
<1>8. PspCoded(v, e)
  BY <1>1, <1>2, <1>6, <1>7, CodedSet
<1> QED BY <1>3, <1>4, <1>5, <1>8

LEMMA CodeTurnHolds ==
    ASSUME NEW e, NEW u, PspCoded(u, e), u.out = "more"
    PROVE  PspCoded(CodeTurn(u), e)
<1> DEFINE first == CachedByte(u, 1)
           coded == ReadByte(u)
           run == first > 128
           n == IF run THEN first - 128 ELSE first
           there == AtMost(n, coded.left)
           literal == [k \in 1..there |-> CachedByte(coded, k)]
           repeated == [k \in 1..n |-> CachedByte(coded, 1)]
           refused == [coded EXCEPT !.bad = TRUE]
<1>1. CodeTurn(u) = IF u.x = Len(u.row) \/ u.bad THEN u
                    ELSE IF coded.out = "throw" THEN coded
                    ELSE IF u.x + n > Len(u.row) THEN refused
                    ELSE IF ~run THEN ReadBytes(RowExtended(coded, literal), n)
                    ELSE IF coded.left = 0 THEN Throw(coded)
                    ELSE ReadByte(RowExtended(coded, repeated))
  BY DEF CodeTurn
<1>2. Streaming(u) /\ CacheOK(u)
  BY DEF PspCoded, PspLoaded, PspReady
<1>3. PspCoded(coded, e)
  BY CodedByte
<1>4. coded.out # "throw" => n \in Int
  <2> SUFFICES ASSUME coded.out # "throw" PROVE n \in Int
    OBVIOUS
  <2>1. u.left # 0
    <3>1. u.left = 0 => coded = Throw(u)
      BY DEF ReadByte
    <3>2. Throw(u).out = "throw"
      BY <1>2, ThrowMoves
    <3> QED BY <3>1, <3>2
  <2>2. u.left >= 1
    BY <1>2, <2>1 DEF Streaming
  <2>3. first \in Bytes
    BY <1>2, <2>2, CachedByteTyped
  <2>4. first \in Int
    BY <2>3 DEF Bytes
  <2> HIDE DEF first
  <2> QED BY <2>4
<1>5. PspCoded(refused, e)
  <2> HIDE DEF coded
  <2>1. DOMAIN coded = PspFields /\ coded.out \in {"more", "throw", "Failed"}
    BY <1>3 DEF PspCoded, PspLoaded, PspReady
  <2>2. DOMAIN refused = DOMAIN coded /\ \A x \in DOMAIN coded \ {"bad"} : refused[x] = coded[x]
    OBVIOUS
  <2> HIDE DEF refused
  <2>3. refused.row = coded.row /\ refused.out = coded.out
    BY <2>1, <2>2 DEF PspFields, Base
  <2> QED BY <1>3, <2>1, <2>2, <2>3, CodedSet
<1> HIDE DEF coded, literal, repeated, run, refused
<1>6. coded.out # "throw" => PspCoded(ReadBytes(RowExtended(coded, literal), n), e)
  <2> HIDE DEF n
  <2>1. PspCoded(RowExtended(coded, literal), e)
    BY <1>3, RowExtendedHolds
  <2> QED BY <1>4, <2>1, CodedBytes
<1>7. PspCoded(ReadByte(RowExtended(coded, repeated)), e)
  BY <1>3, RowExtendedHolds, CodedByte
<1>8. PspCoded(Throw(coded), e)
  <2>1. Streaming(coded) /\ DOMAIN coded = PspFields
    BY <1>3 DEF PspCoded, PspLoaded, PspReady
  <2>2. PICK v : v = [coded EXCEPT !.out = "throw"]
    OBVIOUS
  <2>3. DOMAIN v = DOMAIN coded /\ v.out = "throw" /\ \A x \in DOMAIN coded \ {"out"} : v[x] = coded[x]
    BY <2>1, <2>2 DEF PspFields, Base
  <2>4. v.row = coded.row
    BY <2>1, <2>3 DEF PspFields, Base
  <2>5. PspCoded(v, e)
    BY <1>3, <2>3, <2>4, CodedSet
  <2> QED BY <2>2, <2>5 DEF Throw
<1> HIDE DEF n, first, there
<1> QED BY <1>1, <1>3, <1>5, <1>6, <1>7, <1>8

LEMMA RowCodesHold ==
    ASSUME NEW e, PspCoded(e, e), NEW n \in Int
    PROVE  PspCoded(RowCodes(e, n), e)
<1>1. ASSUME NEW u, PspCoded(u, e) PROVE PspCoded(CodeTurnOf(u, 0, e), e)
  BY <1>1, CodeTurnHolds DEF CodeTurnOf
<1>2. \A u : \A i \in 1..n : PspCoded(u, e) => PspCoded(CodeTurnOf(u, i, e), e)
  BY <1>1 DEF CodeTurnOf
<1>3. PspCoded(Codes!Result(e, Codes!Counted(n), e), e)
  BY <1>2, AllNumbers, Codes!TurnsHold DEF Codes!Inductive
<1>4. RowCodes(e, n) = Codes!Result(e, Codes!Counted(n), e)
  BY DEF RowCodes, Repeated, CodeTurnOf, Codes!Result, Codes!Counted, FoldLeft, MapThenFoldSet,
         Max, Codes!Last
<1> QED BY <1>3, <1>4

\* A row of a channel.
PspHolds(u, e) ==
    /\ PspLoaded(e, u) /\ u.channels = e.channels
    /\ u.header.compression = "Rle" => CacheOK(u) /\ PspRow(u)

LEMMA RleRowHolds ==
    ASSUME NEW e, NEW u, PspCoded(u, e), u.out = "more", NEW i, NEW y \in u.locked
    PROVE  PspCoded(RleRow(u, i, y), e)
<1>1. PspLoaded(e, u) /\ PspReady(u) /\ DOMAIN u = PspFields /\ u.w \in Nat /\ u.left \in Nat
  BY DEF PspCoded, PspLoaded, PspReady, Streaming
<1>2. PICK old : old = [x \in 1..u.w |-> u.surf[<<x - 1, y>>][i]]
  OBVIOUS
<1>3. DOMAIN old = 1..u.w
  BY <1>2
<1>4. PICK row : row = IF Packed(u) THEN u.row ELSE old
  OBVIOUS
<1>5. PICK s : s = [u EXCEPT !.x = 0, !.bad = FALSE, !.row = row]
  OBVIOUS
<1>6. PspCoded(s, e)
  <2>1. DOMAIN s = DOMAIN u /\ s.row = row /\ s.out = "more"
        /\ \A x \in DOMAIN u \ {"x", "row", "bad", "out"} : s[x] = u[x]
    BY <1>1, <1>5 DEF PspFields, Base
  <2>2. DOMAIN row = DOMAIN u.row
    BY <1>1, <1>3, <1>4, RowBytes DEF PspCoded, PspRow
  <2> QED BY <2>1, <2>2, CodedSet
<1>7. PICK n \in Int : n = u.left + 1
  BY <1>1
<1>8. PICK r : r = RowCodes(s, n)
  OBVIOUS
<1>9. PspCoded(r, e)
  <2>1. PspCoded(s, s)
    BY <1>6 DEF PspCoded, PspLoaded, PspSame
  <2>2. PspCoded(r, s)
    BY <1>8, <2>1, RowCodesHold
  <2> QED BY <1>6, <2>2, PspLoadedOn DEF PspCoded
<1>10. PICK v : v = ShowRow(r, i, y, r.row)
  OBVIOUS
<1>11. Drawn(r, v)
  <2>1. PspReady(r) /\ r.locked = u.locked /\ DOMAIN r.row = 1 .. BytesPerRow(r)
    BY <1>1, <1>9 DEF PspCoded, PspLoaded, PspSame, PspRow
  <2>2. PICK m \in Nat : m = BytesPerRow(r) /\ (Packed(r) \/ m <= r.w)
    <3>1. BytesPerRow(r) \in Nat /\ (~Packed(r) => BytesPerRow(r) = r.w)
      BY <2>1, RowBytes
    <3> QED BY <3>1
  <2> QED BY <1>10, <2>1, <2>2, ShowRowDraws
<1>12. PspCoded(v, e)
  <2>1. PspLoaded(e, r) /\ CacheOK(r)
    BY <1>9 DEF PspCoded
  <2>2. PspLoaded(e, v) /\ v.row = r.row /\ v.channels = r.channels /\ CacheOK(v)
    BY <1>11, <2>1, PspShown
  <2>3. BytesPerRow(v) = BytesPerRow(r)
    <3>1. PspSame(e, r) /\ PspSame(e, v)
      BY <2>1, <2>2 DEF PspLoaded
    <3> QED BY <3>1, RowBytesSame
  <2> QED BY <1>9, <2>2, <2>3 DEF PspCoded, PspRow
<1>13. PspCoded(Failing(v), e)
  <2>1. DOMAIN v = PspFields
    BY <1>12 DEF PspCoded, PspLoaded, PspReady
  <2>2. PICK t : t = [v EXCEPT !.out = "Failed"]
    OBVIOUS
  <2>3. DOMAIN t = DOMAIN v /\ t.out = "Failed" /\ \A x \in DOMAIN v \ {"out"} : t[x] = v[x]
    BY <2>1, <2>2 DEF PspFields, Base
  <2>4. t.row = v.row
    BY <2>1, <2>3 DEF PspFields, Base
  <2>5. PspCoded(t, e)
    BY <1>12, <2>3, <2>4, CodedSet
  <2> QED BY <2>2, <2>5 DEF Failing
<1>14. RleRow(u, i, y) \in {r, v, Failing(v)}
  BY <1>2, <1>4, <1>5, <1>7, <1>8, <1>10 DEF RleRow
<1> QED BY <1>9, <1>12, <1>13, <1>14

LEMMA RawRowHolds ==
    ASSUME NEW e, NEW u, PspLoaded(e, u), NEW i, NEW y \in u.locked
    PROVE  PspLoaded(e, RawRow(u, i, y)) /\ RawRow(u, i, y).channels = u.channels
<1>1. PspReady(u) /\ Streaming(u) /\ u.w \in Nat
  BY DEF PspLoaded, PspReady
<1>2. PICK n \in Nat : n = BytesPerRow(u) /\ (Packed(u) \/ n = u.w)
  BY <1>1, RowBytes
<1>3. PICK r : r = ReadFull(u, n)
  OBVIOUS
<1>4. PspLoaded(e, r) /\ r.channels = u.channels
  BY <1>1, <1>2, <1>3, ReadFullMoves, MovedFills, PspFilled
<1>5. PICK m \in Nat : m <= n /\ DOMAIN Upcoming(u, n) = 1..m
  BY <1>1, UpcomingLength
<1>6. PICK b : b = Upcoming(u, n)
  OBVIOUS
<1>7. PspReady(r) /\ r.locked = u.locked /\ r.w = u.w /\ Packed(r) = Packed(u)
  <2>1. PspSame(e, u) /\ PspSame(e, r)
    BY <1>4 DEF PspLoaded
  <2>2. Packed(r) = Packed(u)
    BY <2>1, RowBytesSame
  <2> QED BY <1>4, <2>1, <2>2 DEF PspLoaded, PspSame
<1>8. Drawn(r, ShowRow(r, i, y, b))
  <2>1. Packed(r) \/ m <= r.w
    BY <1>1, <1>2, <1>5, <1>7
  <2> QED BY <1>5, <1>6, <1>7, <2>1, ShowRowDraws
<1>9. PspLoaded(e, ShowRow(r, i, y, b)) /\ ShowRow(r, i, y, b).channels = r.channels
  BY <1>4, <1>8, PspShown
<1>10. RawRow(u, i, y) \in {r, ShowRow(r, i, y, b)}
  BY <1>2, <1>3, <1>6 DEF RawRow
<1> QED BY <1>4, <1>9, <1>10

LEMMA ChannelRowHolds ==
    ASSUME NEW e, NEW u, PspHolds(u, e), u.out = "more", NEW i, NEW y \in u.locked
    PROVE  PspHolds(ChannelRow(u, i, y), e)
<1>1. PspLoaded(e, u) /\ u.channels = e.channels
  BY DEF PspHolds
<1>2. CASE u.header.compression = "Rle"
  <2>1. PspCoded(u, e)
    BY <1>2 DEF PspHolds, PspCoded
  <2>2. PspCoded(RleRow(u, i, y), e)
    BY <2>1, RleRowHolds
  <2>3. ChannelRow(u, i, y) = RleRow(u, i, y)
    BY <1>2 DEF ChannelRow
  <2> QED BY <2>2, <2>3 DEF PspHolds, PspCoded
<1>3. CASE u.header.compression # "Rle"
  <2>1. PICK v : v = RawRow(u, i, y)
    OBVIOUS
  <2>2. PspLoaded(e, v) /\ v.channels = u.channels
    BY <1>1, <2>1, RawRowHolds
  <2>3. v.header = u.header
    BY <1>1, <2>2 DEF PspLoaded, PspSame
  <2>4. ChannelRow(u, i, y) = v
    BY <1>3, <2>1 DEF ChannelRow
  <2> QED BY <1>1, <1>3, <2>2, <2>3, <2>4 DEF PspHolds
<1> QED BY <1>2, <1>3

\* The rows of a channel: p has the decoder and the channel.
ChannelTurnOf(u, k, p) == IF u.out = "more" THEN ChannelRow(u, p[2], p[1].scan + k - 1) ELSE u
ChannelHolds(u, p) == PspHolds(u, p[1])

Channel == INSTANCE Loops WITH Step <- ChannelTurnOf, Holds <- ChannelHolds

LEMMA ChannelRowsHold ==
    ASSUME NEW e, PspHolds(e, e), NEW i, NEW n \in Nat, e.locked = e.scan .. e.scan + n - 1
    PROVE  PspHolds(ChannelRows(e, i, n), e)
<1>1. ASSUME NEW u, NEW k \in 1..n, PspHolds(u, e)
      PROVE  PspHolds(ChannelTurnOf(u, k, <<e, i>>), e)
  <2>1. PICK y : y = e.scan + k - 1
    OBVIOUS
  <2>2. e.scan \in Nat
    BY DEF PspHolds, PspLoaded, PspReady
  <2>3. u.locked = e.locked
    BY <1>1 DEF PspHolds, PspLoaded, PspSame
  <2>4. y \in u.locked
    BY <2>1, <2>2, <2>3
  <2>5. u.out = "more" => PspHolds(ChannelRow(u, i, y), e)
    BY <1>1, <2>4, ChannelRowHolds
  <2> QED BY <1>1, <2>1, <2>5 DEF ChannelTurnOf
<1>2. \A u : \A k \in 1..n : ChannelHolds(u, <<e, i>>) => ChannelHolds(ChannelTurnOf(u, k, <<e, i>>), <<e, i>>)
  BY <1>1 DEF ChannelHolds
<1>3. ChannelHolds(e, <<e, i>>)
  BY DEF ChannelHolds
<1>4. ChannelHolds(Channel!Result(e, Channel!Counted(n), <<e, i>>), <<e, i>>)
  <2>1. n \in Int
    OBVIOUS
  <2> QED BY <1>2, <1>3, <2>1, AllNumbers, Channel!TurnsHold DEF Channel!Inductive
<1>5. ChannelRows(e, i, n) = Channel!Result(e, Channel!Counted(n), <<e, i>>)
  BY DEF ChannelRows, ChannelTurnOf, Channel!Result, Channel!Counted, FoldLeft, MapThenFoldSet,
         Max, Channel!Last
<1> QED BY <1>4, <1>5 DEF ChannelHolds

\* A channel is left at a place of the file.
LEMMA ChannelLeft ==
    ASSUME NEW s, ChannelsTyped(s), NEW c \in DOMAIN s, NEW used \in Int, s[c].data + used >= 0
    PROVE  /\ ChannelsTyped([s EXCEPT ![c].used = used])
           /\ Len([s EXCEPT ![c].used = used]) = Len(s)
<1>1. PICK n \in Nat : n = Len(s) /\ DOMAIN s = 1..n
  BY DEF ChannelsTyped
<1>2. \A k \in 1..n : s[k] \in Channels
  BY <1>1 DEF ChannelsTyped
<1>3. PICK r : r = [s[c] EXCEPT !.used = used]
  OBVIOUS
<1>4. r \in Channels /\ r.data = s[c].data /\ r.used = used
  BY <1>1, <1>2, <1>3 DEF Channels
<1>5. PICK t : t = [s EXCEPT ![c] = r]
  OBVIOUS
<1>6. DOMAIN t = 1..n /\ t[c] = r /\ \A k \in 1..n \ {c} : t[k] = s[k]
  BY <1>1, <1>5
<1>7. t = [k \in 1..n |-> t[k]]
  BY <1>1, <1>5
<1>8. \A k \in 1..n : t[k] \in Channels
  BY <1>2, <1>4, <1>6
<1>9. t \in [1..n -> Channels]
  BY <1>7, <1>8
<1>10. t \in Seq(Channels) /\ Len(t) = n
  BY <1>9
<1>11. \A k \in 1..n : t[k].data + t[k].used >= 0
  BY <1>1, <1>4, <1>6 DEF ChannelsTyped
<1>12. [s EXCEPT ![c].used = used] = t
  BY <1>3, <1>5
<1> QED BY <1>1, <1>6, <1>10, <1>11, <1>12 DEF ChannelsTyped

\* Some of the channels of a chunk.
ChunkHolds(u, e) == PspLoaded(e, u) /\ Len(u.channels) = Len(e.channels)

LEMMA ChannelChunkHolds ==
    ASSUME NEW e, NEW n \in Nat, e.locked = e.scan .. e.scan + n - 1, NEW i \in 1 .. Len(e.channels),
           NEW u, ChunkHolds(u, e)
    PROVE  ChunkHolds(ChannelChunk(u, i, n), e)
<1>1. PspLoaded(e, u) /\ PspReady(u) /\ Streaming(u) /\ DOMAIN u = PspFields /\ ChannelsTyped(u.channels)
      /\ u.locked = e.locked /\ u.scan = e.scan
  BY DEF ChunkHolds, PspLoaded, PspReady, PspSame
<1>2. CASE u.out # "more"
  BY <1>2 DEF ChannelChunk
<1>3. CASE u.out = "more"
  <2>1. PICK c : c = ChannelRead(u, i)
    OBVIOUS
  <2>2. c \in DOMAIN u.channels
    <3>1. Len(u.channels) = Len(e.channels) /\ Len(u.channels) \in Nat /\ DOMAIN u.channels = 1 .. Len(u.channels)
      BY <1>1 DEF ChunkHolds, ChannelsTyped
    <3> QED BY <2>1, <3>1 DEF ChannelRead
  <2>3. PICK at \in Nat, used \in Int : at = u.channels[c].data /\ used = u.channels[c].used /\ at + used >= 0
    <3>1. u.channels[c] \in Channels /\ u.channels[c].data + u.channels[c].used >= 0
      BY <1>1, <2>2 DEF ChannelsTyped
    <3> QED BY <3>1 DEF Channels
  <2>4. PICK p \in Nat : p = at + used
    BY <2>3
  <2>5. PICK k : k = SeekBegin(u, p)
    OBVIOUS
  <2>6. Moved(u, k) /\ Streaming(k)
    BY <1>1, <2>5, SeekBeginMoves DEF Moved
  <2>7. PICK g : g = SetFileReader(k)
    OBVIOUS
  <2>8. Moved(u, g) /\ CacheOK(g)
    <3>1. Moved(k, g)
      BY <2>6, <2>7, SetFileReaderMoves
    <3>2. g.data = k.data /\ g.pos = k.pos /\ g.left = FileLeft(k) /\ g.at = 0 /\ g.size = 0
      BY <2>6, <2>7 DEF SetFileReader, Streaming, Base
    <3>3. k.pos \in Nat /\ Len(k.data) \in Nat
      BY <2>6 DEF Streaming
    <3>4. CacheOK(g)
      BY <3>2, <3>3 DEF CacheOK, VirtualFilePosition, FileLeft
    <3> QED BY <2>6, <3>1, <3>4, MovedOn
  <2>9. PspLoaded(e, g) /\ g.channels = u.channels
    BY <1>1, <2>8, MovedFills, PspFilled
  <2>10. PICK row : row = [j \in 1..BytesPerRow(u) |-> 0]
    OBVIOUS
  <2>11. DOMAIN row = 1..BytesPerRow(u)
    BY <2>10
  <2>12. PICK b : b = [g EXCEPT !.row = row]
    OBVIOUS
  <2>13. DOMAIN g = PspFields /\ g.out \in {"more", "throw", "Failed"} /\ ChannelsTyped(g.channels)
    BY <2>9 DEF PspLoaded, PspReady
  <2>14. DOMAIN b = DOMAIN g /\ b.row = row /\ \A x \in DOMAIN g \ {"row"} : b[x] = g[x]
    BY <2>12, <2>13 DEF PspFields
  <2>15. b.out = g.out /\ b.channels = g.channels
    BY <2>13, <2>14 DEF PspFields, Base
  <2>16. PspLoaded(e, b) /\ CacheOK(b)
    BY <2>8, <2>9, <2>13, <2>14, <2>15, PspSet
  <2>17. PspHolds(b, b) /\ b.locked = b.scan .. b.scan + n - 1
    <3>1. BytesPerRow(b) = BytesPerRow(u)
      <4>1. PspSame(e, b) /\ PspSame(e, u)
        BY <1>1, <2>16 DEF PspLoaded
      <4> QED BY <4>1, RowBytesSame
    <3>2. PspRow(b)
      BY <2>11, <2>14, <3>1 DEF PspRow
    <3>3. PspLoaded(b, b) /\ b.locked = e.locked /\ b.scan = e.scan
      BY <2>16 DEF PspLoaded, PspSame
    <3> QED BY <2>16, <3>2, <3>3 DEF PspHolds
  <2>18. PICK r : r = ChannelRows(b, i, n)
    OBVIOUS
  <2>19. PspHolds(r, b)
    BY <2>17, <2>18, ChannelRowsHold
  <2>20. PspLoaded(e, r) /\ r.channels = u.channels /\ DOMAIN r = PspFields /\ PspReady(r)
         /\ r.out \in {"more", "throw", "Failed"}
    <3>1. PspLoaded(e, r)
      BY <2>16, <2>19, PspLoadedOn DEF PspHolds
    <3> QED BY <2>9, <2>15, <2>19, <3>1 DEF PspHolds, PspLoaded, PspReady
  <2>21. u.header = r.header
    BY <1>1, <2>20 DEF PspLoaded, PspSame
  <2>22. PICK after \in Int :
            /\ at + after >= 0
            /\ ChannelChunk(u, i, n) = [r EXCEPT !.channels = [u.channels EXCEPT ![c].used = after]]
    <3>1. ChannelChunk(u, i, n)
            = IF u.header.compression = "Rle" THEN [r EXCEPT !.channels[c].used = VirtualFilePosition(r) - at]
              ELSE [r EXCEPT !.channels[c].used = @ + n * BytesPerRow(u)]
      BY <1>3, <2>1, <2>3, <2>4, <2>5, <2>7, <2>10, <2>12, <2>18 DEF ChannelChunk
    <3>2. CASE u.header.compression = "Rle"
      <4>1. CacheOK(r) /\ Streaming(r)
        BY <2>19, <2>20, <2>21, <3>2 DEF PspHolds, PspReady
      <4>2. PICK v : v = VirtualFilePosition(r)
        OBVIOUS
      <4>3. v \in Int /\ v >= 0
        BY <4>1, <4>2 DEF CacheOK, VirtualFilePosition, Streaming
      <4>4. v - at \in Int /\ at + (v - at) >= 0
        BY <2>3, <4>3
      <4>5. ChannelChunk(u, i, n) = [r EXCEPT !.channels = [u.channels EXCEPT ![c].used = v - at]]
        BY <2>20, <3>1, <3>2, <4>2
      <4> QED BY <4>4, <4>5
    <3>3. CASE u.header.compression # "Rle"
      <4>1. PICK m \in Nat : m = n * BytesPerRow(u)
        <5>1. BytesPerRow(u) \in Nat
          BY <1>1, RowBytes
        <5> QED BY <5>1
      <4>2. used + m \in Int /\ at + (used + m) >= 0
        BY <2>3, <4>1
      <4>3. ChannelChunk(u, i, n) = [r EXCEPT !.channels = [u.channels EXCEPT ![c].used = used + m]]
        BY <2>2, <2>3, <2>20, <3>1, <3>3, <4>1
      <4> QED BY <4>2, <4>3
    <3> QED BY <3>2, <3>3
  <2>23. PICK s : s = [u.channels EXCEPT ![c].used = after]
    OBVIOUS
  <2>24. ChannelsTyped(s) /\ Len(s) = Len(u.channels)
    BY <1>1, <2>2, <2>3, <2>22, <2>23, ChannelLeft
  <2>25. PICK v : v = [r EXCEPT !.channels = s]
    OBVIOUS
  <2>26. DOMAIN v = DOMAIN r /\ v.channels = s /\ \A x \in DOMAIN r \ {"channels"} : v[x] = r[x]
    BY <2>20, <2>25 DEF PspFields
  <2>27. v.out = r.out
    BY <2>20, <2>26 DEF PspFields, Base
  <2>28. PspLoaded(e, v)
    BY <2>20, <2>24, <2>26, <2>27, PspSet
  <2> QED BY <2>22, <2>23, <2>24, <2>25, <2>26, <2>28 DEF ChunkHolds
<1> QED BY <1>2, <1>3

\* The channels of a chunk: p has the rows locked, and how many there are.
ChunkTurnOf(u, i, p) == ChannelChunk(u, i, p[2])
ChunkTurnHolds(u, p) == ChunkHolds(u, p[1])

Chunk == INSTANCE Loops WITH Step <- ChunkTurnOf, Holds <- ChunkTurnHolds

LEMMA ProcessPspSound ==
    ASSUME NEW e, PspReady(e), e.out = "more", e.locked = {}
    PROVE  /\ Sound(ProcessPsp(e))
           /\ ProcessPsp(e).out = "more" => PspReady(ProcessPsp(e))
<1>1. /\ Streaming(e) /\ e.h \in Nat /\ e.scan \in 0 .. e.h /\ DOMAIN e = PspFields
  BY DEF PspReady
<1>2. PICK n \in Nat : n = AtMost(e.h - e.scan, PspScansPerChunk) /\ e.scan + n <= e.h
  BY <1>1, PspAssumption DEF AtMost
<1>3. PICK l : l = LockRows(e, e.scan, n)
  OBVIOUS
<1>4. Locked(e, l, e.scan, n) /\ Streaming(l) /\ l.out = "more"
  BY <1>1, <1>2, <1>3, LocksRows
<1>5. DOMAIN l = PspFields /\ \A x \in PspFields \ {"locked"} : l[x] = e[x]
  BY <1>1, <1>4 DEF Locked
<1>6. l.w = e.w /\ l.h = e.h /\ l.header = e.header /\ l.scan = e.scan /\ l.channels = e.channels
  BY <1>5 DEF PspFields, Base
<1>7. PspReady(l)
  BY <1>4, <1>5, <1>6 DEF PspReady
<1>8. ChunkHolds(l, l) /\ l.locked = l.scan .. l.scan + n - 1
  BY <1>4, <1>6, <1>7 DEF ChunkHolds, PspLoaded, PspSame, Locked
<1>9. PICK channels \in Nat : channels = IF e.header.depth = 24 THEN 3 ELSE 1
  OBVIOUS
<1>10. CASE e.scan = e.h
  <2>1. ProcessPsp(e) = Finishing(e)
    BY <1>10 DEF ProcessPsp
  <2> QED BY <1>1, <2>1, FinishingSound DEF Streaming
<1>11. CASE e.scan # e.h /\ Len(e.channels) # channels
  <2>1. ProcessPsp(e) = Failing(e)
    BY <1>9, <1>11 DEF ProcessPsp
  <2> QED BY <1>1, <2>1, FailingSound DEF Streaming
<1>12. CASE e.scan # e.h /\ Len(e.channels) = channels
  <2>1. PICK r : r = ChannelChunks(e, channels, n)
    OBVIOUS
  <2>2. ChunkHolds(r, l)
    <3>1. ASSUME NEW u, NEW i \in 1..channels, ChunkHolds(u, l)
          PROVE  ChunkHolds(ChunkTurnOf(u, i, <<l, n>>), l)
      <4>1. i \in 1 .. Len(l.channels)
        BY <1>6, <1>12
      <4>2. ChunkHolds(ChannelChunk(u, i, n), l)
        BY <1>8, <3>1, <4>1, ChannelChunkHolds
      <4> QED BY <4>2 DEF ChunkTurnOf
    <3>2. \A u : \A i \in 1..channels : ChunkTurnHolds(u, <<l, n>>) => ChunkTurnHolds(ChunkTurnOf(u, i, <<l, n>>), <<l, n>>)
      BY <3>1 DEF ChunkTurnHolds
    <3>3. ChunkTurnHolds(l, <<l, n>>)
      BY <1>8 DEF ChunkTurnHolds
    <3>4. ChunkTurnHolds(Chunk!Result(l, Chunk!Counted(channels), <<l, n>>), <<l, n>>)
      <4>1. channels \in Int
        OBVIOUS
      <4> QED BY <3>2, <3>3, <4>1, AllNumbers, Chunk!TurnsHold DEF Chunk!Inductive
    <3>5. ChannelChunks(e, channels, n)
            = Chunk!Result(LockRows(e, e.scan, n), Chunk!Counted(channels), <<LockRows(e, e.scan, n), n>>)
      BY DEF ChannelChunks, ChunkTurnOf, Chunk!Result, Chunk!Counted, FoldLeft, MapThenFoldSet,
             Max, Chunk!Last
    <3>6. r = Chunk!Result(l, Chunk!Counted(channels), <<l, n>>)
      BY <1>3, <2>1, <3>5
    <3> QED BY <3>4, <3>6 DEF ChunkTurnHolds
  <2>3. /\ DOMAIN r = PspFields /\ PspReady(r) /\ r.h = e.h /\ r.scan = e.scan
        /\ r.out \in {"more", "throw", "Failed"}
    BY <1>6, <2>2 DEF ChunkHolds, PspLoaded, PspReady, PspSame
  <2>4. CASE r.out # "more"
    <3>1. ProcessPsp(e) = r
      BY <1>2, <1>9, <1>12, <2>1, <2>4 DEF ProcessPsp
    <3> QED BY <2>3, <2>4, <3>1 DEF Sound, Outs, PspFields
  <2>5. CASE r.out = "more"
    <3>1. PICK v : v = [r EXCEPT !.scan = r.scan + n]
      OBVIOUS
    <3>2. ProcessPsp(e) = v
      BY <1>2, <1>9, <1>12, <2>1, <2>5, <3>1 DEF ProcessPsp
    <3>3. DOMAIN v = PspFields /\ v.scan = e.scan + n /\ \A x \in PspFields \ {"scan"} : v[x] = r[x]
      BY <2>3, <3>1 DEF PspFields, Base
    <3>4. v.w = r.w /\ v.h = r.h /\ v.header = r.header /\ v.channels = r.channels /\ v.out = r.out
      BY <3>3 DEF PspFields, Base
    <3>5. Streaming(v)
      BY <2>3, <3>3 DEF PspReady, Streaming, PspFields, Base
    <3>6. v.scan \in 0 .. v.h
      BY <1>1, <1>2, <2>3, <3>3, <3>4
    <3>7. PspReady(v)
      BY <2>3, <3>3, <3>4, <3>5, <3>6 DEF PspReady
    <3> QED BY <2>5, <3>2, <3>4, <3>5, <3>7 DEF Sound, Outs, Streaming
  <2> QED BY <2>4, <2>5
<1> QED BY <1>10, <1>11, <1>12

\* The blocks of the file are read.
BlockTurnOf(u, block, e) == BlockRead(u, block)
BlockHolds(u, e) == PspReady(u) /\ u.locked = e.locked /\ u.header = e.header /\ u.out \in {"more", "throw"}

Blocks == INSTANCE Loops WITH Step <- BlockTurnOf, Holds <- BlockHolds

LEMMA BlockReadHolds ==
    ASSUME NEW e, NEW u, BlockHolds(u, e), NEW block, {block.at, block.size, block.end} \subseteq Nat
    PROVE  BlockHolds(BlockRead(u, block), e)
<1>1. PspReady(u) /\ DOMAIN u = PspFields /\ PspLoaded(u, u) /\ ChannelsTyped(u.channels)
  BY DEF BlockHolds, PspReady, PspLoaded, PspSame
<1>2. ASSUME NEW v, DOMAIN v = DOMAIN u, \A x \in DOMAIN u \ {"parsed", "channels"} : v[x] = u[x],
             ChannelsTyped(v.channels)
      PROVE  BlockHolds(v, e)
  <2>1. v.out = u.out
    BY <1>1, <1>2 DEF PspFields, Base
  <2>2. PspLoaded(u, v)
    <3>1. v.out \in {"more", "throw", "Failed"}
      BY <2>1 DEF BlockHolds
    <3> QED BY <1>1, <1>2, <3>1, PspSet
  <2> QED BY <2>1, <2>2 DEF BlockHolds, PspLoaded, PspSame
<1>3. BlockHolds([u EXCEPT !.parsed = TRUE], e)
  <2>1. PICK v : v = [u EXCEPT !.parsed = TRUE]
    OBVIOUS
  <2>2. DOMAIN v = DOMAIN u /\ \A x \in DOMAIN u \ {"parsed", "channels"} : v[x] = u[x]
    BY <2>1
  <2>3. v.channels = u.channels
    BY <1>1, <2>1 DEF PspFields
  <2> QED BY <1>1, <1>2, <2>1, <2>2, <2>3
<1>4. PICK channel : channel = [data |-> block.at + block.size, used |-> 0]
  OBVIOUS
<1>5. channel \in Channels /\ channel.data + channel.used >= 0
  BY <1>4 DEF Channels
<1>6. PICK s : s = IF block.type # "Channel" THEN u.channels ELSE Append(u.channels, channel)
  OBVIOUS
<1>7. ChannelsTyped(s)
  <2>1. PICK n \in Nat : n = Len(u.channels) /\ DOMAIN u.channels = 1..n
    BY <1>1 DEF ChannelsTyped
  <2>2. PICK t : t = Append(u.channels, channel)
    OBVIOUS
  <2>3. t \in Seq(Channels) /\ Len(t) = n + 1 /\ t[n + 1] = channel /\ \A k \in 1..n : t[k] = u.channels[k]
    BY <1>1, <1>5, <2>1, <2>2 DEF ChannelsTyped
  <2>4. DOMAIN t = 1 .. n + 1
    BY <2>3
  <2>5. \A k \in DOMAIN t : t[k].data + t[k].used >= 0
    BY <1>1, <1>5, <2>1, <2>3, <2>4 DEF ChannelsTyped
  <2> QED BY <1>1, <1>6, <2>2, <2>3, <2>5 DEF ChannelsTyped
<1>8. PICK v : v = [u EXCEPT !.channels = s]
  OBVIOUS
<1>9. BlockHolds(v, e)
  <2>1. DOMAIN v = DOMAIN u /\ v.channels = s /\ \A x \in DOMAIN u \ {"parsed", "channels"} : v[x] = u[x]
    BY <1>1, <1>8 DEF PspFields
  <2> QED BY <1>2, <1>7, <2>1
<1>10. BlockHolds(SeekBegin(v, block.end), e)
  <2>1. PICK k : k = SeekBegin(v, block.end)
    OBVIOUS
  <2>2. Moved(v, k)
    <3>1. block.end \in Nat /\ Streaming(v)
      BY <1>9 DEF BlockHolds, PspReady
    <3> QED BY <2>1, <3>1, SeekBeginMoves
  <2>3. PspLoaded(v, v)
    BY <1>9 DEF BlockHolds, PspLoaded, PspSame
  <2>4. PspLoaded(v, k)
    BY <2>2, <2>3, MovedFills, PspFilled
  <2> QED BY <1>9, <2>1, <2>2, <2>4 DEF BlockHolds, PspLoaded, PspSame, Moved
<1>11. BlockRead(u, block) \in {u, [u EXCEPT !.parsed = TRUE], SeekBegin(v, block.end)}
  BY <1>4, <1>6, <1>8 DEF BlockRead
<1> QED BY <1>3, <1>9, <1>10, <1>11

LEMMA EnterPspReady ==
    ASSUME NEW e, PspReady(e), e.out \in {"more", "throw"}
    PROVE  PspReady(EnterPsp(e)) /\ EnterPsp(e).locked = e.locked /\ EnterPsp(e).out \in {"more", "throw"}
<1>1. BlockHolds(e, e)
  BY DEF BlockHolds
<1>2. PICK b : b = e.header.blocks
  OBVIOUS
<1>3. b \in Seq(Range(b)) /\ \A i \in DOMAIN b : {b[i].at, b[i].size, b[i].end} \subseteq Nat
  BY <1>2 DEF PspReady, PspHeader
<1>4. PICK n \in Nat : DOMAIN b = 1..n
  BY <1>3
<1>5. \A u : \A i \in 1..n : BlockHolds(u, e) => BlockHolds(BlockTurnOf(u, b[i], e), e)
  BY <1>3, <1>4, BlockReadHolds DEF BlockTurnOf
<1>6. BlockHolds(Blocks!Result(e, b, e), e)
  BY <1>1, <1>4, <1>5, AllNumbers, Blocks!LoopHolds DEF Blocks!Inductive
<1>7. BlocksRead(e) = Blocks!Result(e, e.header.blocks, e)
  BY DEF BlocksRead, BlockTurnOf, Blocks!Result, FoldLeft, MapThenFoldSet,
         Max, Blocks!Last
<1>8. PICK r : r = BlocksRead(e)
  OBVIOUS
<1>9. BlockHolds(r, e)
  BY <1>2, <1>6, <1>7, <1>8
<1>10. PICK v : v = [r EXCEPT !.parsed = TRUE]
  OBVIOUS
<1>11. PspReady(v) /\ v.locked = e.locked /\ v.out \in {"more", "throw"}
  <2>1. DOMAIN r = PspFields /\ PspLoaded(r, r) /\ ChannelsTyped(r.channels)
    BY <1>9 DEF BlockHolds, PspReady, PspLoaded, PspSame
  <2>2. DOMAIN v = DOMAIN r /\ \A x \in DOMAIN r \ {"parsed"} : v[x] = r[x]
    BY <1>10
  <2>3. v.channels = r.channels /\ v.out = r.out
    BY <2>1, <2>2 DEF PspFields, Base
  <2>4. PspLoaded(r, v)
    <3>1. v.out \in {"more", "throw", "Failed"}
      BY <1>9, <2>3 DEF BlockHolds
    <3> QED BY <2>1, <2>2, <2>3, <3>1, PspSet
  <2> QED BY <1>9, <2>3, <2>4 DEF BlockHolds, PspLoaded, PspSame
<1>12. EnterPsp(e) \in {e, v}
  BY <1>8, <1>10 DEF EnterPsp, ParseFileStructure
<1> QED BY <1>11, <1>12

-----------------------------------------------------------------------------
(* What a decoder has ready, whatever its format: from the header on, and  *)
(* whatever is done to its streams, its locks and its surface.             *)

Ready(c, e) ==
    /\ Streaming(e)
    /\ c = "BMP" => BmpReady(e)
    /\ c = "PCX" => PcxReady(e)
    /\ c = "WBMP" => WbmpReady(e)
    /\ c = "XYZ" => XyzReady(e)
    /\ c = "TGA" => TgaReady(e)
    /\ c = "PSP" => PspReady(e)
    /\ c = "PSD" => PsdReady(e)
    /\ c = "PNG" => PngReady(e)
    /\ c = "JPEG" => JpegReady(e)
    /\ c = "WEBP" => WebpReady(e)
    /\ c = "TIFF" => TiffReady(e)

\* u is e, but for its streams, pixels and locks; the cache is as good as it was.
Alike(e, u) ==
    /\ DOMAIN u = DOMAIN e
    /\ \A x \in DOMAIN e \ (StreamFields \cup {"surf", "locked", "plane"}) : u[x] = e[x]
    /\ Streaming(u)
    /\ CacheOK(e) => CacheOK(u)

LEMMA AlikeOn ==
    ASSUME NEW e, NEW u, NEW v, Alike(e, u), Alike(u, v)
    PROVE  Alike(e, v)
BY DEF Alike

LEMMA SameStreams ==
    ASSUME NEW e, NEW u, Streaming(e), Base \subseteq DOMAIN u,
           \A x \in {"data", "pos", "open", "left", "at", "size"} : u[x] = e[x]
    PROVE  Streaming(u) /\ (CacheOK(e) => CacheOK(u))
<1>1. /\ u.data = e.data /\ u.pos = e.pos /\ u.open = e.open
      /\ u.left = e.left /\ u.at = e.at /\ u.size = e.size
  OBVIOUS
<1> QED BY <1>1 DEF Streaming, CacheOK, VirtualFilePosition

LEMMA UnlockAlike ==
    ASSUME NEW e, Streaming(e)
    PROVE  Alike(e, Unlock(e)) /\ Unlock(e).out = e.out /\ Unlock(e).locked = {}
<1>1. PICK u : u = Unlock(e)
  OBVIOUS
<1>2. DOMAIN u = DOMAIN e /\ u.locked = {} /\ \A x \in DOMAIN e \ {"locked"} : u[x] = e[x]
  BY <1>1 DEF Unlock, Streaming, Base
<1>3. \A x \in {"data", "pos", "open", "left", "at", "size", "out"} : u[x] = e[x]
  BY <1>2 DEF Streaming, Base
<1>4. Base \subseteq DOMAIN u
  BY <1>2 DEF Streaming
<1>5. Streaming(u) /\ (CacheOK(e) => CacheOK(u))
  BY <1>3, <1>4, SameStreams
<1> QED BY <1>1, <1>2, <1>3, <1>5 DEF Alike

LEMMA SurfaceAlike ==
    ASSUME NEW e, Streaming(e), NEW s
    PROVE  /\ Alike(e, [e EXCEPT !.surf = s])
           /\ [e EXCEPT !.surf = s].out = e.out /\ [e EXCEPT !.surf = s].locked = e.locked
<1>1. PICK u : u = [e EXCEPT !.surf = s]
  OBVIOUS
<1>2. DOMAIN u = DOMAIN e /\ \A x \in DOMAIN e \ {"surf"} : u[x] = e[x]
  BY <1>1
<1>3. \A x \in {"data", "pos", "open", "left", "at", "size", "out", "locked"} : u[x] = e[x]
  BY <1>2 DEF Streaming, Base
<1>4. Base \subseteq DOMAIN u
  BY <1>2 DEF Streaming
<1>5. Streaming(u) /\ (CacheOK(e) => CacheOK(u))
  BY <1>3, <1>4, SameStreams
<1> QED BY <1>1, <1>2, <1>3, <1>5 DEF Alike

LEMMA OutAlike ==
    ASSUME NEW e, Streaming(e), NEW o
    PROVE  /\ Alike(e, [e EXCEPT !.out = o])
           /\ [e EXCEPT !.out = o].out = o /\ [e EXCEPT !.out = o].locked = e.locked
<1>1. PICK u : u = [e EXCEPT !.out = o]
  OBVIOUS
<1>2. DOMAIN u = DOMAIN e /\ u.out = o /\ \A x \in DOMAIN e \ {"out"} : u[x] = e[x]
  BY <1>1 DEF Streaming, Base
<1>3. \A x \in {"data", "pos", "open", "left", "at", "size", "locked"} : u[x] = e[x]
  BY <1>2 DEF Streaming, Base
<1>4. Base \subseteq DOMAIN u
  BY <1>2 DEF Streaming
<1>5. Streaming(u) /\ (CacheOK(e) => CacheOK(u))
  BY <1>3, <1>4, SameStreams
<1> QED BY <1>1, <1>2, <1>3, <1>5 DEF Alike, StreamFields

LEMMA PlaneAlike ==
    ASSUME NEW e, Streaming(e), NEW p
    PROVE  /\ Alike(e, [e EXCEPT !.plane = p])
           /\ [e EXCEPT !.plane = p].out = e.out /\ [e EXCEPT !.plane = p].locked = e.locked
<1>1. PICK u : u = [e EXCEPT !.plane = p]
  OBVIOUS
<1>2. DOMAIN u = DOMAIN e /\ \A x \in DOMAIN e \ {"plane"} : u[x] = e[x]
  BY <1>1
<1>3. \A x \in {"data", "pos", "open", "left", "at", "size", "out", "locked"} : u[x] = e[x]
  BY <1>2 DEF Streaming, Base
<1>4. Base \subseteq DOMAIN u
  BY <1>2 DEF Streaming
<1>5. Streaming(u) /\ (CacheOK(e) => CacheOK(u))
  BY <1>3, <1>4, SameStreams
<1> QED BY <1>1, <1>2, <1>3, <1>5 DEF Alike

\* The file that got another name goes on where it was.
LEMMA RenamedAlike ==
    ASSUME NEW e, Streaming(e)
    PROVE  Alike(e, Renamed(e)) /\ Renamed(e).out = e.out /\ Renamed(e).locked = e.locked
<1>1. CASE ~e.open
  <2>1. Renamed(e) = e
    BY <1>1 DEF Renamed
  <2> QED BY <2>1 DEF Alike
<1>2. CASE e.open
  <2>1. PICK u : u = [e EXCEPT !.open = FALSE, !.pos = 0]
    OBVIOUS
  <2>2. DOMAIN u = DOMAIN e /\ \A x \in DOMAIN e \ {"open", "pos"} : u[x] = e[x]
    BY <2>1
  <2>3. PICK v : v = [u EXCEPT !.open = TRUE, !.pos = 0]
    OBVIOUS
  <2>4. DOMAIN v = DOMAIN e /\ v.open = TRUE /\ \A x \in DOMAIN e \ {"open", "pos"} : v[x] = e[x]
    BY <2>2, <2>3 DEF Streaming, Base
  <2>5. PICK w : w = [v EXCEPT !.pos = e.pos]
    OBVIOUS
  <2>6. DOMAIN w = DOMAIN e /\ w.open = v.open /\ w.pos = e.pos /\ \A x \in DOMAIN e \ {"open", "pos"} : w[x] = e[x]
    BY <2>4, <2>5 DEF Streaming, Base
  <2>7. v.data = e.data /\ e.pos \in Int /\ Len(e.data) \in Int /\ ~(e.pos > Len(e.data))
    BY <2>4 DEF Streaming, Base
  <2>8. Renamed(e) = w
    BY <1>2, <2>1, <2>3, <2>5, <2>7 DEF Renamed, Opened, Closed, SeekBegin
  <2>9. \A x \in {"data", "pos", "open", "left", "at", "size", "out", "locked"} : w[x] = e[x]
    BY <1>2, <2>4, <2>6 DEF Streaming, Base
  <2>10. Base \subseteq DOMAIN w
    BY <2>6 DEF Streaming
  <2>11. Streaming(w) /\ (CacheOK(e) => CacheOK(w))
    BY <2>9, <2>10, SameStreams
  <2> QED BY <2>6, <2>8, <2>9, <2>11 DEF Alike, StreamFields
<1> QED BY <1>1, <1>2 DEF Streaming

\* What is ready stays so, whatever becomes of the streams, the pixels and the locks.
LEMMA AlikeReady ==
    ASSUME NEW c, NEW e, NEW u, Ready(c, e), Alike(e, u)
    PROVE  Ready(c, u)
<1>1. Streaming(e) /\ Streaming(u) /\ DOMAIN u = DOMAIN e
  BY DEF Ready, Alike, Streaming, Base, StreamFields
<1>2. ASSUME BmpReady(e) PROVE BmpReady(u)
  <2>1. \A x \in {"w", "h", "header", "row", "x"} : u[x] = e[x]
    BY <1>2 DEF Alike, BmpReady, BmpTyped, BmpFields, Base, StreamFields
  <2>2. u.w = e.w /\ u.h = e.h /\ u.header = e.header /\ u.row = e.row /\ u.x = e.x
    BY <2>1
  <2> QED BY <1>1, <1>2, <2>2 DEF BmpReady, BmpTyped, RunLengthEncoded
<1>3. ASSUME PcxReady(e) PROVE PcxReady(u)
  <2>1. \A x \in {"w", "h", "header", "scan"} : u[x] = e[x]
    BY <1>3 DEF Alike, PcxReady, PcxFields, Base, StreamFields
  <2>2. u.w = e.w /\ u.h = e.h /\ u.header = e.header /\ u.scan = e.scan
    BY <2>1
  <2> QED BY <1>1, <1>3, <2>2 DEF PcxReady
<1>4. ASSUME WbmpReady(e) PROVE WbmpReady(u)
  <2>1. \A x \in {"w", "h", "scan"} : u[x] = e[x]
    BY <1>4 DEF Alike, WbmpReady, WbmpFields, Base, StreamFields
  <2>2. u.w = e.w /\ u.h = e.h /\ u.scan = e.scan
    BY <2>1
  <2> QED BY <1>1, <1>4, <2>2 DEF WbmpReady
<1>5. ASSUME XyzReady(e) PROVE XyzReady(u)
  <2>1. \A x \in {"w", "h", "header", "x", "y", "outData", "pending", "data"} : u[x] = e[x]
    BY <1>5 DEF Alike, XyzReady, XyzTyped, XyzFields, Base, StreamFields
  <2>2. u.w = e.w /\ u.h = e.h /\ u.header = e.header /\ u.x = e.x /\ u.y = e.y /\ u.outData = e.outData /\ u.pending = e.pending /\ u.data = e.data
    BY <2>1
  <2> QED BY <1>1, <1>5, <2>2 DEF XyzReady, XyzTyped, Inflates
<1>6. ASSUME TgaReady(e) PROVE TgaReady(u)
  <2>1. \A x \in {"w", "h", "header", "scanline", "run"} : u[x] = e[x]
    BY <1>6 DEF Alike, TgaReady, TgaFields, Base, StreamFields
  <2>2. u.w = e.w /\ u.h = e.h /\ u.header = e.header /\ u.scanline = e.scanline /\ u.run = e.run
    BY <2>1
  <2>3. CacheOK(e) => CacheOK(u)
    BY DEF Alike
  <2> QED BY <1>1, <1>6, <2>2, <2>3 DEF TgaReady
<1>7. ASSUME PspReady(e) PROVE PspReady(u)
  <2>1. \A x \in {"w", "h", "header", "channels", "scan"} : u[x] = e[x]
    BY <1>7 DEF Alike, PspReady, PspFields, Base, StreamFields
  <2>2. u.w = e.w /\ u.h = e.h /\ u.header = e.header /\ u.channels = e.channels /\ u.scan = e.scan
    BY <2>1
  <2> QED BY <1>1, <1>7, <2>2 DEF PspReady
<1>8. ASSUME PsdReady(e) PROVE PsdReady(u)
  <2>1. \A x \in {"w", "h", "header", "scanline", "stream", "lengths"} : u[x] = e[x]
    BY <1>8 DEF Alike, PsdReady, PsdFields, Base, StreamFields
  <2>2. u.w = e.w /\ u.h = e.h /\ u.header = e.header /\ u.scanline = e.scanline /\ u.stream = e.stream /\ u.lengths = e.lengths
    BY <2>1
  <2> QED BY <1>1, <1>8, <2>2 DEF PsdReady
<1>9. ASSUME PngReady(e) PROVE PngReady(u)
  <2>1. \A x \in {"w", "h", "header", "scan", "pass"} : u[x] = e[x]
    BY <1>9 DEF Alike, PngReady, PngFields, Base, StreamFields
  <2>2. u.w = e.w /\ u.h = e.h /\ u.header = e.header /\ u.scan = e.scan /\ u.pass = e.pass
    BY <2>1
  <2> QED BY <1>1, <1>9, <2>2 DEF PngReady
<1>10. ASSUME JpegReady(e) PROVE JpegReady(u)
  <2>1. \A x \in {"w", "h", "header", "scan"} : u[x] = e[x]
    BY <1>10 DEF Alike, JpegReady, JpegFields, Base, StreamFields
  <2>2. u.w = e.w /\ u.h = e.h /\ u.header = e.header /\ u.scan = e.scan
    BY <2>1
  <2> QED BY <1>1, <1>10, <2>2 DEF JpegReady
<1>11. ASSUME WebpReady(e) PROVE WebpReady(u)
  BY <1>1, <1>11 DEF WebpReady
<1>12. ASSUME TiffReady(e) PROVE TiffReady(u)
  <2>1. \A x \in {"w", "h", "header", "current", "bufferPosition", "tileX", "tileY"} : u[x] = e[x]
    BY <1>12 DEF Alike, TiffReady, TiffFields, Base, StreamFields
  <2>2. u.w = e.w /\ u.h = e.h /\ u.header = e.header /\ u.current = e.current /\ u.bufferPosition = e.bufferPosition /\ u.tileX = e.tileX /\ u.tileY = e.tileY
    BY <2>1
  <2> QED BY <1>1, <1>12, <2>2 DEF TiffReady
<1> QED BY <1>1, <1>2, <1>3, <1>4, <1>5, <1>6, <1>7, <1>8, <1>9, <1>10, <1>11, <1>12 DEF Ready
-----------------------------------------------------------------------------
(* The header is loaded: what the format's decoder begins with             *)

LEMMA NewStreams ==
    ASSUME NEW data \in Seq(Bytes)
    PROVE  /\ DOMAIN NewDecoder(data) = Base /\ Streaming(NewDecoder(data))
           /\ NewDecoder(data).locked = {} /\ NewDecoder(data).out = "more"
           /\ NewDecoder(data).data = data
           /\ NewDecoder(data).pos = 0
BY DEF NewDecoder, Streaming, Base

\* What a format adds to the record: the size, and fields of its own.
AddHeader(u, w, h, r) == WithFields([u EXCEPT !.w = w, !.h = h], r)

HasHeader(v, b, u, w, h, r) ==
    /\ DOMAIN v = Base \cup DOMAIN r
    /\ Streaming(v)
    /\ v.w = w /\ v.h = h /\ v.locked = {} /\ v.data = b.data /\ v.out = u.out
    /\ \A x \in DOMAIN r : v[x] = r[x]
    /\ CacheOK(u) => CacheOK(v)

LEMMA HeaderAdded ==
    ASSUME NEW b, DOMAIN b = Base, Streaming(b), b.locked = {}, NEW u, Moved(b, u),
           NEW r, \A x \in DOMAIN r : x \notin Base, NEW w, NEW h
    PROVE  HasHeader(AddHeader(u, w, h, r), b, u, w, h, r)
<1>1. PICK s : s = [u EXCEPT !.w = w, !.h = h]
  OBVIOUS
<1>2. DOMAIN u = Base /\ u.locked = {} /\ u.data = b.data /\ Streaming(u)
  BY DEF Moved, StreamFields, Base
<1>3. DOMAIN s = Base /\ s.w = w /\ s.h = h /\ \A x \in Base \ {"w", "h"} : s[x] = u[x]
  BY <1>1, <1>2 DEF Base
<1>4. PICK v : v = AddHeader(u, w, h, r) /\ v = WithFields(s, r)
  BY <1>1 DEF AddHeader
<1>5. DOMAIN v = Base \cup DOMAIN r
  BY <1>3, <1>4 DEF WithFields
<1>6. \A x \in Base : v[x] = s[x]
  BY <1>3, <1>4 DEF WithFields
<1>7. \A x \in DOMAIN r : v[x] = r[x]
  BY <1>3, <1>4 DEF WithFields
<1>8. \A x \in {"data", "pos", "open", "left", "at", "size", "out", "locked"} : v[x] = u[x]
  BY <1>3, <1>6 DEF Base
<1>9. Streaming(v) /\ (CacheOK(u) => CacheOK(v))
  <2>1. Base \subseteq DOMAIN v
    BY <1>5
  <2> QED BY <1>2, <1>8, <2>1, SameStreams
<1>10. v.w = w /\ v.h = h
  BY <1>3, <1>6 DEF Base
<1>11. v.locked = {} /\ v.data = b.data /\ v.out = u.out
  BY <1>2, <1>8
<1> QED BY <1>4, <1>5, <1>7, <1>9, <1>10, <1>11 DEF HasHeader

\* What a loaded header leaves.
Headed(e, f) ==
    /\ Ready(f.codec, e)
    /\ e.locked = {}
    /\ f.codec = "JPEG" => e.header = f.header /\ e.data = f.data

LEMMA FilesTyped ==
    ASSUME NEW f \in Files
    PROVE  /\ f.codec \in Range(BuiltinCodecs) /\ f.data \in Seq(Bytes) /\ HeaderTyped(f.codec, f.header, f.data)
BY FilesAssumption

LEMMA BmpHeaded ==
    ASSUME NEW f \in Files, HeaderLoads("BMP", f)
    PROVE  Headed(LoadHeaderOf("BMP", f), f)
<1>1. PICK b : b = NewDecoder(f.data)
  OBVIOUS
<1>2. PICK h : h = f.header
  OBVIOUS
<1>3. f.codec = "BMP" /\ h.width \in Int /\ h.height \in Int /\ h.offset \in Nat
  BY <1>2, FilesTyped DEF HeaderLoads, Accepts, HeaderTyped
<1>4. h.width > 0 /\ h.height > 0 /\ h.depth \in {1, 4, 8, 16, 24, 32}
  BY <1>2 DEF HeaderLoads, Accepts, BmpAccepted
<1>5. DOMAIN b = Base /\ Streaming(b) /\ b.locked = {}
  BY <1>1, NewStreams, FilesTyped
<1>6. PICK u : u = SeekBegin(b, h.offset)
  OBVIOUS
<1>7. Moved(b, u)
  BY <1>3, <1>5, <1>6, SeekBeginMoves
<1>8. PICK r : r = [header |-> h, row |-> 0, x |-> 0]
  OBVIOUS
<1>9. DOMAIN r = {"header", "row", "x"} /\ \A x \in DOMAIN r : x \notin Base
  BY <1>8 DEF Base
<1>10. PICK w, g, v : w = h.width /\ g = h.height /\ v = AddHeader(u, w, g, r)
  OBVIOUS
<1>11. HasHeader(v, b, u, w, g, r)
  BY <1>5, <1>7, <1>9, <1>10, HeaderAdded
<1>12. LoadHeaderOf("BMP", f) = v
  BY <1>1, <1>2, <1>6, <1>8, <1>10 DEF LoadHeaderOf, LoadHeaderBmp, AddHeader
<1>13. v.header = h /\ v.row = 0 /\ v.x = 0
  BY <1>8, <1>9, <1>11 DEF HasHeader
<1>14. BmpReady(v)
  BY <1>3, <1>4, <1>9, <1>10, <1>11, <1>13 DEF HasHeader, BmpReady, BmpTyped, BmpFields
<1> QED BY <1>3, <1>5, <1>11, <1>12, <1>14 DEF HasHeader, Headed, Ready

LEMMA PcxHeaded ==
    ASSUME NEW f \in Files, HeaderLoads("PCX", f)
    PROVE  Headed(LoadHeaderOf("PCX", f), f)
<1>1. PICK b : b = NewDecoder(f.data)
  OBVIOUS
<1>2. PICK h : h = f.header
  OBVIOUS
<1>3. f.codec = "PCX" /\ h.width \in Int /\ h.height \in Int /\ h.offset \in Nat /\ h.bytesPerLine \in Nat
  BY <1>2, FilesTyped DEF HeaderLoads, Accepts, HeaderTyped
<1>4. h.width > 0 /\ h.height > 0 /\ h.planes \in {1, 3, 4}
  BY <1>2 DEF HeaderLoads, Accepts, PcxAccepted
<1>5. DOMAIN b = Base /\ Streaming(b) /\ b.locked = {}
  BY <1>1, NewStreams, FilesTyped
<1>6. PICK u : u = SetFileReader(SeekBegin(b, h.offset))
  OBVIOUS
<1>7. Moved(b, u)
  <2>1. PICK s : s = SeekBegin(b, h.offset)
    OBVIOUS
  <2>2. Moved(b, s) /\ Streaming(s)
    BY <1>3, <1>5, <2>1, SeekBeginMoves DEF Moved
  <2>3. Moved(s, SetFileReader(s))
    BY <2>2, SetFileReaderMoves
  <2> QED BY <1>6, <2>1, <2>2, <2>3, MovedOn
<1>8. PICK r : r = [header |-> h, scan |-> 0, row |-> <<>>]
  OBVIOUS
<1>9. DOMAIN r = {"header", "scan", "row"} /\ \A x \in DOMAIN r : x \notin Base
  BY <1>8 DEF Base
<1>10. PICK w, g, v : w = h.width /\ g = h.height /\ v = AddHeader(u, w, g, r)
  OBVIOUS
<1>11. HasHeader(v, b, u, w, g, r)
  BY <1>5, <1>7, <1>9, <1>10, HeaderAdded
<1>12. LoadHeaderOf("PCX", f) = v
  BY <1>1, <1>2, <1>6, <1>8, <1>10 DEF LoadHeaderOf, LoadHeaderPcx, AddHeader
<1>13. v.header = h /\ v.scan = 0
  BY <1>8, <1>9, <1>11 DEF HasHeader
<1>14. PcxReady(v)
  BY <1>3, <1>4, <1>7, <1>9, <1>10, <1>11, <1>13 DEF HasHeader, PcxReady, PcxFields
<1> QED BY <1>3, <1>5, <1>11, <1>12, <1>14 DEF HasHeader, Headed, Ready

LEMMA XyzHeaded ==
    ASSUME NEW f \in Files, HeaderLoads("XYZ", f)
    PROVE  Headed(LoadHeaderOf("XYZ", f), f)
<1>1. PICK b : b = NewDecoder(f.data)
  OBVIOUS
<1>2. PICK h : h = f.header
  OBVIOUS
<1>3. f.codec = "XYZ" /\ h.width \in Int /\ h.height \in Int /\ h.offset \in Nat /\ (\A i \in DOMAIN f.data : h.inflates[f.data[i]] \in Seq(Bytes))
  BY <1>2, FilesTyped DEF HeaderLoads, Accepts, HeaderTyped
<1>4. h.width > 0 /\ h.height > 0
  BY <1>2 DEF HeaderLoads, Accepts
<1>5. DOMAIN b = Base /\ Streaming(b) /\ b.locked = {}
  BY <1>1, NewStreams, FilesTyped
<1>6. PICK u : u = SeekBegin(b, h.offset)
  OBVIOUS
<1>7. Moved(b, u)
  BY <1>3, <1>5, <1>6, SeekBeginMoves
<1>8. PICK r : r = [header |-> h, paletteSet |-> FALSE, x |-> 0, y |-> 0, outData |-> <<>>, pending |-> <<>>]
  OBVIOUS
<1>9. DOMAIN r = {"header", "paletteSet", "x", "y", "outData", "pending"} /\ \A x \in DOMAIN r : x \notin Base
  BY <1>8 DEF Base
<1>10. PICK w, g, v : w = h.width /\ g = h.height /\ v = AddHeader(u, w, g, r)
  OBVIOUS
<1>11. HasHeader(v, b, u, w, g, r)
  BY <1>5, <1>7, <1>9, <1>10, HeaderAdded
<1>12. LoadHeaderOf("XYZ", f) = v
  BY <1>1, <1>2, <1>6, <1>8, <1>10 DEF LoadHeaderOf, LoadHeaderXyz, AddHeader
<1>13. v.header = h /\ v.x = 0 /\ v.y = 0 /\ v.outData = <<>> /\ v.pending = <<>>
  BY <1>8, <1>9, <1>11 DEF HasHeader
<1>14. XyzReady(v)
  <2>1. v.data = f.data /\ <<>> \in Seq(Bytes)
    BY <1>1, <1>11, NewStreams, FilesTyped DEF HasHeader
  <2>2. Inflates(v)
    BY <1>3, <1>13, <2>1 DEF Inflates
  <2>3. XyzTyped(v)
    BY <1>3, <1>4, <1>7, <1>9, <1>10, <1>11, <1>13, <2>1 DEF HasHeader, XyzTyped, XyzFields
  <2> QED BY <2>2, <2>3 DEF XyzReady
<1> QED BY <1>3, <1>5, <1>11, <1>12, <1>14 DEF HasHeader, Headed, Ready

LEMMA PngHeaded ==
    ASSUME NEW f \in Files, HeaderLoads("PNG", f)
    PROVE  Headed(LoadHeaderOf("PNG", f), f)
<1>1. PICK b : b = NewDecoder(f.data)
  OBVIOUS
<1>2. PICK h : h = f.header
  OBVIOUS
<1>3. f.codec = "PNG" /\ h.width \in Int /\ h.height \in Int /\ h.offset \in Nat /\ h.pixelSize \in Nat /\ h.passes \in {1, 7}
  BY <1>2, FilesTyped DEF HeaderLoads, Accepts, HeaderTyped
<1>4. h.width > 0 /\ h.height > 0
  BY <1>2 DEF HeaderLoads, Accepts, LibraryAccepted
<1>5. DOMAIN b = Base /\ Streaming(b) /\ b.locked = {}
  BY <1>1, NewStreams, FilesTyped
<1>6. PICK u : u = SeekBegin(b, h.offset)
  OBVIOUS
<1>7. Moved(b, u)
  BY <1>3, <1>5, <1>6, SeekBeginMoves
<1>8. PICK r : r = [header |-> h, scan |-> 0, pass |-> 0]
  OBVIOUS
<1>9. DOMAIN r = {"header", "scan", "pass"} /\ \A x \in DOMAIN r : x \notin Base
  BY <1>8 DEF Base
<1>10. PICK w, g, v : w = h.width /\ g = h.height /\ v = AddHeader(u, w, g, r)
  OBVIOUS
<1>11. HasHeader(v, b, u, w, g, r)
  BY <1>5, <1>7, <1>9, <1>10, HeaderAdded
<1>12. LoadHeaderOf("PNG", f) = v
  BY <1>1, <1>2, <1>6, <1>8, <1>10 DEF LoadHeaderOf, LoadHeaderPng, AddHeader
<1>13. v.header = h /\ v.scan = 0 /\ v.pass = 0
  BY <1>8, <1>9, <1>11 DEF HasHeader
<1>14. PngReady(v)
  BY <1>3, <1>4, <1>7, <1>9, <1>10, <1>11, <1>13 DEF HasHeader, PngReady, PngFields
<1> QED BY <1>3, <1>5, <1>11, <1>12, <1>14 DEF HasHeader, Headed, Ready

LEMMA PspHeaded ==
    ASSUME NEW f \in Files, HeaderLoads("PSP", f)
    PROVE  Headed(LoadHeaderOf("PSP", f), f)
<1>1. PICK b : b = NewDecoder(f.data)
  OBVIOUS
<1>2. PICK h : h = f.header
  OBVIOUS
<1>3. f.codec = "PSP" /\ h.width \in Int /\ h.height \in Int /\ h.offset \in Nat /\ h.blocks \in Seq(Range(h.blocks))
      /\ (\A i \in DOMAIN h.blocks : {h.blocks[i].at, h.blocks[i].size, h.blocks[i].end} \subseteq Nat)
  BY <1>2, FilesTyped DEF HeaderLoads, Accepts, HeaderTyped
<1>4. h.width > 0 /\ h.height > 0 /\ h.depth \in {1, 4, 8, 24}
  BY <1>2 DEF HeaderLoads, Accepts, PspAccepted
<1>5. DOMAIN b = Base /\ Streaming(b) /\ b.locked = {}
  BY <1>1, NewStreams, FilesTyped
<1>6. PICK u : u = SeekBegin(b, h.offset)
  OBVIOUS
<1>7. Moved(b, u)
  BY <1>3, <1>5, <1>6, SeekBeginMoves
<1>8. PICK r : r = [header |-> h, parsed |-> FALSE, channels |-> <<>>, scan |-> 0, x |-> 0, row |-> <<>>, bad |-> FALSE]
  OBVIOUS
<1>9. DOMAIN r = {"header", "parsed", "channels", "scan", "x", "row", "bad"} /\ \A x \in DOMAIN r : x \notin Base
  BY <1>8 DEF Base
<1>10. PICK w, g, v : w = h.width /\ g = h.height /\ v = AddHeader(u, w, g, r)
  OBVIOUS
<1>11. HasHeader(v, b, u, w, g, r)
  BY <1>5, <1>7, <1>9, <1>10, HeaderAdded
<1>12. LoadHeaderOf("PSP", f) = v
  BY <1>1, <1>2, <1>6, <1>8, <1>10 DEF LoadHeaderOf, LoadHeaderPsp, AddHeader
<1>13. v.header = h /\ v.channels = <<>> /\ v.scan = 0
  BY <1>8, <1>9, <1>11 DEF HasHeader
<1>14. PspReady(v)
  BY <1>3, <1>4, <1>7, <1>9, <1>10, <1>11, <1>13 DEF HasHeader, PspReady, PspFields, PspHeader, ChannelsTyped
<1> QED BY <1>3, <1>5, <1>11, <1>12, <1>14 DEF HasHeader, Headed, Ready

LEMMA TiffHeaded ==
    ASSUME NEW f \in Files, HeaderLoads("TIFF", f)
    PROVE  Headed(LoadHeaderOf("TIFF", f), f)
<1>1. PICK b : b = NewDecoder(f.data)
  OBVIOUS
<1>2. PICK h : h = f.header
  OBVIOUS
<1>3. f.codec = "TIFF" /\ h.width \in Int /\ h.height \in Int /\ h.offset \in Nat /\ h.tiled \in BOOLEAN /\ h.bits \in Nat \ {0} /\ h.chunkSize \in Nat
      /\ h.at \in Seq(Nat) \ {<<>>} /\ h.lengths \in Seq(Nat) /\ Len(h.lengths) = Len(h.at)
      /\ (h.tiled => h.tileWidth \in Nat \ {0} /\ h.tileHeight \in Nat \ {0})
  BY <1>2, FilesTyped DEF HeaderLoads, Accepts, HeaderTyped
<1>4. h.width > 0 /\ h.height > 0
  BY <1>2 DEF HeaderLoads, Accepts, LibraryAccepted
<1>5. DOMAIN b = Base /\ Streaming(b) /\ b.locked = {}
  BY <1>1, NewStreams, FilesTyped
<1>6. PICK u : u = SeekBegin(b, h.offset)
  OBVIOUS
<1>7. Moved(b, u)
  BY <1>3, <1>5, <1>6, SeekBeginMoves
<1>8. PICK r : r = [header |-> h, current |-> 0, bufferPosition |-> 0, tileX |-> 0, tileY |-> 0]
  OBVIOUS
<1>9. DOMAIN r = {"header", "current", "bufferPosition", "tileX", "tileY"} /\ \A x \in DOMAIN r : x \notin Base
  BY <1>8 DEF Base
<1>10. PICK w, g, v : w = h.width /\ g = h.height /\ v = AddHeader(u, w, g, r)
  OBVIOUS
<1>11. HasHeader(v, b, u, w, g, r)
  BY <1>5, <1>7, <1>9, <1>10, HeaderAdded
<1>12. LoadHeaderOf("TIFF", f) = v
  BY <1>1, <1>2, <1>6, <1>8, <1>10 DEF LoadHeaderOf, LoadHeaderTiff, AddHeader
<1>13. v.header = h /\ v.current = 0 /\ v.bufferPosition = 0 /\ v.tileX = 0 /\ v.tileY = 0
  BY <1>8, <1>9, <1>11 DEF HasHeader
<1>14. TiffReady(v)
  BY <1>3, <1>4, <1>7, <1>9, <1>10, <1>11, <1>13 DEF HasHeader, TiffReady, TiffFields, TiffHeader
<1> QED BY <1>3, <1>5, <1>11, <1>12, <1>14 DEF HasHeader, Headed, Ready

LEMMA WebpHeaded ==
    ASSUME NEW f \in Files, HeaderLoads("WEBP", f)
    PROVE  Headed(LoadHeaderOf("WEBP", f), f)
<1>1. PICK b : b = NewDecoder(f.data)
  OBVIOUS
<1>2. PICK h : h = f.header
  OBVIOUS
<1>3. f.codec = "WEBP" /\ h.width \in Int /\ h.height \in Int /\ h.offset \in Nat
  BY <1>2, FilesTyped DEF HeaderLoads, Accepts, HeaderTyped
<1>4. h.width > 0 /\ h.height > 0
  BY <1>2 DEF HeaderLoads, Accepts, LibraryAccepted
<1>5. DOMAIN b = Base /\ Streaming(b) /\ b.locked = {}
  BY <1>1, NewStreams, FilesTyped
<1>6. PICK u : u = Read(ReadFull(b, h.offset), FileLeft(ReadFull(b, h.offset)))
  OBVIOUS
<1>7. Moved(b, u)
  <2>1. PICK s : s = ReadFull(b, h.offset)
    OBVIOUS
  <2>2. Moved(b, s) /\ Streaming(s)
    BY <1>3, <1>5, <2>1, ReadFullMoves DEF Moved
  <2>3. PICK n : n = FileLeft(s)
    OBVIOUS
  <2>4. n \in Nat
    BY <2>2, <2>3 DEF FileLeft, Streaming
  <2>5. Moved(s, Read(s, n))
    BY <2>2, <2>4, ReadMoves
  <2> QED BY <1>6, <2>1, <2>2, <2>3, <2>5, MovedOn
<1>8. PICK r : r = [header |-> h, frames |-> <<>>]
  OBVIOUS
<1>9. DOMAIN r = {"header", "frames"} /\ \A x \in DOMAIN r : x \notin Base
  BY <1>8 DEF Base
<1>10. PICK w, g, v : w = h.width /\ g = h.height /\ v = AddHeader(u, w, g, r)
  OBVIOUS
<1>11. HasHeader(v, b, u, w, g, r)
  BY <1>5, <1>7, <1>9, <1>10, HeaderAdded
<1>12. LoadHeaderOf("WEBP", f) = v
  BY <1>1, <1>2, <1>6, <1>8, <1>10 DEF LoadHeaderOf, LoadHeaderWebp, AddHeader
<1>13. v.header = h
  BY <1>8, <1>9, <1>11 DEF HasHeader
<1>14. WebpReady(v)
  BY <1>3, <1>4, <1>7, <1>9, <1>10, <1>11, <1>13 DEF HasHeader, WebpReady, WebpFields
<1> QED BY <1>3, <1>5, <1>11, <1>12, <1>14 DEF HasHeader, Headed, Ready

\* A cache that takes a file over has nothing of it yet.
LEMMA CacheBegins ==
    ASSUME NEW e, Streaming(e)
    PROVE  CacheOK(SetFileReader(e))
<1>1. PICK l : l = FileLeft(e)
  OBVIOUS
<1>2. PICK u : u = [e EXCEPT !.left = l, !.at = 0, !.size = 0]
  OBVIOUS
<1>3. u.left = l /\ u.at = 0 /\ u.size = 0 /\ u.pos = e.pos /\ u.data = e.data
  BY <1>2 DEF Streaming, Base
<1>4. e.pos \in Nat /\ Len(e.data) \in Nat
  BY DEF Streaming
<1>5. SetFileReader(e) = u
  BY <1>1, <1>2 DEF SetFileReader
<1>6. e.pos - (0 - 0) = e.pos /\ l = Len(e.data) - e.pos
  BY <1>1, <1>4 DEF FileLeft
<1> QED BY <1>3, <1>4, <1>5, <1>6 DEF CacheOK, VirtualFilePosition

LEMMA TgaHeaded ==
    ASSUME NEW f \in Files, HeaderLoads("TGA", f)
    PROVE  Headed(LoadHeaderOf("TGA", f), f)
<1>1. PICK b : b = NewDecoder(f.data)
  OBVIOUS
<1>2. PICK h : h = f.header
  OBVIOUS
<1>3. f.codec = "TGA" /\ h.width \in Int /\ h.height \in Int /\ h.flipVertical \in BOOLEAN /\ h.idSize \in Nat /\ h.mapLength \in Nat
  BY <1>2, FilesTyped DEF HeaderLoads, Accepts, HeaderTyped
<1>4. h.width > 0 /\ h.height > 0 /\ h.depth \in TgaDepths
  BY <1>2 DEF HeaderLoads, Accepts, TgaAccepted
<1>5. DOMAIN b = Base /\ Streaming(b) /\ b.locked = {}
  BY <1>1, NewStreams, FilesTyped
<1>6. PICK u : u = SetFileReader(ReadFull(SeekCurrent(b, h.idSize), PaletteBytes(h)))
  OBVIOUS
<1>7. Moved(b, u) /\ CacheOK(u)
  <2>1. PICK s : s = SeekCurrent(b, h.idSize)
    OBVIOUS
  <2>2. Moved(b, s) /\ Streaming(s)
    BY <1>3, <1>5, <2>1, SeekCurrentMoves DEF Moved
  <2>3. PICK n : n = PaletteBytes(h)
    OBVIOUS
  <2>4. n \in Nat
    BY <1>3, <2>3 DEF PaletteBytes
  <2>5. PICK a : a = ReadFull(s, n)
    OBVIOUS
  <2>6. Moved(s, a) /\ Streaming(a)
    BY <2>2, <2>4, <2>5, ReadFullMoves DEF Moved
  <2>7. Moved(a, SetFileReader(a)) /\ CacheOK(SetFileReader(a))
    BY <2>6, SetFileReaderMoves, CacheBegins
  <2>8. u = SetFileReader(a)
    BY <1>6, <2>1, <2>3, <2>5
  <2> QED BY <2>2, <2>6, <2>7, <2>8, MovedOn
<1>8. PICK r : r = [header |-> h, scanline |-> IF h.flipVertical THEN h.height ELSE 0,
                  x |-> 0, y |-> 0, run |-> 0, isRun |-> FALSE, pixel |-> <<>>]
  OBVIOUS
<1>9. DOMAIN r = {"header", "scanline", "x", "y", "run", "isRun", "pixel"} /\ \A x \in DOMAIN r : x \notin Base
  BY <1>8 DEF Base
<1>10. PICK w, g, v : w = h.width /\ g = h.height /\ v = AddHeader(u, w, g, r)
  OBVIOUS
<1>11. HasHeader(v, b, u, w, g, r)
  BY <1>5, <1>7, <1>9, <1>10, HeaderAdded
<1>12. LoadHeaderOf("TGA", f) = v
  BY <1>1, <1>2, <1>6, <1>8, <1>10 DEF LoadHeaderOf, LoadHeaderTga, AddHeader
<1>13. v.header = h /\ v.scanline = (IF h.flipVertical THEN h.height ELSE 0) /\ v.run = 0
  BY <1>8, <1>9, <1>11 DEF HasHeader
<1>14. TgaReady(v)
  BY <1>3, <1>4, <1>7, <1>9, <1>10, <1>11, <1>13 DEF HasHeader, TgaReady, TgaFields
<1> QED BY <1>3, <1>5, <1>11, <1>12, <1>14 DEF HasHeader, Headed, Ready

LEMMA ProductTyped ==
    ASSUME NEW a \in Nat, NEW b \in Nat
    PROVE  a * b \in Nat
OBVIOUS

\* The lengths of the packed rows are read from the file, where they are all there.
LEMMA LengthsTyped ==
    ASSUME NEW b, Streaming(b), NEW h, h.offset \in Nat, NEW n \in Nat, n = h.height * h.channels,
           h.offset + 2 * n <= Len(b.data)
    PROVE  PsdLengths(b, h) \in Seq(Nat)
<1>1. PICK o \in Nat : o = h.offset
  OBVIOUS
<1>2. PICK s \in Seq(Bytes), k \in Nat : s = b.data /\ k = Len(b.data)
  BY DEF Streaming
<1>3. o + 2 * n <= k
  BY <1>1, <1>2
<1>4. s \in Seq(Bytes) /\ Len(s) = k
  BY <1>2 DEF Streaming
<1>5. \A i \in 1..k : s[i] \in Nat
  <2>1. \A i \in 1..k : s[i] \in Bytes
    BY <1>4
  <2>2. \A x \in Bytes : x \in Nat
    BY DEF Bytes
  <2> QED BY <2>1, <2>2
<1>6. \A i \in 1..n : o + 2 * i - 1 \in 1..k /\ o + 2 * i \in 1..k
  BY <1>3
<1>7. ASSUME NEW i \in 1..n PROVE 256 * s[o + 2 * i - 1] + s[o + 2 * i] \in Nat
  <2>1. PICK x \in Nat, y \in Nat : x = s[o + 2 * i - 1] /\ y = s[o + 2 * i]
    BY <1>5, <1>6
  <2>2. 256 * x + y \in Nat
    OBVIOUS
  <2> QED BY <2>1, <2>2
<1>8. PICK l : l = [i \in 1..n |-> 256 * s[o + 2 * i - 1] + s[o + 2 * i]]
  OBVIOUS
<1>9. l \in [1..n -> Nat]
  BY <1>7, <1>8
<1>10. l \in Seq(Nat)
  BY <1>9
<1>11. PsdLengths(b, h) = l
  BY <1>1, <1>2, <1>8 DEF PsdLengths
<1> QED BY <1>10, <1>11

LEMMA PsdHeaded ==
    ASSUME NEW f \in Files, HeaderLoads("PSD", f)
    PROVE  Headed(LoadHeaderOf("PSD", f), f)
<1>1. PICK b : b = NewDecoder(f.data)
  OBVIOUS
<1>2. PICK h : h = f.header
  OBVIOUS
<1>3. /\ f.codec = "PSD" /\ h.width \in Int /\ h.height \in Int /\ h.offset \in Nat
      /\ h.channels \in Nat /\ h.bits \in Nat
  BY <1>2, FilesTyped DEF HeaderLoads, Accepts, HeaderTyped
<1>4. h.width > 0 /\ h.height > 0
  BY <1>2 DEF HeaderLoads, Accepts, PsdAccepted
<1>5. DOMAIN b = Base /\ Streaming(b) /\ b.locked = {} /\ b.data = f.data
  BY <1>1, NewStreams, FilesTyped
<1>6. PICK n \in Nat : n = h.height * h.channels
  BY <1>3, <1>4, ProductTyped
<1>7. PICK m \in Nat : m = IF h.compression = "Rle" THEN 2 * h.height * h.channels ELSE 0
  <2>1. 2 * h.height * h.channels = 2 * n
    BY <1>3, <1>4, <1>6
  <2> QED BY <2>1
<1>8. PICK s : s = SeekBegin(b, h.offset)
  OBVIOUS
<1>9. Moved(b, s) /\ Streaming(s)
  BY <1>3, <1>5, <1>8, SeekBeginMoves DEF Moved
<1>10. PICK u : u = ReadFull(s, m)
  OBVIOUS
<1>11. Moved(s, u) /\ (u.out # "throw" => FileLeft(s) >= m)
  BY <1>9, <1>10, ReadFullMoves
<1>12. Moved(b, u)
  BY <1>9, <1>11, MovedOn
<1>13. PICK l : l = IF m = 0 \/ u.out = "throw" THEN <<>> ELSE PsdLengths(b, h)
  OBVIOUS
<1>14. l \in Seq(Nat)
  <2>1. CASE m = 0 \/ u.out = "throw"
    BY <1>13, <2>1
  <2>2. CASE ~(m = 0 \/ u.out = "throw")
    <3>1. m = 2 * n
      BY <1>3, <1>4, <1>6, <1>7, <2>2
    <3>2. FileLeft(s) >= m /\ s.out # "throw"
      BY <1>11, <2>2 DEF Moved
    <3>3. s = [b EXCEPT !.pos = h.offset]
      <4>1. h.offset > Len(b.data) => s.out = "throw"
        BY <1>5, <1>8 DEF SeekBegin, Throw, Base
      <4> QED BY <1>8, <3>2, <4>1 DEF SeekBegin
    <3>4. s.pos = h.offset /\ s.data = b.data
      BY <1>5, <3>3 DEF Base
    <3>5. h.offset + 2 * n <= Len(b.data)
      <4>1. Len(b.data) \in Int
        BY <1>5 DEF Streaming
      <4> QED BY <1>3, <3>1, <3>2, <3>4, <4>1 DEF FileLeft
    <3> QED BY <1>3, <1>5, <1>6, <1>13, <2>2, <3>5, LengthsTyped
  <2> QED BY <2>1, <2>2
<1>15. PICK r : r = [header |-> h, scanline |-> 0, channel |-> 0, plane |-> <<>>, stream |-> 1, lengths |-> l]
  OBVIOUS
<1>16. /\ DOMAIN r = {"header", "scanline", "channel", "plane", "stream", "lengths"}
       /\ \A x \in DOMAIN r : x \notin Base
  BY <1>15 DEF Base
<1>17. PICK w, g, v : w = h.width /\ g = h.height /\ v = AddHeader(u, w, g, r)
  OBVIOUS
<1>18. HasHeader(v, b, u, w, g, r)
  BY <1>5, <1>12, <1>16, <1>17, HeaderAdded
<1>19. LoadHeaderOf("PSD", f) = v
  BY <1>1, <1>2, <1>7, <1>8, <1>10, <1>13, <1>15, <1>17 DEF LoadHeaderOf, LoadHeaderPsd, AddHeader
<1>20. v.header = h /\ v.scanline = 0 /\ v.stream = 1 /\ v.lengths = l
  BY <1>15, <1>16, <1>18 DEF HasHeader
<1>21. PsdReady(v)
  BY <1>3, <1>4, <1>14, <1>16, <1>17, <1>18, <1>20 DEF HasHeader, PsdReady, PsdFields
<1> QED BY <1>3, <1>5, <1>18, <1>19, <1>21 DEF HasHeader, Headed, Ready

LEMMA JpegHeaded ==
    ASSUME NEW f \in Files, HeaderLoads("JPEG", f)
    PROVE  Headed(LoadHeaderOf("JPEG", f), f)
<1>1. PICK b : b = NewDecoder(f.data)
  OBVIOUS
<1>2. PICK h : h = f.header
  OBVIOUS
<1>3. f.codec = "JPEG" /\ h.width \in Int /\ h.height \in Int /\ h.rowsAtOnce \in Nat
  BY <1>2, FilesTyped DEF HeaderLoads, Accepts, HeaderTyped
<1>4. h.width > 0 /\ h.height > 0
  BY <1>2 DEF HeaderLoads, Accepts, LibraryAccepted
<1>5. DOMAIN b = Base /\ Streaming(b) /\ b.locked = {} /\ b.data = f.data
  BY <1>1, NewStreams, FilesTyped
<1>6. Moved(b, b)
  BY <1>5, NotMoved
<1>7. PICK r : r = [header |-> h, isInit |-> FALSE, scan |-> 0, scale |-> 1, doFast |-> FALSE,
                    fast |-> <<>>, shown |-> "full"]
  OBVIOUS
<1>8. /\ DOMAIN r = {"header", "isInit", "scan", "scale", "doFast", "fast", "shown"}
      /\ \A x \in DOMAIN r : x \notin Base
  BY <1>7 DEF Base
<1>9. PICK w, g, v : w = h.width /\ g = h.height /\ v = AddHeader(b, w, g, r)
  OBVIOUS
<1>10. HasHeader(v, b, b, w, g, r)
  BY <1>5, <1>6, <1>8, <1>9, HeaderAdded
<1>11. PICK p : p = SeekBegin(v, 0)
  OBVIOUS
<1>12. Moved(v, p)
  BY <1>10, <1>11, SeekBeginMoves DEF HasHeader
<1>13. PICK z : z = [p EXCEPT !.isInit = TRUE]
  OBVIOUS
<1>14. LoadHeaderOf("JPEG", f) = z
  BY <1>1, <1>2, <1>7, <1>9, <1>11, <1>13 DEF LoadHeaderOf, LoadHeaderJpeg, PrepareLibJpeg, AddHeader
<1>15. v.header = h /\ v.scan = 0 /\ DOMAIN v = JpegFields
  BY <1>7, <1>8, <1>10 DEF HasHeader, JpegFields
<1>16. DOMAIN p = JpegFields /\ Streaming(p) /\ \A x \in {"header", "scan", "w", "h", "locked", "data"} : p[x] = v[x]
  BY <1>12, <1>15 DEF Moved, JpegFields, Base, StreamFields
<1>17. DOMAIN z = JpegFields /\ \A x \in JpegFields \ {"isInit"} : z[x] = p[x]
  BY <1>13, <1>16
<1>18. \A x \in {"data", "pos", "open", "left", "at", "size", "header", "scan", "w", "h", "locked"} : z[x] = p[x]
  BY <1>17 DEF JpegFields, Base
<1>19. Streaming(z)
  <2>1. Base \subseteq DOMAIN z
    BY <1>17 DEF JpegFields
  <2> QED BY <1>16, <1>18, <2>1, SameStreams
<1>20. z.header = h /\ z.scan = 0 /\ z.w = w /\ z.h = g /\ z.locked = {} /\ z.data = f.data
  BY <1>5, <1>10, <1>15, <1>16, <1>18 DEF HasHeader
<1>21. JpegReady(z)
  BY <1>3, <1>4, <1>9, <1>17, <1>19, <1>20 DEF JpegReady
<1> QED BY <1>2, <1>3, <1>14, <1>19, <1>20, <1>21 DEF Headed, Ready

\* A number of seven bits a byte.
Septet(v, b, p) == 128 * v + (b % 128)
IsNumber(v, p) == v \in Nat

Septets == INSTANCE Loops WITH Step <- Septet, Holds <- IsNumber

LEMMA SeptetsTyped ==
    ASSUME NEW s \in Seq(Bytes)
    PROVE  FoldLeft(LAMBDA v, b : 128 * v + (b % 128), 0, s) \in Nat
<1>1. PICK n \in Nat : DOMAIN s = 1..n
  <2>1. Len(s) \in Nat /\ DOMAIN s = 1 .. Len(s)
    OBVIOUS
  <2> QED BY <2>1
<1>2. \A i \in 1..n : s[i] \in Bytes
  BY <1>1
<1>3. ASSUME NEW u, NEW i \in 1..n, IsNumber(u, 0) PROVE IsNumber(Septet(u, s[i], 0), 0)
  <2>1. PICK b \in 0..255 : b = s[i]
    BY <1>2 DEF Bytes
  <2>2. u \in Nat
    BY <1>3 DEF IsNumber
  <2>3. 128 * u + (b % 128) \in Nat
    BY <2>2
  <2> QED BY <2>1, <2>3 DEF Septet, IsNumber
<1>4. IsNumber(0, 0)
  BY DEF IsNumber
<1>5. \A u : \A i \in 1..n : IsNumber(u, 0) => IsNumber(Septet(u, s[i], 0), 0)
  BY <1>3
<1>6. IsNumber(Septets!Result(0, s, 0), 0)
  BY <1>1, <1>4, <1>5, AllNumbers, Septets!LoopHolds DEF Septets!Inductive
<1>7. FoldLeft(LAMBDA v, b : 128 * v + (b % 128), 0, s) = Septets!Result(0, s, 0)
  BY DEF Septet, Septets!Result, FoldLeft, MapThenFoldSet,
         Max, Septets!Last
<1> QED BY <1>6, <1>7 DEF IsNumber

LEMMA UIntVarTyped ==
    ASSUME NEW data \in Seq(Bytes), NEW i \in Nat \ {0}
    PROVE  ReadUIntVar(data, i).value \in Nat /\ ReadUIntVar(data, i).next \in Nat \ {0}
<1>1. PICK l \in Nat : l = Len(data)
  OBVIOUS
<1>2. PICK ends : ends = {k \in i..l : data[k] < 128}
  OBVIOUS
<1>3. CASE ends = {}
  <2>1. PICK r : r = [there |-> FALSE, value |-> 0, next |-> l + 1]
    OBVIOUS
  <2>2. ReadUIntVar(data, i) = r
    BY <1>1, <1>2, <1>3, <2>1 DEF ReadUIntVar
  <2>3. r.value = 0 /\ r.next = l + 1
    BY <2>1
  <2> QED BY <2>2, <2>3
<1>4. CASE ends # {}
  <2>1. ends \in SUBSET Nat
    BY <1>2
  <2>2. \E m \in ends : \A k \in ends : m <= k
    BY <1>4, <2>1, LeastNumber
  <2>3. PICK m : m = Min(ends) /\ m \in ends
    BY <2>2 DEF Min
  <2>4. m \in i..l
    BY <1>2, <2>3
  <2>5. SubSeq(data, i, m) \in Seq(Bytes)
    BY <1>1, <2>4
  <2>6. PICK v \in Nat : v = FoldLeft(LAMBDA x, b : 128 * x + (b % 128), 0, SubSeq(data, i, m))
    BY <2>5, SeptetsTyped
  <2>7. PICK r : r = [there |-> TRUE, next |-> m + 1, value |-> v]
    OBVIOUS
  <2>8. ReadUIntVar(data, i) = r
    BY <1>1, <1>2, <1>4, <2>3, <2>6, <2>7 DEF ReadUIntVar
  <2>9. r.value = v /\ r.next = m + 1
    BY <2>7
  <2> QED BY <2>4, <2>8, <2>9
<1> QED BY <1>3, <1>4

LEMMA WbmpHeaded ==
    ASSUME NEW f \in Files, HeaderLoads("WBMP", f)
    PROVE  Headed(LoadHeaderOf("WBMP", f), f)
<1>1. PICK b : b = NewDecoder(f.data)
  OBVIOUS
<1>2. f.codec = "WBMP" /\ f.data \in Seq(Bytes)
  BY FilesTyped DEF HeaderLoads, Accepts
<1>3. DOMAIN b = Base /\ Streaming(b) /\ b.locked = {} /\ b.data = f.data
  BY <1>1, <1>2, NewStreams
<1>4. PICK type : type = ReadUIntVar(b.data, 1)
  OBVIOUS
<1>5. type.next + 1 \in Nat \ {0}
  BY <1>2, <1>3, <1>4, UIntVarTyped
<1>6. PICK width : width = ReadUIntVar(b.data, type.next + 1)
  OBVIOUS
<1>7. width.value \in Nat /\ width.next \in Nat \ {0}
  BY <1>2, <1>3, <1>5, <1>6, UIntVarTyped
<1>8. PICK height : height = ReadUIntVar(b.data, width.next)
  OBVIOUS
<1>9. height.value \in Nat /\ height.next \in Nat \ {0}
  BY <1>2, <1>3, <1>7, <1>8, UIntVarTyped
<1>10. PICK o \in Nat : o = height.next - 1
  BY <1>9
<1>11. PICK u : u = SeekBegin(b, o)
  OBVIOUS
<1>12. Moved(b, u)
  BY <1>3, <1>11, SeekBeginMoves
<1>13. PICK a : a = (/\ type.there /\ width.there /\ height.there
                     /\ type.value = 0 /\ b.data[type.next] = 0
                     /\ width.value > 0 /\ height.value > 0)
  OBVIOUS
<1>14. PICK r : r = [scan |-> 0, accepted |-> a]
  OBVIOUS
<1>15. DOMAIN r = {"scan", "accepted"} /\ \A x \in DOMAIN r : x \notin Base
  BY <1>14 DEF Base
<1>16. PICK w, g, v : w = width.value /\ g = height.value /\ v = AddHeader(u, w, g, r)
  OBVIOUS
<1>17. HasHeader(v, b, u, w, g, r)
  BY <1>3, <1>12, <1>15, <1>16, HeaderAdded
<1>18. LoadHeaderOf("WBMP", f) = v
  BY <1>1, <1>4, <1>6, <1>8, <1>10, <1>11, <1>13, <1>14, <1>16 DEF LoadHeaderOf, LoadHeaderWbmp, AddHeader
<1>19. v.scan = 0
  BY <1>14, <1>15, <1>17 DEF HasHeader
<1>20. WbmpReady(v)
  BY <1>7, <1>9, <1>15, <1>16, <1>17, <1>19 DEF HasHeader, WbmpReady, WbmpFields
<1> QED BY <1>2, <1>3, <1>17, <1>18, <1>20 DEF HasHeader, Headed, Ready
-----------------------------------------------------------------------------
(* The codec that is found is that of the file's format                    *)

Formats == {"WEBP", "BMP", "GIF", "JPEG", "PCX", "PNG", "TGA", "WBMP", "PSP", "TIFF", "PSD", "XYZ"}

LEMMA FormatsNamed == ASSUME NEW f \in Files PROVE f.codec \in Formats
<1>1. PICK s : s = BuiltinCodecs
  OBVIOUS
<1>2. DOMAIN s = 1..12 /\ \A i \in 1..12 : s[i] \in Formats
  BY <1>1 DEF BuiltinCodecs, Formats
<1>3. \A c \in Range(s) : c \in Formats
  BY <1>2 DEF Range
<1> QED BY <1>1, <1>3, FilesTyped

LEMMA HeaderReady ==
    ASSUME NEW f \in Files, f.codec # "GIF", HeaderLoads(f.codec, f)
    PROVE  Headed(LoadHeaderOf(f.codec, f), f)
<1>1. f.codec \in Formats \ {"GIF"}
  BY FormatsNamed
<1>2. CASE f.codec = "BMP"
  BY <1>2, BmpHeaded
<1>3. CASE f.codec = "PCX"
  BY <1>3, PcxHeaded
<1>4. CASE f.codec = "XYZ"
  BY <1>4, XyzHeaded
<1>5. CASE f.codec = "PNG"
  BY <1>5, PngHeaded
<1>6. CASE f.codec = "PSP"
  BY <1>6, PspHeaded
<1>7. CASE f.codec = "TIFF"
  BY <1>7, TiffHeaded
<1>8. CASE f.codec = "WEBP"
  BY <1>8, WebpHeaded
<1>9. CASE f.codec = "TGA"
  BY <1>9, TgaHeaded
<1>10. CASE f.codec = "PSD"
  BY <1>10, PsdHeaded
<1>11. CASE f.codec = "JPEG"
  BY <1>11, JpegHeaded
<1>12. CASE f.codec = "WBMP"
  BY <1>12, WbmpHeaded
<1> QED BY <1>1, <1>2, <1>3, <1>4, <1>5, <1>6, <1>7, <1>8, <1>9, <1>10, <1>11, <1>12 DEF Formats

LEMMA HeaderLoaded ==
    ASSUME NEW f \in Files, DetectedCodec(f) # "none"
    PROVE  DetectedCodec(f) = f.codec /\ HeaderLoads(f.codec, f)
<1>1. PICK s : s = CodecsTried(f)
  OBVIOUS
<1>2. PICK t : t = BuiltinCodecs
  OBVIOUS
<1>3. DOMAIN t = 1..12 /\ Len(t) = 12
  BY <1>2 DEF BuiltinCodecs
<1>4. DOMAIN s \in SUBSET Nat
  <2>1. t \in Seq(Range(t))
    BY <1>2 DEF BuiltinCodecs, Range
  <2>2. <<f.ext>> \o t \in Seq(Range(t) \cup {f.ext})
    BY <2>1
  <2> QED BY <1>1, <1>2, <2>2 DEF CodecsTried
<1>5. PICK a : a = {i \in DOMAIN s : HeaderLoads(s[i], f)}
  OBVIOUS
<1>6. DetectedCodec(f) = IF a = {} THEN "none" ELSE s[Min(a)]
  BY <1>1, <1>5 DEF DetectedCodec
<1>7. a # {} /\ a \in SUBSET Nat
  BY <1>4, <1>5, <1>6
<1>8. \E m \in a : \A k \in a : m <= k
  BY <1>7, LeastNumber
<1>9. PICK m : m = Min(a) /\ m \in a
  BY <1>8 DEF Min
<1>10. HeaderLoads(s[m], f) /\ s[m] = f.codec
  BY <1>5, <1>9 DEF HeaderLoads, Accepts
<1> QED BY <1>6, <1>7, <1>9, <1>10
-----------------------------------------------------------------------------
(* The surface is made: PerformAllocate                                    *)

\* u is e, with another surface.
Resurfaced(e, u) == Alike(e, u) /\ u.out = e.out /\ u.locked = e.locked

LEMMA CreateSurfaceOnly ==
    ASSUME NEW e, Streaming(e), NEW n, NEW b
    PROVE  Resurfaced(e, CreateSurface(e, n, b))
<1>1. PICK s : s = [p \in SurfacePixels(e) |-> [i \in 1..n |-> b]]
  OBVIOUS
<1>2. CreateSurface(e, n, b) = [e EXCEPT !.surf = s]
  BY <1>1 DEF CreateSurface
<1> QED BY <1>2, SurfaceAlike DEF Resurfaced

LEMMA AllocatePspOnly ==
    ASSUME NEW e, Streaming(e)
    PROVE  Resurfaced(e, AllocatePsp(e))
<1>1. PICK u : u = CreateSurface(e, IF e.header.depth = 24 THEN 4 ELSE 1, 0)
  OBVIOUS
<1>2. Resurfaced(e, u) /\ Streaming(u)
  BY <1>1, CreateSurfaceOnly DEF Resurfaced, Alike
<1>3. PICK s : s = [p \in DOMAIN u.surf |-> [u.surf[p] EXCEPT ![4] = 255]]
  OBVIOUS
<1>4. PICK v : v = [u EXCEPT !.surf = s]
  OBVIOUS
<1>5. Alike(u, v) /\ v.out = u.out /\ v.locked = u.locked
  BY <1>2, <1>4, SurfaceAlike
<1>6. Resurfaced(e, v)
  BY <1>2, <1>5, AlikeOn DEF Resurfaced
<1>7. AllocatePsp(e) = IF e.header.depth = 24 THEN v ELSE u
  BY <1>1, <1>3, <1>4 DEF AllocatePsp
<1> QED BY <1>2, <1>6, <1>7

\* A decoder that is ready stays so when its surface is made.
AllocatedReady(c, e, u) == Ready(c, u) /\ u.out = e.out /\ u.locked = e.locked

LEMMA ResurfacedReady ==
    ASSUME NEW c, NEW e, NEW u, Ready(c, e), Resurfaced(e, u)
    PROVE  AllocatedReady(c, e, u)
BY AlikeReady DEF AllocatedReady, Resurfaced

LEMMA AllocateReady ==
    ASSUME NEW e, codec \in Formats \ {"GIF", "JPEG"}, Ready(codec, e)
    PROVE  AllocatedReady(codec, e, AllocateOf(e))
<1>1. Streaming(e)
  BY DEF Ready
<1>2. PICK u : u = AllocateOf(e)
  OBVIOUS
<1>3. CASE codec = "WEBP"
  <2>1. u = WebpSurface(e)
    BY <1>2, <1>3 DEF AllocateOf, AllocateWebp
  <2>2. WebpReady(e)
    BY <1>3 DEF Ready
  <2>3. WebpReady(u) /\ u.out = e.out /\ u.locked = e.locked
    BY <2>1, <2>2, WebpSurfaceReady
  <2>4. Ready(codec, u)
    BY <1>3, <2>3 DEF Ready, WebpReady
  <2> QED BY <1>2, <2>3, <2>4 DEF AllocatedReady
<1>4. CASE codec = "PSP"
  <2>1. u = AllocatePsp(e)
    BY <1>2, <1>4 DEF AllocateOf
  <2> QED BY <1>1, <1>2, <2>1, AllocatePspOnly, ResurfacedReady
<1>5. CASE codec \notin {"WEBP", "PSP"}
  <2>1. \E n, b : u = CreateSurface(e, n, b)
    BY <1>2, <1>5 DEF AllocateOf, Formats, AllocateBmp, AllocatePcx, AllocateWbmp, AllocateXyz, AllocateTga,
       AllocatePsd, AllocatePng, AllocateTiff
  <2>2. Resurfaced(e, u)
    BY <1>1, <2>1, CreateSurfaceOnly
  <2> QED BY <1>2, <2>2, ResurfacedReady
<1> QED BY <1>3, <1>4, <1>5
-----------------------------------------------------------------------------
(* The invariant of a load                                                 *)

\* What a JPEG's decoder keeps all along, with which it may begin again.
JpegKept(e, f) ==
    /\ DOMAIN e = JpegFields
    /\ Streaming(e)
    /\ e.locked = {}
    /\ e.header = f.header /\ e.data = f.data
    /\ LibraryAccepted(f.header)

\* Whose turn it is, the decoder is ready for it, and holds no lock. (A GIF's
\* codes are read by recursion over its data and left to the model checker.)
OpenInv ==
    /\ Sound(d)
    /\ codec \in {"none", file.codec}
    /\ inside => Loading
    /\ codec = "none" => state \in {"ILUnprocessed", "ILError"}
    /\ codec = "JPEG" => JpegKept(d, file)
    /\ state \in {"ILLoadedHeader", "ILDoneFast"} /\ codec # "JPEG" => Ready(codec, d) /\ d.locked = {}
    /\ state = "ILLoadedHeader" => d.out = "more"
    /\ state = "ILLoadingFast" => codec = "JPEG"
    /\ Loading /\ d.out = "more" => Ready(codec, d) /\ d.locked = {}
    /\ Loading /\ ~inside => d.out = "more"
    /\ inside /\ codec = "PSD" /\ d.out = "more" => OfWidth(d.plane, d.w)

CodecInv == file \in Files /\ (file.codec # "GIF" => OpenInv)

LEMMA FieldsKept ==
    ASSUME NEW e, NEW f, JpegKept(e, f), NEW u, DOMAIN u = JpegFields,
           \A x \in {"data", "pos", "open", "left", "at", "size", "locked", "header"} : u[x] = e[x]
    PROVE  JpegKept(u, f)
<1>1. Streaming(e) /\ Base \subseteq DOMAIN u
  BY DEF JpegKept, JpegFields
<1>2. Streaming(u)
  BY <1>1, SameStreams
<1> QED BY <1>2 DEF JpegKept

LEMMA AlikeKept ==
    ASSUME NEW e, NEW f, JpegKept(e, f), NEW u, Alike(e, u), u.locked = {}
    PROVE  JpegKept(u, f)
<1>1. \A x \in {"header", "data"} : u[x] = e[x]
  BY DEF JpegKept, Alike, JpegFields, Base, StreamFields
<1> QED BY <1>1 DEF JpegKept, Alike

LEMMA ClosedKept ==
    ASSUME NEW e, NEW f, JpegKept(e, f)
    PROVE  JpegKept(Closed(e), f)
<1>1. PICK u : u = Closed(e)
  OBVIOUS
<1>2. Moved(e, u)
  BY <1>1, ClosedMoves DEF JpegKept
<1>3. DOMAIN u = JpegFields /\ Streaming(u) /\ \A x \in {"header", "data", "locked"} : u[x] = e[x]
  BY <1>2 DEF Moved, JpegKept, JpegFields, Base, StreamFields
<1> QED BY <1>1, <1>3 DEF JpegKept

\* Whatever was decoded before, a JPEG's decoder begins with the first row.
JpegStarted(u, f) == JpegKept(u, f) /\ JpegReady(u) /\ u.out = "more"

LEMMA JpegStarts ==
    ASSUME NEW f \in Files, f.codec = "JPEG", NEW e, JpegKept(e, f), e.out = "more", NEW scale \in {1, 2, 4, 8}
    PROVE  JpegStarted(StartDecompress(e, scale), f)
<1>1. PICK h : h = f.header
  OBVIOUS
<1>2. h.width \in Nat /\ h.height \in Nat /\ h.rowsAtOnce \in Nat /\ h.offset \in 0 .. Len(f.data)
  BY <1>1, FilesTyped DEF HeaderTyped, JpegKept, LibraryAccepted
<1>3. DOMAIN e = JpegFields /\ Streaming(e) /\ e.header = h /\ e.data = f.data
  BY <1>1 DEF JpegKept
<1>4. PICK r : r = IF e.isInit THEN e ELSE PrepareLibJpeg(e)
  OBVIOUS
<1>5. JpegKept(r, f) /\ r.out = "more"
  <2>1. CASE e.isInit
    BY <1>4, <2>1
  <2>2. CASE ~e.isInit
    <3>1. PICK p : p = SeekBegin(e, 0)
      OBVIOUS
    <3>2. ~(0 > Len(e.data))
      BY <1>3 DEF Streaming
    <3>3. p = [e EXCEPT !.pos = 0]
      BY <3>1, <3>2 DEF SeekBegin
    <3>4. DOMAIN p = JpegFields /\ \A x \in JpegFields \ {"pos"} : p[x] = e[x]
      BY <1>3, <3>3
    <3>5. Moved(e, p)
      BY <1>3, <3>1, SeekBeginMoves
    <3>6. Streaming(p) /\ p.locked = {} /\ p.header = h /\ p.data = f.data /\ p.out = "more"
      BY <1>1, <3>4, <3>5 DEF Moved, JpegKept, JpegFields, Base
    <3>7. JpegKept(p, f)
      BY <1>1, <3>4, <3>6 DEF JpegKept
    <3>8. r = [p EXCEPT !.isInit = TRUE]
      BY <1>4, <2>2, <3>1 DEF PrepareLibJpeg
    <3>9. DOMAIN r = JpegFields /\ \A x \in JpegFields \ {"isInit"} : r[x] = p[x]
      BY <3>4, <3>8
    <3>10. r.out = "more" /\ \A x \in {"data", "pos", "open", "left", "at", "size", "locked", "header"} : r[x] = p[x]
      BY <3>6, <3>9 DEF JpegFields, Base
    <3> QED BY <3>7, <3>9, <3>10, FieldsKept
  <2> QED BY <2>1, <2>2
<1>6. PICK w, g : w = (h.width + scale - 1) \div scale /\ g = (h.height + scale - 1) \div scale
  OBVIOUS
<1>7. w \in Nat /\ g \in Nat
  <2>1. CASE scale = 1
    BY <1>2, <1>6, <2>1
  <2>2. CASE scale = 2
    BY <1>2, <1>6, <2>2
  <2>3. CASE scale = 4
    BY <1>2, <1>6, <2>3
  <2>4. CASE scale = 8
    BY <1>2, <1>6, <2>4
  <2> QED BY <2>1, <2>2, <2>3, <2>4
<1>8. PICK s : s = [r EXCEPT !.w = w, !.h = g, !.scale = scale, !.scan = 0]
  OBVIOUS
<1>9. /\ DOMAIN s = JpegFields /\ s.w = w /\ s.h = g /\ s.scan = 0
      /\ \A x \in JpegFields \ {"w", "h", "scale", "scan"} : s[x] = r[x]
  BY <1>5, <1>8 DEF JpegKept, JpegFields, Base
<1>10. PICK v : v = [s EXCEPT !.pos = h.offset]
  OBVIOUS
<1>11. DOMAIN v = JpegFields /\ v.pos = h.offset /\ \A x \in JpegFields \ {"pos"} : v[x] = s[x]
  BY <1>9, <1>10 DEF JpegFields, Base
<1>12. \A x \in {"data", "open", "left", "at", "size", "locked", "header", "out"} : v[x] = r[x]
  BY <1>9, <1>11 DEF JpegFields, Base
<1>13. v.header = h /\ v.data = f.data /\ v.locked = {} /\ v.out = "more"
  BY <1>1, <1>5, <1>12 DEF JpegKept
<1>14. Streaming(v)
  <2>1. v.open = r.open /\ v.left = r.left /\ v.at = r.at /\ v.size = r.size /\ v.data = r.data
    BY <1>12
  <2>2. Streaming(r) /\ r.data = f.data
    BY <1>5 DEF JpegKept
  <2> QED BY <1>2, <1>11, <2>1, <2>2 DEF Streaming, JpegFields
<1>15. JpegKept(v, f)
  BY <1>1, <1>11, <1>13, <1>14 DEF JpegKept
<1>16. v.w = w /\ v.h = g /\ v.scan = 0
  BY <1>9, <1>11 DEF JpegFields, Base
<1>17. JpegReady(v)
  BY <1>2, <1>7, <1>11, <1>13, <1>14, <1>16 DEF JpegReady
<1>18. PICK u : u = CreateSurface(v, JpegPixelSize(h), 255)
  OBVIOUS
<1>19. Alike(v, u) /\ u.out = "more" /\ u.locked = {}
  BY <1>13, <1>14, <1>18, CreateSurfaceOnly DEF Resurfaced
<1>20. \A x \in {"w", "h", "scan", "header"} : u[x] = v[x]
  BY <1>11, <1>19 DEF Alike, JpegFields, Base, StreamFields
<1>21. JpegReady(u)
  BY <1>17, <1>19, <1>20 DEF JpegReady, Alike
<1>22. JpegKept(u, f)
  BY <1>15, <1>19, AlikeKept
<1>23. PICK o : o = StartDecompress(e, scale)
  OBVIOUS
<1>24. o = IF r.out = "throw" THEN r ELSE u
  <2>1. /\ s = [r EXCEPT !.w = (e.header.width + scale - 1) \div scale, !.h = (e.header.height + scale - 1) \div scale,
                       !.scale = scale, !.scan = 0]
        /\ v = [s EXCEPT !.pos = e.header.offset] /\ u = CreateSurface(v, JpegPixelSize(e.header), 255)
    BY <1>3, <1>6, <1>8, <1>10, <1>18
  <2> QED BY <1>4, <1>23, <2>1 DEF StartDecompress
<1> QED BY <1>5, <1>19, <1>21, <1>22, <1>23, <1>24 DEF JpegStarted

LEMMA JpegScales ==
    ASSUME NEW h, NEW hint, JpegScale(h, hint) > 0
    PROVE  JpegScale(h, hint) \in {1, 2, 4, 8}
<1>1. PICK a : a = {k \in {1, 2, 4, 8} : hint.w * k < h.width /\ hint.h * k < h.height}
  OBVIOUS
<1>2. JpegScale(h, hint) = IF a # {} THEN Max(a) ELSE 0
  BY <1>1 DEF JpegScale
<1>3. a # {}
  BY <1>2
<1>4. a \subseteq {1, 2, 4, 8}
  BY <1>1
<1>5. \E k \in a : \A m \in a : k >= m
  <2>1. CASE 8 \in a
    BY <1>4, <2>1
  <2>2. CASE 8 \notin a /\ 4 \in a
    BY <1>4, <2>2
  <2>3. CASE 8 \notin a /\ 4 \notin a /\ 2 \in a
    BY <1>4, <2>3
  <2>4. CASE 8 \notin a /\ 4 \notin a /\ 2 \notin a
    <3>1. \A m \in a : m = 1
      BY <1>4, <2>4
    <3>2. 1 \in a
      BY <1>3, <3>1
    <3> QED BY <3>1, <3>2
  <2> QED BY <2>1, <2>2, <2>3, <2>4
<1>6. Max(a) \in a
  BY <1>5 DEF Max
<1> QED BY <1>2, <1>3, <1>4, <1>6

LEMMA PreviewStarts ==
    ASSUME NEW f \in Files, f.codec = "JPEG", NEW e, JpegKept(e, f), e.out = "more", NEW hint, JpegScale(f.header, hint) > 0
    PROVE  JpegStarted(AllocateJpegFast(e, hint), f)
<1>1. PICK u : u = [e EXCEPT !.doFast = TRUE, !.shown = "fast"]
  OBVIOUS
<1>2. DOMAIN u = JpegFields /\ \A x \in JpegFields \ {"doFast", "shown"} : u[x] = e[x]
  BY <1>1 DEF JpegKept
<1>3. u.out = e.out /\ \A x \in {"data", "pos", "open", "left", "at", "size", "locked", "header"} : u[x] = e[x]
  BY <1>2 DEF JpegFields, Base
<1>4. JpegKept(u, f)
  BY <1>2, <1>3, FieldsKept
<1>5. AllocateJpegFast(e, hint) = StartDecompress(u, JpegScale(f.header, hint))
  BY <1>1 DEF AllocateJpegFast, JpegKept
<1> QED BY <1>3, <1>4, <1>5, JpegStarts, JpegScales

LEMMA PictureStarts ==
    ASSUME NEW f \in Files, f.codec = "JPEG", NEW e, JpegKept(e, f), e.out = "more"
    PROVE  JpegStarted(AllocateJpeg(e), f)
<1>1. PICK u : u = [e EXCEPT !.doFast = FALSE]
  OBVIOUS
<1>2. DOMAIN u = JpegFields /\ \A x \in JpegFields \ {"doFast"} : u[x] = e[x]
  BY <1>1 DEF JpegKept
<1>3. u.out = e.out /\ \A x \in {"data", "pos", "open", "left", "at", "size", "locked", "header"} : u[x] = e[x]
  BY <1>2 DEF JpegFields, Base
<1>4. JpegKept(u, f)
  BY <1>2, <1>3, FieldsKept
<1>5. AllocateJpeg(e) = StartDecompress(u, 1)
  BY <1>1 DEF AllocateJpeg
<1> QED BY <1>3, <1>4, <1>5, JpegStarts
-----------------------------------------------------------------------------
(* The steps of a load                                                     *)

LEMMA ClosedSound == ASSUME NEW e, Sound(e) PROVE Sound(Closed(e))
<1>1. PICK u : u = [e EXCEPT !.open = FALSE, !.pos = 0]
  OBVIOUS
<1>2. DOMAIN u = DOMAIN e /\ u.out = e.out
  BY <1>1 DEF Sound, Base
<1> QED BY <1>1, <1>2 DEF Closed, Sound

LEMMA UnlockSound == ASSUME NEW e, Sound(e) PROVE Sound(Unlock(e)) /\ Unlock(e).out = e.out
<1>1. PICK u : u = [e EXCEPT !.locked = {}]
  OBVIOUS
<1>2. DOMAIN u = DOMAIN e /\ u.out = e.out
  BY <1>1 DEF Sound, Base
<1> QED BY <1>1, <1>2 DEF Unlock, Sound

LEMMA RenamedSound == ASSUME NEW e, Sound(e) PROVE Sound(Renamed(e))
<1>1. PICK u : u = [[e EXCEPT !.open = FALSE, !.pos = 0] EXCEPT !.open = TRUE, !.pos = 0]
  OBVIOUS
<1>2. DOMAIN u = DOMAIN e /\ u.out = e.out
  BY <1>1 DEF Sound, Base
<1>3. PICK v : v = [u EXCEPT !.pos = e.pos]
  OBVIOUS
<1>4. DOMAIN v = DOMAIN e /\ v.out = e.out
  BY <1>2, <1>3 DEF Sound, Base
<1>5. PICK w : w = [u EXCEPT !.out = "throw"]
  OBVIOUS
<1>6. DOMAIN w = DOMAIN e /\ w.out = "throw"
  BY <1>2, <1>5 DEF Sound, Base
<1>7. Renamed(e) \in {e, v, w}
  BY <1>1, <1>3, <1>5 DEF Renamed, Opened, Closed, SeekBegin, Throw
<1>8. Sound(v) /\ Sound(w)
  BY <1>4, <1>6 DEF Sound, Outs
<1> QED BY <1>7, <1>8

LEMMA FirstOpen == ASSUME Init PROVE CodecInv
<1>1. file.data \in Seq(Bytes)
  BY FilesTyped DEF Init
<1>2. PICK b : b = NewDecoder(file.data)
  OBVIOUS
<1>3. DOMAIN b = Base /\ b.out = "more"
  BY <1>1, <1>2, NewStreams
<1>4. Sound(d)
  BY <1>2, <1>3 DEF Init, Sound, Outs
<1> QED BY <1>4 DEF Init, CodecInv, OpenInv, Loading

LEMMA LoadHeaderOpen ==
    ASSUME CodecInv, file.codec # "GIF", LoadHeader
    PROVE  OpenInv'
<1>1. file \in Files /\ Sound(d) /\ file' = file /\ ~inside /\ inside' = inside
  BY DEF CodecInv, OpenInv, LoadHeader, Loading
<1>2. CASE codec' = "none"
  <2>1. d' = Closed(d) /\ state' = "ILError"
    BY <1>2 DEF LoadHeader
  <2>2. Sound(d')
    BY <1>1, <2>1, ClosedSound
  <2> QED BY <1>1, <1>2, <2>1, <2>2 DEF OpenInv, Loading
<1>3. CASE codec' # "none"
  <2>1. PICK u : u = LoadHeaderOf(file.codec, file)
    OBVIOUS
  <2>2. codec' = file.codec /\ HeaderLoads(file.codec, file)
    BY <1>1, <1>3, HeaderLoaded DEF LoadHeader
  <2>3. d' = u /\ state' = "ILLoadedHeader"
    BY <1>3, <2>1, <2>2 DEF LoadHeader
  <2>4. Headed(u, file)
    BY <1>1, <2>1, <2>2, HeaderReady
  <2>5. u.out = "more"
    BY <2>1, <2>2 DEF HeaderLoads
  <2>6. Ready(file.codec, u) /\ u.locked = {} /\ Sound(u)
    BY <2>4, <2>5 DEF Headed, Ready, Streaming, Sound, Outs
  <2>7. file.codec = "JPEG" => JpegKept(u, file)
    <3>1. ASSUME file.codec = "JPEG" PROVE JpegKept(u, file)
      <4>1. JpegReady(u) /\ u.header = file.header /\ u.data = file.data
        BY <2>4, <3>1 DEF Headed, Ready
      <4>2. LibraryAccepted(file.header)
        BY <2>2, <3>1 DEF HeaderLoads, Accepts
      <4> QED BY <2>6, <4>1, <4>2 DEF JpegKept, JpegReady
    <3> QED BY <3>1
  <2> QED BY <1>1, <1>3, <2>2, <2>3, <2>5, <2>6, <2>7 DEF OpenInv, Loading
<1> QED BY <1>2, <1>3

\* The decoder stands at its first row and no one decodes yet.
LEMMA StartedOpen ==
    ASSUME CodecInv, file.codec # "GIF", ~inside,
           UNCHANGED <<file, codec, inside>>, codec = file.codec,
           state' \in {"ILLoadingFast", "ILLoadingFull"}, state' = "ILLoadingFast" => codec = "JPEG",
           Sound(d'), d'.out = "more", Ready(codec, d'), d'.locked = {},
           codec = "JPEG" => JpegKept(d', file)
    PROVE  OpenInv'
<1>1. file.codec # "none"
  BY FormatsNamed DEF CodecInv, Formats
<1> QED BY <1>1 DEF OpenInv, Loading

LEMMA StartedReady ==
    ASSUME NEW u, NEW f, JpegStarted(u, f)
    PROVE  Ready("JPEG", u) /\ u.locked = {} /\ Sound(u)
BY DEF JpegStarted, JpegKept, Ready, Sound, Outs, Streaming

LEMMA AllocateFastOpen ==
    ASSUME CodecInv, file.codec # "GIF", AllocateFast
    PROVE  OpenInv'
<1>1. /\ file \in Files /\ state = "ILLoadedHeader" /\ ~inside
      /\ codec = file.codec /\ d.out = "more" /\ UNCHANGED <<file, codec, inside>>
  BY DEF CodecInv, OpenInv, AllocateFast, Loading
<1>2. CASE codec = "JPEG" /\ file.hint.w > 0 /\ JpegScale(file.header, file.hint) > 0
  <2>1. PICK u : u = AllocateJpegFast(d, file.hint)
    OBVIOUS
  <2>2. JpegKept(d, file)
    BY <1>2 DEF CodecInv, OpenInv
  <2>3. JpegStarted(u, file)
    BY <1>1, <1>2, <2>1, <2>2, PreviewStarts
  <2>4. d' = u /\ state' = "ILLoadingFast"
    BY <1>2, <2>1, <2>3 DEF AllocateFast, AllocatedAs, JpegStarted
  <2>5. Ready("JPEG", u) /\ u.locked = {} /\ Sound(u)
    BY <2>3, StartedReady
  <2> QED BY <1>1, <1>2, <2>3, <2>4, <2>5, StartedOpen DEF JpegStarted
<1>3. CASE ~(codec = "JPEG" /\ file.hint.w > 0 /\ JpegScale(file.header, file.hint) > 0)
  <2>1. d' = d /\ state' = "ILDoneFast"
    BY <1>3 DEF AllocateFast
  <2> QED BY <1>1, <2>1 DEF CodecInv, OpenInv, Loading
<1> QED BY <1>2, <1>3

LEMMA AllocateFullOpen ==
    ASSUME CodecInv, file.codec # "GIF", AllocateFull
    PROVE  OpenInv'
<1>1. /\ file \in Files /\ state = "ILDoneFast" /\ ~inside
      /\ codec = file.codec /\ UNCHANGED <<file, codec, inside>>
  BY DEF CodecInv, OpenInv, AllocateFull, Loading
<1>2. codec \in Formats \ {"GIF"}
  BY <1>1, FormatsNamed
<1>3. PICK e : e = [d EXCEPT !.out = "more"]
  OBVIOUS
<1>4. PICK u : u = AllocateOf(e)
  OBVIOUS
<1>5. u.out # "throw" => d' = u /\ state' = "ILLoadingFull"
  BY <1>3, <1>4 DEF AllocateFull, AllocatedAs
<1>6. CASE codec = "JPEG"
  <2>1. JpegKept(d, file)
    BY <1>6 DEF CodecInv, OpenInv
  <2>2. Alike(d, e) /\ e.out = "more" /\ e.locked = d.locked
    BY <1>3, <2>1, OutAlike DEF JpegKept
  <2>3. JpegKept(e, file)
    BY <2>1, <2>2, AlikeKept DEF JpegKept
  <2>4. u = AllocateJpeg(e)
    BY <1>4, <1>6 DEF AllocateOf
  <2>5. JpegStarted(u, file)
    BY <1>1, <1>6, <2>2, <2>3, <2>4, PictureStarts
  <2>6. Ready("JPEG", u) /\ u.locked = {} /\ Sound(u)
    BY <2>5, StartedReady
  <2> QED BY <1>1, <1>5, <1>6, <2>5, <2>6, StartedOpen DEF JpegStarted
<1>7. CASE codec # "JPEG"
  <2>1. Ready(codec, d) /\ d.locked = {}
    BY <1>1, <1>7 DEF CodecInv, OpenInv
  <2>2. Alike(d, e) /\ e.out = "more" /\ e.locked = {}
    BY <1>3, <2>1, OutAlike DEF Ready
  <2>3. Ready(codec, e)
    BY <2>1, <2>2, AlikeReady
  <2>4. Ready(codec, u) /\ u.out = "more" /\ u.locked = {}
    BY <1>2, <1>4, <1>7, <2>2, <2>3, AllocateReady DEF AllocatedReady
  <2>5. Sound(u)
    BY <2>4 DEF Ready, Streaming, Sound, Outs
  <2> QED BY <1>1, <1>5, <1>7, <2>4, <2>5, StartedOpen
<1> QED BY <1>6, <1>7

LEMMA BeginLoadOpen ==
    ASSUME CodecInv, file.codec # "GIF", BeginLoad
    PROVE  OpenInv'
<1>1. /\ UNCHANGED <<file, codec, state>> /\ inside' = TRUE /\ Loading /\ ~inside
      /\ Loading' = Loading
  BY DEF BeginLoad, Loading
<1>2. d.out = "more" /\ Ready(codec, d) /\ d.locked = {} /\ Sound(d)
  BY <1>1 DEF CodecInv, OpenInv
<1>3. CASE codec = "PSD"
  <2>1. PICK p : p = [i \in 1..d.w |-> 0]
    OBVIOUS
  <2>2. d' = [d EXCEPT !.plane = p]
    BY <1>3, <2>1 DEF BeginLoad, EnterPsd
  <2>3. Alike(d, d') /\ d'.out = "more" /\ d'.locked = {}
    BY <1>2, <2>2, PlaneAlike DEF Ready
  <2>4. Ready(codec, d')
    BY <1>2, <2>3, AlikeReady
  <2>5. DOMAIN d = PsdFields /\ d.w \in Nat
    BY <1>2, <1>3 DEF Ready, PsdReady
  <2>6. d'.plane = p /\ d'.w = d.w
    BY <2>2, <2>5 DEF PsdFields, Base
  <2>7. OfWidth(d'.plane, d'.w)
    <3>1. DOMAIN p = 1..d.w /\ p \in Seq({0}) /\ Len(p) = d.w
      BY <2>1, <2>5
    <3> QED BY <2>6, <3>1 DEF OfWidth
  <2>8. Sound(d')
    BY <2>3, <2>4 DEF Ready, Streaming, Sound, Outs
  <2> QED BY <1>1, <1>3, <2>3, <2>4, <2>7, <2>8 DEF CodecInv, OpenInv, Loading
<1>4. CASE codec = "PSP"
  <2>1. d' = EnterPsp(d)
    BY <1>4 DEF BeginLoad
  <2>2. PspReady(d)
    BY <1>2, <1>4 DEF Ready
  <2>3. PspReady(d') /\ d'.locked = {} /\ d'.out \in {"more", "throw"}
    BY <1>2, <2>1, <2>2, EnterPspReady
  <2>4. Ready("PSP", d') /\ Sound(d')
    BY <2>3 DEF Ready, PspReady, Streaming, Sound, Outs
  <2> QED BY <1>1, <1>4, <2>3, <2>4 DEF CodecInv, OpenInv, Loading
<1>5. CASE codec \notin {"PSD", "PSP"}
  <2>1. d' = d
    BY <1>5 DEF BeginLoad
  <2> QED BY <1>1, <1>2, <1>5, <2>1 DEF CodecInv, OpenInv, Loading
<1> QED BY <1>3, <1>4, <1>5

\* What a turn makes of the decoder, of which the locks are released after it.
Turned(c, e, u) ==
    /\ Sound(u)
    /\ u.out = "more" => Ready(c, u)
    /\ c = "PSD" /\ u.out = "more" => OfWidth(u.plane, u.w)
    /\ c = "JPEG" => JpegSame(e, u)

\* Before a turn.
Waiting(c) ==
    /\ Loading /\ Ready(c, d) /\ d.out = "more" /\ d.locked = {}
    /\ c = "PSD" => OfWidth(d.plane, d.w)

LEMMA TurnBegins ==
    ASSUME CodecInv, file.codec # "GIF", NEW c, NEW u, Turn(c, u)
    PROVE  codec = c /\ c = file.codec /\ Waiting(c)
<1>1. Loading /\ codec = c /\ d.out = "more" /\ inside
  BY DEF Turn, CodecInv, OpenInv
<1>2. codec # "none"
  BY <1>1 DEF CodecInv, OpenInv, Loading
<1> QED BY <1>1, <1>2 DEF CodecInv, OpenInv, Waiting

LEMMA TurnOpen ==
    ASSUME CodecInv, file.codec # "GIF", NEW c, NEW u, Turn(c, u), Turned(c, d, u)
    PROVE  OpenInv'
<1>1. codec = c /\ c = file.codec /\ Waiting(c)
  BY TurnBegins
<1>2. d' = Unlock(u) /\ UNCHANGED <<file, codec, state, inside>> /\ inside /\ Loading' = Loading
  BY DEF Turn, Loading
<1>3. Sound(d') /\ d'.out = u.out
  BY <1>2, UnlockSound DEF Turned
<1>4. ASSUME u.out = "more" PROVE Ready(c, d') /\ d'.locked = {}
  <2>1. Ready(c, u)
    BY <1>4 DEF Turned
  <2>2. Alike(u, d') /\ d'.locked = {}
    BY <1>2, <2>1, UnlockAlike DEF Ready
  <2> QED BY <2>1, <2>2, AlikeReady
<1>5. ASSUME u.out = "more", c = "PSD" PROVE OfWidth(d'.plane, d'.w)
  <2>1. DOMAIN u = PsdFields /\ OfWidth(u.plane, u.w)
    BY <1>5 DEF Turned, Ready, PsdReady
  <2>2. d'.plane = u.plane /\ d'.w = u.w
    BY <1>2, <2>1 DEF Unlock, PsdFields, Base
  <2> QED BY <2>1, <2>2
<1>6. ASSUME c = "JPEG" PROVE JpegKept(d', file)
  <2>1. JpegKept(d, file) /\ JpegSame(d, u)
    BY <1>1, <1>6 DEF CodecInv, OpenInv, Turned
  <2>2. JpegKept(u, file)
    BY <2>1 DEF JpegKept, JpegSame
  <2>3. Alike(u, d') /\ d'.locked = {}
    BY <1>2, <2>1, UnlockAlike DEF JpegSame
  <2> QED BY <2>2, <2>3, AlikeKept
<1> QED BY <1>1, <1>2, <1>3, <1>4, <1>5, <1>6 DEF CodecInv, OpenInv, Waiting, Loading

LEMMA TurnsOpen ==
    ASSUME CodecInv, file.codec # "GIF", Turns
    PROVE  OpenInv'
<1>1. CASE BmpTurn
  <2>1. PICK u : u = ProcessBmp(d)
    OBVIOUS
  <2>2. Turn("BMP", u)
    BY <1>1, <2>1 DEF BmpTurn
  <2>3. Waiting("BMP")
    BY <2>2, TurnBegins
  <2>4. Turned("BMP", d, u)
    BY <2>1, <2>3, ProcessBmpSound DEF Turned, Waiting, Ready, BmpReady, BmpTyped
  <2> QED BY <2>2, <2>4, TurnOpen
<1>2. CASE TgaTurn
  <2>1. PICK u : u = ProcessTga(d)
    OBVIOUS
  <2>2. Turn("TGA", u)
    BY <1>2, <2>1 DEF TgaTurn
  <2>3. Waiting("TGA")
    BY <2>2, TurnBegins
  <2>4. Turned("TGA", d, u)
    BY <2>1, <2>3, ProcessTgaSound DEF Turned, Waiting, Ready, TgaReady
  <2> QED BY <2>2, <2>4, TurnOpen
<1>3. CASE PsdTurn
  <2>1. PICK u : u = ProcessPsd(d)
    OBVIOUS
  <2>2. Turn("PSD", u)
    BY <1>3, <2>1 DEF PsdTurn
  <2>3. Waiting("PSD")
    BY <2>2, TurnBegins
  <2>4. Turned("PSD", d, u)
    BY <2>1, <2>3, ProcessPsdSound DEF Turned, Waiting, Ready, PsdReady
  <2> QED BY <2>2, <2>4, TurnOpen
<1>4. CASE PcxTurn
  <2>1. PICK u : u = ProcessPcx(d)
    OBVIOUS
  <2>2. Turn("PCX", u)
    BY <1>4, <2>1 DEF PcxTurn
  <2>3. Waiting("PCX")
    BY <2>2, TurnBegins
  <2>4. Turned("PCX", d, u)
    BY <2>1, <2>3, ProcessPcxSound DEF Turned, Waiting, Ready, PcxReady
  <2> QED BY <2>2, <2>4, TurnOpen
<1>5. CASE WbmpTurn
  <2>1. PICK u : u = ProcessWbmp(d)
    OBVIOUS
  <2>2. Turn("WBMP", u)
    BY <1>5, <2>1 DEF WbmpTurn
  <2>3. Waiting("WBMP")
    BY <2>2, TurnBegins
  <2>4. Turned("WBMP", d, u)
    BY <2>1, <2>3, ProcessWbmpSound DEF Turned, Waiting, Ready, WbmpReady
  <2> QED BY <2>2, <2>4, TurnOpen
<1>6. CASE XyzTurn
  <2>1. PICK u : u = ProcessXyz(d)
    OBVIOUS
  <2>2. Turn("XYZ", u)
    BY <1>6, <2>1 DEF XyzTurn
  <2>3. Waiting("XYZ")
    BY <2>2, TurnBegins
  <2>4. Turned("XYZ", d, u)
    BY <2>1, <2>3, ProcessXyzSound DEF Turned, Waiting, Ready, XyzReady, XyzTyped
  <2> QED BY <2>2, <2>4, TurnOpen
<1>7. CASE PspTurn
  <2>1. PICK u : u = ProcessPsp(d)
    OBVIOUS
  <2>2. Turn("PSP", u)
    BY <1>7, <2>1 DEF PspTurn
  <2>3. Waiting("PSP")
    BY <2>2, TurnBegins
  <2>4. Turned("PSP", d, u)
    BY <2>1, <2>3, ProcessPspSound DEF Turned, Waiting, Ready, PspReady
  <2> QED BY <2>2, <2>4, TurnOpen
<1>8. CASE PngTurn
  <2>1. PICK u : u = ProcessPng(d)
    OBVIOUS
  <2>2. Turn("PNG", u)
    BY <1>8, <2>1 DEF PngTurn
  <2>3. Waiting("PNG")
    BY <2>2, TurnBegins
  <2>4. Turned("PNG", d, u)
    BY <2>1, <2>3, ProcessPngSound DEF Turned, Waiting, Ready, PngReady
  <2> QED BY <2>2, <2>4, TurnOpen
<1>9. CASE JpegTurn
  <2>1. PICK u : u = ProcessJpeg(d)
    OBVIOUS
  <2>2. Turn("JPEG", u)
    BY <1>9, <2>1 DEF JpegTurn
  <2>3. Waiting("JPEG")
    BY <2>2, TurnBegins
  <2>4. Turned("JPEG", d, u)
    BY <2>1, <2>3, ProcessJpegSound, ProcessJpegSame DEF Turned, Waiting, Ready, JpegReady
  <2> QED BY <2>2, <2>4, TurnOpen
<1>10. CASE WebpTurn
  <2>1. PICK u : u = ProcessWebp(d)
    OBVIOUS
  <2>2. Turn("WEBP", u)
    BY <1>10, <2>1 DEF WebpTurn
  <2>3. Waiting("WEBP")
    BY <2>2, TurnBegins
  <2>4. Turned("WEBP", d, u)
    BY <2>1, <2>3, ProcessWebpSound DEF Turned, Waiting, Ready, WebpReady
  <2> QED BY <2>2, <2>4, TurnOpen
<1>11. CASE TiffTurn
  <2>1. PICK u : u = ProcessTiff(d)
    OBVIOUS
  <2>2. Turn("TIFF", u)
    BY <1>11, <2>1 DEF TiffTurn
  <2>3. Waiting("TIFF")
    BY <2>2, TurnBegins
  <2>4. Turned("TIFF", d, u)
    BY <2>1, <2>3, ProcessTiffSound DEF Turned, Waiting, Ready, TiffReady
  <2> QED BY <2>2, <2>4, TurnOpen
<1>12. CASE GifTurn
  <2>1. codec = "GIF" /\ inside
    BY <1>12 DEF GifTurn, Turn
  <2> QED BY <2>1 DEF CodecInv, OpenInv
<1>13. CASE PngErrorKeepsLock
  <2>1. PICK u : u = ProcessPng(d)
    OBVIOUS
  <2>2. /\ d' = u /\ u.out = "Failed" /\ codec = "PNG" /\ d.out = "more" /\ inside
        /\ UNCHANGED <<file, codec, state, inside>> /\ Loading' = Loading
    BY <1>13, <2>1 DEF PngErrorKeepsLock, Loading
  <2>3. PngReady(d) /\ d.locked = {} /\ Loading
    BY <2>2 DEF CodecInv, OpenInv, Ready
  <2>4. Sound(u)
    BY <2>1, <2>2, <2>3, ProcessPngSound
  <2> QED BY <2>2, <2>3, <2>4 DEF CodecInv, OpenInv, Loading
<1> QED BY <1>1, <1>2, <1>3, <1>4, <1>5, <1>6, <1>7, <1>8, <1>9, <1>10, <1>11, <1>12, <1>13 DEF Turns

LEMMA ReturnedOpen ==
    ASSUME CodecInv, file.codec # "GIF", Returned
    PROVE  OpenInv'
<1>1. UNCHANGED <<file, codec>> /\ inside' = FALSE /\ Loading /\ Sound(d)
  BY DEF CodecInv, OpenInv, Returned
<1>2. CASE state = "ILLoadingFull"
  <2>1. d' = Closed(d) /\ state' = "ILDoneFull"
    BY <1>2 DEF Returned
  <2>2. Sound(d')
    BY <1>1, <2>1, ClosedSound
  <2>3. codec = "JPEG" => JpegKept(d', file)
    BY <2>1, ClosedKept DEF CodecInv, OpenInv
  <2> QED BY <1>1, <1>2, <2>1, <2>2, <2>3 DEF CodecInv, OpenInv, Loading
<1>3. CASE state # "ILLoadingFull"
  <2>1. d' = d /\ state' = "ILDoneFast" /\ codec = "JPEG"
    BY <1>1, <1>3 DEF Returned, CodecInv, OpenInv, Loading
  <2> QED BY <1>1, <2>1 DEF CodecInv, OpenInv, Loading
<1> QED BY <1>2, <1>3

\* The worker stops between two chunks, or the viewer's thread tells it to.
LEMMA FlagsOpen ==
    ASSUME CodecInv, file.codec # "GIF", Aborted \/ Terminate \/ ResetTerminate \/ UNCHANGED vars
    PROVE  OpenInv'
<1>1. UNCHANGED <<file, codec, d, state>> /\ Loading' = Loading
  BY DEF Aborted, Terminate, ResetTerminate, Loading, vars
<1>2. inside' = inside \/ (inside' = FALSE /\ d.out = "more")
  BY DEF Aborted, Terminate, ResetTerminate, vars
<1> QED BY <1>1, <1>2 DEF CodecInv, OpenInv

LEMMA FileRenamedOpen ==
    ASSUME CodecInv, file.codec # "GIF", FileRenamed
    PROVE  OpenInv'
<1>1. /\ UNCHANGED <<file, codec, state, inside>> /\ d' = Renamed(d) /\ d.out = "more"
      /\ Loading' = Loading
  BY DEF FileRenamed, Loading
<1>2. Sound(d')
  BY <1>1, RenamedSound DEF CodecInv, OpenInv
<1>3. ASSUME Streaming(d) PROVE Alike(d, d') /\ d'.out = "more" /\ d'.locked = d.locked
  BY <1>1, <1>3, RenamedAlike
<1>4. ASSUME Ready(codec, d), d.locked = {} PROVE Ready(codec, d') /\ d'.out = "more" /\ d'.locked = {}
  BY <1>3, <1>4, AlikeReady DEF Ready
<1>5. ASSUME JpegKept(d, file) PROVE JpegKept(d', file) /\ d'.out = "more"
  BY <1>3, <1>5, AlikeKept DEF JpegKept
<1>6. ASSUME inside, codec = "PSD" PROVE OfWidth(d'.plane, d'.w)
  <2>1. Ready(codec, d) /\ OfWidth(d.plane, d.w)
    BY <1>1, <1>6 DEF CodecInv, OpenInv
  <2>2. DOMAIN d = PsdFields /\ Streaming(d)
    BY <1>6, <2>1 DEF Ready, PsdReady
  <2>3. Moved(d, d')
    BY <1>1, <2>2, RenamedMoves
  <2>4. d'.plane = d.plane /\ d'.w = d.w
    BY <2>2, <2>3 DEF Moved, PsdFields, Base, StreamFields
  <2> QED BY <2>1, <2>4
<1>7. state \in {"ILLoadedHeader", "ILDoneFast"} /\ codec # "JPEG" => Ready(codec, d) /\ d.locked = {}
  BY DEF CodecInv, OpenInv
<1>8. Loading => Ready(codec, d) /\ d.locked = {}
  BY <1>1 DEF CodecInv, OpenInv
<1>9. state = "ILLoadedHeader" /\ codec = "JPEG" => d'.out = "more"
  BY <1>5 DEF CodecInv, OpenInv
<1> QED BY <1>1, <1>2, <1>4, <1>5, <1>6, <1>7, <1>8, <1>9 DEF CodecInv, OpenInv

LEMMA NextOpen == ASSUME CodecInv, [Next]_vars PROVE CodecInv'
<1>1. file' = file
  BY DEF Next, Worker, Turns, Turn, LoadHeader, AllocateFast, AllocateFull, BeginLoad, BmpTurn, TgaTurn, GifTurn,
     PsdTurn, PcxTurn, WbmpTurn, XyzTurn, PspTurn, PngTurn, JpegTurn, WebpTurn, TiffTurn, PngErrorKeepsLock,
     Returned, Aborted, Terminate, ResetTerminate, FileRenamed, LoadEnded, vars
<1>2. ASSUME file.codec # "GIF" PROVE OpenInv'
  BY <1>2, LoadHeaderOpen, AllocateFastOpen, AllocateFullOpen, BeginLoadOpen, TurnsOpen, ReturnedOpen, FlagsOpen,
     FileRenamedOpen DEF Next, Worker, LoadEnded
<1> QED BY <1>1, <1>2 DEF CodecInv

\* Whatever the worker, the stops and the renames do, the decoder of a picture
\* that is no GIF is in the state that CodecInv says.
THEOREM DecoderIsReady == Spec => []CodecInv
BY FirstOpen, NextOpen, PTL DEF Spec

\* No decoder of AbstractCodec's but CodecGIF's writes a pixel outside of the
\* area that it has locked, or waits for a lock that it holds itself: for any
\* file of the format, any sizes of the chunks, and however often the load is
\* stopped and resumed and the file renamed.
THEOREM LocksRespected == Spec => [](file.codec # "GIF" => LockedPixelsOnly)
<1>1. CodecInv => (file.codec # "GIF" => LockedPixelsOnly)
  BY DEF CodecInv, OpenInv, Sound, Outs, LockedPixelsOnly
<1> QED BY <1>1, DecoderIsReady, PTL
=============================================================================
