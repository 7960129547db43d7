--------------------------- MODULE ImageCacheProofs ---------------------------
(***************************************************************************)
(* Proofs about the image cache, in three parts, for any set of files,     *)
(* addresses and limits and any codec.                                     *)
(*                                                                         *)
(* Cacher. The inductive invariant is Consistent: the types, a position    *)
(* inside the list, and a request list made of exactly the current image   *)
(* and its four neighbours. The first two protect CurrentImage's unchecked *)
(* access; the last is what the decoder relies on.                         *)
(*                                                                         *)
(* WorkList. What the operators of ImageLoader and WorkList return, for    *)
(* any list of packages and requests. The loops of the source are          *)
(* recursive functions here; facts about them are proved by induction, in  *)
(* its set form: a set of numbers that holds 0 and the successor of each   *)
(* of its members is Nat.                                                  *)
(*                                                                         *)
(* ImageCache. What holds between the main thread and the worker, whatever *)
(* is interleaved. The inductive invariant is CacheInvariant. Beside the   *)
(* three invariants of ImageCache it says what the waiting call and the    *)
(* request list owe each other, which is why RemoveImage and Reset may     *)
(* free the images once m_cdUpdated was signalled, and why the image shown *)
(* survives a rebuild.                                                     *)
(***************************************************************************)
EXTENDS ImageCache, SequenceTheorems, FiniteSetTheorems, WellFoundedInduction, TLAPS

-----------------------------------------------------------------------------
(* CACHER                                                                  *)

Elements(s) == {s[k] : k \in DOMAIN s}

Deltas == {-2, -1, 1, 2}

-----------------------------------------------------------------------------
(* The request list.                                                       *)

\* attemptPush adds one element, and keeps what is in front.
LEMMA PushElements ==
    ASSUME NEW q \in Seq(Request), NEW r \in Request
    PROVE  /\ attemptPush(q, r) \in Seq(Request)
           /\ Elements(attemptPush(q, r)) = Elements(q) \cup {r}
           /\ q # <<>> => /\ attemptPush(q, r) # <<>>
                          /\ Head(attemptPush(q, r)) = Head(q)
<1>1. CASE \E k \in DOMAIN q : q[k] = r
  <2>1. attemptPush(q, r) = q
    BY <1>1 DEF attemptPush
  <2> QED BY <1>1, <2>1 DEF Elements
<1>2. CASE ~(\E k \in DOMAIN q : q[k] = r)
  <2> DEFINE p == Append(q, r)
  <2>1. attemptPush(q, r) = p
    BY <1>2 DEF attemptPush
  <2>2. /\ p \in Seq(Request)
        /\ DOMAIN q = 1..Len(q) /\ DOMAIN p = 1..(Len(q) + 1)
        /\ \A k \in DOMAIN q : p[k] = q[k]
        /\ p[Len(q) + 1] = r
        /\ Len(q) \in Nat
    BY AppendProperties, LenProperties
  <2>3. Elements(p) = Elements(q) \cup {r}
    BY <2>2 DEF Elements
  <2>4. q # <<>> => p # <<>> /\ Head(p) = Head(q)
    BY <2>2
  <2> HIDE DEF p
  <2> QED BY <2>1, <2>2, <2>3, <2>4
<1> QED BY <1>1, <1>2

\* The request at a position of the list, or the null request.
LEMMA RequestAtType ==
    ASSUME NEW files \in Seq(Entry), NEW i \in Int, i >= NoIndex
    PROVE  /\ RequestAt(files, i) \in Request
           /\ RequestAt(files, i).image \in ImagesOf(files) \cup {NoImage}
           /\ i \in 0..(Len(files) - 1) =>
                RequestAt(files, i).image = At(files, i).image
<1>1. CASE i = NoIndex \/ i >= Len(files)
  BY <1>1 DEF RequestAt, NoRequest, Request, NoIndex
<1>2. CASE i # NoIndex /\ i < Len(files)
  <2>1. i + 1 \in 1..Len(files) /\ Len(files) \in Nat /\ DOMAIN files = 1..Len(files)
    BY <1>2, LenProperties DEF NoIndex
  <2>2. files[i + 1] \in Entry
    BY <2>1, ElementOfSeq
  <2>3. RequestAt(files, i) = [image |-> files[i + 1].image, filename |-> files[i + 1].name]
    BY <1>2, <2>1 DEF RequestAt, At
  <2>4. files[i + 1].image \in ImagesOf(files)
    BY <2>1 DEF ImagesOf
  <2> QED BY <2>2, <2>3, <2>4 DEF Request, Entry, At
<1> QED BY <1>1, <1>2, LenProperties

\* PeekRelativeIndex answers with a position of the list, or NoIndex.
LEMMA PeekRange ==
    ASSUME NEW files \in Seq(Entry), NEW i \in 0..SizeMax, NEW wrap \in BOOLEAN,
           NEW delta \in Deltas
    PROVE  PeekRelativeIndex(files, i, wrap, delta) \in {NoIndex} \cup 0..(Len(files) - 1)
<1>1. Len(files) \in Nat /\ AsInt(i) \in Int /\ delta \in Int
  BY CacherAssumption, LenProperties DEF AsInt, Deltas
<1> DEFINE n  == Len(files)
           p0 == AsInt(i) + delta
           p1 == IF p0 < 0 /\ wrap THEN n + p0 ELSE p0
           p2 == IF (p1 < 0 \/ p1 >= n) /\ wrap THEN p1 - n ELSE p1
<1>2. p2 \in Int
  BY <1>1
<1>3. PeekRelativeIndex(files, i, wrap, delta) = IF p2 >= 0 /\ p2 < n THEN p2 ELSE NoIndex
  BY DEF PeekRelativeIndex
<1> HIDE DEF p2
<1> QED BY <1>1, <1>2, <1>3

\* What apply_priorities asks for: the entry at the position and its neighbours.
Wanted(files, i, wrap) ==
    {RequestAt(files, i)}
        \cup {RequestAt(files, PeekRelativeIndex(files, i, wrap, d)) : d \in Deltas}

\* The list of apply_priorities starts with the current image and consists of
\* what is wanted, in either direction of travel.
LEMMA PrioritiesElements ==
    ASSUME NEW files \in Seq(Entry), NEW i \in 0..SizeMax, NEW wrap \in BOOLEAN,
           NEW flip \in BOOLEAN
    PROVE  LET q == Priorities(files, i, wrap, flip)
           IN  /\ q \in Seq(Request)
               /\ q # <<>>
               /\ Head(q) = RequestAt(files, i)
               /\ Elements(q) = Wanted(files, i, wrap)
<1> DEFINE r(d) == RequestAt(files, PeekRelativeIndex(files, i, wrap, d))
           d1 == IF flip THEN -1 ELSE 1
           q0 == <<RequestAt(files, i)>>
           q1 == attemptPush(q0, r(d1))
           q2 == attemptPush(q1, r(-d1))
           q3 == attemptPush(q2, r(2 * d1))
           q4 == attemptPush(q3, r(-2 * d1))
<1>1. Priorities(files, i, wrap, flip) = q4
  BY DEF Priorities, PushRelative
<1>2. d1 \in {-1, 1} /\ {d1, -d1, 2 * d1, -2 * d1} = Deltas
  BY DEF Deltas
<1>3. \A d \in Deltas : r(d) \in Request
  <2>1. SUFFICES ASSUME NEW d \in Deltas PROVE r(d) \in Request
    OBVIOUS
  <2>2. PeekRelativeIndex(files, i, wrap, d) \in {NoIndex} \cup 0..(Len(files) - 1)
    BY PeekRange
  <2>3. PeekRelativeIndex(files, i, wrap, d) \in Int /\ PeekRelativeIndex(files, i, wrap, d) >= NoIndex
    BY <2>2, LenProperties DEF NoIndex
  <2> QED BY <2>3, RequestAtType
<1>4. q0 \in Seq(Request) /\ q0 # <<>> /\ Head(q0) = RequestAt(files, i)
      /\ Elements(q0) = {RequestAt(files, i)}
  <2>1. i \in Int /\ i >= NoIndex
    BY CacherAssumption DEF NoIndex
  <2>2. RequestAt(files, i) \in Request
    BY <2>1, RequestAtType
  <2> QED BY <2>2 DEF Elements
<1> HIDE DEF q0, d1, r
<1>5. q1 \in Seq(Request) /\ q1 # <<>> /\ Head(q1) = Head(q0)
      /\ Elements(q1) = Elements(q0) \cup {r(d1)}
  BY <1>2, <1>3, <1>4, PushElements
<1> HIDE DEF q1
<1>6. q2 \in Seq(Request) /\ q2 # <<>> /\ Head(q2) = Head(q1)
      /\ Elements(q2) = Elements(q1) \cup {r(-d1)}
  BY <1>2, <1>3, <1>5, PushElements
<1> HIDE DEF q2
<1>7. q3 \in Seq(Request) /\ q3 # <<>> /\ Head(q3) = Head(q2)
      /\ Elements(q3) = Elements(q2) \cup {r(2 * d1)}
  BY <1>2, <1>3, <1>6, PushElements
<1> HIDE DEF q3
<1>8. q4 \in Seq(Request) /\ q4 # <<>> /\ Head(q4) = Head(q3)
      /\ Elements(q4) = Elements(q3) \cup {r(-2 * d1)}
  BY <1>2, <1>3, <1>7, PushElements
<1> HIDE DEF q4
<1>9. Elements(q4) = {RequestAt(files, i)} \cup {r(d) : d \in Deltas}
  <2>1. Elements(q4) = {RequestAt(files, i)} \cup {r(d) : d \in {d1, -d1, 2 * d1, -2 * d1}}
    BY <1>4, <1>5, <1>6, <1>7, <1>8
  <2> QED BY <2>1, <1>2
<1>10. Elements(q4) = Wanted(files, i, wrap)
  BY <1>9 DEF Wanted, r
<1> QED BY <1>1, <1>4, <1>5, <1>6, <1>7, <1>8, <1>10

-----------------------------------------------------------------------------
(* The inductive invariant.                                                *)

QueueWanted ==
    \/ queue = <<>> /\ Count = 0
    \/ /\ queue # <<>>
       /\ Head(queue).image = RequestAt(m_files, m_index).image
       /\ ImagesOf(queue) = {r.image : r \in Wanted(m_files, m_index, m_wrapAround)}

ListConsistent == CacherTypeOK /\ IndexValid

Consistent == ListConsistent /\ QueueWanted

\* Every operation that ends in apply_priorities leaves the request list right.
LEMMA AfterApplyPriorities ==
    ASSUME m_files' \in Seq(Entry), m_index' \in 0..SizeMax, m_wrapAround' \in BOOLEAN,
           NEW flip \in BOOLEAN, apply_priorities(flip)
    PROVE  queue' \in Seq(Request) /\ QueueWanted'
<1>1. /\ queue' \in Seq(Request)
      /\ queue' # <<>>
      /\ Head(queue') = RequestAt(m_files', m_index')
      /\ Elements(queue') = Wanted(m_files', m_index', m_wrapAround')
  BY PrioritiesElements DEF apply_priorities
<1>2. ImagesOf(queue') = {r.image : r \in Elements(queue')}
  BY DEF ImagesOf, Elements
<1>3. RequestAt(m_files, m_index)' = RequestAt(m_files', m_index')
  BY DEF RequestAt, At
<1>4. Wanted(m_files, m_index, m_wrapAround)' = Wanted(m_files', m_index', m_wrapAround')
  BY DEF Wanted, RequestAt, At, PeekRelativeIndex, AsInt
<1>5. ImagesOf(queue)' = ImagesOf(queue')
  BY DEF ImagesOf
<1> QED BY <1>1, <1>2, <1>3, <1>4, <1>5 DEF QueueWanted

\* vector::erase
LEMMA RemoveAtProperties ==
    ASSUME NEW S, NEW s \in Seq(S), NEW n \in 1..Len(s)
    PROVE  /\ RemoveAt(s, n) \in Seq(S)
           /\ Len(RemoveAt(s, n)) = Len(s) - 1
           /\ \A k \in 1..(Len(s) - 1) : RemoveAt(s, n)[k] = IF k < n THEN s[k] ELSE s[k + 1]
<1> DEFINE a == SubSeq(s, 1, n - 1)
           b == SubSeq(s, n + 1, Len(s))
<1>1. Len(s) \in Nat /\ \A k \in 1..Len(s) : s[k] \in S
  BY LenProperties, ElementOfSeq
<1>2. a \in Seq(S) /\ Len(a) = n - 1 /\ \A k \in 1..(n - 1) : a[k] = s[k]
  <2>1. /\ a \in Seq(S)
        /\ Len(a) = IF 1 <= n - 1 THEN (n - 1) - 1 + 1 ELSE 0
        /\ \A k \in 1..((n - 1) - 1 + 1) : a[k] = s[1 + k - 1]
    BY <1>1, SubSeqProperties
  <2> HIDE DEF a
  <2> QED BY <2>1, <1>1
<1>3. b \in Seq(S) /\ Len(b) = Len(s) - n /\ \A k \in 1..(Len(s) - n) : b[k] = s[n + k]
  <2>1. /\ b \in Seq(S)
        /\ Len(b) = IF n + 1 <= Len(s) THEN Len(s) - (n + 1) + 1 ELSE 0
        /\ \A k \in 1..(Len(s) - (n + 1) + 1) : b[k] = s[(n + 1) + k - 1]
    BY <1>1, SubSeqProperties
  <2> HIDE DEF b
  <2> QED BY <2>1, <1>1
<1> HIDE DEF a, b
<1>4. /\ a \o b \in Seq(S)
      /\ Len(a \o b) = Len(a) + Len(b)
      /\ \A k \in 1..(Len(a) + Len(b)) :
            (a \o b)[k] = IF k <= Len(a) THEN a[k] ELSE b[k - Len(a)]
  BY <1>2, <1>3, ConcatProperties
<1>5. RemoveAt(s, n) = a \o b
  BY DEF RemoveAt, a, b
<1>6. Len(a \o b) = Len(s) - 1
  BY <1>1, <1>2, <1>3, <1>4
<1>7. ASSUME NEW k \in 1..(Len(s) - 1)
      PROVE  (a \o b)[k] = IF k < n THEN s[k] ELSE s[k + 1]
  <2>1. (a \o b)[k] = IF k <= n - 1 THEN a[k] ELSE b[k - (n - 1)]
    BY <1>1, <1>2, <1>3, <1>4
  <2>2. CASE k < n
    BY <1>2, <2>1, <2>2
  <2>3. CASE k >= n
    <3>1. k - (n - 1) \in 1..(Len(s) - n) /\ n + (k - (n - 1)) = k + 1
      BY <1>1, <2>3
    <3> QED BY <1>3, <2>1, <2>3, <3>1
  <2>4. k < n \/ k >= n
    BY <1>1
  <2> QED BY <2>2, <2>3, <2>4, Zenon
<1> QED BY <1>4, <1>5, <1>6, <1>7, Zenon

\* A reordering has the same length, and each image once if the list has.
LEMMA ReorderingProperties ==
    ASSUME NEW s \in Seq(Entry), NEW t \in Reorderings(s),
           \A j, k \in DOMAIN s : s[j].image = s[k].image => j = k
    PROVE  /\ t \in Seq(Entry)
           /\ Len(t) = Len(s)
           /\ \A j, k \in DOMAIN t : t[j].image = t[k].image => j = k
<1>1. /\ DOMAIN s = 1..Len(s) /\ Len(s) \in Nat
      /\ t \in [1..Len(s) -> ToSet(s)] /\ ToSet(t) = ToSet(s)
      /\ ToSet(s) \subseteq Entry
  <2>1. DOMAIN s = 1..Len(s) /\ Len(s) \in Nat /\ s \in [1..Len(s) -> Entry]
    BY LenProperties
  <2>2. t \in [DOMAIN s -> ToSet(s)] /\ ToSet(t) = ToSet(s)
    BY DEF Reorderings
  <2>3. ToSet(s) \subseteq Entry
    BY <2>1 DEF ToSet
  <2> QED BY <2>1, <2>2, <2>3
<1>2. t \in Seq(Entry) /\ Len(t) = Len(s)
  BY <1>1
<1>3. IsFiniteSet(1..Len(s))
  BY <1>1, FS_Interval
<1>4. s \in Bijection(1..Len(s), ToSet(s))
  BY <1>1, SMTT(60) DEF Bijection, Injection, Surjection, IsInjective, ToSet
<1>5. Cardinality(ToSet(s)) = Cardinality(1..Len(s))
  <2>1. ExistsBijection(1..Len(s), ToSet(s))
    BY <1>4 DEF ExistsBijection
  <2> QED BY <1>3, <2>1, FS_Bijection
<1>6. t \in Surjection(1..Len(s), ToSet(s))
  BY <1>1 DEF Surjection, ToSet
<1>7. t \in Injection(1..Len(s), ToSet(s))
  BY <1>3, <1>5, <1>6, FS_SurjSameCardinalityImpliesInj
<1>8. \A j, k \in 1..Len(s) : t[j] = t[k] => j = k
  BY <1>7 DEF Injection, IsInjective
<1>9. \A x, y \in ToSet(s) : x.image = y.image => x = y
  BY <1>1 DEF ToSet
<1> QED BY <1>1, <1>2, <1>8, <1>9

-----------------------------------------------------------------------------
(* Each operation preserves the invariant.                                 *)

\* The initial list is empty.
LEMMA InitConsistent == CacherInit => Consistent
<1> SUFFICES ASSUME CacherInit PROVE Consistent
  OBVIOUS
<1>1. m_files \in Seq(Entry) /\ queue \in Seq(Request) /\ Count = 0 /\ DOMAIN m_files = {}
  BY EmptySeq DEF CacherInit, Count
<1>2. CacherTypeOK
  BY <1>1, CacherAssumption DEF CacherTypeOK, CacherInit
<1> QED BY <1>1, <1>2 DEF Consistent, ListConsistent, IndexValid, QueueWanted, CacherInit

\* Adding at the end keeps the position; the first file added is the current.
LEMMA AddConsistent ==
    ASSUME ListConsistent, NEW name \in Names, NEW image \in Images, AddImageLast(name, image)
    PROVE  Consistent'
<1> DEFINE e == [name |-> name, image |-> image]
<1>1. /\ e \in Entry
      /\ m_files \in Seq(Entry) /\ Count \in Nat /\ Count < MaxFiles
      /\ m_files' = Append(m_files, e)
      /\ image \notin ImagesOf(m_files)
  <2>1. e \in Entry
    BY DEF Entry
  <2>2. m_files \in Seq(Entry)
    BY DEF ListConsistent, CacherTypeOK
  <2>3. Count \in Nat
    BY <2>2, LenProperties DEF Count
  <2> QED BY <2>1, <2>2, <2>3 DEF AddImageLast, Fresh
<1> HIDE DEF e
<1>2. /\ m_files' \in Seq(Entry)
      /\ DOMAIN m_files = 1..Count /\ DOMAIN m_files' = 1..(Count + 1)
      /\ Count' = Count + 1
      /\ \A k \in 1..Count : m_files'[k] = m_files[k]
      /\ m_files'[Count + 1] = e
  BY <1>1, AppendProperties, LenProperties DEF Count
<1>3. \A j, k \in DOMAIN m_files' : m_files'[j].image = m_files'[k].image => j = k
  <2>1. \A k \in 1..Count : m_files[k].image # image
    BY <1>1, <1>2 DEF ImagesOf
  <2>2. \A j, k \in 1..Count : m_files[j].image = m_files[k].image => j = k
    BY <1>2 DEF ListConsistent, CacherTypeOK
  <2>3. e.image = image
    BY DEF e
  <2> QED BY <1>1, <1>2, <2>1, <2>2, <2>3
<1>4. /\ m_index' \in 0..SizeMax /\ m_index' < Count + 1
      /\ m_wentForward' \in BOOLEAN /\ m_wrapAround' \in BOOLEAN
  <2>1. m_index \in 0..SizeMax /\ (Count > 0 => m_index < Count)
    BY DEF ListConsistent, CacherTypeOK, IndexValid
  <2>2. CASE Count = 0
    BY <2>2, CacherAssumption DEF AddImageLast, ListConsistent, CacherTypeOK
  <2>3. CASE Count # 0
    <3>1. m_index' = m_index /\ m_wentForward' = m_wentForward /\ m_wrapAround' = m_wrapAround
      BY <2>3 DEF AddImageLast
    <3>2. m_index' \in 0..SizeMax /\ m_index' < Count + 1
      BY <1>1, <2>1, <2>3, <3>1, CacherAssumption
    <3> QED BY <3>1, <3>2 DEF Consistent, ListConsistent, CacherTypeOK
  <2> QED BY <2>2, <2>3
<1>5. queue' \in Seq(Request) /\ QueueWanted'
  <2>1. apply_priorities(FALSE)
    BY DEF AddImageLast
  <2> QED BY <1>2, <1>4, <2>1, AfterApplyPriorities
<1> QED BY <1>1, <1>2, <1>3, <1>4, <1>5, CacherAssumption
        DEF Consistent, ListConsistent, CacherTypeOK, IndexValid

\* What is left of the list when an entry is erased.
LEMMA Erased ==
    ASSUME ListConsistent, NEW i \in 0..(Count - 1), m_files' = RemoveAt(m_files, i + 1)
    PROVE  /\ m_files' \in Seq(Entry)
           /\ Count' = Count - 1
           /\ Count \in Nat
           /\ \A k \in 0..(Count - 2) :
                At(m_files', k) = At(m_files, IF k < i THEN k ELSE k + 1)
           /\ \A j, k \in DOMAIN m_files' : m_files'[j].image = m_files'[k].image => j = k
<1>1. m_files \in Seq(Entry) /\ Count \in Nat /\ DOMAIN m_files = 1..Count
  BY LenProperties DEF ListConsistent, CacherTypeOK, Count
<1>2. i + 1 \in 1..Len(m_files)
  BY <1>1 DEF Count
<1>3. /\ m_files' \in Seq(Entry)
      /\ Len(m_files') = Len(m_files) - 1
      /\ \A k \in 1..(Len(m_files) - 1) :
            m_files'[k] = IF k < i + 1 THEN m_files[k] ELSE m_files[k + 1]
  BY <1>1, <1>2, RemoveAtProperties
<1>4. Count' = Count - 1 /\ DOMAIN m_files' = 1..(Count - 1)
  BY <1>1, <1>3, LenProperties DEF Count
<1>5. \A j, k \in DOMAIN m_files' : m_files'[j].image = m_files'[k].image => j = k
  <2>1. SUFFICES ASSUME NEW j \in 1..(Count - 1), NEW k \in 1..(Count - 1),
                        m_files'[j].image = m_files'[k].image
                 PROVE  j = k
    BY <1>4
  <2> DEFINE J == IF j < i + 1 THEN j ELSE j + 1
             K == IF k < i + 1 THEN k ELSE k + 1
  <2>2. J \in DOMAIN m_files /\ K \in DOMAIN m_files
    BY <1>1
  <2>3. m_files'[j] = m_files[J] /\ m_files'[k] = m_files[K]
    BY <1>3 DEF Count
  <2>4. J = K
    BY <2>1, <2>2, <2>3 DEF ListConsistent, CacherTypeOK
  <2> QED BY <1>1, <2>4
<1>6. \A k \in 0..(Count - 2) : At(m_files', k) = At(m_files, IF k < i THEN k ELSE k + 1)
  <2>1. SUFFICES ASSUME NEW k \in 0..(Count - 2)
                 PROVE  m_files'[k + 1] = m_files[(IF k < i THEN k ELSE k + 1) + 1]
    BY DEF At
  <2>2. k + 1 \in 1..(Count - 1)
    BY <1>1
  <2>3. m_files'[k + 1] = IF k + 1 < i + 1 THEN m_files[k + 1] ELSE m_files[k + 1 + 1]
    BY <1>3, <2>2 DEF Count
  <2> QED BY <1>1, <2>3
<1> QED BY <1>1, <1>3, <1>4, <1>5, <1>6

\* Erasing: the position follows the entry it was at, or moves to a neighbour.
LEMMA RemoveConsistent ==
    ASSUME ListConsistent, NEW i \in 0..(Count - 1), RemoveImageIndex(i)
    PROVE  Consistent'
<1>1. /\ m_files' \in Seq(Entry)
      /\ Count' = Count - 1
      /\ Count \in Nat
      /\ \A j, k \in DOMAIN m_files' : m_files'[j].image = m_files'[k].image => j = k
  BY Erased DEF RemoveImageIndex
<1>2. m_index \in 0..SizeMax /\ m_index < Count /\ Count <= MaxFiles
  BY <1>1 DEF ListConsistent, CacherTypeOK, IndexValid
<1>3. m_index' \in 0..SizeMax /\ (Count - 1 > 0 => m_index' < Count - 1)
  BY <1>1, <1>2, CacherAssumption
     DEF RemoveImageIndex, IndexAfterRemovingCurrent, IndexAfterRemovingOther, Dec
<1>4. m_wentForward' \in BOOLEAN /\ m_wrapAround' \in BOOLEAN
  BY DEF RemoveImageIndex, ListConsistent, CacherTypeOK
<1>5. queue' \in Seq(Request) /\ QueueWanted'
  <2>1. apply_priorities(FALSE)
    BY DEF RemoveImageIndex
  <2> QED BY <1>1, <1>3, <1>4, <2>1, AfterApplyPriorities
<1>6. Count - 1 <= MaxFiles
  BY <1>1, <1>2, CacherAssumption
<1> QED BY <1>1, <1>3, <1>4, <1>5, <1>6 DEF Consistent, ListConsistent, CacherTypeOK, IndexValid

\* FindImage answers with a position of the list, or NoIndex.
LEMMA FindRange ==
    ASSUME NEW files \in Seq(Entry), NEW name
    PROVE  FindImage(files, name) \in {NoIndex} \cup 0..(Len(files) - 1)
<1> DEFINE firsts == {k \in DOMAIN files :
                        /\ files[k].name = name
                        /\ \A j \in 1..(k - 1) : files[j].name # name}
<1>1. FindImage(files, name) = IF firsts = {} THEN NoIndex ELSE (CHOOSE k \in firsts : TRUE) - 1
  BY DEF FindImage
<1>2. firsts \subseteq 1..Len(files) /\ Len(files) \in Nat
  BY LenProperties
<1>3. CASE firsts = {}
  BY <1>1, <1>3
<1>4. CASE firsts # {}
  <2> HIDE DEF firsts
  <2>1. PICK k \in firsts : FindImage(files, name) = k - 1
    BY <1>1, <1>4
  <2> QED BY <1>2, <2>1
<1> QED BY <1>3, <1>4

\* Renaming changes no image, no position and no request.
LEMMA RenameConsistent ==
    ASSUME Consistent, NEW old, NEW new \in Names \cup {NoName}, RenamedImage(old, new)
    PROVE  Consistent'
<1>1. PICK n \in 1..Count : m_files' = [m_files EXCEPT ![n].name = new]
  <2>1. /\ m_files \in Seq(Entry)
        /\ FindImage(m_files, old) # NoIndex
        /\ m_files' = [m_files EXCEPT ![FindImage(m_files, old) + 1].name = new]
    BY DEF RenamedImage, Consistent, ListConsistent, CacherTypeOK
  <2>2. FindImage(m_files, old) \in 0..(Count - 1) /\ Count \in Nat
    BY <2>1, FindRange, LenProperties DEF Count
  <2>3. FindImage(m_files, old) + 1 \in 1..Count
    BY <2>2
  <2> QED BY <2>1, <2>3
<1>2. /\ m_files \in Seq(Entry) /\ Count \in Nat /\ DOMAIN m_files = 1..Count
      /\ m_files \in [1..Count -> Entry]
  BY LenProperties DEF Consistent, ListConsistent, CacherTypeOK, Count
<1>3. /\ m_files' \in [1..Count -> Entry]
      /\ \A k \in 1..Count : m_files'[k].image = m_files[k].image
  BY <1>1, <1>2 DEF Entry
<1>4. m_files' \in Seq(Entry) /\ Count' = Count
  BY <1>2, <1>3, LenProperties DEF Count
<1>5. UNCHANGED <<m_index, m_wentForward, m_wrapAround, queue>>
  BY DEF RenamedImage
<1>6. \A k \in Int : RequestAt(m_files', k).image = RequestAt(m_files, k).image
  <2>1. SUFFICES ASSUME NEW k \in Int
                 PROVE  RequestAt(m_files', k).image = RequestAt(m_files, k).image
    OBVIOUS
  <2>2. CASE k = NoIndex \/ k >= Count
    BY <2>2, <1>4 DEF RequestAt, Count
  <2>3. CASE k # NoIndex /\ k < Count /\ k >= 0
    <3>1. k + 1 \in 1..Count
      BY <1>2, <2>3
    <3> QED BY <1>3, <1>4, <2>3, <3>1 DEF RequestAt, Count, At
  <2>4. CASE k < NoIndex
    <3>1. m_files'[k + 1] = m_files[k + 1]
      BY <1>1, <1>2, <2>4 DEF NoIndex
    <3> QED BY <1>4, <3>1 DEF RequestAt, Count, At
  <2> QED BY <1>2, <2>2, <2>3, <2>4 DEF NoIndex
<1>7. \A d \in Deltas : PeekRelativeIndex(m_files', m_index, m_wrapAround, d)
                          = PeekRelativeIndex(m_files, m_index, m_wrapAround, d)
  BY <1>4 DEF PeekRelativeIndex, Count
<1>8. \A d \in Deltas : PeekRelativeIndex(m_files, m_index, m_wrapAround, d) \in Int
  <2>1. \A d \in Deltas : PeekRelativeIndex(m_files, m_index, m_wrapAround, d)
                            \in {NoIndex} \cup 0..(Len(m_files) - 1)
    BY <1>2, PeekRange DEF Consistent, ListConsistent, CacherTypeOK
  <2> QED BY <1>2, <2>1 DEF NoIndex
<1>9. {r.image : r \in Wanted(m_files', m_index, m_wrapAround)}
        = {r.image : r \in Wanted(m_files, m_index, m_wrapAround)}
  <2>1. m_index \in Int
    BY CacherAssumption DEF Consistent, ListConsistent, CacherTypeOK
  <2>2. ASSUME NEW files, \A k \in Int : RequestAt(files, k).image = RequestAt(m_files, k).image,
               \A d \in Deltas : PeekRelativeIndex(files, m_index, m_wrapAround, d)
                                   = PeekRelativeIndex(m_files, m_index, m_wrapAround, d)
        PROVE  {r.image : r \in Wanted(files, m_index, m_wrapAround)}
                 = {RequestAt(m_files, m_index).image}
                     \cup {RequestAt(m_files, PeekRelativeIndex(m_files, m_index, m_wrapAround, d)).image
                             : d \in Deltas}
    BY <1>8, <2>1, <2>2 DEF Wanted
  <2> QED BY <1>6, <1>7, <2>2
<1>10. QueueWanted'
  <2>1. QueueWanted /\ m_index \in Int
    BY CacherAssumption DEF Consistent, ListConsistent, CacherTypeOK
  <2>2. ImagesOf(queue)' = ImagesOf(queue)
    BY <1>5 DEF ImagesOf
  <2>3. Wanted(m_files, m_index, m_wrapAround)' = Wanted(m_files', m_index, m_wrapAround)
    BY <1>5, SMTT(60) DEF Wanted, RequestAt, At, PeekRelativeIndex, AsInt
  <2>4. RequestAt(m_files, m_index)' = RequestAt(m_files', m_index)
    BY <1>5 DEF RequestAt, At
  <2> QED BY <1>4, <1>5, <1>6, <1>9, <2>1, <2>2, <2>3, <2>4 DEF QueueWanted
<1>11. \A j, k \in DOMAIN m_files' : m_files'[j].image = m_files'[k].image => j = k
  BY <1>2, <1>3 DEF Consistent, ListConsistent, CacherTypeOK
<1> QED BY <1>4, <1>5, <1>10, <1>11 DEF Consistent, ListConsistent, CacherTypeOK, IndexValid

\* Nothing is left after Clear.
LEMMA ClearConsistent == ASSUME ListConsistent, Clear PROVE Consistent'
<1>1. m_files' \in Seq(Entry) /\ queue' \in Seq(Request) /\ Count' = 0 /\ DOMAIN m_files' = {}
  BY EmptySeq DEF Clear, Count
<1>2. CacherTypeOK'
  BY <1>1, CacherAssumption DEF CacherTypeOK, Clear, Consistent, ListConsistent
<1> QED BY <1>1, <1>2 DEF Consistent, ListConsistent, IndexValid, QueueWanted, Clear

\* Any operation that moves within the list.
LEMMA MoveConsistent ==
    ASSUME ListConsistent, NEW index \in 0..SizeMax, Count > 0 => index < Count,
           NEW forward \in BOOLEAN, NEW flip \in BOOLEAN, MoveTo(index, forward, flip)
    PROVE  Consistent'
<1>1. /\ m_files' = m_files /\ m_wrapAround' = m_wrapAround
      /\ m_index' = index /\ m_wentForward' = forward
      /\ apply_priorities(flip)
  BY DEF MoveTo
<1>2. m_files \in Seq(Entry) /\ m_wrapAround \in BOOLEAN /\ Count' = Count
  BY <1>1 DEF ListConsistent, CacherTypeOK, Count
<1>3. queue' \in Seq(Request) /\ QueueWanted'
  BY <1>1, <1>2, AfterApplyPriorities
<1> QED BY <1>1, <1>2, <1>3 DEF Consistent, ListConsistent, CacherTypeOK, IndexValid

\* First, last, next and previous image, and a given position.
LEMMA BrowseConsistent == ASSUME ListConsistent, BrowseStep PROVE Consistent'
<1>1. /\ Count \in Nat /\ Count <= MaxFiles /\ m_index \in 0..SizeMax
      /\ (Count > 0 => m_index < Count)
      /\ m_wrapAround \in BOOLEAN
  BY LenProperties DEF ListConsistent, CacherTypeOK, IndexValid, Count
<1>2. CASE FirstImage
  <2>1. 0 \in 0..SizeMax /\ (Count > 0 => 0 < Count)
    BY <1>1, CacherAssumption
  <2> QED BY <1>2, <2>1, MoveConsistent DEF FirstImage
<1>3. CASE LastImage
  <2>1. (IF Count = 0 THEN SizeMax ELSE Count - 1) \in 0..SizeMax
    BY <1>1, CacherAssumption
  <2>2. Count > 0 => (IF Count = 0 THEN SizeMax ELSE Count - 1) < Count
    BY <1>1
  <2> QED BY <1>3, <2>1, <2>2, MoveConsistent DEF LastImage
<1>4. CASE NextImage
  <2>1. /\ NextIndex(m_index, Count, m_wrapAround) \in 0..SizeMax
        /\ Count > 0 => NextIndex(m_index, Count, m_wrapAround) < Count
    BY <1>1, <1>4, CacherAssumption DEF NextIndex, NextImage
  <2> QED BY <1>4, <2>1, MoveConsistent DEF NextImage
<1>5. CASE PreviousImage
  <2>1. /\ PreviousIndex(m_index, Count, m_wrapAround) \in 0..SizeMax
        /\ Count > 0 => PreviousIndex(m_index, Count, m_wrapAround) < Count
    BY <1>1, <1>5, CacherAssumption DEF PreviousIndex, PreviousImage
  <2> QED BY <1>5, <2>1, MoveConsistent DEF PreviousImage
<1>6. ASSUME NEW i \in 0..(Count - 1), GotoImage(i) PROVE Consistent'
  <2>1. i \in 0..SizeMax /\ (Count > 0 => i < Count)
    BY <1>1, CacherAssumption
  <2> QED BY <1>6, <2>1, MoveConsistent DEF GotoImage
<1>7. ASSUME NEW wrap \in BOOLEAN, SettingsChanged(wrap) PROVE Consistent'
  <2>1. /\ m_files' = m_files /\ m_wrapAround' = wrap
        /\ m_index' = m_index /\ m_wentForward' = m_wentForward
        /\ apply_priorities(FALSE)
    BY <1>7 DEF SettingsChanged
  <2>2. m_files \in Seq(Entry) /\ Count' = Count
    BY <2>1 DEF ListConsistent, CacherTypeOK, Count
  <2>3. queue' \in Seq(Request) /\ QueueWanted'
    BY <1>1, <2>1, <2>2, AfterApplyPriorities
  <2> QED BY <2>1, <2>2, <2>3 DEF Consistent, ListConsistent, CacherTypeOK, IndexValid
<1> QED BY <1>2, <1>3, <1>4, <1>5, <1>6, <1>7 DEF BrowseStep

\* Sorting keeps the entries, and leaves a position inside the list.
LEMMA SortConsistent ==
    ASSUME ListConsistent, NEW files \in Reorderings(m_files), Sort(files)
    PROVE  Consistent'
<1>1. /\ m_files' = files /\ m_files \in Seq(Entry)
      /\ \A j, k \in DOMAIN m_files : m_files[j].image = m_files[k].image => j = k
      /\ m_wrapAround' = m_wrapAround /\ apply_priorities(FALSE)
  BY DEF Sort, ListConsistent, CacherTypeOK
<1>2. /\ files \in Seq(Entry) /\ Len(files) = Len(m_files)
      /\ \A j, k \in DOMAIN files : files[j].image = files[k].image => j = k
  BY <1>1, ReorderingProperties
<1>3. Count' = Count /\ Count \in Nat /\ Count = Len(files) /\ Count <= MaxFiles
  BY <1>1, <1>2, LenProperties DEF Count, ListConsistent, CacherTypeOK
<1>4. /\ m_index \in 0..SizeMax /\ (Count > 0 => m_index < Count)
      /\ m_wentForward \in BOOLEAN /\ m_wrapAround \in BOOLEAN
  BY DEF ListConsistent, CacherTypeOK, IndexValid
<1> DEFINE name  == IF m_index > 0 /\ m_index < Count THEN At(m_files, m_index).name ELSE NoName
           found == IF name = NoName THEN NoIndex ELSE FindImage(files, name)
<1>5. found \in {NoIndex} \cup 0..(Count - 1)
  BY <1>2, <1>3, FindRange
<1>6. IF found = NoIndex THEN UNCHANGED <<m_index, m_wentForward>>
                         ELSE m_index' = found /\ m_wentForward' = TRUE
  BY DEF Sort
<1> HIDE DEF found
<1>7. /\ m_index' \in 0..SizeMax /\ (Count > 0 => m_index' < Count)
      /\ m_wentForward' \in BOOLEAN
  <2>1. CASE found = NoIndex
    <3>1. m_index' = m_index /\ m_wentForward' = m_wentForward
      BY <1>6, <2>1
    <3>2. Count > 0 => m_index' < Count
      BY <1>3, <1>4, <3>1
    <3> QED BY <1>4, <3>1, <3>2
  <2>2. CASE found # NoIndex
    <3>1. m_index' = found /\ m_wentForward' = TRUE
      BY <1>6, <2>2
    <3>2. found \in 0..(Count - 1)
      BY <1>5, <2>2
    <3>3. found \in 0..SizeMax /\ found < Count
      BY <1>3, <3>2, CacherAssumption
    <3> QED BY <3>1, <3>3
  <2> QED BY <2>1, <2>2
<1>8. queue' \in Seq(Request) /\ QueueWanted'
  BY <1>1, <1>2, <1>4, <1>7, AfterApplyPriorities
<1> QED BY <1>1, <1>2, <1>3, <1>4, <1>7, <1>8 DEF Consistent, ListConsistent, CacherTypeOK, IndexValid

-----------------------------------------------------------------------------
(* The invariant, and what follows from it.                                *)

\* Every step, and a step that changes nothing, preserves the invariant.
LEMMA NextConsistent == Consistent /\ [CacherNext]_cacherVars => Consistent'
<1> SUFFICES ASSUME Consistent, [CacherNext]_cacherVars PROVE Consistent'
  OBVIOUS
<1>0. ListConsistent
  BY DEF Consistent
<1>1. ASSUME NEW name \in Names, NEW image \in Images, AddImageLast(name, image)
      PROVE  Consistent'
  BY <1>0, <1>1, AddConsistent
<1>2. ASSUME NEW i \in 0..(Count - 1), RemoveImageIndex(i) PROVE Consistent'
  BY <1>0, <1>2, RemoveConsistent
<1>3. ASSUME NEW name \in Names, RemoveImageFilename(name) PROVE Consistent'
  <2>1. m_files \in Seq(Entry)
    BY DEF Consistent, ListConsistent, CacherTypeOK
  <2>2. FindImage(m_files, name) # NoIndex /\ RemoveImageIndex(FindImage(m_files, name))
    BY <1>3 DEF RemoveImageFilename
  <2>3. FindImage(m_files, name) \in 0..(Count - 1)
    BY <2>1, <2>2, FindRange DEF Count
  <2> QED BY <1>0, <2>2, <2>3, RemoveConsistent
<1>4. ASSUME NEW old \in Names, NEW new \in Names \cup {NoName}, RenamedImage(old, new)
      PROVE  Consistent'
  BY <1>4, RenameConsistent
<1>5. ASSUME NEW files \in Reorderings(m_files), Sort(files) PROVE Consistent'
  BY <1>0, <1>5, SortConsistent
<1>6. CASE Clear
  BY <1>0, <1>6, ClearConsistent
<1>7. CASE BrowseStep
  BY <1>0, <1>7, BrowseConsistent
<1>8. CASE UNCHANGED cacherVars
  <2>1. UNCHANGED <<m_files, m_index, m_wentForward, m_wrapAround, queue>>
    BY <1>8 DEF cacherVars
  <2>2. CacherTypeOK' /\ IndexValid'
    BY <2>1 DEF Consistent, ListConsistent, CacherTypeOK, IndexValid, Count
  <2>3. QueueWanted'
    <3>1. Wanted(m_files, m_index, m_wrapAround)' = Wanted(m_files, m_index, m_wrapAround)
      BY <2>1, SMTT(60) DEF Wanted, RequestAt, At, PeekRelativeIndex, AsInt
    <3>2. RequestAt(m_files, m_index)' = RequestAt(m_files, m_index)
      BY <2>1 DEF RequestAt, At
    <3>3. ImagesOf(queue)' = ImagesOf(queue)
      BY <2>1 DEF ImagesOf
    <3>4. Count' = Count
      BY <2>1 DEF Count
    <3> QED BY <2>1, <3>1, <3>2, <3>3, <3>4 DEF Consistent, ListConsistent, QueueWanted
  <2> QED BY <2>2, <2>3 DEF Consistent, ListConsistent
<1> QED BY <1>1, <1>2, <1>3, <1>4, <1>5, <1>6, <1>7, <1>8 DEF CacherNext, ListStep

\* The invariant holds in every state the browser reaches.
THEOREM Invariance == CacherSpec => []Consistent
<1>1. CacherInit => Consistent
  BY InitConsistent
<1>2. Consistent /\ [CacherNext]_cacherVars => Consistent'
  BY NextConsistent
<1> QED BY <1>1, <1>2, PTL DEF CacherSpec

\* The list, the position and the request list always have their types, and no
\* two entries of the list share an Image.
THEOREM TypeCorrect == CacherSpec => []CacherTypeOK
<1>1. Consistent => CacherTypeOK
  BY DEF Consistent, ListConsistent
<1> QED BY <1>1, Invariance, PTL

\* CurrentImage never indexes past the end of the vector, whatever sequence of
\* additions, removals, renames, sorts and moves came before.
THEOREM PositionInsideList == CacherSpec => []IndexValid
<1>1. Consistent => IndexValid
  BY DEF Consistent, ListConsistent
<1> QED BY <1>1, Invariance, PTL

\* What the request list says of the list and the position.
LEMMA ConsistentQueueServes == Consistent => QueueServesList
<1> SUFFICES ASSUME Consistent PROVE QueueServesList
  OBVIOUS
<1>1. /\ m_files \in Seq(Entry) /\ Count \in Nat /\ m_index \in 0..SizeMax
      /\ m_wrapAround \in BOOLEAN /\ (Count > 0 => m_index < Count)
  BY LenProperties DEF Consistent, ListConsistent, CacherTypeOK, IndexValid, Count
<1>2. m_index \in Int /\ m_index >= NoIndex /\ m_index >= 0
  BY <1>1, CacherAssumption DEF NoIndex
<1>3. \A r \in Wanted(m_files, m_index, m_wrapAround) : r.image \in ImagesOf(m_files) \cup {NoImage}
  <2>1. RequestAt(m_files, m_index).image \in ImagesOf(m_files) \cup {NoImage}
    BY <1>1, <1>2, RequestAtType
  <2>2. ASSUME NEW d \in Deltas
        PROVE  RequestAt(m_files, PeekRelativeIndex(m_files, m_index, m_wrapAround, d)).image
                  \in ImagesOf(m_files) \cup {NoImage}
    <3>1. PeekRelativeIndex(m_files, m_index, m_wrapAround, d) \in {NoIndex} \cup 0..(Len(m_files) - 1)
      BY <1>1, PeekRange
    <3>2. /\ PeekRelativeIndex(m_files, m_index, m_wrapAround, d) \in Int
          /\ PeekRelativeIndex(m_files, m_index, m_wrapAround, d) >= NoIndex
      BY <1>1, <3>1 DEF NoIndex, Count
    <3> QED BY <1>1, <3>2, RequestAtType
  <2> QED BY <2>1, <2>2 DEF Wanted
<1>4. \A k \in DOMAIN queue : queue[k].image \in ImagesOf(m_files) \cup {NoImage}
  <2>1. CASE queue = <<>>
    BY <2>1
  <2>2. CASE queue # <<>>
    <3>1. ImagesOf(queue) = {r.image : r \in Wanted(m_files, m_index, m_wrapAround)}
      BY <2>2 DEF Consistent, ListConsistent, QueueWanted
    <3>2. \A k \in DOMAIN queue : queue[k].image \in ImagesOf(queue)
      BY DEF ImagesOf
    <3> QED BY <1>3, <3>1, <3>2
  <2> QED BY <2>1, <2>2
<1>5. ASSUME queue # <<>> PROVE Head(queue).image = CurrentImage
  <2>1. Head(queue).image = RequestAt(m_files, m_index).image
    BY <1>5 DEF Consistent, ListConsistent, QueueWanted
  <2>2. CASE Count = 0
    <3>1. m_index >= Len(m_files)
      BY <1>2, <2>2 DEF Count
    <3> QED BY <2>1, <2>2, <3>1 DEF RequestAt, NoRequest, CurrentImage
  <2>3. CASE Count # 0
    <3>1. m_index \in 0..(Len(m_files) - 1)
      BY <1>1, <1>2, <2>3 DEF Count
    <3>2. RequestAt(m_files, m_index).image = At(m_files, m_index).image
      BY <1>1, <1>2, <3>1, RequestAtType
    <3> QED BY <2>1, <2>3, <3>2 DEF CurrentImage
  <2> QED BY <2>2, <2>3
<1>6. Count > 0 => queue # <<>>
  BY <1>1 DEF Consistent, ListConsistent, QueueWanted
<1> QED BY <1>4, <1>5, <1>6 DEF QueueServesList

\* The decoder is always asked for the image on the screen first, and never for
\* one that is no longer in the list.
THEOREM RequestsFollowTheList == CacherSpec => []QueueServesList
BY Invariance, ConsistentQueueServes, PTL

\* Both neighbours are wanted, so both are in the request list.
LEMMA ConsistentNeighbours == Consistent => NeighboursRequested
<1> SUFFICES ASSUME Consistent, Count > 0, NEW delta \in {-1, 1},
                    PeekRelativeIndex(m_files, m_index, m_wrapAround, delta) # NoIndex
             PROVE  \E k \in DOMAIN queue :
                      queue[k].image
                        = At(m_files, PeekRelativeIndex(m_files, m_index, m_wrapAround, delta)).image
  BY DEF NeighboursRequested
<1> DEFINE i == PeekRelativeIndex(m_files, m_index, m_wrapAround, delta)
<1>1. /\ m_files \in Seq(Entry) /\ Count \in Nat /\ m_index \in 0..SizeMax
      /\ m_wrapAround \in BOOLEAN
  BY LenProperties DEF Consistent, ListConsistent, CacherTypeOK, Count
<1>2. delta \in Deltas
  BY DEF Deltas
<1>3. i \in 0..(Len(m_files) - 1)
  BY <1>1, <1>2, PeekRange
<1>4. i \in Int /\ i >= NoIndex
  BY <1>1, <1>3 DEF NoIndex, Count
<1>5. RequestAt(m_files, i).image = At(m_files, i).image
  BY <1>1, <1>3, <1>4, RequestAtType
<1>6. RequestAt(m_files, i) \in Wanted(m_files, m_index, m_wrapAround)
  BY <1>2 DEF Wanted
<1>7. ImagesOf(queue) = {r.image : r \in Wanted(m_files, m_index, m_wrapAround)}
  BY <1>1 DEF Consistent, ListConsistent, QueueWanted
<1>8. At(m_files, i).image \in ImagesOf(queue)
  BY <1>5, <1>6, <1>7
<1> QED BY <1>8 DEF ImagesOf

\* The images one step away are requested whatever changed last.
THEOREM NeighboursAreRequested == CacherSpec => []NeighboursRequested
BY Invariance, ConsistentNeighbours, PTL

-----------------------------------------------------------------------------
(* Which file is shown after one is removed.                               *)

\* Erasing another entry keeps the entry shown; erasing the one shown leads to
\* its neighbour in the direction of travel.
LEMMA RemovalFollows ==
    ASSUME ListConsistent, Count > 1, NEW i \in 0..(Count - 1), RemoveImageIndex(i)
    PROVE  SelectionFollows
<1> DEFINE target == IF m_wentForward
                     THEN IF m_index + 1 < Count THEN m_index + 1 ELSE m_index - 1
                     ELSE IF m_index > 0 THEN m_index - 1 ELSE m_index + 1
<1>1. /\ m_files' \in Seq(Entry)
      /\ Count' = Count - 1
      /\ Count \in Nat
      /\ \A k \in 0..(Count - 2) : At(m_files', k) = At(m_files, IF k < i THEN k ELSE k + 1)
  BY Erased DEF RemoveImageIndex
<1>2. m_index \in 0..(Count - 1) /\ DOMAIN m_files = 1..Count /\ DOMAIN m_files' = 1..(Count - 1)
  BY <1>1, LenProperties, CacherAssumption DEF ListConsistent, CacherTypeOK, IndexValid, Count
<1>3. CurrentImage = At(m_files, m_index).image
  BY <1>1 DEF CurrentImage
<1>4. CurrentImage' = At(m_files', m_index').image
  BY <1>1 DEF CurrentImage, At
<1>5. CASE i = m_index
  <2>1. CurrentImage \notin ImagesOf(m_files')
    <3>1. SUFFICES ASSUME NEW n \in 1..(Count - 1), m_files'[n].image = CurrentImage
                   PROVE  FALSE
      BY <1>2 DEF ImagesOf
    <3>2. n - 1 \in 0..(Count - 2)
      BY <1>1
    <3> DEFINE k == IF n - 1 < i THEN n ELSE n + 1
    <3>3. m_files'[n] = m_files[k] /\ k \in 1..Count
      <4>1. /\ n - 1 + 1 = n /\ k \in 1..Count
            /\ (IF n - 1 < i THEN n - 1 ELSE (n - 1) + 1) + 1 = k
        BY <1>1
      <4>2. At(m_files', n - 1) = At(m_files, IF n - 1 < i THEN n - 1 ELSE (n - 1) + 1)
        BY <1>1, <3>2
      <4> HIDE DEF k
      <4> QED BY <4>1, <4>2 DEF At
    <3>4. m_files[k].image = m_files[m_index + 1].image
      BY <1>3, <3>1, <3>3 DEF At
    <3>5. m_index + 1 \in 1..Count
      BY <1>1, <1>2
    <3>6. k = m_index + 1
      BY <1>2, <3>3, <3>4, <3>5 DEF ListConsistent, CacherTypeOK
    <3> QED BY <1>1, <1>2, <1>5, <3>6
  <2>2. /\ m_index' \in 0..(Count - 2)
        /\ (IF m_index' < i THEN m_index' ELSE m_index' + 1) = target
    BY <1>1, <1>2, <1>5 DEF RemoveImageIndex, IndexAfterRemovingCurrent, Dec
  <2>3. At(m_files', m_index') = At(m_files, target)
    BY <1>1, <2>2
  <2> QED BY <1>4, <2>1, <2>3 DEF SelectionFollows
<1>6. CASE i # m_index
  <2>1. /\ m_index' \in 0..(Count - 2)
        /\ (IF m_index' < i THEN m_index' ELSE m_index' + 1) = m_index
    BY <1>1, <1>2, <1>6 DEF RemoveImageIndex, IndexAfterRemovingOther, Dec
  <2>2. At(m_files', m_index') = At(m_files, m_index)
    BY <1>1, <2>1
  <2>3. m_index' + 1 \in DOMAIN m_files'
    <3>1. PICK k \in 0..(Count - 2) : m_index' = k
      BY <2>1
    <3>2. Count \in Nat
      BY <1>1
    <3>3. k + 1 \in 1..(Count - 1)
      BY <3>2
    <3> QED BY <1>2, <3>1, <3>3
  <2>4. CurrentImage' \in ImagesOf(m_files')
    BY <1>4, <2>3 DEF ImagesOf, At
  <2> QED BY <1>3, <1>4, <2>2, <2>4 DEF SelectionFollows
<1> QED BY <1>5, <1>6

\* The other operations erase nothing: the list grows, is emptied, or keeps
\* its length.
LEMMA NothingRemoved ==
    ASSUME ListConsistent, Count' # Count - 1
    PROVE  SelectionFollows
<1>1. SUFFICES ASSUME NEW i \in 0..(Count - 1), m_files' = RemoveAt(m_files, i + 1)
               PROVE  FALSE
  BY DEF SelectionFollows
<1> QED BY <1>1, Erased

\* Every step of the browser leaves the user at the file shown, or next to it.
LEMMA StepFollows == Consistent /\ [CacherNext]_cacherVars => SelectionFollows
<1> SUFFICES ASSUME Consistent, [CacherNext]_cacherVars, Count > 1 PROVE SelectionFollows
  BY DEF SelectionFollows
<1>0. ListConsistent
  BY DEF Consistent
<1>1. m_files \in Seq(Entry) /\ Count \in Nat /\ DOMAIN m_files = 1..Count
  BY LenProperties DEF Consistent, ListConsistent, CacherTypeOK, Count
<1>2. ASSUME m_files' = m_files PROVE SelectionFollows
  <2>1. Count' = Count
    BY <1>2 DEF Count
  <2> QED BY <1>1, <2>1, <1>0, NothingRemoved
<1>3. ASSUME NEW name \in Names, NEW image \in Images, AddImageLast(name, image)
      PROVE  SelectionFollows
  <2>1. [name |-> name, image |-> image] \in Entry
    BY DEF Entry
  <2>2. Count' = Count + 1
    BY <1>1, <1>3, <2>1, AppendProperties DEF AddImageLast, Count
  <2> QED BY <1>1, <2>2, <1>0, NothingRemoved
<1>4. ASSUME NEW i \in 0..(Count - 1), RemoveImageIndex(i) PROVE SelectionFollows
  BY <1>4, <1>0, RemovalFollows
<1>5. ASSUME NEW name \in Names, RemoveImageFilename(name) PROVE SelectionFollows
  <2>1. FindImage(m_files, name) # NoIndex /\ RemoveImageIndex(FindImage(m_files, name))
    BY <1>5 DEF RemoveImageFilename
  <2>2. FindImage(m_files, name) \in 0..(Count - 1)
    BY <1>1, <2>1, FindRange DEF Count
  <2> QED BY <2>1, <2>2, <1>0, RemovalFollows
<1>6. ASSUME NEW old \in Names, NEW new \in Names \cup {NoName}, RenamedImage(old, new)
      PROVE  SelectionFollows
  <2>1. m_files' = [m_files EXCEPT ![FindImage(m_files, old) + 1].name = new]
    BY <1>6 DEF RenamedImage
  <2>2. Count' = Count
    BY <1>1, <2>1 DEF Count
  <2> QED BY <1>1, <2>2, <1>0, NothingRemoved
<1>7. ASSUME NEW files \in Reorderings(m_files), Sort(files) PROVE SelectionFollows
  <2>1. m_files' = files
    BY <1>7 DEF Sort
  <2>2. \A j, k \in DOMAIN m_files : m_files[j].image = m_files[k].image => j = k
    BY DEF Consistent, ListConsistent, CacherTypeOK
  <2>3. Len(files) = Len(m_files)
    BY <1>1, <2>2, ReorderingProperties
  <2>4. Count' = Count
    BY <2>1, <2>3 DEF Count
  <2> QED BY <1>1, <2>4, <1>0, NothingRemoved
<1>8. CASE Clear
  <2>1. Count' = 0
    BY <1>8 DEF Clear, Count
  <2> QED BY <1>1, <2>1, <1>0, NothingRemoved
<1>9. CASE BrowseStep
  <2>1. m_files' = m_files
    BY <1>9 DEF BrowseStep, FirstImage, LastImage, NextImage, PreviousImage, GotoImage,
                SettingsChanged, MoveTo
  <2> QED BY <1>2, <2>1
<1>10. CASE UNCHANGED cacherVars
  BY <1>2, <1>10 DEF cacherVars
<1> QED BY <1>3, <1>4, <1>5, <1>6, <1>7, <1>8, <1>9, <1>10 DEF CacherNext, ListStep

\* Removing a file never moves the user away from a file that is still there,
\* and otherwise leads to its neighbour in the direction of travel.
THEOREM RemovalKeepsSelection == CacherSpec => SelectionFollowsRemoval
<1>1. Consistent /\ [CacherNext]_cacherVars => [SelectionFollows]_cacherVars
  BY StepFollows
<1> QED BY <1>1, Invariance, PTL DEF CacherSpec, SelectionFollowsRemoval

-----------------------------------------------------------------------------
(* WORKLIST AND IMAGELOADER                                                *)

-----------------------------------------------------------------------------
(* Induction over numbers.                                                 *)

\* Every set of natural numbers that is not empty has a smallest member.
LEMMA LeastNatural ==
    ASSUME NEW S \in SUBSET Nat, S # {}
    PROVE  \E m \in S : \A k \in S : m <= k
<1>1. PICK m \in S : \A k \in S : <<k, m>> \notin OpToRel(<, Nat)
  BY WFMin, NatLessThanWellFounded
<1>2. ASSUME NEW k \in S PROVE m <= k
  <2>1. <<k, m>> \in Nat \X Nat /\ <<k, m>>[1] = k /\ <<k, m>>[2] = m
    OBVIOUS
  <2>2. ~(k < m)
    BY <1>1, <2>1 DEF OpToRel
  <2> QED BY <2>2
<1> QED BY <1>2

\* Induction: what holds of 0, and of n + 1 whenever it holds of n, holds of
\* every number.
LEMMA Induction ==
    ASSUME NEW S \in SUBSET Nat, 0 \in S, \A n \in S : n + 1 \in S
    PROVE  S = Nat
<1> SUFFICES ASSUME Nat \ S # {} PROVE FALSE
  OBVIOUS
<1>1. PICK m \in Nat \ S : \A k \in Nat \ S : m <= k
  <2> DEFINE T == Nat \ S
  <2>1. T \in SUBSET Nat /\ T # {}
    OBVIOUS
  <2>2. \E m \in T : \A k \in T : m <= k
    BY <2>1, LeastNatural
  <2> QED BY <2>2
<1>2. m # 0 /\ m - 1 \in Nat
  OBVIOUS
<1>3. m - 1 \in S
  BY <1>1, <1>2
<1> QED BY <1>2, <1>3

-----------------------------------------------------------------------------
(* Sums.                                                                   *)

\* The function Total computes its answer with: there is exactly one.
IsTotal(total, numbers, n) ==
    total = [k \in 0..n |-> IF k = 0 THEN 0 ELSE total[k - 1] + numbers[k]]

\* For every length there is a function that satisfies the recursion.
LEMMA TotalExists ==
    ASSUME NEW numbers, NEW n \in Nat
    PROVE  \E total : IsTotal(total, numbers, n)
<1> DEFINE S == {m \in Nat : \E total : IsTotal(total, numbers, m)}
<1>1. 0 \in S
  <2>1. IsTotal([k \in 0..0 |-> 0], numbers, 0)
    BY DEF IsTotal
  <2> QED BY <2>1
<1>2. ASSUME NEW m \in S PROVE m + 1 \in S
  <2>1. PICK f : IsTotal(f, numbers, m)
    OBVIOUS
  <2> DEFINE g == [k \in 0..(m + 1) |-> IF k = m + 1 THEN f[m] + numbers[m + 1] ELSE f[k]]
  <2>2. ASSUME NEW k \in 0..(m + 1)
        PROVE  g[k] = IF k = 0 THEN 0 ELSE g[k - 1] + numbers[k]
    <3>1. CASE k = m + 1
      <4>1. k # 0 /\ k - 1 = m /\ m \in 0..(m + 1) /\ m # m + 1
        BY <3>1
      <4> QED BY <3>1, <4>1
    <3>2. CASE k # m + 1
      <4>1. k \in 0..m /\ g[k] = f[k]
        BY <3>2
      <4>2. f[k] = IF k = 0 THEN 0 ELSE f[k - 1] + numbers[k]
        BY <2>1, <4>1 DEF IsTotal
      <4>3. k # 0 => k - 1 \in 0..(m + 1) /\ k - 1 # m + 1
        BY <4>1
      <4> QED BY <4>1, <4>2, <4>3
    <3> QED BY <3>1, <3>2
  <2>3. g = [k \in 0..(m + 1) |-> IF k = 0 THEN 0 ELSE g[k - 1] + numbers[k]]
    <3> DEFINE h == [k \in 0..(m + 1) |-> IF k = 0 THEN 0 ELSE g[k - 1] + numbers[k]]
    <3>1. \A k \in 0..(m + 1) : h[k] = g[k]
      BY <2>2
    <3> QED BY <3>1
  <2>4. IsTotal(g, numbers, m + 1)
    BY <2>3 DEF IsTotal
  <2> QED BY <2>4
<1>3. S = Nat
  <2> HIDE DEF S
  <2>1. S \in SUBSET Nat
    BY DEF S
  <2> QED BY <1>1, <1>2, <2>1, Induction
<1> QED BY <1>3

\* The recursion determines the function.
LEMMA TotalUnique ==
    ASSUME NEW a, NEW m \in Nat, NEW n \in Nat, m <= n,
           NEW f, IsTotal(f, a, m), NEW g, IsTotal(g, a, n)
    PROVE  \A k \in 0..m : f[k] = g[k]
<1> DEFINE S == {k \in Nat : k <= m => f[k] = g[k]}
<1>1. 0 \in S
  <2>1. f[0] = 0 /\ g[0] = 0
    BY DEF IsTotal
  <2> QED BY <2>1
<1>2. ASSUME NEW k \in S PROVE k + 1 \in S
  <2>1. SUFFICES ASSUME k + 1 <= m PROVE f[k + 1] = g[k + 1]
    OBVIOUS
  <2>2. /\ k + 1 \in 0..m /\ k + 1 \in 0..n /\ k + 1 # 0 /\ k + 1 - 1 = k
        /\ k + 1 \in 1..m
    BY <2>1
  <2>3. f[k + 1] = f[k] + a[k + 1]
    BY <2>2 DEF IsTotal
  <2>4. g[k + 1] = g[k] + a[k + 1]
    BY <2>2 DEF IsTotal
  <2>5. f[k] = g[k]
    BY <2>1, <2>2
  <2> QED BY <2>3, <2>4, <2>5
<1>3. S = Nat
  <2> HIDE DEF S
  <2>1. S \in SUBSET Nat
    BY DEF S
  <2> QED BY <1>1, <1>2, <2>1, Induction
<1> QED BY <1>3

\* Total satisfies the recursion it is defined by.
LEMMA TotalStep ==
    ASSUME NEW a, NEW n \in Nat
    PROVE  /\ Total(a, 0) = 0
           /\ Total(a, n + 1) = Total(a, n) + a[n + 1]
<1> DEFINE f(m) == CHOOSE total : IsTotal(total, a, m)
<1>1. ASSUME NEW m \in Nat PROVE IsTotal(f(m), a, m) /\ Total(a, m) = f(m)[m]
  <2>1. IsTotal(f(m), a, m)
    BY TotalExists
  <2>2. Total(a, m) = f(m)[m]
    BY DEF Total, IsTotal
  <2> QED BY <2>1, <2>2
<1> HIDE DEF f
<1>2. Total(a, 0) = 0
  <2>1. IsTotal(f(0), a, 0) /\ Total(a, 0) = f(0)[0]
    BY <1>1
  <2> QED BY <2>1 DEF IsTotal
<1>3. Total(a, n + 1) = Total(a, n) + a[n + 1]
  <2>1. n + 1 \in Nat /\ n + 1 - 1 = n /\ n + 1 # 0 /\ n + 1 \in 0..(n + 1) /\ n \in 0..n
    OBVIOUS
  <2>2. /\ IsTotal(f(n), a, n) /\ Total(a, n) = f(n)[n]
        /\ IsTotal(f(n + 1), a, n + 1) /\ Total(a, n + 1) = f(n + 1)[n + 1]
    BY <1>1, <2>1
  <2>3. f(n)[n] = f(n + 1)[n]
    <3>1. ASSUME NEW g, IsTotal(g, a, n), NEW h, IsTotal(h, a, n + 1)
          PROVE  g[n] = h[n]
      <4>1. n <= n + 1
        OBVIOUS
      <4>2. \A k \in 0..n : g[k] = h[k]
        BY <2>1, <3>1, <4>1, TotalUnique
      <4> QED BY <2>1, <4>2
    <3> QED BY <2>2, <3>1
  <2>4. f(n + 1)[n + 1] = f(n + 1)[n] + a[n + 1]
    BY <2>1, <2>2 DEF IsTotal
  <2> QED BY <2>2, <2>3, <2>4
<1> QED BY <1>2, <1>3

\* The sum of natural numbers is one.
LEMMA TotalType ==
    ASSUME NEW n \in Nat, NEW a, \A k \in 1..n : a[k] \in Nat
    PROVE  \A m \in 0..n : Total(a, m) \in Nat
<1> DEFINE S == {m \in Nat : m <= n => Total(a, m) \in Nat}
<1>1. 0 \in S
  BY TotalStep
<1>2. ASSUME NEW m \in S PROVE m + 1 \in S
  <2>1. SUFFICES ASSUME m + 1 <= n PROVE Total(a, m + 1) \in Nat
    OBVIOUS
  <2>2. Total(a, m + 1) = Total(a, m) + a[m + 1]
    BY TotalStep
  <2>3. m <= n /\ m + 1 \in 1..n
    BY <2>1
  <2> QED BY <2>2, <2>3
<1>3. S = Nat
  <2> HIDE DEF S
  <2>1. S \in SUBSET Nat
    BY DEF S
  <2> QED BY <1>1, <1>2, <2>1, Induction
<1> QED BY <1>3

\* A sum is at most the sum of two others that together bound its numbers.
LEMMA TotalPlus ==
    ASSUME NEW n \in Nat, NEW a, NEW b, NEW c,
           \A k \in 1..n : /\ a[k] \in Nat /\ b[k] \in Nat /\ c[k] \in Nat
                           /\ c[k] <= a[k] + b[k]
    PROVE  \A m \in 0..n : Total(c, m) <= Total(a, m) + Total(b, m)
<1> DEFINE S == {m \in Nat : m <= n => Total(c, m) <= Total(a, m) + Total(b, m)}
<1>1. 0 \in S
  <2>1. Total(a, 0) = 0 /\ Total(b, 0) = 0 /\ Total(c, 0) = 0
    BY TotalStep
  <2> QED BY <2>1
<1>2. ASSUME NEW m \in S PROVE m + 1 \in S
  <2>1. SUFFICES ASSUME m + 1 <= n
                 PROVE  Total(c, m + 1) <= Total(a, m + 1) + Total(b, m + 1)
    OBVIOUS
  <2>2. /\ Total(a, m + 1) = Total(a, m) + a[m + 1]
        /\ Total(b, m + 1) = Total(b, m) + b[m + 1]
        /\ Total(c, m + 1) = Total(c, m) + c[m + 1]
    BY TotalStep
  <2>3. m \in 0..n /\ m + 1 \in 1..n /\ m <= n
    BY <2>1
  <2>4. Total(a, m) \in Nat /\ Total(b, m) \in Nat /\ Total(c, m) \in Nat
    BY <2>3, TotalType
  <2>5. /\ a[m + 1] \in Nat /\ b[m + 1] \in Nat /\ c[m + 1] \in Nat
        /\ c[m + 1] <= a[m + 1] + b[m + 1]
    BY <2>3
  <2>6. Total(c, m) <= Total(a, m) + Total(b, m)
    BY <2>3
  <2> QED BY <2>2, <2>4, <2>5, <2>6
<1>3. S = Nat
  <2> HIDE DEF S
  <2>1. S \in SUBSET Nat
    BY DEF S
  <2> QED BY <1>1, <1>2, <2>1, Induction
<1> QED BY <1>3

\* Where the numbers are 0 from some point on, the sum stays what it was.
LEMMA TotalZero ==
    ASSUME NEW n \in Nat, NEW m \in 0..n, NEW a,
           \A k \in 1..n : a[k] \in Nat,
           \A k \in (m + 1)..n : a[k] = 0
    PROVE  Total(a, n) = Total(a, m)
<1> DEFINE S == {k \in Nat : m <= k /\ k <= n => Total(a, k) = Total(a, m)}
<1>1. 0 \in S
  BY TotalStep
<1>2. ASSUME NEW k \in S PROVE k + 1 \in S
  <2>1. SUFFICES ASSUME m <= k + 1, k + 1 <= n PROVE Total(a, k + 1) = Total(a, m)
    OBVIOUS
  <2>2. CASE m = k + 1
    BY <2>2
  <2>3. CASE m <= k
    <3>1. k + 1 \in (m + 1)..n /\ k \in 0..n
      BY <2>1, <2>3
    <3>2. Total(a, k + 1) = Total(a, k) + 0
      BY <3>1, TotalStep
    <3>3. Total(a, k) \in Nat /\ Total(a, k) = Total(a, m)
      BY <2>1, <2>3, <3>1, TotalType
    <3> QED BY <3>2, <3>3
  <2> QED BY <2>1, <2>2, <2>3
<1>3. S = Nat
  <2> HIDE DEF S
  <2>1. S \in SUBSET Nat
    BY DEF S
  <2> QED BY <1>1, <1>2, <2>1, Induction
<1> QED BY <1>3

\* Each of the numbers is at most the sum of the first ones, and a longer sum
\* is at least a shorter one.
LEMMA TotalGrows ==
    ASSUME NEW n \in Nat, NEW m \in 0..n, NEW a, \A k \in 1..n : a[k] \in Nat
    PROVE  Total(a, m) <= Total(a, n)
<1> DEFINE S == {k \in Nat : m <= k /\ k <= n => Total(a, m) <= Total(a, k)}
<1>0. Total(a, m) \in Nat
  BY TotalType
<1>1. 0 \in S
  BY <1>0
<1>2. ASSUME NEW k \in S PROVE k + 1 \in S
  <2>1. SUFFICES ASSUME m <= k + 1, k + 1 <= n PROVE Total(a, m) <= Total(a, k + 1)
    OBVIOUS
  <2>2. CASE m = k + 1
    BY <1>0, <2>2
  <2>3. CASE m <= k
    <3>1. k + 1 \in 1..n /\ k \in 0..n
      BY <2>1, <2>3
    <3>2. Total(a, k + 1) = Total(a, k) + a[k + 1]
      BY TotalStep
    <3>3. Total(a, k) \in Nat /\ a[k + 1] \in Nat /\ Total(a, m) <= Total(a, k)
      BY <2>1, <2>3, <3>1, TotalType
    <3> QED BY <1>0, <3>2, <3>3
  <2> QED BY <2>1, <2>2, <2>3
<1>3. S = Nat
  <2> HIDE DEF S
  <2>1. S \in SUBSET Nat
    BY DEF S
  <2> QED BY <1>1, <1>2, <2>1, Induction
<1>4. n \in S
  BY <1>3
<1> QED BY <1>4

\* Smaller numbers have a smaller sum.
LEMMA TotalMonotone ==
    ASSUME NEW n \in Nat, NEW a, NEW c,
           \A k \in 1..n : a[k] \in Nat /\ c[k] \in Nat /\ c[k] <= a[k]
    PROVE  Total(c, n) <= Total(a, n)
<1> DEFINE z == [k \in 1..n |-> 0]
<1>1. \A k \in 1..n : z[k] \in Nat /\ c[k] <= a[k] + z[k] /\ z[k] = 0
  OBVIOUS
<1> HIDE DEF z
<1>2. Total(c, n) <= Total(a, n) + Total(z, n)
  BY <1>1, TotalPlus
<1>3. Total(z, n) = Total(z, 0) /\ Total(z, 0) = 0
  BY <1>1, TotalZero, TotalStep
<1>4. Total(a, n) \in Nat /\ Total(c, n) \in Nat
  BY TotalType
<1> QED BY <1>2, <1>3, <1>4

\* A number is at most the sum of the numbers up to it.
LEMMA TotalElement ==
    ASSUME NEW n \in Nat, NEW k \in 1..n, NEW a, \A j \in 1..n : a[j] \in Nat
    PROVE  a[k] <= Total(a, n)
<1>1. k - 1 \in Nat /\ k - 1 \in 0..n /\ k \in 0..n /\ (k - 1) + 1 = k
  OBVIOUS
<1>2. Total(a, (k - 1) + 1) = Total(a, k - 1) + a[(k - 1) + 1]
  BY <1>1, TotalStep
<1>3. Total(a, k - 1) \in Nat /\ Total(a, k) \in Nat /\ Total(a, n) \in Nat
  BY <1>1, TotalType
<1>4. Total(a, k) <= Total(a, n)
  BY <1>1, TotalGrows
<1> QED BY <1>1, <1>2, <1>3, <1>4

-----------------------------------------------------------------------------
(* The requests for an image.                                              *)

\* No two entries of a sequence are about the same image.
DistinctImages(s) == \A i, j \in DOMAIN s : s[i].image = s[j].image => i = j

\* The function NonNull computes its answer with.
IsNonNull(wanted, requests, n) ==
    wanted = [k \in 0..n |->
                IF k = 0 THEN <<>>
                ELSE IF requests[k].image = NoImage THEN wanted[k - 1]
                ELSE Append(wanted[k - 1], requests[k])]

\* For every length there is a function that satisfies the recursion.
LEMMA NonNullExists ==
    ASSUME NEW requests, NEW n \in Nat
    PROVE  \E wanted : IsNonNull(wanted, requests, n)
<1> DEFINE S == {m \in Nat : \E wanted : IsNonNull(wanted, requests, m)}
           Step(w, k) == IF requests[k].image = NoImage THEN w ELSE Append(w, requests[k])
<1>1. 0 \in S
  <2>1. IsNonNull([k \in 0..0 |-> <<>>], requests, 0)
    BY DEF IsNonNull
  <2> QED BY <2>1
<1>2. ASSUME NEW m \in S PROVE m + 1 \in S
  <2>1. PICK f : IsNonNull(f, requests, m)
    OBVIOUS
  <2> DEFINE g == [k \in 0..(m + 1) |-> IF k = m + 1 THEN Step(f[m], m + 1) ELSE f[k]]
             h == [k \in 0..(m + 1) |-> IF k = 0 THEN <<>> ELSE Step(g[k - 1], k)]
  <2>2. ASSUME NEW k \in 0..(m + 1) PROVE g[k] = h[k]
    <3> HIDE DEF Step
    <3>1. CASE k = m + 1
      <4>1. k # 0 /\ k - 1 = m /\ m \in 0..(m + 1) /\ m # m + 1
        BY <3>1
      <4> QED BY <3>1, <4>1
    <3>2. CASE k # m + 1
      <4>1. k \in 0..m /\ g[k] = f[k]
        BY <3>2
      <4>2. f[k] = IF k = 0 THEN <<>> ELSE Step(f[k - 1], k)
        BY <2>1, <4>1 DEF IsNonNull, Step
      <4>3. k # 0 => k - 1 \in 0..(m + 1) /\ k - 1 # m + 1
        BY <4>1
      <4> QED BY <4>1, <4>2, <4>3
    <3> QED BY <3>1, <3>2
  <2>3. g = h
    <3> HIDE DEF Step
    <3> QED BY <2>2
  <2>4. IsNonNull(g, requests, m + 1)
    BY <2>3 DEF IsNonNull
  <2> QED BY <2>4
<1>3. S = Nat
  <2> HIDE DEF S
  <2>1. S \in SUBSET Nat
    BY DEF S
  <2> QED BY <1>1, <1>2, <2>1, Induction
<1> QED BY <1>3

\* w is the first n of the requests without the null ones.
Extracts(w, requests, n) ==
    /\ w \in Seq(Request)
    /\ \A i \in DOMAIN w : w[i].image # NoImage /\ \E j \in 1..n : w[i] = requests[j]
    /\ \A j \in 1..n :
            requests[j].image # NoImage => \E i \in DOMAIN w : w[i] = requests[j]
    /\ n >= 1 /\ requests[1].image # NoImage => 1 \in DOMAIN w /\ w[1] = requests[1]
    /\ DistinctImages(w)

\* One more request is left out or goes to the end.
LEMMA ExtractsStep ==
    ASSUME NEW requests \in Seq(Request), DistinctImages(requests),
           NEW n \in Nat, n + 1 <= Len(requests), NEW w, Extracts(w, requests, n)
    PROVE  Extracts(IF requests[n + 1].image = NoImage THEN w ELSE Append(w, requests[n + 1]),
                    requests, n + 1)
<1> DEFINE r == requests[n + 1]
           v == Append(w, r)
<1>1. /\ w \in Seq(Request) /\ r \in Request
      /\ DOMAIN requests = 1..Len(requests) /\ Len(requests) \in Nat
      /\ n + 1 \in DOMAIN requests
      /\ n # 0 => 1 \in 1..n
  BY LenProperties, ElementOfSeq DEF Extracts
<1>2. CASE r.image = NoImage
  <2>1. \A j \in 1..(n + 1) : requests[j].image # NoImage => j \in 1..n
    BY <1>2
  <2>2. n + 1 >= 1 /\ requests[1].image # NoImage => n >= 1
    BY <1>2
  <2>3. 1..n \subseteq 1..(n + 1)
    OBVIOUS
  <2>4. Extracts(w, requests, n + 1)
    BY <2>1, <2>2, <2>3 DEF Extracts
  <2> QED BY <1>2, <2>4
<1>3. CASE r.image # NoImage
  <2> HIDE DEF r
  <2>1. /\ v \in Seq(Request) /\ Len(w) \in Nat
        /\ DOMAIN w = 1..Len(w) /\ DOMAIN v = 1..(Len(w) + 1)
        /\ \A k \in 1..Len(w) : v[k] = w[k]
        /\ v[Len(w) + 1] = r
    BY <1>1, AppendProperties, LenProperties
  <2> HIDE DEF v
  <2>2. \A i \in DOMAIN v : v[i].image # NoImage /\ \E j \in 1..(n + 1) : v[i] = requests[j]
    <3>1. SUFFICES ASSUME NEW i \in DOMAIN v
                   PROVE  v[i].image # NoImage /\ \E j \in 1..(n + 1) : v[i] = requests[j]
      OBVIOUS
    <3>2. CASE i = Len(w) + 1
      <4>1. v[i] = requests[n + 1] /\ n + 1 \in 1..(n + 1)
        BY <2>1, <3>2 DEF r
      <4> QED BY <1>3, <4>1 DEF r
    <3>3. CASE i \in 1..Len(w)
      <4>1. v[i] = w[i] /\ i \in DOMAIN w
        BY <2>1, <3>3
      <4>2. PICK j \in 1..n : w[i] = requests[j] /\ w[i].image # NoImage
        BY <4>1 DEF Extracts
      <4>3. j \in 1..(n + 1)
        OBVIOUS
      <4> QED BY <4>1, <4>2, <4>3
    <3> QED BY <2>1, <3>2, <3>3
  <2>3. ASSUME NEW j \in 1..(n + 1), requests[j].image # NoImage
        PROVE  \E i \in DOMAIN v : v[i] = requests[j]
    <3>1. CASE j = n + 1
      <4>1. Len(w) + 1 \in DOMAIN v
        BY <2>1
      <4> QED BY <2>1, <3>1, <4>1 DEF r
    <3>2. CASE j # n + 1
      <4>1. PICK i \in DOMAIN w : w[i] = requests[j]
        BY <2>3, <3>2 DEF Extracts
      <4>2. i \in DOMAIN v /\ v[i] = w[i]
        BY <2>1
      <4> QED BY <4>1, <4>2
    <3> QED BY <3>1, <3>2
  <2>4. requests[1].image # NoImage => 1 \in DOMAIN v /\ v[1] = requests[1]
    <3>1. CASE n = 0
      <4>1. w = <<>>
        <5>1. \A i \in DOMAIN w : FALSE
          BY <3>1 DEF Extracts
        <5> QED BY <1>1, <2>1, <5>1
      <4>2. Len(w) = 0
        BY <4>1
      <4> QED BY <2>1, <3>1, <4>2 DEF r
    <3>2. CASE n # 0
      <4>1. requests[1].image # NoImage => 1 \in DOMAIN w /\ w[1] = requests[1]
        BY <3>2 DEF Extracts
      <4> QED BY <2>1, <4>1
    <3> QED BY <3>1, <3>2
  <2>5. \A i \in DOMAIN w : w[i].image # r.image
    <3>1. SUFFICES ASSUME NEW i \in DOMAIN w, w[i].image = r.image PROVE FALSE
      OBVIOUS
    <3>2. PICK j \in 1..n : w[i] = requests[j]
      BY DEF Extracts
    <3>3. j \in DOMAIN requests /\ requests[j].image = requests[n + 1].image
      BY <1>1, <3>1, <3>2 DEF r
    <3>4. j = n + 1
      BY <1>1, <3>3 DEF DistinctImages
    <3> QED BY <3>4
  <2>6. DistinctImages(v)
    <3>1. \A i, j \in DOMAIN w : w[i].image = w[j].image => i = j
      BY DEF Extracts, DistinctImages
    <3> QED BY <2>1, <2>5, <3>1 DEF DistinctImages
  <2>7. Extracts(v, requests, n + 1)
    BY <2>1, <2>2, <2>3, <2>4, <2>6 DEF Extracts
  <2> QED BY <1>3, <2>7 DEF v, r
<1> QED BY <1>2, <1>3

\* NonNull answers with all the requests for an image, in their order.
LEMMA NonNullExtracts ==
    ASSUME NEW requests \in Seq(Request), DistinctImages(requests)
    PROVE  Extracts(NonNull(requests), requests, Len(requests))
<1> DEFINE n == Len(requests)
<1>1. n \in Nat
  BY LenProperties
<1>2. PICK f : f = (CHOOSE wanted : IsNonNull(wanted, requests, n)) /\ IsNonNull(f, requests, n)
  BY <1>1, NonNullExists
<1>3. NonNull(requests) = f[n]
  BY <1>2 DEF NonNull, IsNonNull
<1>8. IsNonNull(f, requests, n)
  BY <1>2
<1> HIDE DEF n
<1> DEFINE S == {k \in Nat : k <= n => Extracts(f[k], requests, k)}
<1>4. 0 \in S
  <2>1. f[0] = <<>>
    BY <1>1, <1>8 DEF IsNonNull
  <2>2. Extracts(<<>>, requests, 0)
    BY EmptySeq DEF Extracts, DistinctImages
  <2> QED BY <2>1, <2>2
<1>5. ASSUME NEW k \in S PROVE k + 1 \in S
  <2>1. SUFFICES ASSUME k + 1 <= n PROVE Extracts(f[k + 1], requests, k + 1)
    OBVIOUS
  <2>2. k + 1 \in 0..n /\ k + 1 # 0 /\ k + 1 - 1 = k /\ k <= n
    BY <1>1, <2>1
  <2>3. f[k + 1] = IF requests[k + 1].image = NoImage THEN f[k]
                   ELSE Append(f[k], requests[k + 1])
    <3> DEFINE Step(w, j) == IF requests[j].image = NoImage THEN w ELSE Append(w, requests[j])
    <3>1. f = [j \in 0..n |-> IF j = 0 THEN <<>> ELSE Step(f[j - 1], j)]
      BY <1>8 DEF IsNonNull
    <3> HIDE DEF Step
    <3>2. f[k + 1] = Step(f[k], k + 1)
      BY <2>2, <3>1
    <3> QED BY <3>2 DEF Step
  <2>4. Extracts(f[k], requests, k)
    BY <2>2
  <2>5. ASSUME NEW w, Extracts(w, requests, k)
        PROVE  Extracts(IF requests[k + 1].image = NoImage THEN w
                        ELSE Append(w, requests[k + 1]), requests, k + 1)
    BY <2>1, <2>5, ExtractsStep DEF n
  <2> QED BY <2>3, <2>4, <2>5
<1>6. S = Nat
  <2> HIDE DEF S
  <2>1. S \in SUBSET Nat
    BY DEF S
  <2> QED BY <1>4, <1>5, <2>1, Induction
<1>7. Extracts(f[n], requests, n)
  <2>1. n \in S
    BY <1>1, <1>6
  <2> QED BY <1>1, <2>1
<1> QED BY <1>3, <1>7 DEF n

-----------------------------------------------------------------------------
(* Loaders.                                                                *)

\* The estimate of a loader, and the state the others compare.
LEMMA LoaderNumbers ==
    ASSUME NEW l \in Loader
    PROVE  /\ MemoryRequirements(l) \in Nat
           /\ GetState(l) \in 0..3
           /\ HoldsData(l) \in BOOLEAN /\ IsLoad(l) \in BOOLEAN
           /\ l.state = "Error" => MemoryRequirements(l) = 0
           /\ l.state = "Unprocessed" => ~HoldsData(l) /\ IsLoad(l)
<1>1. l.filename \in Names /\ l.state \in InternalLoadState
  BY DEF Loader
<1>2. Cost[l.filename] \in Nat
  BY <1>1, LoaderAssumption
<1>3. GetState(l) \in 0..3 /\ (l.state = "Unprocessed" => GetState(l) = 0)
  BY DEF GetState, LoadStateHeader, LoadStateLoading, LoadStateDone
<1> QED BY <1>2, <1>3
        DEF MemoryRequirements, HoldsData, IsLoad, LoadStateLoading, LoadStateDone

\* What the main thread and ReturnPackage do to a loader touches its abort flag only.
LEMMA AbortKeeps ==
    ASSUME NEW l \in Loader, NEW m \in {Abort(l), ResetAbort(l)}
    PROVE  /\ m \in Loader
           /\ m.image = l.image /\ m.filename = l.filename /\ m.state = l.state
<1>1. m \in {l, [l EXCEPT !.abort = TRUE], [l EXCEPT !.abort = FALSE]}
  BY DEF Abort, ResetAbort
<1> QED BY <1>1 DEF Loader

\* One call of Load: the loader stays the one of its image and file. It comes to
\* hold data only out of the header state, or by failing (and then needs none).
LEMMA LoadKeeps ==
    ASSUME NEW l \in Loader, NEW result \in Load(l)
    PROVE  /\ result.loader \in Loader
           /\ result.loader.image = l.image /\ result.loader.filename = l.filename
           /\ result.finish \in BOOLEAN
           /\ \/ result.loader.state \in {"Error", "LoadedHeader", "DoneFast"}
              \/ HoldsData(l)
              \/ GetState(l) = LoadStateHeader
<1> DEFINE Good(r) == /\ r.loader \in Loader
                      /\ r.loader.image = l.image /\ r.loader.filename = l.filename
                      /\ r.finish \in BOOLEAN
<1>1. ASSUME NEW state \in InternalLoadState, NEW event, NEW finish \in BOOLEAN
      PROVE  Good(Result([l EXCEPT !.state = state], event, finish))
  BY DEF Result, Loader
<1>2. ASSUME NEW event
      PROVE  Good(Failed(l, event)) /\ Failed(l, event).loader.state = "Error"
  BY DEF Failed, Result, FailState, Purge, Loader, InternalLoadState
<1>3. ASSUME NEW event, NEW finish \in BOOLEAN PROVE Good(Result(l, event, finish))
  BY DEF Result
<1> DEFINE Reached(r) == \/ r.loader.state \in {"Error", "LoadedHeader", "DoneFast"}
                         \/ HoldsData(l)
                         \/ GetState(l) = LoadStateHeader
<1> SUFFICES Good(result) /\ Reached(result)
  OBVIOUS
<1> HIDE DEF Good
<1>4. CASE l.state = "Unprocessed"
  <2>0. GetState(l) = 0
    BY <1>4 DEF GetState
  <2>5. Load(l) = LoadHeader(l)
    BY <1>4, <2>0 DEF Load, LoadStateHeader, LoadStateLoading
  <2>1. result \in LoadHeader(l)
    BY <2>5
  <2>2. \/ result = Result([l EXCEPT !.state = "LoadedHeader"], "HeaderLoaded", FALSE)
        \/ result = Failed(l, "HeaderLoaded")
    BY <2>1 DEF LoadHeader
  <2>3. CASE result = Failed(l, "HeaderLoaded")
    BY <1>2, <2>3
  <2>4. CASE result = Result([l EXCEPT !.state = "LoadedHeader"], "HeaderLoaded", FALSE)
    <3>1. Good(result)
      BY <1>1, <2>4 DEF InternalLoadState
    <3>2. result.loader.state = "LoadedHeader"
      BY <2>4 DEF Result, Loader
    <3> QED BY <3>1, <3>2
  <2> QED BY <2>2, <2>3, <2>4
<1>5. CASE GetState(l) = LoadStateHeader
  <2>0. l.state # "Unprocessed"
    BY <1>5 DEF GetState, LoadStateHeader
  <2>5. Load(l) = Allocate(l)
    BY <1>5, <2>0 DEF Load, LoadStateHeader, LoadStateLoading
  <2>1. result \in Allocate(l)
    BY <2>5
  <2>2. \/ result \in FullAllocate(l)
        \/ \E outcome \in Codec[l.filename].fast : result \in FastAllocate(l, outcome)
    BY <2>1 DEF Allocate
  <2>3. \/ \E event : result = Failed(l, event)
        \/ \E state \in InternalLoadState : \E event :
              result = Result([l EXCEPT !.state = state], event, FALSE)
    <3>1. ASSUME result \in FullAllocate(l)
          PROVE  \/ result = Failed(l, "Allocated")
                 \/ result = Result([l EXCEPT !.state = "LoadingFull"], "Allocated", FALSE)
      BY <3>1 DEF FullAllocate
    <3>2. ASSUME NEW outcome, result \in FastAllocate(l, outcome)
          PROVE  \/ result \in FullAllocate(l)
                 \/ result = Failed(l, "Allocated")
                 \/ result = Result([l EXCEPT !.state = "LoadingFast"], "Allocated", FALSE)
                 \/ result = Result([l EXCEPT !.state = "DoneFast"], "Allocated", FALSE)
      BY <3>2 DEF FastAllocate
    <3>3. {"LoadingFull", "LoadingFast", "DoneFast"} \subseteq InternalLoadState
      BY DEF InternalLoadState
    <3>4. ASSUME NEW state \in InternalLoadState,
                 result = Result([l EXCEPT !.state = state], "Allocated", FALSE)
          PROVE  \E s \in InternalLoadState : \E event :
                    result = Result([l EXCEPT !.state = s], event, FALSE)
      BY <3>4
    <3>5. CASE result \in FullAllocate(l)
      BY <3>1, <3>5, <3>3, <3>4
    <3>6. CASE ~(result \in FullAllocate(l))
      <4>1. PICK outcome : result \in FastAllocate(l, outcome)
        BY <2>2, <3>6
      <4>2. \/ result = Failed(l, "Allocated")
            \/ result = Result([l EXCEPT !.state = "LoadingFast"], "Allocated", FALSE)
            \/ result = Result([l EXCEPT !.state = "DoneFast"], "Allocated", FALSE)
        BY <4>1, <3>2, <3>6
      <4> QED BY <4>2, <3>3, <3>4
    <3> QED BY <3>5, <3>6
  <2> QED BY <1>1, <1>2, <1>5, <2>3
<1>6. CASE GetState(l) = LoadStateLoading
  <2>0. l.state # "Unprocessed"
    BY <1>6 DEF GetState, LoadStateLoading
  <2>1. result \in LoadImageData(l)
    BY <1>6, <2>0 DEF Load, LoadStateHeader, LoadStateLoading
  <2>2. \/ \E event : result = Result([l EXCEPT !.state = DataDone(l)], event, TRUE)
        \/ result = Result(l, "None", FALSE)
    BY <2>1 DEF LoadImageData
  <2>3. DataDone(l) \in InternalLoadState
    BY DEF DataDone, InternalLoadState
  <2>4. HoldsData(l)
    BY <1>6 DEF HoldsData, LoadStateLoading
  <2> QED BY <1>1, <1>3, <2>2, <2>3, <2>4
<1>7. CASE GetState(l) = LoadStateDone
  <2>0. l.state # "Unprocessed"
    BY <1>7 DEF GetState, LoadStateDone
  <2>1. result = Result(l, "None", FALSE)
    BY <1>7, <2>0 DEF Load, LoadStateHeader, LoadStateLoading, LoadStateDone
  <2>2. HoldsData(l)
    BY <1>7 DEF HoldsData, LoadStateLoading, LoadStateDone
  <2> QED BY <1>3, <2>1, <2>2
<1>8. \/ l.state = "Unprocessed" \/ GetState(l) = LoadStateHeader
      \/ GetState(l) = LoadStateLoading \/ GetState(l) = LoadStateDone
  BY DEF GetState
<1> QED BY <1>4, <1>5, <1>6, <1>7, <1>8

-----------------------------------------------------------------------------
(* Which package is fetched.                                               *)

\* FirstOf is in the set it is the first of.
LEMMA FirstOfMember ==
    ASSUME NEW S \in SUBSET Nat, S # {}
    PROVE  FirstOf(S) \in S
BY LeastNatural DEF FirstOf

\* FetchPackage answers with a package that is suitable, or none.
LEMMA FetchesSuitable ==
    ASSUME NEW offered \in Seq(Loader), NEW limit
    PROVE  \/ FetchPackage(offered, limit) = NoImage
           \/ \E k \in DOMAIN offered, fastPass \in BOOLEAN :
                /\ FetchPackage(offered, limit) = offered[k].image
                /\ SuitableWorkPackage(offered[k], UsedBefore(offered, k), limit, fastPass)
<1> DEFINE fast == Suitable(offered, limit, TRUE)
           any  == Suitable(offered, limit, FALSE)
<1>1. FetchPackage(offered, limit) = CASE fast # {} -> offered[FirstOf(fast)].image
                                        [] fast = {} /\ any # {} -> offered[FirstOf(any)].image
                                        [] OTHER -> NoImage
  BY DEF FetchPackage
<1>2. ASSUME NEW fastPass \in BOOLEAN, NEW k \in Suitable(offered, limit, fastPass)
      PROVE  /\ k \in DOMAIN offered
             /\ SuitableWorkPackage(offered[k], UsedBefore(offered, k), limit, fastPass)
  BY DEF Suitable
<1>3. fast \in SUBSET Nat /\ any \in SUBSET Nat
  <2>1. DOMAIN offered \in SUBSET Nat
    BY LenProperties
  <2>2. fast \in SUBSET DOMAIN offered /\ any \in SUBSET DOMAIN offered
    BY DEF Suitable
  <2> QED BY <2>1, <2>2
<1> HIDE DEF fast, any
<1>4. CASE fast # {}
  <2>1. FirstOf(fast) \in fast
    BY <1>3, <1>4, FirstOfMember
  <2>2. FetchPackage(offered, limit) = offered[FirstOf(fast)].image
    BY <1>1, <1>4
  <2> QED BY <1>2, <2>1, <2>2 DEF fast
<1>5. CASE fast = {} /\ any # {}
  <2>1. FirstOf(any) \in any
    BY <1>3, <1>5, FirstOfMember
  <2>2. FetchPackage(offered, limit) = offered[FirstOf(any)].image
    BY <1>1, <1>5
  <2> QED BY <1>2, <2>1, <2>2 DEF any
<1>6. CASE fast = {} /\ any = {}
  BY <1>1, <1>6
<1> QED BY <1>4, <1>5, <1>6

-----------------------------------------------------------------------------
(* Rebuilding the list.                                                    *)

\* What Rebuild takes: loaders and requests of distinct images.
Rebuildable(offered, requests) ==
    /\ offered \in Seq(Loader) /\ DistinctImages(offered)
    /\ requests \in Seq(Request) /\ DistinctImages(requests)
    /\ \A k \in DOMAIN requests :
            requests[k].image # NoImage => requests[k].filename \in Names

\* The package at l serves a request: it is the one that worked on the image
\* before, up to its eviction, or a new one for the file of the request.
Serves(l, r, offered) ==
    /\ l \in Loader
    /\ l.image = r.image
    /\ \/ \E j \in DOMAIN offered :
            /\ offered[j].image = l.image /\ offered[j].filename = l.filename
            /\ l.state \in {offered[j].state, "Unprocessed"}
       \/ /\ l.filename = r.filename /\ l.state = "Unprocessed"
          /\ r.image \notin ImagesOf(offered)

\* It serves the request as it is, not evicted.
ServesWhole(l, r, offered) ==
    /\ Serves(l, r, offered)
    /\ \A j \in DOMAIN offered : offered[j].image = l.image => l.state = offered[j].state

\* The package for a request is the old one or a new one.
LEMMA PackageServes ==
    ASSUME NEW offered \in Seq(Loader), DistinctImages(offered),
           NEW r \in Request, r.image # NoImage, r.filename \in Names
    PROVE  ServesWhole(PackageFor(offered, r), r, offered)
<1>1. CASE r.image \in ImagesOf(offered)
  <2>1. PICK k \in DOMAIN offered : offered[k].image = r.image
                                     /\ PackageFor(offered, r) = offered[k]
    BY <1>1 DEF PackageFor, ImagesOf
  <2>2. offered[k] \in Loader
    BY <2>1, LenProperties, ElementOfSeq
  <2>3. \A j \in DOMAIN offered : offered[j].image = offered[k].image => j = k
    BY <2>1 DEF DistinctImages
  <2> QED BY <2>1, <2>2, <2>3 DEF ServesWhole, Serves
<1>2. CASE r.image \notin ImagesOf(offered)
  <2> DEFINE l == NewLoader(r.image, r.filename)
  <2>1. PackageFor(offered, r) = l
    BY <1>2 DEF PackageFor
  <2>2. l \in Loader /\ l.image = r.image /\ l.filename = r.filename /\ l.state = "Unprocessed"
    BY DEF NewLoader, Loader, Request, InternalLoadState
  <2>3. \A j \in DOMAIN offered : offered[j].image # r.image
    BY <1>2 DEF ImagesOf
  <2> HIDE DEF l
  <2> QED BY <1>2, <2>1, <2>2, <2>3 DEF ServesWhole, Serves
<1> QED BY <1>1, <1>2

\* The list before anything is evicted: one package per request for an image.
LEMMA AdoptServes ==
    ASSUME NEW offered, NEW requests, Rebuildable(offered, requests)
    PROVE  LET wanted  == NonNull(requests)
               adopted == AllowFastSkip(Adopt(offered, requests))
           IN  /\ Extracts(wanted, requests, Len(requests))
               /\ adopted \in Seq(Loader) /\ DOMAIN adopted = DOMAIN wanted
               /\ \A k \in DOMAIN adopted : ServesWhole(adopted[k], wanted[k], offered)
<1> DEFINE wanted  == NonNull(requests)
           fresh   == Adopt(offered, requests)
           adopted == AllowFastSkip(fresh)
           n == Len(wanted)
<1>1. Extracts(wanted, requests, Len(requests))
  BY NonNullExtracts DEF Rebuildable
<1>2. wanted \in Seq(Request) /\ DOMAIN wanted = 1..n /\ n \in Nat
  <2>1. wanted \in Seq(Request)
    BY <1>1 DEF Extracts
  <2> HIDE DEF wanted
  <2> QED BY <2>1, LenProperties
<1>3. fresh = [k \in 1..n |-> PackageFor(offered, wanted[k])]
  BY <1>2 DEF Adopt
<1> HIDE DEF fresh, wanted, n
<1>4. ASSUME NEW k \in 1..n
      PROVE  /\ wanted[k] \in Request /\ wanted[k].image # NoImage
             /\ wanted[k].filename \in Names
  <2>1. PICK j \in 1..Len(requests) : wanted[k] = requests[j]
    BY <1>1, <1>2 DEF Extracts
  <2>2. j \in DOMAIN requests /\ requests[j] \in Request
    BY LenProperties, ElementOfSeq DEF Rebuildable
  <2>3. wanted[k].image # NoImage
    BY <1>1, <1>2 DEF Extracts
  <2> QED BY <2>1, <2>2, <2>3 DEF Rebuildable
<1>5. adopted = [k \in 1..n |-> [fresh[k] EXCEPT !.maySkipFast = (k = 1)]]
  BY <1>3 DEF AllowFastSkip
<1>6. ASSUME NEW k \in 1..n PROVE ServesWhole(adopted[k], wanted[k], offered)
  <2>1. ServesWhole(PackageFor(offered, wanted[k]), wanted[k], offered)
    BY <1>4, PackageServes DEF Rebuildable
  <2>2. ServesWhole(fresh[k], wanted[k], offered)
    BY <1>3, <2>1
  <2>3. ASSUME NEW l \in Loader, NEW skip \in BOOLEAN
        PROVE  LET m == [l EXCEPT !.maySkipFast = skip] IN
               /\ m \in Loader /\ m.image = l.image /\ m.filename = l.filename
               /\ m.state = l.state
    BY DEF Loader
  <2>4. /\ adopted[k] \in Loader /\ adopted[k].image = fresh[k].image
        /\ adopted[k].filename = fresh[k].filename /\ adopted[k].state = fresh[k].state
    BY <1>5, <2>2, <2>3, ZenonT(60) DEF ServesWhole, Serves
  <2> HIDE DEF adopted
  <2> QED BY <2>2, <2>4 DEF ServesWhole, Serves
<1>7. adopted \in Seq(Loader)
  <2>1. \A k \in 1..n : adopted[k] \in Loader
    BY <1>6 DEF ServesWhole, Serves
  <2>2. adopted \in [1..n -> Loader]
    BY <1>5, <2>1
  <2> QED BY <1>2, <2>2
<1>8. DOMAIN adopted = DOMAIN wanted
  BY <1>2, <1>5
<1> QED BY <1>1, <1>2, <1>6, <1>7, <1>8 DEF wanted, fresh

\* Purging keeps image and file.
LEMMA PurgeServes ==
    ASSUME NEW l \in Loader, NEW r, NEW offered, Serves(l, r, offered)
    PROVE  Serves(Purge(l), r, offered) /\ Purge(l).state = "Unprocessed"
<1> DEFINE m == Purge(l)
<1>1. /\ m \in Loader /\ m.image = l.image /\ m.filename = l.filename
      /\ m.state = "Unprocessed"
  BY DEF Purge, Loader, InternalLoadState
<1> SUFFICES Serves(m, r, offered)
  BY <1>1
<1> HIDE DEF m
<1>2. CASE \E j \in DOMAIN offered :
                /\ offered[j].image = l.image /\ offered[j].filename = l.filename
                /\ l.state \in {offered[j].state, "Unprocessed"}
  <2>1. PICK j \in DOMAIN offered : offered[j].image = l.image
                                     /\ offered[j].filename = l.filename
    BY <1>2
  <2>2. offered[j].image = m.image /\ offered[j].filename = m.filename
    BY <1>1, <2>1
  <2> QED BY <1>1, <2>2 DEF Serves
<1>3. CASE l.filename = r.filename /\ l.state = "Unprocessed" /\ r.image \notin ImagesOf(offered)
  BY <1>1, <1>3 DEF Serves
<1> QED BY <1>2, <1>3 DEF Serves

\* The images of the offered after a rebuild are the ones requested, each once;
\* each package goes on with the file it had, or starts with the one requested;
\* and the first is not evicted.
LEMMA RebuildServes ==
    ASSUME NEW offered, NEW requests, NEW limit, Rebuildable(offered, requests)
    PROVE  LET rebuilt == Rebuild(offered, requests, limit)
           IN  /\ rebuilt \in Seq(Loader) /\ DistinctImages(rebuilt)
               /\ ImagesOf(rebuilt) = ImagesOf(requests) \ {NoImage}
               /\ \A k \in DOMAIN rebuilt : \E j \in DOMAIN requests :
                    Serves(rebuilt[k], requests[j], offered)
               /\ requests # <<>> /\ requests[1].image # NoImage =>
                    /\ 1 \in DOMAIN rebuilt
                    /\ ServesWhole(rebuilt[1], requests[1], offered)
<1> DEFINE wanted  == NonNull(requests)
           adopted == AllowFastSkip(Adopt(offered, requests))
           rebuilt == Rebuild(offered, requests, limit)
           out(k)  == Evicted(adopted, k, KeptMemory(adopted, limit)[k - 1], limit)
           n == Len(adopted)
<1>1. /\ Extracts(wanted, requests, Len(requests))
      /\ adopted \in Seq(Loader) /\ DOMAIN adopted = DOMAIN wanted
      /\ \A k \in DOMAIN adopted : ServesWhole(adopted[k], wanted[k], offered)
  BY AdoptServes
<1>2. rebuilt = [k \in DOMAIN adopted |-> IF out(k) THEN Purge(adopted[k]) ELSE adopted[k]]
  BY DEF Rebuild
<1>3. \A k : out(k) => k > 1
  BY DEF Evicted
<1> HIDE DEF wanted, adopted, rebuilt, out
<1>4. DOMAIN adopted = 1..n /\ n \in Nat
  BY <1>1, LenProperties
<1>5. ASSUME NEW k \in DOMAIN adopted
      PROVE  Serves(rebuilt[k], wanted[k], offered)
  <2>1. ServesWhole(adopted[k], wanted[k], offered) /\ adopted[k] \in Loader
    BY <1>1 DEF ServesWhole, Serves
  <2>2. Serves(Purge(adopted[k]), wanted[k], offered)
    BY <2>1, PurgeServes DEF ServesWhole
  <2> QED BY <1>2, <2>1, <2>2 DEF ServesWhole
<1>6. rebuilt \in Seq(Loader)
  <2>1. \A k \in 1..n : rebuilt[k] \in Loader
    BY <1>4, <1>5 DEF Serves
  <2>2. DOMAIN rebuilt = 1..n
    BY <1>2, <1>4
  <2>3. rebuilt \in [1..n -> Loader]
    BY <1>2, <1>4, <2>1
  <2> QED BY <1>4, <2>3
<1>7. \A k \in DOMAIN rebuilt : k \in DOMAIN wanted /\ rebuilt[k].image = wanted[k].image
  BY <1>1, <1>2, <1>5 DEF Serves
<1>8. DOMAIN rebuilt = DOMAIN wanted
  BY <1>1, <1>2
<1>9. DistinctImages(rebuilt)
  <2>1. DistinctImages(wanted)
    BY <1>1 DEF Extracts
  <2> QED BY <1>7, <2>1 DEF DistinctImages
<1>10. DOMAIN requests = 1..Len(requests) /\ Len(requests) \in Nat
  BY LenProperties DEF Rebuildable
<1>11. ImagesOf(rebuilt) = ImagesOf(requests) \ {NoImage}
  <2>1. ImagesOf(rebuilt) = ImagesOf(wanted)
    BY <1>7, <1>8 DEF ImagesOf
  <2>2. \A k \in DOMAIN wanted : wanted[k].image \in ImagesOf(requests) \ {NoImage}
    BY <1>1, <1>10 DEF ImagesOf, Extracts
  <2>3. \A j \in DOMAIN requests : requests[j].image # NoImage =>
            requests[j].image \in ImagesOf(wanted)
    BY <1>1, <1>10 DEF ImagesOf, Extracts
  <2>4. ImagesOf(wanted) \subseteq ImagesOf(requests) \ {NoImage}
    BY <2>2 DEF ImagesOf
  <2>5. ImagesOf(requests) \ {NoImage} \subseteq ImagesOf(wanted)
    BY <2>3 DEF ImagesOf
  <2> QED BY <2>1, <2>4, <2>5
<1>12. \A k \in DOMAIN rebuilt : \E j \in DOMAIN requests :
            Serves(rebuilt[k], requests[j], offered)
  BY <1>1, <1>5, <1>8, <1>10 DEF Extracts
<1>13. requests # <<>> /\ requests[1].image # NoImage =>
            1 \in DOMAIN rebuilt /\ ServesWhole(rebuilt[1], requests[1], offered)
  <2>1. SUFFICES ASSUME requests # <<>>, requests[1].image # NoImage
                 PROVE  1 \in DOMAIN rebuilt /\ ServesWhole(rebuilt[1], requests[1], offered)
    OBVIOUS
  <2>2. Len(requests) >= 1
    <3>1. Len(requests) # 0
      BY <2>1, EmptySeq DEF Rebuildable
    <3> QED BY <1>10, <3>1
  <2>3. 1 \in DOMAIN wanted /\ wanted[1] = requests[1]
    BY <1>1, <2>1, <2>2 DEF Extracts
  <2>4. ~out(1)
    BY <1>3
  <2>5. rebuilt[1] = adopted[1]
    BY <1>1, <1>2, <2>3, <2>4
  <2> QED BY <1>1, <1>8, <2>3, <2>5
<1> QED BY <1>6, <1>9, <1>11, <1>12, <1>13 DEF rebuilt

-----------------------------------------------------------------------------
(* Memory.                                                                 *)

\* The function KeptMemory returns.
IsKeptMemory(kept, offered, limit, n) ==
    kept = [k \in 0..n |->
              IF k = 0 THEN 0
              ELSE kept[k - 1] + (IF Evicted(offered, k, kept[k - 1], limit) THEN 0
                                  ELSE HeldBy(offered[k]))]

\* For every length there is a function that satisfies the recursion.
LEMMA KeptMemoryExists ==
    ASSUME NEW offered, NEW limit, NEW n \in Nat
    PROVE  \E kept : IsKeptMemory(kept, offered, limit, n)
<1> DEFINE S == {m \in Nat : \E kept : IsKeptMemory(kept, offered, limit, m)}
           Step(used, k) == used + (IF Evicted(offered, k, used, limit) THEN 0
                                    ELSE HeldBy(offered[k]))
<1>1. 0 \in S
  <2>1. IsKeptMemory([k \in 0..0 |-> 0], offered, limit, 0)
    BY DEF IsKeptMemory
  <2> QED BY <2>1
<1>2. ASSUME NEW m \in S PROVE m + 1 \in S
  <2>1. PICK f : IsKeptMemory(f, offered, limit, m)
    OBVIOUS
  <2> DEFINE g == [k \in 0..(m + 1) |-> IF k = m + 1 THEN Step(f[m], m + 1) ELSE f[k]]
             h == [k \in 0..(m + 1) |-> IF k = 0 THEN 0 ELSE Step(g[k - 1], k)]
  <2>2. ASSUME NEW k \in 0..(m + 1) PROVE g[k] = h[k]
    <3>0. f = [j \in 0..m |-> IF j = 0 THEN 0 ELSE Step(f[j - 1], j)]
      BY <2>1 DEF IsKeptMemory
    <3> HIDE DEF Step
    <3>1. CASE k = m + 1
      <4>1. k # 0 /\ k - 1 = m /\ m \in 0..(m + 1) /\ m # m + 1
        BY <3>1
      <4> QED BY <3>1, <4>1
    <3>2. CASE k # m + 1
      <4>1. k \in 0..m /\ g[k] = f[k]
        BY <3>2
      <4>2. f[k] = IF k = 0 THEN 0 ELSE Step(f[k - 1], k)
        BY <3>0, <4>1
      <4>3. k # 0 => k - 1 \in 0..(m + 1) /\ k - 1 # m + 1
        BY <4>1
      <4> QED BY <4>1, <4>2, <4>3
    <3> QED BY <3>1, <3>2
  <2>3. g = h
    <3> HIDE DEF Step
    <3> QED BY <2>2
  <2>4. IsKeptMemory(g, offered, limit, m + 1)
    BY <2>3 DEF IsKeptMemory
  <2> QED BY <2>4
<1>3. S = Nat
  <2> HIDE DEF S
  <2>1. S \in SUBSET Nat
    BY DEF S
  <2> QED BY <1>1, <1>2, <2>1, Induction
<1> QED BY <1>3

\* KeptMemory satisfies the recursion it is defined by.
LEMMA KeptMemoryStep ==
    ASSUME NEW offered, Len(offered) \in Nat, NEW limit
    PROVE  LET kept == KeptMemory(offered, limit)
           IN  /\ kept[0] = 0
               /\ \A k \in 1..Len(offered) :
                    kept[k] = kept[k - 1] + (IF Evicted(offered, k, kept[k - 1], limit) THEN 0
                                             ELSE HeldBy(offered[k]))
<1> DEFINE n == Len(offered)
           Step(used, k) == used + (IF Evicted(offered, k, used, limit) THEN 0
                                    ELSE HeldBy(offered[k]))
<1>1. PICK f : f = (CHOOSE kept : IsKeptMemory(kept, offered, limit, n))
               /\ IsKeptMemory(f, offered, limit, n)
  BY KeptMemoryExists
<1>2. KeptMemory(offered, limit) = f
  BY <1>1 DEF KeptMemory, IsKeptMemory
<1>3. IsKeptMemory(f, offered, limit, n)
  BY <1>1
<1>4. f = [k \in 0..n |-> IF k = 0 THEN 0 ELSE Step(f[k - 1], k)]
  BY <1>3 DEF IsKeptMemory
<1> HIDE DEF Step
<1>5. f[0] = 0 /\ \A k \in 1..n : f[k] = Step(f[k - 1], k)
  <2>1. 0 \in 0..n /\ \A k \in 1..n : k \in 0..n /\ k # 0
    OBVIOUS
  <2> QED BY <1>4, <2>1
<1> QED BY <1>2, <1>5 DEF Step

\* What the offered at the positions in kept hold; 0 for the others.
Counted(offered, kept) ==
    [k \in DOMAIN offered |-> IF k \in kept THEN HeldBy(offered[k]) ELSE 0]

\* Loading the package at k is within the rules of SuitableWorkPackage.
Fits(offered, k, limit) ==
    \/ UsedBefore(offered, k) = 0
    \/ UsedBefore(offered, k) + MemoryRequirements(offered[k]) < limit

\* Some of the offered were kept by the last eviction pass: only the first one,
\* or as many as the limit has room for. The others with data were loaded since
\* then, and fit.
WithinBudget(offered, limit) ==
    \E kept \in SUBSET DOMAIN offered :
        /\ kept \subseteq {1} \/ Total(Counted(offered, kept), Len(offered)) <= limit
        /\ \A k \in DOMAIN offered \ kept :
              HoldsData(offered[k]) /\ offered[k].state # "Error" => Fits(offered, k, limit)

\* The eviction pass leaves the offered within the budget.
LEMMA RebuildWithinBudget ==
    ASSUME NEW offered, NEW requests, NEW limit \in Nat, Rebuildable(offered, requests)
    PROVE  WithinBudget(Rebuild(offered, requests, limit), limit)
<1> DEFINE adopted == AllowFastSkip(Adopt(offered, requests))
           rebuilt == Rebuild(offered, requests, limit)
           kept == KeptMemory(adopted, limit)
           out(k)  == Evicted(adopted, k, kept[k - 1], limit)
           n == Len(adopted)
           held == Counted(rebuilt, 1..n)
<1>1. adopted \in Seq(Loader)
  BY AdoptServes
<1>2. rebuilt = [k \in DOMAIN adopted |-> IF out(k) THEN Purge(adopted[k]) ELSE adopted[k]]
  BY DEF Rebuild
<1> HIDE DEF adopted, rebuilt
<1>3. DOMAIN adopted = 1..n /\ n \in Nat /\ \A k \in 1..n : adopted[k] \in Loader
  BY <1>1, LenProperties, ElementOfSeq
<1>4. /\ kept[0] = 0
      /\ \A k \in 1..n : kept[k] = kept[k - 1] + (IF out(k) THEN 0 ELSE HeldBy(adopted[k]))
  BY <1>3, KeptMemoryStep
<1>5. ASSUME NEW used \in Nat, NEW k \in 1..n, k > 1, HoldsData(adopted[k]),
             ~Evicted(adopted, k, used, limit)
      PROVE  used + HeldBy(adopted[k]) <= limit
  BY <1>3, <1>5, LoaderNumbers DEF Evicted, HeldBy
<1>6. ASSUME NEW used \in Nat, NEW k \in 1..n, k > 1, HoldsData(adopted[k]), used > limit
      PROVE  Evicted(adopted, k, used, limit)
  BY <1>3, <1>6, LoaderNumbers DEF Evicted
<1>7. rebuilt \in Seq(Loader)
  BY RebuildServes DEF rebuilt
<1>8. DOMAIN rebuilt = 1..n /\ Len(rebuilt) = n
  BY <1>2, <1>3, <1>7, LenProperties
<1> HIDE DEF kept, n
<1>9. ASSUME NEW k \in 1..n
      PROVE  /\ out(k) => ~HoldsData(rebuilt[k]) /\ HeldBy(rebuilt[k]) = 0
             /\ ~out(k) => rebuilt[k] = adopted[k]
             /\ ~HoldsData(adopted[k]) => ~HoldsData(rebuilt[k])
             /\ HeldBy(rebuilt[k]) \in Nat
             /\ HeldBy(adopted[k]) \in Nat
             /\ HeldBy(rebuilt[k]) = IF out(k) THEN 0 ELSE HeldBy(adopted[k])
  <2>1. Purge(adopted[k]) \in Loader /\ Purge(adopted[k]).state = "Unprocessed"
    BY <1>3 DEF Purge, Loader, InternalLoadState
  <2>2. ~HoldsData(Purge(adopted[k])) /\ HeldBy(Purge(adopted[k])) = 0
    BY <2>1, LoaderNumbers DEF HeldBy
  <2>3. rebuilt[k] = IF out(k) THEN Purge(adopted[k]) ELSE adopted[k]
    BY <1>2, <1>3
  <2>4. HeldBy(adopted[k]) \in Nat
    BY <1>3, LoaderNumbers DEF HeldBy
  <2> HIDE DEF out
  <2> QED BY <2>2, <2>3, <2>4
<1>10. \A k \in 1..n : held[k] = HeldBy(rebuilt[k]) /\ held[k] \in Nat
  BY <1>8, <1>9 DEF Counted
<1> HIDE DEF out, held
<1> DEFINE S == {k \in Nat : k <= n =>
                    /\ kept[k] = Total(held, k) /\ kept[k] \in Nat
                    /\ kept[k] <= limit \/ \A j \in 2..k : ~HoldsData(rebuilt[j])}
<1>11. 0 \in S
  <2>1. kept[0] = Total(held, 0) /\ kept[0] \in Nat
    BY <1>4, TotalStep
  <2> QED BY <2>1
<1>12. ASSUME NEW k \in S PROVE k + 1 \in S
  <2>1. SUFFICES ASSUME k + 1 <= n
                 PROVE  /\ kept[k + 1] = Total(held, k + 1) /\ kept[k + 1] \in Nat
                        /\ \/ kept[k + 1] <= limit
                           \/ \A j \in 2..(k + 1) : ~HoldsData(rebuilt[j])
    OBVIOUS
  <2>2. k + 1 \in 1..n /\ k + 1 - 1 = k /\ k <= n
    BY <1>3, <2>1
  <2>3. /\ kept[k] = Total(held, k) /\ kept[k] \in Nat
        /\ kept[k] <= limit \/ \A j \in 2..k : ~HoldsData(rebuilt[j])
    BY <2>2
  <2>4. kept[k + 1] = kept[k] + held[k + 1] /\ held[k + 1] \in Nat
    <3>1. kept[k + 1] = kept[k] + (IF out(k + 1) THEN 0 ELSE HeldBy(adopted[k + 1]))
      BY <1>4, <2>2
    <3> QED BY <1>9, <1>10, <2>2, <3>1
  <2>5. kept[k + 1] = Total(held, k + 1) /\ kept[k + 1] \in Nat
    BY <2>3, <2>4, TotalStep
  <2>6. CASE k = 0
    BY <2>5, <2>6
  <2>7. CASE k # 0 /\ (out(k + 1) \/ ~HoldsData(adopted[k + 1]))
    <3>1. ~HoldsData(rebuilt[k + 1]) /\ held[k + 1] = 0
      BY <1>9, <1>10, <2>2, <2>7 DEF HeldBy
    <3>2. kept[k + 1] = kept[k]
      BY <2>3, <2>4, <3>1
    <3>3. \A j \in 2..(k + 1) : j \in 2..k \/ j = k + 1
      OBVIOUS
    <3> QED BY <2>3, <2>5, <3>1, <3>2, <3>3
  <2>8. CASE k # 0 /\ ~out(k + 1) /\ HoldsData(adopted[k + 1])
    <3>1. ~Evicted(adopted, k + 1, kept[k], limit)
      BY <2>2, <2>8 DEF out
    <3>2. k + 1 > 1
      BY <2>8
    <3>3. kept[k] + HeldBy(adopted[k + 1]) <= limit
      BY <1>5, <2>2, <2>3, <2>8, <3>1, <3>2
    <3>4. held[k + 1] = HeldBy(adopted[k + 1])
      BY <1>9, <1>10, <2>2, <2>8
    <3> QED BY <2>4, <2>5, <3>3, <3>4
  <2> QED BY <2>6, <2>7, <2>8
<1>13. S = Nat
  <2> HIDE DEF S
  <2>1. S \in SUBSET Nat
    BY DEF S
  <2> QED BY <1>11, <1>12, <2>1, Induction
<1>14. n \in S
  BY <1>3, <1>13 DEF n
<1>15. ASSUME kept[n] <= limit PROVE WithinBudget(rebuilt, limit)
  <2>1. Total(held, n) <= limit
    BY <1>3, <1>14, <1>15 DEF n
  <2>2. 1..n \in SUBSET DOMAIN rebuilt /\ DOMAIN rebuilt \ 1..n = {}
    BY <1>8
  <2>3. Total(Counted(rebuilt, 1..n), Len(rebuilt)) <= limit
    BY <1>8, <2>1 DEF held
  <2> QED BY <2>2, <2>3 DEF WithinBudget
<1>16. ASSUME ~(kept[n] <= limit) PROVE WithinBudget(rebuilt, limit)
  <2>1. \A j \in 2..n : ~HoldsData(rebuilt[j])
    BY <1>3, <1>14, <1>16 DEF n
  <2> DEFINE first == {1} \cap 1..n
  <2>2. \A j \in DOMAIN rebuilt \ first : j \in 2..n
    BY <1>3, <1>8 DEF n
  <2>3. first \in SUBSET DOMAIN rebuilt /\ first \subseteq {1}
    BY <1>8
  <2> HIDE DEF first
  <2> QED BY <2>1, <2>2, <2>3 DEF WithinBudget
<1>17. WithinBudget(rebuilt, limit)
  BY <1>15, <1>16
<1> QED BY <1>17 DEF rebuilt

\* The estimates of a list of loaders, and their sums.
LEMMA UsageNumbers ==
    ASSUME NEW ps \in Seq(Loader)
    PROVE  /\ Len(ps) \in Nat /\ DOMAIN ps = 1..Len(ps)
           /\ \A k \in 1..Len(ps) :
                /\ ps[k] \in Loader
                /\ MemoryUsage(ps)[k] = MemoryRequirements(ps[k])
                /\ MemoryUsage(ps)[k] \in Nat
                /\ UsedBefore(ps, k) \in Nat
                /\ UsedBefore(ps, k) = Total(MemoryUsage(ps), k - 1)
                /\ Total(MemoryUsage(ps), k) = UsedBefore(ps, k) + MemoryRequirements(ps[k])
                /\ HeldBy(ps[k]) \in Nat
                /\ HeldBy(ps[k]) <= MemoryRequirements(ps[k])
<1> DEFINE n == Len(ps)
           usage == MemoryUsage(ps)
<1>1. n \in Nat /\ DOMAIN ps = 1..n /\ \A k \in 1..n : ps[k] \in Loader
  BY LenProperties, ElementOfSeq
<1>2. \A k \in 1..n : usage[k] = MemoryRequirements(ps[k]) /\ usage[k] \in Nat
  BY <1>1, LoaderNumbers DEF MemoryUsage
<1> HIDE DEF n, usage
<1>3. ASSUME NEW k \in 1..n
      PROVE  /\ UsedBefore(ps, k) \in Nat /\ UsedBefore(ps, k) = Total(usage, k - 1)
             /\ Total(usage, k) = UsedBefore(ps, k) + MemoryRequirements(ps[k])
             /\ HeldBy(ps[k]) \in Nat /\ HeldBy(ps[k]) <= MemoryRequirements(ps[k])
  <2>1. k - 1 \in Nat /\ k - 1 \in 0..n /\ (k - 1) + 1 = k
    BY <1>1
  <2>2. Total(usage, k - 1) \in Nat
    BY <1>1, <1>2, <2>1, TotalType
  <2>3. Total(usage, (k - 1) + 1) = Total(usage, k - 1) + usage[(k - 1) + 1]
    BY <2>1, TotalStep
  <2>4. UsedBefore(ps, k) = Total(usage, k - 1)
    BY DEF UsedBefore, usage
  <2>5. HeldBy(ps[k]) \in Nat /\ HeldBy(ps[k]) <= MemoryRequirements(ps[k])
    BY <1>1, LoaderNumbers DEF HeldBy
  <2> QED BY <1>2, <2>1, <2>2, <2>3, <2>4, <2>5
<1> QED BY <1>1, <1>2, <1>3 DEF n, usage

\* Where no estimate grows, what fitted still fits.
LEMMA FitsStays ==
    ASSUME NEW ps \in Seq(Loader), NEW qs \in Seq(Loader), Len(qs) = Len(ps),
           \A k \in DOMAIN ps : MemoryRequirements(qs[k]) <= MemoryRequirements(ps[k]),
           NEW limit \in Nat, NEW k \in DOMAIN ps, Fits(ps, k, limit)
    PROVE  Fits(qs, k, limit)
<1>1. /\ Len(ps) \in Nat /\ DOMAIN ps = 1..Len(ps)
      /\ MemoryRequirements(ps[k]) \in Nat /\ MemoryRequirements(qs[k]) \in Nat
      /\ UsedBefore(ps, k) \in Nat /\ UsedBefore(qs, k) \in Nat
      /\ UsedBefore(ps, k) = Total(MemoryUsage(ps), k - 1)
      /\ UsedBefore(qs, k) = Total(MemoryUsage(qs), k - 1)
  BY UsageNumbers
<1>2. k - 1 \in Nat
  BY <1>1
<1>3. \A j \in 1..(k - 1) :
        /\ MemoryUsage(ps)[j] \in Nat /\ MemoryUsage(qs)[j] \in Nat
        /\ MemoryUsage(qs)[j] <= MemoryUsage(ps)[j]
  <2>1. SUFFICES ASSUME NEW j \in 1..(k - 1)
                 PROVE  /\ MemoryUsage(ps)[j] \in Nat /\ MemoryUsage(qs)[j] \in Nat
                        /\ MemoryUsage(qs)[j] <= MemoryUsage(ps)[j]
    OBVIOUS
  <2>2. j \in 1..Len(ps)
    BY <1>1
  <2>3. /\ MemoryUsage(ps)[j] = MemoryRequirements(ps[j]) /\ MemoryUsage(ps)[j] \in Nat
        /\ MemoryUsage(qs)[j] = MemoryRequirements(qs[j]) /\ MemoryUsage(qs)[j] \in Nat
    BY <2>2, UsageNumbers
  <2> QED BY <1>1, <2>2, <2>3
<1>4. UsedBefore(qs, k) <= UsedBefore(ps, k)
  <2>1. Total(MemoryUsage(qs), k - 1) <= Total(MemoryUsage(ps), k - 1)
    BY <1>2, <1>3, TotalMonotone
  <2> QED BY <1>1, <2>1
<1> QED BY <1>1, <1>4 DEF Fits

\* The budget is kept as long as the estimates do not grow, and what newly holds
\* data fits.
LEMMA BudgetStays ==
    ASSUME NEW ps \in Seq(Loader), NEW qs \in Seq(Loader), Len(qs) = Len(ps),
           NEW limit \in Nat, WithinBudget(ps, limit),
           \A k \in DOMAIN ps :
              /\ MemoryRequirements(qs[k]) <= MemoryRequirements(ps[k])
              /\ (HoldsData(qs[k]) /\ qs[k].state # "Error") =>
                    (HoldsData(ps[k]) /\ ps[k].state # "Error") \/ Fits(ps, k, limit)
    PROVE  WithinBudget(qs, limit)
<1> DEFINE n == Len(ps)
<1>1. /\ n \in Nat /\ DOMAIN ps = 1..n /\ DOMAIN qs = 1..n
      /\ \A k \in 1..n : ps[k] \in Loader /\ qs[k] \in Loader
      /\ \A k \in 1..n : HeldBy(ps[k]) \in Nat /\ HeldBy(qs[k]) \in Nat
  BY UsageNumbers
<1>2. PICK kept \in SUBSET DOMAIN ps :
        /\ kept \subseteq {1} \/ Total(Counted(ps, kept), n) <= limit
        /\ \A k \in DOMAIN ps \ kept :
              HoldsData(ps[k]) /\ ps[k].state # "Error" => Fits(ps, k, limit)
  BY DEF WithinBudget
<1> DEFINE still == {k \in kept : HoldsData(ps[k]) /\ HoldsData(qs[k])
                                  /\ ps[k].state # "Error" /\ qs[k].state # "Error"}
<1>3. still \in SUBSET DOMAIN qs /\ still \subseteq kept
  BY <1>1
<1>4. ASSUME NEW k \in DOMAIN qs \ still, HoldsData(qs[k]), qs[k].state # "Error"
      PROVE  Fits(qs, k, limit)
  <2>1. Fits(ps, k, limit)
    BY <1>1, <1>2, <1>4
  <2> QED BY <1>1, <2>1, FitsStays
<1>5. ASSUME ~(kept \subseteq {1})
      PROVE  Total(Counted(qs, still), n) <= limit
  <2>1. ASSUME NEW k \in 1..n
        PROVE  /\ Counted(qs, still)[k] \in Nat /\ Counted(ps, kept)[k] \in Nat
               /\ Counted(qs, still)[k] <= Counted(ps, kept)[k]
    <3>1. /\ Counted(qs, still)[k] = IF k \in still THEN HeldBy(qs[k]) ELSE 0
          /\ Counted(ps, kept)[k] = IF k \in kept THEN HeldBy(ps[k]) ELSE 0
      BY <1>1 DEF Counted
    <3>2. k \in still => HeldBy(qs[k]) <= HeldBy(ps[k]) /\ k \in kept
      BY <1>1 DEF HeldBy
    <3> HIDE DEF still
    <3> QED BY <1>1, <3>1, <3>2
  <2>2. Total(Counted(qs, still), n) <= Total(Counted(ps, kept), n)
    BY <1>1, <2>1, TotalMonotone
  <2>3. Total(Counted(qs, still), n) \in Nat /\ Total(Counted(ps, kept), n) \in Nat
    <3>1. n \in Nat /\ n \in 0..n
      BY <1>1
    <3>2. \A k \in 1..n : Counted(qs, still)[k] \in Nat
      BY <2>1
    <3>3. \A k \in 1..n : Counted(ps, kept)[k] \in Nat
      BY <2>1
    <3> HIDE DEF n, still
    <3> QED BY <3>1, <3>2, <3>3, TotalType
  <2> QED BY <1>2, <1>5, <2>2, <2>3
<1> HIDE DEF still
<1> QED BY <1>3, <1>4, <1>5 DEF WithinBudget

\* Only the first package is counted.
LEMMA FirstCounted ==
    ASSUME NEW ps \in Seq(Loader), NEW kept \in SUBSET DOMAIN ps, kept \subseteq {1}
    PROVE  \/ Total(Counted(ps, kept), Len(ps)) = 0
           \/ /\ 1 \in kept
              /\ Total(Counted(ps, kept), Len(ps)) <= MemoryRequirements(ps[1])
<1> DEFINE n == Len(ps)
           c == Counted(ps, kept)
<1>1. /\ n \in Nat /\ DOMAIN ps = 1..n
      /\ \A k \in 1..n : /\ HeldBy(ps[k]) \in Nat
                         /\ MemoryRequirements(ps[k]) \in Nat
                         /\ HeldBy(ps[k]) <= MemoryRequirements(ps[k])
  BY UsageNumbers, LoaderNumbers
<1>2. \A k \in 1..n : c[k] = (IF k \in kept THEN HeldBy(ps[k]) ELSE 0) /\ c[k] \in Nat
  BY <1>1 DEF Counted
<1> HIDE DEF c, n
<1>3. CASE kept = {}
  <2>1. \A k \in (0 + 1)..n : c[k] = 0
    BY <1>2, <1>3
  <2>2. Total(c, n) = Total(c, 0)
    BY <1>1, <1>2, <2>1, TotalZero
  <2> QED BY <2>2, TotalStep DEF c, n
<1>4. CASE kept = {1}
  <2>1. 1 \in 1..n /\ 1 \in 0..n
    BY <1>1, <1>4
  <2>2. \A k \in (1 + 1)..n : c[k] = 0
    BY <1>2, <1>4
  <2>3. Total(c, n) = Total(c, 1)
    BY <1>1, <1>2, <2>1, <2>2, TotalZero
  <2>4. Total(c, 0 + 1) = Total(c, 0) + c[0 + 1] /\ Total(c, 0) = 0
    BY TotalStep
  <2>5. Total(c, 1) = c[1] /\ c[1] <= MemoryRequirements(ps[1])
    BY <1>1, <1>2, <1>4, <2>1, <2>4
  <2> QED BY <1>4, <2>3, <2>5 DEF c, n
<1> QED BY <1>3, <1>4

\* Within the budget, all that is held is at most twice the limit, or one package
\* more than the limit.
LEMMA BudgetHolds ==
    ASSUME NEW ps \in Seq(Loader), NEW limit \in Nat, WithinBudget(ps, limit)
    PROVE  LET held == Total([k \in DOMAIN ps |-> HeldBy(ps[k])], Len(ps))
           IN  \/ held <= 2 * limit
               \/ \E k \in DOMAIN ps : held <= limit + MemoryRequirements(ps[k])
<1> DEFINE n == Len(ps)
           all == [k \in DOMAIN ps |-> HeldBy(ps[k])]
           usage == MemoryUsage(ps)
<1>1. /\ n \in Nat /\ DOMAIN ps = 1..n
      /\ \A k \in 1..n :
            /\ ps[k] \in Loader
            /\ usage[k] = MemoryRequirements(ps[k]) /\ usage[k] \in Nat
            /\ UsedBefore(ps, k) \in Nat /\ UsedBefore(ps, k) = Total(usage, k - 1)
            /\ Total(usage, k) = UsedBefore(ps, k) + MemoryRequirements(ps[k])
            /\ HeldBy(ps[k]) \in Nat /\ HeldBy(ps[k]) <= MemoryRequirements(ps[k])
  BY UsageNumbers
<1>2. PICK kept \in SUBSET DOMAIN ps :
        /\ kept \subseteq {1} \/ Total(Counted(ps, kept), n) <= limit
        /\ \A k \in DOMAIN ps \ kept :
              HoldsData(ps[k]) /\ ps[k].state # "Error" => Fits(ps, k, limit)
  BY DEF WithinBudget
<1> DEFINE c == Counted(ps, kept)
           loaded == Counted(ps, DOMAIN ps \ kept)
<1>3. \A k \in 1..n :
        /\ c[k] = IF k \in kept THEN HeldBy(ps[k]) ELSE 0
        /\ loaded[k] = IF k \in kept THEN 0 ELSE HeldBy(ps[k])
        /\ all[k] = HeldBy(ps[k])
  BY <1>1 DEF Counted
<1>4. kept \subseteq {1} => \/ Total(c, n) = 0
                            \/ 1 \in kept /\ Total(c, n) <= MemoryRequirements(ps[1])
  BY FirstCounted
<1> HIDE DEF n, all, usage, c, loaded
<1>5. /\ \A k \in 1..n : c[k] \in Nat
      /\ \A k \in 1..n : loaded[k] \in Nat
      /\ \A k \in 1..n : all[k] \in Nat
      /\ \A k \in 1..n : usage[k] \in Nat
      /\ n \in 0..n
  <2>1. n \in 0..n
    BY <1>1
  <2>2. ASSUME NEW k \in 1..n
        PROVE  c[k] \in Nat /\ loaded[k] \in Nat /\ all[k] \in Nat /\ usage[k] \in Nat
    <3>1. HeldBy(ps[k]) \in Nat /\ usage[k] \in Nat
      BY <1>1
    <3> QED BY <1>3, <3>1
  <2> QED BY <2>1, <2>2
<1>6. Total(c, n) \in Nat /\ Total(loaded, n) \in Nat /\ Total(all, n) \in Nat
  BY <1>1, <1>5, TotalType
<1>7. Total(all, n) <= Total(c, n) + Total(loaded, n)
  <2>1. \A k \in 1..n : /\ c[k] \in Nat /\ loaded[k] \in Nat /\ all[k] \in Nat
                        /\ all[k] <= c[k] + loaded[k]
    <3>1. SUFFICES ASSUME NEW k \in 1..n PROVE all[k] <= c[k] + loaded[k]
      BY <1>5
    <3>2. HeldBy(ps[k]) \in Nat
      BY <1>1
    <3> QED BY <1>3, <3>2
  <2> QED BY <1>1, <1>5, <2>1, TotalPlus
<1> DEFINE M == {m \in 0..n : \A k \in (m + 1)..n : loaded[k] = 0}
<1>8. PICK m \in M : \A k \in M : m <= k
  <2>1. n \in M
    <3>1. \A k \in (n + 1)..n : loaded[k] = 0
      BY <1>1
    <3> QED BY <1>5, <3>1
  <2>2. M \in SUBSET Nat /\ M # {}
    <3>1. M \subseteq 0..n /\ 0..n \subseteq Nat
      BY <1>1
    <3> HIDE DEF M
    <3> QED BY <2>1, <3>1
  <2> HIDE DEF M
  <2> QED BY <2>2, LeastNatural
<1>9. m \in 0..n /\ Total(loaded, n) = Total(loaded, m)
  <2>1. m \in 0..n /\ \A k \in (m + 1)..n : loaded[k] = 0
    BY <1>8
  <2> QED BY <1>1, <1>5, <2>1, TotalZero
<1> SUFFICES \/ Total(all, n) <= 2 * limit
             \/ \E k \in DOMAIN ps : Total(all, n) <= limit + MemoryRequirements(ps[k])
  BY DEF all, n
<1>10. ASSUME NEW k \in 1..n PROVE MemoryRequirements(ps[k]) \in Nat
  BY <1>10, <1>1
<1>11. CASE m = 0
  <2>1. Total(loaded, n) = 0
    BY <1>9, <1>11, TotalStep
  <2>2. CASE Total(c, n) <= limit
    BY <1>6, <1>7, <2>1, <2>2
  <2>3. CASE 1 \in kept /\ Total(c, n) <= MemoryRequirements(ps[1])
    <3>1. 1 \in 1..n
      BY <1>1, <2>3
    <3>2. Total(all, n) <= limit + MemoryRequirements(ps[1])
      BY <1>6, <1>7, <1>10, <2>1, <2>3, <3>1
    <3> QED BY <1>1, <3>1, <3>2
  <2> QED BY <1>2, <1>4, <2>2, <2>3 DEF c
<1>12. CASE m # 0
  <2>1. m \in 1..n /\ m - 1 \in 0..n /\ m - 1 \in Nat /\ (m - 1) + 1 = m
    BY <1>1, <1>9, <1>12
  <2>2. loaded[m] # 0
    <3>1. SUFFICES ASSUME loaded[m] = 0 PROVE FALSE
      OBVIOUS
    <3>2. m - 1 \in M
      <4>1. \A k \in (m - 1 + 1)..n : k = m \/ k \in (m + 1)..n
        BY <1>1, <2>1
      <4> QED BY <1>8, <2>1, <3>1, <4>1
    <3> QED BY <1>8, <2>1, <3>2
  <2>3. m \notin kept /\ loaded[m] = HeldBy(ps[m]) /\ HeldBy(ps[m]) # 0
    BY <1>3, <2>1, <2>2
  <2>4. HoldsData(ps[m]) /\ ps[m].state # "Error"
    BY <1>1, <2>1, <2>3, LoaderNumbers DEF HeldBy
  <2>5. Fits(ps, m, limit)
    BY <1>1, <1>2, <2>1, <2>3, <2>4
  <2>6. \A k \in 1..m : usage[k] \in Nat /\ loaded[k] \in Nat /\ loaded[k] <= usage[k]
    <3>1. \A k \in 1..m : k \in 1..n
      BY <1>1, <2>1
    <3>2. SUFFICES ASSUME NEW k \in 1..n PROVE loaded[k] <= usage[k]
      BY <1>5, <3>1
    <3>3. /\ HeldBy(ps[k]) \in Nat /\ usage[k] = MemoryRequirements(ps[k])
          /\ HeldBy(ps[k]) <= MemoryRequirements(ps[k]) /\ usage[k] \in Nat
      BY <1>1
    <3> QED BY <1>3, <3>3
  <2>7. Total(loaded, m) <= Total(usage, m)
    BY <2>1, <2>6, TotalMonotone
  <2>8. Total(loaded, m - 1) <= Total(usage, m - 1)
    <3>1. \A k \in 1..(m - 1) : k \in 1..m
      BY <2>1
    <3> QED BY <2>1, <2>6, <3>1, TotalMonotone
  <2>9. /\ Total(loaded, m) \in Nat /\ Total(usage, m) \in Nat
        /\ Total(loaded, m - 1) \in Nat /\ Total(usage, m - 1) \in Nat
    <3>1. m \in 0..n
      BY <1>9
    <3> QED BY <1>1, <1>5, <2>1, <3>1, TotalType
  <2>10. Total(loaded, m) = Total(loaded, m - 1) + loaded[m]
    <3>1. Total(loaded, (m - 1) + 1) = Total(loaded, m - 1) + loaded[(m - 1) + 1]
      BY <2>1, TotalStep
    <3> QED BY <2>1, <3>1
  <2>11. /\ UsedBefore(ps, m) \in Nat /\ UsedBefore(ps, m) = Total(usage, m - 1)
         /\ Total(usage, m) = UsedBefore(ps, m) + MemoryRequirements(ps[m])
         /\ MemoryRequirements(ps[m]) \in Nat /\ HeldBy(ps[m]) \in Nat
         /\ HeldBy(ps[m]) <= MemoryRequirements(ps[m])
    BY <1>1, <1>10, <2>1
  <2>12. CASE UsedBefore(ps, m) + MemoryRequirements(ps[m]) < limit
    <3>1. Total(loaded, n) <= limit
      BY <1>9, <2>7, <2>9, <2>11, <2>12
    <3>2. CASE Total(c, n) <= limit
      BY <1>6, <1>7, <3>1, <3>2
    <3>3. CASE 1 \in kept /\ Total(c, n) <= MemoryRequirements(ps[1])
      <4>1. 1 \in 1..n
        BY <1>1, <3>3
      <4>2. Total(all, n) <= limit + MemoryRequirements(ps[1])
        BY <1>6, <1>7, <1>10, <3>1, <3>3, <4>1
      <4> QED BY <1>1, <4>1, <4>2
    <3> QED BY <1>2, <1>4, <3>2, <3>3 DEF c
  <2>13. CASE UsedBefore(ps, m) = 0
    <3>1. Total(loaded, n) <= MemoryRequirements(ps[m])
      BY <1>9, <2>3, <2>8, <2>9, <2>10, <2>11, <2>13
    <3>2. CASE Total(c, n) <= limit
      <4>1. Total(all, n) <= limit + MemoryRequirements(ps[m])
        BY <1>6, <1>7, <2>11, <3>1, <3>2
      <4> QED BY <1>1, <2>1, <4>1
    <3>3. CASE 1 \in kept /\ Total(c, n) <= MemoryRequirements(ps[1])
      <4>1. 1 \in 1..n /\ 1 <= m - 1
        BY <1>1, <2>1, <2>3, <3>3
      <4>2. usage[1] <= Total(usage, m - 1)
        <5>0. \A k \in 1..(m - 1) : k \in 1..m
          BY <2>1
        <5>1. 1 \in 1..(m - 1) /\ \A k \in 1..(m - 1) : usage[k] \in Nat
          BY <2>1, <2>6, <4>1, <5>0
        <5>2. PICK before \in Nat : before = m - 1
          BY <2>1
        <5>3. 1 \in 1..before /\ \A k \in 1..before : usage[k] \in Nat
          BY <5>1, <5>2
        <5>4. usage[1] <= Total(usage, before)
          BY <5>3, TotalElement
        <5> QED BY <5>2, <5>4
      <4>3. MemoryRequirements(ps[1]) = 0
        <5>1. usage[1] = MemoryRequirements(ps[1]) /\ usage[1] \in Nat
          BY <1>1, <4>1
        <5>2. Total(usage, m - 1) = 0
          BY <2>11, <2>13
        <5> QED BY <4>2, <5>1, <5>2
      <4>4. Total(all, n) <= limit + MemoryRequirements(ps[m])
        BY <1>6, <1>7, <2>11, <3>1, <3>3, <4>3
      <4> QED BY <1>1, <2>1, <4>4
    <3> QED BY <1>2, <1>4, <3>2, <3>3 DEF c
  <2> QED BY <2>5, <2>12, <2>13 DEF Fits
<1> QED BY <1>11, <1>12

-----------------------------------------------------------------------------
(* IMAGECACHE                                                              *)

RequestOf(entry) == [image |-> entry.image, filename |-> entry.name]

\* Each request is for an image of its own, and for the file of that image.
AsksFor(q, files) ==
    /\ q \in Seq(Request) /\ DistinctImages(q)
    /\ \A k \in DOMAIN q :
          q[k].image # NoImage => \E j \in DOMAIN files : q[k] = RequestOf(files[j])

\* The list and the requests, which the main thread changes.
ListOK ==
    /\ ListConsistent
    /\ \A k \in DOMAIN m_files : m_files[k].name \in Names
    /\ AsksFor(queue, m_files)

\* What both threads change.
ThreadsOK ==
    /\ m_state \in {"Running", "Updating", "Terminating", "Stopped"}
    /\ worker \in {"running", "waiting", "loading", "returning", "exited"}
    /\ main \in {"idle", "update", "updateWait", "waiting", "woken", "limit", "request",
                 "join", "closed"}
    /\ m_package \in Images \cup {NoImage}
    /\ m_memoryLimit \in Nat /\ m_newMemoryLimit \in Nat
    /\ finished \in [Images -> BOOLEAN]
    /\ shown \in Images \cup {NoImage}
    /\ filling \in BOOLEAN

\* Until the main thread stops it, the worker has not stopped; from then on it
\* does not go back to work.
StopOK == main \in {"join", "closed"} <=> m_state \in {"Terminating", "Stopped"}

\* The call that waits for the worker has taken its images out of the requests;
\* once woken, the worker holds none of them.
CallOK ==
    /\ \/ pending = NoCall /\ main \notin {"updateWait", "waiting", "woken"}
       \/ pending = ClearCall /\ main \in {"updateWait", "waiting", "woken"}
       \/ /\ \E i \in 0..(Count - 1) : pending = RemoveCall(i)
          /\ main \in {"updateWait", "waiting", "woken"}
    /\ pending = ClearCall => queue = <<>>
    /\ \A i \in 0..(Count - 1) :
          pending = RemoveCall(i) => At(m_files, i).image \notin ImagesOf(queue)
    /\ main = "woken" => ImagesOf(packages) \subseteq ImagesOf(queue)

\* The current image is the first request, unless it is about to go.
Removing == pending = ClearCall \/ pending = RemoveCall(m_index)

HeadOK == Count > 0 /\ ~Removing => queue # <<>> /\ queue[1].image = CurrentImage

\* The loaders work on images of the list, for the files they belong to.
PackagesOK ==
    /\ packages \in Seq(Loader) /\ DistinctImages(packages)
    /\ NoDanglingLoader
    /\ LoaderServesItsFile

\* The memory held is within the budget, and stays so when the load the worker
\* has fetched goes on.
BudgetOK ==
    /\ WithinBudget(packages, m_memoryLimit)
    /\ worker = "loading" =>
          \A k \in DOMAIN packages :
             packages[k].image = m_package =>
                packages[k].state = "Unprocessed" \/ Fits(packages, k, m_memoryLimit)

CacheInvariant ==
    ListOK /\ ThreadsOK /\ StopOK /\ CallOK /\ HeadOK /\ PackagesOK /\ BudgetOK

-----------------------------------------------------------------------------
(* The request list.                                                       *)

\* attemptPush leaves the images of the requests distinct, where a request is
\* determined by its image.
LEMMA PushDistinct ==
    ASSUME NEW R \in SUBSET Request, \A r, s \in R : r.image = s.image => r = s,
           NEW q \in Seq(R), DistinctImages(q), NEW r \in R
    PROVE  attemptPush(q, r) \in Seq(R) /\ DistinctImages(attemptPush(q, r))
<1>1. CASE \E k \in DOMAIN q : q[k] = r
  BY <1>1 DEF attemptPush
<1>2. CASE ~\E k \in DOMAIN q : q[k] = r
  <2> DEFINE p == Append(q, r)
  <2>1. attemptPush(q, r) = p
    BY <1>2 DEF attemptPush
  <2>2. /\ p \in Seq(R)
        /\ DOMAIN q = 1..Len(q) /\ DOMAIN p = 1..(Len(q) + 1)
        /\ \A k \in DOMAIN q : p[k] = q[k] /\ q[k] \in R
        /\ p[Len(q) + 1] = r
        /\ Len(q) \in Nat
    BY AppendProperties, LenProperties, ElementOfSeq
  <2> HIDE DEF p
  <2>3. \A k \in DOMAIN q : q[k].image # r.image
    BY <1>2, <2>2
  <2>4. DistinctImages(p)
    BY <2>2, <2>3 DEF DistinctImages
  <2> QED BY <2>1, <2>2, <2>4
<1> QED BY <1>1, <1>2

\* The requests apply_priorities can make of a list.
RequestsOf(files) == {NoRequest} \cup {RequestOf(files[j]) : j \in DOMAIN files}

\* They are requests, and differ in their images when the entries do.
LEMMA RequestsOfList ==
    ASSUME NEW files \in Seq(Entry), DistinctImages(files)
    PROVE  /\ RequestsOf(files) \in SUBSET Request
           /\ \A r, s \in RequestsOf(files) : r.image = s.image => r = s
           /\ \A i \in Int : i >= NoIndex => RequestAt(files, i) \in RequestsOf(files)
<1>1. /\ DOMAIN files = 1..Len(files) /\ Len(files) \in Nat
      /\ \A j \in DOMAIN files : files[j] \in Entry
  BY LenProperties, ElementOfSeq
<1>2. NoRequest \in Request /\ NoRequest.image = NoImage
  BY DEF NoRequest, Request
<1>3. ASSUME NEW j \in DOMAIN files
      PROVE  /\ RequestOf(files[j]) \in Request
             /\ RequestOf(files[j]).image = files[j].image
             /\ files[j].image # NoImage
  <2>1. files[j] \in Entry
    BY <1>1
  <2> QED BY <2>1, RequestAssumption DEF Entry, Request, RequestOf
<1>4. \A r, s \in RequestsOf(files) : r.image = s.image => r = s
  BY <1>2, <1>3 DEF RequestsOf, DistinctImages
<1>5. ASSUME NEW i \in Int, i >= NoIndex PROVE RequestAt(files, i) \in RequestsOf(files)
  <2>1. CASE i = NoIndex \/ i >= Len(files)
    BY <2>1 DEF RequestAt, RequestsOf
  <2>2. CASE i # NoIndex /\ i < Len(files)
    <3>1. i + 1 \in DOMAIN files
      BY <1>1, <1>5, <2>2 DEF NoIndex
    <3>2. RequestAt(files, i) = RequestOf(files[i + 1])
      BY <1>1, <2>2 DEF RequestAt, RequestOf, At
    <3> QED BY <3>1, <3>2 DEF RequestsOf
  <2> QED BY <1>1, <2>1, <2>2
<1> QED BY <1>2, <1>3, <1>4, <1>5 DEF RequestsOf

\* The list of apply_priorities asks for each image once, for its own file.
LEMMA PrioritiesAskFor ==
    ASSUME NEW files \in Seq(Entry), DistinctImages(files), NEW i \in 0..SizeMax,
           NEW wrap \in BOOLEAN, NEW flip \in BOOLEAN
    PROVE  AsksFor(Priorities(files, i, wrap, flip), files)
<1> DEFINE R == RequestsOf(files)
           r(d) == RequestAt(files, PeekRelativeIndex(files, i, wrap, d))
           d1 == IF flip THEN -1 ELSE 1
           q0 == <<RequestAt(files, i)>>
           q1 == attemptPush(q0, r(d1))
           q2 == attemptPush(q1, r(-d1))
           q3 == attemptPush(q2, r(2 * d1))
           q4 == attemptPush(q3, r(-2 * d1))
<1>1. Priorities(files, i, wrap, flip) = q4
  BY DEF Priorities, PushRelative
<1>2. d1 \in Deltas /\ -d1 \in Deltas /\ 2 * d1 \in Deltas /\ -2 * d1 \in Deltas
  <2>1. CASE flip
    <3>1. d1 = -1
      BY <2>1
    <3> HIDE DEF d1
    <3>2. d1 \in Int /\ d1 + 1 = 0
      BY <3>1
    <3>3. -d1 = 1 /\ 2 * d1 = -2 /\ -2 * d1 = 2
      BY <3>2
    <3> QED BY <3>1, <3>3 DEF Deltas
  <2>2. CASE ~flip
    <3>1. d1 = 1
      BY <2>2
    <3> HIDE DEF d1
    <3>2. -d1 = -1 /\ 2 * d1 = 2 /\ -2 * d1 = -2
      BY <3>1
    <3> QED BY <3>1, <3>2 DEF Deltas
  <2> QED BY <2>1, <2>2
<1>3. /\ R \in SUBSET Request /\ \A x, y \in R : x.image = y.image => x = y
      /\ \A n \in Int : n >= NoIndex => RequestAt(files, n) \in R
  BY RequestsOfList
<1>4. ASSUME NEW d \in Deltas PROVE r(d) \in R
  <2>1. PeekRelativeIndex(files, i, wrap, d) \in {NoIndex} \cup 0..(Len(files) - 1)
    BY PeekRange
  <2>2. /\ PeekRelativeIndex(files, i, wrap, d) \in Int
        /\ PeekRelativeIndex(files, i, wrap, d) >= NoIndex
    BY <2>1, LenProperties DEF NoIndex
  <2> QED BY <1>3, <2>2
<1>5. q0 \in Seq(R) /\ DistinctImages(q0)
  <2>1. i \in Int /\ i >= NoIndex
    BY CacherAssumption DEF NoIndex
  <2>2. RequestAt(files, i) \in R
    BY <1>3, <2>1
  <2> HIDE DEF R
  <2> QED BY <2>2 DEF DistinctImages
<1> HIDE DEF q0, d1, r, R
<1>6. q1 \in Seq(R) /\ DistinctImages(q1)
  BY <1>2, <1>3, <1>4, <1>5, PushDistinct
<1> HIDE DEF q1
<1>7. q2 \in Seq(R) /\ DistinctImages(q2)
  BY <1>2, <1>3, <1>4, <1>6, PushDistinct
<1> HIDE DEF q2
<1>8. q3 \in Seq(R) /\ DistinctImages(q3)
  BY <1>2, <1>3, <1>4, <1>7, PushDistinct
<1> HIDE DEF q3
<1>9. q4 \in Seq(R) /\ DistinctImages(q4)
  BY <1>2, <1>3, <1>4, <1>8, PushDistinct
<1> HIDE DEF q4
<1>10. q4 \in Seq(Request)
  BY <1>3, <1>9, SeqMonotonic
<1>11. ASSUME NEW k \in DOMAIN q4, q4[k].image # NoImage
       PROVE  \E j \in DOMAIN files : q4[k] = RequestOf(files[j])
  <2>1. q4[k] \in R
    BY <1>9, LenProperties, ElementOfSeq
  <2>2. q4[k] # NoRequest
    BY <1>11 DEF NoRequest
  <2> QED BY <2>1, <2>2 DEF R, RequestsOf
<1> QED BY <1>1, <1>9, <1>10, <1>11 DEF AsksFor

\* apply_priorities leaves a list that asks for the current image first.
LEMMA PrioritiesListOK ==
    ASSUME Consistent', \A k \in DOMAIN m_files' : m_files'[k].name \in Names,
           NEW flip \in BOOLEAN, apply_priorities(flip)
    PROVE  /\ ListOK'
           /\ Count' > 0 => queue' # <<>> /\ queue'[1].image = CurrentImage'
<1>1. /\ m_files' \in Seq(Entry) /\ DistinctImages(m_files')
      /\ m_index' \in 0..SizeMax /\ m_wrapAround' \in BOOLEAN /\ queue' \in Seq(Request)
  BY DEF Consistent, ListConsistent, CacherTypeOK, DistinctImages
<1>2. AsksFor(queue', m_files')
  BY <1>1, PrioritiesAskFor DEF apply_priorities
<1>3. ListOK'
  BY <1>2 DEF ListOK, Consistent
<1>4. (Consistent => QueueServesList)'
  BY ConsistentQueueServes, PTL
<1>5. Count' > 0 => queue' # <<>> /\ queue'[1].image = CurrentImage'
  <2>1. queue' # <<>> => Head(queue').image = CurrentImage'
    BY <1>4 DEF QueueServesList
  <2>2. Count' > 0 => queue' # <<>>
    BY <1>4 DEF QueueServesList
  <2>3. queue' # <<>> => Head(queue') = queue'[1]
    BY <1>1
  <2> QED BY <2>1, <2>2, <2>3
<1> QED BY <1>3, <1>5

\* What the invariant says of the list and the requests.
LEMMA ListFacts ==
    ASSUME ListOK
    PROVE  /\ m_files \in Seq(Entry) /\ DistinctImages(m_files)
           /\ Count \in Nat /\ Count = Len(m_files) /\ DOMAIN m_files = 1..Count
           /\ \A k \in DOMAIN m_files : /\ m_files[k] \in Entry
                                        /\ m_files[k].image \in Images
           /\ queue \in Seq(Request) /\ DistinctImages(queue)
           /\ m_index \in 0..SizeMax
           /\ Count > 0 => m_index \in 0..(Count - 1)
<1>1. m_files \in Seq(Entry) /\ queue \in Seq(Request) /\ m_index \in 0..SizeMax
  BY DEF ListOK, ListConsistent, CacherTypeOK
<1>2. DOMAIN m_files = 1..Count /\ Count \in Nat
      /\ \A k \in DOMAIN m_files : m_files[k] \in Entry
  BY <1>1, LenProperties, ElementOfSeq DEF Count
<1>3. \A e \in Entry : e.image \in Images
  BY DEF Entry
<1>4. Count > 0 => m_index \in 0..(Count - 1)
  BY <1>1, <1>2, CacherAssumption DEF ListOK, ListConsistent, IndexValid
<1> QED
  BY <1>1, <1>2, <1>3, <1>4
  DEF ListOK, ListConsistent, CacherTypeOK, DistinctImages, AsksFor, Count

-----------------------------------------------------------------------------
(* The main thread, while the worker's packages stay.                      *)

\* The calls are told apart by their names.
LEMMA CallsDiffer ==
    /\ NoCall.call = "none" /\ ClearCall.call = "clear"
    /\ \A i : RemoveCall(i).call = "remove" /\ RemoveCall(i).index = i
BY DEF NoCall, ClearCall, RemoveCall

\* The loaders stay right when the list changes, if the entries of their images
\* stay and no other entry takes one of those images.
LEMMA LoadersStay ==
    ASSUME PackagesOK, packages' = packages,
           ImagesOf(packages) \subseteq ImagesOf(m_files'),
           \A k \in DOMAIN m_files' :
              m_files'[k].image \in ImagesOf(packages) =>
                 \E j \in DOMAIN m_files : m_files'[k] = m_files[j]
    PROVE  PackagesOK'
<1>1. NoDanglingLoader'
  BY DEF NoDanglingLoader
<1>2. LoaderServesItsFile'
  <2> SUFFICES ASSUME NEW k \in DOMAIN packages, NEW j \in DOMAIN m_files',
                      packages[k].image = m_files'[j].image
               PROVE  packages[k].filename = m_files'[j].name
    BY DEF LoaderServesItsFile
  <2>1. m_files'[j].image \in ImagesOf(packages)
    BY DEF ImagesOf
  <2>2. PICK n \in DOMAIN m_files : m_files'[j] = m_files[n]
    BY <2>1
  <2> QED BY <2>2 DEF PackagesOK, LoaderServesItsFile
<1> QED BY <1>1, <1>2 DEF PackagesOK

\* An operation of Cacher that keeps the entries of the list.
LEMMA CachingPreserves ==
    ASSUME CacheInvariant, main \notin {"join", "closed"}, main' = "update",
           UNCHANGED <<workerVars, m_newMemoryLimit, shown>>, filling' \in BOOLEAN,
           pending' = NoCall, Consistent',
           \A k \in DOMAIN m_files' : m_files'[k].name \in Names,
           NEW flip \in BOOLEAN, apply_priorities(flip),
           ImagesOf(packages) \subseteq ImagesOf(m_files'),
           \A k \in DOMAIN m_files' :
              m_files'[k].image \in ImagesOf(packages) =>
                 \E j \in DOMAIN m_files : m_files'[k] = m_files[j]
    PROVE  CacheInvariant'
<1>1. ListOK' /\ (Count' > 0 => queue' # <<>> /\ queue'[1].image = CurrentImage')
  BY PrioritiesListOK
<1>2. HeadOK'
  BY <1>1 DEF HeadOK
<1>3. ThreadsOK' /\ StopOK'
  BY DEF CacheInvariant, ThreadsOK, StopOK, workerVars
<1>5. CallOK'
  BY CallsDiffer DEF CallOK
<1>6. PackagesOK'
  BY LoadersStay DEF CacheInvariant, workerVars
<1>7. BudgetOK'
  BY DEF CacheInvariant, BudgetOK, workerVars
<1> QED BY <1>1, <1>2, <1>3, <1>5, <1>6, <1>7 DEF CacheInvariant

\* Moving in the list, and asking again, keep the list.
LEMMA BrowsePreserves ==
    ASSUME CacheInvariant, main \in {"idle", "request"}, main' = "update", BrowseStep,
           UNCHANGED <<workerVars, m_newMemoryLimit, pending, shown>>, filling' \in BOOLEAN
    PROVE  CacheInvariant'
<1>1. ListConsistent
  BY DEF CacheInvariant, ListOK
<1>2. Consistent'
  BY <1>1, BrowseConsistent
<1>3. m_files' = m_files /\ \E flip \in BOOLEAN : apply_priorities(flip)
  BY DEF BrowseStep, FirstImage, LastImage, NextImage, PreviousImage, GotoImage, MoveTo,
         SettingsChanged
<1>4. \A k \in DOMAIN m_files' : m_files'[k].name \in Names
  BY <1>3 DEF CacheInvariant, ListOK
<1>5. ImagesOf(packages) \subseteq ImagesOf(m_files')
  BY <1>3 DEF CacheInvariant, PackagesOK, NoDanglingLoader
<1>6. PICK flip \in BOOLEAN : apply_priorities(flip)
  BY <1>3
<1>7. pending' = NoCall
  BY DEF CacheInvariant, CallOK
<1> QED BY <1>2, <1>3, <1>4, <1>5, <1>6, <1>7, CachingPreserves

\* The folder grew by one file, with an Image of its own.
LEMMA AddFilePreserves ==
    ASSUME CacheInvariant, NEW name \in Names, NEW image \in Images, AddFile(name, image)
    PROVE  CacheInvariant'
<1>1. ListOK /\ ThreadsOK /\ PackagesOK
  BY DEF CacheInvariant
<1>2. AddImageLast(name, image) /\ UNCHANGED workerVars
  BY DEF AddFile, Caching
<1>3. Consistent'
  BY <1>1, <1>2, AddConsistent DEF ListOK
<1> DEFINE e == [name |-> name, image |-> image]
<1>4. e.name = name /\ e.image = image
  OBVIOUS
<1>5. m_files \in Seq(Entry) /\ Count \in Nat /\ DOMAIN m_files = 1..Count /\ e \in Entry
  BY <1>1, ListFacts DEF Entry
<1>6. m_files' = Append(m_files, e)
  BY <1>2 DEF AddImageLast
<1> HIDE DEF e
<1>7. /\ DOMAIN m_files' = 1..(Count + 1) /\ m_files'[Count + 1] = e
      /\ \A k \in DOMAIN m_files : k \in DOMAIN m_files' /\ m_files'[k] = m_files[k]
      /\ \A k \in DOMAIN m_files' : k \in DOMAIN m_files \/ k = Count + 1
  BY <1>5, <1>6, AppendProperties DEF Count
<1>8. \A k \in DOMAIN m_files' : m_files'[k].name \in Names
  BY <1>1, <1>4, <1>7 DEF ListOK
<1>9. ImagesOf(packages) \subseteq ImagesOf(m_files)
  BY <1>1 DEF PackagesOK, NoDanglingLoader
<1>10. ImagesOf(packages) \subseteq ImagesOf(m_files')
  BY <1>7, <1>9 DEF ImagesOf
<1>11. image \notin ImagesOf(packages)
  BY <1>2, <1>9 DEF AddImageLast, Fresh
<1>12. \A k \in DOMAIN m_files' :
          m_files'[k].image \in ImagesOf(packages) =>
             \E j \in DOMAIN m_files : m_files'[k] = m_files[j]
  BY <1>4, <1>7, <1>11
<1>13. apply_priorities(FALSE) /\ FALSE \in BOOLEAN
  BY <1>2 DEF AddImageLast
<1>14. pending' = NoCall
  BY DEF CacheInvariant, CallOK, AddFile, Caching
<1> QED
  BY <1>1, <1>3, <1>8, <1>10, <1>12, <1>13, <1>14, CachingPreserves
  DEF AddFile, Caching, ThreadsOK

\* The list was sorted: the same entries, in some order.
LEMMA SortFilesPreserves ==
    ASSUME CacheInvariant, NEW files \in Reorderings(m_files), SortFiles(files)
    PROVE  CacheInvariant'
<1>1. ListOK /\ ThreadsOK /\ PackagesOK
  BY DEF CacheInvariant
<1>2. Sort(files) /\ m_files' = files
  BY DEF SortFiles, Caching, Sort
<1>3. Consistent'
  BY <1>1, <1>2, SortConsistent DEF ListOK
<1>4. {files[k] : k \in DOMAIN files} = {m_files[k] : k \in DOMAIN m_files}
  BY DEF Reorderings, ToSet
<1>5. /\ \A k \in DOMAIN files : \E j \in DOMAIN m_files : files[k] = m_files[j]
      /\ \A j \in DOMAIN m_files : \E k \in DOMAIN files : files[k] = m_files[j]
  BY <1>4
<1>6. \A k \in DOMAIN files : files[k].name \in Names
  BY <1>1, <1>5 DEF ListOK
<1>7. ImagesOf(m_files) \subseteq ImagesOf(files)
  BY <1>5 DEF ImagesOf
<1>8. ImagesOf(packages) \subseteq ImagesOf(files)
  BY <1>1, <1>7 DEF PackagesOK, NoDanglingLoader
<1>9. apply_priorities(FALSE) /\ FALSE \in BOOLEAN
  BY <1>2 DEF Sort
<1>10. pending' = NoCall
  BY DEF CacheInvariant, CallOK, SortFiles, Caching
<1> QED
  BY <1>1, <1>2, <1>3, <1>5, <1>6, <1>8, <1>9, <1>10, CachingPreserves
  DEF SortFiles, Caching, ThreadsOK

\* RemoveImage takes the one request for an image out, and keeps the others in
\* their order.
LEMMA WithoutRequestProperties ==
    ASSUME NEW q \in Seq(Request), DistinctImages(q), NEW image
    PROVE  LET p == WithoutRequest(q, image)
           IN  /\ p \in Seq(Request) /\ DistinctImages(p)
               /\ \A k \in DOMAIN p : \E j \in DOMAIN q : p[k] = q[j]
               /\ image \notin ImagesOf(p)
               /\ q # <<>> /\ q[1].image # image => p # <<>> /\ p[1] = q[1]
<1> DEFINE p == WithoutRequest(q, image)
           firsts == {k \in DOMAIN q : /\ q[k].image = image
                                       /\ \A j \in 1..(k - 1) : q[j].image # image}
<1>1. /\ Len(q) \in Nat /\ DOMAIN q = 1..Len(q)
      /\ q # <<>> => 1 \in DOMAIN q
  BY LenProperties, EmptySeq
<1>2. CASE \E n \in DOMAIN q : q[n].image = image
  <2>1. PICK n \in DOMAIN q : q[n].image = image
    BY <1>2
  <2>2. \A j \in DOMAIN q : q[j].image = image => j = n
    BY <2>1 DEF DistinctImages
  <2>3. firsts = {n}
    <3>1. \A j \in 1..(n - 1) : j \in DOMAIN q /\ j # n
      BY <1>1
    <3> QED BY <2>1, <2>2, <3>1
  <2>4. p = RemoveAt(q, n)
    <3>1. (CHOOSE k \in firsts : TRUE) = n /\ firsts # {}
      BY <2>3
    <3> QED BY <3>1 DEF WithoutRequest
  <2>5. /\ p \in Seq(Request) /\ Len(p) = Len(q) - 1
        /\ \A k \in 1..(Len(q) - 1) : p[k] = IF k < n THEN q[k] ELSE q[k + 1]
    BY <1>1, <2>4, RemoveAtProperties, ZenonT(60)
  <2>6. DOMAIN p = 1..(Len(q) - 1)
    BY <2>5, LenProperties
  <2> HIDE DEF p, firsts
  <2>7. ASSUME NEW k \in DOMAIN p
        PROVE  LET j == IF k < n THEN k ELSE k + 1
               IN  j \in DOMAIN q /\ p[k] = q[j] /\ j # n
    BY <1>1, <2>5, <2>6, <2>7
  <2>8. DistinctImages(p)
    <3> SUFFICES ASSUME NEW k \in DOMAIN p, NEW m \in DOMAIN p, p[k].image = p[m].image
                 PROVE  k = m
      BY DEF DistinctImages
    <3> DEFINE j(x) == IF x < n THEN x ELSE x + 1
    <3>1. j(k) \in DOMAIN q /\ p[k] = q[j(k)] /\ j(m) \in DOMAIN q /\ p[m] = q[j(m)]
      BY <2>7
    <3>2. j(k) = j(m)
      BY <3>1 DEF DistinctImages
    <3> QED BY <1>1, <2>6, <3>2
  <2>9. image \notin ImagesOf(p)
    <3> SUFFICES ASSUME NEW k \in DOMAIN p, p[k].image = image PROVE FALSE
      BY DEF ImagesOf
    <3> QED BY <2>2, <2>7
  <2>10. q # <<>> /\ q[1].image # image => p # <<>> /\ p[1] = q[1]
    <3> SUFFICES ASSUME q # <<>>, q[1].image # image PROVE p # <<>> /\ p[1] = q[1]
      OBVIOUS
    <3>1. 1 < n /\ 1 \in 1..(Len(q) - 1)
      BY <1>1, <2>1
    <3>2. p # <<>>
      BY <2>6, <3>1, EmptySeq
    <3> QED BY <2>5, <3>1, <3>2
  <2>11. \A k \in DOMAIN p : \E j \in DOMAIN q : p[k] = q[j]
    BY <2>7
  <2> QED BY <2>5, <2>8, <2>9, <2>10, <2>11 DEF p
<1>3. CASE \A n \in DOMAIN q : q[n].image # image
  <2>1. p = q
    <3>1. firsts = {}
      BY <1>3
    <3> QED BY <3>1 DEF WithoutRequest
  <2>2. image \notin ImagesOf(q)
    BY <1>3 DEF ImagesOf
  <2> HIDE DEF p
  <2> QED BY <2>1, <2>2 DEF p
<1> QED BY <1>2, <1>3

\* A call that only changes the requests, and what waits for the worker.
LEMMA CallingPreserves ==
    ASSUME CacheInvariant, main = "idle",
           UNCHANGED <<m_files, m_index, m_wentForward, m_wrapAround, workerVars>>,
           AsksFor(queue', m_files), CallOK', HeadOK', m_newMemoryLimit' \in Nat,
           main' \in {"updateWait", "limit"}, filling' \in BOOLEAN, shown' \in {shown, NoImage}
    PROVE  CacheInvariant'
<1>1. ListOK'
  BY DEF CacheInvariant, ListOK, ListConsistent, CacherTypeOK, IndexValid, AsksFor, Count
<1>2. ThreadsOK' /\ StopOK'
  BY DEF CacheInvariant, ThreadsOK, StopOK, workerVars
<1>3. PackagesOK'
  BY DEF CacheInvariant, PackagesOK, NoDanglingLoader, LoaderServesItsFile, workerVars
<1>4. BudgetOK'
  BY DEF CacheInvariant, BudgetOK, workerVars
<1> QED BY <1>1, <1>2, <1>3, <1>4 DEF CacheInvariant

\* A file is to go: its image leaves the requests, and nothing else does.
LEMMA RemoveFilePreserves ==
    ASSUME CacheInvariant, NEW i \in 0..(Count - 1), RemoveFile(i)
    PROVE  CacheInvariant'
<1> DEFINE image == At(m_files, i).image
<1>1. ListOK /\ ThreadsOK /\ HeadOK /\ CallOK
  BY DEF CacheInvariant
<1>2. /\ main = "idle" /\ queue' = WithoutRequest(queue, image)
      /\ pending' = RemoveCall(i) /\ main' = "updateWait"
      /\ UNCHANGED <<m_files, m_index, m_wentForward, m_wrapAround, workerVars,
                     m_newMemoryLimit, viewVars>>
  BY DEF RemoveFile
<1>3. /\ queue \in Seq(Request) /\ DistinctImages(queue)
      /\ m_files \in Seq(Entry) /\ DistinctImages(m_files)
      /\ Count \in Nat /\ Count = Len(m_files) /\ DOMAIN m_files = 1..Count
      /\ Count > 0 => m_index \in 0..(Count - 1)
  BY <1>1, ListFacts
<1>4. /\ queue' \in Seq(Request) /\ DistinctImages(queue')
      /\ \A k \in DOMAIN queue' : \E j \in DOMAIN queue : queue'[k] = queue[j]
      /\ image \notin ImagesOf(queue')
      /\ queue # <<>> /\ queue[1].image # image => queue' # <<>> /\ queue'[1] = queue[1]
  BY <1>2, <1>3, WithoutRequestProperties
<1>5. AsksFor(queue', m_files)
  BY <1>1, <1>4 DEF ListOK, AsksFor
<1>6. Count' = Count
  BY <1>2 DEF Count
<1>7. CallOK'
  <2>1. \A n : pending' = RemoveCall(n) => n = i
    BY <1>2, CallsDiffer, ZenonT(60)
  <2>2. \A n : pending' = RemoveCall(n) => At(m_files', n).image \notin ImagesOf(queue')
    BY <1>2, <1>4, <2>1
  <2>3. pending' # ClearCall
    BY <1>2, CallsDiffer
  <2> QED BY <1>2, <1>6, <2>2, <2>3 DEF CallOK
<1>8. HeadOK'
  <2> SUFFICES ASSUME Count > 0, ~Removing' PROVE queue' # <<>> /\ queue'[1].image = CurrentImage'
    BY <1>6 DEF HeadOK
  <2>1. i # m_index
    BY <1>2 DEF Removing
  <2>2. CurrentImage = m_files[m_index + 1].image /\ CurrentImage' = CurrentImage
    BY <1>2, <1>3, <1>6 DEF CurrentImage, At
  <2>3. CurrentImage # image
    <3>1. i + 1 \in DOMAIN m_files /\ m_index + 1 \in DOMAIN m_files /\ i + 1 # m_index + 1
      BY <1>3, <2>1
    <3> QED BY <1>3, <2>2, <3>1 DEF DistinctImages, At
  <2>4. ~Removing
    BY <1>1, <1>2, CallsDiffer DEF CallOK, Removing
  <2> QED BY <1>1, <1>4, <2>2, <2>3, <2>4 DEF HeadOK
<1>9. m_newMemoryLimit' \in Nat /\ filling' \in BOOLEAN /\ shown' = shown
  BY <1>1, <1>2 DEF ThreadsOK, viewVars
<1> QED BY <1>2, <1>5, <1>7, <1>8, <1>9, CallingPreserves

\* The list is to go: the requests go first.
LEMMA ClearFilesPreserves ==
    ASSUME CacheInvariant, NEW refill \in BOOLEAN, ClearFiles(refill)
    PROVE  CacheInvariant'
<1>1. AsksFor(queue', m_files)
  BY DEF ClearFiles, AsksFor, DistinctImages
<1>2. CallOK' /\ HeadOK'
  BY CallsDiffer DEF ClearFiles, CallOK, HeadOK, Removing
<1> QED
  BY <1>1, <1>2, CallingPreserves DEF ClearFiles, CacheInvariant, ThreadsOK

\* A new limit, which the worker has not seen yet.
LEMMA SetLimitPreserves ==
    ASSUME CacheInvariant, NEW limit \in Limits, SetLimit(limit)
    PROVE  CacheInvariant'
<1>1. AsksFor(queue', m_files)
  BY DEF SetLimit, cacherVars, CacheInvariant, ListOK
<1>2. CallOK' /\ HeadOK'
  BY CallsDiffer
  DEF SetLimit, CallOK, HeadOK, Removing, CacheInvariant, cacherVars, Count, CurrentImage
<1>3. m_newMemoryLimit' \in Nat
  BY CacheAssumption DEF SetLimit
<1> QED
  BY <1>1, <1>2, <1>3, CallingPreserves
  DEF SetLimit, CacheInvariant, ThreadsOK, cacherVars, viewVars

-----------------------------------------------------------------------------
(* The worker's packages.                                                  *)

\* Setting and resetting the abort flag leaves the work as it is.
LEMMA ChangedKeeps ==
    ASSUME NEW ps \in Seq(Loader), NEW image,
           NEW qs \in {Changed(ps, image, Abort), Changed(ps, image, ResetAbort)}
    PROVE  /\ qs \in Seq(Loader) /\ Len(qs) = Len(ps) /\ DOMAIN qs = DOMAIN ps
           /\ \A k \in DOMAIN ps : /\ qs[k].image = ps[k].image
                                   /\ qs[k].filename = ps[k].filename
                                   /\ qs[k].state = ps[k].state
<1>1. /\ Len(ps) \in Nat /\ DOMAIN ps = 1..Len(ps)
      /\ \A k \in DOMAIN ps : ps[k] \in Loader
  BY LenProperties, ElementOfSeq
<1>2. DOMAIN qs = DOMAIN ps
  BY DEF Changed
<1>3. \A k \in DOMAIN ps : qs[k] \in {ps[k], Abort(ps[k]), ResetAbort(ps[k])}
  BY DEF Changed
<1>4. ASSUME NEW k \in DOMAIN ps
      PROVE  /\ qs[k] \in Loader /\ qs[k].image = ps[k].image
             /\ qs[k].filename = ps[k].filename /\ qs[k].state = ps[k].state
  <2>1. CASE qs[k] = ps[k]
    BY <1>1, <2>1
  <2>2. CASE qs[k] \in {Abort(ps[k]), ResetAbort(ps[k])}
    BY <1>1, <2>2, AbortKeeps
  <2> QED BY <1>3, <2>1, <2>2
<1>5. qs = [k \in 1..Len(ps) |-> qs[k]]
  BY <1>1, <1>2 DEF Changed
<1>6. qs \in Seq(Loader) /\ Len(qs) = Len(ps)
  <2>1. \A k \in 1..Len(ps) : qs[k] \in Loader
    BY <1>1, <1>4
  <2>2. [k \in 1..Len(ps) |-> qs[k]] \in Seq(Loader)
    BY <1>1, <2>1, IsASeq
  <2> QED BY <1>1, <1>2, <1>5, <2>2, LenProperties
<1> QED BY <1>2, <1>4, <1>6

\* The packages change, but not what they are for; none of them takes more
\* memory than before, and those that begin to hold data have room for it.
LEMMA WorkPreserves ==
    ASSUME PackagesOK, ThreadsOK,
           m_files' = m_files, m_memoryLimit' = m_memoryLimit,
           WithinBudget(packages, m_memoryLimit),
           packages' \in Seq(Loader), Len(packages') = Len(packages),
           \A k \in DOMAIN packages :
              /\ packages'[k].image = packages[k].image
              /\ packages'[k].filename = packages[k].filename
              /\ MemoryRequirements(packages'[k]) <= MemoryRequirements(packages[k])
              /\ HoldsData(packages'[k]) /\ packages'[k].state # "Error" =>
                    \/ HoldsData(packages[k]) /\ packages[k].state # "Error"
                    \/ Fits(packages, k, m_memoryLimit)
    PROVE  /\ PackagesOK' /\ ImagesOf(packages') = ImagesOf(packages)
           /\ WithinBudget(packages', m_memoryLimit')
<1>1. packages \in Seq(Loader) /\ m_memoryLimit \in Nat
  BY DEF PackagesOK, ThreadsOK
<1>2. DOMAIN packages' = DOMAIN packages
  BY <1>1, LenProperties
<1>3. ImagesOf(packages') = ImagesOf(packages)
  BY <1>2 DEF ImagesOf
<1>4. DistinctImages(packages')
  BY <1>2 DEF PackagesOK, DistinctImages
<1>5. NoDanglingLoader'
  BY <1>3 DEF PackagesOK, NoDanglingLoader
<1>6. LoaderServesItsFile'
  BY <1>2 DEF PackagesOK, LoaderServesItsFile
<1>7. WithinBudget(packages', m_memoryLimit')
  BY <1>1, BudgetStays
<1> QED BY <1>3, <1>4, <1>5, <1>6, <1>7 DEF PackagesOK

\* A change of the abort flags leaves the packages right and within the budget.
LEMMA AbortPreserves ==
    ASSUME PackagesOK, ThreadsOK, BudgetOK,
           m_files' = m_files, m_memoryLimit' = m_memoryLimit, m_package' = m_package,
           worker' = "loading" => worker = "loading",
           packages' \in {packages, Changed(packages, m_package, Abort),
                          Changed(packages, m_package, ResetAbort)}
    PROVE  PackagesOK' /\ BudgetOK' /\ ImagesOf(packages') = ImagesOf(packages)
<1>1. packages \in Seq(Loader) /\ m_memoryLimit \in Nat
  BY DEF PackagesOK, ThreadsOK
<1>2. /\ packages' \in Seq(Loader) /\ Len(packages') = Len(packages)
      /\ DOMAIN packages' = DOMAIN packages
      /\ \A k \in DOMAIN packages : /\ packages'[k].image = packages[k].image
                                    /\ packages'[k].filename = packages[k].filename
                                    /\ packages'[k].state = packages[k].state
  <2>1. CASE packages' = packages
    BY <1>1, <2>1
  <2>2. CASE packages' \in {Changed(packages, m_package, Abort),
                            Changed(packages, m_package, ResetAbort)}
    BY <1>1, <2>2, ChangedKeeps
  <2> QED BY <2>1, <2>2
<1>3. \A k \in DOMAIN packages :
         /\ MemoryRequirements(packages'[k]) = MemoryRequirements(packages[k])
         /\ MemoryRequirements(packages[k]) \in Nat
         /\ HoldsData(packages'[k]) <=> HoldsData(packages[k])
  <2>1. \A k \in DOMAIN packages : packages[k] \in Loader
    BY <1>1, LenProperties, ElementOfSeq
  <2>2. \A k \in DOMAIN packages : MemoryRequirements(packages[k]) \in Nat
    BY <2>1, LoaderNumbers
  <2> QED BY <1>2, <2>2 DEF MemoryRequirements, HoldsData, IsLoad, GetState
<1>4. /\ PackagesOK' /\ ImagesOf(packages') = ImagesOf(packages)
      /\ WithinBudget(packages', m_memoryLimit')
  <2>1. \A k \in DOMAIN packages :
           /\ MemoryRequirements(packages'[k]) <= MemoryRequirements(packages[k])
           /\ HoldsData(packages'[k]) /\ packages'[k].state # "Error" =>
                 HoldsData(packages[k]) /\ packages[k].state # "Error"
    BY <1>2, <1>3
  <2> QED BY <1>2, <2>1, WorkPreserves DEF BudgetOK
<1>5. BudgetOK'
  <2> SUFFICES ASSUME worker' = "loading", NEW k \in DOMAIN packages',
                      packages'[k].image = m_package', packages'[k].state # "Unprocessed"
               PROVE  Fits(packages', k, m_memoryLimit')
    BY <1>4 DEF BudgetOK
  <2>1. k \in DOMAIN packages /\ Fits(packages, k, m_memoryLimit)
    BY <1>2 DEF BudgetOK
  <2>2. \A j \in DOMAIN packages :
           MemoryRequirements(packages'[j]) <= MemoryRequirements(packages[j])
    BY <1>3
  <2> QED BY <1>1, <1>2, <2>1, <2>2, FitsStays
<1> QED BY <1>4, <1>5

-----------------------------------------------------------------------------
(* The main thread and the worker, one step at a time.                     *)

\* A step that leaves the list, the requests and the call alone.
LEMMA ListStays ==
    ASSUME ListOK, HeadOK, UNCHANGED <<cacherVars, pending>>
    PROVE  ListOK' /\ HeadOK' /\ Count' = Count
BY DEF ListOK, HeadOK, Removing, ListConsistent, CacherTypeOK, IndexValid, AsksFor, Count,
       CurrentImage, cacherVars

\* The call still waits, and the worker still holds nothing it should not.
LEMMA CallStays ==
    ASSUME CallOK, UNCHANGED <<cacherVars, pending>>,
           main \in {"updateWait", "waiting", "woken"} <=>
                main' \in {"updateWait", "waiting", "woken"},
           main' = "woken" => ImagesOf(packages') \subseteq ImagesOf(queue)
    PROVE  CallOK'
BY DEF CallOK, Count, cacherVars

\* What the main thread shows is an image of the list, or none.
LEMMA CurrentImageType == ASSUME ListOK PROVE CurrentImage \in Images \cup {NoImage}
<1>1. /\ Count \in Nat /\ DOMAIN m_files = 1..Count
      /\ \A k \in DOMAIN m_files : m_files[k].image \in Images
      /\ Count > 0 => m_index \in 0..(Count - 1)
  BY ListFacts
<1>2. CASE Count = 0
  BY <1>2 DEF CurrentImage
<1>3. CASE Count # 0
  <2>1. m_index + 1 \in DOMAIN m_files
    BY <1>1, <1>3
  <2> QED BY <1>1, <1>3, <2>1 DEF CurrentImage, At
<1> QED BY <1>2, <1>3

\* Update tells a worker that runs.
LEMMA UpdatePreserves ==
    ASSUME CacheInvariant, Update, main \in {"update", "updateWait", "limit"},
           UNCHANGED <<cacherVars, m_package, m_memoryLimit, finished, m_newMemoryLimit,
                       pending, filling>>,
           main' \in {"idle", "waiting", "request"}, main' = "waiting" <=> main = "updateWait",
           shown' \in Images \cup {NoImage}
    PROVE  CacheInvariant' /\ ImagesOf(packages') = ImagesOf(packages)
<1>1. /\ m_state' = "Updating" /\ worker' = GotWork
      /\ packages' = Changed(packages, m_package, Abort)
  BY DEF Update, CacheInvariant, StopOK
<1>2. ListOK' /\ HeadOK'
  BY ListStays DEF CacheInvariant
<1>3. ThreadsOK' /\ StopOK'
  BY <1>1 DEF CacheInvariant, ThreadsOK, StopOK, GotWork
<1>4. CallOK'
  BY CallStays DEF CacheInvariant
<1>5. PackagesOK' /\ BudgetOK' /\ ImagesOf(packages') = ImagesOf(packages)
  BY <1>1, AbortPreserves DEF CacheInvariant, GotWork, cacherVars
<1> QED BY <1>2, <1>3, <1>4, <1>5 DEF CacheInvariant

\* The main thread's calls of Update.
LEMMA MainUpdatesPreserve ==
    ASSUME CacheInvariant, UpdateAndShow \/ UpdateAndWait \/ UpdateLimit
    PROVE  CacheInvariant' /\ ImagesOf(packages') = ImagesOf(packages)
<1>1. CASE UpdateAndShow
  BY <1>1, CurrentImageType, UpdatePreserves DEF UpdateAndShow, CacheInvariant, ThreadsOK
<1>2. CASE UpdateAndWait
  <2>1. main' = "waiting"
    BY <1>2 DEF UpdateAndWait, AfterUpdate, CacheInvariant, StopOK
  <2> QED BY <1>2, <2>1, UpdatePreserves DEF UpdateAndWait, CacheInvariant, ThreadsOK, viewVars
<1>3. CASE UpdateLimit
  BY <1>3, UpdatePreserves DEF UpdateLimit, CacheInvariant, ThreadsOK, viewVars
<1> QED BY <1>1, <1>2, <1>3

\* Once woken the main thread erases the entry, which nothing uses any more.
LEMMA FinishRemovePreserves ==
    ASSUME CacheInvariant, FinishRemove
    PROVE  CacheInvariant'
<1>1. ListOK /\ ThreadsOK /\ PackagesOK /\ CallOK
  BY DEF CacheInvariant
<1>2. PICK i \in 0..(Count - 1) : pending = RemoveCall(i)
  BY <1>1, CallsDiffer DEF FinishRemove, CallOK
<1>3. RemoveImageIndex(i)
  BY <1>2, CallsDiffer DEF FinishRemove
<1>4. ListConsistent /\ Consistent'
  BY <1>1, <1>3, RemoveConsistent DEF ListOK
<1>5. m_files' = RemoveAt(m_files, i + 1)
  BY <1>3 DEF RemoveImageIndex
<1>6. /\ m_files \in Seq(Entry) /\ DistinctImages(m_files) /\ Count = Len(m_files)
      /\ Count \in Nat /\ DOMAIN m_files = 1..Count
      /\ \A k \in DOMAIN m_files : m_files[k].image \in Images
  BY <1>1, ListFacts
<1>7. /\ m_files' \in Seq(Entry) /\ Len(m_files') = Count - 1
      /\ \A k \in 1..(Count - 1) : m_files'[k] = m_files[IF k < i + 1 THEN k ELSE k + 1]
  BY <1>5, <1>6, RemoveAtProperties
<1>8. DOMAIN m_files' = 1..(Count - 1)
  BY <1>7, LenProperties
<1>9. \A k \in DOMAIN m_files' : \E j \in DOMAIN m_files : m_files'[k] = m_files[j]
  BY <1>6, <1>7, <1>8
<1>10. \A j \in DOMAIN m_files :
          j # i + 1 => \E k \in DOMAIN m_files' : m_files'[k] = m_files[j]
  <2> SUFFICES ASSUME NEW j \in DOMAIN m_files, j # i + 1
               PROVE  \E k \in DOMAIN m_files' : m_files'[k] = m_files[j]
    OBVIOUS
  <2> DEFINE k == IF j < i + 1 THEN j ELSE j - 1
  <2>1. k \in 1..(Count - 1) /\ (IF k < i + 1 THEN k ELSE k + 1) = j
    BY <1>6
  <2> HIDE DEF k
  <2> QED BY <1>7, <1>8, <2>1
<1>11. \A k \in DOMAIN m_files' : m_files'[k].name \in Names
  BY <1>1, <1>9 DEF ListOK
<1>12. ImagesOf(packages) \subseteq ImagesOf(m_files')
  <2> SUFFICES ASSUME NEW image \in ImagesOf(packages) PROVE image \in ImagesOf(m_files')
    OBVIOUS
  <2>1. image \in ImagesOf(queue) /\ image # At(m_files, i).image
    BY <1>1, <1>2 DEF FinishRemove, CallOK
  <2>2. PICK j \in DOMAIN m_files : image = m_files[j].image
    BY <1>1 DEF PackagesOK, NoDanglingLoader, ImagesOf
  <2>3. j # i + 1
    BY <2>1, <2>2 DEF At
  <2> QED BY <1>10, <2>2, <2>3 DEF ImagesOf
<1>13. apply_priorities(FALSE) /\ FALSE \in BOOLEAN
  BY <1>3 DEF RemoveImageIndex
<1> QED
  BY <1>1, <1>4, <1>9, <1>11, <1>12, <1>13, CachingPreserves
  DEF FinishRemove, ThreadsOK, viewVars

\* Once woken the main thread frees the whole list.
LEMMA FinishClearPreserves ==
    ASSUME CacheInvariant, FinishClear
    PROVE  CacheInvariant'
<1>1. ListOK /\ ThreadsOK /\ PackagesOK /\ CallOK
  BY DEF CacheInvariant
<1>2. pending = ClearCall
  BY <1>1, CallsDiffer DEF FinishClear, CallOK
<1>3. /\ main = "woken" /\ main' = "idle" /\ pending' = NoCall /\ Clear
      /\ UNCHANGED <<workerVars, m_newMemoryLimit, viewVars>>
  BY DEF FinishClear
<1>4. ImagesOf(packages) = {}
  BY <1>1, <1>2, <1>3, SMTT(60) DEF CallOK, ImagesOf
<1>5. ListConsistent'
  BY <1>1, <1>3, ClearConsistent DEF ListOK, Consistent
<1>6. m_files' = <<>> /\ queue' = <<>> /\ Count' = 0
  BY <1>3 DEF Clear, Count
<1>7. ListOK' /\ HeadOK'
  BY <1>5, <1>6 DEF ListOK, HeadOK, AsksFor, DistinctImages
<1>8. ThreadsOK' /\ StopOK'
  BY <1>1, <1>3 DEF CacheInvariant, ThreadsOK, StopOK, workerVars, viewVars
<1>9. CallOK'
  BY <1>3, CallsDiffer DEF CallOK
<1>10. PackagesOK'
  BY <1>1, <1>3, <1>4, <1>6
  DEF PackagesOK, NoDanglingLoader, LoaderServesItsFile, workerVars
<1>11. BudgetOK'
  BY <1>3 DEF CacheInvariant, BudgetOK, workerVars
<1> QED BY <1>7, <1>8, <1>9, <1>10, <1>11 DEF CacheInvariant

\* The end: the worker is told to stop, and what it held goes once it has.
LEMMA StopPreserves ==
    ASSUME CacheInvariant, Stop
    PROVE  CacheInvariant' /\ ImagesOf(packages') = ImagesOf(packages)
<1>1. ListOK' /\ HeadOK'
  BY ListStays DEF CacheInvariant, Stop
<1>2. ThreadsOK' /\ StopOK'
  BY DEF CacheInvariant, ThreadsOK, StopOK, Stop, GotWork, viewVars
<1>3. CallOK'
  BY CallStays DEF CacheInvariant, Stop
<1>4. PackagesOK' /\ BudgetOK' /\ ImagesOf(packages') = ImagesOf(packages)
  BY AbortPreserves DEF CacheInvariant, Stop, GotWork, cacherVars
<1> QED BY <1>1, <1>2, <1>3, <1>4 DEF CacheInvariant

\* An empty work list is within any budget.
LEMMA NoPackagesOK ==
    /\ \A limit : WithinBudget(<<>>, limit)
    /\ <<>> \in Seq(Loader) /\ DistinctImages(<<>>) /\ ImagesOf(<<>>) = {}
<1>1. DOMAIN <<>> = {}
  OBVIOUS
<1>2. ASSUME NEW limit PROVE WithinBudget(<<>>, limit)
  BY <1>1 DEF WithinBudget
<1> QED BY <1>1, <1>2 DEF DistinctImages, ImagesOf

\* join returns, and the work list goes with the thread.
LEMMA JoinPreserves == ASSUME CacheInvariant, Join PROVE CacheInvariant'
<1>1. ListOK' /\ HeadOK'
  BY ListStays DEF CacheInvariant, Join
<1>2. ThreadsOK' /\ StopOK'
  BY DEF CacheInvariant, ThreadsOK, StopOK, Join, viewVars
<1>3. CallOK'
  BY CallStays DEF CacheInvariant, Join
<1>4. PackagesOK' /\ BudgetOK'
  BY NoPackagesOK
  DEF Join, CacheInvariant, PackagesOK, BudgetOK, NoDanglingLoader, LoaderServesItsFile
<1> QED BY <1>1, <1>2, <1>3, <1>4 DEF CacheInvariant

-----------------------------------------------------------------------------
(* The worker.                                                             *)

\* What FetchPackage answers may be loaded.
LEMMA FetchFits ==
    ASSUME NEW ps \in Seq(Loader), DistinctImages(ps), NEW limit
    PROVE  /\ FetchPackage(ps, limit) \in Images \cup {NoImage}
           /\ \A k \in DOMAIN ps :
                ps[k].image = FetchPackage(ps, limit) =>
                    ps[k].state = "Unprocessed" \/ Fits(ps, k, limit)
<1> DEFINE image == FetchPackage(ps, limit)
<1>1. \A k \in DOMAIN ps : ps[k].image \in Images
  <2>1. \A k \in DOMAIN ps : ps[k] \in Loader
    BY LenProperties, ElementOfSeq
  <2> QED BY <2>1 DEF Loader
<1>2. CASE image = NoImage
  BY <1>1, <1>2, RequestAssumption
<1>3. CASE image # NoImage
  <2>1. PICK k \in DOMAIN ps, fastPass \in BOOLEAN :
           /\ image = ps[k].image
           /\ SuitableWorkPackage(ps[k], UsedBefore(ps, k), limit, fastPass)
    BY <1>3, FetchesSuitable
  <2>2. ps[k].state = "Unprocessed" \/ Fits(ps, k, limit)
    BY <2>1 DEF SuitableWorkPackage, Fits
  <2>3. \A j \in DOMAIN ps : ps[j].image = image => j = k
    BY <2>1 DEF DistinctImages
  <2> QED BY <1>1, <2>1, <2>2, <2>3
<1> QED BY <1>2, <1>3

\* The requests can be rebuilt from.
LEMMA QueueRebuildable ==
    ASSUME ListOK, PackagesOK PROVE Rebuildable(packages, queue)
<1>1. /\ queue \in Seq(Request) /\ DistinctImages(queue)
      /\ \A k \in DOMAIN queue :
            queue[k].image # NoImage => \E j \in DOMAIN m_files : queue[k] = RequestOf(m_files[j])
  BY DEF ListOK, AsksFor
<1>2. ASSUME NEW k \in DOMAIN queue, queue[k].image # NoImage
      PROVE  queue[k].filename \in Names
  <2>1. PICK j \in DOMAIN m_files : queue[k] = RequestOf(m_files[j])
    BY <1>1, <1>2
  <2> QED BY <2>1 DEF RequestOf, ListOK
<1> QED BY <1>1, <1>2 DEF Rebuildable, PackagesOK

\* The packages after a rebuild are right, whatever the ones before it were for.
LEMMA RebuildPreserves ==
    ASSUME ListOK, PackagesOK, NEW limit \in Nat, NEW rebuilt,
           rebuilt = Rebuild(packages, queue, limit)
    PROVE  /\ rebuilt \in Seq(Loader) /\ DistinctImages(rebuilt)
           /\ ImagesOf(rebuilt) = ImagesOf(queue) \ {NoImage}
           /\ ImagesOf(rebuilt) \subseteq ImagesOf(m_files)
           /\ \A k \in DOMAIN rebuilt, j \in DOMAIN m_files :
                rebuilt[k].image = m_files[j].image => rebuilt[k].filename = m_files[j].name
<1>1. /\ rebuilt \in Seq(Loader) /\ DistinctImages(rebuilt)
      /\ ImagesOf(rebuilt) = ImagesOf(queue) \ {NoImage}
      /\ \A k \in DOMAIN rebuilt : \E j \in DOMAIN queue :
            Serves(rebuilt[k], queue[j], packages)
  BY QueueRebuildable, RebuildServes
<1>2. \A k \in DOMAIN queue :
         queue[k].image # NoImage => \E j \in DOMAIN m_files : queue[k] = RequestOf(m_files[j])
  BY DEF ListOK, AsksFor
<1>3. \A j \in DOMAIN m_files : /\ RequestOf(m_files[j]).image = m_files[j].image
                                /\ RequestOf(m_files[j]).filename = m_files[j].name
  BY DEF RequestOf
<1>4. ImagesOf(rebuilt) \subseteq ImagesOf(m_files)
  <2> SUFFICES ASSUME NEW k \in DOMAIN queue, queue[k].image # NoImage
               PROVE  queue[k].image \in ImagesOf(m_files)
    BY <1>1 DEF ImagesOf
  <2>1. PICK j \in DOMAIN m_files : queue[k] = RequestOf(m_files[j])
    BY <1>2
  <2> QED BY <1>3, <2>1 DEF ImagesOf
<1>5. ASSUME NEW k \in DOMAIN rebuilt, NEW j \in DOMAIN m_files,
             rebuilt[k].image = m_files[j].image
      PROVE  rebuilt[k].filename = m_files[j].name
  <2>1. PICK n \in DOMAIN queue : Serves(rebuilt[k], queue[n], packages)
    BY <1>1
  <2>2. rebuilt[k].image = queue[n].image
    BY <2>1 DEF Serves
  <2>3. CASE \E i \in DOMAIN packages : /\ packages[i].image = rebuilt[k].image
                                        /\ packages[i].filename = rebuilt[k].filename
    BY <1>5, <2>3 DEF PackagesOK, LoaderServesItsFile
  <2>4. CASE rebuilt[k].filename = queue[n].filename
    <3>1. queue[n].image # NoImage
      BY <1>1, <2>2 DEF ImagesOf
    <3>2. PICK m \in DOMAIN m_files : queue[n] = RequestOf(m_files[m])
      BY <1>2, <3>1
    <3>3. m_files[m].image = m_files[j].image
      BY <1>3, <1>5, <2>2, <3>2
    <3>4. m = j
      BY <3>3, ListFacts DEF DistinctImages
    <3> QED BY <1>3, <2>4, <3>2, <3>4
  <2> QED BY <2>1, <2>3, <2>4 DEF Serves
<1> QED BY <1>1, <1>4, <1>5

\* A rebuild, for the requests of that moment, and the next load.
LEMMA WorkerUpdatePreserves == ASSUME CacheInvariant, WorkerUpdate PROVE CacheInvariant'
<1>1. ListOK /\ ThreadsOK /\ StopOK /\ CallOK /\ HeadOK /\ PackagesOK
  BY DEF CacheInvariant
<1> DEFINE rebuilt == Rebuild(packages, queue, m_newMemoryLimit)
           image == FetchPackage(rebuilt, m_newMemoryLimit)
<1>2. /\ packages' = rebuilt /\ m_memoryLimit' = m_newMemoryLimit
      /\ finished' = [i \in Images |-> finished[i] /\ i \notin Deallocated(packages, rebuilt)]
      /\ worker' = IF image = NoImage THEN "waiting" ELSE "loading"
      /\ m_package' = image
      /\ m_state = "Updating" /\ m_state' = "Running" /\ main' = Updated
      /\ UNCHANGED <<cacherVars, m_newMemoryLimit, pending, viewVars>>
  BY DEF WorkerUpdate, WorkOn
<1>3. m_newMemoryLimit \in Nat
  BY <1>1 DEF ThreadsOK
<1>4. /\ rebuilt \in Seq(Loader) /\ DistinctImages(rebuilt)
      /\ ImagesOf(rebuilt) = ImagesOf(queue) \ {NoImage}
      /\ ImagesOf(rebuilt) \subseteq ImagesOf(m_files)
      /\ \A k \in DOMAIN rebuilt, j \in DOMAIN m_files :
            rebuilt[k].image = m_files[j].image => rebuilt[k].filename = m_files[j].name
  BY <1>1, <1>3, RebuildPreserves
<1>5. WithinBudget(rebuilt, m_newMemoryLimit)
  BY <1>1, <1>3, QueueRebuildable, RebuildWithinBudget
<1> HIDE DEF rebuilt
<1>6. /\ image \in Images \cup {NoImage}
      /\ \A k \in DOMAIN rebuilt :
            rebuilt[k].image = image =>
               rebuilt[k].state = "Unprocessed" \/ Fits(rebuilt, k, m_newMemoryLimit)
  BY <1>4, FetchFits
<1> HIDE DEF image
<1>7. ListOK' /\ HeadOK'
  BY <1>1, <1>2, ListStays
<1>8. ThreadsOK' /\ StopOK'
  <2>1. finished' \in [Images -> BOOLEAN]
    BY <1>1, <1>2 DEF ThreadsOK
  <2> QED BY <1>1, <1>2, <1>6, <2>1 DEF ThreadsOK, StopOK, Updated, viewVars
<1>9. CallOK'
  BY <1>1, <1>2, <1>4, CallStays DEF Updated
<1>10. PackagesOK'
  BY <1>2, <1>4 DEF PackagesOK, NoDanglingLoader, LoaderServesItsFile, cacherVars
<1>11. BudgetOK'
  BY <1>2, <1>5, <1>6 DEF BudgetOK
<1> QED BY <1>7, <1>8, <1>9, <1>10, <1>11 DEF CacheInvariant

\* The next load, or none.
LEMMA WorkerFetchPreserves == ASSUME CacheInvariant, WorkerFetch PROVE CacheInvariant'
<1>1. ListOK /\ ThreadsOK /\ StopOK /\ CallOK /\ HeadOK /\ PackagesOK /\ BudgetOK
  BY DEF CacheInvariant
<1> DEFINE image == FetchPackage(packages, m_memoryLimit)
<1>2. /\ worker' = IF image = NoImage THEN "waiting" ELSE "loading"
      /\ m_package' = IF image = NoImage THEN m_package ELSE image
      /\ UNCHANGED <<cacherVars, m_state, packages, m_memoryLimit, finished,
                     m_newMemoryLimit, main, pending, viewVars>>
  BY DEF WorkerFetch
<1>3. /\ image \in Images \cup {NoImage}
      /\ \A k \in DOMAIN packages :
            packages[k].image = image =>
               packages[k].state = "Unprocessed" \/ Fits(packages, k, m_memoryLimit)
  BY <1>1, FetchFits DEF PackagesOK
<1> HIDE DEF image
<1>4. ListOK' /\ HeadOK'
  BY <1>1, <1>2, ListStays
<1>5. ThreadsOK' /\ StopOK'
  BY <1>1, <1>2, <1>3 DEF ThreadsOK, StopOK, viewVars
<1>6. CallOK'
  BY <1>1, <1>2, CallStays DEF CallOK
<1>7. PackagesOK'
  BY <1>1, <1>2 DEF PackagesOK, NoDanglingLoader, LoaderServesItsFile, cacherVars
<1>8. BudgetOK'
  BY <1>1, <1>2, <1>3 DEF BudgetOK
<1> QED BY <1>4, <1>5, <1>6, <1>7, <1>8 DEF CacheInvariant

\* The thread ends, once it was told to.
LEMMA WorkerExitPreserves == ASSUME CacheInvariant, WorkerExit PROVE CacheInvariant'
<1>1. ListOK' /\ HeadOK'
  BY ListStays DEF CacheInvariant, WorkerExit
<1>2. ThreadsOK' /\ StopOK'
  BY DEF CacheInvariant, ThreadsOK, StopOK, WorkerExit, viewVars
<1>3. CallOK'
  BY CallStays DEF CacheInvariant, CallOK, WorkerExit
<1>4. PackagesOK' /\ BudgetOK'
  BY AbortPreserves DEF CacheInvariant, WorkerExit, cacherVars
<1> QED BY <1>1, <1>2, <1>3, <1>4 DEF CacheInvariant

\* The abort flag is reset on the way back.
LEMMA WorkerReturnPreserves ==
    ASSUME CacheInvariant, WorkerReturn
    PROVE  CacheInvariant' /\ ImagesOf(packages') = ImagesOf(packages)
<1>1. ListOK' /\ HeadOK'
  BY ListStays DEF CacheInvariant, WorkerReturn
<1>2. ThreadsOK' /\ StopOK'
  BY DEF CacheInvariant, ThreadsOK, StopOK, WorkerReturn, viewVars
<1>3. PackagesOK' /\ BudgetOK' /\ ImagesOf(packages') = ImagesOf(packages)
  BY AbortPreserves DEF CacheInvariant, WorkerReturn, cacherVars
<1>4. CallOK'
  BY <1>3, CallStays DEF CacheInvariant, CallOK, WorkerReturn
<1> QED BY <1>1, <1>2, <1>3, <1>4 DEF CacheInvariant

\* One step of a load that fits: the loader keeps its image and its file, and
\* needs no more than was estimated.
LEMMA WorkerLoadPreserves ==
    ASSUME CacheInvariant, WorkerLoad
    PROVE  CacheInvariant' /\ ImagesOf(packages') = ImagesOf(packages)
<1>1. ListOK /\ ThreadsOK /\ StopOK /\ CallOK /\ HeadOK /\ PackagesOK /\ BudgetOK
  BY DEF CacheInvariant
<1>2. PICK k \in DOMAIN packages :
         /\ packages[k].image = m_package
         /\ \E result \in Load(packages[k]) :
               /\ packages' = [packages EXCEPT ![k] = result.loader]
               /\ finished' = [finished EXCEPT ![m_package] = @ \/ result.finish]
  BY DEF WorkerLoad
<1>3. PICK result \in Load(packages[k]) :
         /\ packages' = [packages EXCEPT ![k] = result.loader]
         /\ finished' = [finished EXCEPT ![m_package] = @ \/ result.finish]
  BY <1>2
<1>4. /\ worker = "loading" /\ worker' = "returning"
      /\ UNCHANGED <<cacherVars, m_state, m_package, m_memoryLimit, m_newMemoryLimit,
                     main, pending, viewVars>>
  BY DEF WorkerLoad
<1>5. /\ packages \in Seq(Loader) /\ Len(packages) \in Nat /\ DOMAIN packages = 1..Len(packages)
      /\ \A j \in DOMAIN packages : packages[j] \in Loader
  BY <1>1, LenProperties, ElementOfSeq DEF PackagesOK
<1> DEFINE old == packages[k]
           new == result.loader
<1>6. /\ new \in Loader /\ new.image = old.image /\ new.filename = old.filename
      /\ result.finish \in BOOLEAN
      /\ \/ new.state \in {"Error", "LoadedHeader", "DoneFast"}
         \/ HoldsData(old)
         \/ GetState(old) = LoadStateHeader
  BY <1>5, LoadKeeps
<1>7. /\ packages' \in Seq(Loader) /\ Len(packages') = Len(packages)
      /\ packages'[k] = new /\ \A j \in DOMAIN packages : j # k => packages'[j] = packages[j]
  <2> HIDE DEF new
  <2>1. packages' = [packages EXCEPT ![k] = new]
    BY <1>3 DEF new
  <2> QED BY <1>5, <1>6, <2>1, ExceptSeq
<1>8. old.state = "Error" => new.state = "Error"
  BY DEF Load, Result, GetState, LoadStateHeader, LoadStateLoading, LoadStateDone
<1>9. MemoryRequirements(new) <= MemoryRequirements(old)
  <2>1. MemoryRequirements(old) \in Nat
    BY <1>5, LoaderNumbers
  <2> HIDE DEF new
  <2> QED BY <1>6, <1>8, <2>1 DEF MemoryRequirements
<1>10. HoldsData(new) /\ new.state # "Error" =>
          \/ HoldsData(old) /\ old.state # "Error"
          \/ Fits(packages, k, m_memoryLimit)
  <2> SUFFICES ASSUME HoldsData(new), new.state # "Error", ~HoldsData(old)
               PROVE  Fits(packages, k, m_memoryLimit)
    BY <1>8
  <2>1. new.state \notin {"LoadedHeader", "DoneFast"}
    BY DEF HoldsData, IsLoad, GetState, LoadStateHeader, LoadStateLoading, LoadStateDone
  <2>2. GetState(old) = LoadStateHeader
    BY <1>6, <2>1
  <2>3. old.state # "Unprocessed"
    BY <2>2 DEF GetState, LoadStateHeader
  <2> QED BY <1>1, <1>2, <1>4, <2>3 DEF BudgetOK
<1> HIDE DEF new, old
<1>11. \A j \in DOMAIN packages :
          /\ packages'[j].image = packages[j].image
          /\ packages'[j].filename = packages[j].filename
          /\ MemoryRequirements(packages'[j]) <= MemoryRequirements(packages[j])
          /\ HoldsData(packages'[j]) /\ packages'[j].state # "Error" =>
                \/ HoldsData(packages[j]) /\ packages[j].state # "Error"
                \/ Fits(packages, j, m_memoryLimit)
  <2>1. \A j \in DOMAIN packages : MemoryRequirements(packages[j]) \in Nat
    BY <1>5, LoaderNumbers
  <2> SUFFICES ASSUME NEW j \in DOMAIN packages
               PROVE  /\ packages'[j].image = packages[j].image
                      /\ packages'[j].filename = packages[j].filename
                      /\ MemoryRequirements(packages'[j]) <= MemoryRequirements(packages[j])
                      /\ HoldsData(packages'[j]) /\ packages'[j].state # "Error" =>
                            \/ HoldsData(packages[j]) /\ packages[j].state # "Error"
                            \/ Fits(packages, j, m_memoryLimit)
    OBVIOUS
  <2>2. CASE j = k
    BY <1>6, <1>7, <1>9, <1>10, <2>2 DEF old
  <2>3. CASE j # k
    <3>1. packages'[j] = packages[j]
      BY <1>7, <2>3
    <3> QED BY <2>1, <3>1
  <2> QED BY <2>2, <2>3
<1>12. /\ PackagesOK' /\ ImagesOf(packages') = ImagesOf(packages)
       /\ WithinBudget(packages', m_memoryLimit')
  <2>1. m_files' = m_files /\ m_memoryLimit' = m_memoryLimit
    BY <1>4 DEF cacherVars
  <2> QED BY <1>1, <1>7, <1>11, <2>1, WorkPreserves DEF BudgetOK
<1>13. BudgetOK'
  BY <1>4, <1>12 DEF BudgetOK
<1>14. ListOK' /\ HeadOK'
  BY <1>1, <1>4, ListStays
<1>15. ThreadsOK' /\ StopOK'
  <2>1. finished' \in [Images -> BOOLEAN]
    BY <1>1, <1>3, <1>6 DEF ThreadsOK
  <2> QED BY <1>1, <1>4, <2>1 DEF ThreadsOK, StopOK, viewVars
<1>16. CallOK'
  BY <1>1, <1>4, <1>12, CallStays DEF CallOK
<1> QED BY <1>12, <1>13, <1>14, <1>15, <1>16 DEF CacheInvariant

-----------------------------------------------------------------------------
(* The theorems.                                                           *)

\* The program begins with nothing listed, requested or held.
LEMMA InitInvariant == Init => CacheInvariant
<1> SUFFICES ASSUME Init PROVE CacheInvariant
  OBVIOUS
<1>1. ListOK
  BY InitConsistent DEF Init, ListOK, Consistent, CacherInit, AsksFor, DistinctImages
<1>2. ThreadsOK /\ StopOK
  BY DEF Init, ThreadsOK, StopOK
<1>3. CallOK /\ HeadOK
  BY CallsDiffer DEF Init, CacherInit, CallOK, HeadOK, Count
<1>4. PackagesOK /\ BudgetOK
  BY NoPackagesOK DEF Init, PackagesOK, BudgetOK, NoDanglingLoader, LoaderServesItsFile
<1> QED BY <1>1, <1>2, <1>3, <1>4 DEF CacheInvariant

\* Opening and browsing, and asking again for a new limit, move in the list.
LEMMA MovesPreserve ==
    ASSUME CacheInvariant, Browse \/ Open \/ RequestAgain PROVE CacheInvariant'
<1>1. CASE Browse
  BY <1>1, BrowsePreserves DEF Browse, Caching, BrowseStep, CacheInvariant, ThreadsOK
<1>2. CASE Open
  BY <1>2, BrowsePreserves DEF Open, Caching, BrowseStep
<1>3. CASE RequestAgain
  BY <1>3, BrowsePreserves DEF RequestAgain, BrowseStep, CacheInvariant, ThreadsOK, viewVars
<1> QED BY <1>1, <1>2, <1>3

\* Nothing the program does breaks the invariant.
LEMMA NextInvariant == CacheInvariant /\ [Next]_vars => CacheInvariant'
<1> SUFFICES ASSUME CacheInvariant, [Next]_vars PROVE CacheInvariant'
  OBVIOUS
<1>1. CASE UserStep
  BY <1>1, AddFilePreserves, SortFilesPreserves, MovesPreserve, RemoveFilePreserves,
     ClearFilesPreserves, SetLimitPreserves, StopPreserves
  DEF UserStep
<1>2. CASE MainStep
  BY <1>2, MainUpdatesPreserve, FinishRemovePreserves, FinishClearPreserves, MovesPreserve,
     JoinPreserves
  DEF MainStep
<1>3. CASE WorkerStep
  BY <1>3, WorkerUpdatePreserves, WorkerFetchPreserves, WorkerExitPreserves,
     WorkerLoadPreserves, WorkerReturnPreserves
  DEF WorkerStep
<1>4. CASE UNCHANGED vars
  <2>1. UNCHANGED <<cacherVars, workerVars, m_newMemoryLimit, main, pending, viewVars>>
    BY <1>4 DEF vars
  <2>2. UNCHANGED <<m_state, worker, m_package, packages, m_memoryLimit, finished,
                    shown, filling, m_files>>
    BY <2>1 DEF workerVars, viewVars, cacherVars
  <2>3. ListOK' /\ HeadOK'
    BY <2>1, ListStays DEF CacheInvariant
  <2>4. ThreadsOK' /\ StopOK'
    BY <2>1, <2>2 DEF CacheInvariant, ThreadsOK, StopOK
  <2>5. CallOK'
    BY <2>1, <2>2, CallStays DEF CacheInvariant, CallOK
  <2>6. PackagesOK' /\ BudgetOK'
    BY <2>2, AbortPreserves DEF CacheInvariant
  <2> QED BY <2>3, <2>4, <2>5, <2>6 DEF CacheInvariant
<1> QED BY <1>1, <1>2, <1>3, <1>4 DEF Next

\* CacheInvariant holds in every state of the program.
THEOREM CacheInvariance == Spec => []CacheInvariant
<1>1. Init => CacheInvariant
  BY InitInvariant
<1>2. CacheInvariant /\ [Next]_vars => CacheInvariant'
  BY NextInvariant
<1> QED BY <1>1, <1>2, PTL DEF Spec

\* The worker never holds an image that RemoveImageIndex, Clear or a new folder
\* has freed, at whatever moment the user or the folder monitor asks for it.
THEOREM LoadersNeverDangle == Spec => []NoDanglingLoader
<1>1. CacheInvariant => NoDanglingLoader
  BY DEF CacheInvariant, PackagesOK
<1> QED BY <1>1, CacheInvariance, PTL

\* An address that is allocated again never finds the loader of its last owner:
\* what is loaded into an image is always that image's own file.
THEOREM LoadersReadTheirFiles == Spec => []LoaderServesItsFile
<1>1. CacheInvariant => LoaderServesItsFile
  BY DEF CacheInvariant, PackagesOK
<1> QED BY <1>1, CacheInvariance, PTL

\* Evicting at a rebuild and loading between rebuilds, which count differently,
\* together keep to twice the limit, or to one image more than the limit.
THEOREM MemoryIsBounded == Spec => []MemoryBudget
<1>1. CacheInvariant => MemoryBudget
  <2> SUFFICES ASSUME CacheInvariant PROVE MemoryBudget
    OBVIOUS
  <2>1. /\ packages \in Seq(Loader) /\ m_memoryLimit \in Nat
        /\ WithinBudget(packages, m_memoryLimit)
    BY DEF CacheInvariant, PackagesOK, ThreadsOK, BudgetOK
  <2> QED BY <2>1, BudgetHolds DEF MemoryBudget, MemoryHeld
<1> QED BY <1>1, CacheInvariance, PTL

-----------------------------------------------------------------------------
(* The image shown.                                                        *)

\* Only two steps can take pixels away: a rebuild, and the end.
LEMMA OtherStepsKeepPixels ==
    ASSUME CacheInvariant, [Next]_vars, ~WorkerUpdate, ~Join
    PROVE  \A i \in Images : finished[i] => finished'[i]
<1>1. finished \in [Images -> BOOLEAN]
  BY DEF CacheInvariant, ThreadsOK
<1>2. CASE UserStep
  BY <1>2
  DEF UserStep, AddFile, SortFiles, Browse, Open, Caching, RemoveFile, ClearFiles, SetLimit,
      Stop, workerVars
<1>3. CASE MainStep
  BY <1>3
  DEF MainStep, UpdateAndShow, UpdateAndWait, FinishRemove, FinishClear, UpdateLimit,
      RequestAgain, workerVars
<1>4. CASE WorkerLoad
  <2>1. PICK k \in DOMAIN packages :
           \E result \in Load(packages[k]) :
              finished' = [finished EXCEPT ![m_package] = @ \/ result.finish]
    BY <1>4 DEF WorkerLoad
  <2>2. PICK result \in Load(packages[k]) :
           finished' = [finished EXCEPT ![m_package] = @ \/ result.finish]
    BY <2>1
  <2> QED BY <1>1, <2>2
<1>5. CASE WorkerFetch \/ WorkerExit \/ WorkerReturn
  BY <1>5 DEF WorkerFetch, WorkerExit, WorkerReturn
<1>6. CASE UNCHANGED vars
  BY <1>6 DEF vars, workerVars
<1> QED BY <1>2, <1>3, <1>4, <1>5, <1>6 DEF Next, WorkerStep

\* A rebuild keeps the pixels of the first request.
LEMMA RebuildKeepsFirst ==
    ASSUME ListOK, PackagesOK, NEW limit \in Nat, queue # <<>>, queue[1].image # NoImage
    PROVE  queue[1].image \notin Deallocated(packages, Rebuild(packages, queue, limit))
<1> DEFINE rebuilt == Rebuild(packages, queue, limit)
<1>1. 1 \in DOMAIN rebuilt /\ ServesWhole(rebuilt[1], queue[1], packages)
  BY QueueRebuildable, RebuildServes
<1> HIDE DEF rebuilt
<1>2. rebuilt[1].image = queue[1].image
  BY <1>1 DEF ServesWhole, Serves
<1>3. \A j \in DOMAIN packages :
         packages[j].image = queue[1].image => rebuilt[1].state = packages[j].state
  BY <1>1, <1>2 DEF ServesWhole
<1>4. queue[1].image \notin Deallocated(packages, rebuilt)
  BY <1>1, <1>2, <1>3 DEF Deallocated
<1> QED BY <1>4 DEF rebuilt

\* The image on the screen keeps its pixels in every step.
LEMMA StepKeepsShown == CacheInvariant /\ [Next]_vars => KeepsShown
<1> SUFFICES ASSUME CacheInvariant, [Next]_vars,
                    shown # NoImage, CurrentImage = shown, finished[shown],
                    ~Removing, main' # "closed"
             PROVE  finished'[shown]
  BY DEF KeepsShown, Removing
<1>1. shown \in Images
  BY DEF CacheInvariant, ThreadsOK
<1>2. ~Join
  BY DEF Join
<1>3. CASE ~WorkerUpdate
  BY <1>1, <1>2, <1>3, OtherStepsKeepPixels
<1>4. CASE WorkerUpdate
  <2> DEFINE lost == Deallocated(packages, Rebuild(packages, queue, m_newMemoryLimit))
  <2>1. finished' = [i \in Images |-> finished[i] /\ i \notin lost]
    BY <1>4 DEF WorkerUpdate
  <2>2. ListOK /\ PackagesOK /\ HeadOK /\ m_newMemoryLimit \in Nat
    BY DEF CacheInvariant, ThreadsOK
  <2>3. Count > 0
    BY <2>2, ListFacts DEF CurrentImage
  <2>4. queue # <<>> /\ queue[1].image = shown
    BY <2>2, <2>3 DEF HeadOK
  <2>5. shown \notin lost
    BY <2>2, <2>4, RebuildKeepsFirst
  <2> HIDE DEF lost
  <2> QED BY <1>1, <2>1, <2>5
<1> QED BY <1>3, <1>4

\* No eviction, rebuild or change of the limit takes the image shown away from
\* under the viewport, for any limit and any order of the two threads' steps.
THEOREM ShownIsKept == Spec => ShownStaysFinished
<1>1. CacheInvariant /\ [Next]_vars => [KeepsShown]_vars
  BY StepKeepsShown
<1> QED BY <1>1, CacheInvariance, PTL DEF Spec, ShownStaysFinished

-----------------------------------------------------------------------------
(* The promises of DecoderService.                                         *)

Requested == ImagesOf(queue) \ {NoImage}
Opened == main \notin {"join", "closed"}

\* What is asked for is a set of images.
LEMMA RequestedImages == CacheInvariant => Requested \in SUBSET Images
<1> SUFFICES ASSUME CacheInvariant, NEW k \in DOMAIN queue, queue[k].image # NoImage
             PROVE  queue[k].image \in Images
  BY DEF Requested, ImagesOf
<1>1. queue[k] \in Request
  BY ListFacts, LenProperties, ElementOfSeq DEF CacheInvariant
<1> QED BY <1>1 DEF Request

\* The steps of the main thread that change the requests are requests.
LEMMA AskingStep ==
    ASSUME CacheInvariant, CacheInvariant', Opened, Opened', packages' = packages
    PROVE  Service!Next
<1>1. Requested' \in SUBSET Images
  <2>1. (CacheInvariant => Requested \in SUBSET Images)'
    BY RequestedImages, PTL
  <2> QED BY <2>1
<1>2. Service!Ask(Requested')
  BY DEF Service!Ask, Opened, Requested
<1> QED BY <1>1, <1>2 DEF Service!Next

\* Every step is one of the service's, or none of its concern.
LEMMA StepServes ==
    CacheInvariant /\ CacheInvariant' /\ [Next]_vars => [Service!Next]_(Service!serviceVars)
<1> SUFFICES ASSUME CacheInvariant, CacheInvariant', [Next]_vars
             PROVE  Service!Next \/ UNCHANGED Service!serviceVars
  OBVIOUS
<1> DEFINE Silent == UNCHANGED queue /\ ImagesOf(packages') = ImagesOf(packages)
                     /\ Opened' = Opened
<1>1. Silent => UNCHANGED Service!serviceVars
  BY DEF Service!serviceVars, Opened
<1>2. CASE \/ \E name \in Names, image \in Images : AddFile(name, image)
           \/ \E files \in Reorderings(m_files) : SortFiles(files)
           \/ Browse \/ Open \/ RequestAgain
           \/ \E i \in 0..(Count - 1) : RemoveFile(i)
           \/ \E refill \in BOOLEAN : ClearFiles(refill)
           \/ FinishRemove \/ FinishClear
  <2>1. /\ main \in {"idle", "request", "woken"} /\ main' \in {"update", "updateWait", "idle"}
        /\ packages' = packages
    BY <1>2
    DEF AddFile, SortFiles, Browse, Open, Caching, RequestAgain, RemoveFile, ClearFiles,
        FinishRemove, FinishClear, workerVars
  <2> QED BY <2>1, AskingStep DEF Opened
<1>3. CASE \E limit \in Limits : SetLimit(limit)
  <2>1. Silent
    BY <1>3 DEF SetLimit, cacherVars, workerVars, Opened
  <2> QED BY <1>1, <2>1
<1>4. CASE UpdateAndShow \/ UpdateAndWait \/ UpdateLimit
  <2>1. UNCHANGED queue /\ Opened' = Opened
    BY <1>4
    DEF UpdateAndShow, UpdateAndWait, UpdateLimit, AfterUpdate, cacherVars, Opened
  <2> QED BY <1>1, <1>4, <2>1, MainUpdatesPreserve
<1>5. CASE Stop
  <2>1. UNCHANGED queue /\ Opened /\ ~Opened' /\ ImagesOf(packages') = ImagesOf(packages)
    BY <1>5, StopPreserves DEF Stop, cacherVars, Opened
  <2>2. Service!Stop
    BY <2>1 DEF Service!Stop, Opened
  <2> QED BY <2>2 DEF Service!Next
<1>6. CASE Join
  <2>1. UNCHANGED queue /\ ~Opened /\ ~Opened' /\ ImagesOf(packages') = {}
    BY <1>6, NoPackagesOK DEF Join, cacherVars, Opened
  <2>2. Service!Drop
    BY <2>1 DEF Service!Drop, Opened
  <2> QED BY <2>2 DEF Service!Next
<1>7. CASE WorkerUpdate
  <2>1. /\ packages' = Rebuild(packages, queue, m_newMemoryLimit)
        /\ UNCHANGED queue /\ m_state = "Updating" /\ main' = Updated
    BY <1>7 DEF WorkerUpdate, cacherVars
  <2>2. Opened /\ Opened'
    BY <2>1 DEF CacheInvariant, StopOK, Opened, Updated
  <2>3. ImagesOf(packages') = ImagesOf(queue) \ {NoImage}
    BY <2>1, RebuildPreserves DEF CacheInvariant, ThreadsOK
  <2>4. Service!Adopt
    BY <2>1, <2>2, <2>3 DEF Service!Adopt, Opened
  <2> QED BY <2>4 DEF Service!Next
<1>8. CASE WorkerFetch \/ WorkerExit \/ WorkerLoad \/ WorkerReturn
  <2>1. UNCHANGED queue /\ Opened' = Opened
    BY <1>8 DEF WorkerFetch, WorkerExit, WorkerLoad, WorkerReturn, cacherVars, Opened
  <2>2. ImagesOf(packages') = ImagesOf(packages)
    BY <1>8, WorkerLoadPreserves, WorkerReturnPreserves DEF WorkerFetch, WorkerExit
  <2> QED BY <1>1, <2>1, <2>2
<1>9. CASE UNCHANGED vars
  BY <1>1, <1>9 DEF vars, cacherVars, workerVars, Opened
<1> QED
  BY <1>2, <1>3, <1>4, <1>5, <1>6, <1>7, <1>8, <1>9
  DEF Next, UserStep, MainStep, WorkerStep

\* The decoder keeps the promises of DecoderService: it touches only the images
\* it holds, what it holds changes as a whole to exactly what is requested at
\* that moment, and it gives everything up once it was told to stop. (That it
\* gets there is the fairness part of ImplementsService.)
THEOREM DecoderKeepsPromises == Spec => Service!Init /\ [][Service!Next]_(Service!serviceVars)
<1>1. Init => Service!Init
  BY NoPackagesOK DEF Init, CacherInit, Service!Init
<1>2. CacheInvariant /\ CacheInvariant' /\ [Next]_vars => [Service!Next]_(Service!serviceVars)
  BY StepServes
<1> QED BY <1>1, <1>2, CacheInvariance, PTL DEF Spec
=============================================================================
