------------------------------- MODULE Cacher -------------------------------
(***************************************************************************)
(* Img::Cacher: the ordered list of files the viewer browses, the position *)
(* in it, the direction of travel, and the request list it hands to the    *)
(* background decoder after every change (apply_priorities).               *)
(*                                                                         *)
(* All operations run on the main thread, so each is one action here.      *)
(* ImageCache.tla splits the ones that block on the decoder.               *)
(*                                                                         *)
(* The C++ index is a size_t counting from 0; sequences count from 1.      *)
(***************************************************************************)
EXTENDS WorkRequest

CONSTANTS
    SizeMax,    \* the largest value of size_t
    MaxFiles    \* bound of the model: longest list of files

ASSUME CacherAssumption ==
    /\ MaxFiles \in Nat
    /\ SizeMax \in Nat
    /\ SizeMax > 2 * (MaxFiles + 2)

VARIABLES
    m_files,        \* the FileEntry vector: a sequence of [name, image]
    m_index,        \* position of the current entry, counted from 0
    m_wentForward,  \* the last step was towards the end of the list
    m_wrapAround,   \* browsing wraps at the ends of the list
    queue           \* ImageQueue: what the decoder has been asked to cache

cacherVars == <<m_files, m_index, m_wentForward, m_wrapAround, queue>>

Entry == [name : Names \cup {NoName}, image : Images]

Count == Len(m_files)

\* The entry at a position the C++ code counts from 0.
At(files, i) == files[i + 1]

CurrentImage == IF Count = 0 THEN NoImage ELSE At(m_files, m_index).image

\* size_t arithmetic: decrementing 0 gives the largest value.
Dec(i) == IF i = 0 THEN SizeMax ELSE i - 1

\* static_cast<int> of a size_t.
AsInt(i) == IF 2 * i > SizeMax THEN i - (SizeMax + 1) ELSE i

NoIndex == -1

-----------------------------------------------------------------------------
(* The request list.                                                       *)

\* PeekRelativeIndex for a delta other than 0: the position `delta` away from
\* `i`, wrapped at most once, or NoIndex. A negative int compares as a huge
\* size_t, so it too counts as past the end.
PeekRelativeIndex(files, i, wrap, delta) ==
    LET n  == Len(files)
        p0 == AsInt(i) + delta
        p1 == IF p0 < 0 /\ wrap THEN n + p0 ELSE p0
        p2 == IF (p1 < 0 \/ p1 >= n) /\ wrap THEN p1 - n ELSE p1
    IN  IF p2 >= 0 /\ p2 < n THEN p2 ELSE NoIndex

RequestAt(files, i) ==
    IF i = NoIndex \/ i >= Len(files) THEN NoRequest
    ELSE [image |-> At(files, i).image, filename |-> At(files, i).name]

attemptPush(q, r) ==
    IF \E k \in DOMAIN q : q[k] = r THEN q ELSE Append(q, r)

PushRelative(q, files, i, wrap, delta) ==
    attemptPush(q, RequestAt(files, PeekRelativeIndex(files, i, wrap, delta)))

\* Mutant: only the images in the direction of travel are asked for.
PrioritiesOnlyAhead(files, i, wrap, flip) ==
    LET d  == IF flip THEN -1 ELSE 1
        q0 == <<RequestAt(files, i)>>
        q1 == PushRelative(q0, files, i, wrap, d)
    IN  PushRelative(q1, files, i, wrap, 2 * d)

\* The current image first, then the neighbours, the ones in the direction of
\* travel before the ones behind.
Priorities(files, i, wrap, flip) ==
    LET d  == IF flip THEN -1 ELSE 1
        q0 == <<RequestAt(files, i)>>
        q1 == PushRelative(q0, files, i, wrap, d)
        q2 == PushRelative(q1, files, i, wrap, -d)
        q3 == PushRelative(q2, files, i, wrap, 2 * d)
    IN  PushRelative(q3, files, i, wrap, -2 * d)

\* Mutant: the list is built before the step is taken.
ApplyPrioritiesEarly(flip) == queue' = Priorities(m_files, m_index, m_wrapAround, flip)

apply_priorities(flip) == queue' = Priorities(m_files', m_index', m_wrapAround', flip)

\* FindImage: the first position with that name, or NoIndex.
FindImage(files, name) ==
    LET firsts == {k \in DOMAIN files :
                     /\ files[k].name = name
                     /\ \A j \in 1..(k - 1) : files[j].name # name}
    IN  IF firsts = {} THEN NoIndex ELSE (CHOOSE k \in firsts : TRUE) - 1

-----------------------------------------------------------------------------
(* Changing the list.                                                      *)

\* An Image object at an address nothing uses. FileEntry allocates it when it
\* is first asked for; the address is reserved here with the entry.
Fresh(image) == image \in Images \ ImagesOf(m_files)

AddImageLast(name, image) ==
    /\ Count < MaxFiles
    /\ Fresh(image)
    /\ m_files' = Append(m_files, [name |-> name, image |-> image])
    /\ IF Count = 0
       THEN m_index' = 0 /\ m_wentForward' = TRUE
       ELSE UNCHANGED <<m_index, m_wentForward>>
    /\ UNCHANGED m_wrapAround
    /\ apply_priorities(FALSE)

\* Where RemoveCurrentImage leaves the position, `count` entries remaining.
IndexAfterRemovingCurrent(index, count, wentForward) ==
    IF index >= count \/ (~wentForward /\ index > 0) THEN Dec(index) ELSE index

\* Mutant: the position is only pulled back when it fell off the end.
IndexAfterRemovingOtherNoShift(index, removed, count) ==
    IF index >= count THEN Dec(index) ELSE index

\* Where RemoveImageIndex leaves the position after erasing another entry.
IndexAfterRemovingOther(index, removed, count) ==
    IF index >= count \/ index > removed THEN Dec(index) ELSE index

\* RemoveImageIndex, and RemoveCurrentImage when it is the current position.
\* Both throw when the position is out of bounds.
RemoveImageIndex(i) ==
    /\ i < Count
    /\ m_files' = RemoveAt(m_files, i + 1)
    /\ m_index' = IF i = m_index
                  THEN IndexAfterRemovingCurrent(m_index, Count - 1, m_wentForward)
                  ELSE IndexAfterRemovingOther(m_index, i, Count - 1)
    /\ UNCHANGED <<m_wentForward, m_wrapAround>>
    /\ apply_priorities(FALSE)

RemoveImageFilename(name) ==
    LET i == FindImage(m_files, name) IN i # NoIndex /\ RemoveImageIndex(i)

\* RenamedImage: only the first entry of that name; the queue keeps its requests.
RenamedImage(old, new) ==
    LET i == FindImage(m_files, old) IN
    /\ old # NoName
    /\ i # NoIndex
    /\ m_files' = [m_files EXCEPT ![i + 1].name = new]
    /\ UNCHANGED <<m_index, m_wentForward, m_wrapAround, queue>>

\* Clear, as FillCacher uses it: the queue is emptied first (Reset).
Clear ==
    /\ m_files' = <<>>
    /\ m_index' = 0
    /\ m_wentForward' = TRUE
    /\ queue' = <<>>
    /\ UNCHANGED m_wrapAround

\* The list in some other order: which one depends on names and dates on disk.
Reorderings(files) ==
    LET entries == ToSet(files)
    IN  {p \in [DOMAIN files -> entries] : ToSet(p) = entries}

\* Sort: the current file is looked up again by name, unless it was the first
\* or has no name; then the position stays and the file under it may change.
Sort(files) ==
    LET name  == IF m_index > 0 /\ m_index < Count THEN At(m_files, m_index).name ELSE NoName
        found == IF name = NoName THEN NoIndex ELSE FindImage(files, name)
    IN  /\ files \in Reorderings(m_files)
        /\ m_files' = files
        /\ IF found = NoIndex
           THEN UNCHANGED <<m_index, m_wentForward>>
           ELSE m_index' = found /\ m_wentForward' = TRUE
        /\ UNCHANGED m_wrapAround
        /\ apply_priorities(FALSE)

-----------------------------------------------------------------------------
(* Moving in the list.                                                     *)

MoveTo(index, forward, flip) ==
    /\ m_index' = index
    /\ m_wentForward' = forward
    /\ UNCHANGED <<m_files, m_wrapAround>>
    /\ apply_priorities(flip)

FirstImage == MoveTo(0, TRUE, FALSE)

\* LastImage: on an empty list the position wraps to the largest size_t.
LastImage == MoveTo(IF Count = 0 THEN SizeMax ELSE Count - 1, FALSE, TRUE)

\* Mutant: wrapping resets the position one step too late.
NextIndexLate(index, count, wrap) ==
    IF wrap
    THEN IF index + 1 > count THEN 0 ELSE index + 1
    ELSE IF index + 1 < count THEN index + 1 ELSE index

NextIndex(index, count, wrap) ==
    IF wrap
    THEN IF index + 1 >= count THEN 0 ELSE index + 1
    ELSE IF index + 1 < count THEN index + 1 ELSE index

PreviousIndex(index, count, wrap) ==
    IF wrap
    THEN (IF index = 0 THEN count ELSE index) - 1
    ELSE IF index > 0 THEN index - 1 ELSE index

NextImage ==
    Count > 0 /\ MoveTo(NextIndex(m_index, Count, m_wrapAround), TRUE, FALSE)

PreviousImage ==
    Count > 0 /\ MoveTo(PreviousIndex(m_index, Count, m_wrapAround), FALSE, TRUE)

GotoImage(i) == i < Count /\ MoveTo(i, TRUE, FALSE)

\* Viewer::SettingsChanged: WrapAround, then MemoryLimit, which asks for the
\* current images again.
SettingsChanged(wrap) ==
    /\ m_wrapAround' = wrap
    /\ UNCHANGED <<m_files, m_index, m_wentForward>>
    /\ apply_priorities(FALSE)

-----------------------------------------------------------------------------

CacherInit ==
    /\ m_files = <<>>
    /\ m_index = 0
    /\ m_wentForward = TRUE
    /\ m_wrapAround \in BOOLEAN
    /\ queue = <<>>

ListStep ==
    \/ \E name \in Names, image \in Images : AddImageLast(name, image)
    \/ \E i \in 0..(Count - 1) : RemoveImageIndex(i)
    \/ \E name \in Names : RemoveImageFilename(name)
    \/ \E old \in Names, new \in Names \cup {NoName} : RenamedImage(old, new)
    \/ \E files \in Reorderings(m_files) : Sort(files)
    \/ Clear

BrowseStep ==
    \/ FirstImage
    \/ LastImage
    \/ NextImage
    \/ PreviousImage
    \/ \E i \in 0..(Count - 1) : GotoImage(i)
    \/ \E wrap \in BOOLEAN : SettingsChanged(wrap)

CacherNext == ListStep \/ BrowseStep

CacherSpec == CacherInit /\ [][CacherNext]_cacherVars

-----------------------------------------------------------------------------
(* Properties.                                                             *)

\* The variables have their types; every entry has an Image of its own.
CacherTypeOK ==
    /\ m_files \in Seq(Entry)
    /\ Count <= MaxFiles
    /\ \A j, k \in DOMAIN m_files : m_files[j].image = m_files[k].image => j = k
    /\ m_index \in 0..SizeMax
    /\ m_wentForward \in BOOLEAN
    /\ m_wrapAround \in BOOLEAN
    /\ queue \in Seq(Request)

\* CurrentImage indexes the vector without a bounds check: the position must
\* be inside it whenever it is not empty, even after it wrapped to SizeMax
\* when the last file was removed or "last image" was pressed on an empty list.
IndexValid == Count > 0 => m_index < Count

\* The decoder is asked for the current image first, and is never asked for an
\* image that is no longer in the list (it would be freed under the decoder).
QueueServesList ==
    /\ queue # <<>> => Head(queue).image = CurrentImage
    /\ Count > 0 => queue # <<>>
    /\ \A k \in DOMAIN queue : queue[k].image \in ImagesOf(m_files) \cup {NoImage}

\* Whatever changed last (the list, the position, wrapping), the images one
\* step away in either direction are requested too.
NeighboursRequested ==
    Count > 0 =>
        \A delta \in {-1, 1} :
            LET i == PeekRelativeIndex(m_files, m_index, m_wrapAround, delta)
            IN  i # NoIndex =>
                    \E k \in DOMAIN queue : queue[k].image = At(m_files, i).image

\* Removing a file never moves the user away from a file that is still there;
\* removing the one shown leads to its neighbour in the direction of travel,
\* and to the one on the other side only at the end of the list.
SelectionFollows ==
    LET removed == \E i \in 0..(Count - 1) : m_files' = RemoveAt(m_files, i + 1)
        target  == IF m_wentForward
                   THEN IF m_index + 1 < Count THEN m_index + 1 ELSE m_index - 1
                   ELSE IF m_index > 0 THEN m_index - 1 ELSE m_index + 1
    IN  removed /\ Count > 1 =>
            IF CurrentImage \in ImagesOf(m_files')
            THEN CurrentImage' = CurrentImage
            ELSE CurrentImage' = At(m_files, target).image

SelectionFollowsRemoval == [][SelectionFollows]_cacherVars

-----------------------------------------------------------------------------
\* No definition tells one name from another, or one address from another.
CacherSymmetry == Permutations(Names) \cup Permutations(Images)

=============================================================================
