-------------------------- MODULE FolderViewProofs --------------------------
(***************************************************************************)
(* Proofs about FolderView, for any folders, any names and any bounds.     *)
(*                                                                         *)
(* Three theorems: each FolderEvent finds its notification, the monitor's  *)
(* thread stays in its buffer, and, the longest, ListMatchesFolder: what   *)
(* is on its way leads from the list to the disk at every step, so that    *)
(* the list is right once nothing is. Its inductive invariant is Base,     *)
(* FollowInv and ElsewhereInv.                                             *)
(***************************************************************************)
EXTENDS FolderView, SequenceTheorems, TLAPS

\* NotificationForEachEvent is inductive once the queue is known to be one.
QueueInv ==
    /\ \E S : m_folderNotifications \in Seq(S)
    /\ posted \in Nat
    /\ NotificationForEachEvent

\* The thread has sent a notification whose event it has not queued yet.
Owing == monitor \in {"notifying", "leaving"}

LEMMA InitQueue == ASSUME Init PROVE QueueInv
<1>1. m_folderNotifications = <<>> /\ posted = 0 /\ monitor = "none"
  BY DEF Init, MonitorInit
<1>2. m_folderNotifications \in Seq({})
  BY <1>1
<1> QED BY <1>1, <1>2 DEF QueueInv, NotificationForEachEvent

\* Sending: one notification more, and the thread owes its event.
LEMMA Sends ==
    ASSUME QueueInv, NEW event, AddNotification(event), ~Owing, Owing'
    PROVE  QueueInv'
<1>1. PICK S : m_folderNotifications \in Seq(S)
  BY DEF QueueInv
<1>2. /\ m_folderNotifications' = Append(m_folderNotifications, event)
      /\ posted' = posted
  BY DEF AddNotification
<1>3. m_folderNotifications \in Seq(S \cup {event})
  BY <1>1
<1>4. /\ m_folderNotifications' \in Seq(S \cup {event})
      /\ Len(m_folderNotifications') = Len(m_folderNotifications) + 1
  BY <1>2, <1>3
<1>5. posted' \in Nat
  BY <1>2 DEF QueueInv
<1>6. NotificationForEachEvent'
  BY <1>2, <1>4 DEF QueueInv, NotificationForEachEvent, Owing
<1> QED BY <1>4, <1>5, <1>6 DEF QueueInv

\* Handling: one notification and one event less.
LEMMA Handles ==
    ASSUME QueueInv, posted > 0, m_folderNotifications # <<>>,
           m_folderNotifications' = Tail(m_folderNotifications), posted' = posted - 1,
           Owing' = Owing
    PROVE  QueueInv'
<1>1. PICK S : m_folderNotifications \in Seq(S)
  BY DEF QueueInv
<1>2. /\ m_folderNotifications' \in Seq(S)
      /\ Len(m_folderNotifications') = Len(m_folderNotifications) - 1
  BY <1>1
<1>3. posted' \in Nat
  BY DEF QueueInv
<1>4. NotificationForEachEvent'
  BY <1>2 DEF QueueInv, NotificationForEachEvent, Owing
<1> QED BY <1>2, <1>3, <1>4 DEF QueueInv

\* The rest leaves the queues alone, and the thread owes nothing more or less.
LEMMA LeavesQueues ==
    ASSUME QueueInv, UNCHANGED queueVars, Owing' = Owing
    PROVE  QueueInv'
BY DEF QueueInv, NotificationForEachEvent, queueVars, Owing

LEMMA MonitorKeepsQueue ==
    ASSUME QueueInv, MonitorStep
    PROVE  QueueInv'
<1>1. CASE IssueRead
  BY <1>1, LeavesQueues DEF IssueRead, Owing
<1>2. CASE FolderDeleted
  BY <1>2, Sends DEF FolderDeleted, Owing
<1>3. CASE Timeout
  BY <1>3, LeavesQueues DEF Timeout, Owing
<1>4. CASE TakePacket
  BY <1>4, LeavesQueues DEF TakePacket, Owing
<1>5. CASE RememberOldName
  BY <1>5, LeavesQueues DEF RememberOldName, NextRecord, Owing
<1>6. CASE ProcessNotification
  BY <1>6, Sends DEF ProcessNotification, Owing
<1>7. CASE QueueEvent
  <2>1. /\ monitor \in {"notifying", "leaving"} /\ posted' = posted + 1
        /\ m_folderNotifications' = m_folderNotifications
        /\ monitor' \in {"exited", "processing", "read"}
    BY <1>7 DEF QueueEvent, NextRecord
  <2> QED BY <2>1 DEF QueueInv, NotificationForEachEvent
<1> QED BY <1>1, <1>2, <1>3, <1>4, <1>5, <1>6, <1>7 DEF MonitorStep

LEMMA ViewerKeepsQueue ==
    ASSUME QueueInv, ViewerThread
    PROVE  QueueInv'
<1>1. CASE StartMonitor
  BY <1>1, LeavesQueues DEF StartMonitor, Start, Joined, Owing
<1>2. CASE FolderIsGone
  BY <1>2, LeavesQueues DEF FolderIsGone, Joined, Owing
<1>3. CASE FillCacher
  BY <1>3, LeavesQueues DEF FillCacher, monitorVars, threadVars, Owing
<1>4. CASE OnFileEvent
  BY <1>4, Handles DEF OnFileEvent, threadVars, Owing
<1>5. CASE OnFolderDeleted
  BY <1>5, Handles DEF OnFolderDeleted, CloseHandles, threadVars, Owing
<1>6. CASE MonitorClosed
  BY <1>6, LeavesQueues DEF MonitorClosed, Joined, Owing
<1> QED BY <1>1, <1>2, <1>3, <1>4, <1>5, <1>6 DEF ViewerThread

LEMMA OthersKeepQueue ==
    ASSUME QueueInv, OthersChange \/ UserStep
    PROVE  QueueInv'
<1>1. UNCHANGED queueVars /\ UNCHANGED threadVars
  BY DEF OthersChange, UserStep, AddFile, RemoveFile, RenameFile, RemoveFolder,
         SetImageLocation, CloseHandles, RemoveImage, RenameCurrent, RenameFails, monitorVars
<1> QED BY <1>1, LeavesQueues DEF threadVars, Owing

\* "Notification queue is empty." is never thrown by OnFolderEvent.
THEOREM EventsHaveNotifications == Spec => []NotificationForEachEvent
<1>1. Init => QueueInv
  BY InitQueue
<1>2. QueueInv /\ [Next]_vars => QueueInv'
  <2> SUFFICES ASSUME QueueInv, [Next]_vars PROVE QueueInv'
    OBVIOUS
  <2>1. CASE OthersChange \/ UserStep
    BY <2>1, OthersKeepQueue
  <2>2. CASE ViewerThread
    BY <2>2, ViewerKeepsQueue
  <2>3. CASE MonitorThread
    BY <2>3, MonitorKeepsQueue DEF MonitorThread
  <2>4. CASE UNCHANGED vars
    BY <2>4, LeavesQueues DEF vars, monitorVars, threadVars, Owing
  <2> QED BY <2>1, <2>2, <2>3, <2>4 DEF Next
<1>3. QueueInv => NotificationForEachEvent
  BY DEF QueueInv
<1> QED BY <1>1, <1>2, <1>3, PTL DEF Spec

-----------------------------------------------------------------------------
(* The buffer.                                                             *)

Records == [action : Actions, name : Names \cup {NoName}, more : BOOLEAN]

\* A record that says another follows is followed by one; a completed read has
\* left something in the buffer.
BufferInv ==
    /\ m_changes \in Seq(Records)
    /\ \A k \in DOMAIN m_changes : m_changes[k].more => k + 1 \in DOMAIN m_changes
    /\ changes \in Seq(Records)
    /\ packets \in Seq({"changes", "empty"})
    /\ (\E k \in DOMAIN packets : packets[k] = "changes") => m_changes # <<>>
    /\ StaysInBuffer

LEMMA InitBuffer == ASSUME Init PROVE BufferInv
BY DEF Init, MonitorInit, BufferInv, StaysInBuffer, Processing

LEMMA MoreOfRecord ==
    ASSUME NEW record \in Records, NEW more \in BOOLEAN
    PROVE  [record EXCEPT !.more = more] \in Records /\ [record EXCEPT !.more = more].more = more
BY DEF Records

\* A read is completed into the buffer, over part of what was there.
LEMMA CompleteKeepsBuffer ==
    ASSUME BufferInv, NEW records \in Seq(Records), records # <<>>, Complete(records),
           changes' \in Seq(Records),
           Processing' => Processing /\ offset' = offset
    PROVE  BufferInv'
<1>1. CASE records = Overflow
  <2>1. m_changes' = m_changes /\ packets' = Append(packets, "empty")
    BY <1>1 DEF Complete
  <2>2. /\ packets' \in Seq({"changes", "empty"})
        /\ (\E k \in DOMAIN packets' : packets'[k] = "changes") => m_changes' # <<>>
    BY <2>1 DEF BufferInv
  <2> QED BY <2>1, <2>2 DEF BufferInv, StaysInBuffer
<1>2. CASE records # Overflow
  <2> DEFINE rest == IF Processing THEN SubSeq(m_changes, Len(records) + 1, Len(m_changes)) ELSE <<>>
  <2>1. m_changes' = Chain(records) \o rest /\ packets' = Append(packets, "changes")
    BY <1>2 DEF Complete
  <2>2. Chain(records) \in Seq(Records) /\ Len(Chain(records)) = Len(records)
        /\ \A k \in 1..Len(records) : Chain(records)[k].more = (k < Len(records))
    <3>1. \A k \in 1..Len(records) : records[k] \in Records
      OBVIOUS
    <3>2. \A k \in 1..Len(records) :
              /\ [records[k] EXCEPT !.more = k < Len(records)] \in Records
              /\ [records[k] EXCEPT !.more = k < Len(records)].more = (k < Len(records))
      <4>1. \A k \in 1..Len(records) : (k < Len(records)) \in BOOLEAN
        OBVIOUS
      <4> QED BY ONLY <3>1, <4>1, MoreOfRecord
    <3>3. Chain(records) = [k \in 1..Len(records) |-> [records[k] EXCEPT !.more = k < Len(records)]]
      BY DEF Chain
    <3>4. Len(records) \in Nat
      OBVIOUS
    <3> DEFINE link(k) == [records[k] EXCEPT !.more = k < Len(records)]
    <3>5. /\ Chain(records) = [k \in 1..Len(records) |-> link(k)]
          /\ \A k \in 1..Len(records) : link(k) \in Records /\ link(k).more = (k < Len(records))
      BY <3>2, <3>3
    <3> HIDE DEF link
    <3> QED BY <3>4, <3>5
  <2>3. rest \in Seq(Records) /\ Len(rest) \in Nat
        /\ \A k \in 1..Len(rest) : Processing /\ rest[k] = m_changes[Len(records) + k]
        /\ Len(rest) = IF Processing /\ Len(m_changes) > Len(records)
                       THEN Len(m_changes) - Len(records) ELSE 0
    BY DEF BufferInv
  <2>10. ASSUME Processing, Len(m_changes) > Len(records)
         PROVE  Len(rest) = Len(m_changes) - Len(records)
    <3>1. rest = SubSeq(m_changes, Len(records) + 1, Len(m_changes))
      BY <2>10
    <3>2. m_changes \in Seq(Records) /\ Len(records) \in Nat /\ Len(m_changes) \in Nat
      BY DEF BufferInv
    <3> HIDE DEF rest
    <3> QED BY ONLY <2>10, <3>1, <3>2
  <2>4. /\ m_changes' \in Seq(Records)
        /\ Len(m_changes') = Len(records) + Len(rest)
        /\ \A k \in 1..Len(records) : m_changes'[k] = Chain(records)[k]
        /\ \A k \in 1..Len(rest) : m_changes'[Len(records) + k] = rest[k]
    <3> DEFINE chain == Chain(records)
    <3>1. chain \in Seq(Records) /\ rest \in Seq(Records) /\ m_changes' = chain \o rest
          /\ Len(chain) = Len(records)
      BY <2>1, <2>2, <2>3
    <3> HIDE DEF chain, rest
    <3>2. /\ m_changes' \in Seq(Records)
          /\ Len(m_changes') = Len(chain) + Len(rest)
          /\ \A k \in 1..Len(chain) : m_changes'[k] = chain[k]
          /\ \A k \in 1..Len(rest) : m_changes'[Len(chain) + k] = rest[k]
      <4>1. /\ chain \o rest \in Seq(Records)
            /\ Len(chain \o rest) = Len(chain) + Len(rest)
            /\ \A i \in 1..(Len(chain) + Len(rest)) :
                   (chain \o rest)[i] = IF i <= Len(chain) THEN chain[i] ELSE rest[i - Len(chain)]
        BY ONLY <3>1, ConcatProperties
      <4>2. Len(chain) \in Nat /\ Len(rest) \in Nat
        BY <3>1
      <4>3. ASSUME NEW k \in 1..Len(rest) PROVE m_changes'[Len(chain) + k] = rest[k]
        <5>1. Len(chain) + k \in 1..(Len(chain) + Len(rest)) /\ ~(Len(chain) + k <= Len(chain))
              /\ (Len(chain) + k) - Len(chain) = k
          BY <4>2
        <5> QED BY <3>1, <4>1, <5>1
      <4>4. ASSUME NEW k \in 1..Len(chain) PROVE m_changes'[k] = chain[k]
        BY <3>1, <4>1, <4>2
      <4> QED BY <3>1, <4>1, <4>3, <4>4
    <3> QED BY <3>1, <3>2 DEF chain
  <2> HIDE DEF rest
  <2>9. Len(records) \in Nat /\ Len(rest) \in Nat /\ Len(m_changes) \in Nat
    BY <2>3 DEF BufferInv
  <2>5. ASSUME NEW k \in 1..Len(m_changes'), m_changes'[k].more
        PROVE  k + 1 \in 1..Len(m_changes')
    <3>1. CASE k <= Len(records)
      <4>1. m_changes'[k] = Chain(records)[k] /\ k \in 1..Len(records)
        BY <2>4, <2>9, <3>1
      <4>2. k < Len(records)
        BY <2>2, <2>5, <4>1
      <4> QED BY <2>4, <2>9, <4>2
    <3>2. CASE k > Len(records)
      <4>1. k - Len(records) \in 1..Len(rest) /\ k = Len(records) + (k - Len(records))
        BY <2>3, <2>4, <3>2
      <4>2. m_changes'[k] = m_changes[k] /\ k \in 1..Len(m_changes)
        <5>1. Processing /\ rest[k - Len(records)] = m_changes[Len(records) + (k - Len(records))]
          BY <2>3, <4>1
        <5>2. m_changes'[Len(records) + (k - Len(records))] = rest[k - Len(records)]
          BY <2>4, <4>1
        <5>3. Len(m_changes) > Len(records) /\ k <= Len(m_changes)
          BY <2>3, <2>9, <4>1, <5>1
        <5> QED BY <2>9, <4>1, <5>1, <5>2, <5>3
      <4>3. k + 1 \in 1..Len(m_changes)
        BY <2>5, <4>2 DEF BufferInv
      <4>4. Len(m_changes') >= Len(m_changes)
        BY <2>3, <2>4, <2>9, <4>1
      <4> QED BY <2>4, <4>3, <4>4 DEF BufferInv
    <3> QED BY <3>1, <3>2
  <2>6. StaysInBuffer'
    <3>1. SUFFICES ASSUME Processing' PROVE offset' \in 1..Len(m_changes')
      BY <2>4 DEF StaysInBuffer
    <3>2. offset' \in 1..Len(m_changes) /\ Processing
      BY <3>1 DEF BufferInv, StaysInBuffer
    <3>3. Len(m_changes') >= Len(m_changes)
      <4>1. CASE Len(m_changes) > Len(records)
        <5>1. Processing /\ Len(m_changes) > Len(records)
          BY <3>2, <4>1
        <5>2. Len(rest) = Len(m_changes) - Len(records)
          BY <2>10, <5>1
        <5> QED BY <2>4, <2>9, <5>2
      <4>2. CASE ~(Len(m_changes) > Len(records))
        BY <2>4, <2>9, <4>2
      <4> QED BY <4>1, <4>2
    <3> QED BY <2>4, <2>9, <3>2, <3>3
  <2>7. packets' \in Seq({"changes", "empty"}) /\ m_changes' # <<>>
    BY <2>1, <2>3, <2>4 DEF BufferInv
  <2> QED BY <2>4, <2>5, <2>6, <2>7 DEF BufferInv
<1> QED BY <1>1, <1>2

\* A step that does not touch the buffer or what is to come in it.
LEMMA LeavesBuffer ==
    ASSUME BufferInv, UNCHANGED <<changes, packets, m_changes>>,
           Processing' => Processing /\ offset' = offset
    PROVE  BufferInv'
BY DEF BufferInv, StaysInBuffer

LEMMA RecordType ==
    ASSUME NEW action \in Actions, NEW name \in Names \cup {NoName}
    PROVE  Record(action, name) \in Records
BY DEF Record, Records

LEMMA ReportKeepsBuffer ==
    ASSUME BufferInv, NEW folder, NEW records \in Seq(Records), records # <<>>,
           Report(folder, records), UNCHANGED threadVars
    PROVE  BufferInv'
<1>1. Overflow \in Seq(Records)
  <2>1. Record("OVERFLOW", NoName) \in Records
    BY RecordType DEF Actions
  <2> QED BY <2>1 DEF Overflow
<1>2. CASE Reported(folder) /\ reads > 0
  <2>1. Complete(records) /\ changes' = changes
    BY <1>2 DEF Report
  <2> QED BY <2>1, CompleteKeepsBuffer DEF BufferInv, threadVars, Processing
<1>3. CASE Reported(folder) /\ reads = 0
  <2>1. UNCHANGED <<packets, m_changes>> /\ changes' \in {Overflow, changes \o records}
    BY <1>3 DEF Report
  <2>2. changes' \in Seq(Records)
    <3>1. changes \o records \in Seq(Records)
      BY DEF BufferInv
    <3> QED BY <1>1, <2>1, <3>1
  <2> QED BY <2>1, <2>2 DEF BufferInv, StaysInBuffer, Processing, threadVars
<1>4. CASE UNCHANGED kernelVars
  BY <1>4, LeavesBuffer DEF kernelVars, threadVars, Processing
<1> QED BY <1>2, <1>3, <1>4 DEF Report

\* The thread goes from a record to the one that follows it, or leaves the buffer.
LEMMA NextRecordKeepsBuffer ==
    ASSUME BufferInv, Processing, NextRecord, UNCHANGED kernelVars
    PROVE  BufferInv'
<1>1. offset \in DOMAIN m_changes
  BY DEF BufferInv, StaysInBuffer
<1>2. Processing' => offset' \in DOMAIN m_changes
  BY <1>1 DEF NextRecord, BufferInv, Processing
<1> QED BY <1>2 DEF BufferInv, StaysInBuffer, kernelVars

LEMMA MonitorKeepsBuffer ==
    ASSUME BufferInv, MonitorStep
    PROVE  BufferInv'
<1>1. CASE IssueRead
  <2>1. ~Processing'
    BY <1>1 DEF IssueRead, Processing
  <2>2. CASE UNCHANGED kernelVars
    BY <2>1, <2>2, LeavesBuffer DEF kernelVars
  <2>3. CASE changes # <<>> /\ Complete(changes) /\ changes' = <<>>
    <3>1. changes \in Seq(Records) /\ changes' \in Seq(Records)
      BY <2>3 DEF BufferInv
    <3> QED BY <2>1, <2>3, <3>1, CompleteKeepsBuffer
  <2>4. CASE UNCHANGED <<packets, m_changes>> /\ changes' = <<>>
    BY <2>1, <2>4 DEF BufferInv, StaysInBuffer
  <2> QED BY <1>1, <2>2, <2>3, <2>4 DEF IssueRead
<1>2. CASE FolderDeleted
  BY <1>2, LeavesBuffer DEF FolderDeleted, kernelVars, Processing
<1>3. CASE Timeout
  BY <1>3, LeavesBuffer DEF Timeout, kernelVars, Processing
<1>4. CASE TakePacket
  <2>1. /\ packets \in Seq({"changes", "empty"}) /\ packets # <<>>
        /\ packets' = Tail(packets) /\ offset' = 1
        /\ UNCHANGED <<changes, m_changes>>
    BY <1>4 DEF TakePacket, BufferInv
  <2>2. /\ packets' \in Seq({"changes", "empty"})
        /\ \A k \in DOMAIN packets' : k + 1 \in DOMAIN packets /\ packets'[k] = packets[k + 1]
    BY <2>1
  <2>3. (\E k \in DOMAIN packets' : packets'[k] = "changes") => m_changes # <<>>
    BY <2>2 DEF BufferInv
  <2>4. Processing' => offset' \in DOMAIN m_changes'
    <3>1. SUFFICES ASSUME Processing' PROVE 1 \in DOMAIN m_changes
      BY <2>1
    <3>2. Head(packets) = packets[1] /\ 1 \in DOMAIN packets /\ Head(packets) # "empty"
      BY <1>4, <2>1, <3>1 DEF TakePacket, Processing
    <3>3. packets[1] \in {"changes", "empty"}
      BY <2>1, <3>2
    <3>4. m_changes # <<>>
      BY <3>2, <3>3 DEF BufferInv
    <3> QED BY <3>4 DEF BufferInv
  <2> QED BY <2>1, <2>2, <2>3, <2>4 DEF BufferInv, StaysInBuffer
<1>5. CASE RememberOldName
  BY <1>5, NextRecordKeepsBuffer DEF RememberOldName, Processing
<1>6. CASE ProcessNotification
  BY <1>6, LeavesBuffer DEF ProcessNotification, kernelVars, Processing
<1>7. CASE QueueEvent
  <2>1. CASE monitor = "leaving"
    BY <1>7, <2>1, LeavesBuffer DEF QueueEvent, kernelVars, Processing
  <2>2. CASE monitor # "leaving"
    BY <1>7, <2>2, NextRecordKeepsBuffer DEF QueueEvent, Processing
  <2> QED BY <2>1, <2>2
<1> QED BY <1>1, <1>2, <1>3, <1>4, <1>5, <1>6, <1>7 DEF MonitorStep

LEMMA ViewerKeepsBuffer ==
    ASSUME BufferInv, ViewerThread
    PROVE  BufferInv'
<1>1. CASE StartMonitor
  BY <1>1 DEF StartMonitor, Start, BufferInv, StaysInBuffer, Processing
<1>2. CASE FolderIsGone
  BY <1>2, LeavesBuffer DEF FolderIsGone, kernelVars, Processing
<1>3. CASE FillCacher
  BY <1>3, LeavesBuffer DEF FillCacher, monitorVars, kernelVars, threadVars, Processing
<1>4. CASE OnFileEvent
  BY <1>4, LeavesBuffer DEF OnFileEvent, kernelVars, threadVars, Processing
<1>5. CASE OnFolderDeleted
  BY <1>5, LeavesBuffer DEF OnFolderDeleted, CloseHandles, kernelVars, threadVars, Processing
<1>6. CASE MonitorClosed
  BY <1>6, LeavesBuffer DEF MonitorClosed, kernelVars, Processing
<1> QED BY <1>1, <1>2, <1>3, <1>4, <1>5, <1>6 DEF ViewerThread

LEMMA DiskKeepsBuffer ==
    ASSUME BufferInv, NEW folder,
           \/ \E name \in Names : AddFile(folder, name) \/ RemoveFile(folder, name)
           \/ \E old, new \in Names : RenameFile(folder, old, new)
           \/ RemoveFolder(folder)
    PROVE  BufferInv'
<1>1. ASSUME NEW name \in Names, AddFile(folder, name) \/ RemoveFile(folder, name)
      PROVE  BufferInv'
  <2>1. PICK action \in {"ADDED", "REMOVED"} : Report(folder, <<Record(action, name)>>)
    BY <1>1 DEF AddFile, RemoveFile
  <2>2. Record(action, name) \in Records
    BY RecordType DEF Actions
  <2>3. UNCHANGED threadVars
    BY <1>1 DEF AddFile, RemoveFile
  <2> DEFINE records == <<Record(action, name)>>
  <2>4. records \in Seq(Records) /\ records # <<>>
    BY <2>2
  <2>5. Report(folder, records)
    BY <2>1
  <2> HIDE DEF records
  <2> QED BY ONLY BufferInv, <2>3, <2>4, <2>5, ReportKeepsBuffer
<1>2. ASSUME NEW old \in Names, NEW new \in Names, RenameFile(folder, old, new)
      PROVE  BufferInv'
  <2> DEFINE records == <<Record("RENAMED_OLD_NAME", old), Record("RENAMED_NEW_NAME", new)>>
  <2>1. Report(folder, records) /\ UNCHANGED threadVars
    BY <1>2 DEF RenameFile
  <2>2. /\ Record("RENAMED_OLD_NAME", old) \in Records
        /\ Record("RENAMED_NEW_NAME", new) \in Records
    BY RecordType DEF Actions
  <2>3. records \in Seq(Records) /\ records # <<>>
    BY <2>2
  <2> HIDE DEF records
  <2> QED BY ONLY BufferInv, <2>1, <2>3, ReportKeepsBuffer
<1>3. CASE RemoveFolder(folder)
  BY <1>3, LeavesBuffer DEF RemoveFolder, kernelVars, threadVars, Processing
<1> QED BY <1>1, <1>2, <1>3

LEMMA OthersKeepBuffer ==
    ASSUME BufferInv, OthersChange \/ UserStep
    PROVE  BufferInv'
<1>1. CASE OthersChange
  BY <1>1, DiskKeepsBuffer DEF OthersChange
<1>2. ASSUME NEW folder \in Folders, SetImageLocation(folder)
      PROVE  BufferInv'
  BY <1>2, LeavesBuffer DEF SetImageLocation, CloseHandles, kernelVars, threadVars, Processing
<1>3. ASSUME NEW folder \in Folders, NEW name \in Names, RemoveImage(folder, name)
      PROVE  BufferInv'
  BY <1>3, DiskKeepsBuffer DEF RemoveImage
<1>4. ASSUME NEW folder \in Folders, NEW name \in Names, RenameFails(folder, name)
      PROVE  BufferInv'
  BY <1>4, LeavesBuffer DEF RenameFails, monitorVars, kernelVars, threadVars, Processing
<1>5. ASSUME NEW folder \in Folders, NEW old \in Names, NEW new \in Names,
             RenameCurrent(folder, old, new)
      PROVE  BufferInv'
  BY <1>5, DiskKeepsBuffer DEF RenameCurrent
<1> QED BY <1>1, <1>2, <1>3, <1>4, <1>5 DEF UserStep

\* The thread never follows NextEntryOffset out of the buffer, though the kernel
\* writes into it while the thread reads it.
THEOREM ThreadStaysInBuffer == Spec => []StaysInBuffer
<1>1. Init => BufferInv
  BY InitBuffer
<1>2. BufferInv /\ [Next]_vars => BufferInv'
  <2> SUFFICES ASSUME BufferInv, [Next]_vars PROVE BufferInv'
    OBVIOUS
  <2>1. CASE OthersChange \/ UserStep
    BY <2>1, OthersKeepBuffer
  <2>2. CASE ViewerThread
    BY <2>2, ViewerKeepsBuffer
  <2>3. CASE MonitorThread
    BY <2>3, MonitorKeepsBuffer DEF MonitorThread
  <2>4. CASE UNCHANGED vars
    BY <2>4, LeavesBuffer DEF vars, monitorVars, kernelVars, threadVars, Processing
  <2> QED BY <2>1, <2>2, <2>3, <2>4 DEF Next
<1>3. BufferInv => StaysInBuffer
  BY DEF BufferInv
<1> QED BY <1>1, <1>2, <1>3, PTL DEF Spec

-----------------------------------------------------------------------------
(* ListMatchesFolder. What is on its way from the disk to the list is one  *)
(* sequence of events, the tape: the notifications nobody has handled,     *)
(* then the records of the buffer the thread has not told of, then the     *)
(* records no read has fetched. The list follows the disk when the tape    *)
(* leads from the one to the other, name by name; a name whose changes go  *)
(* astray is one the tape need not be right about. First the tape by       *)
(* itself: what is put on it, taken from it and lost of it.                *)

\* What an entry of the list counts once the file is there.
Once(name) == IF name \in Viewable THEN 1 ELSE 0

\* What is left of a count when an entry is taken away.
Less(count) == IF count > 0 THEN count - 1 ELSE count

\* The event is the end of the folder.
Deletes(event, folder) == event.path = folder /\ event.type = "MonitoredFolderDeleted"

\* The event may change how often the name is listed.
Concerns(event, folder, name) ==
    event.path = folder /\ (Deletes(event, folder) \/ name \in {event.name, event.previous})

\* The entries of the file that is renamed to this one.
Taken(event, counts) ==
    IF event.previous \in Names /\ counts[event.previous] > 0 THEN 1 ELSE 0

\* What an event makes of the count of a name it concerns.
Changes(event, folder, counts, name, count) ==
    /\ Deletes(event, folder) => count = 0
    /\ event.type = "FileAdded" => count = counts[name] + Once(name)
    /\ event.type = "FileRemoved" => count = Less(counts[name])
    /\ event.type = "FileRenamed" /\ event.name # event.previous =>
          count = IF name = event.previous THEN Less(counts[name])
                  ELSE counts[name] + Taken(event, counts)

\* What is known of the list after an event follows from what is known before it.
Follows(event, folder, before, after) ==
    \A name \in Names : after[name] \in Nat =>
        IF ~Concerns(event, folder, name) THEN after[name] = before[name]
        ELSE /\ Changes(event, folder, before, name, after[name])
             /\ ~Deletes(event, folder) => before[name] \in Nat
             /\ ~Deletes(event, folder) /\ event.type = "FileRenamed" =>
                   /\ event.name # event.previous
                   /\ name # event.previous /\ event.previous \in Names =>
                         before[event.previous] \in Nat

\* Where the disk is known to be followed, and what the list should say there.
Wanted(here, name) == IF name \in here THEN 1 ELSE 0

\* None of the events from one place to another concerns the name.
Unconcerned(tape, from, to, folder, name) ==
    \A k \in from..to : ~Concerns(tape[k], folder, name)

\* counts[i] is what is known of the list after i of the T events of the tape; what is
\* not known is no natural number.
Leads(tape, T, counts, folder, list, here, lost) ==
    /\ T \in Nat
    /\ counts \in [0..T -> [Names -> Int]]
    /\ \A name \in Names : counts[0][name] \in Nat => list[name] = counts[0][name]
    /\ \A i \in 1..T : Follows(tape[i], folder, counts[i - 1], counts[i])
    /\ \A i \in 0..T, name \in Names :
          counts[T][name] \in Nat /\ Unconcerned(tape, i + 1, T, folder, name)
             => counts[i][name] = counts[T][name]
    /\ \A name \in Names \ lost : counts[T][name] = Wanted(here, name)

\* Nothing is known of the names of the junk after any of the events from there on.
Unknown(counts, from, T, junk) ==
    \A i \in from..T, name \in junk \cap Names : counts[i][name] \notin Nat

\* The events of the tape lead from the list to the disk, and nothing is known of the
\* names of the junk from a place on.
Pending(tape, T, folder, list, here, lost, from, junk) ==
    /\ from \in 0..T
    /\ \E counts : Leads(tape, T, counts, folder, list, here, lost)
                     /\ Unknown(counts, from, T, junk)

\* A name that no event of the tape concerns is listed as it is wanted.
LEMMA Nothing ==
    ASSUME NEW tape, NEW folder, NEW list, NEW here, NEW lost, NEW from, NEW junk,
           NEW T, Pending(tape, T, folder, list, here, lost, from, junk),
           NEW name \in Names \ lost, Unconcerned(tape, 1, T, folder, name)
    PROVE  list[name] = Wanted(here, name) /\ name \notin junk
<1>1. PICK counts : Leads(tape, T, counts, folder, list, here, lost) /\ Unknown(counts, from, T, junk)
  BY DEF Pending
<1>2. T \in Nat /\ 0 \in 0..T /\ from \in 0..T
  BY <1>1 DEF Leads, Pending
<1>3. counts[T][name] = Wanted(here, name) /\ Wanted(here, name) \in Nat
  BY <1>1 DEF Leads, Wanted
<1>4. counts[0][name] = counts[T][name]
  <2>1. Unconcerned(tape, 0 + 1, T, folder, name)
    OBVIOUS
  <2> QED BY <1>1, <1>2, <1>3, <2>1 DEF Leads
<1>5. list[name] = counts[0][name]
  BY <1>1, <1>3, <1>4 DEF Leads
<1>6. name \notin junk
  <2>1. T \in from..T
    BY <1>2
  <2> QED BY <1>1, <1>3, <2>1 DEF Unknown
<1> QED BY <1>3, <1>4, <1>5, <1>6

\* The same events, on the same way, and no more is claimed of the disk.
LEMMA PendingStays ==
    ASSUME NEW tape, NEW folder, NEW list, NEW here, NEW lost, NEW from, NEW junk,
           NEW T, Pending(tape, T, folder, list, here, lost, from, junk),
           NEW tape2, \A i \in 1..T : tape2[i] = tape[i],
           NEW list2, \A name \in Names : list2[name] = list[name],
           NEW here2, NEW lost2, lost \cap Names \subseteq lost2,
           \A name \in Names \ lost2 : Wanted(here2, name) = Wanted(here, name),
           NEW from2 \in from..T, NEW junk2, junk2 \cap Names \subseteq junk
    PROVE  Pending(tape2, T, folder, list2, here2, lost2, from2, junk2)
<1>1. PICK counts : Leads(tape, T, counts, folder, list, here, lost) /\ Unknown(counts, from, T, junk)
  BY DEF Pending
<1>2. T \in Nat /\ from \in 0..T
  BY <1>1 DEF Leads, Pending
<1>3. \A i \in 1..T : Follows(tape2[i], folder, counts[i - 1], counts[i])
  BY <1>1 DEF Leads
<1>4. ASSUME NEW i \in 0..T, NEW name \in Names, counts[T][name] \in Nat,
             Unconcerned(tape2, i + 1, T, folder, name)
      PROVE  counts[i][name] = counts[T][name]
  <2>1. \A k \in i + 1..T : k \in 1..T
    BY <1>2
  <2>2. Unconcerned(tape, i + 1, T, folder, name)
    BY <1>4, <2>1 DEF Unconcerned
  <2> QED BY <1>1, <1>4, <2>2 DEF Leads
<1>5. Leads(tape2, T, counts, folder, list2, here2, lost2)
  BY <1>1, <1>3, <1>4 DEF Leads
<1>6. Unknown(counts, from2, T, junk2)
  <2>1. \A i \in from2..T : i \in from..T
    BY <1>2
  <2> QED BY <1>1, <2>1 DEF Unknown
<1> QED BY <1>2, <1>5, <1>6 DEF Pending

\* The viewer handles the first event.
LEMMA PendingConsumes ==
    ASSUME NEW tape, NEW folder, NEW list, NEW here, NEW lost, NEW from, NEW junk,
           NEW T, Pending(tape, T, folder, list, here, lost, from, junk), from > 0,
           NEW tape2, \A i \in 1..(T - 1) : tape2[i] = tape[i + 1],
           NEW list2,
           \A name \in Names :
               IF Concerns(tape[1], folder, name)
               THEN Changes(tape[1], folder, list, name, list2[name])
                    /\ tape[1].type \in {"MonitoredFolderDeleted", "FileAdded", "FileRemoved", "FileRenamed"}
               ELSE list2[name] = list[name],
           NEW lost2, lost \cap Names \subseteq lost2
    PROVE  Pending(tape2, T - 1, folder, list2, here, lost2, from - 1, junk)
<1>1. PICK counts : Leads(tape, T, counts, folder, list, here, lost) /\ Unknown(counts, from, T, junk)
  BY DEF Pending
<1>2. T \in Nat /\ from \in 0..T /\ T > 0 /\ T - 1 \in Nat /\ from - 1 \in 0..(T - 1)
  BY <1>1 DEF Leads, Pending
<1>3. PICK c : c = [i \in 0..(T - 1) |-> counts[i + 1]]
  OBVIOUS
<1>4. \A i \in 0..(T - 1) : i + 1 \in 0..T /\ i + 1 \in 1..T /\ c[i] = counts[i + 1]
  BY <1>2, <1>3
<1>5. c \in [0..(T - 1) -> [Names -> Int]] /\ c[T - 1] = counts[T] /\ c[0] = counts[1]
  BY <1>1, <1>2, <1>3, <1>4 DEF Leads
<1>6. ASSUME NEW name \in Names, c[0][name] \in Nat PROVE list2[name] = c[0][name]
  <2>1. 1 \in 1..T /\ 1 - 1 = 0
    BY <1>2
  <2>2. Follows(tape[1], folder, counts[0], counts[1])
    BY <1>1, <2>1 DEF Leads
  <2>3. PICK before : before = counts[0]
    OBVIOUS
  <2>4. PICK after : after = counts[1]
    OBVIOUS
  <2>5. PICK event : event = tape[1]
    OBVIOUS
  <2>6. Follows(event, folder, before, after) /\ after[name] \in Nat
    BY <1>5, <1>6, <2>2, <2>3, <2>4, <2>5
  <2>7. \A n \in Names : before[n] \in Nat => list[n] = before[n]
    BY <1>1, <2>3 DEF Leads
  <2>8. IF Concerns(event, folder, name)
        THEN Changes(event, folder, list, name, list2[name])
             /\ event.type \in {"MonitoredFolderDeleted", "FileAdded", "FileRemoved", "FileRenamed"}
        ELSE list2[name] = list[name]
    BY <2>5
  <2>9. list2[name] = after[name]
    <3>1. CASE ~Concerns(event, folder, name)
      BY <2>6, <2>7, <2>8, <3>1 DEF Follows
    <3>2. CASE Concerns(event, folder, name) /\ Deletes(event, folder)
      BY <2>6, <2>8, <3>2 DEF Follows, Changes
    <3>3. CASE Concerns(event, folder, name) /\ ~Deletes(event, folder)
      <4>1. /\ Changes(event, folder, before, name, after[name])
            /\ before[name] \in Nat /\ list[name] = before[name]
            /\ event.type = "FileRenamed" => event.name # event.previous
            /\ event.type = "FileRenamed" /\ name # event.previous /\ event.previous \in Names =>
                  list[event.previous] = before[event.previous]
        BY <2>6, <2>7, <3>3 DEF Follows
      <4>2. Changes(event, folder, list, name, list2[name])
            /\ event.type \in {"FileAdded", "FileRemoved", "FileRenamed"}
        BY <2>8, <3>3 DEF Deletes, Concerns
      <4> QED BY <4>1, <4>2 DEF Changes, Taken
    <3> QED BY <3>1, <3>2, <3>3
  <2> QED BY <1>5, <2>4, <2>9
<1>7. ASSUME NEW i \in 1..(T - 1) PROVE Follows(tape2[i], folder, c[i - 1], c[i])
  <2>1. i + 1 \in 1..T /\ (i + 1) - 1 = i /\ i \in 0..(T - 1) /\ i - 1 \in 0..(T - 1) /\ (i - 1) + 1 = i
    BY <1>2
  <2>2. Follows(tape[i + 1], folder, counts[i], counts[i + 1])
    BY <1>1, <2>1 DEF Leads
  <2>3. c[i] = counts[i + 1] /\ c[i - 1] = counts[i] /\ tape2[i] = tape[i + 1]
    BY <1>4, <2>1
  <2> QED BY <2>2, <2>3
<1>8. ASSUME NEW i \in 0..(T - 1), NEW name \in Names, c[T - 1][name] \in Nat,
             Unconcerned(tape2, i + 1, T - 1, folder, name)
      PROVE  c[i][name] = c[T - 1][name]
  <2>1. ASSUME NEW k \in (i + 1) + 1..T PROVE ~Concerns(tape[k], folder, name)
    <3>1. k - 1 \in i + 1..(T - 1) /\ k - 1 \in 1..(T - 1) /\ (k - 1) + 1 = k
      BY <1>2
    <3>2. tape2[k - 1] = tape[k]
      BY <3>1
    <3> QED BY <1>8, <3>1, <3>2 DEF Unconcerned
  <2>2. Unconcerned(tape, (i + 1) + 1, T, folder, name)
    BY <2>1 DEF Unconcerned
  <2>3. i + 1 \in 0..T
    BY <1>4
  <2> QED BY <1>1, <1>4, <1>5, <1>8, <2>2, <2>3 DEF Leads
<1>9. Leads(tape2, T - 1, c, folder, list2, here, lost2)
  BY <1>1, <1>2, <1>5, <1>6, <1>7, <1>8 DEF Leads
<1>10. Unknown(c, from - 1, T - 1, junk)
  <2>1. ASSUME NEW i \in from - 1..(T - 1) PROVE i + 1 \in from..T /\ c[i] = counts[i + 1]
    BY <1>2, <1>4
  <2> QED BY <1>1, <2>1 DEF Unknown
<1> QED BY <1>2, <1>9, <1>10 DEF Pending

\* A change of the disk is recorded.
LEMMA PendingAppends ==
    ASSUME NEW tape, NEW folder, NEW list, NEW here, NEW lost, NEW from, NEW junk,
           NEW T, Pending(tape, T, folder, list, here, lost, from, junk),
           NEW tape2, \A i \in 1..T : tape2[i] = tape[i],
           NEW event, tape2[T + 1] = event, ~Deletes(event, folder),
           NEW here2, NEW lost2, lost \cap Names \subseteq lost2,
           \A name \in Names \ lost2 :
               IF ~Concerns(event, folder, name) THEN Wanted(here2, name) = Wanted(here, name)
               ELSE /\ event.type = "FileAdded" =>
                           Wanted(here, name) = 0 /\ Wanted(here2, name) = Once(name)
                    /\ event.type = "FileRemoved" => Wanted(here2, name) = 0
                    /\ event.type = "FileRenamed" =>
                          /\ event.name # event.previous
                          /\ name = event.previous => Wanted(here2, name) = 0
                          /\ name # event.previous =>
                                /\ event.previous \in Names \ lost
                                /\ Wanted(here2, name) = Wanted(here, name) + Wanted(here, event.previous)
    PROVE  Pending(tape2, T + 1, folder, list, here2, lost2, from, junk)
<1>1. PICK counts : Leads(tape, T, counts, folder, list, here, lost) /\ Unknown(counts, from, T, junk)
  BY DEF Pending
<1>2. T \in Nat /\ from \in 0..T /\ T + 1 \in Nat /\ from \in 0..(T + 1) /\ (T + 1) - 1 = T
  BY <1>1 DEF Leads, Pending
<1>3. PICK end : end = [name \in Names |-> IF name \in lost2 THEN -1 ELSE Wanted(here2, name)]
  OBVIOUS
<1>4. /\ end \in [Names -> Int]
      /\ \A name \in Names : end[name] \in Nat => name \notin lost2 /\ end[name] = Wanted(here2, name)
      /\ \A name \in Names \ lost2 : end[name] = Wanted(here2, name)
  BY <1>3 DEF Wanted
<1>5. PICK c : c = [i \in 0..(T + 1) |-> IF i = T + 1 THEN end ELSE counts[i]]
  OBVIOUS
<1>6. /\ \A i \in 0..T : i \in 0..(T + 1) /\ c[i] = counts[i]
      /\ c[T + 1] = end
      /\ c \in [0..(T + 1) -> [Names -> Int]]
  <2>1. \A i \in 0..T : i \in 0..(T + 1) /\ i # T + 1 /\ counts[i] \in [Names -> Int]
    BY <1>1, <1>2 DEF Leads
  <2>2. \A i \in 0..(T + 1) : i = T + 1 \/ i \in 0..T
    BY <1>2
  <2> QED BY <1>2, <1>4, <1>5, <2>1, <2>2
<1>7. ASSUME NEW name \in Names, c[0][name] \in Nat PROVE list[name] = c[0][name]
  BY <1>1, <1>2, <1>6, <1>7 DEF Leads
<1>8. Follows(event, folder, counts[T], end)
  <2>1. PICK last : last = counts[T]
    OBVIOUS
  <2>2. \A name \in Names \ lost : last[name] = Wanted(here, name) /\ last[name] \in Nat
    BY <1>1, <2>1 DEF Leads, Wanted
  <2>3. ASSUME NEW name \in Names, end[name] \in Nat
        PROVE  /\ name \notin lost2 /\ name \notin lost
               /\ end[name] = Wanted(here2, name)
               /\ last[name] = Wanted(here, name) /\ last[name] \in {0, 1}
    BY <1>4, <2>2, <2>3 DEF Wanted
  <2>4. ASSUME NEW name \in Names, end[name] \in Nat, Concerns(event, folder, name)
        PROVE  Changes(event, folder, last, name, end[name])
    BY <2>2, <2>3, <2>4 DEF Changes, Taken, Less, Wanted
  <2>5. ASSUME NEW name \in Names, end[name] \in Nat, Concerns(event, folder, name),
               event.type = "FileRenamed"
        PROVE  /\ event.name # event.previous
               /\ name # event.previous /\ event.previous \in Names => last[event.previous] \in Nat
    BY <2>2, <2>3, <2>5
  <2>6. Follows(event, folder, last, end)
    BY <2>3, <2>4, <2>5 DEF Follows
  <2> QED BY <2>1, <2>6
<1>9. ASSUME NEW i \in 1..(T + 1) PROVE Follows(tape2[i], folder, c[i - 1], c[i])
  <2>1. CASE i = T + 1
    <3>1. c[i - 1] = counts[T] /\ c[i] = end /\ tape2[i] = event
      <4>1. i - 1 = T /\ T \in 0..T
        BY <1>2, <2>1
      <4> QED BY <1>6, <2>1, <4>1
    <3> QED BY <1>8, <3>1
  <2>2. CASE i # T + 1
    <3>1. i \in 1..T /\ i \in 0..T /\ i - 1 \in 0..T
      BY <1>2, <2>2
    <3>2. c[i] = counts[i] /\ c[i - 1] = counts[i - 1] /\ tape2[i] = tape[i]
      BY <1>6, <3>1
    <3>3. Follows(tape[i], folder, counts[i - 1], counts[i])
      BY <1>1, <3>1 DEF Leads
    <3> QED BY <3>2, <3>3
  <2> QED BY <2>1, <2>2
<1>10. ASSUME NEW i \in 0..(T + 1), NEW name \in Names, c[T + 1][name] \in Nat,
              Unconcerned(tape2, i + 1, T + 1, folder, name)
       PROVE  c[i][name] = c[T + 1][name]
  <2>1. CASE i = T + 1
    BY <2>1
  <2>2. CASE i # T + 1
    <3>1. i \in 0..T /\ T + 1 \in i + 1..(T + 1) /\ \A k \in i + 1..T : k \in i + 1..(T + 1) /\ k \in 1..T
      BY <1>2, <2>2
    <3>2. ~Concerns(event, folder, name) /\ Unconcerned(tape, i + 1, T, folder, name)
      BY <1>10, <3>1 DEF Unconcerned
    <3>3. name \notin lost2 /\ end[name] = Wanted(here2, name)
      BY <1>4, <1>6, <1>10
    <3>4. Wanted(here2, name) = Wanted(here, name) /\ name \notin lost
      BY <3>2, <3>3
    <3>5. counts[T][name] = Wanted(here, name) /\ Wanted(here, name) \in Nat
      BY <1>1, <3>4 DEF Leads, Wanted
    <3>6. counts[i][name] = counts[T][name]
      BY <1>1, <3>1, <3>2, <3>5 DEF Leads
    <3> QED BY <1>6, <3>1, <3>3, <3>4, <3>5, <3>6
  <2> QED BY <2>1, <2>2
<1>11. Leads(tape2, T + 1, c, folder, list, here2, lost2)
  BY <1>2, <1>4, <1>6, <1>7, <1>9, <1>10 DEF Leads
<1>12. Unknown(c, from, T + 1, junk)
  <2>1. \A name \in junk \cap Names : name \in lost2
    <3>1. T \in from..T
      BY <1>2
    <3>2. \A name \in junk \cap Names : counts[T][name] \notin Nat
      BY <1>1, <3>1 DEF Unknown
    <3>3. \A name \in Names \ lost : counts[T][name] \in Nat
      BY <1>1 DEF Leads, Wanted
    <3> QED BY <3>2, <3>3
  <2>2. ASSUME NEW i \in from..(T + 1), NEW name \in junk \cap Names PROVE c[i][name] \notin Nat
    <3>1. CASE i = T + 1
      BY <1>4, <1>6, <2>1, <3>1
    <3>2. CASE i # T + 1
      <4>1. i \in from..T /\ i \in 0..T
        BY <1>2, <3>2
      <4> QED BY <1>1, <1>6, <4>1 DEF Unknown
    <3> QED BY <3>1, <3>2
  <2> QED BY <2>2 DEF Unknown
<1> QED BY <1>2, <1>11, <1>12 DEF Pending

\* A record that tells nothing by itself has been read.
LEMMA PendingSkips ==
    ASSUME NEW tape, NEW folder, NEW list, NEW here, NEW lost, NEW from, NEW junk,
           NEW T, Pending(tape, T, folder, list, here, lost, from, junk),
           NEW j \in from + 1..T, \A name \in Names : ~Concerns(tape[j], folder, name),
           NEW tape2, \A i \in 1..(T - 1) : tape2[i] = IF i < j THEN tape[i] ELSE tape[i + 1]
    PROVE  Pending(tape2, T - 1, folder, list, here, lost, from, junk)
<1>1. PICK counts : Leads(tape, T, counts, folder, list, here, lost) /\ Unknown(counts, from, T, junk)
  BY DEF Pending
<1>2. T \in Nat /\ from \in 0..(T - 1) /\ T - 1 \in Nat /\ j \in 1..T
  BY <1>1 DEF Leads, Pending
<1>3. PICK c : c = [i \in 0..(T - 1) |-> IF i < j - 1 THEN counts[i] ELSE counts[i + 1]]
  OBVIOUS
<1>4. \A i \in 0..(T - 1) : /\ i \in 0..T /\ i + 1 \in 0..T
                            /\ i < j - 1 => c[i] = counts[i]
                            /\ i >= j - 1 => c[i] = counts[i + 1]
  BY <1>2, <1>3
<1>5. c \in [0..(T - 1) -> [Names -> Int]] /\ c[T - 1] = counts[T]
  <2>1. T - 1 >= j - 1 /\ T - 1 \in 0..(T - 1) /\ (T - 1) + 1 = T
    BY <1>2
  <2> QED BY <1>1, <1>2, <1>3, <1>4, <2>1 DEF Leads
\* What is known after the record was known before it.
<1>6. ASSUME NEW i \in 0..(T - 1), i <= j - 1, NEW name \in Names, c[i][name] \in Nat
      PROVE  counts[i][name] = c[i][name]
  <2>1. CASE i = j - 1
    <3>1. Follows(tape[j], folder, counts[j - 1], counts[j]) /\ c[i] = counts[j] /\ counts[i] = counts[j - 1]
      <4>1. (j - 1) + 1 = j /\ j - 1 >= j - 1
        BY <1>2
      <4> QED BY <1>1, <1>2, <1>4, <2>1, <4>1 DEF Leads
    <3> QED BY <1>6, <3>1 DEF Follows
  <2>2. CASE i # j - 1
    <3>1. i < j - 1
      BY <1>2, <1>6, <2>2
    <3> QED BY <1>4, <3>1
  <2> QED BY <2>1, <2>2
<1>7. ASSUME NEW name \in Names, c[0][name] \in Nat PROVE list[name] = c[0][name]
  <2>1. 0 \in 0..(T - 1) /\ 0 <= j - 1
    BY <1>2
  <2>2. counts[0][name] = c[0][name]
    BY <1>6, <1>7, <2>1
  <2> QED BY <1>1, <1>7, <2>2 DEF Leads
<1>8. ASSUME NEW i \in 1..(T - 1) PROVE Follows(tape2[i], folder, c[i - 1], c[i])
  <2>1. i - 1 \in 0..(T - 1) /\ i \in 0..(T - 1) /\ i \in 1..T /\ i + 1 \in 1..T
        /\ (i + 1) - 1 = i /\ (i - 1) + 1 = i
    BY <1>2
  <2>2. CASE i < j
    <3>1. tape2[i] = tape[i] /\ (c[i - 1] = counts[i - 1] \/ c[i - 1] = counts[i])
      BY <1>4, <2>1, <2>2
    <3>2. c[i - 1] = counts[i - 1]
      <4>1. i - 1 < j - 1
        BY <1>2, <2>2
      <4> QED BY <1>4, <2>1, <4>1
    <3>3. PICK before : before = counts[i - 1]
      OBVIOUS
    <3>4. PICK middle : middle = counts[i]
      OBVIOUS
    <3>5. PICK after : after = c[i]
      OBVIOUS
    <3>6. PICK event : event = tape[i]
      OBVIOUS
    <3>7. \A name \in Names : after[name] \in Nat => middle[name] = after[name]
      <4>1. i <= j - 1
        BY <1>2, <2>2
      <4> QED BY <1>6, <2>1, <3>4, <3>5, <4>1
    <3>8. Follows(event, folder, before, middle)
      BY <1>1, <2>1, <3>3, <3>4, <3>6 DEF Leads
    <3>9. Follows(event, folder, before, after)
      BY <3>7, <3>8 DEF Follows
    <3>10. tape2[i] = event
      BY <2>2, <3>6
    <3> QED BY <3>2, <3>3, <3>5, <3>9, <3>10
  <2>3. CASE ~(i < j)
    <3>1. i - 1 >= j - 1 /\ i >= j - 1
      BY <1>2, <2>3
    <3>2. tape2[i] = tape[i + 1] /\ c[i - 1] = counts[i] /\ c[i] = counts[i + 1]
      BY <1>4, <2>1, <2>3, <3>1
    <3>3. Follows(tape[i + 1], folder, counts[i], counts[i + 1])
      BY <1>1, <2>1 DEF Leads
    <3> QED BY <3>2, <3>3
  <2> QED BY <2>2, <2>3
<1>9. ASSUME NEW i \in 0..(T - 1), NEW name \in Names, c[T - 1][name] \in Nat,
             Unconcerned(tape2, i + 1, T - 1, folder, name)
      PROVE  c[i][name] = c[T - 1][name]
  <2>1. CASE i < j - 1
    <3>1. ASSUME NEW k \in i + 1..T PROVE ~Concerns(tape[k], folder, name)
      <4>1. CASE k < j
        <5>1. k \in i + 1..(T - 1) /\ k \in 1..(T - 1)
          BY <1>2, <4>1
        <5>2. tape2[k] = tape[k]
          BY <4>1, <5>1
        <5> QED BY <1>9, <5>1, <5>2 DEF Unconcerned
      <4>2. CASE k > j
        <5>1. k - 1 \in i + 1..(T - 1) /\ k - 1 \in 1..(T - 1) /\ (k - 1) + 1 = k /\ ~(k - 1 < j)
          BY <1>2, <2>1, <4>2
        <5>2. tape2[k - 1] = tape[k]
          BY <5>1
        <5> QED BY <1>9, <5>1, <5>2 DEF Unconcerned
      <4> QED BY <1>2, <4>1, <4>2
    <3>2. Unconcerned(tape, i + 1, T, folder, name) /\ i \in 0..T /\ c[i] = counts[i]
      BY <1>4, <2>1, <3>1 DEF Unconcerned
    <3> QED BY <1>1, <1>5, <1>9, <3>2 DEF Leads
  <2>2. CASE ~(i < j - 1)
    <3>1. ASSUME NEW k \in (i + 1) + 1..T PROVE ~Concerns(tape[k], folder, name)
      <4>1. k - 1 \in i + 1..(T - 1) /\ k - 1 \in 1..(T - 1) /\ (k - 1) + 1 = k /\ ~(k - 1 < j)
        BY <1>2, <2>2
      <4>2. tape2[k - 1] = tape[k]
        BY <4>1
      <4> QED BY <1>9, <4>1, <4>2 DEF Unconcerned
    <3>2. Unconcerned(tape, (i + 1) + 1, T, folder, name)
      BY <3>1 DEF Unconcerned
    <3>3. i + 1 \in 0..T /\ c[i] = counts[i + 1]
      <4>1. i >= j - 1
        BY <1>2, <2>2
      <4> QED BY <1>4, <4>1
    <3> QED BY <1>1, <1>5, <1>9, <3>2, <3>3 DEF Leads
  <2> QED BY <2>1, <2>2
<1>10. Leads(tape2, T - 1, c, folder, list, here, lost)
  BY <1>1, <1>2, <1>5, <1>7, <1>8, <1>9 DEF Leads
<1>11. Unknown(c, from, T - 1, junk)
  <2>1. ASSUME NEW i \in from..(T - 1), NEW name \in junk \cap Names PROVE c[i][name] \notin Nat
    <3>1. i \in from..T /\ i + 1 \in from..T /\ i \in 0..(T - 1)
      BY <1>2
    <3>2. c[i] \in {counts[i], counts[i + 1]}
      BY <1>2, <1>4, <3>1
    <3> QED BY <1>1, <3>1, <3>2 DEF Unknown
  <2> QED BY <2>1 DEF Unknown
<1> QED BY <1>2, <1>10, <1>11 DEF Pending

\* An event is told that only concerns names of the junk.
LEMMA PendingInserts ==
    ASSUME NEW tape, NEW folder, NEW list, NEW here, NEW lost, NEW from, NEW junk,
           NEW T, Pending(tape, T, folder, list, here, lost, from, junk),
           NEW tape2, \A i \in 1..from : tape2[i] = tape[i],
           \A i \in from + 2..(T + 1) : tape2[i] = tape[i - 1],
           \A name \in Names : Concerns(tape2[from + 1], folder, name) => name \in junk
    PROVE  Pending(tape2, T + 1, folder, list, here, lost, from + 1, junk)
<1>1. PICK counts : Leads(tape, T, counts, folder, list, here, lost) /\ Unknown(counts, from, T, junk)
  BY DEF Pending
<1>2. T \in Nat /\ from \in 0..T /\ T + 1 \in Nat /\ from + 1 \in 0..(T + 1)
  BY <1>1 DEF Leads, Pending
<1>3. PICK c : c = [i \in 0..(T + 1) |-> IF i <= from THEN counts[i] ELSE counts[i - 1]]
  OBVIOUS
<1>4. \A i \in 0..(T + 1) : /\ i <= from => i \in 0..T /\ c[i] = counts[i]
                            /\ i > from => i - 1 \in 0..T /\ c[i] = counts[i - 1]
  BY <1>2, <1>3
<1>5. c \in [0..(T + 1) -> [Names -> Int]] /\ c[T + 1] = counts[T]
  <2>1. T + 1 > from /\ T + 1 \in 0..(T + 1) /\ (T + 1) - 1 = T
    BY <1>2
  <2> QED BY <1>1, <1>2, <1>3, <1>4, <2>1 DEF Leads
<1>6. ASSUME NEW name \in Names, c[0][name] \in Nat PROVE list[name] = c[0][name]
  <2>1. 0 \in 0..(T + 1) /\ 0 <= from
    BY <1>2
  <2> QED BY <1>1, <1>4, <1>6, <2>1 DEF Leads
<1>7. ASSUME NEW i \in 1..(T + 1) PROVE Follows(tape2[i], folder, c[i - 1], c[i])
  <2>1. CASE i <= from
    <3>1. i \in 1..from /\ i \in 1..T /\ i \in 0..(T + 1) /\ i - 1 \in 0..(T + 1) /\ i - 1 <= from
      BY <1>2, <2>1
    <3>2. c[i] = counts[i] /\ c[i - 1] = counts[i - 1] /\ tape2[i] = tape[i]
      BY <1>4, <2>1, <3>1
    <3>3. Follows(tape[i], folder, counts[i - 1], counts[i])
      BY <1>1, <3>1 DEF Leads
    <3> QED BY <3>2, <3>3
  <2>2. CASE i = from + 1
    <3>1. i \in 0..(T + 1) /\ i - 1 \in 0..(T + 1) /\ i - 1 = from /\ i > from /\ i - 1 <= from
      BY <1>2, <2>2
    <3>2. c[i] = counts[from] /\ c[i - 1] = counts[from]
      BY <1>4, <3>1
    <3>3. PICK known : known = counts[from]
      OBVIOUS
    <3>4. \A name \in Names : known[name] \in Nat => name \notin junk
      <4>1. from \in from..T
        BY <1>2
      <4> QED BY <1>1, <3>3, <4>1 DEF Unknown
    <3>5. PICK event : event = tape2[from + 1]
      OBVIOUS
    <3>6. Follows(event, folder, known, known)
      BY <3>4, <3>5 DEF Follows
    <3> QED BY <2>2, <3>2, <3>3, <3>5, <3>6
  <2>3. CASE i > from + 1
    <3>1. /\ i \in from + 2..(T + 1) /\ i \in 0..(T + 1) /\ i - 1 \in 0..(T + 1) /\ i - 1 \in 1..T
          /\ i > from /\ i - 1 > from
      BY <1>2, <2>3
    <3>2. c[i] = counts[i - 1] /\ c[i - 1] = counts[(i - 1) - 1] /\ tape2[i] = tape[i - 1]
      BY <1>4, <3>1
    <3>3. Follows(tape[i - 1], folder, counts[(i - 1) - 1], counts[i - 1])
      BY <1>1, <3>1 DEF Leads
    <3> QED BY <3>2, <3>3
  <2> QED BY <1>2, <2>1, <2>2, <2>3
<1>8. ASSUME NEW i \in 0..(T + 1), NEW name \in Names, c[T + 1][name] \in Nat,
             Unconcerned(tape2, i + 1, T + 1, folder, name)
      PROVE  c[i][name] = c[T + 1][name]
  <2>1. CASE i <= from
    <3>1. ASSUME NEW k \in i + 1..T PROVE ~Concerns(tape[k], folder, name)
      <4>1. CASE k <= from
        <5>1. k \in i + 1..(T + 1) /\ k \in 1..from
          BY <1>2, <4>1
        <5>2. tape2[k] = tape[k]
          BY <5>1
        <5> QED BY <1>8, <5>1, <5>2 DEF Unconcerned
      <4>2. CASE k > from
        <5>1. k + 1 \in i + 1..(T + 1) /\ k + 1 \in from + 2..(T + 1) /\ (k + 1) - 1 = k
          BY <1>2, <4>2
        <5>2. tape2[k + 1] = tape[k]
          BY <5>1
        <5> QED BY <1>8, <5>1, <5>2 DEF Unconcerned
      <4> QED BY <1>2, <4>1, <4>2
    <3>2. Unconcerned(tape, i + 1, T, folder, name)
      BY <3>1 DEF Unconcerned
    <3> QED BY <1>1, <1>4, <1>5, <1>8, <2>1, <3>2 DEF Leads
  <2>2. CASE i > from
    <3>1. ASSUME NEW k \in (i - 1) + 1..T PROVE ~Concerns(tape[k], folder, name)
      <4>1. k + 1 \in i + 1..(T + 1) /\ k + 1 \in from + 2..(T + 1) /\ (k + 1) - 1 = k
        BY <1>2, <2>2
      <4>2. tape2[k + 1] = tape[k]
        BY <4>1
      <4> QED BY <1>8, <4>1, <4>2 DEF Unconcerned
    <3>2. Unconcerned(tape, (i - 1) + 1, T, folder, name)
      BY <3>1 DEF Unconcerned
    <3>3. i - 1 \in 0..T /\ c[i] = counts[i - 1]
      BY <1>4, <2>2
    <3> QED BY <1>1, <1>5, <1>8, <3>2, <3>3 DEF Leads
  <2> QED BY <1>2, <2>1, <2>2
<1>9. Leads(tape2, T + 1, c, folder, list, here, lost)
  BY <1>1, <1>2, <1>5, <1>6, <1>7, <1>8 DEF Leads
<1>10. Unknown(c, from + 1, T + 1, junk)
  <2>1. ASSUME NEW i \in from + 1..(T + 1) PROVE i - 1 \in from..T /\ c[i] = counts[i - 1]
    <3>1. i \in 0..(T + 1) /\ i > from /\ i - 1 \in from..T
      BY <1>2
    <3> QED BY <1>4, <3>1
  <2> QED BY <1>1, <2>1 DEF Unknown
<1> QED BY <1>2, <1>9, <1>10 DEF Pending

\* What is left of the tape is lost.
LEMMA PendingCut ==
    ASSUME NEW tape, NEW folder, NEW list, NEW here, NEW lost, NEW from, NEW junk,
           NEW T, Pending(tape, T, folder, list, here, lost, from, junk),
           NEW cut \in 0..T, NEW tape2, \A i \in 1..cut : tape2[i] = tape[i],
           NEW here2, NEW lost2, lost \cap Names \subseteq lost2,
           \A name \in Names \ lost2 : /\ Unconcerned(tape, cut + 1, T, folder, name)
                                       /\ Wanted(here2, name) = Wanted(here, name),
           NEW junk2, junk2 \cap Names \subseteq lost2
    PROVE  Pending(tape2, cut, folder, list, here2, lost2, cut, junk2)
<1>1. PICK counts : Leads(tape, T, counts, folder, list, here, lost) /\ Unknown(counts, from, T, junk)
  BY DEF Pending
<1>2. T \in Nat /\ cut \in Nat /\ cut \in 0..cut
  BY <1>1 DEF Leads
<1>3. PICK end : end = [name \in Names |-> IF name \in lost2 THEN -1 ELSE Wanted(here2, name)]
  OBVIOUS
<1>4. /\ end \in [Names -> Int]
      /\ \A name \in Names : end[name] \in Nat => name \notin lost2 /\ end[name] = Wanted(here2, name)
      /\ \A name \in Names \ lost2 : end[name] = Wanted(here2, name)
  BY <1>3 DEF Wanted
<1>5. PICK c : c = [i \in 0..cut |-> IF i = cut THEN end ELSE counts[i]]
  OBVIOUS
<1>6. /\ \A i \in 0..cut : i \in 0..T /\ (i # cut => c[i] = counts[i])
      /\ c[cut] = end /\ c \in [0..cut -> [Names -> Int]]
  <2>1. \A i \in 0..cut : i \in 0..T /\ counts[i] \in [Names -> Int]
    BY <1>1, <1>2 DEF Leads
  <2> QED BY <1>2, <1>4, <1>5, <2>1
<1>7. ASSUME NEW name \in Names, end[name] \in Nat
      PROVE  /\ name \notin lost2 /\ end[name] = counts[T][name] /\ counts[T][name] \in Nat
             /\ counts[cut][name] = end[name]
  <2>1. name \notin lost2 /\ name \notin lost /\ end[name] = Wanted(here, name)
    BY <1>4, <1>7
  <2>2. counts[T][name] = Wanted(here, name) /\ Wanted(here, name) \in Nat
    BY <1>1, <2>1 DEF Leads, Wanted
  <2>3. counts[cut][name] = counts[T][name]
    BY <1>1, <2>1, <2>2 DEF Leads
  <2> QED BY <2>1, <2>2, <2>3
<1>8. ASSUME NEW i \in 0..cut, NEW name \in Names, c[i][name] \in Nat
      PROVE  counts[i][name] = c[i][name]
  BY <1>6, <1>7, <1>8
<1>9. ASSUME NEW name \in Names, c[0][name] \in Nat PROVE list[name] = c[0][name]
  <2>1. 0 \in 0..cut
    BY <1>2
  <2> QED BY <1>1, <1>8, <1>9, <2>1 DEF Leads
<1>10. ASSUME NEW i \in 1..cut PROVE Follows(tape2[i], folder, c[i - 1], c[i])
  <2>1. i \in 1..T /\ i \in 0..cut /\ i - 1 \in 0..cut /\ i - 1 # cut
    BY <1>2
  <2>2. PICK before : before = counts[i - 1]
    OBVIOUS
  <2>3. PICK middle : middle = counts[i]
    OBVIOUS
  <2>4. PICK after : after = c[i]
    OBVIOUS
  <2>5. PICK event : event = tape[i]
    OBVIOUS
  <2>6. Follows(event, folder, before, middle)
    BY <1>1, <2>1, <2>2, <2>3, <2>5 DEF Leads
  <2>7. \A name \in Names : after[name] \in Nat => middle[name] = after[name]
    BY <1>8, <2>1, <2>3, <2>4
  <2>8. Follows(event, folder, before, after)
    BY <2>6, <2>7 DEF Follows
  <2>9. tape2[i] = event /\ c[i - 1] = before
    BY <1>6, <2>1, <2>2, <2>5
  <2> QED BY <2>4, <2>8, <2>9
<1>11. ASSUME NEW i \in 0..cut, NEW name \in Names, c[cut][name] \in Nat,
              Unconcerned(tape2, i + 1, cut, folder, name)
       PROVE  c[i][name] = c[cut][name]
  <2>1. CASE i = cut
    BY <2>1
  <2>2. CASE i # cut
    <3>1. name \notin lost2 /\ end[name] = counts[T][name] /\ counts[T][name] \in Nat
      BY <1>6, <1>7, <1>11
    <3>2. ASSUME NEW k \in i + 1..T PROVE ~Concerns(tape[k], folder, name)
      <4>1. CASE k <= cut
        <5>1. k \in i + 1..cut /\ k \in 1..cut
          BY <1>2, <4>1
        <5> QED BY <1>11, <5>1 DEF Unconcerned
      <4>2. CASE k > cut
        <5>1. k \in cut + 1..T
          BY <1>2, <4>2
        <5> QED BY <3>1, <5>1 DEF Unconcerned
      <4> QED BY <1>2, <4>1, <4>2
    <3>3. Unconcerned(tape, i + 1, T, folder, name) /\ i \in 0..T
      BY <1>6, <3>2 DEF Unconcerned
    <3>4. counts[i][name] = counts[T][name]
      BY <1>1, <3>1, <3>3 DEF Leads
    <3> QED BY <1>6, <2>2, <3>1, <3>4
  <2> QED BY <2>1, <2>2
<1>12. Leads(tape2, cut, c, folder, list, here2, lost2)
  BY <1>2, <1>4, <1>6, <1>9, <1>10, <1>11 DEF Leads
<1>13. Unknown(c, cut, cut, junk2)
  BY <1>2, <1>4, <1>6 DEF Unknown
<1> QED BY <1>2, <1>12, <1>13 DEF Pending

\* A tape that concerns only names of which nothing is claimed.
LEMMA PendingAfresh ==
    ASSUME NEW tape, NEW T \in Nat, NEW folder, NEW list, NEW here, NEW lost,
           NEW from \in 0..T, NEW junk, junk \cap Names \subseteq lost,
           \A name \in Names \ lost :
               /\ list[name] = Wanted(here, name)
               /\ \A k \in 1..T : Concerns(tape[k], folder, name) =>
                                      Deletes(tape[k], folder) /\ list[name] = 0
    PROVE  Pending(tape, T, folder, list, here, lost, from, junk)
<1>1. PICK end : end = [name \in Names |-> IF name \in lost THEN -1 ELSE Wanted(here, name)]
  OBVIOUS
<1>2. /\ end \in [Names -> Int]
      /\ \A name \in Names : end[name] \in Nat => name \notin lost
      /\ \A name \in Names \ lost : end[name] = Wanted(here, name)
  BY <1>1 DEF Wanted
<1>3. PICK c : c = [i \in 0..T |-> end]
  OBVIOUS
<1>4. c \in [0..T -> [Names -> Int]] /\ \A i \in 0..T : c[i] = end
  BY <1>2, <1>3
<1>5. ASSUME NEW i \in 1..T PROVE Follows(tape[i], folder, c[i - 1], c[i])
  <2>1. i \in 0..T /\ i - 1 \in 0..T
    OBVIOUS
  <2>2. PICK event : event = tape[i]
    OBVIOUS
  <2>3. \A name \in Names \ lost :
            Concerns(event, folder, name) => Deletes(event, folder) /\ end[name] = 0
    BY <1>2, <2>2
  <2>4. Follows(event, folder, end, end)
    BY <1>2, <2>3 DEF Follows, Changes, Deletes
  <2> QED BY <1>4, <2>1, <2>2, <2>4
<1>6. Leads(tape, T, c, folder, list, here, lost)
  <2>1. 0 \in 0..T /\ T \in 0..T
    OBVIOUS
  <2>2. \A name \in Names : c[0][name] \in Nat => list[name] = c[0][name]
    BY <1>2, <1>4, <2>1
  <2>3. \A name \in Names \ lost : c[T][name] = Wanted(here, name)
    BY <1>2, <1>4, <2>1
  <2>4. \A i \in 0..T, name \in Names :
            c[T][name] \in Nat /\ Unconcerned(tape, i + 1, T, folder, name) => c[i][name] = c[T][name]
    BY <1>4, <2>1
  <2> QED BY <1>4, <1>5, <2>2, <2>3, <2>4 DEF Leads
<1>7. Unknown(c, from, T, junk)
  BY <1>2, <1>4 DEF Unknown
<1> QED BY <1>6, <1>7 DEF Pending

\* The user changes files in the list that nothing on the tape concerns.
LEMMA PendingTouched ==
    ASSUME NEW tape, NEW folder, NEW list, NEW here, NEW lost, NEW from, NEW junk,
           NEW T, Pending(tape, T, folder, list, here, lost, from, junk),
           NEW list2, NEW here2, NEW lost2, lost \cap Names \subseteq lost2,
           NEW touched,
           \A name \in touched \cap Names, k \in 1..T :
               Concerns(tape[k], folder, name) => Deletes(tape[k], folder) /\ name \in lost2,
           \A name \in Names \ touched : /\ list2[name] = list[name]
                                         /\ Wanted(here2, name) = Wanted(here, name),
           \A name \in (touched \cap Names) \ lost2 : list2[name] = Wanted(here2, name)
    PROVE  Pending(tape, T, folder, list2, here2, lost2, from, junk)
<1>1. PICK counts : Leads(tape, T, counts, folder, list, here, lost) /\ Unknown(counts, from, T, junk)
  BY DEF Pending
<1>2. T \in Nat /\ from \in 0..T /\ 0 \in 0..T /\ T \in 0..T /\ T \in from..T
  BY <1>1 DEF Leads, Pending
<1>3. PICK end : end = [name \in Names |-> IF name \in lost2 THEN -1 ELSE Wanted(here2, name)]
  OBVIOUS
<1>4. /\ end \in [Names -> Int]
      /\ \A name \in Names : end[name] \in Nat => name \notin lost2
      /\ \A name \in Names \ lost2 : end[name] = Wanted(here2, name)
  BY <1>3 DEF Wanted
<1>5. PICK c : c = [i \in 0..T |-> [name \in Names |-> IF name \in touched THEN end[name]
                                                       ELSE counts[i][name]]]
  OBVIOUS
<1>6. \A i \in 0..T : /\ \A name \in Names : c[i][name] = IF name \in touched THEN end[name]
                                                          ELSE counts[i][name]
                      /\ counts[i] \in [Names -> Int]
  BY <1>1, <1>5 DEF Leads
<1>7. c \in [0..T -> [Names -> Int]]
  <2>1. \A i \in 0..T : [name \in Names |-> IF name \in touched THEN end[name] ELSE counts[i][name]]
                            \in [Names -> Int]
    BY <1>4, <1>6
  <2> QED BY <1>5, <2>1
<1>8. ASSUME NEW name \in Names, c[0][name] \in Nat PROVE list2[name] = c[0][name]
  <2>1. CASE name \in touched
    BY <1>2, <1>4, <1>6, <1>8, <2>1
  <2>2. CASE name \notin touched
    BY <1>1, <1>2, <1>6, <1>8, <2>2 DEF Leads
  <2> QED BY <2>1, <2>2
<1>9. ASSUME NEW i \in 1..T PROVE Follows(tape[i], folder, c[i - 1], c[i])
  <2>1. i \in 0..T /\ i - 1 \in 0..T
    BY <1>2
  <2>2. PICK before : before = counts[i - 1]
    OBVIOUS
  <2>3. PICK after : after = counts[i]
    OBVIOUS
  <2>4. PICK before2 : before2 = c[i - 1]
    OBVIOUS
  <2>5. PICK after2 : after2 = c[i]
    OBVIOUS
  <2>6. PICK event : event = tape[i]
    OBVIOUS
  <2>7. Follows(event, folder, before, after)
    BY <1>1, <2>2, <2>3, <2>6 DEF Leads
  <2>8. \A name \in Names : /\ name \in touched => before2[name] = end[name] /\ after2[name] = end[name]
                            /\ name \notin touched => before2[name] = before[name] /\ after2[name] = after[name]
    BY <1>6, <2>1, <2>2, <2>3, <2>4, <2>5
  <2>9. \A name \in touched \cap Names :
            Concerns(event, folder, name) => Deletes(event, folder) /\ name \in lost2
    BY <2>6
  <2>10. ASSUME NEW name \in Names, after2[name] \in Nat, ~Concerns(event, folder, name)
         PROVE  after2[name] = before2[name]
    BY <2>7, <2>8, <2>10 DEF Follows
  <2>11. ASSUME NEW name \in Names, after2[name] \in Nat, Concerns(event, folder, name)
         PROVE  /\ Changes(event, folder, before2, name, after2[name])
                /\ ~Deletes(event, folder) => before2[name] \in Nat
                /\ ~Deletes(event, folder) /\ event.type = "FileRenamed" =>
                      /\ event.name # event.previous
                      /\ name # event.previous /\ event.previous \in Names =>
                            before2[event.previous] \in Nat
    <3>1. name \notin touched /\ after2[name] = after[name] /\ before2[name] = before[name]
      BY <1>4, <2>8, <2>9, <2>11
    <3>2. event.previous \in Names /\ ~Deletes(event, folder) =>
              before2[event.previous] = before[event.previous]
      <4>1. event.previous \in Names => Concerns(event, folder, event.previous)
        BY <2>11 DEF Concerns
      <4> QED BY <2>8, <2>9, <4>1
    <3>3. /\ Changes(event, folder, before, name, after[name])
          /\ ~Deletes(event, folder) => before[name] \in Nat
          /\ ~Deletes(event, folder) /\ event.type = "FileRenamed" =>
                /\ event.name # event.previous
                /\ name # event.previous /\ event.previous \in Names => before[event.previous] \in Nat
      BY <2>7, <2>11, <3>1 DEF Follows
    <3>4. ~Deletes(event, folder) => Taken(event, before2) = Taken(event, before)
      BY <3>2 DEF Taken
    <3>5. Deletes(event, folder) => Changes(event, folder, before2, name, after2[name])
      BY <3>1, <3>3 DEF Changes, Deletes
    <3> QED BY <3>1, <3>2, <3>3, <3>4, <3>5 DEF Changes
  <2>12. Follows(event, folder, before2, after2)
    BY <2>10, <2>11 DEF Follows
  <2> QED BY <2>4, <2>5, <2>6, <2>12
<1>10. ASSUME NEW i \in 0..T, NEW name \in Names, c[T][name] \in Nat,
              Unconcerned(tape, i + 1, T, folder, name)
       PROVE  c[i][name] = c[T][name]
  <2>1. CASE name \in touched
    BY <1>2, <1>6, <2>1
  <2>2. CASE name \notin touched
    <3>1. c[i][name] = counts[i][name] /\ c[T][name] = counts[T][name]
      BY <1>2, <1>6, <2>2
    <3>2. counts[T][name] \in Nat
      BY <1>10, <3>1
    <3>3. counts[i][name] = counts[T][name]
      BY <1>1, <1>10, <3>2 DEF Leads
    <3> QED BY <3>1, <3>3
  <2> QED BY <2>1, <2>2
<1>11. ASSUME NEW name \in Names \ lost2 PROVE c[T][name] = Wanted(here2, name)
  <2>1. CASE name \in touched
    BY <1>2, <1>4, <1>6, <2>1
  <2>2. CASE name \notin touched
    <3>1. c[T][name] = counts[T][name] /\ name \notin lost
      BY <1>2, <1>6, <2>2
    <3>2. counts[T][name] = Wanted(here, name)
      BY <1>1, <3>1 DEF Leads
    <3> QED BY <2>2, <3>1, <3>2
  <2> QED BY <2>1, <2>2
<1>12. Leads(tape, T, c, folder, list2, here2, lost2)
  BY <1>2, <1>7, <1>8, <1>9, <1>10, <1>11 DEF Leads
<1>13. Unknown(c, from, T, junk)
  <2>1. \A name \in junk \cap Names : name \in lost2
    <3>1. \A name \in junk \cap Names : counts[T][name] \notin Nat
      BY <1>1, <1>2 DEF Unknown
    <3>2. \A name \in Names \ lost : counts[T][name] = Wanted(here, name)
      BY <1>1 DEF Leads
    <3>3. \A name \in Names : Wanted(here, name) \in Nat
      BY DEF Wanted
    <3> QED BY <1>2, <3>1, <3>2, <3>3
  <2>2. ASSUME NEW i \in from..T, NEW name \in junk \cap Names PROVE c[i][name] \notin Nat
    <3>1. i \in 0..T
      BY <1>2
    <3> QED BY <1>1, <1>4, <1>6, <2>1, <3>1 DEF Unknown
  <2> QED BY <2>2 DEF Unknown
<1> QED BY <1>2, <1>12, <1>13 DEF Pending

\* The viewer changes its list ahead of what is on the tape: of the names that
\* concerns, nothing is claimed any more.
LEMMA PendingForgets ==
    ASSUME NEW tape, NEW folder, NEW list, NEW here, NEW lost, NEW from, NEW junk,
           NEW T, Pending(tape, T, folder, list, here, lost, from, junk),
           NEW list2, NEW here2, NEW lost2, lost \cap Names \subseteq lost2,
           \A name \in Names \ lost2 :
               /\ list2[name] = list[name]
               /\ Wanted(here2, name) = Wanted(here, name)
               /\ \A k \in 1..T : Concerns(tape[k], folder, name) => Deletes(tape[k], folder)
    PROVE  Pending(tape, T, folder, list2, here2, lost2, from, junk)
<1>1. PICK counts : Leads(tape, T, counts, folder, list, here, lost) /\ Unknown(counts, from, T, junk)
  BY DEF Pending
<1>2. T \in Nat /\ from \in 0..T /\ 0 \in 0..T /\ T \in 0..T
  BY <1>1 DEF Leads, Pending
<1>3. PICK c : c = [i \in 0..T |-> [name \in Names |-> IF name \in lost2 THEN -1 ELSE counts[i][name]]]
  OBVIOUS
<1>4. \A i \in 0..T : /\ \A name \in Names : c[i][name] = IF name \in lost2 THEN -1 ELSE counts[i][name]
                      /\ counts[i] \in [Names -> Int]
  BY <1>1, <1>3 DEF Leads
<1>5. c \in [0..T -> [Names -> Int]]
  <2>1. \A i \in 0..T : [name \in Names |-> IF name \in lost2 THEN -1 ELSE counts[i][name]]
                            \in [Names -> Int]
    BY <1>4
  <2> QED BY <1>3, <2>1
<1>6. \A i \in 0..T, name \in Names : c[i][name] \in Nat => name \notin lost2 /\ c[i][name] = counts[i][name]
  BY <1>4
<1>7. ASSUME NEW i \in 1..T PROVE Follows(tape[i], folder, c[i - 1], c[i])
  <2>1. i \in 0..T /\ i - 1 \in 0..T
    BY <1>2
  <2>2. PICK before : before = counts[i - 1]
    OBVIOUS
  <2>3. PICK after : after = counts[i]
    OBVIOUS
  <2>4. PICK before2 : before2 = c[i - 1]
    OBVIOUS
  <2>5. PICK after2 : after2 = c[i]
    OBVIOUS
  <2>6. PICK event : event = tape[i]
    OBVIOUS
  <2>7. Follows(event, folder, before, after)
    BY <1>1, <2>2, <2>3, <2>6 DEF Leads
  <2>8. \A name \in Names : after2[name] \in Nat =>
            name \notin lost2 /\ after2[name] = after[name] /\ before2[name] = before[name]
    BY <1>4, <1>6, <2>1, <2>2, <2>3, <2>4, <2>5
  <2>9. \A name \in Names \ lost2 : Concerns(event, folder, name) => Deletes(event, folder)
    BY <2>6
  <2>10. Follows(event, folder, before2, after2)
    BY <2>7, <2>8, <2>9 DEF Follows, Changes, Deletes
  <2> QED BY <2>4, <2>5, <2>6, <2>10
<1>8. ASSUME NEW i \in 0..T, NEW name \in Names, c[T][name] \in Nat,
             Unconcerned(tape, i + 1, T, folder, name)
      PROVE  c[i][name] = c[T][name]
  BY <1>1, <1>2, <1>4, <1>6, <1>8 DEF Leads
<1>9. ASSUME NEW name \in Names, c[0][name] \in Nat PROVE list2[name] = c[0][name]
  BY <1>1, <1>2, <1>6, <1>9 DEF Leads
<1>10. ASSUME NEW name \in Names \ lost2 PROVE c[T][name] = Wanted(here2, name)
  BY <1>1, <1>2, <1>4 DEF Leads
<1>11. Leads(tape, T, c, folder, list2, here2, lost2)
  BY <1>2, <1>5, <1>7, <1>8, <1>9, <1>10 DEF Leads
<1>12. Unknown(c, from, T, junk)
  <2>1. ASSUME NEW i \in from..T, NEW name \in junk \cap Names PROVE c[i][name] \notin Nat
    <3>1. i \in 0..T
      BY <1>2
    <3> QED BY <1>1, <1>6, <3>1 DEF Unknown
  <2> QED BY <2>1 DEF Unknown
<1> QED BY <1>2, <1>11, <1>12 DEF Pending

\* The thread finds the folder gone: whatever the list is by then, it is cleared, and
\* the rest of the tape is not read.
LEMMA PendingEnds ==
    ASSUME NEW tape, NEW folder, NEW list, NEW here, NEW lost, NEW from, NEW junk,
           NEW T, Pending(tape, T, folder, list, here, lost, from, junk),
           NEW tape2, \A i \in 1..from : tape2[i] = tape[i],
           NEW event, tape2[from + 1] = event, Deletes(event, folder),
           \A name \in Names : Wanted(here, name) = 0
    PROVE  Pending(tape2, from + 1, folder, list, here, lost, from + 1, {})
<1>1. PICK counts : Leads(tape, T, counts, folder, list, here, lost) /\ Unknown(counts, from, T, junk)
  BY DEF Pending
<1>2. T \in Nat /\ from \in Nat /\ from \in 0..T /\ from + 1 \in Nat /\ from + 1 \in 0..(from + 1)
  BY <1>1 DEF Leads, Pending
<1>3. PICK end : end = [name \in Names |-> 0]
  OBVIOUS
<1>4. PICK c : c = [i \in 0..(from + 1) |-> IF i = from + 1 THEN end ELSE counts[i]]
  OBVIOUS
<1>5. /\ \A i \in 0..from : i \in 0..T /\ i \in 0..(from + 1) /\ c[i] = counts[i]
      /\ c[from + 1] = end /\ end \in [Names -> Int]
      /\ c \in [0..(from + 1) -> [Names -> Int]]
  <2>1. \A i \in 0..from : i \in 0..T /\ i # from + 1 /\ i \in 0..(from + 1) /\ counts[i] \in [Names -> Int]
    BY <1>1, <1>2 DEF Leads
  <2>2. \A i \in 0..(from + 1) : i = from + 1 \/ i \in 0..from
    BY <1>2
  <2>3. end \in [Names -> Int]
    BY <1>3
  <2> QED BY <1>2, <1>4, <2>1, <2>2, <2>3
<1>6. ASSUME NEW i \in 1..(from + 1) PROVE Follows(tape2[i], folder, c[i - 1], c[i])
  <2>1. CASE i = from + 1
    <3>1. PICK before : before = c[i - 1]
      OBVIOUS
    <3>2. Follows(event, folder, before, end)
      BY <1>3 DEF Follows, Changes, Concerns, Deletes
    <3> QED BY <1>5, <2>1, <3>1, <3>2
  <2>2. CASE i # from + 1
    <3>1. i \in 1..T /\ i \in 1..from /\ i \in 0..from /\ i - 1 \in 0..from
      BY <1>2, <2>2
    <3>2. Follows(tape[i], folder, counts[i - 1], counts[i])
      BY <1>1, <3>1 DEF Leads
    <3> QED BY <1>5, <3>1, <3>2
  <2> QED BY <2>1, <2>2
<1>7. ASSUME NEW i \in 0..(from + 1), NEW name \in Names,
             Unconcerned(tape2, i + 1, from + 1, folder, name)
      PROVE  c[i][name] = c[from + 1][name]
  <2>1. CASE i = from + 1
    BY <2>1
  <2>2. CASE i # from + 1
    <3>1. from + 1 \in i + 1..(from + 1)
      BY <1>2, <2>2
    <3> QED BY <1>7, <3>1 DEF Unconcerned, Concerns, Deletes
  <2> QED BY <2>1, <2>2
<1>8. ASSUME NEW name \in Names, c[0][name] \in Nat PROVE list[name] = c[0][name]
  <2>1. 0 \in 0..from
    BY <1>2
  <2> QED BY <1>1, <1>5, <1>8, <2>1 DEF Leads
<1>9. Leads(tape2, from + 1, c, folder, list, here, lost)
  BY <1>2, <1>3, <1>5, <1>6, <1>7, <1>8 DEF Leads
<1>10. Unknown(c, from + 1, from + 1, {})
  BY DEF Unknown
<1> QED BY <1>2, <1>9, <1>10 DEF Pending

-----------------------------------------------------------------------------
(* The tape in its three parts.                                            *)

\* What the list has still to be told: the n notifications, then the u events of the
\* records in the buffer, then the c events of the records no read has fetched.
Tape(N, n, U, u, E, c) ==
    [i \in 1..(n + u + c) |-> IF i <= n THEN N[i] ELSE IF i <= n + u THEN U[i - n] ELSE E[i - n - u]]

\* The tape leads from the list to what is here, but for what is lost; junk is what
\* the records of a buffer written over may tell of.
On(N, n, U, u, E, c, folder, list, here, lost, junk) ==
    /\ n \in Nat /\ u \in Nat /\ c \in Nat
    /\ Pending(Tape(N, n, U, u, E, c), n + u + c, folder, list, here, lost, n, junk)

\* Where each event is on the tape.
IsTape(tape, N, n, U, u, E, c) ==
    /\ \A i \in 1..n : tape[i] = N[i]
    /\ \A k \in 1..u : tape[n + k] = U[k]
    /\ \A k \in 1..c : tape[n + u + k] = E[k]

\* The events are where IsTape says.
LEMMA TapeIs ==
    ASSUME NEW N, NEW n \in Nat, NEW U, NEW u \in Nat, NEW E, NEW c \in Nat,
           NEW tape, tape = Tape(N, n, U, u, E, c)
    PROVE  IsTape(tape, N, n, U, u, E, c)
<1>1. ASSUME NEW i \in 1..n PROVE tape[i] = N[i]
  <2>1. i \in 1..(n + u + c) /\ i <= n
    OBVIOUS
  <2> QED BY <2>1 DEF Tape
<1>2. ASSUME NEW k \in 1..u PROVE tape[n + k] = U[k]
  <2>1. n + k \in 1..(n + u + c) /\ ~(n + k <= n) /\ n + k <= n + u /\ (n + k) - n = k
    OBVIOUS
  <2> QED BY <2>1 DEF Tape
<1>3. ASSUME NEW k \in 1..c PROVE tape[n + u + k] = E[k]
  <2>1. n + u + k \in 1..(n + u + c) /\ ~(n + u + k <= n) /\ ~(n + u + k <= n + u) /\ (n + u + k) - n - u = k
    OBVIOUS
  <2> QED BY <2>1 DEF Tape
<1> QED BY <1>1, <1>2, <1>3 DEF IsTape

\* Each place is one of those.
LEMMA Places ==
    ASSUME NEW n \in Nat, NEW u \in Nat, NEW c \in Nat, NEW i \in 1..(n + u + c)
    PROVE  i \in 1..n \/ (\E k \in 1..u : i = n + k) \/ (\E k \in 1..c : i = n + u + k)
<1>1. CASE i <= n
  BY <1>1
<1>2. CASE i > n /\ i <= n + u
  <2>1. i - n \in 1..u /\ i = n + (i - n)
    BY <1>2
  <2> QED BY <2>1
<1>3. CASE i > n + u
  <2>1. i - n - u \in 1..c /\ i = n + u + (i - n - u)
    BY <1>3
  <2> QED BY <2>1
<1> QED BY <1>1, <1>2, <1>3

\* The same events, wherever they are kept now.
LEMMA OnStays ==
    ASSUME NEW N, NEW n, NEW U, NEW u, NEW E, NEW c,
           NEW folder, NEW list, NEW here, NEW lost, NEW junk,
           On(N, n, U, u, E, c, folder, list, here, lost, junk),
           NEW N2, \A i \in 1..n : N2[i] = N[i],
           NEW U2, \A k \in 1..u : U2[k] = U[k],
           NEW E2, \A k \in 1..c : E2[k] = E[k],
           NEW list2, \A name \in Names : list2[name] = list[name],
           NEW here2, NEW lost2, lost \cap Names \subseteq lost2,
           \A name \in Names \ lost2 : Wanted(here2, name) = Wanted(here, name),
           NEW junk2, junk2 \cap Names \subseteq junk
    PROVE  On(N2, n, U2, u, E2, c, folder, list2, here2, lost2, junk2)
<1>1. n \in Nat /\ u \in Nat /\ c \in Nat /\ n + u + c \in Nat /\ n \in n..(n + u + c)
  BY DEF On
<1>2. PICK tape : tape = Tape(N, n, U, u, E, c)
  OBVIOUS
<1>3. PICK tape2 : tape2 = Tape(N2, n, U2, u, E2, c)
  OBVIOUS
<1>4. Pending(tape, n + u + c, folder, list, here, lost, n, junk)
  BY <1>2 DEF On
<1>5. ASSUME NEW i \in 1..(n + u + c) PROVE tape2[i] = tape[i]
  <2>1. IsTape(tape, N, n, U, u, E, c) /\ IsTape(tape2, N2, n, U2, u, E2, c)
    BY <1>1, <1>2, <1>3, TapeIs
  <2>2. i \in 1..n \/ (\E k \in 1..u : i = n + k) \/ (\E k \in 1..c : i = n + u + k)
    BY <1>1, Places
  <2> QED BY <2>1, <2>2 DEF IsTape
<1>6. PICK T : T = n + u + c
  OBVIOUS
<1>7. Pending(tape2, T, folder, list2, here2, lost2, n, junk2)
  BY <1>1, <1>4, <1>5, <1>6, PendingStays
<1> QED BY <1>1, <1>3, <1>6, <1>7 DEF On

\* The thread tells the next event of the buffer.
LEMMA OnTells ==
    ASSUME NEW N, NEW n, NEW U, NEW u, NEW E, NEW c,
           NEW folder, NEW list, NEW here, NEW lost, NEW junk,
           On(N, n, U, u, E, c, folder, list, here, lost, junk), u > 0,
           NEW N2, \A i \in 1..n : N2[i] = N[i], N2[n + 1] = U[1],
           NEW U2, \A k \in 1..(u - 1) : U2[k] = U[k + 1]
    PROVE  On(N2, n + 1, U2, u - 1, E, c, folder, list, here, lost, junk)
<1>1. /\ n \in Nat /\ u \in Nat /\ c \in Nat /\ n + u + c \in Nat /\ n + 1 \in n..(n + u + c)
      /\ n + 1 \in Nat /\ u - 1 \in Nat /\ (n + 1) + (u - 1) + c = n + u + c
  BY DEF On
<1>2. PICK tape : tape = Tape(N, n, U, u, E, c)
  OBVIOUS
<1>3. PICK m : m = n + 1
  OBVIOUS
<1>4. PICK v : v = u - 1
  OBVIOUS
<1>5. PICK T : T = n + u + c
  OBVIOUS
<1>6. PICK tape2 : tape2 = Tape(N2, m, U2, v, E, c)
  OBVIOUS
<1>7. Pending(tape, T, folder, list, here, lost, n, junk)
  BY <1>2, <1>5 DEF On
<1>8. /\ \A i \in 1..n : tape[i] = N[i]
      /\ \A k \in 1..u : tape[n + k] = U[k]
      /\ \A k \in 1..c : tape[n + u + k] = E[k]
  <2>1. IsTape(tape, N, n, U, u, E, c)
    BY <1>1, <1>2, TapeIs
  <2> QED BY <2>1 DEF IsTape
<1>9. /\ \A i \in 1..m : tape2[i] = N2[i]
      /\ \A k \in 1..v : tape2[m + k] = U2[k]
      /\ \A k \in 1..c : tape2[m + v + k] = E[k]
  <2>1. IsTape(tape2, N2, m, U2, v, E, c)
    BY <1>1, <1>3, <1>4, <1>6, TapeIs
  <2> QED BY <2>1 DEF IsTape
<1>10. ASSUME NEW i \in 1..T PROVE tape2[i] = tape[i]
  <2>1. CASE i \in 1..n
    <3>1. i \in 1..m
      BY <1>1, <1>3, <2>1
    <3> QED BY <1>8, <1>9, <2>1, <3>1
  <2>2. ASSUME NEW k \in 1..u, i = n + k PROVE tape2[i] = tape[i]
    <3>1. CASE k = 1
      <4>1. i = m /\ m \in 1..m
        BY <1>1, <1>3, <2>2, <3>1
      <4> QED BY <1>3, <1>8, <1>9, <2>2, <3>1, <4>1
    <3>2. CASE k # 1
      <4>1. k - 1 \in 1..v /\ i = m + (k - 1) /\ (k - 1) + 1 = k /\ k - 1 \in 1..(u - 1)
        BY <1>1, <1>3, <1>4, <2>2, <3>2
      <4>2. tape2[i] = U2[k - 1]
        BY <1>9, <4>1
      <4>3. U2[k - 1] = U[k]
        BY <4>1
      <4> QED BY <1>8, <2>2, <4>2, <4>3
    <3> QED BY <3>1, <3>2
  <2>3. ASSUME NEW k \in 1..c, i = n + u + k PROVE tape2[i] = tape[i]
    <3>1. i = m + v + k
      BY <1>1, <1>3, <1>4, <2>3
    <3> QED BY <1>8, <1>9, <2>3, <3>1
  <2> QED BY <1>1, <1>5, <2>1, <2>2, <2>3, Places
<1>11. Pending(tape2, T, folder, list, here, lost, m, junk)
  BY <1>1, <1>3, <1>5, <1>7, <1>10, PendingStays
<1> QED BY <1>1, <1>3, <1>4, <1>5, <1>6, <1>11 DEF On

\* The thread tells an event that concerns only junk, and nothing of the buffer is
\* counted on.
LEMMA OnTellsJunk ==
    ASSUME NEW N, NEW n, NEW U, NEW E, NEW c,
           NEW folder, NEW list, NEW here, NEW lost, NEW junk,
           On(N, n, U, 0, E, c, folder, list, here, lost, junk),
           NEW N2, \A i \in 1..n : N2[i] = N[i],
           \A name \in Names : Concerns(N2[n + 1], folder, name) => name \in junk,
           NEW U2, NEW junk2, junk2 \cap Names \subseteq junk
    PROVE  On(N2, n + 1, U2, 0, E, c, folder, list, here, lost, junk2)
<1>1. /\ n \in Nat /\ 0 \in Nat /\ c \in Nat /\ n + c \in Nat /\ n + 1 \in Nat
      /\ (n + 1) + 0 + c = (n + c) + 1 /\ n + 0 + c = n + c /\ n + 1 \in n + 1..((n + c) + 1)
  BY DEF On
<1>2. PICK tape : tape = Tape(N, n, U, 0, E, c)
  OBVIOUS
<1>3. PICK m : m = n + 1
  OBVIOUS
<1>4. PICK T : T = n + c
  OBVIOUS
<1>5. PICK tape2 : tape2 = Tape(N2, m, U2, 0, E, c)
  OBVIOUS
<1>6. Pending(tape, T, folder, list, here, lost, n, junk)
  BY <1>1, <1>2, <1>4 DEF On
<1>7. (\A i \in 1..n : tape[i] = N[i]) /\ (\A k \in 1..c : tape[n + 0 + k] = E[k])
  <2>1. IsTape(tape, N, n, U, 0, E, c)
    BY <1>1, <1>2, TapeIs
  <2> QED BY <2>1 DEF IsTape
<1>8. (\A i \in 1..m : tape2[i] = N2[i]) /\ (\A k \in 1..c : tape2[m + 0 + k] = E[k])
  <2>1. IsTape(tape2, N2, m, U2, 0, E, c)
    BY <1>1, <1>3, <1>5, TapeIs
  <2> QED BY <2>1 DEF IsTape
<1>9. ASSUME NEW i \in 1..n PROVE tape2[i] = tape[i]
  <2>1. i \in 1..m
    BY <1>1, <1>3
  <2> QED BY <1>7, <1>8, <2>1
<1>10. ASSUME NEW i \in n + 2..(T + 1) PROVE tape2[i] = tape[i - 1]
  <2>1. i - m \in 1..c /\ i = m + 0 + (i - m) /\ i - 1 = n + 0 + (i - m)
    BY <1>1, <1>3, <1>4
  <2>2. tape2[i] = E[i - m] /\ tape[i - 1] = E[i - m]
    BY <1>7, <1>8, <2>1
  <2> QED BY <2>2
<1>11. tape2[n + 1] = N2[n + 1]
  <2>1. m \in 1..m
    BY <1>1, <1>3
  <2> QED BY <1>3, <1>8, <2>1
<1>12. \A name \in Names : Concerns(tape2[n + 1], folder, name) => name \in junk
  BY <1>11
<1>13. Pending(tape2, T + 1, folder, list, here, lost, n + 1, junk)
  BY <1>6, <1>9, <1>10, <1>12, PendingInserts
<1>14. PICK T2 : T2 = T + 1
  OBVIOUS
<1>15. Pending(tape2, T2, folder, list, here, lost, m, junk) /\ m \in m..T2
  BY <1>1, <1>3, <1>4, <1>13, <1>14
<1>16. Pending(tape2, T2, folder, list, here, lost, m, junk2)
  BY <1>15, PendingStays
<1>17. m + 0 + c = T2
  BY <1>1, <1>3, <1>4, <1>14
<1> QED BY <1>1, <1>3, <1>5, <1>16, <1>17 DEF On

\* The thread remembers an old name, which tells nothing by itself.
LEMMA OnRemembers ==
    ASSUME NEW N, NEW n, NEW U, NEW u, NEW E, NEW c,
           NEW folder, NEW list, NEW here, NEW lost, NEW junk,
           On(N, n, U, u, E, c, folder, list, here, lost, junk), u > 0,
           \A name \in Names : ~Concerns(U[1], folder, name),
           NEW U2, \A k \in 1..(u - 1) : U2[k] = U[k + 1]
    PROVE  On(N, n, U2, u - 1, E, c, folder, list, here, lost, junk)
<1>1. /\ n \in Nat /\ u \in Nat /\ c \in Nat /\ n + u + c \in Nat /\ n + 1 \in n + 1..(n + u + c)
      /\ u - 1 \in Nat /\ n + (u - 1) + c = (n + u + c) - 1
  BY DEF On
<1>2. PICK tape : tape = Tape(N, n, U, u, E, c)
  OBVIOUS
<1>3. PICK v : v = u - 1
  OBVIOUS
<1>4. PICK T : T = n + u + c
  OBVIOUS
<1>5. PICK tape2 : tape2 = Tape(N, n, U2, v, E, c)
  OBVIOUS
<1>6. Pending(tape, T, folder, list, here, lost, n, junk)
  BY <1>2, <1>4 DEF On
<1>7. /\ \A i \in 1..n : tape[i] = N[i]
      /\ \A k \in 1..u : tape[n + k] = U[k]
      /\ \A k \in 1..c : tape[n + u + k] = E[k]
  <2>1. IsTape(tape, N, n, U, u, E, c)
    BY <1>1, <1>2, TapeIs
  <2> QED BY <2>1 DEF IsTape
<1>8. /\ \A i \in 1..n : tape2[i] = N[i]
      /\ \A k \in 1..v : tape2[n + k] = U2[k]
      /\ \A k \in 1..c : tape2[n + v + k] = E[k]
  <2>1. IsTape(tape2, N, n, U2, v, E, c)
    BY <1>1, <1>3, <1>5, TapeIs
  <2> QED BY <2>1 DEF IsTape
<1>9. PICK j : j = n + 1
  OBVIOUS
<1>10. ASSUME NEW i \in 1..(T - 1) PROVE tape2[i] = IF i < j THEN tape[i] ELSE tape[i + 1]
  <2>1. CASE i \in 1..n
    <3>1. i < j
      BY <1>1, <1>9, <2>1
    <3> QED BY <1>7, <1>8, <2>1, <3>1
  <2>2. ASSUME NEW k \in 1..v, i = n + k PROVE tape2[i] = tape[i + 1] /\ ~(i < j)
    <3>1. k + 1 \in 1..u /\ k \in 1..(u - 1) /\ i + 1 = n + (k + 1) /\ ~(i < j)
      BY <1>1, <1>3, <1>9, <2>2
    <3>2. tape2[i] = U2[k] /\ tape[i + 1] = U[k + 1]
      BY <1>7, <1>8, <2>2, <3>1
    <3> QED BY <3>1, <3>2
  <2>3. ASSUME NEW k \in 1..c, i = n + v + k PROVE tape2[i] = tape[i + 1] /\ ~(i < j)
    <3>1. i + 1 = n + u + k /\ ~(i < j)
      BY <1>1, <1>3, <1>9, <2>3
    <3> QED BY <1>7, <1>8, <2>3, <3>1
  <2>4. i \in 1..(n + v + c) /\ v \in Nat
    BY <1>1, <1>3, <1>4
  <2>5. i \in 1..n \/ (\E k \in 1..v : i = n + k) \/ (\E k \in 1..c : i = n + v + k)
    BY <1>1, <2>4, Places
  <2> QED BY <1>7, <1>8, <2>1, <2>2, <2>3, <2>5, <1>9
<1>11. tape[j] = U[1]
  <2>1. 1 \in 1..u
    BY <1>1
  <2> QED BY <1>7, <1>9, <2>1
<1>12. j \in n + 1..T
  BY <1>1, <1>4, <1>9
<1>13. Pending(tape2, T - 1, folder, list, here, lost, n, junk)
  BY <1>6, <1>10, <1>11, <1>12, PendingSkips
<1> QED BY <1>1, <1>3, <1>4, <1>5, <1>13 DEF On

\* A read fetches the records there are into a buffer of which nothing is left.
LEMMA OnFetches ==
    ASSUME NEW N, NEW n, NEW U, NEW E, NEW c,
           NEW folder, NEW list, NEW here, NEW lost, NEW junk,
           On(N, n, U, 0, E, c, folder, list, here, lost, junk),
           NEW U2, \A k \in 1..c : U2[k] = E[k], NEW E2,
           NEW lost2, lost \cap Names \subseteq lost2,
           NEW junk2, junk2 \cap Names \subseteq junk
    PROVE  On(N, n, U2, c, E2, 0, folder, list, here, lost2, junk2)
<1>1. /\ n \in Nat /\ 0 \in Nat /\ c \in Nat /\ n + 0 + c \in Nat /\ n \in n..(n + 0 + c)
      /\ n + 0 + c = n + c + 0
  BY DEF On
<1>2. PICK tape : tape = Tape(N, n, U, 0, E, c)
  OBVIOUS
<1>3. PICK T : T = n + 0 + c
  OBVIOUS
<1>4. PICK tape2 : tape2 = Tape(N, n, U2, c, E2, 0)
  OBVIOUS
<1>5. Pending(tape, T, folder, list, here, lost, n, junk)
  BY <1>2, <1>3 DEF On
<1>6. (\A i \in 1..n : tape[i] = N[i]) /\ (\A k \in 1..c : tape[n + 0 + k] = E[k])
  <2>1. IsTape(tape, N, n, U, 0, E, c)
    BY <1>1, <1>2, TapeIs
  <2> QED BY <2>1 DEF IsTape
<1>7. (\A i \in 1..n : tape2[i] = N[i]) /\ (\A k \in 1..c : tape2[n + k] = U2[k])
  <2>1. IsTape(tape2, N, n, U2, c, E2, 0)
    BY <1>1, <1>4, TapeIs
  <2> QED BY <2>1 DEF IsTape
<1>8. ASSUME NEW i \in 1..T PROVE tape2[i] = tape[i]
  <2>1. ASSUME NEW k \in 1..c, i = n + 0 + k PROVE tape2[i] = tape[i]
    <3>1. i = n + k
      BY <1>1, <2>1
    <3> QED BY <1>6, <1>7, <2>1, <3>1
  <2>2. i \in 1..n \/ \E k \in 1..c : i = n + 0 + k
    BY <1>1, <1>3, Places
  <2> QED BY <1>6, <1>7, <2>1, <2>2
<1>9. Pending(tape2, T, folder, list, here, lost2, n, junk2)
  BY <1>1, <1>3, <1>5, <1>8, PendingStays
<1> QED BY <1>1, <1>3, <1>4, <1>9 DEF On

\* The viewer handles the first notification.
LEMMA OnHandles ==
    ASSUME NEW N, NEW n, NEW U, NEW u, NEW E, NEW c,
           NEW folder, NEW list, NEW here, NEW lost, NEW junk,
           On(N, n, U, u, E, c, folder, list, here, lost, junk), n > 0,
           NEW N2, \A i \in 1..(n - 1) : N2[i] = N[i + 1],
           NEW list2,
           \A name \in Names :
               IF Concerns(N[1], folder, name)
               THEN Changes(N[1], folder, list, name, list2[name])
                    /\ N[1].type \in {"MonitoredFolderDeleted", "FileAdded", "FileRemoved", "FileRenamed"}
               ELSE list2[name] = list[name],
           NEW lost2, lost \cap Names \subseteq lost2
    PROVE  On(N2, n - 1, U, u, E, c, folder, list2, here, lost2, junk)
<1>1. /\ n \in Nat /\ u \in Nat /\ c \in Nat /\ n + u + c \in Nat /\ 1 \in 1..n
      /\ n - 1 \in Nat /\ (n - 1) + u + c = (n + u + c) - 1
  BY DEF On
<1>2. PICK tape : tape = Tape(N, n, U, u, E, c)
  OBVIOUS
<1>3. PICK m : m = n - 1
  OBVIOUS
<1>4. PICK T : T = n + u + c
  OBVIOUS
<1>5. PICK tape2 : tape2 = Tape(N2, m, U, u, E, c)
  OBVIOUS
<1>6. Pending(tape, T, folder, list, here, lost, n, junk)
  BY <1>2, <1>4 DEF On
<1>7. /\ \A i \in 1..n : tape[i] = N[i]
      /\ \A k \in 1..u : tape[n + k] = U[k]
      /\ \A k \in 1..c : tape[n + u + k] = E[k]
  <2>1. IsTape(tape, N, n, U, u, E, c)
    BY <1>1, <1>2, TapeIs
  <2> QED BY <2>1 DEF IsTape
<1>8. /\ \A i \in 1..m : tape2[i] = N2[i]
      /\ \A k \in 1..u : tape2[m + k] = U[k]
      /\ \A k \in 1..c : tape2[m + u + k] = E[k]
  <2>1. IsTape(tape2, N2, m, U, u, E, c)
    BY <1>1, <1>3, <1>5, TapeIs
  <2> QED BY <2>1 DEF IsTape
<1>9. ASSUME NEW i \in 1..(T - 1) PROVE tape2[i] = tape[i + 1]
  <2>1. CASE i \in 1..m
    <3>1. i + 1 \in 1..n /\ i \in 1..(n - 1)
      BY <1>1, <1>3, <2>1
    <3> QED BY <1>7, <1>8, <2>1, <3>1
  <2>2. ASSUME NEW k \in 1..u, i = m + k PROVE tape2[i] = tape[i + 1]
    <3>1. i + 1 = n + k
      BY <1>1, <1>3, <2>2
    <3> QED BY <1>7, <1>8, <2>2, <3>1
  <2>3. ASSUME NEW k \in 1..c, i = m + u + k PROVE tape2[i] = tape[i + 1]
    <3>1. i + 1 = n + u + k
      BY <1>1, <1>3, <2>3
    <3> QED BY <1>7, <1>8, <2>3, <3>1
  <2>4. i \in 1..(m + u + c) /\ m \in Nat /\ u \in Nat /\ c \in Nat
    BY <1>1, <1>3, <1>4
  <2>5. i \in 1..m \/ (\E k \in 1..u : i = m + k) \/ (\E k \in 1..c : i = m + u + k)
    BY ONLY <2>4, Places
  <2> QED BY <2>1, <2>2, <2>3, <2>5
<1>10. tape[1] = N[1]
  BY <1>1, <1>7
<1>11. \A name \in Names :
          IF Concerns(tape[1], folder, name)
          THEN Changes(tape[1], folder, list, name, list2[name])
               /\ tape[1].type \in {"MonitoredFolderDeleted", "FileAdded", "FileRemoved", "FileRenamed"}
          ELSE list2[name] = list[name]
  BY <1>10
<1>12. n > 0
  OBVIOUS
<1>13. Pending(tape2, T - 1, folder, list2, here, lost2, n - 1, junk)
  BY <1>6, <1>9, <1>11, <1>12, PendingConsumes
<1> QED BY <1>1, <1>3, <1>4, <1>5, <1>13 DEF On

\* A change of the disk is recorded.
LEMMA OnRecords ==
    ASSUME NEW N, NEW n, NEW U, NEW u, NEW E, NEW c,
           NEW folder, NEW list, NEW here, NEW lost, NEW junk,
           On(N, n, U, u, E, c, folder, list, here, lost, junk),
           NEW E2, \A k \in 1..c : E2[k] = E[k],
           NEW event, E2[c + 1] = event, ~Deletes(event, folder),
           NEW here2, NEW lost2, lost \cap Names \subseteq lost2,
           \A name \in Names \ lost2 :
               IF ~Concerns(event, folder, name) THEN Wanted(here2, name) = Wanted(here, name)
               ELSE /\ event.type = "FileAdded" =>
                           Wanted(here, name) = 0 /\ Wanted(here2, name) = Once(name)
                    /\ event.type = "FileRemoved" => Wanted(here2, name) = 0
                    /\ event.type = "FileRenamed" =>
                          /\ event.name # event.previous
                          /\ name = event.previous => Wanted(here2, name) = 0
                          /\ name # event.previous =>
                                /\ event.previous \in Names \ lost
                                /\ Wanted(here2, name) = Wanted(here, name) + Wanted(here, event.previous)
    PROVE  On(N, n, U, u, E2, c + 1, folder, list, here2, lost2, junk)
<1>1. /\ n \in Nat /\ u \in Nat /\ c \in Nat /\ n + u + c \in Nat /\ c + 1 \in Nat
      /\ n + u + (c + 1) = (n + u + c) + 1
  BY DEF On
<1>2. PICK tape : tape = Tape(N, n, U, u, E, c)
  OBVIOUS
<1>3. PICK d : d = c + 1
  OBVIOUS
<1>4. PICK T : T = n + u + c
  OBVIOUS
<1>5. PICK tape2 : tape2 = Tape(N, n, U, u, E2, d)
  OBVIOUS
<1>6. Pending(tape, T, folder, list, here, lost, n, junk)
  BY <1>2, <1>4 DEF On
<1>7. /\ \A i \in 1..n : tape[i] = N[i]
      /\ \A k \in 1..u : tape[n + k] = U[k]
      /\ \A k \in 1..c : tape[n + u + k] = E[k]
  <2>1. IsTape(tape, N, n, U, u, E, c)
    BY <1>1, <1>2, TapeIs
  <2> QED BY <2>1 DEF IsTape
<1>8. /\ \A i \in 1..n : tape2[i] = N[i]
      /\ \A k \in 1..u : tape2[n + k] = U[k]
      /\ \A k \in 1..d : tape2[n + u + k] = E2[k]
  <2>1. IsTape(tape2, N, n, U, u, E2, d)
    BY <1>1, <1>3, <1>5, TapeIs
  <2> QED BY <2>1 DEF IsTape
<1>9. ASSUME NEW i \in 1..T PROVE tape2[i] = tape[i]
  <2>1. ASSUME NEW k \in 1..c, i = n + u + k PROVE tape2[i] = tape[i]
    <3>1. k \in 1..d
      BY <1>1, <1>3
    <3> QED BY <1>7, <1>8, <2>1, <3>1
  <2>2. i \in 1..n \/ (\E k \in 1..u : i = n + k) \/ (\E k \in 1..c : i = n + u + k)
    BY <1>1, <1>4, Places
  <2> QED BY <1>7, <1>8, <2>1, <2>2
<1>10. tape2[T + 1] = event
  <2>1. T + 1 = n + u + d /\ d \in 1..d
    BY <1>1, <1>3, <1>4
  <2> QED BY <1>3, <1>8, <2>1
<1>11. Pending(tape2, T + 1, folder, list, here2, lost2, n, junk)
  BY <1>6, <1>9, <1>10, PendingAppends
<1> QED BY <1>1, <1>3, <1>4, <1>5, <1>11 DEF On

\* What is in the buffer and what no read has fetched is lost.
LEMMA OnLoses ==
    ASSUME NEW N, NEW n, NEW U, NEW u, NEW E, NEW c,
           NEW folder, NEW list, NEW here, NEW lost, NEW junk,
           On(N, n, U, u, E, c, folder, list, here, lost, junk),
           NEW here2, NEW lost2, lost \cap Names \subseteq lost2,
           \A name \in Names \ lost2 : /\ \A k \in 1..u : ~Concerns(U[k], folder, name)
                                       /\ \A k \in 1..c : ~Concerns(E[k], folder, name)
                                       /\ Wanted(here2, name) = Wanted(here, name),
           NEW junk2, junk2 \cap Names \subseteq lost2, NEW U2, NEW E2
    PROVE  On(N, n, U2, 0, E2, 0, folder, list, here2, lost2, junk2)
<1>1. /\ n \in Nat /\ u \in Nat /\ c \in Nat /\ n + u + c \in Nat /\ 0 \in Nat
      /\ n + 0 + 0 = n /\ n \in 0..(n + u + c)
  BY DEF On
<1>2. PICK tape : tape = Tape(N, n, U, u, E, c)
  OBVIOUS
<1>4. PICK T : T = n + u + c
  OBVIOUS
<1>5. PICK tape2 : tape2 = Tape(N, n, U2, 0, E2, 0)
  OBVIOUS
<1>6. Pending(tape, T, folder, list, here, lost, n, junk)
  BY <1>2, <1>4 DEF On
<1>7. /\ \A i \in 1..n : tape[i] = N[i]
      /\ \A k \in 1..u : tape[n + k] = U[k]
      /\ \A k \in 1..c : tape[n + u + k] = E[k]
  <2>1. IsTape(tape, N, n, U, u, E, c)
    BY <1>1, <1>2, TapeIs
  <2> QED BY <2>1 DEF IsTape
<1>8. \A i \in 1..n : tape2[i] = N[i]
  <2>1. IsTape(tape2, N, n, U2, 0, E2, 0)
    BY <1>1, <1>5, TapeIs
  <2> QED BY <2>1 DEF IsTape
<1>9. ASSUME NEW name \in Names \ lost2, NEW i \in n + 1..T PROVE ~Concerns(tape[i], folder, name)
  <2>1. i \in 1..(n + u + c) /\ i \notin 1..n
    BY <1>1, <1>4
  <2>2. (\E k \in 1..u : i = n + k) \/ (\E k \in 1..c : i = n + u + k)
    BY <1>1, <2>1, Places
  <2> QED BY <1>7, <2>2
<1>10. \A name \in Names \ lost2 : Unconcerned(tape, n + 1, T, folder, name)
  BY <1>9 DEF Unconcerned
<1>11. n \in 0..T
  BY <1>1, <1>4
<1>12. \A i \in 1..n : tape2[i] = tape[i]
  BY <1>7, <1>8
<1>13. \A name \in Names \ lost2 : Unconcerned(tape, n + 1, T, folder, name)
                                    /\ Wanted(here2, name) = Wanted(here, name)
  BY <1>10
<1>14. junk2 \cap Names \subseteq lost2 /\ lost \cap Names \subseteq lost2
  OBVIOUS
<1>15. Pending(tape2, n, folder, list, here2, lost2, n, junk2)
  BY ONLY <1>6, <1>11, <1>12, <1>13, <1>14, PendingCut
<1> QED BY <1>1, <1>5, <1>15 DEF On

\* The thread tells that the folder is gone, and reads no more.
LEMMA OnEnds ==
    ASSUME NEW N, NEW n, NEW U, NEW u, NEW E, NEW c,
           NEW folder, NEW list, NEW here, NEW lost, NEW junk,
           On(N, n, U, u, E, c, folder, list, here, lost, junk),
           NEW N2, \A i \in 1..n : N2[i] = N[i], Deletes(N2[n + 1], folder),
           NEW U2, NEW E2, \A name \in Names : Wanted(here, name) = 0
    PROVE  On(N2, n + 1, U2, 0, E2, 0, folder, list, here, lost, {})
<1>1. /\ n \in Nat /\ u \in Nat /\ c \in Nat /\ n + u + c \in Nat /\ 0 \in Nat /\ n + 1 \in Nat
      /\ (n + 1) + 0 + 0 = n + 1
  BY DEF On
<1>2. PICK tape : tape = Tape(N, n, U, u, E, c)
  OBVIOUS
<1>3. PICK m : m = n + 1
  OBVIOUS
<1>4. PICK T : T = n + u + c
  OBVIOUS
<1>5. PICK tape2 : tape2 = Tape(N2, m, U2, 0, E2, 0)
  OBVIOUS
<1>6. Pending(tape, T, folder, list, here, lost, n, junk)
  BY <1>2, <1>4 DEF On
<1>7. \A i \in 1..n : tape[i] = N[i]
  <2>1. IsTape(tape, N, n, U, u, E, c)
    BY <1>1, <1>2, TapeIs
  <2> QED BY <2>1 DEF IsTape
<1>8. \A i \in 1..m : tape2[i] = N2[i]
  <2>1. IsTape(tape2, N2, m, U2, 0, E2, 0)
    BY <1>1, <1>3, <1>5, TapeIs
  <2> QED BY <2>1 DEF IsTape
<1>9. (\A i \in 1..n : i \in 1..m) /\ m \in 1..m
  BY <1>1, <1>3
<1>10. \A i \in 1..n : tape2[i] = tape[i]
  BY <1>7, <1>8, <1>9
<1>11. PICK event : event = N2[n + 1]
  OBVIOUS
<1>12. tape2[n + 1] = event /\ Deletes(event, folder)
  BY <1>3, <1>8, <1>9, <1>11
<1>13. Pending(tape2, n + 1, folder, list, here, lost, n + 1, {})
  BY <1>6, <1>10, <1>12, PendingEnds
<1> QED BY <1>1, <1>3, <1>5, <1>13 DEF On

Events(N, n, U, u, E, c) == {N[i] : i \in 1..n} \cup {U[k] : k \in 1..u} \cup {E[k] : k \in 1..c}

\* There is nothing else on the tape.
LEMMA EventsAre ==
    ASSUME NEW N, NEW n \in Nat, NEW U, NEW u \in Nat, NEW E, NEW c \in Nat,
           NEW tape, tape = Tape(N, n, U, u, E, c), NEW i \in 1..(n + u + c)
    PROVE  tape[i] \in Events(N, n, U, u, E, c)
<1>1. IsTape(tape, N, n, U, u, E, c)
  BY TapeIs
<1>2. i \in 1..n \/ (\E k \in 1..u : i = n + k) \/ (\E k \in 1..c : i = n + u + k)
  BY Places
<1> QED BY <1>1, <1>2 DEF IsTape, Events

\* A name that no event concerns is listed as the disk has it.
LEMMA OnNothing ==
    ASSUME NEW N, NEW n, NEW U, NEW u, NEW E, NEW c,
           NEW folder, NEW list, NEW here, NEW lost, NEW junk,
           On(N, n, U, u, E, c, folder, list, here, lost, junk),
           NEW name \in Names \ lost,
           \A event \in Events(N, n, U, u, E, c) : ~Concerns(event, folder, name)
    PROVE  list[name] = Wanted(here, name)
<1>1. n \in Nat /\ u \in Nat /\ c \in Nat
  BY DEF On
<1>2. PICK T : T = n + u + c
  OBVIOUS
<1>3. PICK tape : tape = Tape(N, n, U, u, E, c)
  OBVIOUS
<1>4. Pending(tape, T, folder, list, here, lost, n, junk)
  BY <1>2, <1>3 DEF On
<1>5. \A i \in 1..T : tape[i] \in Events(N, n, U, u, E, c)
  BY <1>1, <1>2, <1>3, EventsAre
<1>6. Unconcerned(tape, 1, T, folder, name)
  BY <1>5 DEF Unconcerned
<1> QED BY <1>4, <1>6, Nothing

\* A list of which all that is claimed is right already.
LEMMA OnAfresh ==
    ASSUME NEW N, NEW n \in Nat, NEW U, NEW u \in Nat, NEW E, NEW c \in Nat,
           NEW folder, NEW list, NEW here, NEW lost, NEW junk, junk \cap Names \subseteq lost,
           \A name \in Names \ lost :
               /\ list[name] = Wanted(here, name)
               /\ \A event \in Events(N, n, U, u, E, c) :
                      Concerns(event, folder, name) => Deletes(event, folder) /\ list[name] = 0
    PROVE  On(N, n, U, u, E, c, folder, list, here, lost, junk)
<1>1. PICK T : T = n + u + c
  OBVIOUS
<1>2. PICK tape : tape = Tape(N, n, U, u, E, c)
  OBVIOUS
<1>3. \A i \in 1..T : tape[i] \in Events(N, n, U, u, E, c)
  BY <1>1, <1>2, EventsAre
<1>4. T \in Nat /\ n \in 0..T
  BY <1>1
<1>5. \A name \in Names \ lost :
          /\ list[name] = Wanted(here, name)
          /\ \A k \in 1..T : Concerns(tape[k], folder, name) =>
                                 Deletes(tape[k], folder) /\ list[name] = 0
  BY <1>3
<1>6. junk \cap Names \subseteq lost
  OBVIOUS
<1>7. Pending(tape, T, folder, list, here, lost, n, junk)
  BY ONLY <1>4, <1>5, <1>6, PendingAfresh
<1> QED BY <1>1, <1>2, <1>7 DEF On

\* The user changes files in the list that no event concerns.
LEMMA OnTouched ==
    ASSUME NEW N, NEW n, NEW U, NEW u, NEW E, NEW c,
           NEW folder, NEW list, NEW here, NEW lost, NEW junk,
           On(N, n, U, u, E, c, folder, list, here, lost, junk),
           NEW list2, NEW here2, NEW lost2, lost \cap Names \subseteq lost2,
           NEW touched,
           \A name \in touched \cap Names, event \in Events(N, n, U, u, E, c) :
               Concerns(event, folder, name) => Deletes(event, folder) /\ name \in lost2,
           \A name \in Names \ touched : /\ list2[name] = list[name]
                                         /\ Wanted(here2, name) = Wanted(here, name),
           \A name \in (touched \cap Names) \ lost2 : list2[name] = Wanted(here2, name)
    PROVE  On(N, n, U, u, E, c, folder, list2, here2, lost2, junk)
<1>1. n \in Nat /\ u \in Nat /\ c \in Nat
  BY DEF On
<1>2. PICK T : T = n + u + c
  OBVIOUS
<1>3. PICK tape : tape = Tape(N, n, U, u, E, c)
  OBVIOUS
<1>4. Pending(tape, T, folder, list, here, lost, n, junk)
  BY <1>2, <1>3 DEF On
<1>5. \A i \in 1..T : tape[i] \in Events(N, n, U, u, E, c)
  BY <1>1, <1>2, <1>3, EventsAre
<1>6. \A name \in touched \cap Names, k \in 1..T :
          Concerns(tape[k], folder, name) => Deletes(tape[k], folder) /\ name \in lost2
  BY <1>5
<1>7. /\ lost \cap Names \subseteq lost2
      /\ \A name \in Names \ touched : list2[name] = list[name] /\ Wanted(here2, name) = Wanted(here, name)
      /\ \A name \in (touched \cap Names) \ lost2 : list2[name] = Wanted(here2, name)
  OBVIOUS
<1>8. Pending(tape, T, folder, list2, here2, lost2, n, junk)
  BY ONLY <1>4, <1>6, <1>7, PendingTouched
<1> QED BY <1>1, <1>2, <1>3, <1>8 DEF On

\* The user changes files in the list ahead of events that concern them.
LEMMA OnForgets ==
    ASSUME NEW N, NEW n, NEW U, NEW u, NEW E, NEW c,
           NEW folder, NEW list, NEW here, NEW lost, NEW junk,
           On(N, n, U, u, E, c, folder, list, here, lost, junk),
           NEW list2, NEW here2, NEW lost2, lost \cap Names \subseteq lost2,
           \A name \in Names \ lost2 :
               /\ list2[name] = list[name]
               /\ Wanted(here2, name) = Wanted(here, name)
               /\ \A event \in Events(N, n, U, u, E, c) :
                      Concerns(event, folder, name) => Deletes(event, folder)
    PROVE  On(N, n, U, u, E, c, folder, list2, here2, lost2, junk)
<1>1. n \in Nat /\ u \in Nat /\ c \in Nat
  BY DEF On
<1>2. PICK T : T = n + u + c
  OBVIOUS
<1>3. PICK tape : tape = Tape(N, n, U, u, E, c)
  OBVIOUS
<1>4. Pending(tape, T, folder, list, here, lost, n, junk)
  BY <1>2, <1>3 DEF On
<1>5. \A i \in 1..T : tape[i] \in Events(N, n, U, u, E, c)
  BY <1>1, <1>2, <1>3, EventsAre
<1>6. /\ lost \cap Names \subseteq lost2
      /\ \A name \in Names \ lost2 :
             /\ list2[name] = list[name]
             /\ Wanted(here2, name) = Wanted(here, name)
             /\ \A k \in 1..T : Concerns(tape[k], folder, name) => Deletes(tape[k], folder)
  BY <1>5
<1>7. Pending(tape, T, folder, list2, here2, lost2, n, junk)
  BY ONLY <1>4, <1>6, PendingForgets
<1> QED BY <1>1, <1>2, <1>3, <1>7 DEF On

-----------------------------------------------------------------------------
(* What the disk, the monitor and the records always are.                  *)

Renames(record) == record.action \notin {"ADDED", "REMOVED", "RENAMED_OLD_NAME"}

EventTypes == {"MonitoredFolderDeleted", "FileAdded", "FileRemoved", "FileRenamed"}

Notifications ==
    {event \in [type : EventTypes, path : Folders, name : Names \cup {NoName}, previous : Names \cup {NoName}] :
        event.type \in {"FileAdded", "FileRemoved"} => event.previous = NoName}

\* A new name follows its old name, or what the thread does not go on to.
Linked(records) ==
    \A k \in DOMAIN records : Renames(records[k]) =>
        k > 1 /\ (records[k - 1].action = "RENAMED_OLD_NAME" \/ ~records[k - 1].more)

Paired(records) ==
    \A k \in DOMAIN records : Renames(records[k]) =>
        k > 1 /\ records[k - 1].action = "RENAMED_OLD_NAME"

\* A folder that is gone holds nothing.
DiskInv ==
    /\ disk \in [Folders -> SUBSET Names]
    /\ folders \subseteq Folders
    /\ \A folder \in Folders \ folders : disk[folder] = {}

\* The monitor is that of the shown folder; a read outstanding means that nothing
\* is recorded.
Monitored ==
    /\ m_path = m_folder
    /\ m_folder \in Folders \cup {NoName}
    /\ monitor # "none" \/ viewer = "listing" => m_folder \in Folders
    /\ viewer = "closing" => opening \in Folders
    /\ monitor = "none" \/ viewer \in {"closing", "leaving"} => ~m_directory
    /\ monitor = "leaving" => m_folder \notin folders
    /\ reads \in Nat
    /\ changes = <<>> \/ reads = 0

\* Changes come in pairs where they must, and so do the notifications made of them.
RecordInv ==
    /\ m_oldName \in Names \cup {NoName}
    /\ Linked(m_changes)
    /\ changes # Overflow => Paired(changes)
    /\ m_folderNotifications \in Seq(Notifications)
    /\ \A k \in DOMAIN m_folderNotifications :
           m_folderNotifications[k].type = "MonitoredFolderDeleted" =>
               m_folderNotifications[k].path \notin folders

ListInv ==
    /\ listed \in [Paths -> Nat]
    /\ astray \subseteq Files

\* What a step does to the disk.
DiskStep ==
    \E folder \in Folders :
        \/ \E name \in Names : AddFile(folder, name) \/ RemoveFile(folder, name)
        \/ \E old, new \in Names : RenameFile(folder, old, new)
        \/ RemoveFolder(folder)

\* A step changes the disk in one of these ways or not at all.
LEMMA StepsOnDisk ==
    ASSUME [Next]_vars
    PROVE  DiskStep \/ UNCHANGED diskVars
<1>1. CASE OthersChange
  BY <1>1 DEF OthersChange, DiskStep
<1>2. CASE UserStep
  BY <1>2 DEF UserStep, SetImageLocation, CloseHandles, RemoveImage, RenameCurrent, RenameFails,
              monitorVars, DiskStep
<1>3. CASE ViewerThread
  BY <1>3 DEF ViewerThread, StartMonitor, Start, FolderIsGone, FillCacher, OnFileEvent, OnFolderDeleted,
              CloseHandles, MonitorClosed, monitorVars
<1>4. CASE MonitorThread
  BY <1>4 DEF MonitorThread, MonitorStep, IssueRead, FolderDeleted, Timeout, TakePacket, RememberOldName,
              ProcessNotification, QueueEvent
<1>5. CASE UNCHANGED vars
  BY <1>5 DEF vars, monitorVars
<1> QED BY <1>1, <1>2, <1>3, <1>4, <1>5 DEF Next

\* Only an empty folder is removed, and none comes back.
LEMMA KeepsDisk ==
    ASSUME DiskInv, [Next]_vars
    PROVE  DiskInv' /\ folders' \subseteq folders
<1>1. CASE UNCHANGED diskVars
  BY <1>1 DEF DiskInv, diskVars
<1>2. ASSUME NEW folder \in Folders, NEW name \in Names, AddFile(folder, name)
      PROVE  DiskInv' /\ folders' \subseteq folders
  BY <1>2 DEF DiskInv, AddFile
<1>3. ASSUME NEW folder \in Folders, NEW name \in Names, RemoveFile(folder, name)
      PROVE  DiskInv' /\ folders' \subseteq folders
  BY <1>3 DEF DiskInv, RemoveFile
<1>4. ASSUME NEW folder \in Folders, NEW old \in Names, NEW new \in Names, RenameFile(folder, old, new)
      PROVE  DiskInv' /\ folders' \subseteq folders
  BY <1>4 DEF DiskInv, RenameFile
<1>5. ASSUME NEW folder \in Folders, RemoveFolder(folder)
      PROVE  DiskInv' /\ folders' \subseteq folders
  BY <1>5 DEF DiskInv, RemoveFolder
<1> QED BY <1>1, <1>2, <1>3, <1>4, <1>5, StepsOnDisk DEF DiskStep

\* What a change of the disk does to the monitor.
LEMMA ReportsKeepMonitored ==
    ASSUME Monitored, DiskStep
    PROVE  /\ reads' \in Nat /\ (changes' = <<>> \/ reads' = 0) /\ folders' \subseteq folders
           /\ UNCHANGED <<handleVars, threadVars, queueVars>>
<1>1. ASSUME NEW folder, NEW records, Report(folder, records)
      PROVE  reads' \in Nat /\ (changes' = <<>> \/ reads' = 0)
  <2>1. CASE reads > 0
    BY <1>1, <2>1 DEF Report, Monitored, kernelVars
  <2>2. CASE reads = 0
    BY <1>1, <2>2 DEF Report, Monitored, kernelVars
  <2> QED BY <2>1, <2>2 DEF Monitored
<1>2. ASSUME UNCHANGED kernelVars
      PROVE  reads' \in Nat /\ (changes' = <<>> \/ reads' = 0)
  BY <1>2 DEF Monitored, kernelVars
<1>3. ASSUME NEW folder \in Folders, NEW name \in Names, AddFile(folder, name) \/ RemoveFile(folder, name)
      PROVE  /\ reads' \in Nat /\ (changes' = <<>> \/ reads' = 0) /\ folders' \subseteq folders
             /\ UNCHANGED <<handleVars, threadVars, queueVars>>
  BY <1>1, <1>3 DEF AddFile, RemoveFile
<1>4. ASSUME NEW folder \in Folders, NEW old \in Names, NEW new \in Names, RenameFile(folder, old, new)
      PROVE  /\ reads' \in Nat /\ (changes' = <<>> \/ reads' = 0) /\ folders' \subseteq folders
             /\ UNCHANGED <<handleVars, threadVars, queueVars>>
  BY <1>1, <1>4 DEF RenameFile
<1>5. ASSUME NEW folder \in Folders, RemoveFolder(folder)
      PROVE  /\ reads' \in Nat /\ (changes' = <<>> \/ reads' = 0) /\ folders' \subseteq folders
             /\ UNCHANGED <<handleVars, threadVars, queueVars>>
  BY <1>2, <1>5 DEF RemoveFolder
<1> QED BY <1>3, <1>4, <1>5 DEF DiskStep

\* The folder that is monitored is the one that is shown, and there is none while
\* no folder has been opened.
LEMMA KeepsMonitored ==
    ASSUME DiskInv, Monitored, [Next]_vars
    PROVE  Monitored'
<1>1. ASSUME DiskStep, UNCHANGED <<viewer, m_folder, opening>>
      PROVE  Monitored'
  BY <1>1, ReportsKeepMonitored DEF Monitored, handleVars, threadVars
<1>2. CASE OthersChange
  BY <1>1, <1>2 DEF OthersChange, DiskStep, viewVars
<1>3. CASE UserStep
  <2>1. ASSUME NEW folder \in Folders, SetImageLocation(folder) PROVE Monitored'
    BY <2>1 DEF SetImageLocation, CloseHandles, Monitored, diskVars, kernelVars, threadVars, queueVars
  <2>2. ASSUME NEW folder \in Folders, NEW name \in Names, RemoveImage(folder, name) PROVE Monitored'
    BY <1>1, <2>2 DEF RemoveImage, DiskStep
  <2>3. ASSUME NEW folder \in Folders, NEW name \in Names, RenameFails(folder, name) PROVE Monitored'
    BY <2>3 DEF RenameFails, monitorVars, Monitored, diskVars, kernelVars, threadVars, handleVars
  <2>4. ASSUME NEW folder \in Folders, NEW old \in Names, NEW new \in Names, RenameCurrent(folder, old, new)
        PROVE Monitored'
    BY <1>1, <2>4 DEF RenameCurrent, DiskStep
  <2> QED BY <1>3, <2>1, <2>2, <2>3, <2>4 DEF UserStep
<1>4. CASE ViewerThread
  <2>1. CASE StartMonitor
    BY <2>1 DEF StartMonitor, Start, Monitored, diskVars
  <2>2. CASE FolderIsGone
    BY <2>2 DEF FolderIsGone, Monitored, diskVars, kernelVars, handleVars
  <2>3. CASE FillCacher
    BY <2>3 DEF FillCacher, monitorVars, Monitored, diskVars, kernelVars, threadVars, handleVars
  <2>4. CASE OnFileEvent
    BY <2>4 DEF OnFileEvent, Monitored, diskVars, kernelVars, threadVars, handleVars
  <2>5. CASE OnFolderDeleted
    BY <2>5 DEF OnFolderDeleted, CloseHandles, Monitored, diskVars, kernelVars, threadVars
  <2>6. CASE MonitorClosed
    BY <2>6 DEF MonitorClosed, Monitored, diskVars, kernelVars, handleVars
  <2> QED BY <1>4, <2>1, <2>2, <2>3, <2>4, <2>5, <2>6 DEF ViewerThread
<1>5. CASE MonitorThread
  <2> USE DEF viewVars, diskVars, kernelVars, handleVars, Monitored
  <2>0. UNCHANGED <<viewer, m_folder, opening>> /\ MonitorStep
    BY <1>5 DEF MonitorThread
  <2>1. CASE IssueRead
    <3>1. reads' \in Nat /\ (changes' = <<>> \/ reads' = 0)
      BY <2>1, MonitorAssumption DEF IssueRead
    <3>2. monitor = "read" /\ monitor' \in {"exited", "waiting"}
      BY <2>1 DEF IssueRead
    <3> QED BY <2>0, <2>1, <3>1, <3>2 DEF IssueRead
  <2>2. CASE FolderDeleted
    BY <2>0, <2>2 DEF FolderDeleted
  <2>3. CASE Timeout
    BY <2>0, <2>3 DEF Timeout
  <2>4. CASE TakePacket
    BY <2>0, <2>4 DEF TakePacket
  <2>5. CASE RememberOldName
    BY <2>0, <2>5 DEF RememberOldName, NextRecord
  <2>6. CASE ProcessNotification
    BY <2>0, <2>6 DEF ProcessNotification
  <2>7. CASE QueueEvent
    BY <2>0, <2>7 DEF QueueEvent, NextRecord
  <2> QED BY <2>0, <2>1, <2>2, <2>3, <2>4, <2>5, <2>6, <2>7 DEF MonitorStep
<1>6. CASE UNCHANGED vars
  BY <1>6 DEF vars, monitorVars, viewVars, diskVars, kernelVars, threadVars, handleVars, Monitored
<1> QED BY <1>2, <1>3, <1>4, <1>5, <1>6 DEF Next

-----------------------------------------------------------------------------
(* The records of the buffer stay linked: a new name follows its old name. *)

\* The buffer after a read: the records fetched, chained, over what was there while
\* the thread is at it.
LEMMA ChainIs ==
    ASSUME NEW records \in Seq(Records)
    PROVE  /\ Chain(records) \in Seq(Records) /\ Len(Chain(records)) = Len(records)
           /\ \A k \in 1..Len(records) : /\ Chain(records)[k].action = records[k].action
                                         /\ Chain(records)[k].name = records[k].name
                                         /\ Chain(records)[k].more = (k < Len(records))
<1> DEFINE link(k) == [records[k] EXCEPT !.more = k < Len(records)]
<1>1. ASSUME NEW k \in 1..Len(records)
      PROVE  /\ link(k) \in Records /\ link(k).action = records[k].action /\ link(k).name = records[k].name
             /\ link(k).more = (k < Len(records))
  <2>1. PICK record \in Records : record = records[k]
    OBVIOUS
  <2>4. (k < Len(records)) \in BOOLEAN
    OBVIOUS
  <2>2. PICK more \in BOOLEAN : more = (k < Len(records))
    BY <2>4
  <2>3. [record EXCEPT !.more = more] \in Records /\ [record EXCEPT !.more = more].more = more
        /\ [record EXCEPT !.more = more].action = record.action
        /\ [record EXCEPT !.more = more].name = record.name
    BY DEF Records
  <2> QED BY <2>1, <2>2, <2>3
<1>2. Chain(records) = [k \in 1..Len(records) |-> link(k)]
  BY DEF Chain
<1>3. Len(records) \in Nat
  OBVIOUS
<1> HIDE DEF link
<1> QED BY <1>1, <1>2, <1>3

\* What a completed read leaves in the buffer: its records as one chain, and behind
\* them, if the thread is in the middle of it, what was there.
LEMMA CompleteIs ==
    ASSUME BufferInv, NEW records \in Seq(Records), records # Overflow, Complete(records)
    PROVE  /\ packets' = Append(packets, "changes")
           /\ m_changes' \in Seq(Records) /\ Len(m_changes') >= Len(records)
           /\ ~Processing => Len(m_changes') = Len(records)
           /\ \A k \in 1..Len(records) : /\ m_changes'[k].action = records[k].action
                                         /\ m_changes'[k].name = records[k].name
                                         /\ m_changes'[k].more = (k < Len(records))
           /\ \A k \in Len(records) + 1..Len(m_changes') :
                  Processing /\ k \in 1..Len(m_changes) /\ m_changes'[k] = m_changes[k]
<1>1. PICK chain : chain = Chain(records)
  OBVIOUS
<1>2. PICK rest : rest = IF Processing THEN SubSeq(m_changes, Len(records) + 1, Len(m_changes)) ELSE <<>>
  OBVIOUS
<1>3. packets' = Append(packets, "changes") /\ m_changes' = chain \o rest
  BY <1>1, <1>2 DEF Complete
<1>4. /\ chain \in Seq(Records) /\ Len(chain) = Len(records)
      /\ \A k \in 1..Len(records) : /\ chain[k].action = records[k].action
                                    /\ chain[k].name = records[k].name
                                    /\ chain[k].more = (k < Len(records))
  BY <1>1, ChainIs
<1>5. m_changes \in Seq(Records) /\ Len(m_changes) \in Nat /\ Len(records) \in Nat
  BY DEF BufferInv
<1>6. /\ rest \in Seq(Records) /\ (~Processing => rest = <<>>)
      /\ \A k \in 1..Len(rest) : /\ Processing /\ rest[k] = m_changes[Len(records) + k]
                                 /\ Len(records) + k \in 1..Len(m_changes)
  <2>1. CASE Processing
    <3>1. rest = SubSeq(m_changes, Len(records) + 1, Len(m_changes))
      BY <1>2, <2>1
    <3>2. /\ rest \in Seq(Records)
          /\ Len(rest) = IF Len(records) + 1 <= Len(m_changes) THEN Len(m_changes) - Len(records) ELSE 0
          /\ \A k \in 1..Len(rest) : rest[k] = m_changes[Len(records) + k]
      BY ONLY <1>5, <3>1
    <3> QED BY <1>5, <2>1, <3>2
  <2>2. CASE ~Processing
    BY <1>2, <2>2
  <2> QED BY <2>1, <2>2
<1>7. /\ chain \o rest \in Seq(Records) /\ Len(chain \o rest) = Len(chain) + Len(rest)
      /\ \A i \in 1..(Len(chain) + Len(rest)) :
             (chain \o rest)[i] = IF i <= Len(chain) THEN chain[i] ELSE rest[i - Len(chain)]
  <2>1. chain \in Seq(Records) /\ rest \in Seq(Records)
    BY <1>4, <1>6
  <2> QED BY ONLY <2>1, ConcatProperties
<1>8. Len(rest) \in Nat
  BY <1>6
<1>9. ASSUME NEW k \in 1..Len(records) PROVE m_changes'[k] = chain[k]
  BY <1>3, <1>4, <1>5, <1>7, <1>8
<1>10. ASSUME NEW k \in Len(records) + 1..Len(m_changes')
       PROVE  Processing /\ k \in 1..Len(m_changes) /\ m_changes'[k] = m_changes[k]
  <2>1. /\ k - Len(records) \in 1..Len(rest) /\ Len(records) + (k - Len(records)) = k
        /\ k \in 1..(Len(chain) + Len(rest)) /\ ~(k <= Len(chain)) /\ k - Len(chain) = k - Len(records)
    BY <1>3, <1>4, <1>5, <1>7, <1>8
  <2>2. m_changes'[k] = rest[k - Len(records)]
    BY <1>3, <1>7, <2>1
  <2> QED BY <1>6, <2>1, <2>2
<1>11. Len(m_changes') >= Len(records) /\ (~Processing => Len(m_changes') = Len(records))
  <2>1. ~Processing => Len(rest) = 0
    BY <1>6
  <2> QED BY <1>3, <1>4, <1>5, <1>7, <1>8, <2>1
<1> QED BY <1>3, <1>4, <1>7, <1>9, <1>10, <1>11

\* A read that is completed over records the thread is still reading keeps the
\* buffer linked: a chain ends where the old records go on.
LEMMA CompleteKeepsLinked ==
    ASSUME BufferInv, NEW records \in Seq(Records), records # <<>>, Complete(records),
           Linked(m_changes), records # Overflow => Paired(records)
    PROVE  Linked(m_changes')
<1>1. CASE records = Overflow
  BY <1>1 DEF Complete
<1>2. CASE records # Overflow
  <2>1. /\ m_changes' \in Seq(Records) /\ Len(m_changes') >= Len(records)
        /\ \A k \in 1..Len(records) : /\ m_changes'[k].action = records[k].action
                                      /\ m_changes'[k].name = records[k].name
                                      /\ m_changes'[k].more = (k < Len(records))
        /\ \A k \in Len(records) + 1..Len(m_changes') :
               Processing /\ k \in 1..Len(m_changes) /\ m_changes'[k] = m_changes[k]
    BY <1>2, CompleteIs
  <2>2. Len(records) \in Nat \ {0} /\ Len(m_changes') \in Nat /\ m_changes \in Seq(Records)
    BY <2>1 DEF BufferInv
  <2>3. ASSUME NEW k \in 1..Len(m_changes'), Renames(m_changes'[k])
        PROVE  k > 1 /\ (m_changes'[k - 1].action = "RENAMED_OLD_NAME" \/ ~m_changes'[k - 1].more)
    <3>1. CASE k <= Len(records)
      <4>1. k \in 1..Len(records) /\ Renames(records[k])
        BY <2>1, <2>2, <2>3, <3>1 DEF Renames
      <4>2. k > 1 /\ records[k - 1].action = "RENAMED_OLD_NAME"
        BY <1>2, <4>1 DEF Paired
      <4>3. k - 1 \in 1..Len(records)
        BY <2>2, <4>1, <4>2
      <4> QED BY <2>1, <4>2, <4>3
    <3>2. CASE k = Len(records) + 1
      <4>1. k > 1 /\ k - 1 \in 1..Len(records) /\ ~(k - 1 < Len(records))
        BY <2>2, <3>2
      <4> QED BY <2>1, <4>1
    <3>3. CASE k > Len(records) + 1
      <4>1. k \in Len(records) + 1..Len(m_changes') /\ k - 1 \in Len(records) + 1..Len(m_changes') /\ k > 1
        BY <2>2, <3>3
      <4>2. m_changes'[k] = m_changes[k] /\ k \in DOMAIN m_changes
        BY <2>1, <2>2, <4>1
      <4>3. m_changes'[k - 1] = m_changes[k - 1]
        <5>1. PICK j : j = k - 1
          OBVIOUS
        <5>2. j \in Len(records) + 1..Len(m_changes')
          BY <4>1, <5>1
        <5>3. m_changes'[j] = m_changes[j]
          BY <2>1, <5>2
        <5> QED BY <5>1, <5>3
      <4> QED BY <2>3, <4>1, <4>2, <4>3 DEF Linked
    <3> QED BY <2>2, <3>1, <3>2, <3>3
  <2> QED BY <2>1, <2>3 DEF Linked
<1> QED BY <1>1, <1>2

\* So does a change that is reported, to a read or to what is recorded.
LEMMA ReportKeepsRecords ==
    ASSUME BufferInv, NEW folder, NEW records \in Seq(Records), records # <<>>, records # Overflow,
           Paired(records), Report(folder, records),
           Linked(m_changes), changes # Overflow => Paired(changes)
    PROVE  Linked(m_changes') /\ (changes' # Overflow => Paired(changes'))
<1>1. CASE Reported(folder) /\ reads > 0
  BY <1>1, CompleteKeepsLinked DEF Report
<1>2. CASE Reported(folder) /\ reads = 0
  <2>1. m_changes' = m_changes /\ changes' = IF Overflows(records) THEN Overflow ELSE changes \o records
    BY <1>2 DEF Report
  <2>2. ASSUME changes' # Overflow PROVE Paired(changes')
    <3>1. changes' = changes \o records /\ changes # Overflow
      BY <2>1, <2>2 DEF Overflows
    <3>2. /\ changes \o records \in Seq(Records) /\ Len(changes \o records) = Len(changes) + Len(records)
          /\ \A i \in 1..(Len(changes) + Len(records)) :
                 (changes \o records)[i] = IF i <= Len(changes) THEN changes[i] ELSE records[i - Len(changes)]
      BY ConcatProperties DEF BufferInv
    <3>3. PICK both : both = changes \o records
      OBVIOUS
    <3>4. changes \in Seq(Records) /\ Len(changes) \in Nat /\ Len(records) \in Nat /\ Paired(changes)
      BY <3>1 DEF BufferInv
    <3>5. ASSUME NEW k \in 1..Len(both), Renames(both[k])
          PROVE  k > 1 /\ both[k - 1].action = "RENAMED_OLD_NAME"
      <4>1. CASE k <= Len(changes)
        <5>1. both[k] = changes[k] /\ k \in DOMAIN changes
          BY <3>2, <3>3, <3>4, <4>1
        <5>2. k > 1 /\ changes[k - 1].action = "RENAMED_OLD_NAME"
          BY <3>4, <3>5, <5>1 DEF Paired
        <5>3. both[k - 1] = changes[k - 1]
          BY <3>2, <3>3, <3>4, <4>1, <5>2
        <5> QED BY <5>2, <5>3
      <4>2. CASE k > Len(changes)
        <5>1. both[k] = records[k - Len(changes)] /\ k - Len(changes) \in DOMAIN records
          BY <3>2, <3>3, <3>4, <4>2
        <5>2. k - Len(changes) > 1 /\ records[(k - Len(changes)) - 1].action = "RENAMED_OLD_NAME"
          BY <3>5, <5>1 DEF Paired
        <5>3. both[k - 1] = records[(k - 1) - Len(changes)] /\ (k - 1) - Len(changes) = (k - Len(changes)) - 1
          BY <3>2, <3>3, <3>4, <4>2, <5>2
        <5> QED BY <3>4, <5>2, <5>3
      <4> QED BY <3>4, <4>1, <4>2
    <3> QED BY <3>1, <3>2, <3>3, <3>5 DEF Paired
  <2> QED BY <2>1, <2>2
<1>3. CASE UNCHANGED kernelVars
  BY <1>3 DEF kernelVars
<1> QED BY <1>1, <1>2, <1>3 DEF Report

\* The records of one change are a pair where they must be.
LEMMA PairsOfRecords ==
    ASSUME NEW name \in Names, NEW old \in Names
    PROVE  /\ \A action \in {"ADDED", "REMOVED"} :
                  /\ <<Record(action, name)>> \in Seq(Records) /\ <<Record(action, name)>> # <<>>
                  /\ <<Record(action, name)>> # Overflow /\ Paired(<<Record(action, name)>>)
           /\ LET records == <<Record("RENAMED_OLD_NAME", old), Record("RENAMED_NEW_NAME", name)>>
              IN  records \in Seq(Records) /\ records # <<>> /\ records # Overflow /\ Paired(records)
<1>1. ASSUME NEW action \in {"ADDED", "REMOVED"}
      PROVE  /\ <<Record(action, name)>> \in Seq(Records) /\ <<Record(action, name)>> # <<>>
             /\ <<Record(action, name)>> # Overflow /\ Paired(<<Record(action, name)>>)
  <2>1. Record(action, name) \in Records
    BY RecordType DEF Actions
  <2>2. PICK record \in Records : record = Record(action, name)
    BY <2>1
  <2>3. record.action = action
    BY <2>2 DEF Record
  <2>4. PICK other : other = Record("OVERFLOW", NoName)
    OBVIOUS
  <2>5. other.action = "OVERFLOW"
    BY <2>4 DEF Record
  <2>6. <<record>> # <<other>>
    <3>1. record # other
      BY <2>3, <2>5
    <3> QED BY <3>1
  <2>7. Paired(<<record>>)
    BY <2>3 DEF Paired, Renames
  <2> QED BY <2>2, <2>4, <2>6, <2>7 DEF Overflow
<1>2. LET records == <<Record("RENAMED_OLD_NAME", old), Record("RENAMED_NEW_NAME", name)>>
      IN  records \in Seq(Records) /\ records # <<>> /\ records # Overflow /\ Paired(records)
  <2>1. Record("RENAMED_OLD_NAME", old) \in Records /\ Record("RENAMED_NEW_NAME", name) \in Records
    BY RecordType DEF Actions
  <2>2. PICK first \in Records : first = Record("RENAMED_OLD_NAME", old)
    BY <2>1
  <2>3. PICK second \in Records : second = Record("RENAMED_NEW_NAME", name)
    BY <2>1
  <2>4. first.action = "RENAMED_OLD_NAME"
    BY <2>2 DEF Record
  <2>5. Paired(<<first, second>>)
    <3>1. ASSUME NEW k \in DOMAIN <<first, second>>, Renames(<<first, second>>[k])
          PROVE  k > 1 /\ <<first, second>>[k - 1].action = "RENAMED_OLD_NAME"
      BY <2>4, <3>1 DEF Renames
    <3> QED BY <3>1 DEF Paired
  <2>6. <<first, second>> # Overflow
    BY DEF Overflow
  <2> QED BY <2>2, <2>3, <2>5, <2>6
<1> QED BY <1>1, <1>2

-----------------------------------------------------------------------------
(* The notifications are well formed, and say that a folder is gone only   *)
(* when it is.                                                             *)

\* The notifications' part of RecordInv.
QueueTyped ==
    /\ m_folderNotifications \in Seq(Notifications)
    /\ \A k \in DOMAIN m_folderNotifications :
           m_folderNotifications[k].type = "MonitoredFolderDeleted" =>
               m_folderNotifications[k].path \notin folders

\* A well formed notification is sent.
LEMMA SendingKeepsTyped ==
    ASSUME QueueTyped, NEW event \in Notifications, AddNotification(event), folders' \subseteq folders,
           event.type = "MonitoredFolderDeleted" => event.path \notin folders
    PROVE  QueueTyped'
<1>1. m_folderNotifications' = Append(m_folderNotifications, event)
  BY DEF AddNotification
<1>2. m_folderNotifications \in Seq(Notifications)
  BY DEF QueueTyped
<1>3. m_folderNotifications' \in Seq(Notifications)
  BY <1>1, <1>2
<1>4. \A k \in DOMAIN m_folderNotifications' :
          m_folderNotifications'[k] = event \/ (k \in DOMAIN m_folderNotifications
                                                /\ m_folderNotifications'[k] = m_folderNotifications[k])
  BY <1>1, <1>2
<1> QED BY <1>3, <1>4 DEF QueueTyped

\* A notification is handled.
LEMMA HandlingKeepsTyped ==
    ASSUME QueueTyped, m_folderNotifications # <<>>, m_folderNotifications' = Tail(m_folderNotifications),
           folders' \subseteq folders
    PROVE  QueueTyped'
<1>1. m_folderNotifications \in Seq(Notifications)
  BY DEF QueueTyped
<1>2. m_folderNotifications' \in Seq(Notifications)
  BY <1>1
<1>3. \A k \in DOMAIN m_folderNotifications' :
          k + 1 \in DOMAIN m_folderNotifications /\ m_folderNotifications'[k] = m_folderNotifications[k + 1]
  BY <1>1
<1> QED BY <1>2, <1>3 DEF QueueTyped

\* An event the thread makes is a notification, of the monitored folder.
LEMMA EventIs ==
    ASSUME NEW type \in EventTypes, m_path \in Folders, NEW name \in Names \cup {NoName},
           NEW previous \in Names \cup {NoName}, type \in {"FileAdded", "FileRemoved"} => previous = NoName
    PROVE  /\ Event(type, name, previous) \in Notifications
           /\ Event(type, name, previous).type = type /\ Event(type, name, previous).path = m_path
BY DEF Event, Notifications

\* So is the event of a record, and it is not the end of the folder.
LEMMA EventOfRecord ==
    ASSUME NEW record \in Records, m_path \in Folders, m_oldName \in Names \cup {NoName}
    PROVE  EventOf(record) \in Notifications /\ EventOf(record).type # "MonitoredFolderDeleted"
<1>1. record.name \in Names \cup {NoName} /\ NoName \in Names \cup {NoName}
  BY DEF Records
<1>2. \E type \in EventTypes \ {"MonitoredFolderDeleted"}, previous \in Names \cup {NoName} :
          /\ EventOf(record) = Event(type, record.name, previous)
          /\ type \in {"FileAdded", "FileRemoved"} => previous = NoName
  BY <1>1 DEF EventOf, EventTypes
<1> QED BY <1>1, <1>2, EventIs

\* The thread alone sends notifications, and sends the end of a folder when it is gone.
LEMMA KeepsTyped ==
    ASSUME QueueTyped, BufferInv, Monitored, m_oldName \in Names \cup {NoName},
           [Next]_vars, folders' \subseteq folders
    PROVE  QueueTyped'
<1>1. ASSUME UNCHANGED m_folderNotifications PROVE QueueTyped'
  BY <1>1 DEF QueueTyped
<1>2. CASE OthersChange \/ UserStep
  <2>1. UNCHANGED queueVars
    BY <1>2 DEF OthersChange, UserStep, AddFile, RemoveFile, RenameFile, RemoveFolder,
                SetImageLocation, CloseHandles, RemoveImage, RenameCurrent, RenameFails, monitorVars
  <2> QED BY <1>1, <2>1 DEF queueVars
<1>3. CASE ViewerThread
  <2>1. CASE OnFileEvent \/ OnFolderDeleted
    BY <2>1, HandlingKeepsTyped DEF OnFileEvent, OnFolderDeleted
  <2>2. CASE StartMonitor \/ FolderIsGone \/ FillCacher \/ MonitorClosed
    <3>1. UNCHANGED queueVars
      BY <2>2 DEF StartMonitor, FolderIsGone, FillCacher, MonitorClosed, monitorVars
    <3> QED BY <1>1, <3>1 DEF queueVars
  <2> QED BY <1>3, <2>1, <2>2 DEF ViewerThread
<1>4. CASE MonitorThread
  <2>1. CASE IssueRead \/ Timeout \/ TakePacket \/ RememberOldName \/ QueueEvent
    <3>1. UNCHANGED m_folderNotifications
      BY <2>1 DEF IssueRead, Timeout, TakePacket, RememberOldName, QueueEvent, queueVars
    <3> QED BY <1>1, <3>1
  <2>2. CASE FolderDeleted
    <3>1. PICK event : event = Event("MonitoredFolderDeleted", NoName, NoName)
      OBVIOUS
    <3>2. m_path \in Folders /\ m_path \notin folders /\ AddNotification(event)
      BY <2>2, <3>1 DEF FolderDeleted, Monitored
    <3>3. event \in Notifications /\ event.path \notin folders
      BY <3>1, <3>2 DEF Event, Notifications, EventTypes
    <3> QED BY <3>2, <3>3, SendingKeepsTyped
  <2>3. CASE ProcessNotification
    <3>1. PICK event : event = EventOf(m_changes[offset])
      OBVIOUS
    <3>2. m_path \in Folders /\ AddNotification(event) /\ m_changes[offset] \in Records
      BY <2>3, <3>1 DEF ProcessNotification, Monitored, BufferInv, StaysInBuffer, Processing
    <3>3. event \in Notifications /\ event.type # "MonitoredFolderDeleted"
      BY <3>1, <3>2, EventOfRecord
    <3> QED BY <3>2, <3>3, SendingKeepsTyped
  <2> QED BY <1>4, <2>1, <2>2, <2>3 DEF MonitorThread, MonitorStep
<1>5. CASE UNCHANGED vars
  BY <1>1, <1>5 DEF vars, monitorVars, queueVars
<1> QED BY <1>2, <1>3, <1>4, <1>5 DEF Next

\* Any change of the disk keeps the records linked.
LEMMA DiskKeepsRecords ==
    ASSUME BufferInv, DiskStep, Linked(m_changes), changes # Overflow => Paired(changes)
    PROVE  Linked(m_changes') /\ (changes' # Overflow => Paired(changes'))
<1>1. ASSUME NEW folder \in Folders, NEW name \in Names, AddFile(folder, name) \/ RemoveFile(folder, name)
      PROVE  Linked(m_changes') /\ (changes' # Overflow => Paired(changes'))
  <2>1. PICK action \in {"ADDED", "REMOVED"} : Report(folder, <<Record(action, name)>>)
    BY <1>1 DEF AddFile, RemoveFile
  <2>2. PICK records : records = <<Record(action, name)>>
    OBVIOUS
  <2>3. records \in Seq(Records) /\ records # <<>> /\ records # Overflow /\ Paired(records)
    BY <2>2, PairsOfRecords
  <2> QED BY <2>1, <2>2, <2>3, ReportKeepsRecords
<1>2. ASSUME NEW folder \in Folders, NEW old \in Names, NEW new \in Names, RenameFile(folder, old, new)
      PROVE  Linked(m_changes') /\ (changes' # Overflow => Paired(changes'))
  <2>1. PICK records : records = <<Record("RENAMED_OLD_NAME", old), Record("RENAMED_NEW_NAME", new)>>
    OBVIOUS
  <2>2. records \in Seq(Records) /\ records # <<>> /\ records # Overflow /\ Paired(records)
    BY <2>1, PairsOfRecords
  <2>3. Report(folder, records)
    BY <1>2, <2>1 DEF RenameFile
  <2> QED BY <2>2, <2>3, ReportKeepsRecords
<1>3. ASSUME NEW folder \in Folders, RemoveFolder(folder)
      PROVE  Linked(m_changes') /\ (changes' # Overflow => Paired(changes'))
  BY <1>3 DEF RemoveFolder, kernelVars
<1> QED BY <1>1, <1>2, <1>3 DEF DiskStep

\* Every step keeps the records and the notifications as RecordInv says.
LEMMA KeepsRecords ==
    ASSUME RecordInv, BufferInv, DiskInv, Monitored, [Next]_vars
    PROVE  RecordInv'
<1>1. QueueTyped'
  BY KeepsTyped, KeepsDisk DEF RecordInv, QueueTyped
<1>2. m_oldName' \in Names \cup {NoName}
  <2>1. UNCHANGED m_oldName \/ m_oldName' = NoName \/ RememberOldName
    <3>1. CASE OthersChange \/ UserStep
      BY <3>1 DEF OthersChange, UserStep, AddFile, RemoveFile, RenameFile, RemoveFolder,
                  SetImageLocation, CloseHandles, RemoveImage, RenameCurrent, RenameFails, monitorVars, threadVars
    <3>2. CASE ViewerThread
      BY <3>2 DEF ViewerThread, StartMonitor, Start, FolderIsGone, FillCacher, OnFileEvent, OnFolderDeleted,
                  CloseHandles, MonitorClosed, monitorVars, threadVars
    <3>3. CASE MonitorThread
      BY <3>3 DEF MonitorThread, MonitorStep, IssueRead, FolderDeleted, Timeout, TakePacket,
                  ProcessNotification, QueueEvent
    <3>4. CASE UNCHANGED vars
      BY <3>4 DEF vars, monitorVars, threadVars
    <3> QED BY <3>1, <3>2, <3>3, <3>4 DEF Next
  <2>2. CASE RememberOldName
    <3>1. m_oldName' = m_changes[offset].name /\ m_changes[offset] \in Records
      BY <2>2 DEF RememberOldName, BufferInv, StaysInBuffer, Processing
    <3> QED BY <3>1 DEF Records
  <2> QED BY <2>1, <2>2 DEF RecordInv
<1>3. ASSUME UNCHANGED <<changes, m_changes>>
      PROVE  Linked(m_changes') /\ (changes' # Overflow => Paired(changes'))
  BY <1>3 DEF RecordInv
<1>4. Paired(<<>>) /\ Linked(<<>>)
  BY DEF Paired, Linked
<1>5. Linked(m_changes') /\ (changes' # Overflow => Paired(changes'))
  <2>1. CASE DiskStep
    BY <2>1, DiskKeepsRecords DEF RecordInv
  <2>2. CASE UserStep /\ ~DiskStep
    <3>1. UNCHANGED kernelVars
      BY <2>2 DEF UserStep, SetImageLocation, CloseHandles, RemoveImage, RenameCurrent, RenameFails,
                  monitorVars, DiskStep
    <3> QED BY <1>3, <3>1 DEF kernelVars
  <2>3. CASE ViewerThread
    BY <1>3, <1>4, <2>3 DEF ViewerThread, StartMonitor, Start, FolderIsGone, FillCacher, OnFileEvent,
                  OnFolderDeleted, CloseHandles, MonitorClosed, monitorVars, kernelVars
  <2>4. CASE IssueRead
    <3>1. CASE UNCHANGED <<changes, m_changes>>
      BY <1>3, <3>1
    <3>2. CASE changes # <<>> /\ Complete(changes) /\ changes' = <<>>
      <4>1. changes \in Seq(Records) /\ Linked(m_changes) /\ (changes # Overflow => Paired(changes))
        BY DEF BufferInv, RecordInv
      <4> QED BY <1>4, <3>2, <4>1, CompleteKeepsLinked
    <3>3. CASE UNCHANGED m_changes /\ changes' = <<>>
      BY <1>4, <3>3 DEF RecordInv
    <3> QED BY <2>4, <3>1, <3>2, <3>3 DEF IssueRead, kernelVars
  <2>5. CASE MonitorThread /\ ~IssueRead
    <3>1. UNCHANGED <<changes, m_changes>>
      BY <2>5 DEF MonitorThread, MonitorStep, FolderDeleted, Timeout, TakePacket, RememberOldName,
                  ProcessNotification, QueueEvent, kernelVars
    <3> QED BY <1>3, <3>1
  <2>6. CASE UNCHANGED vars
    BY <1>3, <2>6 DEF vars, monitorVars, kernelVars
  <2>7. OthersChange => DiskStep
    BY DEF OthersChange, DiskStep
  <2> QED BY <2>1, <2>2, <2>3, <2>4, <2>5, <2>6, <2>7 DEF Next
<1> QED BY <1>1, <1>2, <1>5 DEF RecordInv, QueueTyped

-----------------------------------------------------------------------------
(* The list and the files that are astray.                                 *)

\* The three ways a list is changed, entry by entry.
OneMoreOf(f, a) == [f EXCEPT ![a] = @ + 1]

OneMovedFrom(f, a, b) == [f EXCEPT ![a] = @ - 1, ![b] = @ + 1]

\* One entry more, where the list has the path at all.
LEMMA OneMore ==
    ASSUME NEW P, NEW f \in [P -> Nat], NEW a, NEW g, g = OneMoreOf(f, a)
    PROVE  g \in [P -> Nat] /\ \A x \in P : g[x] = IF x = a THEN f[x] + 1 ELSE f[x]
<1>1. CASE a \in P
  BY <1>1 DEF OneMoreOf
<1>2. CASE a \notin P
  <2>1. PICK v : v = f[a] + 1
    OBVIOUS
  <2>2. g = [f EXCEPT ![a] = v]
    BY <2>1 DEF OneMoreOf
  <2>3. g = f
    BY <1>2, <2>2
  <2> QED BY <1>2, <2>3
<1> QED BY <1>1, <1>2

\* An entry is moved, unless from a path to itself.
LEMMA OneMoved ==
    ASSUME NEW P, NEW f \in [P -> Nat], NEW a \in P, f[a] > 0, NEW b,
           NEW g, g = OneMovedFrom(f, a, b)
    PROVE  /\ g \in [P -> Nat]
           /\ a # b => \A x \in P : g[x] = IF x = a THEN f[x] - 1 ELSE IF x = b THEN f[x] + 1 ELSE f[x]
           /\ a = b => g = f
<1>1. CASE b \in P /\ a # b
  BY <1>1 DEF OneMovedFrom
<1>2. CASE a = b
  BY <1>2 DEF OneMovedFrom
<1>3. CASE b \notin P
  <2>1. g = [f EXCEPT ![a] = @ - 1]
    BY <1>3 DEF OneMovedFrom
  <2>3. f[a] > 0
    OBVIOUS
  <2>2. g \in [P -> Nat] /\ \A x \in P : g[x] = IF x = a THEN f[x] - 1 ELSE f[x]
    BY ONLY <2>1, <2>3, f \in [P -> Nat], a \in P
  <2> QED BY <1>3, <2>2
<1> QED BY <1>1, <1>2, <1>3

\* AddImageLast adds an entry if a codec knows the extension.
LEMMA Adding ==
    ASSUME listed \in [Paths -> Nat], NEW path, AddImageLast(path)
    PROVE  /\ listed' \in [Paths -> Nat]
           /\ \A file \in Paths : listed'[file] =
                  IF file = path /\ path[2] \in Viewable THEN listed[file] + 1 ELSE listed[file]
<1>1. CASE path[2] \in Viewable
  <2>1. listed' = [listed EXCEPT ![path] = @ + 1]
    BY <1>1 DEF AddImageLast
  <2>2. /\ listed' \in [Paths -> Nat]
        /\ \A file \in Paths : listed'[file] = IF file = path THEN listed[file] + 1 ELSE listed[file]
    <3>1. PICK f : f = listed
      OBVIOUS
    <3>2. PICK g : g = listed'
      OBVIOUS
    <3>3. PICK P : P = Paths
      OBVIOUS
    <3>4. f \in [P -> Nat] /\ g = OneMoreOf(f, path)
      BY <2>1, <3>1, <3>2, <3>3 DEF OneMoreOf
    <3>5. g \in [P -> Nat] /\ \A x \in P : g[x] = IF x = path THEN f[x] + 1 ELSE f[x]
      BY <3>4, OneMore
    <3> QED BY <3>1, <3>2, <3>3, <3>5
  <2> QED BY <1>1, <2>2
<1>2. CASE path[2] \notin Viewable
  BY <1>2 DEF AddImageLast
<1> QED BY <1>1, <1>2

\* RemoveImageFilename takes an entry away if there is one.
LEMMA Removing ==
    ASSUME listed \in [Paths -> Nat], NEW path, RemoveImageFilename(path)
    PROVE  /\ listed' \in [Paths -> Nat]
           /\ \A file \in Paths : listed'[file] =
                  IF file = path /\ listed[file] > 0 THEN listed[file] - 1 ELSE listed[file]
<1>1. CASE FindImage(path)
  BY <1>1 DEF RemoveImageFilename, FindImage
<1>2. CASE ~FindImage(path)
  BY <1>2 DEF RemoveImageFilename, FindImage
<1> QED BY <1>1, <1>2

\* RenamedImage moves an entry if there is one.
LEMMA Renaming ==
    ASSUME listed \in [Paths -> Nat], NEW old, NEW new, RenamedImage(old, new)
    PROVE  /\ listed' \in [Paths -> Nat]
           /\ FindImage(old) /\ old # new => \A file \in Paths : listed'[file] =
                  IF file = old THEN listed[file] - 1
                  ELSE IF file = new THEN listed[file] + 1 ELSE listed[file]
           /\ ~FindImage(old) \/ old = new => \A file \in Paths : listed'[file] = listed[file]
<1>1. CASE ~FindImage(old)
  BY <1>1 DEF RenamedImage
<1>2. CASE FindImage(old)
  <2>1. old \in Paths /\ listed[old] > 0
    BY <1>2 DEF FindImage
  <2>2. listed' = [listed EXCEPT ![old] = @ - 1, ![new] = @ + 1]
    BY <1>2 DEF RenamedImage
  <2>3. /\ listed' \in [Paths -> Nat]
        /\ old # new => \A file \in Paths : listed'[file] =
              IF file = old THEN listed[file] - 1 ELSE IF file = new THEN listed[file] + 1 ELSE listed[file]
        /\ old = new => listed' = listed
    <3>1. PICK f : f = listed
      OBVIOUS
    <3>2. PICK g : g = listed'
      OBVIOUS
    <3>3. PICK P : P = Paths
      OBVIOUS
    <3>4. f \in [P -> Nat] /\ g = OneMovedFrom(f, old, new) /\ old \in P /\ f[old] > 0
      BY <2>1, <2>2, <3>1, <3>2, <3>3 DEF OneMovedFrom
    <3>5. /\ g \in [P -> Nat]
          /\ old # new => \A x \in P : g[x] = IF x = old THEN f[x] - 1 ELSE IF x = new THEN f[x] + 1 ELSE f[x]
          /\ old = new => g = f
      BY <3>4, OneMoved
    <3> QED BY <3>1, <3>2, <3>3, <3>5
  <2> QED BY <1>2, <2>3
<1> QED BY <1>1, <1>2

\* No step makes a count negative.
LEMMA KeepsListTyped ==
    ASSUME listed \in [Paths -> Nat], QueueTyped, [Next]_vars
    PROVE  listed' \in [Paths -> Nat]
<1>1. CASE UNCHANGED listed
  BY <1>1
<1>2. ASSUME NEW function \in [Paths -> Nat], listed' = function PROVE listed' \in [Paths -> Nat]
  BY <1>2
<1>3. CASE OthersChange \/ MonitorThread \/ UNCHANGED vars
  BY <1>1, <1>3 DEF OthersChange, MonitorThread, vars, viewVars
<1>4. CASE UserStep
  BY <1>4, Removing, Renaming DEF UserStep, SetImageLocation, RemoveImage, RenameFails, RenameCurrent
<1>5. CASE ViewerThread
  <2>1. CASE StartMonitor \/ FolderIsGone \/ MonitorClosed
    BY <1>1, <2>1 DEF StartMonitor, FolderIsGone, MonitorClosed
  <2>2. CASE FillCacher
    BY <2>2 DEF FillCacher
  <2>3. CASE OnFileEvent
    <3>1. PICK event : event = Head(m_folderNotifications)
      OBVIOUS
    <3>2. PICK file : file = File(event.path, event.name)
      OBVIOUS
    <3>3. \/ AddImageLast(file)
          \/ RemoveImageFilename(file)
          \/ RenamedImage(File(event.path, event.previous), file)
          \/ event.type \notin {"FileAdded", "FileRemoved", "FileRenamed"}
      <4>1. CASE event.type = "FileAdded"
        BY <2>3, <3>1, <3>2, <4>1 DEF OnFileEvent
      <4>2. CASE event.type = "FileRemoved"
        BY <2>3, <3>1, <3>2, <4>2 DEF OnFileEvent
      <4>3. CASE event.type = "FileRenamed"
        BY <2>3, <3>1, <3>2, <4>3 DEF OnFileEvent
      <4> QED BY <4>1, <4>2, <4>3
    <3>4. event.type \in {"FileAdded", "FileRemoved", "FileRenamed"}
      <4>1. event \in Notifications /\ event.type # "MonitoredFolderDeleted"
        BY <2>3, <3>1 DEF OnFileEvent, QueueTyped
      <4> QED BY <4>1 DEF Notifications, EventTypes
    <3>5. PICK previous : previous = File(event.path, event.previous)
      OBVIOUS
    <3> QED BY <3>3, <3>4, <3>5, Adding, Removing, Renaming
  <2>4. CASE OnFolderDeleted
    BY <2>4 DEF OnFolderDeleted
  <2> QED BY <1>5, <2>1, <2>2, <2>3, <2>4 DEF ViewerThread
<1> QED BY <1>3, <1>4, <1>5 DEF Next

\* Only files go astray.
LEMMA KeepsAstrayTyped ==
    ASSUME astray \subseteq Files, DiskInv, DiskInv', [Next]_vars
    PROVE  astray' \subseteq Files
<1>1. InFlight \subseteq Files
  BY DEF InFlight, FilesOf, FilesOfEvent, RenamedFrom
<1>2. \A folder \in Folders : Touched(folder) \subseteq Files
  BY DEF Touched, Gone, Come, DiskInv, File, Files
<1>3. Untold \subseteq Files /\ Disguised \subseteq Files
  BY <1>2 DEF Untold, Disguised
<1>4. Overwritten \subseteq Files
  BY DEF Overwritten, FilesOf, RenamedFrom
<1>5. Dropped \subseteq Files
  BY DEF Dropped
<1>6. Stale \subseteq Files
  BY DEF Stale, FilesOfEvent
<1>7. AheadOfEvents \subseteq Files /\ Nameless \subseteq Files
  BY <1>1 DEF AheadOfEvents, Nameless
<1>8. CASE Observe
  BY <1>1, <1>3, <1>4, <1>5, <1>6, <1>7, <1>8 DEF Observe
<1>9. CASE UNCHANGED vars
  BY <1>9 DEF vars
<1> QED BY <1>8, <1>9 DEF Next, ViewerThread, MonitorThread

\* What is astray stays so until a folder is listed.
LEMMA Growing ==
    ASSUME [Next]_vars, viewer # "listing", astray \subseteq Files
    PROVE  astray \subseteq astray'
BY DEF Next, ViewerThread, MonitorThread, Observe, vars

\* What is astray after a step is what it was, and what the step adds, reason by reason.
LEMMA Reasons ==
    ASSUME Next, viewer # "listing", ~(viewer = "closing" /\ viewer' = "idle")
    PROVE  astray' = astray \cup Untold \cup Overwritten \cup Dropped \cup Disguised
                       \cup Stale \cup AheadOfEvents \cup Nameless
BY DEF Next, ViewerThread, MonitorThread, Observe

-----------------------------------------------------------------------------
(* What is on the tape: the events the thread will send for the records.   *)

\* The event the thread will send for a record; none for an old name.
Told(folder, type, name, previous) ==
    [type |-> type, path |-> folder, name |-> name, previous |-> previous]

ToldBy(folder, record, old) ==
    CASE record.action = "RENAMED_OLD_NAME" -> Told(folder, "none", NoName, NoName)
      [] record.action = "ADDED"            -> Told(folder, "FileAdded", record.name, NoName)
      [] record.action = "REMOVED"          -> Told(folder, "FileRemoved", record.name, NoName)
      [] OTHER                              -> Told(folder, "FileRenamed", record.name, old)

\* What it will send for u records of the buffer, and for the c recorded.
UnreadEvents(M, first, u, old, folder) ==
    [k \in 1..u |-> ToldBy(folder, M[first + k - 1], IF k = 1 THEN old ELSE M[first + k - 2].name)]

RecordEvents(C, c, folder) ==
    [k \in 1..c |-> ToldBy(folder, C[k], IF k = 1 THEN NoName ELSE C[k - 1].name)]

\* The thread will read what is in the buffer and what is recorded.
Reading == monitor \notin {"none", "leaving", "exited"}

\* The record it tells of next, if it is in the buffer.
FirstUnread ==
    IF monitor = "notifying" THEN offset + 1 ELSE IF monitor = "processing" THEN offset ELSE 1

Fetched == \E k \in DOMAIN packets : packets[k] = "changes"

Filled == Processing \/ Fetched

\* The buffer holds one batch of records, whole, and the thread is somewhere in it.
Trust(whole) ==
    whole /\ Reading =>
        /\ Processing => ~Fetched
        /\ \A j, k \in DOMAIN packets : packets[j] = "changes" /\ packets[k] = "changes" => j = k
        /\ Filled => \A k \in DOMAIN m_changes : m_changes[k].more <=> k < Len(m_changes)

\* How many records of the buffer it will read, when that can be told, and how many
\* of those recorded.
UnreadCount(whole) ==
    IF whole /\ Reading /\ Filled THEN Len(m_changes) - FirstUnread + 1 ELSE 0

Recorded == IF Reading /\ changes # Overflow THEN Len(changes) ELSE 0

\* The thread may take m_oldName for the old name of the next record.
OldNext ==
    /\ Processing /\ FirstUnread \in DOMAIN m_changes /\ Renames(m_changes[FirstUnread])
    /\ monitor = "notifying" => m_changes[offset].more

\* What the thread may tell of when the batches in the buffer are mixed up.
Junk(whole) ==
    IF whole \/ ~Reading THEN {}
    ELSE {m_changes[k].name : k \in DOMAIN m_changes} \cup (IF OldNext THEN {m_oldName} ELSE {})

ListOf(list, folder) == [name \in Names |-> list[File(folder, name)]]

LostOf(files, folder) == {name \in Names : File(folder, name) \in files}

\* The tape of this state.
Tells(whole, list, here, lost) ==
    On(m_folderNotifications, Len(m_folderNotifications),
       UnreadEvents(m_changes, FirstUnread, UnreadCount(whole), m_oldName, m_folder), UnreadCount(whole),
       RecordEvents(changes, Recorded, m_folder), Recorded,
       m_folder, list, here, lost, Junk(whole))

\* What is on its way leads from the list to the disk.
FollowedBy(whole) ==
    /\ Trust(whole)
    /\ Tells(whole, ListOf(listed, m_folder), disk[m_folder] \cap Viewable, LostOf(astray, m_folder))

\* Once the folder is listed the list follows it, with the buffer whole or not.
FollowInv == viewer # "listing" /\ m_folder \in Folders => \E whole \in BOOLEAN : FollowedBy(whole)

\* Nothing of another folder is listed, but what is astray.
ElsewhereInv ==
    viewer # "listing" => \A file \in Files \ astray : file[1] # m_folder => listed[file] = 0

\* What the event of a record says, and which names it concerns.
LEMMA ToldIs ==
    ASSUME NEW folder, NEW record, NEW old, NEW event, event = ToldBy(folder, record, old)
    PROVE  /\ ~Deletes(event, folder) /\ event.path = folder
           /\ record.action = "RENAMED_OLD_NAME" => \A name \in Names : ~Concerns(event, folder, name)
           /\ \A name \in Names : Concerns(event, folder, name) =>
                  name = record.name \/ (Renames(record) /\ name = old)
           /\ record.action = "ADDED" =>
                  event.type = "FileAdded" /\ event.name = record.name /\ event.previous = NoName
           /\ record.action = "REMOVED" =>
                  event.type = "FileRemoved" /\ event.name = record.name /\ event.previous = NoName
           /\ Renames(record) =>
                  event.type = "FileRenamed" /\ event.name = record.name /\ event.previous = old
<1>0. NoName \notin Names
  BY MonitorAssumption
<1>1. CASE record.action = "RENAMED_OLD_NAME"
  <2>1. event = Told(folder, "none", NoName, NoName)
    BY <1>1 DEF ToldBy
  <2> QED BY <1>0, <1>1, <2>1 DEF Told, Deletes, Concerns, Renames
<1>2. CASE record.action = "ADDED"
  <2>1. event = Told(folder, "FileAdded", record.name, NoName)
    BY <1>2 DEF ToldBy
  <2> QED BY <1>0, <1>2, <2>1 DEF Told, Deletes, Concerns, Renames
<1>3. CASE record.action = "REMOVED"
  <2>1. event = Told(folder, "FileRemoved", record.name, NoName)
    BY <1>3 DEF ToldBy
  <2> QED BY <1>0, <1>3, <2>1 DEF Told, Deletes, Concerns, Renames
<1>4. CASE Renames(record)
  <2>1. event = Told(folder, "FileRenamed", record.name, old)
    BY <1>4 DEF ToldBy, Renames
  <2> QED BY <1>0, <1>4, <2>1 DEF Told, Deletes, Concerns, Renames
<1> QED BY <1>1, <1>2, <1>3, <1>4 DEF Renames

\* Records that say the same are told alike.
LEMMA ToldAlike ==
    ASSUME NEW folder, NEW record, NEW old, NEW record2, NEW old2,
           record.action = record2.action, record.name = record2.name,
           Renames(record) => old = old2
    PROVE  ToldBy(folder, record, old) = ToldBy(folder, record2, old2)
<1>1. CASE Renames(record)
  BY <1>1 DEF ToldBy, Renames
<1>2. CASE ~Renames(record)
  BY <1>2 DEF ToldBy, Renames
<1> QED BY <1>1, <1>2

\* It is the event the thread sends.
LEMMA ToldByThread ==
    ASSUME NEW record, record.action # "RENAMED_OLD_NAME"
    PROVE  EventOf(record) = ToldBy(m_path, record, m_oldName)
BY DEF EventOf, Event, ToldBy, Told

\* Where the thread is in the buffer.
LEMMA Counting ==
    ASSUME BufferInv, NEW whole \in BOOLEAN
    PROVE  /\ UnreadCount(whole) \in Nat /\ Recorded \in Nat /\ FirstUnread \in Nat \ {0}
           /\ \A k \in 1..UnreadCount(whole) :
                  /\ FirstUnread + k - 1 \in DOMAIN m_changes
                  /\ k # 1 => FirstUnread + k - 2 \in DOMAIN m_changes
           /\ UnreadCount(whole) # 0 => whole /\ Reading /\ Filled
           /\ \A k \in 1..Recorded : k \in DOMAIN changes
           /\ Recorded # 0 => Reading /\ changes # Overflow /\ Recorded = Len(changes)
<1>1. m_changes \in Seq(Records) /\ Len(m_changes) \in Nat /\ changes \in Seq(Records) /\ Len(changes) \in Nat
  BY DEF BufferInv
<1>2. Recorded \in Nat /\ (\A k \in 1..Recorded : k \in DOMAIN changes)
      /\ (Recorded # 0 => Reading /\ changes # Overflow /\ Recorded = Len(changes))
  BY <1>1 DEF Recorded
<1>3. FirstUnread \in Nat \ {0} /\ (Processing => FirstUnread \in 1..Len(m_changes) + 1)
  BY <1>1 DEF FirstUnread, BufferInv, StaysInBuffer, Processing
<1>4. Filled => FirstUnread \in 1..Len(m_changes) + 1
  <2>1. CASE Processing
    BY <1>3, <2>1
  <2>2. CASE ~Processing
    BY <1>1, <2>2 DEF FirstUnread, Processing
  <2> QED BY <2>1, <2>2
<1>5. UnreadCount(whole) \in Nat
  BY <1>1, <1>4 DEF UnreadCount
<1>6. UnreadCount(whole) # 0 => /\ whole /\ Reading /\ Filled
                                /\ UnreadCount(whole) = Len(m_changes) - FirstUnread + 1
  BY DEF UnreadCount
<1>7. ASSUME NEW k \in 1..UnreadCount(whole)
      PROVE  /\ FirstUnread + k - 1 \in DOMAIN m_changes
             /\ k # 1 => FirstUnread + k - 2 \in DOMAIN m_changes
  BY <1>1, <1>3, <1>5, <1>6
<1> QED BY <1>2, <1>3, <1>5, <1>6, <1>7

\* The names the records of the buffer tell of are among those of the files in flight.
LEMMA UnreadCovered ==
    ASSUME BufferInv, RecordInv, m_path = m_folder, m_folder \in Folders, NEW whole \in BOOLEAN,
           NEW events, events = UnreadEvents(m_changes, FirstUnread, UnreadCount(whole), m_oldName, m_folder),
           NEW k \in 1..UnreadCount(whole), NEW name \in Names, Concerns(events[k], m_folder, name)
    PROVE  File(m_folder, name) \in FilesOf(Unread) \cup RenamedFrom
<1>1. /\ FirstUnread \in Nat \ {0} /\ Filled
      /\ FirstUnread + k - 1 \in DOMAIN m_changes
      /\ k # 1 => FirstUnread + k - 2 \in DOMAIN m_changes
  BY Counting
<1>2. Unread = m_changes
  BY <1>1 DEF Filled, Fetched, Unread
<1>3. \A j \in DOMAIN m_changes : m_changes[j].name = name => File(m_folder, name) \in FilesOf(Unread)
  BY <1>2 DEF FilesOf, Files, File
<1>4. PICK record : record = m_changes[FirstUnread + k - 1]
  OBVIOUS
<1>5. PICK old : old = IF k = 1 THEN m_oldName ELSE m_changes[FirstUnread + k - 2].name
  OBVIOUS
<1>6. events[k] = ToldBy(m_folder, record, old)
  BY <1>4, <1>5 DEF UnreadEvents
<1>7. name = record.name \/ (Renames(record) /\ name = old)
  BY <1>6, ToldIs
<1>8. CASE name = record.name
  BY <1>1, <1>3, <1>4, <1>8
<1>9. CASE Renames(record) /\ name = old /\ k # 1
  BY <1>1, <1>3, <1>5, <1>9
<1>10. CASE Renames(record) /\ name = old /\ k = 1
  <2>1. FirstUnread + 1 - 1 = FirstUnread
    BY <1>1
  <2>2. FirstUnread > 1 /\ Renames(m_changes[FirstUnread])
    BY <1>1, <1>4, <1>10, <2>1 DEF RecordInv, Linked
  <2>3. Processing
    BY <2>2 DEF FirstUnread, Processing
  <2> QED BY <1>5, <1>10, <2>3 DEF RenamedFrom, Files, File
<1> QED BY <1>7, <1>8, <1>9, <1>10

\* And the names of what is recorded.
LEMMA RecordsCovered ==
    ASSUME NEW records \in Seq(Records), Paired(records), NEW folder,
           NEW c, c \in {0, Len(records)},
           NEW events, events = RecordEvents(records, c, folder),
           NEW k \in 1..c, NEW name \in Names, Concerns(events[k], folder, name)
    PROVE  \E j \in DOMAIN records : name = records[j].name
<1>1. k \in DOMAIN records
  OBVIOUS
<1>2. PICK record : record = records[k]
  OBVIOUS
<1>3. PICK old : old = IF k = 1 THEN NoName ELSE records[k - 1].name
  OBVIOUS
<1>4. events[k] = ToldBy(folder, record, old)
  BY <1>2, <1>3 DEF RecordEvents
<1>5. name = record.name \/ (Renames(record) /\ name = old)
  BY <1>4, ToldIs
<1>6. CASE name = record.name
  BY <1>1, <1>2, <1>6
<1>7. CASE Renames(record) /\ name = old
  <2>1. k > 1
    BY <1>1, <1>2, <1>7 DEF Paired
  <2>2. k - 1 \in DOMAIN records /\ name = records[k - 1].name
    BY <1>1, <1>3, <1>7, <2>1
  <2> QED BY <2>2
<1> QED BY <1>5, <1>6, <1>7

\* The files of two sequences of records.
LEMMA FilesOfBoth ==
    ASSUME NEW s \in Seq(Records), NEW t \in Seq(Records)
    PROVE  FilesOf(s \o t) = FilesOf(s) \cup FilesOf(t)
<1>1. PICK both : both = s \o t
  OBVIOUS
<1>2. /\ Len(both) = Len(s) + Len(t) /\ Len(s) \in Nat /\ Len(t) \in Nat
      /\ DOMAIN both = 1..Len(both) /\ DOMAIN s = 1..Len(s) /\ DOMAIN t = 1..Len(t)
      /\ \A i \in 1..(Len(s) + Len(t)) : both[i] = IF i <= Len(s) THEN s[i] ELSE t[i - Len(s)]
  <2>1. both \in Seq(Records)
    BY <1>1
  <2> QED BY <1>1, <2>1, ConcatProperties
<1>3. \A i \in DOMAIN both : (\E j \in DOMAIN s : both[i] = s[j]) \/ (\E j \in DOMAIN t : both[i] = t[j])
  <2>1. ASSUME NEW i \in DOMAIN both
        PROVE  (\E j \in DOMAIN s : both[i] = s[j]) \/ (\E j \in DOMAIN t : both[i] = t[j])
    <3>1. CASE i <= Len(s)
      BY <1>2, <3>1
    <3>2. CASE i > Len(s)
      <4>1. i - Len(s) \in DOMAIN t /\ both[i] = t[i - Len(s)]
        BY <1>2, <3>2
      <4> QED BY <4>1
    <3> QED BY <1>2, <3>1, <3>2
  <2> QED BY <2>1
<1>4. \A j \in DOMAIN s : j \in DOMAIN both /\ both[j] = s[j]
  BY <1>2
<1>5. \A j \in DOMAIN t : \E i \in DOMAIN both : both[i] = t[j]
  <2>1. ASSUME NEW j \in DOMAIN t PROVE \E i \in DOMAIN both : both[i] = t[j]
    <3>1. Len(s) + j \in DOMAIN both /\ both[Len(s) + j] = t[j]
      <4>1. Len(s) + j \in 1..(Len(s) + Len(t)) /\ ~(Len(s) + j <= Len(s)) /\ (Len(s) + j) - Len(s) = j
        BY <1>2
      <4> QED BY <1>2, <4>1
    <3> QED BY <3>1
  <2> QED BY <2>1
<1>6. FilesOf(both) = FilesOf(s) \cup FilesOf(t)
  BY <1>3, <1>4, <1>5 DEF FilesOf
<1> QED BY <1>1, <1>6

\* All that is on its way is about files in flight, but for the end of the folder.
LEMMA InFlightCovers ==
    ASSUME BufferInv, RecordInv, m_path = m_folder, m_folder \in Folders, NEW whole \in BOOLEAN,
           NEW event \in Events(m_folderNotifications, Len(m_folderNotifications),
               UnreadEvents(m_changes, FirstUnread, UnreadCount(whole), m_oldName, m_folder), UnreadCount(whole),
               RecordEvents(changes, Recorded, m_folder), Recorded),
           NEW name \in Names, Concerns(event, m_folder, name)
    PROVE  Deletes(event, m_folder) \/ File(m_folder, name) \in InFlight
<1>1. PICK U : U = UnreadEvents(m_changes, FirstUnread, UnreadCount(whole), m_oldName, m_folder)
  OBVIOUS
<1>2. PICK E : E = RecordEvents(changes, Recorded, m_folder)
  OBVIOUS
<1>3. Unread \in Seq(Records) /\ changes \in Seq(Records)
  BY DEF BufferInv, Unread
<1>4. FilesOf(changes \o Unread) = FilesOf(changes) \cup FilesOf(Unread)
  BY <1>3, FilesOfBoth
<1>5. CASE \E i \in 1..Len(m_folderNotifications) : event = m_folderNotifications[i]
  <2>1. PICK i \in 1..Len(m_folderNotifications) : event = m_folderNotifications[i]
    BY <1>5
  <2>2. i \in DOMAIN m_folderNotifications
    BY DEF RecordInv
  <2>3. ASSUME ~Deletes(event, m_folder) PROVE File(m_folder, name) \in FilesOfEvent(event)
    BY <2>3 DEF Concerns, FilesOfEvent, Files, File
  <2> QED BY <2>1, <2>2, <2>3 DEF InFlight
<1>6. CASE \E k \in 1..UnreadCount(whole) : event = U[k]
  <2>1. PICK k \in 1..UnreadCount(whole) : event = U[k]
    BY <1>6
  <2>2. File(m_folder, name) \in FilesOf(Unread) \cup RenamedFrom
    BY <1>1, <2>1, UnreadCovered
  <2> QED BY <1>4, <2>2 DEF InFlight
<1>7. CASE \E k \in 1..Recorded : event = E[k]
  <2>1. PICK k \in 1..Recorded : event = E[k]
    BY <1>7
  <2>2. Recorded # 0
    OBVIOUS
  <2>3. changes # Overflow /\ Recorded = Len(changes)
    BY <2>2, Counting
  <2>4. Paired(changes)
    BY <2>3 DEF RecordInv
  <2>5. \E j \in DOMAIN changes : name = changes[j].name
    BY <1>2, <1>3, <2>1, <2>3, <2>4, RecordsCovered
  <2>6. File(m_folder, name) \in FilesOf(changes)
    BY <2>5 DEF FilesOf, Files, File
  <2> QED BY <1>4, <2>6 DEF InFlight
<1> QED BY <1>1, <1>2, <1>5, <1>6, <1>7 DEF Events

-----------------------------------------------------------------------------
(* Steps that leave the tape alone, or the list beyond what it tells.      *)

\* A step that leaves what is on its way as it is.
LEMMA TellsStays ==
    ASSUME NEW whole \in BOOLEAN, NEW whole2 \in BOOLEAN, Trust(whole2)',
           NEW list, NEW here, NEW lost, Tells(whole, list, here, lost),
           UNCHANGED <<m_folder, m_folderNotifications>>,
           UnreadCount(whole2)' = UnreadCount(whole),
           UnreadCount(whole) # 0 => UNCHANGED <<m_changes, FirstUnread, m_oldName>>,
           Recorded' = Recorded, Recorded # 0 => UNCHANGED changes,
           Junk(whole2)' \cap Names \subseteq Junk(whole),
           \A name \in Names : listed'[File(m_folder, name)] = list[name],
           lost \cap Names \subseteq LostOf(astray', m_folder),
           \A name \in Names \ LostOf(astray', m_folder) :
               Wanted(disk'[m_folder] \cap Viewable, name) = Wanted(here, name)
    PROVE  FollowedBy(whole2)'
<1>1. PICK N : N = m_folderNotifications
  OBVIOUS
<1>2. PICK n : n = Len(m_folderNotifications)
  OBVIOUS
<1>3. PICK u : u = UnreadCount(whole)
  OBVIOUS
<1>4. PICK c : c = Recorded
  OBVIOUS
<1>5. PICK U : U = UnreadEvents(m_changes, FirstUnread, u, m_oldName, m_folder)
  OBVIOUS
<1>6. PICK U2 : U2 = UnreadEvents(m_changes', FirstUnread', u, m_oldName', m_folder)
  OBVIOUS
<1>7. PICK E : E = RecordEvents(changes, c, m_folder)
  OBVIOUS
<1>8. PICK E2 : E2 = RecordEvents(changes', c, m_folder)
  OBVIOUS
<1>9. PICK folder : folder = m_folder
  OBVIOUS
<1>10. PICK junk : junk = Junk(whole)
  OBVIOUS
<1>11. PICK junk2 : junk2 = Junk(whole2)'
  OBVIOUS
<1>12. PICK lost2 : lost2 = LostOf(astray', m_folder)
  OBVIOUS
<1>13. PICK here2 : here2 = disk'[m_folder] \cap Viewable
  OBVIOUS
<1>14. PICK list2 : list2 = ListOf(listed', m_folder)
  OBVIOUS
<1>15. On(N, n, U, u, E, c, folder, list, here, lost, junk)
  BY <1>1, <1>2, <1>3, <1>4, <1>5, <1>7, <1>9, <1>10 DEF Tells
<1>16. u \in Nat /\ c \in Nat
  BY <1>15 DEF On
<1>17. \A k \in 1..u : U2[k] = U[k]
  <2>1. CASE u = 0
    BY <2>1
  <2>2. CASE u # 0
    BY <1>3, <1>5, <1>6, <2>2
  <2> QED BY <2>1, <2>2
<1>18. \A k \in 1..c : E2[k] = E[k]
  <2>1. CASE c = 0
    BY <2>1
  <2>2. CASE c # 0
    BY <1>4, <1>7, <1>8, <2>2
  <2> QED BY <2>1, <2>2
<1>19. \A name \in Names : list2[name] = list[name]
  BY <1>14 DEF ListOf
<1>20. On(N, n, U2, u, E2, c, folder, list2, here2, lost2, junk2)
  <2>1. junk2 \cap Names \subseteq junk
    BY <1>10, <1>11
  <2>2. lost \cap Names \subseteq lost2
    BY <1>12
  <2>3. \A name \in Names \ lost2 : Wanted(here2, name) = Wanted(here, name)
    BY <1>12, <1>13
  <2>4. \A i \in 1..n : N[i] = N[i]
    OBVIOUS
  <2> QED BY ONLY <1>15, <1>17, <1>18, <1>19, <2>1, <2>2, <2>3, <2>4, OnStays
<1>21. Tells(whole2, ListOf(listed, m_folder), disk[m_folder] \cap Viewable, LostOf(astray, m_folder))'
  BY <1>1, <1>2, <1>3, <1>4, <1>6, <1>8, <1>9, <1>11, <1>12, <1>13, <1>14, <1>20 DEF Tells
<1> QED BY <1>21 DEF FollowedBy

\* When every file is astray nothing is claimed.
LEMMA AllAstray ==
    ASSUME BufferInv', RecordInv', Files \subseteq astray', m_folder' \in Folders,
           NEW whole \in BOOLEAN, ~whole
    PROVE  FollowedBy(whole)'
<1>1. /\ UnreadCount(whole)' = 0 /\ Recorded' \in Nat /\ Len(m_folderNotifications') \in Nat
  <2>1. UnreadCount(whole)' = 0
    BY DEF UnreadCount
  <2>2. Recorded' \in Nat
    <3>1. changes' \in Seq(Records)
      BY DEF BufferInv
    <3>2. Len(changes') \in Nat
      BY <3>1
    <3> QED BY <3>2 DEF Recorded
  <2>3. m_folderNotifications' \in Seq(Notifications)
    BY DEF RecordInv
  <2> QED BY <2>1, <2>2, <2>3
<1>2. \A name \in Names : name \in LostOf(astray', m_folder')
  BY DEF LostOf, Files, File
<1>3. PICK U : U = UnreadEvents(m_changes, FirstUnread, UnreadCount(whole), m_oldName, m_folder)'
  OBVIOUS
<1>4. PICK E : E = RecordEvents(changes, Recorded, m_folder)'
  OBVIOUS
<1>5. PICK lost : lost = LostOf(astray', m_folder')
  OBVIOUS
<1>6. PICK junk : junk = Junk(whole)'
  OBVIOUS
<1>7. junk \cap Names \subseteq lost /\ \A name \in Names : name \in lost
  BY <1>2, <1>5
<1>8. On(m_folderNotifications', Len(m_folderNotifications'), U, 0, E, Recorded', m_folder',
         ListOf(listed', m_folder'), disk'[m_folder'] \cap Viewable, lost, junk)
  BY <1>1, <1>7, OnAfresh
<1>9. Trust(whole)'
  BY DEF Trust
<1> QED BY <1>1, <1>3, <1>4, <1>5, <1>6, <1>8, <1>9 DEF FollowedBy, Tells

\* Only the thread tells that a folder is gone, and it is.
LEMMA DeletesGone ==
    ASSUME RecordInv, m_folder \in Folders, NEW whole \in BOOLEAN,
           NEW event \in Events(m_folderNotifications, Len(m_folderNotifications),
               UnreadEvents(m_changes, FirstUnread, UnreadCount(whole), m_oldName, m_folder), UnreadCount(whole),
               RecordEvents(changes, Recorded, m_folder), Recorded),
           Deletes(event, m_folder)
    PROVE  m_folder \notin folders
<1>1. PICK U : U = UnreadEvents(m_changes, FirstUnread, UnreadCount(whole), m_oldName, m_folder)
  OBVIOUS
<1>2. PICK E : E = RecordEvents(changes, Recorded, m_folder)
  OBVIOUS
<1>3. ASSUME NEW k \in 1..UnreadCount(whole) PROVE event # U[k]
  <2>1. PICK record, old : U[k] = ToldBy(m_folder, record, old)
    BY <1>1 DEF UnreadEvents
  <2> QED BY <2>1, ToldIs
<1>4. ASSUME NEW k \in 1..Recorded PROVE event # E[k]
  <2>1. PICK record, old : E[k] = ToldBy(m_folder, record, old)
    BY <1>2 DEF RecordEvents
  <2> QED BY <2>1, ToldIs
<1>5. PICK i \in 1..Len(m_folderNotifications) : event = m_folderNotifications[i]
  BY <1>1, <1>2, <1>3, <1>4 DEF Events
<1>6. i \in DOMAIN m_folderNotifications
  BY DEF RecordInv
<1> QED BY <1>5, <1>6 DEF RecordInv, Deletes

\* The user changes files in the list: of those that events are about, and of all
\* these are about, nothing is claimed any more.
LEMMA UserAhead ==
    ASSUME BufferInv, RecordInv, m_path = m_folder, m_folder \in Folders, NEW whole \in BOOLEAN,
           FollowedBy(whole), viewer = "idle", viewer' = "idle", UNCHANGED m_folderNotifications,
           NEW lost, LostOf(astray, m_folder) \subseteq lost, LostOf(AheadOfEvents, m_folder) \subseteq lost,
           NEW touched, touched = {name \in Names : listed[File(m_folder, name)] # listed'[File(m_folder, name)]},
           NEW here, \A name \in Names \ touched :
                         Wanted(here, name) = Wanted(disk[m_folder] \cap Viewable, name),
           \A name \in touched \ lost : listed'[File(m_folder, name)] = Wanted(here, name),
           m_folder \notin folders => touched \subseteq lost
    PROVE  Tells(whole, ListOf(listed', m_folder), here, lost)
<1>1. PICK N : N = m_folderNotifications
  OBVIOUS
<1>2. PICK n : n = Len(m_folderNotifications)
  OBVIOUS
<1>3. PICK u : u = UnreadCount(whole)
  OBVIOUS
<1>4. PICK c : c = Recorded
  OBVIOUS
<1>5. PICK U : U = UnreadEvents(m_changes, FirstUnread, UnreadCount(whole), m_oldName, m_folder)
  OBVIOUS
<1>6. PICK E : E = RecordEvents(changes, Recorded, m_folder)
  OBVIOUS
<1>7. PICK folder : folder = m_folder
  OBVIOUS
<1>8. PICK junk : junk = Junk(whole)
  OBVIOUS
<1>9. PICK list : list = ListOf(listed, m_folder)
  OBVIOUS
<1>10. PICK list2 : list2 = ListOf(listed', m_folder)
  OBVIOUS
<1>11. PICK here1 : here1 = disk[m_folder] \cap Viewable
  OBVIOUS
<1>12. PICK lost1 : lost1 = LostOf(astray, m_folder)
  OBVIOUS
<1>13. On(N, n, U, u, E, c, folder, list, here1, lost1, junk)
  BY <1>1, <1>2, <1>3, <1>4, <1>5, <1>6, <1>7, <1>8, <1>9, <1>11, <1>12 DEF FollowedBy, Tells
<1>14. \A name \in Names, event \in Events(N, n, U, u, E, c) :
           Concerns(event, folder, name) => Deletes(event, folder) \/ File(m_folder, name) \in InFlight
  BY <1>1, <1>2, <1>3, <1>4, <1>5, <1>6, <1>7, InFlightCovers
<1>15. \A event \in Events(N, n, U, u, E, c) : Deletes(event, folder) => m_folder \notin folders
  BY <1>1, <1>2, <1>3, <1>4, <1>5, <1>6, <1>7, DeletesGone
<1>16. /\ \A name \in Names \ touched : list2[name] = list[name] /\ Wanted(here, name) = Wanted(here1, name)
       /\ \A name \in (touched \cap Names) \ lost : list2[name] = Wanted(here, name)
  BY <1>9, <1>10, <1>11 DEF ListOf
<1>17. lost1 \cap Names \subseteq lost
  BY <1>12
<1>18. PICK files : files = {file \in Files : listed[file] # listed'[file]}
  OBVIOUS
<1>19. \A name \in touched : File(m_folder, name) \in files
  BY <1>18 DEF Files, File
<1>20. On(N, n, U, u, E, c, folder, list2, here, lost, junk)
  <2>1. CASE files \cap InFlight = {}
    <3>1. \A name \in touched \cap Names, event \in Events(N, n, U, u, E, c) :
              Concerns(event, folder, name) => Deletes(event, folder) /\ name \in lost
      BY <1>14, <1>15, <1>19, <2>1
    <3> QED BY ONLY <1>13, <1>16, <1>17, <3>1, OnTouched
  <2>2. CASE files \cap InFlight # {}
    <3>1. AheadOfEvents = files \cup InFlight
      BY <1>18, <2>2 DEF AheadOfEvents
    <3>2. \A name \in Names : File(m_folder, name) \in files \cup InFlight => name \in lost
      BY <3>1 DEF LostOf
    <3>3. \A name \in Names \ lost : name \notin touched /\ File(m_folder, name) \notin InFlight
      BY <1>19, <3>2
    <3>4. \A name \in Names \ lost :
              /\ list2[name] = list[name] /\ Wanted(here, name) = Wanted(here1, name)
              /\ \A event \in Events(N, n, U, u, E, c) :
                     Concerns(event, folder, name) => Deletes(event, folder)
      BY <1>14, <1>16, <3>3
    <3> QED BY ONLY <1>13, <1>17, <3>4, OnForgets
  <2> QED BY <2>1, <2>2
<1> QED BY <1>1, <1>2, <1>3, <1>4, <1>5, <1>6, <1>7, <1>8, <1>10, <1>20 DEF Tells

-----------------------------------------------------------------------------
(* The disk changes: what happens is what its records tell.                *)

\* What the records tell is what happened to the disk, where it is followed.
Happens(records, here, here2, lost, lost2) ==
    /\ lost \cap Names \subseteq lost2
    /\ \/ \E name \in Names :
            /\ records = <<Record("ADDED", name)>>
            /\ \A x \in Names \ lost2 :
                   IF x = name THEN Wanted(here, x) = 0 /\ Wanted(here2, x) = Once(x)
                   ELSE Wanted(here2, x) = Wanted(here, x)
       \/ \E name \in Names :
            /\ records = <<Record("REMOVED", name)>>
            /\ \A x \in Names \ lost2 :
                   IF x = name THEN Wanted(here2, x) = 0 ELSE Wanted(here2, x) = Wanted(here, x)
       \/ \E old, new \in Names :
            /\ old # new
            /\ records = <<Record("RENAMED_OLD_NAME", old), Record("RENAMED_NEW_NAME", new)>>
            /\ \A x \in Names \ lost2 :
                   IF x = old THEN Wanted(here2, x) = 0
                   ELSE IF x = new THEN old \notin lost /\ Wanted(here2, x) = Wanted(here, x) + Wanted(here, old)
                   ELSE Wanted(here2, x) = Wanted(here, x)

\* The events of the records do not depend on what is recorded after them.
Extended(C, records, C2, E, E2, folder) ==
    /\ Len(C2) = Len(C) + Len(records) /\ Len(C) \in Nat /\ Len(records) \in Nat
    /\ \A k \in 1..Len(C) : E2[k] = E[k]
    /\ Len(records) >= 1 => \E old : E2[Len(C) + 1] = ToldBy(folder, records[1], old)
    /\ Len(records) >= 2 => E2[Len(C) + 1 + 1] = ToldBy(folder, records[2], records[1].name)

\* Records that are added at the end leave the events of the others as they are.
LEMMA RecordEventsExtend ==
    ASSUME NEW C \in Seq(Records), NEW records \in Seq(Records), NEW C2, C2 = C \o records,
           NEW folder, NEW E, E = RecordEvents(C, Len(C), folder),
           NEW E2, E2 = RecordEvents(C2, Len(C2), folder)
    PROVE  Extended(C, records, C2, E, E2, folder)
<1>1. PICK l \in Nat : l = Len(C)
  OBVIOUS
<1>2. PICK m \in Nat : m = Len(records)
  OBVIOUS
<1>3. Len(C2) = l + m /\ \A i \in 1..(l + m) : C2[i] = IF i <= l THEN C[i] ELSE records[i - l]
  BY <1>1, <1>2, ConcatProperties
<1>4. \A k \in 1..l : E2[k] = E[k]
  <2>1. ASSUME NEW k \in 1..l PROVE E2[k] = E[k]
    <3>1. C2[k] = C[k] /\ (k # 1 => C2[k - 1] = C[k - 1]) /\ k \in 1..(l + m)
      <4>1. k \in 1..(l + m) /\ k <= l /\ (k # 1 => k - 1 \in 1..(l + m) /\ k - 1 <= l)
        OBVIOUS
      <4> QED BY <1>3, <4>1
    <3>2. E[k] = ToldBy(folder, C[k], IF k = 1 THEN NoName ELSE C[k - 1].name)
      BY <1>1 DEF RecordEvents
    <3>3. E2[k] = ToldBy(folder, C2[k], IF k = 1 THEN NoName ELSE C2[k - 1].name)
      BY <1>3, <3>1 DEF RecordEvents
    <3> QED BY <3>1, <3>2, <3>3
  <2> QED BY <2>1
<1>5. ASSUME m >= 1 PROVE \E old : E2[l + 1] = ToldBy(folder, records[1], old)
  <2>1. l + 1 \in 1..(l + m) /\ ~(l + 1 <= l) /\ (l + 1) - l = 1
    BY <1>5
  <2>2. C2[l + 1] = records[1]
    BY <1>3, <2>1
  <2>3. PICK old : old = IF l + 1 = 1 THEN NoName ELSE C2[l + 1 - 1].name
    OBVIOUS
  <2>4. E2[l + 1] = ToldBy(folder, C2[l + 1], old)
    BY <1>3, <2>1, <2>3 DEF RecordEvents
  <2> QED BY <2>2, <2>4
<1>6. ASSUME m >= 2 PROVE E2[l + 1 + 1] = ToldBy(folder, records[2], records[1].name)
  <2>1. PICK i : i = l + 1 + 1
    OBVIOUS
  <2>2. /\ i \in 1..(l + m) /\ i - 1 \in 1..(l + m) /\ ~(i <= l) /\ ~(i - 1 <= l)
        /\ i - l = 2 /\ (i - 1) - l = 1 /\ i # 1
    BY <1>6, <2>1
  <2>3. C2[i] = records[2] /\ C2[i - 1] = records[1]
    BY <1>3, <2>2
  <2>4. E2[i] = ToldBy(folder, C2[i], IF i = 1 THEN NoName ELSE C2[i - 1].name)
    BY <1>3, <2>2 DEF RecordEvents
  <2> QED BY <2>1, <2>2, <2>3, <2>4
<1> QED BY <1>1, <1>2, <1>3, <1>4, <1>5, <1>6 DEF Extended

\* What happens to the disk is recorded.
LEMMA OnHappens ==
    ASSUME NEW N, NEW n, NEW U, NEW u, NEW C \in Seq(Records), NEW E,
           NEW folder, NEW list, NEW here, NEW lost, NEW junk,
           E = RecordEvents(C, Len(C), folder),
           On(N, n, U, u, E, Len(C), folder, list, here, lost, junk),
           NEW records \in Seq(Records), NEW here2, NEW lost2, Happens(records, here, here2, lost, lost2),
           NEW C2, C2 = C \o records, NEW E2, E2 = RecordEvents(C2, Len(C2), folder)
    PROVE  On(N, n, U, u, E2, Len(C2), folder, list, here2, lost2, junk)
<1>1. PICK c : c = Len(C)
  OBVIOUS
<1>2. On(N, n, U, u, E, c, folder, list, here, lost, junk)
  BY <1>1
<1>3. /\ Len(C2) = c + Len(records) /\ \A k \in 1..c : E2[k] = E[k]
      /\ Len(records) >= 1 => \E old : E2[c + 1] = ToldBy(folder, records[1], old)
      /\ Len(records) >= 2 => E2[c + 1 + 1] = ToldBy(folder, records[2], records[1].name)
  <2>1. Extended(C, records, C2, E, E2, folder)
    BY RecordEventsExtend
  <2> QED BY <1>1, <2>1 DEF Extended
<1>4. lost \cap Names \subseteq lost2
  BY DEF Happens
<1>5. NoName \notin Names
  BY MonitorAssumption
<1>6. ASSUME NEW name \in Names, records = <<Record("ADDED", name)>>,
             \A x \in Names \ lost2 :
                 IF x = name THEN Wanted(here, x) = 0 /\ Wanted(here2, x) = Once(x)
                 ELSE Wanted(here2, x) = Wanted(here, x)
      PROVE  On(N, n, U, u, E2, Len(C2), folder, list, here2, lost2, junk)
  <2>1. PICK record : record = Record("ADDED", name)
    OBVIOUS
  <2>2. Len(records) = 1 /\ records[1] = record /\ record.action = "ADDED" /\ record.name = name
    BY <1>6, <2>1 DEF Record
  <2>3. PICK old : E2[c + 1] = ToldBy(folder, record, old)
    BY <1>3, <2>2
  <2>4. PICK event : event = E2[c + 1]
    OBVIOUS
  <2>5. /\ ~Deletes(event, folder) /\ event.type = "FileAdded"
        /\ event.name = name /\ event.previous = NoName
        /\ \A x \in Names : Concerns(event, folder, x) <=> x = name
    BY <1>5, <2>2, <2>3, <2>4, ToldIs DEF Concerns
  <2>6. \A x \in Names \ lost2 :
           IF ~Concerns(event, folder, x) THEN Wanted(here2, x) = Wanted(here, x)
           ELSE /\ event.type = "FileAdded" => Wanted(here, x) = 0 /\ Wanted(here2, x) = Once(x)
                /\ event.type = "FileRemoved" => Wanted(here2, x) = 0
                /\ event.type = "FileRenamed" =>
                      /\ event.name # event.previous
                      /\ x = event.previous => Wanted(here2, x) = 0
                      /\ x # event.previous =>
                            /\ event.previous \in Names \ lost
                            /\ Wanted(here2, x) = Wanted(here, x) + Wanted(here, event.previous)
    BY <1>6, <2>5
  <2>7. On(N, n, U, u, E2, c + 1, folder, list, here2, lost2, junk)
    BY ONLY <1>2, <1>3, <1>4, <2>4, <2>5, <2>6, OnRecords
  <2> QED BY <1>3, <2>2, <2>7
<1>7. ASSUME NEW name \in Names, records = <<Record("REMOVED", name)>>,
             \A x \in Names \ lost2 :
                 IF x = name THEN Wanted(here2, x) = 0 ELSE Wanted(here2, x) = Wanted(here, x)
      PROVE  On(N, n, U, u, E2, Len(C2), folder, list, here2, lost2, junk)
  <2>1. PICK record : record = Record("REMOVED", name)
    OBVIOUS
  <2>2. Len(records) = 1 /\ records[1] = record /\ record.action = "REMOVED" /\ record.name = name
    BY <1>7, <2>1 DEF Record
  <2>3. PICK old : E2[c + 1] = ToldBy(folder, record, old)
    BY <1>3, <2>2
  <2>4. PICK event : event = E2[c + 1]
    OBVIOUS
  <2>5. /\ ~Deletes(event, folder) /\ event.type = "FileRemoved"
        /\ event.name = name /\ event.previous = NoName
        /\ \A x \in Names : Concerns(event, folder, x) <=> x = name
    BY <1>5, <2>2, <2>3, <2>4, ToldIs DEF Concerns
  <2>6. \A x \in Names \ lost2 :
           IF ~Concerns(event, folder, x) THEN Wanted(here2, x) = Wanted(here, x)
           ELSE /\ event.type = "FileAdded" => Wanted(here, x) = 0 /\ Wanted(here2, x) = Once(x)
                /\ event.type = "FileRemoved" => Wanted(here2, x) = 0
                /\ event.type = "FileRenamed" =>
                      /\ event.name # event.previous
                      /\ x = event.previous => Wanted(here2, x) = 0
                      /\ x # event.previous =>
                            /\ event.previous \in Names \ lost
                            /\ Wanted(here2, x) = Wanted(here, x) + Wanted(here, event.previous)
    BY <1>7, <2>5
  <2>7. On(N, n, U, u, E2, c + 1, folder, list, here2, lost2, junk)
    BY ONLY <1>2, <1>3, <1>4, <2>4, <2>5, <2>6, OnRecords
  <2> QED BY <1>3, <2>2, <2>7
<1>8. ASSUME NEW old \in Names, NEW new \in Names, old # new,
             records = <<Record("RENAMED_OLD_NAME", old), Record("RENAMED_NEW_NAME", new)>>,
             \A x \in Names \ lost2 :
                 IF x = old THEN Wanted(here2, x) = 0
                 ELSE IF x = new THEN old \notin lost /\ Wanted(here2, x) = Wanted(here, x) + Wanted(here, old)
                 ELSE Wanted(here2, x) = Wanted(here, x)
      PROVE  On(N, n, U, u, E2, Len(C2), folder, list, here2, lost2, junk)
  <2>1. PICK first : first = Record("RENAMED_OLD_NAME", old)
    OBVIOUS
  <2>2. PICK second : second = Record("RENAMED_NEW_NAME", new)
    OBVIOUS
  <2>3. /\ Len(records) = 2 /\ records[1] = first /\ records[2] = second
        /\ first.action = "RENAMED_OLD_NAME" /\ first.name = old
        /\ Renames(second) /\ second.name = new
    BY <1>8, <2>1, <2>2 DEF Record, Renames
  <2>4. PICK any : E2[c + 1] = ToldBy(folder, first, any)
    BY <1>3, <2>3
  <2>5. PICK blank : blank = E2[c + 1]
    OBVIOUS
  <2>6. ~Deletes(blank, folder) /\ \A x \in Names : ~Concerns(blank, folder, x)
    BY <2>3, <2>4, <2>5, ToldIs
  <2>7. On(N, n, U, u, E2, c + 1, folder, list, here, lost, junk)
    <3>1. lost \cap Names \subseteq lost
      OBVIOUS
    <3>2. \A x \in Names \ lost :
           IF ~Concerns(blank, folder, x) THEN Wanted(here, x) = Wanted(here, x)
           ELSE /\ blank.type = "FileAdded" => Wanted(here, x) = 0 /\ Wanted(here, x) = Once(x)
                /\ blank.type = "FileRemoved" => Wanted(here, x) = 0
                /\ blank.type = "FileRenamed" =>
                      /\ blank.name # blank.previous
                      /\ x = blank.previous => Wanted(here, x) = 0
                      /\ x # blank.previous =>
                            /\ blank.previous \in Names \ lost
                            /\ Wanted(here, x) = Wanted(here, x) + Wanted(here, blank.previous)
      BY <2>6
    <3> QED BY ONLY <1>2, <1>3, <2>5, <2>6, <3>1, <3>2, OnRecords
  <2>8. PICK event : event = E2[c + 1 + 1]
    OBVIOUS
  <2>9. event = ToldBy(folder, second, old)
    BY <1>3, <2>3, <2>8
  <2>10. /\ ~Deletes(event, folder) /\ event.type = "FileRenamed"
         /\ event.name = new /\ event.previous = old
         /\ \A x \in Names : Concerns(event, folder, x) <=> x = new \/ x = old
    BY <2>3, <2>9, ToldIs DEF Concerns
  <2>11. \A x \in Names \ lost2 :
           IF ~Concerns(event, folder, x) THEN Wanted(here2, x) = Wanted(here, x)
           ELSE /\ event.type = "FileAdded" => Wanted(here, x) = 0 /\ Wanted(here2, x) = Once(x)
                /\ event.type = "FileRemoved" => Wanted(here2, x) = 0
                /\ event.type = "FileRenamed" =>
                      /\ event.name # event.previous
                      /\ x = event.previous => Wanted(here2, x) = 0
                      /\ x # event.previous =>
                            /\ event.previous \in Names \ lost
                            /\ Wanted(here2, x) = Wanted(here, x) + Wanted(here, event.previous)
    BY <1>8, <2>10
  <2>12. PICK d : d = c + 1
    OBVIOUS
  <2>13. On(N, n, U, u, E2, d + 1, folder, list, here2, lost2, junk)
    <3>1. On(N, n, U, u, E2, d, folder, list, here, lost, junk) /\ event = E2[d + 1]
      BY <2>7, <2>8, <2>12
    <3>2. \A k \in 1..d : E2[k] = E2[k]
      OBVIOUS
    <3> QED BY ONLY <1>4, <2>10, <2>11, <3>1, <3>2, OnRecords
  <2>14. Len(C2) = d + 1
    <3>1. c \in Nat
      BY <1>1
    <3> QED BY <1>3, <2>3, <2>12, <3>1
  <2> QED BY <2>13, <2>14
<1> QED BY <1>6, <1>7, <1>8 DEF Happens

-----------------------------------------------------------------------------
(* A change of the shown folder, reported or not.                          *)

\* A read is completed: into a buffer of which nothing is left, or else all that it
\* held and all that it holds now goes astray.
LEMMA CompletedTells ==
    ASSUME BufferInv, BufferInv', RecordInv, m_path = m_folder, m_folder \in Folders,
           UNCHANGED <<m_folder, m_folderNotifications, m_oldName>>,
           NEW records \in Seq(Records), records # Overflow, records # <<>>, Paired(records),
           Complete(records), changes' = <<>>,
           Reading, Reading', Processing' <=> Processing, FirstUnread' = FirstUnread,
           Overwritten \subseteq astray',
           NEW whole \in BOOLEAN, Trust(whole), NEW list, NEW here, NEW lost,
           NEW E, E = RecordEvents(records, Len(records), m_folder),
           On(m_folderNotifications, Len(m_folderNotifications),
              UnreadEvents(m_changes, FirstUnread, UnreadCount(whole), m_oldName, m_folder), UnreadCount(whole),
              E, Len(records), m_folder, list, here, lost, Junk(whole)),
           \A name \in Names : listed'[File(m_folder, name)] = list[name],
           here = disk'[m_folder] \cap Viewable,
           lost \cap Names \subseteq LostOf(astray', m_folder)
    PROVE  \E w \in BOOLEAN : FollowedBy(w)'
<1>1. PICK N : N = m_folderNotifications
  OBVIOUS
<1>2. PICK n : n = Len(m_folderNotifications)
  OBVIOUS
<1>3. PICK u : u = UnreadCount(whole)
  OBVIOUS
<1>4. PICK c : c = Len(records)
  OBVIOUS
<1>5. PICK U : U = UnreadEvents(m_changes, FirstUnread, UnreadCount(whole), m_oldName, m_folder)
  OBVIOUS
<1>6. PICK folder : folder = m_folder
  OBVIOUS
<1>7. PICK junk : junk = Junk(whole)
  OBVIOUS
<1>8. PICK lost2 : lost2 = LostOf(astray', m_folder)
  OBVIOUS
<1>9. PICK list2 : list2 = ListOf(listed', m_folder)
  OBVIOUS
<1>10. On(N, n, U, u, E, c, folder, list2, here, lost2, junk)
  <2>1. On(N, n, U, u, E, c, folder, list, here, lost, junk)
    BY <1>1, <1>2, <1>3, <1>4, <1>5, <1>6, <1>7
  <2>2. lost \cap Names \subseteq lost2
    BY <1>8
  <2>3. \A name \in Names : list2[name] = list[name]
    BY <1>9 DEF ListOf
  <2>4. /\ \A i \in 1..n : N[i] = N[i]
        /\ \A k \in 1..u : U[k] = U[k]
        /\ \A k \in 1..c : E[k] = E[k]
        /\ \A name \in Names \ lost2 : Wanted(here, name) = Wanted(here, name)
        /\ junk \cap Names \subseteq junk
    OBVIOUS
  <2> QED BY ONLY <2>1, <2>2, <2>3, <2>4, OnStays
<1>11. /\ packets' = Append(packets, "changes")
       /\ m_changes' \in Seq(Records) /\ Len(m_changes') >= Len(records)
       /\ ~Processing => Len(m_changes') = Len(records)
       /\ \A k \in 1..Len(records) : /\ m_changes'[k].action = records[k].action
                                     /\ m_changes'[k].name = records[k].name
                                     /\ m_changes'[k].more = (k < Len(records))
  BY CompleteIs
<1>12. packets \in Seq({"changes", "empty"}) /\ m_changes \in Seq(Records) /\ c \in Nat
  BY <1>4 DEF BufferInv
<1>13. /\ Len(packets') = Len(packets) + 1 /\ Len(packets) \in Nat
       /\ DOMAIN packets' = 1..Len(packets) + 1 /\ DOMAIN packets = 1..Len(packets)
       /\ packets'[Len(packets) + 1] = "changes"
       /\ \A k \in 1..Len(packets) : packets'[k] = packets[k]
  BY <1>11, <1>12
<1>14. Recorded' = 0
  BY DEF Recorded
<1>15. CASE ~Filled
  <2>1. ~Processing /\ ~Processing' /\ ~Fetched
    BY <1>15 DEF Filled
  <2>2. PICK w \in BOOLEAN : w
    OBVIOUS
  <2>3. Fetched' /\ Filled'
    BY <1>13 DEF Fetched, Filled
  <2>4. FirstUnread' = 1
    BY <2>1 DEF FirstUnread, Processing
  <2>5. Len(m_changes') = c /\ DOMAIN m_changes' = 1..c
    BY <1>4, <1>11, <2>1
  <2>6. Trust(w)'
    <3>1. ASSUME NEW j \in DOMAIN packets', packets'[j] = "changes"
          PROVE  j = Len(packets) + 1
      BY <1>13, <2>1, <3>1 DEF Fetched
    <3>2. \A k \in DOMAIN m_changes' : m_changes'[k].more <=> k < Len(m_changes')
      BY <1>4, <1>11, <2>5
    <3> QED BY <2>1, <3>1, <3>2 DEF Trust
  <2>7. UnreadCount(w)' = c
    BY <1>12, <2>2, <2>3, <2>4, <2>5 DEF UnreadCount
  <2>8. Junk(w)' = {}
    BY <2>2 DEF Junk
  <2>9. u = 0
    BY <1>3, <1>15 DEF UnreadCount
  <2>10. PICK U2 : U2 = UnreadEvents(m_changes', FirstUnread', UnreadCount(w)', m_oldName', m_folder)
    OBVIOUS
  <2>11. \A k \in 1..c : U2[k] = E[k]
    <3>1. ASSUME NEW k \in 1..c PROVE U2[k] = E[k]
      <4>1. PICK old : old = IF k = 1 THEN m_oldName' ELSE m_changes'[FirstUnread' + k - 2].name
        OBVIOUS
      <4>2. PICK old2 : old2 = IF k = 1 THEN NoName ELSE records[k - 1].name
        OBVIOUS
      <4>3. FirstUnread' + k - 1 = k /\ (k # 1 => FirstUnread' + k - 2 = k - 1 /\ k - 1 \in 1..c)
        BY <1>12, <2>4
      <4>4. U2[k] = ToldBy(m_folder, m_changes'[k], old)
        BY <2>7, <2>10, <4>1, <4>3 DEF UnreadEvents
      <4>5. E[k] = ToldBy(m_folder, records[k], old2)
        BY <1>4, <4>2 DEF RecordEvents
      <4>6. m_changes'[k].action = records[k].action /\ m_changes'[k].name = records[k].name
        BY <1>4, <1>11
      <4>7. Renames(m_changes'[k]) => old = old2
        <5>1. Renames(m_changes'[k]) => k # 1
          <6>1. Renames(m_changes'[k]) => Renames(records[k])
            BY <4>6 DEF Renames
          <6>2. k \in DOMAIN records
            BY <1>4
          <6>3. Renames(records[k]) => k > 1
            BY <6>2 DEF Paired
          <6> QED BY <6>1, <6>3
        <5>2. k # 1 => m_changes'[k - 1].name = records[k - 1].name
          BY <1>4, <1>11, <4>3
        <5> QED BY <4>1, <4>2, <4>3, <5>1, <5>2
      <4> QED BY <4>4, <4>5, <4>6, <4>7, ToldAlike
    <3> QED BY <3>1
  <2>12. PICK E2 : E2 = RecordEvents(changes', Recorded', m_folder')
    OBVIOUS
  <2>13. On(N, n, U2, c, E2, 0, folder, list2, here, lost2, {})
    <3>1. lost2 \cap Names \subseteq lost2 /\ {} \cap Names \subseteq junk
      OBVIOUS
    <3>2. On(N, n, U, 0, E, c, folder, list2, here, lost2, junk)
      BY <1>10, <2>9
    <3> QED BY ONLY <2>11, <3>1, <3>2, OnFetches
  <2>14. Tells(w, ListOf(listed, m_folder), disk[m_folder] \cap Viewable, LostOf(astray, m_folder))'
    BY <1>1, <1>2, <1>6, <1>8, <1>9, <1>14, <2>7, <2>8, <2>10, <2>12, <2>13 DEF Tells
  <2> QED BY <2>6, <2>14 DEF FollowedBy
<1>16. CASE Filled
  <2>1. Unread = m_changes /\ Unread # <<>>
    <3>1. Fetched => packets # <<>> /\ m_changes # <<>>
      BY <1>12 DEF Fetched, BufferInv
    <3>2. Processing => m_changes # <<>>
      BY <1>12 DEF BufferInv, StaysInBuffer
    <3> QED BY <1>16, <3>1, <3>2 DEF Filled, Unread
  <2>2. FilesOf(Unread) \cup FilesOf(m_changes') \cup RenamedFrom \subseteq astray'
    BY <1>13, <2>1 DEF Overwritten
  <2>3. PICK w \in BOOLEAN : ~w
    OBVIOUS
  <2>4. Trust(w)'
    BY <2>3 DEF Trust
  <2>5. UnreadCount(w)' = 0
    BY <2>3 DEF UnreadCount
  <2>6. PICK U2 : U2 = UnreadEvents(m_changes', FirstUnread', UnreadCount(w)', m_oldName', m_folder')
    OBVIOUS
  <2>7. PICK E2 : E2 = RecordEvents(changes', Recorded', m_folder')
    OBVIOUS
  <2>8. PICK junk2 : junk2 = Junk(w)'
    OBVIOUS
  <2>9. \A k \in DOMAIN m_changes', name \in Names :
            name = m_changes'[k].name => File(m_folder, name) \in astray'
    BY <2>2 DEF FilesOf, Files, File
  <2>10. junk2 \cap Names \subseteq lost2
    <3>1. ASSUME NEW name \in Names, name \in junk2 PROVE File(m_folder, name) \in astray'
      <4>1. CASE \E k \in DOMAIN m_changes' : name = m_changes'[k].name
        BY <2>9, <4>1
      <4>2. CASE OldNext' /\ name = m_oldName'
        BY <2>2, <4>2 DEF OldNext, RenamedFrom, Files, File
      <4> QED BY <2>8, <3>1, <4>1, <4>2 DEF Junk
    <3> QED BY <1>8, <3>1 DEF LostOf
  <2>11. ASSUME NEW name \in Names \ lost2
         PROVE  (\A k \in 1..u : ~Concerns(U[k], folder, name)) /\ (\A k \in 1..c : ~Concerns(E[k], folder, name))
    <3>1. File(m_folder, name) \notin astray'
      BY <1>8 DEF LostOf
    <3>2. ASSUME NEW k \in 1..u, Concerns(U[k], folder, name) PROVE FALSE
      <4>1. File(m_folder, name) \in FilesOf(Unread) \cup RenamedFrom
        BY <1>3, <1>5, <1>6, <3>2, UnreadCovered
      <4> QED BY <2>2, <3>1, <4>1
    <3>3. ASSUME NEW k \in 1..c, Concerns(E[k], folder, name) PROVE FALSE
      <4>1. PICK j \in DOMAIN records : name = records[j].name
        BY <1>4, <1>6, <3>3, RecordsCovered
      <4>2. j \in DOMAIN m_changes' /\ name = m_changes'[j].name
        BY <1>11, <4>1
      <4> QED BY <2>9, <3>1, <4>2
    <3> QED BY <3>2, <3>3
  <2>12. On(N, n, U2, 0, E2, 0, folder, list2, here, lost2, junk2)
    <3>1. lost2 \cap Names \subseteq lost2
      OBVIOUS
    <3>2. \A name \in Names \ lost2 : /\ \A k \in 1..u : ~Concerns(U[k], folder, name)
                                      /\ \A k \in 1..c : ~Concerns(E[k], folder, name)
                                      /\ Wanted(here, name) = Wanted(here, name)
      BY <2>11
    <3> QED BY ONLY <1>10, <2>10, <3>1, <3>2, OnLoses
  <2>13. Tells(w, ListOf(listed, m_folder), disk[m_folder] \cap Viewable, LostOf(astray, m_folder))'
    BY <1>1, <1>2, <1>6, <1>8, <1>9, <1>14, <2>5, <2>6, <2>7, <2>8, <2>12 DEF Tells
  <2> QED BY <2>4, <2>13 DEF FollowedBy
<1> QED BY <1>15, <1>16

\* A change of the shown folder is reported, or everything goes astray, or nobody reads it.
LEMMA ReportedTells ==
    ASSUME BufferInv, BufferInv', RecordInv, RecordInv', Monitored, m_folder \in Folders, m_folder \in folders,
           UNCHANGED <<m_folder, threadVars, handleVars, m_folderNotifications>>,
           NEW records \in Seq(Records), records # Overflow, records # <<>>, Paired(records),
           Report(m_folder, records),
           Untold \subseteq astray', Overwritten \subseteq astray', Dropped \subseteq astray',
           NEW whole \in BOOLEAN, Trust(whole), NEW here, NEW lost,
           Tells(whole, ListOf(listed', m_folder), here, lost),
           Happens(records, here, disk'[m_folder] \cap Viewable, lost, LostOf(astray', m_folder)),
           \A name \in Names : File(m_folder, name) \notin Touched(m_folder) =>
               Wanted(disk'[m_folder] \cap Viewable, name) = Wanted(here, name)
    PROVE  \E w \in BOOLEAN : FollowedBy(w)'
<1>0. PICK list : list = ListOf(listed', m_folder)
  OBVIOUS
<1>1. PICK here2 : here2 = disk'[m_folder] \cap Viewable
  OBVIOUS
<1>2. PICK lost2 : lost2 = LostOf(astray', m_folder)
  OBVIOUS
<1>3. PICK N : N = m_folderNotifications
  OBVIOUS
<1>4. PICK n : n = Len(m_folderNotifications)
  OBVIOUS
<1>5. PICK u : u = UnreadCount(whole)
  OBVIOUS
<1>6. PICK U : U = UnreadEvents(m_changes, FirstUnread, UnreadCount(whole), m_oldName, m_folder)
  OBVIOUS
<1>7. PICK folder : folder = m_folder
  OBVIOUS
<1>8. PICK junk : junk = Junk(whole)
  OBVIOUS
<1>9. changes \in Seq(Records) /\ Len(changes) \in Nat /\ changes \o records \in Seq(Records)
  BY DEF BufferInv
<1>10. m_path = m_folder
  BY DEF Monitored
<1>11. lost \cap Names \subseteq lost2
  BY <1>2 DEF Happens
<1>12. \A name \in Names : listed'[File(m_folder, name)] = list[name]
  BY <1>0 DEF ListOf
<1>13. Processing' = Processing /\ FirstUnread' = FirstUnread
  BY DEF Processing, FirstUnread, threadVars
<1>14. CASE Reported(m_folder)
  <2>1. Reading /\ Reading'
    BY <1>14 DEF Reported, Reading, Monitored, threadVars
  <2>2. ASSUME changes # Overflow
        PROVE  \E both, E2 : /\ both = changes \o records /\ E2 = RecordEvents(both, Len(both), folder)
                             /\ On(N, n, U, u, E2, Len(both), folder, list, here2, lost2, junk)
    <3>1. PICK E : E = RecordEvents(changes, Recorded, folder)
      OBVIOUS
    <3>2. Recorded = Len(changes)
      BY <2>1, <2>2 DEF Recorded
    <3>3. PICK C \in Seq(Records) : C = changes
      BY <1>9
    <3>4. On(N, n, U, u, E, Len(C), folder, list, here, lost, junk) /\ E = RecordEvents(C, Len(C), folder)
      BY <1>0, <1>3, <1>4, <1>5, <1>6, <1>7, <1>8, <3>1, <3>2, <3>3 DEF Tells
    <3>5. Happens(records, here, here2, lost, lost2)
      BY <1>1, <1>2
    <3>6. PICK both : both = C \o records
      OBVIOUS
    <3>7. PICK E2 : E2 = RecordEvents(both, Len(both), folder)
      OBVIOUS
    <3>8. records \in Seq(Records)
      OBVIOUS
    <3>9. On(N, n, U, u, E2, Len(both), folder, list, here2, lost2, junk)
      BY ONLY <3>3, <3>4, <3>5, <3>6, <3>7, <3>8, OnHappens
    <3> QED BY <3>3, <3>6, <3>7, <3>9
  <2>3. CASE reads > 0
    <3>1. changes = <<>> /\ changes' = <<>> /\ Complete(records)
      BY <1>14, <2>3 DEF Report, Monitored
    <3>2. changes # Overflow /\ changes \o records = records
      BY <3>1 DEF Overflow
    <3>3. PICK E2 : /\ E2 = RecordEvents(records, Len(records), folder)
                    /\ On(N, n, U, u, E2, Len(records), folder, list, here2, lost2, junk)
      BY <2>2, <3>2
    <3>4. UNCHANGED <<m_folder, m_folderNotifications, m_oldName>>
      BY DEF threadVars
    <3>5. On(m_folderNotifications, Len(m_folderNotifications),
              UnreadEvents(m_changes, FirstUnread, UnreadCount(whole), m_oldName, m_folder), UnreadCount(whole),
              E2, Len(records), m_folder, list, here2, lost2, Junk(whole))
      BY <1>3, <1>4, <1>5, <1>6, <1>7, <1>8, <3>3
    <3>6. lost2 \cap Names \subseteq LostOf(astray', m_folder)
      BY <1>2
    <3>7. E2 = RecordEvents(records, Len(records), m_folder)
      BY <1>7, <3>3
    <3> QED BY <1>1, <1>10, <1>12, <1>13, <2>1, <3>1, <3>4, <3>5, <3>6, <3>7, CompletedTells
  <2>4. CASE reads = 0 /\ changes' = Overflow
    <3>1. Files \subseteq astray'
      BY <2>4 DEF Dropped
    <3>2. PICK w \in BOOLEAN : ~w
      OBVIOUS
    <3>3. m_folder' \in Folders
      OBVIOUS
    <3>4. FollowedBy(w)'
      BY <3>1, <3>2, <3>3, AllAstray
    <3> QED BY <3>4
  <2>5. CASE reads = 0 /\ changes' # Overflow
    <3>1. changes' = changes \o records /\ changes # Overflow /\ UNCHANGED <<packets, m_changes>>
      BY <1>14, <2>5 DEF Report, Overflows
    <3>2. PICK E2 : /\ E2 = RecordEvents(changes', Len(changes'), folder)
                    /\ On(N, n, U, u, E2, Len(changes'), folder, list, here2, lost2, junk)
      BY <2>2, <3>1
    <3>3. Recorded' = Len(changes')
      BY <2>1, <2>5 DEF Recorded
    <3>4. Fetched' = Fetched /\ Filled' = Filled
      BY <1>13, <3>1 DEF Fetched, Filled
    <3>5. Trust(whole)'
      BY <1>13, <2>1, <3>1, <3>4 DEF Trust
    <3>6. UnreadCount(whole)' = UnreadCount(whole)
      BY <1>13, <2>1, <3>1, <3>4 DEF UnreadCount
    <3>7. Junk(whole)' = Junk(whole)
      <4>1. OldNext' = OldNext /\ m_oldName' = m_oldName
        BY <1>13, <3>1 DEF OldNext, threadVars
      <4> QED BY <2>1, <3>1, <4>1 DEF Junk
    <3>8. UnreadEvents(m_changes, FirstUnread, UnreadCount(whole), m_oldName, m_folder)' = U
      BY <1>6, <1>13, <3>1, <3>6 DEF threadVars
    <3>9. Tells(whole, ListOf(listed, m_folder), disk[m_folder] \cap Viewable, LostOf(astray, m_folder))'
      BY <1>0, <1>1, <1>2, <1>3, <1>4, <1>5, <1>7, <1>8, <3>2, <3>3, <3>6, <3>7, <3>8 DEF Tells
    <3>10. FollowedBy(whole)'
      BY <3>5, <3>9 DEF FollowedBy
    <3> QED BY <3>10
  <2> QED BY <2>3, <2>4, <2>5 DEF Monitored
<1>15. CASE ~Reported(m_folder)
  <2>1. UNCHANGED kernelVars
    BY <1>15 DEF Report
  <2>2. Touched(m_folder) \subseteq astray'
    BY <1>15 DEF Untold
  <2>3. Reading' = Reading /\ Fetched' = Fetched /\ Filled' = Filled
    BY <1>13, <2>1 DEF Fetched, Filled, Reading, kernelVars, threadVars
  <2>4. Trust(whole)'
    BY <1>13, <2>1, <2>3 DEF Trust, kernelVars
  <2>5. UnreadCount(whole)' = UnreadCount(whole)
    BY <1>13, <2>1, <2>3 DEF UnreadCount, kernelVars
  <2>6. UNCHANGED <<m_changes, FirstUnread, m_oldName>>
    BY <1>13, <2>1 DEF kernelVars, threadVars
  <2>7. Recorded' = Recorded /\ UNCHANGED changes
    BY <2>1, <2>3 DEF Recorded, kernelVars
  <2>8. Junk(whole)' = Junk(whole)
    <3>1. OldNext' = OldNext
      BY <1>13, <2>6 DEF OldNext, threadVars
    <3> QED BY <2>3, <2>6, <3>1 DEF Junk
  <2>9. \A name \in Names \ LostOf(astray', m_folder) :
            Wanted(disk'[m_folder] \cap Viewable, name) = Wanted(here, name)
    BY <2>2 DEF LostOf
  <2>10. lost \cap Names \subseteq LostOf(astray', m_folder)
    BY <1>2, <1>11
  <2>11. Tells(whole, list, here, lost)
    BY <1>0
  <2>12. UNCHANGED <<m_folder, m_folderNotifications>>
    OBVIOUS
  <2>13. FollowedBy(whole)'
    BY <1>12, <2>4, <2>5, <2>6, <2>7, <2>8, <2>9, <2>10, <2>11, <2>12, TellsStays
  <2> QED BY <2>13
<1> QED BY <1>14, <1>15

-----------------------------------------------------------------------------
(* Changes by others.                                                      *)

\* What the rest of the proof stands on.
Base == BufferInv /\ DiskInv /\ Monitored /\ RecordInv /\ ListInv

\* A step that reads nothing, sends nothing and is told nothing.
LEMMA LeavesTold ==
    ASSUME Reading' = Reading, Processing' = Processing, FirstUnread' = FirstUnread, OldNext' = OldNext,
           UNCHANGED <<m_folder, m_folderNotifications, packets, m_changes, changes, m_oldName>>,
           NEW whole \in BOOLEAN, Trust(whole), NEW list, NEW here, NEW lost, Tells(whole, list, here, lost),
           \A name \in Names : listed'[File(m_folder, name)] = list[name],
           lost \cap Names \subseteq LostOf(astray', m_folder),
           \A name \in Names \ LostOf(astray', m_folder) :
               Wanted(disk'[m_folder] \cap Viewable, name) = Wanted(here, name)
    PROVE  FollowedBy(whole)'
<1>1. Fetched' = Fetched /\ Filled' = Filled
  BY DEF Fetched, Filled
<1>2. Trust(whole)'
  BY <1>1 DEF Trust
<1>3. UnreadCount(whole)' = UnreadCount(whole)
  BY <1>1 DEF UnreadCount
<1>4. Recorded' = Recorded
  BY DEF Recorded
<1>5. Junk(whole)' = Junk(whole)
  BY DEF Junk
<1>6. Junk(whole)' \cap Names \subseteq Junk(whole)
  BY <1>5
<1>7. UNCHANGED <<m_folder, m_folderNotifications>> /\ UNCHANGED <<m_changes, FirstUnread, m_oldName>>
      /\ UNCHANGED changes
  OBVIOUS
<1> QED BY <1>2, <1>3, <1>4, <1>6, <1>7, TellsStays

\* What changes in the disk is what becomes of it, wherever it is followed.
LEMMA DiskHappens ==
    ASSUME DiskInv, NEW folder \in Folders, NEW lost, NEW lost2, lost \cap Names \subseteq lost2,
           NEW here, NEW here2, here = disk[folder] \cap Viewable, here2 = disk'[folder] \cap Viewable
    PROVE  /\ \A name \in Names : AddFile(folder, name) =>
                  Happens(<<Record("ADDED", name)>>, here, here2, lost, lost2)
           /\ \A name \in Names : RemoveFile(folder, name) =>
                  Happens(<<Record("REMOVED", name)>>, here, here2, lost, lost2)
           /\ \A old, new \in Names :
                  RenameFile(folder, old, new)
                    /\ (new \notin lost2 => old \notin lost /\ (old \in Viewable <=> new \in Viewable)) =>
                  Happens(<<Record("RENAMED_OLD_NAME", old), Record("RENAMED_NEW_NAME", new)>>,
                          here, here2, lost, lost2)
<1>1. disk \in [Folders -> SUBSET Names]
  BY DEF DiskInv
<1>2. ASSUME NEW name \in Names, AddFile(folder, name)
      PROVE  Happens(<<Record("ADDED", name)>>, here, here2, lost, lost2)
  <2>1. disk'[folder] = disk[folder] \cup {name} /\ name \notin disk[folder]
    BY <1>1, <1>2 DEF AddFile
  <2>2. \A x \in Names \ lost2 :
            IF x = name THEN Wanted(here, x) = 0 /\ Wanted(here2, x) = Once(x)
            ELSE Wanted(here2, x) = Wanted(here, x)
    BY <2>1 DEF Wanted, Once
  <2> QED BY <2>2 DEF Happens
<1>3. ASSUME NEW name \in Names, RemoveFile(folder, name)
      PROVE  Happens(<<Record("REMOVED", name)>>, here, here2, lost, lost2)
  <2>1. disk'[folder] = disk[folder] \ {name}
    BY <1>1, <1>3 DEF RemoveFile
  <2>2. \A x \in Names \ lost2 :
            IF x = name THEN Wanted(here2, x) = 0 ELSE Wanted(here2, x) = Wanted(here, x)
    BY <2>1 DEF Wanted
  <2> QED BY <2>2 DEF Happens
<1>4. ASSUME NEW old \in Names, NEW new \in Names, RenameFile(folder, old, new),
             new \notin lost2 => old \notin lost /\ (old \in Viewable <=> new \in Viewable)
      PROVE  Happens(<<Record("RENAMED_OLD_NAME", old), Record("RENAMED_NEW_NAME", new)>>,
                     here, here2, lost, lost2)
  <2>1. /\ disk'[folder] = (disk[folder] \ {old}) \cup {new}
        /\ old \in disk[folder] /\ new \notin disk[folder]
    BY <1>1, <1>4 DEF RenameFile
  <2>2. old # new
    BY <2>1
  <2>3. \A x \in Names \ lost2 :
            IF x = old THEN Wanted(here2, x) = 0
            ELSE IF x = new THEN old \notin lost /\ Wanted(here2, x) = Wanted(here, x) + Wanted(here, old)
            ELSE Wanted(here2, x) = Wanted(here, x)
    <3>1. Wanted(here2, old) = 0
      BY <2>1, <2>2 DEF Wanted
    <3>2. \A x \in Names : x # old /\ x # new => Wanted(here2, x) = Wanted(here, x)
      BY <2>1 DEF Wanted
    <3>3. ASSUME new \notin lost2
          PROVE  old \notin lost /\ Wanted(here2, new) = Wanted(here, new) + Wanted(here, old)
      <4>1. old \notin lost /\ (old \in Viewable <=> new \in Viewable)
        BY <1>4, <3>3
      <4>2. Wanted(here, new) = 0 /\ (Wanted(here2, new) = IF new \in Viewable THEN 1 ELSE 0)
            /\ (Wanted(here, old) = IF old \in Viewable THEN 1 ELSE 0)
        BY <2>1 DEF Wanted
      <4>3. Wanted(here2, new) = Wanted(here, old) /\ Wanted(here, old) \in Nat
        BY <4>1, <4>2
      <4> QED BY <4>1, <4>2, <4>3
    <3> QED BY <3>1, <3>2, <3>3
  <2> QED BY <2>2, <2>3 DEF Happens
<1> QED BY <1>2, <1>3, <1>4

\* Of a renamed file that is followed, both names are viewable or none is.
LEMMA Undisguised ==
    ASSUME DiskInv, NEW folder \in Folders, NEW old \in Names, NEW new \in Names,
           RenameFile(folder, old, new), File(folder, new) \notin Disguised
    PROVE  File(folder, old) \notin astray /\ (old \in Viewable <=> new \in Viewable)
<1>1. /\ disk'[folder] = (disk[folder] \ {old}) \cup {new}
      /\ old \in disk[folder] /\ new \notin disk[folder]
  BY DEF RenameFile, DiskInv
<1>2. Gone(folder) = {old} /\ Come(folder) = {new}
  BY <1>1 DEF Gone, Come
<1>3. File(folder, new) \in Touched(folder)
  BY <1>2 DEF Touched
<1>4. ~(\/ Gone(folder) \subseteq Viewable <=> ~(Come(folder) \subseteq Viewable)
        \/ \E name \in Gone(folder) : File(folder, name) \in astray)
  BY <1>2, <1>3 DEF Disguised
<1> QED BY <1>2, <1>4

\* A step that leaves the thread and the kernel alone.
LEMMA ThreadLeft ==
    ASSUME UNCHANGED <<m_folder, m_folderNotifications, kernelVars, threadVars>>,
           NEW whole \in BOOLEAN, Trust(whole), NEW list, NEW here, NEW lost, Tells(whole, list, here, lost),
           \A name \in Names : listed'[File(m_folder, name)] = list[name],
           lost \cap Names \subseteq LostOf(astray', m_folder),
           \A name \in Names \ LostOf(astray', m_folder) :
               Wanted(disk'[m_folder] \cap Viewable, name) = Wanted(here, name)
    PROVE  FollowedBy(whole)'
<1>1. Reading' = Reading /\ Processing' = Processing /\ FirstUnread' = FirstUnread /\ OldNext' = OldNext
  BY DEF Reading, Processing, FirstUnread, OldNext, kernelVars, threadVars
<1>2. UNCHANGED <<m_folder, m_folderNotifications, packets, m_changes, changes, m_oldName>>
  BY DEF kernelVars, threadVars
<1> QED BY <1>1, <1>2, LeavesTold

\* A change in another folder.
LEMMA ElsewhereTells ==
    ASSUME m_path = m_folder, NEW folder, folder # m_folder, NEW records, Report(folder, records),
           UNCHANGED <<m_folder, m_folderNotifications, threadVars>>, disk'[m_folder] = disk[m_folder],
           NEW whole \in BOOLEAN, Trust(whole), NEW list, NEW lost,
           Tells(whole, list, disk[m_folder] \cap Viewable, lost),
           \A name \in Names : listed'[File(m_folder, name)] = list[name],
           lost \cap Names \subseteq LostOf(astray', m_folder)
    PROVE  FollowedBy(whole)'
<1>1. UNCHANGED kernelVars
  BY DEF Report, Reported
<1>2. PICK here : here = disk[m_folder] \cap Viewable
  OBVIOUS
<1>3. UNCHANGED <<m_folder, m_folderNotifications, kernelVars, threadVars>>
  BY <1>1
<1>4. Tells(whole, list, here, lost)
  BY <1>2
<1>5. \A name \in Names \ LostOf(astray', m_folder) :
          Wanted(disk'[m_folder] \cap Viewable, name) = Wanted(here, name)
  BY <1>2
<1> QED BY <1>3, <1>4, <1>5, ThreadLeft

\* Others change the disk.
LEMMA OthersTell ==
    ASSUME Base, Base', OthersChange, m_folder \in Folders,
           astray \cup Untold \cup Overwritten \cup Dropped \cup Disguised \subseteq astray',
           NEW whole \in BOOLEAN, FollowedBy(whole)
    PROVE  \E w \in BOOLEAN : FollowedBy(w)'
<1>1. PICK list : list = ListOf(listed, m_folder)
  OBVIOUS
<1>2. PICK here : here = disk[m_folder] \cap Viewable
  OBVIOUS
<1>3. PICK lost : lost = LostOf(astray, m_folder)
  OBVIOUS
<1>4. PICK here2 : here2 = disk'[m_folder] \cap Viewable
  OBVIOUS
<1>5. PICK lost2 : lost2 = LostOf(astray', m_folder)
  OBVIOUS
<1>6. Trust(whole) /\ Tells(whole, list, here, lost)
  BY <1>1, <1>2, <1>3 DEF FollowedBy
<1>7. UNCHANGED <<viewer, m_folder, listed>>
  BY DEF OthersChange, viewVars
<1>8. list = ListOf(listed', m_folder) /\ \A name \in Names : listed'[File(m_folder, name)] = list[name]
  BY <1>1, <1>7 DEF ListOf
<1>9. lost \cap Names \subseteq lost2 /\ lost \cap Names \subseteq LostOf(astray', m_folder)
  BY <1>3, <1>5 DEF LostOf
<1>10. m_path = m_folder /\ DiskInv /\ BufferInv /\ RecordInv /\ Monitored /\ BufferInv' /\ RecordInv'
  BY DEF Base, Monitored
<1>11. disk \in [Folders -> SUBSET Names]
  BY <1>10 DEF DiskInv
\* In the shown folder.
<1>12. ASSUME NEW records \in Seq(Records), records # Overflow, records # <<>>, Paired(records),
              Report(m_folder, records), m_folder \in folders,
              UNCHANGED <<threadVars, handleVars, m_folderNotifications>>,
              Happens(records, here, here2, lost, lost2)
       PROVE  \E w \in BOOLEAN : FollowedBy(w)'
  <2>1. \A name \in Names : File(m_folder, name) \notin Touched(m_folder) =>
            Wanted(disk'[m_folder] \cap Viewable, name) = Wanted(here, name)
    BY <1>2 DEF Touched, Gone, Come, Wanted
  <2>2. Tells(whole, ListOf(listed', m_folder), here, lost)
    BY <1>6, <1>8
  <2>3. Happens(records, here, disk'[m_folder] \cap Viewable, lost, LostOf(astray', m_folder))
    BY <1>4, <1>5, <1>12
  <2>4. Untold \subseteq astray' /\ Overwritten \subseteq astray' /\ Dropped \subseteq astray'
    OBVIOUS
  <2>5. UNCHANGED <<m_folder, threadVars, handleVars, m_folderNotifications>>
    BY <1>7, <1>12
  <2> QED BY <1>6, <1>10, <1>12, <2>1, <2>2, <2>3, <2>4, <2>5, ReportedTells
\* In another one.
<1>13. ASSUME NEW folder, folder # m_folder, NEW records, Report(folder, records),
              UNCHANGED <<m_folderNotifications, threadVars>>, disk'[m_folder] = disk[m_folder]
       PROVE  \E w \in BOOLEAN : FollowedBy(w)'
  <2>1. Tells(whole, list, disk[m_folder] \cap Viewable, lost)
    BY <1>2, <1>6
  <2>2. UNCHANGED <<m_folder, m_folderNotifications, threadVars>>
    BY <1>7, <1>13
  <2>3. FollowedBy(whole)'
    BY <1>6, <1>8, <1>9, <1>10, <1>13, <2>1, <2>2, ElsewhereTells
  <2> QED BY <2>3
<1>14. ASSUME NEW folder \in Folders, NEW name \in Names, AddFile(folder, name)
       PROVE  \E w \in BOOLEAN : FollowedBy(w)'
  <2>1. PICK records : records = <<Record("ADDED", name)>>
    OBVIOUS
  <2>2. records \in Seq(Records) /\ records # Overflow /\ records # <<>> /\ Paired(records)
    BY <2>1, PairsOfRecords
  <2>3. Report(folder, records) /\ folder \in folders /\ UNCHANGED <<threadVars, handleVars, m_folderNotifications>>
    BY <1>14, <2>1 DEF AddFile, queueVars
  <2>4. CASE folder = m_folder
    <3>1. Happens(records, here, here2, lost, lost2)
      BY <1>2, <1>4, <1>9, <1>10, <1>14, <2>1, <2>4, DiskHappens
    <3> QED BY <1>12, <2>2, <2>3, <2>4, <3>1
  <2>5. CASE folder # m_folder
    <3>1. disk'[m_folder] = disk[m_folder]
      BY <1>11, <1>14, <2>5 DEF AddFile
    <3> QED BY <1>13, <2>3, <2>5, <3>1
  <2> QED BY <2>4, <2>5
<1>15. ASSUME NEW folder \in Folders, NEW name \in Names, RemoveFile(folder, name)
       PROVE  \E w \in BOOLEAN : FollowedBy(w)'
  <2>1. PICK records : records = <<Record("REMOVED", name)>>
    OBVIOUS
  <2>2. records \in Seq(Records) /\ records # Overflow /\ records # <<>> /\ Paired(records)
    BY <2>1, PairsOfRecords
  <2>3. Report(folder, records) /\ folder \in folders /\ UNCHANGED <<threadVars, handleVars, m_folderNotifications>>
    BY <1>10, <1>15, <2>1 DEF RemoveFile, queueVars, DiskInv
  <2>4. CASE folder = m_folder
    <3>1. Happens(records, here, here2, lost, lost2)
      BY <1>2, <1>4, <1>9, <1>10, <1>15, <2>1, <2>4, DiskHappens
    <3> QED BY <1>12, <2>2, <2>3, <2>4, <3>1
  <2>5. CASE folder # m_folder
    <3>1. disk'[m_folder] = disk[m_folder]
      BY <1>11, <1>15, <2>5 DEF RemoveFile
    <3> QED BY <1>13, <2>3, <2>5, <3>1
  <2> QED BY <2>4, <2>5
<1>16. ASSUME NEW folder \in Folders, NEW old \in Names, NEW new \in Names, RenameFile(folder, old, new)
       PROVE  \E w \in BOOLEAN : FollowedBy(w)'
  <2>1. PICK records : records = <<Record("RENAMED_OLD_NAME", old), Record("RENAMED_NEW_NAME", new)>>
    OBVIOUS
  <2>2. records \in Seq(Records) /\ records # Overflow /\ records # <<>> /\ Paired(records)
    BY <2>1, PairsOfRecords
  <2>3. Report(folder, records) /\ folder \in folders /\ UNCHANGED <<threadVars, handleVars, m_folderNotifications>>
    BY <1>10, <1>16, <2>1 DEF RenameFile, queueVars, DiskInv
  <2>4. CASE folder = m_folder
    <3>1. new \notin lost2 => old \notin lost /\ (old \in Viewable <=> new \in Viewable)
      <4>1. new \notin lost2 => File(folder, new) \notin Disguised
        BY <1>5, <2>4 DEF LostOf
      <4>2. File(folder, old) \notin astray => old \notin lost
        BY <1>3, <2>4 DEF LostOf
      <4> QED BY <1>10, <1>16, <4>1, <4>2, Undisguised
    <3>2. Happens(records, here, here2, lost, lost2)
      BY <1>2, <1>4, <1>9, <1>10, <1>16, <2>1, <2>4, <3>1, DiskHappens
    <3> QED BY <1>12, <2>2, <2>3, <2>4, <3>2
  <2>5. CASE folder # m_folder
    <3>1. disk'[m_folder] = disk[m_folder]
      BY <1>11, <1>16, <2>5 DEF RenameFile
    <3> QED BY <1>13, <2>3, <2>5, <3>1
  <2> QED BY <2>4, <2>5
<1>17. ASSUME NEW folder \in Folders, RemoveFolder(folder)
       PROVE  \E w \in BOOLEAN : FollowedBy(w)'
  <2>1. UNCHANGED <<m_folder, m_folderNotifications, kernelVars, threadVars>> /\ disk' = disk
    BY <1>7, <1>17 DEF RemoveFolder, queueVars
  <2>2. \A name \in Names \ LostOf(astray', m_folder) :
            Wanted(disk'[m_folder] \cap Viewable, name) = Wanted(here, name)
    BY <1>2, <2>1
  <2>3. FollowedBy(whole)'
    BY <1>6, <1>8, <1>9, <2>1, <2>2, ThreadLeft
  <2> QED BY <2>3
<1> QED BY <1>14, <1>15, <1>16, <1>17 DEF OthersChange

-----------------------------------------------------------------------------
(* Changes by the user, who changes the list himself.                      *)

\* A file that nothing is on its way about is listed as it should be.
LEMMA FollowedNow ==
    ASSUME BufferInv, RecordInv, m_path = m_folder, m_folder \in Folders, m_folder \in folders,
           NEW whole \in BOOLEAN, FollowedBy(whole),
           NEW name \in Names, File(m_folder, name) \notin astray, File(m_folder, name) \notin InFlight
    PROVE  listed[File(m_folder, name)] = Wanted(disk[m_folder] \cap Viewable, name)
<1>1. PICK N : N = m_folderNotifications
  OBVIOUS
<1>2. PICK n : n = Len(m_folderNotifications)
  OBVIOUS
<1>3. PICK u : u = UnreadCount(whole)
  OBVIOUS
<1>4. PICK c : c = Recorded
  OBVIOUS
<1>5. PICK U : U = UnreadEvents(m_changes, FirstUnread, UnreadCount(whole), m_oldName, m_folder)
  OBVIOUS
<1>6. PICK E : E = RecordEvents(changes, Recorded, m_folder)
  OBVIOUS
<1>7. PICK folder : folder = m_folder
  OBVIOUS
<1>8. PICK junk : junk = Junk(whole)
  OBVIOUS
<1>9. PICK list : list = ListOf(listed, m_folder)
  OBVIOUS
<1>10. PICK here : here = disk[m_folder] \cap Viewable
  OBVIOUS
<1>11. PICK lost : lost = LostOf(astray, m_folder)
  OBVIOUS
<1>12. On(N, n, U, u, E, c, folder, list, here, lost, junk)
  BY <1>1, <1>2, <1>3, <1>4, <1>5, <1>6, <1>7, <1>8, <1>9, <1>10, <1>11 DEF FollowedBy, Tells
<1>13. name \in Names \ lost
  BY <1>11 DEF LostOf
<1>14. \A event \in Events(N, n, U, u, E, c) : ~Concerns(event, folder, name)
  BY <1>1, <1>2, <1>3, <1>4, <1>5, <1>6, <1>7, InFlightCovers, DeletesGone
<1>15. list[name] = Wanted(here, name)
  BY ONLY <1>12, <1>13, <1>14, OnNothing
<1> QED BY <1>9, <1>10, <1>15 DEF ListOf

\* If the user is ahead of any event, then with every file that he changes.
LEMMA AheadCovers ==
    ASSUME viewer = "idle", viewer' = "idle", UNCHANGED m_folderNotifications,
           NEW file \in Files, listed[file] # listed'[file], file \notin AheadOfEvents
    PROVE  AheadOfEvents = {} /\ file \notin InFlight
BY DEF AheadOfEvents

\* The user removes the current file.
LEMMA RemovingTells ==
    ASSUME Base, Base', m_folder \in Folders, NEW name \in Names, RemoveImage(m_folder, name),
           astray \cup Untold \cup Overwritten \cup Dropped \cup AheadOfEvents \subseteq astray',
           NEW whole \in BOOLEAN, FollowedBy(whole)
    PROVE  \E w \in BOOLEAN : FollowedBy(w)'
<1>1. /\ RemoveFile(m_folder, name) /\ RemoveImageFilename(File(m_folder, name))
      /\ listed[File(m_folder, name)] > 0 /\ viewer = "idle" /\ UNCHANGED <<viewer, m_folder>>
  BY DEF RemoveImage, FindImage
<1>2. /\ m_path = m_folder /\ DiskInv /\ BufferInv /\ RecordInv /\ Monitored /\ BufferInv' /\ RecordInv'
      /\ listed \in [Paths -> Nat]
  BY DEF Base, Monitored, ListInv
<1>3. /\ name \in disk[m_folder] /\ disk'[m_folder] = disk[m_folder] \ {name} /\ m_folder \in folders
      /\ Report(m_folder, <<Record("REMOVED", name)>>)
      /\ UNCHANGED <<threadVars, handleVars, m_folderNotifications>>
  BY <1>1, <1>2 DEF RemoveFile, DiskInv, queueVars
<1>4. \A x \in Names : /\ File(m_folder, x) \in Files /\ File(m_folder, x) \in Paths
                       /\ File(m_folder, x) = File(m_folder, name) <=> x = name
  BY DEF File, Files, Paths
<1>5. \A x \in Names : listed'[File(m_folder, x)] =
          IF x = name THEN listed[File(m_folder, x)] - 1 ELSE listed[File(m_folder, x)]
  BY <1>1, <1>2, <1>4, Removing
<1>6. PICK here : here = disk'[m_folder] \cap Viewable
  OBVIOUS
<1>7. PICK lost : lost = LostOf(astray \cup AheadOfEvents, m_folder)
  OBVIOUS
<1>8. LostOf(astray, m_folder) \subseteq lost /\ LostOf(AheadOfEvents, m_folder) \subseteq lost
      /\ lost \cap Names \subseteq LostOf(astray', m_folder)
  BY <1>7 DEF LostOf
<1>9. PICK touched : touched = {x \in Names : listed[File(m_folder, x)] # listed'[File(m_folder, x)]}
  OBVIOUS
<1>10. touched = {name}
  <2>1. \A x \in Names : listed[File(m_folder, x)] \in Nat
    BY <1>2, <1>4
  <2> QED BY <1>5, <1>9, <2>1
<1>11. \A x \in Names : x # name => Wanted(here, x) = Wanted(disk[m_folder] \cap Viewable, x)
  BY <1>3, <1>6 DEF Wanted
<1>12. Wanted(here, name) = 0
  BY <1>3, <1>6 DEF Wanted
<1>13. ASSUME name \notin lost PROVE listed'[File(m_folder, name)] = 0
  <2>1. File(m_folder, name) \notin astray /\ File(m_folder, name) \notin AheadOfEvents
    BY <1>7, <1>13 DEF LostOf
  <2>2. File(m_folder, name) \notin InFlight
    BY <1>1, <1>3, <1>4, <1>9, <1>10, <2>1, AheadCovers
  <2>3. listed[File(m_folder, name)] = Wanted(disk[m_folder] \cap Viewable, name)
    BY <1>2, <1>3, <2>1, <2>2, FollowedNow
  <2> QED BY <1>1, <1>5, <2>3 DEF Wanted
<1>14. Tells(whole, ListOf(listed', m_folder), here, lost)
  <2>1. viewer = "idle" /\ viewer' = "idle" /\ UNCHANGED m_folderNotifications
    BY <1>1, <1>3
  <2>2. \A x \in Names \ touched : Wanted(here, x) = Wanted(disk[m_folder] \cap Viewable, x)
    BY <1>10, <1>11
  <2>3. \A x \in touched \ lost : listed'[File(m_folder, x)] = Wanted(here, x)
    BY <1>10, <1>12, <1>13
  <2>4. m_folder \notin folders => touched \subseteq lost
    BY <1>3
  <2> QED BY <1>2, <1>8, <1>9, <2>1, <2>2, <2>3, <2>4, UserAhead
<1>15. PICK records : records = <<Record("REMOVED", name)>>
  OBVIOUS
<1>16. records \in Seq(Records) /\ records # Overflow /\ records # <<>> /\ Paired(records)
  BY <1>15, PairsOfRecords
<1>17. Happens(records, here, disk'[m_folder] \cap Viewable, lost, LostOf(astray', m_folder))
  BY <1>6, <1>8, <1>12, <1>15 DEF Happens
<1>18. Trust(whole)
  BY DEF FollowedBy
<1>19. \A x \in Names : File(m_folder, x) \notin Touched(m_folder) =>
           Wanted(disk'[m_folder] \cap Viewable, x) = Wanted(here, x)
  BY <1>6
<1>20. Untold \subseteq astray' /\ Overwritten \subseteq astray' /\ Dropped \subseteq astray'
  OBVIOUS
<1>21. Report(m_folder, records) /\ UNCHANGED <<m_folder, threadVars, handleVars, m_folderNotifications>>
  BY <1>1, <1>3, <1>15
<1> QED BY <1>2, <1>3, <1>14, <1>16, <1>17, <1>18, <1>19, <1>20, <1>21, ReportedTells

\* The user renames the current file.
LEMMA RenamingTells ==
    ASSUME Base, Base', m_folder \in Folders, NEW old \in Names, NEW new \in Names,
           RenameCurrent(m_folder, old, new),
           astray \cup Untold \cup Overwritten \cup Dropped \cup Disguised \cup AheadOfEvents \subseteq astray',
           NEW whole \in BOOLEAN, FollowedBy(whole)
    PROVE  \E w \in BOOLEAN : FollowedBy(w)'
<1>1. /\ RenameFile(m_folder, old, new) /\ RenamedImage(File(m_folder, old), File(m_folder, new))
      /\ FindImage(File(m_folder, old)) /\ listed[File(m_folder, old)] > 0
      /\ viewer = "idle" /\ UNCHANGED <<viewer, m_folder>> /\ old \in Viewable /\ new \in Viewable
  BY DEF RenameCurrent, FindImage
<1>2. /\ m_path = m_folder /\ DiskInv /\ BufferInv /\ RecordInv /\ Monitored /\ BufferInv' /\ RecordInv'
      /\ listed \in [Paths -> Nat]
  BY DEF Base, Monitored, ListInv
<1>3. /\ old \in disk[m_folder] /\ new \notin disk[m_folder] /\ m_folder \in folders
      /\ disk'[m_folder] = (disk[m_folder] \ {old}) \cup {new} /\ old # new
      /\ Report(m_folder, <<Record("RENAMED_OLD_NAME", old), Record("RENAMED_NEW_NAME", new)>>)
      /\ UNCHANGED <<threadVars, handleVars, m_folderNotifications>>
  BY <1>1, <1>2 DEF RenameFile, DiskInv, queueVars
<1>4. \A x, y \in Names : /\ File(m_folder, x) \in Files /\ File(m_folder, x) \in Paths
                          /\ File(m_folder, x) = File(m_folder, y) <=> x = y
  BY DEF File, Files, Paths
<1>5. \A x \in Names : listed'[File(m_folder, x)] =
          IF x = old THEN listed[File(m_folder, x)] - 1
          ELSE IF x = new THEN listed[File(m_folder, x)] + 1 ELSE listed[File(m_folder, x)]
  <2>1. PICK from : from = File(m_folder, old)
    OBVIOUS
  <2>2. PICK to : to = File(m_folder, new)
    OBVIOUS
  <2>3. FindImage(from) /\ from # to /\ RenamedImage(from, to)
    BY <1>1, <1>3, <1>4, <2>1, <2>2
  <2>4. \A file \in Paths : listed'[file] =
            IF file = from THEN listed[file] - 1 ELSE IF file = to THEN listed[file] + 1 ELSE listed[file]
    BY <1>2, <2>3, Renaming
  <2> QED BY <1>4, <2>1, <2>2, <2>4
<1>6. PICK here : here = disk'[m_folder] \cap Viewable
  OBVIOUS
<1>7. PICK lost : lost = LostOf(astray \cup AheadOfEvents, m_folder)
  OBVIOUS
<1>8. LostOf(astray, m_folder) \subseteq lost /\ LostOf(AheadOfEvents, m_folder) \subseteq lost
      /\ lost \cap Names \subseteq LostOf(astray', m_folder)
  BY <1>7 DEF LostOf
<1>9. PICK touched : touched = {x \in Names : listed[File(m_folder, x)] # listed'[File(m_folder, x)]}
  OBVIOUS
<1>10. touched = {old, new}
  <2>1. \A x \in Names : listed[File(m_folder, x)] \in Nat
    BY <1>2, <1>4
  <2> QED BY <1>3, <1>5, <1>9, <2>1
<1>11. \A x \in Names : x # old /\ x # new => Wanted(here, x) = Wanted(disk[m_folder] \cap Viewable, x)
  BY <1>3, <1>6 DEF Wanted
<1>12. Wanted(here, old) = 0 /\ Wanted(here, new) = 1
  BY <1>1, <1>3, <1>6 DEF Wanted
<1>13. ASSUME NEW x \in {old, new}, x \notin lost
       PROVE  /\ AheadOfEvents = {} /\ File(m_folder, x) \notin InFlight
              /\ listed[File(m_folder, x)] = Wanted(disk[m_folder] \cap Viewable, x)
  <2>1. File(m_folder, x) \notin astray /\ File(m_folder, x) \notin AheadOfEvents
    BY <1>7, <1>13 DEF LostOf
  <2>2. listed[File(m_folder, x)] # listed'[File(m_folder, x)] /\ x \in Names
    BY <1>9, <1>10
  <2>3. AheadOfEvents = {} /\ File(m_folder, x) \notin InFlight
    BY <1>1, <1>3, <1>4, <2>1, <2>2, AheadCovers
  <2> QED BY <1>2, <1>3, <2>1, <2>2, <2>3, FollowedNow
<1>14. ASSUME old \notin lost PROVE listed'[File(m_folder, old)] = 0
  <2>1. listed[File(m_folder, old)] = Wanted(disk[m_folder] \cap Viewable, old)
    BY <1>13, <1>14
  <2>2. listed'[File(m_folder, old)] = listed[File(m_folder, old)] - 1
    BY <1>5
  <2> QED BY <1>1, <2>1, <2>2 DEF Wanted
<1>15. ASSUME new \notin lost PROVE listed'[File(m_folder, new)] = 1
  <2>1. listed[File(m_folder, new)] = Wanted(disk[m_folder] \cap Viewable, new)
    BY <1>13, <1>15
  <2>2. listed'[File(m_folder, new)] = listed[File(m_folder, new)] + 1
    BY <1>3, <1>5
  <2>3. Wanted(disk[m_folder] \cap Viewable, new) = 0
    BY <1>3 DEF Wanted
  <2> QED BY <2>1, <2>2, <2>3
<1>16. Tells(whole, ListOf(listed', m_folder), here, lost)
  <2>1. viewer = "idle" /\ viewer' = "idle" /\ UNCHANGED m_folderNotifications
    BY <1>1, <1>3
  <2>2. \A x \in Names \ touched : Wanted(here, x) = Wanted(disk[m_folder] \cap Viewable, x)
    BY <1>10, <1>11
  <2>3. \A x \in touched \ lost : listed'[File(m_folder, x)] = Wanted(here, x)
    BY <1>10, <1>12, <1>14, <1>15
  <2>4. m_folder \notin folders => touched \subseteq lost
    BY <1>3
  <2> QED BY <1>2, <1>8, <1>9, <2>1, <2>2, <2>3, <2>4, UserAhead
<1>17. PICK records : records = <<Record("RENAMED_OLD_NAME", old), Record("RENAMED_NEW_NAME", new)>>
  OBVIOUS
<1>18. records \in Seq(Records) /\ records # Overflow /\ records # <<>> /\ Paired(records)
  BY <1>17, PairsOfRecords
<1>19. PICK lost2 : lost2 = LostOf(astray', m_folder)
  OBVIOUS
<1>20. new \notin lost2 => old \notin lost
  <2>1. ASSUME new \notin lost2 PROVE old \notin lost
    <3>1. File(m_folder, new) \notin Disguised
      BY <1>19, <2>1 DEF LostOf
    <3>2. File(m_folder, old) \notin astray
      BY <1>1, <1>2, <3>1, Undisguised
    <3>3. new \notin lost
      BY <1>8, <1>19, <2>1
    <3>4. AheadOfEvents = {}
      BY <1>13, <3>3
    <3> QED BY <1>7, <3>2, <3>4 DEF LostOf
  <2> QED BY <2>1
<1>21. Happens(records, here, disk'[m_folder] \cap Viewable, lost, LostOf(astray', m_folder))
  <2>1. \A x \in Names \ lost2 :
            IF x = old THEN Wanted(here, x) = 0
            ELSE IF x = new THEN old \notin lost /\ Wanted(here, x) = Wanted(here, x) + Wanted(here, old)
            ELSE Wanted(here, x) = Wanted(here, x)
    BY <1>12, <1>20
  <2>2. Happens(records, here, here, lost, lost2)
    BY <1>3, <1>8, <1>17, <1>19, <2>1 DEF Happens
  <2> QED BY <1>6, <1>19, <2>2
<1>22. Trust(whole)
  BY DEF FollowedBy
<1>23. \A x \in Names : File(m_folder, x) \notin Touched(m_folder) =>
           Wanted(disk'[m_folder] \cap Viewable, x) = Wanted(here, x)
  BY <1>6
<1>24. Untold \subseteq astray' /\ Overwritten \subseteq astray' /\ Dropped \subseteq astray'
  OBVIOUS
<1>25. Report(m_folder, records) /\ UNCHANGED <<m_folder, threadVars, handleVars, m_folderNotifications>>
  BY <1>1, <1>3, <1>17
<1> QED BY <1>2, <1>3, <1>16, <1>18, <1>21, <1>22, <1>23, <1>24, <1>25, ReportedTells

\* A rename fails: the entry loses its name.
LEMMA FailingTells ==
    ASSUME Base, m_folder \in Folders, NEW name \in Names, RenameFails(m_folder, name),
           astray \cup AheadOfEvents \cup Nameless \subseteq astray',
           NEW whole \in BOOLEAN, FollowedBy(whole)
    PROVE  \E w \in BOOLEAN : FollowedBy(w)'
<1>1. /\ RenamedImage(File(m_folder, name), NoFile) /\ FindImage(File(m_folder, name))
      /\ listed[File(m_folder, name)] > 0
      /\ viewer = "idle" /\ UNCHANGED <<viewer, m_folder>>
      /\ UNCHANGED <<m_folder, m_folderNotifications, kernelVars, threadVars>> /\ disk' = disk
  BY DEF RenameFails, FindImage, monitorVars, diskVars, queueVars
<1>2. m_path = m_folder /\ BufferInv /\ RecordInv /\ listed \in [Paths -> Nat]
  BY DEF Base, Monitored, ListInv
<1>3. NoName \notin Names
  BY MonitorAssumption
<1>4. \A x \in Names : /\ File(m_folder, x) \in Files /\ File(m_folder, x) \in Paths
                       /\ File(m_folder, x) # NoFile
                       /\ File(m_folder, x) = File(m_folder, name) <=> x = name
  BY <1>3 DEF File, Files, Paths, NoFile
<1>5. PICK from : from = File(m_folder, name)
  OBVIOUS
<1>6. \A file \in Paths : listed'[file] =
          IF file = from THEN listed[file] - 1 ELSE IF file = NoFile THEN listed[file] + 1 ELSE listed[file]
  <2>1. FindImage(from) /\ from # NoFile /\ RenamedImage(from, NoFile)
    BY <1>1, <1>4, <1>5
  <2> QED BY <1>2, <2>1, Renaming
<1>7. \A x \in Names : listed'[File(m_folder, x)] =
          IF x = name THEN listed[File(m_folder, x)] - 1 ELSE listed[File(m_folder, x)]
  BY <1>4, <1>5, <1>6
<1>8. from \in Nameless
  <2>1. NoFile \in Paths
    BY DEF Paths
  <2>2. listed'[NoFile] = listed[NoFile] + 1 /\ listed[NoFile] \in Nat
    BY <1>2, <1>4, <1>5, <1>6, <2>1
  <2>3. listed'[from] = listed[from] - 1 /\ listed[from] \in Nat /\ from \in Files
    BY <1>2, <1>4, <1>5, <1>6
  <2>4. listed' # listed
    BY <2>2
  <2>5. listed'[NoFile] > listed[NoFile] /\ listed'[from] < listed[from]
    BY <2>2, <2>3
  <2> QED BY <2>3, <2>4, <2>5 DEF Nameless
<1>9. PICK here : here = disk[m_folder] \cap Viewable
  OBVIOUS
<1>10. PICK lost : lost = LostOf(astray', m_folder)
  OBVIOUS
<1>11. LostOf(astray, m_folder) \subseteq lost /\ LostOf(AheadOfEvents, m_folder) \subseteq lost /\ name \in lost
  BY <1>5, <1>8, <1>10 DEF LostOf
<1>12. PICK touched : touched = {x \in Names : listed[File(m_folder, x)] # listed'[File(m_folder, x)]}
  OBVIOUS
<1>13. touched \subseteq lost
  BY <1>7, <1>11, <1>12
<1>14. PICK list : list = ListOf(listed', m_folder)
  OBVIOUS
<1>15. Tells(whole, list, here, lost)
  <2>1. viewer = "idle" /\ viewer' = "idle" /\ UNCHANGED m_folderNotifications
    BY <1>1
  <2>2. \A x \in Names \ touched : Wanted(here, x) = Wanted(disk[m_folder] \cap Viewable, x)
    BY <1>9
  <2>3. \A x \in touched \ lost : listed'[File(m_folder, x)] = Wanted(here, x)
    BY <1>13
  <2>4. m_folder \notin folders => touched \subseteq lost
    BY <1>13
  <2>5. Tells(whole, ListOf(listed', m_folder), here, lost)
    BY <1>2, <1>11, <1>12, <2>1, <2>2, <2>3, <2>4, UserAhead
  <2> QED BY <1>14, <2>5
<1>16. \A x \in Names : listed'[File(m_folder, x)] = list[x]
  BY <1>14 DEF ListOf
<1>17. Trust(whole)
  BY DEF FollowedBy
<1>18. /\ lost \cap Names \subseteq LostOf(astray', m_folder)
       /\ \A x \in Names \ LostOf(astray', m_folder) :
              Wanted(disk'[m_folder] \cap Viewable, x) = Wanted(here, x)
  BY <1>1, <1>9, <1>10
<1>19. FollowedBy(whole)'
  BY <1>1, <1>15, <1>16, <1>17, <1>18, ThreadLeft
<1> QED BY <1>19

\* In another folder only files are touched that are astray already.
LEMMA UserElsewhere ==
    ASSUME Base, m_folder \in Folders, NEW folder \in Folders, folder # m_folder,
           \/ \E name \in Names : RemoveImage(folder, name) \/ RenameFails(folder, name)
           \/ \E old, new \in Names : RenameCurrent(folder, old, new),
           astray \subseteq astray', NEW whole \in BOOLEAN, FollowedBy(whole)
    PROVE  \E w \in BOOLEAN : FollowedBy(w)'
<1>1. PICK list : list = ListOf(listed, m_folder)
  OBVIOUS
<1>2. PICK lost : lost = LostOf(astray, m_folder)
  OBVIOUS
<1>3. PICK here : here = disk[m_folder] \cap Viewable
  OBVIOUS
<1>4. Trust(whole) /\ Tells(whole, list, disk[m_folder] \cap Viewable, lost) /\ Tells(whole, list, here, lost)
  BY <1>1, <1>2, <1>3 DEF FollowedBy
<1>5. m_path = m_folder /\ listed \in [Paths -> Nat] /\ disk \in [Folders -> SUBSET Names] /\ NoName \notin Names
  BY MonitorAssumption DEF Base, Monitored, ListInv, DiskInv
<1>6. \A x \in Names : /\ File(m_folder, x) \in Paths /\ File(m_folder, x) # NoFile
                       /\ \A y \in Names : File(m_folder, x) # File(folder, y)
  BY <1>5 DEF File, Files, Paths, NoFile
<1>7. lost \cap Names \subseteq LostOf(astray', m_folder)
  BY <1>2 DEF LostOf
<1>8. ASSUME \A x \in Names : listed'[File(m_folder, x)] = listed[File(m_folder, x)]
      PROVE  \A x \in Names : listed'[File(m_folder, x)] = list[x]
  BY <1>1, <1>8 DEF ListOf
<1>9. ASSUME NEW from \in Paths, NEW to, \A x \in Names : File(m_folder, x) # from /\ File(m_folder, x) # to,
             RemoveImageFilename(from) \/ RenamedImage(from, to)
      PROVE  \A x \in Names : listed'[File(m_folder, x)] = listed[File(m_folder, x)]
  <2>1. CASE RemoveImageFilename(from)
    <3>1. \A file \in Paths : listed'[file] =
              IF file = from /\ listed[file] > 0 THEN listed[file] - 1 ELSE listed[file]
      BY <1>5, <2>1, Removing
    <3> QED BY <1>6, <1>9, <3>1
  <2>2. CASE RenamedImage(from, to)
    <3>1. /\ FindImage(from) /\ from # to => \A file \in Paths : listed'[file] =
                 IF file = from THEN listed[file] - 1
                 ELSE IF file = to THEN listed[file] + 1 ELSE listed[file]
          /\ ~FindImage(from) \/ from = to => \A file \in Paths : listed'[file] = listed[file]
      BY <1>5, <2>2, Renaming
    <3> QED BY <1>6, <1>9, <3>1
  <2> QED BY <1>9, <2>1, <2>2
<1>10. ASSUME NEW records, Report(folder, records), UNCHANGED <<m_folder, m_folderNotifications, threadVars>>,
              disk'[m_folder] = disk[m_folder],
              \A x \in Names : listed'[File(m_folder, x)] = listed[File(m_folder, x)]
       PROVE  \E w \in BOOLEAN : FollowedBy(w)'
  <2>1. \A x \in Names : listed'[File(m_folder, x)] = list[x]
    BY <1>8, <1>10
  <2>2. FollowedBy(whole)'
    BY <1>4, <1>5, <1>7, <1>10, <2>1, ElsewhereTells
  <2> QED BY <2>2
<1>11. ASSUME NEW name \in Names, RemoveImage(folder, name)
       PROVE  \E w \in BOOLEAN : FollowedBy(w)'
  <2>1. /\ RemoveFile(folder, name) /\ RemoveImageFilename(File(folder, name))
        /\ File(folder, name) \in Paths /\ UNCHANGED m_folder
    BY <1>11 DEF RemoveImage, FindImage
  <2>2. /\ Report(folder, <<Record("REMOVED", name)>>)
        /\ UNCHANGED <<m_folder, m_folderNotifications, threadVars>> /\ disk'[m_folder] = disk[m_folder]
    BY <1>5, <2>1 DEF RemoveFile, queueVars
  <2>3. \A x \in Names : File(m_folder, x) # File(folder, name)
    BY <1>6
  <2>4. \A x \in Names : listed'[File(m_folder, x)] = listed[File(m_folder, x)]
    BY <1>9, <2>1, <2>3
  <2> QED BY <1>10, <2>2, <2>4
<1>12. ASSUME NEW name \in Names, RenameFails(folder, name)
       PROVE  \E w \in BOOLEAN : FollowedBy(w)'
  <2>1. /\ RenamedImage(File(folder, name), NoFile) /\ File(folder, name) \in Paths
        /\ UNCHANGED <<m_folder, m_folderNotifications, kernelVars, threadVars>> /\ disk' = disk
    BY <1>12 DEF RenameFails, FindImage, monitorVars, diskVars, queueVars
  <2>2. \A x \in Names : File(m_folder, x) # File(folder, name) /\ File(m_folder, x) # NoFile
    BY <1>6
  <2>3. \A x \in Names : listed'[File(m_folder, x)] = listed[File(m_folder, x)]
    BY <1>9, <2>1, <2>2
  <2>4. \A x \in Names : listed'[File(m_folder, x)] = list[x]
    BY <1>8, <2>3
  <2>5. \A x \in Names \ LostOf(astray', m_folder) :
            Wanted(disk'[m_folder] \cap Viewable, x) = Wanted(here, x)
    BY <1>3, <2>1
  <2>6. FollowedBy(whole)'
    BY <1>4, <1>7, <2>1, <2>4, <2>5, ThreadLeft
  <2> QED BY <2>6
<1>13. ASSUME NEW old \in Names, NEW new \in Names, RenameCurrent(folder, old, new)
       PROVE  \E w \in BOOLEAN : FollowedBy(w)'
  <2>1. /\ RenameFile(folder, old, new) /\ RenamedImage(File(folder, old), File(folder, new))
        /\ File(folder, old) \in Paths /\ UNCHANGED m_folder
    BY <1>13 DEF RenameCurrent, FindImage
  <2>2. /\ Report(folder, <<Record("RENAMED_OLD_NAME", old), Record("RENAMED_NEW_NAME", new)>>)
        /\ UNCHANGED <<m_folder, m_folderNotifications, threadVars>> /\ disk'[m_folder] = disk[m_folder]
    BY <1>5, <2>1 DEF RenameFile, queueVars
  <2>3. \A x \in Names : File(m_folder, x) # File(folder, old) /\ File(m_folder, x) # File(folder, new)
    BY <1>6
  <2>4. \A x \in Names : listed'[File(m_folder, x)] = listed[File(m_folder, x)]
    BY <1>9, <2>1, <2>3
  <2> QED BY <1>10, <2>2, <2>4
<1> QED BY <1>11, <1>12, <1>13

\* The user: opening a folder, removing and renaming.
LEMMA UserTells ==
    ASSUME Base, Base', m_folder \in Folders, UserStep,
           astray \cup Untold \cup Overwritten \cup Dropped \cup Disguised \cup AheadOfEvents \cup Nameless
             \subseteq astray',
           NEW whole \in BOOLEAN, FollowedBy(whole)
    PROVE  \E w \in BOOLEAN : FollowedBy(w)'
<1>1. ASSUME NEW folder \in Folders, SetImageLocation(folder)
      PROVE  \E w \in BOOLEAN : FollowedBy(w)'
  <2>1. PICK list : list = ListOf(listed, m_folder)
    OBVIOUS
  <2>2. PICK lost : lost = LostOf(astray, m_folder)
    OBVIOUS
  <2>3. PICK here : here = disk[m_folder] \cap Viewable
    OBVIOUS
  <2>4. UNCHANGED <<m_folder, m_folderNotifications, kernelVars, threadVars>> /\ disk' = disk /\ listed' = listed
    BY <1>1 DEF SetImageLocation, CloseHandles, diskVars, queueVars
  <2>5. Trust(whole) /\ Tells(whole, list, here, lost)
    BY <2>1, <2>2, <2>3 DEF FollowedBy
  <2>6. /\ \A x \in Names : listed'[File(m_folder, x)] = list[x]
        /\ lost \cap Names \subseteq LostOf(astray', m_folder)
        /\ \A x \in Names \ LostOf(astray', m_folder) :
               Wanted(disk'[m_folder] \cap Viewable, x) = Wanted(here, x)
    BY <2>1, <2>2, <2>3, <2>4 DEF ListOf, LostOf
  <2>7. FollowedBy(whole)'
    BY <2>4, <2>5, <2>6, ThreadLeft
  <2> QED BY <2>7
<1>2. ASSUME NEW folder \in Folders, NEW name \in Names, RemoveImage(folder, name)
      PROVE  \E w \in BOOLEAN : FollowedBy(w)'
  BY <1>2, RemovingTells, UserElsewhere
<1>3. ASSUME NEW folder \in Folders, NEW name \in Names, RenameFails(folder, name)
      PROVE  \E w \in BOOLEAN : FollowedBy(w)'
  BY <1>3, FailingTells, UserElsewhere
<1>4. ASSUME NEW folder \in Folders, NEW old \in Names, NEW new \in Names, RenameCurrent(folder, old, new)
      PROVE  \E w \in BOOLEAN : FollowedBy(w)'
  BY <1>4, RenamingTells, UserElsewhere
<1> QED BY <1>1, <1>2, <1>3, <1>4 DEF UserStep

-----------------------------------------------------------------------------
(* The thread.                                                             *)

\* A step of the thread that leaves the list, the disk and the notifications alone.
LEMMA ThreadKeepsTold ==
    ASSUME UNCHANGED <<m_folder, m_folderNotifications, listed, disk>>, astray \subseteq astray',
           NEW whole \in BOOLEAN, FollowedBy(whole), Trust(whole)',
           UnreadCount(whole)' = UnreadCount(whole),
           UnreadCount(whole) # 0 => UNCHANGED <<m_changes, FirstUnread, m_oldName>>,
           Recorded' = Recorded, Recorded # 0 => UNCHANGED changes,
           Junk(whole)' \cap Names \subseteq Junk(whole)
    PROVE  FollowedBy(whole)'
<1>1. PICK list : list = ListOf(listed, m_folder)
  OBVIOUS
<1>2. PICK here : here = disk[m_folder] \cap Viewable
  OBVIOUS
<1>3. PICK lost : lost = LostOf(astray, m_folder)
  OBVIOUS
<1>4. Tells(whole, list, here, lost)
  BY <1>1, <1>2, <1>3 DEF FollowedBy
<1>5. /\ \A name \in Names : listed'[File(m_folder, name)] = list[name]
      /\ lost \cap Names \subseteq LostOf(astray', m_folder)
      /\ \A name \in Names \ LostOf(astray', m_folder) :
             Wanted(disk'[m_folder] \cap Viewable, name) = Wanted(here, name)
      /\ UNCHANGED <<m_folder, m_folderNotifications>>
  BY <1>1, <1>2, <1>3 DEF ListOf, LostOf
<1> QED BY <1>4, <1>5, TellsStays

\* A thread that ends with nothing left to read.
LEMMA ReaderEnds ==
    ASSUME BufferInv, ~Processing, ~Fetched, changes = <<>>, monitor' = "exited",
           UNCHANGED <<m_folder, m_folderNotifications, listed, disk>>, astray \subseteq astray',
           NEW whole \in BOOLEAN, FollowedBy(whole)
    PROVE  FollowedBy(whole)'
<1>1. ~Reading'
  BY DEF Reading
<1>2. Trust(whole)' /\ UnreadCount(whole)' = 0 /\ Recorded' = 0 /\ Junk(whole)' = {}
  BY <1>1 DEF Trust, UnreadCount, Recorded, Junk
<1>3. UnreadCount(whole) = 0
  BY DEF UnreadCount, Filled
<1>4. Recorded = 0
  BY DEF Recorded
<1>5. Junk(whole)' \cap Names \subseteq Junk(whole)
  BY <1>2
<1> QED BY <1>2, <1>3, <1>4, <1>5, ThreadKeepsTold

\* The thread issues a read, and fetches what was recorded; or its handle is closed.
LEMMA IssuingTells ==
    ASSUME Base, Base', m_folder \in Folders, IssueRead, UNCHANGED <<m_folder, listed>>,
           astray \cup Overwritten \cup Dropped \subseteq astray', NEW whole \in BOOLEAN, FollowedBy(whole)
    PROVE  \E w \in BOOLEAN : FollowedBy(w)'
<1>1. /\ BufferInv /\ BufferInv' /\ RecordInv /\ RecordInv' /\ m_path = m_folder
      /\ changes \in Seq(Records)
  BY DEF Base, Monitored, BufferInv
<1>2. /\ monitor = "read" /\ UNCHANGED <<m_folder, m_folderNotifications, listed, disk>>
      /\ UNCHANGED <<m_oldName, offset>> /\ ~Processing
  BY DEF IssueRead, diskVars, queueVars, Processing
<1>3. CASE ~m_directory
  <2>1. monitor' = "exited" /\ UNCHANGED <<changes, packets>>
    BY <1>3 DEF IssueRead, kernelVars
  <2>2. CASE changes # <<>> \/ packets # <<>>
    <3>1. Files \subseteq astray'
      BY <2>1, <2>2 DEF Dropped
    <3>2. PICK w \in BOOLEAN : ~w
      OBVIOUS
    <3>3. m_folder' \in Folders
      BY <1>2
    <3>4. FollowedBy(w)'
      BY <1>1, <3>1, <3>2, <3>3, AllAstray
    <3> QED BY <3>4
  <2>3. CASE changes = <<>> /\ packets = <<>>
    <3>1. ~Fetched
      BY <2>3 DEF Fetched
    <3>2. FollowedBy(whole)'
      BY <1>1, <1>2, <2>1, <2>3, <3>1, ReaderEnds
    <3> QED BY <3>2
  <2> QED BY <2>2, <2>3
<1>4. CASE m_directory
  <2>1. monitor' = "waiting" /\ changes' = <<>>
    BY <1>4 DEF IssueRead
  <2>2. /\ Reading /\ Reading' /\ Reading' = Reading /\ ~Processing' /\ Processing' = Processing
        /\ FirstUnread = 1 /\ FirstUnread' = 1 /\ FirstUnread' = FirstUnread
        /\ ~OldNext /\ ~OldNext' /\ OldNext' = OldNext
    BY <1>2, <2>1 DEF Reading, Processing, FirstUnread, OldNext
  <2>3. CASE changes = Overflow
    <3>1. packets' = Append(packets, "empty") /\ m_changes' = m_changes
      BY <1>4, <2>3 DEF IssueRead, Complete, Overflow
    <3>2. packets \in Seq({"changes", "empty"})
      BY <1>1 DEF BufferInv
    <3>3. /\ DOMAIN packets = 1..Len(packets) /\ Len(packets) \in Nat
          /\ DOMAIN packets' = 1..Len(packets) + 1 /\ packets'[Len(packets) + 1] = "empty"
          /\ \A k \in 1..Len(packets) : packets'[k] = packets[k]
      BY <3>1, <3>2
    <3>4. \A k \in DOMAIN packets' : packets'[k] = "changes" => k \in DOMAIN packets /\ packets[k] = "changes"
      BY <3>3
    <3>5. \A k \in DOMAIN packets : k \in DOMAIN packets' /\ packets'[k] = packets[k]
      BY <3>3
    <3>6. Fetched' = Fetched /\ Filled' = Filled
      BY <2>2, <3>4, <3>5 DEF Fetched, Filled
    <3>7. Trust(whole)'
      <4>1. Trust(whole)
        BY DEF FollowedBy
      <4> QED BY <2>2, <3>1, <3>4, <3>6, <4>1 DEF Trust
    <3>8. UnreadCount(whole)' = UnreadCount(whole)
      BY <2>2, <3>1, <3>6 DEF UnreadCount
    <3>9. Recorded' = 0 /\ Recorded = 0
      BY <2>1, <2>3 DEF Recorded
    <3>10. Junk(whole)' \cap Names \subseteq Junk(whole)
      BY <2>2, <3>1 DEF Junk
    <3>11. FollowedBy(whole)'
      BY <1>2, <2>2, <3>1, <3>7, <3>8, <3>9, <3>10, ThreadKeepsTold
    <3> QED BY <3>11
  <2>4. CASE changes # <<>> /\ changes # Overflow
    <3>1. Complete(changes)
      BY <1>4, <2>4 DEF IssueRead
    <3>2. Paired(changes)
      BY <1>1, <2>4 DEF RecordInv
    <3>3. PICK records \in Seq(Records) : records = changes
      BY <1>1
    <3>4. PICK list : list = ListOf(listed, m_folder)
      OBVIOUS
    <3>5. PICK here : here = disk[m_folder] \cap Viewable
      OBVIOUS
    <3>6. PICK lost : lost = LostOf(astray, m_folder)
      OBVIOUS
    <3>7. Recorded = Len(records)
      BY <2>2, <2>4, <3>3 DEF Recorded
    <3>8. PICK E : E = RecordEvents(records, Len(records), m_folder)
      OBVIOUS
    <3>9. On(m_folderNotifications, Len(m_folderNotifications),
              UnreadEvents(m_changes, FirstUnread, UnreadCount(whole), m_oldName, m_folder), UnreadCount(whole),
              E, Len(records), m_folder, list, here, lost, Junk(whole))
      BY <3>3, <3>4, <3>5, <3>6, <3>7, <3>8 DEF FollowedBy, Tells
    <3>10. Trust(whole)
      BY DEF FollowedBy
    <3>11. /\ \A name \in Names : listed'[File(m_folder, name)] = list[name]
           /\ here = disk'[m_folder] \cap Viewable
           /\ lost \cap Names \subseteq LostOf(astray', m_folder)
      BY <1>2, <3>4, <3>5, <3>6 DEF ListOf, LostOf
    <3>12. records # Overflow /\ records # <<>> /\ Paired(records) /\ Complete(records)
      BY <2>4, <3>1, <3>2, <3>3
    <3>13. UNCHANGED <<m_folder, m_folderNotifications, m_oldName>> /\ Overwritten \subseteq astray'
      BY <1>2
    <3> QED BY <1>1, <2>1, <2>2, <3>8, <3>9, <3>10, <3>11, <3>12, <3>13, CompletedTells
  <2>5. CASE changes = <<>>
    <3>1. UNCHANGED <<packets, m_changes, changes>>
      BY <1>4, <2>1, <2>5 DEF IssueRead
    <3>2. Fetched' = Fetched /\ Filled' = Filled
      BY <2>2, <3>1 DEF Fetched, Filled
    <3>3. Trust(whole)'
      <4>1. Trust(whole)
        BY DEF FollowedBy
      <4> QED BY <2>2, <3>1, <3>2, <4>1 DEF Trust
    <3>4. UnreadCount(whole)' = UnreadCount(whole) /\ Recorded' = Recorded /\ Junk(whole)' = Junk(whole)
      BY <2>2, <3>1, <3>2 DEF UnreadCount, Recorded, Junk
    <3>5. Junk(whole)' \cap Names \subseteq Junk(whole)
      BY <3>4
    <3>6. FollowedBy(whole)'
      BY <1>2, <2>2, <3>1, <3>3, <3>4, <3>5, ThreadKeepsTold
    <3> QED BY <3>6
  <2> QED BY <2>3, <2>4, <2>5
<1> QED BY <1>3, <1>4

\* The thread finds the folder gone, and tells so.
LEMMA EndingTells ==
    ASSUME Base, m_folder \in Folders, FolderDeleted, UNCHANGED <<m_folder, listed>>,
           astray \subseteq astray', NEW whole \in BOOLEAN, FollowedBy(whole)
    PROVE  \E w \in BOOLEAN : FollowedBy(w)'
<1>1. PICK N : N = m_folderNotifications
  OBVIOUS
<1>2. PICK n : n = Len(m_folderNotifications)
  OBVIOUS
<1>3. PICK u : u = UnreadCount(whole)
  OBVIOUS
<1>4. PICK c : c = Recorded
  OBVIOUS
<1>5. PICK U : U = UnreadEvents(m_changes, FirstUnread, UnreadCount(whole), m_oldName, m_folder)
  OBVIOUS
<1>6. PICK E : E = RecordEvents(changes, Recorded, m_folder)
  OBVIOUS
<1>7. PICK folder : folder = m_folder
  OBVIOUS
<1>8. PICK junk : junk = Junk(whole)
  OBVIOUS
<1>9. PICK list : list = ListOf(listed, m_folder)
  OBVIOUS
<1>10. PICK here : here = disk[m_folder] \cap Viewable
  OBVIOUS
<1>11. PICK lost : lost = LostOf(astray, m_folder)
  OBVIOUS
<1>12. On(N, n, U, u, E, c, folder, list, here, lost, junk)
  BY <1>1, <1>2, <1>3, <1>4, <1>5, <1>6, <1>7, <1>8, <1>9, <1>10, <1>11 DEF FollowedBy, Tells
<1>13. PICK event : event = Event("MonitoredFolderDeleted", NoName, NoName)
  OBVIOUS
<1>14. /\ m_folderNotifications' = Append(N, event) /\ monitor' = "leaving" /\ disk' = disk
       /\ m_path \notin folders
  BY <1>1, <1>13 DEF FolderDeleted, AddNotification, diskVars
<1>15. m_path = m_folder /\ N \in Seq(Notifications)
  BY <1>1 DEF Base, Monitored, RecordInv
<1>16. PICK N2 : N2 = m_folderNotifications'
  OBVIOUS
<1>17. Len(N2) = n + 1 /\ N2[n + 1] = event /\ \A i \in 1..n : N2[i] = N[i]
  BY <1>1, <1>2, <1>14, <1>15, <1>16
<1>18. Deletes(N2[n + 1], folder)
  BY <1>7, <1>13, <1>15, <1>17 DEF Event, Deletes
<1>19. \A name \in Names : Wanted(here, name) = 0
  BY <1>10, <1>14, <1>15 DEF Base, DiskInv, Wanted
<1>20. ~Reading'
  BY <1>14 DEF Reading
<1>21. Trust(whole)' /\ UnreadCount(whole)' = 0 /\ Recorded' = 0 /\ Junk(whole)' = {}
  BY <1>20 DEF Trust, UnreadCount, Recorded, Junk
<1>22. PICK U2 : U2 = UnreadEvents(m_changes, FirstUnread, UnreadCount(whole), m_oldName, m_folder)'
  OBVIOUS
<1>23. PICK E2 : E2 = RecordEvents(changes, Recorded, m_folder)'
  OBVIOUS
<1>24. On(N2, n + 1, U2, 0, E2, 0, folder, list, here, lost, {})
  BY ONLY <1>12, <1>17, <1>18, <1>19, OnEnds
<1>25. PICK lost2 : lost2 = LostOf(astray', m_folder)
  OBVIOUS
<1>26. On(N2, n + 1, U2, 0, E2, 0, folder, list, here, lost2, {})
  <2>1. lost \cap Names \subseteq lost2
    BY <1>11, <1>25 DEF LostOf
  <2>2. PICK m : m = n + 1
    OBVIOUS
  <2>3. PICK none : none = 0
    OBVIOUS
  <2>4. PICK junk2 : junk2 = {}
    OBVIOUS
  <2>5. /\ \A i \in 1..m : N2[i] = N2[i]
        /\ \A k \in 1..none : U2[k] = U2[k]
        /\ \A k \in 1..none : E2[k] = E2[k]
        /\ \A name \in Names : list[name] = list[name]
        /\ \A name \in Names \ lost2 : Wanted(here, name) = Wanted(here, name)
        /\ junk2 \cap Names \subseteq junk2
    OBVIOUS
  <2>6. On(N2, m, U2, none, E2, none, folder, list, here, lost, junk2)
    BY <1>24, <2>2, <2>3, <2>4
  <2>7. On(N2, m, U2, none, E2, none, folder, list, here, lost2, junk2)
    BY ONLY <2>1, <2>5, <2>6, OnStays
  <2> QED BY <2>2, <2>3, <2>4, <2>7
<1>27. Tells(whole, ListOf(listed, m_folder), disk[m_folder] \cap Viewable, LostOf(astray, m_folder))'
  BY <1>7, <1>9, <1>10, <1>14, <1>16, <1>17, <1>21, <1>22, <1>23, <1>25, <1>26 DEF Tells
<1>28. FollowedBy(whole)'
  BY <1>21, <1>27 DEF FollowedBy
<1> QED BY <1>28

\* The thread waits again: there was no packet.
LEMMA WaitingTells ==
    ASSUME Base, Timeout, UNCHANGED <<m_folder, listed>>,
           astray \subseteq astray', NEW whole \in BOOLEAN, FollowedBy(whole)
    PROVE  \E w \in BOOLEAN : FollowedBy(w)'
<1>1. /\ monitor = "waiting" /\ monitor' = "read"
      /\ UNCHANGED <<m_folder, m_folderNotifications, listed, disk>>
      /\ UNCHANGED <<m_oldName, offset, packets, m_changes, changes>>
  BY DEF Timeout, diskVars, queueVars, kernelVars
<1>2. /\ Reading' = Reading /\ Processing' = Processing /\ FirstUnread' = FirstUnread /\ OldNext' = OldNext
  BY <1>1 DEF Reading, Processing, FirstUnread, OldNext
<1>3. Fetched' = Fetched /\ Filled' = Filled
  BY <1>1, <1>2 DEF Fetched, Filled
<1>4. Trust(whole)'
  <2>1. Trust(whole)
    BY DEF FollowedBy
  <2> QED BY <1>1, <1>2, <1>3, <2>1 DEF Trust
<1>5. UnreadCount(whole)' = UnreadCount(whole) /\ Recorded' = Recorded /\ Junk(whole)' = Junk(whole)
  BY <1>1, <1>2, <1>3 DEF UnreadCount, Recorded, Junk
<1>6. Junk(whole)' \cap Names \subseteq Junk(whole)
  BY <1>5
<1>7. FollowedBy(whole)'
  BY <1>1, <1>2, <1>4, <1>5, <1>6, ThreadKeepsTold
<1> QED BY <1>7

\* The thread takes the completed read.
LEMMA TakingTells ==
    ASSUME Base, Base', m_folder \in Folders, TakePacket, UNCHANGED <<m_folder, listed>>,
           astray \cup Dropped \subseteq astray', NEW whole \in BOOLEAN, FollowedBy(whole)
    PROVE  \E w \in BOOLEAN : FollowedBy(w)'
<1>1. /\ BufferInv /\ BufferInv' /\ RecordInv' /\ Linked(m_changes) /\ packets \in Seq({"changes", "empty"})
  BY DEF Base, BufferInv, RecordInv
<1>2. /\ monitor = "waiting" /\ packets # <<>> /\ packets' = Tail(packets) /\ offset' = 1
      /\ UNCHANGED <<m_folder, m_folderNotifications, listed, disk>>
      /\ UNCHANGED <<m_oldName, m_changes, changes>> /\ ~Processing
      /\ monitor' = IF Head(packets) = "empty" THEN "exited" ELSE "processing"
  BY DEF TakePacket, diskVars, queueVars, Processing
<1>3. /\ Len(packets) \in Nat \ {0} /\ DOMAIN packets = 1..Len(packets) /\ Head(packets) = packets[1]
      /\ packets[1] \in {"changes", "empty"}
      /\ Len(packets') = Len(packets) - 1 /\ DOMAIN packets' = 1..(Len(packets) - 1)
      /\ \A k \in 1..(Len(packets) - 1) : packets'[k] = packets[k + 1]
  BY <1>1, <1>2
<1>4. CASE packets[1] = "empty"
  <2>1. monitor' = "exited"
    BY <1>2, <1>3, <1>4
  <2>2. CASE changes # <<>> \/ packets' # <<>>
    <3>1. Files \subseteq astray'
      BY <1>2, <2>1, <2>2 DEF Dropped
    <3>2. PICK w \in BOOLEAN : ~w
      OBVIOUS
    <3>3. m_folder' \in Folders
      OBVIOUS
    <3>4. FollowedBy(w)'
      BY <1>1, <3>1, <3>2, <3>3, AllAstray
    <3> QED BY <3>4
  <2>3. CASE changes = <<>> /\ packets' = <<>>
    <3>1. Len(packets) = 1
      <4>1. Len(packets') = 0
        BY <2>3
      <4>2. PICK l \in Nat : l = Len(packets)
        BY <1>3
      <4>3. l = 1
        BY <1>3, <4>1, <4>2
      <4> QED BY <4>2, <4>3
    <3>2. ~Fetched
      BY <1>3, <1>4, <3>1 DEF Fetched
    <3>3. FollowedBy(whole)'
      BY <1>1, <1>2, <2>1, <2>3, <3>2, ReaderEnds
    <3> QED BY <3>3
  <2> QED BY <2>2, <2>3
<1>5. CASE packets[1] = "changes"
  <2>1. monitor' = "processing"
    BY <1>2, <1>3, <1>5
  <2>2. /\ Reading /\ Reading' /\ Processing' /\ FirstUnread = 1 /\ FirstUnread' = 1
        /\ Fetched /\ Filled /\ Filled' /\ ~OldNext
    BY <1>2, <1>3, <1>5, <2>1 DEF Reading, Processing, FirstUnread, Fetched, Filled, OldNext
  <2>3. ~OldNext'
    BY <1>1, <1>2, <2>2 DEF OldNext, Linked
  <2>4. Trust(whole)
    BY DEF FollowedBy
  <2>5. whole => ~Fetched'
    <3>1. ASSUME whole, NEW k \in DOMAIN packets', packets'[k] = "changes" PROVE FALSE
      <4>1. k + 1 \in DOMAIN packets /\ 1 \in DOMAIN packets /\ k + 1 # 1 /\ packets[k + 1] = "changes"
        BY <1>3, <3>1
      <4> QED BY <1>5, <2>2, <2>4, <3>1, <4>1 DEF Trust
    <3> QED BY <3>1 DEF Fetched
  <2>6. Trust(whole)'
    BY <1>2, <2>2, <2>4, <2>5 DEF Trust, Fetched
  <2>7. UnreadCount(whole)' = UnreadCount(whole)
    BY <1>2, <2>2 DEF UnreadCount
  <2>8. Recorded' = Recorded
    BY <1>2, <2>2 DEF Recorded
  <2>9. Junk(whole)' \cap Names \subseteq Junk(whole)
    BY <1>2, <2>2, <2>3 DEF Junk
  <2>10. FollowedBy(whole)'
    BY <1>2, <2>2, <2>6, <2>7, <2>8, <2>9, ThreadKeepsTold
  <2> QED BY <2>10
<1> QED BY <1>3, <1>4, <1>5

\* The thread remembers the old name of a rename.
LEMMA RememberingTells ==
    ASSUME Base, m_folder \in Folders, RememberOldName, UNCHANGED <<m_folder, listed>>,
           astray \subseteq astray', NEW whole \in BOOLEAN, FollowedBy(whole)
    PROVE  \E w \in BOOLEAN : FollowedBy(w)'
<1>1. /\ m_changes \in Seq(Records) /\ offset \in DOMAIN m_changes /\ monitor = "processing"
      /\ UNCHANGED <<m_folder, m_folderNotifications, listed, disk>>
      /\ UNCHANGED <<m_changes, packets, changes>>
      /\ m_changes[offset].action = "RENAMED_OLD_NAME" /\ m_oldName' = m_changes[offset].name
      /\ NextRecord /\ Linked(m_changes)
  BY DEF Base, BufferInv, StaysInBuffer, Processing, RememberOldName, diskVars, kernelVars, queueVars, RecordInv
<1>2. Len(m_changes) \in Nat /\ DOMAIN m_changes = 1..Len(m_changes) /\ m_changes[offset].more \in BOOLEAN
  <2>1. Len(m_changes) \in Nat /\ DOMAIN m_changes = 1..Len(m_changes)
    BY <1>1
  <2>2. m_changes[offset].more \in BOOLEAN
    <3>1. m_changes[offset] \in Records
      BY <1>1
    <3> QED BY <3>1 DEF Records
  <2> QED BY <2>1, <2>2
<1>3. Fetched' = Fetched
  BY <1>1 DEF Fetched
<1>4. Reading /\ Processing /\ FirstUnread = offset /\ Filled
  BY <1>1 DEF Reading, Processing, FirstUnread, Filled
<1>5. Trust(whole)
  BY DEF FollowedBy
<1>6. m_changes[offset].more => /\ monitor' = "processing" /\ offset' = offset + 1
                                /\ Reading' /\ Processing' /\ FirstUnread' = offset + 1 /\ Filled'
  BY <1>1 DEF NextRecord, Reading, Processing, FirstUnread, Filled
<1>7. ~m_changes[offset].more => /\ monitor' = "read" /\ Reading' /\ ~Processing' /\ FirstUnread' = 1
  BY <1>1 DEF NextRecord, Reading, Processing, FirstUnread
<1>8. Reading'
  BY <1>2, <1>6, <1>7
<1>9. Recorded' = Recorded
  BY <1>1, <1>4, <1>8 DEF Recorded
<1>10. Trust(whole)'
  BY <1>1, <1>3, <1>4, <1>5, <1>8 DEF Trust, Filled
<1>11. CASE ~whole
  <2>1. UnreadCount(whole) = 0 /\ UnreadCount(whole)' = 0
    BY <1>11 DEF UnreadCount
  <2>2. Junk(whole)' \cap Names \subseteq Junk(whole)
    BY <1>1, <1>4, <1>8, <1>11 DEF Junk
  <2>3. FollowedBy(whole)'
    BY <1>1, <1>9, <1>10, <2>1, <2>2, ThreadKeepsTold
  <2> QED BY <2>3
<1>12. CASE whole
  <2>1. ~Fetched /\ ~Fetched' /\ (m_changes[offset].more <=> offset < Len(m_changes))
    BY <1>1, <1>3, <1>4, <1>5, <1>12 DEF Trust
  <2>2. PICK u : u = UnreadCount(whole)
    OBVIOUS
  <2>3. u = Len(m_changes) - offset + 1 /\ u \in Nat /\ u > 0
    BY <1>1, <1>2, <1>4, <1>12, <2>2 DEF UnreadCount
  <2>4. UnreadCount(whole)' = u - 1
    <3>1. CASE m_changes[offset].more
      BY <1>1, <1>2, <1>6, <1>12, <2>3, <3>1 DEF UnreadCount
    <3>2. CASE ~m_changes[offset].more
      <4>1. ~Filled'
        BY <1>7, <2>1, <3>2 DEF Filled
      <4>2. UnreadCount(whole)' = 0
        BY <4>1 DEF UnreadCount
      <4>3. offset = Len(m_changes)
        BY <1>1, <1>2, <2>1, <3>2
      <4> QED BY <1>2, <2>3, <4>2, <4>3
    <3> QED BY <3>1, <3>2
  <2>5. PICK U : U = UnreadEvents(m_changes, FirstUnread, u, m_oldName, m_folder)
    OBVIOUS
  <2>6. PICK U2 : U2 = UnreadEvents(m_changes', FirstUnread', u - 1, m_oldName', m_folder)
    OBVIOUS
  <2>7. \A name \in Names : ~Concerns(U[1], m_folder, name)
    <3>1. offset + 1 - 1 = offset /\ 1 \in 1..u
      BY <1>1, <1>2, <2>3
    <3>2. U[1] = ToldBy(m_folder, m_changes[offset], m_oldName)
      BY <1>4, <2>5, <3>1 DEF UnreadEvents
    <3> QED BY <1>1, <3>2, ToldIs
  <2>8. \A k \in 1..(u - 1) : U2[k] = U[k + 1]
    <3>1. ASSUME NEW k \in 1..(u - 1) PROVE U2[k] = U[k + 1]
      <4>1. k + 1 \in 1..u /\ k + 1 # 1 /\ k \in Nat /\ u - 1 > 0
        BY <2>3
      <4>2. offset < Len(m_changes)
        BY <1>1, <1>2, <2>3, <4>1
      <4>3. FirstUnread' = offset + 1 /\ FirstUnread = offset
        BY <1>4, <1>6, <2>1, <4>2
      <4>4. offset + 1 + k - 1 = offset + k /\ offset + (k + 1) - 1 = offset + k
            /\ offset + 1 + k - 2 = offset + k - 1 /\ offset + (k + 1) - 2 = offset + k - 1
            /\ (k = 1 => offset + k - 1 = offset)
        BY <1>1, <1>2, <4>1
      <4>5. PICK record : record = m_changes[offset + k]
        OBVIOUS
      <4>6. PICK old : old = m_changes[offset + k - 1].name
        OBVIOUS
      <4>7. U[k + 1] = ToldBy(m_folder, record, old)
        <5>1. U[k + 1] = ToldBy(m_folder, m_changes[FirstUnread + (k + 1) - 1],
                                IF k + 1 = 1 THEN m_oldName ELSE m_changes[FirstUnread + (k + 1) - 2].name)
          BY <2>5, <4>1 DEF UnreadEvents
        <5> QED BY <4>1, <4>3, <4>4, <4>5, <4>6, <5>1
      <4>8. U2[k] = ToldBy(m_folder, record, old)
        <5>1. U2[k] = ToldBy(m_folder, m_changes'[FirstUnread' + k - 1],
                             IF k = 1 THEN m_oldName' ELSE m_changes'[FirstUnread' + k - 2].name)
          BY <2>6 DEF UnreadEvents
        <5> QED BY <1>1, <4>3, <4>4, <4>5, <4>6, <5>1
      <4> QED BY <4>7, <4>8
    <3> QED BY <3>1
  <2>9. PICK N : N = m_folderNotifications
    OBVIOUS
  <2>10. PICK n : n = Len(m_folderNotifications)
    OBVIOUS
  <2>11. PICK c : c = Recorded
    OBVIOUS
  <2>12. PICK E : E = RecordEvents(changes, Recorded, m_folder)
    OBVIOUS
  <2>13. PICK folder : folder = m_folder
    OBVIOUS
  <2>14. PICK list : list = ListOf(listed, m_folder)
    OBVIOUS
  <2>15. PICK here : here = disk[m_folder] \cap Viewable
    OBVIOUS
  <2>16. PICK lost : lost = LostOf(astray, m_folder)
    OBVIOUS
  <2>17. PICK lost2 : lost2 = LostOf(astray', m_folder)
    OBVIOUS
  <2>18. Junk(whole) = {} /\ Junk(whole)' = {}
    BY <1>12 DEF Junk
  <2>19. On(N, n, U, u, E, c, folder, list, here, lost, {})
    BY <2>2, <2>5, <2>9, <2>10, <2>11, <2>12, <2>13, <2>14, <2>15, <2>16, <2>18 DEF FollowedBy, Tells
  <2>20. \A name \in Names : ~Concerns(U[1], folder, name)
    BY <2>7, <2>13
  <2>21. On(N, n, U2, u - 1, E, c, folder, list, here, lost, {})
    <3>1. u > 0
      BY <2>3
    <3> QED BY ONLY <2>8, <2>19, <2>20, <3>1, OnRemembers
  <2>22. On(N, n, U2, u - 1, E, c, folder, list, here, lost2, {})
    <3>1. lost \cap Names \subseteq lost2
      BY <2>16, <2>17 DEF LostOf
    <3>2. PICK v : v = u - 1
      OBVIOUS
    <3>3. On(N, n, U2, v, E, c, folder, list, here, lost, {})
      BY <2>21, <3>2
    <3>4. /\ \A i \in 1..n : N[i] = N[i]
          /\ \A k \in 1..v : U2[k] = U2[k]
          /\ \A k \in 1..c : E[k] = E[k]
          /\ \A name \in Names : list[name] = list[name]
          /\ \A name \in Names \ lost2 : Wanted(here, name) = Wanted(here, name)
          /\ {} \cap Names \subseteq {}
      OBVIOUS
    <3>5. On(N, n, U2, v, E, c, folder, list, here, lost2, {})
      BY ONLY <3>1, <3>3, <3>4, OnStays
    <3> QED BY <3>2, <3>5
  <2>23. Tells(whole, ListOf(listed, m_folder), disk[m_folder] \cap Viewable, LostOf(astray, m_folder))'
    BY <1>1, <1>9, <2>4, <2>6, <2>9, <2>10, <2>11, <2>12, <2>13, <2>14, <2>15, <2>17, <2>18, <2>22 DEF Tells
  <2>24. FollowedBy(whole)'
    BY <1>10, <2>23 DEF FollowedBy
  <2> QED BY <2>24
<1> QED BY <1>11, <1>12

\* The thread tells of a record.
LEMMA SendingTells ==
    ASSUME Base, m_folder \in Folders, ProcessNotification, UNCHANGED <<m_folder, listed>>,
           astray \subseteq astray', NEW whole \in BOOLEAN, FollowedBy(whole)
    PROVE  \E w \in BOOLEAN : FollowedBy(w)'
<1>1. /\ m_changes \in Seq(Records) /\ offset \in DOMAIN m_changes /\ monitor = "processing"
      /\ monitor' = "notifying" /\ m_path = m_folder
      /\ UNCHANGED <<m_folder, listed, disk>>
      /\ UNCHANGED <<m_changes, packets, changes, m_oldName, offset>>
      /\ m_changes[offset].action # "RENAMED_OLD_NAME"
      /\ m_folderNotifications' = Append(m_folderNotifications, EventOf(m_changes[offset]))
      /\ Linked(m_changes) /\ m_folderNotifications \in Seq(Notifications)
  BY DEF Base, BufferInv, StaysInBuffer, Processing, ProcessNotification, AddNotification,
         diskVars, kernelVars, RecordInv, Monitored
<1>2. Len(m_changes) \in Nat /\ DOMAIN m_changes = 1..Len(m_changes)
  BY <1>1
<1>3. /\ Reading /\ Processing /\ FirstUnread = offset /\ Filled
      /\ Reading' /\ Processing' /\ FirstUnread' = offset + 1 /\ Filled' /\ Fetched' = Fetched
  BY <1>1 DEF Reading, Processing, FirstUnread, Filled, Fetched
<1>4. Trust(whole)
  BY DEF FollowedBy
<1>5. Recorded' = Recorded
  BY <1>1, <1>3 DEF Recorded
<1>6. Trust(whole)'
  BY <1>1, <1>3, <1>4 DEF Trust
\* No new name follows what the thread goes on from.
<1>7. m_changes[offset].more => offset + 1 \in DOMAIN m_changes /\ ~Renames(m_changes[offset + 1])
  <2>1. m_changes[offset].more => offset + 1 \in DOMAIN m_changes
    BY <1>1 DEF Base, BufferInv
  <2>2. offset + 1 - 1 = offset
    BY <1>1, <1>2
  <2> QED BY <1>1, <2>1, <2>2 DEF Linked
<1>8. PICK N : N = m_folderNotifications
  OBVIOUS
<1>9. PICK n : n = Len(m_folderNotifications)
  OBVIOUS
<1>10. PICK c : c = Recorded
  OBVIOUS
<1>11. PICK E : E = RecordEvents(changes, Recorded, m_folder)
  OBVIOUS
<1>12. PICK folder : folder = m_folder
  OBVIOUS
<1>13. PICK list : list = ListOf(listed, m_folder)
  OBVIOUS
<1>14. PICK here : here = disk[m_folder] \cap Viewable
  OBVIOUS
<1>15. PICK lost : lost = LostOf(astray, m_folder)
  OBVIOUS
<1>16. PICK lost2 : lost2 = LostOf(astray', m_folder)
  OBVIOUS
<1>17. PICK u : u = UnreadCount(whole)
  OBVIOUS
<1>18. PICK U : U = UnreadEvents(m_changes, FirstUnread, u, m_oldName, m_folder)
  OBVIOUS
<1>19. PICK v : v = UnreadCount(whole)'
  OBVIOUS
<1>20. PICK U2 : U2 = UnreadEvents(m_changes', FirstUnread', v, m_oldName', m_folder)
  OBVIOUS
<1>21. PICK junk : junk = Junk(whole)
  OBVIOUS
<1>22. PICK junk2 : junk2 = Junk(whole)'
  OBVIOUS
<1>23. On(N, n, U, u, E, c, folder, list, here, lost, junk)
  BY <1>8, <1>9, <1>10, <1>11, <1>12, <1>13, <1>14, <1>15, <1>17, <1>18, <1>21 DEF FollowedBy, Tells
<1>24. PICK N2 : N2 = m_folderNotifications'
  OBVIOUS
<1>25. PICK record : record = m_changes[offset]
  OBVIOUS
<1>26. Len(N2) = n + 1 /\ N2[n + 1] = ToldBy(m_folder, record, m_oldName) /\ \A i \in 1..n : N2[i] = N[i]
  <2>1. PICK event : event = EventOf(record)
    OBVIOUS
  <2>2. event = ToldBy(m_folder, record, m_oldName)
    BY <1>1, <1>25, <2>1, ToldByThread
  <2>3. m_folderNotifications' = Append(m_folderNotifications, event)
    BY <1>1, <1>25, <2>1
  <2>4. Len(N2) = n + 1 /\ N2[n + 1] = event /\ \A i \in 1..n : N2[i] = N[i]
    BY <1>1, <1>8, <1>9, <1>24, <2>3
  <2> QED BY <2>2, <2>4
<1>27. On(N2, n + 1, U2, v, E, c, folder, list, here, lost, junk2)
  <2>1. CASE ~whole
    <3>1. u = 0 /\ v = 0
      BY <1>17, <1>19, <2>1 DEF UnreadCount
    <3>2. ASSUME NEW name \in Names, Concerns(N2[n + 1], folder, name) PROVE name \in junk
      <4>1. name = record.name \/ (Renames(record) /\ name = m_oldName)
        BY <1>12, <1>26, <3>2, ToldIs
      <4>2. Renames(record) => OldNext
        BY <1>1, <1>3, <1>25 DEF OldNext
      <4> QED BY <1>1, <1>3, <1>21, <1>25, <2>1, <4>1, <4>2 DEF Junk
    <3>3. ~OldNext'
      <4>1. OldNext' => m_changes[offset].more /\ Renames(m_changes[offset + 1])
        BY <1>1, <1>3 DEF OldNext
      <4> QED BY <1>7, <4>1
    <3>4. junk2 \cap Names \subseteq junk
      BY <1>1, <1>3, <1>21, <1>22, <2>1, <3>3 DEF Junk
    <3>5. On(N, n, U, 0, E, c, folder, list, here, lost, junk)
      BY <1>23, <3>1
    <3>6. (\A i \in 1..n : N2[i] = N[i]) /\ \A name \in Names : Concerns(N2[n + 1], folder, name) => name \in junk
      BY <1>26, <3>2
    <3>7. On(N2, n + 1, U2, 0, E, c, folder, list, here, lost, junk2)
      BY ONLY <3>4, <3>5, <3>6, OnTellsJunk
    <3> QED BY <3>1, <3>7
  <2>2. CASE whole
    <3>1. m_changes[offset].more <=> offset < Len(m_changes)
      BY <1>1, <1>3, <1>4, <2>2 DEF Trust
    <3>2. u = Len(m_changes) - offset + 1 /\ u \in Nat /\ u > 0 /\ v = u - 1
      BY <1>1, <1>2, <1>3, <1>17, <1>19, <2>2 DEF UnreadCount
    <3>3. junk = {} /\ junk2 = {}
      BY <1>21, <1>22, <2>2 DEF Junk
    <3>4. U[1] = ToldBy(m_folder, record, m_oldName)
      <4>1. offset + 1 - 1 = offset /\ 1 \in 1..u
        BY <1>1, <1>2, <3>2
      <4> QED BY <1>3, <1>18, <1>25, <4>1 DEF UnreadEvents
    <3>5. \A k \in 1..v : U2[k] = U[k + 1]
      <4>1. ASSUME NEW k \in 1..v PROVE U2[k] = U[k + 1]
        <5>1. k + 1 \in 1..u /\ k + 1 # 1 /\ k \in Nat /\ u - 1 > 0 /\ k \in 1..(u - 1)
          BY <3>2
        <5>2. offset < Len(m_changes)
          BY <1>1, <1>2, <3>2, <5>1
        <5>3. offset + 1 + k - 1 = offset + k /\ offset + (k + 1) - 1 = offset + k
              /\ offset + 1 + k - 2 = offset + k - 1 /\ offset + (k + 1) - 2 = offset + k - 1
              /\ (k = 1 => offset + k = offset + 1)
          BY <1>1, <1>2, <5>1
        <5>4. PICK next : next = m_changes[offset + k]
          OBVIOUS
        <5>5. PICK old : old = m_changes[offset + k - 1].name
          OBVIOUS
        <5>6. PICK old2 : old2 = IF k = 1 THEN m_oldName ELSE old
          OBVIOUS
        <5>7. U[k + 1] = ToldBy(m_folder, next, old)
          <6>1. U[k + 1] = ToldBy(m_folder, m_changes[FirstUnread + (k + 1) - 1],
                                  IF k + 1 = 1 THEN m_oldName ELSE m_changes[FirstUnread + (k + 1) - 2].name)
            BY <1>18, <5>1 DEF UnreadEvents
          <6> QED BY <1>3, <5>1, <5>3, <5>4, <5>5, <6>1
        <5>8. U2[k] = ToldBy(m_folder, next, old2)
          <6>1. U2[k] = ToldBy(m_folder, m_changes'[FirstUnread' + k - 1],
                               IF k = 1 THEN m_oldName' ELSE m_changes'[FirstUnread' + k - 2].name)
            BY <1>20 DEF UnreadEvents
          <6> QED BY <1>1, <1>3, <5>3, <5>4, <5>5, <5>6, <6>1
        <5>9. Renames(next) => old = old2
          <6>1. CASE k = 1
            BY <1>7, <3>1, <5>2, <5>3, <5>4, <6>1
          <6>2. CASE k # 1
            BY <5>6, <6>2
          <6> QED BY <6>1, <6>2
        <5> QED BY <5>7, <5>8, <5>9, ToldAlike
      <4> QED BY <4>1
    <3>6. N2[n + 1] = U[1] /\ \A i \in 1..n : N2[i] = N[i]
      BY <1>26, <3>4
    <3>7. On(N2, n + 1, U2, v, E, c, folder, list, here, lost, junk)
      <4>1. \A k \in 1..(u - 1) : U2[k] = U[k + 1]
        BY <3>2, <3>5
      <4>2. u > 0
        BY <3>2
      <4>3. On(N2, n + 1, U2, u - 1, E, c, folder, list, here, lost, junk)
        BY ONLY <1>23, <3>6, <4>1, <4>2, OnTells
      <4> QED BY <3>2, <4>3
    <3> QED BY <3>3, <3>7
  <2> QED BY <2>1, <2>2
<1>28. On(N2, n + 1, U2, v, E, c, folder, list, here, lost2, junk2)
  <2>1. lost \cap Names \subseteq lost2
    BY <1>15, <1>16 DEF LostOf
  <2>2. PICK m : m = n + 1
    OBVIOUS
  <2>3. On(N2, m, U2, v, E, c, folder, list, here, lost, junk2)
    BY <1>27, <2>2
  <2>4. /\ \A i \in 1..m : N2[i] = N2[i]
        /\ \A k \in 1..v : U2[k] = U2[k]
        /\ \A k \in 1..c : E[k] = E[k]
        /\ \A name \in Names : list[name] = list[name]
        /\ \A name \in Names \ lost2 : Wanted(here, name) = Wanted(here, name)
        /\ junk2 \cap Names \subseteq junk2
    OBVIOUS
  <2>5. On(N2, m, U2, v, E, c, folder, list, here, lost2, junk2)
    BY ONLY <2>1, <2>3, <2>4, OnStays
  <2> QED BY <2>2, <2>5
<1>29. Tells(whole, ListOf(listed, m_folder), disk[m_folder] \cap Viewable, LostOf(astray, m_folder))'
  BY <1>1, <1>5, <1>10, <1>11, <1>12, <1>13, <1>14, <1>16, <1>19, <1>20, <1>22, <1>24, <1>26, <1>28 DEF Tells
<1>30. FollowedBy(whole)'
  BY <1>6, <1>29 DEF FollowedBy
<1> QED BY <1>30

\* The thread has told of it, and goes on.
LEMMA QueueingTells ==
    ASSUME Base, m_folder \in Folders, QueueEvent, UNCHANGED <<m_folder, listed>>,
           astray \subseteq astray', NEW whole \in BOOLEAN, FollowedBy(whole)
    PROVE  \E w \in BOOLEAN : FollowedBy(w)'
<1>1. /\ UNCHANGED <<m_folder, m_folderNotifications, listed, disk>>
      /\ UNCHANGED <<m_changes, packets, changes, m_oldName>>
  BY DEF QueueEvent, diskVars, kernelVars
<1>2. Fetched' = Fetched
  BY <1>1 DEF Fetched
<1>3. Trust(whole)
  BY DEF FollowedBy
<1>4. CASE monitor = "leaving"
  <2>1. monitor' = "exited"
    BY <1>4 DEF QueueEvent
  <2>2. ~Reading /\ ~Reading'
    BY <1>4, <2>1 DEF Reading
  <2>3. /\ Trust(whole)' /\ UnreadCount(whole)' = 0 /\ Recorded' = 0 /\ Junk(whole)' = {}
        /\ UnreadCount(whole) = 0 /\ Recorded = 0
    BY <2>2 DEF Trust, UnreadCount, Recorded, Junk
  <2>4. Junk(whole)' \cap Names \subseteq Junk(whole)
    BY <2>3
  <2>5. FollowedBy(whole)'
    BY <1>1, <2>3, <2>4, ThreadKeepsTold
  <2> QED BY <2>5
<1>5. CASE monitor = "notifying"
  <2>1. NextRecord /\ offset \in DOMAIN m_changes /\ m_changes \in Seq(Records)
    BY <1>5 DEF QueueEvent, Base, BufferInv, StaysInBuffer, Processing
  <2>2. Reading /\ Processing /\ FirstUnread = offset + 1 /\ Filled
    BY <1>5 DEF Reading, Processing, FirstUnread, Filled
  <2>3. CASE m_changes[offset].more
    <3>1. monitor' = "processing" /\ offset' = offset + 1
      BY <2>1, <2>3 DEF NextRecord
    <3>2. Reading' /\ Processing' /\ FirstUnread' = FirstUnread /\ Filled' /\ OldNext' = OldNext
      BY <1>1, <1>5, <2>2, <2>3, <3>1 DEF Reading, Processing, FirstUnread, Filled, OldNext
    <3>3. Trust(whole)'
      BY <1>1, <1>2, <1>3, <2>2, <3>2 DEF Trust
    <3>4. UnreadCount(whole)' = UnreadCount(whole) /\ Recorded' = Recorded /\ Junk(whole)' = Junk(whole)
      BY <1>1, <2>2, <3>2 DEF UnreadCount, Recorded, Junk
    <3>5. Junk(whole)' \cap Names \subseteq Junk(whole)
      BY <3>4
    <3>6. FollowedBy(whole)'
      BY <1>1, <3>2, <3>3, <3>4, <3>5, ThreadKeepsTold
    <3> QED BY <3>6
  <2>4. CASE ~m_changes[offset].more
    <3>1. monitor' = "read"
      BY <2>1, <2>4 DEF NextRecord
    <3>2. Reading' /\ ~Processing' /\ ~OldNext'
      BY <3>1 DEF Reading, Processing, OldNext
    <3>3. Trust(whole)'
      BY <1>1, <1>2, <1>3, <2>2, <3>2 DEF Trust, Filled
    <3>4. Recorded' = Recorded /\ Junk(whole)' \cap Names \subseteq Junk(whole)
      BY <1>1, <2>2, <3>2 DEF Recorded, Junk
    <3>5. UnreadCount(whole) = 0 /\ UnreadCount(whole)' = 0
      <4>1. CASE ~whole
        BY <4>1 DEF UnreadCount
      <4>2. CASE whole
        <5>1. ~Fetched /\ (m_changes[offset].more <=> offset < Len(m_changes))
          BY <1>3, <2>1, <2>2, <4>2 DEF Trust
        <5>2. Len(m_changes) \in Nat /\ DOMAIN m_changes = 1..Len(m_changes)
          BY <2>1
        <5>3. offset = Len(m_changes)
          BY <2>1, <2>4, <5>1, <5>2
        <5>4. UnreadCount(whole) = 0
          BY <2>2, <4>2, <5>2, <5>3 DEF UnreadCount
        <5>5. ~Filled'
          BY <1>2, <3>2, <5>1 DEF Filled
        <5> QED BY <5>4, <5>5 DEF UnreadCount
      <4> QED BY <4>1, <4>2
    <3>6. FollowedBy(whole)'
      BY <1>1, <3>3, <3>4, <3>5, ThreadKeepsTold
    <3> QED BY <3>6
  <2> QED BY <2>3, <2>4
<1> QED BY <1>4, <1>5 DEF QueueEvent

\* A step of the thread.
LEMMA ThreadTells ==
    ASSUME Base, Base', m_folder \in Folders, MonitorStep, UNCHANGED <<m_folder, listed>>,
           astray \cup Overwritten \cup Dropped \subseteq astray', NEW whole \in BOOLEAN, FollowedBy(whole)
    PROVE  \E w \in BOOLEAN : FollowedBy(w)'
<1>1. CASE IssueRead
  BY <1>1, IssuingTells
<1>2. CASE FolderDeleted
  BY <1>2, EndingTells
<1>3. CASE Timeout
  BY <1>3, WaitingTells
<1>4. CASE TakePacket
  BY <1>4, TakingTells
<1>5. CASE RememberOldName
  BY <1>5, RememberingTells
<1>6. CASE ProcessNotification
  BY <1>6, SendingTells
<1>7. CASE QueueEvent
  BY <1>7, QueueingTells
<1> QED BY <1>1, <1>2, <1>3, <1>4, <1>5, <1>6, <1>7 DEF MonitorStep

-----------------------------------------------------------------------------
(* The viewer's thread.                                                    *)

\* The folder is listed: what is on its way is known to the list already.
LEMMA FillingTells ==
    ASSUME Base, m_folder \in Folders, FillCacher, astray' = InFlight
    PROVE  \E w \in BOOLEAN : FollowedBy(w)'
<1>1. /\ BufferInv /\ RecordInv /\ DiskInv /\ m_path = m_folder
      /\ UNCHANGED <<m_folder, m_folderNotifications, m_changes, changes, packets, m_oldName, monitor, offset, disk>>
  BY DEF Base, Monitored, FillCacher, monitorVars, diskVars, kernelVars, threadVars, queueVars
<1>2. /\ Reading' = Reading /\ Processing' = Processing /\ FirstUnread' = FirstUnread /\ OldNext' = OldNext
      /\ Fetched' = Fetched
  BY <1>1 DEF Reading, Processing, FirstUnread, OldNext, Fetched
<1>3. Filled' = Filled
  BY <1>2 DEF Filled
<1>4. PICK w \in BOOLEAN : w <=> ~Filled
  OBVIOUS
<1>5. Trust(w)'
  <2>1. ASSUME w PROVE ~Processing' /\ ~Fetched' /\ ~Filled'
    BY <1>2, <1>3, <1>4, <2>1 DEF Filled
  <2> QED BY <2>1 DEF Trust, Fetched
<1>6. /\ UnreadCount(w)' = UnreadCount(w) /\ Recorded' = Recorded /\ Junk(w)' = Junk(w)
  BY <1>1, <1>2, <1>3 DEF UnreadCount, Recorded, Junk
<1>7. PICK N : N = m_folderNotifications
  OBVIOUS
<1>8. PICK n : n = Len(m_folderNotifications)
  OBVIOUS
<1>9. PICK u : u = UnreadCount(w)
  OBVIOUS
<1>10. PICK c : c = Recorded
  OBVIOUS
<1>11. PICK U : U = UnreadEvents(m_changes, FirstUnread, UnreadCount(w), m_oldName, m_folder)
  OBVIOUS
<1>12. PICK E : E = RecordEvents(changes, Recorded, m_folder)
  OBVIOUS
<1>13. PICK folder : folder = m_folder
  OBVIOUS
<1>14. PICK junk : junk = Junk(w)
  OBVIOUS
<1>15. PICK list : list = ListOf(listed', m_folder)
  OBVIOUS
<1>16. PICK here : here = disk[m_folder] \cap Viewable
  OBVIOUS
<1>17. PICK lost : lost = LostOf(astray', m_folder)
  OBVIOUS
<1>18. n \in Nat /\ u \in Nat /\ c \in Nat
  <2>1. m_folderNotifications \in Seq(Notifications)
    BY <1>1 DEF RecordInv
  <2>2. n \in Nat
    BY <1>8, <2>1
  <2> QED BY <1>1, <1>9, <1>10, <2>2, Counting
<1>19. \A name \in Names : list[name] = Wanted(here, name)
  <2>1. \A name \in Names : File(m_folder, name) \in Paths
    BY DEF File, Files, Paths
  <2>2. listed' = [path \in Paths |->
                      IF \E name \in disk[m_folder] \cap Viewable : path = File(m_folder, name)
                      THEN 1 ELSE 0]
    BY DEF FillCacher
  <2>3. ASSUME NEW name \in Names PROVE list[name] = Wanted(here, name)
    <3>1. list[name] = listed'[File(m_folder, name)]
      BY <1>15 DEF ListOf
    <3>2. (\E x \in disk[m_folder] \cap Viewable : File(m_folder, name) = File(m_folder, x)) <=> name \in here
      BY <1>16 DEF File
    <3> QED BY <2>1, <2>2, <3>1, <3>2 DEF Wanted
  <2> QED BY <2>3
<1>20. \A name \in Names : File(m_folder, name) \in InFlight => name \in lost
  BY <1>17 DEF LostOf
<1>21. \A name \in Names \ lost, event \in Events(N, n, U, u, E, c) :
           Concerns(event, folder, name) => Deletes(event, folder) /\ list[name] = 0
  <2>1. ASSUME NEW name \in Names \ lost, NEW event \in Events(N, n, U, u, E, c), Concerns(event, folder, name)
        PROVE  Deletes(event, folder) /\ list[name] = 0
    <3>1. Deletes(event, m_folder)
      BY <1>1, <1>7, <1>8, <1>9, <1>10, <1>11, <1>12, <1>13, <1>20, <2>1, InFlightCovers
    <3>2. m_folder \notin folders
      BY <1>1, <1>7, <1>8, <1>9, <1>10, <1>11, <1>12, <1>13, <2>1, <3>1, DeletesGone
    <3>3. disk[m_folder] = {}
      BY <1>1, <3>2 DEF DiskInv
    <3> QED BY <1>13, <1>16, <1>19, <3>1, <3>3 DEF Wanted
  <2> QED BY <2>1
<1>22. junk \cap Names \subseteq lost
  <2>1. CASE w
    BY <1>14, <2>1 DEF Junk
  <2>2. CASE ~w
    <3>1. Unread = m_changes
      BY <1>4, <2>2 DEF Filled, Unread, Fetched
    <3>2. FilesOf(changes \o Unread) = FilesOf(changes) \cup FilesOf(Unread)
      <4>1. changes \in Seq(Records) /\ Unread \in Seq(Records)
        BY <1>1, <3>1 DEF BufferInv
      <4> QED BY <4>1, FilesOfBoth
    <3>3. FilesOf(m_changes) \cup RenamedFrom \subseteq InFlight
      BY <3>1, <3>2 DEF InFlight
    <3>4. ASSUME NEW name \in Names, name \in junk PROVE File(m_folder, name) \in InFlight
      <4>1. CASE \E k \in DOMAIN m_changes : name = m_changes[k].name
        BY <1>1, <3>3, <4>1 DEF FilesOf, Files, File
      <4>2. CASE OldNext /\ name = m_oldName
        BY <1>1, <3>3, <4>2 DEF OldNext, RenamedFrom, Files, File
      <4> QED BY <1>14, <3>4, <4>1, <4>2 DEF Junk
    <3> QED BY <1>20, <3>4
  <2> QED BY <2>1, <2>2
<1>23. On(N, n, U, u, E, c, folder, list, here, lost, junk)
  BY ONLY <1>18, <1>19, <1>21, <1>22, OnAfresh
<1>24. Tells(w, ListOf(listed, m_folder), disk[m_folder] \cap Viewable, LostOf(astray, m_folder))'
  BY <1>1, <1>2, <1>6, <1>7, <1>8, <1>9, <1>10, <1>11, <1>12, <1>13, <1>14, <1>15, <1>16, <1>17, <1>23 DEF Tells
<1>25. FollowedBy(w)'
  BY <1>5, <1>24 DEF FollowedBy
<1> QED BY <1>25

\* The viewer handles a notification.
LEMMA HandledTells ==
    ASSUME Base, UNCHANGED <<m_folder, kernelVars, threadVars>>, disk' = disk,
           m_folderNotifications # <<>>, m_folderNotifications' = Tail(m_folderNotifications),
           NEW event, event = Head(m_folderNotifications), event.type \in EventTypes,
           \A name \in Names :
               IF Concerns(event, m_folder, name)
               THEN Changes(event, m_folder, ListOf(listed, m_folder), name, listed'[File(m_folder, name)])
               ELSE listed'[File(m_folder, name)] = listed[File(m_folder, name)],
           astray \subseteq astray', NEW whole \in BOOLEAN, FollowedBy(whole)
    PROVE  FollowedBy(whole)'
<1>1. /\ Reading' = Reading /\ Processing' = Processing /\ FirstUnread' = FirstUnread /\ OldNext' = OldNext
      /\ Fetched' = Fetched
  BY DEF Reading, Processing, FirstUnread, OldNext, Fetched, kernelVars, threadVars
<1>2. Filled' = Filled
  BY <1>1 DEF Filled
<1>3. Trust(whole)'
  <2>1. Trust(whole)
    BY DEF FollowedBy
  <2> QED BY <1>1, <1>2, <2>1 DEF Trust, kernelVars
<1>4. /\ UnreadCount(whole)' = UnreadCount(whole) /\ Recorded' = Recorded /\ Junk(whole)' = Junk(whole)
  BY <1>1, <1>2 DEF UnreadCount, Recorded, Junk, kernelVars, threadVars
<1>5. PICK N : N = m_folderNotifications
  OBVIOUS
<1>6. PICK n : n = Len(m_folderNotifications)
  OBVIOUS
<1>7. PICK u : u = UnreadCount(whole)
  OBVIOUS
<1>8. PICK c : c = Recorded
  OBVIOUS
<1>9. PICK U : U = UnreadEvents(m_changes, FirstUnread, UnreadCount(whole), m_oldName, m_folder)
  OBVIOUS
<1>10. PICK E : E = RecordEvents(changes, Recorded, m_folder)
  OBVIOUS
<1>11. PICK folder : folder = m_folder
  OBVIOUS
<1>12. PICK junk : junk = Junk(whole)
  OBVIOUS
<1>13. PICK list : list = ListOf(listed, m_folder)
  OBVIOUS
<1>14. PICK list2 : list2 = ListOf(listed', m_folder)
  OBVIOUS
<1>15. PICK here : here = disk[m_folder] \cap Viewable
  OBVIOUS
<1>16. PICK lost : lost = LostOf(astray, m_folder)
  OBVIOUS
<1>17. PICK lost2 : lost2 = LostOf(astray', m_folder)
  OBVIOUS
<1>18. PICK N2 : N2 = m_folderNotifications'
  OBVIOUS
<1>19. On(N, n, U, u, E, c, folder, list, here, lost, junk)
  BY <1>5, <1>6, <1>7, <1>8, <1>9, <1>10, <1>11, <1>12, <1>13, <1>15, <1>16 DEF FollowedBy, Tells
<1>20. /\ n > 0 /\ N[1] = event /\ Len(N2) = n - 1
       /\ \A i \in 1..(n - 1) : N2[i] = N[i + 1]
  <2>1. m_folderNotifications \in Seq(Notifications)
    BY DEF Base, RecordInv
  <2> QED BY <1>5, <1>6, <1>18, <2>1
<1>21. \A name \in Names :
           IF Concerns(N[1], folder, name)
           THEN Changes(N[1], folder, list, name, list2[name])
                /\ N[1].type \in {"MonitoredFolderDeleted", "FileAdded", "FileRemoved", "FileRenamed"}
           ELSE list2[name] = list[name]
  <2>1. \A name \in Names : list2[name] = listed'[File(m_folder, name)] /\ list[name] = listed[File(m_folder, name)]
    BY <1>13, <1>14 DEF ListOf
  <2> QED BY <1>11, <1>13, <1>20, <2>1 DEF EventTypes
<1>22. lost \cap Names \subseteq lost2
  BY <1>16, <1>17 DEF LostOf
<1>23. On(N2, n - 1, U, u, E, c, folder, list2, here, lost2, junk)
  BY ONLY <1>19, <1>20, <1>21, <1>22, OnHandles
<1>24. UNCHANGED <<m_changes, changes, m_oldName>>
  BY DEF kernelVars, threadVars
<1>25. Tells(whole, ListOf(listed, m_folder), disk[m_folder] \cap Viewable, LostOf(astray, m_folder))'
  BY <1>1, <1>4, <1>5, <1>6, <1>7, <1>8, <1>9, <1>10, <1>11, <1>12, <1>14, <1>15, <1>17, <1>18, <1>20, <1>23, <1>24
     DEF Tells
<1> QED BY <1>3, <1>25 DEF FollowedBy

\* What OnFolderEvent does to the entries of the shown folder.
LEMMA EventChanges ==
    ASSUME listed \in [Paths -> Nat], m_folder \in Folders,
           NEW event \in Notifications, event.type # "MonitoredFolderDeleted",
           NEW file, file = File(event.path, event.name),
           CASE event.type = "FileAdded"   -> AddImageLast(file)
             [] event.type = "FileRemoved" -> RemoveImageFilename(file)
             [] event.type = "FileRenamed" -> RenamedImage(File(event.path, event.previous), file),
           NEW name \in Names
    PROVE  IF Concerns(event, m_folder, name)
           THEN Changes(event, m_folder, ListOf(listed, m_folder), name, listed'[File(m_folder, name)])
           ELSE listed'[File(m_folder, name)] = listed[File(m_folder, name)]
<1>1. /\ event.type \in EventTypes /\ event.path \in Folders
      /\ event.name \in Names \cup {NoName} /\ event.previous \in Names \cup {NoName}
      /\ event.type \in {"FileAdded", "FileRemoved"} => event.previous = NoName
  BY DEF Notifications
<1>2. NoName \notin Names /\ NoName \notin Folders
  BY MonitorAssumption
<1>3. PICK own : own = File(m_folder, name)
  OBVIOUS
<1>4. PICK old : old = File(event.path, event.previous)
  OBVIOUS
<1>5. own \in Paths /\ own[2] = name /\ listed[own] \in Nat
  BY <1>3 DEF File, Files, Paths
<1>6. own = file <=> event.path = m_folder /\ name = event.name
  BY <1>3 DEF File
<1>7. own = old <=> event.path = m_folder /\ name = event.previous
  BY <1>3, <1>4 DEF File
<1>8. /\ old \in Paths <=> event.previous \in Names
      /\ file = old <=> event.name = event.previous
      /\ file[2] = event.name
  BY <1>1, <1>2, <1>4 DEF File, Files, Paths, NoFile
<1>9. ~Deletes(event, m_folder)
  BY DEF Deletes
<1>10. Concerns(event, m_folder, name) <=> own = file \/ own = old
  BY <1>6, <1>7, <1>9 DEF Concerns
<1>11. PICK counts : counts = ListOf(listed, m_folder)
  OBVIOUS
<1>12. counts[name] = listed[own]
  BY <1>3, <1>11 DEF ListOf
<1>13. PICK count : count = listed'[own]
  OBVIOUS
<1>14. IF own = file \/ own = old THEN Changes(event, m_folder, counts, name, count) ELSE count = listed[own]
  <2>1. CASE event.type = "FileAdded"
    <3>1. AddImageLast(file)
      BY <2>1
    <3>2. \A path \in Paths : listed'[path] =
              IF path = file /\ file[2] \in Viewable THEN listed[path] + 1 ELSE listed[path]
      BY <3>1, Adding
    <3>3. own # old
      BY <1>1, <1>2, <1>7, <2>1
    <3>4. CASE own = file
      <4>1. count = listed[own] + Once(name)
        BY <1>5, <1>13, <3>2, <3>4 DEF Once
      <4> QED BY <1>9, <1>12, <2>1, <3>4, <4>1 DEF Changes
    <3>5. CASE own # file
      BY <1>5, <1>13, <3>2, <3>3, <3>5
    <3> QED BY <3>4, <3>5
  <2>2. CASE event.type = "FileRemoved"
    <3>1. RemoveImageFilename(file)
      BY <2>2
    <3>2. \A path \in Paths : listed'[path] =
              IF path = file /\ listed[path] > 0 THEN listed[path] - 1 ELSE listed[path]
      BY <3>1, Removing
    <3>3. own # old
      BY <1>1, <1>2, <1>7, <2>2
    <3>4. CASE own = file
      <4>1. count = Less(listed[own])
        BY <1>5, <1>13, <3>2, <3>4 DEF Less
      <4> QED BY <1>9, <1>12, <2>2, <3>4, <4>1 DEF Changes
    <3>5. CASE own # file
      BY <1>5, <1>13, <3>2, <3>3, <3>5
    <3> QED BY <3>4, <3>5
  <2>3. CASE event.type = "FileRenamed"
    <3>1. RenamedImage(old, file)
      BY <1>4, <2>3
    <3>2. /\ FindImage(old) /\ old # file => \A path \in Paths : listed'[path] =
                 IF path = old THEN listed[path] - 1
                 ELSE IF path = file THEN listed[path] + 1 ELSE listed[path]
          /\ ~FindImage(old) \/ old = file => \A path \in Paths : listed'[path] = listed[path]
      BY <3>1, Renaming
    <3>3. CASE own # file /\ own # old
      BY <1>5, <1>13, <3>2, <3>3
    <3>4. CASE (own = file \/ own = old) /\ file = old
      <4>1. event.name = event.previous
        BY <1>8, <3>4
      <4> QED BY <1>9, <2>3, <3>4, <4>1 DEF Changes
    <3>5. CASE own = old /\ file # old
      <4>1. event.previous = name
        BY <1>7, <3>5
      <4>2. FindImage(old) <=> listed[own] > 0
        BY <1>5, <3>5 DEF FindImage
      <4>3. count = Less(listed[own])
        BY <1>5, <1>13, <3>2, <3>5, <4>2 DEF Less
      <4> QED BY <1>9, <1>12, <2>3, <3>5, <4>1, <4>3 DEF Changes
    <3>6. CASE own = file /\ file # old
      <4>1. event.previous # name /\ event.path = m_folder
        BY <1>6, <1>7, <3>6
      <4>2. FindImage(old) <=> event.previous \in Names /\ counts[event.previous] > 0
        <5>1. event.previous \in Names => counts[event.previous] = listed[old]
          BY <1>4, <1>11, <4>1 DEF ListOf
        <5> QED BY <1>8, <5>1 DEF FindImage
      <4>3. count = listed[own] + Taken(event, counts)
        BY <1>5, <1>13, <3>2, <3>6, <4>2 DEF Taken
      <4> QED BY <1>9, <1>12, <2>3, <3>6, <4>1, <4>3 DEF Changes
    <3> QED BY <3>3, <3>4, <3>5, <3>6
  <2> QED BY <1>1, <2>1, <2>2, <2>3 DEF EventTypes
<1> QED BY <1>3, <1>10, <1>11, <1>13, <1>14

\* A change of a file is handled.
LEMMA FileEventTells ==
    ASSUME Base, m_folder \in Folders, OnFileEvent, astray \subseteq astray',
           NEW whole \in BOOLEAN, FollowedBy(whole)
    PROVE  FollowedBy(whole)'
<1>1. /\ m_folderNotifications \in Seq(Notifications) /\ m_folderNotifications # <<>>
      /\ listed \in [Paths -> Nat]
  BY DEF Base, RecordInv, ListInv, OnFileEvent
<1>2. PICK event : event = Head(m_folderNotifications)
  OBVIOUS
<1>3. PICK file : file = File(event.path, event.name)
  OBVIOUS
<1>4. event \in Notifications /\ event.type \in EventTypes
  BY <1>1, <1>2 DEF Notifications
<1>5. /\ event.type # "MonitoredFolderDeleted"
      /\ CASE event.type = "FileAdded"   -> AddImageLast(file)
           [] event.type = "FileRemoved" -> RemoveImageFilename(file)
           [] event.type = "FileRenamed" -> RenamedImage(File(event.path, event.previous), file)
  BY <1>2, <1>3 DEF OnFileEvent
<1>6. \A name \in Names :
          IF Concerns(event, m_folder, name)
          THEN Changes(event, m_folder, ListOf(listed, m_folder), name, listed'[File(m_folder, name)])
          ELSE listed'[File(m_folder, name)] = listed[File(m_folder, name)]
  BY <1>1, <1>3, <1>4, <1>5, EventChanges
<1>7. UNCHANGED <<m_folder, kernelVars, threadVars>> /\ disk' = disk
      /\ m_folderNotifications' = Tail(m_folderNotifications)
  BY DEF OnFileEvent, diskVars
<1> QED BY <1>1, <1>2, <1>4, <1>6, <1>7, HandledTells

\* The end of a folder is handled.
LEMMA FolderEndTells ==
    ASSUME Base, Base', m_folder \in Folders, OnFolderDeleted, astray \cup Stale \subseteq astray',
           NEW whole \in BOOLEAN, FollowedBy(whole)
    PROVE  \E w \in BOOLEAN : FollowedBy(w)'
<1>1. /\ m_folderNotifications \in Seq(Notifications) /\ m_folderNotifications # <<>>
      /\ m_folderNotifications' = Tail(m_folderNotifications)
      /\ listed' = [path \in Paths |-> 0]
      /\ UNCHANGED <<m_folder, kernelVars, threadVars>> /\ disk' = disk
  BY DEF Base, RecordInv, OnFolderDeleted, CloseHandles, diskVars
<1>2. PICK event : event = Head(m_folderNotifications)
  OBVIOUS
<1>3. event.type = "MonitoredFolderDeleted" /\ event.type \in EventTypes
  BY <1>2 DEF OnFolderDeleted, EventTypes
<1>4. CASE event.path = m_folder
  <2>1. Deletes(event, m_folder)
    BY <1>3, <1>4 DEF Deletes
  <2>2. \A name \in Names : listed'[File(m_folder, name)] = 0
    BY <1>1 DEF File, Files, Paths
  <2>3. \A name \in Names :
            /\ Concerns(event, m_folder, name)
            /\ Changes(event, m_folder, ListOf(listed, m_folder), name, listed'[File(m_folder, name)])
    BY <1>3, <1>4, <2>1, <2>2 DEF Concerns, Changes
  <2>4. FollowedBy(whole)'
    BY <1>1, <1>2, <1>3, <2>3, HandledTells
  <2> QED BY <2>4
<1>5. CASE event.path # m_folder
  <2>1. Len(m_folderNotifications') < Len(m_folderNotifications)
    BY <1>1
  <2>2. Stale = Files
    BY <1>2, <1>3, <1>5, <2>1 DEF Stale
  <2>3. PICK w \in BOOLEAN : ~w
    OBVIOUS
  <2>4. FollowedBy(w)'
    BY <1>1, <2>2, <2>3, AllAstray DEF Base
  <2> QED BY <2>4
<1> QED BY <1>4, <1>5

\* The monitor of a folder that has ended is closed.
LEMMA ClosedTells ==
    ASSUME Base, MonitorClosed, astray \subseteq astray',
           NEW whole \in BOOLEAN, FollowedBy(whole)
    PROVE  FollowedBy(whole)'
<1>1. /\ UNCHANGED <<m_folder, m_folderNotifications, listed, disk>>
      /\ monitor \in {"none", "exited"} /\ monitor' = "none"
  BY DEF MonitorClosed, Joined, diskVars, queueVars
<1>2. ~Reading /\ ~Reading'
  BY <1>1 DEF Reading
<1>3. /\ Trust(whole)' /\ UnreadCount(whole)' = 0 /\ Recorded' = 0 /\ Junk(whole)' = {}
      /\ UnreadCount(whole) = 0 /\ Recorded = 0
  BY <1>2 DEF Trust, UnreadCount, Recorded, Junk
<1>4. Junk(whole)' \cap Names \subseteq Junk(whole)
  BY <1>3
<1> QED BY <1>1, <1>3, <1>4, ThreadKeepsTold

-----------------------------------------------------------------------------
(* Every step, and the theorem.                                            *)

\* Nothing happens.
LEMMA StutterTells ==
    ASSUME UNCHANGED vars, NEW whole \in BOOLEAN, FollowedBy(whole)
    PROVE  FollowedBy(whole)'
<1>1. UNCHANGED <<m_folder, m_folderNotifications, kernelVars, threadVars>>
      /\ disk' = disk /\ listed' = listed /\ astray' = astray
  BY DEF vars, monitorVars, viewVars, diskVars, queueVars
<1>2. PICK list : list = ListOf(listed, m_folder)
  OBVIOUS
<1>3. PICK lost : lost = LostOf(astray, m_folder)
  OBVIOUS
<1>4. PICK here : here = disk[m_folder] \cap Viewable
  OBVIOUS
<1>5. Trust(whole) /\ Tells(whole, list, here, lost)
  BY <1>2, <1>3, <1>4 DEF FollowedBy
<1>6. /\ \A name \in Names : listed'[File(m_folder, name)] = list[name]
      /\ lost \cap Names \subseteq LostOf(astray', m_folder)
      /\ \A name \in Names \ LostOf(astray', m_folder) :
             Wanted(disk'[m_folder] \cap Viewable, name) = Wanted(here, name)
  BY <1>1, <1>2, <1>3, <1>4 DEF ListOf
<1> QED BY <1>1, <1>5, <1>6, ThreadLeft

\* A step of the viewer's thread, once the folder is listed.
LEMMA ViewerTells ==
    ASSUME Base, Base', m_folder \in Folders, viewer # "listing", viewer' # "listing",
           ViewerThread, NEW whole \in BOOLEAN, FollowedBy(whole)
    PROVE  \E w \in BOOLEAN : FollowedBy(w)'
<1>1. CASE FolderIsGone
  <2>1. Observe /\ viewer = "closing" /\ viewer' = "idle" /\ m_folder' = m_folder
    BY <1>1 DEF ViewerThread, FolderIsGone
  <2>2. astray' = Files
    BY <2>1 DEF Observe
  <2>3. PICK w \in BOOLEAN : ~w
    OBVIOUS
  <2>4. FollowedBy(w)'
    BY <2>1, <2>2, <2>3, AllAstray DEF Base
  <2> QED BY <2>4
<1>2. CASE OnFileEvent \/ OnFolderDeleted \/ MonitorClosed
  <2>1. Next /\ ~(viewer = "closing" /\ viewer' = "idle")
    BY <1>2 DEF Next, OnFileEvent, OnFolderDeleted, MonitorClosed
  <2>2. astray' = astray \cup Untold \cup Overwritten \cup Dropped \cup Disguised
                    \cup Stale \cup AheadOfEvents \cup Nameless
    BY <2>1, Reasons
  <2>3. astray \subseteq astray' /\ astray \cup Stale \subseteq astray'
    BY <2>2
  <2> QED BY <1>2, <2>3, FileEventTells, FolderEndTells, ClosedTells
<1> QED BY <1>1, <1>2 DEF ViewerThread, StartMonitor, FillCacher

\* What is on its way leads from the list to the disk, at every step.
LEMMA KeepsFollowing ==
    ASSUME Base, Base', FollowInv, [Next]_vars
    PROVE  FollowInv'
<1> SUFFICES ASSUME viewer' # "listing", m_folder' \in Folders
             PROVE  \E w \in BOOLEAN : FollowedBy(w)'
  BY DEF FollowInv
<1>1. CASE viewer = "listing"
  <2>1. ~UserStep
    BY <1>1 DEF UserStep, SetImageLocation, RemoveImage, RenameFails, RenameCurrent
  <2>2. ~OthersChange /\ ~MonitorThread /\ ~UNCHANGED vars
    BY <1>1 DEF OthersChange, MonitorThread, vars, viewVars
  <2>3. FillCacher /\ Observe
    BY <1>1, <2>1, <2>2 DEF Next, ViewerThread, StartMonitor, FolderIsGone, OnFileEvent, OnFolderDeleted,
                            MonitorClosed
  <2>4. astray' = InFlight /\ m_folder \in Folders
    BY <1>1, <2>3 DEF Observe, FillCacher
  <2> QED BY <2>3, <2>4, FillingTells
<1>2. CASE viewer # "listing"
  <2>1. CASE UNCHANGED vars
    <3>1. UNCHANGED <<viewer, m_folder>>
      BY <2>1 DEF vars, viewVars
    <3>2. PICK whole \in BOOLEAN : FollowedBy(whole)
      BY <1>2, <3>1 DEF FollowInv
    <3> QED BY <2>1, <3>2, StutterTells
  <2>2. CASE ViewerThread
    <3>1. m_folder' = m_folder
      BY <2>2 DEF ViewerThread, StartMonitor, FolderIsGone, FillCacher, OnFileEvent, OnFolderDeleted,
                  MonitorClosed
    <3>2. PICK whole \in BOOLEAN : FollowedBy(whole)
      BY <1>2, <3>1 DEF FollowInv
    <3> QED BY <1>2, <2>2, <3>1, <3>2, ViewerTells
  <2>3. CASE (OthersChange \/ UserStep) /\ Observe
    <3>1. m_folder' = m_folder /\ ~(viewer = "closing" /\ viewer' = "idle")
      BY <2>3 DEF OthersChange, viewVars, UserStep, SetImageLocation, RemoveImage, RenameFails, RenameCurrent
    <3>2. PICK whole \in BOOLEAN : FollowedBy(whole)
      BY <1>2, <3>1 DEF FollowInv
    <3>3. Next
      BY <2>3 DEF Next
    <3>4. astray' = astray \cup Untold \cup Overwritten \cup Dropped \cup Disguised
                      \cup Stale \cup AheadOfEvents \cup Nameless
      BY <1>2, <3>1, <3>3, Reasons
    <3>5. /\ astray \cup Untold \cup Overwritten \cup Dropped \cup Disguised \subseteq astray'
          /\ astray \cup Untold \cup Overwritten \cup Dropped \cup Disguised \cup AheadOfEvents \cup Nameless
               \subseteq astray'
      BY <3>4
    <3>6. m_folder \in Folders
      BY <3>1
    <3> QED BY <2>3, <3>2, <3>5, <3>6, OthersTell, UserTells
  <2>4. CASE MonitorThread
    <3>1. MonitorStep /\ UNCHANGED <<viewer, m_folder, listed>> /\ Next
      BY <2>4 DEF MonitorThread, viewVars, Next
    <3>2. PICK whole \in BOOLEAN : FollowedBy(whole)
      BY <1>2, <3>1 DEF FollowInv
    <3>3. astray' = astray \cup Untold \cup Overwritten \cup Dropped \cup Disguised
                      \cup Stale \cup AheadOfEvents \cup Nameless
      BY <1>2, <3>1, Reasons
    <3>4. astray \cup Overwritten \cup Dropped \subseteq astray'
      BY <3>3
    <3>5. m_folder \in Folders
      BY <3>1
    <3> QED BY <3>1, <3>2, <3>4, <3>5, ThreadTells
  <2> QED BY <2>1, <2>2, <2>3, <2>4 DEF Next
<1> QED BY <1>1, <1>2

\* An event of another folder that is applied leaves its files astray.
LEMMA StaleEvents ==
    ASSUME Base, OnFileEvent, Stale \subseteq astray',
           NEW file \in Files \ astray', file[1] # m_folder
    PROVE  listed'[file] = listed[file]
<1>1. /\ m_folderNotifications \in Seq(Notifications) /\ m_folderNotifications # <<>>
      /\ m_folderNotifications' = Tail(m_folderNotifications)
      /\ listed \in [Paths -> Nat]
  BY DEF Base, RecordInv, ListInv, OnFileEvent
<1>2. PICK event : event = Head(m_folderNotifications)
  OBVIOUS
<1>3. PICK new : new = File(event.path, event.name)
  OBVIOUS
<1>4. PICK old : old = File(event.path, event.previous)
  OBVIOUS
<1>5. event.type # "MonitoredFolderDeleted" /\ event.type \in EventTypes
  BY <1>1, <1>2 DEF Notifications, OnFileEvent
<1>6. AddImageLast(new) \/ RemoveImageFilename(new) \/ RenamedImage(old, new)
  <2>1. CASE event.type = "FileAdded"
    BY <1>2, <1>3, <1>4, <2>1 DEF OnFileEvent
  <2>2. CASE event.type = "FileRemoved"
    BY <1>2, <1>3, <1>4, <2>2 DEF OnFileEvent
  <2>3. CASE event.type = "FileRenamed"
    BY <1>2, <1>3, <1>4, <2>3 DEF OnFileEvent
  <2> QED BY <1>5, <2>1, <2>2, <2>3 DEF EventTypes
<1>7. file \in Paths
  BY DEF Paths
<1>8. file \notin {old, new}
  <2>1. ASSUME file \in {old, new} PROVE FALSE
    <3>1. event.path = file[1]
      BY <1>3, <1>4, <2>1 DEF File
    <3>2. Len(m_folderNotifications') < Len(m_folderNotifications)
      BY <1>1
    <3>3. Stale = FilesOfEvent(event)
      BY <1>2, <1>5, <3>1, <3>2 DEF Stale
    <3>4. file \in FilesOfEvent(event)
      BY <1>3, <1>4, <2>1 DEF FilesOfEvent
    <3> QED BY <3>3, <3>4
  <2> QED BY <2>1
<1>9. CASE AddImageLast(new)
  <2>1. \A path \in Paths : listed'[path] =
            IF path = new /\ new[2] \in Viewable THEN listed[path] + 1 ELSE listed[path]
    BY <1>1, <1>9, Adding
  <2> QED BY <1>7, <1>8, <2>1
<1>10. CASE RemoveImageFilename(new)
  <2>1. \A path \in Paths : listed'[path] =
            IF path = new /\ listed[path] > 0 THEN listed[path] - 1 ELSE listed[path]
    BY <1>1, <1>10, Removing
  <2> QED BY <1>7, <1>8, <2>1
<1>11. CASE RenamedImage(old, new)
  <2>1. /\ FindImage(old) /\ old # new => \A path \in Paths : listed'[path] =
               IF path = old THEN listed[path] - 1
               ELSE IF path = new THEN listed[path] + 1 ELSE listed[path]
        /\ ~FindImage(old) \/ old = new => \A path \in Paths : listed'[path] = listed[path]
    BY <1>1, <1>11, Renaming
  <2> QED BY <1>7, <1>8, <2>1
<1> QED BY <1>6, <1>9, <1>10, <1>11

\* The user gives an entry of another folder that is astray another name.
LEMMA RenamedElsewhere ==
    ASSUME Base, viewer # "listing", ElsewhereInv,
           NEW folder \in Folders, NEW old \in Names, NEW new \in Names, RenameCurrent(folder, old, new),
           Disguised \subseteq astray', astray \subseteq astray',
           NEW file \in Files \ astray', file[1] # m_folder
    PROVE  listed'[file] = 0
<1>1. /\ RenameFile(folder, old, new) /\ RenamedImage(File(folder, old), File(folder, new))
      /\ FindImage(File(folder, old)) /\ listed[File(folder, old)] > 0
      /\ listed \in [Paths -> Nat] /\ disk \in [Folders -> SUBSET Names]
  BY DEF RenameCurrent, FindImage, Base, ListInv, DiskInv
<1>2. /\ file \in Paths /\ listed[file] = 0
      /\ File(folder, old) \in Files /\ File(folder, old)[1] = folder /\ File(folder, new)[1] = folder
  BY DEF Paths, Files, File, ElsewhereInv
<1>3. file # File(folder, new)
  <2>1. ASSUME file = File(folder, new) PROVE FALSE
    <3>1. folder # m_folder
      BY <1>2, <2>1
    <3>2. File(folder, old) \in astray
      BY <1>1, <1>2, <3>1 DEF ElsewhereInv
    <3>3. /\ disk'[folder] = (disk[folder] \ {old}) \cup {new}
          /\ old \in disk[folder] /\ new \notin disk[folder]
      BY <1>1 DEF RenameFile
    <3>4. Gone(folder) = {old} /\ Come(folder) = {new}
      BY <3>3 DEF Gone, Come
    <3>5. folder \in {f \in Folders : /\ Gone(f) # {} /\ Come(f) # {}
                                      /\ \/ Gone(f) \subseteq Viewable <=> ~(Come(f) \subseteq Viewable)
                                         \/ \E name \in Gone(f) : File(f, name) \in astray}
      BY <3>2, <3>4
    <3>6. File(folder, new) \in Touched(folder)
      BY <3>4 DEF Touched
    <3>7. File(folder, new) \in Disguised
      BY <3>5, <3>6 DEF Disguised
    <3> QED BY <2>1, <3>7
  <2> QED BY <2>1
<1>4. file # File(folder, old)
  BY <1>1, <1>2
<1>5. PICK from : from = File(folder, old)
  OBVIOUS
<1>6. PICK to : to = File(folder, new)
  OBVIOUS
<1>7. /\ FindImage(from) /\ from # to => \A path \in Paths : listed'[path] =
             IF path = from THEN listed[path] - 1
             ELSE IF path = to THEN listed[path] + 1 ELSE listed[path]
      /\ ~FindImage(from) \/ from = to => \A path \in Paths : listed'[path] = listed[path]
  BY <1>1, <1>5, <1>6, Renaming
<1> QED BY <1>2, <1>3, <1>4, <1>5, <1>6, <1>7

\* The user removes an entry, or it loses its name: there is none more.
LEMMA RemovedElsewhere ==
    ASSUME Base, NEW folder \in Folders, NEW name \in Names,
           RemoveImage(folder, name) \/ RenameFails(folder, name),
           NEW file \in Files, listed[file] = 0
    PROVE  listed'[file] = 0
<1>1. listed \in [Paths -> Nat] /\ file \in Paths
  BY DEF Base, ListInv, Paths
<1>2. file # NoFile
  BY MonitorAssumption DEF Files, NoFile
<1>3. PICK from : from = File(folder, name)
  OBVIOUS
<1>4. CASE RemoveImage(folder, name)
  <2>1. RemoveImageFilename(from)
    BY <1>3, <1>4 DEF RemoveImage
  <2>2. \A path \in Paths : listed'[path] =
            IF path = from /\ listed[path] > 0 THEN listed[path] - 1 ELSE listed[path]
    BY <1>1, <2>1, Removing
  <2> QED BY <1>1, <2>2
<1>5. CASE RenameFails(folder, name)
  <2>1. RenamedImage(from, NoFile) /\ FindImage(from)
    BY <1>3, <1>5 DEF RenameFails
  <2>2. /\ FindImage(from) /\ from # NoFile => \A path \in Paths : listed'[path] =
               IF path = from THEN listed[path] - 1
               ELSE IF path = NoFile THEN listed[path] + 1 ELSE listed[path]
        /\ ~FindImage(from) \/ from = NoFile => \A path \in Paths : listed'[path] = listed[path]
    BY <1>1, <2>1, Renaming
  <2>3. file # from
    BY <2>1 DEF FindImage
  <2> QED BY <1>1, <1>2, <2>2, <2>3
<1> QED BY <1>4, <1>5

\* Of the folders that are not shown nothing is listed, but what is astray.
LEMMA KeepsElsewhere ==
    ASSUME Base, ElsewhereInv, [Next]_vars
    PROVE  ElsewhereInv'
<1> SUFFICES ASSUME viewer' # "listing", NEW file \in Files \ astray', file[1] # m_folder'
             PROVE  listed'[file] = 0
  BY DEF ElsewhereInv
<1>1. CASE viewer = "listing"
  <2>1. ~UserStep
    BY <1>1 DEF UserStep, SetImageLocation, RemoveImage, RenameFails, RenameCurrent
  <2>2. ~OthersChange /\ ~MonitorThread /\ ~UNCHANGED vars
    BY <1>1 DEF OthersChange, MonitorThread, vars, viewVars
  <2>3. FillCacher
    BY <1>1, <2>1, <2>2 DEF Next, ViewerThread, StartMonitor, FolderIsGone, OnFileEvent, OnFolderDeleted,
                            MonitorClosed
  <2>4. file \in Paths /\ \A name \in disk[m_folder] \cap Viewable : file # File(m_folder, name)
    BY <2>3 DEF FillCacher, File, Paths
  <2> QED BY <2>3, <2>4 DEF FillCacher
<1>2. CASE viewer # "listing"
  <2>1. astray \subseteq astray' /\ listed \in [Paths -> Nat]
    BY <1>2, Growing DEF Base, ListInv
  <2>2. ASSUME m_folder' = m_folder PROVE listed[file] = 0
    BY <1>2, <2>1, <2>2 DEF ElsewhereInv
  <2>3. CASE UNCHANGED vars \/ OthersChange \/ MonitorThread
    BY <2>2, <2>3 DEF vars, viewVars, OthersChange, MonitorThread
  <2>4. CASE UserStep /\ Observe
    <3>1. Next /\ m_folder' = m_folder /\ ~(viewer = "closing" /\ viewer' = "idle")
      BY <2>4 DEF Next, UserStep, SetImageLocation, RemoveImage, RenameFails, RenameCurrent
    <3>2. astray' = astray \cup Untold \cup Overwritten \cup Dropped \cup Disguised
                      \cup Stale \cup AheadOfEvents \cup Nameless
      BY <1>2, <3>1, Reasons
    <3>3. Disguised \subseteq astray'
      BY <3>2
    <3>4. ASSUME NEW folder \in Folders, SetImageLocation(folder) PROVE listed'[file] = 0
      BY <2>2, <3>4 DEF SetImageLocation
    <3>5. ASSUME NEW folder \in Folders, NEW name \in Names,
                 RemoveImage(folder, name) \/ RenameFails(folder, name)
          PROVE  listed'[file] = 0
      BY <2>2, <3>1, <3>5, RemovedElsewhere
    <3>6. ASSUME NEW folder \in Folders, NEW old \in Names, NEW new \in Names,
                 RenameCurrent(folder, old, new)
          PROVE  listed'[file] = 0
      BY <1>2, <2>1, <3>1, <3>3, <3>6, RenamedElsewhere
    <3> QED BY <2>4, <3>4, <3>5, <3>6 DEF UserStep
  <2>5. CASE ViewerThread
    <3>1. CASE FolderIsGone
      <4>1. Observe /\ viewer = "closing" /\ viewer' = "idle"
        BY <2>5, <3>1 DEF ViewerThread, FolderIsGone
      <4> QED BY <4>1 DEF Observe
    <3>2. CASE MonitorClosed
      BY <2>2, <3>2 DEF MonitorClosed
    <3>3. CASE OnFolderDeleted
      BY <3>3 DEF OnFolderDeleted, Paths
    <3>4. CASE OnFileEvent
      <4>1. Next /\ ~(viewer = "closing" /\ viewer' = "idle") /\ m_folder' = m_folder
        BY <2>5, <3>4 DEF Next, OnFileEvent
      <4>2. astray' = astray \cup Untold \cup Overwritten \cup Dropped \cup Disguised
                        \cup Stale \cup AheadOfEvents \cup Nameless
        BY <1>2, <4>1, Reasons
      <4>3. Stale \subseteq astray'
        BY <4>2
      <4> QED BY <2>2, <3>4, <4>1, <4>3, StaleEvents
    <3> QED BY <1>2, <2>5, <3>1, <3>2, <3>3, <3>4 DEF ViewerThread, StartMonitor, FillCacher
  <2> QED BY <2>3, <2>4, <2>5 DEF Next
<1> QED BY <1>1, <1>2

\* Before the first folder is opened nothing is listed, and nothing on its way.
LEMMA InitFollows == ASSUME Init PROVE Base /\ FollowInv /\ ElsewhereInv
<1>1. /\ folders = Folders /\ disk \in [Folders -> SUBSET Names]
      /\ changes = <<>> /\ reads = 0 /\ m_changes = <<>>
      /\ m_directory = FALSE /\ m_path = NoName /\ m_oldName = NoName /\ monitor = "none"
      /\ m_folderNotifications = <<>>
      /\ viewer = "idle" /\ m_folder = NoName /\ listed = [path \in Paths |-> 0] /\ astray = {}
  BY DEF Init, MonitorInit
<1>2. BufferInv
  BY InitBuffer
<1>3. DiskInv
  BY <1>1 DEF DiskInv
<1>4. Monitored
  BY <1>1 DEF Monitored
<1>5. RecordInv
  BY <1>1 DEF RecordInv, Linked, Paired
<1>6. ListInv
  BY <1>1 DEF ListInv
<1>7. FollowInv
  BY <1>1, MonitorAssumption DEF FollowInv
<1>8. ElsewhereInv
  BY <1>1 DEF ElsewhereInv, Paths
<1> QED BY <1>2, <1>3, <1>4, <1>5, <1>6, <1>7, <1>8 DEF Base

\* What the proof stands on is inductive by itself.
LEMMA KeepsBase ==
    ASSUME Base, [Next]_vars
    PROVE  Base'
<1>1. BufferInv'
  <2>1. CASE OthersChange \/ UserStep
    BY <2>1, OthersKeepBuffer DEF Base
  <2>2. CASE ViewerThread
    BY <2>2, ViewerKeepsBuffer DEF Base
  <2>3. CASE MonitorThread
    BY <2>3, MonitorKeepsBuffer DEF Base, MonitorThread
  <2>4. CASE UNCHANGED vars
    BY <2>4, LeavesBuffer DEF Base, vars, monitorVars, kernelVars, threadVars, Processing
  <2> QED BY <2>1, <2>2, <2>3, <2>4 DEF Next
<1>2. DiskInv' /\ folders' \subseteq folders
  BY KeepsDisk DEF Base
<1>3. Monitored'
  BY KeepsMonitored DEF Base
<1>4. RecordInv'
  BY <1>2, KeepsRecords DEF Base
<1>5. ListInv'
  <2>1. listed' \in [Paths -> Nat]
    BY KeepsListTyped DEF Base, ListInv, RecordInv, QueueTyped
  <2>2. astray' \subseteq Files
    BY <1>2, KeepsAstrayTyped DEF Base, ListInv
  <2> QED BY <2>1, <2>2 DEF ListInv
<1> QED BY <1>1, <1>2, <1>3, <1>4, <1>5 DEF Base

\* When nothing is on its way, the list is where the disk is.
LEMMA QuietMatches ==
    ASSUME Base, FollowInv, ElsewhereInv
    PROVE  ListMatchesFolder
<1> SUFFICES ASSUME Quiet, NEW file \in Files \ astray
             PROVE  listed[file] = IF file[1] = m_folder /\ file[2] \in disk[m_folder] \cap Viewable
                                   THEN 1 ELSE 0
  BY DEF ListMatchesFolder
<1>1. viewer = "idle" /\ m_folderNotifications = <<>>
  BY DEF Quiet
<1>2. CASE file[1] # m_folder
  BY <1>1, <1>2 DEF ElsewhereInv
<1>3. CASE file[1] = m_folder
  <2>1. m_folder \in Folders /\ file[2] \in Names /\ file = File(m_folder, file[2])
    BY <1>3 DEF Files, File
  <2>2. PICK whole \in BOOLEAN : FollowedBy(whole)
    BY <1>1, <2>1 DEF FollowInv
  <2>3. PICK name : name = file[2]
    OBVIOUS
  <2>4. UnreadCount(whole) = 0 /\ Recorded = 0
    <3>1. CASE monitor \in {"none", "exited"}
      BY <3>1 DEF Reading, UnreadCount, Recorded
    <3>2. CASE monitor \in {"read", "waiting"} /\ changes = <<>> /\ packets = <<>>
      <4>1. ~Processing /\ ~Fetched /\ Len(changes) = 0
        BY <3>2 DEF Processing, Fetched
      <4>2. ~Filled
        BY <4>1 DEF Filled
      <4> QED BY <4>1, <4>2 DEF UnreadCount, Recorded
    <3> QED BY <3>1, <3>2 DEF Quiet
  <2>5. Len(m_folderNotifications) = 0
    BY <1>1
  <2>6. PICK N : N = m_folderNotifications
    OBVIOUS
  <2>7. PICK U : U = UnreadEvents(m_changes, FirstUnread, UnreadCount(whole), m_oldName, m_folder)
    OBVIOUS
  <2>8. PICK E : E = RecordEvents(changes, Recorded, m_folder)
    OBVIOUS
  <2>9. PICK n : n = 0
    OBVIOUS
  <2>10. PICK folder : folder = m_folder
    OBVIOUS
  <2>11. PICK list : list = ListOf(listed, m_folder)
    OBVIOUS
  <2>12. PICK here : here = disk[m_folder] \cap Viewable
    OBVIOUS
  <2>13. PICK lost : lost = LostOf(astray, m_folder)
    OBVIOUS
  <2>14. PICK junk : junk = Junk(whole)
    OBVIOUS
  <2>15. On(N, n, U, n, E, n, folder, list, here, lost, junk)
    BY <2>2, <2>4, <2>5, <2>6, <2>7, <2>8, <2>9, <2>10, <2>11, <2>12, <2>13, <2>14 DEF FollowedBy, Tells
  <2>16. \A event \in Events(N, n, U, n, E, n) : ~Concerns(event, folder, name)
    BY <2>9 DEF Events
  <2>17. name \in Names \ lost
    BY <2>1, <2>3, <2>13 DEF LostOf
  <2>18. list[name] = Wanted(here, name)
    BY ONLY <2>15, <2>16, <2>17, OnNothing
  <2>19. list[name] = listed[file]
    BY <2>1, <2>3, <2>11 DEF ListOf
  <2> QED BY <1>3, <2>3, <2>12, <2>18, <2>19 DEF Wanted
<1> QED BY <1>2, <1>3

\* ListMatchesFolder: whatever is changed by whom, and however often folders are
\* switched, once all notifications have been handled the list holds the viewable
\* files of the shown folder, each once, but for what astray accounts for.
THEOREM ListsMatchFolders == Spec => []ListMatchesFolder
<1>1. Init => Base /\ FollowInv /\ ElsewhereInv
  BY InitFollows
<1>2. Base /\ FollowInv /\ ElsewhereInv /\ [Next]_vars => (Base /\ FollowInv /\ ElsewhereInv)'
  BY KeepsBase, KeepsFollowing, KeepsElsewhere
<1>3. Base /\ FollowInv /\ ElsewhereInv => ListMatchesFolder
  BY QuietMatches
<1> QED BY <1>1, <1>2, <1>3, PTL DEF Spec

=============================================================================
