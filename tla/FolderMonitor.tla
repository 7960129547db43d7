--------------------------- MODULE FolderMonitor ---------------------------
(***************************************************************************)
(* IO::FolderMonitor with its Windows implementation: a thread reads the   *)
(* changes of one directory with ReadDirectoryChangesW and sends each to   *)
(* OnEvent, whose only listener puts it into Viewer::m_folderNotifications *)
(* and then queues a FolderEvent for the window.                           *)
(*                                                                         *)
(* A wait of 100 ms that ends without a change is followed by another      *)
(* ReadDirectoryChangesW into the same buffer: reads pile up, and each is  *)
(* completed by one later change.                                          *)
(***************************************************************************)
EXTENDS Naturals, Sequences, SequencesExt

CONSTANTS
    Folders,
    Names,
    NoName,         \* the empty string
    MaxReads,       \* bound of the model: reads outstanding that matter
    BufferSize      \* records the kernel keeps between two reads

ASSUME MonitorAssumption ==
    /\ MaxReads \in Nat \ {0}
    /\ BufferSize \in Nat \ {0}
    /\ NoName \notin Names \cup Folders

VARIABLES
    disk,           \* external: the files in each folder
    folders,        \* external: the folders that exist
    watching,       \* external: whether the kernel records changes for the handle
    changes,        \* external: records no read has fetched yet
    reads,          \* external: how many reads are outstanding
    packets,        \* external: completed reads the thread has not taken
    m_directory,    \* whether the directory's handle is open
    m_path,         \* the folder that is monitored
    m_changes,      \* the buffer of all reads
    m_oldName,
    monitor,        \* where the monitor's thread is
    offset,         \* the record of m_changes it is at
    m_folderNotifications,
    posted          \* FolderEvents in the window's event queue

diskVars == <<disk, folders>>
kernelVars == <<watching, changes, reads, packets, m_changes>>
threadVars == <<m_oldName, monitor, offset>>
handleVars == <<m_directory, m_path>>
queueVars == <<m_folderNotifications, posted>>
monitorVars == <<diskVars, kernelVars, threadVars, handleVars, queueVars>>

Actions == {"ADDED", "REMOVED", "RENAMED_OLD_NAME", "RENAMED_NEW_NAME", "OVERFLOW"}

\* `more`: NextEntryOffset is not zero.
Record(action, name) == [action |-> action, name |-> name, more |-> FALSE]

Chain(records) == [k \in DOMAIN records |-> [records[k] EXCEPT !.more = k < Len(records)]]

\* What is left of the records when there were too many.
Overflow == <<Record("OVERFLOW", NoName)>>

Event(type, name, previous) ==
    [type |-> type, path |-> m_path, name |-> name, previous |-> previous]

MonitorInit ==
    /\ folders = Folders
    /\ disk \in [Folders -> SUBSET Names]
    /\ watching = FALSE /\ changes = <<>> /\ reads = 0 /\ packets = <<>> /\ m_changes = <<>>
    /\ m_directory = FALSE /\ m_path = NoName
    /\ m_oldName = NoName /\ monitor = "none" /\ offset = 1
    /\ m_folderNotifications = <<>> /\ posted = 0

-----------------------------------------------------------------------------
(* The directory and what the kernel tells of it.                          *)

\* The thread is in the middle of m_changes.
Processing == monitor \in {"processing", "notifying"}

\* A read is given the records there are, over what was in the buffer, or that
\* there were too many.
Complete(records) ==
    /\ packets' = Append(packets, IF records = Overflow THEN "empty" ELSE "changes")
    /\ m_changes' = IF records = Overflow THEN m_changes
                    ELSE Chain(records)
                           \o (IF Processing THEN SubSeq(m_changes, Len(records) + 1, Len(m_changes))
                                             ELSE <<>>)

\* What is recorded for a thread that has ended is never read.
Reported(folder) == m_directory /\ watching /\ m_path = folder /\ monitor # "exited"

Overflows(records) == changes = Overflow \/ Len(changes \o records) > BufferSize

Report(folder, records) ==
    \/ /\ Reported(folder) /\ reads > 0
       /\ Complete(records)
       /\ reads' = reads - 1
       /\ UNCHANGED <<watching, changes>>
    \/ /\ Reported(folder) /\ reads = 0
       /\ changes' = IF Overflows(records) THEN Overflow ELSE changes \o records
       /\ UNCHANGED <<watching, reads, packets, m_changes>>
    \/ ~Reported(folder) /\ UNCHANGED kernelVars

AddFile(folder, name) ==
    /\ folder \in folders /\ name \notin disk[folder]
    /\ disk' = [disk EXCEPT ![folder] = @ \cup {name}]
    /\ Report(folder, <<Record("ADDED", name)>>)
    /\ UNCHANGED <<folders, threadVars, handleVars, queueVars>>

RemoveFile(folder, name) ==
    /\ name \in disk[folder]
    /\ disk' = [disk EXCEPT ![folder] = @ \ {name}]
    /\ Report(folder, <<Record("REMOVED", name)>>)
    /\ UNCHANGED <<folders, threadVars, handleVars, queueVars>>

RenameFile(folder, old, new) ==
    /\ old \in disk[folder] /\ new \notin disk[folder]
    /\ disk' = [disk EXCEPT ![folder] = (@ \ {old}) \cup {new}]
    /\ Report(folder, <<Record("RENAMED_OLD_NAME", old), Record("RENAMED_NEW_NAME", new)>>)
    /\ UNCHANGED <<folders, threadVars, handleVars, queueVars>>

RemoveFolder(folder) ==
    /\ folder \in folders /\ disk[folder] = {}
    /\ folders' = folders \ {folder}
    /\ UNCHANGED <<disk, kernelVars, threadVars, handleVars, queueVars>>

-----------------------------------------------------------------------------
(* The thread.                                                             *)

\* AddNotification, first half: the mutex is given up before the event is queued.
AddNotification(event) ==
    /\ m_folderNotifications' = Append(m_folderNotifications, event)
    /\ UNCHANGED posted

\* Mutant: a thread that finds its handle closed waits like any other time.
IssueReadAnyway ==
    /\ monitor = "read"
    /\ monitor' = "waiting"
    /\ watching' = TRUE
    /\ reads' = IF reads < MaxReads THEN reads + 1 ELSE reads
    /\ UNCHANGED <<changes, packets, m_changes, m_oldName, offset, diskVars, handleVars, queueVars>>

\* Mutant: what was recorded since the last read is lost.
IssueReadAfresh ==
    /\ monitor = "read"
    /\ IF ~m_directory
       THEN monitor' = "exited" /\ UNCHANGED <<watching, changes, reads>>
       ELSE /\ monitor' = "waiting"
            /\ watching' = TRUE
            /\ changes' = <<>>
            /\ reads' = IF reads < MaxReads THEN reads + 1 ELSE reads
    /\ UNCHANGED <<packets, m_changes, m_oldName, offset, diskVars, handleVars, queueVars>>

\* ReadDirectoryChangesW: fails when the handle is closed; takes what has been
\* recorded since the last read, or is outstanding until there is something.
IssueRead ==
    /\ monitor = "read"
    /\ IF ~m_directory
       THEN monitor' = "exited" /\ UNCHANGED kernelVars
       ELSE /\ monitor' = "waiting"
            /\ watching' = TRUE
            /\ changes' = <<>>
            /\ IF changes # <<>>
               THEN Complete(changes) /\ UNCHANGED reads
               ELSE /\ reads' = IF reads < MaxReads THEN reads + 1 ELSE reads
                    /\ UNCHANGED <<packets, m_changes>>
    /\ UNCHANGED <<m_oldName, offset, diskVars, handleVars, queueVars>>

\* FolderDeleted, after which the thread ends.
FolderDeleted ==
    /\ monitor = "waiting" /\ m_path \notin folders
    /\ AddNotification(Event("MonitoredFolderDeleted", NoName, NoName))
    /\ monitor' = "leaving"
    /\ UNCHANGED <<m_oldName, offset, diskVars, kernelVars, handleVars>>

\* No packet within 100 ms, or the completion port is closed.
Timeout ==
    /\ monitor = "waiting" /\ m_path \in folders
    /\ packets = <<>> \/ ~m_directory
    /\ monitor' = "read"
    /\ UNCHANGED <<m_oldName, offset, diskVars, kernelVars, handleVars, queueVars>>

\* Mutant: the thread goes on where the last batch ended.
TakePacketInPlace ==
    /\ monitor = "waiting" /\ m_path \in folders /\ packets # <<>>
    /\ packets' = Tail(packets)
    /\ monitor' = IF Head(packets) = "empty" THEN "exited" ELSE "processing"
    /\ UNCHANGED <<offset, m_oldName, watching, changes, reads, m_changes, diskVars, handleVars, queueVars>>

TakePacket ==
    /\ monitor = "waiting" /\ m_path \in folders /\ packets # <<>>
    /\ packets' = Tail(packets)
    /\ monitor' = IF Head(packets) = "empty" THEN "exited" ELSE "processing"
    /\ offset' = 1
    /\ UNCHANGED <<m_oldName, watching, changes, reads, m_changes, diskVars, handleVars, queueVars>>

\* The do-while over the records: the next one, or another read.
NextRecord ==
    IF m_changes[offset].more
    THEN monitor' = "processing" /\ offset' = offset + 1
    ELSE monitor' = "read" /\ UNCHANGED offset

\* Mutant: the new name of a rename is sent with whatever the last old name was.
ForgetOldName ==
    /\ monitor = "processing" /\ m_changes[offset].action = "RENAMED_OLD_NAME"
    /\ NextRecord
    /\ UNCHANGED <<m_oldName, diskVars, kernelVars, handleVars, queueVars>>

RememberOldName ==
    /\ monitor = "processing" /\ m_changes[offset].action = "RENAMED_OLD_NAME"
    /\ m_oldName' = m_changes[offset].name
    /\ NextRecord
    /\ UNCHANGED <<diskVars, kernelVars, handleVars, queueVars>>

EventOf(record) ==
    CASE record.action = "ADDED"   -> Event("FileAdded", record.name, NoName)
      [] record.action = "REMOVED" -> Event("FileRemoved", record.name, NoName)
      [] OTHER                     -> Event("FileRenamed", record.name, m_oldName)

ProcessNotification ==
    /\ monitor = "processing" /\ m_changes[offset].action # "RENAMED_OLD_NAME"
    /\ AddNotification(EventOf(m_changes[offset]))
    /\ monitor' = "notifying"
    /\ UNCHANGED <<m_oldName, offset, diskVars, kernelVars, handleVars>>

\* Mutant: an event is queued only when there is none for an earlier notification.
QueueFirstEvent ==
    /\ monitor \in {"notifying", "leaving"}
    /\ posted' = IF Len(m_folderNotifications) = 1 THEN posted + 1 ELSE posted
    /\ IF monitor = "leaving" THEN monitor' = "exited" /\ UNCHANGED offset ELSE NextRecord
    /\ UNCHANGED <<m_oldName, m_folderNotifications, diskVars, kernelVars, handleVars>>

\* AddNotification, second half, and on with the loop.
QueueEvent ==
    /\ monitor \in {"notifying", "leaving"}
    /\ posted' = posted + 1
    /\ IF monitor = "leaving" THEN monitor' = "exited" /\ UNCHANGED offset ELSE NextRecord
    /\ UNCHANGED <<m_oldName, m_folderNotifications, diskVars, kernelVars, handleVars>>

MonitorStep ==
    \/ IssueRead \/ FolderDeleted \/ Timeout \/ TakePacket
    \/ RememberOldName \/ ProcessNotification \/ QueueEvent

-----------------------------------------------------------------------------
(* What the viewer's thread does with the monitor.                         *)

\* Close, first half: the destructor closes the handles ...
CloseHandles ==
    /\ m_directory' = FALSE
    /\ UNCHANGED <<m_path, diskVars, kernelVars, threadVars>>

\* ... and joins the thread, if there is one.
Joined == monitor \in {"none", "exited"}

Start(folder) ==
    /\ m_directory' = TRUE /\ m_path' = folder
    /\ watching' = FALSE /\ changes' = <<>> /\ reads' = 0 /\ packets' = <<>> /\ m_changes' = <<>>
    /\ m_oldName' = NoName /\ monitor' = "read" /\ offset' = 1
    /\ UNCHANGED diskVars

=============================================================================
