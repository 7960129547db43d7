----------------------------- MODULE FolderView -----------------------------
(***************************************************************************)
(* The viewer's list of a folder, kept up to date by the folder monitor:   *)
(* SetImageLocation lists the folder, OnFolderEvent applies one change at  *)
(* a time, and the user renames and deletes files from inside the viewer.  *)
(*                                                                         *)
(* The list is that of the Cacher, here without its images, its order and  *)
(* its selection: how often each file is in it.                            *)
(***************************************************************************)
EXTENDS FolderMonitor, Integers

CONSTANTS
    Viewable,       \* the names with an extension some codec knows
    MaxChanges,     \* bound of the model: changes of the disk
    MaxOpens        \* bound of the model: calls of SetImageLocation

ASSUME ViewAssumption == Viewable \subseteq Names

VARIABLES
    viewer,         \* where the viewer's thread is
    m_folder,
    opening,        \* SetImageLocation's argument
    listed,         \* how many entries of the Cacher's list have each path
    astray,         \* files whose changes are known not to be followed
    changed,        \* how many changes the disk has had
    opened          \* how often SetImageLocation has been called

boundVars == <<changed, opened>>
viewVars == <<viewer, m_folder, opening, listed>>
vars == <<monitorVars, viewVars, astray, boundVars>>

MayChange == changed < MaxChanges

File(folder, name) == <<folder, name>>

Files == Folders \X Names

\* An entry that was renamed to the empty string.
NoFile == <<NoName, NoName>>

Paths == Files \cup {NoFile}

Init ==
    /\ MonitorInit
    /\ viewer = "idle"
    /\ m_folder = NoName /\ opening = NoName
    /\ listed = [path \in Paths |-> 0]
    /\ astray = {}
    /\ changed = 0 /\ opened = 0

-----------------------------------------------------------------------------
(* The list, as the Cacher keeps it.                                       *)

FindImage(path) == path \in Paths /\ listed[path] > 0

AddImageLast(path) ==
    listed' = IF path[2] \in Viewable THEN [listed EXCEPT ![path] = @ + 1] ELSE listed

RemoveImageFilename(path) ==
    listed' = IF FindImage(path) THEN [listed EXCEPT ![path] = @ - 1] ELSE listed

RenamedImage(old, new) ==
    listed' = IF FindImage(old) THEN [listed EXCEPT ![old] = @ - 1, ![new] = @ + 1] ELSE listed

-----------------------------------------------------------------------------
(* Opening a folder.                                                       *)

\* SetImageLocation, up to the join in FolderMonitor::Close.
SetImageLocation(folder) ==
    /\ viewer = "idle" /\ folder \in folders /\ opened < MaxOpens
    /\ CloseHandles
    /\ viewer' = "closing" /\ opening' = folder
    /\ opened' = opened + 1
    /\ UNCHANGED <<queueVars, m_folder, listed, changed>>

\* Mutant: notifications of the old folder are dropped, their events are not.
StartAfresh ==
    /\ viewer = "closing" /\ Joined /\ opening \in folders
    /\ m_folder' = opening
    /\ Start(opening)
    /\ viewer' = "listing"
    /\ m_folderNotifications' = <<>>
    /\ UNCHANGED <<posted, opening, listed, boundVars>>

StartMonitor ==
    /\ viewer = "closing" /\ Joined /\ opening \in folders
    /\ m_folder' = opening
    /\ Start(opening)
    /\ viewer' = "listing"
    /\ UNCHANGED <<queueVars, opening, listed, boundVars>>

\* The folder has gone since it was looked for: the old list stays, unmonitored.
FolderIsGone ==
    /\ viewer = "closing" /\ Joined /\ opening \notin folders
    /\ monitor' = "none"
    /\ viewer' = "idle"
    /\ UNCHANGED <<queueVars, diskVars, kernelVars, handleVars, m_oldName, offset>>
    /\ UNCHANGED <<m_folder, opening, listed, boundVars>>

FillCacher ==
    /\ viewer = "listing"
    /\ listed' = [path \in Paths |->
                    IF \E name \in disk[m_folder] \cap Viewable : path = File(m_folder, name)
                    THEN 1 ELSE 0]
    /\ viewer' = "idle"
    /\ UNCHANGED <<monitorVars, m_folder, opening, boundVars>>

-----------------------------------------------------------------------------
(* A folder event.                                                         *)

\* A change is applied whatever folder is shown by now.
OnFileEvent ==
    /\ viewer = "idle" /\ posted > 0 /\ m_folderNotifications # <<>>
    /\ LET event == Head(m_folderNotifications)
           file == File(event.path, event.name)
       IN  /\ event.type # "MonitoredFolderDeleted"
           /\ CASE event.type = "FileAdded"   -> AddImageLast(file)
                [] event.type = "FileRemoved" -> RemoveImageFilename(file)
                [] event.type = "FileRenamed" -> RenamedImage(File(event.path, event.previous), file)
    /\ m_folderNotifications' = Tail(m_folderNotifications)
    /\ posted' = posted - 1
    /\ UNCHANGED <<diskVars, kernelVars, threadVars, handleVars, viewer, m_folder, opening, boundVars>>

\* The monitor's folder is gone: the list is cleared and the monitor closed.
OnFolderDeleted ==
    /\ viewer = "idle" /\ posted > 0 /\ m_folderNotifications # <<>>
    /\ Head(m_folderNotifications).type = "MonitoredFolderDeleted"
    /\ listed' = [path \in Paths |-> 0]
    /\ CloseHandles
    /\ viewer' = "leaving"
    /\ m_folderNotifications' = Tail(m_folderNotifications)
    /\ posted' = posted - 1
    /\ UNCHANGED <<m_folder, opening, boundVars>>

MonitorClosed ==
    /\ viewer = "leaving" /\ Joined
    /\ monitor' = "none"
    /\ viewer' = "idle"
    /\ UNCHANGED <<m_oldName, offset, diskVars, kernelVars, handleVars, queueVars>>
    /\ UNCHANGED <<m_folder, opening, listed, boundVars>>

-----------------------------------------------------------------------------
(* Changes of the disk, by others and by the viewer itself.                *)

OthersChange ==
    /\ changed' = changed + 1
    /\ \E folder \in Folders : MayChange /\
        (\/ \E name \in Names : AddFile(folder, name) \/ RemoveFile(folder, name)
         \/ \E old, new \in Names : RenameFile(folder, old, new)
         \/ RemoveFolder(folder))
    /\ UNCHANGED <<viewVars, opened>>

\* RemoveImage deletes the shown file and takes it off the list.
RemoveImage(folder, name) ==
    /\ viewer = "idle" /\ FindImage(File(folder, name)) /\ MayChange
    /\ RemoveFile(folder, name)
    /\ RemoveImageFilename(File(folder, name))
    /\ changed' = changed + 1
    /\ UNCHANGED <<viewer, m_folder, opening, opened>>

\* RenameCurrent keeps the extension; the list follows at once.
RenameCurrent(folder, old, new) ==
    /\ viewer = "idle" /\ FindImage(File(folder, old)) /\ MayChange
    /\ {old, new} \subseteq Viewable
    /\ RenameFile(folder, old, new)
    /\ RenamedImage(File(folder, old), File(folder, new))
    /\ changed' = changed + 1
    /\ UNCHANGED <<viewer, m_folder, opening, opened>>

\* The rename fails: IO::Rename returns the empty string, and the entry gets it.
RenameFails(folder, name) ==
    /\ viewer = "idle" /\ FindImage(File(folder, name)) /\ MayChange
    /\ RenamedImage(File(folder, name), NoFile)
    /\ changed' = changed + 1
    /\ UNCHANGED <<monitorVars, viewer, m_folder, opening, opened>>

-----------------------------------------------------------------------------
(* The files whose changes are known not to be followed. Each set is what  *)
(* one step adds, for one reason.                                          *)

FilesOf(records) == {File(m_path, records[k].name) : k \in DOMAIN records} \cap Files

FilesOfEvent(event) == {File(event.path, event.name), File(event.path, event.previous)} \cap Files

\* What the thread is not done with in the buffer.
Unread == IF Processing \/ packets # <<>> THEN m_changes ELSE <<>>

\* The file that a new name would be taken for the new name of, if it came next.
RenamedFrom == IF Processing THEN {File(m_path, m_oldName)} \cap Files ELSE {}

InFlight ==
    FilesOf(changes \o Unread) \cup RenamedFrom
      \cup UNION {FilesOfEvent(m_folderNotifications[k]) : k \in DOMAIN m_folderNotifications}

Gone(folder) == disk[folder] \ disk'[folder]
Come(folder) == disk'[folder] \ disk[folder]
Touched(folder) == {File(folder, name) : name \in Gone(folder) \cup Come(folder)}

\* Nobody reads the changes of the folder.
Untold == UNION {Touched(folder) : folder \in {f \in Folders : ~Reported(f)}}

\* A read was completed into the buffer before the last one was processed: a new
\* name may come next, and be taken for that of a file renamed long ago.
Overwritten ==
    IF Len(packets') > Len(packets) /\ Unread # <<>>
    THEN FilesOf(Unread) \cup FilesOf(m_changes') \cup RenamedFrom ELSE {}

\* Too many changes between two reads; the thread ends and leaves some behind.
Dropped ==
    IF changes' = Overflow \/ (monitor' = "exited" /\ (changes' # <<>> \/ packets' # <<>>))
    THEN Files ELSE {}

\* RenamedImage neither adds nor removes: the extension has become known, or is
\* not any more. And a file that was astray has another name.
Disguised ==
    UNION {Touched(folder) : folder \in
              {f \in Folders : /\ Gone(f) # {} /\ Come(f) # {}
                               /\ \/ Gone(f) \subseteq Viewable <=> ~(Come(f) \subseteq Viewable)
                                  \/ \E name \in Gone(f) : File(f, name) \in astray}}

\* An event of a folder that is no longer shown is applied all the same.
Stale ==
    IF Len(m_folderNotifications') < Len(m_folderNotifications)
    THEN LET event == Head(m_folderNotifications)
         IN  IF event.path = m_folder THEN {}
             ELSE IF event.type = "MonitoredFolderDeleted" THEN Files ELSE FilesOfEvent(event)
    ELSE {}

\* The viewer changes its list itself, ahead of events about the same files.
AheadOfEvents ==
    LET files == {file \in Files : listed[file] # listed'[file]}
    IN  IF viewer = "idle" /\ viewer' = "idle" /\ m_folderNotifications' = m_folderNotifications
           /\ files \cap InFlight # {}
        THEN files \cup InFlight ELSE {}

\* The entry of a rename that failed is lost.
Nameless == IF listed' = listed THEN {} ELSE
    {file \in Files : listed'[NoFile] > listed[NoFile]
                        /\ listed'[file] < listed[file]}

\* A change that is on its way when the folder is listed will be applied to a
\* list that has it already.
Observe ==
    astray' =
        IF viewer = "listing" THEN InFlight
        ELSE IF viewer = "closing" /\ viewer' = "idle" THEN Files
        ELSE astray \cup Untold \cup Overwritten \cup Dropped \cup Disguised
                    \cup Stale \cup AheadOfEvents \cup Nameless

-----------------------------------------------------------------------------

MonitorThread == MonitorStep /\ UNCHANGED <<viewVars, boundVars>> /\ Observe

ViewerThread ==
    /\ \/ StartMonitor \/ FolderIsGone \/ FillCacher
       \/ OnFileEvent \/ OnFolderDeleted \/ MonitorClosed
    /\ Observe

UserStep ==
    \/ \E folder \in Folders : SetImageLocation(folder)
    \/ \E folder \in Folders, name \in Names : RemoveImage(folder, name) \/ RenameFails(folder, name)
    \/ \E folder \in Folders, old, new \in Names : RenameCurrent(folder, old, new)

Next == ((OthersChange \/ UserStep) /\ Observe) \/ ViewerThread \/ MonitorThread

\* Both threads are scheduled; nothing is assumed of the user or the disk.
Spec == Init /\ [][Next]_vars /\ WF_vars(ViewerThread) /\ WF_vars(MonitorThread)

-----------------------------------------------------------------------------
(* Properties.                                                             *)

\* The thread follows NextEntryOffset from record to record, and finds one
\* wherever that leads, even in a buffer that is written while it is read.
StaysInBuffer == Processing => offset \in DOMAIN m_changes

\* "Notification queue is empty." is never thrown: there is a notification for
\* each FolderEvent in the window's queue, however often folders are switched.
NotificationForEachEvent ==
    Len(m_folderNotifications) = posted + (IF monitor \in {"notifying", "leaving"} THEN 1 ELSE 0)

\* Nothing is on its way from the disk to the list.
Quiet ==
    /\ viewer = "idle" /\ posted = 0 /\ m_folderNotifications = <<>>
    /\ monitor \in {"none", "exited"} \/ (monitor \in {"read", "waiting"} /\ changes = <<>> /\ packets = <<>>)

\* Once everything has been handled, a file is listed once if the shown folder
\* has it and a codec knows its extension, and not listed otherwise, unless its
\* changes went astray in one of the ways named above.
ListMatchesFolder ==
    Quiet =>
        \A file \in Files \ astray :
            listed[file] =
                IF file[1] = m_folder /\ file[2] \in disk[m_folder] \cap Viewable THEN 1 ELSE 0

\* FolderMonitor::Close returns, so opening a folder and handling the end of one
\* are finished whatever the monitor's thread was doing.
CloseReturns == (viewer # "idle") ~> (viewer = "idle")

\* When the disk is left alone, the list catches up.
CatchesUp == []<>Quiet

=============================================================================
