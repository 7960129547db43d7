---------------------------- MODULE MCFolderView ----------------------------
(***************************************************************************)
(* FolderView for TLC.                                                     *)
(***************************************************************************)
EXTENDS FolderView, TLC

Symmetry == Permutations(Folders) \cup Permutations(Viewable)

\* What is left in the buffer, and where the thread was in it, when every record
\* has been processed is written before it is read again.
View == <<diskVars, watching, changes, reads, packets, Unread, handleVars, queueVars,
          monitor, m_oldName, IF Processing THEN offset ELSE 1, viewVars, astray, boundVars>>

=============================================================================
