--------------------------- MODULE SnapshotHistory ---------------------------
(***************************************************************************)
(* What the snapshot index promises its readers, without deltas, bases,    *)
(* transactions or retries: a snapshot, once stored, serves the same files *)
(* until it is deleted and never comes back; heads only move to a snapshot *)
(* just stored; a snapshot a head names is never deleted.                  *)
(***************************************************************************)
EXTENDS Naturals

CONSTANTS Snapshots, Locations, FileSets, NoFiles

VARIABLES
  content,  \* the files each snapshot serves, NoFiles when it is not stored
  current   \* the snapshot each location's head names, 0 for none

historyVars == <<content, current>>

Stored == {o \in Snapshots : content[o] # NoFiles}

HistoryInit ==
  /\ content = [o \in Snapshots |-> NoFiles]
  /\ current = [l \in Locations |-> 0]

\* One snapshot of location l appears whole; the head of l may move to it.
Append(l, o, files) ==
  /\ \A s \in Stored : s < o  \* identities are never used twice
  /\ content' = [content EXCEPT ![o] = files]
  /\ current' \in {current, [current EXCEPT ![l] = o]}

\* Snapshots disappear together; none of them is a head.
Forget(gone) ==
  /\ gone # {}
  /\ \A l \in Locations : current[l] \notin gone
  /\ content' = [o \in Snapshots |-> IF o \in gone THEN NoFiles ELSE content[o]]
  /\ UNCHANGED current

HistoryNext ==
  \/ \E l \in Locations, o \in Snapshots, files \in FileSets : Append(l, o, files)
  \/ \E gone \in SUBSET Stored : Forget(gone)

HistorySpec == HistoryInit /\ [][HistoryNext]_historyVars
=============================================================================
