--------------------------- MODULE MCSnapshotFiles ---------------------------
(* Three snapshots, the oldest of which is not saved here: there may be    *)
(* its database, so that release_snapdbs has more than one to remove.      *)
EXTENDS SnapshotFiles

OldestIsDatabase == files[1] = "absent"
=============================================================================
