---------------------------- MODULE SnapshotFiles ----------------------------
(***************************************************************************)
(* SnapShotter: snapshots as files of a directory                          *)
(* (server/src/etcdserver/api/rafthttp/snap/snap_shotter.rs).              *)
(*                                                                         *)
(* A snapshot is its index; save writes it to <index>-<term>.snap with     *)
(* write_and_sync_file, over whatever has that name, in steps that may     *)
(* fail and that the end of the process or of the machine may come         *)
(* between.  A file holds nothing, a part of a snapshot or all of it.      *)
(* What was not synced is in any state it went through after a crash of    *)
(* the machine.  The directory is never synced: a new name may be gone     *)
(* after the first crash, even if its file was synced.                     *)
(*                                                                         *)
(* The process loads a snapshot when it starts.  Nothing makes it save     *)
(* newer ones only: it may have started from an old one.                   *)
(*                                                                         *)
(* The checksum is no part of a file's state: digest is a const, of which  *)
(* every use is a new copy, so the checksum is that of no data at all and  *)
(* is always right.  A part of a snapshot therefore fails to parse, and    *)
(* the unwrap of that error ends the process.                              *)
(*                                                                         *)
(* The mode that files are created with, 0x66, lets only root read them:   *)
(* the process is taken to be root's.  Names of .snap.db files are taken   *)
(* to be indexes, which release_snapdbs unwraps.                           *)
(***************************************************************************)
EXTENDS Integers

CONSTANT MaxIndex       \* bound: the index of the last snapshot

ASSUME MaxIndexAssumption == MaxIndex \in Nat \ {0}

VARIABLES
    files,      \* the content of every <index>-<term>.snap, as the process sees it
    disk,       \* the contents that a crash of the machine may leave it with
    dbs,        \* the indexes of the .snap.db files
    task,       \* what the process is doing with snapshots
    release,    \* what release_snapdbs has still to do
    saved,      \* history: the snapshots whose last save has returned Ok
    newest,     \* history: the largest index a save has returned Ok for
    received    \* history: the snapshots that came with a .snap.db file

filesVars == <<files, disk, dbs, task, release, saved, newest, received>>

Index == 1..MaxIndex

\* The contents of a file
Content == {"absent", "empty", "torn", "full"}

Saving == {"empty", "torn", "full"}

Task ==
    [pc : {"load"}, todo : SUBSET Index] \cup [pc : Saving, index : Index]
    \cup [pc : {"started"}, from : 0..MaxIndex] \cup {[pc |-> "run"]}

Running == [pc |-> "run"]
NoRelease == [index |-> 0, todo |-> {}]

-----------------------------------------------------------------------------
(***************************************************************************)
(* SnapShotter::save and write_and_sync_file.                              *)
(***************************************************************************)

\* open with create and truncate: whatever was there is gone.
Create(i) ==
    /\ task = Running
    /\ files' = [files EXCEPT ![i] = "empty"]
    /\ disk' = [disk EXCEPT ![i] = @ \cup {"empty"}]
    /\ task' = [pc |-> "empty", index |-> i]
    /\ saved' = saved \ {i}
    /\ UNCHANGED <<dbs, release, newest, received>>

\* write_all, in one write or more
Write(part) ==
    /\ task.pc \in {"empty", "torn"} /\ part # task.pc
    /\ files' = [files EXCEPT ![task.index] = part]
    /\ disk' = [disk EXCEPT ![task.index] = @ \cup {"torn", part}]
    /\ task' = [task EXCEPT !.pc = part]
    /\ UNCHANGED <<dbs, release, saved, newest, received>>

\* save has returned Ok.
Saved(i) ==
    /\ saved' = saved \cup {i}
    /\ newest' = IF i > newest THEN i ELSE newest
    /\ task' = Running
    /\ UNCHANGED <<files, dbs, release, received>>

\* The file is not synced.
MutSync ==
    /\ task.pc = "full"
    /\ UNCHANGED disk
    /\ Saved(task.index)

\* sync_all, of the file and not of the directory
Sync ==
    /\ task.pc = "full"
    /\ disk' = [disk EXCEPT ![task.index] = {"full"} \cup (@ \cap {"absent"})]
    /\ Saved(task.index)

\* write_all or sync_all fails: save returns the error and leaves the file as
\* it is.
SaveFails ==
    /\ task.pc \in Saving
    /\ task' = Running
    /\ UNCHANGED <<files, disk, dbs, release, saved, newest, received>>

-----------------------------------------------------------------------------
(***************************************************************************)
(* SnapShotter::release_snapdbs, which may run beside a save.              *)
(***************************************************************************)

\* A snapshot's database arrives (external).
ReceiveDb(i) ==
    /\ task.pc # "load" /\ i \notin received
    /\ dbs' = dbs \cup {i}
    /\ received' = received \cup {i}
    /\ UNCHANGED <<files, disk, task, release, saved, newest>>

\* The snapshot's own database is an orphan, too.
MutOrphans(i) == {d \in dbs : d <= i}

Orphans(i) == {d \in dbs : d < i}

\* The names are read at once, for a snapshot that was saved.
ReleaseSnapdbs(i) ==
    /\ task.pc # "load" /\ release = NoRelease /\ i \in saved
    /\ Orphans(i) # {}
    /\ release' = [index |-> i, todo |-> Orphans(i)]
    /\ UNCHANGED <<files, disk, dbs, task, saved, newest, received>>

\* The files are removed one by one, until an error.
RemoveDb(d) ==
    /\ d \in release.todo
    /\ dbs' = dbs \ {d}
    /\ release' = IF release.todo = {d} THEN NoRelease ELSE [release EXCEPT !.todo = @ \ {d}]
    /\ UNCHANGED <<files, disk, task, saved, newest, received>>

RemoveFails ==
    /\ release # NoRelease
    /\ release' = NoRelease
    /\ UNCHANGED <<files, disk, dbs, task, saved, newest, received>>

-----------------------------------------------------------------------------
(***************************************************************************)
(* SnapShotter::load, load_snap and read.                                  *)
(***************************************************************************)

\* read returns a snapshot.
Readable(i) == files[i] = "full"

\* snap_names
Names == {i \in Index : files[i] # "absent"}

\* The first file that cannot be read is the end of it.
MutLoadNext(i) ==
    /\ task.pc = "load" /\ i \in task.todo /\ files[i] # "torn"
    /\ task' = [pc |-> "started", from |-> IF Readable(i) THEN i ELSE 0]
    /\ UNCHANGED <<files, disk, dbs, release, saved, newest, received>>

\* One file after the other in the order of read_dir.  The first that can be
\* read is the result; an empty one is renamed to .broken, which may fail.
LoadNext(i) ==
    /\ task.pc = "load" /\ i \in task.todo /\ files[i] # "torn"
    /\ IF Readable(i)
         THEN /\ task' = [pc |-> "started", from |-> i]
              /\ UNCHANGED <<files, disk>>
         ELSE /\ task' = [task EXCEPT !.todo = @ \ {i}]
              /\ \/ /\ files' = [files EXCEPT ![i] = "absent"]
                    /\ disk' = [disk EXCEPT ![i] = @ \cup {"absent"}]
                 \/ UNCHANGED <<files, disk>>
    /\ UNCHANGED <<dbs, release, saved, newest, received>>

\* A part of a snapshot: the process ends, and does so at every start.
LoadPanics(i) ==
    /\ task.pc = "load" /\ i \in task.todo /\ files[i] = "torn"
    /\ task' = [pc |-> "load", todo |-> Names]
    /\ UNCHANGED <<files, disk, dbs, release, saved, newest, received>>

\* NotFound
LoadNothing ==
    /\ task.pc = "load" /\ task.todo = {}
    /\ task' = [pc |-> "started", from |-> 0]
    /\ UNCHANGED <<files, disk, dbs, release, saved, newest, received>>

\* The process has what it needs from load.
Start ==
    /\ task.pc = "started"
    /\ task' = Running
    /\ UNCHANGED <<files, disk, dbs, release, saved, newest, received>>

-----------------------------------------------------------------------------
\* The process ends and starts again.
Restart ==
    /\ task' = [pc |-> "load", todo |-> Names]
    /\ release' = NoRelease
    /\ UNCHANGED <<files, disk, dbs, saved, newest, received>>

\* The machine goes down and comes back.
Crash ==
    /\ \E after \in [Index -> Content] :
        /\ \A i \in Index : after[i] \in disk[i]
        /\ files' = after
        /\ disk' = [i \in Index |-> {after[i]}]
        /\ task' = [pc |-> "load", todo |-> {i \in Index : after[i] # "absent"}]
    /\ release' = NoRelease
    /\ UNCHANGED <<dbs, saved, newest, received>>

FilesInit ==
    /\ files = [i \in Index |-> "absent"]
    /\ disk = [i \in Index |-> {"absent"}]
    /\ dbs = {}
    /\ task = [pc |-> "load", todo |-> {}]
    /\ release = NoRelease
    /\ saved = {}
    /\ newest = 0
    /\ received = {}

FilesNext ==
    \/ \E i \in Index : Create(i) \/ LoadNext(i) \/ LoadPanics(i)
    \/ \E i \in Index : ReceiveDb(i) \/ ReleaseSnapdbs(i) \/ RemoveDb(i)
    \/ \E part \in {"torn", "full"} : Write(part)
    \/ Sync
    \/ SaveFails
    \/ RemoveFails
    \/ LoadNothing
    \/ Start
    \/ Restart
    \/ Crash

FilesSpec == FilesInit /\ [][FilesNext]_filesVars

-----------------------------------------------------------------------------
\* Contents and tasks within their types; the file that is being saved holds
\* what has been written to it.
TypeOK ==
    /\ files \in [Index -> Content] /\ disk \in [Index -> SUBSET Content]
    /\ dbs \subseteq Index /\ saved \subseteq Index /\ received \subseteq Index
    /\ newest \in 0..MaxIndex
    /\ task \in Task
    /\ release \in [index : 0..MaxIndex, todo : SUBSET Index]
    /\ task.pc \in Saving => files[task.index] = task.pc

\* A snapshot whose last save has returned Ok is never left empty or in part,
\* and no load renames it (write_and_sync_file, load_snap): it is there as a
\* whole, and at worst a crash takes it away together with its name, which
\* nothing has synced.  Saving it again gives that up until the save returns:
\* the file is truncated in place.
SavedSurvive ==
    \A i \in saved : \/ files[i] = "full" /\ disk[i] \subseteq {"full", "absent"}
                     \/ disk[i] = {"absent"}

\* The database of the newest snapshot that was ever saved is kept
\* (release_snapdbs), and of any that is still to be saved, whatever is received
\* and saved while older ones are removed one by one.
DatabasesSurvive == \A i \in received : newest <= i => i \in dbs

\* A process starts from nothing only if there is nothing that can be read, and
\* otherwise from a whole snapshot, if it is able to start at all: load_matching
\* goes on after what load_snap has renamed.  (Which snapshot it is depends on
\* read_dir, not on the index, and a torn file ends every start.)
StartsFromSnapshot ==
    task.pc = "started" =>
        IF task.from = 0 THEN \A i \in Index : files[i] \in {"absent", "empty"} ELSE Readable(task.from)
=============================================================================
