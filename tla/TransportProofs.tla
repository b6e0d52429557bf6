-------------------------- MODULE TransportProofs --------------------------
(***************************************************************************)
(* Proofs about the two parts of rafthttp: SnapshotFiles, for any number   *)
(* of snapshots, and PeerLink, for queues, logs and lists of URLs of any   *)
(* size.                                                                   *)
(*                                                                         *)
(* The link.  NoLimbo is about the one field of the leader's Progress that *)
(* says it waits for a snapshot.  Every method of raft.rs that the leader  *)
(* runs makes it wait only by putting the snapshot among its messages      *)
(* (Tells); its Ready hands them to the queue or to the snapshotSender, or *)
(* records that one was dropped; and whoever ends the post of a snapshot   *)
(* ends the wait, or stops and records that.  For that the leader has to   *)
(* remain one (Leading), which is so because the follower never answers in *)
(* a later term (Following) and the leader is a quorum of its own.         *)
(***************************************************************************)
EXTENDS SnapshotFiles, PeerLink, QuorumRulesProofs

-----------------------------------------------------------------------------
(***************************************************************************)
(* SnapshotFiles.                                                          *)
(***************************************************************************)
\* What makes the three invariants inductive: the file that is being saved does
\* not count as saved any more, whatever a load has still to come to is among the
\* files it has left, and release_snapdbs only has databases before a snapshot
\* that was saved.
FilesInv ==
    /\ TypeOK
    /\ SavedSurvive
    /\ StartsFromSnapshot
    /\ DatabasesSurvive
    /\ \A i \in Index : files[i] \in disk[i]
    /\ task.pc \in Saving => task.index \notin saved
    /\ task.pc = "load" => \A i \in Index : files[i] \in {"absent", "empty"} \/ i \in task.todo
    /\ \A i \in saved : i <= newest
    /\ release.index <= newest /\ \A d \in release.todo : d < release.index

\* The part of it that is about databases
DbsInv ==
    /\ DatabasesSurvive
    /\ \A i \in saved : i <= newest
    /\ release.index <= newest /\ \A d \in release.todo : d < release.index

\* An empty directory keeps the invariant.
LEMMA FilesInitInv == FilesInit => FilesInv
<1> SUFFICES ASSUME FilesInit PROVE FilesInv
  OBVIOUS
<1> USE MaxIndexAssumption
<1>1. TypeOK
  BY DEF FilesInit, TypeOK, Index, Content, Task, Saving, NoRelease
<1>2. SavedSurvive /\ StartsFromSnapshot /\ DatabasesSurvive
  BY DEF FilesInit, SavedSurvive, StartsFromSnapshot, DatabasesSurvive
<1> QED
  BY <1>1, <1>2 DEF FilesInit, FilesInv, NoRelease, Saving

\* What becomes of the databases as long as nothing is received or removed.
LEMMA SameDbs ==
    ASSUME FilesInv, UNCHANGED <<dbs, received>>, release' \in {release, NoRelease},
           \/ saved' \subseteq saved /\ newest' = newest
           \/ \E i \in Index : saved' = saved \cup {i} /\ newest' = IF i > newest THEN i ELSE newest
    PROVE  DbsInv'
<1> USE MaxIndexAssumption
<1>0. newest \in Nat /\ saved \subseteq Nat /\ Index \subseteq Nat
  BY DEF FilesInv, TypeOK, Index
<1>1. newest \in Nat /\ newest' \in Nat /\ newest <= newest' /\ saved \subseteq Nat /\ saved' \subseteq Nat
  <2>1. CASE saved' \subseteq saved /\ newest' = newest
    BY <1>0, <2>1
  <2>2. ASSUME NEW i \in Index, saved' = saved \cup {i}, newest' = IF i > newest THEN i ELSE newest
        PROVE  newest' \in Nat /\ newest <= newest' /\ saved' \subseteq Nat
    <3>1. i \in Nat
      BY <1>0
    <3> QED
      BY <1>0, <2>2, <3>1
  <2> QED
    BY <1>0, <2>1, <2>2
<1>2. \A i \in saved' : i <= newest'
  BY <1>0, <1>1 DEF FilesInv
<1>3. release'.index <= newest' /\ \A d \in release'.todo : d < release'.index
  <2>1. release.index \in Nat
    BY DEF FilesInv, TypeOK
  <2>2. CASE release' = release
    BY <1>1, <2>1, <2>2 DEF FilesInv
  <2>3. CASE release' = NoRelease
    BY <1>1, <2>3 DEF NoRelease
  <2> QED
    BY <2>2, <2>3
<1>4. DatabasesSurvive'
  <2> SUFFICES ASSUME NEW i \in received, newest' <= i PROVE i \in dbs
    BY DEF DatabasesSurvive
  <2>1. i \in Nat /\ newest <= i
    BY <1>1 DEF FilesInv, TypeOK, Index
  <2> QED
    BY <2>1 DEF FilesInv, DatabasesSurvive
<1> QED
  BY <1>2, <1>3, <1>4 DEF DbsInv

\* Saving a snapshot touches no other file.
LEMMA SaveKeepsFilesInv ==
    ASSUME FilesInv, NEW i \in Index,
           Create(i) \/ (\E part \in {"torn", "full"} : Write(part)) \/ Sync \/ SaveFails
    PROVE  FilesInv'
<1> USE MaxIndexAssumption
<1>1. CASE Create(i)
  <2>1. DbsInv'
    BY <1>1, SameDbs DEF Create
  <2>2. TypeOK'
    BY <1>1 DEF FilesInv, TypeOK, Create, Index, Content, Task, Running, Saving
  <2>3. SavedSurvive' /\ StartsFromSnapshot'
    BY <1>1 DEF FilesInv, TypeOK, SavedSurvive, StartsFromSnapshot, Create
  <2>4. (\A k \in Index : files[k] \in disk[k])'
    BY <1>1 DEF FilesInv, TypeOK, Create
  <2> QED
    BY <1>1, <2>1, <2>2, <2>3, <2>4 DEF FilesInv, DbsInv, Create
<1>2. ASSUME NEW part \in {"torn", "full"}, Write(part) PROVE FilesInv'
  <2>1. task \in [pc : Saving, index : Index] /\ task.index \notin saved
    BY <1>2 DEF FilesInv, TypeOK, Write, Task, Running, Saving
  <2>2. DbsInv'
    BY <1>2, SameDbs DEF Write
  <2>3. TypeOK'
    BY <1>2, <2>1 DEF FilesInv, TypeOK, Write, Content, Task, Saving
  <2>4. SavedSurvive' /\ StartsFromSnapshot'
    BY <1>2, <2>1 DEF FilesInv, TypeOK, SavedSurvive, StartsFromSnapshot, Write
  <2>5. (\A k \in Index : files[k] \in disk[k])'
    BY <1>2, <2>1 DEF FilesInv, TypeOK, Write
  <2> QED
    BY <1>2, <2>1, <2>2, <2>3, <2>4, <2>5 DEF FilesInv, DbsInv, Write
<1>3. CASE Sync
  <2>1. task \in [pc : Saving, index : Index] /\ files[task.index] = "full"
    BY <1>3 DEF FilesInv, TypeOK, Sync, Task, Running, Saving
  <2>2. DbsInv'
    BY <1>3, <2>1, SameDbs DEF Sync, Saved
  <2>3. TypeOK'
    <3>0. task' \in Task /\ task'.pc \notin Saving
      BY <1>3 DEF Sync, Saved, Task, Running, Saving
    <3>1. newest' \in 0..MaxIndex /\ saved' \subseteq Index
      <4>1. task.index \in Index /\ newest \in 0..MaxIndex /\ saved \subseteq Index
        BY <2>1 DEF FilesInv, TypeOK
      <4>2. newest' = (IF task.index > newest THEN task.index ELSE newest) /\ saved' = saved \cup {task.index}
        BY <1>3 DEF Sync, Saved
      <4>3. \A k \in Index, n \in 0..MaxIndex : (IF k > n THEN k ELSE n) \in 0..MaxIndex
        BY DEF Index
      <4> QED
        BY <4>1, <4>2, <4>3
    <3>2. disk' \in [Index -> SUBSET Content]
      BY <1>3, <2>1 DEF FilesInv, TypeOK, Sync, Content
    <3> QED
      BY <1>3, <3>0, <3>1, <3>2 DEF FilesInv, TypeOK, Sync, Saved
  <2>4. SavedSurvive' /\ StartsFromSnapshot'
    BY <1>3, <2>1 DEF FilesInv, TypeOK, SavedSurvive, StartsFromSnapshot, Sync, Saved, Running
  <2>5. (\A k \in Index : files[k] \in disk[k])'
    BY <1>3, <2>1 DEF FilesInv, TypeOK, Sync, Saved
  <2> QED
    BY <1>3, <2>2, <2>3, <2>4, <2>5 DEF FilesInv, DbsInv, Sync, Saved, Running, Saving
<1>4. CASE SaveFails
  <2>1. DbsInv'
    BY <1>4, SameDbs DEF SaveFails
  <2>2. TypeOK'
    BY <1>4 DEF FilesInv, TypeOK, SaveFails, Task, Running, Saving
  <2> QED
    BY <1>4, <2>1, <2>2 DEF FilesInv, DbsInv, SavedSurvive, StartsFromSnapshot, SaveFails, Running, Saving
<1> QED
  BY <1>1, <1>2, <1>3, <1>4

\* Loading renames nothing but empty files, and passes over nothing else.
LEMMA LoadKeepsFilesInv ==
    ASSUME FilesInv, NEW i \in Index, LoadNext(i) \/ LoadPanics(i) \/ LoadNothing \/ Start \/ Restart
    PROVE  FilesInv'
<1> USE MaxIndexAssumption
<1>1. DbsInv'
  BY SameDbs DEF LoadNext, LoadPanics, LoadNothing, Start, Restart
<1>2. CASE LoadNext(i)
  <2>1. task \in [pc : {"load"}, todo : SUBSET Index] /\ i \in task.todo /\ files[i] # "torn"
    BY <1>2 DEF FilesInv, TypeOK, LoadNext, Task, Running, Saving
  <2>2. CASE Readable(i)
    <3>1. task' = [pc |-> "started", from |-> i] /\ UNCHANGED <<files, disk, saved, dbs, release, newest, received>>
      BY <1>2, <2>2 DEF LoadNext
    <3>2. TypeOK'
      BY <3>1 DEF FilesInv, TypeOK, Task, Index, Saving
    <3> QED
      BY <1>1, <2>2, <3>1, <3>2 DEF FilesInv, DbsInv, SavedSurvive, StartsFromSnapshot, Readable, Saving, Index
  <2>3. CASE ~Readable(i)
    <3>1. /\ task' = [task EXCEPT !.todo = @ \ {i}] /\ UNCHANGED <<saved, dbs, release, newest, received>>
          /\ \/ /\ files' = [files EXCEPT ![i] = "absent"]
                /\ disk' = [disk EXCEPT ![i] = @ \cup {"absent"}]
             \/ UNCHANGED <<files, disk>>
      BY <1>2, <2>3 DEF LoadNext
    <3>2. files[i] \in {"absent", "empty"}
      BY <2>1, <2>3 DEF FilesInv, TypeOK, Content, Readable
    <3>3. task' = [pc |-> "load", todo |-> task.todo \ {i}]
      BY <2>1, <3>1
    <3>4. TypeOK'
      BY <2>1, <3>1, <3>3 DEF FilesInv, TypeOK, Task, Content, Saving
    <3>5. SavedSurvive' /\ (\A k \in Index : files[k] \in disk[k])'
      <4>1. CASE UNCHANGED <<files, disk>>
        BY <3>1, <4>1 DEF FilesInv, SavedSurvive
      <4>2. CASE /\ files' = [files EXCEPT ![i] = "absent"]
                 /\ disk' = [disk EXCEPT ![i] = @ \cup {"absent"}]
        <5>1. i \in saved => disk[i] = {"absent"}
          BY <2>3 DEF FilesInv, SavedSurvive, Readable
        <5>2. ASSUME NEW k \in saved PROVE \/ files'[k] = "full" /\ disk'[k] \subseteq {"full", "absent"}
                                           \/ disk'[k] = {"absent"}
          BY <3>1, <4>2, <5>1 DEF FilesInv, TypeOK, SavedSurvive
        <5> QED
          BY <3>1, <4>2, <5>2 DEF FilesInv, TypeOK, SavedSurvive
      <4> QED
        BY <3>1, <4>1, <4>2
    <3>6. (task.pc = "load" => \A k \in Index : files[k] \in {"absent", "empty"} \/ k \in task.todo)'
      BY <2>1, <3>1, <3>2, <3>3 DEF FilesInv, TypeOK
    <3> QED
      BY <1>1, <3>3, <3>4, <3>5, <3>6 DEF FilesInv, DbsInv, StartsFromSnapshot, Saving
  <2> QED
    BY <2>2, <2>3
<1>3. CASE LoadPanics(i) \/ Restart
  <2>1. task' = [pc |-> "load", todo |-> Names] /\ UNCHANGED <<files, disk, dbs, saved, newest, received>>
        /\ release' \in {release, NoRelease}
    BY <1>3 DEF LoadPanics, Restart
  <2>2. TypeOK'
    BY <2>1 DEF FilesInv, TypeOK, Names, Task, Saving, NoRelease
  <2> QED
    BY <1>1, <2>1, <2>2 DEF FilesInv, DbsInv, SavedSurvive, StartsFromSnapshot, Names, Saving
<1>4. CASE LoadNothing
  <2>1. \A k \in Index : files[k] \in {"absent", "empty"}
    BY <1>4 DEF FilesInv, LoadNothing
  <2>2. TypeOK'
    BY <1>4 DEF FilesInv, TypeOK, LoadNothing, Task, Saving
  <2> QED
    BY <1>1, <1>4, <2>1, <2>2 DEF FilesInv, DbsInv, SavedSurvive, StartsFromSnapshot, LoadNothing, Saving
<1>5. CASE Start
  <2>1. TypeOK'
    BY <1>5 DEF FilesInv, TypeOK, Start, Running, Task, Saving
  <2> QED
    BY <1>1, <1>5, <2>1 DEF FilesInv, DbsInv, SavedSurvive, StartsFromSnapshot, Start, Running, Saving
<1> QED
  BY <1>2, <1>3, <1>4, <1>5

\* A crash leaves a saved snapshot as it is or takes it away.
LEMMA CrashKeepsFilesInv ==
    ASSUME FilesInv, Crash
    PROVE  FilesInv'
<1> USE MaxIndexAssumption
<1> PICK after \in [Index -> Content] :
        /\ \A i \in Index : after[i] \in disk[i]
        /\ files' = after
        /\ disk' = [i \in Index |-> {after[i]}]
        /\ task' = [pc |-> "load", todo |-> {i \in Index : after[i] # "absent"}]
  BY DEF Crash
<1>1. DbsInv'
  BY SameDbs DEF Crash
<1>2. TypeOK'
  BY DEF FilesInv, TypeOK, Crash, Task, NoRelease, Saving
<1>3. SavedSurvive' /\ StartsFromSnapshot'
  BY DEF Crash, FilesInv, TypeOK, SavedSurvive, StartsFromSnapshot
<1> QED
  BY <1>1, <1>2, <1>3 DEF FilesInv, DbsInv, Crash, Saving

\* release_snapdbs removes what is before a snapshot that was saved.
LEMMA ReleaseKeepsFilesInv ==
    ASSUME FilesInv, NEW i \in Index, ReceiveDb(i) \/ ReleaseSnapdbs(i) \/ RemoveDb(i) \/ RemoveFails
    PROVE  FilesInv'
<1> USE MaxIndexAssumption
<1>1. /\ UNCHANGED <<files, disk, task, saved, newest>>
      /\ SavedSurvive' /\ StartsFromSnapshot'
  BY DEF FilesInv, SavedSurvive, StartsFromSnapshot, Readable, ReceiveDb, ReleaseSnapdbs, RemoveDb, RemoveFails
<1>2. newest \in Nat /\ saved \subseteq Nat /\ dbs \subseteq Nat /\ i \in Nat /\ received \subseteq Nat
      /\ release.index \in Nat
  BY DEF FilesInv, TypeOK, Index
<1>3. TypeOK'
  BY <1>1 DEF FilesInv, TypeOK, ReceiveDb, ReleaseSnapdbs, RemoveDb, RemoveFails, Orphans, NoRelease, Index
<1>4. release'.index <= newest /\ \A d \in release'.todo : d < release'.index
  <2>1. CASE release' \in {release, NoRelease}
    BY <1>2, <2>1 DEF FilesInv, NoRelease
  <2>2. CASE ReleaseSnapdbs(i)
    BY <1>2, <2>2 DEF FilesInv, ReleaseSnapdbs, Orphans
  <2>3. CASE RemoveDb(i) /\ release' = [release EXCEPT !.todo = @ \ {i}]
    BY <2>3 DEF FilesInv, TypeOK
  <2> QED
    BY <2>1, <2>2, <2>3 DEF ReceiveDb, RemoveDb, RemoveFails
<1>5. DatabasesSurvive'
  <2>1. CASE ReceiveDb(i)
    BY <2>1 DEF FilesInv, DatabasesSurvive, ReceiveDb
  <2>2. CASE RemoveDb(i)
    <3>1. i < newest
      BY <1>2, <2>2 DEF FilesInv, RemoveDb
    <3> QED
      BY <1>2, <2>2, <3>1 DEF FilesInv, DatabasesSurvive, RemoveDb
  <2>3. CASE ReleaseSnapdbs(i) \/ RemoveFails
    BY <2>3 DEF FilesInv, DatabasesSurvive, ReleaseSnapdbs, RemoveFails
  <2> QED
    BY <2>1, <2>2, <2>3
<1> QED
  BY <1>1, <1>3, <1>4, <1>5 DEF FilesInv

\* So does every step.
LEMMA FilesNextInv == FilesInv /\ [FilesNext]_filesVars => FilesInv'
<1> SUFFICES ASSUME FilesInv, [FilesNext]_filesVars PROVE FilesInv'
  OBVIOUS
<1>1. 1 \in Index
  BY MaxIndexAssumption DEF Index
<1>2. ASSUME NEW i \in Index, Create(i) \/ LoadNext(i) \/ LoadPanics(i) PROVE FilesInv'
  BY <1>2, SaveKeepsFilesInv, LoadKeepsFilesInv
<1>3. ASSUME NEW i \in Index, ReceiveDb(i) \/ ReleaseSnapdbs(i) \/ RemoveDb(i) PROVE FilesInv'
  BY <1>3, ReleaseKeepsFilesInv
<1>4. ASSUME (\E part \in {"torn", "full"} : Write(part)) \/ Sync \/ SaveFails PROVE FilesInv'
  BY <1>1, <1>4, SaveKeepsFilesInv
<1>5. ASSUME LoadNothing \/ Start \/ Restart PROVE FilesInv'
  BY <1>1, <1>5, LoadKeepsFilesInv
<1>6. CASE RemoveFails
  BY <1>1, <1>6, ReleaseKeepsFilesInv
<1>7. CASE UNCHANGED filesVars
  BY <1>7 DEF FilesInv, TypeOK, SavedSurvive, StartsFromSnapshot, DatabasesSurvive, Readable, filesVars
<1> QED
  BY <1>2, <1>3, <1>4, <1>5, <1>6, <1>7, CrashKeepsFilesInv DEF FilesNext

-----------------------------------------------------------------------------
\* Files, databases and the process keep to their types, and the file that is
\* being saved holds what write_and_sync_file has written to it.
THEOREM TypeCorrectness == FilesSpec => []TypeOK
<1>1. FilesInv => TypeOK
  BY DEF FilesInv
<1> QED
  BY FilesInitInv, FilesNextInv, <1>1, PTL DEF FilesSpec

\* A snapshot whose last save has returned Ok is never left empty or in part, for
\* any number of snapshots, saves over existing files, failures and crashes:
\* write_and_sync_file syncs before save returns, and load_snap renames only what
\* read cannot read.  It may vanish as a whole with an unsynced directory.
THEOREM SnapshotsSurvive == FilesSpec => []SavedSurvive
<1>1. FilesInv => SavedSurvive
  BY DEF FilesInv
<1> QED
  BY FilesInitInv, FilesNextInv, <1>1, PTL DEF FilesSpec

\* A load that ends has found a whole snapshot, or there is none to be read.
THEOREM LoadFindsSnapshot == FilesSpec => []StartsFromSnapshot
<1>1. FilesInv => StartsFromSnapshot
  BY DEF FilesInv
<1> QED
  BY FilesInitInv, FilesNextInv, <1>1, PTL DEF FilesSpec

\* release_snapdbs keeps the database of the newest snapshot, whatever is received
\* and saved while it runs and wherever it stops.
THEOREM NewestDatabaseSurvives == FilesSpec => []DatabasesSurvive
<1>1. FilesInv => DatabasesSurvive
  BY DEF FilesInv
<1> QED
  BY FilesInitInv, FilesNextInv, <1>1, PTL DEF FilesSpec

-----------------------------------------------------------------------------
(***************************************************************************)
(* PeerLink.                                                               *)
(***************************************************************************)

\* The fields of struct Raft and of struct Progress that the model keeps.
RaftFields == {"id", "config", "term", "vote", "state", "leader_id", "lead_transferee", "log", "first",
    "snap", "committed", "persisted", "applied", "conf", "votes", "prs", "pending_conf_index",
    "pending_request_snapshot", "reads", "read_states", "expired", "msgs"}

ProgressFields == {"matched", "next_idx", "state", "paused", "pending_snapshot",
    "pending_request_snapshot", "recent_active", "ins"}

\* A Progress, as far as its state goes.
IsProgress(p) == DOMAIN p = ProgressFields /\ p.state \in {"Probe", "Replicate", "Snapshot"}

\* What the leader says to the follower, and what the follower answers.
Said(m) ==
    /\ m.type \in {"MsgAppend", "MsgHeartbeat", "MsgSnapshot"}
    /\ m.term = 1
    /\ m.type = "MsgHeartbeat" => m.ctx = None

Reply(m) ==
    /\ m.type \in {"MsgAppendResponse", "MsgHeartbeatResponse"}
    /\ m.term = 1 /\ m.from = Peer
    /\ m.type = "MsgHeartbeatResponse" => m.ctx = None

\* The leader between any two method calls: it has not stepped down, nobody
\* asked it for a read or for its leadership.
Leading(s) ==
    /\ DOMAIN s = RaftFields
    /\ s.id = Leader /\ s.state = "Leader" /\ s.term = 1
    /\ s.conf = LinkConf /\ s.config = LinkConfig
    /\ s.lead_transferee = None /\ s.reads = <<>>
    /\ DOMAIN s.prs = {Leader, Peer} /\ \A j \in {Leader, Peer} : IsProgress(s.prs[j])
    /\ s.log \in Seq([term : {1}, type : {"Normal"}, data : {Empty}])
    /\ IsFiniteSet(s.msgs) /\ \A m \in s.msgs : Said(m)

\* The follower between any two method calls.
Following(s) ==
    /\ DOMAIN s = RaftFields
    /\ s.id = Peer /\ s.state = "Follower" /\ s.term \in {0, 1}
    /\ \A m \in s.msgs : Reply(m)

\* A snapshot is among the messages.
Snapped(s) == \E m \in s.msgs : IsMsgSnap(m)

\* What the methods of the leader may do: whatever makes it wait for a snapshot
\* has put the snapshot among the messages.
Tells(s, t) ==
    /\ Leading(t)
    /\ s.msgs \subseteq t.msgs
    /\ t.prs[Peer].state = "Snapshot" => s.prs[Peer].state = "Snapshot" \/ Snapped(t)

\* Doing nothing begins no wait.
LEMMA TellsRefl == ASSUME NEW s, Leading(s) PROVE Tells(s, s)
  BY DEF Tells

\* Whatever a method does, the leader goes on as leader.
LEMMA TellsLeading == ASSUME NEW s, NEW t, Tells(s, t) PROVE Leading(t)
  BY DEF Tells

\* Two methods in a row do what each of them may.
LEMMA TellsTrans == ASSUME NEW s, NEW t, NEW u, Tells(s, t), Tells(t, u) PROVE Tells(s, u)
  BY DEF Tells, Snapped

\* The Progress of j is replaced by one that waits for a snapshot only if the
\* old one did.
LEMMA SetProgressTells ==
    ASSUME NEW s, Leading(s), NEW j \in {Leader, Peer}, NEW p, IsProgress(p),
           p.state = "Snapshot" => s.prs[j].state = "Snapshot"
    PROVE  Tells(s, [s EXCEPT !.prs[j] = p])
  BY PeerLinkAssumption DEF Tells, Leading, RaftFields

\* RaftCore::send
LEMMA SendTells ==
    ASSUME NEW s, Leading(s), NEW m, Said(m)
    PROVE  Tells(s, Send(s, m)) /\ Send(s, m).msgs = s.msgs \cup {m} /\ Send(s, m).prs = s.prs
  <1>1. IsFiniteSet(s.msgs \cup {m})
    BY FS_AddElement DEF Leading
  <1> QED BY <1>1 DEF Tells, Leading, RaftFields, Send

\* RaftCore::prepare_send_snapshot
LEMMA MaybeSendSnapshotTells ==
    ASSUME NEW s, Leading(s), NEW j \in {Leader, Peer}
    PROVE  Tells(s, MaybeSendSnapshot(s, j))
  <1> DEFINE m == SnapshotMsg(s, j)
             t == Send(s, m)
             p == BecomeSnapshot(s.prs[j], s.applied)
             u == [t EXCEPT !.prs[j] = p]
  <1>1. Said(m) /\ IsMsgSnap(m)
    BY DEF Said, IsMsgSnap, SnapshotMsg, Leading
  <1>2. Leading(t) /\ t.msgs = s.msgs \cup {m} /\ t.prs = s.prs
    BY <1>1, SendTells DEF Tells
  <1>3. IsProgress(p)
    BY DEF IsProgress, Leading, BecomeSnapshot, ResetState, ProgressFields
  <1> HIDE DEF m, p, t
  <1>4. Leading(u) /\ u.msgs = s.msgs \cup {m}
    BY <1>2, <1>3 DEF Leading, RaftFields
  <1>5. Tells(s, u)
    BY <1>1, <1>4 DEF Tells, Snapped
  <1> QED BY <1>5, TellsRefl DEF MaybeSendSnapshot, m, p, t

\* RaftCore::maybe_send_append
LEMMA MaybeSendAppendTells ==
    ASSUME NEW s, Leading(s), NEW j \in {Leader, Peer}, NEW allow_empty
    PROVE  Tells(s, MaybeSendAppend(s, j, allow_empty))
  <1> DEFINE pr1 == s.prs[j]
             last == MinOf({pr1.next_idx + s.config.max_msg - 1, LastIndex(s)})
             ents == Slice(s, pr1.next_idx, last)
             m == AppendMsg(s, j, pr1.next_idx - 1, ents)
             t == Send(s, m)
             p == IF ents = <<>> THEN pr1 ELSE UpdateState(pr1, last)
  <1>1. Said(m)
    BY DEF Said, AppendMsg, Leading
  <1>2. Tells(s, t) /\ Leading(t) /\ t.prs = s.prs
    BY <1>1, SendTells DEF Tells
  <1>3. IsProgress(p) /\ (p.state = "Snapshot" => pr1.state = "Snapshot")
    <2> HIDE DEF ents, last
    <2> QED BY DEF IsProgress, Leading, UpdateState, ProgressFields
  <1> HIDE DEF m, p, t
  <1>4. Tells(s, [t EXCEPT !.prs[j] = p])
    BY <1>2, <1>3, SetProgressTells, TellsTrans
  <1> HIDE DEF last, ents
  <1> QED BY <1>4, TellsRefl, MaybeSendSnapshotTells DEF MaybeSendAppend, m, p, t, ents, last

\* RaftCore::send_append
LEMMA SendAppendTells ==
    ASSUME NEW s, NEW t, Tells(s, t), NEW j \in {Leader, Peer}
    PROVE  Tells(s, SendAppend(t, j))
  <1>1. Tells(t, SendAppend(t, j))
    BY TellsLeading, MaybeSendAppendTells DEF SendAppend
  <1> QED BY <1>1, TellsTrans

\* The body of the loop of send_append_aggressively
SendMore(s, to) == MaybeSendAppend(s, to, FALSE)

\* The loop of send_append_aggressively is a finite run of it.
LEMMA AggressiveRun ==
    ASSUME NEW s, Leading(s), NEW j
    PROVE  \E N \in Nat : \E f : /\ SendAppendAggressively(s, j) = f[N] /\ f[0] = s
                                  /\ \A k \in Nat : k < N => f[k + 1] = SendMore(f[k], j)
  <1> DEFINE G(x) == SendMore(x, j)
             N == LastIndex(s) + 1
             IsRun(f, m) == f = [k \in 0..m |-> IF k = 0 THEN s ELSE G(f[k - 1])]
             S == {m \in Nat : \E f : IsRun(f, m)}
             sent == CHOOSE f : IsRun(f, N)
  <1>1. N \in Nat
    BY DEF LastIndex, Leading
  <1>2. 0 \in S
    <2> DEFINE f == [k \in 0..0 |-> s]
    <2>1. IsRun(f, 0)
      OBVIOUS
    <2> QED BY <2>1
  <1>3. ASSUME NEW m \in Nat, m \in S PROVE m + 1 \in S
    <2>1. PICK f : IsRun(f, m)
      BY <1>3
    <2> DEFINE g == [k \in 0..(m + 1) |-> IF k <= m THEN f[k] ELSE G(f[m])]
    <2>2. \A k \in 0..(m + 1) : g[k] = IF k = 0 THEN s ELSE G(g[k - 1])
      <3> HIDE DEF G
      <3> QED BY <2>1
    <2>3. g = [k \in 0..(m + 1) |-> g[k]]
      OBVIOUS
    <2> HIDE DEF g, G
    <2>4. IsRun(g, m + 1)
      BY <2>2, <2>3
    <2> HIDE DEF IsRun
    <2> QED BY <2>4
  <1>4. \E f : IsRun(f, N)
    <2> HIDE DEF IsRun, N
    <2> QED BY <1>1, <1>2, <1>3, SetInduction
  <1>5. IsRun(sent, N)
    <2> HIDE DEF IsRun, N
    <2> QED BY <1>4
  <1>6. SendAppendAggressively(s, j) = sent[N]
    BY Zenon DEF SendAppendAggressively, SendMore
  <1> HIDE DEF sent, N
  <1>7. sent[0] = s /\ \A k \in Nat : k < N => sent[k + 1] = G(sent[k])
    <2> HIDE DEF G
    <2> QED BY <1>1, <1>5
  <1> QED BY <1>1, <1>6, <1>7

\* Raft::send_append_aggressively
LEMMA SendAppendAggressivelyTells ==
    ASSUME NEW s, Leading(s), NEW j \in {Leader, Peer}
    PROVE  Tells(s, SendAppendAggressively(s, j))
  <1>1. PICK N \in Nat : \E f : /\ SendAppendAggressively(s, j) = f[N] /\ f[0] = s
                                 /\ \A k \in Nat : k < N => f[k + 1] = SendMore(f[k], j)
    BY AggressiveRun
  <1>2. PICK f : /\ SendAppendAggressively(s, j) = f[N] /\ f[0] = s
                 /\ \A k \in Nat : k < N => f[k + 1] = SendMore(f[k], j)
    BY <1>1
  <1> DEFINE T == {k \in Nat : k <= N => Tells(s, f[k])}
  <1>3. 0 \in T
    BY <1>2, TellsRefl
  <1>4. ASSUME NEW k \in Nat, k \in T PROVE k + 1 \in T
    <2>1. SUFFICES ASSUME k + 1 <= N PROVE Tells(s, f[k + 1])
      OBVIOUS
    <2>2. Tells(s, f[k]) /\ f[k + 1] = SendMore(f[k], j)
      BY <1>2, <1>4, <2>1
    <2>3. Tells(f[k], SendMore(f[k], j))
      BY <2>2, MaybeSendAppendTells DEF SendMore, Tells
    <2> QED BY <2>2, <2>3, TellsTrans
  <1>5. N \in T
    BY <1>3, <1>4, SetInduction
  <1> QED BY <1>2, <1>5

\* The leader has one peer.
LEMMA OnePeer == ASSUME NEW s, Leading(s) PROVE Peers(s) = {Peer} /\ VotersOf(s.conf) = {Leader}
  BY PeerLinkAssumption DEF Leading, Peers, LinkConf, EmptyTracker, VotersOf

\* Raft::bcast_append
LEMMA BcastAppendTells == ASSUME NEW s, Leading(s) PROVE Tells(s, BcastAppend(s))
  <1> DEFINE a == MaybeSendAppend(s, Peer, TRUE)
             prs == [j \in DOMAIN s.prs |-> IF j = s.id THEN s.prs[j] ELSE MaybeSendAppend(s, j, TRUE).prs[j]]
             t == [s EXCEPT !.prs = prs, !.msgs = s.msgs \cup a.msgs]
  <1>1. Tells(s, a) /\ Leading(a)
    BY MaybeSendAppendTells DEF Tells
  <1>2. UNION {MaybeSendAppend(s, j, TRUE).msgs : j \in Peers(s)} = a.msgs
    BY OnePeer
  <1>3. BcastAppend(s) = t
    BY <1>2 DEF BcastAppend, BcastMaybe
  <1>4. DOMAIN prs = {Leader, Peer} /\ prs[Leader] = s.prs[Leader] /\ prs[Peer] = a.prs[Peer]
    BY PeerLinkAssumption DEF Leading
  <1> HIDE DEF a, prs
  <1>5. s.msgs \cup a.msgs = a.msgs
    BY <1>1 DEF Tells
  <1>6. Leading(t) /\ t.msgs = a.msgs /\ t.prs[Peer] = a.prs[Peer]
    BY <1>1, <1>4, <1>5 DEF Leading, RaftFields
  <1>7. Tells(s, t)
    BY <1>1, <1>6 DEF Tells, Snapped
  <1> QED BY <1>3, <1>7

\* Raft::bcast_heartbeat
LEMMA BcastHeartbeatTells == ASSUME NEW s, Leading(s) PROVE Tells(s, BcastHeartbeat(s))
  <1> DEFINE m == HeartbeatMsg(s, Peer, None)
  <1>1. {HeartbeatMsg(s, j, LastPendingCtx(s)) : j \in Peers(s)} = {m}
    BY OnePeer DEF LastPendingCtx, Leading
  <1>2. Said(m)
    BY DEF Said, HeartbeatMsg, Leading
  <1>3. BcastHeartbeat(s) = Send(s, m)
    BY <1>1 DEF BcastHeartbeat, BcastHeartbeatWithCtx, Send
  <1> QED BY <1>2, <1>3, SendTells

\* What concerns neither the messages nor the Progress of the follower.
LEMMA SetOwnTells ==
    ASSUME NEW s, Leading(s), NEW x
    PROVE  /\ Tells(s, [s EXCEPT !.committed = x]) /\ Tells(s, [s EXCEPT !.persisted = x])
           /\ Tells(s, [s EXCEPT !.first = x]) /\ Tells(s, [s EXCEPT !.applied = x])
  BY DEF Tells, Leading, RaftFields

\* Raft::maybe_commit
LEMMA MaybeCommitTells == ASSUME NEW s, Leading(s) PROVE Tells(s, MaybeCommit(s))
  BY SetOwnTells, TellsRefl DEF MaybeCommit, LogMaybeCommit

\* Raft::append_entry
LEMMA AppendEntryTells == ASSUME NEW s, Leading(s) PROVE Tells(s, AppendEntry(s, NormalEntry(Empty)))
  <1> DEFINE e == [term |-> 1, type |-> "Normal", data |-> Empty]
             log == Append(s.log, e)
  <1>1. AppendEntry(s, NormalEntry(Empty)) = [s EXCEPT !.log = log]
    BY DEF AppendEntry, NormalEntry, Leading
  <1>2. log \in Seq([term : {1}, type : {"Normal"}, data : {Empty}])
    BY DEF Leading
  <1> HIDE DEF log
  <1>3. Tells(s, [s EXCEPT !.log = log])
    BY <1>2 DEF Tells, Leading, RaftFields
  <1> QED BY <1>1, <1>3

\* Raft::on_persist_entries
LEMMA OnPersistEntriesTells == ASSUME NEW s, Leading(s), NEW index PROVE Tells(s, OnPersistEntries(s, index))
  <1> DEFINE a == [s EXCEPT !.persisted = index]
             p == MaybeUpdate(s.prs[Leader], index)
             b == [a EXCEPT !.prs[Leader] = p]
             c == MaybeCommit(b)
  <1>1. Tells(s, a) /\ Leading(a) /\ a.prs = s.prs
    BY SetOwnTells DEF Tells, Leading, RaftFields
  <1>2. IsProgress(p) /\ p.state = s.prs[Leader].state
    BY DEF IsProgress, Leading, MaybeUpdate, ProgressFields
  <1>3. b = [s EXCEPT !.persisted = index, !.prs[s.id] = MaybeUpdate(@, index)]
    BY DEF Leading, RaftFields
  <1> HIDE DEF a, p
  <1>4. Tells(s, b) /\ Leading(b)
    BY <1>1, <1>2, SetProgressTells, TellsTrans DEF Tells
  <1> HIDE DEF b
  <1>5. Tells(s, c) /\ Leading(c)
    BY <1>4, MaybeCommitTells, TellsTrans DEF Tells
  <1> HIDE DEF c
  <1>6. Tells(s, BcastAppend(c))
    BY <1>5, BcastAppendTells, TellsTrans
  <1> QED BY <1>3, <1>4, <1>5, <1>6 DEF OnPersistEntries, c

\* Progress::become_probe ends the wait for a snapshot.
LEMMA BecomeProbeState ==
    ASSUME NEW p, IsProgress(p)
    PROVE  IsProgress(BecomeProbe(p)) /\ BecomeProbe(p).state = "Probe"
  BY DEF IsProgress, BecomeProbe, ResetState, ProgressFields

\* The rejecting half of Raft::handle_append_response
LEMMA HandleAppendRejectTells ==
    ASSUME NEW s, Leading(s), NEW m, m.from = Peer
    PROVE  Tells(s, HandleAppendReject(s, m))
  <1> DEFINE p == [s.prs[Peer] EXCEPT !.recent_active = TRUE]
             probe == IF m.log_term > 0 THEN FindConflictByTerm(s, m.reject_hint, m.log_term) ELSE m.reject_hint
             decr == DecrTo(p, m.index, probe, m.request_snapshot)
             slow == IF decr.state = "Replicate" THEN BecomeProbe(decr) ELSE decr
  <1>1. IsProgress(p) /\ p.state = s.prs[Peer].state
    BY DEF IsProgress, Leading, ProgressFields
  <1> HIDE DEF p, probe
  <1>2. IsProgress(decr) /\ decr.state = p.state
    BY <1>1 DEF IsProgress, DecrTo, ProgressFields
  <1> HIDE DEF decr
  <1>3. IsProgress(slow) /\ (slow.state = "Snapshot" => s.prs[Peer].state = "Snapshot")
    BY <1>1, <1>2, BecomeProbeState
  <1> HIDE DEF slow
  <1>4. Tells(s, [s EXCEPT !.prs[Peer] = p]) /\ Tells(s, [s EXCEPT !.prs[Peer] = slow])
    BY <1>1, <1>3, SetProgressTells
  <1>5. Tells(s, SendAppend([s EXCEPT !.prs[Peer] = slow], Peer))
    BY <1>4, SendAppendTells
  <1> QED BY <1>4, <1>5 DEF HandleAppendReject, slow, decr, probe, p

\* An acknowledgement never begins a wait for a snapshot.
LEMMA AcknowledgedState ==
    ASSUME NEW p, IsProgress(p), NEW index
    PROVE  IsProgress(Acknowledged(p, index)) /\ (Acknowledged(p, index).state = "Snapshot" => p.state = "Snapshot")
  <1> DEFINE u == MaybeUpdate(p, index)
  <1>1. IsProgress(u) /\ u.state = p.state
    BY DEF IsProgress, MaybeUpdate, ProgressFields
  <1>2. IsProgress(BecomeReplicate(u)) /\ BecomeReplicate(u).state = "Replicate"
    BY <1>1 DEF IsProgress, BecomeReplicate, ResetState, ProgressFields
  <1>3. IsProgress(BecomeProbe(u)) /\ BecomeProbe(u).state = "Probe"
    BY <1>1, BecomeProbeState
  <1> HIDE DEF u
  <1>4. IsProgress([u EXCEPT !.ins = FreeTo(@, index)]) /\ [u EXCEPT !.ins = FreeTo(@, index)].state = u.state
    BY <1>1 DEF IsProgress, ProgressFields
  <1>5. CASE ~NeedUpdate(p, index)
    <2>1. Acknowledged(p, index) = u
      BY <1>5 DEF Acknowledged, u
    <2> QED BY <2>1, <1>1
  <1>6. CASE NeedUpdate(p, index) /\ u.state = "Probe"
    <2>1. Acknowledged(p, index) = BecomeReplicate(u)
      BY <1>6 DEF Acknowledged, u
    <2> QED BY <2>1, <1>2
  <1>7. CASE NeedUpdate(p, index) /\ u.state = "Snapshot"
    <2>1. Acknowledged(p, index) = IF IsSnapshotCaughtUp(u) THEN BecomeProbe(u) ELSE u
      BY <1>7 DEF Acknowledged, u
    <2> QED BY <2>1, <1>1, <1>3
  <1>8. CASE NeedUpdate(p, index) /\ u.state = "Replicate"
    <2>1. Acknowledged(p, index) = [u EXCEPT !.ins = FreeTo(@, index)]
      BY <1>8 DEF Acknowledged, u
    <2> QED BY <2>1, <1>1, <1>4
  <1> QED BY <1>1, <1>5, <1>6, <1>7, <1>8 DEF IsProgress

\* The accepting half of Raft::handle_append_response
LEMMA HandleAppendAcceptTells ==
    ASSUME NEW s, Leading(s), NEW m, m.from = Peer
    PROVE  Tells(s, HandleAppendAccept(s, m))
  <1> DEFINE p == [s.prs[Peer] EXCEPT !.recent_active = TRUE]
             a == [s EXCEPT !.prs[Peer] = Acknowledged(p, m.index)]
             c == CommitOrResume(a, Peer, IsPaused(p))
             g == SendAppendAggressively(c, Peer)
  <1>1. IsProgress(p) /\ p.state = s.prs[Peer].state
    BY DEF IsProgress, Leading, ProgressFields
  <1> HIDE DEF p
  <1>2. Tells(s, a) /\ Leading(a)
    BY <1>1, AcknowledgedState, SetProgressTells DEF Tells
  <1> HIDE DEF a
  <1>3. Tells(a, MaybeCommit(a)) /\ Tells(a, BcastAppend(MaybeCommit(a))) /\ Tells(a, SendAppend(a, Peer))
    <2>1. Tells(a, MaybeCommit(a)) /\ Leading(MaybeCommit(a))
      BY <1>2, MaybeCommitTells, TellsLeading
    <2>2. Tells(a, BcastAppend(MaybeCommit(a)))
      BY <2>1, BcastAppendTells, TellsTrans
    <2>3. Tells(a, SendAppend(a, Peer))
      BY <1>2, TellsRefl, SendAppendTells
    <2> QED BY <2>1, <2>2, <2>3
  <1>4. Tells(a, c) /\ Leading(c)
    BY <1>2, <1>3, TellsRefl DEF CommitOrResume, Tells
  <1> HIDE DEF c
  <1>5. Tells(c, g) /\ Leading(g)
    BY <1>4, SendAppendAggressivelyTells DEF Tells
  <1> HIDE DEF g
  <1>6. MaybeTimeoutNow(g, Peer) = g
    BY <1>5, PeerLinkAssumption DEF MaybeTimeoutNow, Leading
  <1>7. Tells(s, g)
    BY <1>2, <1>4, <1>5, TellsTrans
  <1> QED BY <1>2, <1>6, <1>7 DEF HandleAppendAccept, g, c, a, p

\* Raft::handle_heartbeat_response
LEMMA HandleHeartbeatResponseTells ==
    ASSUME NEW s, Leading(s), NEW m, m.from = Peer, m.ctx = None
    PROVE  Tells(s, HandleHeartbeatResponse(s, m))
  <1> DEFINE q == [s.prs[Peer] EXCEPT !.recent_active = TRUE, !.paused = FALSE]
             p == FreeFirstIfFull(q)
             w == [s EXCEPT !.prs[Peer] = p]
  <1>1. IsProgress(q) /\ q.state = s.prs[Peer].state
    BY DEF IsProgress, Leading, ProgressFields
  <1> HIDE DEF q
  <1>2. IsProgress(p) /\ p.state = q.state
    BY <1>1 DEF IsProgress, FreeFirstIfFull, ProgressFields
  <1> HIDE DEF p
  <1>3. Tells(s, w) /\ Leading(w)
    BY <1>1, <1>2, SetProgressTells DEF Tells
  <1> HIDE DEF w
  <1>4. Tells(s, SendAppend(w, Peer))
    BY <1>3, SendAppendTells
  <1> QED BY <1>3, <1>4, TellsRefl DEF HandleHeartbeatResponse, w, p, q

\* Raft::step of an answer
LEMMA LeaderStepTells == ASSUME NEW s, Leading(s), NEW m, Reply(m) PROVE Tells(s, Step(s, m))
  <1>1. Step(s, m) = StepLeader(s, m)
    <2>1. Step(s, m) = Dispatch(s, m)
      BY DEF Step, Reply, Leading
    <2>2. m.type \notin VoteRequests /\ s.state = "Leader"
      BY DEF Reply, VoteRequests, Leading
    <2> QED BY <2>1, <2>2 DEF Dispatch
  <1>2. m.from \in DOMAIN s.prs /\ m.from = Peer
    BY DEF Reply, Leading
  <1>3. CASE m.type = "MsgAppendResponse"
    <2>1. StepLeader(s, m) = HandleAppendResponse(s, m)
      BY <1>3 DEF StepLeader
    <2> QED BY <1>1, <1>2, <2>1, HandleAppendRejectTells, HandleAppendAcceptTells DEF HandleAppendResponse
  <1>4. CASE m.type = "MsgHeartbeatResponse"
    <2>1. StepLeader(s, m) = HandleHeartbeatResponse(s, m)
      BY <1>4 DEF StepLeader
    <2> QED BY <1>1, <1>2, <1>4, <2>1, HandleHeartbeatResponseTells DEF Reply
  <1> QED BY <1>3, <1>4 DEF Reply

\* step_leader, MsgCheckQuorum: the leader is a quorum of its own.
LEMMA HandleCheckQuorumTells == ASSUME NEW s, Leading(s) PROVE Tells(s, HandleCheckQuorum(s))
  <1> DEFINE A == Active(s)
             v == [x \in A |-> TRUE]
             prs == [j \in DOMAIN s.prs |-> [s.prs[j] EXCEPT !.recent_active = (j = s.id)]]
  <1>1. Leader \in A
    BY DEF Active, Leading
  <1> HIDE DEF A
  <1>2. LinkConf.incoming = {Leader} /\ LinkConf.outgoing = {}
    BY DEF LinkConf, EmptyTracker
  <1>3. Answered({Leader}, v, TRUE) = {Leader}
    BY <1>1 DEF Answered
  <1>4. MajorityVote({Leader}, v) = "Won" /\ MajorityVote({}, v) = "Won"
    <2>1. Cardinality({Leader}) = 1
      BY FS_Singleton
    <2>2. Majority(1) = 1
      BY DEF Majority
    <2> HIDE DEF v
    <2>3. MajorityVote({}, v) = "Won"
      BY DEF MajorityVote
    <2>4. Cardinality(Answered({Leader}, v, TRUE)) >= Majority(Cardinality({Leader}))
      <3> DEFINE a == Cardinality(Answered({Leader}, v, TRUE))
                 b == Majority(Cardinality({Leader}))
      <3>1. a = 1 /\ b = 1
        BY <1>3, <2>1, <2>2, Zenon
      <3> HIDE DEF a, b
      <3>2. a >= b
        BY <3>1
      <3> QED BY <3>2 DEF a, b
    <2>5. MajorityVote({Leader}, v) = "Won"
      BY <2>4, Zenon DEF MajorityVote
    <2> QED BY <2>3, <2>5
  <1>5. HasQuorum(s.conf, A)
    BY <1>2, <1>4 DEF HasQuorum, VoteResult, Leading
  <1>6. \A j \in {Leader, Peer} : IsProgress(prs[j]) /\ prs[j].state = s.prs[j].state
    BY DEF IsProgress, Leading, ProgressFields
  <1>7. DOMAIN prs = {Leader, Peer}
    BY DEF Leading
  <1>8. HandleCheckQuorum(s) = [s EXCEPT !.prs = prs]
    BY <1>5 DEF HandleCheckQuorum, A
  <1> HIDE DEF prs
  <1>9. Tells(s, [s EXCEPT !.prs = prs])
    BY <1>6, <1>7 DEF Tells, Leading, RaftFields
  <1> QED BY <1>8, <1>9

\* Raft::handle_unreachable does not end the wait for a snapshot.
LEMMA HandleUnreachableTells ==
    ASSUME NEW s, Leading(s)
    PROVE  Tells(s, HandleUnreachable(s, Peer)) /\ HandleUnreachable(s, Peer).msgs = s.msgs
  <1> DEFINE p == BecomeProbe(s.prs[Peer])
  <1>1. IsProgress(p) /\ p.state = "Probe"
    BY BecomeProbeState DEF Leading
  <1> HIDE DEF p
  <1>2. Tells(s, [s EXCEPT !.prs[Peer] = p]) /\ [s EXCEPT !.prs[Peer] = p].msgs = s.msgs
    BY <1>1, SetProgressTells DEF Leading, RaftFields
  <1> QED BY <1>2, TellsRefl DEF HandleUnreachable, p

\* Raft::handle_snapshot_status does.
LEMMA HandleSnapshotStatusTells ==
    ASSUME NEW s, Leading(s), NEW reject \in BOOLEAN
    PROVE  LET t == HandleSnapshotStatus(s, Peer, reject)
           IN  Leading(t) /\ t.msgs = s.msgs /\ t.prs[Peer].state # "Snapshot"
  <1> DEFINE r == IF reject THEN SnapshotFailure(s.prs[Peer]) ELSE s.prs[Peer]
             b == BecomeProbe(r)
             p == [b EXCEPT !.paused = TRUE, !.pending_request_snapshot = InvalidIndex]
             t == [s EXCEPT !.prs[Peer] = p]
  <1>1. IsProgress(r)
    BY DEF IsProgress, Leading, SnapshotFailure, ProgressFields
  <1> HIDE DEF r
  <1>2. IsProgress(b) /\ b.state = "Probe"
    BY <1>1, BecomeProbeState
  <1> HIDE DEF b
  <1>3. IsProgress(p) /\ p.state = "Probe"
    BY <1>2 DEF IsProgress, ProgressFields
  <1> HIDE DEF p
  <1>4. Leading(t) /\ t.msgs = s.msgs /\ t.prs[Peer].state = "Probe"
    BY <1>3 DEF Leading, RaftFields
  <1> QED BY <1>4 DEF HandleSnapshotStatus, p, b, r, Leading

-----------------------------------------------------------------------------
\* The follower has heard of the leader.
Hearing(s) == Following(s) /\ s.term = 1

\* RaftCore::send of an answer
LEMMA AnswerHearing ==
    ASSUME NEW s, Hearing(s), NEW m, Reply(m)
    PROVE  Hearing(Send(s, m))
  BY DEF Hearing, Following, Send, RaftFields

\* The answers to a MsgAppend are in the term of the leader.
LEMMA AppendResponseReply ==
    ASSUME NEW s, Hearing(s), NEW to, NEW index, NEW hint
    PROVE  Reply(AppendResponse(s, to, index)) /\ Reply(AppendReject(s, to, index, hint))
  BY DEF Hearing, Following, Reply, AppendResponse, AppendReject

\* Raft::send_request_snapshot
LEMMA SendRequestSnapshotHearing == ASSUME NEW s, Hearing(s) PROVE Hearing(SendRequestSnapshot(s))
  <1> DEFINE r == AppendReject(s, s.leader_id, s.committed, LastIndex(s))
             m == [r EXCEPT !.request_snapshot = s.pending_request_snapshot]
  <1>1. Reply(m)
    BY DEF Hearing, Following, Reply, AppendResponse, AppendReject
  <1> QED BY <1>1, AnswerHearing DEF SendRequestSnapshot

\* RaftLog::commit_to
LEMMA CommitToHearing == ASSUME NEW s, Hearing(s), NEW i PROVE Hearing(CommitTo(s, i))
  BY DEF Hearing, Following, CommitTo, RaftFields

\* RaftLog::maybe_append
LEMMA AppendMatchingHearing == ASSUME NEW s, Hearing(s), NEW m PROVE Hearing(AppendMatching(s, m))
  <1>1. ASSUME NEW log, NEW p PROVE Hearing([s EXCEPT !.log = log, !.persisted = p])
    BY DEF Hearing, Following, RaftFields
  <1> QED BY <1>1, CommitToHearing DEF AppendMatching

\* Raft::handle_append_entries
LEMMA HandleAppendEntriesHearing == ASSUME NEW s, Hearing(s), NEW m PROVE Hearing(HandleAppendEntries(s, m))
  BY SendRequestSnapshotHearing, AppendMatchingHearing, AppendResponseReply, AnswerHearing
     DEF HandleAppendEntries

\* Raft::handle_heartbeat
LEMMA HandleHeartbeatHearing ==
    ASSUME NEW s, Hearing(s), NEW m, m.ctx = None
    PROVE  Hearing(HandleHeartbeat(s, m))
  <1> DEFINE r == [type |-> "MsgHeartbeatResponse", from |-> s.id, to |-> m.from, term |-> s.term, ctx |-> m.ctx]
  <1>1. Reply(r)
    BY DEF Reply, Hearing, Following
  <1> QED BY <1>1, CommitToHearing, SendRequestSnapshotHearing, AnswerHearing DEF HandleHeartbeat

\* Raft::handle_snapshot
LEMMA HandleSnapshotHearing == ASSUME NEW s, Hearing(s), NEW m PROVE Hearing(HandleSnapshot(s, m))
  <1>1. Hearing(RestoredFrom(s, m.snapshot))
    BY DEF Hearing, Following, RestoredFrom, RaftFields
  <1> QED BY <1>1, CommitToHearing, AppendResponseReply, AnswerHearing DEF HandleSnapshot

\* Raft::step of what the leader says
LEMMA FollowerStepHearing == ASSUME NEW s, Following(s), NEW m, Said(m) PROVE Hearing(Step(s, m))
  <1> DEFINE f == IF s.term = 1 THEN s ELSE BecomeFollower(s, 1, m.from)
             h == [f EXCEPT !.expired = FALSE, !.leader_id = m.from]
  <1>1. Hearing(f)
    <2>1. Hearing(BecomeFollower(s, 1, m.from))
      BY DEF Hearing, Following, BecomeFollower, Reset, RaftFields
    <2> QED BY <2>1 DEF Hearing
  <1>2. Step(s, m) = Dispatch(f, m)
    <2>1. CASE s.term = 1
      BY <2>1 DEF Step, Said
    <2>2. CASE s.term = 0
      <3>1. Step(s, m) = StepHigherTerm(s, m)
        BY <2>2 DEF Step, Said
      <3>2. m.type \notin VoteRequests /\ m.type \in FromLeader
            /\ m.type # "MsgRequestPreVote" /\ m.type # "MsgRequestPreVoteResponse" /\ m.term = 1
        BY DEF Said, VoteRequests, FromLeader
      <3>3. StepHigherTerm(s, m) = Dispatch(BecomeFollower(s, 1, m.from), m)
        BY <3>2 DEF StepHigherTerm
      <3> QED BY <2>2, <3>1, <3>3
    <2> QED BY <2>1, <2>2 DEF Following
  <1> HIDE DEF f
  <1>3. HearLeader(f, m) = h
    BY <1>1 DEF HearLeader, Hearing, Following
  <1>4. Hearing(h)
    BY <1>1 DEF Hearing, Following, RaftFields
  <1>5. Dispatch(f, m) = StepFollower(f, m)
    <2>1. m.type \notin VoteRequests /\ f.state = "Follower"
      BY <1>1 DEF Said, VoteRequests, Hearing, Following
    <2> QED BY <2>1 DEF Dispatch
  <1> HIDE DEF h
  <1>6. CASE m.type = "MsgAppend"
    <2>1. StepFollower(f, m) = HandleAppendEntries(h, m)
      BY <1>3, <1>6 DEF StepFollower
    <2> QED BY <1>2, <1>4, <1>5, <2>1, HandleAppendEntriesHearing
  <1>7. CASE m.type = "MsgHeartbeat"
    <2>1. StepFollower(f, m) = HandleHeartbeat(h, m)
      BY <1>3, <1>7 DEF StepFollower
    <2> QED BY <1>2, <1>4, <1>5, <1>7, <2>1, HandleHeartbeatHearing DEF Said
  <1>8. CASE m.type = "MsgSnapshot"
    <2>1. StepFollower(f, m) = HandleSnapshot(h, m)
      BY <1>3, <1>8 DEF StepFollower
    <2> QED BY <1>2, <1>4, <1>5, <2>1, HandleSnapshotHearing
  <1> QED BY <1>6, <1>7, <1>8 DEF Said

-----------------------------------------------------------------------------
\* A post: what it posts was said by the leader, and a snapshot is told from Idle.
IsPost(x) ==
    /\ DOMAIN x = {"msg", "url", "delivered"}
    /\ x # Idle => Said(x.msg)
    /\ x = Idle => ~x.delivered

\* NoLimbo, whether or not the pipeline is still going to take what is queued
Awaited ==
    pr.state = "Snapshot" =>
        \/ forgotten
        \/ \E i \in DOMAIN msgc : IsMsgSnap(msgc[i])
        \/ \E p \in Poster : posts[p] # Idle /\ IsMsgSnap(posts[p].msg)

\* The inductive invariant.
LinkInv ==
    /\ Leading(leader) /\ leader.msgs = {}
    /\ Following(peer) /\ peer.msgs = {}
    /\ \E S : msgc \in Seq(S) /\ \A m \in S : Said(m)
    /\ DOMAIN posts = Poster /\ \A p \in Poster : IsPost(posts[p])
    /\ picker \in 0..(Urls - 1)
    /\ \A m \in answers : Reply(m)
    /\ Awaited

\* A message taken on by a poster.
LEMMA NewPost ==
    ASSUME NEW m, Said(m), picker \in 0..(Urls - 1)
    PROVE  LET x == [Idle EXCEPT !.msg = m, !.url = picker]
           IN  x # Idle /\ IsPost(x) /\ x.msg = m
  <1> DEFINE x == [Idle EXCEPT !.msg = m, !.url = picker]
  <1>1. picker # None
    BY PeerLinkAssumption
  <1>2. DOMAIN x = {"msg", "url", "delivered"} /\ x.msg = m /\ x.url = picker
    BY DEF Idle
  <1> HIDE DEF x
  <1>3. x # Idle
    <2>1. x.url = picker
      BY <1>2
    <2>2. Idle.url = None
      BY DEF Idle
    <2> QED BY <1>1, <2>1, <2>2
  <1> QED BY <1>2, <1>3 DEF IsPost, x

\* remote::send: a snapshot that was in the queue or is sent now is in the
\* queue afterwards or has been dropped.
LEMMA SendAllSaid ==
    ASSUME NEW S, msgc \in Seq(S), \A m \in S : Said(m),
           NEW msgs, IsFiniteSet(msgs), \A m \in msgs : Said(m),
           NEW q \in InOrder(msgs)
    PROVE  /\ \E T : SendAll(msgc, q) \in Seq(T) /\ \A m \in T : Said(m)
           /\ (\E i \in DOMAIN msgc : IsMsgSnap(msgc[i])) \/ (\E m \in msgs : IsMsgSnap(m)) =>
                 \/ \E i \in DOMAIN SendAll(msgc, q) : IsMsgSnap(SendAll(msgc, q)[i])
                 \/ \E i \in DOMAIN Dropped(msgc, q) : IsMsgSnap(Dropped(msgc, q)[i])
  <1> DEFINE T == S \cup msgs
             w == msgc \o q
             n == Len(w)
             k == MinOf({BufSize, n})
  <1>1. q \in Seq(msgs) /\ \A m \in msgs : \E i \in 1..Len(q) : q[i] = m
    <2>1. Cardinality(msgs) \in Nat
      BY FS_CardinalityType
    <2>2. q \in [1..Cardinality(msgs) -> msgs] /\ \A m \in msgs : \E i \in 1..Cardinality(msgs) : q[i] = m
      BY DEF InOrder, Surjection
    <2> QED BY <2>1, <2>2
  <1>2. w \in Seq(T) /\ n = Len(msgc) + Len(q) /\ n \in Nat
        /\ (\A i \in 1..Len(msgc) : w[i] = msgc[i]) /\ (\A i \in 1..Len(q) : w[Len(msgc) + i] = q[i])
    <2>1. msgc \in Seq(T) /\ q \in Seq(T)
      BY <1>1
    <2> QED BY <2>1
  <1>21. Len(msgc) \in Nat /\ Len(q) \in Nat /\ DOMAIN msgc = 1..Len(msgc)
    BY <1>1
  <1> HIDE DEF w, n, T
  <1>3. BufSize \in Nat
    BY PeerLinkAssumption
  <1>4. k = (IF BufSize <= n THEN BufSize ELSE n) /\ k \in Nat /\ k <= n
    BY <1>2, <1>3, MinOfTwo
  <1> HIDE DEF k
  <1>5. SubSeq(w, 1, k) \in Seq(T) /\ Len(SubSeq(w, 1, k)) = k /\ \A i \in 1..k : SubSeq(w, 1, k)[i] = w[i]
    BY <1>2, <1>4 DEF n
  <1>6. n > BufSize =>
           /\ SubSeq(w, BufSize + 1, n) \in Seq(T)
           /\ Len(SubSeq(w, BufSize + 1, n)) = n - BufSize
           /\ \A i \in 1..(n - BufSize) : SubSeq(w, BufSize + 1, n)[i] = w[BufSize + i]
    BY <1>2, <1>3 DEF n
  <1>7. SendAll(msgc, q) = SubSeq(w, 1, k) /\ Dropped(msgc, q) = SubSeq(w, BufSize + 1, n)
    BY DEF SendAll, Dropped, w, n, k
  <1>8. \A m \in T : Said(m)
    BY DEF T
  <1>9. ASSUME NEW i \in 1..n, IsMsgSnap(w[i])
        PROVE  \/ \E j \in DOMAIN SendAll(msgc, q) : IsMsgSnap(SendAll(msgc, q)[j])
               \/ \E j \in DOMAIN Dropped(msgc, q) : IsMsgSnap(Dropped(msgc, q)[j])
    <2>1. CASE i <= k
      <3>1. i \in DOMAIN SubSeq(w, 1, k) /\ SubSeq(w, 1, k)[i] = w[i]
        BY <1>4, <1>5, <2>1
      <3> QED BY <1>7, <1>9, <3>1
    <2>2. CASE i > k
      <3> DEFINE j == i - BufSize
      <3>1. n > BufSize /\ k = BufSize /\ j \in 1..(n - BufSize) /\ BufSize + j = i
        BY <1>2, <1>3, <1>4, <2>2
      <3>2. j \in DOMAIN SubSeq(w, BufSize + 1, n) /\ SubSeq(w, BufSize + 1, n)[j] = w[i]
        <4> HIDE DEF j
        <4> QED BY <1>6, <3>1
      <3> QED BY <1>7, <1>9, <3>2
    <2> QED BY <1>2, <1>4, <2>1, <2>2
  <1>10. ASSUME NEW i \in DOMAIN msgc, IsMsgSnap(msgc[i]) PROVE \E j \in 1..n : IsMsgSnap(w[j])
    <2>1. i \in 1..n /\ w[i] = msgc[i]
      BY <1>2, <1>21
    <2> QED BY <1>10, <2>1
  <1>11. ASSUME NEW m \in msgs, IsMsgSnap(m) PROVE \E j \in 1..n : IsMsgSnap(w[j])
    <2>1. PICK i \in 1..Len(q) : q[i] = m
      BY <1>1
    <2>2. Len(msgc) + i \in 1..n /\ w[Len(msgc) + i] = m
      BY <1>2, <1>21, <2>1
    <2> QED BY <1>11, <2>2
  <1>12. SendAll(msgc, q) \in Seq(T)
    BY <1>5, <1>7
  <1> QED BY <1>8, <1>9, <1>10, <1>11, <1>12

\* The leader's Ready: whoever waits for a snapshot has handed it over.
LEMMA LeaderReadyInv ==
    ASSUME LinkInv, NEW s, Tells(leader, s), LeaderReady(s),
           peer' = peer, picker' = picker, \A m \in answers' : Reply(m)
    PROVE  LinkInv'
  <1> DEFINE p == Persist(s)
             u == Applied(p)
             snaps == {m \in p.msgs : IsMsgSnap(m)}
             queue(msgs) == \E q \in InOrder(msgs) :
                /\ msgc' = SendAll(msgc, q)
                /\ forgotten' = (forgotten \/ \E i \in DOMAIN Dropped(msgc, q) : IsMsgSnap(Dropped(msgc, q)[i]))
             sends == /\ posts["sender"] = Idle
                      /\ \E m \in snaps :
                            posts' = [posts EXCEPT !["sender"] = [Idle EXCEPT !.msg = m, !.url = picker]]
                      /\ queue(p.msgs \ snaps)
  <1>1. leader' = u /\ ((queue(p.msgs) /\ UNCHANGED posts) \/ sends)
    BY DEF LeaderReady
  <1>2. Tells(leader, p) /\ Leading(p)
    BY OnPersistEntriesTells, TellsTrans, TellsLeading DEF Persist
  <1> HIDE DEF p
  <1>3. Leading(u) /\ u.msgs = {} /\ u.prs = p.prs
    <2>1. IsFiniteSet({})
      BY FS_EmptySet
    <2> QED BY <1>2, <2>1 DEF Leading, RaftFields, Applied
  <1>4. IsFiniteSet(p.msgs) /\ \A m \in p.msgs : Said(m)
    BY <1>2 DEF Leading
  <1>5. IsFiniteSet(p.msgs \ snaps) /\ \A m \in p.msgs \ snaps : Said(m)
    BY <1>4, FS_Difference
  <1>6. PICK S : msgc \in Seq(S) /\ \A m \in S : Said(m)
    BY DEF LinkInv
  <1> HIDE DEF u
  <1>7. CASE queue(p.msgs) /\ UNCHANGED posts
    <2>1. PICK q \in InOrder(p.msgs) :
             /\ msgc' = SendAll(msgc, q)
             /\ forgotten' = (forgotten \/ \E i \in DOMAIN Dropped(msgc, q) : IsMsgSnap(Dropped(msgc, q)[i]))
      BY <1>7
    <2>2. /\ \E T : msgc' \in Seq(T) /\ \A m \in T : Said(m)
          /\ (\E i \in DOMAIN msgc : IsMsgSnap(msgc[i])) \/ (\E m \in p.msgs : IsMsgSnap(m)) =>
                (\E i \in DOMAIN msgc' : IsMsgSnap(msgc'[i])) \/ forgotten'
      BY <1>4, <1>6, <2>1, SendAllSaid
    <2>3. Awaited'
      <3> SUFFICES ASSUME leader'.prs[Peer].state = "Snapshot", ~forgotten',
                          \A i \in DOMAIN msgc' : ~IsMsgSnap(msgc'[i])
                   PROVE  \E x \in Poster : posts'[x] # Idle /\ IsMsgSnap(posts'[x].msg)
        BY DEF Awaited, pr
      <3>1. ~forgotten /\ ~(\E i \in DOMAIN msgc : IsMsgSnap(msgc[i])) /\ ~(\E m \in p.msgs : IsMsgSnap(m))
        BY <2>1, <2>2
      <3>2. leader.prs[Peer].state = "Snapshot"
        BY <1>1, <1>2, <1>3, <3>1 DEF Tells, Snapped
      <3> QED BY <1>7, <3>1, <3>2 DEF LinkInv, Awaited, pr
    <2> QED BY <1>1, <1>3, <1>7, <2>2, <2>3 DEF LinkInv
  <1>8. CASE sends
    <2>1. PICK q \in InOrder(p.msgs \ snaps) : msgc' = SendAll(msgc, q)
      BY <1>8
    <2>2. \E T : msgc' \in Seq(T) /\ \A m \in T : Said(m)
      <3> HIDE DEF snaps
      <3> QED BY <1>5, <1>6, <2>1, SendAllSaid
    <2>3. PICK m \in snaps : posts' = [posts EXCEPT !["sender"] = [Idle EXCEPT !.msg = m, !.url = picker]]
      BY <1>8
    <2> DEFINE x == [Idle EXCEPT !.msg = m, !.url = picker]
    <2>4. Said(m) /\ IsMsgSnap(m)
      BY <1>4
    <2>5. x # Idle /\ IsPost(x) /\ x.msg = m
      BY <2>4, NewPost DEF LinkInv
    <2> HIDE DEF x
    <2>6. DOMAIN posts' = Poster /\ (\A y \in Poster : IsPost(posts'[y])) /\ posts'["sender"] = x
      BY <2>3, <2>5 DEF LinkInv, Poster, x
    <2>7. Awaited'
      BY <2>4, <2>5, <2>6 DEF Awaited, Poster
    <2> QED BY <1>1, <1>3, <2>2, <2>6, <2>7 DEF LinkInv
  <1> QED BY <1>1, <1>7, <1>8

-----------------------------------------------------------------------------
\* Posts are among the variables that most actions leave alone.
LEMMA SameQueue ==
    ASSUME LinkInv, UNCHANGED <<msgc, posts, forgotten>>,
           Leading(leader'), leader'.prs[Peer].state = "Snapshot" => leader.prs[Peer].state = "Snapshot"
    PROVE  Awaited'
  BY DEF LinkInv, Awaited, pr

\* A leader that probes a new learner, and a link without messages.
LEMMA InitInv == Init => LinkInv
  <1> SUFFICES ASSUME Init PROVE LinkInv
    OBVIOUS
  <1> DEFINE e == [term |-> 1, type |-> "Normal", data |-> Empty]
             old == [term |-> 1, vote |-> Leader, commit |-> 1, log |-> <<e>>]
             new == [term |-> 0, vote |-> None, commit |-> 0, log |-> <<>>]
             own == BecomeReplicate([NewProgress(1) EXCEPT !.matched = 1])
             its == [NewProgress(1) EXCEPT !.recent_active = TRUE]
             prs == [j \in {Leader, Peer} |-> IF j = Leader THEN own ELSE its]
             r == NewRaft(Leader, LinkConfig, LinkConf, old, [first |-> 1, snap |-> 0, applied |-> 1])
             s == [r EXCEPT !.state = "Leader", !.leader_id = Leader, !.prs = prs]
  <1>1. leader = s /\ peer = NewRaft(Peer, LinkConfig, LinkConf, new, [first |-> 1, snap |-> 0, applied |-> 0])
    BY DEF Init
  <1>2. IsProgress(own) /\ IsProgress(its) /\ its.state = "Probe"
    BY DEF IsProgress, ProgressFields, NewProgress, BecomeReplicate, ResetState
  <1>3. DOMAIN prs = {Leader, Peer} /\ (\A j \in {Leader, Peer} : IsProgress(prs[j])) /\ prs[Peer].state = "Probe"
    BY <1>2, PeerLinkAssumption
  <1>4. <<e>> \in Seq([term : {1}, type : {"Normal"}, data : {Empty}]) /\ IsFiniteSet({})
    BY FS_EmptySet
  <1>5. /\ DOMAIN r = RaftFields /\ r.id = Leader /\ r.term = 1 /\ r.conf = LinkConf /\ r.config = LinkConfig
        /\ r.lead_transferee = None /\ r.reads = <<>> /\ r.log = <<e>> /\ r.msgs = {}
    <2> HIDE DEF e
    <2> QED BY DEF NewRaft, BecomeFollower, Reset, RaftFields
  <1> HIDE DEF prs, r, e
  <1>6. Leading(s) /\ s.msgs = {} /\ s.prs[Peer].state = "Probe"
    BY <1>3, <1>4, <1>5 DEF Leading, RaftFields
  <1>7. Following(peer) /\ peer.msgs = {}
    BY <1>1 DEF NewRaft, BecomeFollower, Reset, RaftFields, Following
  <1>8. msgc \in Seq({}) /\ posts = [p \in Poster |-> Idle] /\ picker = 0 /\ answers = {}
    BY DEF Init
  <1>9. IsPost(Idle)
    BY DEF IsPost, Idle
  <1>10. 0 \in 0..(Urls - 1)
    BY PeerLinkAssumption
  <1>11. Awaited
    BY <1>1, <1>6 DEF Awaited, pr
  <1> HIDE DEF s
  <1> QED BY <1>1, <1>6, <1>7, <1>8, <1>9, <1>10, <1>11 DEF LinkInv

\* RawNode::propose
LEMMA ProposeInv == ASSUME LinkInv, Propose PROVE LinkInv'
  <1> DEFINE a == AppendEntry(leader, NormalEntry(Empty))
  <1>1. Tells(leader, a)
    BY AppendEntryTells DEF LinkInv
  <1>2. Tells(leader, BcastAppend(a))
    BY <1>1, BcastAppendTells, TellsLeading, TellsTrans
  <1> QED BY <1>2, LeaderReadyInv DEF Propose, LinkInv

\* MemStorageCore::compact
LEMMA CompactInv == ASSUME LinkInv, Compact PROVE LinkInv'
  <1>1. Tells(leader, leader') /\ leader'.msgs = {} /\ leader'.prs = leader.prs
    BY SetOwnTells DEF Compact, LinkInv, Leading, RaftFields
  <1>2. UNCHANGED <<peer, msgc, posts, picker, answers, forgotten>>
    BY DEF Compact, link
  <1> QED BY <1>1, <1>2, SameQueue, TellsLeading DEF LinkInv

\* Raft::tick_heartbeat after a heartbeat timeout
LEMMA BeatInv == ASSUME LinkInv, Beat PROVE LinkInv'
  <1>1. Tells(leader, BcastHeartbeat(leader))
    BY BcastHeartbeatTells DEF LinkInv
  <1> QED BY <1>1, LeaderReadyInv DEF Beat, LinkInv

\* Raft::tick_heartbeat after an election timeout
LEMMA CheckQuorumInv == ASSUME LinkInv, CheckQuorum PROVE LinkInv'
  <1>1. Tells(leader, HandleCheckQuorum(leader))
    BY HandleCheckQuorumTells DEF LinkInv
  <1> QED BY <1>1, LeaderReadyInv DEF CheckQuorum, LinkInv

\* An answer arrives.
LEMMA ReceiveInv == ASSUME LinkInv, NEW types, Receive(types) PROVE LinkInv'
  <1>1. PICK m \in answers : answers' = answers \ {m} /\ LeaderReady(Step(leader, m))
    BY DEF Receive
  <1>2. Tells(leader, Step(leader, m))
    BY LeaderStepTells DEF LinkInv
  <1>3. peer' = peer /\ picker' = picker /\ \A a \in answers' : Reply(a)
    BY <1>1 DEF Receive, LinkInv
  <1> QED BY <1>1, <1>2, <1>3, LeaderReadyInv

\* Pipeline::handle moves a message from the queue to the post.
LEMMA TakeInv == ASSUME LinkInv, Take PROVE LinkInv'
  <1> DEFINE h == Head(msgc)
             x == [Idle EXCEPT !.msg = h, !.url = picker]
  <1>1. PICK S : msgc \in Seq(S) /\ \A m \in S : Said(m)
    BY DEF LinkInv
  <1>2. /\ h \in S /\ h = msgc[1] /\ Tail(msgc) \in Seq(S) /\ DOMAIN msgc = 1..Len(msgc)
        /\ DOMAIN Tail(msgc) = 1..(Len(msgc) - 1) /\ \A i \in 1..(Len(msgc) - 1) : Tail(msgc)[i] = msgc[i + 1]
    BY <1>1 DEF Take
  <1>3. x # Idle /\ IsPost(x) /\ x.msg = h
    BY <1>1, <1>2, NewPost DEF LinkInv
  <1>4. posts' = [posts EXCEPT !["pipeline"] = x] /\ msgc' = Tail(msgc)
        /\ posts["pipeline"] = Idle /\ UNCHANGED <<leader, peer, picker, answers, forgotten>>
    BY DEF Take
  <1> HIDE DEF x, h
  <1>5. DOMAIN posts' = Poster /\ (\A y \in Poster : IsPost(posts'[y])) /\ posts'["pipeline"] = x
        /\ posts'["sender"] = posts["sender"]
    BY <1>3, <1>4 DEF LinkInv, Poster
  <1>6. Awaited'
    <2> SUFFICES ASSUME leader.prs[Peer].state = "Snapshot", ~forgotten
                 PROVE  \/ \E i \in DOMAIN msgc' : IsMsgSnap(msgc'[i])
                        \/ \E p \in Poster : posts'[p] # Idle /\ IsMsgSnap(posts'[p].msg)
      BY <1>4 DEF Awaited, pr
    <2>1. CASE \E i \in DOMAIN msgc : IsMsgSnap(msgc[i])
      <3>1. PICK i \in DOMAIN msgc : IsMsgSnap(msgc[i])
        BY <2>1
      <3>2. CASE i = 1
        BY <1>2, <1>3, <1>5, <3>1, <3>2 DEF Poster
      <3>3. CASE i # 1
        <4>1. i - 1 \in DOMAIN Tail(msgc) /\ Tail(msgc)[i - 1] = msgc[i]
          BY <1>1, <1>2, <3>3
        <4> QED BY <1>4, <3>1, <4>1
      <3> QED BY <3>2, <3>3
    <2>2. CASE \E p \in Poster : posts[p] # Idle /\ IsMsgSnap(posts[p].msg)
      BY <1>4, <1>5, <2>2 DEF Poster
    <2> QED BY <2>1, <2>2 DEF LinkInv, Awaited, pr
  <1> QED BY <1>1, <1>2, <1>4, <1>5, <1>6 DEF LinkInv

\* The follower gets a message, and its post goes on.
LEMMA DeliverInv == ASSUME LinkInv, NEW p \in Poster, Deliver(p) PROVE LinkInv'
  <1> DEFINE s == Step(peer, posts[p].msg)
             x == [posts[p] EXCEPT !.delivered = TRUE]
  <1>1. posts[p] # Idle /\ Said(posts[p].msg) /\ DOMAIN posts[p] = {"msg", "url", "delivered"}
    BY DEF Deliver, LinkInv, IsPost
  <1>2. Hearing(s)
    BY <1>1, FollowerStepHearing DEF LinkInv
  <1>3. /\ peer' = Handled(s)
        /\ answers' \subseteq answers \cup s.msgs
        /\ posts' = [posts EXCEPT ![p] = x] /\ UNCHANGED <<leader, msgc, picker, forgotten>>
    BY DEF Deliver
  <1> HIDE DEF s
  <1>4. Following(peer') /\ peer'.msgs = {}
    BY <1>2, <1>3 DEF Hearing, Following, RaftFields, Handled, Applied
  <1>5. \A m \in answers' : Reply(m)
    BY <1>2, <1>3 DEF LinkInv, Hearing, Following
  <1>6. x.delivered /\ x.msg = posts[p].msg /\ DOMAIN x = {"msg", "url", "delivered"}
    BY <1>1
  <1> HIDE DEF x
  <1>7. x # Idle
    BY <1>6 DEF Idle
  <1>8. IsPost(x)
    BY <1>1, <1>6, <1>7 DEF IsPost
  <1>9. DOMAIN posts' = Poster /\ \A y \in Poster : IsPost(posts'[y]) /\ posts'[y] = IF y = p THEN x ELSE posts[y]
    BY <1>3, <1>8 DEF LinkInv
  <1>10. Awaited'
    BY <1>3, <1>6, <1>7, <1>9 DEF LinkInv, Awaited, pr
  <1> QED BY <1>3, <1>4, <1>5, <1>9, <1>10 DEF LinkInv

\* The end of a post: it was the one of a snapshot and has been reported as
\* such, or the snapshot is elsewhere.
LEMMA EndInv ==
    ASSUME LinkInv, NEW p \in Poster, NEW s, NEW k \in 0..(Urls - 1),
           posts' = [posts EXCEPT ![p] = Idle], leader' = s, picker' = k, UNCHANGED <<peer, msgc, answers>>,
           Leading(s), s.msgs = {},
           s.prs[Peer].state = "Snapshot" => leader.prs[Peer].state = "Snapshot",
           forgotten => forgotten',
           posts[p] # Idle /\ IsMsgSnap(posts[p].msg) => s.prs[Peer].state # "Snapshot" \/ forgotten'
    PROVE  LinkInv'
  <1>2. IsPost(Idle)
    BY DEF IsPost, Idle
  <1>3. DOMAIN posts' = Poster /\ \A y \in Poster : IsPost(posts'[y]) /\ posts'[y] = IF y = p THEN Idle ELSE posts[y]
    BY <1>2 DEF LinkInv
  <1>4. Awaited'
    <2> SUFFICES ASSUME s.prs[Peer].state = "Snapshot", ~forgotten', ~(\E i \in DOMAIN msgc : IsMsgSnap(msgc[i]))
                 PROVE  \E y \in Poster : posts'[y] # Idle /\ IsMsgSnap(posts'[y].msg)
      BY DEF Awaited, pr
    <2>1. PICK y \in Poster : posts[y] # Idle /\ IsMsgSnap(posts[y].msg)
      BY DEF LinkInv, Awaited, pr
    <2> QED BY <1>3, <2>1
  <1> QED BY <1>3, <1>4 DEF LinkInv

\* The same of a post that is reported
LEMMA DoneInv ==
    ASSUME LinkInv, NEW p \in Poster, NEW s, NEW k \in 0..(Urls - 1), Done(p, s, k),
           Leading(s), s.msgs = {},
           s.prs[Peer].state = "Snapshot" => leader.prs[Peer].state = "Snapshot",
           IsMsgSnap(posts[p].msg) => s.prs[Peer].state # "Snapshot"
    PROVE  LinkInv'
  <1>1. /\ posts' = [posts EXCEPT ![p] = Idle] /\ leader' = s /\ picker' = k
        /\ UNCHANGED <<peer, msgc, answers>> /\ forgotten' = forgotten
    BY DEF Done
  <1> QED BY <1>1, EndInv

\* A post that succeeds reports a snapshot.
LEMMA SucceedInv == ASSUME LinkInv, NEW p \in Poster, Succeed(p) PROVE LinkInv'
  <1> DEFINE t == HandleSnapshotStatus(leader, Peer, FALSE)
             s == IF IsMsgSnap(posts[p].msg) THEN t ELSE leader
  <1>1. Leading(t) /\ t.msgs = {} /\ t.prs[Peer].state # "Snapshot"
    BY HandleSnapshotStatusTells DEF LinkInv
  <1>2. Done(p, s, picker)
    BY DEF Succeed, ReportSuccess
  <1> HIDE DEF t
  <1> QED BY <1>1, <1>2, DoneInv DEF LinkInv

\* BaseurlPicker::unreachable picks one of the URLs.
LEMMA UnreachableType == ASSUME LinkInv, NEW url PROVE Unreachable(picker, url) \in 0..(Urls - 1)
  <1>1. Urls \in Nat \ {0} /\ picker \in 0..(Urls - 1)
    BY PeerLinkAssumption DEF LinkInv
  <1>2. (picker + 1) % Urls \in 0..(Urls - 1)
    BY <1>1
  <1> QED BY <1>1, <1>2 DEF Unreachable

\* report_unreachable, and report_snapshot if it was a snapshot
LEMMA FailedInv == ASSUME LinkInv, NEW p \in Poster, Failed(p) PROVE LinkInv'
  <1> DEFINE u == HandleUnreachable(leader, Peer)
             t == HandleSnapshotStatus(u, Peer, TRUE)
             s == ReportFailure(leader, posts[p].msg)
             k == Unreachable(picker, posts[p].url)
  <1>1. Tells(leader, u) /\ Leading(u) /\ u.msgs = {}
    BY HandleUnreachableTells, TellsLeading DEF LinkInv
  <1>2. u.prs[Peer].state = "Snapshot" => leader.prs[Peer].state = "Snapshot"
    BY <1>1 DEF Tells, Snapped
  <1> HIDE DEF u
  <1>3. Leading(t) /\ t.msgs = {} /\ t.prs[Peer].state # "Snapshot"
    BY <1>1, HandleSnapshotStatusTells
  <1>4. s = IF IsMsgSnap(posts[p].msg) THEN t ELSE u
    BY DEF ReportFailure, u
  <1> HIDE DEF t
  <1>5. k \in 0..(Urls - 1)
    BY UnreachableType
  <1>6. /\ Leading(s) /\ s.msgs = {} /\ (s.prs[Peer].state = "Snapshot" => leader.prs[Peer].state = "Snapshot")
        /\ IsMsgSnap(posts[p].msg) => s.prs[Peer].state # "Snapshot"
    BY <1>1, <1>2, <1>3, <1>4
  <1>7. Done(p, s, k)
    BY DEF Failed
  <1> HIDE DEF s, k
  <1> QED BY <1>5, <1>6, <1>7, DoneInv

\* A pipeline or a snapshotSender that panics or blocks leaves a snapshot
\* unreported, which forgotten says.
LEMMA StopsInv == ASSUME LinkInv, PipelineStops \/ SenderStops PROVE LinkInv'
  <1>1. CASE PipelineStops
    <2>1. picker' \in 0..(Urls - 1) /\ "pipeline" \in Poster
      BY <1>1, UnreachableType DEF PipelineStops, LinkInv, Poster
    <2> QED BY <1>1, <2>1, EndInv DEF PipelineStops, LinkInv
  <1>2. CASE SenderStops
    <2>1. "sender" \in Poster
      BY DEF Poster
    <2> QED BY <1>2, <2>1, EndInv DEF SenderStops, LinkInv
  <1> QED BY <1>1, <1>2

\* Every step keeps the invariant.
LEMMA NextInv == ASSUME LinkInv, [Next]_vars PROVE LinkInv'
  <1>1. CASE Propose
    BY <1>1, ProposeInv
  <1>2. CASE Compact
    BY <1>2, CompactInv
  <1>3. CASE Beat
    BY <1>3, BeatInv
  <1>4. CASE CheckQuorum
    BY <1>4, CheckQuorumInv
  <1>5. CASE ReceiveAppendResponse
    BY <1>5, ReceiveInv DEF ReceiveAppendResponse
  <1>6. CASE ReceiveHeartbeatResponse
    BY <1>6, ReceiveInv DEF ReceiveHeartbeatResponse
  <1>7. CASE Take
    BY <1>7, TakeInv
  <1>8. ASSUME NEW p \in Poster, Deliver(p) PROVE LinkInv'
    BY <1>8, DeliverInv
  <1>9. ASSUME NEW p \in Poster, Succeed(p) PROVE LinkInv'
    BY <1>9, SucceedInv
  <1>10. ASSUME NEW p \in Poster, Refused(p) PROVE LinkInv'
    BY <1>10, FailedInv DEF Refused
  <1>11. CASE PipelineBroken
    BY <1>11, FailedInv DEF PipelineBroken, Poster
  <1>12. CASE PipelineStops \/ SenderStops
    BY <1>12, StopsInv
  <1>13. CASE UNCHANGED vars
    BY <1>13 DEF vars, LinkInv, Awaited, pr
  <1> QED
    BY <1>1, <1>2, <1>3, <1>4, <1>5, <1>6, <1>7, <1>8, <1>9, <1>10, <1>11, <1>12, <1>13 DEF Next

\* A leader never waits for the report of a snapshot that nobody is going to make
\* (NoLimbo), whatever the sizes of queue and log, the URLs and the failures, unless
\* the snapshot was dropped by remote::send, was with a task that panicked or
\* blocked, or is in the queue of a pipeline that has stopped.
THEOREM PeerLinkNoLimbo == Spec => []NoLimbo
  <1>1. LinkInv => NoLimbo
    BY DEF LinkInv, NoLimbo, Awaited
  <1> QED BY <1>1, InitInv, NextInv, PTL DEF Spec
=============================================================================
