--------------------------- MODULE ReplicationProofs ---------------------------
(* Theorems about the off-site copy: what travels inside an item              *)
(* (ReplicaTransfer), for any number of backups, deletions and breaks; and    *)
(* the queue of the items (ReplicaQueue), for any number of items, sweeps and *)
(* troubles.                                                                  *)
EXTENDS ReplicaTransfer, ReplicaQueue, FiniteSetTheorems, TLAPS
-----------------------------------------------------------------------------
(* The transfer.                                                              *)

USE TransferAssumption DEF TransferAssumption, repo, sync, acc

\* What is counted is finite.
LEMMA SizeIsNat ==
  ASSUME NEW o \in Objects PROVE Size(o) \in Nat
<1>1. IsFiniteSet(Backups)
  BY FS_Interval DEF Backups
<1>2. IsFiniteSet(o.packs) /\ IsFiniteSet(o.snaps)
  BY <1>1, FS_Subset DEF Objects
<1> QED
  BY <1>2, FS_CardinalityType DEF Size

StepsOK ==
  /\ job \in {"idle", "backup", "snapshot", "forget", "prune", "finish"}
  /\ backup \in 0..MaxBackups /\ (job # "idle" => backup # 0)
  /\ pass \in {"idle", "packs1", "check", "packs2", "snaps", "delete1", "delete2"}
  /\ breaks \in 0..MaxBreaks

HistoriesOK == raced \in BOOLEAN /\ dirty \in BOOLEAN /\ mounted \in BOOLEAN /\ blind \in BOOLEAN

LEMMA TypeInit == Init => TypeOK
<1>1. Init => {local, remote, doomed} \subseteq Objects
  BY DEF Init, Objects, Nothing
<1>2. Init => StepsOK /\ lost \in Nat
  BY DEF Init, StepsOK
<1>3. Init => HistoriesOK
  BY DEF Init, HistoriesOK
<1> QED
  BY <1>1, <1>2, <1>3 DEF TypeOK, StepsOK, HistoriesOK

\* The variables one by one: those that hold objects,
LEMMA ObjectsStep == TypeOK /\ [Next]_vars => {local, remote, doomed}' \subseteq Objects
<1> SUFFICES ASSUME TypeOK, [Next]_vars
             PROVE  local' \in Objects /\ remote' \in Objects /\ doomed' \in Objects
  OBVIOUS
<1> USE DEF TypeOK, Objects, Nothing
<1>1. CASE jobBegins \/ jobStops \/ jobFinishes \/ mirrorIsSafe \/ transferFails \/ unmounts
           \/ mounts \/ UNCHANGED vars
  BY <1>1 DEF jobBegins, jobStops, jobFinishes, mirrorIsSafe, transferFails, unmounts,
         mounts, vars
<1>2. CASE resticPut
  BY <1>2 DEF resticPut, Backups
<1>3. CASE resticDelete
  BY <1>3 DEF resticDelete
<1>4. CASE repoBegins \/ treeBegins
  BY <1>4 DEF repoBegins, treeBegins, Begins
<1>5. CASE copiesPacks
  BY <1>5 DEF copiesPacks, Source
<1>6. CASE copiesSnaps
  BY <1>6 DEF copiesSnaps, Source
<1>7. CASE deletesPacks
  BY <1>7 DEF deletesPacks, Goes
<1>8. CASE deletesSnaps
  BY <1>8 DEF deletesSnaps, Goes
<1> QED
  BY <1>1, <1>2, <1>3, <1>4, <1>5, <1>6, <1>7, <1>8 DEF Next

\* the steps of job and transfer,
LEMMA StepsStep == TypeOK /\ [Next]_vars => StepsOK'
<1> SUFFICES ASSUME TypeOK, [Next]_vars PROVE StepsOK'
  OBVIOUS
<1> USE DEF TypeOK, StepsOK
<1>1. CASE jobBegins \/ resticPut \/ resticDelete \/ jobStops \/ jobFinishes
  BY <1>1 DEF jobBegins, resticPut, resticDelete, jobStops, jobFinishes
<1>2. CASE repoBegins \/ treeBegins \/ copiesPacks \/ mirrorIsSafe \/ copiesSnaps
           \/ deletesPacks \/ deletesSnaps \/ transferFails
  BY <1>2 DEF repoBegins, treeBegins, Begins, resticRepoJobs, copiesPacks, mirrorIsSafe,
              copiesSnaps, deletesPacks, deletesSnaps, transferFails
<1>3. CASE unmounts \/ mounts \/ UNCHANGED vars
  BY <1>3 DEF unmounts, mounts, vars
<1> QED
  BY <1>1, <1>2, <1>3 DEF Next

\* and the histories.
LEMMA HistoriesStep == TypeOK /\ [Next]_vars => HistoriesOK'
<1> SUFFICES ASSUME TypeOK, [Next]_vars PROVE HistoriesOK'
  OBVIOUS
<1>1. CASE jobBegins
  BY <1>1 DEF jobBegins, acc, TypeOK, HistoriesOK
<1>2. CASE unmounts
  <2>1. raced' \in BOOLEAN /\ dirty' \in BOOLEAN
    BY <1>2 DEF unmounts
  <2>2. mounted' \in BOOLEAN
    BY <1>2 DEF unmounts
  <2>3. blind' \in BOOLEAN
    BY <1>2 DEF unmounts
  <2> QED
    BY <2>1, <2>2, <2>3 DEF HistoriesOK
<1>3. CASE repoBegins \/ treeBegins
  BY <1>3 DEF repoBegins, treeBegins, Begins, TypeOK, HistoriesOK
<1>4. CASE resticPut \/ resticDelete \/ jobStops \/ jobFinishes \/ copiesPacks \/ mirrorIsSafe
           \/ copiesSnaps \/ deletesPacks \/ deletesSnaps \/ transferFails \/ mounts
           \/ UNCHANGED vars
  BY <1>4 DEF resticPut, resticDelete, jobStops, jobFinishes, copiesPacks, mirrorIsSafe,
              copiesSnaps, deletesPacks, deletesSnaps, transferFails, mounts, vars,
              TypeOK, HistoriesOK
<1> QED
  BY <1>1, <1>2, <1>3, <1>4 DEF Next

\* What is lost is counted.
LEMMA LostStep == TypeOK /\ [Next]_vars => lost' \in Nat
<1> SUFFICES ASSUME TypeOK, [Next]_vars PROVE lost' \in Nat
  OBVIOUS
<1>1. ASSUME NEW o, o.packs \in SUBSET Backups, o.snaps \in SUBSET Backups, Goes(o)
      PROVE  lost' \in Nat
  <2> DEFINE gone == [packs |-> o.packs \cap local.packs, snaps |-> o.snaps \cap local.snaps]
  <2>1. gone \in Objects
    BY <1>1 DEF Objects
  <2>2. Size(gone) \in Nat
    BY <2>1, SizeIsNat
  <2>3. lost' = 0 \/ lost' = lost + Size(gone)
    BY <1>1 DEF Goes
  <2> QED
    BY <2>2, <2>3 DEF TypeOK
<1>2. CASE deletesPacks
  <2>1. PICK P \in SUBSET doomed.packs : Goes([packs |-> P, snaps |-> {}])
    BY <1>2 DEF deletesPacks
  <2> QED
    BY <1>1, <2>1 DEF TypeOK, Objects
<1>3. CASE deletesSnaps
  <2>1. PICK S \in SUBSET doomed.snaps : Goes([packs |-> {}, snaps |-> S])
    BY <1>3 DEF deletesSnaps
  <2> QED
    BY <1>1, <2>1 DEF TypeOK, Objects
<1>4. CASE unmounts \/ mounts
  BY <1>4 DEF unmounts, mounts
<1>5. CASE jobBegins \/ resticPut \/ resticDelete \/ jobStops \/ jobFinishes \/ repoBegins
           \/ treeBegins \/ copiesPacks \/ mirrorIsSafe \/ copiesSnaps \/ transferFails
           \/ UNCHANGED vars
  BY <1>5 DEF TypeOK, jobBegins, resticPut, resticDelete, jobStops, jobFinishes, repoBegins,
              treeBegins, Begins, copiesPacks, mirrorIsSafe, copiesSnaps, transferFails, vars
<1> QED
  BY <1>2, <1>3, <1>4, <1>5 DEF Next

LEMMA TypeStep == TypeOK /\ [Next]_vars => TypeOK'
  BY ObjectsStep, StepsStep, HistoriesStep, LostStep DEF TypeOK, StepsOK, HistoriesOK

\* Every state is well-typed.
THEOREM TypeCorrect == Spec => []TypeOK
  BY TypeInit, TypeStep, PTL DEF Spec
-----------------------------------------------------------------------------
(* Why a copy is usable.                                                     *)

\* A snapshot is written after its packs, and removed before them; a number is not used
\* again, so that what a job is about to write is not on the replica.
Written ==
  /\ local.snaps \subseteq local.packs
  /\ job = "snapshot" => backup \in local.packs
  /\ local.snaps \cup remote.snaps \subseteq 1..backup
  /\ job \in {"backup", "snapshot"} => backup \notin local.snaps \cup remote.snaps

\* A transfer that nothing came across works on a repository at rest: after the first pass
\* the replica has all its packs, and none of them is to be deleted.
Copied ==
  /\ raced => dirty
  /\ pass # "idle" /\ ~raced =>
       /\ job = "idle" /\ mounted
       /\ pass # "packs1" => local.packs \subseteq remote.packs
       /\ pass \in {"snaps", "delete1", "delete2"} => doomed.packs \cap local.packs = {}

IInv == TypeOK /\ Written /\ Copied /\ SnapshotUsable

LEMMA InvInit == Init => IInv
<1> SUFFICES ASSUME Init PROVE Written /\ Copied /\ SnapshotUsable
  BY TypeInit DEF IInv
<1> QED
  BY DEF Init, Nothing, Written, Copied, SnapshotUsable

\* The job keeps its order; of the transfer, only the copy of the snapshots matters to it.
LEMMA WrittenStep == TypeOK /\ Written /\ [Next]_vars => Written'
<1> SUFFICES ASSUME TypeOK, Written, [Next]_vars PROVE Written'
  OBVIOUS
<1> USE DEF TypeOK, Objects, Written
<1>1. CASE jobBegins
  BY <1>1 DEF jobBegins
<1>2. CASE resticPut
  BY <1>2 DEF resticPut
<1>3. CASE resticDelete
  BY <1>3 DEF resticDelete
<1>4. CASE jobStops \/ jobFinishes
  BY <1>4 DEF jobStops, jobFinishes
<1>5. CASE repoBegins \/ treeBegins \/ mirrorIsSafe \/ transferFails \/ unmounts \/ mounts
           \/ UNCHANGED vars
  BY <1>5 DEF repoBegins, treeBegins, Begins, mirrorIsSafe, transferFails, unmounts, mounts,
         vars
<1>6. CASE copiesPacks
  BY <1>6 DEF copiesPacks, Source
<1>7. CASE copiesSnaps
  BY <1>7 DEF copiesSnaps, Source, Nothing
<1>8. CASE deletesPacks
  BY <1>8 DEF deletesPacks, Goes
<1>9. CASE deletesSnaps
  BY <1>9 DEF deletesSnaps, Goes
<1> QED
  BY <1>1, <1>2, <1>3, <1>4, <1>5, <1>6, <1>7, <1>8, <1>9 DEF Next

LEMMA CopiedStep == TypeOK /\ Copied /\ [Next]_vars => Copied'
<1> SUFFICES ASSUME TypeOK, Copied, [Next]_vars PROVE Copied'
  OBVIOUS
<1> USE DEF TypeOK, Objects, Copied
<1>1. CASE jobBegins \/ unmounts
  BY <1>1 DEF jobBegins, unmounts
<1>2. CASE resticPut \/ resticDelete \/ jobStops \/ jobFinishes
  BY <1>2 DEF resticPut, resticDelete, jobStops, jobFinishes
<1>3. CASE repoBegins \/ treeBegins
  BY <1>3 DEF repoBegins, treeBegins, Begins, resticRepoJobs, HasActiveRun
<1>4. CASE copiesPacks
  BY <1>4 DEF copiesPacks, Source
<1>5. CASE mirrorIsSafe \/ transferFails \/ mounts \/ UNCHANGED vars
  BY <1>5 DEF mirrorIsSafe, transferFails, mounts, vars
<1>6. CASE copiesSnaps
  BY <1>6 DEF copiesSnaps, Source
<1>7. CASE deletesPacks
  BY <1>7 DEF deletesPacks, Goes
<1>8. CASE deletesSnaps
  BY <1>8 DEF deletesSnaps, Goes
<1> QED
  BY <1>1, <1>2, <1>3, <1>4, <1>5, <1>6, <1>7, <1>8 DEF Next

LEMMA UsableStep == IInv /\ [Next]_vars => SnapshotUsable'
<1> SUFFICES ASSUME IInv, [Next]_vars PROVE SnapshotUsable'
  OBVIOUS
<1> USE DEF IInv, TypeOK, Objects, SnapshotUsable
\* what is written next is not on the replica
<1>1. CASE resticPut
  BY <1>1 DEF resticPut, Written
<1>2. CASE jobBegins \/ resticDelete \/ jobStops \/ jobFinishes \/ unmounts \/ mounts
  BY <1>2 DEF jobBegins, resticDelete, jobStops, jobFinishes, unmounts, mounts
<1>3. CASE repoBegins \/ treeBegins \/ mirrorIsSafe \/ transferFails \/ UNCHANGED vars
  BY <1>3 DEF repoBegins, treeBegins, Begins, mirrorIsSafe, transferFails, vars
<1>4. CASE copiesPacks
  BY <1>4 DEF copiesPacks
\* the packs were there first
<1>5. CASE copiesSnaps
  BY <1>5 DEF copiesSnaps, Source, Written, Copied
\* and are not deleted
<1>6. CASE deletesPacks
  BY <1>6 DEF deletesPacks, Goes, Written, Copied
\* an undisturbed transfer ends with everything in its place
<1>7. CASE deletesSnaps
  BY <1>7 DEF deletesSnaps, Goes, Written, Copied
<1> QED
  BY <1>1, <1>2, <1>3, <1>4, <1>5, <1>6, <1>7 DEF Next

\* A snapshot that is kept and has reached the replica can be restored from there
\* (SnapshotUsable), however many backups, deletions and failures there are.
THEOREM UsableAlways == Spec => []SnapshotUsable
<1>1. IInv /\ [Next]_vars => IInv'
  BY TypeStep, WrittenStep, CopiedStep, UsableStep DEF IInv
<1>2. IInv => SnapshotUsable
  BY DEF IInv
<1> QED
  BY InvInit, <1>1, <1>2, PTL DEF Spec
-----------------------------------------------------------------------------
(* Why an accident is bounded.                                               *)

\* While the volume is away nothing is added to the replica; a pass that goes beyond its
\* deletion check has found no more than MaxDelete objects there, and none is lost twice.
Counted ==
  /\ pass \in {"snaps", "delete1"} => doomed.packs \subseteq remote.packs
  /\ pass \in {"delete1", "delete2"} => doomed.snaps \subseteq remote.snaps
  /\ mounted => lost = 0
  /\ ~mounted /\ ~blind =>
       \/ lost = 0 /\ pass \in {"idle", "packs1", "check"}
       \/ Size(remote) + lost <= MaxDelete

LEMMA Taken ==
  ASSUME NEW S \in SUBSET Backups, NEW T \in SUBSET Backups, NEW P \in SUBSET S
  PROVE  /\ Cardinality(S \ P) + Cardinality(P \cap T) <= Cardinality(S)
         /\ Cardinality(S) \in Nat /\ Cardinality(S \ P) \in Nat /\ Cardinality(P \cap T) \in Nat
<1>1. IsFiniteSet(S)
  <2>1. IsFiniteSet(Backups)
    BY FS_Interval DEF Backups
  <2> QED
    BY <2>1, FS_Subset
<1>2. IsFiniteSet(P) /\ IsFiniteSet(P \cap T)
  BY <1>1, FS_Subset
<1>3. Cardinality(P \cap T) <= Cardinality(P)
  BY <1>2, FS_Subset
<1>4. Cardinality(S \ P) = Cardinality(S) - Cardinality(P) /\ IsFiniteSet(S \ P)
  <2>1. S \cap P = P
    OBVIOUS
  <2> QED
    BY <2>1, <1>1, FS_Difference
<1>5. Cardinality(S) \in Nat /\ Cardinality(P) \in Nat /\ Cardinality(P \cap T) \in Nat
      /\ Cardinality(S \ P) \in Nat
  BY <1>1, <1>2, <1>4, FS_CardinalityType
<1> QED
  BY <1>3, <1>4, <1>5

\* What a deletion takes is missing afterwards, and counted once.
LEMMA GoesStep ==
  ASSUME TypeOK, ~mounted, NEW o \in Objects, Goes(o),
         o.packs \subseteq remote.packs, o.snaps \subseteq remote.snaps,
         Size(remote) + lost <= MaxDelete
  PROVE  Size(remote)' + lost' <= MaxDelete
<1> USE DEF TypeOK, Objects
<1>1. /\ Size(remote) = Cardinality(remote.packs) + Cardinality(remote.snaps)
      /\ Size(remote)' = Cardinality(remote.packs \ o.packs) + Cardinality(remote.snaps \ o.snaps)
      /\ lost' = lost + (Cardinality(o.packs \cap local.packs)
                         + Cardinality(o.snaps \cap local.snaps))
  BY DEF Goes, Size
<1>2. /\ Cardinality(remote.packs \ o.packs) + Cardinality(o.packs \cap local.packs)
           <= Cardinality(remote.packs)
      /\ Cardinality(remote.packs) \in Nat /\ Cardinality(remote.packs \ o.packs) \in Nat
      /\ Cardinality(o.packs \cap local.packs) \in Nat
  BY Taken
<1>3. /\ Cardinality(remote.snaps \ o.snaps) + Cardinality(o.snaps \cap local.snaps)
           <= Cardinality(remote.snaps)
      /\ Cardinality(remote.snaps) \in Nat /\ Cardinality(remote.snaps \ o.snaps) \in Nat
      /\ Cardinality(o.snaps \cap local.snaps) \in Nat
  BY Taken
<1> QED
  BY <1>1, <1>2, <1>3

LEMMA CountedStep == TypeOK /\ Counted /\ [Next]_vars => Counted'
<1> SUFFICES ASSUME TypeOK, Counted, [Next]_vars PROVE Counted'
  OBVIOUS
<1> USE DEF TypeOK, Counted
<1>1. CASE jobBegins \/ resticPut \/ resticDelete \/ jobStops \/ jobFinishes \/ repoBegins
           \/ treeBegins \/ transferFails \/ UNCHANGED vars
  <2>1. UNCHANGED <<remote, mounted, blind, lost>>
    BY <1>1 DEF jobBegins, resticPut, resticDelete, jobStops, jobFinishes, repoBegins,
           treeBegins,
                Begins, transferFails, vars
  <2>2. \/ UNCHANGED <<pass, doomed>>
        \/ pass' \in {"idle", "packs1"}
    BY <1>1 DEF jobBegins, resticPut, resticDelete, jobStops, jobFinishes, repoBegins,
           treeBegins,
                Begins, resticRepoJobs, transferFails, vars
  <2> QED
    BY <2>1, <2>2 DEF Size
<1>2. CASE unmounts
  BY <1>2 DEF unmounts
<1>3. CASE mounts
  BY <1>3 DEF mounts
<1>4. CASE copiesPacks
  <2>1. ~mounted => remote' = remote
    BY <1>4 DEF copiesPacks, Source, Nothing, Objects
  <2>2. \/ pass = "packs1" /\ pass' = "check"
        \/ /\ pass = "packs2" /\ pass' = "snaps"
           /\ doomed'.packs \subseteq remote'.packs
    BY <1>4 DEF copiesPacks, Objects
  <2>3. UNCHANGED <<mounted, lost, blind>>
    BY <1>4 DEF copiesPacks
  <2>4. ~mounted => Size(remote)' = Size(remote)
    BY <2>1 DEF Size
  <2> QED
    BY <2>2, <2>3, <2>4
\* without the volume, everything on the replica is about to be deleted
<1>5. CASE mirrorIsSafe
  <2>1. ~mounted => Size(Planned) = Size(remote)
    BY DEF Planned, Source, Nothing, Size, Objects
  <2>2. Size(remote) \in Nat
    BY SizeIsNat
  <2> QED
    BY <1>5, <2>1, <2>2 DEF mirrorIsSafe, Size
<1>6. CASE copiesSnaps
  <2>1. ~mounted => remote' = remote
    BY <1>6 DEF copiesSnaps, Source, Nothing, Objects
  <2> QED
    BY <1>6, <2>1 DEF copiesSnaps, Objects, Size
<1>7. CASE deletesPacks
  <2>1. PICK P \in SUBSET doomed.packs :
          Goes([packs |-> P, snaps |-> {}]) /\ doomed' = [doomed EXCEPT !.packs = P]
    BY <1>7 DEF deletesPacks
  <2>2. [packs |-> P, snaps |-> {}] \in Objects
    BY DEF Objects
  <2>3. ~mounted /\ Size(remote) + lost <= MaxDelete => Size(remote)' + lost' <= MaxDelete
    BY <1>7, <2>1, <2>2, GoesStep DEF deletesPacks
  <2> QED
    BY <1>7, <2>1, <2>3 DEF deletesPacks, Goes, Objects
<1>8. CASE deletesSnaps
  <2>1. PICK S \in SUBSET doomed.snaps : Goes([packs |-> {}, snaps |-> S])
    BY <1>8 DEF deletesSnaps
  <2>2. [packs |-> {}, snaps |-> S] \in Objects
    BY DEF Objects
  <2>3. ~mounted /\ Size(remote) + lost <= MaxDelete => Size(remote)' + lost' <= MaxDelete
    BY <1>8, <2>1, <2>2, GoesStep DEF deletesSnaps
  <2>4. pass' = "idle" /\ (mounted' => lost' = 0)
    BY <1>8, <2>1 DEF deletesSnaps, Goes
  <2>5. pass = "delete2" /\ UNCHANGED <<mounted, blind>>
    BY <1>8 DEF deletesSnaps
  <2>6. ~mounted /\ ~blind => Size(remote) + lost <= MaxDelete
    BY <2>5
  <2> QED
    BY <2>3, <2>4, <2>5, <2>6
<1> QED
  BY <1>1, <1>2, <1>3, <1>4, <1>5, <1>6, <1>7, <1>8 DEF Next

\* An unmounted volume costs the replica no more than max_delete objects (AccidentBounded),
\* however often the transfer is tried.
THEOREM AccidentIsBounded == Spec => []AccidentBounded
<1>1. Init => Counted
  BY DEF Init, Counted
<1>2. TypeOK /\ Counted => AccidentBounded
  <2>1. TypeOK => Size(remote) \in Nat
    BY SizeIsNat DEF TypeOK
  <2> QED
    BY <2>1 DEF TypeOK, Counted, AccidentBounded
<1> QED
  BY TypeInit, TypeStep, CountedStep, <1>1, <1>2, PTL DEF Spec
-----------------------------------------------------------------------------
(* The queue.                                                                 *)
WorkerSteps == {"idle", "jobs", "gone", "busy", "mark", "list", "copy",
                "failed", "unreachable", "error", "done", "ok"}

WorkerState ==
  [pc : WorkerSteps, item : Items \cup {None}, seen : {"nothing", "latest", "old"}]

USE DEF source, queue, health, It, WorkerState

\* The rows and the worker.  (The order of the queue plays no part here: the worker may
\* take any item that is due.)
QueueTyped ==
  /\ row \in [Items -> Row]
  /\ worker \in WorkerState
  /\ worker.pc # "idle" => It \in Items

\* What the row of the item says, by the step of the worker; and that rsync has read it.
AtWork ==
  /\ worker.pc \in {"jobs", "gone", "busy", "mark"} =>
       row[It].status \in {"pending", "failed"}
  /\ worker.pc \in {"list", "copy", "failed", "unreachable", "done"} =>
       row[It].status = "syncing"
  /\ worker.pc \in {"copy", "done"} => It \notin owed

QueueInv == QueueTyped /\ AtWork /\ SyncingIsWorked /\ DoneIsServed

LEMMA QueueHolds == QueueInit => QueueInv
  BY DEF QueueInit, QueueInv, QueueTyped, AtWork, SyncingIsWorked, DoneIsServed,
         Row, Absent, Resting, WorkerSteps

\* What enqueues, and what only touches the files: the worker stays where it is.
LEMMA EnqueueStep ==
  ASSUME QueueInv, NEW k \in Items, EnqueueReplica(k), worker' = worker
  PROVE  QueueInv'
<1>1. QueueTyped'
  BY DEF QueueInv, QueueTyped, EnqueueReplica, Row
<1>2. AtWork'
  BY DEF QueueInv, QueueTyped, AtWork, EnqueueReplica, Row
<1>3. SyncingIsWorked' /\ DoneIsServed'
  BY DEF QueueInv, QueueTyped, SyncingIsWorked, DoneIsServed,
         EnqueueReplica, Row
<1> QED
  BY <1>1, <1>2, <1>3 DEF QueueInv

LEMMA QuietStep ==
  ASSUME QueueInv, worker'.pc = worker.pc, worker'.item = It,
         worker' \in WorkerState,
         row' = row, owed' \subseteq owed
  PROVE  QueueInv'
  BY DEF QueueInv, QueueTyped, AtWork, SyncingIsWorked, DoneIsServed

LEMMA ChangesIsQuiet ==
  ASSUME QueueInv, NEW K, Changes(K)
  PROVE  /\ worker'.pc = worker.pc /\ worker'.item = It
         /\ worker' \in WorkerState
  BY DEF QueueInv, QueueTyped, Changes

LEMMA ProducerStep ==
  ASSUME QueueInv, NEW k \in Items, runBegins(k) \/ Produce(k) PROVE QueueInv'
<1>1. CASE runBegins(k) \/ jobStores(k)
  <2>1. Changes({k}) /\ row' = row /\ owed' = owed
    BY <1>1 DEF runBegins, jobStores
  <2> QED
    BY <2>1, ChangesIsQuiet, QuietStep
<1>2. CASE jobSucceeds(k)
  BY <1>2, QuietStep DEF jobSucceeds, QueueInv, QueueTyped
<1>3. CASE enqueueRunForReplica(k)
  <2>1. worker' = worker /\ (EnqueueReplica(k) \/ UNCHANGED <<row, owed>>)
    BY <1>3 DEF enqueueRunForReplica
  <2> QED
    BY <2>1, EnqueueStep, QuietStep DEF QueueInv, QueueTyped
<1> QED
  BY <1>1, <1>2, <1>3 DEF Produce

\* The worker.  Each step that writes a row writes that of its item.
LEMMA WorkStep == ASSUME QueueInv, Work PROVE QueueInv'
<1> USE DEF QueueInv, QueueTyped, WorkerSteps
<1>1. CASE drain
  <2>1. PICK k \in DueReplicaItems :
          worker' = [Resting EXCEPT !.pc = "jobs", !.item = k]
    BY <1>1 DEF drain
  <2>2. k \in Items /\ row[k].status \in {"pending", "failed"}
    BY DEF DueReplicaItems
  <2>3. row' = row /\ owed' = owed /\ worker.pc = "idle"
    BY <1>1 DEF drain
  <2>4. worker' = [pc |-> "jobs", item |-> k, seen |-> "nothing"]
    BY <2>1 DEF Resting
  <2> QED
    BY <2>2, <2>3, <2>4 DEF AtWork, SyncingIsWorked, DoneIsServed
<1>2. CASE jobsFor
  <2>1. worker.pc = "jobs" /\ UNCHANGED <<row, owed>>
    BY <1>2 DEF jobsFor
  <2>2. PICK step \in {"gone", "busy", "mark"} : worker' = [worker EXCEPT !.pc = step]
    BY <1>2 DEF jobsFor, WorkerGoes
  <2>3. worker' = [pc |-> step, item |-> worker.item, seen |-> worker.seen]
    BY <2>2
  <2> QED
    BY <2>1, <2>3 DEF AtWork, SyncingIsWorked, DoneIsServed
<1>3. CASE DeleteReplicaItem
  <2>1. /\ worker.pc = "gone" /\ owed' = owed
        /\ row' = [row EXCEPT ![worker.item] = Absent]
        /\ worker' = [pc |-> "idle", item |-> None, seen |-> "nothing"]
    BY <1>3 DEF DeleteReplicaItem, Resting
  <2> QED
    BY <2>1 DEF AtWork, SyncingIsWorked, DoneIsServed, Row, Absent
<1>4. CASE DeferReplicaItem
  <2>1. /\ worker.pc = "busy" /\ owed' = owed
        /\ row' = IF row[worker.item].status = "none" THEN row
                  ELSE [row EXCEPT ![worker.item] = [status |-> "pending", next |-> "later"]]
        /\ worker' = [pc |-> "idle", item |-> None, seen |-> "nothing"]
    BY <1>4 DEF DeferReplicaItem, UpdateRow, Resting
  <2> QED
    BY <2>1 DEF AtWork, SyncingIsWorked, DoneIsServed, Row
<1>5. CASE MarkReplicaSyncing
  <2>1. /\ worker.pc = "mark" /\ owed' = owed /\ row[worker.item].status # "none"
        /\ row' = [row EXCEPT ![worker.item] = [row[worker.item] EXCEPT !.status = "syncing"]]
        /\ worker' = [pc |-> "list", item |-> worker.item, seen |-> worker.seen]
    BY <1>5 DEF MarkReplicaSyncing, UpdateRow, WorkerGoes, AtWork
  <2> QED
    BY <2>1 DEF AtWork, SyncingIsWorked, DoneIsServed, Row
<1>6. CASE rsyncLists
  <2>1. worker.pc = "list" /\ row' = row /\ owed' = owed \ {worker.item}
    BY <1>6 DEF rsyncLists
  <2>2. PICK seen \in {"nothing", "latest", "old"} :
          worker' = [pc |-> "copy", item |-> worker.item, seen |-> seen]
    BY <1>6 DEF rsyncLists
  <2> QED
    BY <2>1, <2>2 DEF AtWork, SyncingIsWorked, DoneIsServed
<1>7. CASE rsyncCopies
  <2>1. /\ worker.pc = "copy" /\ UNCHANGED <<row, owed>>
        /\ worker' = [pc |-> "done", item |-> worker.item, seen |-> worker.seen]
    BY <1>7 DEF rsyncCopies, WorkerGoes
  <2> QED
    BY <2>1 DEF AtWork, SyncingIsWorked, DoneIsServed
<1>8. CASE rsyncFails
  <2>1. worker.pc \in {"list", "copy"} /\ UNCHANGED <<row, owed>>
    BY <1>8 DEF rsyncFails
  <2>2. PICK step \in {"failed", "unreachable"} :
          worker' = [pc |-> step, item |-> worker.item, seen |-> worker.seen]
    BY <1>8 DEF rsyncFails, WorkerGoes
  <2> QED
    BY <2>1, <2>2 DEF AtWork, SyncingIsWorked, DoneIsServed
<1>9. CASE MarkReplicaFailed
  <2>1. /\ worker.pc \in {"failed", "unreachable"} /\ owed' = owed
        /\ row' = [row EXCEPT ![worker.item] = [status |-> "failed", next |-> "later"]]
    BY <1>9 DEF MarkReplicaFailed, UpdateRow, AtWork
  <2>2. \/ worker' = [pc |-> "idle", item |-> None, seen |-> "nothing"]
        \/ worker' = [pc |-> "error", item |-> worker.item, seen |-> worker.seen]
    BY <1>9 DEF MarkReplicaFailed, Resting
  <2> QED
    BY <2>1, <2>2 DEF AtWork, SyncingIsWorked, DoneIsServed, Row
\* what it marks as done was read after it was queued
<1>10. CASE MarkReplicaDone
  <2>1. /\ worker.pc = "done" /\ owed' = owed /\ worker.item \notin owed
        /\ row' = [row EXCEPT ![worker.item] = [status |-> "done", next |-> "now"]]
        /\ worker' = [pc |-> "ok", item |-> worker.item, seen |-> worker.seen]
    BY <1>10 DEF MarkReplicaDone, UpdateRow, WorkerGoes, AtWork
  <2> QED
    BY <2>1 DEF AtWork, SyncingIsWorked, DoneIsServed, Row
<1>11. CASE recordTransfer
  <2>1. /\ worker.pc \in {"ok", "error"} /\ UNCHANGED <<row, owed>>
        /\ worker' = [pc |-> "idle", item |-> None, seen |-> "nothing"]
    BY <1>11 DEF recordTransfer, Resting
  <2> QED
    BY <2>1 DEF AtWork, SyncingIsWorked, DoneIsServed
<1> QED
  BY <1>1, <1>2, <1>3, <1>4, <1>5, <1>6, <1>7, <1>8, <1>9, <1>10, <1>11 DEF Work

\* The start of the server is the only way out of "syncing" but the worker's own.
LEMMA StartStep == ASSUME QueueInv, StartReplication PROVE QueueInv'
<1>1. /\ owed' = owed /\ worker' = [pc |-> "idle", item |-> None, seen |-> "nothing"]
      /\ row' = [k \in Items |-> IF row[k].status = "syncing"
                                 THEN [status |-> "pending", next |-> "now"] ELSE row[k]]
  BY DEF StartReplication, Resting
<1> QED
  BY <1>1 DEF QueueInv, QueueTyped, AtWork, SyncingIsWorked, DoneIsServed,
         Row, WorkerSteps

LEMMA RetryStep == ASSUME QueueInv, RetryReplicaFailed PROVE QueueInv'
<1>1. /\ UNCHANGED <<worker, owed>>
      /\ row' = [k \in Items |-> IF row[k].status = "failed"
                                 THEN [status |-> "pending", next |-> "now"] ELSE row[k]]
  BY DEF RetryReplicaFailed
<1> QED
  BY <1>1 DEF QueueInv, QueueTyped, AtWork, SyncingIsWorked, DoneIsServed,
         Row, WorkerSteps

LEMMA QueueStep == QueueInv /\ [QueueNext]_queueVars => QueueInv'
<1> SUFFICES ASSUME QueueInv, [QueueNext]_queueVars PROVE QueueInv'
  OBVIOUS
<1>1. CASE \E k \in Items : runBegins(k) \/ Produce(k)
  BY <1>1, ProducerStep
<1>2. CASE \E s \in Sweepers : \E k \in Items : sweepEnqueues(s, k)
  BY <1>2, EnqueueStep DEF sweepEnqueues
<1>3. CASE (\E s \in Sweepers : sweepReads(s)) \/ probe \/ linkFlips
           \/ UNCHANGED queueVars
  <2>1. UNCHANGED <<worker, row, owed>>
    BY <1>3 DEF sweepReads, probe, linkFlips, queueVars
  <2> QED
    BY <2>1, QuietStep DEF QueueInv, QueueTyped
<1>4. CASE ResetBackupData
  <2>1. Changes(Items) /\ row' = row /\ owed' = {}
    BY <1>4 DEF ResetBackupData
  <2> QED
    BY <2>1, ChangesIsQuiet, QuietStep
<1> QED
  BY <1>1, <1>2, <1>3, <1>4, WorkStep, StartStep, RetryStep DEF QueueNext

\* No row is left in transfer that nobody transfers (SyncingIsWorked).
THEOREM SyncingAlwaysWorked == QueueSpec => []SyncingIsWorked
<1>1. QueueInv => SyncingIsWorked
  BY DEF QueueInv
<1> QED
  BY QueueHolds, QueueStep, <1>1, PTL DEF QueueSpec

\* No request is taken for served by a transfer that began before it (DoneIsServed).
THEOREM DoneAlwaysServed == QueueSpec => []DoneIsServed
<1>1. QueueInv => DoneIsServed
  BY DEF QueueInv
<1> QED
  BY QueueHolds, QueueStep, <1>1, PTL DEF QueueSpec
=============================================================================
