----------------------------- MODULE ReplicaQueue -----------------------------
(* The off-site copy: the queue in the database, the one worker that empties *)
(* it, the sweep that fills it again, and the health of the link             *)
(* (internal/server/replica.go, replica_store.go).                           *)
(*                                                                           *)
(* What travels is an item: the directory of a run, or the restic repository *)
(* of an instance.  What is inside an item, and in which order its files     *)
(* travel, is the subject of ReplicaTransfer; here an item only changes, and *)
(* the replica has its latest state or not.                                  *)
(*                                                                           *)
(* Moments of next_try_at are not counted: a row is ready now (0), or later, *)
(* which may have come.  The order of queued_at is kept.  A probe asks and   *)
(* records in one step.                                                      *)
EXTENDS Integers, Sequences

CONSTANTS
  Runs,       \* items that are the directory of a run
  Repos,      \* items that are a restic repository
  Sweepers,   \* the sweep of the ticker, and those an operator asks for
  MaxJobs,    \* bound: jobs
  MaxTroubles \* bound: errors of rsync, resets, restarts, and changes of the link

Items == Runs \cup Repos
None == "none"

ASSUME QueueAssumption ==
  /\ Runs \cap Repos = {} /\ None \notin Items
  /\ MaxJobs \in Nat /\ MaxTroubles \in Nat

VARIABLES
  phase,    \* of the job that writes an item: quiet, active, success, stored
  success,  \* the items whose last job succeeded; ReplicableRuns lists its runs
  exists,   \* the items whose directory is there
  current,  \* the items of which the replica has what is here
  row,      \* replica_queue: status and next_try_at
  age,      \* the items of the queue by queued_at, the oldest first
  worker,   \* the step of the worker, its item, and what rsync listed of it
  sweep,    \* of every sweep: the items still to be queued
  up,       \* whether the replica can be reached
  down,     \* replica_state: down_since is set
  jobs, troubles, \* counters of the bounds
  owed      \* history: the items queued, outside a transfer, since rsync last listed them
source == <<phase, success, exists, jobs>>
queue  == <<row, age>>
health == <<up, down>>
queueVars == <<source, current, queue, worker, sweep, health, troubles, owed>>

Absent == [status |-> "none", next |-> "now"]
Row == [status : {"none", "pending", "syncing", "done", "failed"}, next : {"now", "later"}]
Resting == [pc |-> "idle", item |-> None, seen |-> "nothing"]

QueueInit ==
  /\ phase = [k \in Items |-> "quiet"] /\ jobs = 0
  /\ success = {} /\ exists = {} /\ current = {}
  /\ row = [k \in Items |-> Absent] /\ age = <<>>
  /\ worker = Resting /\ sweep = [s \in Sweepers |-> {}]
  /\ up = TRUE /\ down = FALSE
  /\ troubles = 0 /\ owed = {}

It == worker.item
Trouble == troubles < MaxTroubles /\ troubles' = troubles + 1
-----------------------------------------------------------------------------
(* The queue: one operator per statement.                                    *)
Without(k) == SelectSeq(age, LAMBDA x : x # k)

\* (slip) What was sent once is not queued again.
EnqueueOnce(k) ==
  /\ row' = IF row[k].status \in {"syncing", "done"} THEN row
            ELSE [row EXCEPT ![k] = [status |-> "pending", next |-> "now"]]
  /\ age' = IF row[k].status = "none" THEN Append(age, k) ELSE age
  /\ owed' = IF row[k].status = "syncing" THEN owed ELSE owed \cup {k}

\* EnqueueReplica: an item in transfer is left alone, any other is to be sent now; only
\* an item that had been sent, or is new, gets a new queued_at.
EnqueueReplica(k) ==
  /\ row' = IF row[k].status = "syncing" THEN row
            ELSE [row EXCEPT ![k] = [status |-> "pending", next |-> "now"]]
  /\ age' = IF row[k].status \in {"none", "done"} THEN Append(Without(k), k) ELSE age
  /\ owed' = IF row[k].status = "syncing" THEN owed ELSE owed \cup {k}

\* A statement with WHERE kind = ? AND key = ?.
UpdateRow(k, r) == row' = IF row[k].status = "none" THEN row ELSE [row EXCEPT ![k] = r]

Position(k) == CHOOSE n \in 1..Len(age) : age[n] = k

\* DueReplicaItems with a limit of 1: by next_try_at, then by queued_at.
DueReplicaItems ==
  LET due(next) == {k \in Items : row[k].status \in {"pending", "failed"} /\ row[k].next = next}
  IN IF due("now") # {}
     THEN {k \in due("now") : \A x \in due("now") : Position(k) <= Position(x)}
     ELSE due("later")
-----------------------------------------------------------------------------
(* What writes the items.  A change makes the copy, and what rsync has read, *)
(* out of date.                                                              *)
Changes(K) ==
  /\ current' = current \ K
  /\ worker' = IF It \in K /\ worker.seen = "latest" THEN [worker EXCEPT !.seen = "old"]
               ELSE worker

\* A run is created and begins to write: its directory is there.
runBegins(k) ==
  /\ phase[k] = "quiet" /\ jobs < MaxJobs /\ jobs' = jobs + 1
  /\ phase' = [phase EXCEPT ![k] = "active"]
  /\ success' = success \ {k} /\ exists' = exists \cup {k} /\ Changes({k})
  /\ UNCHANGED <<queue, sweep, health, troubles, owed>>

\* FinishRun: the row says success before the dump has its name.
jobSucceeds(k) ==
  /\ phase[k] = "active"
  /\ phase' = [phase EXCEPT ![k] = "success"] /\ success' = success \cup {k}
  /\ UNCHANGED <<exists, jobs, current, queue, worker, sweep, health, troubles, owed>>

jobStores(k) ==
  /\ phase[k] = "success"
  /\ phase' = [phase EXCEPT ![k] = "stored"] /\ Changes({k})
  /\ UNCHANGED <<success, exists, jobs, queue, sweep, health, troubles, owed>>

\* The goroutine that follows a finished run.
enqueueRunForReplica(k) ==
  /\ phase[k] = "stored" /\ phase' = [phase EXCEPT ![k] = "quiet"]
  /\ IF k \in success THEN EnqueueReplica(k) ELSE UNCHANGED <<queue, owed>>
  /\ UNCHANGED <<success, exists, jobs, current, worker, sweep, health, troubles>>

\* ResetBackupData: no run is in flight; the queue is not touched, and the ids of the
\* runs are used again.
ResetBackupData ==
  /\ Trouble /\ \A k \in Items : phase[k] # "active"
  /\ success' = {} /\ exists' = {} /\ owed' = {} /\ Changes(Items)
  /\ UNCHANGED <<phase, jobs, queue, sweep, health>>
-----------------------------------------------------------------------------
(* The worker: drain and transfer.                                           *)
WorkerGoes(pc) == worker' = [worker EXCEPT !.pc = pc]

drain ==
  /\ worker.pc = "idle"
  /\ \E k \in DueReplicaItems : worker' = [Resting EXCEPT !.pc = "jobs", !.item = k]
  /\ UNCHANGED <<source, current, queue, sweep, health, troubles, owed>>

\* HasActiveRun, which is asked for a repository only.
Busy(k) == phase[k] = "active"

jobsFor ==
  /\ worker.pc = "jobs"
  /\ WorkerGoes(IF It \notin exists THEN "gone"
                ELSE IF It \in Repos /\ Busy(It) THEN "busy" ELSE "mark")
  /\ UNCHANGED <<source, current, queue, sweep, health, troubles, owed>>

DeleteReplicaItem ==
  /\ worker.pc = "gone" /\ worker' = Resting
  /\ row' = [row EXCEPT ![It] = Absent] /\ age' = Without(It)
  /\ UNCHANGED <<source, current, sweep, health, troubles, owed>>

DeferReplicaItem ==
  /\ worker.pc = "busy" /\ worker' = Resting
  /\ UpdateRow(It, [status |-> "pending", next |-> "later"])
  /\ UNCHANGED <<source, current, age, sweep, health, troubles, owed>>

\* (slip) The row does not say that the item is being sent.
MarkNothing ==
  /\ worker.pc = "mark" /\ WorkerGoes("list")
  /\ UNCHANGED <<source, current, queue, sweep, health, troubles, owed>>

MarkReplicaSyncing ==
  /\ worker.pc = "mark" /\ WorkerGoes("list")
  /\ UpdateRow(It, [row[It] EXCEPT !.status = "syncing"])
  /\ UNCHANGED <<source, current, age, sweep, health, troubles, owed>>

\* rsync reads what there is to copy, and copies it.
rsyncLists ==
  /\ worker.pc = "list" /\ up
  /\ worker' = [worker EXCEPT !.pc = "copy", !.seen = IF It \in exists THEN "latest" ELSE @]
  /\ owed' = owed \ {It}
  /\ UNCHANGED <<source, current, queue, sweep, health, troubles>>

\* Files that disappear while they are copied make rsync fail.
Vanished == It \notin exists /\ worker.seen # "nothing"

rsyncCopies ==
  /\ worker.pc = "copy" /\ up /\ ~Vanished
  /\ current' = IF worker.seen = "latest" THEN current \cup {It} ELSE current \ {It}
  /\ WorkerGoes("done")
  /\ UNCHANGED <<source, queue, sweep, health, troubles, owed>>

rsyncFails ==
  /\ worker.pc \in {"list", "copy"}
  /\ \/ ~up /\ WorkerGoes("unreachable") /\ UNCHANGED troubles
     \/ Vanished /\ WorkerGoes("failed") /\ UNCHANGED troubles
     \/ Trouble /\ WorkerGoes("failed")
  /\ UNCHANGED <<source, current, queue, sweep, health, owed>>

\* The row is never removed by a failure; the link is blamed only if it was the link.
MarkReplicaFailed ==
  /\ worker.pc \in {"failed", "unreachable"}
  /\ UpdateRow(It, [status |-> "failed", next |-> "later"])
  /\ worker' = IF worker.pc = "failed" THEN Resting ELSE [worker EXCEPT !.pc = "error"]
  /\ UNCHANGED <<source, current, age, sweep, health, troubles, owed>>

MarkReplicaDone ==
  /\ worker.pc = "done" /\ WorkerGoes("ok")
  /\ UpdateRow(It, [status |-> "done", next |-> "now"])
  /\ UNCHANGED <<source, current, age, sweep, health, troubles, owed>>

\* RecordReplicaOK and RecordReplicaError, after a transfer.
recordTransfer ==
  /\ worker.pc \in {"ok", "error"} /\ worker' = Resting
  /\ down' = (worker.pc = "error")
  /\ UNCHANGED <<source, current, queue, sweep, up, troubles, owed>>

RetryReplicaFailed ==
  /\ \E k \in Items : row[k].status = "failed"
  /\ row' = [k \in Items |-> IF row[k].status = "failed"
                             THEN [status |-> "pending", next |-> "now"] ELSE row[k]]
  /\ UNCHANGED <<source, current, age, worker, sweep, health, troubles, owed>>
-----------------------------------------------------------------------------
(* The sweep: ReplicableRuns and the repositories that are there, then one   *)
(* statement for each.                                                       *)
sweepReads(s) ==
  /\ sweep[s] = {}
  /\ sweep' = [sweep EXCEPT ![s] = (Runs \cap success) \cup (Repos \cap exists)]
  /\ UNCHANGED <<source, current, queue, worker, health, troubles, owed>>

sweepEnqueues(s, k) ==
  /\ k \in sweep[s] /\ sweep' = [sweep EXCEPT ![s] = @ \ {k}]
  /\ EnqueueReplica(k)
  /\ UNCHANGED <<source, current, worker, health, troubles>>

(* The probe, and what the network does.                                     *)
probe ==
  /\ down' = ~up
  /\ UNCHANGED <<source, current, queue, worker, sweep, up, troubles, owed>>

linkFlips ==
  /\ Trouble /\ up' = ~up
  /\ UNCHANGED <<source, current, queue, worker, sweep, down, owed>>

\* (slip) What was in transfer is left so.
StartForgetful ==
  /\ Trouble
  /\ phase' = [k \in Items |-> IF phase[k] = "active" THEN "active" ELSE "quiet"]
  /\ worker' = Resting /\ sweep' = [s \in Sweepers |-> {}]
  /\ UNCHANGED <<success, exists, jobs, current, queue, health, owed>>

\* The server is killed and started again: StartReplication puts what was in transfer
\* back in line; a goroutine between FinishRun and the queue is gone.  A server that is
\* stopped puts it back in line itself, as the last thing the worker does.
StartReplication ==
  /\ Trouble
  /\ phase' = [k \in Items |-> IF phase[k] = "active" THEN "active" ELSE "quiet"]
  /\ worker' = Resting /\ sweep' = [s \in Sweepers |-> {}]
  /\ row' = [k \in Items |-> IF row[k].status = "syncing"
                             THEN [status |-> "pending", next |-> "now"] ELSE row[k]]
  /\ UNCHANGED <<success, exists, jobs, current, age, health, owed>>
-----------------------------------------------------------------------------
Work ==
  \/ drain \/ jobsFor \/ DeleteReplicaItem \/ DeferReplicaItem \/ MarkReplicaSyncing
  \/ rsyncLists \/ rsyncCopies \/ rsyncFails
  \/ MarkReplicaFailed \/ MarkReplicaDone \/ recordTransfer

Produce(k) == jobSucceeds(k) \/ jobStores(k) \/ enqueueRunForReplica(k)

QueueNext ==
  \/ \E k \in Items : runBegins(k) \/ Produce(k)
  \/ Work
  \/ \E s \in Sweepers : sweepReads(s) \/ \E k \in Items : sweepEnqueues(s, k)
  \/ probe \/ linkFlips
  \/ RetryReplicaFailed \/ ResetBackupData \/ StartReplication

QueueSpec == QueueInit /\ [][QueueNext]_queueVars

\* The loops run, their tickers come round, and jobs come to an end.
FairQueueSpec ==
  /\ QueueSpec
  /\ WF_queueVars(Work) /\ WF_queueVars(probe)
  /\ \A k \in Items : WF_queueVars(Produce(k))
  /\ \A s \in Sweepers :
       /\ WF_queueVars(sweepReads(s))
       /\ WF_queueVars(\E k \in Items : sweepEnqueues(s, k))
-----------------------------------------------------------------------------
\* A row says "syncing" only while the worker is at work on it, so that no item waits for
\* a transfer nobody makes: enqueuing, retrying and sweeping all leave such a row alone.
SyncingIsWorked ==
  \A k \in Items : row[k].status = "syncing" =>
    It = k /\ worker.pc \in {"list", "copy", "failed", "unreachable", "done"}

\* A row says "done" only if rsync read the item after it was last queued: no request made
\* before a transfer began is swallowed by it.  (A request made during one is; the next
\* sweep makes up for it.)
DoneIsServed == \A k \in Items : row[k].status = "done" => k \notin owed

\* What is on this server is off-site at last, whatever was interrupted, deferred,
\* swallowed or dropped on the way, provided that the link comes back for good.
OffsiteAtLast ==
  <>[]up => \A k \in Items : []<>(k \in success \cap exists => k \in current)
=============================================================================
