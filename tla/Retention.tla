------------------------------ MODULE Retention ------------------------------
(* What an instance keeps of its dumps, and who takes them away: the hourly  *)
(* sweep, the pass that follows every finished run, and the reset that        *)
(* empties the server (internal/server/dumps.go, reset.go, store.go).         *)
(*                                                                            *)
(* A dump is a row of the table runs and a file data.bin in the directory of  *)
(* the run's id.  Row and file are never written in one step, the janitors    *)
(* work from lists they read earlier, and after a reset the ids start again   *)
(* at 1: the content of a file is therefore the serial number of the run that *)
(* uploaded it, which no two runs share.                                      *)
EXTENDS Integers, FiniteSets

CONSTANTS
  MaxId,      \* bound: the ids of runs
  MaxRuns,    \* bound: how many runs are ever created
  Policies,   \* the retentions an operator chooses among: [last, days]
  Hooks,      \* bound: passes after a finished run that work at the same time
  Horizon,    \* bound: the days the clock counts
  MaxResets,  \* bound: resets
  MaxFaults   \* bound: restarts of the server and errors of the disk or database

Ids == 1..MaxId
Days == 0..Horizon
Policy == [last : Nat, days : Nat]
Sweeper == "sweeper"
Janitors == Hooks \cup {Sweeper}

ASSUME RetentionAssumption ==
  /\ MaxId \in Nat /\ MaxRuns \in Nat /\ Horizon \in Nat /\ MaxResets \in Nat /\ MaxFaults \in Nat
  /\ Policies \subseteq Policy
  /\ Sweeper \notin Hooks

VARIABLES
  row,       \* the table runs: status, stored, pruned, ended, and the serial
  seq,       \* sqlite_sequence: the last id given
  data,      \* data.bin of an id's directory: the serial of its content, or 0
  part,      \* data.part, likewise
  policy,    \* keep_last and keep_days of the instance
  now,       \* the server's clock, in days
  janitor,   \* of every janitor: its step, the policy it read, what it will delete
  committed, \* ids between the two steps of FinishRun: the row says success
  finished,  \* ids whose pass after the run has not begun
  reset,     \* the step of ResetBackupData
  born, resets, faults, \* counters of the bounds
  expired,   \* history: the serials that some retention in use no longer kept
  unsettled, \* history: serials whose row or file a fault or a reset cut off
  crossed    \* history: a reset overtook a janitor at work
db    == <<row, seq, policy>>
disk  == <<data, part>>
work  == <<janitor, committed, finished, reset>>
count == <<born, resets, faults>>
hist  == <<unsettled, crossed>>
vars  == <<db, disk, now, work, count, expired, hist>>

NoRow == [status |-> "none", stored |-> FALSE, pruned |-> FALSE, ended |-> 0, serial |-> 0]
Row == [status : {"none", "active", "success", "over"}, stored : BOOLEAN,
        pruned : BOOLEAN, ended : Days, serial : 0..MaxRuns]
Idle == [pc |-> "idle", policy |-> [last |-> 0, days |-> 0], list |-> {}]

Init ==
  /\ row = [i \in Ids |-> NoRow] /\ seq = 0
  /\ data = [i \in Ids |-> 0] /\ part = [i \in Ids |-> 0]
  /\ policy \in Policies /\ now = 0
  /\ janitor = [j \in Janitors |-> Idle]
  /\ committed = {} /\ finished = {} /\ reset = "idle"
  /\ born = 0 /\ resets = 0 /\ faults = 0
  /\ expired = {} /\ unsettled = {} /\ crossed = FALSE
-----------------------------------------------------------------------------
(* The queries.                                                              *)
Listed(i) == row[i].status = "success" /\ row[i].stored /\ ~row[i].pruned

KeepsAll(p) == p.last <= 0 /\ p.days <= 0

\* The place of a dump in InstanceDumps, which lists the newest first.
Place(i) == Cardinality({k \in Ids : Listed(k) /\ k > i})

\* (slip) The intersection: a dump goes as soon as one half does not keep it.
PrunableByEither(p) ==
  IF KeepsAll(p) THEN {}
  ELSE {i \in Ids : Listed(i) /\ (Place(i) >= p.last \/ row[i].ended <= now - p.days)}

\* (slip) One dump more than asked for.
PrunableOneMore(p) ==
  IF KeepsAll(p) THEN {}
  ELSE {i \in Ids : /\ Listed(i)
                    /\ ~(p.last > 0 /\ Place(i) <= p.last)
                    /\ ~(p.days > 0 /\ row[i].ended > now - p.days)}

\* keep_last and keep_days are a union; a half that is 0 keeps nothing by itself.
PrunableDumps(p) ==
  IF KeepsAll(p) THEN {}
  ELSE {i \in Ids : /\ Listed(i)
                    /\ ~(p.last > 0 /\ Place(i) < p.last)
                    /\ ~(p.days > 0 /\ row[i].ended > now - p.days)}

-----------------------------------------------------------------------------
(* The life of a run, as far as its dump is concerned.                       *)

\* An id is given by the table; what its directory already holds stays there.
CreateRun ==
  /\ born < MaxRuns /\ seq < MaxId
  /\ seq' = seq + 1 /\ born' = born + 1
  /\ row' = [row EXCEPT ![seq + 1] = [NoRow EXCEPT !.status = "active", !.serial = born + 1]]
  /\ unsettled' = IF reset = "idle" THEN unsettled ELSE unsettled \cup {born + 1}
  /\ UNCHANGED <<disk, policy, now, work, resets, faults, crossed>>

\* The upload: CreateData, the copy, SetRunDataBytes.
uploads(i) ==
  /\ row[i].status = "active" /\ ~row[i].stored
  /\ part' = [part EXCEPT ![i] = row[i].serial]
  /\ row' = [row EXCEPT ![i].stored = TRUE]
  /\ UNCHANGED <<data, seq, policy, now, work, count, hist>>

\* FinishRun of a success: first the row ...
finUpdateRow(i) ==
  /\ row[i].status = "active"
  /\ row' = [row EXCEPT ![i].status = "success", ![i].ended = now]
  /\ committed' = committed \cup {i}
  /\ UNCHANGED <<seq, policy, disk, now, janitor, finished, reset, count, hist>>

\* ... then the file.  A partial file that is gone is no error.
commitData(i) ==
  /\ i \in committed
  /\ committed' = committed \ {i} /\ finished' = finished \cup {i}
  /\ data' = IF part[i] = 0 THEN data ELSE [data EXCEPT ![i] = part[i]]
  /\ part' = [part EXCEPT ![i] = 0]
  /\ UNCHANGED <<db, now, janitor, reset, count, hist>>

\* FinishRun of any other outcome: the row, and what was uploaded is discarded.
finFails(i) ==
  /\ row[i].status = "active"
  /\ row' = [row EXCEPT ![i].status = "over", ![i].ended = now]
  /\ part' = [part EXCEPT ![i] = 0]
  /\ UNCHANGED <<seq, policy, data, now, work, count, hist>>
-----------------------------------------------------------------------------
(* The janitors.  Each reads the retention, then the list, and then deletes  *)
(* one dump after the other, the file before the row.                        *)
Becomes(j, s) == janitor' = [janitor EXCEPT ![j] = s]

sweepDumps ==
  /\ janitor[Sweeper].pc = "idle" /\ ~KeepsAll(policy)
  /\ Becomes(Sweeper, [pc |-> "list", policy |-> policy, list |-> {}])
  /\ UNCHANGED <<db, disk, now, committed, finished, reset, count, hist>>

\* pruneDumpsForRun, in a goroutine that begins after FinishRun has returned.
pruneDumpsForRun(h, i) ==
  /\ janitor[h].pc = "idle" /\ i \in finished
  /\ finished' = finished \ {i}
  /\ IF row[i].status = "success" /\ row[i].stored /\ ~KeepsAll(policy)
     THEN Becomes(h, [pc |-> "list", policy |-> policy, list |-> {}])
     ELSE UNCHANGED janitor
  /\ UNCHANGED <<db, disk, now, committed, reset, count, hist>>

lists(j) ==
  /\ janitor[j].pc = "list"
  /\ LET found == PrunableDumps(janitor[j].policy)
     IN Becomes(j, IF found = {} THEN Idle
                   ELSE [pc |-> "remove", policy |-> janitor[j].policy, list |-> found])
  /\ UNCHANGED <<db, disk, now, committed, finished, reset, count, hist>>

\* The list is worked off from the newest dump to the oldest.
IsNewest(j, i) == i \in janitor[j].list /\ \A k \in janitor[j].list : k <= i

\* The janitor goes on with the next dump.
Passes(j, i) ==
  LET rest == janitor[j].list \ {i}
  IN Becomes(j, IF rest = {} THEN Idle
                ELSE [pc |-> "remove", policy |-> janitor[j].policy, list |-> rest])

\* DeleteRunPayload: a run without a row is skipped; both files are removed ...
removeData(j, i) ==
  /\ janitor[j].pc = "remove" /\ IsNewest(j, i)
  /\ IF row[i].status = "none"
     THEN Passes(j, i) /\ UNCHANGED disk
     ELSE /\ Becomes(j, [pc |-> "mark", policy |-> janitor[j].policy, list |-> janitor[j].list])
          /\ data' = [data EXCEPT ![i] = 0] /\ part' = [part EXCEPT ![i] = 0]
  /\ UNCHANGED <<db, now, committed, finished, reset, count, hist>>

\* (slip) The row is forgotten.
markNothing(j, i) ==
  /\ janitor[j].pc = "mark" /\ IsNewest(j, i)
  /\ Passes(j, i)
  /\ UNCHANGED <<db, disk, now, committed, finished, reset, count, hist>>

\* ... then the row says so.
markPruned(j, i) ==
  /\ janitor[j].pc = "mark" /\ IsNewest(j, i)
  /\ row' = IF row[i].status = "none" THEN row ELSE [row EXCEPT ![i].pruned = TRUE]
  /\ Passes(j, i)
  /\ UNCHANGED <<seq, policy, disk, now, committed, finished, reset, count, hist>>

\* An error of either step: it is logged and the next dump is taken.
deleteFails(j, i) ==
  /\ janitor[j].pc \in {"remove", "mark"} /\ IsNewest(j, i) /\ faults < MaxFaults
  /\ faults' = faults + 1
  /\ unsettled' = IF janitor[j].pc = "mark" THEN unsettled \cup {row[i].serial} ELSE unsettled
  /\ Passes(j, i)
  /\ UNCHANGED <<db, disk, now, committed, finished, reset, born, resets, crossed>>
-----------------------------------------------------------------------------
(* The operator and the server.                                              *)
SaveInstance(p) ==
  /\ p # policy /\ policy' = p
  /\ UNCHANGED <<row, seq, disk, now, work, count, hist>>

\* ResetBackupData: no run may be in flight ...
UnfinishedRuns == {i \in Ids : row[i].status = "active"}

resetChecks ==
  /\ reset = "idle" /\ resets < MaxResets /\ UnfinishedRuns = {}
  /\ reset' = "rows" /\ resets' = resets + 1
  /\ UNCHANGED <<db, disk, now, janitor, committed, finished, born, faults, hist>>

\* ... the rows go first, and the ids start again ...
resetRows ==
  /\ reset = "rows" /\ reset' = "files"
  /\ row' = [i \in Ids |-> NoRow] /\ seq' = 0
  /\ crossed' = (crossed \/ \E j \in Janitors : janitor[j].pc # "idle")
  /\ UNCHANGED <<policy, disk, now, janitor, committed, finished, count, unsettled>>

\* ... then the directories.
resetFiles ==
  /\ reset = "files" /\ reset' = "idle"
  /\ data' = [i \in Ids |-> 0] /\ part' = [i \in Ids |-> 0]
  /\ UNCHANGED <<db, now, janitor, committed, finished, count, hist>>

\* RemoveAll stops at the first error: some of the directories stay.
resetFails ==
  /\ reset = "files" /\ reset' = "idle" /\ faults < MaxFaults
  /\ faults' = faults + 1
  /\ \E gone \in SUBSET Ids :
       /\ data' = [i \in Ids |-> IF i \in gone THEN 0 ELSE data[i]]
       /\ part' = [i \in Ids |-> IF i \in gone THEN 0 ELSE part[i]]
  /\ UNCHANGED <<db, now, janitor, committed, finished, born, resets, hist>>

\* The files of the dump are gone and the row does not say so yet.
Marks(j, i) == janitor[j].pc = "mark" /\ IsNewest(j, i)

\* The server is killed and started again: what was under way is forgotten.
restarts ==
  /\ faults < MaxFaults /\ faults' = faults + 1
  /\ janitor' = [j \in Janitors |-> Idle]
  /\ committed' = {} /\ finished' = {} /\ reset' = "idle"
  /\ unsettled' = unsettled \cup {row[i].serial : i \in committed}
                    \cup {row[i].serial : i \in {k \in Ids : \E j \in Janitors : Marks(j, k)}}
  /\ UNCHANGED <<db, disk, now, born, resets, crossed>>

tick == now < Horizon /\ now' = now + 1 /\ UNCHANGED <<db, disk, work, count, hist>>
-----------------------------------------------------------------------------
(* What a retention keeps: everything, or the newest, or the youngest.       *)
Retained(i, p) ==
  \/ p.last = 0 /\ p.days = 0
  \/ Cardinality({k \in Ids : Listed(k) /\ k >= i}) <= p.last
  \/ p.days > 0 /\ now < row[i].ended + p.days

\* The retentions in use: the instance's, and what a janitor has read of it.
InUse == {policy} \cup {janitor[j].policy : j \in {k \in Janitors : janitor[k].pc # "idle"}}

Outside == {row[i].serial : i \in {k \in Ids : Listed(k) /\ \E p \in InUse : ~Retained(k, p)}}

Step ==
  \/ CreateRun
  \/ \E i \in Ids : uploads(i) \/ finUpdateRow(i) \/ commitData(i) \/ finFails(i)
  \/ sweepDumps
  \/ \E h \in Hooks, i \in Ids : pruneDumpsForRun(h, i)
  \/ \E j \in Janitors :
       \/ lists(j)
       \/ \E i \in Ids : removeData(j, i) \/ markPruned(j, i) \/ deleteFails(j, i)
  \/ \E p \in Policies : SaveInstance(p)
  \/ resetChecks \/ resetRows \/ resetFiles \/ resetFails
  \/ restarts \/ tick

Next == Step /\ expired' = expired \cup Outside'

Spec == Init /\ [][Next]_vars

\* The goroutines run, and the ticker of the sweep comes round.
FairSpec ==
  /\ Spec
  /\ \A i \in Ids : WF_work(commitData(i))
  /\ WF_work(sweepDumps)
  /\ \A j \in Janitors : WF_work(lists(j) \/ \E i \in Ids : removeData(j, i) \/ markPruned(j, i))
-----------------------------------------------------------------------------
JanitorState == [pc : {"idle", "list", "remove", "mark"}, policy : Policy, list : SUBSET Ids]

TypeOK ==
  /\ row \in [Ids -> Row] /\ seq \in 0..MaxId /\ policy \in Policies
  /\ data \in [Ids -> 0..MaxRuns] /\ part \in [Ids -> 0..MaxRuns]
  /\ now \in Days
  /\ janitor \in [Janitors -> JanitorState]
  /\ \A j \in Janitors : janitor[j].pc \in {"remove", "mark"} <=> janitor[j].list # {}
  /\ committed \subseteq Ids /\ finished \subseteq Ids
  /\ reset \in {"idle", "rows", "files"}
  /\ born \in 0..MaxRuns

\* A dump leaves the disk only if it was outside a retention in use at some time, or by a
\* reset: neither a list read long ago, nor a run that ends meanwhile, nor two janitors on
\* the same dumps take one that was always kept.  (A reset that overtakes a janitor gives
\* its ids to other runs; that is left out.)
ExpiredGo ==
  \A i \in Ids : /\ data[i] = row[i].serial /\ data'[i] = 0 /\ ~crossed
                 /\ row[i].serial # 0
               => data[i] \in expired \/ reset = "files"
OnlyExpiredGo == [][ExpiredGo]_vars

\* A dump the restore view offers is there, and is the run's own: rows and files never
\* disagree, ids used again after a reset included, but while a step is half done, and for
\* the runs a fault, or a reset during their life, cut off between the two.
ListedIsThere ==
  \A i \in Ids : Listed(i) => \/ data[i] = row[i].serial
                              \/ i \in committed
                              \/ \E j \in Janitors : Marks(j, i)
                              \/ row[i].serial \in unsettled
                              \/ crossed

\* A dump does not stay outside its retention: it is rotated away, or the retention changes.
ExpiredGoes == \A i \in Ids : []<>(Listed(i) => Retained(i, policy))
=============================================================================
