--------------------------- MODULE ReplicaTransfer ---------------------------
(* A restic repository and its off-site copy: the job that writes the        *)
(* repository through the server's REST backend, and the rsync passes that   *)
(* carry it to the replica and carry deletions through                       *)
(* (internal/runner/restic.go, internal/server/restic.go, replica.go,        *)
(* replica_rsync.go).                                                        *)
(*                                                                           *)
(* A backup leaves two objects of the same number: its packs, and its        *)
(* snapshot, which stands for the index as well.  A pass lists and copies    *)
(* data/ before index/ and snapshots/, and what it is to delete goes last.   *)
(* The volume of backup_dir may be unmounted: its directories then look      *)
(* empty, while what they held is still there.                               *)
EXTENDS Integers, FiniteSets

CONSTANTS
  MaxBackups, \* bound: the backups an instance makes
  MaxDelete,  \* [replica] max_delete
  MaxBreaks   \* bound: how often the volume is unmounted

Backups == 1..MaxBackups
Nothing == [packs |-> {}, snaps |-> {}]
Objects == [packs : SUBSET Backups, snaps : SUBSET Backups]

ASSUME TransferAssumption == MaxBackups \in Nat /\ MaxDelete \in Nat /\ MaxBreaks \in Nat

VARIABLES
  local,   \* the repository on this server
  remote,  \* its copy on the replica
  job,     \* the restic job: its step
  backup,  \* the number of its backup
  pass,    \* the transfer: its step
  doomed,  \* what the pass will delete on the replica
  mounted, \* whether backup_dir is what it should be
  breaks,  \* counter of the bound
  raced,   \* history: a job, or an unmounted volume, came across the transfer
  dirty,   \* history: such a transfer is not yet made good by another
  lost,    \* history: what was deleted on the replica since the volume was unmounted
  blind    \* history: it was unmounted between the deletion check and the deletion
repo == <<local, job, backup>>
sync == <<remote, pass, doomed, raced, dirty>>
acc  == <<mounted, breaks, lost, blind>>
vars == <<repo, sync, acc>>

Init ==
  /\ local = Nothing /\ remote = Nothing
  /\ job = "idle" /\ backup = 0
  /\ pass = "idle" /\ doomed = Nothing /\ raced = FALSE /\ dirty = FALSE
  /\ mounted = TRUE /\ breaks = 0 /\ lost = 0 /\ blind = FALSE
-----------------------------------------------------------------------------
(* The job: executeRestic, and the handlers it reaches through restic.       *)
HasActiveRun == job # "idle"

\* The dispatch creates the run; from here on its row says pending or running.
jobBegins ==
  /\ job = "idle" /\ backup < MaxBackups
  /\ job' = "backup" /\ backup' = backup + 1
  /\ raced' = (raced \/ pass # "idle") /\ dirty' = (dirty \/ pass # "idle")
  /\ UNCHANGED <<local, remote, pass, doomed, acc>>

\* resticPut: an object is there at once, with its final name, or not at all.
resticPut ==
  /\ mounted
  /\ \/ /\ job = "backup" /\ job' = "snapshot"
        /\ local' = [local EXCEPT !.packs = @ \cup {backup}]
     \/ /\ job = "snapshot" /\ job' = "forget"
        /\ local' = [local EXCEPT !.snaps = @ \cup {backup}]
  /\ UNCHANGED <<backup, sync, acc>>

\* forget --prune with keep_last = 1, through resticDelete: the snapshots go first.
resticDelete ==
  /\ mounted
  /\ \/ /\ job = "forget" /\ job' = "prune"
        /\ local' = [local EXCEPT !.snaps = {s \in @ : \A t \in @ : t <= s}]
     \/ /\ job = "prune" /\ job' = "finish"
        /\ local' = [local EXCEPT !.packs = @ \cap local.snaps]
  /\ UNCHANGED <<backup, sync, acc>>

\* A step of restic fails, or the job is killed: retention does not follow.  Without a
\* keep_* parameter it does not either.
jobStops ==
  /\ job \in {"backup", "snapshot", "forget", "prune"} /\ job' = "finish"
  /\ UNCHANGED <<local, backup, sync, acc>>

\* The server hears of the end and the row is final.
jobFinishes ==
  /\ job = "finish" /\ job' = "idle"
  /\ UNCHANGED <<local, backup, sync, acc>>
-----------------------------------------------------------------------------
(* The transfer.                                                             *)
Source == IF mounted THEN local ELSE Nothing
Planned == [packs |-> remote.packs \ Source.packs, snaps |-> remote.snaps \ Source.snaps]
Size(o) == Cardinality(o.packs) + Cardinality(o.snaps)

Begins ==
  /\ pass = "idle" /\ doomed' = Nothing
  /\ raced' = (HasActiveRun \/ ~mounted) /\ dirty' = (dirty \/ HasActiveRun \/ ~mounted)
  /\ UNCHANGED <<repo, remote, acc>>

\* (slip) One pass for everything: the snapshots may travel before their packs.
resticOnePass == pass' = "snaps"

\* Two passes; the first leaves index/ and snapshots/ out.
resticRepoJobs == pass' = "packs1"

\* The item of the instance waits while a run is active; that of the tree does not ask.
repoBegins == Begins /\ ~HasActiveRun /\ resticRepoJobs
treeBegins == Begins /\ resticRepoJobs

copiesPacks ==
  /\ pass \in {"packs1", "packs2"}
  /\ remote' = [remote EXCEPT !.packs = @ \cup Source.packs]
  /\ IF pass = "packs1" THEN pass' = "check" /\ UNCHANGED doomed
     ELSE /\ pass' = "snaps"
          /\ doomed' = [doomed EXCEPT !.packs = remote.packs \ Source.packs]
  /\ UNCHANGED <<repo, raced, dirty, acc>>

\* (slip) The deletions are left to --max-delete.
mirrorUnchecked ==
  /\ pass = "check" /\ pass' = "packs2"
  /\ UNCHANGED <<repo, remote, doomed, raced, dirty, acc>>

\* The dry run: a pass that would delete too much is refused before it begins.
mirrorIsSafe ==
  /\ pass = "check"
  /\ pass' = IF Size(Planned) > MaxDelete THEN "idle" ELSE "packs2"
  /\ UNCHANGED <<repo, remote, doomed, raced, dirty, acc>>

copiesSnaps ==
  /\ pass = "snaps" /\ pass' = "delete1"
  /\ remote' = [remote EXCEPT !.snaps = @ \cup Source.snaps]
  /\ doomed' = [doomed EXCEPT !.snaps = remote.snaps \ Source.snaps]
  /\ UNCHANGED <<repo, raced, dirty, acc>>

\* --delete-delay --max-delete: at most so many, whatever the check had counted.
Goes(o) ==
  /\ remote' = [packs |-> remote.packs \ o.packs, snaps |-> remote.snaps \ o.snaps]
  /\ lost' = IF mounted THEN 0
             ELSE lost + Size([packs |-> o.packs \cap local.packs, snaps |-> o.snaps \cap local.snaps])

deletesPacks ==
  /\ pass = "delete1" /\ pass' = "delete2"
  /\ \E P \in SUBSET doomed.packs :
       /\ Cardinality(P) <= MaxDelete
       /\ P = doomed.packs \/ Cardinality(P) = MaxDelete
       /\ Goes([packs |-> P, snaps |-> {}])
       /\ doomed' = [doomed EXCEPT !.packs = P]
  /\ UNCHANGED <<repo, raced, dirty, mounted, breaks, blind>>

\* The end: a copy made without disturbance is a good one.
deletesSnaps ==
  /\ pass = "delete2" /\ pass' = "idle" /\ doomed' = Nothing
  /\ LET room == MaxDelete - Cardinality(doomed.packs)
     IN \E S \in SUBSET doomed.snaps :
          /\ Cardinality(S) <= room
          /\ S = doomed.snaps \/ Cardinality(S) = room
          /\ Goes([packs |-> {}, snaps |-> S])
  /\ raced' = FALSE /\ dirty' = (dirty /\ raced)
  /\ UNCHANGED <<repo, mounted, breaks, blind>>

\* rsync fails, or is killed: what has arrived stays, what was to be deleted stays.
transferFails ==
  /\ pass # "idle" /\ pass' = "idle" /\ doomed' = Nothing /\ raced' = FALSE
  /\ UNCHANGED <<repo, remote, dirty, acc>>
-----------------------------------------------------------------------------
\* The volume goes, and comes back.
unmounts ==
  /\ mounted /\ breaks < MaxBreaks /\ breaks' = breaks + 1 /\ mounted' = FALSE
  /\ lost' = 0 /\ blind' = (pass \in {"packs2", "snaps", "delete1", "delete2"})
  /\ raced' = (raced \/ pass # "idle") /\ dirty' = (dirty \/ pass # "idle")
  /\ UNCHANGED <<repo, remote, pass, doomed>>

mounts ==
  /\ ~mounted /\ mounted' = TRUE /\ lost' = 0 /\ blind' = FALSE
  /\ UNCHANGED <<repo, sync, breaks>>

Next ==
  \/ jobBegins \/ resticPut \/ resticDelete \/ jobStops \/ jobFinishes
  \/ repoBegins \/ treeBegins
  \/ copiesPacks \/ mirrorIsSafe \/ copiesSnaps \/ deletesPacks \/ deletesSnaps
  \/ transferFails \/ unmounts \/ mounts

Spec == Init /\ [][Next]_vars
-----------------------------------------------------------------------------
TypeOK ==
  /\ local \in Objects /\ remote \in Objects /\ doomed \in Objects
  /\ job \in {"idle", "backup", "snapshot", "forget", "prune", "finish"}
  /\ backup \in 0..MaxBackups /\ (job # "idle" => backup # 0)
  /\ pass \in {"idle", "packs1", "check", "packs2", "snaps", "delete1", "delete2"}
  /\ raced \in BOOLEAN /\ dirty \in BOOLEAN /\ mounted \in BOOLEAN /\ blind \in BOOLEAN
  /\ breaks \in 0..MaxBreaks /\ lost \in Nat

\* A snapshot that is still kept and has reached the replica can be restored from there:
\* its packs are there too, wherever a transfer was cut off.  (Left out: copies made while
\* a job was writing, or without the volume, until the next one that was not.)
SnapshotUsable ==
  ~dirty => \A s \in remote.snaps \cap local.snaps : s \in remote.packs

\* An unmounted volume, which looks like one whose files were deleted, costs the replica
\* no more than max_delete objects, however often the transfer is tried.  (Left out: the
\* volume goes after the deletion check of a pass.)
AccidentBounded == ~blind => lost <= MaxDelete
=============================================================================
