---------------------------- MODULE RunLifecycle ----------------------------
(***************************************************************************)
(* The life of a backup run, from the check-in that creates it to its      *)
(* verdict: the server's row and payload files, the handlers that change   *)
(* them one statement at a time, and the pull-based runner that executes   *)
(* the dispatches of one check-in one after the other.                     *)
(*                                                                         *)
(* Five goroutines of the server work on one run: the handler of the       *)
(* runner's update stream, the handler of its payload upload, an           *)
(* operator's cancellation, the reaper, and the check-in.  Each database   *)
(* statement and each file operation is a step of its own, because nothing *)
(* in the code holds them together.                                        *)
(*                                                                         *)
(* The instances keep every dump (keep_last = keep_days = 0) and there is  *)
(* no replica: what follows a verdict is in Retention and ReplicaQueue.    *)
(***************************************************************************)
EXTENDS Integers, FiniteSets

CONSTANTS
  MaxRuns,         \* how many runs the history may hold
  Streaming,       \* the runs of instances declared capture = "stream"
  Timeout,         \* the timeout a run is dispatched with, in ticks (0: "0s")
  DefaultTimeout,  \* what the reaper assumes for a run without a timeout
  Grace,           \* what the reaper adds to the timeout
  BatchMax,        \* most dispatches in one check-in (one per instance)
  Cancellable,     \* the runs an operator may ask to stop
  MaxRestarts,     \* most times the server's host goes down
  MaxLosses,       \* most runner restarts and broken connections
  InTime           \* whether every runner reports before its run is overdue

Run == 1..MaxRuns

ASSUME ConstantsOK ==
  /\ MaxRuns \in Nat \ {0}
  /\ Streaming \subseteq Run /\ Cancellable \subseteq Run
  /\ Timeout \in [Run -> Nat]
  /\ DefaultTimeout \in Nat \ {0} /\ Grace \in Nat \ {0}
  /\ BatchMax \in Nat \ {0} /\ MaxRestarts \in Nat /\ MaxLosses \in Nat
  /\ InTime \in BOOLEAN

VARIABLES
  \* the row in the table runs
  status,          \* the run's status; "none" before CreateRun
  dataBytes,       \* data_bytes > 0
  cancelRequested, \* cancel_requested
  age,             \* ticks since started_at, or since created_at before that
  \* the files under runs/<id>/
  part, bin,       \* data.part and data.bin
  \* the server's goroutines; all of it is gone after a restart
  fin,             \* the FinishRun call of each caller on each run
  upload,          \* the handler of the run's payload upload
  cancelling,      \* handleCancelRun: the status it has read
  reaping,         \* reapStuckRuns: the overdue runs it has still to finish
  \* the runner's update stream, one request per run
  startedMsg, finishedMsg, connected,
  \* the runner process
  batch,           \* dispatches of the check-in being answered
  queue,           \* dispatches received and not yet finished with
  job, proc, sent, \* a dispatch, its script, its upload as the runner sees it
  ctx, ran,        \* the context of the execution, and for how long it ran
  restarts, losses \* the faults so far

row    == <<status, dataBytes, cancelRequested, age>>
files  == <<part, bin>>
server == <<fin, upload, cancelling, reaping>>
stream == <<startedMsg, finishedMsg, connected>>
runner == <<queue, job, proc, sent, ctx, ran>>
faults == <<restarts, losses>>
vars   == <<row, files, server, stream, batch, runner, faults>>

-----------------------------------------------------------------------------
Outcome  == {"success", "failed", "error"}       \* what FinishRun is told
Terminal == Outcome \cup {"cancelled"}           \* isTerminal
Status   == {"none", "pending", "running"} \cup Terminal
Caller   == {"stream", "cancel", "reaper"}       \* who calls FinishRun

\* A file is absent, being written, complete but only in the page cache,
\* complete and on disk, or the output of a script or a connection cut short.
File == {"none", "writing", "fresh", "whole", "cut"}

\* A FinishRun call stands before one of its three effects.
FinCall == [at: {"idle", "flag", "row", "file"}, as: Terminal]
NoCall  == [at |-> "idle", as |-> "error"]

TypeOK ==
  /\ status \in [Run -> Status]
  /\ dataBytes \in [Run -> BOOLEAN] /\ cancelRequested \in [Run -> BOOLEAN]
  /\ age \in [Run -> Nat]
  /\ part \in [Run -> File] /\ bin \in [Run -> File]
  /\ fin \in [Run -> [Caller -> FinCall]]
  /\ upload \in [Run -> {"idle", "asked", "admitted", "writing", "copied",
                         "synced", "failed", "dropped"}]
  /\ cancelling \in [Run -> {"idle", "pending", "running"}]
  /\ reaping \in SUBSET Run
  /\ startedMsg \in [Run -> BOOLEAN] /\ connected \in [Run -> BOOLEAN]
  /\ finishedMsg \in [Run -> Outcome \cup {"none"}]
  /\ batch \in SUBSET Run /\ queue \in SUBSET Run
  /\ job \in [Run -> {"none", "queued", "exec", "closing", "done", "lost"}]
  /\ proc \in [Run -> {"idle", "alive", "ok", "bad"}]
  /\ sent \in [Run -> {"none", "open", "ok", "err", "broke"}]
  /\ ctx \in [Run -> {"live", "cancelled", "expired"}]
  /\ ran \in [Run -> Nat]
  /\ restarts \in 0..MaxRestarts /\ losses \in 0..MaxLosses

Init ==
  /\ status = [r \in Run |-> "none"]
  /\ dataBytes = [r \in Run |-> FALSE]
  /\ cancelRequested = [r \in Run |-> FALSE]
  /\ age = [r \in Run |-> 0]
  /\ part = [r \in Run |-> "none"] /\ bin = [r \in Run |-> "none"]
  /\ fin = [r \in Run |-> [c \in Caller |-> NoCall]]
  /\ upload = [r \in Run |-> "idle"]
  /\ cancelling = [r \in Run |-> "idle"]
  /\ reaping = {}
  /\ startedMsg = [r \in Run |-> FALSE]
  /\ finishedMsg = [r \in Run |-> "none"]
  /\ connected = [r \in Run |-> FALSE]
  /\ batch = {} /\ queue = {}
  /\ job = [r \in Run |-> "none"] /\ proc = [r \in Run |-> "idle"]
  /\ sent = [r \in Run |-> "none"] /\ ctx = [r \in Run |-> "live"]
  /\ ran = [r \in Run |-> 0]
  /\ restarts = 0 /\ losses = 0

Unfinished(r) == status[r] \in {"pending", "running"}

\* The lowest id of a set: rows are walked ORDER BY id, and the dispatches of
\* one check-in are created in the order they are sent and executed.
IsFirst(r, S) == r \in S /\ \A q \in S : r <= q

-----------------------------------------------------------------------------
(* The check-in: CreateRun for each due instance, then one answer.         *)

Unused == {r \in Run : status[r] = "none"}

\* CreateRun inserts the row; buildDispatch adds the dispatch to the answer,
\* unless signing it fails and the row is left behind.
buildDispatch(r) ==
  /\ queue = {} /\ Cardinality(batch) < BatchMax
  /\ IsFirst(r, Unused)
  /\ status' = [status EXCEPT ![r] = "pending"]
  /\ age' = [age EXCEPT ![r] = 0]
  /\ batch' \in {batch \cup {r}, batch}
  /\ UNCHANGED <<dataBytes, cancelRequested, files, server, stream, runner, faults>>

\* The answer reaches the runner: Tick will execute it job by job.
checkinAnswered ==
  /\ batch # {}
  /\ queue' = batch /\ batch' = {}
  /\ job' = [r \in Run |-> IF r \in batch THEN "queued" ELSE job[r]]
  /\ UNCHANGED <<row, files, server, stream, proc, sent, ctx, ran, faults>>

-----------------------------------------------------------------------------
(* FinishRun, one effect per step.                                         *)

FinishRun(c, r, outcome) ==
  fin' = [fin EXCEPT ![r][c] =
            [at |-> IF outcome = "success" THEN "row" ELSE "flag", as |-> outcome]]

\* Only a non-success outcome looks at cancel_requested, and is relabelled.
finReadFlag(c, r) ==
  /\ fin[r][c].at = "flag"
  /\ fin' = [fin EXCEPT ![r][c] =
               [at |-> "row",
                as |-> IF cancelRequested[r] THEN "cancelled" ELSE fin[r][c].as]]
  /\ UNCHANGED <<row, files, upload, cancelling, reaping, stream, batch, runner, faults>>

\* UPDATE runs SET status ...: unconditional, whatever the row says by now.
finUpdateRow(c, r) ==
  /\ fin[r][c].at = "row"
  /\ status' = [status EXCEPT ![r] = fin[r][c].as]
  /\ fin' = [fin EXCEPT ![r][c].at = "file"]
  /\ UNCHANGED <<dataBytes, cancelRequested, age, files, upload, cancelling,
                 reaping, stream, batch, runner, faults>>

\* rename(data.part, data.bin); a missing data.part is not an error.
commitData(r) ==
  /\ bin' = [bin EXCEPT ![r] = IF part[r] = "none" THEN bin[r] ELSE part[r]]
  /\ part' = [part EXCEPT ![r] = "none"]

\* (slip) The directory of the run is removed, and not only its data.part.
discardRun(r) ==
  /\ part' = [part EXCEPT ![r] = "none"]
  /\ bin' = [bin EXCEPT ![r] = "none"]

discardData(r) ==
  /\ part' = [part EXCEPT ![r] = "none"]
  /\ UNCHANGED bin

\* (slip) Only a success touches the payload: what a failed run left stays.
finFileKeepsPart(c, r) ==
  /\ fin[r][c].at = "file"
  /\ IF fin[r][c].as = "success" THEN commitData(r) ELSE UNCHANGED files
  /\ fin' = [fin EXCEPT ![r][c] = NoCall]
  /\ UNCHANGED <<row, upload, cancelling, reaping, stream, batch, runner, faults>>

\* (slip) The payload is promoted whatever the verdict.
finFilePromotesAll(c, r) ==
  /\ fin[r][c].at = "file"
  /\ commitData(r)
  /\ fin' = [fin EXCEPT ![r][c] = NoCall]
  /\ UNCHANGED <<row, upload, cancelling, reaping, stream, batch, runner, faults>>

finFile(c, r) ==
  /\ fin[r][c].at = "file"
  /\ IF fin[r][c].as = "success" THEN commitData(r) ELSE discardData(r)
  /\ fin' = [fin EXCEPT ![r][c] = NoCall]
  /\ UNCHANGED <<row, upload, cancelling, reaping, stream, batch, runner, faults>>

-----------------------------------------------------------------------------
(* The update stream: handleUpdates applies one line after the other.      *)

\* MarkRunStarted, whatever the row says by now.
applyStarted(r) ==
  /\ startedMsg[r]
  /\ startedMsg' = [startedMsg EXCEPT ![r] = FALSE]
  /\ status' = [status EXCEPT ![r] = "running"]
  /\ age' = [age EXCEPT ![r] = 0]
  /\ UNCHANGED <<dataBytes, cancelRequested, files, server, finishedMsg,
                 connected, batch, runner, faults>>

\* (slip) An update line without a verdict is taken for the last one.
applyAnyLine(r) ==
  /\ ~startedMsg[r] /\ fin[r]["stream"].at = "idle"
  /\ FinishRun("stream", r, finishedMsg[r])
  /\ finishedMsg' = [finishedMsg EXCEPT ![r] = "none"]
  /\ UNCHANGED <<row, files, upload, cancelling, reaping, startedMsg, connected,
                 batch, runner, faults>>

applyFinished(r) ==
  /\ finishedMsg[r] # "none" /\ ~startedMsg[r]
  /\ fin[r]["stream"].at = "idle"
  /\ FinishRun("stream", r, finishedMsg[r])
  /\ finishedMsg' = [finishedMsg EXCEPT ![r] = "none"]
  /\ UNCHANGED <<row, files, upload, cancelling, reaping, startedMsg, connected,
                 batch, runner, faults>>

-----------------------------------------------------------------------------
(* The operator's cancellation: handleCancelRun.                           *)

\* The run is read, and refused if it has finished.
cancelRead(r) ==
  /\ r \in Cancellable /\ Unfinished(r)
  /\ cancelling[r] = "idle" /\ fin[r]["cancel"].at = "idle"
  /\ cancelling' = [cancelling EXCEPT ![r] = status[r]]
  /\ UNCHANGED <<row, files, fin, upload, reaping, stream, batch, runner, faults>>

\* RequestRunCancel; a run that was pending when it was read is finished here.
cancelRequest(r) ==
  /\ cancelling[r] # "idle"
  /\ cancelRequested' = [cancelRequested EXCEPT ![r] = TRUE]
  /\ cancelling' = [cancelling EXCEPT ![r] = "idle"]
  /\ IF cancelling[r] = "pending" THEN FinishRun("cancel", r, "error")
                                  ELSE UNCHANGED fin
  /\ UNCHANGED <<status, dataBytes, age, files, upload, reaping, stream, batch,
                 runner, faults>>

-----------------------------------------------------------------------------
(* The reaper.                                                             *)

\* (slip) No allowance for a report on its way.
runDeadlineNoGrace(r) == IF Timeout[r] = 0 THEN DefaultTimeout ELSE Timeout[r]

\* runDeadline: how old an unfinished run may get.
runDeadline(r) == (IF Timeout[r] = 0 THEN DefaultTimeout ELSE Timeout[r]) + Grace

\* (slip) Only the runs that have started are looked at.
OverdueRunning(r) == status[r] = "running" /\ age[r] >= runDeadline(r)

Overdue(r) == Unfinished(r) /\ age[r] >= runDeadline(r)

\* UnfinishedRuns is read once; the deadlines are those of that reading.
reapSnapshot ==
  /\ reaping = {} /\ \A r \in Run : fin[r]["reaper"].at = "idle"
  /\ reaping' = {r \in Run : Overdue(r)}
  /\ UNCHANGED <<row, files, fin, upload, cancelling, stream, batch, runner, faults>>

reapNext(r) ==
  /\ IsFirst(r, reaping) /\ \A q \in Run : fin[q]["reaper"].at = "idle"
  /\ FinishRun("reaper", r, "error")
  /\ reaping' = reaping \ {r}
  /\ UNCHANGED <<row, files, upload, cancelling, stream, batch, runner, faults>>

-----------------------------------------------------------------------------
(* The payload upload: handleUploadRunData.                                *)

\* An upload that fails by itself is told apart from one that was interrupted.
BrokenSend(r) == IF sent[r] # "open" THEN sent[r]
                 ELSE IF ctx[r] = "live" THEN "broke" ELSE "err"

\* The row is read; a finished run gets 409.
uploadAdmit(r) ==
  /\ upload[r] = "asked"
  /\ IF status[r] \in Terminal
     THEN /\ upload' = [upload EXCEPT ![r] = "idle"]
          /\ sent' = [sent EXCEPT ![r] = BrokenSend(r)]
     ELSE /\ upload' = [upload EXCEPT ![r] = "admitted"]
          /\ UNCHANGED sent
  /\ UNCHANGED <<row, files, fin, cancelling, reaping, stream, batch, queue, job,
                 proc, ctx, ran, faults>>

\* CreateData: O_CREATE | O_TRUNC.
uploadCreate(r) ==
  /\ upload[r] = "admitted"
  /\ upload' = [upload EXCEPT ![r] = "writing"]
  /\ part' = [part EXCEPT ![r] = "writing"]
  /\ UNCHANGED <<row, bin, fin, cancelling, reaping, stream, batch, runner, faults>>

\* copyPayload refreshes data_bytes while it copies.
uploadProgress(r) ==
  /\ upload[r] = "writing"
  /\ dataBytes' = [dataBytes EXCEPT ![r] = TRUE]
  /\ UNCHANGED <<status, cancelRequested, age, files, server, stream, batch,
                 runner, faults>>

\* The body ended: the script closed its stdout.  A file unlinked meanwhile
\* stays unlinked, and the copy does not notice.
uploadCopied(r) ==
  /\ upload[r] = "writing" /\ sent[r] = "open" /\ proc[r] \in {"ok", "bad"}
  /\ upload' = [upload EXCEPT ![r] = "copied"]
  /\ part' = [part EXCEPT ![r] = IF part[r] = "none" THEN "none"
                                 ELSE IF proc[r] = "ok" THEN "fresh" ELSE "cut"]
  /\ UNCHANGED <<row, bin, fin, cancelling, reaping, stream, batch, runner, faults>>

\* (slip) The upload is acknowledged out of the page cache.
uploadNoSync(r) ==
  /\ upload[r] = "copied"
  /\ upload' = [upload EXCEPT ![r] = "synced"]
  /\ UNCHANGED <<row, files, fin, cancelling, reaping, stream, batch, runner, faults>>

uploadSync(r) ==
  /\ upload[r] = "copied"
  /\ upload' = [upload EXCEPT ![r] = "synced"]
  /\ part' = [part EXCEPT ![r] = IF part[r] = "fresh" THEN "whole" ELSE part[r]]
  /\ UNCHANGED <<row, bin, fin, cancelling, reaping, stream, batch, runner, faults>>

\* SetRunDataBytes(total), then the answer the runner is waiting for.
uploadStored(r) ==
  /\ upload[r] = "synced"
  /\ dataBytes' = [dataBytes EXCEPT ![r] = TRUE]
  /\ upload' = [upload EXCEPT ![r] = "idle"]
  /\ sent' = [sent EXCEPT ![r] = IF sent[r] = "open" THEN "ok" ELSE sent[r]]
  /\ UNCHANGED <<status, cancelRequested, age, files, fin, cancelling, reaping,
                 stream, batch, queue, job, proc, ctx, ran, faults>>

\* The body broke off, or the disk refused a write or the fsync.
uploadFailed(r) ==
  /\ upload[r] \in {"writing", "copied"}
  /\ upload' = [upload EXCEPT ![r] = "failed"]
  /\ part' = [part EXCEPT ![r] = IF part[r] = "none" THEN "none" ELSE "cut"]
  /\ UNCHANGED <<row, bin, fin, cancelling, reaping, stream, batch, runner, faults>>

uploadDiscard(r) ==
  /\ upload[r] = "failed"
  /\ discardData(r)
  /\ upload' = [upload EXCEPT ![r] = "dropped"]
  /\ UNCHANGED <<row, fin, cancelling, reaping, stream, batch, runner, faults>>

\* SetRunDataBytes(0), then the error answer.
uploadForget(r) ==
  /\ upload[r] = "dropped"
  /\ dataBytes' = [dataBytes EXCEPT ![r] = FALSE]
  /\ upload' = [upload EXCEPT ![r] = "idle"]
  /\ sent' = [sent EXCEPT ![r] = BrokenSend(r)]
  /\ UNCHANGED <<status, cancelRequested, age, files, fin, cancelling, reaping,
                 stream, batch, queue, job, proc, ctx, ran, faults>>

-----------------------------------------------------------------------------
(* The runner: Tick executes the batch in order, one job at a time.        *)

\* The dispatch to look at next, if the one before it is over.
CanStart(r) == IsFirst(r, queue) /\ job[r] = "queued"

\* runDispatch and Execute up to cmd.Start: "started" is the first update, and
\* the upload of a streaming job is a request of its own.
runStarts(r) ==
  /\ CanStart(r)
  /\ job' = [job EXCEPT ![r] = "exec"]
  /\ proc' = [proc EXCEPT ![r] = "alive"]
  /\ connected' = [connected EXCEPT ![r] = TRUE]
  /\ startedMsg' = [startedMsg EXCEPT ![r] = TRUE]
  /\ sent' = [sent EXCEPT ![r] = IF r \in Streaming THEN "open" ELSE "none"]
  /\ upload' = [upload EXCEPT ![r] = IF r \in Streaming THEN "asked" ELSE "idle"]
  /\ UNCHANGED <<row, files, fin, cancelling, reaping, finishedMsg, batch, queue,
                 ctx, ran, faults>>

\* A job that never gets as far as a process: refused for its signature (no
\* "started"), not prepared (after "started"), or dropped without a word
\* because the work directory cannot be made.
runRefused(r) ==
  /\ CanStart(r)
  /\ \/ /\ job' = [job EXCEPT ![r] = "closing"]
        /\ connected' = [connected EXCEPT ![r] = TRUE]
        /\ startedMsg' \in {startedMsg, [startedMsg EXCEPT ![r] = TRUE]}
        /\ finishedMsg' = [finishedMsg EXCEPT ![r] = "error"]
        /\ UNCHANGED queue
     \/ /\ job' = [job EXCEPT ![r] = "done"]
        /\ queue' = queue \ {r}
        /\ UNCHANGED stream
  /\ UNCHANGED <<row, files, server, batch, proc, sent, ctx, ran, faults>>

procExits(r) ==
  /\ proc[r] = "alive"
  /\ proc' \in {[proc EXCEPT ![r] = "ok"], [proc EXCEPT ![r] = "bad"]}
  /\ UNCHANGED <<row, files, server, stream, batch, queue, job, sent, ctx, ran, faults>>

\* watchForCancel has polled cancel_requested.
cancelSeen(r) ==
  /\ job[r] = "exec" /\ ctx[r] = "live" /\ cancelRequested[r]
  /\ ctx' = [ctx EXCEPT ![r] = "cancelled"]
  /\ UNCHANGED <<row, files, server, stream, batch, queue, job, proc, sent, ran, faults>>

\* context.WithTimeout, which a timeout of 0 does not get.
TimerDue(r) == job[r] = "exec" /\ ctx[r] = "live" /\ Timeout[r] > 0 /\ ran[r] >= Timeout[r]
timesOut(r) ==
  /\ TimerDue(r)
  /\ ctx' = [ctx EXCEPT ![r] = "expired"]
  /\ UNCHANGED <<row, files, server, stream, batch, queue, job, proc, sent, ran, faults>>

\* The context takes the upload request down with it.
uploadAborted(r) ==
  /\ sent[r] = "open" /\ ctx[r] # "live"
  /\ sent' = [sent EXCEPT ![r] = "err"]
  /\ UNCHANGED <<row, files, server, stream, batch, queue, job, proc, ctx, ran, faults>>

\* The switch at the end of Execute.  cmd.Wait returns the context's error for
\* a script that exits cleanly after it was signalled.
Verdict(r) ==
  CASE ctx[r] = "expired"   -> "error"
    [] ctx[r] # "expired" /\ sent[r] = "broke" -> "error"
    [] ctx[r] # "expired" /\ sent[r] # "broke" /\ proc[r] = "bad" -> "failed"
    [] ctx[r] = "cancelled" /\ sent[r] # "broke" /\ proc[r] = "ok" -> "error"
    [] ctx[r] = "live" /\ sent[r] # "broke" /\ proc[r] = "ok" -> "success"

\* (slip) The verdict does not wait for the answer to the upload.
runFinishesEarly(r) ==
  /\ job[r] = "exec" /\ proc[r] \in {"ok", "bad"}
  /\ job' = [job EXCEPT ![r] = "closing"]
  /\ finishedMsg' = [finishedMsg EXCEPT ![r] = IF connected[r] THEN Verdict(r) ELSE "none"]
  /\ UNCHANGED <<row, files, server, startedMsg, connected, batch, queue, proc,
                 sent, ctx, ran, faults>>

\* wg.Wait: stdout is drained and the upload has an answer before the verdict.
runFinishes(r) ==
  /\ job[r] = "exec" /\ proc[r] \in {"ok", "bad"} /\ sent[r] # "open"
  /\ job' = [job EXCEPT ![r] = "closing"]
  /\ finishedMsg' = [finishedMsg EXCEPT ![r] = IF connected[r] THEN Verdict(r) ELSE "none"]
  /\ UNCHANGED <<row, files, server, startedMsg, connected, batch, queue, proc,
                 sent, ctx, ran, faults>>

\* runDispatch returns when the stream request has, and Tick takes the next.
runReturns(r) ==
  /\ job[r] = "closing"
  /\ ~connected[r] \/ (~startedMsg[r] /\ finishedMsg[r] = "none" /\ fin[r]["stream"].at = "idle")
  /\ job' = [job EXCEPT ![r] = "done"]
  /\ queue' = queue \ {r}
  /\ connected' = [connected EXCEPT ![r] = FALSE]
  /\ UNCHANGED <<row, files, server, startedMsg, finishedMsg, batch, proc, sent,
                 ctx, ran, faults>>

-----------------------------------------------------------------------------
(* Time.  A dispatch reaches an idle runner, and a timer that is due       *)
(* fires, within less than a tick.                                         *)

tick ==
  /\ batch = {}
  /\ \A r \in Run : ~CanStart(r) /\ ~TimerDue(r)
  /\ age' = [r \in Run |-> IF Unfinished(r) /\ age[r] < runDeadline(r)
                           THEN age[r] + 1 ELSE age[r]]
  /\ ran' = [r \in Run |-> IF job[r] = "exec" /\ ran[r] < Timeout[r]
                           THEN ran[r] + 1 ELSE ran[r]]
  /\ UNCHANGED <<status, dataBytes, cancelRequested, files, server, stream, batch,
                 queue, job, proc, sent, ctx, faults>>
  /\ InTime => \A r \in Run : ~Overdue(r)'

-----------------------------------------------------------------------------
(* Faults.                                                                 *)

Loss == losses < MaxLosses /\ losses' = losses + 1 /\ UNCHANGED restarts

\* The host of the server loses power and the server comes back: the rows are
\* committed and stay, what was not synced of a file is cut short, every
\* request is gone.
AfterPowerLoss(f) == IF f \in {"writing", "fresh"} THEN "cut" ELSE f
serverRestarts ==
  /\ restarts < MaxRestarts /\ restarts' = restarts + 1
  /\ part' = [r \in Run |-> AfterPowerLoss(part[r])]
  /\ bin' = [r \in Run |-> AfterPowerLoss(bin[r])]
  /\ fin' = [r \in Run |-> [c \in Caller |-> NoCall]]
  /\ upload' = [r \in Run |-> "idle"]
  /\ cancelling' = [r \in Run |-> "idle"]
  /\ reaping' = {} /\ batch' = {}
  /\ startedMsg' = [r \in Run |-> FALSE]
  /\ finishedMsg' = [r \in Run |-> "none"]
  /\ connected' = [r \in Run |-> FALSE]
  /\ sent' = [r \in Run |-> BrokenSend(r)]
  /\ UNCHANGED <<row, queue, job, proc, ctx, ran, losses>>

\* The runner is killed with its jobs.  What it had sent may still arrive.
runnerRestarts ==
  /\ Loss
  /\ queue' = {} /\ batch' = {}
  /\ job' = [r \in Run |-> IF job[r] \in {"none", "done"} THEN job[r] ELSE "lost"]
  /\ proc' = [r \in Run |-> IF proc[r] = "alive" THEN "bad" ELSE proc[r]]
  /\ sent' = [r \in Run |-> IF sent[r] = "open" THEN "err" ELSE sent[r]]
  /\ connected' = [r \in Run |-> FALSE]
  /\ UNCHANGED <<row, files, server, startedMsg, finishedMsg, ctx, ran>>

\* The update stream breaks: the lines not yet read are lost from the end.
streamLost(r) ==
  /\ Loss
  /\ connected[r] \/ startedMsg[r] \/ finishedMsg[r] # "none"
  /\ connected' = [connected EXCEPT ![r] = FALSE]
  /\ finishedMsg' = [finishedMsg EXCEPT ![r] = "none"]
  /\ startedMsg' \in {startedMsg, [startedMsg EXCEPT ![r] = FALSE]}
  /\ UNCHANGED <<row, files, server, batch, runner>>

\* The upload's connection breaks, before or after the server has its end.
uploadLost(r) ==
  /\ Loss
  /\ sent[r] = "open"
  /\ sent' = [sent EXCEPT ![r] = BrokenSend(r)]
  /\ UNCHANGED <<row, files, server, stream, batch, queue, job, proc, ctx, ran>>

-----------------------------------------------------------------------------
FinStep(c, r) == finReadFlag(c, r) \/ finUpdateRow(c, r) \/ finFile(c, r)
StreamStep(r) == applyStarted(r) \/ applyFinished(r)
CancelStep(r) == cancelRead(r) \/ cancelRequest(r)
UploadStep(r) == \/ uploadAdmit(r) \/ uploadCreate(r) \/ uploadProgress(r)
                 \/ uploadCopied(r) \/ uploadSync(r) \/ uploadStored(r)
                 \/ uploadFailed(r) \/ uploadDiscard(r) \/ uploadForget(r)
RunnerStep(r) == \/ runStarts(r) \/ runRefused(r) \/ procExits(r) \/ cancelSeen(r)
                 \/ timesOut(r) \/ uploadAborted(r) \/ runFinishes(r) \/ runReturns(r)
FaultStep     == \/ serverRestarts \/ runnerRestarts
                 \/ \E r \in Run : streamLost(r) \/ uploadLost(r)

Next ==
  \/ checkinAnswered \/ reapSnapshot \/ tick
  \/ \E c \in Caller, r \in Run : FinStep(c, r)
  \/ \E r \in Run : buildDispatch(r) \/ reapNext(r)
  \/ \E r \in Run : StreamStep(r) \/ CancelStep(r) \/ UploadStep(r) \/ RunnerStep(r)
  \/ FaultStep

Spec == Init /\ [][Next]_vars

\* The reaper is driven by a ticker and its calls run to their end; an answer
\* on the wire arrives, an idle runner starts its next job, a timer fires.
\* Nothing is asked of a script, of an operator, or of the update stream.
Fairness ==
  /\ WF_vars(tick) /\ WF_vars(reapSnapshot)
  /\ \A r \in Run : /\ WF_vars(reapNext(r))
                    /\ WF_vars(FinStep("reaper", r))
                    /\ WF_vars(runStarts(r) \/ runRefused(r))
                    /\ WF_vars(timesOut(r))
  /\ WF_vars(checkinAnswered)

FairSpec == Spec /\ Fairness

-----------------------------------------------------------------------------
(* What must hold.  A definition marked (slip) above is no part of the      *)
(* model: it is the action as a plausible mistake would make it, kept to   *)
(* show that the property it names in PROJECT.json notices.                *)

\* A dump is offered only when it is all there: whatever is cut short by a
\* failing script, a broken connection, a cancellation or a power cut is
\* never found under the name data.bin.
NoCutDump == \A r \in Run : bin[r] \in {"none", "whole"}

\* A dump, once offered, stays: no late report, cancellation, reaper, second
\* verdict or restart takes data.bin away again or writes over it.
DumpStays == [][\A r \in Run : bin[r] = "whole" => bin'[r] = "whole"]_vars

\* The server never calls a run successful on its own: the script has exited
\* cleanly and, if its output is the backup, its upload was acknowledged.
Earned(r) == /\ proc[r] = "ok" /\ job[r] \in {"closing", "done", "lost"}
             /\ sent[r] = IF r \in Streaming THEN "ok" ELSE "none"
SuccessIsEarned == \A r \in Run : status[r] = "success" => Earned(r)

\* Nobody is still working on the run.
Settled(r) == upload[r] = "idle" /\ \A c \in Caller : fin[r][c].at = "idle"

\* The payload is promoted when the run succeeds and discarded otherwise, so
\* that "there is a data.bin" and "the run succeeded" cannot disagree.
DumpIffSuccess ==
  \A r \in Run : status[r] \in Terminal /\ Settled(r) =>
    /\ part[r] = "none"
    /\ bin[r] = IF status[r] = "success" /\ r \in Streaming THEN "whole" ELSE "none"

\* The reaper only writes down what already happened: it finishes no run that
\* its runner is executing inside its timeout, or has yet to get to.
Live(r) == job[r] = "queued" \/ (job[r] = "exec" /\ ctx[r] = "live")
ReaperSparesLive == \A r \in Run : fin[r]["reaper"].at # "idle" => ~Live(r)

\* Whatever becomes of its runner, every run the server created ends, and for
\* good: a run does not sit there as if it were still working.
EndsForGood ==
  \A r \in Run : (status[r] # "none") ~> [](status[r] \in Terminal)

\* What the run is to the outside: open until both effects of its verdict are
\* there, the row and the file.
outcome == [r \in Run |->
  IF status[r] = "none" THEN "absent"
  ELSE IF status[r] \in Terminal /\ fin[r]["stream"].at # "file" THEN status[r]
  ELSE "open"]
Promise == INSTANCE Backup WITH Verdicts <- Terminal, outcome <- outcome,
                                dumps <- {r \in Run : bin[r] = "whole"}

\* As long as runners report in time, no operator interferes and the server
\* stays up, the handlers together do what Backup promises: one verdict per
\* run, and with it, in one step, the dump.
ImplementsBackup == Promise!Spec
=============================================================================
