------------------------- MODULE RunLifecycleProofs -------------------------
(***************************************************************************)
(* For any number of runs, any timeouts, any batch size and any number of  *)
(* faults: the type invariant, SuccessIsEarned, NoCutDump and DumpStays.   *)
(*                                                                         *)
(* The argument follows the payload.  A "success" travels from the switch  *)
(* at the end of Execute through the update stream to FinishRun, and at    *)
(* every stage of that journey the run is Earned: its script exited        *)
(* cleanly and its upload was acknowledged.  An acknowledged upload has    *)
(* been synced, so what commitData renames is whole or not there.          *)
(*                                                                         *)
(* Under the conditions named Undisturbed: DumpIffSuccess, and that the    *)
(* handlers together implement Backup.  Under OneAtATime: that the reaper  *)
(* ends no live run.                                                       *)
(***************************************************************************)
EXTENDS RunLifecycle, FiniteSetTheorems, TLAPS

\* The verdict "success", wherever it is on its way, was earned.
VerdictInv(r) ==
  /\ status[r] = "success" => Earned(r)
  /\ finishedMsg[r] = "success" => Earned(r)
  /\ \A c \in Caller : fin[r][c].at # "idle" /\ fin[r][c].as = "success" => Earned(r)

\* What the upload handler's place says about the file and the script.
UploadInv(r) ==
  /\ upload[r] # "idle" => sent[r] \in {"open", "err", "broke"}
  /\ upload[r] \in {"copied", "synced"} \/ sent[r] = "ok" => proc[r] \in {"ok", "bad"}
  /\ upload[r] = "copied" /\ proc[r] = "ok" => part[r] \in {"none", "fresh"}
  /\ upload[r] = "synced" /\ proc[r] = "ok" => part[r] \in {"none", "whole"}
  /\ sent[r] = "ok" /\ proc[r] = "ok" => part[r] \in {"none", "whole"}
  /\ r \notin Streaming => upload[r] = "idle" /\ part[r] = "none" /\ sent[r] = "none"

\* The stages of a job, and what its upload can be in each.
JobInv(r) ==
  /\ status[r] = "none" => job[r] = "none" /\ r \notin batch
  /\ r \in batch => job[r] = "none"
  /\ sent[r] = "open" => job[r] = "exec"
  /\ job[r] = "exec" /\ r \in Streaming => sent[r] # "none"
  /\ job[r] = "exec" /\ sent[r] = "err" => ctx[r] # "live"
  /\ job[r] \in {"none", "queued"} => proc[r] = "idle" /\ upload[r] = "idle" /\ sent[r] = "none"

DumpInv(r) == bin[r] \in {"none", "whole"}

RunInv(r) == VerdictInv(r) /\ UploadInv(r) /\ JobInv(r) /\ DumpInv(r)

IInv == TypeOK /\ \A r \in Run : RunInv(r)

USE DEF Run

-----------------------------------------------------------------------------
(* Type correctness.                                                       *)

LEMMA InitType == Init => TypeOK
  BY ConstantsOK DEF Init, TypeOK, Status, Terminal, Outcome, File, FinCall, NoCall, Caller

\* Every caller of FinishRun leaves a well-formed call behind.
LEMMA FinishRunType ==
  ASSUME fin \in [Run -> [Caller -> FinCall]],
         NEW c \in Caller, NEW r \in Run, NEW o \in Outcome, FinishRun(c, r, o)
  PROVE  fin' \in [Run -> [Caller -> FinCall]]
  BY DEF FinishRun, FinCall, Outcome, Terminal

LEMMA FinStepType ==
  ASSUME TypeOK, NEW c \in Caller, NEW r \in Run, FinStep(c, r)
  PROVE  TypeOK'
<1>0. <<c, r>> \in Caller \X Run
  OBVIOUS
<1>1. CASE finReadFlag(c, r)
  <2>1. fin[r][c].as \in Terminal
    BY <1>0 DEF TypeOK, FinCall
  <2>2. fin' \in [Run -> [Caller -> FinCall]]
    BY <1>0, <1>1, <2>1 DEF finReadFlag, TypeOK, FinCall, Terminal
  <2> QED BY <1>1, <2>2 DEF finReadFlag, TypeOK, row, files, stream, runner, faults
<1>2. CASE finUpdateRow(c, r)
  <2>1. fin[r][c] \in FinCall
    BY <1>0 DEF TypeOK
  <2>2. fin' \in [Run -> [Caller -> FinCall]]
    BY <1>0, <1>2, <2>1 DEF finUpdateRow, TypeOK, FinCall
  <2>3. status' \in [Run -> Status]
    BY <1>2, <2>1 DEF finUpdateRow, TypeOK, FinCall, Status
  <2> QED BY <1>2, <2>2, <2>3 DEF finUpdateRow, TypeOK, files, stream, runner, faults
<1>3. CASE finFile(c, r)
  <2>1. fin' \in [Run -> [Caller -> FinCall]]
    BY <1>0, <1>3 DEF finFile, TypeOK, FinCall, NoCall, Terminal, Outcome
  <2>2. part' \in [Run -> File] /\ bin' \in [Run -> File]
    BY <1>3 DEF finFile, commitData, discardData, TypeOK, File
  <2> QED BY <1>3, <2>1, <2>2 DEF finFile, TypeOK, row, stream, runner, faults
<1> QED BY <1>1, <1>2, <1>3 DEF FinStep

LEMMA StreamStepType ==
  ASSUME TypeOK, NEW r \in Run, StreamStep(r)
  PROVE  TypeOK'
<1>1. CASE applyStarted(r)
  BY <1>1 DEF applyStarted, TypeOK, Status, files, server, runner, faults
<1>2. CASE applyFinished(r)
  <2>1. finishedMsg[r] \in Outcome
    BY <1>2 DEF applyFinished, TypeOK
  <2>2. fin' \in [Run -> [Caller -> FinCall]]
    BY <1>2, <2>1, FinishRunType DEF applyFinished, TypeOK, Caller
  <2>3. finishedMsg' \in [Run -> Outcome \cup {"none"}]
    BY <1>2 DEF applyFinished, TypeOK
  <2> QED BY <1>2, <2>2, <2>3 DEF applyFinished, TypeOK, row, files, runner, faults
<1> QED BY <1>1, <1>2 DEF StreamStep

LEMMA CancelStepType ==
  ASSUME TypeOK, NEW r \in Run, CancelStep(r)
  PROVE  TypeOK'
<1>1. CASE cancelRead(r)
  BY <1>1 DEF cancelRead, Unfinished, TypeOK, row, files, stream, runner, faults
<1>2. CASE cancelRequest(r)
  <2>1. fin' \in [Run -> [Caller -> FinCall]]
    BY <1>2, FinishRunType DEF cancelRequest, TypeOK, Caller, Outcome
  <2> QED BY <1>2, <2>1 DEF cancelRequest, TypeOK, files, stream, runner, faults
<1> QED BY <1>1, <1>2 DEF CancelStep

LEMMA ReaperType ==
  ASSUME TypeOK, reapSnapshot \/ \E r \in Run : reapNext(r)
  PROVE  TypeOK'
<1>1. CASE reapSnapshot
  BY <1>1 DEF reapSnapshot, TypeOK, row, files, stream, runner, faults
<1>2. CASE \E r \in Run : reapNext(r)
  <2>1. PICK r \in Run : reapNext(r)
    BY <1>2
  <2>2. fin' \in [Run -> [Caller -> FinCall]]
    BY <2>1, FinishRunType DEF reapNext, TypeOK, Caller, Outcome
  <2> QED BY <2>1, <2>2 DEF reapNext, TypeOK, row, files, stream, runner, faults
<1> QED BY <1>1, <1>2

LEMMA BrokenSendType ==
  ASSUME TypeOK, NEW r \in Run
  PROVE  BrokenSend(r) \in {"none", "ok", "err", "broke"}
  BY DEF BrokenSend, TypeOK

LEMMA UploadStepType ==
  ASSUME TypeOK, NEW r \in Run, UploadStep(r)
  PROVE  TypeOK'
<1>0. BrokenSend(r) \in {"none", "open", "ok", "err", "broke"}
  BY BrokenSendType
<1>1. CASE uploadAdmit(r)
  BY <1>0, <1>1 DEF uploadAdmit, TypeOK, row, files, stream, faults
<1>2. CASE uploadCreate(r)
  BY <1>2 DEF uploadCreate, TypeOK, File, row, stream, runner, faults
<1>3. CASE uploadProgress(r)
  BY <1>3 DEF uploadProgress, TypeOK, files, server, stream, runner, faults
<1>4. CASE uploadCopied(r)
  BY <1>4 DEF uploadCopied, TypeOK, File, row, stream, runner, faults
<1>5. CASE uploadSync(r)
  BY <1>5 DEF uploadSync, TypeOK, File, row, stream, runner, faults
<1>6. CASE uploadStored(r)
  BY <1>6 DEF uploadStored, TypeOK, files, stream, faults
<1>7. CASE uploadFailed(r)
  BY <1>7 DEF uploadFailed, TypeOK, File, row, stream, runner, faults
<1>8. CASE uploadDiscard(r)
  BY <1>8 DEF uploadDiscard, discardData, TypeOK, File, row, stream, runner, faults
<1>9. CASE uploadForget(r)
  BY <1>0, <1>9 DEF uploadForget, TypeOK, files, stream, faults
<1> QED BY <1>1, <1>2, <1>3, <1>4, <1>5, <1>6, <1>7, <1>8, <1>9 DEF UploadStep

LEMMA RunnerStepType ==
  ASSUME TypeOK, NEW r \in Run, RunnerStep(r)
  PROVE  TypeOK'
<1>1. CASE runStarts(r)
  BY <1>1 DEF runStarts, TypeOK, row, files, faults
<1>2. CASE runRefused(r)
  <2>0. /\ job' = [job EXCEPT ![r] = "closing"] \/ job' = [job EXCEPT ![r] = "done"]
        /\ queue' = queue \/ queue' = queue \ {r}
    BY <1>2, Zenon DEF runRefused
  <2>1. /\ job' \in [Run -> {"none", "queued", "exec", "closing", "done", "lost"}]
        /\ queue' \in SUBSET Run
    BY <2>0 DEF TypeOK
  <2>2. \/ /\ startedMsg' = startedMsg \/ startedMsg' = [startedMsg EXCEPT ![r] = TRUE]
           /\ connected' = [connected EXCEPT ![r] = TRUE]
           /\ finishedMsg' = [finishedMsg EXCEPT ![r] = "error"]
        \/ UNCHANGED <<startedMsg, connected, finishedMsg>>
    BY <1>2 DEF runRefused, stream
  <2>3. connected' \in [Run -> BOOLEAN] /\ startedMsg' \in [Run -> BOOLEAN]
    BY <2>2 DEF TypeOK
  <2>4. finishedMsg' \in [Run -> Outcome \cup {"none"}]
    BY <2>2 DEF TypeOK, Outcome
  <2> QED BY <1>2, <2>1, <2>3, <2>4 DEF runRefused, TypeOK, row, files, server, faults
<1>3. CASE procExits(r)
  BY <1>3 DEF procExits, TypeOK, row, files, server, stream, faults
<1>4. CASE cancelSeen(r)
  BY <1>4 DEF cancelSeen, TypeOK, row, files, server, stream, faults
<1>5. CASE timesOut(r)
  BY <1>5 DEF timesOut, TypeOK, row, files, server, stream, faults
<1>6. CASE uploadAborted(r)
  BY <1>6 DEF uploadAborted, TypeOK, row, files, server, stream, faults
<1>7. CASE runFinishes(r)
  <2>1. Verdict(r) \in Outcome
    BY <1>7 DEF runFinishes, Verdict, Outcome, TypeOK
  <2>2. finishedMsg' \in [Run -> Outcome \cup {"none"}]
    BY <1>7, <2>1 DEF runFinishes, TypeOK
  <2> QED BY <1>7, <2>2 DEF runFinishes, TypeOK, row, files, server, faults
<1>8. CASE runReturns(r)
  BY <1>8 DEF runReturns, TypeOK, row, files, server, faults
<1> QED BY <1>1, <1>2, <1>3, <1>4, <1>5, <1>6, <1>7, <1>8 DEF RunnerStep

LEMMA FaultStepType ==
  ASSUME TypeOK, FaultStep
  PROVE  TypeOK'
<1>1. CASE serverRestarts
  <2>1. \A f \in File : AfterPowerLoss(f) \in File
    BY DEF AfterPowerLoss, File
  <2>2. part' \in [Run -> File] /\ bin' \in [Run -> File]
    BY <1>1, <2>1 DEF serverRestarts, TypeOK
  <2>3. fin' \in [Run -> [Caller -> FinCall]]
    BY <1>1 DEF serverRestarts, NoCall, FinCall, Terminal, Outcome
  <2>4. sent' \in [Run -> {"none", "open", "ok", "err", "broke"}]
    BY <1>1, BrokenSendType DEF serverRestarts
  <2>5. restarts' \in 0..MaxRestarts
    BY <1>1, ConstantsOK DEF serverRestarts, TypeOK
  <2> QED BY <1>1, <2>2, <2>3, <2>4, <2>5 DEF serverRestarts, TypeOK, row
<1>2. CASE runnerRestarts
  <2>1. restarts' \in 0..MaxRestarts /\ losses' \in 0..MaxLosses
    BY <1>2, ConstantsOK DEF runnerRestarts, Loss, TypeOK
  <2> QED BY <1>2, <2>1 DEF runnerRestarts, TypeOK, row, files, server
<1>3. CASE \E r \in Run : streamLost(r)
  <2>1. PICK r \in Run : streamLost(r)
    BY <1>3
  <2>2. restarts' \in 0..MaxRestarts /\ losses' \in 0..MaxLosses
    BY <2>1, ConstantsOK DEF streamLost, Loss, TypeOK
  <2> QED BY <2>1, <2>2 DEF streamLost, TypeOK, row, files, server, runner
<1>4. CASE \E r \in Run : uploadLost(r)
  <2>1. PICK r \in Run : uploadLost(r)
    BY <1>4
  <2>2. restarts' \in 0..MaxRestarts /\ losses' \in 0..MaxLosses
    BY <2>1, ConstantsOK DEF uploadLost, Loss, TypeOK
  <2>3. BrokenSend(r) \in {"none", "open", "ok", "err", "broke"}
    BY BrokenSendType
  <2> QED BY <2>1, <2>2, <2>3 DEF uploadLost, TypeOK, row, files, server, stream
<1> QED BY <1>1, <1>2, <1>3, <1>4 DEF FaultStep

LEMMA CheckinType ==
  ASSUME TypeOK, checkinAnswered \/ \E r \in Run : buildDispatch(r)
  PROVE  TypeOK'
<1>1. CASE checkinAnswered
  BY <1>1 DEF checkinAnswered, TypeOK, row, files, server, stream, faults
<1>2. CASE \E r \in Run : buildDispatch(r)
  <2>1. PICK r \in Run : buildDispatch(r)
    BY <1>2
  <2> QED BY <2>1 DEF buildDispatch, TypeOK, Status, files, server, stream, runner, faults
<1> QED BY <1>1, <1>2

LEMMA TickType ==
  ASSUME TypeOK, tick
  PROVE  TypeOK'
<1>1. age' \in [Run -> Nat] /\ ran' \in [Run -> Nat]
  BY DEF tick, TypeOK
<1> QED BY <1>1 DEF tick, TypeOK, files, server, stream, faults

LEMMA NextType == TypeOK /\ [Next]_vars => TypeOK'
<1> SUFFICES ASSUME TypeOK, [Next]_vars
             PROVE  TypeOK'
  OBVIOUS
<1>1. CASE checkinAnswered \/ \E r \in Run : buildDispatch(r)
  BY <1>1, CheckinType
<1>2. CASE reapSnapshot \/ \E r \in Run : reapNext(r)
  BY <1>2, ReaperType
<1>3. CASE tick
  BY <1>3, TickType
<1>4. CASE \E c \in Caller, r \in Run : FinStep(c, r)
  BY <1>4, FinStepType
<1>5. CASE \E r \in Run : StreamStep(r) \/ CancelStep(r) \/ UploadStep(r) \/ RunnerStep(r)
  BY <1>5, StreamStepType, CancelStepType, UploadStepType, RunnerStepType
<1>6. CASE FaultStep
  BY <1>6, FaultStepType
<1>7. CASE UNCHANGED vars
  BY <1>7 DEF TypeOK, vars, row, files, server, stream, runner, faults
<1> QED BY <1>1, <1>2, <1>3, <1>4, <1>5, <1>6, <1>7 DEF Next

\* Every variable keeps its type: the handlers, the runner and the faults only
\* ever leave a status, a stage or a file state of the program behind.
THEOREM TypeCorrect == Spec => []TypeOK
<1>1. Init => TypeOK
  BY InitType
<1>2. TypeOK /\ [Next]_vars => TypeOK'
  BY NextType
<1> QED BY <1>1, <1>2, PTL DEF Spec

-----------------------------------------------------------------------------
(* The inductive invariant.                                                *)

USE DEF RunInv, VerdictInv, UploadInv, JobInv, DumpInv, Earned

LEMMA InitInv == Init => IInv
<1> SUFFICES ASSUME Init, NEW r \in Run
             PROVE  RunInv(r)
  BY InitType DEF IInv
<1> QED BY DEF Init, NoCall, Caller

LEMMA FinStepInv ==
  ASSUME IInv, TypeOK', NEW c \in Caller, NEW r \in Run, FinStep(c, r), NEW q \in Run
  PROVE  RunInv(q)'
<1>0. TypeOK /\ RunInv(q) /\ RunInv(r)
  BY DEF IInv
<1>1. CASE finReadFlag(c, r)
  BY <1>0, <1>1 DEF finReadFlag, TypeOK, row, files, stream, runner
<1>2. CASE finUpdateRow(c, r)
  <2>1. fin[r][c].as \in Terminal /\ fin[r][c] \in FinCall
    BY <1>0 DEF TypeOK, FinCall
  <2>2. \A d \in Caller : /\ fin'[q][d].as = fin[q][d].as
                          /\ fin'[q][d].at # "idle" => fin[q][d].at # "idle"
    BY <1>0, <1>2, <2>1 DEF finUpdateRow, TypeOK, FinCall
  <2>3. VerdictInv(q)'
    BY <1>0, <1>2, <2>2 DEF finUpdateRow, TypeOK, files, stream, runner
  <2>4. (UploadInv(q) /\ JobInv(q) /\ DumpInv(q))'
    BY <1>0, <1>2, <2>1 DEF finUpdateRow, TypeOK, Terminal, Outcome, files, stream, runner
  <2> QED BY <2>3, <2>4
<1>3. CASE finFile(c, r)
  BY <1>0, <1>3 DEF finFile, commitData, discardData, NoCall, TypeOK, row, stream, runner
<1> QED BY <1>1, <1>2, <1>3 DEF FinStep

LEMMA StreamStepInv ==
  ASSUME IInv, TypeOK', NEW r \in Run, StreamStep(r), NEW q \in Run
  PROVE  RunInv(q)'
<1>0. TypeOK /\ RunInv(q) /\ RunInv(r)
  BY DEF IInv
<1>1. CASE applyStarted(r)
  BY <1>0, <1>1 DEF applyStarted, TypeOK, files, server, runner
<1>2. CASE applyFinished(r)
  BY <1>0, <1>2 DEF applyFinished, FinishRun, TypeOK, row, files, runner
<1> QED BY <1>1, <1>2 DEF StreamStep

LEMMA CancelStepInv ==
  ASSUME IInv, TypeOK', NEW r \in Run, CancelStep(r), NEW q \in Run
  PROVE  RunInv(q)'
<1>0. TypeOK /\ RunInv(q) /\ RunInv(r)
  BY DEF IInv
<1>1. CASE cancelRead(r)
  BY <1>0, <1>1 DEF cancelRead, TypeOK, row, files, stream, runner
<1>2. CASE cancelRequest(r)
  BY <1>0, <1>2 DEF cancelRequest, FinishRun, TypeOK, files, stream, runner
<1> QED BY <1>1, <1>2 DEF CancelStep

LEMMA ReaperInv ==
  ASSUME IInv, TypeOK', reapSnapshot \/ \E r \in Run : reapNext(r), NEW q \in Run
  PROVE  RunInv(q)'
<1>0. TypeOK /\ RunInv(q)
  BY DEF IInv
<1>1. CASE reapSnapshot
  BY <1>0, <1>1 DEF reapSnapshot, TypeOK, row, files, stream, runner
<1>2. CASE \E r \in Run : reapNext(r)
  BY <1>0, <1>2 DEF reapNext, FinishRun, TypeOK, row, files, stream, runner
<1> QED BY <1>1, <1>2

LEMMA UploadStepInv ==
  ASSUME IInv, TypeOK', NEW r \in Run, UploadStep(r), NEW q \in Run
  PROVE  RunInv(q)'
<1>0. TypeOK /\ RunInv(q) /\ RunInv(r)
  BY DEF IInv
<1>1. CASE uploadAdmit(r)
  BY <1>0, <1>1 DEF uploadAdmit, BrokenSend, TypeOK, row, files, stream
<1>2. CASE uploadCreate(r)
  BY <1>0, <1>2 DEF uploadCreate, TypeOK, row, stream, runner
<1>3. CASE uploadProgress(r)
  BY <1>0, <1>3 DEF uploadProgress, TypeOK, files, server, stream, runner
<1>4. CASE uploadCopied(r)
  BY <1>0, <1>4 DEF uploadCopied, TypeOK, row, stream, runner
<1>5. CASE uploadSync(r)
  BY <1>0, <1>5 DEF uploadSync, TypeOK, row, stream, runner
<1>6. CASE uploadStored(r)
  BY <1>0, <1>6 DEF uploadStored, TypeOK, files, stream
<1>7. CASE uploadFailed(r)
  BY <1>0, <1>7 DEF uploadFailed, TypeOK, row, stream, runner
<1>8. CASE uploadDiscard(r)
  BY <1>0, <1>8 DEF uploadDiscard, discardData, TypeOK, row, stream, runner
<1>9. CASE uploadForget(r)
  BY <1>0, <1>9 DEF uploadForget, BrokenSend, TypeOK, files, stream
<1> QED BY <1>1, <1>2, <1>3, <1>4, <1>5, <1>6, <1>7, <1>8, <1>9 DEF UploadStep

LEMMA RunnerStepInv ==
  ASSUME IInv, TypeOK', NEW r \in Run, RunnerStep(r), NEW q \in Run
  PROVE  RunInv(q)'
<1>0. TypeOK /\ RunInv(q) /\ RunInv(r)
  BY DEF IInv
<1>1. CASE runStarts(r)
  BY <1>0, <1>1 DEF runStarts, CanStart, TypeOK, row, files
<1>2. CASE runRefused(r)
  BY <1>0, <1>2 DEF runRefused, CanStart, TypeOK, row, files, server, stream
<1>3. CASE procExits(r)
  BY <1>0, <1>3 DEF procExits, TypeOK, row, files, server, stream
<1>4. CASE cancelSeen(r)
  BY <1>0, <1>4 DEF cancelSeen, TypeOK, row, files, server, stream
<1>5. CASE timesOut(r)
  BY <1>0, <1>5 DEF timesOut, TypeOK, row, files, server, stream
<1>6. CASE uploadAborted(r)
  BY <1>0, <1>6 DEF uploadAborted, TypeOK, row, files, server, stream
<1>7. CASE runFinishes(r)
  BY <1>0, <1>7 DEF runFinishes, Verdict, TypeOK, row, files, server
<1>8. CASE runReturns(r)
  BY <1>0, <1>8 DEF runReturns, TypeOK, row, files, server
<1> QED BY <1>1, <1>2, <1>3, <1>4, <1>5, <1>6, <1>7, <1>8 DEF RunnerStep

LEMMA FaultStepInv ==
  ASSUME IInv, TypeOK', FaultStep, NEW q \in Run
  PROVE  RunInv(q)'
<1>0. TypeOK /\ RunInv(q)
  BY DEF IInv
<1>1. CASE serverRestarts
  BY <1>0, <1>1 DEF serverRestarts, AfterPowerLoss, BrokenSend, NoCall, TypeOK, row
<1>2. CASE runnerRestarts
  BY <1>0, <1>2 DEF runnerRestarts, TypeOK, row, files, server
<1>3. CASE \E r \in Run : streamLost(r)
  BY <1>0, <1>3 DEF streamLost, TypeOK, row, files, server, runner
<1>4. CASE \E r \in Run : uploadLost(r)
  BY <1>0, <1>4 DEF uploadLost, BrokenSend, TypeOK, row, files, server, stream
<1> QED BY <1>1, <1>2, <1>3, <1>4 DEF FaultStep

LEMMA CheckinInv ==
  ASSUME IInv, TypeOK', checkinAnswered \/ \E r \in Run : buildDispatch(r), NEW q \in Run
  PROVE  RunInv(q)'
<1>0. TypeOK /\ RunInv(q)
  BY DEF IInv
<1>1. CASE checkinAnswered
  BY <1>0, <1>1 DEF checkinAnswered, TypeOK, row, files, server, stream
<1>2. CASE \E r \in Run : buildDispatch(r)
  BY <1>0, <1>2 DEF buildDispatch, IsFirst, Unused, TypeOK, files, server, stream, runner
<1> QED BY <1>1, <1>2

LEMMA TickInv ==
  ASSUME IInv, TypeOK', tick, NEW q \in Run
  PROVE  RunInv(q)'
<1>0. TypeOK /\ RunInv(q)
  BY DEF IInv
<1> QED BY <1>0 DEF tick, TypeOK, files, server, stream

LEMMA NextInv == IInv /\ [Next]_vars => IInv'
<1> SUFFICES ASSUME IInv, [Next]_vars
             PROVE  IInv'
  OBVIOUS
<1>0. TypeOK'
  BY NextType DEF IInv
<1> SUFFICES ASSUME NEW q \in Run
             PROVE  RunInv(q)'
  BY <1>0 DEF IInv
<1>1. CASE checkinAnswered \/ \E r \in Run : buildDispatch(r)
  BY <1>0, <1>1, CheckinInv
<1>2. CASE reapSnapshot \/ \E r \in Run : reapNext(r)
  BY <1>0, <1>2, ReaperInv
<1>3. CASE tick
  BY <1>0, <1>3, TickInv
<1>4. CASE \E c \in Caller, r \in Run : FinStep(c, r)
  BY <1>0, <1>4, FinStepInv
<1>5. CASE \E r \in Run : StreamStep(r) \/ CancelStep(r) \/ UploadStep(r) \/ RunnerStep(r)
  BY <1>0, <1>5, StreamStepInv, CancelStepInv, UploadStepInv, RunnerStepInv
<1>6. CASE FaultStep
  BY <1>0, <1>6, FaultStepInv
<1>7. CASE UNCHANGED vars
  BY <1>7 DEF IInv, vars, row, files, server, stream, runner
<1> QED BY <1>1, <1>2, <1>3, <1>4, <1>5, <1>6, <1>7 DEF Next

LEMMA Invariance == Spec => []IInv
<1>1. Init => IInv
  BY InitInv
<1>2. IInv /\ [Next]_vars => IInv'
  BY NextInv
<1> QED BY <1>1, <1>2, PTL DEF Spec

-----------------------------------------------------------------------------
(* What the invariant gives.                                               *)

\* The server never calls a run successful that did not exit cleanly with its
\* upload acknowledged, whatever was lost, restarted, cancelled or reaped.
THEOREM SuccessEarned == Spec => []SuccessIsEarned
<1>1. IInv => SuccessIsEarned
  BY DEF IInv, SuccessIsEarned
<1> QED BY <1>1, Invariance, PTL

\* No payload that was cut short is ever found under the name data.bin.
THEOREM NoCutDumpOffered == Spec => []NoCutDump
<1>1. IInv => NoCutDump
  BY DEF IInv, NoCutDump
<1> QED BY <1>1, Invariance, PTL

\* A dump, once offered, is neither taken away nor written over.
THEOREM DumpsStay == Spec => DumpStays
<1>1. IInv /\ [Next]_vars => [\A r \in Run : bin[r] = "whole" => bin'[r] = "whole"]_vars
  <2> SUFFICES ASSUME IInv, Next, NEW r \in Run, bin[r] = "whole"
               PROVE  bin'[r] = "whole"
    OBVIOUS
  <2>1. CASE bin' = bin
    BY <2>1
  <2>2. CASE \E c \in Caller, q \in Run : finFile(c, q)
    <3>1. PICK c \in Caller, q \in Run : finFile(c, q)
      BY <2>2
    <3>2. TypeOK /\ RunInv(q) /\ fin[q][c].at = "file"
      BY <3>1 DEF IInv, finFile
    <3>3. CASE q = r /\ fin[q][c].as = "success"
      <4>1. part[r] \in {"none", "whole"}
        BY <3>2, <3>3
      <4> QED BY <3>1, <3>2, <3>3, <4>1 DEF finFile, commitData, TypeOK
    <3>4. CASE ~(q = r /\ fin[q][c].as = "success")
      BY <3>1, <3>2, <3>4 DEF finFile, commitData, discardData, TypeOK
    <3> QED BY <3>3, <3>4
  <2>3. CASE serverRestarts
    BY <2>3 DEF serverRestarts, AfterPowerLoss, IInv, TypeOK
  <2>4. bin' = bin \/ (\E c \in Caller, q \in Run : finFile(c, q)) \/ serverRestarts
    <3>1. CASE checkinAnswered \/ reapSnapshot \/ tick
      BY <3>1 DEF checkinAnswered, reapSnapshot, tick, files
    <3>2. CASE \E q \in Run : buildDispatch(q) \/ reapNext(q)
      BY <3>2 DEF buildDispatch, reapNext, files
    <3>3. CASE \E c \in Caller, q \in Run : FinStep(c, q)
      BY <3>3 DEF FinStep, finReadFlag, finUpdateRow, files
    <3>4. CASE \E q \in Run : StreamStep(q) \/ CancelStep(q)
      BY <3>4 DEF StreamStep, applyStarted, applyFinished, CancelStep, cancelRead,
                  cancelRequest, files
    <3>5. CASE \E q \in Run : UploadStep(q)
      BY <3>5 DEF UploadStep, uploadAdmit, uploadCreate, uploadProgress, uploadCopied,
                  uploadSync, uploadStored, uploadFailed, uploadDiscard, uploadForget,
                  discardData, files
    <3>6. CASE \E q \in Run : RunnerStep(q)
      BY <3>6 DEF RunnerStep, runStarts, runRefused, procExits, cancelSeen, timesOut,
                  uploadAborted, runFinishes, runReturns, files
    <3>7. CASE FaultStep
      BY <3>7 DEF FaultStep, runnerRestarts, streamLost, uploadLost, files
    <3> QED BY <3>1, <3>2, <3>3, <3>4, <3>5, <3>6, <3>7 DEF Next
  <2> QED BY <2>1, <2>2, <2>3, <2>4
<1> QED BY <1>1, Invariance, PTL DEF Spec, DumpStays

-----------------------------------------------------------------------------
(* One verdict, and with it the dump.  Where runners report in time, no    *)
(* operator cancels and the server stays up, the update stream is the only *)
(* caller of FinishRun, it calls it once per run, and by then the upload   *)
(* handler of the run has been answered or can only discard.               *)

Undisturbed == InTime /\ MaxRestarts = 0 /\ Cancellable = {}

\* Both effects of the verdict are there: the row and the file.
Closed(r) == status[r] \in Terminal /\ fin[r]["stream"].at = "idle"

\* Neither an operator nor the reaper touches the run.
Alone(r) ==
  /\ cancelling[r] = "idle" /\ ~cancelRequested[r] /\ ~Overdue(r)
  /\ fin[r]["cancel"].at = "idle" /\ fin[r]["reaper"].at = "idle"

\* The verdict is in one place: on the stream, in FinishRun or in the row; and
\* it is in none before the runner has finished.
OneVerdict(r) ==
  /\ job[r] \in {"none", "queued"} => ~startedMsg[r]
  /\ job[r] \in {"none", "queued", "exec"} =>
       finishedMsg[r] = "none" /\ fin[r]["stream"].at = "idle" /\ status[r] \notin Terminal
  /\ finishedMsg[r] # "none" => fin[r]["stream"].at = "idle" /\ status[r] \notin Terminal
  /\ fin[r]["stream"].at # "idle" => ~startedMsg[r]
  /\ fin[r]["stream"].at \in {"flag", "row"} => status[r] \notin Terminal
  /\ fin[r]["stream"].at = "file" => status[r] = fin[r]["stream"].as
  /\ status[r] \in Terminal => ~startedMsg[r]

\* The payload is kept until the verdict and gone, or promoted, with it; an
\* upload still at work then is one that the runner has already given up.
Payload(r) ==
  /\ sent[r] = "open" => upload[r] # "idle"
  /\ sent[r] = "open" /\ upload[r] \in {"writing", "copied", "synced"} => part[r] # "none"
  /\ sent[r] = "ok" /\ ~Closed(r) => part[r] # "none"
  /\ ~Closed(r) => bin[r] = "none"
  /\ Closed(r) => /\ upload[r] \notin {"writing", "failed"} => part[r] = "none"
                  /\ bin[r] = IF status[r] = "success" /\ r \in Streaming THEN "whole" ELSE "none"

TimelyRun(r) == Alone(r) /\ OneVerdict(r) /\ Payload(r)

TimelyInv == reaping = {} /\ \A r \in Run : TimelyRun(r)

LEMMA DeadlineType ==
  ASSUME NEW r \in Run
  PROVE  runDeadline(r) \in Nat \ {0}
BY ConstantsOK DEF runDeadline

LEMMA InitTimely == Init => TimelyInv
BY DEF Init, TimelyInv, TimelyRun, Alone, OneVerdict, Payload, Closed, NoCall, Overdue,
       Unfinished, Caller, Terminal, Outcome

LEMMA FinStepTimely ==
  ASSUME IInv, TimelyInv, NEW c \in Caller, NEW r \in Run, FinStep(c, r), NEW q \in Run
  PROVE  TimelyRun(q)'
<1>0. /\ TypeOK /\ RunInv(r) /\ TimelyRun(r) /\ RunInv(q) /\ TimelyRun(q) /\ fin[r][c] \in FinCall
  BY DEF IInv, TimelyInv, TypeOK
<1>1. c = "stream"
  BY <1>0 DEF FinStep, finReadFlag, finUpdateRow, finFile, TimelyRun, Alone, Caller
<1>2. CASE finReadFlag(c, r)
  <2>1. fin' = [fin EXCEPT ![r]["stream"] = [at |-> "row", as |-> fin[r]["stream"].as]]
    BY <1>0, <1>1, <1>2 DEF finReadFlag, TimelyRun, Alone
  <2> QED BY <1>0, <1>1, <1>2, <2>1 DEF finReadFlag, TimelyRun, Alone, OneVerdict, Payload, Closed,
             Overdue, Unfinished, Caller, TypeOK, row, files, stream, runner
<1>3. CASE finUpdateRow(c, r)
  <2>1. /\ status' = [status EXCEPT ![r] = fin[r]["stream"].as]
        /\ fin' = [fin EXCEPT ![r]["stream"].at = "file"]
        /\ fin[r]["stream"].at = "row" /\ fin[r]["stream"].as \in Terminal
    BY <1>0, <1>1, <1>3 DEF finUpdateRow, FinCall
  <2> QED BY <1>0, <1>3, <2>1 DEF finUpdateRow, TimelyRun, Alone, OneVerdict, Payload, Closed,
             Overdue, Unfinished, Caller, FinCall, Terminal, Outcome, TypeOK, files, stream, runner
<1>4. CASE finFile(c, r)
  <2>1. /\ fin' = [fin EXCEPT ![r]["stream"] = NoCall] /\ fin[r]["stream"].at = "file"
        /\ status[r] = fin[r]["stream"].as /\ status[r] \in Terminal
    BY <1>0, <1>1, <1>4 DEF finFile, TimelyRun, OneVerdict, FinCall
  <2>2. ~Closed(r)
    BY <2>1 DEF Closed
  <2>3. CASE status[r] = "success"
    <3>1. sent[r] = IF r \in Streaming THEN "ok" ELSE "none"
      BY <1>0, <2>3
    <3>2. part[r] = IF r \in Streaming THEN "whole" ELSE "none"
      BY <1>0, <2>2, <2>3, <3>1 DEF TimelyRun, Payload
    <3>3. upload[r] = "idle" /\ bin[r] = "none"
      BY <1>0, <2>2, <3>1 DEF TimelyRun, Payload
    <3>4. /\ bin' = [bin EXCEPT ![r] = IF r \in Streaming THEN "whole" ELSE "none"]
          /\ part' = [part EXCEPT ![r] = "none"]
      BY <1>1, <1>4, <2>1, <2>3, <3>2, <3>3 DEF finFile, commitData
    <3> QED BY <1>0, <1>4, <2>1, <2>3, <3>1, <3>3, <3>4 DEF finFile, TimelyRun, Alone, OneVerdict,
               Payload, Closed, Overdue, Unfinished, Caller, NoCall, Terminal, TypeOK, row, stream, runner
  <2>4. CASE status[r] # "success"
    <3>1. bin' = bin /\ part' = [part EXCEPT ![r] = "none"]
      BY <1>1, <1>4, <2>1, <2>4 DEF finFile, discardData
    <3>2. bin[r] = "none"
      BY <1>0, <2>2 DEF TimelyRun, Payload
    <3>3. sent[r] # "open"
      BY <1>0, <2>1 DEF TimelyRun, OneVerdict
    <3> QED BY <1>0, <1>4, <2>1, <2>4, <3>1, <3>2, <3>3 DEF finFile, TimelyRun, Alone, OneVerdict,
               Payload, Closed, Overdue, Unfinished, Caller, NoCall, Terminal, TypeOK, row, stream, runner
  <2> QED BY <2>3, <2>4
<1> QED BY <1>2, <1>3, <1>4 DEF FinStep

LEMMA StreamStepTimely ==
  ASSUME IInv, TimelyInv, NEW r \in Run, StreamStep(r), NEW q \in Run
  PROVE  TimelyRun(q)'
<1>0. /\ TypeOK /\ RunInv(r) /\ TimelyRun(r) /\ RunInv(q) /\ TimelyRun(q)
  BY DEF IInv, TimelyInv
<1>1. CASE applyStarted(r)
  <2>1. age'[r] < runDeadline(r)
    BY <1>0, <1>1, DeadlineType DEF applyStarted, TypeOK
  <2>2. ~Overdue(q)'
    <3>1. CASE q = r
      BY <2>1, <3>1, DeadlineType, <1>0, <1>1 DEF Overdue, runDeadline, applyStarted, TypeOK
    <3>2. CASE q # r
      BY <1>0, <1>1, <3>2 DEF Overdue, Unfinished, runDeadline, applyStarted, TypeOK, TimelyRun, Alone
    <3> QED BY <3>1, <3>2
  <2> QED BY <1>0, <1>1, <2>2 DEF applyStarted, TimelyRun, Alone, OneVerdict, Payload, Closed,
             Terminal, Outcome, TypeOK, files, server, runner
<1>2. CASE applyFinished(r)
  <2>1. /\ fin' = [fin EXCEPT ![r]["stream"] =
                     [at |-> IF finishedMsg[r] = "success" THEN "row" ELSE "flag", as |-> finishedMsg[r]]]
        /\ finishedMsg' = [finishedMsg EXCEPT ![r] = "none"]
        /\ finishedMsg[r] # "none" /\ ~startedMsg[r]
    BY <1>2 DEF applyFinished, FinishRun
  <2> QED BY <1>0, <1>2, <2>1 DEF applyFinished, TimelyRun, Alone, OneVerdict, Payload, Closed,
             Overdue, Unfinished, Caller, TypeOK, row, files, runner
<1> QED BY <1>1, <1>2 DEF StreamStep

\* Nobody may cancel, and nothing is overdue: both callers stay out.
LEMMA OthersTimely ==
  ASSUME Undisturbed, IInv, TimelyInv, NEW q \in Run,
         reapSnapshot \/ \E r \in Run : reapNext(r) \/ CancelStep(r)
  PROVE  TimelyInv'
<1>0. TypeOK /\ reaping = {} /\ \A r \in Run : TimelyRun(r)
  BY DEF IInv, TimelyInv
<1>1. CASE reapSnapshot
  <2>1. reaping' = {}
    BY <1>0, <1>1 DEF reapSnapshot, TimelyRun, Alone
  <2>2. ASSUME NEW r \in Run
        PROVE  TimelyRun(r)'
    BY <1>0, <1>1 DEF reapSnapshot, TimelyRun, Alone, OneVerdict, Payload, Closed, Overdue,
                      Unfinished, row, files, stream, runner
  <2> QED BY <2>1, <2>2 DEF TimelyInv
<1>2. CASE \E r \in Run : reapNext(r)
  BY <1>0, <1>2 DEF reapNext, IsFirst
<1>3. CASE \E r \in Run : CancelStep(r)
  BY <1>0, <1>3 DEF Undisturbed, CancelStep, cancelRead, cancelRequest, TimelyRun, Alone
<1> QED BY <1>1, <1>2, <1>3

LEMMA UploadStepTimely ==
  ASSUME IInv, TimelyInv, NEW r \in Run, UploadStep(r), NEW q \in Run
  PROVE  TimelyRun(q)'
<1> USE DEF TimelyRun, Payload, TypeOK
<1>0. /\ TypeOK /\ RunInv(r) /\ TimelyRun(r) /\ RunInv(q) /\ TimelyRun(q)
  BY DEF IInv, TimelyInv
<1>1. UNCHANGED <<status, age, cancelRequested, cancelling, fin, job, startedMsg, finishedMsg, bin>>
  BY DEF UploadStep, uploadAdmit, uploadCreate, uploadProgress, uploadCopied, uploadSync,
         uploadStored, uploadFailed, uploadDiscard, uploadForget, discardData,
         row, files, server, stream, runner
<1>2. Alone(q)' /\ OneVerdict(q)' /\ (Closed(q)' <=> Closed(q))
  BY <1>0, <1>1 DEF Alone, OneVerdict, Closed, Overdue, Unfinished
<1>3. Closed(r) => sent[r] # "open"
  BY <1>0 DEF Closed, OneVerdict
<1>4. CASE uploadAdmit(r)
  <2>1. upload[r] = "asked" /\ part' = part /\ sent[r] \in {"open", "err", "broke"}
    BY <1>0, <1>4 DEF uploadAdmit, files
  <2>2. CASE status[r] \in Terminal
    <3>1. sent[r] # "open"
      BY <1>0, <2>2 DEF OneVerdict
    <3>2. upload' = [upload EXCEPT ![r] = "idle"] /\ sent' = [sent EXCEPT ![r] = sent[r]]
      BY <1>4, <2>2, <3>1 DEF uploadAdmit, BrokenSend
    <3> QED BY <1>0, <1>1, <1>2, <2>1, <3>1, <3>2
  <2>3. CASE status[r] \notin Terminal
    <3>1. upload' = [upload EXCEPT ![r] = "admitted"] /\ sent' = sent
      BY <1>4, <2>3 DEF uploadAdmit
    <3> QED BY <1>0, <1>1, <1>2, <2>1, <3>1
  <2> QED BY <2>2, <2>3
<1>5. CASE uploadCreate(r)
  BY <1>0, <1>1, <1>2, <1>3, <1>5 DEF uploadCreate, runner
<1>6. CASE uploadProgress(r)
  BY <1>0, <1>1, <1>2, <1>6 DEF uploadProgress, files, server, runner
<1>7. CASE uploadCopied(r)
  BY <1>0, <1>1, <1>2, <1>3, <1>7 DEF uploadCopied, runner
<1>8. CASE uploadSync(r)
  BY <1>0, <1>1, <1>2, <1>3, <1>8 DEF uploadSync, runner
<1>9. CASE uploadStored(r)
  BY <1>0, <1>1, <1>2, <1>3, <1>9 DEF uploadStored, files
<1>10. CASE uploadFailed(r)
  BY <1>0, <1>1, <1>2, <1>3, <1>10 DEF uploadFailed, runner
<1>11. CASE uploadDiscard(r)
  BY <1>0, <1>1, <1>2, <1>3, <1>11 DEF uploadDiscard, discardData, runner
<1>12. CASE uploadForget(r)
  BY <1>0, <1>1, <1>2, <1>3, <1>12 DEF uploadForget, BrokenSend, files
<1> QED BY <1>4, <1>5, <1>6, <1>7, <1>8, <1>9, <1>10, <1>11, <1>12 DEF UploadStep

LEMMA RunnerStepTimely ==
  ASSUME IInv, TimelyInv, NEW r \in Run, RunnerStep(r), NEW q \in Run
  PROVE  TimelyRun(q)'
<1> USE DEF TimelyRun, OneVerdict, Payload, TypeOK
<1>0. /\ TypeOK /\ RunInv(r) /\ TimelyRun(r) /\ RunInv(q) /\ TimelyRun(q)
  BY DEF IInv, TimelyInv
<1>1. UNCHANGED <<status, age, cancelRequested, cancelling, fin, part, bin>>
  BY DEF RunnerStep, runStarts, runRefused, procExits, cancelSeen, timesOut, uploadAborted,
         runFinishes, runReturns, row, files, server
<1>2. Alone(q)' /\ (Closed(q)' <=> Closed(q))
  BY <1>0, <1>1 DEF Alone, Closed, Overdue, Unfinished
<1>3. CASE runStarts(r)
  BY <1>0, <1>1, <1>2, <1>3 DEF runStarts, CanStart, Closed
<1>4. CASE runRefused(r)
  <2>1. job[r] = "queued" /\ UNCHANGED <<upload, sent>>
    BY <1>4 DEF runRefused, CanStart, server
  <2>2. \/ /\ job' = [job EXCEPT ![r] = "closing"]
           /\ finishedMsg' = [finishedMsg EXCEPT ![r] = "error"]
           /\ startedMsg' = startedMsg \/ startedMsg' = [startedMsg EXCEPT ![r] = TRUE]
        \/ /\ job' = [job EXCEPT ![r] = "done"]
           /\ UNCHANGED <<startedMsg, finishedMsg>>
    BY <1>4 DEF runRefused, stream
  <2>3. CASE job' = [job EXCEPT ![r] = "done"] /\ UNCHANGED <<startedMsg, finishedMsg>>
    BY <1>0, <1>1, <1>2, <2>1, <2>3
  <2>4. CASE /\ job' = [job EXCEPT ![r] = "closing"]
             /\ finishedMsg' = [finishedMsg EXCEPT ![r] = "error"]
             /\ startedMsg' = startedMsg \/ startedMsg' = [startedMsg EXCEPT ![r] = TRUE]
    <3>1. q # r => /\ job'[q] = job[q] /\ finishedMsg'[q] = finishedMsg[q]
                   /\ startedMsg'[q] = startedMsg[q]
      BY <1>0, <2>4
    <3>2. job'[r] = "closing"
      BY <1>0, <2>4
    <3>3. q = r => fin[r]["stream"].at = "idle" /\ status[r] \notin Terminal
      BY <1>0, <2>1
    <3> QED BY <1>0, <1>1, <1>2, <2>1, <3>1, <3>2, <3>3
  <2> QED BY <2>2, <2>3, <2>4
<1>5. CASE procExits(r)
  BY <1>0, <1>1, <1>2, <1>5 DEF procExits, server, stream
<1>6. CASE cancelSeen(r) \/ timesOut(r)
  BY <1>0, <1>1, <1>2, <1>6 DEF cancelSeen, timesOut, server, stream
<1>7. CASE uploadAborted(r)
  BY <1>0, <1>1, <1>2, <1>7 DEF uploadAborted, server, stream
<1>8. CASE runFinishes(r)
  BY <1>0, <1>1, <1>2, <1>8 DEF runFinishes, server
<1>9. CASE runReturns(r)
  BY <1>0, <1>1, <1>2, <1>9 DEF runReturns, server
<1> QED BY <1>3, <1>4, <1>5, <1>6, <1>7, <1>8, <1>9 DEF RunnerStep

LEMMA FaultStepTimely ==
  ASSUME Undisturbed, IInv, TimelyInv, FaultStep, NEW q \in Run
  PROVE  TimelyRun(q)'
<1> USE DEF TimelyRun, OneVerdict, Payload, TypeOK
<1>0. /\ TypeOK /\ RunInv(q) /\ TimelyRun(q)
  BY DEF IInv, TimelyInv
<1>1. ~serverRestarts
  BY <1>0 DEF Undisturbed, serverRestarts
<1>2. UNCHANGED <<status, age, cancelRequested, cancelling, fin, part, bin>>
  BY <1>1 DEF FaultStep, runnerRestarts, streamLost, uploadLost, row, files, server, runner
<1>3. Alone(q)' /\ (Closed(q)' <=> Closed(q))
  BY <1>0, <1>2 DEF Alone, Closed, Overdue, Unfinished
<1>4. CASE runnerRestarts
  BY <1>0, <1>2, <1>3, <1>4 DEF runnerRestarts, server
<1>5. CASE \E r \in Run : streamLost(r)
  <2>1. PICK r \in Run : streamLost(r)
    BY <1>5
  <2>2. /\ finishedMsg' = [finishedMsg EXCEPT ![r] = "none"]
        /\ startedMsg' = startedMsg \/ startedMsg' = [startedMsg EXCEPT ![r] = FALSE]
        /\ UNCHANGED <<job, upload, sent>>
    BY <2>1 DEF streamLost, server, runner
  <2> QED BY <1>0, <1>2, <1>3, <2>2
<1>6. CASE \E r \in Run : uploadLost(r)
  BY <1>0, <1>2, <1>3, <1>6 DEF uploadLost, BrokenSend, server, stream
<1> QED BY <1>1, <1>4, <1>5, <1>6 DEF FaultStep

LEMMA CheckinTimely ==
  ASSUME IInv, TimelyInv, checkinAnswered \/ \E r \in Run : buildDispatch(r), NEW q \in Run
  PROVE  TimelyRun(q)'
<1> USE DEF TimelyRun, OneVerdict, Payload, TypeOK
<1>0. /\ TypeOK /\ RunInv(q) /\ TimelyRun(q)
  BY DEF IInv, TimelyInv
<1>1. CASE checkinAnswered
  BY <1>0, <1>1 DEF checkinAnswered, Alone, Closed, Overdue, Unfinished, row, files, server, stream
<1>2. CASE \E r \in Run : buildDispatch(r)
  <2>1. PICK r \in Run : buildDispatch(r)
    BY <1>2
  <2>2. status[r] = "none" /\ status' = [status EXCEPT ![r] = "pending"] /\ age' = [age EXCEPT ![r] = 0]
    BY <2>1 DEF buildDispatch, IsFirst, Unused
  <2>3. ~Overdue(q)'
    BY <1>0, <2>2, DeadlineType DEF Alone, Overdue, Unfinished, runDeadline
  <2>4. Closed(q)' <=> Closed(q)
    BY <1>0, <2>1, <2>2 DEF buildDispatch, Closed, Terminal, Outcome, server
  <2> QED BY <1>0, <2>1, <2>2, <2>3, <2>4 DEF buildDispatch, Alone, Terminal, Outcome, files, server,
             stream, runner
<1> QED BY <1>1, <1>2

LEMMA TickTimely ==
  ASSUME Undisturbed, IInv, TimelyInv, tick, NEW q \in Run
  PROVE  TimelyRun(q)'
<1>0. TypeOK /\ RunInv(q) /\ TimelyRun(q)
  BY DEF IInv, TimelyInv
<1>1. ~Overdue(q)'
  BY DEF tick, Undisturbed
<1> QED BY <1>0, <1>1 DEF tick, TimelyRun, Alone, OneVerdict, Payload, Closed, files, server, stream

LEMMA NextTimely == Undisturbed /\ IInv /\ TimelyInv /\ [Next]_vars => TimelyInv'
<1> SUFFICES ASSUME Undisturbed, IInv, TimelyInv, [Next]_vars
             PROVE  TimelyInv'
  OBVIOUS
<1>1. CASE reapSnapshot \/ \E r \in Run : reapNext(r) \/ CancelStep(r)
  BY <1>1, OthersTimely, ConstantsOK
<1>2. CASE UNCHANGED vars
  BY <1>2 DEF TimelyInv, TimelyRun, Alone, OneVerdict, Payload, Closed, Overdue, Unfinished,
              vars, row, files, server, stream, runner
<1>3. CASE checkinAnswered \/ tick \/ \E r \in Run : buildDispatch(r)
  <2>1. reaping' = reaping
    BY <1>3 DEF checkinAnswered, tick, buildDispatch, server
  <2> QED BY <1>3, <2>1, CheckinTimely, TickTimely DEF TimelyInv
<1>4. CASE \E c \in Caller, r \in Run : FinStep(c, r)
  <2>1. reaping' = reaping
    BY <1>4 DEF FinStep, finReadFlag, finUpdateRow, finFile
  <2> QED BY <1>4, <2>1, FinStepTimely DEF TimelyInv
<1>5. CASE \E r \in Run : StreamStep(r) \/ UploadStep(r)
  <2>1. reaping' = reaping
    BY <1>5 DEF StreamStep, applyStarted, applyFinished, UploadStep, uploadAdmit, uploadCreate,
                uploadProgress, uploadCopied, uploadSync, uploadStored, uploadFailed,
                uploadDiscard, uploadForget, server
  <2> QED BY <1>5, <2>1, StreamStepTimely, UploadStepTimely DEF TimelyInv
<1>6. CASE \E r \in Run : RunnerStep(r)
  <2>1. reaping' = reaping
    BY <1>6 DEF RunnerStep, runStarts, runRefused, procExits, cancelSeen, timesOut,
                uploadAborted, runFinishes, runReturns, server
  <2> QED BY <1>6, <2>1, RunnerStepTimely DEF TimelyInv
<1>7. CASE FaultStep
  <2>1. reaping' = {}
    BY <1>7 DEF FaultStep, serverRestarts, runnerRestarts, streamLost, uploadLost, server, TimelyInv
  <2> QED BY <1>7, <2>1, FaultStepTimely DEF TimelyInv
<1> QED BY <1>1, <1>2, <1>3, <1>4, <1>5, <1>6, <1>7 DEF Next

LEMMA TimelyInvariance ==
  ASSUME Undisturbed
  PROVE  Spec => []TimelyInv
BY InitTimely, NextTimely, Invariance, PTL DEF Spec

\* Where runners report in time, nobody cancels and the server stays up, a run
\* that has ended left its dump if it succeeded and nothing at all if it did
\* not, whatever connections broke and whatever runners were killed meanwhile.
THEOREM DumpAndVerdictAgree ==
  ASSUME Undisturbed
  PROVE  Spec => []DumpIffSuccess
<1>1. TimelyInv => DumpIffSuccess
  BY DEF TimelyInv, TimelyRun, Payload, Closed, Settled, DumpIffSuccess, Caller
<1> QED BY <1>1, TimelyInvariance, PTL

\* What is seen of a run, before and after: of the states of the server only the
\* row and the place of the stream's FinishRun count.
LEMMA OutcomeType ==
  /\ outcome = [r \in Run |-> outcome[r]] /\ outcome' = [r \in Run |-> outcome'[r]]
  /\ \A r \in Run : outcome[r] =
       IF status[r] = "none" THEN "absent"
       ELSE IF status[r] \in Terminal /\ fin[r]["stream"].at # "file" THEN status[r] ELSE "open"
  /\ \A r \in Run : outcome'[r] =
       IF status'[r] = "none" THEN "absent"
       ELSE IF status'[r] \in Terminal /\ fin'[r]["stream"].at # "file" THEN status'[r] ELSE "open"
BY DEF outcome

offered == {r \in Run : bin[r] = "whole"}

\* A run is opened when its row is created.
LEMMA BuildOpens ==
  ASSUME TypeOK, NEW r \in Run, buildDispatch(r)
  PROVE  Promise!Next
<1>1. /\ status[r] = "none" /\ status' = [status EXCEPT ![r] = "pending"]
      /\ fin' = fin /\ bin' = bin
  BY DEF buildDispatch, IsFirst, Unused, files, server
<1>2. \A q \in Run : /\ status'[q] = IF q = r THEN "pending" ELSE status[q]
                     /\ fin'[q] = fin[q]
  BY <1>1 DEF TypeOK
<1>3. outcome[r] = "absent" /\ \A q \in Run : outcome'[q] = IF q = r THEN "open" ELSE outcome[q]
  BY <1>1, <1>2, OutcomeType DEF Terminal, Outcome
<1>4. outcome' = [outcome EXCEPT ![r] = "open"]
  <2>1. outcome' = [q \in Run |-> IF q = r THEN "open" ELSE outcome[q]]
    BY <1>3, OutcomeType
  <2> QED BY <2>1, OutcomeType
<1>5. Promise!Open(r)
  BY <1>1, <1>3, <1>4 DEF Promise!Open
<1> QED BY <1>5 DEF Promise!Next

\* It is closed, with its dump if it has one, by the file step of FinishRun.
LEMMA FileCloses ==
  ASSUME IInv, TimelyInv, TimelyInv', NEW c \in Caller, NEW r \in Run, finFile(c, r)
  PROVE  Promise!Next
<1>0. TypeOK /\ RunInv(r) /\ TimelyRun(r) /\ TimelyRun(r)'
  BY DEF IInv, TimelyInv
<1>1. c = "stream"
  BY <1>0 DEF finFile, TimelyRun, Alone, Caller
<1>2. /\ fin[r]["stream"].at = "file" /\ fin' = [fin EXCEPT ![r]["stream"] = NoCall]
      /\ status' = status /\ status[r] \in Terminal
      /\ \A q \in Run \ {r} : bin'[q] = bin[q]
  <2>1. /\ fin[r]["stream"].at = "file" /\ fin' = [fin EXCEPT ![r]["stream"] = NoCall]
        /\ status' = status /\ \A q \in Run \ {r} : bin'[q] = bin[q]
    BY <1>0, <1>1 DEF finFile, TypeOK, row, commitData, discardData
  <2>2. status[r] \in Terminal
    BY <1>0, <2>1 DEF TimelyRun, OneVerdict, TypeOK, FinCall, Caller
  <2> QED BY <2>1, <2>2
<1>3. \A q \in Run : fin'[q]["stream"].at = IF q = r THEN "idle" ELSE fin[q]["stream"].at
  BY <1>0, <1>2 DEF NoCall, TypeOK, Caller
<1>4. outcome[r] = "open" /\ \A q \in Run : outcome'[q] = IF q = r THEN status[r] ELSE outcome[q]
  BY <1>2, <1>3, OutcomeType DEF Terminal, Outcome
<1>5. outcome' = [outcome EXCEPT ![r] = status[r]]
  <2>1. outcome' = [q \in Run |-> IF q = r THEN status[r] ELSE outcome[q]]
    BY <1>4, OutcomeType
  <2> QED BY <2>1, OutcomeType
<1>6. /\ bin[r] = "none"
      /\ bin'[r] = IF status[r] = "success" /\ r \in Streaming THEN "whole" ELSE "none"
  BY <1>0, <1>2, <1>3 DEF TimelyRun, Payload, Closed
<1>7. offered' = IF status[r] = "success" /\ r \in Streaming THEN offered \cup {r} ELSE offered
  BY <1>2, <1>6 DEF offered
<1>8. PICK v \in Terminal : v = status[r]
  BY <1>2
<1>9. Promise!Close(r, v)
  BY <1>4, <1>5, <1>7, <1>8 DEF Promise!Close, offered
<1> QED BY <1>9 DEF Promise!Next

\* Every other step is none of the run's business, as seen from outside.
LEMMA OtherStutters ==
  ASSUME UNCHANGED bin,
         \A r \in Run : \/ status'[r] = status[r] /\ (fin'[r]["stream"].at = "file"
                                                        <=> fin[r]["stream"].at = "file")
                        \/ /\ status[r] \notin Terminal \cup {"none"}
                           /\ \/ status'[r] \notin Terminal \cup {"none"}
                              \/ status'[r] \in Terminal /\ fin'[r]["stream"].at = "file"
  PROVE  UNCHANGED <<outcome, offered>>
<1>1. \A r \in Run : outcome'[r] = outcome[r]
  BY OutcomeType DEF Terminal, Outcome
<1>2. outcome' = outcome
  BY <1>1, OutcomeType
<1> QED BY <1>2 DEF offered

LEMMA StepImplements ==
  ASSUME Undisturbed, IInv, TimelyInv, TimelyInv', Next
  PROVE  Promise!Next \/ UNCHANGED <<outcome, offered>>
<1>0. TypeOK /\ \A r \in Run : RunInv(r) /\ TimelyRun(r)
  BY DEF IInv, TimelyInv
<1>1. CASE \E r \in Run : buildDispatch(r)
  BY <1>0, <1>1, BuildOpens
<1>2. CASE \E c \in Caller, r \in Run : finFile(c, r)
  BY <1>2, FileCloses
<1>3. CASE \E c \in Caller, r \in Run : finReadFlag(c, r) \/ finUpdateRow(c, r)
  <2>1. PICK c \in Caller, r \in Run : finReadFlag(c, r) \/ finUpdateRow(c, r)
    BY <1>3
  <2>2. c = "stream" /\ fin[r]["stream"] \in FinCall
    BY <1>0, <2>1 DEF finReadFlag, finUpdateRow, TimelyRun, Alone, Caller, TypeOK
  <2>3. CASE finReadFlag(c, r)
    BY <1>0, <2>2, <2>3, OtherStutters DEF finReadFlag, TypeOK, Caller, row, files
  <2>4. CASE finUpdateRow(c, r)
    <3>1. /\ \A q \in Run : /\ status'[q] = IF q = r THEN fin[r]["stream"].as ELSE status[q]
                            /\ fin'[q]["stream"].at = IF q = r THEN "file" ELSE fin[q]["stream"].at
          /\ fin[r]["stream"].at = "row" /\ fin[r]["stream"].as \in Terminal /\ bin' = bin
      BY <1>0, <2>2, <2>4 DEF finUpdateRow, TypeOK, FinCall, Caller, files
    <3>2. status[r] \notin Terminal \cup {"none"}
      BY <1>0, <3>1 DEF TimelyRun, OneVerdict
    <3> QED BY <3>1, <3>2, OtherStutters
  <2> QED BY <2>1, <2>3, <2>4
<1>4. CASE \E r \in Run : StreamStep(r)
  <2>1. PICK r \in Run : StreamStep(r)
    BY <1>4
  <2>2. CASE applyStarted(r)
    <3>1. status[r] \notin Terminal \cup {"none"}
      BY <1>0, <2>2 DEF applyStarted, TimelyRun, OneVerdict
    <3> QED BY <1>0, <2>2, <3>1, OtherStutters DEF applyStarted, TypeOK, Terminal, Outcome, files, server
  <2>3. CASE applyFinished(r)
    <3>1. /\ \A q \in Run : fin'[q]["stream"].at = "file" <=> fin[q]["stream"].at = "file"
          /\ UNCHANGED <<status, bin>>
      BY <1>0, <2>3 DEF applyFinished, FinishRun, TypeOK, Caller, row, files
    <3> QED BY <3>1, OtherStutters
  <2> QED BY <2>1, <2>2, <2>3 DEF StreamStep
<1>5. CASE \E r \in Run : CancelStep(r) \/ reapNext(r)
  <2>1. \A r \in Run : ~CancelStep(r) /\ ~reapNext(r)
    BY <1>0 DEF Undisturbed, CancelStep, cancelRead, cancelRequest, reapNext, IsFirst,
                TimelyInv, TimelyRun, Alone
  <2> QED BY <1>5, <2>1
<1>6. CASE UNCHANGED <<status, fin, bin>>
  BY <1>6, OtherStutters
<1>7. CASE checkinAnswered \/ reapSnapshot \/ tick
  BY <1>6, <1>7 DEF checkinAnswered, reapSnapshot, tick, row, files, server
<1>8. CASE \E r \in Run : UploadStep(r)
  BY <1>6, <1>8 DEF UploadStep, uploadAdmit, uploadCreate, uploadProgress, uploadCopied,
     uploadSync, uploadStored, uploadFailed, uploadDiscard, uploadForget, discardData,
     row, files, server
<1>9. CASE \E r \in Run : RunnerStep(r)
  BY <1>6, <1>9 DEF RunnerStep, runStarts, runRefused, procExits, cancelSeen, timesOut,
     uploadAborted, runFinishes, runReturns, row, files, server
<1>10. CASE FaultStep
  <2>1. ~serverRestarts
    BY <1>0 DEF Undisturbed, serverRestarts, TypeOK
  <2> QED BY <1>6, <1>10, <2>1 DEF FaultStep, runnerRestarts, streamLost, uploadLost, row, files, server
<1> QED BY <1>1, <1>2, <1>3, <1>4, <1>5, <1>7, <1>8, <1>9, <1>10 DEF Next, FinStep

\* Under the same conditions the handlers together are Backup: every run is
\* opened once and closed once, and its dump appears in the step that closes it.
THEOREM HandlersImplementBackup ==
  ASSUME Undisturbed
  PROVE  Spec => ImplementsBackup
<1>1. Init => Promise!Init
  BY DEF Init, Promise!Init, outcome
<1>2. IInv /\ TimelyInv /\ TimelyInv' /\ [Next]_vars => [Promise!Next]_<<outcome, offered>>
  <2>1. UNCHANGED vars => UNCHANGED <<outcome, offered>>
    BY DEF vars, row, files, server, outcome, offered
  <2> QED BY <2>1, StepImplements
<1>3. Promise!Spec <=> Promise!Init /\ [][Promise!Next]_<<outcome, offered>>
  BY DEF Promise!Spec, offered
<1> QED BY <1>1, <1>2, <1>3, Invariance, TimelyInvariance, PTL DEF Spec, ImplementsBackup

-----------------------------------------------------------------------------
(* The reaper and the living.  A runner that gets one job per check-in     *)
(* starts it in the tick it was created in, so that the age of the run is  *)
(* never ahead of the clock that the runner holds against its timeout.     *)

OneAtATime == BatchMax = 1 /\ \A r \in Run : Timeout[r] > 0

SparedRun(r) ==
  /\ r \in reaping \/ fin[r]["reaper"].at # "idle" =>
       status[r] # "none" /\ r \notin batch /\ ~Live(r)
  /\ r \in batch \/ job[r] = "queued" => age[r] = 0
  /\ job[r] = "queued" => queue = {r}
  /\ r \in batch => batch = {r} /\ queue = {}
  /\ job[r] = "exec" /\ ctx[r] = "live" => age[r] <= ran[r]
  /\ ran[r] <= Timeout[r]

SparedInv == \A r \in Run : SparedRun(r)

LEMMA InitSpared == Init => SparedInv
BY ConstantsOK DEF Init, SparedInv, SparedRun, NoCall, Caller

\* A live run is younger than its deadline.
LEMMA LiveIsYoung ==
  ASSUME OneAtATime, TypeOK, NEW r \in Run, SparedRun(r), r \in batch \/ Live(r)
  PROVE  ~Overdue(r)
BY ConstantsOK DEF OneAtATime, TypeOK, SparedRun, Live, Overdue, runDeadline

\* Steps that touch neither the runner nor the reaper: an age only goes back to
\* zero, a row never disappears, and the reaper's calls only come to their end.
LEMMA ServerSpares ==
  ASSUME TypeOK, NEW q \in Run, SparedRun(q),
         UNCHANGED <<batch, queue, job, ctx, ran>>,
         reaping' \subseteq reaping,
         age'[q] \in {age[q], 0}, status[q] # "none" => status'[q] # "none",
         fin'[q]["reaper"].at # "idle" => fin[q]["reaper"].at # "idle"
  PROVE  SparedRun(q)'
BY DEF SparedRun, Live, TypeOK

LEMMA FinStepSpares ==
  ASSUME IInv, SparedInv, NEW c \in Caller, NEW r \in Run, FinStep(c, r), NEW q \in Run
  PROVE  SparedRun(q)'
<1>0. TypeOK /\ SparedRun(q) /\ fin[r][c] \in FinCall
  BY DEF IInv, SparedInv, TypeOK
<1>1. UNCHANGED <<batch, queue, job, ctx, ran, reaping, age>>
  BY DEF FinStep, finReadFlag, finUpdateRow, finFile, row, runner
<1>2. status[q] # "none" => status'[q] # "none"
  BY <1>0 DEF FinStep, finReadFlag, finUpdateRow, finFile, row, TypeOK, FinCall, Terminal, Outcome
<1>3. fin'[q]["reaper"].at # "idle" => fin[q]["reaper"].at # "idle"
  <2>1. CASE finReadFlag(c, r)
    BY <1>0, <2>1 DEF finReadFlag, TypeOK, Caller
  <2>2. CASE finUpdateRow(c, r)
    BY <1>0, <2>2 DEF finUpdateRow, TypeOK, FinCall, Caller
  <2>3. CASE finFile(c, r)
    BY <1>0, <2>3 DEF finFile, NoCall, TypeOK, Caller
  <2> QED BY <2>1, <2>2, <2>3 DEF FinStep
<1> QED BY <1>0, <1>1, <1>2, <1>3, ServerSpares

LEMMA StreamStepSpares ==
  ASSUME IInv, SparedInv, NEW r \in Run, StreamStep(r) \/ CancelStep(r), NEW q \in Run
  PROVE  SparedRun(q)'
<1>0. TypeOK /\ SparedRun(q)
  BY DEF IInv, SparedInv
<1>1. UNCHANGED <<batch, queue, job, ctx, ran, reaping>>
  BY DEF StreamStep, applyStarted, applyFinished, CancelStep, cancelRead, cancelRequest,
         server, runner
<1>2. UNCHANGED <<status, age>> \/ (status' = [status EXCEPT ![r] = "running"]
                                    /\ age' = [age EXCEPT ![r] = 0])
  BY DEF StreamStep, applyStarted, applyFinished, CancelStep, cancelRead, cancelRequest, row
<1>3. age'[q] \in {age[q], 0} /\ (status[q] # "none" => status'[q] # "none")
  BY <1>0, <1>2 DEF TypeOK
<1>4. \/ fin' = fin
      \/ \E c \in {"stream", "cancel"}, o \in Terminal \cup {"none"} : FinishRun(c, r, o)
  BY <1>0 DEF StreamStep, applyStarted, applyFinished, CancelStep, cancelRead, cancelRequest,
              server, TypeOK, Terminal, Outcome
<1>5. fin'[q]["reaper"].at # "idle" => fin[q]["reaper"].at # "idle"
  <2>1. ASSUME NEW c \in {"stream", "cancel"}, NEW o, FinishRun(c, r, o)
        PROVE  fin'[q]["reaper"] = fin[q]["reaper"]
    BY <1>0, <2>1 DEF FinishRun, TypeOK, Caller
  <2> QED BY <1>4, <2>1
<1> QED BY <1>0, <1>1, <1>3, <1>5, ServerSpares

LEMMA UploadStepSpares ==
  ASSUME IInv, SparedInv, NEW r \in Run, UploadStep(r), NEW q \in Run
  PROVE  SparedRun(q)'
<1>0. TypeOK /\ SparedRun(q)
  BY DEF IInv, SparedInv
<1>1. UNCHANGED <<batch, queue, job, ctx, ran, reaping, age, status, fin>>
  BY DEF UploadStep, uploadAdmit, uploadCreate, uploadProgress, uploadCopied, uploadSync,
         uploadStored, uploadFailed, uploadDiscard, uploadForget, row, server, runner
<1> QED BY <1>0, <1>1, ServerSpares

\* The reaper picks what is overdue, and that is not alive.
LEMMA ReaperSpares ==
  ASSUME OneAtATime, IInv, SparedInv, reapSnapshot \/ \E r \in Run : reapNext(r), NEW q \in Run
  PROVE  SparedRun(q)'
<1>0. TypeOK /\ SparedRun(q) /\ RunInv(q)
  BY DEF IInv, SparedInv
<1>1. CASE reapSnapshot
  <2>1. /\ reaping' = {r \in Run : Overdue(r)}
        /\ UNCHANGED <<fin, status, age, batch, queue, job, ctx, ran>>
    BY <1>1 DEF reapSnapshot, row, runner
  <2>2. Overdue(q) => status[q] # "none" /\ q \notin batch /\ ~Live(q)
    BY <1>0, LiveIsYoung DEF Overdue, Unfinished
  <2> QED BY <1>0, <2>1, <2>2 DEF SparedRun, Live
<1>2. CASE \E r \in Run : reapNext(r)
  <2>1. PICK r \in Run : reapNext(r)
    BY <1>2
  <2>2. /\ r \in reaping /\ reaping' = reaping \ {r}
        /\ UNCHANGED <<status, age, batch, queue, job, ctx, ran>>
    BY <2>1 DEF reapNext, IsFirst, row, runner
  <2>3. q # r => fin'[q] = fin[q]
    BY <1>0, <2>1 DEF reapNext, FinishRun, TypeOK
  <2> QED BY <1>0, <2>2, <2>3 DEF SparedRun, Live
<1> QED BY <1>1, <1>2

LEMMA CheckinSpares ==
  ASSUME OneAtATime, IInv, SparedInv, checkinAnswered \/ \E r \in Run : buildDispatch(r), NEW q \in Run
  PROVE  SparedRun(q)'
<1>0. TypeOK /\ SparedInv /\ SparedRun(q) /\ RunInv(q)
  BY DEF IInv, SparedInv
<1>1. CASE checkinAnswered
  <2>1. /\ batch' = {} /\ queue' = batch
        /\ job'[q] = IF q \in batch THEN "queued" ELSE job[q]
        /\ UNCHANGED <<status, age, fin, reaping, ctx, ran>>
    BY <1>1 DEF checkinAnswered, row, server
  <2>2. batch # {} /\ \A r \in batch : r \in Run /\ batch = {r}
    BY <1>0, <1>1 DEF checkinAnswered, SparedInv, SparedRun, TypeOK
  <2>3. q \notin batch => job[q] # "queued"
    BY <1>0, <2>2 DEF SparedRun, SparedInv
  <2> QED BY <1>0, <2>1, <2>2, <2>3 DEF SparedRun, Live
<1>2. CASE \E r \in Run : buildDispatch(r)
  <2>1. PICK r \in Run : buildDispatch(r)
    BY <1>2
  <2>2. /\ status[r] = "none" /\ status' = [status EXCEPT ![r] = "pending"]
        /\ age' = [age EXCEPT ![r] = 0] /\ batch' \in {batch \cup {r}, batch}
        /\ UNCHANGED <<queue, job, ctx, ran, fin, reaping>>
    BY <2>1 DEF buildDispatch, IsFirst, Unused, server, runner
  <2>2a. queue = {}
    BY <2>1 DEF buildDispatch
  <2>3. batch = {}
    <3>1. IsFiniteSet(batch)
      <4>1. IsFiniteSet(1..MaxRuns)
        BY FS_Interval, ConstantsOK
      <4> QED BY <1>0, <4>1, FS_Subset DEF TypeOK
    <3>2. Cardinality(batch) < 1 /\ Cardinality(batch) \in Nat
      BY <2>1, <3>1, FS_CardinalityType DEF buildDispatch, OneAtATime
    <3> QED BY <3>1, <3>2, FS_EmptySet
  <2>4. SparedRun(r) /\ RunInv(r)
    BY <1>0 DEF SparedInv, IInv
  <2>5. q # r => /\ status'[q] = status[q] /\ age'[q] = age[q] /\ q \notin batch'
    BY <1>0, <2>2, <2>3 DEF TypeOK
  <2>6. /\ age'[r] = 0 /\ status'[r] # "none"
        /\ r \in batch' => batch' = {r}
        /\ r \notin reaping /\ fin[r]["reaper"].at = "idle" /\ job[r] = "none"
    BY <1>0, <2>2, <2>3, <2>4 DEF SparedRun, TypeOK
  <2> QED BY <1>0, <2>2, <2>2a, <2>4, <2>5, <2>6 DEF SparedRun, Live
<1> QED BY <1>1, <1>2

LEMMA RunnerStepSpares ==
  ASSUME OneAtATime, IInv, SparedInv, NEW r \in Run, RunnerStep(r), NEW q \in Run
  PROVE  SparedRun(q)'
<1>0. TypeOK /\ SparedRun(q) /\ SparedRun(r)
  BY DEF IInv, SparedInv
<1>1. UNCHANGED <<status, age, fin, reaping, batch, ran>>
  BY DEF RunnerStep, runStarts, runRefused, procExits, cancelSeen, timesOut, uploadAborted,
         runFinishes, runReturns, row, server
<1>2. CASE runStarts(r)
  <2>1. job[r] = "queued" /\ job' = [job EXCEPT ![r] = "exec"] /\ UNCHANGED <<queue, ctx>>
    BY <1>2 DEF runStarts, CanStart
  <2>2. age[r] = 0 /\ queue = {r} /\ (r \in reaping \/ fin[r]["reaper"].at # "idle" => FALSE)
    BY <1>0, <2>1 DEF SparedRun, Live
  <2>3. age[r] <= ran[r]
    BY <1>0, <2>2 DEF TypeOK
  <2>3a. q # r => job[q] # "queued"
    BY <1>0, <2>2 DEF SparedRun
  <2>4. q # r => job'[q] = job[q] /\ job[q] # "queued"
    BY <1>0, <2>1, <2>3a DEF TypeOK
  <2>5. job'[r] = "exec" /\ r \notin reaping /\ fin[r]["reaper"].at = "idle"
    BY <1>0, <2>1, <2>2 DEF TypeOK
  <2> QED BY <1>0, <1>1, <2>1, <2>3, <2>4, <2>5 DEF SparedRun, Live
<1>3. CASE runRefused(r)
  <2>1. /\ job[r] = "queued" /\ ctx' = ctx
        /\ \/ job' = [job EXCEPT ![r] = "closing"] /\ queue' = queue
           \/ job' = [job EXCEPT ![r] = "done"] /\ queue' = queue \ {r}
    BY <1>3 DEF runRefused, CanStart
  <2>2. queue = {r}
    BY <1>0, <2>1 DEF SparedRun
  <2>3. q # r => job[q] # "queued"
    BY <1>0, <2>2 DEF SparedRun
  <2>4. job'[r] \notin {"queued", "exec"} /\ (q # r => job'[q] = job[q])
    BY <1>0, <2>1 DEF TypeOK
  <2> QED BY <1>0, <1>1, <2>1, <2>3, <2>4 DEF SparedRun, Live
<1>4. CASE procExits(r) \/ uploadAborted(r)
  BY <1>0, <1>1, <1>4 DEF procExits, uploadAborted, SparedRun, Live
<1>5. CASE cancelSeen(r) \/ timesOut(r)
  <2>1. UNCHANGED <<queue, job>> /\ (ctx'[q] = "live" => ctx[q] = "live") /\ job[r] = "exec"
    BY <1>0, <1>5 DEF cancelSeen, timesOut, TimerDue, TypeOK
  <2> QED BY <1>0, <1>1, <2>1 DEF SparedRun, Live
<1>6. CASE runFinishes(r)
  BY <1>0, <1>1, <1>6 DEF runFinishes, SparedRun, Live, TypeOK
<1>7. CASE runReturns(r)
  <2>1. /\ job[r] = "closing" /\ job' = [job EXCEPT ![r] = "done"]
        /\ queue' = queue \ {r} /\ ctx' = ctx
    BY <1>7 DEF runReturns
  <2> QED BY <1>0, <1>1, <2>1 DEF SparedRun, Live, TypeOK
<1> QED BY <1>2, <1>3, <1>4, <1>5, <1>6, <1>7 DEF RunnerStep

LEMMA FaultStepSpares ==
  ASSUME IInv, SparedInv, FaultStep, NEW q \in Run
  PROVE  SparedRun(q)'
<1>0. TypeOK /\ SparedRun(q)
  BY DEF IInv, SparedInv
<1>1. CASE serverRestarts
  BY <1>0, <1>1 DEF serverRestarts, NoCall, SparedRun, Live, TypeOK, row, Caller
<1>2. CASE runnerRestarts
  BY <1>0, <1>2 DEF runnerRestarts, SparedRun, Live, TypeOK, row, server
<1>3. CASE \E r \in Run : streamLost(r) \/ uploadLost(r)
  <2>1. UNCHANGED <<batch, queue, job, ctx, ran, reaping, age, status, fin>>
    BY <1>3 DEF streamLost, uploadLost, row, server, runner
  <2> QED BY <1>0, <2>1, ServerSpares
<1> QED BY <1>1, <1>2, <1>3 DEF FaultStep

LEMMA TickSpares ==
  ASSUME OneAtATime, IInv, SparedInv, tick, NEW q \in Run
  PROVE  SparedRun(q)'
<1>0. TypeOK /\ SparedRun(q)
  BY DEF IInv, SparedInv
<1>1. /\ batch = {} /\ ~CanStart(q) /\ ~TimerDue(q)
      /\ UNCHANGED <<status, fin, reaping, batch, queue, job, ctx>>
      /\ age'[q] = IF Unfinished(q) /\ age[q] < runDeadline(q) THEN age[q] + 1 ELSE age[q]
      /\ ran'[q] = IF job[q] = "exec" /\ ran[q] < Timeout[q] THEN ran[q] + 1 ELSE ran[q]
  BY DEF tick, server
<1>2. job[q] # "queued"
  <2>1. queue = {q} => IsFirst(q, queue)
    BY DEF IsFirst
  <2> QED BY <1>0, <1>1, <2>1 DEF SparedRun, CanStart
<1>3. /\ job[q] = "exec" /\ ctx[q] = "live" => age'[q] <= ran'[q]
      /\ ran'[q] <= Timeout[q]
  BY <1>0, <1>1, ConstantsOK DEF SparedRun, TimerDue, OneAtATime, TypeOK
<1> QED BY <1>0, <1>1, <1>2, <1>3 DEF SparedRun, Live

LEMMA NextSpared == OneAtATime /\ IInv /\ SparedInv /\ [Next]_vars => SparedInv'
<1> SUFFICES ASSUME OneAtATime, IInv, SparedInv, [Next]_vars, NEW q \in Run
             PROVE  SparedRun(q)'
  BY DEF SparedInv
<1>1. CASE checkinAnswered \/ \E r \in Run : buildDispatch(r)
  BY <1>1, CheckinSpares
<1>2. CASE reapSnapshot \/ \E r \in Run : reapNext(r)
  BY <1>2, ReaperSpares
<1>3. CASE tick
  BY <1>3, TickSpares
<1>4. CASE \E c \in Caller, r \in Run : FinStep(c, r)
  BY <1>4, FinStepSpares
<1>5. CASE \E r \in Run : StreamStep(r) \/ CancelStep(r) \/ UploadStep(r) \/ RunnerStep(r)
  BY <1>5, StreamStepSpares, UploadStepSpares, RunnerStepSpares
<1>6. CASE FaultStep
  BY <1>6, FaultStepSpares
<1>7. CASE UNCHANGED vars
  BY <1>7 DEF SparedInv, SparedRun, Live, vars, row, server, runner
<1> QED BY <1>1, <1>2, <1>3, <1>4, <1>5, <1>6, <1>7 DEF Next

\* With one job per check-in and a timeout on each, the reaper ends no run that
\* its runner still executes inside that timeout: whatever restarts, breaks, is
\* cancelled or is reported late.  (The second job of a check-in waits for the
\* first while its age grows, and a job without a timeout has no clock to be
\* held against; of those the reaper is not shown to be right.)
THEOREM ReaperNeverTooEarly ==
  ASSUME OneAtATime
  PROVE  Spec => []ReaperSparesLive
<1>1. Spec => []SparedInv
  BY InitSpared, NextSpared, Invariance, PTL DEF Spec
<1>2. SparedInv => ReaperSparesLive
  BY DEF SparedInv, SparedRun, ReaperSparesLive
<1> QED BY <1>1, <1>2, PTL
=============================================================================
