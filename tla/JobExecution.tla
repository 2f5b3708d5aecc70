---------------------------- MODULE JobExecution ----------------------------
(***************************************************************************)
(* One dispatch on the runner, from runDispatch to its return: Execute, the *)
(* script's process group, the readers of its two pipes, the upload of a    *)
(* streaming job, the bounded channel of updates with the request that      *)
(* drains it, the poll for a cancellation, and os/exec's own goroutine that *)
(* signals the group when the context ends.                                 *)
(*                                                                          *)
(* The process group is the script (leader) and one child of it.  A chunk   *)
(* stands for what one Read returns.  What the server does with the updates *)
(* and the payload is RunLifecycle; here both requests just work or break.  *)
(***************************************************************************)
EXTENDS Integers, Sequences, FiniteSets

CONSTANTS
  Streams,     \* {TRUE}, {FALSE} or both: is capture = "stream"
  Stubborn,    \* the processes that may ignore SIGTERM
  Faults,      \* of "stream" (the update request breaks), "shutdown" (SIGTERM
               \* to the runner), "cancel" (an operator asks for a stop)
  Timed,       \* whether the dispatch has a timeout
  MaxChunks,   \* how much a run writes to each pipe
  PipeCap,     \* what a pipe holds
  ChanCap      \* what the channel of updates holds (64 in the code)

Member == {"leader", "child"}
Pipe   == {"stdout", "stderr"}

ASSUME ConstantsOK ==
  /\ Streams \subseteq BOOLEAN /\ Timed \in BOOLEAN
  /\ Stubborn \subseteq Member /\ Faults \subseteq {"stream", "shutdown", "cancel"}
  /\ MaxChunks \in [Pipe -> Nat] /\ PipeCap \in Nat \ {0} /\ ChanCap \in Nat \ {0}

VARIABLES
  \* what is dispatched, fixed at the start
  streaming,      \* the script's stdout is the backup
  stubborn,       \* who ignores SIGTERM
  quiet,          \* who does not hold the pipes (its output is redirected)
  \* the contexts: runDispatch's, Execute's own derived from it, the process's
  outer, inner, stopping,
  \* the goroutine of runDispatch and Execute
  main, waitErr, verdict,
  \* the process group and its pipes
  proc, exit, signalled, pipe, written,
  \* the readers, and how much they passed on
  reader, got, uploadFailed,
  \* exec.Cmd.watchCtx
  killer,
  \* the updates: the channel, its consumer, the request, what it carried
  updates, closed, encoder, request, wire,
  \* watchForCancel
  watcher, watchDone

job      == <<streaming, stubborn, quiet>>
contexts == <<outer, inner, stopping>>
control  == <<main, waitErr, verdict>>
group    == <<proc, exit, signalled>>
pipes    == <<pipe, written>>
readers  == <<reader, got, uploadFailed>>
channel  == <<updates, closed>>
sink     == <<encoder, request, wire>>
watch    == <<watcher, watchDone>>
vars     == <<job, contexts, control, group, pipes, readers, killer, channel, sink, watch>>

-----------------------------------------------------------------------------
Update  == {"started", "stdout", "stderr", "note", "finished"}
CtxErr  == {"live", "cancelled", "expired"}

TypeOK ==
  /\ streaming \in BOOLEAN /\ stubborn \in SUBSET Member /\ quiet \in SUBSET {"child"}
  /\ outer \in CtxErr /\ inner \in CtxErr /\ stopping \in BOOLEAN
  /\ main \in {"start", "prepare", "reading", "wait", "check", "verdict", "note",
               "finish", "unwatch", "join", "close", "await", "returned"}
  /\ waitErr \in {"none", "nil", "exit", "ctx"}
  /\ verdict \in {"none", "success", "failed", "error"}
  /\ proc \in [Member -> {"none", "alive", "gone"}] /\ exit \in {"none", "zero", "nonzero"}
  /\ signalled \in SUBSET Member
  /\ pipe \in [Pipe -> 0..PipeCap] /\ \A s \in Pipe : written[s] \in 0..MaxChunks[s]
  /\ reader \in [Pipe -> {"none", "reading", "sending", "uploading", "broken",
                          "aborting", "draining", "done"}]
  /\ \A s \in Pipe : got[s] \in 0..written[s]
  /\ uploadFailed \in BOOLEAN
  /\ killer \in {"none", "watching", "grace", "killed", "done"}
  /\ Len(updates) <= ChanCap /\ \A i \in DOMAIN updates : updates[i] \in Update
  /\ closed \in BOOLEAN
  /\ encoder \in {"running", "dead", "done"} /\ request \in {"open", "broken"}
  /\ \A i \in DOMAIN wire : wire[i] \in Update
  /\ watcher \in {"idle", "polling", "gone"} /\ watchDone \in BOOLEAN

Init ==
  /\ streaming \in Streams /\ stubborn \in SUBSET Stubborn /\ quiet \in SUBSET {"child"}
  /\ outer = "live" /\ inner = "live" /\ stopping = FALSE
  /\ main = "start" /\ waitErr = "none" /\ verdict = "none"
  /\ proc = [m \in Member |-> "none"] /\ exit = "none" /\ signalled = {}
  /\ pipe = [s \in Pipe |-> 0] /\ written = [s \in Pipe |-> 0]
  /\ reader = [s \in Pipe |-> "none"] /\ got = [s \in Pipe |-> 0]
  /\ uploadFailed = FALSE
  /\ killer = "none"
  /\ updates = <<>> /\ closed = FALSE
  /\ encoder = "running" /\ request = "open" /\ wire = <<>>
  /\ watcher = "idle" /\ watchDone = FALSE

-----------------------------------------------------------------------------
(* The contexts.  A derived context takes its parent's error unless it has  *)
(* one of its own already.                                                  *)

EndOuter(err) ==
  /\ outer' = IF outer = "live" THEN err ELSE outer
  /\ inner' = IF inner = "live" /\ outer = "live" THEN err ELSE inner

\* context.WithTimeout.
expires ==
  /\ Timed /\ outer = "live" /\ main # "returned"
  /\ EndOuter("expired")
  /\ UNCHANGED <<job, stopping, control, group, pipes, readers, killer, channel, sink, watch>>

\* The runner itself is told to stop: the context of the agent ends.
shutdown ==
  /\ "shutdown" \in Faults /\ ~stopping /\ main # "returned"
  /\ stopping' = TRUE
  /\ EndOuter("cancelled")
  /\ UNCHANGED <<job, control, group, pipes, readers, killer, channel, sink, watch>>

-----------------------------------------------------------------------------
(* The updates.                                                             *)

\* (slip) The channel is taken for one that never blocks.
emitUnbounded(u) == updates' = Append(updates, u) /\ UNCHANGED closed

emit(u) == Len(updates) < ChanCap /\ updates' = Append(updates, u) /\ UNCHANGED closed

\* The encoder writes one update into the request's body; when the request is
\* gone the write fails, and nobody reads the channel any more.
encode ==
  /\ encoder = "running" /\ updates # <<>>
  /\ updates' = Tail(updates)
  /\ IF request = "open" THEN wire' = Append(wire, Head(updates)) /\ UNCHANGED encoder
                         ELSE encoder' = "dead" /\ UNCHANGED wire
  /\ UNCHANGED <<job, contexts, control, group, pipes, readers, killer, closed, request, watch>>

encodeEnd ==
  /\ encoder = "running" /\ updates = <<>> /\ closed
  /\ encoder' = "done"
  /\ UNCHANGED <<job, contexts, control, group, pipes, readers, killer, channel, request, wire, watch>>

\* The connection breaks, the server answers before the body has ended, or the
\* request is given up because the runner stops: its context is the agent's.
requestBreaks ==
  /\ request = "open" /\ main # "returned"
  /\ "stream" \in Faults \/ stopping
  /\ request' = "broken"
  /\ UNCHANGED <<job, contexts, control, group, pipes, readers, killer, channel, encoder, wire, watch>>

-----------------------------------------------------------------------------
(* The process group.                                                       *)

Alive   == {m \in Member : proc[m] = "alive"}
Writers == Alive \ quiet

\* One that does not simply die of SIGTERM may still start something.
forks ==
  /\ proc["leader"] = "alive" /\ proc["child"] = "none"
  /\ "leader" \in signalled => "leader" \in stubborn
  /\ proc' = [proc EXCEPT !["child"] = "alive"]
  /\ UNCHANGED <<job, contexts, control, exit, signalled, pipes, readers, killer, channel, sink, watch>>

writes(s) ==
  /\ Writers # {} /\ written[s] < MaxChunks[s] /\ pipe[s] < PipeCap
  /\ pipe' = [pipe EXCEPT ![s] = @ + 1]
  /\ written' = [written EXCEPT ![s] = @ + 1]
  /\ UNCHANGED <<job, contexts, control, group, readers, killer, channel, sink, watch>>

\* By itself, or because it was signalled: a handler may well exit 0.
exits(m) ==
  /\ m \in Alive
  /\ proc' = [proc EXCEPT ![m] = "gone"]
  /\ exit' \in IF m = "leader" THEN {"zero", "nonzero"} ELSE {exit}
  /\ UNCHANGED <<job, contexts, control, signalled, pipes, readers, killer, channel, sink, watch>>

\* SIGKILL to the members in S.
Kill(S) ==
  /\ proc' = [m \in Member |-> IF m \in S \cap Alive THEN "gone" ELSE proc[m]]
  /\ exit' = IF "leader" \in S \cap Alive THEN "nonzero" ELSE exit
  /\ UNCHANGED signalled

\* (slip) exec.CommandContext as it comes: the signal goes to the process alone.
signalLeader ==
  /\ killer = "watching" /\ inner # "live"
  /\ killer' = "grace"
  /\ signalled' = {"leader"} \cap Alive
  /\ UNCHANGED <<job, contexts, control, proc, exit, pipes, readers, channel, sink, watch>>

\* watchCtx: cmd.Cancel signals the group with SIGTERM.
signalGroup ==
  /\ killer = "watching" /\ inner # "live"
  /\ killer' = "grace"
  /\ signalled' = Alive
  /\ UNCHANGED <<job, contexts, control, proc, exit, pipes, readers, channel, sink, watch>>

\* After WaitDelay, Process.Kill: the leader alone.  The pipes stay open, since
\* StdoutPipe leaves os/exec no copying goroutine whose pipe it would close.
waitDelay ==
  /\ killer = "grace"
  /\ killer' = "killed"
  /\ Kill({"leader"})
  /\ UNCHANGED <<job, contexts, control, pipes, readers, channel, sink, watch>>

-----------------------------------------------------------------------------
(* The readers.                                                             *)

EOF(s) == pipe[s] = 0 /\ Writers = {}

readerRest == UNCHANGED <<job, control, group, killer, sink, watch>>

Uploads(s) == streaming /\ s = "stdout"

\* streamPipe: Read, emit, and again.
readChunk(s) ==
  /\ reader[s] = "reading" /\ pipe[s] > 0
  /\ pipe' = [pipe EXCEPT ![s] = @ - 1]
  /\ reader' = [reader EXCEPT ![s] = "sending"]
  /\ UNCHANGED <<contexts, written, got, uploadFailed, channel>> /\ readerRest

emitChunk(s) ==
  /\ reader[s] = "sending"
  /\ emit(s)
  /\ reader' = [reader EXCEPT ![s] = "reading"]
  /\ got' = [got EXCEPT ![s] = @ + 1]
  /\ UNCHANGED <<contexts, pipes, uploadFailed>> /\ readerRest

readEOF(s) ==
  /\ reader[s] \in {"reading", "draining"} /\ EOF(s)
  /\ reader' = [reader EXCEPT ![s] = "done"]
  /\ UNCHANGED <<contexts, pipes, got, uploadFailed, channel>> /\ readerRest

\* The transport reads the body.
uploadChunk(s) ==
  /\ reader[s] = "uploading" /\ pipe[s] > 0
  /\ pipe' = [pipe EXCEPT ![s] = @ - 1]
  /\ got' = [got EXCEPT ![s] = @ + 1]
  /\ UNCHANGED <<contexts, written, reader, uploadFailed, channel>> /\ readerRest

uploadAnswered(s) ==
  /\ reader[s] = "uploading" /\ EOF(s)
  /\ reader' = [reader EXCEPT ![s] = "done"]
  /\ UNCHANGED <<contexts, pipes, got, uploadFailed, channel>> /\ readerRest

\* The upload comes back with an error: its own, or the context's.
uploadBreaks(s) ==
  /\ reader[s] = "uploading"
  /\ reader' = [reader EXCEPT ![s] = "broken"]
  /\ UNCHANGED <<contexts, pipes, got, uploadFailed, channel>> /\ readerRest

\* (slip) What is left of the output is drained, and that is all.
uploadIgnored(s) ==
  /\ reader[s] = "broken"
  /\ reader' = [reader EXCEPT ![s] = "draining"]
  /\ UNCHANGED <<contexts, pipes, got, uploadFailed, channel>> /\ readerRest

\* An upload that was not interrupted fails the run and stops the script.
uploadBlamed(s) ==
  /\ reader[s] = "broken"
  /\ uploadFailed' = (inner = "live")
  /\ reader' = [reader EXCEPT ![s] = IF inner = "live" THEN "aborting" ELSE "draining"]
  /\ UNCHANGED <<contexts, pipes, got, channel>> /\ readerRest

abort(s) ==
  /\ reader[s] = "aborting"
  /\ inner' = IF inner = "live" THEN "cancelled" ELSE inner
  /\ reader' = [reader EXCEPT ![s] = "draining"]
  /\ UNCHANGED <<outer, stopping, pipes, got, uploadFailed, channel>> /\ readerRest

drainChunk(s) ==
  /\ reader[s] = "draining" /\ pipe[s] > 0
  /\ pipe' = [pipe EXCEPT ![s] = @ - 1]
  /\ UNCHANGED <<contexts, written, reader, got, uploadFailed, channel>> /\ readerRest

-----------------------------------------------------------------------------
(* The watch for a cancellation.                                            *)

watchRest == UNCHANGED <<job, stopping, control, group, pipes, readers, killer, channel, sink, watchDone>>

poll ==
  /\ watcher = "idle"
  /\ watcher' = "polling"
  /\ UNCHANGED <<outer, inner>> /\ watchRest

\* An answer, or the error the context gives the request when it ends.
pollAnswered ==
  /\ watcher = "polling"
  /\ \/ watcher' = "idle" /\ UNCHANGED <<outer, inner>>
     \/ /\ "cancel" \in Faults
        /\ EndOuter("cancelled")
        /\ watcher' = "gone"
  /\ watchRest

watchEnds ==
  /\ watcher = "idle" /\ (watchDone \/ outer # "live")
  /\ watcher' = "gone"
  /\ UNCHANGED <<outer, inner>> /\ watchRest

-----------------------------------------------------------------------------
(* runDispatch and Execute.                                                 *)

Goto(to) == main' = to

emitStarted ==
  /\ main = "start"
  /\ emit("started")
  /\ Goto("prepare")
  /\ UNCHANGED <<job, contexts, waitErr, verdict, group, pipes, readers, killer, sink, watch>>

\* MkdirTemp, prepare, the pipes or Start refuse; Start does when the context
\* has ended.
prepareFails ==
  /\ main = "prepare"
  /\ verdict' = "error"
  /\ Goto("finish")
  /\ UNCHANGED <<job, contexts, waitErr, group, pipes, readers, killer, channel, sink, watch>>

starts ==
  /\ main = "prepare" /\ inner = "live"
  /\ proc' = [proc EXCEPT !["leader"] = "alive"]
  /\ reader' = [s \in Pipe |-> IF Uploads(s) THEN "uploading" ELSE "reading"]
  /\ killer' = "watching"
  /\ Goto("reading")
  /\ UNCHANGED <<job, contexts, waitErr, verdict, exit, signalled, pipes, got, uploadFailed, channel, sink, watch>>

\* (slip) wg.Add(1): only the payload is waited for.
waitsForStdout ==
  /\ main = "reading" /\ reader["stdout"] = "done"
  /\ Goto("wait")
  /\ UNCHANGED <<job, contexts, waitErr, verdict, group, pipes, readers, killer, channel, sink, watch>>

\* wg.Wait.
readersDone ==
  /\ main = "reading" /\ \A s \in Pipe : reader[s] = "done"
  /\ Goto("wait")
  /\ UNCHANGED <<job, contexts, waitErr, verdict, group, pipes, readers, killer, channel, sink, watch>>

\* cmd.Wait: the exit status, or the context's error if the context ended before
\* it: watchCtx, which has been waiting for either, is then bound to signal.
cmdWait ==
  /\ main = "wait" /\ proc["leader"] = "gone"
  /\ killer = "watching" => inner = "live"
  /\ waitErr' = IF exit = "nonzero" THEN "exit"
                ELSE IF killer = "watching" THEN "nil" ELSE "ctx"
  /\ killer' = IF killer = "watching" THEN "done" ELSE "killed"
  /\ Goto("check")
  /\ UNCHANGED <<job, contexts, verdict, group, pipes, readers, channel, sink, watch>>

\* (slip) The signal goes to the interpreter, not to its group.
killLeader ==
  /\ main = "check"
  /\ IF inner # "live" THEN Kill({"leader"}) ELSE UNCHANGED group
  /\ Goto("verdict")
  /\ UNCHANGED <<job, contexts, waitErr, verdict, pipes, readers, killer, channel, sink, watch>>

killProcessGroup ==
  /\ main = "check"
  /\ IF inner # "live" THEN Kill(Member) ELSE UNCHANGED group
  /\ Goto("verdict")
  /\ UNCHANGED <<job, contexts, waitErr, verdict, pipes, readers, killer, channel, sink, watch>>

\* The exit code and the error as the server reads them.
ExitVerdict == CASE waitErr = "nil"  -> "success"
                 [] waitErr = "exit" -> "failed"
                 [] OTHER            -> "error"

Verdict == IF inner = "expired" \/ uploadFailed THEN "error" ELSE ExitVerdict

decides ==
  /\ main = "verdict"
  /\ verdict' = Verdict
  /\ Goto(IF inner = "live" /\ streaming /\ ~uploadFailed /\ got["stdout"] > 0
          THEN "note" ELSE "finish")
  /\ UNCHANGED <<job, contexts, waitErr, group, pipes, readers, killer, channel, sink, watch>>

emitNote ==
  /\ main = "note"
  /\ emit("note")
  /\ Goto("finish")
  /\ UNCHANGED <<job, contexts, waitErr, verdict, group, pipes, readers, killer, sink, watch>>

emitFinished ==
  /\ main = "finish"
  /\ emit("finished")
  /\ Goto("unwatch")
  /\ UNCHANGED <<job, contexts, waitErr, verdict, group, pipes, readers, killer, sink, watch>>

\* stopWatching: the watcher is told, and waited for.
unwatch ==
  /\ main = "unwatch"
  /\ watchDone' = TRUE
  /\ Goto("join")
  /\ UNCHANGED <<job, contexts, waitErr, verdict, group, pipes, readers, killer, channel, sink, watcher>>

join ==
  /\ main = "join" /\ watcher = "gone"
  /\ Goto("close")
  /\ UNCHANGED <<job, contexts, waitErr, verdict, group, pipes, readers, killer, channel, sink, watch>>

closeUpdates ==
  /\ main = "close"
  /\ closed' = TRUE
  /\ Goto("await")
  /\ UNCHANGED <<job, contexts, waitErr, verdict, group, pipes, readers, killer, updates, sink, watch>>

\* The request is over: answered after its last line, or broken.
returns ==
  /\ main = "await" /\ (encoder = "done" \/ request = "broken")
  /\ Goto("returned")
  /\ UNCHANGED <<job, contexts, waitErr, verdict, group, pipes, readers, killer, channel, sink, watch>>

-----------------------------------------------------------------------------
MainStep ==
  \/ emitStarted \/ prepareFails \/ starts \/ readersDone \/ cmdWait \/ killProcessGroup
  \/ decides \/ emitNote \/ emitFinished \/ unwatch \/ join \/ closeUpdates \/ returns

ReaderStep(s) == \/ readChunk(s) \/ emitChunk(s) \/ readEOF(s)
                 \/ uploadBlamed(s) \/ abort(s) \/ drainChunk(s)
UploadStep(s) == uploadChunk(s) \/ uploadAnswered(s) \/ uploadBreaks(s)

Next ==
  \/ MainStep \/ expires \/ shutdown
  \/ encode \/ encodeEnd \/ requestBreaks
  \/ forks \/ signalGroup \/ waitDelay
  \/ \E s \in Pipe : writes(s) \/ ReaderStep(s) \/ UploadStep(s)
  \/ \E m \in Member : exits(m)
  \/ poll \/ pollAnswered \/ watchEnds

Spec == Init /\ [][Next]_vars

\* The runner's own goroutines run, the timers fire, the update request takes
\* what it is given, and the end of the context reaches an upload and a poll.
\* A process that minds SIGTERM exits after it; nothing is asked of one that
\* does not, of a script left alone, of the server's answer to an upload or poll.
Fairness ==
  /\ WF_vars(MainStep) /\ WF_vars(expires) /\ WF_vars(encode) /\ WF_vars(encodeEnd)
  /\ WF_vars(signalGroup) /\ WF_vars(waitDelay) /\ SF_vars(watchEnds)
  /\ WF_vars(outer # "live" /\ pollAnswered)
  /\ \A s \in Pipe : WF_vars(ReaderStep(s)) /\ WF_vars(inner # "live" /\ uploadBreaks(s))
  /\ \A m \in Member : WF_vars(m \in signalled \ stubborn /\ exits(m))

FairSpec == Spec /\ Fairness

-----------------------------------------------------------------------------
(* What must hold.                                                          *)

\* The server reads one "started", then output, then one "finished" and
\* nothing more: no reader is still emitting when the verdict goes out, nor
\* when the channel is closed under it.
FinishedIsLast ==
  /\ \A i \in DOMAIN wire : /\ wire[i] = "started" <=> i = 1
                            /\ wire[i] = "finished" => i = Len(wire)
  /\ main \in {"finish", "unwatch", "join", "close", "await", "returned"} =>
       \A s \in Pipe : reader[s] \in {"none", "done"}

\* A run reported as successful has handed over all its script and the
\* script's children ever wrote: to the server, if it is the backup.
SuccessIsComplete ==
  verdict = "success" => got = written /\ ~uploadFailed

\* Stopping a run stops all of it: once a run that was signalled is reported,
\* no process of its group is left, whoever ignored the signal.
StoppedIsGone ==
  signalled # {} /\ verdict # "none" => Alive = {}

\* A job with a timeout ends: the check-in loop it blocks gets going again,
\* whatever the script does with SIGTERM.
JobReturns == <>(main = "returned")
=============================================================================
