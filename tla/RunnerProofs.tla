----------------------------- MODULE RunnerProofs -----------------------------
(* Theorems about the runner: its jobs (JobExecution), for every script and   *)
(* fault, every output and every capacity of the pipes and of the channel;    *)
(* and what it does for itself (Upkeep), for any number of runners, keys,     *)
(* authorities and rotations, if the operator waits for two check-ins.        *)
EXTENDS JobExecution, Upkeep, SequenceTheorems, TLAPS
-----------------------------------------------------------------------------
(* The jobs.                                                                  *)
USE ConstantsOK DEF ConstantsOK, job, contexts, control, group, pipes, readers, channel, sink,
                    watch, Member, Pipe

\* The steps of Execute once cmd.Wait has returned, and those after the verdict.
Decided == {"note", "finish", "unwatch", "join", "close", "await", "returned"}
Waited  == {"check", "verdict"} \cup Decided

\* The types, variable by variable.
Controls ==
  /\ streaming \in BOOLEAN /\ stubborn \in SUBSET Member /\ quiet \in SUBSET {"child"}
  /\ outer \in CtxErr /\ inner \in CtxErr /\ stopping \in BOOLEAN
  /\ main \in {"start", "prepare", "reading", "wait"} \cup Waited
  /\ waitErr \in {"none", "nil", "exit", "ctx"}
  /\ verdict \in {"none", "success", "failed", "error"}
  /\ killer \in {"none", "watching", "grace", "killed", "done"}
  /\ closed \in BOOLEAN
  /\ encoder \in {"running", "dead", "done"} /\ request \in {"open", "broken"}
  /\ watcher \in {"idle", "polling", "gone"} /\ watchDone \in BOOLEAN

Processes ==
  /\ proc \in [Member -> {"none", "alive", "gone"}] /\ exit \in {"none", "zero", "nonzero"}
  /\ signalled \in SUBSET Member

\* What a reader has read and not yet emitted; nothing is passed on that was not written.
Held(s) == IF reader[s] = "sending" THEN 1 ELSE 0
Outputs ==
  /\ pipe \in [Pipe -> 0..PipeCap] /\ written \in [Pipe -> Nat] /\ got \in [Pipe -> Nat]
  /\ reader \in [Pipe -> {"none", "reading", "sending", "uploading", "broken",
                          "aborting", "draining", "done"}]
  /\ uploadFailed \in BOOLEAN
  /\ \A s \in Pipe : written[s] <= MaxChunks[s] /\ got[s] + pipe[s] + Held(s) <= written[s]

Channel == updates \in Seq(Update) /\ Len(updates) <= ChanCap /\ wire \in Seq(Update)

Typed == Controls /\ Processes /\ Outputs /\ Channel

\* The readers run while Execute waits for them, and one is done only when all who hold the
\* pipes are gone: nothing comes after it.
Reading ==
  /\ main \in {"start", "prepare"} => /\ \A s \in Pipe : reader[s] = "none"
                                      /\ \A m \in Member : proc[m] = "none"
  /\ main = "reading" => proc["leader"] # "none"
  /\ main \in {"wait"} \cup Waited => \A s \in Pipe : reader[s] \in {"none", "done"}
  /\ main \in {"wait", "check", "verdict"} \/ waitErr # "none" =>
       \A s \in Pipe : reader[s] = "done"
  /\ \A s \in Pipe : reader[s] = "done" =>
       pipe[s] = 0 /\ proc["leader"] = "gone" /\ Writers = {}

\* What is lost of the output is lost by an upload that failed, or after the context ended, and
\* not if cmd.Wait has found nothing wrong.
Blamed == uploadFailed \/ inner # "live"
Complete ==
  /\ reader["stderr"] \notin {"uploading", "broken", "aborting", "draining"}
  /\ uploadFailed => reader["stdout"] \in {"aborting", "draining", "done"}
  /\ \A s \in Pipe : reader[s] \in {"aborting", "draining"} => Blamed
  /\ \A s \in Pipe : got[s] + pipe[s] + Held(s) = written[s] \/ Blamed
  /\ waitErr # "none" => main \in Waited
  /\ waitErr = "nil" => uploadFailed \/ \A s \in Pipe : got[s] = written[s]
  /\ verdict # "none" => main \in Decided
  /\ verdict = "success" => waitErr = "nil" /\ ~uploadFailed

\* Whom watchCtx signalled is killed before the verdict; afterwards nobody is signalled.
Stopped ==
  /\ main \in {"start", "prepare"} => killer = "none"
  /\ killer \in {"none", "watching", "done"} => signalled = {}
  /\ killer = "grace" \/ signalled # {} => inner # "live"
  /\ main \in Waited => killer # "watching" /\ proc["leader"] # "alive"
  /\ main \in {"verdict"} \cup Decided /\ signalled # {} => Alive = {}

\* The updates in the order in which they were emitted: those on the wire, then those in the
\* channel.  (A dead encoder writes no more, whatever is in the channel.)
Has(seq, u) == \E i \in DOMAIN seq : seq[i] = u
Ordered ==
  /\ \A i \in DOMAIN wire : /\ wire[i] = "started" <=> i = 1
                            /\ wire[i] = "finished" => i = Len(wire)
  /\ closed => main \in {"await", "returned"}
  /\ encoder = "done" => closed
  /\ encoder # "dead" =>
       /\ \A i \in DOMAIN updates : /\ updates[i] = "started" <=> wire = <<>> /\ i = 1
                                    /\ updates[i] = "finished" => i = Len(updates)
       /\ main = "start" <=> wire = <<>> /\ updates = <<>>
       /\ Has(wire, "finished") => updates = <<>>
       /\ Has(wire, "finished") \/ Has(updates, "finished") =>
            main \in {"unwatch", "join", "close", "await", "returned"}

IInv == Typed /\ Reading /\ Complete /\ Stopped /\ Ordered
-----------------------------------------------------------------------------
LEMMA InitIInv == Init => IInv
<1> SUFFICES ASSUME Init PROVE IInv
  OBVIOUS
<1> USE DEF Init
<1>0. ConstantsOK
  OBVIOUS
<1>1. Controls /\ Processes
  BY <1>0 DEF Controls, Processes, CtxErr, Waited, Decided
<1>2. Outputs
  <2>1. 0 \in 0..PipeCap /\ \A s \in Pipe : MaxChunks[s] \in Nat
    BY <1>0
  <2>2. \A s \in Pipe : Held(s) = 0 /\ got[s] = 0 /\ pipe[s] = 0 /\ written[s] = 0
    BY DEF Held
  <2>3. \A s \in Pipe : written[s] <= MaxChunks[s] /\ got[s] + pipe[s] + Held(s) <= written[s]
    BY <2>1, <2>2
  <2>4. pipe \in [Pipe -> 0..PipeCap] /\ written \in [Pipe -> Nat] /\ got \in [Pipe -> Nat]
    BY <2>1
  <2> QED
    BY <2>3, <2>4 DEF Outputs
<1>5. Channel
  BY <1>0 DEF Channel
<1>3. Reading /\ Complete
  BY DEF Reading, Complete, Waited, Decided, Held
<1>4. Stopped /\ Ordered
  BY DEF Stopped, Ordered, Waited, Decided, Has
<1> QED
  BY <1>1, <1>2, <1>3, <1>4, <1>5 DEF IInv, Typed
-----------------------------------------------------------------------------
(* The types.  The steps in the groups in which they write variables.         *)
ContextStep == expires \/ shutdown \/ poll \/ pollAnswered \/ watchEnds
RequestStep == encode \/ encodeEnd \/ requestBreaks
ProcessStep == forks \/ signalGroup \/ waitDelay \/ (\E m \in Member : exits(m))
PipeStep(s) == writes(s) \/ ReaderStep(s) \/ UploadStep(s)

LEMMA NextByGroup ==
  [Next]_vars => \/ MainStep \/ ContextStep \/ RequestStep \/ ProcessStep
                 \/ \E s \in Pipe : PipeStep(s)
                 \/ UNCHANGED vars
  BY DEF Next, ContextStep, RequestStep, ProcessStep, PipeStep

LEMMA ControlsStep == Typed /\ [Next]_vars => Controls'
<1> SUFFICES ASSUME Typed, [Next]_vars PROVE Controls'
  OBVIOUS
<1> USE DEF Controls, Processes, Typed, CtxErr
<1>1. CASE MainStep
  <2> USE DEF Waited, Decided
  <2>1. CASE emitStarted
    BY <2>1 DEF emitStarted, Goto, emit
  <2>2. CASE prepareFails
    BY <2>2 DEF prepareFails, Goto
  <2>3. CASE starts
    BY <2>3 DEF starts, Goto
  <2>4. CASE readersDone
    BY <2>4 DEF readersDone, Goto
  <2>5. CASE cmdWait
    BY <2>5 DEF cmdWait, Goto
  <2>6. CASE killProcessGroup
    BY <2>6 DEF killProcessGroup, Goto
  <2>7. CASE decides
    BY <2>7 DEF decides, Goto, Verdict, ExitVerdict
  <2>8. CASE emitNote
    BY <2>8 DEF emitNote, Goto, emit
  <2>9. CASE emitFinished
    BY <2>9 DEF emitFinished, Goto, emit
  <2>10. CASE unwatch
    BY <2>10 DEF unwatch, Goto
  <2>11. CASE join
    BY <2>11 DEF join, Goto
  <2>12. CASE closeUpdates
    BY <2>12 DEF closeUpdates, Goto
  <2>13. CASE returns
    BY <2>13 DEF returns, Goto
  <2> QED
    BY <1>1, <2>1, <2>2, <2>3, <2>4, <2>5, <2>6, <2>7, <2>8, <2>9, <2>10, <2>11, <2>12, <2>13
       DEF MainStep
<1>2. CASE ContextStep
  <2>1. CASE expires
    BY <2>1 DEF expires, EndOuter
  <2>2. CASE shutdown
    BY <2>2 DEF shutdown, EndOuter
  <2>3. CASE poll
    BY <2>3 DEF poll, watchRest
  <2>4. CASE pollAnswered
    BY <2>4 DEF pollAnswered, EndOuter, watchRest
  <2>5. CASE watchEnds
    BY <2>5 DEF watchEnds, watchRest
  <2> QED
    BY <1>2, <2>1, <2>2, <2>3, <2>4, <2>5 DEF ContextStep
<1>3. CASE RequestStep
  <2>1. CASE encode
    BY <2>1 DEF encode
  <2>2. CASE encodeEnd
    BY <2>2 DEF encodeEnd
  <2>3. CASE requestBreaks
    BY <2>3 DEF requestBreaks
  <2> QED
    BY <1>3, <2>1, <2>2, <2>3 DEF RequestStep
<1>4. CASE ProcessStep
  <2>1. /\ killer' \in {"none", "watching", "grace", "killed", "done"}
        /\ UNCHANGED <<job, contexts, control, closed, encoder, request, watch>>
    BY <1>4 DEF ProcessStep, forks, signalGroup, waitDelay, exits
  <2> QED
    BY <2>1
<1>5. ASSUME NEW s \in Pipe, PipeStep(s) PROVE Controls'
  <2>1. /\ inner' \in CtxErr
        /\ UNCHANGED <<job, outer, stopping, control, killer, closed, encoder, request, watch>>
    BY <1>5 DEF PipeStep, writes, UploadStep, uploadChunk, uploadAnswered, uploadBreaks, readerRest,
                ReaderStep, readChunk, emitChunk, readEOF, uploadBlamed, abort, drainChunk, emit
  <2> QED
    BY <2>1
<1>6. CASE UNCHANGED vars
  BY <1>6 DEF vars
<1> QED
  BY <1>1, <1>2, <1>3, <1>4, <1>5, <1>6, NextByGroup

LEMMA ProcessesStep == Typed /\ [Next]_vars => Processes'
<1> SUFFICES ASSUME Typed, [Next]_vars PROVE Processes'
  OBVIOUS
<1> USE DEF Processes, Typed, Alive
<1>1. CASE MainStep
  <2>1. CASE starts
    BY <2>1 DEF starts
  <2>2. CASE killProcessGroup
    BY <2>2 DEF killProcessGroup, Kill
  <2>3. CASE UNCHANGED group
    BY <2>3
  <2> QED
    BY <1>1, <2>1, <2>2, <2>3
    DEF MainStep, emitStarted, prepareFails, readersDone, cmdWait, decides, emitNote, emitFinished,
        unwatch, join, closeUpdates, returns
<1>2. CASE ProcessStep
  <2>1. CASE forks
    BY <2>1 DEF forks
  <2>2. CASE signalGroup
    BY <2>2 DEF signalGroup
  <2>3. CASE waitDelay
    BY <2>3 DEF waitDelay, Kill
  <2>4. ASSUME NEW m \in Member, exits(m) PROVE Processes'
    BY <2>4 DEF exits
  <2> QED
    BY <1>2, <2>1, <2>2, <2>3, <2>4 DEF ProcessStep
<1>3. CASE UNCHANGED group
  BY <1>3
<1>4. ASSUME NEW s \in Pipe, PipeStep(s) PROVE UNCHANGED group
  BY <1>4 DEF PipeStep, writes, UploadStep, uploadChunk, uploadAnswered, uploadBreaks, readerRest,
              ReaderStep, readChunk, emitChunk, readEOF, uploadBlamed, abort, drainChunk
<1>5. ContextStep \/ RequestStep \/ UNCHANGED vars => UNCHANGED group
  BY DEF ContextStep, expires, shutdown, poll, pollAnswered, watchEnds, watchRest, RequestStep,
         encode, encodeEnd, requestBreaks, vars
<1> QED
  BY <1>1, <1>2, <1>3, <1>4, <1>5, NextByGroup

\* What a step of a reader does to its pipe.
LEMMA OutputsStep == Typed /\ [Next]_vars => Outputs'
<1> SUFFICES ASSUME Typed, [Next]_vars PROVE Outputs'
  OBVIOUS
<1> USE DEF Outputs, Typed, Held
<1>1. CASE starts
  BY <1>1 DEF starts
<1>2. CASE UNCHANGED <<pipes, readers>>
  BY <1>2
<1>3. MainStep => starts \/ UNCHANGED <<pipes, readers>>
  BY DEF MainStep, emitStarted, prepareFails, readersDone, cmdWait, decides, emitNote, emitFinished,
         unwatch, join, closeUpdates, returns, killProcessGroup
<1>4. ContextStep \/ RequestStep \/ ProcessStep \/ UNCHANGED vars => UNCHANGED <<pipes, readers>>
  BY DEF ContextStep, expires, shutdown, poll, pollAnswered, watchEnds, watchRest, RequestStep,
         encode, encodeEnd, requestBreaks, ProcessStep, forks, signalGroup, waitDelay, exits, vars
<1>5. ASSUME NEW s \in Pipe, PipeStep(s) PROVE Outputs'
  <2>1. CASE writes(s)
    BY <2>1 DEF writes
  <2>2. CASE readChunk(s)
    BY <2>2 DEF readChunk
  <2>3. CASE emitChunk(s)
    BY <2>3 DEF emitChunk
  <2>4. CASE uploadChunk(s)
    BY <2>4 DEF uploadChunk
  <2>5. CASE drainChunk(s)
    BY <2>5 DEF drainChunk
  <2>6. CASE readEOF(s) \/ uploadAnswered(s) \/ uploadBreaks(s)
    BY <2>6 DEF readEOF, uploadAnswered, uploadBreaks
  <2>7. CASE uploadBlamed(s)
    BY <2>7 DEF uploadBlamed
  <2>8. CASE abort(s)
    BY <2>8 DEF abort
  <2> QED
    BY <1>5, <2>1, <2>2, <2>3, <2>4, <2>5, <2>6, <2>7, <2>8 DEF PipeStep, ReaderStep, UploadStep
<1> QED
  BY <1>1, <1>2, <1>3, <1>4, <1>5, NextByGroup

LEMMA ChannelStep == Typed /\ [Next]_vars => Channel'
<1> SUFFICES ASSUME Typed, [Next]_vars PROVE Channel'
  OBVIOUS
<1> USE DEF Channel, Typed, Update
<1>1. ASSUME NEW u \in Update, emit(u), UNCHANGED wire PROVE Channel'
  BY <1>1, AppendProperties DEF emit
<1>2. CASE UNCHANGED <<updates, wire>>
  BY <1>2
<1>3. CASE RequestStep
  <2>1. CASE encode
    <3>1. Tail(updates) \in Seq(Update) /\ Len(Tail(updates)) <= ChanCap /\ Head(updates) \in Update
      BY <2>1, HeadTailProperties DEF encode
    <3>2. updates' = Tail(updates) /\ (wire' = wire \/ wire' = Append(wire, Head(updates)))
      BY <2>1 DEF encode
    <3>3. Append(wire, Head(updates)) \in Seq(Update)
      BY <3>1, AppendProperties
    <3>4. wire' \in Seq(Update)
      BY <3>2, <3>3
    <3> QED
      BY <3>1, <3>2, <3>4
  <2>2. CASE encodeEnd \/ requestBreaks
    BY <1>2, <2>2 DEF encodeEnd, requestBreaks
  <2> QED
    BY <1>3, <2>1, <2>2 DEF RequestStep
<1>4. MainStep => (\E u \in Update : emit(u) /\ UNCHANGED wire) \/ UNCHANGED <<updates, wire>>
  BY DEF MainStep, emitStarted, emitNote, emitFinished, prepareFails, starts, readersDone, cmdWait,
         killProcessGroup, decides, unwatch, join, closeUpdates, returns
<1>5. ASSUME NEW s \in Pipe, PipeStep(s)
      PROVE  (\E u \in Update : emit(u) /\ UNCHANGED wire) \/ UNCHANGED <<updates, wire>>
  BY <1>5 DEF PipeStep, writes, UploadStep, uploadChunk, uploadAnswered, uploadBreaks, readerRest,
              ReaderStep, readChunk, emitChunk, readEOF, uploadBlamed, abort, drainChunk
<1>6. ContextStep \/ ProcessStep \/ UNCHANGED vars => UNCHANGED <<updates, wire>>
  BY DEF ContextStep, expires, shutdown, poll, pollAnswered, watchEnds, watchRest, ProcessStep,
         forks, signalGroup, waitDelay, exits, vars
<1> QED
  BY <1>1, <1>2, <1>3, <1>4, <1>5, <1>6, NextByGroup

\* What the groups leave alone.
LEMMA ContextFrame ==
  ASSUME ContextStep
  PROVE  /\ UNCHANGED <<job, control, group, pipes, readers, killer, channel, sink>>
         /\ inner # "live" => inner' = inner
  BY DEF ContextStep, expires, shutdown, poll, pollAnswered, watchEnds, watchRest, EndOuter

LEMMA RequestFrame ==
  ASSUME RequestStep
  PROVE  UNCHANGED <<job, inner, control, group, pipes, readers, killer, closed>>
  BY DEF RequestStep, encode, encodeEnd, requestBreaks

\* A process is started only by the leader.
LEMMA ProcessFrame ==
  ASSUME Typed, ProcessStep
  PROVE  /\ UNCHANGED <<job, inner, control, pipes, readers, channel, sink>>
         /\ \A m \in Member : proc'[m] \in {proc[m], "gone"} \/ proc["leader"] = "alive"
         /\ \A m \in Member : proc'[m] = "gone" => proc[m] # "none"
         /\ proc["leader"] = "none" <=> proc'["leader"] = "none"
<1> USE DEF Typed, Processes, Alive
<1>1. CASE forks
  BY <1>1 DEF forks
<1>2. CASE signalGroup
  BY <1>2 DEF signalGroup
<1>3. CASE waitDelay
  BY <1>3 DEF waitDelay, Kill
<1>4. ASSUME NEW m \in Member, exits(m)
      PROVE  /\ UNCHANGED <<job, inner, control, pipes, readers, channel, sink>>
             /\ proc' = [proc EXCEPT ![m] = "gone"] /\ proc[m] = "alive"
  BY <1>4 DEF exits
<1>5. CASE \E m \in Member : exits(m)
  BY <1>4, <1>5
<1> QED
  BY <1>1, <1>2, <1>3, <1>5 DEF ProcessStep

LEMMA PipeFrame ==
  ASSUME NEW s \in Pipe, PipeStep(s)
  PROVE  /\ UNCHANGED <<job, control, group, killer, sink, closed>>
         /\ inner # "live" => inner' = inner
  BY DEF PipeStep, writes, UploadStep, uploadChunk, uploadAnswered, uploadBreaks, readerRest,
         ReaderStep, readChunk, emitChunk, readEOF, uploadBlamed, abort, drainChunk, emit
-----------------------------------------------------------------------------
LEMMA ReadingStep == Typed /\ Reading /\ Stopped /\ [Next]_vars => Reading'
<1> SUFFICES ASSUME Typed, Reading, Stopped, [Next]_vars PROVE Reading'
  OBVIOUS
<1> USE DEF Typed, Controls, Processes, Outputs, Reading, Alive, Writers, Waited, Decided
<1>1. CASE UNCHANGED <<quiet, main, waitErr, proc, reader, pipe>>
  BY <1>1
<1>2. CASE ContextStep \/ RequestStep \/ UNCHANGED vars
  BY <1>1, <1>2, ContextFrame, RequestFrame DEF vars
<1>3. CASE ProcessStep
  BY <1>3, ProcessFrame
<1>4. ASSUME NEW s \in Pipe, PipeStep(s) PROVE Reading'
  <2>1. UNCHANGED <<quiet, main, waitErr, proc>>
    BY <1>4, PipeFrame
  <2>2. CASE writes(s)
    BY <2>1, <2>2 DEF writes
  <2>3. CASE readEOF(s) \/ uploadAnswered(s)
    <3>1. /\ reader[s] \notin {"none", "done"} /\ reader' = [reader EXCEPT ![s] = "done"]
          /\ pipe' = pipe /\ pipe[s] = 0 /\ Writers = {}
      BY <2>3 DEF readEOF, uploadAnswered, EOF
    <3>2. main = "reading" /\ proc["leader"] = "gone"
      BY <3>1
    <3> QED
      BY <2>1, <3>1, <3>2
  <2>4. CASE \/ readChunk(s) \/ emitChunk(s) \/ uploadBlamed(s) \/ abort(s) \/ drainChunk(s)
             \/ uploadChunk(s) \/ uploadBreaks(s)
    <3>1. /\ reader[s] \notin {"none", "done"} /\ reader'[s] \notin {"none", "done"}
          /\ \A q \in Pipe \ {s} : reader'[q] = reader[q] /\ pipe'[q] = pipe[q]
      BY <2>4 DEF readChunk, emitChunk, uploadBlamed, abort, drainChunk, uploadChunk, uploadBreaks
    <3> QED
      BY <2>1, <3>1
  <2> QED
    BY <1>4, <2>2, <2>3, <2>4 DEF PipeStep, ReaderStep, UploadStep
<1>5. CASE MainStep
  <2>1. CASE emitStarted \/ prepareFails
    BY <2>1 DEF emitStarted, prepareFails, Goto
  <2>2. CASE starts
    BY <2>2 DEF starts, Goto
  <2>3. CASE readersDone
    BY <2>3 DEF readersDone, Goto
  <2>4. CASE cmdWait
    BY <2>4 DEF cmdWait, Goto
  <2>5. CASE killProcessGroup
    BY <2>5 DEF killProcessGroup, Kill, Goto
  <2>6. CASE decides
    BY <2>6 DEF decides, Goto
  <2>7. CASE emitNote \/ emitFinished \/ unwatch \/ join \/ closeUpdates \/ returns
    <3>1. /\ main \in Decided /\ main' \in Decided
          /\ UNCHANGED <<quiet, waitErr, proc, reader, pipe>>
      BY <2>7 DEF emitNote, emitFinished, unwatch, join, closeUpdates, returns, Goto
    <3> QED
      BY <3>1
  <2> QED
    BY <1>5, <2>1, <2>2, <2>3, <2>4, <2>5, <2>6, <2>7 DEF MainStep
<1> QED
  BY <1>2, <1>3, <1>4, <1>5, NextByGroup
-----------------------------------------------------------------------------
LEMMA CompleteStep == Typed /\ Reading /\ Complete /\ Stopped /\ [Next]_vars => Complete'
<1> SUFFICES ASSUME Typed, Reading, Complete, Stopped, [Next]_vars PROVE Complete'
  OBVIOUS
<1> USE DEF Typed, Controls, Outputs, Reading, Complete, Blamed, Held, Waited, Decided
<1>1. CASE /\ UNCHANGED <<control, pipes, readers>>
           /\ inner # "live" => inner' = inner
  BY <1>1
<1>2. CASE ContextStep \/ RequestStep \/ ProcessStep \/ UNCHANGED vars
  BY <1>1, <1>2, ContextFrame, RequestFrame, ProcessFrame DEF vars
<1>3. ASSUME NEW s \in Pipe, PipeStep(s) PROVE Complete'
  <2>1. UNCHANGED control /\ (inner # "live" => inner' = inner)
    BY <1>3, PipeFrame
  <2>2. CASE writes(s)
    <3>1. /\ Writers # {} /\ pipe' = [pipe EXCEPT ![s] = pipe[s] + 1]
          /\ written' = [written EXCEPT ![s] = written[s] + 1] /\ UNCHANGED <<readers, inner>>
      BY <2>2 DEF writes
    <3>2. waitErr = "none"
      BY <3>1
    <3> QED
      BY <2>1, <3>1, <3>2
  <2>3. ASSUME \/ readChunk(s) \/ emitChunk(s) \/ readEOF(s) \/ uploadBlamed(s) \/ abort(s)
               \/ drainChunk(s) \/ UploadStep(s)
        PROVE  waitErr = "none" /\ reader[s] \notin {"none", "done"} /\ verdict = "none"
    <3>1. reader[s] \notin {"none", "done"}
      BY <2>3 DEF readChunk, emitChunk, readEOF, uploadBlamed, abort, drainChunk, UploadStep,
                  uploadChunk, uploadAnswered, uploadBreaks
    <3> QED
      BY <3>1
  <2>4. CASE readChunk(s)
    BY <2>1, <2>3, <2>4 DEF readChunk
  <2>5. CASE emitChunk(s)
    BY <2>1, <2>3, <2>5 DEF emitChunk
  <2>6. CASE readEOF(s)
    BY <2>1, <2>3, <2>6 DEF readEOF
  <2>7. CASE uploadBlamed(s)
    BY <2>1, <2>3, <2>7 DEF uploadBlamed
  <2>8. CASE abort(s)
    BY <2>1, <2>3, <2>8 DEF abort
  <2>9. CASE drainChunk(s)
    BY <2>1, <2>3, <2>9 DEF drainChunk
  <2>10. CASE uploadChunk(s)
    BY <2>1, <2>3, <2>10 DEF uploadChunk, UploadStep
  <2>11. CASE uploadAnswered(s) \/ uploadBreaks(s)
    BY <2>1, <2>3, <2>11 DEF uploadAnswered, uploadBreaks, UploadStep
  <2> QED
    BY <1>3, <2>2, <2>4, <2>5, <2>6, <2>7, <2>8, <2>9, <2>10, <2>11
    DEF PipeStep, ReaderStep, UploadStep
<1>4. CASE MainStep
  <2>1. CASE emitStarted \/ prepareFails
    BY <2>1 DEF emitStarted, prepareFails, Goto
  <2>2. CASE starts
    BY <2>2 DEF starts, Uploads, Goto
  <2>3. CASE readersDone
    BY <2>3 DEF readersDone, Goto
  \* nothing wrong: the context had not ended, and the readers have passed on everything
  <2>4. CASE cmdWait
    <3>1. /\ main = "wait" /\ main' = "check" /\ UNCHANGED <<inner, verdict, pipes, readers>>
          /\ waitErr' \in {"nil", "exit", "ctx"} /\ (waitErr' = "nil" => inner = "live")
      BY <2>4 DEF cmdWait, Goto
    <3>2. \A s \in Pipe : reader[s] = "done" /\ pipe[s] = 0
      BY <3>1
    <3>3. uploadFailed \/ inner # "live" \/ \A s \in Pipe : got[s] = written[s]
      BY <3>2
    <3> QED
      BY <3>1, <3>2, <3>3
  <2>5. CASE killProcessGroup
    BY <2>5 DEF killProcessGroup, Goto
  <2>6. CASE decides
    <3>1. /\ main = "verdict" /\ main' \in {"note", "finish"}
          /\ UNCHANGED <<inner, waitErr, pipes, readers>>
          /\ verdict' = "success" => waitErr = "nil" /\ ~uploadFailed
      BY <2>6 DEF decides, Goto, Verdict, ExitVerdict
    <3> QED
      BY <3>1
  <2>7. CASE emitNote \/ emitFinished \/ unwatch \/ join \/ closeUpdates \/ returns
    <3>1. /\ main \in Decided /\ main' \in Decided
          /\ UNCHANGED <<inner, waitErr, verdict, pipes, readers>>
      BY <2>7 DEF emitNote, emitFinished, unwatch, join, closeUpdates, returns, Goto
    <3> QED
      BY <3>1
  <2> QED
    BY <1>4, <2>1, <2>2, <2>3, <2>4, <2>5, <2>6, <2>7 DEF MainStep
<1> QED
  BY <1>2, <1>3, <1>4, NextByGroup
-----------------------------------------------------------------------------
LEMMA StoppedStep == Typed /\ Reading /\ Stopped /\ [Next]_vars => Stopped'
<1> SUFFICES ASSUME Typed, Reading, Stopped, [Next]_vars PROVE Stopped'
  OBVIOUS
<1> USE DEF Typed, Controls, Processes, Reading, Stopped, Alive, Waited, Decided
<1>1. CASE UNCHANGED <<main, killer, proc, signalled>> /\ (inner # "live" => inner' = inner)
  BY <1>1
<1>2. CASE ContextStep \/ RequestStep \/ UNCHANGED vars
  BY <1>1, <1>2, ContextFrame, RequestFrame DEF vars
<1>3. ASSUME NEW s \in Pipe, PipeStep(s) PROVE Stopped'
  BY <1>1, <1>3, PipeFrame
<1>4. CASE ProcessStep
  <2>1. UNCHANGED <<main, inner>>
    BY <1>4, ProcessFrame
  <2>2. CASE forks
    <3>1. proc["leader"] = "alive" /\ proc' = [proc EXCEPT !["child"] = "alive"]
          /\ UNCHANGED <<killer, signalled>>
      BY <2>2 DEF forks
    <3>2. main \notin Waited
      BY <3>1
    <3> QED
      BY <2>1, <3>1, <3>2
  <2>3. CASE signalGroup
    BY <2>1, <2>3 DEF signalGroup
  <2>4. CASE waitDelay
    BY <2>1, <2>4 DEF waitDelay, Kill
  <2>5. CASE \E m \in Member : exits(m)
    <3>1. /\ UNCHANGED <<killer, signalled>>
          /\ \A m \in Member : proc'[m] \in {proc[m], "gone"}
      BY <2>5 DEF exits
    <3> QED
      BY <2>1, <3>1
  <2> QED
    BY <1>4, <2>2, <2>3, <2>4, <2>5 DEF ProcessStep
<1>5. CASE MainStep
  <2>1. CASE emitStarted \/ prepareFails
    BY <2>1 DEF emitStarted, prepareFails, Goto
  <2>2. CASE starts
    BY <2>2 DEF starts, Goto
  <2>3. CASE readersDone
    BY <2>3 DEF readersDone, Goto
  <2>4. CASE cmdWait
    BY <2>4 DEF cmdWait, Goto
  <2>5. CASE killProcessGroup
    <3>1. main = "check" /\ main' = "verdict" /\ UNCHANGED <<inner, killer, signalled>>
      BY <2>5 DEF killProcessGroup, Kill, Goto
    <3>2. CASE inner # "live"
      BY <2>5, <3>1, <3>2 DEF killProcessGroup, Kill
    <3>3. CASE inner = "live"
      BY <2>5, <3>1, <3>3 DEF killProcessGroup
    <3> QED
      BY <3>2, <3>3
  <2>6. CASE decides
    BY <2>6 DEF decides, Goto
  <2>7. CASE emitNote \/ emitFinished \/ unwatch \/ join \/ closeUpdates \/ returns
    <3>1. main \in Decided /\ main' \in Decided /\ UNCHANGED <<inner, killer, proc, signalled>>
      BY <2>7 DEF emitNote, emitFinished, unwatch, join, closeUpdates, returns, Goto
    <3> QED
      BY <3>1
  <2> QED
    BY <1>5, <2>1, <2>2, <2>3, <2>4, <2>5, <2>6, <2>7 DEF MainStep
<1> QED
  BY <1>2, <1>3, <1>4, <1>5, NextByGroup
-----------------------------------------------------------------------------
(* The order of the updates.                                                  *)
\* An update that may be emitted now: it is the first one, or the last, or neither.
LEMMA EmitStep ==
  ASSUME Typed, Ordered, NEW u \in Update, emit(u), UNCHANGED <<wire, encoder>>,
         main \notin {"unwatch", "join", "close", "await", "returned"},
         u = "started" <=> main = "start", main' # "start",
         u = "finished" => main' = "unwatch"
  PROVE  Ordered'
<1> USE DEF Typed, Controls, Channel
<1>1. updates' = Append(updates, u) /\ closed' = closed /\ encoder' = encoder /\ wire' = wire
  BY DEF emit
<1>2. ~closed /\ encoder # "done"
  BY DEF Ordered
<1>3. CASE encoder = "dead"
  BY <1>1, <1>2, <1>3 DEF Ordered
<1>4. CASE encoder = "running"
  <2>1. /\ Len(updates') = Len(updates) + 1 /\ updates' # <<>>
        /\ \A i \in 1..Len(updates) : updates'[i] = updates[i]
        /\ updates'[Len(updates) + 1] = u /\ DOMAIN updates' = 1..(Len(updates) + 1)
        /\ DOMAIN updates = 1..Len(updates) /\ Len(updates) \in Nat
        /\ Len(updates) = 0 <=> updates = <<>>
    BY <1>1, AppendProperties, EmptySeq
  <2>2. ~Has(wire, "finished") /\ ~Has(updates, "finished")
    BY <1>4 DEF Ordered
  <2>3. ~Has(wire, "finished")' /\ (Has(updates, "finished")' => u = "finished")
    BY <1>1, <2>1, <2>2 DEF Has
  <2>4. \A i \in DOMAIN updates' : updates'[i] = "finished" => i = Len(updates')
    BY <2>1, <2>2 DEF Has
  <2>5. u = "started" <=> wire = <<>> /\ updates = <<>>
    BY <1>4 DEF Ordered
  <2>6. \A i \in DOMAIN updates' : updates'[i] = "started" <=> wire' = <<>> /\ i = 1
    BY <1>1, <1>4, <2>1, <2>5 DEF Ordered
  <2> QED
    BY <1>1, <1>2, <1>4, <2>1, <2>3, <2>4, <2>6 DEF Ordered
<1> QED
  BY <1>2, <1>3, <1>4

\* Nothing is emitted.
LEMMA SilentStep ==
  ASSUME Ordered, UNCHANGED <<updates, wire, encoder>>,
         main = "start" <=> main' = "start", closed' => main' \in {"await", "returned"},
         closed => closed',
         main \in {"unwatch", "join", "close", "await", "returned"} =>
           main' \in {"unwatch", "join", "close", "await", "returned"}
  PROVE  Ordered'
  BY DEF Ordered, Has

\* The encoder moves the first update from the channel to the wire.
LEMMA EncodeStep == ASSUME Typed, Ordered, encode PROVE Ordered'
<1> USE DEF Typed, Controls, Channel
<1>1. /\ encoder = "running" /\ updates # <<>> /\ updates' = Tail(updates)
      /\ UNCHANGED <<main, closed>>
  BY DEF encode
<1>2. CASE encoder' = "dead" /\ wire' = wire
  BY <1>1, <1>2 DEF Ordered
<1>3. CASE encoder' = encoder /\ wire' = Append(wire, Head(updates))
  <2>0. /\ updates \in Seq(Update) /\ updates # <<>> /\ Len(updates) \in Nat \ {0}
        /\ DOMAIN updates = 1..Len(updates)
    BY <1>1, LenProperties, EmptySeq
  <2>1. /\ Len(updates) \in Nat \ {0} /\ DOMAIN updates = 1..Len(updates)
        /\ Len(updates') = Len(updates) - 1 /\ DOMAIN updates' = 1..(Len(updates) - 1)
        /\ \A i \in DOMAIN updates' : updates'[i] = updates[i + 1]
        /\ updates' = <<>> <=> Len(updates) = 1
        /\ Head(updates) = updates[1]
    <3>1. /\ Tail(updates) \in Seq(Update) /\ Len(Tail(updates)) = Len(updates) - 1
          /\ \A i \in 1..(Len(updates) - 1) : Tail(updates)[i] = updates[i + 1]
          /\ Head(updates) = updates[1]
      BY <2>0, HeadTailProperties
    <3>2. DOMAIN updates' = 1..(Len(updates) - 1)
      BY <1>1, <3>1, LenProperties
    <3>3. updates' = <<>> <=> Len(updates') = 0
      BY <1>1, <3>1, EmptySeq
    <3> QED
      BY <1>1, <2>0, <3>1, <3>2, <3>3
  <2>2. /\ Len(wire) \in Nat /\ DOMAIN wire = 1..Len(wire) /\ (Len(wire) = 0 <=> wire = <<>>)
        /\ Len(wire') = Len(wire) + 1 /\ DOMAIN wire' = 1..(Len(wire) + 1) /\ wire' # <<>>
        /\ \A i \in 1..Len(wire) : wire'[i] = wire[i]
        /\ wire'[Len(wire) + 1] = updates[1]
    BY <1>1, <1>3, <2>1, AppendProperties, EmptySeq
  <2>3. ~Has(wire, "finished")
    BY <1>1 DEF Ordered
  <2>4. updates[1] = "finished" => updates' = <<>>
    BY <1>1, <2>1 DEF Ordered
  <2>5. /\ \A i \in DOMAIN wire' : wire'[i] = "finished" => i = Len(wire')
        /\ Has(wire, "finished")' => updates[1] = "finished"
    <3>1. \A i \in 1..Len(wire) : wire'[i] # "finished"
      BY <2>2, <2>3 DEF Has
    <3>2. \A i \in DOMAIN wire' : i \in 1..Len(wire) \/ i = Len(wire')
      BY <2>2
    <3>3. wire'[Len(wire')] = updates[1]
      BY <2>2
    <3> QED
      BY <3>1, <3>2, <3>3 DEF Has
  <2>6. \A i \in DOMAIN wire' : wire'[i] = "started" <=> i = 1
    <3>1. \A i \in 1..Len(wire) : wire'[i] = "started" <=> i = 1
      BY <2>2 DEF Ordered
    <3>2. updates[1] = "started" <=> wire = <<>>
      BY <1>1, <2>1 DEF Ordered
    <3>3. wire'[Len(wire) + 1] = "started" <=> Len(wire) + 1 = 1
      BY <2>2, <3>2
    <3>4. \A i \in DOMAIN wire' : i \in 1..Len(wire) \/ i = Len(wire) + 1
      BY <2>2
    <3> QED
      BY <3>1, <3>3, <3>4
  <2>7. \A i \in DOMAIN updates' : /\ updates'[i] = "started" <=> wire' = <<>> /\ i = 1
                                   /\ updates'[i] = "finished" => i = Len(updates')
    BY <1>1, <2>1, <2>2 DEF Ordered
  <2>8. /\ Has(wire, "finished")' \/ Has(updates, "finished")' => Has(updates, "finished")
        /\ main # "start"
    BY <1>1, <2>1, <2>5 DEF Ordered, Has
  <2> QED
    BY <1>1, <1>3, <2>2, <2>4, <2>5, <2>6, <2>7, <2>8 DEF Ordered
<1> QED
  BY <1>2, <1>3 DEF encode

LEMMA OrderedStep == Typed /\ Reading /\ Ordered /\ [Next]_vars => Ordered'
<1> SUFFICES ASSUME Typed, Reading, Ordered, [Next]_vars PROVE Ordered'
  OBVIOUS
<1> USE DEF Typed, Controls
<1>0. main \in {"start", "prepare", "reading", "wait"} \cup Waited
  OBVIOUS
<1>1. CASE UNCHANGED <<updates, wire, encoder, main, closed>>
  BY <1>1, SilentStep DEF Ordered
<1>2. CASE ContextStep \/ ProcessStep \/ UNCHANGED vars
  BY <1>1, <1>2, ContextFrame, ProcessFrame DEF vars
<1>3. CASE RequestStep
  <2>1. CASE encodeEnd
    BY <2>1 DEF encodeEnd, Ordered, Has
  <2>2. CASE requestBreaks
    BY <1>1, <2>2 DEF requestBreaks
  <2> QED
    BY <1>3, <2>1, <2>2, EncodeStep DEF RequestStep
<1>4. ASSUME NEW s \in Pipe, PipeStep(s) PROVE Ordered'
  <2>1. CASE emitChunk(s)
    <3>1. main = "reading"
      BY <1>0, <2>1 DEF emitChunk, Reading, Waited, Decided
    <3>2. s \in Update /\ s \notin {"started", "finished"}
      BY DEF Update
    <3> QED
      BY <2>1, <3>1, <3>2, EmitStep DEF emitChunk, readerRest
  <2>2. CASE UNCHANGED channel
    BY <1>1, <1>4, <2>2, PipeFrame
  <2> QED
    BY <1>4, <2>1, <2>2 DEF PipeStep, writes, UploadStep, uploadChunk, uploadAnswered, uploadBreaks,
                            ReaderStep, readChunk, readEOF, uploadBlamed, abort, drainChunk
<1>5. CASE MainStep
  <2>1. CASE emitStarted
    BY <2>1, EmitStep DEF emitStarted, Goto, Update
  <2>2. CASE emitNote
    BY <2>2, EmitStep DEF emitNote, Goto, Update
  <2>3. CASE emitFinished
    BY <2>3, EmitStep DEF emitFinished, Goto, Update
  <2>4. CASE prepareFails \/ starts \/ readersDone \/ cmdWait \/ killProcessGroup \/ decides
    <3>1. /\ main \in {"prepare", "reading", "wait", "check", "verdict"}
          /\ main' \in {"reading", "wait", "check", "verdict", "note", "finish"}
          /\ UNCHANGED <<updates, wire, encoder, closed>>
      BY <2>4 DEF prepareFails, starts, readersDone, cmdWait, killProcessGroup, decides, Goto
    <3>2. ~closed
      BY <3>1 DEF Ordered
    <3> QED
      BY <3>1, <3>2, SilentStep
  <2>5. CASE unwatch \/ join \/ closeUpdates \/ returns
    <3>1. /\ main \in {"unwatch", "join", "close", "await"}
          /\ main' \in {"join", "close", "await", "returned"} /\ UNCHANGED <<updates, wire, encoder>>
          /\ \/ closed' = closed /\ (main = "await" <=> main' = "returned")
                /\ main' # "await"
             \/ closed' = TRUE /\ main' = "await"
      BY <2>5 DEF unwatch, join, closeUpdates, returns, Goto
    <3>2. closed => main \in {"await", "returned"}
      BY DEF Ordered
    <3> QED
      BY <3>1, <3>2, SilentStep
  <2> QED
    BY <1>5, <2>1, <2>2, <2>3, <2>4, <2>5 DEF MainStep
<1> QED
  BY <1>2, <1>3, <1>4, <1>5, NextByGroup
-----------------------------------------------------------------------------
LEMMA StepIInv == IInv /\ [Next]_vars => IInv'
  BY ControlsStep, ProcessesStep, OutputsStep, ChannelStep, ReadingStep, CompleteStep, StoppedStep,
     OrderedStep DEF IInv, Typed

LEMMA Invariant == Spec => []IInv
  BY InitIInv, StepIInv, PTL DEF Spec

\* Every state of a dispatch is well-typed: in particular the channel never holds more than it
\* can, and no reader passes on what was not written.
THEOREM TypeCorrect == Spec => []TypeOK
<1>1. IInv => TypeOK
  <2> SUFFICES ASSUME Typed PROVE TypeOK
    BY DEF IInv
  <2>1. \A s \in Pipe : written[s] \in 0..MaxChunks[s] /\ got[s] \in 0..written[s]
    BY DEF Typed, Outputs, Held
  <2>2. /\ \A i \in DOMAIN updates : updates[i] \in Update
        /\ \A i \in DOMAIN wire : wire[i] \in Update
    BY DEF Typed, Channel
  <2> QED
    BY <2>1, <2>2 DEF Typed, Controls, Processes, Outputs, Channel, TypeOK, Waited, Decided
<1> QED
  BY <1>1, Invariant, PTL

\* The server reads "started", then output, then one "finished" and nothing after it, however
\* the readers, the watch for a cancellation and the main goroutine are interleaved.
THEOREM NothingAfterFinished == Spec => []FinishedIsLast
<1>1. IInv => FinishedIsLast
  BY DEF IInv, Ordered, Reading, FinishedIsLast, Waited, Decided
<1> QED
  BY <1>1, Invariant, PTL

\* A job that is reported as successful has handed over all of its output, whatever fails.
THEOREM SuccessAlwaysComplete == Spec => []SuccessIsComplete
<1>1. IInv => SuccessIsComplete
  <2> SUFFICES ASSUME IInv, verdict = "success" PROVE got = written /\ ~uploadFailed
    BY DEF SuccessIsComplete
  <2>1. ~uploadFailed /\ \A s \in Pipe : got[s] = written[s]
    BY DEF IInv, Complete
  <2>2. got \in [Pipe -> Nat] /\ written \in [Pipe -> Nat]
    BY DEF IInv, Typed, Outputs
  <2> QED
    BY <2>1, <2>2
<1> QED
  BY <1>1, Invariant, PTL

\* Once a run that was signalled is reported, no process of its group is left.
THEOREM NobodySurvives == Spec => []StoppedIsGone
<1>1. IInv => StoppedIsGone
  BY DEF IInv, Complete, Stopped, StoppedIsGone
<1> QED
  BY <1>1, Invariant, PTL
-----------------------------------------------------------------------------
(* The upkeep.                                                                *)
USE UpkeepAssumption DEF UpkeepAssumption, server, files, process, update, hist

CycleSteps == {"down", "trust", "update", "download", "renew", "checkin"}

\* Keys and authorities, as far as they matter here.  (Builds do not.)
Trusted ==
  /\ sign \in Ranges(MaxKey) /\ ca \in Ranges(MaxCA) /\ hostCert \in Spans(ca)
  /\ issuer \in [Runners -> Nat] /\ heard \in [Runners -> 0..Patience]
  /\ keyFile \in [Runners -> Ranges(MaxKey) \cup {Torn}]
  /\ caFile \in [Runners -> Ranges(MaxCA) \cup {Torn}]
  /\ trusts \in [Runners -> Ranges(MaxKey)] /\ trustsCA \in [Runners -> Ranges(MaxCA)]
  /\ cert \in [Runners -> 1..MaxCA]
  /\ pc \in [Runners -> CycleSteps]

\* A process works with what is on its disk, or with the key of the installation.
Loads ==
  \A r \in Runners : pc[r] # "down" =>
    /\ trustsCA[r] = caFile[r]
    /\ trusts[r] = keyFile[r] \/ keyFile[r] = Torn

\* A runner that was heard twice has been through its refresh in between, and so has one
\* that was heard once and is past it: it holds what the server publishes.
Caught ==
  \A r \in Runners \ missed :
    heard[r] >= 2 \/ (heard[r] >= 1 /\ pc[r] # "trust") => keyFile[r] = sign

\* The newest authority issues certificates only to those whose next refresh comes first:
\* who was seen with one knows that authority.
Issued ==
  \A r \in Runners :
    /\ issuer[r] <= cert[r] /\ cert[r] <= ca.newest
    /\ r \notin missed /\ cert[r] = ca.newest
         /\ (pc[r] \in {"update", "download", "renew", "checkin"} \/ issuer[r] = ca.newest)
       => ca.newest \in Spans(caFile[r])

UpkeepInv == Trusted /\ Loads /\ Caught /\ Issued /\ NoneLeftBehind

LEMMA UpkeepInvInit == UpkeepInit => UpkeepInv
<1> SUFFICES ASSUME UpkeepInit PROVE UpkeepInv
  OBVIOUS
<1> USE DEF UpkeepInit, Only, Spans, Ranges
<1>1. Trusted
  BY DEF Trusted, CycleSteps
<1>2. Loads /\ Caught /\ Issued /\ NoneLeftBehind
  BY DEF Loads, Caught, Issued, NoneLeftBehind
<1> QED
  BY <1>1, <1>2 DEF UpkeepInv

\* A start loads what is on the disk.
LEMMA StartsStep == ASSUME UpkeepInv, NEW r \in Runners, processStarts(r) PROVE UpkeepInv'
<1> USE DEF UpkeepInv
<1>1. /\ pc[r] = "down" /\ pc' = [pc EXCEPT ![r] = "trust"] /\ caFile[r] # Torn
      /\ trusts' = [trusts EXCEPT ![r] = IF keyFile[r] = Torn THEN Only(1) ELSE keyFile[r]]
      /\ trustsCA' = [trustsCA EXCEPT ![r] = caFile[r]]
      /\ UNCHANGED <<sign, ca, hostCert, issuer, heard, keyFile, caFile, cert, missed>>
  BY DEF processStarts, Goes, Set
<1>2. Trusted'
  BY <1>1 DEF Trusted, CycleSteps, Only, Ranges
<1>3. Loads'
  BY <1>1 DEF Loads, Trusted
<1>4. Caught' /\ Issued' /\ NoneLeftBehind'
  BY <1>1 DEF Caught, Issued, NoneLeftBehind, Trusted
<1> QED
  BY <1>2, <1>3, <1>4

\* A runner whose last refresh went well accepts the next.
LEMMA Accepted == ASSUME UpkeepInv, NEW r \in Runners \ missed, pc[r] = "trust" PROVE Accepts(r)
<1>1. keyFile[r] # Torn
  BY DEF UpkeepInv, Trusted, NoneLeftBehind, Torn, Spans, Ranges
<1>2. trusts[r] = keyFile[r] /\ trustsCA[r] = caFile[r]
  BY <1>1 DEF UpkeepInv, Loads
<1> QED
  BY <1>2 DEF UpkeepInv, NoneLeftBehind, Accepts, connects, verifyAny, handleTrustBundle, signWithAll

LEMMA RefreshStep == ASSUME UpkeepInv, NEW r \in Runners, RefreshTrust(r) PROVE UpkeepInv'
<1> USE DEF UpkeepInv
<1>1. pc[r] = "trust" /\ UNCHANGED <<sign, ca, hostCert, issuer, heard, cert, trusts, trustsCA>>
  BY DEF RefreshTrust
<1>2. CASE Accepts(r)
  <2>1. /\ keyFile' = [keyFile EXCEPT ![r] = sign] /\ caFile' = [caFile EXCEPT ![r] = ca]
        /\ missed' = missed \ {r}
        /\ pc' = [pc EXCEPT ![r] = IF keyFile' = keyFile /\ caFile' = caFile THEN "update" ELSE "down"]
    BY <1>2 DEF RefreshTrust, Goes, Set, adoptSigningKeys, adoptCABundle, handleTrustBundle
  <2>2. cert[r] \in Spans(ca)
    BY <1>2 DEF Accepts, connects
  <2>3. Trusted'
    BY <1>1, <2>1 DEF Trusted, CycleSteps
  <2>4. Loads'
    <3>1. keyFile'[r] = sign /\ sign # Torn
      BY <2>1 DEF Trusted, Ranges, Torn
    <3> QED
      BY <1>1, <2>1, <3>1 DEF Trusted, Loads
  <2>5. Caught'
    BY <1>1, <2>1 DEF Trusted, Caught
  <2>6. Issued'
    BY <1>1, <2>1 DEF Trusted, Issued, Ranges, Spans
  <2>7. NoneLeftBehind'
    <3>1. ASSUME NEW q \in Runners \ missed', q # r
          PROVE  /\ Spans(keyFile'[q]) \cap Spans(sign') # {}
                 /\ hostCert' \in Spans(caFile'[q]) /\ cert'[q] \in Spans(ca')
      BY <1>1, <2>1, <3>1 DEF Trusted, NoneLeftBehind
    <3>2. /\ Spans(keyFile'[r]) \cap Spans(sign') # {}
          /\ hostCert' \in Spans(caFile'[r]) /\ cert'[r] \in Spans(ca')
      BY <1>1, <2>1, <2>2 DEF Trusted, Ranges, Spans
    <3> QED
      BY <3>1, <3>2 DEF NoneLeftBehind
  <2> QED
    BY <2>3, <2>4, <2>5, <2>6, <2>7
<1>3. CASE ~Accepts(r)
  <2>1. r \in missed
    BY <1>1, <1>3, Accepted
  <2>2. pc' = [pc EXCEPT ![r] = "update"] /\ UNCHANGED <<keyFile, caFile, missed>>
    BY <1>3 DEF RefreshTrust, Goes, Set
  <2>3. Trusted'
    BY <1>1, <2>2 DEF Trusted, CycleSteps
  <2>4. Loads' /\ Caught' /\ Issued' /\ NoneLeftBehind'
    BY <1>1, <2>1, <2>2 DEF Trusted, Loads, Caught, Issued, NoneLeftBehind
  <2> QED
    BY <2>3, <2>4
<1> QED
  BY <1>2, <1>3

\* A refresh that fails leaves the runner among the missed; one whose file is torn has ended.
LEMMA RefreshFailsStep == ASSUME UpkeepInv, NEW r \in Runners, refreshFails(r) PROVE UpkeepInv'
<1> USE DEF UpkeepInv
<1>1. /\ pc[r] = "trust" /\ missed' = missed \cup {r}
      /\ UNCHANGED <<sign, ca, hostCert, issuer, heard, cert, trusts, trustsCA>>
  BY DEF refreshFails
<1>2. PICK k \in {keyFile[r], sign, Torn}, a \in {caFile[r], ca, Torn}, step \in {"update", "down"} :
        /\ keyFile' = [keyFile EXCEPT ![r] = k] /\ caFile' = [caFile EXCEPT ![r] = a]
        /\ pc' = [pc EXCEPT ![r] = step]
        /\ step = "update" => a = caFile[r] /\ k = keyFile[r]
  <2>1. keyFile = [keyFile EXCEPT ![r] = keyFile[r]] /\ caFile = [caFile EXCEPT ![r] = caFile[r]]
    BY DEF Trusted
  <2>2. CASE Goes(r, "update") /\ UNCHANGED <<keyFile, caFile>>
    BY <2>1, <2>2 DEF Goes, Set
  <2>3. CASE keyFile' = Set(keyFile, r, Torn) /\ Goes(r, "down") /\ UNCHANGED caFile
    BY <2>1, <2>3 DEF Goes, Set
  <2>4. CASE adoptCABundle(r, handleTrustBundle) /\ Goes(r, "down") /\ UNCHANGED keyFile
    BY <2>1, <2>4 DEF Goes, Set, adoptCABundle, handleTrustBundle
  <2>5. CASE adoptSigningKeys(r, handleTrustBundle) /\ caFile' = Set(caFile, r, Torn)
             /\ Goes(r, "down")
    BY <2>1, <2>5 DEF Goes, Set, adoptSigningKeys, handleTrustBundle
  <2>6. CASE adoptSigningKeys(r, handleTrustBundle) /\ UNCHANGED caFile
             /\ Goes(r, IF keyFile[r] = sign THEN "update" ELSE "down")
    BY <2>1, <2>6 DEF Goes, Set, adoptSigningKeys, handleTrustBundle
  <2> QED
    BY <2>2, <2>3, <2>4, <2>5, <2>6 DEF refreshFails
<1>3. Trusted'
  BY <1>1, <1>2 DEF Trusted, CycleSteps
<1>4. Loads'
  BY <1>1, <1>2 DEF Trusted, Loads
<1>5. Caught' /\ NoneLeftBehind'
  BY <1>1, <1>2 DEF Trusted, Caught, NoneLeftBehind
<1>6. Issued'
  BY <1>1, <1>2 DEF Trusted, Issued
<1> QED
  BY <1>3, <1>4, <1>5, <1>6

\* Updates, good or bad, and what the operator publishes, touch no trust.
LEMMA BuildStep ==
  ASSUME UpkeepInv, UNCHANGED <<sign, ca, hostCert, issuer, heard, keyFile, caFile, cert, trusts,
                           trustsCA, missed>>,
         \/ pc' = pc
         \/ \E r \in Runners, step \in {"down", "download", "renew"} :
              pc[r] \in {"update", "download"} /\ pc' = [pc EXCEPT ![r] = step]
  PROVE  UpkeepInv'
<1> USE DEF UpkeepInv
<1>1. Trusted'
  BY DEF Trusted, CycleSteps
<1>2. Loads'
  BY DEF Trusted, Loads
<1>3. Caught' /\ NoneLeftBehind'
  BY DEF Trusted, Caught, NoneLeftBehind
<1>4. Issued'
  BY DEF Trusted, Issued
<1> QED
  BY <1>1, <1>2, <1>3, <1>4

LEMMA UpdateStep ==
  ASSUME UpkeepInv, NEW r \in Runners, UpdateIfAvailable(r) \/ replaceExecutable(r) \/ replaceFails(r)
  PROVE  UpkeepInv'
<1>1. UNCHANGED <<sign, ca, hostCert, issuer, heard, keyFile, caFile, cert, trusts, trustsCA, missed>>
  BY DEF UpdateIfAvailable, replaceExecutable, replaceFails
<1>2. pc[r] \in {"update", "download"}
  BY DEF UpdateIfAvailable, replaceExecutable, replaceFails
<1>3. \E step \in {"down", "download", "renew"} : pc' = [pc EXCEPT ![r] = step]
  BY DEF UpdateIfAvailable, replaceExecutable, replaceFails, Goes, Set
<1> QED
  BY <1>1, <1>2, <1>3, BuildStep

\* A renewed certificate is of the newest authority; the runner starts again.
LEMMA RenewStep == ASSUME UpkeepInv, NEW r \in Runners, RenewIfNeeded(r) PROVE UpkeepInv'
<1> USE DEF UpkeepInv
<1>1. pc[r] = "renew"
      /\ UNCHANGED <<sign, ca, hostCert, issuer, heard, keyFile, caFile, trusts, trustsCA, missed>>
  BY DEF RenewIfNeeded
<1>2. CASE /\ cert[r] # ca.newest /\ cert' = [cert EXCEPT ![r] = ca.newest]
           /\ pc' = [pc EXCEPT ![r] = "down"]
  <2>1. Trusted'
    BY <1>1, <1>2 DEF Trusted, CycleSteps, Ranges
  <2>2. Loads' /\ Caught'
    BY <1>1, <1>2 DEF Trusted, Loads, Caught
  <2>3. NoneLeftBehind'
    BY <1>1, <1>2 DEF Trusted, NoneLeftBehind, Ranges, Spans
  <2>4. Issued'
    BY <1>1, <1>2 DEF Trusted, Issued, Ranges
  <2> QED
    BY <2>1, <2>2, <2>3, <2>4
<1>3. CASE pc' = [pc EXCEPT ![r] = "checkin"] /\ UNCHANGED cert
  <2>1. Trusted' /\ Loads'
    BY <1>1, <1>3 DEF Trusted, CycleSteps, Loads
  <2>2. Caught' /\ NoneLeftBehind'
    BY <1>1, <1>3 DEF Trusted, Caught, NoneLeftBehind
  <2>3. Issued'
    BY <1>1, <1>3 DEF Trusted, Issued
  <2> QED
    BY <2>1, <2>2, <2>3
<1> QED
  BY <1>2, <1>3 DEF RenewIfNeeded, Goes, Set

LEMMA TickStep == ASSUME UpkeepInv, NEW r \in Runners, Tick(r) PROVE UpkeepInv'
<1> USE DEF UpkeepInv
<1>1. /\ pc[r] = "checkin" /\ pc' = [pc EXCEPT ![r] = "trust"]
      /\ UNCHANGED <<sign, ca, hostCert, keyFile, caFile, cert, trusts, trustsCA, missed>>
  BY DEF Tick, Goes, Set
<1>2. \/ UNCHANGED <<issuer, heard>>
      \/ /\ issuer' = [issuer EXCEPT ![r] = cert[r]]
         /\ heard' = [heard EXCEPT ![r] = IF heard[r] < Patience THEN heard[r] + 1 ELSE Patience]
  BY DEF Tick, Set
<1>3. Trusted'
  BY <1>1, <1>2 DEF Trusted, CycleSteps
<1>4. Loads' /\ NoneLeftBehind'
  BY <1>1 DEF Trusted, Loads, NoneLeftBehind
<1>5. Caught'
  BY <1>1, <1>2 DEF Trusted, Caught
<1>6. Issued'
  BY <1>1, <1>2 DEF Trusted, Issued
<1> QED
  BY <1>3, <1>4, <1>5, <1>6

\* The operator's changes.  What is added leaves nobody behind; the server forgets whom it heard.
LEMMA Restarted ==
  ASSUME UpkeepInv, ServerStarts
  PROVE  /\ heard' = [r \in Runners |-> 0]
         /\ UNCHANGED <<issuer, keyFile, caFile, cert, trusts, trustsCA, pc, missed>>
  BY DEF ServerStarts

LEMMA AddStep ==
  ASSUME UpkeepInv, addSigningKey \/ addCA \/ serverRestarts
  PROVE  UpkeepInv'
<1> USE DEF UpkeepInv
<1>1. ServerStarts /\ hostCert' = hostCert
  BY DEF addSigningKey, addCA, serverRestarts
<1>2. /\ sign' \in Ranges(MaxKey) /\ sign'.oldest = sign.oldest /\ sign'.newest >= sign.newest
      /\ ca' \in Ranges(MaxCA) /\ ca'.oldest = ca.oldest
      /\ ca'.newest >= ca.newest
  BY DEF addSigningKey, addCA, serverRestarts, Trusted, Ranges
<1>3. Spans(sign) \subseteq Spans(sign') /\ Spans(ca) \subseteq Spans(ca')
  BY <1>2 DEF Trusted, Ranges, Spans
<1>4. Trusted'
  BY <1>1, <1>2, <1>3, Restarted DEF Trusted
<1>5. Loads' /\ Caught'
  BY <1>1, Restarted DEF Loads, Caught
<1>6. NoneLeftBehind'
  BY <1>1, <1>3, Restarted DEF NoneLeftBehind
<1>7. Issued'
  <2>1. ca.newest \in Nat /\ ca'.newest \in Nat /\ ca'.newest >= ca.newest
    BY <1>2 DEF Trusted, Ranges
  <2>2. UNCHANGED <<issuer, cert, caFile, missed, pc>>
    BY <1>1, Restarted
  <2> SUFFICES ASSUME NEW r \in Runners
               PROVE  /\ issuer[r] =< cert[r] /\ cert[r] =< ca'.newest
                      /\ (/\ r \notin missed /\ cert[r] = ca'.newest
                          /\ (\/ pc[r] \in {"update", "download", "renew", "checkin"}
                              \/ issuer[r] = ca'.newest))
                         => ca'.newest \in Spans(caFile[r])
    BY <2>2 DEF Issued
  <2>3. issuer[r] \in Nat /\ cert[r] \in Nat /\ issuer[r] =< cert[r] /\ cert[r] =< ca.newest
    BY DEF Trusted, Issued
  <2>4. cert[r] = ca'.newest => ca'.newest = ca.newest
    BY <2>1, <2>3
  <2> QED
    BY <2>1, <2>3, <2>4 DEF Issued
<1> QED
  BY <1>4, <1>5, <1>6, <1>7

\* Two check-ins of every runner: each has fetched the keys that stay.
LEMMA DropKeysStep == ASSUME UpkeepInv, Patience >= 2, dropSigningKeys PROVE UpkeepInv'
<1> USE DEF UpkeepInv
<1>1. /\ ServerStarts /\ UNCHANGED <<ca, hostCert>> /\ sign' = Only(sign.newest)
      /\ \A r \in Runners : heard[r] >= 2
  BY DEF dropSigningKeys
<1>2. \A r \in Runners \ missed : keyFile[r] = sign
  BY <1>1 DEF Caught
<1>3. Trusted' /\ Loads' /\ Caught'
  BY <1>1, Restarted DEF Trusted, Loads, Caught, Ranges, Only
<1>4. Issued'
  BY <1>1, Restarted DEF Issued
<1>5. sign.newest \in Spans(sign) /\ sign.newest \in Spans(sign')
  BY <1>1 DEF Trusted, Ranges, Spans, Only
<1>6. NoneLeftBehind'
  BY <1>1, <1>2, <1>5, Restarted DEF NoneLeftBehind
<1> QED
  BY <1>3, <1>4, <1>6

\* Every certificate that was seen is of the newest authority, which its runner knows.
LEMMA DropCAStep == ASSUME UpkeepInv, dropCA PROVE UpkeepInv'
<1> USE DEF UpkeepInv
<1>1. /\ ServerStarts /\ UNCHANGED sign /\ ca' = Only(ca.newest) /\ hostCert' = ca.newest
      /\ \A r \in Runners : issuer[r] = ca.newest
  BY DEF dropCA, SafeToDropOldCA
<1>2. /\ \A r \in Runners : cert[r] = ca.newest
      /\ \A r \in Runners \ missed : ca.newest \in Spans(caFile[r])
  BY <1>1 DEF Issued, Trusted, Ranges
<1>3. Trusted'
  BY <1>1, Restarted DEF Trusted, Ranges, Only, Spans
<1>4. Loads' /\ Caught'
  BY <1>1, Restarted DEF Loads, Caught
<1>5. ca.newest \in Nat /\ Spans(ca') = {ca.newest} /\ ca'.newest = ca.newest
  BY <1>1 DEF Trusted, Ranges, Only, Spans
<1>6. UNCHANGED <<issuer, keyFile, caFile, cert, pc, missed>>
  BY <1>1, Restarted
<1>7. Issued'
  BY <1>1, <1>2, <1>5, <1>6 DEF Issued
<1>8. NoneLeftBehind'
  BY <1>1, <1>2, <1>5, <1>6 DEF NoneLeftBehind
<1> QED
  BY <1>3, <1>4, <1>7, <1>8

LEMMA PublishStep == ASSUME UpkeepInv, publishBuild \/ publishVersion PROVE UpkeepInv'
<1>1. UNCHANGED <<sign, ca, hostCert, issuer, heard, keyFile, caFile, cert, trusts,
                  trustsCA, missed, pc>>
  BY DEF publishBuild, publishVersion
<1> QED
  BY <1>1, BuildStep

LEMMA UpkeepInvStep == ASSUME Patience >= 2 PROVE UpkeepInv /\ [UpkeepNext]_upkeepVars => UpkeepInv'
<1> SUFFICES ASSUME UpkeepInv, [UpkeepNext]_upkeepVars PROVE UpkeepInv'
  OBVIOUS
<1>1. ASSUME NEW r \in Runners, RunOnce(r) \/ refreshFails(r) \/ replaceFails(r) PROVE UpkeepInv'
  BY <1>1, StartsStep, RefreshStep, RefreshFailsStep, UpdateStep, RenewStep, TickStep DEF RunOnce
<1>2. CASE Operator
  BY <1>2, AddStep, DropKeysStep, DropCAStep, PublishStep DEF Operator
<1>3. CASE UNCHANGED upkeepVars
  <2>1. UNCHANGED <<sign, ca, hostCert, issuer, heard, keyFile, caFile, cert, trusts,
                    trustsCA, missed, pc>>
    BY <1>3 DEF upkeepVars
  <2> QED
    BY <2>1, BuildStep
<1> QED
  BY <1>1, <1>2, <1>3 DEF UpkeepNext

\* A rotation of keys or authorities leaves no runner behind (NoneLeftBehind), if the operator
\* waits until every runner was heard twice.
THEOREM NobodyLeftBehind == ASSUME Patience >= 2 PROVE UpkeepSpec => []NoneLeftBehind
<1>1. UpkeepInv => NoneLeftBehind
  BY DEF UpkeepInv
<1> QED
  BY UpkeepInvInit, UpkeepInvStep, <1>1, PTL DEF UpkeepSpec
=============================================================================
