----------------------------- MODULE Scheduling -----------------------------
(***************************************************************************)
(* Who runs when: the instances and schedules in the database, the         *)
(* scheduler that holds the same schedules in memory with their next run,  *)
(* and the check-in that turns what is due into dispatches.                *)
(*                                                                         *)
(* The database and the scheduler are changed one after the other, by      *)
(* handlers that run concurrently and share no lock: each statement and    *)
(* each locked section of the scheduler is a step of its own.              *)
(*                                                                         *)
(* A schedule is a period: it is due at its multiples, so that two         *)
(* schedules can fall on the same moment.  All instances belong to one     *)
(* runner, which checks in again only when the answer is there.            *)
(***************************************************************************)
EXTENDS Integers, FiniteSets

CONSTANTS
  Instances,     \* the ids an instance can have
  None,          \* no instance
  Admin,         \* the requests of operators in flight at the same time
  Periods,       \* how often a schedule may come round
  MaxSchedules,  \* how many schedule ids are ever handed out
  Horizon,       \* the last moment of the clock
  MaxRestarts    \* how often the server is restarted

ScheduleIds == 1..MaxSchedules

ASSUME ConstantsOK ==
  /\ None \notin Instances
  /\ Periods \subseteq Nat \ {0}
  /\ MaxSchedules \in Nat /\ Horizon \in Nat /\ MaxRestarts \in Nat

VARIABLES
  \* the database
  insts,         \* the table instances
  rows,          \* the table schedules; inst = None where there is no row
  nextId,        \* its AUTOINCREMENT counter
  \* the Scheduler
  st,            \* schedule id -> its state; inst = None if not tracked
  byInstance,    \* instance id -> the ids of its schedules
  manual,        \* the instances with a run asked for by hand
  \* the requests
  calls,         \* the operators' requests
  checkin,       \* the runner's check-in
  now, restarts,
  \* history
  lastDispatch   \* when the check-in began that last dispatched an instance

database  == <<insts, rows, nextId>>
scheduler == <<st, byInstance, manual>>
vars      == <<database, scheduler, calls, checkin, now, restarts, lastDispatch>>

-----------------------------------------------------------------------------
Row   == [inst: Instances \cup {None}, period: Nat \ {0}, enabled: BOOLEAN]
NoRow == [inst |-> None, period |-> 1, enabled |-> FALSE]

\* schedState, and in since when it was tracked (history).
State     == [inst: Instances \cup {None}, period: Nat \ {0}, enabled: BOOLEAN,
              next: Nat, since: Nat]
Untracked == [inst |-> None, period |-> 1, enabled |-> FALSE, next |-> 0, since |-> 0]

\* An operator's request, by the statement it is about to execute.
Idle == [at |-> "idle"]
Call == {Idle}
  \cup [at: {"saveInstance", "untrackInstance", "trigger"}, inst: Instances]
  \cup [at: {"insert"}, row: [inst: Instances, period: Nat \ {0}, enabled: BOOLEAN]]
  \cup [at: {"update", "track"}, id: ScheduleIds,
        row: [inst: Instances, period: Nat \ {0}, enabled: BOOLEAN]]
  \cup [at: {"untrack"}, id: ScheduleIds]
  \cup [at: {"reread"}, now: Nat]
  \cup [at: {"reset"}, now: Nat, rows: [ScheduleIds -> Row]]

\* The check-in: the instances still to look at, and the one being dispatched.
Answering == [at: {"due", "build", "mark"}, now: Nat, todo: SUBSET Instances,
              inst: Instances \cup {None}, due: SUBSET ScheduleIds, manual: BOOLEAN]
Checkin   == {Idle} \cup Answering

TypeOK ==
  /\ insts \in SUBSET Instances
  /\ rows \in [ScheduleIds -> Row] /\ nextId \in 1..(MaxSchedules + 1)
  /\ st \in [ScheduleIds -> State]
  /\ byInstance \in [Instances -> SUBSET ScheduleIds]
  /\ manual \in SUBSET Instances
  /\ calls \in [Admin -> Call]
  /\ checkin \in Checkin
  /\ now \in 0..Horizon /\ restarts \in 0..MaxRestarts
  /\ lastDispatch \in [Instances -> Nat]

Init ==
  /\ insts = {} /\ rows = [id \in ScheduleIds |-> NoRow] /\ nextId = 1
  /\ st = [id \in ScheduleIds |-> Untracked]
  /\ byInstance = [i \in Instances |-> {}] /\ manual = {}
  /\ calls = [a \in Admin |-> Idle] /\ checkin = Idle
  /\ now = 0 /\ restarts = 0
  /\ lastDispatch = [i \in Instances |-> 0]

\* Spec.Next: the first occurrence strictly after t.
NextRun(period, t) == (t \div period + 1) * period

-----------------------------------------------------------------------------
(* The Scheduler: one operator per locked section.                         *)

Tracked(row, t) == [inst |-> row.inst, period |-> row.period, enabled |-> row.enabled,
                    next |-> NextRun(row.period, t), since |-> now]

\* The old index entry goes first, whoever the schedule belonged to.
TrackSchedule(id, row, t) ==
  /\ st' = [st EXCEPT ![id] = Tracked(row, t)]
  /\ byInstance' = [i \in Instances |-> IF i = row.inst THEN byInstance[i] \cup {id}
                                        ELSE IF i = st[id].inst THEN byInstance[i] \ {id}
                                        ELSE byInstance[i]]
  /\ UNCHANGED manual

\* (slip) The index entry is left dangling.
UntrackStateOnly(id) ==
  /\ st' = [st EXCEPT ![id] = Untracked]
  /\ UNCHANGED <<byInstance, manual>>

UntrackSchedule(id) ==
  /\ st' = [st EXCEPT ![id] = Untracked]
  /\ byInstance' = [i \in Instances |-> IF i = st[id].inst THEN byInstance[i] \ {id}
                                        ELSE byInstance[i]]
  /\ UNCHANGED manual

\* (slip) The manual run is forgotten, the schedules are not.
UntrackManualOnly(i) ==
  /\ manual' = manual \ {i}
  /\ UNCHANGED <<st, byInstance>>

UntrackInstance(i) ==
  /\ st' = [id \in ScheduleIds |-> IF id \in byInstance[i] THEN Untracked ELSE st[id]]
  /\ byInstance' = [byInstance EXCEPT ![i] = {}]
  /\ manual' = manual \ {i}

\* Everything tracked is replaced by what is in set; whose may be tracked.
Reset(set, whose, t) ==
  LET kept == {id \in ScheduleIds : set[id].inst \in whose}
  IN  /\ st' = [id \in ScheduleIds |-> IF id \in kept THEN Tracked(set[id], t) ELSE Untracked]
      /\ byInstance' = [i \in Instances |-> {id \in kept : set[id].inst = i}]
      /\ manual' = {}

DueFor(i, t) == {id \in byInstance[i] : st[id].inst # None /\ st[id].enabled /\ st[id].next <= t}

-----------------------------------------------------------------------------
(* The check-in.                                                           *)

checkinRest == UNCHANGED <<database, calls, now, restarts>>

\* now is taken and the runner's instances are read.
checkinBegins ==
  /\ checkin = Idle
  /\ checkin' = [at |-> "due", now |-> now, todo |-> insts,
                 inst |-> None, due |-> {}, manual |-> FALSE]
  /\ UNCHANGED <<scheduler, lastDispatch>> /\ checkinRest

\* DueFor, one instance after the other, measured against the check-in's now.
checkinLooks(i) ==
  /\ checkin.at = "due" /\ i \in checkin.todo
  /\ LET due == DueFor(i, checkin.now)
     IN  checkin' = IF due = {} /\ i \notin manual
                    THEN [checkin EXCEPT !.todo = @ \ {i}]
                    ELSE [at |-> "build", now |-> checkin.now, todo |-> checkin.todo \ {i},
                          inst |-> i, due |-> due, manual |-> i \in manual]
  /\ UNCHANGED <<scheduler, lastDispatch>> /\ checkinRest

checkinBuilds ==
  /\ checkin.at = "build"
  /\ checkin' = [checkin EXCEPT !.at = "mark"]
  /\ lastDispatch' = [lastDispatch EXCEPT ![checkin.inst] = checkin.now]
  /\ UNCHANGED scheduler /\ checkinRest

NextInstance == [at |-> "due", now |-> checkin.now, todo |-> checkin.todo,
                 inst |-> None, due |-> {}, manual |-> FALSE]

\* (slip) What could not be built is advanced like the rest.
checkinMarksAnyway ==
  /\ checkin.at = "build"
  /\ checkin' = [checkin EXCEPT !.at = "mark"]
  /\ UNCHANGED <<scheduler, lastDispatch>> /\ checkinRest

\* The script is gone from the catalogue, or signing fails: nothing is advanced.
checkinSkips ==
  /\ checkin.at = "build"
  /\ checkin' = NextInstance
  /\ UNCHANGED <<scheduler, lastDispatch>> /\ checkinRest

\* (slip) Only the schedule the run is attributed to moves on.
MarkFirstOnly(id) ==
  /\ checkin.at = "mark" /\ id \in checkin.due
  /\ st' = IF st[id].inst = None THEN st
           ELSE [st EXCEPT ![id].next = NextRun(st[id].period, checkin.now)]
  /\ checkin' = [checkin EXCEPT !.due = {}]
  /\ UNCHANGED <<byInstance, manual, lastDispatch>> /\ checkinRest

\* Each of the due schedules moves past the check-in's now, if it is still there.
MarkDispatched(id) ==
  /\ checkin.at = "mark" /\ id \in checkin.due
  /\ st' = IF st[id].inst = None THEN st
           ELSE [st EXCEPT ![id].next = NextRun(st[id].period, checkin.now)]
  /\ checkin' = [checkin EXCEPT !.due = @ \ {id}]
  /\ UNCHANGED <<byInstance, manual, lastDispatch>> /\ checkinRest

\* ClearManual, if DueFor had seen a request; the dispatch is in the answer.
ClearManual ==
  /\ checkin.at = "mark" /\ checkin.due = {}
  /\ manual' = IF checkin.manual THEN manual \ {checkin.inst} ELSE manual
  /\ checkin' = NextInstance
  /\ UNCHANGED <<st, byInstance, lastDispatch>> /\ checkinRest

checkinAnswers ==
  /\ checkin.at = "due" /\ checkin.todo = {}
  /\ checkin' = Idle
  /\ UNCHANGED <<scheduler, lastDispatch>> /\ checkinRest

-----------------------------------------------------------------------------
(* The operators' requests.                                                *)

Goto(a, call) == calls' = [calls EXCEPT ![a] = call]
Begins(a)     == calls[a] = Idle
Stands(a, at) == calls[a].at = at
callRest      == UNCHANGED <<checkin, now, restarts, lastDispatch>>

\* handleCreateInstance and handleUpdateInstance: instanceExists, then the
\* same INSERT ... ON CONFLICT DO UPDATE whatever has happened in between.
SaveInstance(a, i, mustBeNew) ==
  /\ Begins(a) /\ (i \in insts) = ~mustBeNew
  /\ Goto(a, [at |-> "saveInstance", inst |-> i])
  /\ UNCHANGED <<database, scheduler>> /\ callRest

upsertInstance(a) ==
  /\ Stands(a, "saveInstance")
  /\ insts' = insts \cup {calls[a].inst}
  /\ Goto(a, Idle)
  /\ UNCHANGED <<rows, nextId, scheduler>> /\ callRest

\* handleDeleteInstance: the instance and its schedules in one transaction.
DeleteInstance(a, i) ==
  /\ Begins(a) /\ i \in insts
  /\ insts' = insts \ {i}
  /\ rows' = [id \in ScheduleIds |-> IF rows[id].inst = i THEN NoRow ELSE rows[id]]
  /\ Goto(a, [at |-> "untrackInstance", inst |-> i])
  /\ UNCHANGED <<nextId, scheduler>> /\ callRest

untrackInstance(a) ==
  /\ Stands(a, "untrackInstance")
  /\ UntrackInstance(calls[a].inst)
  /\ Goto(a, Idle)
  /\ UNCHANGED database /\ callRest

\* handleCreateSchedule: scheduleFromPayload has found the instance.
createSchedule(a, i, p) ==
  /\ Begins(a) /\ i \in insts
  /\ Goto(a, [at |-> "insert", row |-> [inst |-> i, period |-> p, enabled |-> TRUE]])
  /\ UNCHANGED <<database, scheduler>> /\ callRest

CreateSchedule(a) ==
  /\ Stands(a, "insert") /\ nextId <= MaxSchedules
  /\ rows' = [rows EXCEPT ![nextId] = calls[a].row]
  /\ nextId' = nextId + 1
  /\ Goto(a, [at |-> "track", id |-> nextId, row |-> calls[a].row])
  /\ UNCHANGED <<insts, scheduler>> /\ callRest

\* (slip) The request is not checked against what is stored.
updateUnknownSchedule(a, id, p, on) ==
  /\ Begins(a)
  /\ Goto(a, [at |-> "update", id |-> id,
              row |-> [inst |-> rows[id].inst, period |-> p, enabled |-> on]])
  /\ UNCHANGED <<database, scheduler>> /\ callRest

\* handleUpdateSchedule: the stored owner wins over the payload's, and has to
\* exist.  Pausing and resuming are updates that keep the period.
updateSchedule(a, id, p, on) ==
  /\ Begins(a) /\ rows[id].inst \in insts
  /\ Goto(a, [at |-> "update", id |-> id,
              row |-> [inst |-> rows[id].inst, period |-> p, enabled |-> on]])
  /\ UNCHANGED <<database, scheduler>> /\ callRest

\* The UPDATE touches no instance_id, and no row means 404.
UpdateSchedule(a) ==
  /\ Stands(a, "update")
  /\ LET c == calls[a]
     IN  IF rows[c.id].inst = None THEN Goto(a, Idle) /\ UNCHANGED rows
         ELSE /\ rows' = [rows EXCEPT ![c.id].period = c.row.period,
                                      ![c.id].enabled = c.row.enabled]
              /\ Goto(a, [at |-> "track", id |-> c.id, row |-> c.row])
  /\ UNCHANGED <<insts, nextId, scheduler>> /\ callRest

trackSchedule(a) ==
  /\ Stands(a, "track")
  /\ TrackSchedule(calls[a].id, calls[a].row, now)
  /\ Goto(a, Idle)
  /\ UNCHANGED database /\ callRest

\* handleDeleteSchedule.
DeleteSchedule(a, id) ==
  /\ Begins(a) /\ rows[id].inst # None
  /\ rows' = [rows EXCEPT ![id] = NoRow]
  /\ Goto(a, [at |-> "untrack", id |-> id])
  /\ UNCHANGED <<insts, nextId, scheduler>> /\ callRest

untrackSchedule(a) ==
  /\ Stands(a, "untrack")
  /\ UntrackSchedule(calls[a].id)
  /\ Goto(a, Idle)
  /\ UNCHANGED database /\ callRest

\* handleTrigger: the store is asked whether the instance exists.
handleTrigger(a, i) ==
  /\ Begins(a) /\ i \in insts
  /\ Goto(a, [at |-> "trigger", inst |-> i])
  /\ UNCHANGED <<database, scheduler>> /\ callRest

Trigger(a) ==
  /\ Stands(a, "trigger")
  /\ manual' = manual \cup {calls[a].inst}
  /\ Goto(a, Idle)
  /\ UNCHANGED <<database, st, byInstance>> /\ callRest

\* applyConfigImport: ReplaceConfig in one transaction, the schedules of the
\* archive under fresh ids; then the rows are read back; then Reset.
ReplaceConfig(a, set, owner, p) ==
  /\ Begins(a) /\ nextId <= MaxSchedules
  /\ insts' = set
  /\ rows' = [id \in ScheduleIds |->
                IF id = nextId /\ owner \in set
                THEN [inst |-> owner, period |-> p, enabled |-> TRUE] ELSE NoRow]
  /\ nextId' = IF owner \in set THEN nextId + 1 ELSE nextId
  /\ Goto(a, [at |-> "reread", now |-> now])
  /\ UNCHANGED scheduler /\ callRest

rereadSchedules(a) ==
  /\ Stands(a, "reread")
  /\ Goto(a, [at |-> "reset", now |-> calls[a].now, rows |-> rows])
  /\ UNCHANGED <<database, scheduler>> /\ callRest

resetScheduler(a) ==
  /\ Stands(a, "reset")
  /\ Reset(calls[a].rows, Instances, calls[a].now)
  /\ Goto(a, Idle)
  /\ UNCHANGED database /\ callRest

-----------------------------------------------------------------------------
tick ==
  /\ now < Horizon
  /\ now' = now + 1
  /\ UNCHANGED <<database, scheduler, calls, checkin, restarts, lastDispatch>>

\* New: the scheduler starts from the stored schedules, leftovers of a missing
\* instance excepted.  Manual requests were only ever in memory.
restart ==
  /\ restarts < MaxRestarts /\ restarts' = restarts + 1
  /\ Reset(rows, insts, now)
  /\ calls' = [a \in Admin |-> Idle] /\ checkin' = Idle
  /\ UNCHANGED <<database, now, lastDispatch>>

CheckinStep ==
  \/ checkinBegins \/ checkinBuilds \/ checkinSkips \/ ClearManual \/ checkinAnswers
  \/ \E i \in Instances : checkinLooks(i)
  \/ \E id \in ScheduleIds : MarkDispatched(id)

InstanceStep(a) ==
  \/ \E i \in Instances, new \in BOOLEAN : SaveInstance(a, i, new)
  \/ \E i \in Instances : DeleteInstance(a, i) \/ handleTrigger(a, i)
  \/ upsertInstance(a) \/ untrackInstance(a) \/ Trigger(a)

ScheduleStep(a) ==
  \/ \E i \in Instances, p \in Periods : createSchedule(a, i, p)
  \/ \E id \in ScheduleIds, p \in Periods, on \in BOOLEAN : updateSchedule(a, id, p, on)
  \/ \E id \in ScheduleIds : DeleteSchedule(a, id)
  \/ CreateSchedule(a) \/ UpdateSchedule(a) \/ trackSchedule(a) \/ untrackSchedule(a)

ImportStep(a) ==
  \/ \E set \in SUBSET Instances, i \in Instances, p \in Periods : ReplaceConfig(a, set, i, p)
  \/ rereadSchedules(a) \/ resetScheduler(a)

Next ==
  \/ CheckinStep \/ tick \/ restart
  \/ \E a \in Admin : InstanceStep(a) \/ ScheduleStep(a) \/ ImportStep(a)

Spec == Init /\ [][Next]_vars

-----------------------------------------------------------------------------
(* What must hold.                                                         *)

\* The two maps of the scheduler describe the same schedules: what DueFor and
\* UntrackInstance reach through byInstance is what is tracked, no more, no less.
IndexAgrees ==
  \A id \in ScheduleIds, i \in Instances : id \in byInstance[i] <=> st[id].inst = i

\* When no operator's request is in flight, the scheduler holds exactly the
\* stored schedules: a deleted or paused one has stopped firing, a new or
\* changed one takes effect, without a restart.
TrackedIsStored ==
  (\A a \in Admin : Begins(a)) =>
    \A id \in ScheduleIds :
      /\ rows[id].inst = None => st[id].inst = None
      /\ rows[id].inst \in insts => /\ st[id].inst = rows[id].inst
                                    /\ st[id].period = rows[id].period
                                    /\ st[id].enabled = rows[id].enabled

Marking(i) == checkin.at = "mark" /\ checkin.inst = i
Active(id) == st[id].inst # None /\ st[id].enabled

\* Schedules that fall on the same moment are one run, not two: once an
\* instance is dispatched, none of its schedules is still due at that moment.
\* (An import computes next from the moment it began; a schedule that it tracks
\* when that next has already passed is due at once, whatever ran meanwhile.)
FiresOnce ==
  \A id \in ScheduleIds :
    Active(id) /\ ~Marking(st[id].inst) /\ st[id].next > st[id].since
      => st[id].next > lastDispatch[st[id].inst]

\* No occurrence is passed over: a schedule only moves on from an occurrence
\* that a dispatch of its instance has answered, however often building the
\* dispatch failed before.
NoOccurrenceSkipped ==
  \A id \in ScheduleIds :
    Active(id) /\ st[id].next - st[id].period > st[id].since
      => lastDispatch[st[id].inst] >= st[id].next - st[id].period
=============================================================================
