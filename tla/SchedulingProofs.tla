-------------------------- MODULE SchedulingProofs --------------------------
(***************************************************************************)
(* For any number of instances, schedules, operators at work at the same   *)
(* time and restarts: the type invariant; the agreement of the two maps of *)
(* the scheduler, which holds whatever the handlers interleave because     *)
(* each locked section keeps it by itself; and that what falls due is      *)
(* dispatched once and never passed over.  For one operator at a time:     *)
(* that the scheduler holds what is stored.                                *)
(***************************************************************************)
EXTENDS Scheduling, TLAPS

Mappable == [inst: Instances, period: Nat \ {0}, enabled: BOOLEAN]

\* What the stage of a request says about the rest of it.
LEMMA CallParts ==
  ASSUME NEW c \in Call
  PROVE  /\ c.at \in {"saveInstance", "untrackInstance", "trigger"} => c.inst \in Instances
         /\ c.at = "insert" => c.row \in Mappable
         /\ c.at \in {"update", "track"} => c.id \in ScheduleIds /\ c.row \in Mappable
         /\ c.at = "untrack" => c.id \in ScheduleIds
         /\ c.at \in {"reread", "reset"} => c.now \in Nat
         /\ c.at = "reset" => c.rows \in [ScheduleIds -> Row]
  BY DEF Call, Idle, Mappable

LEMMA NextRunType ==
  ASSUME NEW p \in Nat \ {0}, NEW t \in Nat
  PROVE  NextRun(p, t) \in Nat
  BY DEF NextRun

LEMMA TrackedType ==
  ASSUME NEW row \in Row, NEW t \in Nat, now \in Nat
  PROVE  Tracked(row, t) \in State /\ Tracked(row, t).inst = row.inst
  BY NextRunType DEF Tracked, Row, State

LEMMA RowKinds == Mappable \subseteq Row /\ NoRow \in Row /\ Untracked \in State
  BY DEF Mappable, Row, NoRow, State, Untracked

-----------------------------------------------------------------------------
(* Each locked section of the scheduler keeps its maps in agreement.       *)

SchedulerOK ==
  /\ st \in [ScheduleIds -> State]
  /\ byInstance \in [Instances -> SUBSET ScheduleIds]
  /\ manual \in SUBSET Instances
  /\ IndexAgrees

LEMMA TrackSection ==
  ASSUME SchedulerOK, now \in Nat, NEW id \in ScheduleIds, NEW row \in Row,
         NEW t \in Nat, TrackSchedule(id, row, t)
  PROVE  SchedulerOK'
<1>1. Tracked(row, t) \in State /\ Tracked(row, t).inst = row.inst
  BY TrackedType
<1>2. st' \in [ScheduleIds -> State]
  BY <1>1 DEF TrackSchedule, SchedulerOK
<1>3. byInstance' \in [Instances -> SUBSET ScheduleIds]
  BY DEF TrackSchedule, SchedulerOK
<1>4. IndexAgrees'
  BY <1>1 DEF TrackSchedule, SchedulerOK, IndexAgrees
<1> QED BY <1>2, <1>3, <1>4 DEF TrackSchedule, SchedulerOK

LEMMA UntrackSection ==
  ASSUME SchedulerOK, NEW id \in ScheduleIds, UntrackSchedule(id)
  PROVE  SchedulerOK'
<1>1. st' \in [ScheduleIds -> State]
  BY RowKinds DEF UntrackSchedule, SchedulerOK
<1>2. byInstance' \in [Instances -> SUBSET ScheduleIds]
  BY DEF UntrackSchedule, SchedulerOK
<1>3. IndexAgrees'
  BY ConstantsOK DEF UntrackSchedule, SchedulerOK, IndexAgrees, Untracked
<1> QED BY <1>1, <1>2, <1>3 DEF UntrackSchedule, SchedulerOK

LEMMA UntrackInstanceSection ==
  ASSUME SchedulerOK, NEW i \in Instances, UntrackInstance(i)
  PROVE  SchedulerOK'
<1>1. st' \in [ScheduleIds -> State]
  BY RowKinds DEF UntrackInstance, SchedulerOK
<1>2. byInstance' \in [Instances -> SUBSET ScheduleIds]
  BY DEF UntrackInstance, SchedulerOK
<1>3. IndexAgrees'
  BY ConstantsOK DEF UntrackInstance, SchedulerOK, IndexAgrees, Untracked
<1> QED BY <1>1, <1>2, <1>3 DEF UntrackInstance, SchedulerOK

LEMMA ResetSection ==
  ASSUME now \in Nat, NEW set \in [ScheduleIds -> Row], NEW whose \in SUBSET Instances,
         NEW t \in Nat, Reset(set, whose, t)
  PROVE  SchedulerOK'
<1> DEFINE kept == {id \in ScheduleIds : set[id].inst \in whose}
<1>1. \A id \in ScheduleIds : Tracked(set[id], t) \in State /\ Tracked(set[id], t).inst = set[id].inst
  BY TrackedType
<1>2. /\ st' = [id \in ScheduleIds |-> IF id \in kept THEN Tracked(set[id], t) ELSE Untracked]
      /\ byInstance' = [i \in Instances |-> {id \in kept : set[id].inst = i}]
      /\ manual' = {}
  BY DEF Reset
<1>3. st' \in [ScheduleIds -> State]
  BY <1>1, <1>2, RowKinds
<1>4. byInstance' \in [Instances -> SUBSET ScheduleIds]
  BY <1>2
<1>5. IndexAgrees'
  BY <1>1, <1>2, ConstantsOK DEF IndexAgrees, Untracked
<1> QED BY <1>2, <1>3, <1>4, <1>5 DEF SchedulerOK

LEMMA MarkSection ==
  ASSUME SchedulerOK, NEW id \in ScheduleIds, NEW t \in Nat,
         st' = IF st[id].inst = None THEN st
               ELSE [st EXCEPT ![id].next = NextRun(st[id].period, t)],
         UNCHANGED <<byInstance, manual>>
  PROVE  SchedulerOK'
<1>1. st[id] \in State
  BY DEF SchedulerOK
<1>2. [st[id] EXCEPT !.next = NextRun(st[id].period, t)] \in State
  BY <1>1, NextRunType DEF State
<1>3. [st[id] EXCEPT !.next = NextRun(st[id].period, t)].inst = st[id].inst
  BY <1>1 DEF State
<1>4. st' \in [ScheduleIds -> State] /\ \A x \in ScheduleIds : st'[x].inst = st[x].inst
  BY <1>2, <1>3 DEF SchedulerOK
<1> QED BY <1>4 DEF SchedulerOK, IndexAgrees

-----------------------------------------------------------------------------
(* The steps, one by one.                                                  *)

RequestsOK ==
  /\ insts \in SUBSET Instances
  /\ rows \in [ScheduleIds -> Row] /\ nextId \in 1..(MaxSchedules + 1)
  /\ calls \in [Admin -> Call]
  /\ checkin \in Checkin
  /\ now \in 0..Horizon /\ restarts \in 0..MaxRestarts
  /\ lastDispatch \in [Instances -> Nat]

IInv == SchedulerOK /\ RequestsOK

LEMMA IInvIsBoth == IInv <=> TypeOK /\ IndexAgrees
  BY DEF IInv, SchedulerOK, RequestsOK, TypeOK

LEMMA InitInv == Init => IInv
<1> SUFFICES ASSUME Init
             PROVE  IInv
  OBVIOUS
<1>1. SchedulerOK
  BY RowKinds, ConstantsOK DEF Init, SchedulerOK, IndexAgrees, Untracked
<1>2. RequestsOK
  BY RowKinds, ConstantsOK DEF Init, RequestsOK, Call, Checkin
<1> QED BY <1>1, <1>2 DEF IInv

LEMMA GotoType ==
  ASSUME calls \in [Admin -> Call], NEW a \in Admin, NEW c \in Call, Goto(a, c)
  PROVE  calls' \in [Admin -> Call]
  BY DEF Goto

LEMMA CheckinParts ==
  ASSUME checkin \in Checkin, checkin.at \in {"due", "build", "mark"}
  PROVE  checkin \in Answering /\ NextInstance \in Checkin
<1>1. checkin \in Answering
  BY DEF Checkin, Idle
<1>2. NextInstance \in Answering
  BY <1>1 DEF Answering, NextInstance
<1> QED BY <1>1, <1>2 DEF Checkin

LEMMA CheckinStepInv ==
  ASSUME IInv, CheckinStep
  PROVE  IInv'
<1> USE DEF IInv, checkinRest, database, scheduler
<1>0. now \in Nat
  BY ConstantsOK DEF RequestsOK
<1>1. CASE checkinBegins
  <2>1. checkin' \in Checkin
    BY <1>0, <1>1 DEF checkinBegins, Checkin, Answering, RequestsOK
  <2> QED BY <1>1, <2>1 DEF checkinBegins, SchedulerOK, RequestsOK, IndexAgrees
<1>2. CASE checkinBuilds
  <2>1. checkin' \in Checkin
    BY <1>2, CheckinParts DEF checkinBuilds, Checkin, Answering, RequestsOK
  <2>2. lastDispatch' \in [Instances -> Nat]
    BY <1>2, CheckinParts DEF checkinBuilds, Answering, RequestsOK
  <2> QED BY <1>2, <2>1, <2>2 DEF checkinBuilds, SchedulerOK, RequestsOK, IndexAgrees
<1>3. CASE checkinSkips
  <2>1. checkin' \in Checkin
    BY <1>3, CheckinParts DEF checkinSkips, RequestsOK
  <2> QED BY <1>3, <2>1 DEF checkinSkips, SchedulerOK, RequestsOK, IndexAgrees
<1>4. CASE ClearManual
  <2>1. checkin' \in Checkin
    BY <1>4, CheckinParts DEF ClearManual, RequestsOK
  <2>2. manual' \in SUBSET Instances
    BY <1>4 DEF ClearManual, SchedulerOK
  <2> QED BY <1>4, <2>1, <2>2 DEF ClearManual, SchedulerOK, RequestsOK, IndexAgrees
<1>5. CASE checkinAnswers
  <2>1. checkin' \in Checkin
    BY <1>5 DEF checkinAnswers, Checkin
  <2> QED BY <1>5, <2>1 DEF checkinAnswers, SchedulerOK, RequestsOK, IndexAgrees
<1>6. CASE \E i \in Instances : checkinLooks(i)
  <2>1. PICK i \in Instances : checkinLooks(i)
    BY <1>6
  <2>2. DueFor(i, checkin.now) \in SUBSET ScheduleIds
    BY DEF DueFor, SchedulerOK
  <2>3. checkin \in Answering
    BY <2>1, CheckinParts DEF checkinLooks, RequestsOK
  <2>4. [checkin EXCEPT !.todo = @ \ {i}] \in Answering
    BY <2>3 DEF Answering
  <2>5. (i \in manual) \in BOOLEAN
    OBVIOUS
  <2>6. [at |-> "build", now |-> checkin.now, todo |-> checkin.todo \ {i}, inst |-> i,
         due |-> DueFor(i, checkin.now), manual |-> i \in manual] \in Answering
    BY <2>2, <2>3, <2>5 DEF Answering
  <2>7. checkin' \in Checkin
    BY <2>1, <2>4, <2>6 DEF checkinLooks, Checkin
  <2> QED BY <2>1, <2>7 DEF checkinLooks, SchedulerOK, RequestsOK, IndexAgrees
<1>7. CASE \E id \in ScheduleIds : MarkDispatched(id)
  <2>1. PICK id \in ScheduleIds : MarkDispatched(id)
    BY <1>7
  <2>2. checkin' \in Checkin /\ checkin.now \in Nat
    BY <2>1, CheckinParts DEF MarkDispatched, Checkin, Answering, RequestsOK
  <2>3. SchedulerOK'
    BY <2>1, <2>2, MarkSection DEF MarkDispatched
  <2> QED BY <2>1, <2>2, <2>3 DEF MarkDispatched, RequestsOK
<1> QED BY <1>1, <1>2, <1>3, <1>4, <1>5, <1>6, <1>7 DEF CheckinStep

LEMMA InstanceStepInv ==
  ASSUME IInv, NEW a \in Admin, InstanceStep(a)
  PROVE  IInv'
<1> USE DEF IInv, callRest, database, scheduler
<1>0. Idle \in Call /\ calls[a] \in Call
  BY DEF Call, RequestsOK
<1>1. ASSUME NEW i \in Instances, NEW new \in BOOLEAN, SaveInstance(a, i, new)
      PROVE  IInv'
  <2>1. [at |-> "saveInstance", inst |-> i] \in Call
    BY DEF Call
  <2> QED BY <1>1, <2>1, GotoType DEF SaveInstance, SchedulerOK, RequestsOK, IndexAgrees
<1>2. ASSUME NEW i \in Instances, DeleteInstance(a, i)
      PROVE  IInv'
  <2>1. [at |-> "untrackInstance", inst |-> i] \in Call
    BY DEF Call
  <2>2. rows' \in [ScheduleIds -> Row]
    BY <1>2, RowKinds DEF DeleteInstance, RequestsOK
  <2>3. insts' \in SUBSET Instances
    BY <1>2 DEF DeleteInstance, RequestsOK
  <2> QED BY <1>2, <2>1, <2>2, <2>3, GotoType DEF DeleteInstance, SchedulerOK, RequestsOK, IndexAgrees
<1>3. ASSUME NEW i \in Instances, handleTrigger(a, i)
      PROVE  IInv'
  <2>1. [at |-> "trigger", inst |-> i] \in Call
    BY DEF Call
  <2> QED BY <1>3, <2>1, GotoType DEF handleTrigger, SchedulerOK, RequestsOK, IndexAgrees
<1>4. CASE upsertInstance(a)
  <2>1. calls[a].inst \in Instances
    BY <1>0, <1>4, CallParts DEF upsertInstance, Stands
  <2>2. insts' \in SUBSET Instances
    BY <1>4, <2>1 DEF upsertInstance, RequestsOK
  <2> QED BY <1>0, <1>4, <2>2, GotoType DEF upsertInstance, SchedulerOK, RequestsOK, IndexAgrees
<1>5. CASE untrackInstance(a)
  <2>1. calls[a].inst \in Instances
    BY <1>0, <1>5, CallParts DEF untrackInstance, Stands
  <2>2. SchedulerOK'
    BY <1>5, <2>1, UntrackInstanceSection DEF untrackInstance
  <2> QED BY <1>0, <1>5, <2>2, GotoType DEF untrackInstance, RequestsOK
<1>6. CASE Trigger(a)
  <2>1. calls[a].inst \in Instances
    BY <1>0, <1>6, CallParts DEF Trigger, Stands
  <2>2. manual' \in SUBSET Instances
    BY <1>6, <2>1 DEF Trigger, SchedulerOK
  <2> QED BY <1>0, <1>6, <2>2, GotoType DEF Trigger, SchedulerOK, RequestsOK, IndexAgrees
<1> QED BY <1>1, <1>2, <1>3, <1>4, <1>5, <1>6 DEF InstanceStep

LEMMA ScheduleStepInv ==
  ASSUME IInv, NEW a \in Admin, ScheduleStep(a)
  PROVE  IInv'
<1> USE DEF IInv, callRest, database, scheduler
<1>0. Idle \in Call /\ calls[a] \in Call
  BY DEF Call, RequestsOK
<1>1. ASSUME NEW i \in Instances, NEW p \in Periods, createSchedule(a, i, p)
      PROVE  IInv'
  <2>1. [at |-> "insert", row |-> [inst |-> i, period |-> p, enabled |-> TRUE]] \in Call
    BY ConstantsOK DEF Call
  <2> QED BY <1>1, <2>1, GotoType DEF createSchedule, SchedulerOK, RequestsOK, IndexAgrees
<1>2. ASSUME NEW id \in ScheduleIds, NEW p \in Periods, NEW on \in BOOLEAN,
             updateSchedule(a, id, p, on)
      PROVE  IInv'
  <2>1. rows[id].inst \in Instances
    BY <1>2 DEF updateSchedule, RequestsOK
  <2>2. [at |-> "update", id |-> id,
         row |-> [inst |-> rows[id].inst, period |-> p, enabled |-> on]] \in Call
    BY <2>1, ConstantsOK DEF Call
  <2> QED BY <1>2, <2>2, GotoType DEF updateSchedule, SchedulerOK, RequestsOK, IndexAgrees
<1>3. ASSUME NEW id \in ScheduleIds, DeleteSchedule(a, id)
      PROVE  IInv'
  <2>1. [at |-> "untrack", id |-> id] \in Call
    BY DEF Call
  <2>2. rows' \in [ScheduleIds -> Row]
    BY <1>3, RowKinds DEF DeleteSchedule, RequestsOK
  <2> QED BY <1>3, <2>1, <2>2, GotoType DEF DeleteSchedule, SchedulerOK, RequestsOK, IndexAgrees
<1>4. CASE CreateSchedule(a)
  <2>1. calls[a].row \in Mappable
    BY <1>0, <1>4, CallParts DEF CreateSchedule, Stands
  <2>2. nextId \in ScheduleIds /\ nextId + 1 \in 1..(MaxSchedules + 1)
    BY <1>4, ConstantsOK DEF CreateSchedule, RequestsOK, ScheduleIds
  <2>3. [at |-> "track", id |-> nextId, row |-> calls[a].row] \in Call
    BY <2>1, <2>2 DEF Call, Mappable
  <2>4. rows' \in [ScheduleIds -> Row]
    BY <1>4, <2>1, RowKinds DEF CreateSchedule, RequestsOK
  <2> QED BY <1>4, <2>2, <2>3, <2>4, GotoType DEF CreateSchedule, SchedulerOK, RequestsOK, IndexAgrees
<1>5. CASE UpdateSchedule(a)
  <2>1. calls[a].id \in ScheduleIds /\ calls[a].row \in Mappable
    BY <1>0, <1>5, CallParts DEF UpdateSchedule, Stands
  <2>2. [at |-> "track", id |-> calls[a].id, row |-> calls[a].row] \in Call
    BY <2>1 DEF Call, Mappable
  <2>3. [inst |-> rows[calls[a].id].inst, period |-> calls[a].row.period,
         enabled |-> calls[a].row.enabled] \in Row
    BY <2>1 DEF RequestsOK, Row, Mappable
  <2>4. rows' \in [ScheduleIds -> Row]
    BY <1>5, <2>1, <2>3 DEF UpdateSchedule, RequestsOK, Row
  <2> QED BY <1>0, <1>5, <2>2, <2>4, GotoType DEF UpdateSchedule, SchedulerOK, RequestsOK, IndexAgrees
<1>6. CASE trackSchedule(a)
  <2>1. calls[a].id \in ScheduleIds /\ calls[a].row \in Row
    BY <1>0, <1>6, CallParts, RowKinds DEF trackSchedule, Stands
  <2>2. now \in Nat
    BY ConstantsOK DEF RequestsOK
  <2>3. SchedulerOK'
    BY <1>6, <2>1, <2>2, TrackSection DEF trackSchedule
  <2> QED BY <1>0, <1>6, <2>3, GotoType DEF trackSchedule, RequestsOK
<1>7. CASE untrackSchedule(a)
  <2>1. calls[a].id \in ScheduleIds
    BY <1>0, <1>7, CallParts DEF untrackSchedule, Stands
  <2>2. SchedulerOK'
    BY <1>7, <2>1, UntrackSection DEF untrackSchedule
  <2> QED BY <1>0, <1>7, <2>2, GotoType DEF untrackSchedule, RequestsOK
<1> QED BY <1>1, <1>2, <1>3, <1>4, <1>5, <1>6, <1>7 DEF ScheduleStep

LEMMA ImportStepInv ==
  ASSUME IInv, NEW a \in Admin, ImportStep(a)
  PROVE  IInv'
<1> USE DEF IInv, callRest, database, scheduler
<1>0. Idle \in Call /\ calls[a] \in Call /\ now \in Nat
  BY ConstantsOK DEF Call, RequestsOK
<1>1. ASSUME NEW set \in SUBSET Instances, NEW i \in Instances, NEW p \in Periods,
             ReplaceConfig(a, set, i, p)
      PROVE  IInv'
  <2>1. [at |-> "reread", now |-> now] \in Call
    BY <1>0 DEF Call
  <2>2. [inst |-> i, period |-> p, enabled |-> TRUE] \in Row
    BY ConstantsOK DEF Row
  <2>3. rows' \in [ScheduleIds -> Row]
    BY <1>1, <2>2, RowKinds DEF ReplaceConfig
  <2>4. nextId' \in 1..(MaxSchedules + 1)
    BY <1>1, ConstantsOK DEF ReplaceConfig, RequestsOK
  <2> QED BY <1>1, <2>1, <2>3, <2>4, GotoType DEF ReplaceConfig, SchedulerOK, RequestsOK, IndexAgrees
<1>2. CASE rereadSchedules(a)
  <2>1. calls[a].now \in Nat
    BY <1>0, <1>2, CallParts DEF rereadSchedules, Stands
  <2>2. [at |-> "reset", now |-> calls[a].now, rows |-> rows] \in Call
    BY <2>1 DEF Call, RequestsOK
  <2> QED BY <1>2, <2>2, GotoType DEF rereadSchedules, SchedulerOK, RequestsOK, IndexAgrees
<1>3. CASE resetScheduler(a)
  <2>1. calls[a].now \in Nat /\ calls[a].rows \in [ScheduleIds -> Row]
    BY <1>0, <1>3, CallParts DEF resetScheduler, Stands
  <2>2. SchedulerOK'
    BY <1>0, <1>3, <2>1, ResetSection DEF resetScheduler
  <2> QED BY <1>0, <1>3, <2>2, GotoType DEF resetScheduler, RequestsOK
<1> QED BY <1>1, <1>2, <1>3 DEF ImportStep

LEMMA ClockInv ==
  ASSUME IInv, tick \/ restart
  PROVE  IInv'
<1> USE DEF IInv, database, scheduler
<1>1. CASE tick
  <2>1. now' \in 0..Horizon
    BY <1>1, ConstantsOK DEF tick, RequestsOK
  <2> QED BY <1>1, <2>1 DEF tick, SchedulerOK, RequestsOK, IndexAgrees
<1>2. CASE restart
  <2>1. now \in Nat
    BY ConstantsOK DEF RequestsOK
  <2>2. SchedulerOK'
    BY <1>2, <2>1, ResetSection DEF restart, RequestsOK
  <2>3. restarts' \in 0..MaxRestarts
    BY <1>2, ConstantsOK DEF restart, RequestsOK
  <2> QED BY <1>2, <2>2, <2>3 DEF restart, RequestsOK, Call, Checkin
<1> QED BY <1>1, <1>2

LEMMA NextInv == IInv /\ [Next]_vars => IInv'
<1> SUFFICES ASSUME IInv, [Next]_vars
             PROVE  IInv'
  OBVIOUS
<1>1. CASE CheckinStep
  BY <1>1, CheckinStepInv
<1>2. CASE tick \/ restart
  BY <1>2, ClockInv
<1>3. CASE \E a \in Admin : InstanceStep(a) \/ ScheduleStep(a) \/ ImportStep(a)
  BY <1>3, InstanceStepInv, ScheduleStepInv, ImportStepInv
<1>4. CASE UNCHANGED vars
  BY <1>4 DEF vars, database, scheduler, IInv, SchedulerOK, RequestsOK, IndexAgrees
<1> QED BY <1>1, <1>2, <1>3, <1>4 DEF Next

LEMMA Invariance == Spec => []IInv
  BY InitInv, NextInv, PTL DEF Spec

\* Whatever the handlers interleave, every variable keeps its type: a request
\* only ever carries the ids and rows of what it was checked against.
THEOREM TypeCorrect == Spec => []TypeOK
  BY Invariance, IInvIsBoth, PTL

\* No interleaving of handlers, check-ins, imports and restarts leaves an index
\* entry without a schedule, or a tracked schedule out of reach of its instance.
THEOREM IndexAlwaysAgrees == Spec => []IndexAgrees
  BY Invariance, IInvIsBoth, PTL

-----------------------------------------------------------------------------
(* When a schedule fires.  What is due moves only past the moment its       *)
(* check-in began, and that moment is never after the clock: this relates   *)
(* next, since and lastDispatch while a dispatch is being built and marked. *)

LEMMA NextRunBounds ==
  ASSUME NEW p \in Nat \ {0}, NEW t \in Nat
  PROVE  NextRun(p, t) \in Nat /\ t < NextRun(p, t) /\ NextRun(p, t) - p <= t
BY DEF NextRun

Dispatching == checkin.at \in {"build", "mark"}

ClocksOK ==
  /\ \A i \in Instances : lastDispatch[i] <= now
  /\ \A a \in Admin : calls[a].at \in {"reread", "reset"} => calls[a].now <= now
  /\ checkin # Idle => /\ checkin.now <= now
                       /\ \A i \in Instances : lastDispatch[i] <= checkin.now
  /\ Dispatching => checkin.inst \in Instances
  /\ checkin.at = "mark" => lastDispatch[checkin.inst] = checkin.now

\* What FiresOnce and NoOccurrenceSkipped say of one schedule.
FiresOnceFor(id) ==
  Active(id) /\ ~Marking(st[id].inst) /\ st[id].next > st[id].since
    => st[id].next > lastDispatch[st[id].inst]

AnsweredFor(id) ==
  Active(id) /\ st[id].next - st[id].period > st[id].since
    => lastDispatch[st[id].inst] >= st[id].next - st[id].period

\* While an instance is dispatched, whatever of it is not due, or no longer, lies
\* after the check-in; and whatever is due still belongs to it or is newer.
DueIsRight(id) ==
  Dispatching =>
    /\ Active(id) /\ st[id].inst = checkin.inst /\ id \notin checkin.due
         /\ st[id].next > st[id].since => st[id].next > checkin.now
    /\ id \in checkin.due => \/ st[id].inst \in {None, checkin.inst}
                             \/ st[id].since >= checkin.now

Timely(id) ==
  st[id].since <= now /\ FiresOnceFor(id) /\ AnsweredFor(id) /\ DueIsRight(id)

TimeInv == ClocksOK /\ \A id \in ScheduleIds : Timely(id)

\* The types the steps below need, in one place.
LEMMA TimeTypes ==
  ASSUME IInv
  PROVE  /\ now \in Nat /\ lastDispatch \in [Instances -> Nat]
         /\ \A id \in ScheduleIds : st[id] \in State
         /\ calls \in [Admin -> Call] /\ checkin \in Checkin
         /\ checkin # Idle => checkin \in Answering
         /\ Dispatching \/ checkin.at = "due" => checkin # Idle
BY ConstantsOK DEF IInv, SchedulerOK, RequestsOK, Checkin, Idle, Dispatching

LEMMA InitTimely == Init => TimeInv
BY DEF Init, TimeInv, ClocksOK, Timely, FiresOnceFor, AnsweredFor, DueIsRight, Dispatching,
       Active, Untracked, Idle

\* A section of the scheduler run for an operator leaves a schedule as it is,
\* untracks it, or tracks it with a next computed from a moment not to come.
LEMMA SectionTimely ==
  ASSUME IInv, TimeInv, UNCHANGED <<checkin, now, lastDispatch>>, NEW id \in ScheduleIds,
         \/ st'[id] \in {st[id], Untracked}
         \/ \E row \in Row, t \in 0..now : st'[id] = Tracked(row, t)
  PROVE  Timely(id)'
<1> USE TimeTypes DEF TimeInv, Timely
<1>1. CASE st'[id] = st[id]
  BY <1>1 DEF FiresOnceFor, AnsweredFor, DueIsRight, Dispatching, Active, Marking
<1>2. CASE st'[id] = Untracked
  BY <1>2 DEF FiresOnceFor, AnsweredFor, DueIsRight, Dispatching, Active, Untracked
<1>3. CASE \E row \in Row, t \in 0..now : st'[id] = Tracked(row, t)
  <2>1. PICK row \in Row, t \in 0..now : st'[id] = Tracked(row, t)
    BY <1>3
  <2>2. /\ st'[id].inst = row.inst /\ st'[id].period = row.period
        /\ st'[id].next = NextRun(row.period, t) /\ st'[id].since = now
    BY <2>1 DEF Tracked
  <2>3. row.period \in Nat \ {0} /\ t \in Nat /\ t <= now
    BY DEF Row
  <2>4. /\ NextRun(row.period, t) \in Nat /\ t < NextRun(row.period, t)
        /\ NextRun(row.period, t) - row.period <= t
    BY <2>3, NextRunBounds
  <2>5. AnsweredFor(id)'
    BY <2>2, <2>3, <2>4 DEF AnsweredFor
  <2>6. Active(id)' => st'[id].inst \in Instances
    BY <2>2 DEF Active, Row
  <2>7. FiresOnceFor(id)'
    BY <2>2, <2>3, <2>4, <2>6 DEF FiresOnceFor, ClocksOK
  <2>8. DueIsRight(id)'
    BY <2>2, <2>3, <2>4 DEF DueIsRight, ClocksOK, Dispatching, Answering
  <2> QED BY <2>2, <2>5, <2>7, <2>8
<1> QED BY <1>1, <1>2, <1>3

\* With the scheduler and the clock left alone there is nothing to show but that
\* the requests in flight began in the past.
LEMMA ClocksKept ==
  ASSUME IInv, TimeInv, UNCHANGED <<checkin, now, lastDispatch>>,
         NEW a \in Admin, NEW c \in Call, Goto(a, c),
         c.at \in {"reread", "reset"} => c.now <= now
  PROVE  ClocksOK'
<1>1. \A b \in Admin : calls'[b] \in {calls[b], c}
  BY TimeTypes DEF Goto
<1> QED BY <1>1 DEF TimeInv, ClocksOK, Dispatching

LEMMA InstanceStepTimely ==
  ASSUME IInv, TimeInv, NEW a \in Admin, InstanceStep(a)
  PROVE  TimeInv'
<1>0. UNCHANGED <<checkin, now, lastDispatch>>
  BY DEF InstanceStep, SaveInstance, DeleteInstance, handleTrigger, upsertInstance,
         untrackInstance, Trigger, callRest
<1>1. \A id \in ScheduleIds : st'[id] \in {st[id], Untracked}
  BY DEF InstanceStep, SaveInstance, DeleteInstance, handleTrigger, upsertInstance,
         untrackInstance, Trigger, scheduler, UntrackInstance
<1>c. /\ Idle \in Call /\ Idle.at \notin {"reread", "reset"}
      /\ \A at \in {"saveInstance", "untrackInstance", "trigger"}, i \in Instances :
            [at |-> at, inst |-> i] \in Call
  BY DEF Call, Idle
<1>2. \E c \in Call : Goto(a, c) /\ c.at \notin {"reread", "reset"}
  BY <1>c DEF InstanceStep, SaveInstance, DeleteInstance, handleTrigger, upsertInstance,
              untrackInstance, Trigger
<1>3. ClocksOK'
  BY <1>0, <1>2, ClocksKept
<1> QED BY <1>0, <1>1, <1>3, SectionTimely DEF TimeInv

LEMMA ScheduleStepTimely ==
  ASSUME IInv, TimeInv, NEW a \in Admin, ScheduleStep(a)
  PROVE  TimeInv'
<1> DEFINE Sections(id) == \/ st'[id] \in {st[id], Untracked}
                           \/ \E row \in Row, t \in 0..now : st'[id] = Tracked(row, t)
           Quiet == \E c \in Call : Goto(a, c) /\ c.at \notin {"reread", "reset"}
<1>0. UNCHANGED <<checkin, now, lastDispatch>>
  BY DEF ScheduleStep, createSchedule, updateSchedule, DeleteSchedule, CreateSchedule,
         UpdateSchedule, trackSchedule, untrackSchedule, callRest
<1>c. calls[a] \in Call /\ Idle \in Call
  BY TimeTypes DEF Call
<1>1. ASSUME NEW i \in Instances, NEW p \in Periods, createSchedule(a, i, p)
      PROVE  Quiet /\ \A id \in ScheduleIds : Sections(id)
  <2>1. [at |-> "insert", row |-> [inst |-> i, period |-> p, enabled |-> TRUE]] \in Call
    BY ConstantsOK DEF Call
  <2> QED BY <1>1, <2>1 DEF createSchedule, scheduler
<1>2. ASSUME NEW x \in ScheduleIds, NEW p \in Periods, NEW on \in BOOLEAN,
             updateSchedule(a, x, p, on)
      PROVE  Quiet /\ \A id \in ScheduleIds : Sections(id)
  <2>1. rows[x].inst \in Instances
    BY <1>2 DEF updateSchedule, IInv, RequestsOK
  <2>2. [at |-> "update", id |-> x,
         row |-> [inst |-> rows[x].inst, period |-> p, enabled |-> on]] \in Call
    BY <2>1, ConstantsOK DEF Call
  <2> QED BY <1>2, <2>2 DEF updateSchedule, scheduler
<1>3. ASSUME NEW x \in ScheduleIds, DeleteSchedule(a, x)
      PROVE  Quiet /\ \A id \in ScheduleIds : Sections(id)
  <2>1. [at |-> "untrack", id |-> x] \in Call
    BY DEF Call
  <2> QED BY <1>3, <2>1 DEF DeleteSchedule, scheduler
<1>4. CASE CreateSchedule(a)
  <2>1. calls[a].row \in Mappable
    BY <1>c, <1>4, CallParts DEF CreateSchedule, Stands
  <2>2. nextId \in ScheduleIds
    BY <1>4, ConstantsOK DEF CreateSchedule, IInv, RequestsOK, ScheduleIds
  <2>3. [at |-> "track", id |-> nextId, row |-> calls[a].row] \in Call
    BY <2>1, <2>2 DEF Call, Mappable
  <2>4. Quiet /\ \A id \in ScheduleIds : Sections(id)
    BY <1>4, <2>3 DEF CreateSchedule, scheduler
  <2> QED BY <2>4, <1>0, ClocksKept, SectionTimely DEF TimeInv
<1>5. CASE UpdateSchedule(a)
  <2>1. calls[a].id \in ScheduleIds /\ calls[a].row \in Mappable
    BY <1>c, <1>5, CallParts DEF UpdateSchedule, Stands
  <2>2. [at |-> "track", id |-> calls[a].id, row |-> calls[a].row] \in Call
    BY <2>1 DEF Call, Mappable
  <2>3. Quiet /\ \A id \in ScheduleIds : Sections(id)
    BY <1>c, <1>5, <2>2 DEF UpdateSchedule, scheduler, Idle
  <2> QED BY <2>3, <1>0, ClocksKept, SectionTimely DEF TimeInv
<1>6. CASE trackSchedule(a)
  <2>1. calls[a].id \in ScheduleIds /\ calls[a].row \in Row
    BY <1>c, <1>6, CallParts, RowKinds DEF trackSchedule, Stands
  <2>2. st' = [st EXCEPT ![calls[a].id] = Tracked(calls[a].row, now)]
    BY <1>6 DEF trackSchedule, TrackSchedule
  <2>3. now \in 0..now
    BY TimeTypes
  <2>4. \A id \in ScheduleIds : Sections(id)
    BY <2>1, <2>2, <2>3 DEF IInv, SchedulerOK
  <2>5. Quiet
    BY <1>c, <1>6 DEF trackSchedule, Idle
  <2> QED BY <2>4, <2>5, <1>0, ClocksKept, SectionTimely DEF TimeInv
<1>7. CASE untrackSchedule(a)
  <2>1. Quiet /\ \A id \in ScheduleIds : Sections(id)
    BY <1>c, <1>7 DEF untrackSchedule, UntrackSchedule, Idle, IInv, SchedulerOK
  <2> QED BY <2>1, <1>0, ClocksKept, SectionTimely DEF TimeInv
<1> HIDE DEF Sections, Quiet
<1>8. (Quiet /\ \A id \in ScheduleIds : Sections(id)) => TimeInv'
  BY <1>0, ClocksKept, SectionTimely DEF TimeInv, Sections, Quiet
<1> QED BY <1>1, <1>2, <1>3, <1>4, <1>5, <1>6, <1>7, <1>8 DEF ScheduleStep

LEMMA ImportStepTimely ==
  ASSUME IInv, TimeInv, NEW a \in Admin, ImportStep(a)
  PROVE  TimeInv'
<1>0. UNCHANGED <<checkin, now, lastDispatch>>
  BY DEF ImportStep, ReplaceConfig, rereadSchedules, resetScheduler, callRest
<1>c. calls[a] \in Call /\ Idle \in Call /\ now \in Nat
  BY TimeTypes DEF Call
<1>1. ASSUME NEW set \in SUBSET Instances, NEW i \in Instances, NEW p \in Periods,
             ReplaceConfig(a, set, i, p)
      PROVE  TimeInv'
  <2>1. [at |-> "reread", now |-> now] \in Call
    BY <1>c DEF Call
  <2>2. ClocksOK'
    BY <1>0, <1>1, <1>c, <2>1, ClocksKept DEF ReplaceConfig
  <2> QED BY <1>0, <1>1, <2>2, SectionTimely DEF ReplaceConfig, scheduler, TimeInv
<1>2. CASE rereadSchedules(a)
  <2>1. calls[a].now \in Nat /\ calls[a].now <= now
    BY <1>c, <1>2, CallParts DEF rereadSchedules, Stands, TimeInv, ClocksOK
  <2>2. [at |-> "reset", now |-> calls[a].now, rows |-> rows] \in Call
    BY <2>1 DEF Call, IInv, RequestsOK
  <2>3. ClocksOK'
    BY <1>0, <1>2, <2>1, <2>2, ClocksKept DEF rereadSchedules
  <2> QED BY <1>0, <1>2, <2>3, SectionTimely DEF rereadSchedules, scheduler, TimeInv
<1>3. CASE resetScheduler(a)
  <2>1. calls[a].now \in 0..now /\ calls[a].rows \in [ScheduleIds -> Row]
    BY <1>c, <1>3, CallParts DEF resetScheduler, Stands, TimeInv, ClocksOK
  <2>2. ClocksOK'
    BY <1>0, <1>3, <1>c, ClocksKept DEF resetScheduler, Idle
  <2>3. \A id \in ScheduleIds : \/ st'[id] = Untracked
                                \/ st'[id] = Tracked(calls[a].rows[id], calls[a].now)
    BY <1>3 DEF resetScheduler, Reset
  <2> QED BY <1>0, <2>1, <2>2, <2>3, SectionTimely DEF TimeInv
<1> QED BY <1>1, <1>2, <1>3 DEF ImportStep

\* The check-in: what it finds due, dispatches and moves on.
LEMMA CheckinStepTimely ==
  ASSUME IInv, TimeInv, CheckinStep
  PROVE  TimeInv'
<1> USE TimeTypes DEF TimeInv, checkinRest, scheduler
<1>1. CASE checkinBegins
  <2>1. ClocksOK'
    BY <1>1 DEF checkinBegins, ClocksOK, Dispatching
  <2>2. ASSUME NEW id \in ScheduleIds
        PROVE  Timely(id)'
    BY <1>1 DEF checkinBegins, Timely, FiresOnceFor, AnsweredFor, DueIsRight, Dispatching,
                Active, Marking, Idle
  <2> QED BY <2>1, <2>2
<1>2. CASE checkinBuilds
  <2>0. /\ checkin \in Answering /\ checkin.at = "build" /\ checkin.inst \in Instances
        /\ checkin # Idle /\ checkin.now \in Nat
        /\ checkin' = [checkin EXCEPT !.at = "mark"]
    BY <1>2 DEF checkinBuilds, Dispatching, ClocksOK, Answering
  <2>1. /\ checkin'.at = "mark" /\ checkin'.now = checkin.now
        /\ checkin'.inst = checkin.inst /\ checkin'.due = checkin.due
    BY <2>0 DEF Answering
  <2>2. \A i \in Instances :
          lastDispatch'[i] = IF i = checkin.inst THEN checkin.now ELSE lastDispatch[i]
    BY <1>2, <2>0 DEF checkinBuilds
  <2>3. ClocksOK'
    BY <1>2, <2>0, <2>1, <2>2 DEF checkinBuilds, ClocksOK, Dispatching, Answering
  <2>4. ASSUME NEW id \in ScheduleIds
        PROVE  Timely(id)'
    <3>1. UNCHANGED <<st, now>> /\ st[id] \in State
      BY <1>2 DEF checkinBuilds
    <3>2. Active(id) => st[id].inst \in Instances
      BY <3>1 DEF Active, State
    <3>3. FiresOnceFor(id)'
      BY <2>0, <2>1, <2>2, <3>1, <3>2 DEF Timely, FiresOnceFor, Active, Marking
    <3>4. AnsweredFor(id)'
      <4>1. Active(id) => lastDispatch'[st[id].inst] >= lastDispatch[st[id].inst]
        BY <2>0, <2>2, <3>2 DEF ClocksOK
      <4>2. Active(id) => /\ lastDispatch'[st[id].inst] \in Nat
                          /\ lastDispatch[st[id].inst] \in Nat
        BY <2>0, <2>2, <3>2 DEF Answering
      <4>3. st[id].next \in Nat /\ st[id].period \in Nat
        BY <3>1 DEF State
      <4> QED BY <3>1, <4>1, <4>2, <4>3 DEF Timely, AnsweredFor, Active
    <3>5. DueIsRight(id)'
      BY <2>0, <2>1, <3>1 DEF Timely, DueIsRight, Active, Dispatching
    <3> QED BY <3>1, <3>3, <3>4, <3>5 DEF Timely
  <2> QED BY <2>3, <2>4
<1>3. CASE checkinSkips
  <2>1. ClocksOK'
    BY <1>3 DEF checkinSkips, NextInstance, ClocksOK, Dispatching
  <2>2. ASSUME NEW id \in ScheduleIds
        PROVE  Timely(id)'
    BY <1>3 DEF checkinSkips, NextInstance, Timely, FiresOnceFor, AnsweredFor, DueIsRight,
                Dispatching, Active, Marking
  <2> QED BY <2>1, <2>2
<1>4. CASE ClearManual
  <2>1. ClocksOK'
    BY <1>4 DEF ClearManual, NextInstance, ClocksOK, Dispatching
  <2>2. ASSUME NEW id \in ScheduleIds
        PROVE  Timely(id)'
    <3>0. /\ checkin.at = "mark" /\ checkin.due = {} /\ UNCHANGED <<st, now, lastDispatch>>
          /\ checkin'.at = "due" /\ lastDispatch[checkin.inst] = checkin.now
      BY <1>4 DEF ClearManual, NextInstance, ClocksOK
    <3>1. st[id].inst = checkin.inst => FiresOnceFor(id)'
      BY <3>0 DEF Timely, FiresOnceFor, DueIsRight, Dispatching, Active
    <3>2. st[id].inst # checkin.inst => FiresOnceFor(id)'
      BY <3>0 DEF Timely, FiresOnceFor, Active, Marking
    <3>3. AnsweredFor(id)' /\ DueIsRight(id)'
      BY <3>0 DEF Timely, AnsweredFor, DueIsRight, Dispatching, Active
    <3> QED BY <3>0, <3>1, <3>2, <3>3 DEF Timely
  <2> QED BY <2>1, <2>2
<1>5. CASE checkinAnswers
  <2>1. ClocksOK'
    BY <1>5 DEF checkinAnswers, ClocksOK, Dispatching, Idle
  <2>2. ASSUME NEW id \in ScheduleIds
        PROVE  Timely(id)'
    BY <1>5 DEF checkinAnswers, Timely, FiresOnceFor, AnsweredFor, DueIsRight, Dispatching,
                Active, Marking, Idle
  <2> QED BY <2>1, <2>2
<1>6. CASE \E i \in Instances : checkinLooks(i)
  <2>1. PICK i \in Instances : checkinLooks(i)
    BY <1>6
  <2>2. /\ checkin.at = "due" /\ checkin \in Answering /\ checkin # Idle
        /\ UNCHANGED <<st, now, lastDispatch, calls>>
    BY <2>1 DEF checkinLooks
  <2>3. /\ checkin' \in Answering /\ checkin' # Idle /\ checkin'.now = checkin.now
        /\ checkin'.at \in {"due", "build"}
        /\ checkin'.at = "build" => checkin'.inst = i /\ checkin'.due = DueFor(i, checkin.now)
    <3>1. checkin' \in Checkin
      BY CheckinStepInv, <2>1 DEF CheckinStep, IInv, RequestsOK
    <3>2. CASE checkin' = [checkin EXCEPT !.todo = @ \ {i}]
      BY <2>2, <3>1, <3>2 DEF Checkin, Answering, Idle
    <3>3. CASE checkin' = [at |-> "build", now |-> checkin.now, todo |-> checkin.todo \ {i},
                           inst |-> i, due |-> DueFor(i, checkin.now), manual |-> i \in manual]
      BY <3>1, <3>3 DEF Checkin, Idle
    <3> QED BY <2>1, <3>2, <3>3 DEF checkinLooks
  <2>4. ClocksOK'
    BY <2>2, <2>3 DEF ClocksOK, Dispatching
  <2>5. ASSUME NEW id \in ScheduleIds
        PROVE  Timely(id)'
    <3>1. FiresOnceFor(id)' /\ AnsweredFor(id)'
      BY <2>2, <2>3 DEF Timely, FiresOnceFor, AnsweredFor, Active, Marking
    <3>2. checkin'.at = "build" => (id \in checkin'.due <=>
            st[id].inst = i /\ st[id].enabled /\ st[id].next <= checkin.now)
      BY <2>3, ConstantsOK DEF DueFor, IInv, SchedulerOK, IndexAgrees
    <3>3. DueIsRight(id)'
      <4>1. st[id].next \in Nat /\ checkin.now \in Nat
        BY <2>2 DEF State, Answering
      <4> QED BY <2>2, <2>3, <3>2, <4>1 DEF DueIsRight, Dispatching, Active
    <3> QED BY <2>2, <3>1, <3>3 DEF Timely
  <2> QED BY <2>4, <2>5
<1>7. CASE \E id \in ScheduleIds : MarkDispatched(id)
  <2>1. PICK x \in ScheduleIds : MarkDispatched(x)
    BY <1>7
  <2>2. /\ checkin \in Answering /\ checkin # Idle /\ checkin.at = "mark" /\ x \in checkin.due
        /\ UNCHANGED <<now, lastDispatch, calls>>
        /\ checkin.inst \in Instances /\ lastDispatch[checkin.inst] = checkin.now
    BY <2>1 DEF MarkDispatched, ClocksOK, Dispatching
  <2>3. /\ checkin'.at = "mark" /\ checkin'.now = checkin.now /\ checkin' # Idle
        /\ checkin'.inst = checkin.inst /\ checkin'.due = checkin.due \ {x}
    BY <2>1, <2>2 DEF MarkDispatched, Answering, Idle
  <2>4. ClocksOK'
    BY <2>2, <2>3 DEF ClocksOK, Dispatching
  <2>5. ASSUME NEW id \in ScheduleIds, st'[id] = st[id], id # x \/ st[id].inst = None
        PROVE  Timely(id)'
    BY <2>2, <2>3, <2>5 DEF Timely, FiresOnceFor, AnsweredFor, DueIsRight, Dispatching, Active, Marking
  <2>6. st[x].inst # None => Timely(x)'
    <3> SUFFICES ASSUME st[x].inst # None
                 PROVE  Timely(x)'
      OBVIOUS
    <3>1. st[x] \in State /\ checkin.now \in Nat
      BY <2>2 DEF Answering
    <3>2. /\ st'[x].inst = st[x].inst /\ st'[x].period = st[x].period
          /\ st'[x].since = st[x].since /\ st'[x].enabled = st[x].enabled
          /\ st'[x].next = NextRun(st[x].period, checkin.now)
      BY <2>1, <3>1 DEF MarkDispatched, IInv, SchedulerOK, State
    <3>3. /\ st'[x].next \in Nat /\ checkin.now < st'[x].next
          /\ st'[x].next - st[x].period <= checkin.now
      BY <3>1, <3>2, NextRunBounds DEF State
    <3>4. st[x].inst \in Instances
      BY <3>1 DEF State
    <3>5. FiresOnceFor(x)'
      BY <2>2, <3>1, <3>2, <3>3, <3>4 DEF FiresOnceFor, ClocksOK
    <3>6. AnsweredFor(x)'
      <4>1. st[x].inst = checkin.inst \/ st[x].since >= checkin.now
        BY <2>2 DEF Timely, DueIsRight, Dispatching
      <4>2. st[x].since \in Nat /\ st[x].period \in Nat
        BY <3>1 DEF State
      <4> QED BY <2>2, <3>1, <3>2, <3>3, <4>1, <4>2 DEF AnsweredFor
    <3>7. DueIsRight(x)'
      BY <2>3, <3>3 DEF DueIsRight
    <3> QED BY <2>2, <3>2, <3>5, <3>6, <3>7 DEF Timely
  <2>7. \A id \in ScheduleIds : id # x => st'[id] = st[id]
    BY <2>1 DEF MarkDispatched, IInv, SchedulerOK
  <2>8. st[x].inst = None => st'[x] = st[x]
    BY <2>1 DEF MarkDispatched
  <2> QED BY <2>4, <2>5, <2>6, <2>7, <2>8
<1> QED BY <1>1, <1>2, <1>3, <1>4, <1>5, <1>6, <1>7 DEF CheckinStep

LEMMA ClockTimely ==
  ASSUME IInv, TimeInv, tick \/ restart
  PROVE  TimeInv'
<1> USE TimeTypes DEF TimeInv
<1>1. CASE tick
  <2>0. /\ now' = now + 1 /\ UNCHANGED <<st, calls, checkin, lastDispatch>>
        /\ \A a \in Admin : calls[a] \in Call
    BY <1>1 DEF tick, scheduler
  <2>1. \A a \in Admin : calls[a].at \in {"reread", "reset"} => calls[a].now \in Nat
    BY <2>0, CallParts
  <2>2. ClocksOK'
    BY <2>0, <2>1 DEF ClocksOK, Dispatching, Answering
  <2>3. ASSUME NEW id \in ScheduleIds
        PROVE  Timely(id)'
    <3>1. (st[id].since <= now)'
      BY <2>0 DEF Timely, State
    <3> QED BY <2>0, <3>1 DEF Timely, FiresOnceFor, AnsweredFor, DueIsRight, Dispatching, Active, Marking
  <2> QED BY <2>2, <2>3
<1>2. CASE restart
  <2>0. /\ UNCHANGED <<now, lastDispatch>> /\ checkin' = Idle /\ now \in 0..now
        /\ \A a \in Admin : calls'[a] = Idle
    BY <1>2 DEF restart
  <2>1. ClocksOK'
    BY <2>0 DEF ClocksOK, Dispatching, Idle
  <2>2. ASSUME NEW id \in ScheduleIds
        PROVE  Timely(id)'
    <3>1. DueIsRight(id)'
      BY <2>0 DEF DueIsRight, Dispatching, Idle
    <3>2. CASE st'[id] = Untracked
      BY <2>0, <3>1, <3>2 DEF Timely, FiresOnceFor, AnsweredFor, Active, Untracked
    <3>3. CASE st'[id] = Tracked(rows[id], now) /\ rows[id].inst \in insts
      <4>1. rows[id] \in Row /\ rows[id].inst \in Instances /\ rows[id].period \in Nat \ {0}
        BY <3>3 DEF IInv, RequestsOK, Row
      <4>2. /\ st'[id].inst = rows[id].inst /\ st'[id].period = rows[id].period
            /\ st'[id].next = NextRun(rows[id].period, now) /\ st'[id].since = now
        BY <3>3 DEF Tracked
      <4>3. /\ st'[id].next \in Nat /\ now < st'[id].next
            /\ st'[id].next - rows[id].period <= now
        BY <4>1, <4>2, NextRunBounds
      <4> QED BY <2>0, <3>1, <4>1, <4>2, <4>3 DEF Timely, FiresOnceFor, AnsweredFor, ClocksOK
    <3> QED BY <1>2, <3>2, <3>3 DEF restart, Reset
  <2> QED BY <2>1, <2>2
<1> QED BY <1>1, <1>2

LEMMA NextTimely == IInv /\ TimeInv /\ [Next]_vars => TimeInv'
<1> SUFFICES ASSUME IInv, TimeInv, [Next]_vars
             PROVE  TimeInv'
  OBVIOUS
<1>1. CASE CheckinStep
  BY <1>1, CheckinStepTimely
<1>2. CASE tick \/ restart
  BY <1>2, ClockTimely
<1>3. CASE \E a \in Admin : InstanceStep(a) \/ ScheduleStep(a) \/ ImportStep(a)
  BY <1>3, InstanceStepTimely, ScheduleStepTimely, ImportStepTimely
<1>4. CASE UNCHANGED vars
  BY <1>4 DEF vars, database, scheduler, TimeInv, ClocksOK, Timely, FiresOnceFor, AnsweredFor,
              DueIsRight, Dispatching, Active, Marking
<1> QED BY <1>1, <1>2, <1>3, <1>4 DEF Next

LEMMA TimeInvariance == Spec => []TimeInv
BY InitTimely, NextTimely, Invariance, PTL DEF Spec

\* Once an instance is dispatched, none of its schedules is left due at that
\* moment, whoever saves, deletes, imports or restarts while the check-in is at
\* work: schedules that fall together are one run.
THEOREM CoincidingSchedulesFireOnce == Spec => []FiresOnce
<1>1. TimeInv => FiresOnce
  BY DEF TimeInv, Timely, FiresOnceFor, FiresOnce
<1> QED BY <1>1, TimeInvariance, PTL

\* A schedule moves on from an occurrence only for a dispatch of its instance:
\* neither a dispatch that could not be built, nor an edit or an import between
\* DueFor and MarkDispatched makes one pass unanswered.
THEOREM EveryOccurrenceAnswered == Spec => []NoOccurrenceSkipped
<1>1. TimeInv => NoOccurrenceSkipped
  BY DEF TimeInv, Timely, AnsweredFor, NoOccurrenceSkipped
<1> QED BY <1>1, TimeInvariance, PTL

-----------------------------------------------------------------------------
(* What is tracked is what is stored, as long as one operator is at work   *)
(* at a time: the statement the request still has to execute says where the *)
(* two may differ.                                                         *)

\* What TrackedIsStored says of one schedule.
Agrees(id) ==
  /\ rows[id].inst = None => st[id].inst = None
  /\ rows[id].inst \in insts => /\ st[id].inst = rows[id].inst
                                /\ st[id].period = rows[id].period
                                /\ st[id].enabled = rows[id].enabled

AllAgreeBut(ids) == \A id \in ScheduleIds \ ids : Agrees(id)

Pending(c) ==
  /\ c.at \in {"idle", "saveInstance", "trigger", "insert", "update"} => AllAgreeBut({})
  /\ c.at = "insert" => c.row.inst \in insts
  /\ c.at = "update" => rows[c.id].inst = c.row.inst
  /\ c.at = "track"  => AllAgreeBut({c.id}) /\ rows[c.id] = c.row
  /\ c.at = "untrack" => AllAgreeBut({c.id}) /\ rows[c.id].inst = None
  /\ c.at = "untrackInstance" =>
       /\ c.inst \notin insts
       /\ \A id \in ScheduleIds : Agrees(id) \/ (st[id].inst = c.inst /\ rows[id].inst = None)
  /\ c.at = "reset" => c.rows = rows

NoOrphans == \A id \in ScheduleIds : rows[id].inst \in insts \cup {None}

StoreInv == NoOrphans /\ \A a \in Admin : Pending(calls[a])

OneOperator == \E op : Admin = {op}

LEMMA TrackedFields ==
  ASSUME NEW row, NEW t
  PROVE  /\ Tracked(row, t).inst = row.inst /\ Tracked(row, t).period = row.period
         /\ Tracked(row, t).enabled = row.enabled
         /\ Untracked.inst = None
BY DEF Tracked, Untracked

LEMMA InitStored == Init => StoreInv
BY DEF Init, StoreInv, NoOrphans, Pending, AllAgreeBut, Agrees, Idle, NoRow, Untracked

\* The check-in moves next and nothing else.
LEMMA NextMoves ==
  ASSUME IInv, StoreInv, UNCHANGED <<insts, rows, calls>>,
         \A id \in ScheduleIds : /\ st'[id].inst = st[id].inst
                                 /\ st'[id].period = st[id].period
                                 /\ st'[id].enabled = st[id].enabled
  PROVE  StoreInv'
<1>1. \A id \in ScheduleIds : Agrees(id)' <=> Agrees(id)
  BY DEF Agrees
<1>2. \A a \in Admin : calls[a] \in Call /\ calls'[a] = calls[a] /\ Pending(calls[a])
  BY DEF IInv, RequestsOK, StoreInv
<1>3. \A a \in Admin : Pending(calls[a])'
  BY <1>1, <1>2 DEF Pending, AllAgreeBut
<1> QED BY <1>3 DEF StoreInv, NoOrphans

LEMMA CheckinStepStored ==
  ASSUME IInv, StoreInv, CheckinStep
  PROVE  StoreInv'
<1>0. UNCHANGED <<insts, rows, calls>>
  BY DEF CheckinStep, checkinBegins, checkinBuilds, checkinSkips, ClearManual, checkinAnswers,
         checkinLooks, MarkDispatched, checkinRest, database
<1>1. CASE UNCHANGED st
  BY <1>0, <1>1, NextMoves
<1>2. CASE \E id \in ScheduleIds : MarkDispatched(id)
  <2>1. PICK x \in ScheduleIds : MarkDispatched(x)
    BY <1>2
  <2>2. \A id \in ScheduleIds : /\ st'[id].inst = st[id].inst
                                /\ st'[id].period = st[id].period
                                /\ st'[id].enabled = st[id].enabled
    BY <2>1 DEF MarkDispatched, IInv, SchedulerOK, State
  <2> QED BY <1>0, <2>2, NextMoves
<1>3. UNCHANGED st \/ \E id \in ScheduleIds : MarkDispatched(id)
  BY DEF CheckinStep, checkinBegins, checkinBuilds, checkinSkips, ClearManual, checkinAnswers,
         checkinLooks, scheduler
<1> QED BY <1>1, <1>2, <1>3

\* The request of the one operator at work says everything about the requests.
LEMMA OneRequest ==
  ASSUME OneOperator, IInv, NEW a \in Admin, NEW c, Goto(a, c), NoOrphans', Pending(c)'
  PROVE  StoreInv'
<1>1. \A b \in Admin : calls'[b] = c
  BY DEF OneOperator, Goto, IInv, RequestsOK
<1> QED BY <1>1 DEF StoreInv, Pending, AllAgreeBut, Agrees

LEMMA InstanceStepStored ==
  ASSUME OneOperator, IInv, StoreInv, NEW a \in Admin, InstanceStep(a)
  PROVE  StoreInv'
<1> USE DEF database, scheduler
<1>0. /\ Pending(calls[a]) /\ NoOrphans /\ calls[a] \in Call
      /\ rows \in [ScheduleIds -> Row] /\ None \notin insts
  BY ConstantsOK DEF StoreInv, IInv, RequestsOK
<1>1. ASSUME NEW i \in Instances, NEW new \in BOOLEAN, SaveInstance(a, i, new)
      PROVE  StoreInv'
  <2>1. AllAgreeBut({})' /\ NoOrphans'
    BY <1>0, <1>1 DEF SaveInstance, Begins, Idle, Pending, AllAgreeBut, Agrees, NoOrphans
  <2> QED BY <1>1, <2>1, OneRequest DEF SaveInstance, Pending
<1>2. ASSUME NEW i \in Instances, DeleteInstance(a, i)
      PROVE  StoreInv'
  <2>1. \A id \in ScheduleIds : Agrees(id)
    BY <1>0, <1>2 DEF DeleteInstance, Begins, Idle, Pending, AllAgreeBut
  <2>2. /\ insts' = insts \ {i} /\ st' = st
        /\ \A id \in ScheduleIds : rows'[id] = IF rows[id].inst = i THEN NoRow ELSE rows[id]
    BY <1>2 DEF DeleteInstance
  <2>3. NoOrphans'
    BY <1>0, <2>2 DEF NoOrphans, NoRow
  <2>4. ASSUME NEW id \in ScheduleIds
        PROVE  Agrees(id)' \/ (st'[id].inst = i /\ rows'[id].inst = None)
    <3>1. CASE rows[id].inst = i
      <4>1. i \in insts
        BY <1>2 DEF DeleteInstance
      <4> QED BY <2>1, <2>2, <3>1, <4>1 DEF Agrees, NoRow
    <3>2. CASE rows[id].inst # i
      BY <2>1, <2>2, <3>2 DEF Agrees
    <3> QED BY <3>1, <3>2
  <2> QED BY <1>2, <2>2, <2>3, <2>4, OneRequest DEF DeleteInstance, Pending
<1>3. ASSUME NEW i \in Instances, handleTrigger(a, i)
      PROVE  StoreInv'
  <2>1. AllAgreeBut({})' /\ NoOrphans'
    BY <1>0, <1>3 DEF handleTrigger, Begins, Idle, Pending, AllAgreeBut, Agrees, NoOrphans
  <2> QED BY <1>3, <2>1, OneRequest DEF handleTrigger, Pending
<1>4. CASE upsertInstance(a)
  <2>1. \A id \in ScheduleIds : Agrees(id)
    BY <1>0, <1>4 DEF upsertInstance, Stands, Pending, AllAgreeBut
  <2>2. insts' = insts \cup {calls[a].inst} /\ UNCHANGED <<rows, st>>
    BY <1>4 DEF upsertInstance
  <2>3. None \notin insts'
    BY <1>0, <1>4, <2>2, CallParts, ConstantsOK DEF upsertInstance, Stands
  <2>4. AllAgreeBut({})' /\ NoOrphans'
    BY <1>0, <2>1, <2>2, <2>3 DEF AllAgreeBut, Agrees, NoOrphans
  <2> QED BY <1>4, <2>4, OneRequest DEF upsertInstance, Pending, Idle
<1>5. CASE untrackInstance(a)
  <2> PICK c \in Call : c = calls[a]
    BY <1>0
  <2>0. c.at = "untrackInstance" /\ c.inst \in Instances \ insts
    BY <1>0, <1>5, CallParts DEF untrackInstance, Stands, Pending
  <2>1. /\ UNCHANGED <<insts, rows>>
        /\ \A id \in ScheduleIds : st'[id] = IF st[id].inst = c.inst THEN Untracked ELSE st[id]
    BY <1>5, <2>0 DEF untrackInstance, UntrackInstance, IInv, SchedulerOK, IndexAgrees
  <2>2. AllAgreeBut({})' /\ NoOrphans'
    <3>1. \A id \in ScheduleIds : Agrees(id) \/ (st[id].inst = c.inst /\ rows[id].inst = None)
      BY <1>0, <2>0 DEF Pending
    <3> QED BY <1>0, <2>0, <2>1, <3>1, TrackedFields, ConstantsOK DEF AllAgreeBut, Agrees, NoOrphans
  <2> QED BY <1>5, <2>2, OneRequest DEF untrackInstance, Pending, Idle
<1>6. CASE Trigger(a)
  <2>1. AllAgreeBut({})' /\ NoOrphans'
    BY <1>0, <1>6 DEF Trigger, Stands, Pending, AllAgreeBut, Agrees, NoOrphans
  <2> QED BY <1>6, <2>1, OneRequest DEF Trigger, Pending, Idle
<1> QED BY <1>1, <1>2, <1>3, <1>4, <1>5, <1>6 DEF InstanceStep

LEMMA ScheduleStepStored ==
  ASSUME OneOperator, IInv, StoreInv, NEW a \in Admin, ScheduleStep(a)
  PROVE  StoreInv'
<1> USE DEF database, scheduler
<1>0. /\ Pending(calls[a]) /\ NoOrphans /\ calls[a] \in Call
      /\ rows \in [ScheduleIds -> Row] /\ None \notin insts /\ st \in [ScheduleIds -> State]
  BY ConstantsOK DEF StoreInv, IInv, RequestsOK, SchedulerOK
<1>1. ASSUME NEW i \in Instances, NEW p \in Periods, createSchedule(a, i, p)
      PROVE  StoreInv'
  <2>1. AllAgreeBut({})' /\ NoOrphans' /\ i \in insts'
    BY <1>0, <1>1 DEF createSchedule, Begins, Idle, Pending, AllAgreeBut, Agrees, NoOrphans
  <2> QED BY <1>1, <2>1, OneRequest DEF createSchedule, Pending
<1>2. ASSUME NEW x \in ScheduleIds, NEW p \in Periods, NEW on \in BOOLEAN,
             updateSchedule(a, x, p, on)
      PROVE  StoreInv'
  <2>1. AllAgreeBut({})' /\ NoOrphans' /\ rows' = rows
    BY <1>0, <1>2 DEF updateSchedule, Begins, Idle, Pending, AllAgreeBut, Agrees, NoOrphans
  <2> QED BY <1>2, <2>1, OneRequest DEF updateSchedule, Pending
<1>3. ASSUME NEW x \in ScheduleIds, DeleteSchedule(a, x)
      PROVE  StoreInv'
  <2>1. \A id \in ScheduleIds : Agrees(id)
    BY <1>0, <1>3 DEF DeleteSchedule, Begins, Idle, Pending, AllAgreeBut
  <2>2. /\ UNCHANGED <<insts, st>>
        /\ \A id \in ScheduleIds : rows'[id] = IF id = x THEN NoRow ELSE rows[id]
    BY <1>0, <1>3 DEF DeleteSchedule
  <2>3. AllAgreeBut({x})' /\ NoOrphans' /\ rows'[x].inst = None
    BY <1>0, <2>1, <2>2 DEF AllAgreeBut, Agrees, NoOrphans, NoRow
  <2> QED BY <1>3, <2>3, OneRequest DEF DeleteSchedule, Pending
<1>4. CASE CreateSchedule(a)
  <2> PICK c \in Call, n \in ScheduleIds : c = calls[a] /\ n = nextId
    BY <1>0, <1>4, ConstantsOK DEF CreateSchedule, IInv, RequestsOK, ScheduleIds
  <2>0. c.at = "insert" /\ c.row.inst \in insts
    BY <1>0, <1>4 DEF CreateSchedule, Stands, Pending
  <2>1. \A id \in ScheduleIds : Agrees(id)
    BY <1>0, <2>0 DEF Pending, AllAgreeBut
  <2>2. /\ UNCHANGED <<insts, st>> /\ Goto(a, [at |-> "track", id |-> n, row |-> c.row])
        /\ \A id \in ScheduleIds : rows'[id] = IF id = n THEN c.row ELSE rows[id]
    BY <1>0, <1>4 DEF CreateSchedule
  <2>3. AllAgreeBut({n})' /\ NoOrphans' /\ rows'[n] = c.row
    BY <1>0, <2>0, <2>1, <2>2 DEF AllAgreeBut, Agrees, NoOrphans
  <2>4. Pending([at |-> "track", id |-> n, row |-> c.row])'
    BY <2>3 DEF Pending
  <2> QED BY <2>2, <2>3, <2>4, OneRequest
<1>5. CASE UpdateSchedule(a)
  <2> PICK c \in Call : c = calls[a]
    BY <1>0
  <2>0. /\ c.at = "update" /\ c.id \in ScheduleIds /\ c.row \in Mappable
        /\ rows[c.id].inst = c.row.inst
    BY <1>0, <1>5, CallParts DEF UpdateSchedule, Stands, Pending
  <2>1. \A id \in ScheduleIds : Agrees(id)
    BY <1>0, <2>0 DEF Pending, AllAgreeBut
  <2>2. rows[c.id].inst # None
    BY <2>0, ConstantsOK DEF Mappable
  <2>3. /\ UNCHANGED <<insts, st>>
        /\ rows' = [rows EXCEPT ![c.id].period = c.row.period, ![c.id].enabled = c.row.enabled]
        /\ Goto(a, [at |-> "track", id |-> c.id, row |-> c.row])
    BY <1>5, <2>2 DEF UpdateSchedule
  <2>4. \A id \in ScheduleIds : rows'[id] = IF id = c.id THEN c.row ELSE rows[id]
    BY <1>0, <2>0, <2>3 DEF Row, Mappable
  <2>5. AllAgreeBut({c.id})' /\ NoOrphans' /\ rows'[c.id] = c.row
    BY <1>0, <2>0, <2>1, <2>3, <2>4 DEF AllAgreeBut, Agrees, NoOrphans
  <2>6. Pending([at |-> "track", id |-> c.id, row |-> c.row])'
    BY <2>5 DEF Pending
  <2> QED BY <2>3, <2>5, <2>6, OneRequest
<1>6. CASE trackSchedule(a)
  <2> PICK c \in Call : c = calls[a]
    BY <1>0
  <2>0. /\ c.at = "track" /\ c.id \in ScheduleIds /\ c.row \in Mappable
        /\ AllAgreeBut({c.id}) /\ rows[c.id] = c.row
    BY <1>0, <1>6, CallParts DEF trackSchedule, Stands, Pending
  <2>1. /\ UNCHANGED <<insts, rows>>
        /\ \A id \in ScheduleIds : st'[id] = IF id = c.id THEN Tracked(c.row, now) ELSE st[id]
    BY <1>0, <1>6, <2>0 DEF trackSchedule, TrackSchedule
  <2>2. Agrees(c.id)'
    BY <2>0, <2>1, TrackedFields, ConstantsOK DEF Agrees, Mappable
  <2>3. AllAgreeBut({})' /\ NoOrphans'
    BY <1>0, <2>0, <2>1, <2>2 DEF AllAgreeBut, Agrees, NoOrphans
  <2> QED BY <1>6, <2>3, OneRequest DEF trackSchedule, Pending, Idle
<1>7. CASE untrackSchedule(a)
  <2> PICK c \in Call : c = calls[a]
    BY <1>0
  <2>0. /\ c.at = "untrack" /\ c.id \in ScheduleIds
        /\ AllAgreeBut({c.id}) /\ rows[c.id].inst = None
    BY <1>0, <1>7, CallParts DEF untrackSchedule, Stands, Pending
  <2>1. /\ UNCHANGED <<insts, rows>>
        /\ \A id \in ScheduleIds : st'[id] = IF id = c.id THEN Untracked ELSE st[id]
    BY <1>0, <1>7, <2>0 DEF untrackSchedule, UntrackSchedule
  <2>2. AllAgreeBut({})' /\ NoOrphans'
    BY <1>0, <2>0, <2>1, TrackedFields DEF AllAgreeBut, Agrees, NoOrphans
  <2> QED BY <1>7, <2>2, OneRequest DEF untrackSchedule, Pending, Idle
<1> QED BY <1>1, <1>2, <1>3, <1>4, <1>5, <1>6, <1>7 DEF ScheduleStep

LEMMA ImportStepStored ==
  ASSUME OneOperator, IInv, StoreInv, NEW a \in Admin, ImportStep(a)
  PROVE  StoreInv'
<1> USE DEF database, scheduler
<1>0. /\ Pending(calls[a]) /\ NoOrphans /\ calls[a] \in Call
      /\ rows \in [ScheduleIds -> Row] /\ insts \in SUBSET Instances
  BY DEF StoreInv, IInv, RequestsOK
<1>1. ASSUME NEW set \in SUBSET Instances, NEW i \in Instances, NEW p \in Periods,
             ReplaceConfig(a, set, i, p)
      PROVE  StoreInv'
  <2>1. NoOrphans'
    BY <1>1 DEF ReplaceConfig, NoOrphans, NoRow
  <2> QED BY <1>1, <2>1, OneRequest DEF ReplaceConfig, Pending
<1>2. CASE rereadSchedules(a)
  <2>1. NoOrphans' /\ rows' = rows
    BY <1>0, <1>2 DEF rereadSchedules, NoOrphans
  <2> QED BY <1>2, <2>1, OneRequest DEF rereadSchedules, Pending
<1>3. CASE resetScheduler(a)
  <2>0. calls[a].rows = rows
    BY <1>0, <1>3 DEF resetScheduler, Stands, Pending
  <2>1. /\ UNCHANGED <<insts, rows>>
        /\ \A id \in ScheduleIds : st'[id] = IF rows[id].inst \in Instances
                                             THEN Tracked(rows[id], calls[a].now) ELSE Untracked
    BY <1>3, <2>0 DEF resetScheduler, Reset
  <2>2. ASSUME NEW id \in ScheduleIds
        PROVE  Agrees(id)'
    BY <1>0, <2>1, TrackedFields, ConstantsOK DEF Agrees
  <2>3. AllAgreeBut({})' /\ NoOrphans'
    BY <1>0, <2>1, <2>2 DEF AllAgreeBut, NoOrphans
  <2> QED BY <1>3, <2>3, OneRequest DEF resetScheduler, Pending, Idle
<1> QED BY <1>1, <1>2, <1>3 DEF ImportStep

LEMMA ClockStored ==
  ASSUME IInv, StoreInv, tick \/ restart
  PROVE  StoreInv'
<1>1. CASE tick
  BY <1>1, NextMoves DEF tick, database, scheduler
<1>2. CASE restart
  <2>1. /\ UNCHANGED <<insts, rows>> /\ insts \in SUBSET Instances
        /\ \A a \in Admin : calls'[a] = Idle
        /\ \A id \in ScheduleIds : st'[id] = IF rows[id].inst \in insts
                                             THEN Tracked(rows[id], now) ELSE Untracked
    BY <1>2 DEF restart, Reset, database, IInv, RequestsOK
  <2>2. \A id \in ScheduleIds : Agrees(id)'
    BY <2>1, TrackedFields, ConstantsOK DEF Agrees
  <2> QED BY <2>1, <2>2 DEF StoreInv, NoOrphans, Pending, AllAgreeBut, Idle
<1> QED BY <1>1, <1>2

LEMMA NextStored == OneOperator /\ IInv /\ StoreInv /\ [Next]_vars => StoreInv'
<1> SUFFICES ASSUME OneOperator, IInv, StoreInv, [Next]_vars
             PROVE  StoreInv'
  OBVIOUS
<1>1. CASE CheckinStep
  BY <1>1, CheckinStepStored
<1>2. CASE tick \/ restart
  BY <1>2, ClockStored
<1>3. CASE \E a \in Admin : InstanceStep(a) \/ ScheduleStep(a) \/ ImportStep(a)
  BY <1>3, InstanceStepStored, ScheduleStepStored, ImportStepStored
<1>4. CASE UNCHANGED vars
  BY <1>4, NextMoves DEF vars, database, scheduler
<1> QED BY <1>1, <1>2, <1>3, <1>4 DEF Next

\* One operator at a time, whatever is asked for and whatever a check-in or a
\* restart does between two statements of a request, leaves the scheduler with the stored
\* schedules.  (Two requests at once do not: UPDATE, UPDATE, and the two calls of
\* TrackSchedule in the other order.)
THEOREM SchedulerFollowsStore ==
  ASSUME OneOperator
  PROVE  Spec => []TrackedIsStored
<1>1. Spec => []StoreInv
  BY InitStored, NextStored, Invariance, PTL DEF Spec
<1>2. StoreInv => TrackedIsStored
  <2> SUFFICES ASSUME StoreInv, \A a \in Admin : Begins(a), NEW id \in ScheduleIds
               PROVE  Agrees(id)
    BY DEF TrackedIsStored, Agrees
  <2>1. PICK a \in Admin : calls[a] = Idle
    BY DEF OneOperator, Begins
  <2> QED BY <2>1 DEF StoreInv, Pending, AllAgreeBut, Idle
<1> QED BY <1>1, <1>2, PTL
=============================================================================
