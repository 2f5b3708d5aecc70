------------------------- MODULE ConfigArchiveProofs -------------------------
(* Theorems about ConfigArchive, for any number of instances, master keys,    *)
(* archives and requests at work.                                             *)
EXTENDS ConfigArchive, FiniteSetTheorems, WellFoundedInduction, TLAPS

USE ConfigAssumption DEF ConfigAssumption, tables, files, count

\* What each handler has in its hands.
Saving    == [op : {"update", "create"}, at : {"read", "checked"}, id : Ids,
              saw : {Absent} \cup [key : 0..MaxKey, value : Values], masked : BOOLEAN, value : Values]
Planning  == [op : {"schedule"}, id : Ids]
Rekeying  == [op : {"rekey"}, todo : Rows]
Exporting == [op : {"export"}, copy : Rows]
Importing == [op : {"import"}, at : {"save", "copy", "replace"}, set : Archives, copy : Rows,
              name : Nat, alone : BOOLEAN]
Tasks == {Idle} \cup Saving \cup Planning \cup Rekeying \cup Exporting \cup Importing

Typed ==
  /\ rows \in Rows /\ scheds \subseteq Ids
  /\ ring \in [newest : 0..MaxKey, oldest : 0..MaxKey]
  /\ ring.oldest <= ring.newest /\ (ring.newest # 0 => ring.oldest # 0)
  /\ task \in [Requests -> Tasks]
  /\ exported \subseteq Archives /\ safety \in [DOMAIN safety -> Archives]
  /\ now \in Nat /\ DOMAIN safety \subseteq 0..now
  /\ cleared \in BOOLEAN

\* A masked save writes the value it read.
Keeps(k) ==
  /\ k.op = "update" /\ k.masked => k.value = k.saw.value
  /\ k.op = "create" => k.saw = Absent

\* What is imported can be read.
Imports(k) ==
  k.op = "import" => /\ ~cleared /\ k.name <= now
                     /\ \A i \in Present(k.set.rows) : Opens(k.set.rows[i])

\* An import that nothing was written across saves what it will replace, under a name that is
\* not older than any other, so that it is not pruned.
CopyAt(n) ==
  /\ n \in DOMAIN safety /\ safety[n].intact /\ safety[n].schedules = scheds
  /\ Content(safety[n].rows) = Content(rows)
Copies(k) ==
  k.op = "import" /\ k.alone =>
    /\ k.at \in {"save", "copy"} => \A m \in DOMAIN safety : m <= k.name
    /\ k.at = "copy" => Content(k.copy) = Content(rows)
    /\ k.at = "replace" => CopyAt(k.name)

TaskOK(k) == Keeps(k) /\ Imports(k) /\ Copies(k)

\* Once the operator has seen that no secret is pending, none is, until an import or a new key.
AllCurrent ==
  cleared /\ ring.newest # 0 => \A i \in Present(rows) : rows[i].key = ring.newest

IInv == Typed /\ AllCurrent /\ \A t \in Requests : TaskOK(task[t])
-----------------------------------------------------------------------------
(* The requests.                                                              *)
LEMMA Kinds ==
  ASSUME NEW k \in Tasks
  PROVE  /\ k.op \in {"update", "create"} => k \in Saving
         /\ k.op = "schedule" => k \in Planning
         /\ k.op = "rekey" => k \in Rekeying
         /\ k.op = "export" => k \in Exporting
         /\ k.op = "import" => k \in Importing
  BY DEF Tasks, Idle, Saving, Planning, Rekeying, Exporting, Importing

LEMMA IdleOK == Idle \in Tasks /\ TaskOK(Idle) /\ Idle.op = "none"
  BY DEF Tasks, Idle, TaskOK, Keeps, Imports, Copies

\* What a request has in its hands is undisturbed while no value and no schedule changes.
LEMMA Undisturbed ==
  ASSUME NEW k, TaskOK(k), UNCHANGED <<Content(rows), scheds, ring, safety, now>>,
         cleared' => cleared
  PROVE  TaskOK(k)'
<1>1. Keeps(k)'
  BY DEF TaskOK, Keeps
<1>2. Imports(k)'
  BY DEF TaskOK, Imports, Opens, Loaded, Present
<1>3. Copies(k)'
  BY DEF TaskOK, Copies, CopyAt
<1> QED
  BY <1>1, <1>2, <1>3 DEF TaskOK

\* A request goes on, and nothing changes that matters to the others.
LEMMA GoesInv ==
  ASSUME IInv, NEW t \in Requests, NEW next \in Tasks, Goes(t, next), TaskOK(next)',
         UNCHANGED <<Content(rows), scheds, ring, safety, now>>, cleared' \in {cleared, FALSE},
         rows' \in Rows, exported' \subseteq Archives, AllCurrent'
  PROVE  IInv'
<1>1. task' = [task EXCEPT ![t] = next] /\ task \in [Requests -> Tasks]
  BY DEF Goes, IInv, Typed
<1>2. Typed'
  BY <1>1 DEF IInv, Typed
<1>3. ASSUME NEW u \in Requests PROVE TaskOK(task[u])'
  <2>1. CASE u = t
    <3>1. task'[u] = next
      BY <1>1, <2>1
    <3> QED
      BY <3>1 DEF TaskOK, Keeps, Imports, Copies, CopyAt
  <2>2. CASE u # t
    <3>1. PICK k : k = task[u]
      OBVIOUS
    <3>2. task'[u] = k
      BY <1>1, <2>2, <3>1
    <3>3. TaskOK(k)
      BY <3>1 DEF IInv
    <3>4. TaskOK(k)'
      <4>1. cleared' => cleared
        BY DEF IInv, Typed
      <4>2. UNCHANGED <<Content(rows), scheds, ring, safety, now>>
        OBVIOUS
      <4> QED
        BY <3>3, <4>1, <4>2, Undisturbed
    <3> QED
      BY <3>2, <3>4 DEF TaskOK, Keeps, Imports, Copies, CopyAt
  <2> QED
    BY <2>1, <2>2
<1> QED
  BY <1>2, <1>3 DEF IInv

\* Something is written: an import of another request is not alone any more.
LEMMA WritesInv ==
  ASSUME IInv, NEW t \in Requests, NEW next \in Tasks, Writes(t, next), TaskOK(next)',
         UNCHANGED <<ring, now, cleared, exported>>,
         rows' \in Rows, scheds' \subseteq Ids, safety' \in [DOMAIN safety' -> Archives],
         DOMAIN safety' \subseteq 0..now, AllCurrent'
  PROVE  IInv'
<1>1. task \in [Requests -> Tasks]
  BY DEF IInv, Typed
<1>2. ASSUME NEW u \in Requests, u # t
      PROVE  task'[u] \in Tasks /\ TaskOK(task[u])'
  <2>1. PICK k \in Tasks : k = task[u]
    BY <1>1
  <2>2. TaskOK(k)
    BY <2>1 DEF IInv
  <2>3. CASE k.op # "import"
    <3>1. task'[u] = k
      BY <1>2, <2>1, <2>3 DEF Writes
    <3>2. Keeps(k)' /\ Imports(k)' /\ Copies(k)'
      BY <2>2, <2>3 DEF TaskOK, Keeps, Imports, Copies
    <3> QED
      BY <3>1, <3>2 DEF TaskOK, Keeps, Imports, Copies, CopyAt
  <2>4. CASE k.op = "import"
    <3>1. PICK l : l = [k EXCEPT !.alone = FALSE]
      OBVIOUS
    <3>2. task'[u] = l
      BY <1>2, <2>1, <2>4, <3>1 DEF Writes
    <3>3. k \in Importing
      BY <2>4, Kinds
    <3>4. l \in Importing /\ l.op = "import" /\ ~l.alone /\ l.set = k.set /\ l.name = k.name
      BY <3>1, <3>3 DEF Importing
    <3>5. Imports(l)'
      BY <2>2, <2>4, <3>4 DEF TaskOK, Imports, Opens, Loaded, Present
    <3>6. Keeps(l)' /\ Copies(l)'
      BY <3>4 DEF Keeps, Copies
    <3> QED
      BY <3>2, <3>4, <3>5, <3>6 DEF Tasks, TaskOK, Keeps, Imports, Copies, CopyAt
  <2> QED
    BY <2>3, <2>4
<1>3. task'[t] = next
  BY DEF Writes
<1>4. TaskOK(task[t])'
  BY <1>3 DEF TaskOK, Keeps, Imports, Copies, CopyAt
<1>5. task' \in [Requests -> Tasks]
  <2>1. \A u \in Requests : task'[u] \in Tasks
    BY <1>2, <1>3
  <2>2. task' = [u \in Requests |-> task'[u]]
    BY DEF Writes
  <2> QED
    BY <2>1, <2>2
<1>6. Typed'
  BY <1>5 DEF IInv, Typed
<1> QED
  BY <1>2, <1>4, <1>6 DEF IInv
-----------------------------------------------------------------------------
(* The steps that write nothing.                                              *)
LEMMA QuietStep ==
  ASSUME IInv, NEW t \in Requests, NEW next \in Tasks, Goes(t, next), TaskOK(next)',
         UNCHANGED <<rows, scheds, ring, safety, now>>, cleared' \in {cleared, FALSE},
         exported' \subseteq Archives
  PROVE  IInv'
<1>1. Content(rows)' = Content(rows) /\ rows' \in Rows
  BY DEF Content, IInv, Typed
<1>2. cleared' => cleared
  BY DEF IInv, Typed
<1>3. AllCurrent'
  BY <1>2 DEF IInv, AllCurrent, Present
<1> QED
  BY <1>1, <1>3, GoesInv

LEMMA ReadsStep ==
  ASSUME IInv, NEW t \in Requests, NEW i \in Ids, NEW given \in Values,
         updateReads(t, i, given) \/ createReads(t, i, given)
  PROVE  IInv'
<1>1. UNCHANGED <<rows, scheds, ring, safety, now, cleared, exported>>
  BY DEF updateReads, createReads
<1>2. \A j \in Ids : /\ rows[j].value \in Values
                     /\ rows[j] \in {Absent} \cup [key : 0..MaxKey, value : Values]
  BY DEF IInv, Typed, Rows, Absent, Values, Mask
<1>3. \E next \in Saving : Goes(t, next) /\ TaskOK(next)'
  <2>1. CASE updateReads(t, i, given)
    <3>1. PICK next : next = [op |-> "update", at |-> "read", id |-> i, saw |-> rows[i],
                              masked |-> given = Mask,
                              value |-> instanceFromPayload(given, rows[i].value)]
      OBVIOUS
    <3>2. next \in Saving
      BY <3>1, <1>2 DEF Saving, instanceFromPayload
    <3>3. Keeps(next)' /\ Imports(next)' /\ Copies(next)'
      BY <3>1 DEF Keeps, Imports, Copies, instanceFromPayload
    <3> QED
      BY <2>1, <3>1, <3>2, <3>3 DEF updateReads, TaskOK
  <2>2. CASE createReads(t, i, given)
    <3>1. PICK v \in Values : Goes(t, [op |-> "create", at |-> "read", id |-> i, saw |-> Absent,
                                       masked |-> given = Mask, value |-> v])
      BY <2>2, <1>2 DEF createReads, Present
    <3>2. PICK next : next = [op |-> "create", at |-> "read", id |-> i, saw |-> Absent,
                              masked |-> given = Mask, value |-> v]
      OBVIOUS
    <3>3. next \in Saving
      BY <3>2 DEF Saving
    <3>4. Keeps(next)' /\ Imports(next)' /\ Copies(next)'
      BY <3>2 DEF Keeps, Imports, Copies
    <3> QED
      BY <3>1, <3>2, <3>3, <3>4 DEF TaskOK
  <2> QED
    BY <2>1, <2>2
<1>4. exported \subseteq Archives
  BY DEF IInv, Typed
<1> QED
  BY <1>1, <1>3, <1>4, QuietStep DEF Tasks

\* The request at hand, or a new one that imports nothing.
LEMMA HeldStep ==
  ASSUME IInv, NEW t \in Requests, NEW next \in Tasks, Goes(t, next),
         next.op # "import", Keeps(next),
         UNCHANGED <<rows, scheds, ring, safety, now, cleared>>, exported' \subseteq Archives
  PROVE  IInv'
<1>1. Keeps(next)' /\ Imports(next)' /\ Copies(next)'
  BY DEF Keeps, Imports, Copies
<1> QED
  BY <1>1, QuietStep DEF TaskOK

LEMMA ChecksStep == ASSUME IInv, NEW t \in Requests, saveChecks(t) PROVE IInv'
<1>1. PICK k \in Tasks : k = task[t] /\ TaskOK(k)
  BY DEF IInv, Typed
<1>2. k \in Saving /\ k.op \in {"update", "create"}
  BY <1>1, Kinds DEF saveChecks
<1>3. PICK next \in {[k EXCEPT !.at = "checked"], Idle} : Goes(t, next)
  BY <1>1 DEF saveChecks
<1>4. next \in Tasks /\ next.op # "import" /\ Keeps(next)
  BY <1>1, <1>2, <1>3 DEF Saving, Tasks, Idle, TaskOK, Keeps
<1>5. UNCHANGED <<rows, scheds, ring, safety, now, cleared>> /\ exported' \subseteq Archives
  BY DEF saveChecks, IInv, Typed
<1> QED
  BY <1>3, <1>4, <1>5, HeldStep

LEMMA PlansStep ==
  ASSUME IInv, NEW t \in Requests,
         \/ \E i \in Ids : scheduleReads(t, i)
         \/ RekeySecrets(t) \/ rekeyEnds(t) \/ exportReads(t) \/ handleExportConfig(t)
  PROVE  IInv'
<1>1. UNCHANGED <<rows, scheds, ring, safety, now, cleared>>
  BY DEF scheduleReads, RekeySecrets, rekeyEnds, exportReads, handleExportConfig
<1>2. /\ rows \in Rows /\ exported \subseteq Archives /\ scheds \subseteq Ids
      /\ task \in [Requests -> Tasks]
  BY DEF IInv, Typed
<1>3. \E next \in Tasks : Goes(t, next) /\ next.op # "import" /\ Keeps(next)
  <2>1. CASE \E i \in Ids : scheduleReads(t, i)
    BY <2>1 DEF scheduleReads, Tasks, Planning, Keeps
  <2>2. CASE RekeySecrets(t)
    <3>1. PICK todo : /\ todo = [i \in Ids |->
                           IF rows[i] = Absent \/ IsOnPrimary(rows[i]) \/ ~Opens(rows[i])
                           THEN Absent ELSE rows[i]]
                      /\ Goes(t, [op |-> "rekey", todo |-> todo])
      BY <2>2 DEF RekeySecrets
    <3>2. todo \in Rows
      BY <1>2, <3>1 DEF Rows
    <3>3. [op |-> "rekey", todo |-> todo] \in Tasks
      BY <3>2 DEF Tasks, Rekeying
    <3> QED
      BY <3>1, <3>3 DEF Keeps
  <2>3. CASE rekeyEnds(t) \/ handleExportConfig(t)
    <3>1. Goes(t, Idle)
      BY <2>3 DEF rekeyEnds, handleExportConfig
    <3> QED
      BY <3>1, IdleOK DEF TaskOK
  <2>4. CASE exportReads(t)
    BY <1>2, <2>4 DEF exportReads, Tasks, Exporting, Keeps
  <2> QED
    BY <2>1, <2>2, <2>3, <2>4
<1>4. exported' \subseteq Archives
  <2>1. CASE handleExportConfig(t)
    <3>1. task[t].op = "export" /\ task[t] \in Tasks
      BY <1>2, <2>1 DEF handleExportConfig
    <3>2. task[t].copy \in Rows
      BY <3>1, Kinds DEF Exporting
    <3>3. Archive(task[t].copy) \in Archives
      BY <1>2, <3>2 DEF Archive, Archives
    <3> QED
      BY <1>2, <2>1, <3>3 DEF handleExportConfig
  <2>2. CASE ~handleExportConfig(t)
    BY <1>2, <2>2 DEF scheduleReads, RekeySecrets, rekeyEnds, exportReads
  <2> QED
    BY <2>1, <2>2
<1> QED
  BY <1>1, <1>3, <1>4, HeldStep

\* An import begins with a name that is as new as any, and with secrets that can be read.
LEMMA ImportStep ==
  ASSUME IInv, NEW t \in Requests, NEW a \in exported \cup Foreign \cup Range(safety),
         handleImportConfig(t, a)
  PROVE  IInv'
<1>1. a \in Archives
  BY DEF IInv, Typed, Range
<1>2. /\ UNCHANGED <<rows, scheds, ring, safety, now, exported>> /\ cleared' = FALSE
      /\ checkConfigSecretKeys(a)
  BY DEF handleImportConfig, validateConfigSet
<1>3. PICK next : next = [op |-> "import", at |-> "save", set |-> a, copy |-> rows, name |-> now,
                          alone |-> TRUE]
  OBVIOUS
<1>4. Goes(t, next)
  BY <1>3 DEF handleImportConfig
<1>5. next \in Tasks
  BY <1>1, <1>3 DEF Tasks, Importing, IInv, Typed
<1>6. Keeps(next)'
  BY <1>3 DEF Keeps
<1>7. Imports(next)'
  BY <1>2, <1>3 DEF Imports, checkConfigSecretKeys, Opens, Loaded, Present, IInv, Typed
<1>8. Copies(next)'
  BY <1>2, <1>3 DEF Copies, IInv, Typed
<1>9. exported \subseteq Archives
  BY DEF IInv, Typed
<1> QED
  BY <1>2, <1>4, <1>5, <1>6, <1>7, <1>8, <1>9, QuietStep DEF TaskOK

LEMMA CopyStep == ASSUME IInv, NEW t \in Requests, copyReads(t) PROVE IInv'
<1>1. PICK k \in Tasks : k = task[t] /\ TaskOK(k)
  BY DEF IInv, Typed
<1>2. k \in Importing /\ k.op = "import" /\ k.at = "save"
  BY <1>1, Kinds DEF copyReads
<1>3. PICK next : next = [k EXCEPT !.at = "copy", !.copy = rows]
  OBVIOUS
<1>4. /\ Goes(t, next) /\ UNCHANGED <<rows, scheds, ring, safety, now, cleared, exported>>
  BY <1>1, <1>3 DEF copyReads
<1>5. /\ next \in Importing /\ next.op = "import" /\ next.at = "copy" /\ next.copy = rows
      /\ next.set = k.set /\ next.name = k.name /\ next.alone = k.alone
  BY <1>2, <1>3 DEF Importing, IInv, Typed
<1>6. Keeps(next)' /\ Imports(next)'
  BY <1>1, <1>2, <1>4, <1>5 DEF TaskOK, Keeps, Imports, Opens, Loaded, Present
<1>7. Copies(next)'
  BY <1>1, <1>2, <1>4, <1>5 DEF TaskOK, Copies, Content
<1>8. exported \subseteq Archives
  BY DEF IInv, Typed
<1> QED
  BY <1>4, <1>5, <1>6, <1>7, <1>8, QuietStep DEF TaskOK, Tasks
-----------------------------------------------------------------------------
(* The steps that write.                                                      *)
LEMMA SealedIsRow ==
  ASSUME IInv, NEW v \in Values
  PROVE  SealString(v) \in [key : 0..MaxKey, value : Values] /\ SealString(v).key = ring.newest
  BY DEF IInv, Typed, SealString

LEMMA SaveStep == ASSUME IInv, NEW t \in Requests, saveWrites(t) PROVE IInv'
<1>1. task[t] \in Saving
  BY Kinds DEF saveWrites, IInv, Typed
<1>2. task[t].id \in Ids /\ task[t].value \in Values
  BY <1>1 DEF Saving
<1>3. /\ UNCHANGED <<scheds, ring, safety, exported, now, cleared>> /\ Writes(t, Idle)
      /\ rows' = [rows EXCEPT ![task[t].id] = SealString(task[t].value)]
  BY DEF saveWrites
<1>4. rows' \in Rows
  BY <1>2, <1>3, SealedIsRow DEF IInv, Typed, Rows
<1>5. AllCurrent'
  BY <1>2, <1>3, SealedIsRow DEF IInv, Typed, Rows, AllCurrent, Present
<1>6. TaskOK(Idle)'
  BY DEF TaskOK, Keeps, Imports, Copies, Idle
<1> QED
  BY <1>3, <1>4, <1>5, <1>6, IdleOK, WritesInv DEF IInv, Typed

LEMMA TableStep ==
  ASSUME IInv, NEW t \in Requests, scheduleWrites(t) \/ \E i \in Ids : DeleteInstance(t, i)
  PROVE  IInv'
<1>1. UNCHANGED <<ring, safety, exported, now, cleared>> /\ Writes(t, Idle)
  BY DEF scheduleWrites, DeleteInstance
<1>2. scheds' \subseteq Ids /\ rows' \in Rows
  <2>1. CASE scheduleWrites(t)
    <3>1. task[t] \in Planning
      BY <2>1, Kinds DEF scheduleWrites, IInv, Typed
    <3> QED
      BY <2>1, <3>1 DEF scheduleWrites, Planning, IInv, Typed
  <2>2. CASE \E i \in Ids : DeleteInstance(t, i)
    BY <2>2 DEF DeleteInstance, IInv, Typed, Rows
  <2> QED
    BY <2>1, <2>2
<1>3. \A i \in Ids : rows'[i] \in {rows[i], Absent}
  BY DEF scheduleWrites, DeleteInstance, IInv, Typed, Rows
<1>4. AllCurrent'
  BY <1>1, <1>3 DEF IInv, AllCurrent, Present
<1>5. TaskOK(Idle)'
  BY DEF TaskOK, Keeps, Imports, Copies, Idle
<1> QED
  BY <1>1, <1>2, <1>4, <1>5, IdleOK, WritesInv DEF IInv, Typed

\* A set of numbers that is not empty has a least one.
LEMMA Least ==
  ASSUME NEW S \in SUBSET Nat, S # {}
  PROVE  \E m \in S : \A n \in S : m <= n
<1> DEFINE Below == OpToRel(<, Nat)
<1>1. IsWellFoundedOn(Below, Nat)
  BY NatLessThanWellFounded
<1>2. PICK m \in S : \A n \in S : ~(<<n, m>> \in Below)
  <2> HIDE DEF Below
  <2> QED
    BY <1>1, WFMin
<1>3. \A n \in S : ~(n < m)
  BY <1>2 DEF OpToRel
<1> QED
  BY <1>3

\* The instance that re-encryption writes next.
First(todo) == CHOOSE j \in Present(todo) : \A k \in Present(todo) : j <= k

LEMMA FirstIsPending ==
  ASSUME NEW todo, Present(todo) # {} PROVE First(todo) \in Present(todo)
<1>1. Present(todo) \in SUBSET Nat
  BY DEF Present
<1>2. \E j \in Present(todo) : \A k \in Present(todo) : j <= k
  BY <1>1, Least
<1> QED
  BY <1>2 DEF First

\* What a step of re-encryption does.
LEMMA RekeyWrite ==
  ASSUME IInv, NEW t \in Requests, rekeyWrites(t),
         NEW i, i = First(task[t].todo), NEW next, next = [task[t] EXCEPT !.todo[i] = Absent]
  PROVE  /\ task[t] \in Rekeying /\ i \in Present(task[t].todo)
         /\ next \in Rekeying /\ next # task[t]
         /\ rows' = IF rows[i] = Absent THEN rows
                    ELSE [rows EXCEPT ![i] = SealString(task[t].todo[i].value)]
         /\ rows' \in Rows
         /\ IF rows'[i].value # rows[i].value THEN Writes(t, next) ELSE Goes(t, next)
         /\ UNCHANGED <<scheds, ring, safety, exported, now, cleared>>
<1>1. task[t] \in Rekeying /\ task[t].op = "rekey" /\ task[t].todo \in Rows
  BY Kinds DEF rekeyWrites, Rekeying, IInv, Typed
<1>2. i \in Present(task[t].todo)
  BY FirstIsPending DEF rekeyWrites
<1>3. i \in Ids /\ task[t].todo[i] # Absent
  BY <1>2 DEF Present
<1>4. PICK todo \in Rows : todo = task[t].todo
  BY <1>1
<1>5. [todo EXCEPT ![i] = Absent] \in Rows /\ [todo EXCEPT ![i] = Absent][i] = Absent
  BY <1>3 DEF Rows
<1>6. next = [op |-> "rekey", todo |-> [todo EXCEPT ![i] = Absent]]
  BY <1>1, <1>4 DEF Rekeying
<1>7. next \in Rekeying /\ next # task[t]
  BY <1>3, <1>4, <1>5, <1>6 DEF Rekeying
<1>8. task[t].todo[i].value \in Values
  BY <1>1, <1>3 DEF Rows, Absent, Values, Mask
<1>9. /\ rows' = IF rows[i] = Absent THEN rows
                 ELSE [rows EXCEPT ![i] = SealString(task[t].todo[i].value)]
      /\ IF rows'[i].value # rows[i].value THEN Writes(t, next) ELSE Goes(t, next)
      /\ UNCHANGED <<scheds, ring, safety, exported, now, cleared>>
  BY DEF rekeyWrites, First
<1>10. rows' \in Rows
  BY <1>3, <1>8, <1>9, SealedIsRow DEF IInv, Typed, Rows
<1> QED
  BY <1>1, <1>2, <1>7, <1>9, <1>10

LEMMA RekeyStep == ASSUME IInv, NEW t \in Requests, rekeyWrites(t) PROVE IInv'
<1>1. PICK i : i = First(task[t].todo)
  OBVIOUS
<1>2. PICK next : next = [task[t] EXCEPT !.todo[i] = Absent]
  OBVIOUS
<1>3. /\ task[t] \in Rekeying /\ i \in Present(task[t].todo) /\ next \in Rekeying
      /\ rows' = IF rows[i] = Absent THEN rows
                 ELSE [rows EXCEPT ![i] = SealString(task[t].todo[i].value)]
      /\ rows' \in Rows
      /\ IF rows'[i].value # rows[i].value THEN Writes(t, next) ELSE Goes(t, next)
      /\ UNCHANGED <<scheds, ring, safety, exported, now, cleared>>
  BY <1>1, <1>2, RekeyWrite
<1>4. next \in Tasks /\ TaskOK(next)'
  BY <1>3 DEF Tasks, Rekeying, TaskOK, Keeps, Imports, Copies
<1>5. i \in Ids /\ rows \in Rows
  BY <1>3 DEF Present, IInv, Typed
<1>6. AllCurrent'
  BY <1>3, <1>5 DEF IInv, Rows, AllCurrent, Present, SealString
<1>7. CASE rows'[i].value # rows[i].value
  BY <1>3, <1>4, <1>6, <1>7, WritesInv DEF IInv, Typed
<1>8. CASE rows'[i].value = rows[i].value
  <2>1. \A j \in Ids : rows'[j].value = rows[j].value
    BY <1>3, <1>5, <1>8 DEF Rows
  <2>2. Content(rows)' = Content(rows)
    BY <2>1 DEF Content
  <2>3. exported \subseteq Archives
    BY DEF IInv, Typed
  <2> QED
    BY <1>3, <1>4, <1>6, <1>8, <2>2, <2>3, GoesInv
<1> QED
  BY <1>7, <1>8
-----------------------------------------------------------------------------
(* The safety copy, and the configuration that replaces the old one.          *)

\* A name that none exceeds is not pruned.
LEMMA NewestIsKept ==
  ASSUME NEW dir, NEW n \in DOMAIN dir, DOMAIN dir \subseteq Nat, \A m \in DOMAIN dir : m <= n
  PROVE  n \in DOMAIN pruneConfigBackups(dir) /\ pruneConfigBackups(dir)[n] = dir[n]
<1>1. {k \in DOMAIN dir : k > n} = {}
  OBVIOUS
<1>2. Cardinality({k \in DOMAIN dir : k > n}) < Kept
  BY <1>1, FS_EmptySet
<1> QED
  BY <1>2 DEF pruneConfigBackups

LEMMA PrunedIsTyped ==
  ASSUME NEW dir, dir \in [DOMAIN dir -> Archives]
  PROVE  /\ pruneConfigBackups(dir) \in [DOMAIN pruneConfigBackups(dir) -> Archives]
         /\ DOMAIN pruneConfigBackups(dir) \subseteq DOMAIN dir
<1>1. PICK kept : kept = {m \in DOMAIN dir : Cardinality({k \in DOMAIN dir : k > m}) < Kept}
  OBVIOUS
<1>2. kept \subseteq DOMAIN dir /\ pruneConfigBackups(dir) = [n \in kept |-> dir[n]]
  BY <1>1 DEF pruneConfigBackups
<1> QED
  BY <1>2

LEMMA SavedIsTyped ==
  ASSUME IInv, NEW n \in 0..now, NEW a \in Archives
  PROVE  /\ Saved(n, a) \in [DOMAIN safety \cup {n} -> Archives]
         /\ DOMAIN Saved(n, a) \subseteq 0..now /\ Saved(n, a)[n] = a
  BY DEF IInv, Typed, Saved

LEMMA SavesStep == ASSUME IInv, NEW t \in Requests, saveConfigBackup(t) PROVE IInv'
<1>1. PICK k \in Tasks : k = task[t] /\ TaskOK(k)
  BY DEF IInv, Typed
<1>2. k \in Importing /\ k.op = "import" /\ k.at = "copy"
  BY <1>1, Kinds DEF saveConfigBackup
<1>3. PICK a : a = Archive(k.copy)
  OBVIOUS
<1>4. a \in Archives /\ a.intact /\ a.schedules = scheds /\ a.rows = k.copy
  BY <1>2, <1>3 DEF Importing, Archive, Archives, IInv, Typed
<1>5. k.name \in 0..now
  BY <1>1, <1>2 DEF Importing, TaskOK, Imports, IInv, Typed
<1>6. PICK next : next = [k EXCEPT !.at = "replace"]
  OBVIOUS
<1>7. /\ Writes(t, next) /\ UNCHANGED <<rows, scheds, ring, exported, now, cleared>>
      /\ safety' = pruneConfigBackups(Saved(k.name, a))
  BY <1>1, <1>3, <1>6 DEF saveConfigBackup
<1>8. /\ next \in Importing /\ next.op = "import" /\ next.at = "replace"
      /\ next.set = k.set /\ next.name = k.name /\ next.alone = k.alone
  BY <1>2, <1>6 DEF Importing
<1>9. safety' \in [DOMAIN safety' -> Archives] /\ DOMAIN safety' \subseteq 0..now
  <2>1. PICK dir : dir = Saved(k.name, a)
    OBVIOUS
  <2>2. dir \in [DOMAIN dir -> Archives] /\ DOMAIN dir \subseteq 0..now
    BY <1>4, <1>5, <2>1, SavedIsTyped
  <2> QED
    BY <1>7, <2>1, <2>2, PrunedIsTyped
<1>10. Keeps(next)' /\ Imports(next)'
  BY <1>1, <1>2, <1>7, <1>8 DEF TaskOK, Keeps, Imports, Opens, Loaded, Present
<1>11. Copies(next)'
  <2> SUFFICES ASSUME k.alone PROVE CopyAt(k.name)'
    BY <1>8 DEF Copies, CopyAt
  <2>1. \A m \in DOMAIN safety : m <= k.name
    BY <1>1, <1>2 DEF TaskOK, Copies
  <2>2. \A m \in DOMAIN Saved(k.name, a) : m <= k.name
    BY <1>5, <2>1 DEF Saved
  <2>3. k.name \in DOMAIN Saved(k.name, a) /\ DOMAIN Saved(k.name, a) \subseteq Nat
    BY <1>4, <1>5, SavedIsTyped DEF Saved
  <2>4. k.name \in DOMAIN safety' /\ safety'[k.name] = a
    <3>1. PICK dir : dir = Saved(k.name, a)
      OBVIOUS
    <3>2. dir[k.name] = a
      BY <1>4, <1>5, <3>1, SavedIsTyped
    <3> QED
      BY <1>7, <2>2, <2>3, <3>1, <3>2, NewestIsKept
  <2>5. Content(k.copy) = Content(rows)
    BY <1>1, <1>2 DEF TaskOK, Copies
  <2>6. Content(safety'[k.name].rows) = Content(rows')
    BY <1>4, <1>7, <2>4, <2>5 DEF Content
  <2> QED
    BY <1>4, <1>7, <2>4, <2>6 DEF CopyAt, Content
<1>12. AllCurrent'
  BY <1>7 DEF IInv, AllCurrent, Present
<1> QED
  BY <1>7, <1>8, <1>9, <1>10, <1>11, <1>12, WritesInv DEF IInv, Typed, Tasks, TaskOK

LEMMA SaveFailsStep == ASSUME IInv, NEW t \in Requests, saveFails(t) PROVE IInv'
<1>1. PICK k \in Tasks : k = task[t] /\ TaskOK(k)
  BY DEF IInv, Typed
<1>2. k \in Importing /\ k.op = "import"
  BY <1>1, Kinds DEF saveFails
<1>3. k.name \in 0..now
  BY <1>1, <1>2 DEF Importing, TaskOK, Imports, IInv, Typed
<1>4. Damaged \in Archives
  BY DEF Damaged, Archives, Rows
<1>5. /\ Writes(t, Idle) /\ UNCHANGED <<rows, scheds, ring, exported, now, cleared>>
      /\ safety' = Saved(k.name, Damaged)
  BY <1>1 DEF saveFails
<1>6. safety' \in [DOMAIN safety' -> Archives] /\ DOMAIN safety' \subseteq 0..now
  BY <1>3, <1>4, <1>5, SavedIsTyped
<1>7. AllCurrent'
  BY <1>5 DEF IInv, AllCurrent, Present
<1>8. TaskOK(Idle)'
  BY DEF TaskOK, Keeps, Imports, Copies, Idle
<1> QED
  BY <1>5, <1>6, <1>7, <1>8, IdleOK, WritesInv DEF IInv, Typed

\* An import is under way, so that nobody takes the secrets to be current.
LEMMA ReplaceStep == ASSUME IInv, NEW t \in Requests, ReplaceConfig(t) PROVE IInv'
<1>1. PICK k \in Tasks : k = task[t] /\ TaskOK(k)
  BY DEF IInv, Typed
<1>2. k \in Importing /\ k.op = "import"
  BY <1>1, Kinds DEF ReplaceConfig
<1>3. UNCHANGED <<ring, safety, exported, now, cleared>> /\ ~cleared
  BY <1>1, <1>2 DEF ReplaceConfig, TaskOK, Imports
<1>4. CASE Writes(t, Idle) /\ rows' = k.set.rows /\ scheds' = k.set.schedules
  <2>1. rows' \in Rows /\ scheds' \subseteq Ids
    BY <1>2, <1>4 DEF Importing, Archives
  <2>2. AllCurrent'
    BY <1>3 DEF AllCurrent
  <2>3. TaskOK(Idle)'
    BY DEF TaskOK, Keeps, Imports, Copies, Idle
  <2> QED
    BY <1>3, <1>4, <2>1, <2>2, <2>3, IdleOK, WritesInv DEF IInv, Typed
<1>5. CASE Goes(t, Idle) /\ UNCHANGED <<rows, scheds>>
  <2>1. exported \subseteq Archives /\ Keeps(Idle) /\ Idle.op # "import"
    BY IdleOK DEF IInv, Typed, TaskOK
  <2> QED
    BY <1>3, <1>5, <2>1, IdleOK, HeldStep
<1> QED
  BY <1>1, <1>4, <1>5 DEF ReplaceConfig
-----------------------------------------------------------------------------
(* The operator.                                                              *)
LEMMA RestartInv ==
  ASSUME IInv, NEW loaded \in [newest : 0..MaxKey, oldest : 0..MaxKey], Restarts(loaded),
         loaded.oldest <= loaded.newest, loaded.newest # 0 => loaded.oldest # 0,
         cleared' \in BOOLEAN, cleared' => cleared /\ loaded.newest = ring.newest
  PROVE  IInv'
<1>1. PICK overwrite \in BOOLEAN : ImportInstances(overwrite, loaded.newest)
  BY DEF Restarts
<1>2. /\ ring' = loaded /\ task' = [t \in Requests |-> Idle]
      /\ UNCHANGED <<safety, exported, now>>
  BY DEF Restarts
<1>3. PICK created \in SUBSET Seeds :
        /\ rows' = [i \in Ids |-> IF i \in created THEN [key |-> loaded.newest, value |-> 1]
                                  ELSE rows[i]]
        /\ scheds' = scheds \cup created
  BY <1>1 DEF ImportInstances
<1>4. [key |-> loaded.newest, value |-> 1] \in [key : 0..MaxKey, value : Values]
  BY DEF Values, Mask
<1>5. rows' \in Rows /\ scheds' \subseteq Ids
  BY <1>3, <1>4 DEF IInv, Typed, Rows
<1>6. AllCurrent'
  <2> SUFFICES ASSUME cleared', ring'.newest # 0, NEW i \in Ids, rows'[i] # Absent
               PROVE  rows'[i].key = ring'.newest
    BY DEF AllCurrent, Present
  <2>1. cleared /\ ring'.newest = ring.newest
    BY <1>2
  <2>2. CASE i \in created
    BY <1>2, <1>3, <2>2
  <2>3. CASE i \notin created
    <3>1. rows'[i] = rows[i]
      BY <1>3, <2>3
    <3> QED
      BY <2>1, <3>1 DEF IInv, AllCurrent, Present
  <2> QED
    BY <2>2, <2>3
<1>7. Typed'
  BY <1>2, <1>5, IdleOK DEF IInv, Typed
<1>8. ASSUME NEW u \in Requests PROVE TaskOK(task[u])'
  BY <1>2 DEF TaskOK, Keeps, Imports, Copies, Idle
<1> QED
  BY <1>6, <1>7, <1>8 DEF IInv

LEMMA RestartStep == ASSUME IInv, crash \/ addKey \/ dropKeys PROVE IInv'
<1> USE DEF IInv, Typed
<1>1. CASE crash
  BY <1>1, RestartInv DEF crash
<1>2. CASE addKey
  <2>1. PICK loaded : loaded = [newest |-> ring.newest + 1,
                                oldest |-> IF ring.newest = 0 THEN 1 ELSE ring.oldest]
    OBVIOUS
  <2>2. loaded \in [newest : 0..MaxKey, oldest : 0..MaxKey] /\ loaded.oldest <= loaded.newest
        /\ (loaded.newest # 0 => loaded.oldest # 0)
    BY <1>2, <2>1 DEF addKey
  <2> QED
    BY <1>2, <2>1, <2>2, RestartInv DEF addKey
<1>3. CASE dropKeys
  <2>1. PICK loaded : loaded = [ring EXCEPT !.oldest = ring.newest]
    OBVIOUS
  <2>2. loaded \in [newest : 0..MaxKey, oldest : 0..MaxKey] /\ loaded.oldest <= loaded.newest
        /\ (loaded.newest # 0 => loaded.oldest # 0) /\ loaded.newest = ring.newest
    BY <1>3, <2>1 DEF dropKeys
  <2> QED
    BY <1>3, <2>1, <2>2, RestartInv DEF dropKeys
<1> QED
  BY <1>1, <1>2, <1>3

\* A count of nothing means that nothing is pending.
LEMMA StatusStep == ASSUME IInv, handleRotationStatus PROVE IInv'
<1>1. UNCHANGED <<rows, scheds, ring, task, safety, exported, now>> /\ cleared' = TRUE
  BY DEF handleRotationStatus
<1>2. AllCurrent'
  <2> DEFINE pending == {i \in Present(rows) : ~IsOnPrimary(rows[i])}
  <2> SUFFICES ASSUME ring.newest # 0 PROVE \A i \in Present(rows) : rows[i].key = ring.newest
    BY <1>1 DEF AllCurrent, Present
  <2>1. IsFiniteSet(pending)
    BY FS_Subset DEF Present
  <2>2. Cardinality(pending) = 0
    BY DEF handleRotationStatus, countSecretsNotOnPrimary
  <2>3. pending = {}
    BY <2>1, <2>2, FS_EmptySet
  <2> QED
    BY <2>3 DEF IsOnPrimary
<1>3. ASSUME NEW u \in Requests PROVE TaskOK(task[u])'
  <2>1. PICK k \in Tasks : k = task[u] /\ TaskOK(k) /\ k.op # "import"
    BY DEF handleRotationStatus, IInv, Typed
  <2>2. task'[u] = k
    BY <1>1, <2>1
  <2> QED
    BY <2>1, <2>2 DEF TaskOK, Keeps, Imports, Copies
<1> QED
  BY <1>1, <1>2, <1>3 DEF IInv, Typed

LEMMA TickStep ==
  ASSUME IInv, UNCHANGED <<rows, scheds, ring, task, safety, exported, cleared>>,
         now' = now \/ now' = now + 1
  PROVE  IInv'
<1>1. Typed'
  BY DEF IInv, Typed
<1>2. AllCurrent'
  BY DEF IInv, AllCurrent, Present
<1>3. ASSUME NEW u \in Requests PROVE TaskOK(task[u])'
  <2>1. PICK k \in Tasks : k = task[u] /\ TaskOK(k)
    BY DEF IInv, Typed
  <2>2. task'[u] = k
    BY <2>1
  <2>3. Imports(k)'
    <3> SUFFICES ASSUME k.op = "import" PROVE Imports(k)'
      BY DEF Imports
    <3>1. k.name \in Nat /\ k.name <= now
      BY <2>1, Kinds DEF Importing, TaskOK, Imports
    <3>2. k.name <= now'
      BY <3>1 DEF IInv, Typed
    <3> QED
      BY <2>1, <3>2 DEF TaskOK, Imports, Opens, Loaded, Present
  <2>4. Keeps(k)' /\ Copies(k)'
    BY <2>1 DEF TaskOK, Keeps, Copies, CopyAt, Content
  <2> QED
    BY <2>2, <2>3, <2>4 DEF TaskOK, Keeps, Imports, Copies, CopyAt
<1> QED
  BY <1>1, <1>2, <1>3 DEF IInv
-----------------------------------------------------------------------------
LEMMA InvInit == Init => IInv
<1> SUFFICES ASSUME Init PROVE IInv
  OBVIOUS
<1>1. PICK k \in FirstKeys : /\ ring = [newest |-> k, oldest |-> k]
                             /\ rows \in [Ids -> {Absent} \cup [key : 0..k, value : {1}]]
  BY DEF Init
<1>2. rows \in Rows
  BY <1>1 DEF Rows, Values, Mask
<1>3. ring \in [newest : 0..MaxKey, oldest : 0..MaxKey]
  BY <1>1
<1>4. safety \in [DOMAIN safety -> Archives] /\ DOMAIN safety \subseteq 0..now
  BY DEF Init
<1>5. scheds \subseteq Ids /\ exported = {} /\ now = 0 /\ ~cleared /\ cleared \in BOOLEAN
      /\ task = [t \in Requests |-> Idle]
  BY DEF Init, Present
<1>6. Typed
  BY <1>1, <1>2, <1>3, <1>4, <1>5, IdleOK DEF Typed
<1> QED
  BY <1>5, <1>6, IdleOK DEF IInv, AllCurrent

LEMMA InvStep == IInv /\ [Next]_vars => IInv'
<1> SUFFICES ASSUME IInv, [Next]_vars PROVE IInv'
  OBVIOUS
<1>1. ASSUME NEW t \in Requests, Edits(t) PROVE IInv'
  BY <1>1, ReadsStep, ChecksStep, PlansStep, SaveStep, TableStep DEF Edits
<1>2. ASSUME NEW t \in Requests, RekeySecrets(t) \/ rekeyWrites(t) \/ rekeyEnds(t) PROVE IInv'
  BY <1>2, PlansStep, RekeyStep
<1>3. ASSUME NEW t \in Requests, Archiving(t) PROVE IInv'
  BY <1>3, PlansStep, ImportStep, CopyStep, SavesStep, SaveFailsStep, ReplaceStep DEF Archiving
<1>4. CASE handleRotationStatus \/ crash \/ addKey \/ dropKeys
  BY <1>4, StatusStep, RestartStep
<1>5. CASE Tick
  BY <1>5, TickStep DEF Tick
<1>6. CASE UNCHANGED vars
  BY <1>6, TickStep DEF vars
<1> QED
  BY <1>1, <1>2, <1>3, <1>4, <1>5, <1>6 DEF Next, Operator

LEMMA Invariance == Spec => []IInv
  BY InvInit, InvStep, PTL DEF Spec
-----------------------------------------------------------------------------
(* What a step may never do.                                                  *)

\* The key that seals is loaded.
LEMMA SealedOpens == ASSUME IInv PROVE ring.newest \in Loaded \cup {0}
  BY DEF IInv, Typed, Loaded

\* What was loaded stays so, but for the keys that are dropped.
LEMMA LoadedStays == ASSUME IInv, ring' = ring \/ addKey PROVE Loaded \subseteq Loaded'
<1>1. CASE ring' = ring
  BY <1>1 DEF Loaded
<1>2. CASE addKey
  <2>1. ring' = [newest |-> ring.newest + 1, oldest |-> IF ring.newest = 0 THEN 1 ELSE ring.oldest]
    BY <1>2 DEF addKey, Restarts
  <2> QED
    BY <2>1 DEF Loaded, IInv, Typed
<1> QED
  BY <1>1, <1>2

\* The rows a step may write: untouched, sealed now, or imported.
LEMMA RowStep ==
  ASSUME IInv, [Next]_vars, NEW i \in Present(rows), rows'[i] # Absent
  PROVE  \/ rows'[i] = rows[i]
         \/ rows'[i].key = ring'.newest
         \/ ring' = ring /\ \E t \in Requests :
              task[t].op = "import" /\ rows'[i] = task[t].set.rows[i] /\ i \in Present(task[t].set.rows)
<1> USE DEF Present
<1>1. i \in Ids /\ rows \in Rows /\ task \in [Requests -> Tasks]
  BY DEF IInv, Typed
<1>2. ASSUME NEW t \in Requests, Edits(t)
      PROVE  rows'[i] = rows[i] \/ rows'[i].key = ring'.newest
  <2>1. CASE saveWrites(t)
    BY <1>1, <2>1 DEF saveWrites, SealString, Rows
  <2>2. CASE \E j \in Ids : DeleteInstance(t, j)
    BY <1>1, <2>2 DEF DeleteInstance, Rows
  <2>3. CASE rows' = rows
    BY <2>3
  <2>4. rows' = rows \/ saveWrites(t) \/ \E j \in Ids : DeleteInstance(t, j)
    BY <1>2 DEF Edits, updateReads, createReads, scheduleReads, saveChecks, scheduleWrites
  <2> QED
    BY <2>1, <2>2, <2>3, <2>4
<1>3. ASSUME NEW t \in Requests, RekeySecrets(t) \/ rekeyWrites(t) \/ rekeyEnds(t)
      PROVE  rows'[i] = rows[i] \/ rows'[i].key = ring'.newest
  <2>1. CASE rekeyWrites(t)
    BY <1>1, <2>1 DEF rekeyWrites, SealString, Rows
  <2>2. CASE RekeySecrets(t) \/ rekeyEnds(t)
    BY <2>2 DEF RekeySecrets, rekeyEnds
  <2> QED
    BY <1>3, <2>1, <2>2
<1>4. ASSUME NEW t \in Requests, Archiving(t)
      PROVE  \/ rows'[i] = rows[i]
             \/ ring' = ring /\ task[t].op = "import" /\ rows'[i] = task[t].set.rows[i]
  <2>1. CASE ReplaceConfig(t)
    BY <2>1 DEF ReplaceConfig
  <2>2. CASE ~ReplaceConfig(t)
    BY <1>4, <2>2 DEF Archiving, exportReads, handleExportConfig, handleImportConfig, copyReads,
                      saveConfigBackup, saveFails
  <2> QED
    BY <2>1, <2>2
<1>5. ASSUME NEW overwrite \in BOOLEAN, NEW newest, ImportInstances(overwrite, newest)
      PROVE  rows'[i] = rows[i] \/ rows'[i].key = newest
  BY <1>1, <1>5 DEF ImportInstances
<1>6. CASE Operator
  <2>1. ASSUME NEW loaded, Restarts(loaded)
        PROVE  rows'[i] = rows[i] \/ rows'[i].key = ring'.newest
    <3>1. ring' = loaded /\ \E overwrite \in BOOLEAN : ImportInstances(overwrite, loaded.newest)
      BY <2>1 DEF Restarts
    <3> QED
      BY <3>1, <1>5
  <2>2. CASE crash \/ addKey \/ dropKeys
    BY <2>1, <2>2 DEF crash, addKey, dropKeys
  <2>3. CASE handleRotationStatus \/ Tick
    BY <2>3 DEF handleRotationStatus, Tick
  <2> QED
    BY <1>6, <2>2, <2>3 DEF Operator
<1>7. CASE UNCHANGED vars
  BY <1>7 DEF vars
<1> QED
  BY <1>2, <1>3, <1>4, <1>6, <1>7 DEF Next

\* Of the steps that change the ring, only one forgets keys.
LEMMA RingStep == ASSUME [Next]_vars PROVE ring' = ring \/ addKey \/ dropKeys
<1>1. ASSUME NEW t \in Requests, Edits(t) PROVE ring' = ring
  BY <1>1 DEF Edits, updateReads, createReads, DeleteInstance, scheduleReads, saveChecks, saveWrites,
              scheduleWrites
<1>2. ASSUME NEW t \in Requests, RekeySecrets(t) \/ rekeyWrites(t) \/ rekeyEnds(t) PROVE ring' = ring
  BY <1>2 DEF RekeySecrets, rekeyWrites, rekeyEnds
<1>3. ASSUME NEW t \in Requests, Archiving(t) PROVE ring' = ring
  BY <1>3 DEF Archiving, exportReads, handleExportConfig, handleImportConfig, copyReads,
              saveConfigBackup, saveFails, ReplaceConfig
<1>4. CASE handleRotationStatus \/ crash \/ Tick \/ UNCHANGED vars
  BY <1>4 DEF handleRotationStatus, crash, Restarts, Tick, vars
<1> QED
  BY <1>1, <1>2, <1>3, <1>4 DEF Next, Operator

\* A secret that can be read stays readable (ReadableStays), whatever is edited, imported,
\* re-encrypted, and however the master key is rotated.
THEOREM SecretsStayReadable == Spec => ReadableStays
<1>1. ASSUME IInv, [Next]_vars, NEW i \in Present(rows), Opens(rows[i]), rows'[i] # Absent
      PROVE  Opens(rows[i])'
  <2>1. IInv'
    BY <1>1, InvStep
  <2>2. ring'.newest \in Loaded' \cup {0}
    BY <2>1 DEF IInv, Typed, Loaded
  <2>3. CASE rows'[i] = rows[i]
    <3>1. CASE ring' = ring \/ addKey
      BY <1>1, <2>3, <3>1, LoadedStays DEF Opens
    <3>2. CASE dropKeys
      <4>1. cleared /\ ring.newest # 0
        BY <1>1, <3>2 DEF dropKeys, IInv, Typed
      <4>2. rows[i].key = ring.newest /\ ring'.newest = ring.newest
        BY <1>1, <3>2, <4>1 DEF IInv, AllCurrent, dropKeys, Restarts, Typed
      <4> QED
        BY <2>2, <2>3, <4>2 DEF Opens
    <3> QED
      BY <1>1, <3>1, <3>2, RingStep
  <2>4. CASE rows'[i].key = ring'.newest
    BY <2>2, <2>4 DEF Opens
  <2>5. ASSUME ring' = ring, NEW t \in Requests, task[t].op = "import",
               rows'[i] = task[t].set.rows[i], i \in Present(task[t].set.rows)
        PROVE  Opens(rows[i])'
    <3>1. Opens(task[t].set.rows[i])
      BY <1>1, <2>5 DEF IInv, TaskOK, Imports
    <3> QED
      BY <2>5, <3>1 DEF Opens, Loaded
  <2> QED
    BY <1>1, <2>3, <2>4, <2>5, RowStep
<1>2. IInv /\ [Next]_vars =>
        [\A i \in Present(rows) : Opens(rows[i]) /\ rows'[i] # Absent => Opens(rows[i])']_vars
  BY <1>1
<1> QED
  BY Invariance, <1>2, PTL DEF Spec, ReadableStays
-----------------------------------------------------------------------------
\* Who changes the value of a secret: a save that was given one, or read another; a pass of
\* re-encryption that read another; an import; the seed file.
LEMMA SaveMayChange ==
  ASSUME IInv, NEW t \in Requests, saveWrites(t), NEW i \in Present(rows),
         rows'[i].value # rows[i].value
  PROVE  MayChange(t, i)
<1>1. PICK k \in Tasks : k = task[t] /\ TaskOK(k)
  BY DEF IInv, Typed
<1>2. k \in Saving /\ k.op \in {"update", "create"}
  BY <1>1, Kinds DEF saveWrites
<1>3. rows' = [rows EXCEPT ![k.id] = SealString(k.value)] /\ Writes(t, Idle)
  BY <1>1 DEF saveWrites
<1>4. k.id = i /\ k.value # rows[i].value
  BY <1>2, <1>3 DEF Saving, SealString, Present, IInv, Typed, Rows
<1>5. task'[t] = Idle /\ k # Idle
  BY <1>2, <1>3 DEF Writes, Saving, Idle
<1>6. ~k.masked \/ k.saw # rows[i]
  BY <1>1, <1>2, <1>4 DEF TaskOK, Keeps, Present
<1> QED
  BY <1>1, <1>2, <1>4, <1>5, <1>6 DEF MayChange

LEMMA RekeyMayChange ==
  ASSUME IInv, NEW t \in Requests, rekeyWrites(t), NEW i \in Present(rows),
         rows'[i].value # rows[i].value
  PROVE  MayChange(t, i)
<1>1. PICK j : j = First(task[t].todo)
  OBVIOUS
<1>2. PICK next : next = [task[t] EXCEPT !.todo[j] = Absent]
  OBVIOUS
<1>3. /\ task[t] \in Rekeying /\ next # task[t]
      /\ rows' = IF rows[j] = Absent THEN rows
                 ELSE [rows EXCEPT ![j] = SealString(task[t].todo[j].value)]
      /\ IF rows'[j].value # rows[j].value THEN Writes(t, next) ELSE Goes(t, next)
  BY <1>1, <1>2, RekeyWrite
<1>4. i = j /\ task[t].todo[i] # rows[i]
  BY <1>3 DEF Present, IInv, Typed, Rows, SealString
<1>5. task'[t] = next
  BY <1>3 DEF Writes, Goes, IInv, Typed
<1>6. task[t].op = "rekey" /\ task[t] # Idle
  BY <1>3 DEF Rekeying, Idle
<1> QED
  BY <1>3, <1>4, <1>5, <1>6 DEF MayChange

LEMMA ReplaceMayChange ==
  ASSUME IInv, NEW t \in Requests, ReplaceConfig(t), NEW i
  PROVE  MayChange(t, i)
<1>1. task[t].op = "import"
  BY DEF ReplaceConfig
<1>2. task'[t] = Idle
  BY DEF ReplaceConfig, Writes, Goes, IInv, Typed
<1>3. task[t] # Idle
  BY <1>1, IdleOK
<1> QED
  BY <1>1, <1>2, <1>3 DEF MayChange

\* The value of a secret survives what is not meant to change it (SecretsSurvive).
THEOREM ValuesSurvive == Spec => SecretsSurvive
<1> DEFINE Seeded(i) == i \in Seeds /\ rows'[i].value = 1 /\ task' = [t \in Requests |-> Idle]
<1>1. ASSUME IInv, [Next]_vars, NEW i \in Present(rows), rows'[i] # Absent,
             rows'[i].value # rows[i].value
      PROVE  (\E t \in Requests : MayChange(t, i)) \/ Seeded(i)
  <2>1. i \in Ids /\ rows' # rows /\ rows \in Rows
    BY <1>1 DEF Present, IInv, Typed
  <2>2. ASSUME NEW t \in Requests, Edits(t) PROVE MayChange(t, i)
    <3>1. saveWrites(t) \/ \E j \in Ids : DeleteInstance(t, j)
      BY <2>1, <2>2 DEF Edits, updateReads, createReads, scheduleReads, saveChecks, scheduleWrites
    <3>2. ~ \E j \in Ids : DeleteInstance(t, j)
      BY <1>1, <2>1 DEF DeleteInstance, Rows
    <3> QED
      BY <1>1, <3>1, <3>2, SaveMayChange
  <2>3. ASSUME NEW t \in Requests, RekeySecrets(t) \/ rekeyWrites(t) \/ rekeyEnds(t)
        PROVE  MayChange(t, i)
    BY <1>1, <2>1, <2>3, RekeyMayChange DEF RekeySecrets, rekeyEnds
  <2>4. ASSUME NEW t \in Requests, Archiving(t) PROVE MayChange(t, i)
    <3>1. ReplaceConfig(t)
      BY <2>1, <2>4 DEF Archiving, exportReads, handleExportConfig, handleImportConfig, copyReads,
                        saveConfigBackup, saveFails
    <3> QED
      BY <1>1, <3>1, ReplaceMayChange
  <2>5. CASE Operator
    <3>1. PICK loaded : Restarts(loaded)
      BY <2>1, <2>5 DEF Operator, handleRotationStatus, crash, addKey, dropKeys, Tick
    <3>2. PICK overwrite \in BOOLEAN : ImportInstances(overwrite, loaded.newest)
      BY <3>1 DEF Restarts
    <3>3. i \in Seeds /\ rows'[i].value = 1
      BY <1>1, <2>1, <3>2 DEF ImportInstances
    <3> QED
      BY <3>1, <3>3 DEF Restarts
  <2>6. ~ UNCHANGED vars
    BY <2>1 DEF vars
  <2> QED
    BY <1>1, <2>2, <2>3, <2>4, <2>5, <2>6 DEF Next
<1>2. IInv /\ [Next]_vars =>
        [\A i \in Present(rows) : rows'[i] # Absent /\ rows'[i].value # rows[i].value =>
           \/ \E t \in Requests : MayChange(t, i)
           \/ i \in Seeds /\ rows'[i].value = 1 /\ task' = [t \in Requests |-> Idle]]_vars
  BY <1>1
<1> QED
  BY Invariance, <1>2, PTL DEF Spec, SecretsSurvive

\* What an import replaces can be had back, if nothing was written across it (Reversible).
THEOREM ImportsReversible == Spec => Reversible
<1>1. ASSUME IInv, NEW t \in Requests, task[t].op = "import", task[t].at = "replace", task[t].alone
      PROVE  LET n == task[t].name
             IN /\ n \in DOMAIN safety /\ safety[n].intact /\ safety[n].schedules = scheds
                /\ Content(safety[n].rows) = Content(rows)
  BY <1>1 DEF IInv, TaskOK, Copies, CopyAt
<1>2. IInv =>
        [\A t \in Requests :
           task[t].op = "import" /\ task[t].at = "replace" /\ task'[t] = Idle
             /\ task[t].alone /\ tables' # tables =>
             LET n == task[t].name
             IN /\ n \in DOMAIN safety /\ safety[n].intact /\ safety[n].schedules = scheds
                /\ Content(safety[n].rows) = Content(rows)]_vars
  BY <1>1
<1> QED
  BY Invariance, <1>2, PTL DEF Spec, Reversible
=============================================================================
