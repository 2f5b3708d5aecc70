----------------------------- MODULE ConfigArchive -----------------------------
(* The configuration with its sealed secrets: edits, re-encryption, export,  *)
(* import and the safety copies (internal/server/instances.go, store.go,     *)
(* rotate.go, config_archive.go, config_archive_store.go; pkg/crypto/        *)
(* keyring.go).                                                              *)
(*                                                                           *)
(* An instance is one row with one secret, which its script requires.  A     *)
(* stored secret is the number of the master key that sealed it, 0 for       *)
(* plaintext, and the value.  Of the accounts and runners an archive only    *)
(* says whether it has an enabled administrator.                             *)
EXTENDS Integers, FiniteSets, Functions

CONSTANTS
  Ids,         \* the instances, numbered as they sort
  MaxKey,      \* bound: master keys, numbered as they are made
  FirstKeys,   \* the master key the server has at first; 0 for none
  MaxValue,    \* bound: values of a secret
  Seeds,       \* the instances of the seed file, each with a schedule
  Foreign,     \* archives of another origin
  Requests,    \* requests the server works on at the same time
  MaxRequests, \* bound: edits, exports and imports begun
  MaxRotations, MaxFaults, MaxClock, \* bounds: new master keys; failures and restarts; seconds
  Kept         \* configBackupsKept

Absent == [key |-> -1, value |-> 0]
Mask == 0    \* what the API shows for a secret, and takes for "as it is"
Values == Mask..MaxValue
Rows == [Ids -> {Absent} \cup [key : 0..MaxKey, value : Values]]
Archives == [rows : Rows, schedules : SUBSET Ids, admin : BOOLEAN, intact : BOOLEAN]

ASSUME ConfigAssumption ==
  /\ Ids \subseteq Nat /\ IsFiniteSet(Ids) /\ Seeds \subseteq Ids /\ Foreign \subseteq Archives
  /\ {MaxKey, MaxValue, Kept} \subseteq Nat \ {0} /\ FirstKeys \subseteq 0..MaxKey
  /\ {MaxRequests, MaxRotations, MaxFaults, MaxClock} \subseteq Nat

VARIABLES
  rows,      \* the table instances
  scheds,    \* the table schedules: the instances that have one
  ring,      \* the master keys that are loaded: newest, and the oldest still listed
  task,      \* the request each handler works on
  safety,    \* backup_dir/config-backups: an archive by the second it was saved in
  exported,  \* the archives the operator downloaded
  cleared,   \* the operator has seen that no secret is pending, and imported nothing since
  now, requests, rotations, faults \* the clock in seconds; counters of the bounds
tables == <<rows, scheds>>
files  == <<safety, exported>>
count  == <<requests, rotations, faults>>
vars   == <<tables, ring, task, files, cleared, now, count>>

Present(table) == {i \in Ids : table[i] # Absent}
Idle == [op |-> "none"]

\* LoadKeyring: the first key seals, the others are there to read.
Loaded == {k \in ring.oldest..ring.newest : k > 0}
SealString(v) == [key |-> ring.newest, value |-> v]
\* OpenString: plaintext passes, a sealed value needs its key.
Opens(stored) == stored.key \in Loaded \cup {0}

\* (slip) Every key that is loaded counts as current.
IsOnAny(stored) == stored.key \in Loaded
IsOnPrimary(stored) == stored.key = ring.newest /\ stored.key # 0

countSecretsNotOnPrimary ==
  IF ring.newest = 0 THEN 0
  ELSE Cardinality({i \in Present(rows) : ~IsOnPrimary(rows[i])})

Faulty == faults < MaxFaults /\ faults' = faults + 1 /\ UNCHANGED <<requests, rotations>>
Begins == requests < MaxRequests /\ requests' = requests + 1 /\ UNCHANGED <<rotations, faults>>

\* Request t goes on as given.
Goes(t, next) == task' = [task EXCEPT ![t] = next]
\* It writes something that an import under way may just have read or saved.
Writes(t, next) ==
  task' = [u \in Requests |-> IF u = t THEN next
                              ELSE IF task[u].op = "import" THEN [task[u] EXCEPT !.alone = FALSE]
                              ELSE task[u]]
-----------------------------------------------------------------------------
(* The instance handlers.                                                    *)
\* (slip) The mask is stored like any value.
MaskStored(given, old) == given
\* instanceFromPayload: a secret left out or sent back as the mask keeps its value.
instanceFromPayload(given, old) == IF given = Mask THEN old ELSE given

\* handleUpdateInstance reads the row; one it cannot open is an error.
updateReads(t, i, given) ==
  /\ task[t] = Idle /\ rows[i] # Absent /\ Opens(rows[i]) /\ Begins
  /\ Goes(t, [op |-> "update", at |-> "read", id |-> i, saw |-> rows[i], masked |-> given = Mask,
              value |-> instanceFromPayload(given, rows[i].value)])
  /\ UNCHANGED <<tables, ring, files, cleared, now>>

\* handleCreateInstance: a copy takes the secrets it sends masked from its source.
createReads(t, i, given) ==
  /\ task[t] = Idle /\ Begins
  /\ \E v \in IF given # Mask THEN {given}
              ELSE {rows[j].value : j \in {k \in Present(rows) : Opens(rows[k])}} :
       Goes(t, [op |-> "create", at |-> "read", id |-> i, saw |-> Absent,
                masked |-> given = Mask, value |-> v])
  /\ UNCHANGED <<tables, ring, files, cleared, now>>

\* SaveInstance: whether the row exists decides; nothing holds it so until the write.
saveChecks(t) ==
  /\ task[t].op \in {"update", "create"} /\ task[t].at = "read"
  /\ IF (rows[task[t].id] # Absent) = (task[t].op = "update")
     THEN Goes(t, [task[t] EXCEPT !.at = "checked"]) ELSE Goes(t, Idle)
  /\ UNCHANGED <<tables, ring, files, cleared, now, count>>

saveWrites(t) ==
  /\ task[t].op \in {"update", "create"} /\ task[t].at = "checked"
  /\ rows' = [rows EXCEPT ![task[t].id] = SealString(task[t].value)] /\ Writes(t, Idle)
  /\ UNCHANGED <<scheds, ring, files, cleared, now, count>>

DeleteInstance(t, i) ==
  /\ task[t] = Idle /\ rows[i] # Absent /\ Begins
  /\ rows' = [rows EXCEPT ![i] = Absent] /\ scheds' = scheds \ {i} /\ Writes(t, Idle)
  /\ UNCHANGED <<ring, files, cleared, now>>

\* handleCreateSchedule: the instance is looked up, then the schedule is written.
scheduleReads(t, i) ==
  /\ task[t] = Idle /\ rows[i] # Absent /\ Opens(rows[i]) /\ Begins
  /\ Goes(t, [op |-> "schedule", id |-> i])
  /\ UNCHANGED <<tables, ring, files, cleared, now>>

scheduleWrites(t) ==
  /\ task[t].op = "schedule"
  /\ scheds' = scheds \cup {task[t].id} /\ Writes(t, Idle)
  /\ UNCHANGED <<rows, ring, files, cleared, now, count>>
-----------------------------------------------------------------------------
(* Re-encryption.                                                            *)
\* (slip) A value that cannot be read ends the pass.
RekeyAborts(t) ==
  /\ task[t] = Idle /\ ring.newest # 0 /\ countSecretsNotOnPrimary > 0
  /\ \A i \in Present(rows) : Opens(rows[i])
  /\ Goes(t, [op |-> "rekey", todo |-> [i \in Ids |->
       IF rows[i] = Absent \/ IsOnPrimary(rows[i]) \/ ~Opens(rows[i]) THEN Absent ELSE rows[i]]])
  /\ UNCHANGED <<tables, ring, files, cleared, now, count>>

\* RekeySecrets reads every instance; it keeps what is current, and what it cannot read.
RekeySecrets(t) ==
  /\ task[t] = Idle /\ ring.newest # 0 /\ countSecretsNotOnPrimary > 0
  /\ Goes(t, [op |-> "rekey", todo |-> [i \in Ids |->
       IF rows[i] = Absent \/ IsOnPrimary(rows[i]) \/ ~Opens(rows[i]) THEN Absent ELSE rows[i]]])
  /\ UNCHANGED <<tables, ring, files, cleared, now, count>>

\* Each instance is written by itself, from what was read; a row that is gone stays so.
rekeyWrites(t) ==
  /\ task[t].op = "rekey" /\ Present(task[t].todo) # {}
  /\ LET i == CHOOSE j \in Present(task[t].todo) : \A k \in Present(task[t].todo) : j <= k
     IN /\ rows' = IF rows[i] = Absent THEN rows
                   ELSE [rows EXCEPT ![i] = SealString(task[t].todo[i].value)]
        /\ IF rows'[i].value # rows[i].value
           THEN Writes(t, [task[t] EXCEPT !.todo[i] = Absent])
           ELSE Goes(t, [task[t] EXCEPT !.todo[i] = Absent])
  /\ UNCHANGED <<scheds, ring, files, cleared, now, count>>

rekeyEnds(t) ==
  /\ task[t].op = "rekey" /\ Goes(t, Idle)
  /\ \/ Present(task[t].todo) = {} /\ UNCHANGED count
     \/ Present(task[t].todo) # {} /\ Faulty
  /\ UNCHANGED <<tables, ring, files, cleared, now>>
-----------------------------------------------------------------------------
(* Export and import.                                                        *)
\* ConfigSet and buildConfigArchive: the tables are read one after the other.
Archive(instances) == [rows |-> instances, schedules |-> scheds, admin |-> TRUE, intact |-> TRUE]
Damaged == [rows |-> [i \in Ids |-> Absent], schedules |-> {}, admin |-> FALSE, intact |-> FALSE]

exportReads(t) ==
  /\ task[t] = Idle /\ Begins /\ Goes(t, [op |-> "export", copy |-> rows])
  /\ UNCHANGED <<tables, ring, files, cleared, now>>

handleExportConfig(t) ==
  /\ task[t].op = "export" /\ exported' = exported \cup {Archive(task[t].copy)} /\ Goes(t, Idle)
  /\ UNCHANGED <<tables, ring, safety, cleared, now, count>>

\* readConfigArchive: every entry is there and matches its checksum.
readConfigArchive(a) == a.intact
checkConfigSecretKeys(a) == \A i \in Present(a.rows) : Opens(a.rows[i])
validateConfigSet(a) ==
  a.schedules \subseteq Present(a.rows) /\ a.admin /\ checkConfigSecretKeys(a)

\* handleImportConfig with its confirmation; one that is refused, or only tried, changes nothing.
handleImportConfig(t, a) ==
  /\ task[t] = Idle /\ readConfigArchive(a) /\ validateConfigSet(a) /\ Begins
  /\ Goes(t, [op |-> "import", at |-> "save", set |-> a, copy |-> rows, name |-> now, alone |-> TRUE])
  /\ cleared' = FALSE
  /\ UNCHANGED <<tables, ring, files, now>>

\* (slip) The oldest copies are kept.
PruneNewest(dir) ==
  [n \in {m \in DOMAIN dir : Cardinality({k \in DOMAIN dir : k < m}) < Kept} |-> dir[n]]
\* pruneConfigBackups: the newest copies by name are kept.
pruneConfigBackups(dir) ==
  [n \in {m \in DOMAIN dir : Cardinality({k \in DOMAIN dir : k > m}) < Kept} |-> dir[n]]

\* An import has the name of its copy from the start.
Saved(name, a) == [n \in DOMAIN safety \cup {name} |-> IF n = name THEN a ELSE safety[n]]

\* saveConfigBackup reads the instances,
copyReads(t) ==
  /\ task[t].op = "import" /\ task[t].at = "save"
  /\ Goes(t, [task[t] EXCEPT !.at = "copy", !.copy = rows])
  /\ UNCHANGED <<tables, ring, files, cleared, now, count>>

\* then the rest, and writes the copy;
saveConfigBackup(t) ==
  /\ task[t].op = "import" /\ task[t].at = "copy"
  /\ safety' = pruneConfigBackups(Saved(task[t].name, Archive(task[t].copy)))
  /\ Writes(t, [task[t] EXCEPT !.at = "replace"])
  /\ UNCHANGED <<tables, ring, exported, cleared, now, count>>

\* a full disk leaves part of it, and ends the import.
saveFails(t) ==
  /\ task[t].op = "import" /\ task[t].at = "copy" /\ Faulty
  /\ safety' = Saved(task[t].name, Damaged) /\ Writes(t, Idle)
  /\ UNCHANGED <<tables, ring, exported, cleared, now>>

\* ReplaceConfig is one transaction; it happens or it does not.
ReplaceConfig(t) ==
  /\ task[t].op = "import" /\ task[t].at = "replace"
  /\ \/ /\ rows' = task[t].set.rows /\ scheds' = task[t].set.schedules
        /\ Writes(t, Idle) /\ UNCHANGED count
     \/ Faulty /\ Goes(t, Idle) /\ UNCHANGED tables
  /\ UNCHANGED <<ring, files, cleared, now>>
-----------------------------------------------------------------------------
(* The operator's rotation of the master key, and the restarts.              *)
\* handleRotationStatus, looked at when no import is under way.
handleRotationStatus ==
  /\ countSecretsNotOnPrimary = 0 /\ ~cleared /\ \A t \in Requests : task[t].op # "import"
  /\ cleared' = TRUE
  /\ UNCHANGED <<tables, ring, task, files, now, count>>

\* ImportInstances: the seed file fills in what is missing, or overwrites.
ImportInstances(overwrite, newest) ==
  LET created == {i \in Seeds : overwrite \/ rows[i] = Absent}
  IN /\ rows' = [i \in Ids |-> IF i \in created THEN [key |-> newest, value |-> 1] ELSE rows[i]]
     /\ scheds' = scheds \cup created

Restarts(loaded) ==
  /\ ring' = loaded /\ task' = [t \in Requests |-> Idle]
  /\ \E overwrite \in BOOLEAN : ImportInstances(overwrite, loaded.newest)
  /\ UNCHANGED <<files, now>>

crash == Restarts(ring) /\ Faulty /\ UNCHANGED cleared

\* A new master key, with the one before it among the previous keys.
addKey ==
  /\ rotations < MaxRotations /\ rotations' = rotations + 1 /\ ring.newest < MaxKey
  /\ Restarts([newest |-> ring.newest + 1, oldest |-> IF ring.newest = 0 THEN 1 ELSE ring.oldest])
  /\ cleared' = FALSE /\ UNCHANGED <<requests, faults>>

\* The previous keys are removed once nothing is pending.
dropKeys ==
  /\ cleared /\ ring.oldest < ring.newest
  /\ Restarts([ring EXCEPT !.oldest = ring.newest])
  /\ UNCHANGED <<cleared, count>>

\* Seconds in which no import begins do not count.
Tick ==
  /\ now \in DOMAIN safety \cup {task[t].name : t \in {u \in Requests : task[u].op = "import"}}
  /\ now < MaxClock /\ now' = now + 1
  /\ UNCHANGED <<tables, ring, task, files, cleared, count>>
-----------------------------------------------------------------------------
Init ==
  /\ \E k \in FirstKeys : /\ ring = [newest |-> k, oldest |-> k]
                          /\ rows \in [Ids -> {Absent} \cup [key : 0..k, value : {1}]]
  /\ scheds = Present(rows)
  /\ task = [t \in Requests |-> Idle]
  /\ safety = [n \in {} |-> Damaged] /\ exported = {} /\ cleared = FALSE
  /\ now = 0 /\ requests = 0 /\ rotations = 0 /\ faults = 0

Edits(t) ==
  \/ \E i \in Ids : \/ \E given \in Values : updateReads(t, i, given) \/ createReads(t, i, given)
                    \/ DeleteInstance(t, i) \/ scheduleReads(t, i)
  \/ saveChecks(t) \/ saveWrites(t) \/ scheduleWrites(t)

Archiving(t) ==
  \/ exportReads(t) \/ handleExportConfig(t)
  \/ \E a \in exported \cup Foreign \cup Range(safety) : handleImportConfig(t, a)
  \/ copyReads(t) \/ saveConfigBackup(t) \/ saveFails(t) \/ ReplaceConfig(t)

Operator == handleRotationStatus \/ crash \/ addKey \/ dropKeys \/ Tick

Next ==
  \/ \E t \in Requests : Edits(t) \/ RekeySecrets(t) \/ rekeyWrites(t) \/ rekeyEnds(t) \/ Archiving(t)
  \/ Operator

Spec == Init /\ [][Next]_vars

\* A handler that began goes on, and the operator re-encrypts as long as values are pending.
Works(t) ==
  \/ saveChecks(t) \/ saveWrites(t) \/ scheduleWrites(t) \/ rekeyWrites(t) \/ rekeyEnds(t)
  \/ handleExportConfig(t) \/ copyReads(t) \/ saveConfigBackup(t) \/ ReplaceConfig(t)

FairSpec ==
  /\ Spec
  /\ \A t \in Requests : WF_vars(Works(t))
  /\ WF_vars(\E t \in Requests : RekeySecrets(t))
-----------------------------------------------------------------------------
(* A secret that the server can read stays readable: through edits,          *)
(* re-encryption, imports, and the removal of a previous master key by an    *)
(* operator who waits until no secret is pending (README, rotation of the    *)
(* secrets master key).                                                      *)
ReadableStays ==
  [][\A i \in Present(rows) : Opens(rows[i]) /\ rows'[i] # Absent => Opens(rows[i])']_vars

(* The value of a secret changes only by an edit that gives a new one, an    *)
(* import, or the seed file.  A save that leaves it out or sends the mask,   *)
(* and re-encryption, write the value they read, so they lose another's      *)
(* change only if it came after that read (instanceFromPayload, RekeySecrets).*)
MayChange(t, i) ==
  /\ task[t] # Idle /\ task'[t] # task[t]
  /\ \/ task[t].op \in {"update", "create"} /\ task[t].id = i
        /\ (~task[t].masked \/ task[t].saw # rows[i])
     \/ task[t].op = "rekey" /\ task[t].todo[i] # rows[i]
     \/ task[t].op = "import"
SecretsSurvive ==
  [][\A i \in Present(rows) : rows'[i] # Absent /\ rows'[i].value # rows[i].value =>
       \/ \E t \in Requests : MayChange(t, i)
       \/ i \in Seeds /\ rows'[i].value = 1 /\ task' = [t \in Requests |-> Idle]]_vars

(* When an import replaces the configuration, what it replaces is in a       *)
(* safety copy that is still there, unless something was written after the   *)
(* import began (applyConfigImport: recovering is importing that file).      *)
Content(table) == [i \in Ids |-> table[i].value]
Reversible ==
  [][\A t \in Requests :
       task[t].op = "import" /\ task[t].at = "replace" /\ task'[t] = Idle
         /\ task[t].alone /\ tables' # tables =>
         LET n == task[t].name
         IN /\ n \in DOMAIN safety /\ safety[n].intact /\ safety[n].schedules = scheds
            /\ Content(safety[n].rows) = Content(rows)]_vars

(* Re-encryption reaches its end: every secret that can be read is sealed    *)
(* with the current key in the end, whatever edits, imports and failures     *)
(* there were, and even if another secret cannot be read at all              *)
(* (RekeySecrets: one unreadable value does not block the others).           *)
RekeyFinishes ==
  <>[](ring.newest = 0 \/ \A i \in Present(rows) : Opens(rows[i]) => IsOnPrimary(rows[i]))
=============================================================================
