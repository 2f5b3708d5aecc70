---------------------------- MODULE RetentionProofs ----------------------------
(* Theorems about Retention, for every number of runs, janitors and resets and  *)
(* every set of retentions.                                                      *)
EXTENDS Retention, FiniteSetTheorems, TLAPS

USE RetentionAssumption DEF RetentionAssumption, db, disk, work, count, hist, Ids, Days

\* The ids above the last one given have no row, and every row has its serial.
Fresh == \A i \in Ids : IF i > seq THEN row[i].status = "none"
                        ELSE row[i].status # "none" => row[i].serial # 0

\* What a janitor will delete has succeeded, and was outside a retention.
Condemned ==
  \A j \in Janitors : \A i \in janitor[j].list :
    row[i].status = "success" /\ row[i].serial \in expired

\* The upload of a run is where the end of the run will look for it, or is there already.
Kept(i) ==
  \/ part[i] = row[i].serial
  \/ data[i] = row[i].serial /\ part[i] = 0
  \/ row[i].serial \in unsettled

Uploaded == \A i \in Ids : row[i].status = "active" /\ row[i].stored => Kept(i)

Committing ==
  \A i \in committed : Listed(i) => Kept(i) \/ \E j \in Janitors : Marks(j, i)

\* A run that lives through a reset is unsettled.
Resetting ==
  /\ reset = "rows" => \A i \in Ids : row[i].status = "active" => row[i].serial \in unsettled
  /\ reset = "files" => \A i \in Ids : row[i].status # "none" => row[i].serial \in unsettled

IInv ==
  /\ TypeOK /\ Fresh /\ Resetting
  /\ ~crossed => Condemned /\ Uploaded /\ Committing
  /\ ListedIsThere
-----------------------------------------------------------------------------
LEMMA InitIInv == Init => IInv
<1> SUFFICES ASSUME Init PROVE IInv
  OBVIOUS
<1>1. row \in [Ids -> Row] /\ \A i \in Ids : row[i].status = "none"
  BY DEF Init, NoRow, Row
<1>2. janitor \in [Janitors -> JanitorState]
  BY DEF Init, Idle, JanitorState, Policy
<1>3. \A j \in Janitors : janitor[j].pc = "idle" /\ janitor[j].list = {}
  BY DEF Init, Idle
<1>4. TypeOK
  BY <1>1, <1>2, <1>3 DEF Init, TypeOK
<1>5. Fresh /\ Resetting
  BY <1>1 DEF Init, Fresh, Resetting
<1>6. Condemned /\ Uploaded /\ Committing /\ ListedIsThere
  BY <1>1, <1>3 DEF Init, Condemned, Uploaded, Committing, ListedIsThere, Listed
<1> QED
  BY <1>4, <1>5, <1>6 DEF IInv
-----------------------------------------------------------------------------
(* The life of a run.                                                        *)

\* A step that leaves the janitors alone and touches the row and the files of one run only,
\* which no janitor will delete.
LEMMA RunStep ==
  ASSUME IInv, NEW i \in Ids, UNCHANGED <<janitor, crossed>>,
         row' \in [Ids -> Row], \A k \in Ids \ {i} : row'[k] = row[k],
         data' \in [Ids -> 0..MaxRuns], \A k \in Ids \ {i} : data'[k] = data[k],
         part' \in [Ids -> 0..MaxRuns], \A k \in Ids \ {i} : part'[k] = part[k],
         committed' \subseteq Ids, \A k \in Ids \ {i} : k \in committed' <=> k \in committed,
         row[i].status = "success" => row'[i].status = "success" /\ row'[i].serial = row[i].serial,
         expired \subseteq expired', unsettled \subseteq unsettled'
  PROVE  /\ ~crossed => Condemned'
         /\ ~crossed => \A k \in Ids \ {i} : row'[k].status = "active" /\ row'[k].stored => Kept(k)'
         /\ ~crossed => \A k \in committed' \ {i} :
                          Listed(k)' => Kept(k)' \/ \E j \in Janitors : Marks(j, k)'
         /\ \A k \in Ids \ {i} : Listed(k)' => \/ data'[k] = row'[k].serial
                                               \/ k \in committed'
                                               \/ \E j \in Janitors : Marks(j, k)'
                                               \/ row'[k].serial \in unsettled'
                                               \/ crossed'
<1>1. \A k \in Ids \ {i} : (Kept(k) => Kept(k)') /\ (Listed(k)' <=> Listed(k))
  BY DEF Kept, Listed
<1>2. \A j \in Janitors, k \in Ids : Marks(j, k)' <=> Marks(j, k)
  BY DEF Marks, IsNewest
<1>3. ~crossed => Condemned'
  BY DEF IInv, Condemned, TypeOK, JanitorState
<1>4. ~crossed => \A k \in Ids \ {i} : row'[k].status = "active" /\ row'[k].stored => Kept(k)'
  BY <1>1 DEF IInv, Uploaded
<1>5. ~crossed => \A k \in committed' \ {i} :
                    Listed(k)' => Kept(k)' \/ \E j \in Janitors : Marks(j, k)'
  BY <1>1, <1>2 DEF IInv, Committing
<1>6. \A k \in Ids \ {i} : Listed(k)' => \/ data'[k] = row'[k].serial
                                         \/ k \in committed'
                                         \/ \E j \in Janitors : Marks(j, k)'
                                         \/ row'[k].serial \in unsettled'
                                         \/ crossed'
  BY <1>1, <1>2 DEF IInv, ListedIsThere
<1> QED
  BY <1>3, <1>4, <1>5, <1>6

LEMMA CreateStep ==
  ASSUME IInv, CreateRun, expired \subseteq expired' PROVE IInv'
<1>0. PICK i : i = seq + 1
  OBVIOUS
<1>1. /\ born < MaxRuns /\ seq < MaxId /\ seq' = i /\ born' = born + 1
      /\ row' = [row EXCEPT ![i] = [NoRow EXCEPT !.status = "active", !.serial = born + 1]]
      /\ unsettled' = IF reset = "idle" THEN unsettled ELSE unsettled \cup {born + 1}
      /\ UNCHANGED <<policy, data, part, now, janitor, committed, finished, reset, crossed>>
  BY <1>0 DEF CreateRun
<1>2. i \in Ids /\ seq \in Nat /\ born + 1 \in 0..MaxRuns /\ born' \in 0..MaxRuns
      /\ seq' \in 0..MaxId /\ born + 1 # 0
  BY <1>0, <1>1 DEF IInv, TypeOK
<1>3. /\ row' \in [Ids -> Row] /\ \A k \in Ids \ {i} : row'[k] = row[k]
      /\ row'[i].status = "active" /\ ~row'[i].stored /\ row'[i].serial = born + 1
  <2>1. NoRow \in Row /\ ~NoRow.stored
    BY DEF NoRow, Row
  <2>2. [NoRow EXCEPT !.status = "active", !.serial = born + 1] \in Row
    BY <1>2, <2>1 DEF Row
  <2> QED
    BY <1>1, <1>2, <2>1, <2>2 DEF IInv, TypeOK, Row
<1>4. row[i].status = "none"
  BY <1>0, <1>2 DEF IInv, Fresh
<1>5. TypeOK'
  BY <1>1, <1>2, <1>3 DEF IInv, TypeOK
<1>6. Fresh'
  BY <1>0, <1>1, <1>2, <1>3 DEF IInv, Fresh
<1>7. Resetting'
  BY <1>1, <1>2, <1>3 DEF IInv, Resetting
<1>8. data' \in [Ids -> 0..MaxRuns] /\ part' \in [Ids -> 0..MaxRuns] /\ committed' \subseteq Ids
  BY <1>1 DEF IInv, TypeOK
<1>9. ~Listed(i)'
  BY <1>3 DEF Listed
<1>10. /\ ~crossed => Condemned'
       /\ ~crossed => \A k \in Ids \ {i} : row'[k].status = "active" /\ row'[k].stored => Kept(k)'
       /\ ~crossed => \A k \in committed' \ {i} :
                        Listed(k)' => Kept(k)' \/ \E j \in Janitors : Marks(j, k)'
       /\ \A k \in Ids \ {i} : Listed(k)' => \/ data'[k] = row'[k].serial
                                             \/ k \in committed'
                                             \/ \E j \in Janitors : Marks(j, k)'
                                             \/ row'[k].serial \in unsettled'
                                             \/ crossed'
  BY <1>1, <1>2, <1>3, <1>4, <1>8, RunStep
<1>11. ~crossed => Uploaded' /\ Committing'
  BY <1>3, <1>9, <1>10 DEF Uploaded, Committing
<1>12. ListedIsThere'
  BY <1>9, <1>10 DEF ListedIsThere
<1> QED
  BY <1>1, <1>5, <1>6, <1>7, <1>10, <1>11, <1>12 DEF IInv

LEMMA UploadStep ==
  ASSUME IInv, NEW i \in Ids, uploads(i), expired \subseteq expired' PROVE IInv'
<1>1. /\ row[i].status = "active" /\ ~row[i].stored
      /\ part' = [part EXCEPT ![i] = row[i].serial]
      /\ row' = [row EXCEPT ![i] = [row[i] EXCEPT !.stored = TRUE]]
      /\ UNCHANGED <<data, seq, policy, now, janitor, committed, finished, reset, born, unsettled,
                     crossed>>
  BY DEF uploads
<1>2. row[i] \in Row
  BY DEF IInv, TypeOK
<1>3. [row[i] EXCEPT !.stored = TRUE] \in Row
  BY <1>2 DEF Row
<1>4. /\ row' \in [Ids -> Row] /\ \A k \in Ids \ {i} : row'[k] = row[k]
      /\ row'[i].status = "active" /\ row'[i].serial = row[i].serial
  BY <1>1, <1>2, <1>3 DEF IInv, TypeOK, Row
<1>5. /\ part' \in [Ids -> 0..MaxRuns] /\ \A k \in Ids \ {i} : part'[k] = part[k]
      /\ part'[i] = row[i].serial
  BY <1>1, <1>2 DEF IInv, TypeOK, Row
<1>6. TypeOK'
  BY <1>1, <1>4, <1>5 DEF IInv, TypeOK
<1>7. Fresh'
  BY <1>1, <1>4 DEF IInv, Fresh
<1>8. Resetting'
  BY <1>1, <1>4 DEF IInv, Resetting
<1>9. ~Listed(i)' /\ Kept(i)'
  BY <1>4, <1>5 DEF Listed, Kept
<1>10. data' \in [Ids -> 0..MaxRuns] /\ committed' \subseteq Ids
  BY <1>1 DEF IInv, TypeOK
<1>11. /\ ~crossed => Condemned'
       /\ ~crossed => \A k \in Ids \ {i} : row'[k].status = "active" /\ row'[k].stored => Kept(k)'
       /\ ~crossed => \A k \in committed' \ {i} :
                        Listed(k)' => Kept(k)' \/ \E j \in Janitors : Marks(j, k)'
       /\ \A k \in Ids \ {i} : Listed(k)' => \/ data'[k] = row'[k].serial
                                             \/ k \in committed'
                                             \/ \E j \in Janitors : Marks(j, k)'
                                             \/ row'[k].serial \in unsettled'
                                             \/ crossed'
  BY <1>1, <1>4, <1>5, <1>10, RunStep
<1>12. ~crossed => Uploaded' /\ Committing'
  BY <1>9, <1>11 DEF Uploaded, Committing
<1>13. ListedIsThere'
  BY <1>9, <1>11 DEF ListedIsThere
<1> QED
  BY <1>1, <1>6, <1>7, <1>8, <1>11, <1>12, <1>13 DEF IInv

\* The row says success: from now on the dump is offered, and its file still to be put in place.
LEMMA FinishStep ==
  ASSUME IInv, NEW i \in Ids, finUpdateRow(i), expired \subseteq expired' PROVE IInv'
<1>1. /\ row[i].status = "active" /\ committed' = committed \cup {i}
      /\ row' = [row EXCEPT ![i] = [row[i] EXCEPT !.status = "success", !.ended = now]]
      /\ UNCHANGED <<data, part, seq, policy, now, janitor, finished, reset, born, unsettled,
                     crossed>>
  BY DEF finUpdateRow
<1>2. row[i] \in Row /\ now \in Days
  BY DEF IInv, TypeOK
<1>3. [row[i] EXCEPT !.status = "success", !.ended = now] \in Row
  BY <1>2 DEF Row
<1>4. /\ row' \in [Ids -> Row] /\ \A k \in Ids \ {i} : row'[k] = row[k]
      /\ row'[i].status = "success" /\ row'[i].serial = row[i].serial
      /\ (row'[i].stored <=> row[i].stored)
  BY <1>1, <1>2, <1>3 DEF IInv, TypeOK, Row
<1>5. TypeOK'
  BY <1>1, <1>4 DEF IInv, TypeOK
<1>6. Fresh'
  BY <1>1, <1>4 DEF IInv, Fresh
<1>7. Resetting'
  BY <1>1, <1>4 DEF IInv, Resetting
<1>8. ~crossed => (Listed(i)' => Kept(i)')
  BY <1>1, <1>4 DEF IInv, Uploaded, Listed, Kept
<1>9. /\ data' \in [Ids -> 0..MaxRuns] /\ part' \in [Ids -> 0..MaxRuns] /\ committed' \subseteq Ids
  BY <1>1 DEF IInv, TypeOK
<1>10. /\ ~crossed => Condemned'
       /\ ~crossed => \A k \in Ids \ {i} : row'[k].status = "active" /\ row'[k].stored => Kept(k)'
       /\ ~crossed => \A k \in committed' \ {i} :
                        Listed(k)' => Kept(k)' \/ \E j \in Janitors : Marks(j, k)'
       /\ \A k \in Ids \ {i} : Listed(k)' => \/ data'[k] = row'[k].serial
                                             \/ k \in committed'
                                             \/ \E j \in Janitors : Marks(j, k)'
                                             \/ row'[k].serial \in unsettled'
                                             \/ crossed'
  BY <1>1, <1>4, <1>9, RunStep
<1>11. ~crossed => Uploaded'
  BY <1>4, <1>10 DEF Uploaded
<1>12. ~crossed => Committing'
  BY <1>8, <1>10 DEF Committing
<1>13. ListedIsThere'
  BY <1>1, <1>10 DEF ListedIsThere
<1> QED
  BY <1>1, <1>5, <1>6, <1>7, <1>10, <1>11, <1>12, <1>13 DEF IInv

LEMMA CommitStep ==
  ASSUME IInv, NEW i \in Ids, commitData(i), expired \subseteq expired' PROVE IInv'
<1>1. /\ i \in committed /\ committed' = committed \ {i} /\ finished' = finished \cup {i}
      /\ data' = IF part[i] = 0 THEN data ELSE [data EXCEPT ![i] = part[i]]
      /\ part' = [part EXCEPT ![i] = 0]
      /\ UNCHANGED <<row, seq, policy, now, janitor, reset, born, unsettled, crossed>>
  BY DEF commitData
<1>2. /\ data' \in [Ids -> 0..MaxRuns] /\ \A k \in Ids \ {i} : data'[k] = data[k]
      /\ data'[i] = IF part[i] = 0 THEN data[i] ELSE part[i]
  BY <1>1 DEF IInv, TypeOK
<1>3. /\ part' \in [Ids -> 0..MaxRuns] /\ \A k \in Ids \ {i} : part'[k] = part[k]
      /\ part'[i] = 0
  BY <1>1 DEF IInv, TypeOK
<1>4. TypeOK'
  BY <1>1, <1>2, <1>3 DEF IInv, TypeOK
<1>5. Fresh' /\ Resetting'
  BY <1>1 DEF IInv, Fresh, Resetting
<1>6. committed' \subseteq Ids /\ row' \in [Ids -> Row]
  BY <1>1 DEF IInv, TypeOK
<1>7. /\ ~crossed => Condemned'
      /\ ~crossed => \A k \in Ids \ {i} : row'[k].status = "active" /\ row'[k].stored => Kept(k)'
      /\ ~crossed => \A k \in committed' \ {i} :
                       Listed(k)' => Kept(k)' \/ \E j \in Janitors : Marks(j, k)'
      /\ \A k \in Ids \ {i} : Listed(k)' => \/ data'[k] = row'[k].serial
                                            \/ k \in committed'
                                            \/ \E j \in Janitors : Marks(j, k)'
                                            \/ row'[k].serial \in unsettled'
                                            \/ crossed'
  BY <1>1, <1>2, <1>3, <1>6, RunStep
<1>8. row[i].status # "none" /\ Kept(i) => data'[i] = row[i].serial \/ row[i].serial \in unsettled
  <2>1. CASE part[i] = 0
    BY <1>2, <2>1 DEF IInv, TypeOK, Fresh, Kept
  <2>2. CASE part[i] # 0
    BY <1>2, <2>2 DEF Kept
  <2> QED
    BY <2>1, <2>2
<1>9. row[i].status # "none" /\ Kept(i) => Kept(i)'
  BY <1>1, <1>3, <1>8 DEF Kept
<1>10. ~crossed => Uploaded'
  BY <1>1, <1>7, <1>9 DEF IInv, Uploaded
<1>11. ~crossed => Committing'
  BY <1>1, <1>7 DEF Committing
<1>12. \A j \in Janitors : Marks(j, i)' <=> Marks(j, i)
  BY <1>1 DEF Marks, IsNewest
<1>13. Listed(i)' => \/ data'[i] = row'[i].serial
                     \/ \E j \in Janitors : Marks(j, i)'
                     \/ row'[i].serial \in unsettled'
                     \/ crossed'
  BY <1>1, <1>8, <1>12 DEF IInv, Committing, Listed
<1>14. ListedIsThere'
  BY <1>7, <1>13 DEF ListedIsThere
<1> QED
  BY <1>1, <1>4, <1>5, <1>7, <1>10, <1>11, <1>14 DEF IInv

LEMMA FailStep ==
  ASSUME IInv, NEW i \in Ids, finFails(i), expired \subseteq expired' PROVE IInv'
<1>1. /\ row[i].status = "active" /\ part' = [part EXCEPT ![i] = 0]
      /\ row' = [row EXCEPT ![i] = [row[i] EXCEPT !.status = "over", !.ended = now]]
      /\ UNCHANGED <<data, seq, policy, now, janitor, committed, finished, reset, born, unsettled,
                     crossed>>
  BY DEF finFails
<1>2. row[i] \in Row /\ now \in Days
  BY DEF IInv, TypeOK
<1>3. [row[i] EXCEPT !.status = "over", !.ended = now] \in Row
  BY <1>2 DEF Row
<1>4. /\ row' \in [Ids -> Row] /\ \A k \in Ids \ {i} : row'[k] = row[k]
      /\ row'[i].status = "over" /\ row'[i].serial = row[i].serial
  BY <1>1, <1>2, <1>3 DEF IInv, TypeOK, Row
<1>5. part' \in [Ids -> 0..MaxRuns] /\ \A k \in Ids \ {i} : part'[k] = part[k]
  BY <1>1 DEF IInv, TypeOK
<1>6. TypeOK'
  BY <1>1, <1>4, <1>5 DEF IInv, TypeOK
<1>7. Fresh'
  BY <1>1, <1>4 DEF IInv, Fresh
<1>8. Resetting'
  BY <1>1, <1>4 DEF IInv, Resetting
<1>9. ~Listed(i)'
  BY <1>4 DEF Listed
<1>10. data' \in [Ids -> 0..MaxRuns] /\ committed' \subseteq Ids
  BY <1>1 DEF IInv, TypeOK
<1>11. /\ ~crossed => Condemned'
       /\ ~crossed => \A k \in Ids \ {i} : row'[k].status = "active" /\ row'[k].stored => Kept(k)'
       /\ ~crossed => \A k \in committed' \ {i} :
                        Listed(k)' => Kept(k)' \/ \E j \in Janitors : Marks(j, k)'
       /\ \A k \in Ids \ {i} : Listed(k)' => \/ data'[k] = row'[k].serial
                                             \/ k \in committed'
                                             \/ \E j \in Janitors : Marks(j, k)'
                                             \/ row'[k].serial \in unsettled'
                                             \/ crossed'
  BY <1>1, <1>4, <1>5, <1>10, RunStep
<1>12. ~crossed => Uploaded' /\ Committing'
  BY <1>4, <1>9, <1>11 DEF Uploaded, Committing
<1>13. ListedIsThere'
  BY <1>9, <1>11 DEF ListedIsThere
<1> QED
  BY <1>1, <1>6, <1>7, <1>8, <1>11, <1>12, <1>13 DEF IInv
-----------------------------------------------------------------------------
(* The janitors.                                                             *)

\* What is prunable under a retention is what the retention does not keep.
LEMMA PrunableIsOutside ==
  ASSUME TypeOK, NEW p \in Policy, NEW i \in PrunableDumps(p)
  PROVE  i \in Ids /\ Listed(i) /\ ~Retained(i, p)
<1> DEFINE newer == {k \in Ids : Listed(k) /\ k > i}
           upto == {k \in Ids : Listed(k) /\ k >= i}
<1>1. /\ i \in Ids /\ Listed(i) /\ ~KeepsAll(p)
      /\ ~(p.last > 0 /\ Cardinality(newer) < p.last)
      /\ ~(p.days > 0 /\ row[i].ended > now - p.days)
  BY DEF PrunableDumps, Place
<1>2. p.last \in Nat /\ p.days \in Nat /\ row[i].ended \in Int /\ now \in Int
  BY <1>1 DEF Policy, TypeOK, Row
<1>3. ~(p.last = 0 /\ p.days = 0)
  BY <1>1, <1>2 DEF KeepsAll
<1>4. IsFiniteSet(Ids)
  BY FS_Interval
<1>5. newer \in SUBSET Ids
  OBVIOUS
<1>6. IsFiniteSet(newer) /\ Cardinality(newer) \in Nat
  <2>1. IsFiniteSet(newer)
    BY <1>4, <1>5, FS_Subset
  <2> QED
    BY <2>1, FS_CardinalityType
<1>7. upto = newer \cup {i}
  BY <1>1
<1>8. i \notin newer
  BY <1>1
<1> HIDE DEF newer
<1>9. Cardinality(newer \cup {i}) = Cardinality(newer) + 1
  BY <1>6, <1>8, FS_AddElement
<1>10. Cardinality(upto) = Cardinality(newer) + 1
  BY <1>7, <1>9
<1> HIDE DEF upto
<1>11. ~(Cardinality(upto) <= p.last)
  BY <1>1, <1>2, <1>3, <1>6, <1>10
<1>12. ~(p.days > 0 /\ now < row[i].ended + p.days)
  BY <1>1, <1>2
<1> QED
  BY <1>1, <1>3, <1>11, <1>12 DEF Retained, upto

\* A step of one janitor: the others go on marking what they mark.
LEMMA JanitorStep ==
  ASSUME IInv, NEW j \in Janitors, NEW state \in JanitorState,
         janitor' = [janitor EXCEPT ![j] = state],
         state.pc \in {"remove", "mark"} <=> state.list # {},
         UNCHANGED <<now, policy, seq, committed, reset, born, crossed>>,
         row' \in [Ids -> Row],
         \A i \in Ids : /\ row'[i].status = row[i].status /\ row'[i].serial = row[i].serial
                        /\ (row'[i].stored <=> row[i].stored),
         data' \in [Ids -> 0..MaxRuns], part' \in [Ids -> 0..MaxRuns], finished' \subseteq Ids,
         expired \subseteq expired', unsettled \subseteq unsettled',
         ~crossed => \A i \in state.list : row[i].status = "success" /\ row[i].serial \in expired'
  PROVE  /\ TypeOK' /\ Fresh' /\ Resetting' /\ (~crossed => Condemned')
         /\ \A k \in Janitors \ {j}, i \in Ids : Marks(k, i)' <=> Marks(k, i)
         /\ \A i \in Ids : Marks(j, i)' <=> state.pc = "mark" /\ i \in state.list
                                            /\ \A k \in state.list : k <= i
<1>1. /\ janitor' \in [Janitors -> JanitorState] /\ janitor'[j] = state
      /\ \A k \in Janitors \ {j} : janitor'[k] = janitor[k]
  BY DEF IInv, TypeOK
<1>2. TypeOK'
  BY <1>1 DEF IInv, TypeOK
<1>3. Fresh' /\ Resetting'
  BY DEF IInv, Fresh, Resetting
<1>4. ~crossed => Condemned'
  <2> SUFFICES ASSUME ~crossed, NEW k \in Janitors, NEW i \in janitor'[k].list
               PROVE  row'[i].status = "success" /\ row'[i].serial \in expired'
    BY DEF Condemned
  <2>1. i \in Ids
    BY <1>1 DEF JanitorState
  <2>2. CASE k = j
    BY <1>1, <2>1, <2>2
  <2>3. CASE k # j
    BY <1>1, <2>1, <2>3 DEF IInv, Condemned
  <2> QED
    BY <2>2, <2>3
<1>5. \A k \in Janitors \ {j}, i \in Ids : Marks(k, i)' <=> Marks(k, i)
  BY <1>1 DEF Marks, IsNewest
<1>6. \A i \in Ids : Marks(j, i)' <=> state.pc = "mark" /\ i \in state.list
                                      /\ \A k \in state.list : k <= i
  BY <1>1 DEF Marks, IsNewest
<1> QED
  BY <1>2, <1>3, <1>4, <1>5, <1>6

\* A janitor that marks nothing, before and after, and touches neither rows nor files.
LEMMA QuietJanitorStep ==
  ASSUME IInv, NEW j \in Janitors, NEW state \in JanitorState,
         janitor' = [janitor EXCEPT ![j] = state], janitor[j].pc # "mark", state.pc # "mark",
         state.pc \in {"remove", "mark"} <=> state.list # {},
         UNCHANGED <<db, disk, now, committed, reset, born, crossed>>,
         finished' \subseteq Ids, expired \subseteq expired', unsettled \subseteq unsettled',
         ~crossed => \A i \in state.list : row[i].status = "success" /\ row[i].serial \in expired'
  PROVE  IInv'
<1>1. /\ row' \in [Ids -> Row] /\ data' \in [Ids -> 0..MaxRuns] /\ part' \in [Ids -> 0..MaxRuns]
  BY DEF IInv, TypeOK
<1>2. /\ TypeOK' /\ Fresh' /\ Resetting' /\ (~crossed => Condemned')
      /\ \A k \in Janitors \ {j}, i \in Ids : Marks(k, i)' <=> Marks(k, i)
  BY <1>1, JanitorStep
<1>3. \A k \in Janitors, i \in Ids : Marks(k, i) => Marks(k, i)'
  BY <1>2 DEF Marks
<1>4. \A i \in Ids : (Listed(i)' <=> Listed(i)) /\ (Kept(i) => Kept(i)')
  BY DEF Listed, Kept
<1>5. ~crossed => Uploaded'
  BY <1>4 DEF IInv, Uploaded
<1>6. ~crossed => Committing'
  BY <1>3, <1>4 DEF IInv, TypeOK, Committing
<1>7. ListedIsThere'
  BY <1>3, <1>4 DEF IInv, ListedIsThere
<1> QED
  BY <1>2, <1>5, <1>6, <1>7 DEF IInv

LEMMA BeginsStep ==
  ASSUME IInv, expired \subseteq expired',
         sweepDumps \/ \E h \in Hooks, i \in Ids : pruneDumpsForRun(h, i)
  PROVE  IInv'
<1> DEFINE state == [pc |-> "list", policy |-> policy, list |-> {}]
<1>1. PICK j \in Janitors :
        /\ janitor[j].pc = "idle"
        /\ janitor' = [janitor EXCEPT ![j] = state] \/ janitor' = janitor
        /\ finished' \subseteq finished
        /\ UNCHANGED <<db, disk, now, committed, reset, count, hist>>
  BY DEF sweepDumps, pruneDumpsForRun, Becomes, Janitors
<1>2. state \in JanitorState /\ janitor[j] \in JanitorState /\ finished' \subseteq Ids
  BY <1>1 DEF IInv, TypeOK, JanitorState, Policy
<1>3. state.pc = "list" /\ state.list = {}
  OBVIOUS
<1> HIDE DEF state
<1>4. CASE janitor' = [janitor EXCEPT ![j] = state]
  BY <1>1, <1>2, <1>3, <1>4, QuietJanitorStep
<1>5. CASE janitor' = janitor
  <2>1. janitor' = [janitor EXCEPT ![j] = janitor[j]] /\ janitor[j].list = {}
    BY <1>1, <1>5 DEF IInv, TypeOK
  <2> QED
    BY <1>1, <1>2, <2>1, QuietJanitorStep
<1> QED
  BY <1>1, <1>4, <1>5

\* What is listed is outside the retention the janitor has read, at the moment it is listed.
LEMMA ListsStep ==
  ASSUME IInv, NEW j \in Janitors, lists(j), expired' = expired \cup Outside' PROVE IInv'
<1>0. PICK p : p = janitor[j].policy
  OBVIOUS
<1> DEFINE found == PrunableDumps(p)
           state == IF found = {} THEN Idle ELSE [pc |-> "remove", policy |-> p, list |-> found]
<1>1. /\ janitor[j].pc = "list" /\ janitor' = [janitor EXCEPT ![j] = state]
      /\ UNCHANGED <<db, disk, now, committed, finished, reset, count, hist>>
  BY <1>0 DEF lists, Becomes
<1>2. p \in Policy /\ janitor[j] \in JanitorState
  BY <1>0 DEF IInv, TypeOK, JanitorState
<1>3. \A i \in found : i \in Ids /\ Listed(i) /\ ~Retained(i, p)
  BY <1>2, PrunableIsOutside DEF IInv
<1>4. state \in JanitorState /\ (state.pc \in {"remove", "mark"} <=> state.list # {})
      /\ state.pc # "mark" /\ state.list = found
  <2>1. CASE found = {}
    BY <2>1 DEF Idle, JanitorState, Policy
  <2>2. CASE found # {}
    <3>1. found \in SUBSET Ids
      BY <1>3
    <3> QED
      BY <1>2, <2>2, <3>1 DEF JanitorState
  <2> QED
    BY <2>1, <2>2
<1>5. janitor'[j] = state
  BY <1>1 DEF IInv, TypeOK
<1>6. ASSUME NEW i \in found PROVE row[i].status = "success" /\ row[i].serial \in expired'
  <2>1. found # {} /\ janitor'[j].pc # "idle" /\ janitor'[j].policy = p
    BY <1>5, <1>6
  <2>2. p \in InUse'
    BY <2>1 DEF InUse
  <2>3. i \in Ids /\ Listed(i)' /\ row' = row
    BY <1>1, <1>3 DEF Listed
  <2>4. Retained(i, p)' => Retained(i, p)
    BY <1>1 DEF Retained, Listed
  <2>5. row'[i].serial \in Outside'
    <3>1. Listed(i)' /\ \E q \in InUse' : ~Retained(i, q)'
      BY <1>3, <2>2, <2>3, <2>4
    <3> QED
      BY <2>3, <3>1 DEF Outside
  <2> QED
    BY <2>3, <2>5 DEF Listed
<1> HIDE DEF state, found
<1>7. finished' \subseteq Ids /\ expired \subseteq expired'
  BY <1>1 DEF IInv, TypeOK
<1> QED
  BY <1>1, <1>4, <1>6, <1>7, QuietJanitorStep

\* The janitor's next state once it is through with a dump.
LEMMA PassesTo ==
  ASSUME IInv, NEW j \in Janitors, NEW i \in Ids, Passes(j, i),
         ~crossed => \A k \in janitor[j].list : row[k].status = "success" /\ row[k].serial \in expired
  PROVE  \E state \in JanitorState :
           /\ janitor' = [janitor EXCEPT ![j] = state] /\ state.pc # "mark"
           /\ (state.pc \in {"remove", "mark"} <=> state.list # {})
           /\ state.list \subseteq janitor[j].list
<1> DEFINE rest == janitor[j].list \ {i}
           state == IF rest = {} THEN Idle
                    ELSE [pc |-> "remove", policy |-> janitor[j].policy, list |-> rest]
<1>1. janitor' = [janitor EXCEPT ![j] = state]
  BY DEF Passes, Becomes
<1>2. janitor[j].policy \in Policy /\ rest \in SUBSET Ids
  BY DEF IInv, TypeOK, JanitorState
<1>3. CASE rest = {}
  <2>1. Idle \in JanitorState /\ Idle.pc = "idle" /\ Idle.list = {}
    BY DEF Idle, JanitorState, Policy
  <2>2. janitor' = [janitor EXCEPT ![j] = Idle]
    BY <1>1, <1>3
  <2> QED
    BY <2>1, <2>2
<1>4. CASE rest # {}
  <2>1. state = [pc |-> "remove", policy |-> janitor[j].policy, list |-> rest]
    BY <1>4
  <2>2. state \in JanitorState
    BY <1>2, <2>1 DEF JanitorState
  <2> QED
    BY <1>1, <1>4, <2>1, <2>2
<1> QED
  BY <1>3, <1>4

LEMMA RemoveStep ==
  ASSUME IInv, NEW j \in Janitors, NEW i \in Ids, removeData(j, i), expired \subseteq expired'
  PROVE  IInv'
<1>1. /\ janitor[j].pc = "remove" /\ i \in janitor[j].list /\ \A k \in janitor[j].list : k <= i
      /\ UNCHANGED <<db, now, committed, finished, reset, count, hist>>
  BY DEF removeData, IsNewest
<1>2. ~crossed => \A k \in janitor[j].list : row[k].status = "success" /\ row[k].serial \in expired
  BY DEF IInv, Condemned
<1>3. finished' \subseteq Ids
  BY <1>1 DEF IInv, TypeOK
<1>4. CASE row[i].status = "none"
  <2>1. Passes(j, i) /\ UNCHANGED disk
    BY <1>4 DEF removeData
  <2>2. PICK state \in JanitorState :
           /\ janitor' = [janitor EXCEPT ![j] = state] /\ state.pc # "mark"
           /\ (state.pc \in {"remove", "mark"} <=> state.list # {})
           /\ state.list \subseteq janitor[j].list
    BY <1>2, <2>1, PassesTo
  <2>3. ~crossed => \A k \in state.list : row[k].status = "success" /\ row[k].serial \in expired'
    BY <1>2, <2>2
  <2> QED
    BY <1>1, <1>3, <2>1, <2>2, <2>3, QuietJanitorStep
<1>5. CASE row[i].status # "none"
  <2> DEFINE state == [pc |-> "mark", policy |-> janitor[j].policy, list |-> janitor[j].list]
  <2>1. /\ janitor' = [janitor EXCEPT ![j] = state]
        /\ data' = [data EXCEPT ![i] = 0] /\ part' = [part EXCEPT ![i] = 0]
    BY <1>5 DEF removeData, Becomes
  <2>2. state \in JanitorState /\ state.pc = "mark" /\ state.list = janitor[j].list
    BY DEF IInv, TypeOK, JanitorState
  <2> HIDE DEF state
  <2>3. /\ row' \in [Ids -> Row] /\ row' = row
        /\ data' \in [Ids -> 0..MaxRuns] /\ \A k \in Ids \ {i} : data'[k] = data[k]
        /\ part' \in [Ids -> 0..MaxRuns] /\ \A k \in Ids \ {i} : part'[k] = part[k]
    BY <1>1, <2>1 DEF IInv, TypeOK
  <2>4. ~crossed => \A k \in state.list : row[k].status = "success" /\ row[k].serial \in expired'
    BY <1>2, <2>2
  <2>5. /\ TypeOK' /\ Fresh' /\ Resetting' /\ (~crossed => Condemned')
        /\ \A k \in Janitors \ {j}, m \in Ids : Marks(k, m)' <=> Marks(k, m)
        /\ Marks(j, i)'
    BY <1>1, <1>3, <2>1, <2>2, <2>3, <2>4, JanitorStep
  <2>6. \A k \in Janitors, m \in Ids : Marks(k, m) => Marks(k, m)'
    BY <1>1, <2>5 DEF Marks
  <2>7. \A k \in Ids \ {i} : (Listed(k)' <=> Listed(k)) /\ (Kept(k) => Kept(k)')
    BY <1>1, <2>3 DEF Listed, Kept
  <2>8. ~crossed => Uploaded'
    BY <1>1, <1>2, <2>3, <2>7 DEF IInv, Uploaded
  <2>9. ~crossed => Committing'
    <3> SUFFICES ASSUME ~crossed, NEW k \in committed, Listed(k)'
                 PROVE  Kept(k)' \/ \E m \in Janitors : Marks(m, k)'
      BY <1>1 DEF Committing
    <3>1. CASE k = i
      BY <2>5, <3>1
    <3>2. CASE k # i
      <4>1. k \in Ids /\ Listed(k) /\ (Kept(k) => Kept(k)')
        BY <2>7, <3>2 DEF IInv, TypeOK
      <4> QED
        BY <2>6, <4>1 DEF IInv, Committing
    <3> QED
      BY <3>1, <3>2
  <2>10. ListedIsThere'
    BY <1>1, <2>3, <2>5, <2>6, <2>7 DEF IInv, ListedIsThere
  <2> QED
    BY <1>1, <2>5, <2>8, <2>9, <2>10 DEF IInv
<1> QED
  BY <1>4, <1>5

LEMMA MarkStep ==
  ASSUME IInv, NEW j \in Janitors, NEW i \in Ids, markPruned(j, i), expired \subseteq expired'
  PROVE  IInv'
<1>1. /\ Marks(j, i) /\ Passes(j, i)
      /\ row' = IF row[i].status = "none" THEN row ELSE [row EXCEPT ![i] = [row[i] EXCEPT !.pruned = TRUE]]
      /\ UNCHANGED <<seq, policy, disk, now, committed, finished, reset, count, hist>>
  BY DEF markPruned, Marks
<1>2. ~crossed => \A k \in janitor[j].list : row[k].status = "success" /\ row[k].serial \in expired
  BY DEF IInv, Condemned
<1>3. PICK state \in JanitorState :
         /\ janitor' = [janitor EXCEPT ![j] = state] /\ state.pc # "mark"
         /\ (state.pc \in {"remove", "mark"} <=> state.list # {})
         /\ state.list \subseteq janitor[j].list
  BY <1>1, <1>2, PassesTo
<1>4. row[i] \in Row
  BY DEF IInv, TypeOK
<1>5. [row[i] EXCEPT !.pruned = TRUE] \in Row
  BY <1>4 DEF Row
<1>6. /\ row' \in [Ids -> Row] /\ \A k \in Ids \ {i} : row'[k] = row[k]
      /\ \A k \in Ids : /\ row'[k].status = row[k].status /\ row'[k].serial = row[k].serial
                        /\ (row'[k].stored <=> row[k].stored)
  <2>1. CASE row[i].status = "none"
    BY <1>1, <2>1 DEF IInv, TypeOK
  <2>2. CASE row[i].status # "none"
    BY <1>1, <1>4, <1>5, <2>2 DEF IInv, TypeOK, Row
  <2> QED
    BY <2>1, <2>2
<1>7. ~Listed(i)'
  <2>1. CASE row[i].status = "none"
    BY <1>1, <2>1 DEF Listed
  <2>2. CASE row[i].status # "none"
    BY <1>1, <1>4, <2>2 DEF IInv, TypeOK, Row, Listed
  <2> QED
    BY <2>1, <2>2
<1>8. /\ data' \in [Ids -> 0..MaxRuns] /\ part' \in [Ids -> 0..MaxRuns] /\ finished' \subseteq Ids
  BY <1>1 DEF IInv, TypeOK
<1>9. ~crossed => \A k \in state.list : row[k].status = "success" /\ row[k].serial \in expired'
  BY <1>2, <1>3
<1>10. /\ TypeOK' /\ Fresh' /\ Resetting' /\ (~crossed => Condemned')
       /\ \A k \in Janitors \ {j}, m \in Ids : Marks(k, m)' <=> Marks(k, m)
  BY <1>1, <1>3, <1>6, <1>8, <1>9, JanitorStep
<1>11. \A m \in Ids : Marks(j, m) => m = i
  BY <1>1 DEF Marks, IsNewest
<1>12. \A k \in Ids \ {i}, m \in Janitors : Marks(m, k) => Marks(m, k)'
  BY <1>10, <1>11
<1>13. \A k \in Ids : Kept(k) => Kept(k)'
  BY <1>1, <1>6 DEF Kept
<1>14. \A k \in Ids \ {i} : Listed(k)' <=> Listed(k)
  BY <1>6 DEF Listed
<1>15. ~crossed => Uploaded'
  BY <1>6, <1>13 DEF IInv, Uploaded
<1>16. ~crossed => Committing'
  <2> SUFFICES ASSUME ~crossed, NEW k \in committed, Listed(k)'
               PROVE  Kept(k)' \/ \E m \in Janitors : Marks(m, k)'
    BY <1>1 DEF Committing
  <2>1. k \in Ids \ {i} /\ Listed(k)
    BY <1>7, <1>14 DEF IInv, TypeOK
  <2> QED
    BY <2>1, <1>12, <1>13 DEF IInv, Committing
<1>17. ListedIsThere'
  <2> SUFFICES ASSUME NEW k \in Ids, Listed(k)'
               PROVE  \/ data'[k] = row'[k].serial \/ k \in committed'
                      \/ \E m \in Janitors : Marks(m, k)'
                      \/ row'[k].serial \in unsettled' \/ crossed'
    BY DEF ListedIsThere
  <2>1. k \in Ids \ {i} /\ Listed(k)
    BY <1>7, <1>14
  <2> QED
    BY <1>1, <1>6, <1>12, <2>1 DEF IInv, ListedIsThere
<1> QED
  BY <1>1, <1>10, <1>15, <1>16, <1>17 DEF IInv

LEMMA DeleteFailsStep ==
  ASSUME IInv, NEW j \in Janitors, NEW i \in Ids, deleteFails(j, i), expired \subseteq expired'
  PROVE  IInv'
<1>1. /\ janitor[j].pc \in {"remove", "mark"} /\ IsNewest(j, i) /\ Passes(j, i)
      /\ unsettled' = IF janitor[j].pc = "mark" THEN unsettled \cup {row[i].serial} ELSE unsettled
      /\ UNCHANGED <<db, disk, now, committed, finished, reset, born, resets, crossed>>
  BY DEF deleteFails
<1>2. ~crossed => \A k \in janitor[j].list : row[k].status = "success" /\ row[k].serial \in expired
  BY DEF IInv, Condemned
<1>3. PICK state \in JanitorState :
         /\ janitor' = [janitor EXCEPT ![j] = state] /\ state.pc # "mark"
         /\ (state.pc \in {"remove", "mark"} <=> state.list # {})
         /\ state.list \subseteq janitor[j].list
  BY <1>1, <1>2, PassesTo
<1>4. /\ row' \in [Ids -> Row] /\ data' \in [Ids -> 0..MaxRuns] /\ part' \in [Ids -> 0..MaxRuns]
      /\ finished' \subseteq Ids
  BY <1>1 DEF IInv, TypeOK
<1>5. ~crossed => \A k \in state.list : row[k].status = "success" /\ row[k].serial \in expired'
  BY <1>2, <1>3
<1>6. /\ TypeOK' /\ Fresh' /\ Resetting' /\ (~crossed => Condemned')
      /\ \A k \in Janitors \ {j}, m \in Ids : Marks(k, m)' <=> Marks(k, m)
  BY <1>1, <1>3, <1>4, <1>5, JanitorStep
<1>7. \A m \in Ids : Marks(j, m) => row[m].serial \in unsettled'
  BY <1>1 DEF Marks, IsNewest
<1>8. \A m \in Janitors, k \in Ids : Marks(m, k) => Marks(m, k)' \/ row[k].serial \in unsettled'
  BY <1>6, <1>7
<1>9. \A k \in Ids : (Listed(k)' <=> Listed(k)) /\ (Kept(k) => Kept(k)')
  BY <1>1 DEF Listed, Kept
<1>10. ~crossed => Uploaded'
  BY <1>1, <1>9 DEF IInv, Uploaded
<1>11. ~crossed => Committing'
  <2> SUFFICES ASSUME ~crossed, NEW k \in committed, Listed(k)'
               PROVE  Kept(k)' \/ \E m \in Janitors : Marks(m, k)'
    BY <1>1 DEF Committing
  <2>1. k \in Ids /\ Listed(k)
    BY <1>9 DEF IInv, TypeOK
  <2>2. row[k].serial \in unsettled' => Kept(k)'
    BY <1>1 DEF Kept
  <2> QED
    BY <2>1, <2>2, <1>8, <1>9 DEF IInv, Committing
<1>12. ListedIsThere'
  <2> SUFFICES ASSUME NEW k \in Ids, Listed(k)'
               PROVE  \/ data'[k] = row'[k].serial \/ k \in committed'
                      \/ \E m \in Janitors : Marks(m, k)'
                      \/ row'[k].serial \in unsettled' \/ crossed'
    BY DEF ListedIsThere
  <2>1. Listed(k)
    BY <1>9
  <2> QED
    BY <1>1, <1>8, <2>1 DEF IInv, ListedIsThere
<1> QED
  BY <1>1, <1>6, <1>10, <1>11, <1>12 DEF IInv
-----------------------------------------------------------------------------
(* The operator and the server.                                              *)

\* Where rows, files and janitors stay, so does the rest.
LEMMA StillStep ==
  ASSUME IInv, UNCHANGED <<row, data, part, janitor, committed, crossed>>,
         seq' = seq, born' = born, policy' \in Policies, now' \in Days, finished' \subseteq Ids,
         reset' \in {"idle", "rows", "files"}, Resetting',
         expired \subseteq expired', unsettled' = unsettled
  PROVE  IInv'
<1>1. TypeOK'
  BY DEF IInv, TypeOK
<1>2. Fresh' /\ (~crossed => Condemned')
  BY DEF IInv, Fresh, Condemned
<1>3. \A j \in Janitors, k \in Ids : Marks(j, k)' <=> Marks(j, k)
  BY DEF Marks, IsNewest
<1>4. \A k \in Ids : (Listed(k)' <=> Listed(k)) /\ (Kept(k)' <=> Kept(k))
  BY DEF Listed, Kept
<1>5. ~crossed => Uploaded'
  BY <1>4 DEF IInv, Uploaded
<1>6. ~crossed => Committing'
  BY <1>3, <1>4 DEF IInv, TypeOK, Committing
<1>7. ListedIsThere'
  BY <1>3, <1>4 DEF IInv, ListedIsThere
<1> QED
  BY <1>1, <1>2, <1>5, <1>6, <1>7 DEF IInv

LEMMA OperatorStep ==
  ASSUME IInv, expired \subseteq expired',
         (\E p \in Policies : SaveInstance(p)) \/ tick \/ resetChecks
  PROVE  IInv'
<1>1. UNCHANGED <<row, data, part, janitor, committed, crossed, seq, born, finished, unsettled>>
  BY DEF SaveInstance, tick, resetChecks
<1>2. policy' \in Policies /\ now' \in Days /\ reset' \in {"idle", "rows", "files"}
  BY DEF SaveInstance, tick, resetChecks, IInv, TypeOK
<1>3. Resetting'
  <2>1. CASE resetChecks
    BY <2>1 DEF resetChecks, UnfinishedRuns, Resetting
  <2>2. CASE (\E p \in Policies : SaveInstance(p)) \/ tick
    <3>1. UNCHANGED <<row, reset, unsettled>>
      BY <2>2 DEF SaveInstance, tick
    <3> QED
      BY <3>1 DEF IInv, Resetting
  <2> QED
    BY <2>1, <2>2
<1>4. finished' \subseteq Ids
  BY <1>1 DEF IInv, TypeOK
<1> QED
  BY <1>1, <1>2, <1>3, <1>4, StillStep

LEMMA ResetRowsStep == ASSUME IInv, resetRows PROVE IInv'
<1>1. /\ reset' = "files" /\ row' = [i \in Ids |-> NoRow] /\ seq' = 0
      /\ UNCHANGED <<policy, disk, now, janitor, committed, finished, born>>
      /\ ~crossed' => ~crossed /\ \A j \in Janitors : janitor[j].pc = "idle"
  BY DEF resetRows
<1>2. row' \in [Ids -> Row] /\ \A i \in Ids : row'[i].status = "none"
  BY <1>1 DEF NoRow, Row
<1>3. TypeOK'
  <2>1. seq' \in 0..MaxId
    BY <1>1
  <2>2. /\ policy' \in Policies /\ data' \in [Ids -> 0..MaxRuns] /\ part' \in [Ids -> 0..MaxRuns]
        /\ now' \in Days /\ born' \in 0..MaxRuns /\ janitor' \in [Janitors -> JanitorState]
        /\ committed' \subseteq Ids /\ finished' \subseteq Ids
        /\ \A j \in Janitors : janitor'[j].pc \in {"remove", "mark"} <=> janitor'[j].list # {}
    BY <1>1 DEF IInv, TypeOK
  <2> QED
    BY <1>1, <1>2, <2>1, <2>2 DEF TypeOK
<1>4. Fresh' /\ Resetting'
  BY <1>1, <1>2 DEF Fresh, Resetting
<1>5. ~crossed' => Condemned'
  BY <1>1 DEF IInv, TypeOK, Condemned
<1>6. Uploaded' /\ Committing' /\ ListedIsThere'
  BY <1>1, <1>2 DEF IInv, TypeOK, Uploaded, Committing, ListedIsThere, Listed
<1> QED
  BY <1>3, <1>4, <1>5, <1>6 DEF IInv

\* The files of the old runs go; every run that is there by now is unsettled.
LEMMA ResetFilesStep ==
  ASSUME IInv, resetFiles \/ resetFails, expired \subseteq expired' PROVE IInv'
<1>1. /\ reset = "files" /\ reset' = "idle"
      /\ UNCHANGED <<db, now, janitor, committed, finished, born, unsettled, crossed>>
  BY DEF resetFiles, resetFails
<1>2. data' \in [Ids -> 0..MaxRuns] /\ part' \in [Ids -> 0..MaxRuns]
  <2>1. CASE resetFiles
    BY <2>1 DEF resetFiles
  <2>2. CASE resetFails
    <3>1. PICK gone \in SUBSET Ids :
            /\ data' = [i \in Ids |-> IF i \in gone THEN 0 ELSE data[i]]
            /\ part' = [i \in Ids |-> IF i \in gone THEN 0 ELSE part[i]]
      BY <2>2 DEF resetFails
    <3> QED
      BY <3>1 DEF IInv, TypeOK
  <2> QED
    BY <2>1, <2>2
<1>3. TypeOK'
  BY <1>1, <1>2 DEF IInv, TypeOK
<1>4. Fresh' /\ Resetting' /\ (~crossed => Condemned')
  BY <1>1 DEF IInv, Fresh, Resetting, Condemned
<1>5. \A i \in Ids : row'[i].status # "none" => row'[i].serial \in unsettled'
  BY <1>1 DEF IInv, Resetting
<1>6. Uploaded' /\ Committing' /\ ListedIsThere'
  BY <1>1, <1>5 DEF IInv, TypeOK, Uploaded, Committing, ListedIsThere, Listed, Kept
<1> QED
  BY <1>1, <1>3, <1>4, <1>6 DEF IInv

LEMMA RestartStep == ASSUME IInv, restarts, expired \subseteq expired' PROVE IInv'
<1>1. /\ janitor' = [j \in Janitors |-> Idle]
      /\ committed' = {} /\ finished' = {} /\ reset' = "idle"
      /\ UNCHANGED <<db, disk, now, born, crossed>>
  BY DEF restarts
<1>2. /\ unsettled \subseteq unsettled'
      /\ \A i \in committed : row[i].serial \in unsettled'
      /\ \A j \in Janitors, i \in Ids : Marks(j, i) => row[i].serial \in unsettled'
  BY DEF restarts
<1>3. janitor' \in [Janitors -> JanitorState] /\ \A j \in Janitors : janitor'[j].pc = "idle" /\ janitor'[j].list = {}
  BY <1>1 DEF Idle, JanitorState, Policy
<1>4. TypeOK'
  BY <1>1, <1>3 DEF IInv, TypeOK
<1>5. Fresh' /\ Resetting' /\ Condemned' /\ Committing'
  BY <1>1, <1>3 DEF IInv, Fresh, Resetting, Condemned, Committing
<1>6. ~crossed => Uploaded'
  BY <1>1, <1>2 DEF IInv, Uploaded, Kept
<1>7. ListedIsThere'
  BY <1>1, <1>2 DEF IInv, ListedIsThere, Listed
<1> QED
  BY <1>1, <1>4, <1>5, <1>6, <1>7 DEF IInv
-----------------------------------------------------------------------------
LEMMA StepIInv == IInv /\ [Next]_vars => IInv'
<1> SUFFICES ASSUME IInv, [Next]_vars PROVE IInv'
  OBVIOUS
<1>1. CASE Next
  <2>1. Step /\ expired' = expired \cup Outside'
    BY <1>1 DEF Next
  <2>2. expired \subseteq expired'
    BY <2>1
  <2>3. ASSUME NEW i \in Ids, uploads(i) \/ finUpdateRow(i) \/ commitData(i) \/ finFails(i)
        PROVE  IInv'
    BY <2>2, <2>3, UploadStep, FinishStep, CommitStep, FailStep
  <2>4. ASSUME NEW j \in Janitors,
               \/ lists(j)
               \/ \E i \in Ids : removeData(j, i) \/ markPruned(j, i) \/ deleteFails(j, i)
        PROVE  IInv'
    BY <2>1, <2>2, <2>4, ListsStep, RemoveStep, MarkStep, DeleteFailsStep
  <2>5. CASE sweepDumps \/ \E h \in Hooks, i \in Ids : pruneDumpsForRun(h, i)
    BY <2>2, <2>5, BeginsStep
  <2>6. CASE (\E p \in Policies : SaveInstance(p)) \/ tick \/ resetChecks
    BY <2>2, <2>6, OperatorStep
  <2> QED
    BY <2>1, <2>2, <2>3, <2>4, <2>5, <2>6, CreateStep, ResetRowsStep, ResetFilesStep, RestartStep
       DEF Step
<1>2. CASE UNCHANGED vars
  <2>1. /\ UNCHANGED <<row, data, part, janitor, committed, crossed, seq, born, policy, now,
                       finished, reset, unsettled>>
        /\ expired \subseteq expired'
    BY <1>2 DEF vars
  <2>2. Resetting'
    BY <2>1 DEF IInv, Resetting
  <2>3. /\ policy' \in Policies /\ now' \in Days /\ finished' \subseteq Ids
        /\ reset' \in {"idle", "rows", "files"}
    BY <2>1 DEF IInv, TypeOK
  <2> QED
    BY <2>1, <2>2, <2>3, StillStep
<1> QED
  BY <1>1, <1>2

\* Rows, files and janitors stay what the code makes of them.
THEOREM TypeCorrect == Spec => []TypeOK
<1>1. IInv => TypeOK
  BY DEF IInv
<1> QED
  BY InitIInv, StepIInv, <1>1, PTL DEF Spec

\* A dump that is offered for a restore is there: the order in which rows and files are written
\* and removed leaves no other moments than those the property names.
THEOREM ListedAlwaysThere == Spec => []ListedIsThere
<1>1. IInv => ListedIsThere
  BY DEF IInv
<1> QED
  BY InitIInv, StepIInv, <1>1, PTL DEF Spec

\* Only what a retention in use once did not keep is taken from the disk.
LEMMA GoesExpired ==
  ASSUME IInv, [Next]_vars, NEW i \in Ids,
         data[i] = row[i].serial, data'[i] = 0, ~crossed, row[i].serial # 0
  PROVE  data[i] \in expired \/ reset = "files"
<1>1. CASE UNCHANGED data
  BY <1>1
<1>2. ASSUME NEW k \in Ids, commitData(k) PROVE FALSE
  <2>1. data' = IF part[k] = 0 THEN data ELSE [data EXCEPT ![k] = part[k]]
    BY <1>2 DEF commitData
  <2> QED
    BY <2>1 DEF IInv, TypeOK
<1>3. ASSUME NEW j \in Janitors, NEW k \in Ids, removeData(j, k) PROVE data[i] \in expired
  <2>1. /\ k \in janitor[j].list
        /\ data' = data \/ data' = [data EXCEPT ![k] = 0]
    BY <1>3 DEF removeData, IsNewest
  <2>2. k = i
    BY <2>1 DEF IInv, TypeOK
  <2> QED
    BY <2>1, <2>2 DEF IInv, Condemned
<1>4. ASSUME resetFiles \/ resetFails PROVE reset = "files"
  BY <1>4 DEF resetFiles, resetFails
<1>5. ASSUME \/ CreateRun \/ sweepDumps \/ restarts \/ tick \/ resetChecks \/ resetRows
             \/ \E k \in Ids : uploads(k) \/ finUpdateRow(k) \/ finFails(k)
             \/ \E h \in Hooks, k \in Ids : pruneDumpsForRun(h, k)
             \/ \E j \in Janitors :
                  lists(j) \/ \E k \in Ids : markPruned(j, k) \/ deleteFails(j, k)
             \/ \E p \in Policies : SaveInstance(p)
      PROVE  UNCHANGED data
  BY <1>5 DEF CreateRun, sweepDumps, restarts, tick, resetChecks, resetRows, uploads, finUpdateRow,
     finFails, pruneDumpsForRun, lists, markPruned, deleteFails, SaveInstance
<1>6. CASE UNCHANGED vars
  BY <1>6, <1>1 DEF vars
<1> QED
  BY <1>1, <1>2, <1>3, <1>4, <1>5, <1>6 DEF Next, Step

THEOREM OnlyExpiredEverGo == Spec => OnlyExpiredGo
<1>1. IInv /\ [Next]_vars => [ExpiredGo]_vars
  BY GoesExpired DEF ExpiredGo
<1> QED
  BY InitIInv, StepIInv, <1>1, PTL DEF Spec, OnlyExpiredGo
=============================================================================
