--------------------------- MODULE EnrollmentProofs ---------------------------
(* Theorems about Enrollment, for every number of keys, decisions, renewals   *)
(* and faults.                                                                 *)
EXTENDS Enrollment, TLAPS

USE EnrollmentAssumption DEF EnrollmentAssumption, server, host, count, hist, Goes, Keys

\* No mishap has come between two steps that belong together.
Clean == mishaps \cap {"cut", "overtaken"} = {}

\* What is written next is there.
Parts ==
  /\ pc = "keyed" => file.key # 0
  /\ pc = "submit" => file.csr # 0
  /\ pc \in {"renewing", "renewed"} => fresh # 0

\* Keys are numbered as they are made.
Counters == file.key <= keys /\ file.csr <= keys /\ file.cert <= keys /\ fresh <= keys

Old ==
  /\ \A k \in revoked : k <= keys
  /\ row.status = "none" => revoked = {}

\* The phases of a host: it has no certificate and asks for none, it asks for one, it works
\* with one, it has half written the next.  In each, the server has nothing but that key.
Unasked == submits = {} /\ approvals = {} /\ row.csr = 0

Bare ==
  /\ Unasked /\ renewals = {} /\ row.cert = 0 /\ file.cert = 0
  /\ \/ pc = "start" /\ file.csr = 0
     \/ pc = "keyed" /\ file.csr = 0 /\ file.key \notin revoked
     \/ pc = "discard"
     \/ pc = "discarded" /\ file.key = 0

Enrolling ==
  /\ pc \in {"start", "submit", "sent", "poll"}
  /\ file.cert = 0 /\ file.key # 0 /\ file.csr = file.key /\ file.key \notin revoked
  /\ renewals = {} /\ submits \subseteq {file.key} /\ approvals \subseteq {file.key}
  /\ row.csr \in {0, file.key} /\ row.cert \in {0, file.key}
  /\ submits # {} => pc = "sent"
  /\ row.status = "approved" => approvals = {}

Working ==
  /\ pc \in {"start", "load", "cycle", "renewing", "tick"}
  /\ file.cert = file.key /\ file.key # 0
  /\ Unasked /\ row.cert \in {0, file.key}
  /\ row.status = "approved" => file.key \notin revoked
  /\ renewals \subseteq {fresh} /\ (renewals # {} => pc = "renewing")
  /\ pc = "renewing" => fresh # file.cert /\ fresh \notin revoked

Renewed ==
  /\ pc = "renewed" /\ file.key = fresh /\ file.cert \notin {0, fresh}
  /\ Unasked /\ renewals = {} /\ row.cert \in {0, fresh} /\ fresh \notin revoked

Phase == Bare \/ Enrolling \/ Working \/ Renewed
IInv == TypeOK /\ Parts /\ (Clean => Counters /\ Old /\ Phase)
-----------------------------------------------------------------------------
LEMMA InitIInv == Init => IInv
<1> SUFFICES ASSUME Init PROVE IInv
  OBVIOUS
<1> USE DEF Init
<1>1. \/ file = NoFiles /\ keys = 0
      \/ file = [key |-> 1, csr |-> 0, cert |-> 1] /\ keys = 1
  OBVIOUS
<1>2. file \in [key : Keys, csr : Keys, cert : Keys] /\ keys \in Keys
  BY <1>1 DEF NoFiles
<1>3. row \in [status : {"none", "pending", "approved", "rejected"}, csr : Keys, cert : Keys]
  BY DEF NoRow
<1>4. due \in BOOLEAN
  OBVIOUS
<1>5. TypeOK
  BY <1>2, <1>3, <1>4 DEF TypeOK, Steps, NoRow
<1>6. Parts /\ Counters /\ Old
  BY <1>1 DEF Parts, Counters, Old, NoFiles
<1>7. Bare \/ Working
  BY <1>1 DEF Bare, Working, Unasked, NoFiles, NoRow
<1> QED
  BY <1>5, <1>6, <1>7 DEF IInv, Phase
-----------------------------------------------------------------------------
(* The runner.                                                               *)

\* A step that changes the runner's step and its files, and nothing at the server.
LEMMA LocalStep ==
  ASSUME IInv, pc' \in Steps, file' \in [key : Keys, csr : Keys, cert : Keys],
         UNCHANGED <<server, fresh, dues, decisions, revoked>>,
         due' \in BOOLEAN, keys' \in Keys, keys' >= keys,
         faults' \in 0..MaxFaults, mishaps \subseteq mishaps',
         mishaps' \subseteq {"cut", "overtaken", "dropped"},
         Parts', Clean' /\ Counters /\ Phase => Counters' /\ Phase'
  PROVE  IInv'
<1>1. TypeOK'
  BY DEF IInv, TypeOK
<1>2. Old => Old'
  BY DEF IInv, TypeOK, Old
<1>3. Clean' => Clean
  BY DEF Clean
<1> QED
  BY <1>1, <1>2, <1>3 DEF IInv

LEMMA FindsStep == ASSUME IInv, finds \/ loads PROVE IInv'
<1>1. /\ \/ pc = "start" /\ file.cert # 0 /\ file.key # 0 /\ pc' = "load"
         \/ pc = "load" /\ pc' = "cycle"
      /\ UNCHANGED <<server, file, fresh, due, keys, count, hist>>
  BY DEF finds, loads, NeedsEnrollment
<1>2. Parts'
  BY <1>1 DEF Parts
<1>3. Counters => Counters'
  BY <1>1 DEF Counters
<1>4. Phase => Phase'
  BY <1>1 DEF Phase, Bare, Enrolling, Working, Renewed, Unasked
<1> QED
  BY <1>1, <1>2, <1>3, <1>4, LocalStep DEF IInv, TypeOK, Steps

LEMMA CreateStep == ASSUME IInv, loadOrCreateKey PROVE IInv'
<1>1. /\ pc = "start" /\ (file.cert = 0 \/ file.key = 0)
      /\ UNCHANGED <<server, fresh, due, count, hist>>
  BY DEF loadOrCreateKey, NeedsEnrollment
<1>2. CASE file.key # 0 /\ file.csr # 0
  <2>1. pc' = "submit" /\ UNCHANGED <<file, keys>>
    BY <1>2 DEF loadOrCreateKey
  <2>2. Parts'
    BY <1>2, <2>1 DEF Parts
  <2>3. Counters => Counters'
    BY <1>1, <2>1 DEF Counters
  <2>4. Phase => Phase'
    BY <1>1, <1>2, <2>1 DEF Phase, Bare, Enrolling, Working, Renewed, Unasked
  <2> QED
    BY <1>1, <2>1, <2>2, <2>3, <2>4, LocalStep DEF IInv, TypeOK, Steps
<1>3. CASE ~(file.key # 0 /\ file.csr # 0)
  <2>1. /\ keys < MaxKeys /\ keys' = keys + 1 /\ pc' = "keyed"
        /\ file' = [file EXCEPT !.key = keys + 1]
    BY <1>3 DEF loadOrCreateKey
  <2>2. keys \in Nat /\ keys + 1 \in Keys
    BY <2>1 DEF IInv, TypeOK
  <2>3. file' = [key |-> keys + 1, csr |-> file.csr, cert |-> file.cert]
    BY <2>1 DEF IInv, TypeOK
  <2>4. Parts'
    BY <2>1, <2>2, <2>3 DEF Parts
  <2>5. Counters => Counters'
    BY <1>1, <2>1, <2>2, <2>3 DEF IInv, TypeOK, Counters
  <2>6. Clean => keys + 1 \notin revoked
    BY <2>2 DEF IInv, Old
  <2>7. Clean /\ Phase => Phase'
    BY <1>1, <1>3, <2>1, <2>3, <2>6 DEF Phase, Bare, Enrolling, Working, Renewed, Unasked
  <2>8. Clean' => Clean
    BY <1>1 DEF Clean
  <2>9. file' \in [key : Keys, csr : Keys, cert : Keys]
    BY <2>2, <2>3 DEF IInv, TypeOK
  <2> QED
    BY <1>1, <2>1, <2>2, <2>4, <2>5, <2>7, <2>8, <2>9, LocalStep DEF IInv, TypeOK, Steps
<1> QED
  BY <1>2, <1>3

LEMMA WritesRequestStep == ASSUME IInv, writesRequest PROVE IInv'
<1>1. /\ pc = "keyed" /\ pc' = "submit" /\ file' = [file EXCEPT !.csr = file.key]
      /\ UNCHANGED <<server, fresh, due, keys, count, hist>>
  BY DEF writesRequest
<1>2. file' = [key |-> file.key, csr |-> file.key, cert |-> file.cert]
  BY <1>1 DEF IInv, TypeOK
<1>3. Parts'
  BY <1>1, <1>2 DEF IInv, Parts
<1>4. Counters => Counters'
  BY <1>1, <1>2 DEF Counters
<1>5. Phase => Phase'
  BY <1>1, <1>2 DEF IInv, Parts, Phase, Bare, Enrolling, Working, Renewed, Unasked
<1>6. file' \in [key : Keys, csr : Keys, cert : Keys]
  BY <1>2 DEF IInv, TypeOK
<1> QED
  BY <1>1, <1>3, <1>4, <1>5, <1>6, LocalStep DEF IInv, TypeOK, Steps

LEMMA PollStep == ASSUME IInv, pollEnrollment PROVE IInv'
<1>1. /\ pc = "poll"
      /\ \/ /\ row.status = "approved" /\ row.cert # 0
            /\ file' = [file EXCEPT !.cert = row.cert] /\ pc' = "load"
         \/ row.status = "rejected" /\ pc' = "start" /\ file' = file
      /\ UNCHANGED <<server, fresh, due, keys, count, hist>>
  BY DEF pollEnrollment, handleEnrollStatus
<1>2. Parts'
  BY <1>1 DEF Parts
<1>3. CASE row.status = "rejected" /\ pc' = "start" /\ file' = file
  <2>1. Counters => Counters'
    BY <1>1, <1>3 DEF Counters
  <2>2. Phase => Phase'
    BY <1>1, <1>3 DEF Phase, Bare, Enrolling, Working, Renewed, Unasked
  <2> QED
    BY <1>1, <1>2, <1>3, <2>1, <2>2, LocalStep DEF IInv, TypeOK, Steps
<1>4. CASE /\ row.status = "approved" /\ row.cert # 0
           /\ file' = [file EXCEPT !.cert = row.cert] /\ pc' = "load"
  <2>1. file' = [key |-> file.key, csr |-> file.csr, cert |-> row.cert]
    BY <1>4 DEF IInv, TypeOK
  <2>2. Phase => Enrolling
    BY <1>1 DEF Phase, Bare, Enrolling, Working, Renewed
  <2>3. row.csr = 0
    BY <1>4 DEF IInv, TypeOK
  <2>4. Phase => Phase'
    BY <1>1, <1>4, <2>1, <2>2, <2>3 DEF Phase, Enrolling, Working, Unasked
  <2>5. Counters /\ Phase => Counters'
    BY <1>1, <1>4, <2>1, <2>2 DEF Counters, Enrolling
  <2>6. file' \in [key : Keys, csr : Keys, cert : Keys]
    BY <2>1 DEF IInv, TypeOK
  <2> QED
    BY <1>1, <1>2, <1>4, <2>4, <2>5, <2>6, LocalStep DEF IInv, TypeOK, Steps
<1> QED
  BY <1>1, <1>3, <1>4

\* The runner's own file steps: the renewed certificate, and the three of a denial.
LEMMA FilesStep == ASSUME IInv, writesRenewed \/ handleDenied PROVE IInv'
<1>1. /\ UNCHANGED <<server, fresh, keys, count, hist>> /\ (due' = due \/ due' = FALSE)
      /\ \/ pc = "renewed" /\ pc' = "start" /\ file' = [file EXCEPT !.cert = fresh]
         \/ /\ pc = "tick" /\ row.status = "pending" /\ pc' = "discard"
            /\ file' = [file EXCEPT !.cert = 0]
         \/ pc = "discard" /\ pc' = "discarded" /\ file' = [file EXCEPT !.key = 0]
         \/ pc = "discarded" /\ pc' = "start" /\ file' = [file EXCEPT !.csr = 0]
  BY DEF writesRenewed, handleDenied
<1>7. due' \in BOOLEAN
  BY <1>1 DEF IInv, TypeOK
<1>2. Parts'
  BY <1>1 DEF Parts
<1>3. CASE pc = "renewed" /\ pc' = "start" /\ file' = [file EXCEPT !.cert = fresh]
  <2>1. file' = [key |-> file.key, csr |-> file.csr, cert |-> fresh]
    BY <1>3 DEF IInv, TypeOK
  <2>2. Counters => Counters'
    BY <1>1, <2>1 DEF Counters
  <2>3. Phase => Phase'
    BY <1>1, <1>3, <2>1 DEF IInv, Parts, Phase, Bare, Enrolling, Working, Renewed, Unasked
  <2>4. file' \in [key : Keys, csr : Keys, cert : Keys]
    BY <2>1 DEF IInv, TypeOK
  <2> QED
    BY <1>1, <1>2, <1>3, <1>7, <2>2, <2>3, <2>4, LocalStep DEF IInv, TypeOK, Steps
<1>4. CASE pc = "tick" /\ row.status = "pending" /\ pc' = "discard" /\ file' = [file EXCEPT !.cert = 0]
  <2>1. file' = [key |-> file.key, csr |-> file.csr, cert |-> 0]
    BY <1>4 DEF IInv, TypeOK
  <2>2. Counters /\ 0 <= keys => Counters'
    BY <1>1, <2>1 DEF Counters
  <2>3. row.cert = 0
    BY <1>4 DEF IInv, TypeOK
  <2>4. Phase => Phase'
    BY <1>1, <1>4, <2>1, <2>3 DEF Phase, Bare, Enrolling, Working, Renewed, Unasked
  <2>5. file' \in [key : Keys, csr : Keys, cert : Keys] /\ 0 <= keys
    BY <2>1 DEF IInv, TypeOK
  <2> QED
    BY <1>1, <1>2, <1>4, <1>7, <2>2, <2>4, <2>5, LocalStep DEF IInv, TypeOK, Steps
<1>5. CASE pc = "discard" /\ pc' = "discarded" /\ file' = [file EXCEPT !.key = 0]
  <2>1. file' = [key |-> 0, csr |-> file.csr, cert |-> file.cert]
    BY <1>5 DEF IInv, TypeOK
  <2>2. Counters /\ 0 <= keys => Counters'
    BY <1>1, <2>1 DEF Counters
  <2>3. Phase => Phase'
    BY <1>1, <1>5, <2>1 DEF Phase, Bare, Enrolling, Working, Renewed, Unasked
  <2>4. file' \in [key : Keys, csr : Keys, cert : Keys] /\ 0 <= keys
    BY <2>1 DEF IInv, TypeOK
  <2> QED
    BY <1>1, <1>2, <1>5, <1>7, <2>2, <2>3, <2>4, LocalStep DEF IInv, TypeOK, Steps
<1>6. CASE pc = "discarded" /\ pc' = "start" /\ file' = [file EXCEPT !.csr = 0]
  <2>1. file' = [key |-> file.key, csr |-> 0, cert |-> file.cert]
    BY <1>6 DEF IInv, TypeOK
  <2>2. Counters /\ 0 <= keys => Counters'
    BY <1>1, <2>1 DEF Counters
  <2>3. Phase => Phase'
    BY <1>1, <1>6, <2>1 DEF Phase, Bare, Enrolling, Working, Renewed, Unasked
  <2>4. file' \in [key : Keys, csr : Keys, cert : Keys] /\ 0 <= keys
    BY <2>1 DEF IInv, TypeOK
  <2> QED
    BY <1>1, <1>2, <1>6, <1>7, <2>2, <2>3, <2>4, LocalStep DEF IInv, TypeOK, Steps
<1> QED
  BY <1>1, <1>3, <1>4, <1>5, <1>6

LEMMA CheckinStep == ASSUME IInv, checkin PROVE IInv'
<1>1. /\ pc = "tick" /\ pc' = "cycle"
      /\ row' = IF row.status = "none" THEN [row EXCEPT !.status = "approved"] ELSE row
      /\ UNCHANGED <<submits, renewals, approvals, file, fresh, due, keys, count, hist>>
  BY DEF checkin
<1>2. CASE row.status # "none"
  <2>1. row' = row
    BY <1>1, <1>2
  <2>2. Parts'
    BY <1>1 DEF Parts
  <2>3. Counters => Counters'
    BY <1>1 DEF Counters
  <2>4. Phase => Phase'
    BY <1>1, <2>1 DEF Phase, Bare, Enrolling, Working, Renewed, Unasked
  <2> QED
    BY <1>1, <2>1, <2>2, <2>3, <2>4, LocalStep DEF IInv, TypeOK, Steps
<1>3. CASE row.status = "none"
  <2>1. row' = [status |-> "approved", csr |-> row.csr, cert |-> row.cert]
    BY <1>1, <1>3 DEF IInv, TypeOK
  <2>2. row.csr = 0 /\ row.cert = 0
    BY <1>3 DEF IInv, TypeOK
  <2>3. due' \in BOOLEAN
    BY <1>1 DEF IInv, TypeOK
  <2>4. TypeOK'
    BY <1>1, <2>1, <2>2, <2>3 DEF IInv, TypeOK, Steps
  <2>5. Parts'
    BY <1>1 DEF Parts
  <2>6. Counters => Counters'
    BY <1>1 DEF Counters
  <2>7. Old => Old' /\ revoked = {}
    BY <1>1, <1>3, <2>1 DEF Old
  <2>8. Old /\ Phase => Phase'
    BY <1>1, <2>1, <2>2, <2>7 DEF Phase, Bare, Enrolling, Working, Renewed, Unasked
  <2> QED
    BY <1>1, <2>4, <2>5, <2>6, <2>7, <2>8 DEF IInv, Clean
<1> QED
  BY <1>2, <1>3
-----------------------------------------------------------------------------
(* Requests, and what the server writes.                                     *)
LEMMA SubmitCSRStep == ASSUME IInv, submitCSR PROVE IInv'
<1>1. /\ pc = "submit"
      /\ \/ pc' = "poll" /\ submits' = submits
         \/ pc' = "sent" /\ submits' = submits \cup {file.csr}
      /\ UNCHANGED <<row, renewals, approvals, file, fresh, due, keys, count, hist>>
  BY DEF submitCSR, handleEnroll
<1>2. file.csr \in Keys \ {0}
  BY <1>1 DEF IInv, TypeOK, Parts
<1>3. due' \in BOOLEAN
  BY <1>1 DEF IInv, TypeOK
<1>4. submits' \in SUBSET (Keys \ {0})
  BY <1>1, <1>2 DEF IInv, TypeOK
<1>5. TypeOK'
  BY <1>1, <1>3, <1>4 DEF IInv, TypeOK, Steps
<1>6. Parts'
  BY <1>1 DEF Parts
<1>7. (Counters => Counters') /\ (Old => Old')
  BY <1>1 DEF Counters, Old
<1>8. Phase => Phase'
  BY <1>1 DEF Phase, Bare, Enrolling, Working, Renewed, Unasked
<1> QED
  BY <1>1, <1>5, <1>6, <1>7, <1>8 DEF IInv, Clean

LEMMA SubmitStep == ASSUME IInv, NEW k \in Keys, SubmitEnrollment(k) PROVE IInv'
<1>1. /\ k \in submits /\ submits' = submits \ {k}
      /\ row' = [status |-> "pending", csr |-> k, cert |-> 0]
      /\ pc' = IF pc = "sent" /\ file.csr = k THEN "poll" ELSE pc
      /\ UNCHANGED <<renewals, approvals, file, fresh, due, keys, count, hist>>
  BY DEF SubmitEnrollment
<1>2. due' \in BOOLEAN
  BY <1>1 DEF IInv, TypeOK
<1>3. submits' \in SUBSET (Keys \ {0})
  BY <1>1 DEF IInv, TypeOK
<1>4. TypeOK'
  BY <1>1, <1>2, <1>3 DEF IInv, TypeOK, Steps
<1>5. Parts'
  BY <1>1 DEF IInv, Parts
<1>6. (Counters => Counters') /\ (Old => Old')
  BY <1>1 DEF Counters, Old
<1>7. Phase => Enrolling /\ pc = "sent" /\ k = file.key
  BY <1>1 DEF Phase, Bare, Enrolling, Working, Renewed, Unasked
<1>8. Phase => Enrolling'
  BY <1>1, <1>7 DEF Enrolling
<1> QED
  BY <1>1, <1>4, <1>5, <1>6, <1>8 DEF IInv, Clean, Phase

LEMMA RenewIfNeededStep == ASSUME IInv, RenewIfNeeded PROVE IInv'
<1>1. /\ pc = "cycle"
      /\ \/ /\ keys < MaxKeys /\ fresh' = keys + 1 /\ keys' = keys + 1
            /\ renewals' = renewals \cup {keys + 1} /\ pc' = "renewing"
         \/ pc' = "tick" /\ UNCHANGED <<fresh, keys, renewals>>
      /\ UNCHANGED <<row, submits, approvals, file, due, count, hist>>
  BY DEF RenewIfNeeded, handleRenew
<1>2. due' \in BOOLEAN
  BY <1>1 DEF IInv, TypeOK
<1>3. keys \in Nat
  BY DEF IInv, TypeOK
<1>4. Phase => Working
  BY <1>1 DEF Phase, Bare, Enrolling, Working, Renewed
<1>5. CASE pc' = "tick" /\ UNCHANGED <<fresh, keys, renewals>>
  <2>1. TypeOK'
    BY <1>1, <1>2, <1>5 DEF IInv, TypeOK, Steps
  <2>2. Parts'
    BY <1>5 DEF Parts
  <2>3. (Counters => Counters') /\ (Old => Old')
    BY <1>1, <1>5 DEF Counters, Old
  <2>4. Phase => Working'
    BY <1>1, <1>4, <1>5 DEF Working, Unasked
  <2> QED
    BY <1>1, <2>1, <2>2, <2>3, <2>4 DEF IInv, Clean, Phase
<1>6. CASE /\ keys < MaxKeys /\ fresh' = keys + 1 /\ keys' = keys + 1
           /\ renewals' = renewals \cup {keys + 1} /\ pc' = "renewing"
  <2>1. keys + 1 \in Keys \ {0}
    BY <1>3, <1>6
  <2>2. renewals' \in SUBSET (Keys \ {0})
    BY <1>6, <2>1 DEF IInv, TypeOK
  <2>3. TypeOK'
    BY <1>1, <1>2, <1>6, <2>1, <2>2 DEF IInv, TypeOK, Steps
  <2>4. Parts'
    BY <1>6, <2>1 DEF Parts
  <2>5. Counters => Counters' /\ file.cert # keys + 1
    BY <1>1, <1>3, <1>6 DEF IInv, TypeOK, Counters
  <2>6. Old => Old' /\ keys + 1 \notin revoked
    BY <1>1, <1>3, <1>6 DEF IInv, TypeOK, Old
  <2>7. Counters /\ Old /\ Phase => Working'
    BY <1>1, <1>4, <1>6, <2>5, <2>6 DEF Working, Unasked
  <2> QED
    BY <1>1, <2>3, <2>4, <2>5, <2>6, <2>7 DEF IInv, Clean, Phase
<1> QED
  BY <1>1, <1>5, <1>6

LEMMA RenewStep == ASSUME IInv, NEW k \in Keys, RenewCertificate(k) PROVE IInv'
<1>1. /\ k \in renewals /\ renewals' = renewals \ {k}
      /\ row' = IF row.status = "approved" THEN [row EXCEPT !.cert = k] ELSE row
      /\ \/ /\ row.status = "approved" /\ pc = "renewing" /\ fresh = k
            /\ file' = [file EXCEPT !.key = k] /\ pc' = "renewed"
         \/ /\ ~(row.status = "approved" /\ pc = "renewing" /\ fresh = k)
            /\ file' = file /\ pc' = IF pc = "renewing" /\ fresh = k THEN "tick" ELSE pc
      /\ UNCHANGED <<submits, approvals, fresh, due, keys, count, hist>>
  BY DEF RenewCertificate
<1>2. due' \in BOOLEAN
  BY <1>1 DEF IInv, TypeOK
<1>3. renewals' \in SUBSET (Keys \ {0}) /\ k # 0
  BY <1>1 DEF IInv, TypeOK
<1>4. row' = [status |-> row.status, csr |-> row.csr,
              cert |-> IF row.status = "approved" THEN k ELSE row.cert]
  BY <1>1 DEF IInv, TypeOK
<1>5. \/ file' = file
      \/ file' = [key |-> k, csr |-> file.csr, cert |-> file.cert]
  BY <1>1 DEF IInv, TypeOK
<1>6. pc' \in Steps
  BY <1>1 DEF IInv, TypeOK, Steps
<1>7. file' \in [key : Keys, csr : Keys, cert : Keys]
  BY <1>5 DEF IInv, TypeOK
<1>8. TypeOK'
  BY <1>1, <1>2, <1>3, <1>4, <1>6, <1>7 DEF IInv, TypeOK
<1>9. Parts'
  BY <1>1, <1>3 DEF IInv, Parts
<1>10. Phase => Working /\ pc = "renewing" /\ k = fresh
  BY <1>1 DEF Phase, Bare, Enrolling, Working, Renewed
<1>11. Counters /\ Phase => Counters'
  BY <1>1, <1>5, <1>10 DEF Counters
<1>12. Old => Old'
  BY <1>1, <1>4 DEF Old
<1>13. Phase => Phase'
  <2>1. CASE row.status = "approved"
    <3>1. Phase => /\ pc' = "renewed" /\ file' = [key |-> k, csr |-> file.csr, cert |-> file.cert]
                   /\ renewals' = {} /\ row'.cert = k
      BY <1>1, <1>4, <1>5, <1>10, <2>1 DEF IInv, TypeOK, Working
    <3>2. Phase => Renewed'
      BY <1>1, <1>4, <1>10, <3>1 DEF Working, Renewed, Unasked
    <3> QED
      BY <3>2 DEF Phase
  <2>2. CASE row.status # "approved"
    <3>1. Phase => pc' = "tick" /\ file' = file /\ row' = row /\ renewals' = {}
      BY <1>1, <1>10, <2>2 DEF Working
    <3>2. Phase => Working'
      BY <1>1, <1>10, <3>1 DEF Working, Unasked
    <3> QED
      BY <3>2 DEF Phase
  <2> QED
    BY <2>1, <2>2
<1> QED
  BY <1>1, <1>8, <1>9, <1>11, <1>12, <1>13 DEF IInv, Clean
-----------------------------------------------------------------------------
(* The operator.                                                             *)
LEMMA PendingStep == ASSUME IInv, PendingCSR PROVE IInv'
<1>1. /\ row.status = "pending" /\ row.csr # 0 /\ approvals' = approvals \cup {row.csr}
      /\ UNCHANGED <<row, submits, renewals, file, pc, fresh, due, keys, count, hist>>
  BY DEF PendingCSR
<1>2. due' \in BOOLEAN
  BY <1>1 DEF IInv, TypeOK
<1>3. approvals' \in SUBSET (Keys \ {0})
  BY <1>1 DEF IInv, TypeOK
<1>4. TypeOK'
  BY <1>1, <1>2, <1>3 DEF IInv, TypeOK
<1>5. Parts' /\ (Counters => Counters') /\ (Old => Old')
  BY <1>1 DEF IInv, Parts, Counters, Old
<1>6. Phase => Enrolling'
  BY <1>1 DEF Phase, Bare, Enrolling, Working, Renewed, Unasked
<1> QED
  BY <1>1, <1>4, <1>5, <1>6 DEF IInv, Clean, Phase

LEMMA ApproveStep == ASSUME IInv, NEW k \in Keys, ApproveEnrollment(k) PROVE IInv'
<1>1. /\ k \in approvals /\ approvals' = approvals \ {k}
      /\ row' = IF row.status = "pending" THEN [status |-> "approved", csr |-> 0, cert |-> k]
                ELSE row
      /\ UNCHANGED <<submits, renewals, file, pc, fresh, due, keys, count, hist>>
  BY DEF ApproveEnrollment
<1>2. due' \in BOOLEAN
  BY <1>1 DEF IInv, TypeOK
<1>3. approvals' \in SUBSET (Keys \ {0})
  BY <1>1 DEF IInv, TypeOK
<1>4. row' \in [status : {"none", "pending", "approved", "rejected"}, csr : Keys, cert : Keys]
  BY <1>1 DEF IInv, TypeOK
<1>5. TypeOK'
  BY <1>1, <1>2, <1>3, <1>4 DEF IInv, TypeOK
<1>6. Parts' /\ (Counters => Counters')
  BY <1>1 DEF IInv, Parts, Counters
<1>7. Old => Old'
  BY <1>1 DEF Old
<1>8. Phase => Enrolling'
  BY <1>1 DEF Phase, Bare, Enrolling, Working, Renewed, Unasked
<1> QED
  BY <1>1, <1>5, <1>6, <1>7, <1>8 DEF IInv, Clean, Phase

LEMMA RejectStep == ASSUME IInv, RejectEnrollment PROVE IInv'
<1>1. /\ row.status = "pending" /\ decisions < MaxDecisions /\ decisions' = decisions + 1
      /\ row' = [status |-> "rejected", csr |-> 0, cert |-> 0]
      /\ UNCHANGED <<submits, renewals, approvals, file, pc, fresh, due, keys, dues, faults, hist>>
  BY DEF RejectEnrollment
<1>2. due' \in BOOLEAN
  BY <1>1 DEF IInv, TypeOK
<1>3. decisions' \in 0..MaxDecisions
  BY <1>1 DEF IInv, TypeOK
<1>4. TypeOK'
  BY <1>1, <1>2, <1>3 DEF IInv, TypeOK
<1>5. Parts' /\ (Counters => Counters') /\ (Old => Old')
  BY <1>1 DEF IInv, Parts, Counters, Old
<1>6. Phase => Phase'
  BY <1>1 DEF Phase, Bare, Enrolling, Working, Renewed, Unasked
<1> QED
  BY <1>1, <1>4, <1>5, <1>6 DEF IInv, Clean

\* What is revoked is the certificate the host works with; whatever it asks for is another key.
LEMMA RevokeStep == ASSUME IInv, RevokeEnrollment PROVE IInv'
<1>1. /\ row.status \in {"approved", "rejected"}
      /\ decisions < MaxDecisions /\ decisions' = decisions + 1
      /\ row' = [status |-> "pending", csr |-> 0, cert |-> 0]
      /\ revoked' = revoked \cup ({file.cert} \ {0})
      /\ UNCHANGED <<submits, renewals, approvals, file, pc, fresh, due, keys, dues, faults>>
  BY DEF RevokeEnrollment
<1>2. /\ mishaps \subseteq mishaps' /\ mishaps' \subseteq mishaps \cup {"overtaken", "dropped"}
      /\ approvals # {} => "overtaken" \in mishaps'
  BY DEF RevokeEnrollment, Mishap
<1>3. due' \in BOOLEAN
  BY <1>1 DEF IInv, TypeOK
<1>4. decisions' \in 0..MaxDecisions
  BY <1>1 DEF IInv, TypeOK
<1>5. revoked' \in SUBSET (Keys \ {0})
  BY <1>1 DEF IInv, TypeOK
<1>6. mishaps' \subseteq {"cut", "overtaken", "dropped"}
  BY <1>2 DEF IInv, TypeOK
<1>7. TypeOK'
  BY <1>1, <1>3, <1>4, <1>5, <1>6 DEF IInv, TypeOK
<1>8. Parts' /\ (Counters => Counters')
  BY <1>1 DEF IInv, Parts, Counters
<1>9. Counters /\ Old => Old'
  BY <1>1 DEF Counters, Old
<1>10. Clean' => Clean /\ approvals = {}
  BY <1>2 DEF Clean
<1>11. approvals = {} /\ Phase => Phase'
  BY <1>1 DEF Phase, Bare, Enrolling, Working, Renewed, Unasked
<1> QED
  BY <1>7, <1>8, <1>9, <1>10, <1>11 DEF IInv
-----------------------------------------------------------------------------
(* Time, and what goes wrong.                                                *)
LEMMA ExpiresStep == ASSUME IInv, expires PROVE IInv'
<1>1. /\ due' = TRUE /\ dues < MaxDue /\ dues' = dues + 1
      /\ UNCHANGED <<server, file, pc, fresh, keys, decisions, faults, hist>>
  BY DEF expires
<1>2. due' \in BOOLEAN
  BY <1>1
<1>3. dues' \in 0..MaxDue
  BY <1>1 DEF IInv, TypeOK
<1>4. TypeOK'
  BY <1>1, <1>2, <1>3 DEF IInv, TypeOK
<1>5. Parts' /\ (Counters => Counters') /\ (Old => Old')
  BY <1>1 DEF IInv, Parts, Counters, Old
<1>6. Phase => Phase'
  BY <1>1 DEF Phase, Bare, Enrolling, Working, Renewed, Unasked
<1> QED
  BY <1>1, <1>4, <1>5, <1>6 DEF IInv, Clean

LEMMA FaultStep == ASSUME IInv, dies \/ answerLost \/ fileFails PROVE IInv'
<1>1. /\ faults < MaxFaults /\ faults' = faults + 1
      /\ UNCHANGED <<server, file, fresh, due, keys, decisions, dues, revoked>>
  BY DEF dies, answerLost, fileFails, Fault
<1>2. /\ pc' \in {"start", "tick", "cycle"}
      /\ mishaps \subseteq mishaps' /\ mishaps' \subseteq mishaps \cup {"cut", "overtaken"}
  BY DEF dies, answerLost, fileFails, Mishap
<1>3. \/ "cut" \in mishaps' \/ "overtaken" \in mishaps'
      \/ /\ pc' = "start" /\ pc \notin {"discard", "discarded", "renewed"}
         /\ ((submits = {} /\ renewals = {}) \/ pc = "submit")
  BY DEF dies, answerLost, fileFails, Mishap
<1>4. faults' \in 0..MaxFaults
  BY <1>1 DEF IInv, TypeOK
<1>5. Parts'
  BY <1>2 DEF Parts
<1>6. Counters => Counters'
  BY <1>1 DEF Counters
<1>7. Clean' /\ Phase => Phase'
  <2> SUFFICES ASSUME Clean', Phase PROVE Phase'
    OBVIOUS
  <2>1. /\ pc' = "start" /\ pc \notin {"discard", "discarded", "renewed"}
        /\ ((submits = {} /\ renewals = {}) \/ pc = "submit")
    BY <1>3 DEF Clean
  <2> QED
    BY <1>1, <2>1 DEF Phase, Bare, Enrolling, Working, Renewed, Unasked
<1>8. due' \in BOOLEAN
  BY <1>1 DEF IInv, TypeOK
<1>9. file' \in [key : Keys, csr : Keys, cert : Keys] /\ keys' \in Keys /\ keys' >= keys
      /\ mishaps' \subseteq {"cut", "overtaken", "dropped"} /\ pc' \in Steps
  BY <1>1, <1>2 DEF IInv, TypeOK, Steps
<1> QED
  BY <1>1, <1>2, <1>4, <1>5, <1>6, <1>7, <1>8, <1>9, LocalStep
-----------------------------------------------------------------------------
LEMMA StepIInv == IInv /\ [Next]_vars => IInv'
<1> SUFFICES ASSUME IInv, [Next]_vars PROVE IInv'
  OBVIOUS
<1>1. CASE Runner
  BY <1>1, FindsStep, CreateStep, WritesRequestStep, SubmitCSRStep, PollStep, RenewIfNeededStep,
     FilesStep, CheckinStep DEF Runner
<1>2. ASSUME NEW k \in Keys, Writes(k) PROVE IInv'
  BY <1>2, SubmitStep, RenewStep, ApproveStep DEF Writes
<1>3. CASE UNCHANGED vars
  <2>1. UNCHANGED <<row, submits, renewals, approvals, file, pc, fresh, due, keys,
                    decisions, dues, faults, revoked, mishaps>>
    BY <1>3 DEF vars
  <2>2. due' \in BOOLEAN
    BY <2>1 DEF IInv, TypeOK
  <2>3. TypeOK'
    BY <2>1, <2>2 DEF IInv, TypeOK
  <2>4. Parts' /\ (Counters => Counters') /\ (Old => Old')
    BY <2>1 DEF IInv, Parts, Counters, Old
  <2>5. Phase => Phase'
    BY <2>1 DEF Phase, Bare, Enrolling, Working, Renewed, Unasked
  <2> QED
    BY <2>1, <2>3, <2>4, <2>5 DEF IInv, Clean
<1> QED
  BY <1>1, <1>2, <1>3, PendingStep, RejectStep, RevokeStep, ExpiresStep, FaultStep DEF Next

\* The row, the requests at work and the host's files stay what the code makes of them: above
\* all, a certificate is in the row only while the runner is approved.
THEOREM TypeCorrect == Spec => []TypeOK
<1>1. IInv => TypeOK
  BY DEF IInv
<1> QED
  BY InitIInv, StepIInv, <1>1, PTL DEF Spec

\* A runner that starts with both files has a pair, for any number of renewals, rejections and
\* revocations.
THEOREM PairAlwaysFits == Spec => []PairFits
<1>1. IInv => PairFits
  BY DEF IInv, PairFits, Clean, Phase, Bare, Enrolling, Working, Renewed
<1> QED
  BY InitIInv, StepIInv, <1>1, PTL DEF Spec

\* No key comes back that was revoked.
THEOREM RevokedForGood == Spec => []RevokedStaysOut
<1>1. IInv => RevokedStaysOut
  <2>1. IInv => revoked \in SUBSET (Keys \ {0})
    BY DEF IInv, TypeOK
  <2> QED
    BY <2>1 DEF IInv, RevokedStaysOut, Clean, Phase, Bare, Enrolling, Working, Renewed
<1> QED
  BY InitIInv, StepIInv, <1>1, PTL DEF Spec
=============================================================================
