------------------------------ MODULE Enrollment ------------------------------
(* A runner and its certificate: the request an operator decides on, the     *)
(* pickup, the renewal, the revocation (internal/server/enroll.go,           *)
(* enroll_store.go, auth.go; internal/runner/enroll.go, renew.go, loop.go).  *)
(*                                                                           *)
(* A key pair is a number; a request or a certificate is the number of the   *)
(* key it is for, 0 where there is none.  The runner keeps three files: key, *)
(* request and certificate, written and removed one after the other.  The    *)
(* server checks a status and writes the row in different statements.        *)
EXTENDS Integers

CONSTANTS
  MaxKeys,      \* bound: key pairs the host generates
  MaxDecisions, \* bound: rejections and revocations
  MaxDue,       \* bound: how often a certificate comes near its end
  MaxFaults     \* bound: deaths of the runner, lost answers, files that cannot be written

Keys == 0..MaxKeys

ASSUME EnrollmentAssumption ==
  /\ MaxKeys \in Nat \ {0}
  /\ {MaxDecisions, MaxDue, MaxFaults} \subseteq Nat

VARIABLES
  row,       \* the table runners: status, csr, cert_pem
  submits,   \* requests that SubmitEnrollment has checked and not yet written
  renewals,  \* requests that handleRenew has checked and not yet recorded
  approvals, \* requests that an operator's approval has read and signed
  file,      \* the host: the key, its request, its certificate
  pc,        \* the runner: its step
  fresh,     \* the key of the renewal under way
  due,       \* the certificate is near its end
  keys, decisions, dues, faults, \* counters of the bounds
  revoked,   \* history: keys of certificates the host had when they were revoked
  mishaps    \* history: what came between two steps that belong together
server == <<row, submits, renewals, approvals>>
host   == <<file, pc, fresh, due, keys>>
count  == <<decisions, dues, faults>>
hist   == <<revoked, mishaps>>
vars   == <<server, host, count, hist>>

NoFiles == [key |-> 0, csr |-> 0, cert |-> 0]
NoRow == [status |-> "none", csr |-> 0, cert |-> 0]

\* A new host, or one whose certificate was issued by hand.
Init ==
  /\ row = NoRow /\ submits = {} /\ renewals = {} /\ approvals = {}
  /\ pc = "start" /\ fresh = 0 /\ due = FALSE
  /\ \/ file = NoFiles /\ keys = 0
     \/ file = [key |-> 1, csr |-> 0, cert |-> 1] /\ keys = 1
  /\ decisions = 0 /\ dues = 0 /\ faults = 0
  /\ revoked = {} /\ mishaps = {}

Goes(step) == pc' = step
Mishap(what) == mishaps' = mishaps \cup what
-----------------------------------------------------------------------------
(* The runner starts, and enrols if a file is missing.                       *)
NeedsEnrollment == file.cert = 0 \/ file.key = 0

finds ==
  /\ pc = "start" /\ ~NeedsEnrollment /\ Goes("load")
  /\ UNCHANGED <<server, file, fresh, due, keys, count, hist>>

\* (slip) A restart makes a new key although a request for the old one is out.
createsAlways ==
  /\ pc = "start" /\ NeedsEnrollment
  /\ keys < MaxKeys /\ keys' = keys + 1
  /\ file' = [file EXCEPT !.key = keys + 1] /\ Goes("keyed")
  /\ UNCHANGED <<server, fresh, due, count, hist>>

\* loadOrCreateKey: a key that has its request is used again.
loadOrCreateKey ==
  /\ pc = "start" /\ NeedsEnrollment
  /\ IF file.key # 0 /\ file.csr # 0
     THEN Goes("submit") /\ UNCHANGED <<file, keys>>
     ELSE /\ keys < MaxKeys /\ keys' = keys + 1
          /\ file' = [file EXCEPT !.key = keys + 1] /\ Goes("keyed")
  /\ UNCHANGED <<server, fresh, due, count, hist>>

writesRequest ==
  /\ pc = "keyed" /\ Goes("submit")
  /\ file' = [file EXCEPT !.csr = file.key]
  /\ UNCHANGED <<server, fresh, due, keys, count, hist>>

\* (slip) That the runner is approved already is the end of the attempt.
submitConflicts ==
  /\ pc = "submit"
  /\ IF row.status = "approved"
     THEN Goes("start") /\ UNCHANGED submits
     ELSE Goes("sent") /\ submits' = submits \cup {file.csr}
  /\ UNCHANGED <<row, renewals, approvals, file, fresh, due, keys, count, hist>>

\* handleEnroll, and the first half of SubmitEnrollment; that the runner is approved already
\* is no error to it.
handleEnroll(k) ==
  IF row.status = "approved"
  THEN Goes("poll") /\ UNCHANGED submits
  ELSE Goes("sent") /\ submits' = submits \cup {k}

submitCSR ==
  /\ pc = "submit" /\ handleEnroll(file.csr)
  /\ UNCHANGED <<row, renewals, approvals, file, fresh, due, keys, count, hist>>

\* The second half: the row is overwritten, whatever it says by now.
SubmitEnrollment(k) ==
  /\ k \in submits /\ submits' = submits \ {k}
  /\ row' = [status |-> "pending", csr |-> k, cert |-> 0]
  /\ IF pc = "sent" /\ file.csr = k THEN Goes("poll") ELSE UNCHANGED pc
  /\ UNCHANGED <<renewals, approvals, file, fresh, due, keys, count, hist>>

handleEnrollStatus == [status |-> row.status, cert |-> row.cert]

\* pollEnrollment: approved, the certificate is written; rejected, the runner ends, and is
\* started again by the service manager.
pollEnrollment ==
  /\ pc = "poll"
  /\ \/ /\ handleEnrollStatus.status = "approved" /\ handleEnrollStatus.cert # 0
        /\ file' = [file EXCEPT !.cert = handleEnrollStatus.cert] /\ Goes("load")
     \/ handleEnrollStatus.status = "rejected" /\ Goes("start") /\ UNCHANGED file
  /\ UNCHANGED <<server, fresh, due, keys, count, hist>>

\* ClientTLSConfig: a certificate that is not for the key is fatal, at every start.
loads ==
  /\ pc = "load" /\ file.cert = file.key /\ Goes("cycle")
  /\ UNCHANGED <<server, file, fresh, due, keys, count, hist>>
-----------------------------------------------------------------------------
(* The cycle: the renewal, then the check-in.                                *)
\* requireApprovedRunner: a runner without a row was given its certificate by hand.
Approved == row.status \in {"approved", "none"}

\* handleRenew: who is approved has the request signed; the row is written afterwards.
handleRenew(k) == Approved /\ renewals' = renewals \cup {k}

RenewIfNeeded ==
  /\ pc = "cycle"
  /\ IF due /\ Approved /\ keys < MaxKeys
     THEN /\ fresh' = keys + 1 /\ keys' = keys + 1
          /\ handleRenew(keys + 1) /\ Goes("renewing")
     ELSE Goes("tick") /\ UNCHANGED <<fresh, keys, renewals>>
  /\ UNCHANGED <<row, submits, approvals, file, due, count, hist>>

\* (slip) The certificate is recorded whatever the status is by now.
RenewAnyway(k) ==
  /\ k \in renewals /\ renewals' = renewals \ {k}
  /\ row' = [row EXCEPT !.cert = k]
  /\ IF pc = "renewing" /\ fresh = k
     THEN file' = [file EXCEPT !.key = k] /\ Goes("renewed")
     ELSE UNCHANGED <<file, pc>>
  /\ UNCHANGED <<submits, approvals, fresh, due, keys, count, hist>>

\* RenewCertificate: only a runner that is still approved; the answer is written to disk,
\* the key first.
RenewCertificate(k) ==
  /\ k \in renewals /\ renewals' = renewals \ {k}
  /\ row' = IF row.status = "approved" THEN [row EXCEPT !.cert = k] ELSE row
  /\ IF pc = "renewing" /\ fresh = k
     THEN IF row.status = "approved"
          THEN file' = [file EXCEPT !.key = k] /\ Goes("renewed")
          ELSE Goes("tick") /\ UNCHANGED file
     ELSE UNCHANGED <<file, pc>>
  /\ UNCHANGED <<submits, approvals, fresh, due, keys, count, hist>>

writesRenewed ==
  /\ pc = "renewed" /\ Goes("start")
  /\ file' = [file EXCEPT !.cert = fresh] /\ due' = FALSE
  /\ UNCHANGED <<server, fresh, keys, count, hist>>

\* The check-in of an approved runner makes its row if there is none; a rejected one stays
\* quiet.
checkin ==
  /\ pc = "tick" /\ row.status # "pending" /\ Goes("cycle")
  /\ row' = IF row.status = "none" THEN [row EXCEPT !.status = "approved"] ELSE row
  /\ UNCHANGED <<submits, renewals, approvals, file, fresh, due, keys, count, hist>>

\* (slip) Only the certificate is discarded.
discardsCertificate ==
  /\ pc = "tick" /\ row.status = "pending" /\ Goes("start")
  /\ file' = [file EXCEPT !.cert = 0]
  /\ UNCHANGED <<server, fresh, due, keys, count, hist>>

\* handleDenied: one file after the other, then a restart.
handleDenied ==
  /\ \/ /\ pc = "tick" /\ row.status = "pending"
        /\ file' = [file EXCEPT !.cert = 0] /\ due' = FALSE /\ Goes("discard")
     \/ /\ pc = "discard"
        /\ file' = [file EXCEPT !.key = 0] /\ Goes("discarded") /\ UNCHANGED due
     \/ /\ pc = "discarded"
        /\ file' = [file EXCEPT !.csr = 0] /\ Goes("start") /\ UNCHANGED due
  /\ UNCHANGED <<server, fresh, keys, count, hist>>
-----------------------------------------------------------------------------
(* The operator.                                                             *)
\* handleApproveRunner: PendingCSR, and the signature ...
PendingCSR ==
  /\ row.status = "pending" /\ row.csr # 0
  /\ approvals' = approvals \cup {row.csr}
  /\ UNCHANGED <<row, submits, renewals, host, count, hist>>

\* ... then the row, if it is still pending.
ApproveEnrollment(k) ==
  /\ k \in approvals /\ approvals' = approvals \ {k}
  /\ row' = IF row.status = "pending" THEN [status |-> "approved", csr |-> 0, cert |-> k]
            ELSE row
  /\ UNCHANGED <<submits, renewals, host, count, hist>>

RejectEnrollment ==
  /\ row.status = "pending" /\ decisions < MaxDecisions /\ decisions' = decisions + 1
  /\ row' = [status |-> "rejected", csr |-> 0, cert |-> 0]
  /\ UNCHANGED <<submits, renewals, approvals, host, dues, faults, hist>>

\* RevokeEnrollment, and RevokeAll.
RevokeEnrollment ==
  /\ row.status \in {"approved", "rejected"}
  /\ decisions < MaxDecisions /\ decisions' = decisions + 1
  /\ row' = [status |-> "pending", csr |-> 0, cert |-> 0]
  /\ revoked' = revoked \cup ({file.cert} \ {0})
  /\ Mishap((IF approvals # {} THEN {"overtaken"} ELSE {})
            \cup (IF pc = "poll" THEN {"dropped"} ELSE {}))
  /\ UNCHANGED <<submits, renewals, approvals, host, dues, faults>>
-----------------------------------------------------------------------------
(* Time, and what goes wrong.                                                *)
expires ==
  /\ file.cert # 0 /\ ~due /\ dues < MaxDue
  /\ due' = TRUE /\ dues' = dues + 1
  /\ UNCHANGED <<server, file, pc, fresh, keys, decisions, faults, hist>>

Fault == faults < MaxFaults /\ faults' = faults + 1

\* The runner is killed: a request of its own may still be at the server.
dies ==
  /\ Fault /\ pc # "start" /\ Goes("start")
  /\ Mishap((IF pc \in {"discard", "discarded", "renewed"} THEN {"cut"} ELSE {})
            \cup (IF submits \cup renewals # {} THEN {"overtaken"} ELSE {}))
  /\ UNCHANGED <<server, file, fresh, due, keys, decisions, dues, revoked>>

\* The connection breaks: enrolling, the runner ends; renewing, it goes on.
answerLost ==
  /\ Fault
  /\ \/ pc \in {"submit", "sent"} /\ Goes("start")
     \/ pc = "renewing" /\ Goes("tick")
  /\ Mishap(IF pc = "submit" THEN {} ELSE {"overtaken"})
  /\ UNCHANGED <<server, file, fresh, due, keys, decisions, dues, revoked>>

\* A file cannot be written or removed: the runner goes on with the pair it has loaded.
fileFails ==
  /\ Fault
  /\ \/ pc = "renewed" /\ Goes("tick")
     \/ pc \in {"discard", "discarded"} /\ Goes("cycle")
  /\ Mishap({"cut"})
  /\ UNCHANGED <<server, file, fresh, due, keys, decisions, dues, revoked>>

Runner ==
  \/ finds \/ loadOrCreateKey \/ writesRequest \/ submitCSR \/ pollEnrollment \/ loads
  \/ RenewIfNeeded \/ writesRenewed \/ checkin \/ handleDenied

Writes(k) == SubmitEnrollment(k) \/ RenewCertificate(k) \/ ApproveEnrollment(k)

Next ==
  \/ Runner
  \/ \E k \in Keys : Writes(k)
  \/ PendingCSR \/ RejectEnrollment \/ RevokeEnrollment
  \/ expires \/ dies \/ answerLost \/ fileFails

Spec == Init /\ [][Next]_vars

\* The runner's loop goes on and is started again, the handlers return, and an operator
\* gets round to every request.
FairSpec ==
  /\ Spec
  /\ WF_vars(Runner)
  /\ \A k \in Keys : WF_vars(Writes(k))
  /\ WF_vars(PendingCSR)
-----------------------------------------------------------------------------
Steps == {"start", "keyed", "submit", "sent", "poll", "load", "cycle", "renewing", "renewed",
          "tick", "discard", "discarded"}

TypeOK ==
  /\ row \in [status : {"none", "pending", "approved", "rejected"}, csr : Keys, cert : Keys]
  /\ row.csr # 0 => row.status = "pending"
  /\ row.cert # 0 => row.status = "approved"
  /\ {submits, renewals, approvals, revoked} \subseteq SUBSET (Keys \ {0})
  /\ file \in [key : Keys, csr : Keys, cert : Keys]
  /\ pc \in Steps /\ fresh \in Keys /\ due \in BOOLEAN /\ keys \in Keys
  /\ decisions \in 0..MaxDecisions /\ dues \in 0..MaxDue /\ faults \in 0..MaxFaults
  /\ mishaps \subseteq {"cut", "overtaken", "dropped"}

\* A runner that starts with a key and a certificate has a pair: enrolling again, renewing
\* and being revoked at any moment leave no certificate beside another key.  (Left out:
\* the runner was stopped between two files, or a request outlived what it was made for.)
PairFits == pc = "load" /\ mishaps \cap {"cut", "overtaken"} = {} => file.cert = file.key

\* A key whose certificate was revoked does not come back: what is approved after the
\* revocation is another key.  (Left out: the same mishaps.)
RevokedStaysOut ==
  row.status = "approved" /\ mishaps \cap {"cut", "overtaken"} = {} => row.cert \notin revoked

\* A host that asks for a certificate comes to work, and one that was revoked comes back,
\* with no help but the approval; only a rejection may keep it away.  (Left out, besides:
\* the certificate was revoked while the host waited to fetch it.)
Serving == row.status = "approved" /\ pc \in {"cycle", "tick"}
ComesToWork == []<>(Serving \/ row.status = "rejected" \/ mishaps # {})
=============================================================================
