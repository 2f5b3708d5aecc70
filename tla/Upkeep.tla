--------------------------------- MODULE Upkeep --------------------------------
(* What a runner does for itself before it asks for work: trust material,    *)
(* its own build, its certificate; and the operator's rotations on the       *)
(* server (internal/runner/loop.go, trust.go, update.go; internal/server/    *)
(* rotate.go, update.go; pkg/crypto/signingset.go; cmd/server/main.go).      *)
(*                                                                           *)
(* Signing keys and authorities are numbered as they are made; those in use  *)
(* at one time are a range, the newest and the oldest.  A signature is by    *)
(* every key of a range.  A build is its number and the version stamped into *)
(* it; equal hashes are equal builds.                                        *)
EXTENDS Integers

CONSTANTS
  Runners,
  MaxKey,      \* bound: signing keys
  MaxCA,       \* bound: authorities
  MaxVersion,  \* bound: versions published
  Patience,    \* check-ins of every runner the operator waits for before a key is removed
  InPlace,     \* VERSION is written over, not replaced
  MaxFaults    \* bound: failed requests and writes, deaths, restarts of the server

Ranges(max) == {w \in [newest : 1..max, oldest : 1..max] : w.oldest <= w.newest}
Spans(w) == w.oldest..w.newest
Only(n) == [newest |-> n, oldest |-> n]
Torn == [newest |-> 0, oldest |-> 0]      \* a file cut short
Builds == [id : 0..MaxVersion, version : 0..MaxVersion]
NoBuild == [id |-> 0, version |-> 0]

ASSUME UpkeepAssumption ==
  /\ {MaxKey, MaxCA, MaxVersion, Patience} \subseteq Nat \ {0} /\ MaxFaults \in Nat
  /\ InPlace \in BOOLEAN

VARIABLES
  sign,      \* the server's configuration: the signing keys it holds
  ca,        \* the authorities it trusts and publishes; the newest issues certificates
  hostCert,  \* the authority of the server's own certificate
  dist,      \* dist_dir: a build, VERSION, and a count for the directory's time
  cache,     \* distCache: what was read of it
  issuer,    \* the table runners: cert_issuer, 0 when unknown
  heard,     \* check-ins of each runner since the server was started, up to Patience
  keyFile, caFile, \* a host: the adopted signing keys and authorities
  trusts,    \* the keys the process loaded
  trustsCA,  \* the authorities it loaded
  cert,      \* the authority that issued its certificate
  binary, running, \* the build on disk, the build it runs
  attempted, \* update-attempted
  want,      \* the build it is about to download
  pc,        \* its step
  faults,
  missed,    \* history: runners whose last refresh failed
  botched    \* history: runners that a failure or death took out of an update
server     == <<sign, ca, hostCert, dist, cache, issuer, heard>>
files      == <<keyFile, caFile, cert>>
process    == <<trusts, trustsCA>>
update     == <<binary, running, attempted, want>>
hist       == <<faults, missed, botched>>
upkeepVars == <<server, files, process, update, pc, hist>>

Set(f, r, v) == [f EXCEPT ![r] = v]
Goes(r, step) == pc' = Set(pc, r, step)
Faulty == faults < MaxFaults /\ faults' = faults + 1

\* The handshake, each side checking the other's certificate.
connects(r) == hostCert \in Spans(trustsCA[r]) /\ cert[r] \in Spans(ca)
-----------------------------------------------------------------------------
(* The server.                                                               *)
\* (slip) Only the primary key signs.
signWithOne == {sign.newest}
signWithAll == Spans(sign)

\* handleTrustBundle: both sets, signed by every key.
handleTrustBundle == [keys |-> sign, bundle |-> ca, signatures |-> signWithAll]

\* (slip) What was read once is served until the server restarts.
loadOnce == IF cache.time # 0 THEN cache ELSE dist
\* distCache.load: the directory is read again when its time has changed.
load == IF cache.time = dist.time THEN cache ELSE dist

handleUpdateManifest == [version |-> load.version, build |-> load.build, signatures |-> signWithAll]

\* SafeToDropOldCA: every runner's certificate, as of its last check-in, is under the new one.
SafeToDropOldCA == \A r \in Runners : issuer[r] = ca.newest
-----------------------------------------------------------------------------
(* The runner's cycle, RunOnce.                                              *)
\* LoadTrustedSigningKeys: a set that cannot be read makes way for the key of the installation;
\* authorities that cannot be read end every start.
processStarts(r) ==
  /\ pc[r] = "down" /\ binary[r] # NoBuild /\ caFile[r] # Torn /\ Goes(r, "trust")
  /\ trusts' = Set(trusts, r, IF keyFile[r] = Torn THEN Only(1) ELSE keyFile[r])
  /\ trustsCA' = Set(trustsCA, r, caFile[r]) /\ running' = Set(running, r, binary[r])
  /\ UNCHANGED <<server, files, binary, attempted, want, hist>>

verifyAny(r, signatures) == Spans(trusts[r]) \cap signatures # {}
Accepts(r) == connects(r) /\ verifyAny(r, handleTrustBundle.signatures)

\* What is signed by a key the process trusts is written.
adoptSigningKeys(r, fetched) == keyFile' = Set(keyFile, r, fetched.keys)
adoptCABundle(r, fetched) == caFile' = Set(caFile, r, fetched.bundle)

\* RefreshTrust: the runner adopts both; a change needs a restart.
RefreshTrust(r) ==
  /\ pc[r] = "trust"
  /\ IF Accepts(r)
     THEN /\ adoptSigningKeys(r, handleTrustBundle) /\ adoptCABundle(r, handleTrustBundle)
          /\ Goes(r, IF keyFile' = keyFile /\ caFile' = caFile THEN "update" ELSE "down")
          /\ missed' = missed \ {r}
     ELSE Goes(r, "update") /\ UNCHANGED <<keyFile, caFile, missed>>
  /\ UNCHANGED <<server, cert, process, update, faults, botched>>

\* No failure is fatal: the answer is lost, or a file cannot be written; or the process dies
\* with a file written in part.
refreshFails(r) ==
  /\ pc[r] = "trust" /\ Faulty /\ missed' = missed \cup {r}
  /\ \/ Goes(r, "update") /\ UNCHANGED <<keyFile, caFile>>
     \/ /\ Accepts(r)
        /\ \/ /\ keyFile[r] # sign
              /\ \/ keyFile' = Set(keyFile, r, Torn) /\ Goes(r, "down") /\ UNCHANGED caFile
                 \/ /\ caFile[r] # ca /\ adoptCABundle(r, handleTrustBundle) /\ Goes(r, "down")
                    /\ UNCHANGED keyFile
           \/ /\ caFile[r] # ca /\ adoptSigningKeys(r, handleTrustBundle)
              /\ \/ caFile' = Set(caFile, r, Torn) /\ Goes(r, "down")
                 \/ UNCHANGED caFile /\ Goes(r, IF keyFile[r] = sign THEN "update" ELSE "down")
  /\ UNCHANGED <<server, cert, process, update, botched>>

\* (slip) That a version was tried is not remembered.
notAttempted(r, version) == FALSE
alreadyAttempted(r, version) == attempted[r] = version

\* UpdateIfAvailable: a signed manifest that names another version, not tried before.
UpdateIfAvailable(r) ==
  /\ pc[r] = "update"
  /\ IF connects(r)
     THEN /\ cache' = load
          /\ IF /\ handleUpdateManifest.version \notin {0, running[r].version}
                /\ verifyAny(r, handleUpdateManifest.signatures)
                /\ ~alreadyAttempted(r, handleUpdateManifest.version)
             THEN want' = Set(want, r, [build |-> load.build, version |-> load.version])
                  /\ Goes(r, "download")
             ELSE Goes(r, "renew") /\ UNCHANGED want
     ELSE Goes(r, "renew") /\ UNCHANGED <<cache, want>>
  /\ UNCHANGED <<sign, ca, hostCert, dist, issuer, heard, files, process, binary, running, attempted,
                 hist>>

\* downloadBinary, and whether the hash is that of the manifest.
downloadBinary(r) == connects(r) /\ dist.build = want[r].build

\* recordAttempt and replaceExecutable.
replaceExecutable(r) ==
  /\ pc[r] = "download"
  /\ IF downloadBinary(r)
     THEN /\ attempted' = Set(attempted, r, want[r].version)
          /\ binary' = Set(binary, r, dist.build) /\ botched' = botched \ {r} /\ Goes(r, "down")
     ELSE Goes(r, "renew") /\ UNCHANGED <<attempted, binary, botched>>
  /\ UNCHANGED <<server, files, process, running, want, faults, missed>>

\* The attempt is recorded first: what fails after it is not tried again.  A death between the
\* two renames leaves no binary; so does a failed restoration.
replaceFails(r) ==
  /\ pc[r] = "download" /\ Faulty /\ botched' = botched \cup {r}
  /\ \/ Goes(r, "renew") /\ UNCHANGED <<attempted, binary>>
     \/ /\ downloadBinary(r)
        /\ attempted' = Set(attempted, r, want[r].version)
        /\ \/ \E step \in {"renew", "down"} : Goes(r, step) /\ UNCHANGED binary
           \/ binary' = Set(binary, r, NoBuild) /\ Goes(r, "down")
  /\ UNCHANGED <<server, files, process, running, want, missed>>

\* RenewIfNeeded: a certificate near its end is replaced, by one of the newest authority.
RenewIfNeeded(r) ==
  /\ pc[r] = "renew"
  /\ \/ connects(r) /\ cert[r] # ca.newest /\ cert' = Set(cert, r, ca.newest) /\ Goes(r, "down")
     \/ Goes(r, "checkin") /\ UNCHANGED cert
  /\ UNCHANGED <<server, keyFile, caFile, process, update, hist>>

\* Tick: the server records who issued the certificate it saw.
Tick(r) ==
  /\ pc[r] = "checkin" /\ Goes(r, "trust")
  /\ IF connects(r)
     THEN /\ issuer' = Set(issuer, r, cert[r])
          /\ heard' = Set(heard, r, IF heard[r] < Patience THEN heard[r] + 1 ELSE Patience)
     ELSE UNCHANGED <<issuer, heard>>
  /\ UNCHANGED <<sign, ca, hostCert, dist, cache, files, process, update, hist>>
-----------------------------------------------------------------------------
(* The operator: every change of the configuration restarts the server.      *)
ServerStarts ==
  /\ heard' = [r \in Runners |-> 0] /\ cache' = [build |-> NoBuild, version |-> 0, time |-> 0]
  /\ UNCHANGED <<dist, issuer, files, process, update, pc, missed, botched>>

\* signingKeysFor: the new key, and those before it in previous_keys.
addSigningKey ==
  /\ sign.newest < MaxKey /\ sign' = [sign EXCEPT !.newest = @ + 1]
  /\ ServerStarts /\ UNCHANGED <<ca, hostCert, faults>>

dropSigningKeys ==
  /\ sign.oldest < sign.newest /\ \A r \in Runners : heard[r] = Patience
  /\ sign' = Only(sign.newest) /\ ServerStarts /\ UNCHANGED <<ca, hostCert, faults>>

\* The bundle gets the new authority, which issues from now on; the server keeps its certificate.
addCA ==
  /\ ca.newest < MaxCA /\ ca' = [ca EXCEPT !.newest = @ + 1]
  /\ ServerStarts /\ UNCHANGED <<sign, hostCert, faults>>

dropCA ==
  /\ ca.oldest < ca.newest /\ SafeToDropOldCA
  /\ ca' = Only(ca.newest) /\ hostCert' = ca.newest /\ ServerStarts /\ UNCHANGED <<sign, faults>>

serverRestarts == Faulty /\ ServerStarts /\ UNCHANGED <<sign, ca, hostCert>>

\* A new build is copied into dist_dir, with the version stamped into it or the one before,
publishBuild ==
  /\ dist.build.id = dist.version /\ dist.version < MaxVersion
  /\ \E v \in {dist.version, dist.version + 1} :
       dist' = [dist EXCEPT !.build = [id |-> dist.version + 1, version |-> v], !.time = @ + 1]
  /\ UNCHANGED <<sign, ca, hostCert, cache, issuer, heard, files, process, update, pc, hist>>

\* and then VERSION.
publishVersion ==
  /\ dist.build.id > dist.version
  /\ dist' = [dist EXCEPT !.version = dist.build.id, !.time = IF InPlace THEN @ ELSE @ + 1]
  /\ UNCHANGED <<sign, ca, hostCert, cache, issuer, heard, files, process, update, pc, hist>>
-----------------------------------------------------------------------------
FirstBuild == [id |-> 1, version |-> 1]

\* A fleet that runs what is published, with one signing key and one authority.
UpkeepInit ==
  /\ sign = Only(1) /\ ca = Only(1) /\ hostCert = 1
  /\ dist = [build |-> FirstBuild, version |-> 1, time |-> 1]
  /\ cache = [build |-> NoBuild, version |-> 0, time |-> 0]
  /\ issuer = [r \in Runners |-> 0] /\ heard = [r \in Runners |-> 0]
  /\ keyFile = [r \in Runners |-> Only(1)] /\ caFile = [r \in Runners |-> Only(1)]
  /\ trusts = [r \in Runners |-> Only(1)] /\ trustsCA = [r \in Runners |-> Only(1)]
  /\ cert = [r \in Runners |-> 1]
  /\ binary = [r \in Runners |-> FirstBuild] /\ running = [r \in Runners |-> FirstBuild]
  /\ attempted = [r \in Runners |-> 0]
  /\ want = [r \in Runners |-> [build |-> NoBuild, version |-> 0]]
  /\ pc = [r \in Runners |-> "down"] /\ faults = 0 /\ missed = {} /\ botched = {}

RunOnce(r) ==
  \/ processStarts(r) \/ RefreshTrust(r) \/ UpdateIfAvailable(r) \/ replaceExecutable(r)
  \/ RenewIfNeeded(r) \/ Tick(r)

Operator ==
  addSigningKey \/ dropSigningKeys \/ addCA \/ dropCA \/ serverRestarts \/ publishBuild \/ publishVersion

UpkeepNext == (\E r \in Runners : RunOnce(r) \/ refreshFails(r) \/ replaceFails(r)) \/ Operator

UpkeepSpec == UpkeepInit /\ [][UpkeepNext]_upkeepVars

\* A runner goes on with its cycle, and is started again when it ended (systemd); who copied a
\* build writes the version too.
FairUpkeepSpec ==
  /\ UpkeepSpec
  /\ \A r \in Runners : WF_upkeepVars(RunOnce(r))
  /\ WF_upkeepVars(publishVersion)
-----------------------------------------------------------------------------
(* No rotation leaves a runner behind: whatever the operator added and       *)
(* removed, in the order the README gives, a runner and the server accept    *)
(* each other's certificate, and the runner accepts a key the server signs   *)
(* with; unless the runner's last refresh failed, which nothing reports.     *)
NoneLeftBehind ==
  \A r \in Runners \ missed :
    /\ Spans(keyFile[r]) \cap Spans(sign) # {}
    /\ hostCert \in Spans(caFile[r]) /\ cert[r] \in Spans(ca)

(* The build that is published in the end is the build every runner runs in  *)
(* the end, if it follows the server and no failure took it out of an update.*)
Follows(r) == r \notin missed \cup botched
RolloutCompletes ==
  \A r \in Runners : <>[](Follows(r) => running[r] = dist.build)

(* A build that reports another version than it was published under does not *)
(* send a runner into a loop of restarts: it goes on checking in, unless a   *)
(* death cost it its binary or its authorities.                              *)
KeepsWorking ==
  \A r \in Runners : []<>(pc[r] = "checkin" \/ binary[r] = NoBuild \/ caFile[r] = Torn)
=============================================================================
