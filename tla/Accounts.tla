------------------------------- MODULE Accounts -------------------------------
(* The accounts of the web listener, their sessions, and the throttle of the *)
(* login (internal/server/users.go, users_store.go; cmd/server/main.go for    *)
(* -passwd).                                                                 *)
(*                                                                           *)
(* Every statement on the database is a step of its own, and requests of     *)
(* several operators interleave between them.  A password is a number that   *)
(* is not set twice; a session remembers, for the properties only, the one   *)
(* it was opened with.  Two sessions of one account and password are one.    *)
EXTENDS Integers, FiniteSets, Sequences

CONSTANTS
  Root,        \* the account the first start creates
  Others,      \* names of further accounts
  Requests,    \* requests, and -passwd commands, at work at the same time
  Logins,      \* logins at work at the same time
  Grace,       \* loginFailureGrace
  MaxPassword, \* bound: passwords ever set
  MaxChanges,  \* bound: requests
  MaxRestarts  \* bound: restarts of the server

Names == {Root} \cup Others

ASSUME AccountsAssumption ==
  /\ Root \notin Others /\ IsFiniteSet(Logins)
  /\ MaxPassword \in Nat \ {0}
  /\ {Grace, MaxChanges, MaxRestarts} \subseteq Nat

VARIABLES
  user,     \* the table users: role, disabled, and the password behind the hash
  sessions, \* the table sessions
  req,      \* of every request: its step, its target, the changes still to make
  login,    \* of every login: its step, the account, the password that was right
  fails,    \* loginLimiter: failures, up to one beyond the grace; whether locked out
  passwords, changes, restarted, \* counters of the bounds
  raced,    \* history: two changes that may remove an administrator overlapped
  overtaken,\* history: logins that a change of their account overtook
  strays,   \* history: sessions such a login opened, or a restart left standing
  tries     \* history: wrong passwords verified since the record was cleared; after a
            \* lockout, as if the grace had just been used up
db    == <<user, sessions>>
count == <<passwords, changes, restarted>>
throttle == <<fails, tries>>
hist  == <<raced, overtaken, strays>>
vars  == <<db, req, login, throttle, count, hist>>

Absent == [role |-> "none", disabled |-> FALSE, password |-> 0]
User == {Absent} \cup [role : {"admin", "viewer"}, disabled : BOOLEAN, password : 1..MaxPassword]
Session == [name : Names, password : 1..MaxPassword]
NoRequest == [pc |-> "idle", name |-> Root, todo |-> <<>>]
NoLogin == [pc |-> "idle", name |-> Root, password |-> 0]

\* The account of the first start; or, as some time later, administrators of every name.
Init ==
  /\ \E held \in {{Root}, Names} :
       user = [n \in Names |-> IF n \in held
                 THEN [role |-> "admin", disabled |-> FALSE, password |-> 1] ELSE Absent]
  /\ sessions = {} /\ passwords = 1
  /\ req = [r \in Requests |-> NoRequest] /\ login = [l \in Logins |-> NoLogin]
  /\ fails = [n \in Names |-> [count |-> 0, locked |-> FALSE]]
  /\ changes = 0 /\ restarted = 0
  /\ raced = FALSE /\ overtaken = {} /\ strays = {}
  /\ tries = [n \in Names |-> 0]
-----------------------------------------------------------------------------
(* The accounts.                                                             *)
There(n) == user[n] # Absent
IsAdmin(n) == user[n].role = "admin"
EnabledAdmin(n) == IsAdmin(n) /\ ~user[n].disabled

\* (slip) The account itself is counted.
countsItself(n) == EnabledAdmin(n) => \E m \in Names : EnabledAdmin(m)

\* requireAdminUnaffected: somebody else remains, or it is no enabled administrator.
requireAdminUnaffected(n) == EnabledAdmin(n) => \E m \in Names \ {n} : EnabledAdmin(m)

\* SessionUser: whom a cookie stands for.
SessionUser(s) == There(s.name) /\ ~user[s.name].disabled

\* The changes of a request, and what they do to a row.  "password" takes the next one.
Removing == {"viewer", "off", "delete"}
EndsSessions == {"off", "delete", "password"}

Changed(u, change) ==
  CASE change \in {"admin", "viewer"} -> [u EXCEPT !.role = change]
    [] change \in {"on", "off"} -> [u EXCEPT !.disabled = (change = "off")]
    [] change = "password" -> [u EXCEPT !.password = passwords + 1]
    [] change = "delete" -> Absent

Stage(todo) == IF Head(todo) \in Removing THEN "check" ELSE "write"
Begins(r, n, todo) ==
  /\ req[r].pc = "idle" /\ changes < MaxChanges /\ changes' = changes + 1
  /\ req' = [req EXCEPT ![r] = [pc |-> Stage(todo), name |-> n, todo |-> todo]]
  /\ UNCHANGED <<db, login, throttle, passwords, restarted, hist>>

\* handleUpdateUser: what differs from the account as it was read: role, then disabled,
\* then the password.
Updates(n) ==
  {role \o disabled \o password :
    role \in {<<>>, <<IF IsAdmin(n) THEN "viewer" ELSE "admin">>},
    disabled \in {<<>>, <<IF user[n].disabled THEN "on" ELSE "off">>},
    password \in {<<>>, <<"password">>}} \ {<<>>}

handleUpdateUser(r, s, n) ==
  /\ s \in sessions /\ SessionUser(s) /\ IsAdmin(s.name) /\ There(n)
  /\ \E todo \in Updates(n) : Begins(r, n, todo)

handleDeleteUser(r, s, n) ==
  /\ s \in sessions /\ SessionUser(s) /\ IsAdmin(s.name) /\ s.name # n
  /\ Begins(r, n, <<"delete">>)

\* handleChangeOwnPassword: the operator knows the current one.
handleChangeOwnPassword(r, s) ==
  /\ s \in sessions /\ SessionUser(s)
  /\ Begins(r, s.name, <<"password">>)

\* arcatum-server -passwd: a process beside the server.
setPassword(r, n) ==
  /\ There(n)
  /\ Begins(r, n, IF user[n].disabled THEN <<"password", "on">> ELSE <<"password">>)

\* CreateUser is one INSERT; -passwd does the same for a name that is not there.
CreateUser(n, role) ==
  /\ ~There(n) /\ passwords < MaxPassword /\ passwords' = passwords + 1
  /\ changes < MaxChanges /\ changes' = changes + 1
  /\ user' = [user EXCEPT ![n] = [role |-> role, disabled |-> FALSE, password |-> passwords + 1]]
  /\ UNCHANGED <<sessions, req, login, throttle, restarted, hist>>

Becomes(r, state) == req' = [req EXCEPT ![r] = state]
Target(r) == req[r].name
Rest(r) ==
  LET todo == Tail(req[r].todo)
  IN IF todo = <<>> THEN NoRequest ELSE [req[r] EXCEPT !.todo = todo, !.pc = Stage(todo)]

\* The check before a change that may remove an administrator; refused, the request ends.
checks(r) ==
  /\ req[r].pc = "check"
  /\ Becomes(r, IF There(Target(r)) /\ requireAdminUnaffected(Target(r))
                THEN [req[r] EXCEPT !.pc = "write"] ELSE NoRequest)
  /\ raced' = (raced \/ \E q \in Requests \ {r} :
                          req[q].pc = "write" /\ Head(req[q].todo) \in Removing)
  /\ UNCHANGED <<db, login, throttle, count, overtaken, strays>>

\* (slip) A new password leaves the sessions alone.
writesOnly(r) ==
  /\ req[r].pc = "write"
  /\ LET change == Head(req[r].todo) IN
     /\ change = "password" => passwords < MaxPassword
     /\ passwords' = IF change = "password" THEN passwords + 1 ELSE passwords
     /\ IF There(Target(r))
        THEN /\ user' = [user EXCEPT ![Target(r)] = Changed(@, change)]
             /\ Becomes(r, IF change \in {"off", "delete"} THEN [req[r] EXCEPT !.pc = "drop"]
                           ELSE Rest(r))
        ELSE Becomes(r, NoRequest) /\ UNCHANGED user
  /\ UNCHANGED <<sessions, login, throttle, changes, restarted, hist>>

\* The UPDATE, or DELETE; an account that is gone meanwhile ends the request.
writes(r) ==
  /\ req[r].pc = "write"
  /\ LET change == Head(req[r].todo) IN
     /\ change = "password" => passwords < MaxPassword
     /\ passwords' = IF change = "password" THEN passwords + 1 ELSE passwords
     /\ IF There(Target(r))
        THEN /\ user' = [user EXCEPT ![Target(r)] = Changed(@, change)]
             /\ Becomes(r, IF change \in EndsSessions THEN [req[r] EXCEPT !.pc = "drop"]
                           ELSE Rest(r))
        ELSE Becomes(r, NoRequest) /\ UNCHANGED user
  /\ UNCHANGED <<sessions, login, throttle, changes, restarted, hist>>

DeleteUserSessions(r) ==
  /\ req[r].pc = "drop" /\ Becomes(r, Rest(r))
  /\ sessions' = {s \in sessions : s.name # Target(r)}
  /\ overtaken' = overtaken \cup {l \in Logins : /\ login[l].pc \in {"user", "session"}
                                                 /\ login[l].name = Target(r)}
  /\ UNCHANGED <<user, login, throttle, count, raced, strays>>
-----------------------------------------------------------------------------
(* Logins and sessions.                                                      *)
At(l, state) == login' = [login EXCEPT ![l] = state]

\* handleLogin: an account that is locked out is not even verified.
blocked(n) == fails[n].locked

handleLogin(l, n) ==
  /\ login[l].pc = "idle" /\ ~blocked(n)
  /\ At(l, [pc |-> "verify", name |-> n, password |-> 0])
  /\ UNCHANGED <<db, req, throttle, count, hist>>

\* Authenticate: the password is right,
verified(l) ==
  LET n == login[l].name IN
  /\ login[l].pc = "verify" /\ There(n)
  /\ At(l, [pc |-> "user", name |-> n, password |-> user[n].password])
  /\ overtaken' = overtaken \ {l}
  /\ UNCHANGED <<db, req, throttle, count, raced, strays>>

\* and the account, which is read again, may log in; the record of failures is cleared.
authenticated(l) ==
  LET n == login[l].name IN
  /\ login[l].pc = "user" /\ There(n) /\ ~user[n].disabled
  /\ At(l, [login[l] EXCEPT !.pc = "session"])
  /\ fails' = [fails EXCEPT ![n] = [count |-> 0, locked |-> FALSE]]
  /\ tries' = [tries EXCEPT ![n] = 0]
  /\ UNCHANGED <<db, req, count, hist>>

Counted(n) == IF n > Grace THEN n ELSE n + 1

\* (slip) The lockout begins once, when the grace is used up.
failOnce(n) ==
  fails' = [fails EXCEPT ![n] = [count |-> Counted(@.count), locked |-> @.locked \/ @.count = Grace]]

\* loginLimiter.fail: beyond the grace every failure begins a lockout.
fail(n) ==
  fails' = [fails EXCEPT ![n] = [count |-> Counted(@.count), locked |-> @.locked \/ @.count >= Grace]]

\* Authenticate fails: a wrong password, no such account, a disabled one.
refused(l) ==
  LET n == login[l].name IN
  /\ \/ login[l].pc = "verify"
     \/ login[l].pc = "user" /\ (There(n) => user[n].disabled)
  /\ At(l, NoLogin) /\ fail(n)
  /\ tries' = [tries EXCEPT ![n] = @ + 1]
  /\ UNCHANGED <<db, req, count, hist>>

CreateSession(l) ==
  LET s == [name |-> login[l].name, password |-> login[l].password] IN
  /\ login[l].pc = "session" /\ At(l, NoLogin)
  /\ sessions' = sessions \cup {s}
  /\ strays' = IF l \in overtaken THEN strays \cup {s} ELSE strays
  /\ overtaken' = overtaken \ {l}
  /\ UNCHANGED <<user, req, throttle, count, raced>>

\* A session ends by logout, by its expiry, or when a cookie of a lost account is shown.
DeleteSession(s) ==
  /\ s \in sessions /\ sessions' = sessions \ {s}
  /\ UNCHANGED <<user, req, login, throttle, count, hist>>

\* The lockout is over.
lockoutEnds(n) ==
  /\ fails[n].locked
  /\ fails' = [fails EXCEPT ![n] = [count |-> @.count, locked |-> FALSE]]
  /\ tries' = [tries EXCEPT ![n] = Grace]
  /\ UNCHANGED <<db, req, login, count, hist>>

\* An hour after the last failure the account is forgotten; a lockout is shorter.
forgets(n) ==
  /\ fails[n].count > 0 /\ ~fails[n].locked
  /\ fails' = [fails EXCEPT ![n] = [count |-> 0, locked |-> FALSE]]
  /\ tries' = [tries EXCEPT ![n] = 0]
  /\ UNCHANGED <<db, req, login, count, hist>>

\* Requests are cut off between two statements; the limiter is memory.
restarts ==
  /\ restarted < MaxRestarts /\ restarted' = restarted + 1
  /\ req' = [r \in Requests |-> NoRequest] /\ login' = [l \in Logins |-> NoLogin]
  /\ fails' = [n \in Names |-> [count |-> 0, locked |-> FALSE]]
  /\ tries' = [n \in Names |-> 0]
  /\ overtaken' = {}
  /\ strays' = strays \cup {s \in sessions : \E r \in Requests : /\ req[r].pc = "drop"
                                                                 /\ Target(r) = s.name}
  /\ UNCHANGED <<db, passwords, changes, raced>>
-----------------------------------------------------------------------------
Next ==
  \/ \E r \in Requests :
       \/ \E s \in Session, n \in Names : handleUpdateUser(r, s, n) \/ handleDeleteUser(r, s, n)
       \/ \E s \in Session : handleChangeOwnPassword(r, s)
       \/ \E n \in Names : setPassword(r, n)
       \/ checks(r) \/ writes(r) \/ DeleteUserSessions(r)
  \/ \E n \in Names : \E role \in {"admin", "viewer"} : CreateUser(n, role)
  \/ \E l \in Logins :
       \/ \E n \in Names : handleLogin(l, n)
       \/ verified(l) \/ authenticated(l) \/ refused(l) \/ CreateSession(l)
  \/ \E s \in Session : DeleteSession(s)
  \/ \E n \in Names : lockoutEnds(n) \/ forgets(n)
  \/ restarts

Spec == Init /\ [][Next]_vars
-----------------------------------------------------------------------------
Changes == Removing \cup {"admin", "on", "password"}
Request == [pc : {"idle", "check", "write", "drop"}, name : Names, todo : Seq(Changes)]
Login == [pc : {"idle", "verify", "user", "session"}, name : Names, password : 0..MaxPassword]

TypeOK ==
  /\ user \in [Names -> User] /\ sessions \subseteq Session
  /\ req \in [Requests -> Request]
  /\ \A r \in Requests : req[r].pc # "idle" => req[r].todo # <<>>
  /\ login \in [Logins -> Login]
  /\ \A l \in Logins : login[l].pc \in {"user", "session"} => login[l].password # 0
  /\ fails \in [Names -> [count : 0..(Grace + 1), locked : BOOLEAN]]
  /\ passwords \in 1..MaxPassword

\* There is always an enabled administrator: no sequence of demotions, disablings and
\* deletions, by whomever and however interrupted, removes the last one.  (Left out: two
\* that overlap between the check and the change.)
AlwaysAnAdmin == ~raced => \E n \in Names : EnabledAdmin(n)

\* A session of an account ends with the password it was opened with: a changed password,
\* or an account deleted and created again, does not answer to an old cookie, but while the
\* change is under way.  (Left out: a login, or a restart, between its two statements.)
SessionsFollow ==
  \A s \in sessions \ strays :
    \/ user[s.name].password = s.password
    \/ \E r \in Requests : req[r].pc = "drop" /\ Target(r) = s.name

\* Wrong passwords are verified only within the grace and then, between two lockouts, no
\* more often than logins are let in at the same time.
Throttled == \A n \in Names : tries[n] <= Grace + Cardinality(Logins)
=============================================================================
