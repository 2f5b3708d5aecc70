---------------------------- MODULE AccountsProofs ----------------------------
(* Theorems about Accounts, for every number of accounts, requests and        *)
(* logins.                                                                     *)
EXTENDS Accounts, SequenceTheorems, FiniteSetTheorems, TLAPS

USE AccountsAssumption DEF AccountsAssumption, db, count, throttle, hist, Names

Deletes(r) == req[r].pc = "drop"
Removes(r) == req[r].pc = "write" /\ Head(req[r].todo) \in Removing

\* What the check found still holds, and only one request has been let through.
Checked ==
  ~raced => /\ \A r \in Requests : Removes(r) => requireAdminUnaffected(Target(r))
            /\ \A r, q \in Requests : Removes(r) /\ Removes(q) => r = q

\* A login that nobody overtook holds the password of its account.
LoginsFollow ==
  \A l \in Logins \ overtaken :
    login[l].pc \in {"user", "session"} =>
      \/ user[login[l].name].password = login[l].password
      \/ \E r \in Requests : Deletes(r) /\ Target(r) = login[l].name

IInv == TypeOK /\ AlwaysAnAdmin /\ Checked /\ SessionsFollow /\ LoginsFollow
-----------------------------------------------------------------------------
LEMMA InitIInv == Init => IInv
<1> SUFFICES ASSUME Init PROVE IInv
  OBVIOUS
<1> USE DEF Init
<1>1. PICK held \in {{Root}, Names} :
        user = [n \in Names |-> IF n \in held
                 THEN [role |-> "admin", disabled |-> FALSE, password |-> 1] ELSE Absent]
  OBVIOUS
<1>2. user \in [Names -> User]
  BY <1>1 DEF User
<1>3. req \in [Requests -> Request] /\ \A r \in Requests : req[r].pc = "idle"
  BY DEF NoRequest, Request
<1>4. login \in [Logins -> Login] /\ \A l \in Logins : login[l].pc = "idle"
  BY DEF NoLogin, Login
<1>5. fails \in [Names -> [count : 0..(Grace + 1), locked : BOOLEAN]]
  OBVIOUS
<1>6. TypeOK
  BY <1>2, <1>3, <1>4, <1>5 DEF TypeOK
<1>7. AlwaysAnAdmin
  BY <1>1 DEF AlwaysAnAdmin, EnabledAdmin, IsAdmin
<1>8. Checked /\ SessionsFollow /\ LoginsFollow
  BY <1>3, <1>4 DEF Checked, SessionsFollow, LoginsFollow, Removes
<1> QED
  BY <1>6, <1>7, <1>8 DEF IInv
-----------------------------------------------------------------------------
(* A request begins.                                                         *)
LEMMA UpdatesAreChanges ==
  ASSUME NEW n \in Names, NEW todo \in Updates(n)
  PROVE  todo \in Seq(Changes) /\ todo # <<>>
<1> DEFINE role == {<<>>, <<IF IsAdmin(n) THEN "viewer" ELSE "admin">>}
           disabled == {<<>>, <<IF user[n].disabled THEN "on" ELSE "off">>}
           password == {<<>>, <<"password">>}
<1>1. role \subseteq Seq(Changes) /\ disabled \subseteq Seq(Changes)
      /\ password \subseteq Seq(Changes)
  BY DEF Changes, Removing
<1>2. PICK a \in role, b \in disabled, c \in password : todo = (a \o b) \o c
  BY DEF Updates
<1>3. a \in Seq(Changes) /\ b \in Seq(Changes) /\ c \in Seq(Changes)
  BY <1>1
<1> HIDE DEF role, disabled, password
<1>4. a \o b \in Seq(Changes)
  BY <1>3, ConcatProperties
<1>5. todo \in Seq(Changes)
  BY <1>2, <1>3, <1>4, ConcatProperties
<1> QED
  BY <1>5 DEF Updates

LEMMA BeginsStep ==
  ASSUME IInv, NEW r \in Requests, NEW n \in Names,
         NEW todo \in Seq(Changes), todo # <<>>, Begins(r, n, todo)
  PROVE  IInv'
<1> USE DEF IInv
<1>1. /\ req[r].pc = "idle"
      /\ req' = [req EXCEPT ![r] = [pc |-> Stage(todo), name |-> n, todo |-> todo]]
      /\ UNCHANGED <<user, sessions, login, fails, passwords, raced, overtaken, strays>>
  BY DEF Begins
<1>2. Stage(todo) \in {"check", "write"} /\ (Stage(todo) = "write" => Head(todo) \notin Removing)
  BY DEF Stage
<1>3. req' \in [Requests -> Request]
  BY <1>1, <1>2 DEF TypeOK, Request
<1>4. TypeOK'
  BY <1>1, <1>3 DEF TypeOK
<1>5. \A q \in Requests : (Removes(q)' => q # r /\ Removes(q)) /\ (q # r => Target(q)' = Target(q))
  BY <1>1, <1>2 DEF TypeOK, Removes, Target
<1>6. \A q \in Requests : Deletes(q) => Deletes(q)' /\ Target(q)' = Target(q)
  BY <1>1 DEF TypeOK, Deletes, Target
<1>7. AlwaysAnAdmin'
  BY <1>1 DEF AlwaysAnAdmin, EnabledAdmin, IsAdmin
<1>8. Checked'
  BY <1>1, <1>5 DEF Checked, requireAdminUnaffected, EnabledAdmin, IsAdmin
<1>9. SessionsFollow' /\ LoginsFollow'
  BY <1>1, <1>6 DEF SessionsFollow, LoginsFollow, Deletes
<1> QED
  BY <1>4, <1>7, <1>8, <1>9
-----------------------------------------------------------------------------
(* The steps of a request.                                                   *)
LEMMA CheckStep == ASSUME IInv, NEW r \in Requests, checks(r) PROVE IInv'
<1> USE DEF IInv
<1> DEFINE state == IF There(Target(r)) /\ requireAdminUnaffected(Target(r))
                    THEN [req[r] EXCEPT !.pc = "write"] ELSE NoRequest
<1>1. /\ req[r].pc = "check" /\ req' = [req EXCEPT ![r] = state]
      /\ UNCHANGED <<user, sessions, login, fails, passwords, overtaken, strays>>
  BY DEF checks, Becomes
<1>2. /\ req[r] = [pc |-> "check", name |-> Target(r), todo |-> req[r].todo]
      /\ req[r].todo \in Seq(Changes) /\ Target(r) \in Names
  BY <1>1 DEF TypeOK, Request, Target
<1>3. \/ /\ state = [pc |-> "write", name |-> Target(r), todo |-> req[r].todo]
         /\ requireAdminUnaffected(Target(r))
      \/ state = NoRequest
  BY <1>2
<1>4. req' \in [Requests -> Request] /\ \A q \in Requests : q # r => req'[q] = req[q]
  BY <1>1, <1>2, <1>3 DEF TypeOK, Request, NoRequest
<1>5. req'[r] = state
  BY <1>1 DEF TypeOK
<1> HIDE DEF state
<1>6. \A q \in Requests : req'[q].pc # "idle" => req'[q].todo # <<>>
  BY <1>1, <1>3, <1>4, <1>5 DEF TypeOK, NoRequest
<1>7. TypeOK'
  BY <1>1, <1>4, <1>6 DEF TypeOK
<1>8. \A q \in Requests : Deletes(q) => Deletes(q)' /\ Target(q)' = Target(q)
  BY <1>1, <1>4 DEF Deletes, Target
<1>9. AlwaysAnAdmin'
  <2>1. raced => raced'
    BY DEF checks
  <2> QED
    BY <1>1, <2>1 DEF AlwaysAnAdmin, EnabledAdmin, IsAdmin
<1>10. Checked'
  <2> SUFFICES ASSUME ~raced' PROVE Checked'
    BY DEF Checked
  <2>1. ~raced /\ \A q \in Requests \ {r} : ~Removes(q)
    BY DEF checks, Removes
  <2>2. \A q \in Requests \ {r} : ~Removes(q)'
    BY <2>1, <1>4 DEF Removes
  <2>3. Removes(r)' => Target(r)' = Target(r) /\ requireAdminUnaffected(Target(r))
    BY <1>3, <1>5 DEF Removes, Target, NoRequest
  <2> QED
    BY <1>1, <2>2, <2>3 DEF Checked, requireAdminUnaffected, EnabledAdmin, IsAdmin
<1>11. SessionsFollow' /\ LoginsFollow'
  BY <1>1, <1>8 DEF SessionsFollow, LoginsFollow, Deletes
<1> QED
  BY <1>7, <1>9, <1>10, <1>11

\* What is left of a request: the next change is checked before it is written.
LEMMA RestOf ==
  ASSUME TypeOK, NEW r \in Requests, req[r].pc # "idle"
  PROVE  /\ Rest(r) \in Request /\ Rest(r).pc \in {"idle", "check", "write"}
         /\ Rest(r).pc # "idle" => Rest(r).todo # <<>>
         /\ Rest(r).pc = "write" => Head(Rest(r).todo) \notin Removing
<1> DEFINE todo == Tail(req[r].todo)
<1>1. /\ req[r] \in Request /\ req[r].todo \in Seq(Changes) /\ req[r].todo # <<>>
      /\ req[r].name \in Names
  BY DEF TypeOK, Request
<1>2. req[r] = [pc |-> req[r].pc, name |-> req[r].name, todo |-> req[r].todo]
  BY <1>1 DEF Request
<1>3. todo \in Seq(Changes)
  BY <1>1
<1> HIDE DEF todo
<1>4. Rest(r) = IF todo = <<>> THEN NoRequest
                ELSE [req[r] EXCEPT !.todo = todo, !.pc = Stage(todo)]
  BY DEF Rest, todo
<1>5. CASE todo = <<>>
  BY <1>4, <1>5 DEF NoRequest, Request
<1>6. CASE todo # <<>>
  <2>1. Rest(r) = [pc |-> Stage(todo), name |-> req[r].name, todo |-> todo]
    BY <1>2, <1>4, <1>6
  <2>2. /\ Stage(todo) \in {"check", "write"}
        /\ Stage(todo) = "write" => Head(todo) \notin Removing
    BY DEF Stage
  <2> QED
    BY <1>1, <1>3, <1>6, <2>1, <2>2 DEF Request
<1> QED
  BY <1>5, <1>6

\* The table after a change: only its account differs, and only as the change says.
LEMMA ChangedUser ==
  ASSUME TypeOK, NEW u \in User, u # Absent, NEW change \in Changes,
         change = "password" => passwords < MaxPassword
  PROVE  /\ Changed(u, change) \in User
         /\ change \notin EndsSessions => Changed(u, change).password = u.password
         /\ /\ change \notin Removing /\ u.role = "admin" /\ ~u.disabled
            => Changed(u, change).role = "admin" /\ ~Changed(u, change).disabled
<1>1. /\ u.role \in {"admin", "viewer"} /\ u.disabled \in BOOLEAN
      /\ u.password \in 1..MaxPassword
      /\ u = [role |-> u.role, disabled |-> u.disabled, password |-> u.password]
  BY DEF User
<1>2. change \in {"viewer", "off", "delete", "admin", "on", "password"}
  BY DEF Changes, Removing
<1>3. CASE change \in {"admin", "viewer"}
  <2>1. Changed(u, change) = [role |-> change, disabled |-> u.disabled, password |-> u.password]
    BY <1>1, <1>3 DEF Changed
  <2> QED
    BY <1>1, <1>3, <2>1 DEF User, EndsSessions, Removing
<1>4. CASE change \in {"on", "off"}
  <2>1. Changed(u, change) = [role |-> u.role, disabled |-> change = "off",
                              password |-> u.password]
    BY <1>1, <1>4 DEF Changed
  <2>2. (change = "off") \in BOOLEAN
    OBVIOUS
  <2> QED
    BY <1>1, <1>4, <2>1, <2>2 DEF User, EndsSessions, Removing
<1>5. CASE change = "password"
  <2>1. Changed(u, change) = [role |-> u.role, disabled |-> u.disabled,
                              password |-> passwords + 1]
    BY <1>1, <1>5 DEF Changed
  <2>2. passwords + 1 \in 1..MaxPassword
    BY <1>5 DEF TypeOK
  <2> QED
    BY <1>1, <1>5, <2>1, <2>2 DEF User, EndsSessions, Removing
<1>6. CASE change = "delete"
  BY <1>6 DEF Changed, User, EndsSessions, Removing
<1> QED
  BY <1>2, <1>3, <1>4, <1>5, <1>6

\* The write of a change that may remove an administrator was checked, and alone.
LEMMA WriteStep == ASSUME IInv, NEW r \in Requests, writes(r) PROVE IInv'
<1> USE DEF IInv
<1> DEFINE change == Head(req[r].todo)
           n == Target(r)
           done == IF change \in EndsSessions THEN [req[r] EXCEPT !.pc = "drop"] ELSE Rest(r)
<1>1. /\ req[r].pc = "write"
      /\ change = "password" => passwords < MaxPassword
      /\ passwords' = IF change = "password" THEN passwords + 1 ELSE passwords
      /\ UNCHANGED <<sessions, login, fails, raced, overtaken, strays>>
  BY DEF writes
<1>2. /\ req[r] \in Request /\ req[r].todo \in Seq(Changes) /\ req[r].todo # <<>>
      /\ n \in Names /\ user[n] \in User
      /\ req[r] = [pc |-> "write", name |-> n, todo |-> req[r].todo]
  BY <1>1 DEF TypeOK, Request, Target
<1>3. change \in Changes
  BY <1>2
<1>4. \/ ~There(n) /\ req' = [req EXCEPT ![r] = NoRequest] /\ user' = user
      \/ /\ There(n) /\ req' = [req EXCEPT ![r] = done]
         /\ user' = [user EXCEPT ![n] = Changed(user[n], change)]
  BY DEF writes, Becomes
<1>5. /\ done \in Request
      /\ done.pc # "idle" => done.todo # <<>>
      /\ done.pc = "write" => Head(done.todo) \notin Removing
      /\ change \in EndsSessions => done.pc = "drop" /\ done.name = n
  <2>1. CASE change \in EndsSessions
    <3>1. done = [pc |-> "drop", name |-> n, todo |-> req[r].todo]
      BY <2>1, <1>2
    <3> QED
      BY <3>1, <1>2 DEF Request
  <2>2. CASE change \notin EndsSessions
    BY <2>2, <1>1, RestOf
  <2> QED
    BY <2>1, <2>2
<1>6. /\ NoRequest \in Request /\ NoRequest.pc = "idle"
  BY DEF NoRequest, Request
<1> HIDE DEF done, change
<1>7. /\ req' \in [Requests -> Request] /\ \A q \in Requests : q # r => req'[q] = req[q]
      /\ req'[r] \in {done, NoRequest}
  BY <1>4, <1>5, <1>6 DEF TypeOK
<1>8. \A q \in Requests : req'[q].pc # "idle" => req'[q].todo # <<>>
  BY <1>5, <1>6, <1>7 DEF TypeOK
<1>9. /\ There(n) => /\ Changed(user[n], change) \in User
                     /\ change \notin EndsSessions => Changed(user[n], change).password = user[n].password
                     /\ change \notin Removing /\ EnabledAdmin(n)
                        => Changed(user[n], change).role = "admin" /\ ~Changed(user[n], change).disabled
  BY <1>1, <1>2, <1>3, ChangedUser DEF There, EnabledAdmin, IsAdmin
<1>10. /\ user' \in [Names -> User]
       /\ \A m \in Names : m # n => user'[m] = user[m]
       /\ There(n) => user'[n] = Changed(user[n], change)
       /\ ~There(n) => user'[n] = user[n]
  BY <1>4, <1>9, <1>2 DEF TypeOK
<1>11. passwords' \in 1..MaxPassword
  BY <1>1 DEF TypeOK
<1>12. TypeOK'
  BY <1>1, <1>7, <1>8, <1>10, <1>11 DEF TypeOK
<1>13. \A m \in Names : EnabledAdmin(m) /\ (m # n \/ change \notin Removing) => EnabledAdmin(m)'
  BY <1>2, <1>9, <1>10 DEF EnabledAdmin, IsAdmin
<1>14. change \in Removing /\ ~raced => requireAdminUnaffected(n)
  BY <1>1 DEF Checked, Removes, change
<1>15. AlwaysAnAdmin'
  BY <1>1, <1>13, <1>14 DEF AlwaysAnAdmin, requireAdminUnaffected
<1>16. \A q \in Requests : Removes(q)' => q # r /\ Removes(q) /\ Target(q)' = Target(q)
  BY <1>5, <1>6, <1>7 DEF Removes, Target
<1>17. Checked'
  <2> SUFFICES ASSUME ~raced' PROVE Checked'
    BY DEF Checked
  <2>1. \A q \in Requests : Removes(q)' => change \notin Removing
    BY <1>1, <1>16 DEF Checked, Removes, change
  <2>2. ASSUME NEW q \in Requests, Removes(q)' PROVE requireAdminUnaffected(Target(q))'
    <3>1. requireAdminUnaffected(Target(q)) /\ Target(q)' = Target(q) /\ Target(q) \in Names
      BY <1>1, <1>16, <2>2 DEF Checked, TypeOK, Request, Target
    <3>2. \E k \in Names \ {Target(q)} : EnabledAdmin(k) \/ ~EnabledAdmin(Target(q))'
      BY <1>1, <3>1 DEF AlwaysAnAdmin, requireAdminUnaffected
    <3> QED
      BY <1>13, <2>1, <2>2, <3>1, <3>2 DEF requireAdminUnaffected
  <2> QED
    BY <1>1, <1>16, <2>2 DEF Checked
<1>18. \A q \in Requests : Deletes(q) => Deletes(q)' /\ Target(q)' = Target(q)
  BY <1>1, <1>7 DEF Deletes, Target
<1>19. \A m \in Names : \/ user'[m].password = user[m].password
                        \/ Deletes(r)' /\ Target(r)' = m
  BY <1>4, <1>5, <1>9, <1>10, <1>2 DEF Deletes, Target, TypeOK
<1>20. SessionsFollow'
  BY <1>1, <1>18, <1>19 DEF SessionsFollow, Deletes, TypeOK, Session
<1>21. LoginsFollow'
  BY <1>1, <1>18, <1>19 DEF LoginsFollow, TypeOK, Login
<1> QED
  BY <1>12, <1>15, <1>17, <1>20, <1>21

LEMMA DropStep == ASSUME IInv, NEW r \in Requests, DeleteUserSessions(r) PROVE IInv'
<1> USE DEF IInv
<1>1. /\ req[r].pc = "drop" /\ req' = [req EXCEPT ![r] = Rest(r)]
      /\ sessions' = {s \in sessions : s.name # Target(r)}
      /\ overtaken' = overtaken \cup {l \in Logins : /\ login[l].pc \in {"user", "session"}
                                                     /\ login[l].name = Target(r)}
      /\ UNCHANGED <<user, login, fails, passwords, raced, strays>>
  BY DEF DeleteUserSessions, Becomes
<1>2. /\ Rest(r) \in Request
      /\ Rest(r).pc # "idle" => Rest(r).todo # <<>>
      /\ Rest(r).pc = "write" => Head(Rest(r).todo) \notin Removing
  BY <1>1, RestOf
<1>3. /\ req' \in [Requests -> Request] /\ \A q \in Requests : q # r => req'[q] = req[q]
      /\ req'[r] = Rest(r)
  BY <1>1, <1>2 DEF TypeOK
<1>4. TypeOK'
  BY <1>1, <1>2, <1>3 DEF TypeOK
<1>5. \A q \in Requests : Removes(q)' => q # r /\ Removes(q) /\ Target(q)' = Target(q)
  BY <1>2, <1>3 DEF Removes, Target
<1>6. \A q \in Requests \ {r} : Deletes(q) => Deletes(q)' /\ Target(q)' = Target(q)
  BY <1>3 DEF Deletes, Target
<1>7. AlwaysAnAdmin'
  BY <1>1 DEF AlwaysAnAdmin, EnabledAdmin, IsAdmin
<1>8. Checked'
  BY <1>1, <1>5 DEF Checked, requireAdminUnaffected, EnabledAdmin, IsAdmin
<1>9. SessionsFollow'
  BY <1>1, <1>6 DEF SessionsFollow, Deletes
<1>10. LoginsFollow'
  BY <1>1, <1>6 DEF LoginsFollow
<1> QED
  BY <1>4, <1>7, <1>8, <1>9, <1>10

\* A new account takes nobody's place, and answers to no session of the one before it.
LEMMA CreateUserStep ==
  ASSUME IInv, NEW n \in Names, NEW role \in {"admin", "viewer"}, CreateUser(n, role)
  PROVE  IInv'
<1> USE DEF IInv
<1>1. /\ user[n] = Absent /\ passwords < MaxPassword /\ passwords' = passwords + 1
      /\ user' = [user EXCEPT ![n] = [role |-> role, disabled |-> FALSE, password |-> passwords + 1]]
      /\ UNCHANGED <<sessions, req, login, fails, raced, overtaken, strays>>
  BY DEF CreateUser, There
<1>2. passwords' \in 1..MaxPassword
  BY <1>1 DEF TypeOK
<1>3. [role |-> role, disabled |-> FALSE, password |-> passwords + 1] \in User
  BY <1>1, <1>2 DEF User
<1>4. user' \in [Names -> User] /\ \A m \in Names : m # n => user'[m] = user[m]
  BY <1>1, <1>3 DEF TypeOK
<1>5. TypeOK'
  BY <1>1, <1>2, <1>4 DEF TypeOK
<1>6. \A m \in Names : EnabledAdmin(m) => m # n /\ EnabledAdmin(m)'
  BY <1>1, <1>4 DEF EnabledAdmin, IsAdmin, Absent
<1>7. AlwaysAnAdmin'
  BY <1>1, <1>6 DEF AlwaysAnAdmin
<1>8. ASSUME NEW q \in Requests, ~raced, requireAdminUnaffected(Target(q))
      PROVE  requireAdminUnaffected(Target(q))'
  <2>1. Target(q)' = Target(q) /\ Target(q) \in Names
    BY <1>1 DEF Target, TypeOK, Request
  <2>2. \E m \in Names \ {Target(q)} : EnabledAdmin(m) \/ ~EnabledAdmin(Target(q))'
    BY <1>6, <1>8, <2>1 DEF AlwaysAnAdmin, requireAdminUnaffected
  <2> QED
    BY <1>6, <1>8, <2>1, <2>2 DEF AlwaysAnAdmin, requireAdminUnaffected
<1>9. Checked'
  BY <1>1, <1>8 DEF Checked, Removes
<1>10. \A m \in Names : user[m].password # 0 => user'[m] = user[m]
  BY <1>1, <1>4 DEF Absent
<1>11. SessionsFollow'
  <2> SUFFICES ASSUME NEW s \in sessions \ strays
               PROVE  \/ user'[s.name].password = s.password
                      \/ \E r \in Requests : req[r].pc = "drop" /\ req[r].name = s.name
    BY <1>1 DEF SessionsFollow, Target
  <2>1. s.name \in Names /\ s.password \in 1..MaxPassword
    BY DEF TypeOK, Session
  <2> QED
    BY <2>1, <1>10 DEF SessionsFollow, Target
<1>12. LoginsFollow'
  <2> SUFFICES ASSUME NEW l \in Logins \ overtaken, login[l].pc \in {"user", "session"}
               PROVE  \/ user'[login[l].name].password = login[l].password
                      \/ \E r \in Requests : req[r].pc = "drop" /\ req[r].name = login[l].name
    BY <1>1 DEF LoginsFollow, Target, Deletes
  <2>1. login[l].name \in Names /\ login[l].password # 0
    BY DEF TypeOK, Login
  <2> QED
    BY <2>1, <1>10 DEF LoginsFollow, Target, Deletes
<1> QED
  BY <1>5, <1>7, <1>9, <1>11, <1>12
-----------------------------------------------------------------------------
(* Logins, sessions, and the rest.                                           *)

\* What leaves the accounts and the requests alone breaks neither of the first two.
LEMMA AccountsAlone ==
  ASSUME IInv, UNCHANGED <<user, req, raced>>
  PROVE  AlwaysAnAdmin' /\ Checked'
  BY DEF IInv, AlwaysAnAdmin, Checked, Removes, Target, requireAdminUnaffected, EnabledAdmin,
         IsAdmin

LEMMA LoginStep == ASSUME IInv, NEW l \in Logins, NEW n \in Names, handleLogin(l, n) PROVE IInv'
<1> USE DEF IInv
<1>1. /\ login' = [login EXCEPT ![l] = [pc |-> "verify", name |-> n, password |-> 0]]
      /\ UNCHANGED <<user, sessions, req, fails, passwords, raced, overtaken, strays>>
  BY DEF handleLogin, At
<1>2. TypeOK'
  BY <1>1 DEF TypeOK, Login
<1>3. AlwaysAnAdmin' /\ Checked'
  BY <1>1, AccountsAlone
<1>4. SessionsFollow' /\ LoginsFollow'
  BY <1>1 DEF SessionsFollow, LoginsFollow, Deletes, Target, TypeOK
<1> QED
  BY <1>2, <1>3, <1>4

LEMMA VerifiedStep == ASSUME IInv, NEW l \in Logins, verified(l) PROVE IInv'
<1> USE DEF IInv
<1> DEFINE n == login[l].name
<1>1. /\ There(n)
      /\ login' = [login EXCEPT ![l] = [pc |-> "user", name |-> n, password |-> user[n].password]]
      /\ overtaken' = overtaken \ {l}
      /\ UNCHANGED <<user, sessions, req, fails, passwords, raced, strays>>
  BY DEF verified, At
<1>2. n \in Names /\ user[n].password \in 1..MaxPassword
  BY <1>1 DEF TypeOK, Login, There, User
<1>3. TypeOK'
  BY <1>1, <1>2 DEF TypeOK, Login
<1>4. AlwaysAnAdmin' /\ Checked'
  BY <1>1, AccountsAlone
<1>5. SessionsFollow' /\ LoginsFollow'
  BY <1>1 DEF SessionsFollow, LoginsFollow, Deletes, Target, TypeOK
<1> QED
  BY <1>3, <1>4, <1>5

LEMMA AuthenticatedStep == ASSUME IInv, NEW l \in Logins, authenticated(l) PROVE IInv'
<1> USE DEF IInv
<1>1. /\ login[l].pc = "user" /\ login' = [login EXCEPT ![l] = [login[l] EXCEPT !.pc = "session"]]
      /\ fails' = [fails EXCEPT ![login[l].name] = [count |-> 0, locked |-> FALSE]]
      /\ UNCHANGED <<user, sessions, req, passwords, raced, overtaken, strays>>
  BY DEF authenticated, At
<1>2. [login[l] EXCEPT !.pc = "session"]
        = [pc |-> "session", name |-> login[l].name, password |-> login[l].password]
  BY DEF TypeOK, Login
<1>3. login' \in [Logins -> Login] /\ fails' \in [Names -> [count : 0..(Grace + 1), locked : BOOLEAN]]
  BY <1>1, <1>2 DEF TypeOK, Login
<1>4. TypeOK'
  BY <1>1, <1>2, <1>3 DEF TypeOK
<1>5. AlwaysAnAdmin' /\ Checked'
  BY <1>1, AccountsAlone
<1>6. SessionsFollow'
  BY <1>1 DEF SessionsFollow, Target
<1>7. \A k \in Logins : /\ login'[k].name = login[k].name
                        /\ login'[k].password = login[k].password
                        /\ login'[k].pc \in {"user", "session"} <=> login[k].pc \in {"user", "session"}
  BY <1>1, <1>2 DEF TypeOK
<1>8. LoginsFollow'
  BY <1>1, <1>7 DEF LoginsFollow, Deletes, Target
<1> QED
  BY <1>4, <1>5, <1>6, <1>8

LEMMA RefusedStep == ASSUME IInv, NEW l \in Logins, refused(l) PROVE IInv'
<1> USE DEF IInv
<1> DEFINE n == login[l].name
           record == [count |-> Counted(fails[n].count),
                      locked |-> fails[n].locked \/ fails[n].count >= Grace]
<1>1. /\ login' = [login EXCEPT ![l] = NoLogin]
      /\ UNCHANGED <<user, sessions, req, passwords, raced, overtaken, strays>>
  BY DEF refused, At
<1>2. fails[n] \in [count : 0..(Grace + 1), locked : BOOLEAN] /\ n \in Names
  BY DEF TypeOK, Login
<1>3. fails' = [fails EXCEPT ![n] = record]
  BY DEF refused, fail
<1>4. Counted(fails[n].count) \in 0..(Grace + 1)
  BY <1>2 DEF Counted
<1>5. (fails[n].locked \/ fails[n].count >= Grace) \in BOOLEAN
  OBVIOUS
<1>6. record \in [count : 0..(Grace + 1), locked : BOOLEAN]
  BY <1>4, <1>5
<1>7. fails' \in [Names -> [count : 0..(Grace + 1), locked : BOOLEAN]]
  BY <1>2, <1>3, <1>6 DEF TypeOK
<1>8. TypeOK'
  BY <1>1, <1>7 DEF TypeOK, Login, NoLogin
<1>9. AlwaysAnAdmin' /\ Checked'
  BY <1>1, AccountsAlone
<1>10. SessionsFollow' /\ LoginsFollow'
  BY <1>1 DEF SessionsFollow, LoginsFollow, Deletes, Target, TypeOK, NoLogin
<1> QED
  BY <1>8, <1>9, <1>10

LEMMA CreateSessionStep == ASSUME IInv, NEW l \in Logins, CreateSession(l) PROVE IInv'
<1> USE DEF IInv
<1> DEFINE s == [name |-> login[l].name, password |-> login[l].password]
<1>1. /\ login[l].pc = "session" /\ login' = [login EXCEPT ![l] = NoLogin]
      /\ sessions' = sessions \cup {s}
      /\ strays' = IF l \in overtaken THEN strays \cup {s} ELSE strays
      /\ overtaken' = overtaken \ {l}
      /\ UNCHANGED <<user, req, fails, passwords, raced>>
  BY DEF CreateSession, At
<1>2. s \in Session
  BY <1>1 DEF TypeOK, Login, Session
<1>3. TypeOK'
  BY <1>1, <1>2 DEF TypeOK, Login, NoLogin
<1>4. AlwaysAnAdmin' /\ Checked'
  BY <1>1, AccountsAlone
<1>5. l \notin overtaken => \/ user[s.name].password = s.password
                            \/ \E r \in Requests : req[r].pc = "drop" /\ Target(r) = s.name
  BY <1>1 DEF LoginsFollow, Deletes
<1>6. SessionsFollow'
  BY <1>1, <1>5 DEF SessionsFollow, Target
<1>7. LoginsFollow'
  BY <1>1 DEF LoginsFollow, Deletes, Target, TypeOK, NoLogin
<1> QED
  BY <1>3, <1>4, <1>6, <1>7

LEMMA ThrottleStep ==
  ASSUME IInv, \/ \E s \in sessions : DeleteSession(s)
               \/ \E n \in Names : lockoutEnds(n) \/ forgets(n)
  PROVE  IInv'
<1> USE DEF IInv
<1>1. /\ sessions' \subseteq sessions
      /\ UNCHANGED <<user, req, login, passwords, raced, overtaken, strays>>
  BY DEF DeleteSession, lockoutEnds, forgets
<1>2. fails' \in [Names -> [count : 0..(Grace + 1), locked : BOOLEAN]]
  <2>1. ASSUME NEW n \in Names, lockoutEnds(n)
        PROVE  fails' \in [Names -> [count : 0..(Grace + 1), locked : BOOLEAN]]
    <3>1. fails[n].count \in 0..(Grace + 1)
      BY DEF TypeOK
    <3>2. fails' = [fails EXCEPT ![n] = [count |-> fails[n].count, locked |-> FALSE]]
      BY <2>1 DEF lockoutEnds
    <3> QED
      BY <3>1, <3>2 DEF TypeOK
  <2>2. ASSUME NEW n \in Names, forgets(n)
        PROVE  fails' \in [Names -> [count : 0..(Grace + 1), locked : BOOLEAN]]
    BY <2>2 DEF forgets, TypeOK
  <2>3. ASSUME NEW s \in sessions, DeleteSession(s)
        PROVE  fails' \in [Names -> [count : 0..(Grace + 1), locked : BOOLEAN]]
    BY <2>3 DEF DeleteSession, TypeOK
  <2> QED
    BY <2>1, <2>2, <2>3
<1>3. TypeOK'
  BY <1>1, <1>2 DEF TypeOK
<1>4. AlwaysAnAdmin' /\ Checked'
  BY <1>1, AccountsAlone
<1>5. SessionsFollow' /\ LoginsFollow'
  BY <1>1 DEF SessionsFollow, LoginsFollow, Deletes, Target
<1> QED
  BY <1>3, <1>4, <1>5

LEMMA RestartStep == ASSUME IInv, restarts PROVE IInv'
<1> USE DEF IInv
<1>1. /\ req' = [r \in Requests |-> NoRequest] /\ login' = [l \in Logins |-> NoLogin]
      /\ fails' = [n \in Names |-> [count |-> 0, locked |-> FALSE]]
      /\ strays' = strays \cup {s \in sessions : \E r \in Requests : /\ req[r].pc = "drop"
                                                                     /\ Target(r) = s.name}
      /\ UNCHANGED <<user, sessions, passwords, raced>>
  BY DEF restarts
<1>2. TypeOK'
  BY <1>1 DEF TypeOK, NoRequest, NoLogin, Request, Login
<1>3. AlwaysAnAdmin'
  BY <1>1 DEF AlwaysAnAdmin, EnabledAdmin, IsAdmin
<1>4. Checked' /\ LoginsFollow'
  BY <1>1 DEF Checked, LoginsFollow, Removes, NoRequest, NoLogin
<1>5. SessionsFollow'
  BY <1>1 DEF SessionsFollow
<1> QED
  BY <1>2, <1>3, <1>4, <1>5
-----------------------------------------------------------------------------
LEMMA RequestsStep ==
  ASSUME IInv, NEW r \in Requests, NEW n \in Names, NEW s \in Session,
         handleUpdateUser(r, s, n) \/ handleDeleteUser(r, s, n)
         \/ handleChangeOwnPassword(r, s) \/ setPassword(r, n)
  PROVE  IInv'
<1>1. CASE handleUpdateUser(r, s, n)
  BY <1>1, UpdatesAreChanges, BeginsStep DEF handleUpdateUser
<1>2. CASE handleDeleteUser(r, s, n)
  <2>1. <<"delete">> \in Seq(Changes) /\ <<"delete">> # <<>>
    BY DEF Changes, Removing
  <2> QED
    BY <1>2, <2>1, BeginsStep DEF handleDeleteUser
<1>3. CASE handleChangeOwnPassword(r, s)
  <2>1. <<"password">> \in Seq(Changes) /\ <<"password">> # <<>> /\ s.name \in Names
    BY DEF Changes, Session
  <2> QED
    BY <1>3, <2>1, BeginsStep DEF handleChangeOwnPassword
<1>4. CASE setPassword(r, n)
  <2>1. /\ <<"password", "on">> \in Seq(Changes) /\ <<"password", "on">> # <<>>
        /\ <<"password">> \in Seq(Changes) /\ <<"password">> # <<>>
    BY DEF Changes
  <2> QED
    BY <1>4, <2>1, BeginsStep DEF setPassword
<1> QED
  BY <1>1, <1>2, <1>3, <1>4

LEMMA StepIInv == IInv /\ [Next]_vars => IInv'
<1> SUFFICES ASSUME IInv, [Next]_vars PROVE IInv'
  OBVIOUS
<1>1. ASSUME NEW r \in Requests, NEW s \in Session, NEW n \in Names,
             \/ handleUpdateUser(r, s, n) \/ handleDeleteUser(r, s, n)
             \/ handleChangeOwnPassword(r, s)
      PROVE  IInv'
  BY <1>1, RequestsStep
<1>2. ASSUME NEW r \in Requests, NEW n \in Names, setPassword(r, n) PROVE IInv'
  <2>1. [name |-> n, password |-> 1] \in Session
    BY DEF Session
  <2> QED
    BY <1>2, <2>1, RequestsStep
<1>3. ASSUME NEW r \in Requests, checks(r) \/ writes(r) \/ DeleteUserSessions(r) PROVE IInv'
  BY <1>3, CheckStep, WriteStep, DropStep
<1>4. ASSUME NEW n \in Names, NEW role \in {"admin", "viewer"}, CreateUser(n, role) PROVE IInv'
  BY <1>4, CreateUserStep
<1>5. ASSUME NEW l \in Logins,
             \/ \E n \in Names : handleLogin(l, n)
             \/ verified(l) \/ authenticated(l) \/ refused(l) \/ CreateSession(l)
      PROVE  IInv'
  BY <1>5, LoginStep, VerifiedStep, AuthenticatedStep, RefusedStep, CreateSessionStep
<1>6. ASSUME \/ \E s \in Session : DeleteSession(s)
             \/ \E n \in Names : lockoutEnds(n) \/ forgets(n)
      PROVE  IInv'
  BY <1>6, ThrottleStep DEF DeleteSession
<1>7. CASE UNCHANGED vars
  <2>1. UNCHANGED <<user, sessions, req, login, fails, passwords, raced, overtaken, strays>>
    BY <1>7 DEF vars
  <2>2. TypeOK'
    BY <2>1 DEF IInv, TypeOK
  <2>3. AlwaysAnAdmin' /\ Checked'
    BY <2>1, AccountsAlone
  <2>4. SessionsFollow' /\ LoginsFollow'
    BY <2>1 DEF IInv, SessionsFollow, LoginsFollow, Deletes, Target
  <2> QED
    BY <2>2, <2>3, <2>4 DEF IInv
<1>8. Root \in Names
  OBVIOUS
<1>9. CASE \E r \in Requests :
             \/ \E s \in Session, n \in Names : handleUpdateUser(r, s, n) \/ handleDeleteUser(r, s, n)
             \/ \E s \in Session : handleChangeOwnPassword(r, s)
             \/ \E n \in Names : setPassword(r, n)
             \/ checks(r) \/ writes(r) \/ DeleteUserSessions(r)
  BY <1>9, <1>1, <1>2, <1>3, <1>8
<1> QED
  BY <1>4, <1>5, <1>6, <1>7, <1>9, RestartStep DEF Next

\* The tables, the requests and the logins stay what the code makes of them.
THEOREM TypeCorrect == Spec => []TypeOK
<1>1. IInv => TypeOK
  BY DEF IInv
<1> QED
  BY InitIInv, StepIInv, <1>1, PTL DEF Spec

\* requireAdminUnaffected is enough, for any number of accounts and operators, as long as no
\* two changes overlap between the check and the write: the last administrator stays.
THEOREM AdminStays == Spec => []AlwaysAnAdmin
<1>1. IInv => AlwaysAnAdmin
  BY DEF IInv
<1> QED
  BY InitIInv, StepIInv, <1>1, PTL DEF Spec

\* A session never outlives the password it was opened with, but while the statement that
\* ends it is still to come.
THEOREM SessionsEnd == Spec => []SessionsFollow
<1>1. IInv => SessionsFollow
  BY DEF IInv
<1> QED
  BY InitIInv, StepIInv, <1>1, PTL DEF Spec
-----------------------------------------------------------------------------
(* The throttle.  A lockout stops new logins, not those at work: what each of *)
(* them may still add to the wrong passwords is counted before it does.       *)
AtWork(n) == {l \in Logins : login[l].pc \in {"verify", "user"} /\ login[l].name = n}

Restrained(n) ==
  /\ tries[n] \in Nat
  /\ ~fails[n].locked => tries[n] <= Grace /\ tries[n] <= fails[n].count
  /\ fails[n].locked => /\ fails[n].count > Grace
                        /\ tries[n] + Cardinality(AtWork(n)) <= Grace + Cardinality(Logins)

ThrottleInv == tries = [n \in Names |-> tries[n]] /\ \A n \in Names : Restrained(n)

LEMMA AtWorkFinite ==
  ASSUME NEW S \in SUBSET Logins
  PROVE  /\ IsFiniteSet(S) /\ Cardinality(S) \in Nat /\ Cardinality(Logins) \in Nat
         /\ Cardinality(S) <= Cardinality(Logins)
BY FS_Subset, FS_CardinalityType

LEMMA InitThrottle == Init => ThrottleInv
BY DEF Init, ThrottleInv, Restrained

\* A login may begin where there is no lockout; nobody joins those at work on a
\* locked account.
LEMMA NobodyJoins ==
  ASSUME ThrottleInv, UNCHANGED <<fails, tries>>, NEW n \in Names,
         fails[n].locked => AtWork(n)' \subseteq AtWork(n)
  PROVE  Restrained(n)'
<1>1. CASE ~fails[n].locked
  BY <1>1 DEF ThrottleInv, Restrained
<1>2. CASE fails[n].locked
  <2>1. AtWork(n) \in SUBSET Logins
    BY DEF AtWork
  <2>2. Cardinality(AtWork(n)') <= Cardinality(AtWork(n)) /\ Cardinality(AtWork(n)') \in Nat
        /\ Cardinality(AtWork(n)) \in Nat /\ Cardinality(Logins) \in Nat
    BY <1>2, <2>1, AtWorkFinite, FS_Subset, FS_CardinalityType
  <2> QED
    BY <1>2, <2>2 DEF ThrottleInv, Restrained
<1> QED
  BY <1>1, <1>2

\* The record of an account is cleared, or its lockout is over.
LEMMA RecordCleared ==
  ASSUME ThrottleInv, NEW n \in Names, NEW t \in 0..Grace, NEW c \in Nat, t <= c,
         fails' = [fails EXCEPT ![n] = [count |-> c, locked |-> FALSE]],
         tries' = [tries EXCEPT ![n] = t],
         fails \in [Names -> [count : 0..(Grace + 1), locked : BOOLEAN]],
         \A m \in Names \ {n} : AtWork(m)' = AtWork(m)
  PROVE  ThrottleInv'
<1>1. Restrained(n)'
  BY DEF ThrottleInv, Restrained
<1>2. \A m \in Names \ {n} : fails'[m] = fails[m] /\ tries'[m] = tries[m]
  BY DEF ThrottleInv
<1>3. \A m \in Names \ {n} : Restrained(m)'
  BY <1>2 DEF ThrottleInv, Restrained
<1> QED
  BY <1>1, <1>3 DEF ThrottleInv

LEMMA RefusedThrottle ==
  ASSUME IInv, ThrottleInv, NEW l \in Logins, refused(l)
  PROVE  ThrottleInv'
<1>0. PICK n \in Names : n = login[l].name
  BY DEF IInv, TypeOK, Login
<1>1. /\ login[l].pc \in {"verify", "user"} /\ login' = [login EXCEPT ![l] = NoLogin]
      /\ tries' = [tries EXCEPT ![n] = tries[n] + 1]
      /\ fails' = [fails EXCEPT ![n] = [count |-> Counted(fails[n].count),
                                        locked |-> fails[n].locked \/ fails[n].count >= Grace]]
  BY <1>0 DEF refused, At, fail
<1>2. /\ login \in [Logins -> Login]
      /\ fails \in [Names -> [count : 0..(Grace + 1), locked : BOOLEAN]]
  BY DEF IInv, TypeOK, Login
<1>3. \A m \in Names \ {n} : AtWork(m)' = AtWork(m)
  BY <1>0, <1>1, <1>2 DEF AtWork, NoLogin
<1>4. AtWork(n)' = AtWork(n) \ {l} /\ l \in AtWork(n) /\ AtWork(n) \in SUBSET Logins
  BY <1>0, <1>1, <1>2 DEF AtWork, NoLogin
<1>5. /\ Cardinality(AtWork(n)') = Cardinality(AtWork(n)) - 1
      /\ Cardinality(AtWork(n)) \in Nat /\ Cardinality(AtWork(n)) <= Cardinality(Logins)
      /\ Cardinality(Logins) \in Nat
  BY <1>4, AtWorkFinite, FS_RemoveElement
<1>6. \A m \in Names \ {n} : Restrained(m)'
  BY <1>1, <1>2, <1>3 DEF ThrottleInv, Restrained
<1>7. Restrained(n)'
  <2>1. PICK c \in 0..(Grace + 1) : c = fails[n].count
    BY <1>2
  <2>2. PICK t \in Nat : t = tries[n]
    BY DEF ThrottleInv, Restrained
  <2>3. PICK a \in Nat : a = Cardinality(AtWork(n))
    BY <1>5
  <2>4. Grace \in Nat /\ fails[n].locked \in BOOLEAN
    BY <1>2
  <2>5. /\ ~fails[n].locked => t <= Grace /\ t <= c
        /\ fails[n].locked => c > Grace /\ t + a <= Grace + Cardinality(Logins)
    BY <2>1, <2>2, <2>3 DEF ThrottleInv, Restrained
  <2>6. /\ tries'[n] = t + 1 /\ fails'[n].count = Counted(c)
        /\ fails'[n].locked <=> fails[n].locked \/ c >= Grace
    BY <1>1, <1>2, <2>1, <2>2 DEF ThrottleInv
  <2>7. Counted(c) = IF c > Grace THEN c ELSE c + 1
    BY DEF Counted
  <2>8. /\ Cardinality(AtWork(n)') = a - 1 /\ a <= Cardinality(Logins)
        /\ Cardinality(Logins) \in Nat /\ a - 1 \in Nat
    BY <1>4, <1>5, <2>3, AtWorkFinite, FS_EmptySet, FS_CardinalityType
  <2>9. tries'[n] \in Nat
    BY <2>6
  <2>10. ~fails'[n].locked => tries'[n] <= Grace /\ tries'[n] <= fails'[n].count
    BY <2>1, <2>2, <2>4, <2>5, <2>6, <2>7
  <2>11. fails'[n].locked => fails'[n].count > Grace
    BY <2>1, <2>4, <2>5, <2>6, <2>7
  <2>12. fails'[n].locked =>
           tries'[n] + Cardinality(AtWork(n)') <= Grace + Cardinality(Logins)
    BY <2>1, <2>2, <2>3, <2>4, <2>5, <2>6, <2>8
  <2> QED
    BY <2>9, <2>10, <2>11, <2>12 DEF Restrained
<1> QED
  BY <1>1, <1>6, <1>7 DEF ThrottleInv

LEMMA StepThrottle == IInv /\ ThrottleInv /\ [Next]_vars => ThrottleInv'
<1> SUFFICES ASSUME IInv, ThrottleInv, [Next]_vars PROVE ThrottleInv'
  OBVIOUS
<1>0. /\ login \in [Logins -> Login]
      /\ fails \in [Names -> [count : 0..(Grace + 1), locked : BOOLEAN]]
  BY DEF IInv, TypeOK
<1>1. CASE UNCHANGED <<login, fails, tries>>
  BY <1>1, NobodyJoins DEF ThrottleInv, AtWork
<1>2. ASSUME NEW l \in Logins, NEW n \in Names, handleLogin(l, n) PROVE ThrottleInv'
  <2>1. /\ ~fails[n].locked /\ UNCHANGED <<fails, tries>>
        /\ login' = [login EXCEPT ![l] = [pc |-> "verify", name |-> n, password |-> 0]]
    BY <1>2 DEF handleLogin, blocked, At
  <2>2. \A m \in Names \ {n} : AtWork(m)' \subseteq AtWork(m)
    BY <1>0, <2>1 DEF AtWork
  <2>3. \A m \in Names : Restrained(m)'
    BY <2>1, <2>2, NobodyJoins
  <2> QED
    BY <2>1, <2>3 DEF ThrottleInv
<1>3. ASSUME NEW l \in Logins, verified(l) \/ CreateSession(l) PROVE ThrottleInv'
  <2>1. /\ UNCHANGED <<fails, tries>> /\ \A k \in Logins \ {l} : login'[k] = login[k]
        /\ \/ login[l].pc = "verify" /\ login'[l].name = login[l].name
           \/ login'[l].pc = "idle"
    BY <1>0, <1>3 DEF verified, CreateSession, At, NoLogin
  <2>2. \A m \in Names : AtWork(m)' \subseteq AtWork(m)
    BY <2>1 DEF AtWork
  <2>3. \A m \in Names : Restrained(m)'
    BY <2>1, <2>2, NobodyJoins
  <2> QED
    BY <2>1, <2>3 DEF ThrottleInv
<1>4. ASSUME NEW l \in Logins, authenticated(l) PROVE ThrottleInv'
  <2>0. PICK n \in Names : n = login[l].name
    BY <1>0 DEF Login
  <2>1. /\ fails' = [fails EXCEPT ![n] = [count |-> 0, locked |-> FALSE]]
        /\ tries' = [tries EXCEPT ![n] = 0]
        /\ login' = [login EXCEPT ![l] = [login[l] EXCEPT !.pc = "session"]]
    BY <1>4, <2>0 DEF authenticated, At
  <2>2. \A m \in Names \ {n} : AtWork(m)' = AtWork(m)
    BY <1>0, <2>0, <2>1 DEF AtWork, Login
  <2>3. 0 \in 0..Grace /\ 0 \in Nat /\ 0 <= 0
    OBVIOUS
  <2> QED
    BY <1>0, <2>1, <2>2, <2>3, RecordCleared
<1>5. ASSUME NEW l \in Logins, refused(l) PROVE ThrottleInv'
  BY <1>5, RefusedThrottle
<1>6. ASSUME NEW n \in Names, lockoutEnds(n) PROVE ThrottleInv'
  <2>0. PICK c \in 0..(Grace + 1) : c = fails[n].count
    BY <1>0
  <2>1. /\ fails' = [fails EXCEPT ![n] = [count |-> c, locked |-> FALSE]]
        /\ tries' = [tries EXCEPT ![n] = Grace] /\ login' = login /\ fails[n].locked
    BY <1>6, <2>0 DEF lockoutEnds
  <2>2. Grace < c /\ Grace \in Nat
    BY <2>0, <2>1 DEF ThrottleInv, Restrained
  <2>4. Grace <= c /\ c \in Nat /\ Grace \in 0..Grace
    BY <2>2
  <2>3. \A m \in Names : AtWork(m)' = AtWork(m)
    BY <2>1 DEF AtWork
  <2> QED
    BY <1>0, <2>1, <2>3, <2>4, RecordCleared
<1>7. ASSUME NEW n \in Names, forgets(n) PROVE ThrottleInv'
  <2>1. /\ fails' = [fails EXCEPT ![n] = [count |-> 0, locked |-> FALSE]]
        /\ tries' = [tries EXCEPT ![n] = 0] /\ login' = login
    BY <1>7 DEF forgets
  <2>2. \A m \in Names : AtWork(m)' = AtWork(m)
    BY <2>1 DEF AtWork
  <2>3. 0 \in 0..Grace /\ 0 \in Nat /\ 0 <= 0
    OBVIOUS
  <2> QED
    BY <1>0, <2>1, <2>2, <2>3, RecordCleared
<1>8. CASE restarts
  BY <1>8 DEF restarts, ThrottleInv, Restrained
<1>9. ASSUME NEW r \in Requests,
             \/ \E s \in Session, n \in Names : handleUpdateUser(r, s, n) \/ handleDeleteUser(r, s, n)
             \/ \E s \in Session : handleChangeOwnPassword(r, s)
             \/ \E n \in Names : setPassword(r, n)
             \/ checks(r) \/ writes(r) \/ DeleteUserSessions(r)
      PROVE  ThrottleInv'
  BY <1>1, <1>9 DEF handleUpdateUser, handleDeleteUser, handleChangeOwnPassword, setPassword,
                    Begins, checks, writes, DeleteUserSessions
<1>10. CASE \E n \in Names : \E role \in {"admin", "viewer"} : CreateUser(n, role)
  BY <1>1, <1>10 DEF CreateUser
<1>11. CASE \E s \in Session : DeleteSession(s)
  BY <1>1, <1>11 DEF DeleteSession
<1>12. CASE UNCHANGED vars
  BY <1>1, <1>12 DEF vars
<1> QED
  BY <1>2, <1>3, <1>4, <1>5, <1>6, <1>7, <1>8, <1>9, <1>10, <1>11, <1>12 DEF Next

\* However many guess at an account at the same time, between two lockouts no more wrong
\* passwords are verified than the grace and the logins that were already let in.
THEOREM GuessingIsThrottled == Spec => []Throttled
<1>1. Spec => [](IInv /\ ThrottleInv)
  BY InitIInv, StepIInv, InitThrottle, StepThrottle, PTL DEF Spec
<1>2. IInv /\ ThrottleInv => Throttled
  <2> SUFFICES ASSUME IInv, ThrottleInv, NEW n \in Names
               PROVE  tries[n] <= Grace + Cardinality(Logins)
    BY DEF Throttled
  <2>1. AtWork(n) \in SUBSET Logins
    BY DEF AtWork
  <2>2. tries[n] \in Nat /\ Cardinality(AtWork(n)) \in Nat /\ Cardinality(Logins) \in Nat
    BY <2>1, AtWorkFinite DEF ThrottleInv, Restrained
  <2>3. CASE fails[n].locked
    BY <2>2, <2>3 DEF ThrottleInv, Restrained
  <2>4. CASE ~fails[n].locked
    BY <2>2, <2>4 DEF ThrottleInv, Restrained
  <2> QED
    BY <2>3, <2>4
<1> QED
  BY <1>1, <1>2, PTL
=============================================================================
