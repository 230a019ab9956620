------------------------ MODULE Administration_proofs ------------------------
(***************************************************************************)
(* Theorems about Accounts for any number of requests, tokens, accounts,   *)
(* password changes and counted names, and about Webhooks for any number   *)
(* of screens, senders, subscriptions and deliveries.                      *)
(***************************************************************************)
EXTENDS MCAdministration, FiniteSetTheorems, WellFoundedInduction, TLAPS

(* What a request holds: a target, a role to write, a verified account.     *)
ReqInv ==
    \A r \in Requests :
        /\ \/ req[r].target \in Ids
           \/ req[r].pc = "idle"
           \/ req[r].op = "create" /\ req[r].pc = "write"
        /\ req[r].op \in {"create", "update", "delete", "profile"} => req[r].role \in Roles
        /\ req[r].pc \in {"verified", "session"} =>
               /\ req[r].acct = req[r].target
               /\ req[r].target < nextId

(* An id is given once, in ascending order, and a password change counted.  *)
RowInv ==
    \A u \in Ids : Exists(u) =>
        /\ users[u].acct = u
        /\ u < nextId
        /\ users[u].pw <= changes + 1

(* A session was issued for an id given before.                             *)
SessInv == \A s \in sessions : s.acct = s.user /\ s.user < nextId

IInv == TypeOk /\ ReqInv /\ RowInv /\ SessInv

-----------------------------------------------------------------------------
LEMMA ConstantFacts ==
    /\ MaxUsers \in Nat \ {0}
    /\ MaxChanges \in Nat
    /\ LoginMaxFailures \in Nat \ {0}
    /\ Counted \subseteq Ids
    /\ Ids = 1 .. MaxUsers
BY MaxUsersAssumption, MaxChangesAssumption, LoginMaxFailuresAssumption,
   CountedAssumption DEF Ids

LEMMA IdleFacts ==
    /\ Idle \in Request
    /\ Idle.op = "none" /\ Idle.pc = "idle" /\ Idle.target = 0
    /\ ~ Idle.stale
BY DEF Idle, Request

LEMMA UserFacts ==
    /\ NoUser \notin User
    /\ NoUser.role = "none" /\ NoUser.pw = 0 /\ NoUser.acct = 0
BY DEF NoUser, User, Roles

LEMMA IInit == Init => IInv
<1> SUFFICES ASSUME Init PROVE IInv
    OBVIOUS
<1> USE ConstantFacts, IdleFacts, UserFacts DEF Init
<1>1. [role |-> "admin", pw |-> 1, acct |-> 1] \in User
    BY DEF User, Roles, Passwords
<1>2. TypeOk
    <2>1. users \in [Ids -> User \cup {NoUser}]
        BY <1>1
    <2>2. nextId \in 2 .. MaxUsers + 1 /\ changes \in 0 .. MaxChanges
        OBVIOUS
    <2>3. QED BY <2>1, <2>2 DEF TypeOk
<1>3. ReqInv
    BY DEF ReqInv
<1>4. RowInv
    <2> SUFFICES ASSUME NEW u \in Ids, Exists(u)
                 PROVE  /\ users[u].acct = u
                        /\ u < nextId
                        /\ users[u].pw <= changes + 1
        BY DEF RowInv
    <2>1. u = 1
        BY DEF Exists
    <2>2. QED BY <2>1
<1>5. SessInv
    BY DEF SessInv
<1>6. QED BY <1>2, <1>3, <1>4, <1>5 DEF IInv

-----------------------------------------------------------------------------
(* A request record put in the place of another keeps req in its domain.    *)
LEMMA ReqUpdate ==
    ASSUME TypeOk, NEW r \in Requests, NEW q \in Request,
           req' = [req EXCEPT ![r] = q]
    PROVE  req' \in [Requests -> Request]
BY DEF TypeOk

(* The marks RoleWritten leaves change nothing else of the requests.        *)
LEMMA RoleWrittenFacts ==
    ASSUME TypeOk, NEW r \in Requests, NEW next \in Request, RoleWritten(r, next)
    PROVE  /\ req' \in [Requests -> Request]
           /\ raced' \in BOOLEAN
           /\ raced' = (raced \/ req[r].stale)
           /\ req'[r] = next
           /\ \A q \in Requests \ {r} :
                  /\ req'[q].op = req[q].op
                  /\ req'[q].pc = req[q].pc
                  /\ req'[q].target = req[q].target
                  /\ req'[q].acct = req[q].acct
                  /\ req'[q].role = req[q].role
                  /\ req[q].pc \in {"count", "write"} => req'[q].stale
<1> DEFINE marked(q) == [req[q] EXCEPT !.stale = (@ \/ req[q].pc \in {"count", "write"})]
<1>1. \A q \in Requests : marked(q) \in Request
    BY DEF TypeOk, Request
<1>2. /\ req' = [q \in Requests |-> IF q = r THEN next ELSE marked(q)]
      /\ raced' = (raced \/ req[r].stale)
    BY DEF RoleWritten
<1>3. req' \in [Requests -> Request] /\ req'[r] = next
    BY <1>1, <1>2
<1>4. ASSUME NEW q \in Requests \ {r}
      PROVE  /\ req'[q].op = req[q].op
             /\ req'[q].pc = req[q].pc
             /\ req'[q].target = req[q].target
             /\ req'[q].acct = req[q].acct
             /\ req'[q].role = req[q].role
             /\ req[q].pc \in {"count", "write"} => req'[q].stale
    <2>1. req'[q] = marked(q)
        BY <1>2
    <2>2. req[q] \in Request
        BY DEF TypeOk
    <2>3. /\ req'[q].op = req[q].op
          /\ req'[q].pc = req[q].pc
          /\ req'[q].target = req[q].target
          /\ req'[q].acct = req[q].acct
          /\ req'[q].role = req[q].role
        BY <2>1, <2>2 DEF Request
    <2>4. req'[q].stale = (req[q].stale \/ req[q].pc \in {"count", "write"})
        BY <2>1, <2>2 DEF Request
    <2>5. QED BY <2>3, <2>4
<1>5. raced' \in BOOLEAN
    BY <1>2 DEF TypeOk, Request
<1>6. QED BY <1>2, <1>3, <1>4, <1>5

(* A step that leaves the tables alone and one request changed.             *)
LEMMA QuietStep ==
    ASSUME IInv, NEW r \in Requests, NEW q \in Request,
           req' = [req EXCEPT ![r] = q],
           UNCHANGED <<users, nextId, sessions, issued, changes, raced>>,
           failures' \in [Counted -> Nat],
           \/ q.target \in Ids
           \/ q.pc = "idle"
           \/ q.op = "create" /\ q.pc = "write",
           q.op \in {"create", "update", "delete", "profile"} => q.role \in Roles,
           q.pc \in {"verified", "session"} =>
               q.acct = q.target /\ q.target < nextId
    PROVE  IInv'
<1>1. TypeOk'
    BY ReqUpdate DEF IInv, TypeOk
<1>2. ReqInv'
    <2> SUFFICES ASSUME NEW p \in Requests
                 PROVE  /\ \/ req'[p].target \in Ids
                           \/ req'[p].pc = "idle"
                           \/ req'[p].op = "create" /\ req'[p].pc = "write"
                        /\ req'[p].op \in {"create", "update", "delete", "profile"}
                               => req'[p].role \in Roles
                        /\ req'[p].pc \in {"verified", "session"} =>
                               /\ req'[p].acct = req'[p].target
                               /\ req'[p].target < nextId'
        BY DEF ReqInv
    <2>1. req'[p] = IF p = r THEN q ELSE req[p]
        BY DEF IInv, TypeOk
    <2>2. CASE p = r
        BY <2>1, <2>2
    <2>3. CASE p # r
        BY <2>1, <2>3 DEF IInv, ReqInv
    <2>4. QED BY <2>2, <2>3
<1>3. RowInv'
    BY DEF IInv, RowInv, Exists
<1>4. SessInv'
    BY DEF IInv, SessInv
<1>5. QED BY <1>1, <1>2, <1>3, <1>4 DEF IInv

-----------------------------------------------------------------------------
LEMMA IStep == IInv /\ [Next]_vars => IInv'
<1> SUFFICES ASSUME IInv, [Next]_vars PROVE IInv'
    OBVIOUS
<1> USE ConstantFacts, IdleFacts
<1>0. \A r \in Requests : req[r] \in Request
    BY DEF IInv, TypeOk
<1>1. ASSUME NEW r \in Requests, Allow(r) PROVE IInv'
    <2>1. PICK u \in Ids :
            req' = [req EXCEPT ![r] = [Idle EXCEPT !.op = "login", !.pc = "lookup",
                                                   !.target = u]]
        BY <1>1 DEF Allow
    <2> DEFINE q == [Idle EXCEPT !.op = "login", !.pc = "lookup", !.target = u]
    <2>2. q \in Request /\ q.op = "login" /\ q.pc = "lookup" /\ q.target = u
        BY DEF Idle, Request
    <2>3. req' = [req EXCEPT ![r] = q]
        BY <2>1
    <2> HIDE DEF q
    <2>4. failures' \in [Counted -> Nat]
        BY <1>1 DEF Allow, IInv, TypeOk
    <2>5. QED BY <1>1, <2>2, <2>3, <2>4, QuietStep DEF Allow
<1>2. ASSUME NEW r \in Requests, Verify(r) PROVE IInv'
    <2>1. CASE req' = [req EXCEPT ![r].pc = "refused"]
        <3> DEFINE q == [req[r] EXCEPT !.pc = "refused"]
        <3>1. /\ q \in Request /\ q.pc = "refused"
              /\ q.op = req[r].op /\ q.target = req[r].target /\ q.role = req[r].role
            BY <1>0 DEF Request
        <3>2. req[r].pc = "lookup" /\ req' = [req EXCEPT ![r] = q]
            BY <1>2, <2>1 DEF Verify
        <3> HIDE DEF q
        <3>3. QED BY <1>2, <3>1, <3>2, QuietStep DEF Verify, IInv, TypeOk, ReqInv
    <2>2. CASE /\ Exists(req[r].target)
               /\ req' = [req EXCEPT ![r].pc = "verified",
                                     ![r].acct = users[req[r].target].acct]
        <3> DEFINE q == [req[r] EXCEPT !.pc = "verified",
                                       !.acct = users[req[r].target].acct]
        <3>1. req[r].pc = "lookup" /\ req[r].target \in Ids
            BY <1>2 DEF Verify, IInv, ReqInv
        <3>2. users[req[r].target].acct = req[r].target /\ req[r].target < nextId
            BY <2>2, <3>1 DEF IInv, RowInv
        <3>3. /\ q \in Request /\ q.pc = "verified"
              /\ q.op = req[r].op /\ q.target = req[r].target /\ q.role = req[r].role
              /\ q.acct = req[r].target
            BY <1>0, <3>1, <3>2 DEF Request
        <3>4. req' = [req EXCEPT ![r] = q]
            BY <2>2
        <3> HIDE DEF q
        <3>5. QED BY <1>2, <3>1, <3>2, <3>3, <3>4, QuietStep
                  DEF Verify, IInv, TypeOk, ReqInv
    <2>3. QED BY <1>2, <2>1, <2>2 DEF Verify, Proceed
<1>3. ASSUME NEW r \in Requests, RecordFailure(r) PROVE IInv'
    <2>1. failures' \in [Counted -> Nat]
        BY <1>3 DEF RecordFailure, IInv, TypeOk
    <2>2. QED BY <1>3, <2>1, QuietStep DEF RecordFailure, Finish
<1>4. ASSUME NEW r \in Requests, ClearFailures(r) PROVE IInv'
    <2> DEFINE q == [req[r] EXCEPT !.pc = "session"]
    <2>1. failures' \in [Counted -> Nat]
        BY <1>4 DEF ClearFailures, IInv, TypeOk
    <2>2. /\ q \in Request /\ q.op = req[r].op /\ q.target = req[r].target
          /\ q.role = req[r].role /\ q.acct = req[r].acct /\ q.pc = "session"
        BY <1>0 DEF Request
    <2>3. req[r].pc = "verified" /\ req' = [req EXCEPT ![r] = q]
        BY <1>4 DEF ClearFailures, Proceed
    <2> HIDE DEF q
    <2>4. QED BY <1>4, <2>1, <2>2, <2>3, QuietStep DEF ClearFailures, IInv, ReqInv
<1>5. ASSUME NEW r \in Requests, CreateSession(r) PROVE IInv'
    <2> DEFINE u == req[r].target
    <2>1. /\ req[r].pc = "session" /\ u \in Ids
          /\ req[r].acct = u /\ u < nextId
        BY <1>5 DEF CreateSession, IInv, ReqInv
    <2>2. PICK t \in Tokens \ issued :
            /\ issued' = issued \cup {t}
            /\ sessions' = sessions \cup {[token |-> t, user |-> u,
                                           pw |-> users[u].pw, acct |-> req[r].acct]}
        BY <1>5 DEF CreateSession, NewSession
    <2>3. users[u].pw \in Passwords \cup {0}
        BY <2>1, UserFacts DEF IInv, TypeOk, User
    <2>4. req' = [req EXCEPT ![r] = Idle]
        BY <1>5 DEF CreateSession, Finish
    <2>5. req' \in [Requests -> Request]
        BY <2>4, ReqUpdate DEF IInv
    <2>6. sessions' \subseteq Session
        BY <2>1, <2>2, <2>3 DEF IInv, TypeOk, Session
    <2>7. TypeOk'
        BY <1>5, <2>2, <2>5, <2>6 DEF CreateSession, IInv, TypeOk
    <2>8. ReqInv'
        BY <1>5, <2>4 DEF CreateSession, IInv, TypeOk, ReqInv
    <2>9. RowInv' /\ SessInv'
        BY <1>5, <2>1, <2>2 DEF CreateSession, IInv, RowInv, SessInv, Exists
    <2>10. QED BY <2>7, <2>8, <2>9 DEF IInv
<1>6. ASSUME NEW r \in Requests, Begin(r) PROVE IInv'
    <2>1. PICK s \in sessions, op \in {"create", "update", "delete", "profile"},
               u \in Ids, role \in Roles, newPw \in BOOLEAN :
            /\ Exists(s.user)
            /\ op # "profile" => s.user \in Admins
            /\ op \in {"profile", "create"} => u = s.user
            /\ op = "delete" => u # s.user
            /\ op \in {"delete", "profile"} => role = "regular"
            /\ newPw => op \in {"update", "profile"}
            /\ req' = [req EXCEPT ![r] =
                      IF op = "create"
                      THEN [Idle EXCEPT !.op = op, !.role = role, !.pc = "write"]
                      ELSE [Idle EXCEPT !.op = op, !.own = (u = s.user), !.target = u,
                                        !.role = role, !.newPw = newPw, !.pc = "load"]]
        BY <1>6, Zenon DEF Begin
    <2>2. PICK own \in BOOLEAN : own = (u = s.user)
        OBVIOUS
    <2>3. CASE op = "create"
        <3> DEFINE q == [Idle EXCEPT !.op = op, !.role = role, !.pc = "write"]
        <3>1. /\ q \in Request /\ q.role = role
              /\ q.op = "create" /\ q.pc = "write"
            BY <2>3 DEF Idle, Request
        <3>2. req' = [req EXCEPT ![r] = q]
            BY <2>1, <2>3
        <3> HIDE DEF q
        <3>3. QED BY <1>6, <3>1, <3>2, QuietStep DEF Begin, IInv, TypeOk
    <2>4. CASE op # "create"
        <3> DEFINE q == [Idle EXCEPT !.op = op, !.own = own, !.target = u,
                                     !.role = role, !.newPw = newPw, !.pc = "load"]
        <3>1. /\ q \in Request
              /\ q.role = role /\ q.target = u /\ q.pc = "load"
            BY DEF Idle, Request
        <3>2. req' = [req EXCEPT ![r] = q]
            BY <2>1, <2>2, <2>4
        <3> HIDE DEF q
        <3>3. QED BY <1>6, <3>1, <3>2, QuietStep DEF Begin, IInv, TypeOk
    <2>5. QED BY <2>3, <2>4
<1>7. ASSUME NEW r \in Requests, Load(r) PROVE IInv'
    <2>1. CASE /\ Exists(req[r].target) \/ req[r].op = "delete"
               /\ req' = [req EXCEPT ![r].role = ResolveRole(r),
                                     ![r].stale = FALSE,
                                     ![r].pc = IF NeedsCount(r) THEN "count" ELSE "write"]
        <3> DEFINE q == [req[r] EXCEPT !.role = ResolveRole(r), !.stale = FALSE,
                                       !.pc = IF NeedsCount(r) THEN "count" ELSE "write"]
        <3>1. req[r].pc = "load" /\ req[r].target \in Ids
            BY <1>7 DEF Load, IInv, ReqInv
        <3>2. ResolveRole(r) \in Roles \/ req[r].op \in {"none", "login"}
            <4>1. CASE Exists(req[r].target)
                <5>1. users[req[r].target].role \in Roles
                    BY <3>1, <4>1 DEF IInv, TypeOk, User, Exists
                <5>2. QED BY <1>0, <5>1 DEF ResolveRole, IInv, ReqInv, Request, Roles
            <4>2. CASE req[r].op = "delete"
                BY <4>2 DEF ResolveRole, IInv, ReqInv
            <4>3. QED BY <2>1, <4>1, <4>2
        <3>3. ResolveRole(r) \in Roles \cup {"none"}
            <4>1. CASE req[r].op \in {"none", "login"}
                BY <1>0, <4>1 DEF ResolveRole, Request
            <4>2. QED BY <3>2, <4>1
        <3>4. PICK pc \in {"count", "write"} :
                pc = IF NeedsCount(r) THEN "count" ELSE "write"
            OBVIOUS
        <3>5. PICK role \in Roles \cup {"none"} : role = ResolveRole(r)
            BY <3>3
        <3>6. q = [req[r] EXCEPT !.role = role, !.stale = FALSE, !.pc = pc]
            BY <3>4, <3>5
        <3> HIDE DEF q
        <3>7. /\ q \in Request /\ q.op = req[r].op /\ q.target = req[r].target
              /\ q.role = ResolveRole(r) /\ q.pc \in {"count", "write"}
            BY <1>0, <3>5, <3>6 DEF Request
        <3>8. req' = [req EXCEPT ![r] = q]
            BY <2>1 DEF q
        <3>9. QED BY <1>7, <3>1, <3>2, <3>7, <3>8, QuietStep DEF Load, IInv, TypeOk
    <2>2. CASE req[r].op = "delete" /\ req' = [req EXCEPT ![r].stale = TRUE, ![r].pc = "write"]
        <3> DEFINE q == [req[r] EXCEPT !.stale = TRUE, !.pc = "write"]
        <3>1. /\ q \in Request /\ q.op = req[r].op /\ q.target = req[r].target
              /\ q.role = req[r].role /\ q.pc = "write"
            BY <1>0 DEF Request
        <3>2. req[r].pc = "load" /\ req' = [req EXCEPT ![r] = q]
            BY <1>7, <2>2 DEF Load
        <3> HIDE DEF q
        <3>3. QED BY <1>7, <3>1, <3>2, QuietStep DEF Load, IInv, TypeOk, ReqInv
    <2>3. QED BY <1>7, <2>1, <2>2 DEF Load
<1>8. ASSUME NEW r \in Requests, CountAdmins(r) PROVE IInv'
    <2>1. CASE Finish(r)
        BY <1>8, <2>1, QuietStep DEF CountAdmins, Finish, IInv, TypeOk
    <2>2. CASE req' = [req EXCEPT ![r].stale = FALSE, ![r].pc = "write"]
        <3> DEFINE q == [req[r] EXCEPT !.stale = FALSE, !.pc = "write"]
        <3>1. /\ q \in Request /\ q.op = req[r].op /\ q.target = req[r].target
              /\ q.role = req[r].role /\ q.pc = "write"
            BY <1>0 DEF Request
        <3>2. req[r].pc = "count" /\ req' = [req EXCEPT ![r] = q]
            BY <1>8, <2>2 DEF CountAdmins
        <3> HIDE DEF q
        <3>3. QED BY <1>8, <3>1, <3>2, QuietStep DEF CountAdmins, IInv, TypeOk, ReqInv
    <2>3. QED BY <1>8, <2>1, <2>2 DEF CountAdmins
<1>9. ASSUME NEW r \in Requests, UpdateUser(r) PROVE IInv'
    <2> DEFINE u == req[r].target
               next == IF req[r].newPw THEN [req[r] EXCEPT !.pc = "password"] ELSE Idle
    <2>1. /\ req[r].pc = "write" /\ req[r].op \in {"update", "profile"}
          /\ u \in Ids /\ Exists(u) /\ req[r].role \in Roles
        BY <1>9 DEF UpdateUser, IInv, ReqInv
    <2>2. next \in Request
        BY <1>0 DEF Request
    <2>3. /\ next.target \in Ids \/ next.pc = "idle"
          /\ next.op \in {"create", "update", "delete", "profile"} => next.role \in Roles
          /\ next.pc \notin {"verified", "session"}
        BY <1>0, <2>1 DEF Request
    <2>4. users[u] \in User
        BY <2>1 DEF IInv, TypeOk, Exists
    <2>5. [users[u] EXCEPT !.role = req[r].role] \in User
        BY <2>1, <2>4 DEF User
    <2>6. users' = [users EXCEPT ![u] = [users[u] EXCEPT !.role = req[r].role]]
        BY <1>9 DEF UpdateUser
    <2>7. users' \in [Ids -> User \cup {NoUser}]
        BY <2>5, <2>6 DEF IInv, TypeOk
    <2>8. RowInv'
        <3> SUFFICES ASSUME NEW v \in Ids, Exists(v)'
                     PROVE  /\ users'[v].acct = v
                            /\ v < nextId'
                            /\ users'[v].pw <= changes' + 1
            BY DEF RowInv
        <3>1. Exists(v)
            BY <2>1, <2>6 DEF Exists, IInv, TypeOk
        <3>2. users'[v].acct = users[v].acct /\ users'[v].pw = users[v].pw
            BY <2>4, <2>6 DEF User, IInv, TypeOk
        <3>3. QED BY <1>9, <3>1, <3>2 DEF RowInv, IInv, UpdateUser
    <2>9. SessInv'
        BY <1>9 DEF UpdateUser, IInv, SessInv
    <2> HIDE DEF u, next
    <2>10. CASE RoleWritten(r, next)
        <3>1. /\ req' \in [Requests -> Request] /\ raced' \in BOOLEAN
              /\ req'[r] = next
              /\ \A q \in Requests \ {r} :
                     /\ req'[q].op = req[q].op
                     /\ req'[q].pc = req[q].pc
                     /\ req'[q].target = req[q].target
                     /\ req'[q].acct = req[q].acct
                     /\ req'[q].role = req[q].role
            BY <2>2, <2>10, RoleWrittenFacts DEF IInv
        <3>2. nextId' = nextId
            BY <1>9 DEF UpdateUser
        <3>3. ReqInv'
            BY <2>3, <3>1, <3>2 DEF IInv, ReqInv
        <3>4. TypeOk'
            BY <1>9, <2>7, <3>1 DEF UpdateUser, IInv, TypeOk
        <3>5. QED BY <2>8, <2>9, <3>3, <3>4 DEF IInv
    <2>11. CASE req' = [req EXCEPT ![r] = next] /\ UNCHANGED raced
        <3>1. req' \in [Requests -> Request]
            BY <2>2, <2>11, ReqUpdate DEF IInv
        <3>2. nextId' = nextId
            BY <1>9 DEF UpdateUser
        <3>3. ReqInv'
            BY <2>3, <2>11, <3>2 DEF IInv, ReqInv, TypeOk
        <3>4. TypeOk'
            BY <1>9, <2>7, <2>11, <3>1 DEF UpdateUser, IInv, TypeOk
        <3>5. QED BY <2>8, <2>9, <3>3, <3>4 DEF IInv
    <2>12. QED BY <1>9, <2>10, <2>11 DEF UpdateUser, u, next
<1>10. ASSUME NEW r \in Requests, UpdateUserPassword(r) PROVE IInv'
    <2> DEFINE u == req[r].target
               pw == users[u].pw + 1
               kept == sessions \ SessionsOf(u)
    <2>1. req[r].pc = "password" /\ u \in Ids /\ Exists(u) /\ changes < MaxChanges
        BY <1>10 DEF UpdateUserPassword, IInv, ReqInv
    <2>2. users[u] \in User
        BY <2>1 DEF IInv, TypeOk, Exists
    <2>3. /\ users[u].acct = u /\ u < nextId /\ users[u].pw <= changes + 1
        BY <2>1 DEF IInv, RowInv
    <2>4. pw \in Passwords /\ pw <= changes + 2
        BY <2>1, <2>2, <2>3 DEF User, Passwords, IInv, TypeOk
    <2>5. [users[u] EXCEPT !.pw = pw] \in User
        BY <2>2, <2>4 DEF User
    <2>6. users' = [users EXCEPT ![u] = [users[u] EXCEPT !.pw = pw]]
        BY <1>10 DEF UpdateUserPassword
    <2>7. /\ sessions' \subseteq Session /\ issued' \subseteq Tokens /\ SessInv'
        <3>1. CASE sessions' = kept /\ UNCHANGED issued
            BY <1>10, <3>1 DEF UpdateUserPassword, IInv, TypeOk, SessInv
        <3>2. CASE NewSession(kept, u, users[u].acct, pw)
            <4>1. PICK t \in Tokens \ issued :
                    /\ issued' = issued \cup {t}
                    /\ sessions' = kept \cup {[token |-> t, user |-> u, pw |-> pw,
                                               acct |-> users[u].acct]}
                BY <3>2 DEF NewSession
            <4>2. [token |-> t, user |-> u, pw |-> pw, acct |-> users[u].acct] \in Session
                BY <2>1, <2>3, <2>4 DEF Session
            <4>3. QED BY <1>10, <2>3, <4>1, <4>2 DEF UpdateUserPassword, IInv, TypeOk, SessInv
        <3>3. QED BY <1>10, <3>1, <3>2 DEF UpdateUserPassword
    <2>8. RowInv'
        <3> SUFFICES ASSUME NEW v \in Ids, Exists(v)'
                     PROVE  /\ users'[v].acct = v
                            /\ v < nextId'
                            /\ users'[v].pw <= changes' + 1
            BY DEF RowInv
        <3>1. changes' = changes + 1 /\ nextId' = nextId /\ changes \in Nat
            BY <1>10 DEF UpdateUserPassword, IInv, TypeOk
        <3>2. CASE v = u
            BY <2>2, <2>3, <2>4, <2>6, <3>1, <3>2 DEF User, IInv, TypeOk
        <3>3. CASE v # u
            <4>1. users'[v] = users[v]
                BY <2>6, <3>3 DEF IInv, TypeOk
            <4>2. Exists(v)
                BY <4>1 DEF Exists
            <4>3. users[v].pw \in Nat
                BY <4>2 DEF IInv, TypeOk, User, Passwords, Exists
            <4>4. QED BY <3>1, <4>1, <4>2, <4>3 DEF IInv, RowInv
        <3>4. QED BY <3>2, <3>3
    <2>9. req' = [req EXCEPT ![r] = Idle]
        BY <1>10 DEF UpdateUserPassword, Finish
    <2>10. req' \in [Requests -> Request]
        BY <2>9, ReqUpdate DEF IInv
    <2>11. users' \in [Ids -> User \cup {NoUser}]
        BY <2>5, <2>6 DEF IInv, TypeOk
    <2>12. TypeOk'
        BY <1>10, <2>7, <2>10, <2>11 DEF UpdateUserPassword, IInv, TypeOk
    <2>13. ReqInv'
        BY <1>10, <2>9 DEF UpdateUserPassword, IInv, TypeOk, ReqInv
    <2>14. QED BY <2>7, <2>8, <2>12, <2>13 DEF IInv
<1>11. ASSUME NEW r \in Requests, DeleteUser(r) PROVE IInv'
    <2>1. /\ users' \in [Ids -> User \cup {NoUser}]
          /\ \A v \in Ids : Exists(v)' => Exists(v) /\ users'[v] = users[v]
        BY <1>11 DEF DeleteUser, IInv, TypeOk, Exists
    <2>2. sessions' \subseteq sessions /\ UNCHANGED <<nextId, issued, failures, changes>>
        BY <1>11 DEF DeleteUser
    <2>3. RowInv' /\ SessInv'
        BY <2>1, <2>2 DEF IInv, RowInv, SessInv
    <2>4. CASE RoleWritten(r, Idle)
        <3>1. /\ req' \in [Requests -> Request] /\ raced' \in BOOLEAN
              /\ req'[r] = Idle
              /\ \A q \in Requests \ {r} :
                     /\ req'[q].op = req[q].op
                     /\ req'[q].pc = req[q].pc
                     /\ req'[q].target = req[q].target
                     /\ req'[q].acct = req[q].acct
                     /\ req'[q].role = req[q].role
            BY <2>4, RoleWrittenFacts DEF IInv
        <3>2. ReqInv'
            BY <2>2, <3>1 DEF IInv, ReqInv
        <3>3. QED BY <2>1, <2>2, <2>3, <3>1, <3>2 DEF IInv, TypeOk
    <2>5. CASE Finish(r) /\ UNCHANGED raced
        <3>1. req' \in [Requests -> Request] /\ req' = [req EXCEPT ![r] = Idle]
            BY <2>5, ReqUpdate DEF IInv, Finish
        <3>2. ReqInv'
            BY <2>2, <3>1 DEF IInv, ReqInv, TypeOk
        <3>3. QED BY <2>1, <2>2, <2>3, <2>5, <3>1, <3>2 DEF IInv, TypeOk
    <2>6. QED BY <1>11, <2>4, <2>5 DEF DeleteUser
<1>12. ASSUME NEW r \in Requests, CreateUser(r) PROVE IInv'
    <2> DEFINE row == [role |-> req[r].role, pw |-> 1, acct |-> nextId]
    <2>1. /\ nextId \in Ids /\ nextId' = nextId + 1 /\ req[r].role \in Roles
          /\ users' = [users EXCEPT ![nextId] = row]
          /\ UNCHANGED <<sessions, issued, failures, changes, raced>>
        BY <1>12 DEF CreateUser, IInv, TypeOk, ReqInv
    <2>2. row \in User
        BY <2>1 DEF User, Passwords
    <2>3. users' \in [Ids -> User \cup {NoUser}]
        BY <2>1, <2>2 DEF IInv, TypeOk
    <2>4. req' \in [Requests -> Request] /\ req' = [req EXCEPT ![r] = Idle]
        BY <1>12, ReqUpdate DEF IInv, CreateUser, Finish
    <2>5. TypeOk'
        BY <2>1, <2>3, <2>4 DEF IInv, TypeOk
    <2>6. ReqInv'
        BY <2>1, <2>4 DEF IInv, TypeOk, ReqInv, Request
    <2>7. RowInv'
        <3> SUFFICES ASSUME NEW v \in Ids, Exists(v)'
                     PROVE  /\ users'[v].acct = v
                            /\ v < nextId'
                            /\ users'[v].pw <= changes' + 1
            BY DEF RowInv
        <3>1. CASE v = nextId
            BY <2>1, <3>1 DEF IInv, TypeOk
        <3>2. CASE v # nextId
            BY <2>1, <3>2 DEF IInv, TypeOk, RowInv, Exists
        <3>3. QED BY <3>1, <3>2
    <2>8. SessInv'
        BY <2>1 DEF IInv, TypeOk, SessInv, Session
    <2>9. QED BY <2>5, <2>6, <2>7, <2>8 DEF IInv
<1>13. ASSUME NEW r \in Requests, GiveUp(r) PROVE IInv'
    BY <1>13, QuietStep DEF GiveUp, Finish, IInv, TypeOk
<1>14. ASSUME NEW u \in Counted, Slide(u) PROVE IInv'
    <2>1. failures' \in [Counted -> Nat]
        BY <1>14 DEF Slide, IInv, TypeOk
    <2>2. UNCHANGED <<users, nextId, sessions, issued, req, changes, raced>>
        BY <1>14 DEF Slide
    <2>3. QED BY <2>1, <2>2 DEF IInv, TypeOk, ReqInv, RowInv, SessInv, Exists
<1>15. ASSUME EndSession PROVE IInv'
    BY <1>15 DEF EndSession, IInv, TypeOk, ReqInv, RowInv, SessInv, Exists
<1>16. CASE UNCHANGED vars
    BY <1>16 DEF vars, IInv, TypeOk, ReqInv, RowInv, SessInv, Exists
<1>17. QED
    BY <1>1, <1>2, <1>3, <1>4, <1>5, <1>6, <1>7, <1>8, <1>9, <1>10, <1>11, <1>12,
       <1>13, <1>14, <1>15, <1>16 DEF Next, SignIn, Manage

LEMMA Inductive == Spec => []IInv
BY IInit, IStep, PTL DEF Spec

(***************************************************************************)
(* Every variable of the accounts stays in its domain.                     *)
(***************************************************************************)
THEOREM TypeCorrect == Spec => []TypeOk
<1>1. IInv => TypeOk
    BY DEF IInv
<1>2. QED BY <1>1, Inductive, PTL

(***************************************************************************)
(* DeleteUser, CreateUser: no session, also one inserted by a login after  *)
(* its account was deleted, ever stands for another account.               *)
(***************************************************************************)
THEOREM SessionsNameTheirAccounts == Spec => []SessionNamesItsAccount
<1>1. IInv => SessionNamesItsAccount
    BY DEF IInv, TypeOk, Session, RowInv, SessInv, SessionNamesItsAccount
<1>2. QED BY <1>1, Inductive, PTL

-----------------------------------------------------------------------------
LEMMA OldStep == IInv /\ OldSessionsGone /\ [Next]_vars => OldSessionsGone'
<1> SUFFICES ASSUME IInv, OldSessionsGone, [Next]_vars PROVE OldSessionsGone'
    OBVIOUS
<1> USE ConstantFacts, UserFacts
<1>1. CASE UNCHANGED <<users, sessions>>
    BY <1>1 DEF OldSessionsGone, Exists
<1>2. ASSUME NEW r \in Requests, CreateSession(r) PROVE OldSessionsGone'
    <2>1. PICK t \in Tokens \ issued :
            sessions' = sessions \cup {[token |-> t, user |-> req[r].target,
                                       pw |-> users[req[r].target].pw,
                                       acct |-> req[r].acct]}
        BY <1>2 DEF CreateSession, NewSession
    <2>2. QED BY <1>2, <2>1 DEF CreateSession, OldSessionsGone, Exists
<1>3. ASSUME NEW r \in Requests, UpdateUser(r) PROVE OldSessionsGone'
    <2> DEFINE u == req[r].target
    <2>1. /\ u \in Ids /\ Exists(u) /\ sessions' = sessions
          /\ users' = [users EXCEPT ![u] = [users[u] EXCEPT !.role = req[r].role]]
        BY <1>3 DEF UpdateUser, IInv, ReqInv
    <2>2. users[u] \in User
        BY <2>1 DEF IInv, TypeOk, Exists
    <2>3. \A v \in Ids : users'[v].pw = users[v].pw /\ (Exists(v)' => Exists(v))
        BY <2>1, <2>2 DEF IInv, TypeOk, User, Exists
    <2>4. \A s \in sessions : s.user \in Ids
        BY DEF IInv, TypeOk, Session
    <2>5. QED BY <2>1, <2>3, <2>4 DEF OldSessionsGone
<1>4. ASSUME NEW r \in Requests, UpdateUserPassword(r) PROVE OldSessionsGone'
    <2> DEFINE u == req[r].target
               pw == users[u].pw + 1
               kept == sessions \ SessionsOf(u)
    <2>1. /\ u \in Ids /\ Exists(u)
          /\ users' = [users EXCEPT ![u] = [users[u] EXCEPT !.pw = pw]]
        BY <1>4 DEF UpdateUserPassword, IInv, ReqInv
    <2>2. users[u] \in User
        BY <2>1 DEF IInv, TypeOk, Exists
    <2>3. users'[u].pw = pw /\ \A v \in Ids \ {u} : users'[v] = users[v]
        BY <2>1, <2>2 DEF IInv, TypeOk, User
    <2>4. \A s \in sessions' : s \in kept \/ (s.user = u /\ s.pw = pw)
        <3>1. CASE sessions' = kept
            BY <3>1
        <3>2. CASE NewSession(kept, u, users[u].acct, pw)
            BY <3>2 DEF NewSession
        <3>3. QED BY <1>4, <3>1, <3>2 DEF UpdateUserPassword
    <2>5. \A s \in kept : s \in sessions /\ s.user \in Ids \ {u}
        BY DEF SessionsOf, IInv, TypeOk, Session
    <2>6. QED BY <2>3, <2>4, <2>5 DEF OldSessionsGone, Exists
<1>5. ASSUME NEW r \in Requests, DeleteUser(r) PROVE OldSessionsGone'
    <2>1. /\ sessions' \subseteq sessions
          /\ \A v \in Ids : Exists(v)' => Exists(v) /\ users'[v] = users[v]
        BY <1>5 DEF DeleteUser, IInv, TypeOk, Exists
    <2>2. \A s \in sessions : s.user \in Ids
        BY DEF IInv, TypeOk, Session
    <2>3. QED BY <2>1, <2>2 DEF OldSessionsGone
<1>6. ASSUME NEW r \in Requests, CreateUser(r) PROVE OldSessionsGone'
    <2>1. /\ sessions' = sessions
          /\ \A v \in Ids : v # nextId => users'[v] = users[v]
        BY <1>6 DEF CreateUser, IInv, TypeOk
    <2>2. \A s \in sessions : s.user \in Ids /\ s.user # nextId
        BY DEF IInv, TypeOk, Session, SessInv
    <2>3. QED BY <2>1, <2>2 DEF OldSessionsGone, Exists
<1>7. ASSUME EndSession PROVE OldSessionsGone'
    BY <1>7 DEF EndSession, OldSessionsGone, Exists
<1>8. QED
    BY <1>1, <1>2, <1>3, <1>4, <1>5, <1>6, <1>7
    DEF Next, SignIn, Manage, vars, Allow, Verify, RecordFailure, ClearFailures,
        Begin, Load, CountAdmins, GiveUp, Slide

(***************************************************************************)
(* UpdateUserPassword: no session issued under an earlier password stays.  *)
(***************************************************************************)
THEOREM PasswordChangeEndsSessions == Spec => []OldSessionsGone
<1>1. Init => OldSessionsGone
    BY DEF Init, OldSessionsGone
<1>2. QED BY <1>1, OldStep, Inductive, PTL DEF Spec

-----------------------------------------------------------------------------
(* A request about to take the role of an administrator away, whose reads   *)
(* are good, leaves another one.                                            *)
Guarded(r) ==
    /\ req[r].pc = "write"
    /\ req[r].op \in {"update", "profile", "delete"}
    /\ ~ req[r].stale
    /\ req[r].target \in Admins
    /\ req[r].role # "admin"
    => \E v \in Admins : v # req[r].target

DeleteRole == \A r \in Requests : req[r].op = "delete" => req[r].role = "regular"

AdminInv == raced \/ (Admins # {} /\ \A r \in Requests : Guarded(r))

LEMMA DeleteRoleStep == IInv /\ DeleteRole /\ [Next]_vars => DeleteRole'
<1> SUFFICES ASSUME IInv, DeleteRole, [Next]_vars, NEW q \in Requests,
                    req'[q].op = "delete"
             PROVE  req'[q].role = "regular"
    BY DEF DeleteRole
<1> USE IdleFacts
<1>0. \A p \in Requests : req[p] \in Request
    BY DEF IInv, TypeOk
<1>1. CASE req'[q].op = req[q].op /\ req'[q].role = req[q].role
    BY <1>1 DEF DeleteRole
<1>2. ASSUME NEW r \in Requests, Allow(r) \/ Verify(r) \/ RecordFailure(r)
                                 \/ ClearFailures(r) \/ CreateSession(r)
      PROVE  req'[q].role = "regular"
    <2>1. CASE Allow(r)
        BY <1>1, <2>1 DEF Allow, Idle, IInv, TypeOk
    <2>2. CASE Verify(r)
        BY <1>0, <1>1, <2>2 DEF Verify, Proceed, IInv, TypeOk, Request
    <2>3. CASE RecordFailure(r) \/ CreateSession(r)
        BY <1>1, <2>3 DEF RecordFailure, CreateSession, Finish, IInv, TypeOk
    <2>4. CASE ClearFailures(r)
        BY <1>0, <1>1, <2>4 DEF ClearFailures, Proceed, IInv, TypeOk, Request
    <2>5. QED BY <1>2, <2>1, <2>2, <2>3, <2>4
<1>3. ASSUME NEW r \in Requests, Begin(r) PROVE req'[q].role = "regular"
    <2>1. PICK s \in sessions, op \in {"create", "update", "delete", "profile"},
               u \in Ids, role \in Roles, newPw \in BOOLEAN :
            /\ Exists(s.user)
            /\ op # "profile" => s.user \in Admins
            /\ op \in {"profile", "create"} => u = s.user
            /\ op = "delete" => u # s.user
            /\ op \in {"delete", "profile"} => role = "regular"
            /\ newPw => op \in {"update", "profile"}
            /\ req' = [req EXCEPT ![r] =
                      IF op = "create"
                      THEN [Idle EXCEPT !.op = op, !.role = role, !.pc = "write"]
                      ELSE [Idle EXCEPT !.op = op, !.own = (u = s.user), !.target = u,
                                        !.role = role, !.newPw = newPw, !.pc = "load"]]
        BY <1>3, Zenon DEF Begin
    <2>2. PICK own \in BOOLEAN : own = (u = s.user)
        OBVIOUS
    <2>3. req'[r].op = op /\ req'[r].role = role
        <3>1. CASE op = "create"
            BY <2>1, <3>1 DEF Idle, IInv, TypeOk
        <3>2. CASE op # "create"
            BY <2>1, <2>2, <3>2 DEF Idle, IInv, TypeOk
        <3>3. QED BY <3>1, <3>2
    <2>4. q # r => req'[q] = req[q]
        BY <2>1 DEF IInv, TypeOk
    <2>5. QED BY <1>1, <2>1, <2>3, <2>4
<1>4. ASSUME NEW r \in Requests, Load(r) PROVE req'[q].role = "regular"
    BY <1>0, <1>1, <1>4 DEF Load, ResolveRole, DeleteRole, IInv, TypeOk, Request
<1>5. ASSUME NEW r \in Requests, CountAdmins(r) PROVE req'[q].role = "regular"
    BY <1>0, <1>1, <1>5 DEF CountAdmins, Finish, IInv, TypeOk, Request
<1>6. ASSUME NEW r \in Requests, UpdateUser(r) PROVE req'[q].role = "regular"
    <2> DEFINE next == IF req[r].newPw THEN [req[r] EXCEPT !.pc = "password"] ELSE Idle
    <2>1. next \in Request
        BY <1>0 DEF Request
    <2>2. (next.op = req[r].op /\ next.role = req[r].role) \/ next.op = "none"
        BY <1>0 DEF Request
    <2> HIDE DEF next
    <2>3. CASE RoleWritten(r, next)
        BY <1>1, <2>1, <2>2, <2>3, RoleWrittenFacts DEF IInv, DeleteRole
    <2>4. CASE req' = [req EXCEPT ![r] = next]
        BY <1>1, <2>2, <2>4 DEF IInv, TypeOk, DeleteRole
    <2>5. QED BY <1>6, <2>3, <2>4 DEF UpdateUser, next
<1>7. ASSUME NEW r \in Requests, DeleteUser(r) PROVE req'[q].role = "regular"
    <2>1. CASE RoleWritten(r, Idle)
        BY <1>1, <2>1, RoleWrittenFacts DEF IInv
    <2>2. CASE Finish(r)
        BY <1>1, <2>2 DEF Finish, IInv, TypeOk
    <2>3. QED BY <1>7, <2>1, <2>2 DEF DeleteUser
<1>8. ASSUME NEW r \in Requests, UpdateUserPassword(r) \/ CreateUser(r) \/ GiveUp(r)
      PROVE  req'[q].role = "regular"
    BY <1>1, <1>8 DEF UpdateUserPassword, CreateUser, GiveUp, Finish, IInv, TypeOk
<1>9. CASE UNCHANGED req
    BY <1>1, <1>9
<1>10. QED
    BY <1>2, <1>3, <1>4, <1>5, <1>6, <1>7, <1>8, <1>9
    DEF Next, SignIn, Manage, Slide, EndSession, vars

(* A step that changes no role and one request, which is no worse guarded.  *)
LEMMA AdminQuiet ==
    ASSUME IInv, AdminInv, NEW r \in Requests, Admins' = Admins, raced' = raced,
           \A q \in Requests \ {r} : req'[q] = req[q],
           Guarded(r)'
    PROVE  AdminInv'
<1>1. ASSUME NEW q \in Requests \ {r}, Guarded(q) PROVE Guarded(q)'
    BY <1>1 DEF Guarded
<1>2. QED BY <1>1 DEF AdminInv

LEMMA AdminsSame ==
    ASSUME UNCHANGED users
    PROVE  Admins' = Admins
BY DEF Admins

(* A write of a role, which makes stale what the others have read of it.    *)
LEMMA AdminRoleWritten ==
    ASSUME IInv, AdminInv, NEW r \in Requests, NEW next \in Request,
           next.pc # "write", RoleWritten(r, next),
           Guarded(r) /\ Admins # {} /\ ~ req[r].stale => Admins' # {}
    PROVE  AdminInv'
<1>1. /\ raced' = (raced \/ req[r].stale)
      /\ req'[r] = next
      /\ \A q \in Requests \ {r} :
             /\ req'[q].pc = req[q].pc
             /\ req[q].pc \in {"count", "write"} => req'[q].stale
    BY RoleWrittenFacts DEF IInv
<1>2. \A q \in Requests : Guarded(q)'
    <2> SUFFICES ASSUME NEW q \in Requests, req'[q].pc = "write", ~ req'[q].stale
                 PROVE  FALSE
        BY DEF Guarded
    <2>1. QED BY <1>1
<1>3. QED BY <1>1, <1>2 DEF AdminInv

LEMMA AdminStep == IInv /\ DeleteRole /\ AdminInv /\ [Next]_vars => AdminInv'
<1> SUFFICES ASSUME IInv, DeleteRole, AdminInv, [Next]_vars PROVE AdminInv'
    OBVIOUS
<1> USE IdleFacts, UserFacts
<1>0. \A r \in Requests : req[r] \in Request
    BY DEF IInv, TypeOk
<1>1. ASSUME NEW r \in Requests, Allow(r) \/ Verify(r) \/ RecordFailure(r)
                  \/ ClearFailures(r) \/ CreateSession(r) \/ GiveUp(r)
      PROVE  AdminInv'
    <2>1. /\ UNCHANGED <<users, raced>>
          /\ req'[r].pc # "write"
          /\ \A q \in Requests \ {r} : req'[q] = req[q]
        <3>1. CASE Allow(r)
            BY <3>1 DEF Allow, Idle, IInv, TypeOk
        <3>2. CASE Verify(r)
            BY <1>0, <3>2 DEF Verify, Proceed, IInv, TypeOk, Request
        <3>3. CASE RecordFailure(r) \/ CreateSession(r) \/ GiveUp(r)
            BY <3>3 DEF RecordFailure, CreateSession, GiveUp, Finish, IInv, TypeOk
        <3>4. CASE ClearFailures(r)
            BY <1>0, <3>4 DEF ClearFailures, Proceed, IInv, TypeOk, Request
        <3>5. QED BY <1>1, <3>1, <3>2, <3>3, <3>4
    <2>2. QED BY <2>1, AdminsSame, AdminQuiet DEF Guarded
<1>2. ASSUME NEW r \in Requests, Begin(r) PROVE AdminInv'
    <2>1. PICK s \in sessions, op \in {"create", "update", "delete", "profile"},
               u \in Ids, role \in Roles, newPw \in BOOLEAN :
            /\ Exists(s.user)
            /\ op # "profile" => s.user \in Admins
            /\ op \in {"profile", "create"} => u = s.user
            /\ op = "delete" => u # s.user
            /\ op \in {"delete", "profile"} => role = "regular"
            /\ newPw => op \in {"update", "profile"}
            /\ req' = [req EXCEPT ![r] =
                      IF op = "create"
                      THEN [Idle EXCEPT !.op = op, !.role = role, !.pc = "write"]
                      ELSE [Idle EXCEPT !.op = op, !.own = (u = s.user), !.target = u,
                                        !.role = role, !.newPw = newPw, !.pc = "load"]]
        BY <1>2, Zenon DEF Begin
    <2>2. PICK own \in BOOLEAN : own = (u = s.user)
        OBVIOUS
    <2>3. req'[r].op = "create" \/ req'[r].pc = "load"
        <3>1. CASE op = "create"
            BY <2>1, <3>1 DEF Idle, IInv, TypeOk
        <3>2. CASE op # "create"
            BY <2>1, <2>2, <3>2 DEF Idle, IInv, TypeOk
        <3>3. QED BY <3>1, <3>2
    <2>4. \A q \in Requests \ {r} : req'[q] = req[q]
        BY <2>1 DEF IInv, TypeOk
    <2>5. UNCHANGED <<users, raced>>
        BY <1>2 DEF Begin
    <2>6. QED BY <2>3, <2>4, <2>5, AdminsSame, AdminQuiet DEF Guarded
<1>3. ASSUME NEW r \in Requests, Load(r) PROVE AdminInv'
    <2>1. UNCHANGED <<users, raced>> /\ \A q \in Requests \ {r} : req'[q] = req[q]
        BY <1>3 DEF Load, IInv, TypeOk
    <2>2. Guarded(r)'
        <3> SUFFICES ASSUME req'[r].pc = "write", ~ req'[r].stale,
                            req'[r].target \in Admins, req'[r].role # "admin"
                     PROVE  FALSE
            BY <2>1, AdminsSame DEF Guarded
        <3>1. CASE req' = [req EXCEPT ![r].role = ResolveRole(r), ![r].stale = FALSE,
                               ![r].pc = IF NeedsCount(r) THEN "count" ELSE "write"]
            <4>1. /\ req'[r].role = ResolveRole(r) /\ req'[r].target = req[r].target
                  /\ req'[r].pc = IF NeedsCount(r) THEN "count" ELSE "write"
                BY <1>0, <3>1 DEF IInv, TypeOk, Request
            <4>2. ~ NeedsCount(r)
                BY <4>1
            <4>3. QED BY <4>1, <4>2 DEF NeedsCount
        <3>2. CASE req' = [req EXCEPT ![r].stale = TRUE, ![r].pc = "write"]
            BY <1>0, <3>2 DEF IInv, TypeOk, Request
        <3>3. QED BY <1>3, <3>1, <3>2 DEF Load
    <2>3. QED BY <2>1, <2>2, AdminsSame, AdminQuiet
<1>4. ASSUME NEW r \in Requests, CountAdmins(r) PROVE AdminInv'
    <2>1. UNCHANGED <<users, raced>> /\ \A q \in Requests \ {r} : req'[q] = req[q]
        BY <1>4 DEF CountAdmins, Finish, IInv, TypeOk
    <2>2. Guarded(r)'
        <3>1. CASE \E u, v \in Admins : u # v
            <4>1. \E v \in Admins : v # req'[r].target
                BY <3>1
            <4>2. QED BY <2>1, <4>1, AdminsSame DEF Guarded
        <3>2. CASE Finish(r)
            BY <3>2 DEF Finish, Guarded, IInv, TypeOk
        <3>3. QED BY <1>4, <3>1, <3>2 DEF CountAdmins
    <2>3. QED BY <2>1, <2>2, AdminsSame, AdminQuiet
<1>5. ASSUME NEW r \in Requests, UpdateUser(r) PROVE AdminInv'
    <2> DEFINE u == req[r].target
               next == IF req[r].newPw THEN [req[r] EXCEPT !.pc = "password"] ELSE Idle
    <2>1. /\ req[r].pc = "write" /\ req[r].op \in {"update", "profile"}
          /\ u \in Ids /\ Exists(u)
          /\ users' = [users EXCEPT ![u] = [users[u] EXCEPT !.role = req[r].role]]
        BY <1>5 DEF UpdateUser, IInv, ReqInv
    <2>2. users[u] \in User
        BY <2>1 DEF IInv, TypeOk, Exists
    <2>3. users'[u].role = req[r].role /\ \A v \in Ids \ {u} : users'[v] = users[v]
        BY <2>1, <2>2 DEF IInv, TypeOk, User
    <2>4. next \in Request /\ next.pc # "write"
        BY <1>0 DEF Request
    <2> HIDE DEF next
    <2>5. CASE users[u].role # req[r].role /\ RoleWritten(r, next)
        <3>1. Guarded(r) /\ Admins # {} /\ ~ req[r].stale => Admins' # {}
            <4> SUFFICES ASSUME Guarded(r), Admins # {}, ~ req[r].stale
                         PROVE  Admins' # {}
                OBVIOUS
            <4>1. CASE req[r].role = "admin"
                BY <2>1, <2>3, <4>1 DEF Admins
            <4>2. CASE req[r].role # "admin"
                <5>1. PICK v \in Admins : v # u
                    BY <2>1, <4>2 DEF Guarded
                <5>2. QED BY <2>3, <5>1 DEF Admins
            <4>3. QED BY <4>1, <4>2
        <3>2. QED BY <2>4, <2>5, <3>1, AdminRoleWritten
    <2>6. CASE users[u].role = req[r].role /\ req' = [req EXCEPT ![r] = next] /\ UNCHANGED raced
        <3>1. Admins' = Admins
            BY <2>3, <2>6 DEF Admins
        <3>2. req'[r] = next /\ \A q \in Requests \ {r} : req'[q] = req[q]
            BY <2>6 DEF IInv, TypeOk
        <3>3. QED BY <2>4, <2>6, <3>1, <3>2, AdminQuiet DEF Guarded
    <2>7. QED BY <1>5, <2>5, <2>6 DEF UpdateUser, next
<1>6. ASSUME NEW r \in Requests, UpdateUserPassword(r) PROVE AdminInv'
    <2> DEFINE u == req[r].target
    <2>1. /\ u \in Ids /\ Exists(u) /\ UNCHANGED raced
          /\ users' = [users EXCEPT ![u] = [users[u] EXCEPT !.pw = users[u].pw + 1]]
          /\ req' = [req EXCEPT ![r] = Idle]
        BY <1>6 DEF UpdateUserPassword, IInv, ReqInv, Finish
    <2>2. users[u] \in User
        BY <2>1 DEF IInv, TypeOk, Exists
    <2>3. Admins' = Admins
        BY <2>1, <2>2 DEF Admins, IInv, TypeOk, User
    <2>4. req'[r] = Idle /\ \A q \in Requests \ {r} : req'[q] = req[q]
        BY <2>1 DEF IInv, TypeOk
    <2>5. QED BY <2>1, <2>3, <2>4, AdminQuiet DEF Guarded
<1>7. ASSUME NEW r \in Requests, DeleteUser(r) PROVE AdminInv'
    <2> DEFINE u == req[r].target
    <2>1. /\ req[r].pc = "write" /\ req[r].op = "delete" /\ u \in Ids
          /\ req[r].role = "regular"
          /\ users' = [users EXCEPT ![u] = NoUser]
        BY <1>7 DEF DeleteUser, IInv, ReqInv, DeleteRole
    <2>2. Admins' = Admins \ {u}
        BY <2>1 DEF Admins, IInv, TypeOk
    <2>3. CASE u \in Admins /\ RoleWritten(r, Idle)
        <3>1. Guarded(r) /\ Admins # {} /\ ~ req[r].stale => Admins' # {}
            BY <2>1, <2>2, <2>3 DEF Guarded
        <3>2. QED BY <2>3, <3>1, AdminRoleWritten
    <2>4. CASE u \notin Admins /\ Finish(r) /\ UNCHANGED raced
        <3>1. req'[r] = Idle /\ \A q \in Requests \ {r} : req'[q] = req[q]
            BY <2>4 DEF Finish, IInv, TypeOk
        <3>2. QED BY <2>2, <2>4, <3>1, AdminQuiet DEF Guarded
    <2>5. QED BY <1>7, <2>3, <2>4 DEF DeleteUser
<1>8. ASSUME NEW r \in Requests, CreateUser(r) PROVE AdminInv'
    <2>1. /\ nextId \in Ids /\ UNCHANGED raced
          /\ users' = [users EXCEPT ![nextId] = [role |-> req[r].role, pw |-> 1,
                                                 acct |-> nextId]]
          /\ req' = [req EXCEPT ![r] = Idle]
        BY <1>8, ConstantFacts DEF CreateUser, Finish, IInv, TypeOk
    <2>2. ~ Exists(nextId)
        BY <2>1 DEF IInv, RowInv, TypeOk
    <2>3. Admins \subseteq Admins' /\ Admins' \subseteq Admins \cup {nextId}
          /\ nextId \notin Admins
        BY <2>1, <2>2 DEF Admins, Exists, IInv, TypeOk
    <2>4. req'[r] = Idle /\ \A q \in Requests \ {r} : req'[q] = req[q]
        BY <2>1 DEF IInv, TypeOk
    <2>5. ASSUME ~ raced PROVE Admins' # {} /\ \A q \in Requests : Guarded(q)'
        <3>1. Admins # {} /\ \A q \in Requests : Guarded(q)
            BY <2>5 DEF AdminInv
        <3>2. ASSUME NEW q \in Requests PROVE Guarded(q)'
            <4>1. CASE q = r
                BY <2>4, <4>1 DEF Guarded
            <4>2. CASE q # r /\ req[q].target = nextId
                BY <2>3, <2>4, <3>1, <4>2 DEF Guarded
            <4>3. CASE q # r /\ req[q].target # nextId
                BY <2>3, <2>4, <3>1, <4>3 DEF Guarded
            <4>4. QED BY <4>1, <4>2, <4>3
        <3>3. QED BY <2>3, <3>1, <3>2
    <2>6. QED BY <2>1, <2>5 DEF AdminInv
<1>9. CASE UNCHANGED <<users, req, raced>>
    BY <1>9, AdminsSame DEF AdminInv, Guarded
<1>10. QED
    BY <1>1, <1>2, <1>3, <1>4, <1>5, <1>6, <1>7, <1>8, <1>9
    DEF Next, SignIn, Manage, Slide, EndSession, vars

(***************************************************************************)
(* resolveUserRoleUpdate, userDelete: the last administrator is lost only  *)
(* by a write whose reads were obsolete or never made.                     *)
(***************************************************************************)
THEOREM AdminsAreLostOnlyByRaces == Spec => []AdminsLostOnlyByRace
<1>1. Init => DeleteRole /\ AdminInv
    <2>1. ASSUME Init PROVE 1 \in Admins
        BY <2>1, ConstantFacts DEF Init, Admins
    <2>2. ASSUME Init, NEW r \in Requests PROVE req[r].op = "none" /\ req[r].pc = "idle"
        BY <2>2, IdleFacts DEF Init
    <2>3. QED BY <2>1, <2>2 DEF DeleteRole, AdminInv, Guarded
<1>2. AdminInv => AdminsLostOnlyByRace
    BY DEF AdminInv, AdminsLostOnlyByRace, SomeAdmin
<1>3. QED BY <1>1, <1>2, DeleteRoleStep, AdminStep, Inductive, PTL DEF Spec

-----------------------------------------------------------------------------
(* The requests that an attempt of one name keeps in flight, by counting.   *)
LEMMA InFlightFinite ==
    ASSUME NEW u
    PROVE  /\ IsFiniteSet(InFlight(u))
           /\ Cardinality(InFlight(u)) \in Nat
           /\ Cardinality(InFlight(u)) <= Cardinality(Requests)
           /\ Cardinality(Requests) \in Nat
<1>1. InFlight(u) \subseteq Requests
    BY DEF InFlight
<1>2. QED BY <1>1, RequestsAssumption, FS_Subset, FS_CardinalityType

LEMMA InFlightShrinks ==
    ASSUME NEW u \in Counted, FailuresBounded, failures \in [Counted -> Nat],
           failures' \in [Counted -> Nat], failures'[u] <= failures[u],
           InFlight(u)' \subseteq InFlight(u)
    PROVE  failures'[u] + Cardinality(InFlight(u)') < LoginMaxFailures + Cardinality(Requests)
<1>1. /\ IsFiniteSet(InFlight(u)')
      /\ Cardinality(InFlight(u)') \in Nat
      /\ Cardinality(InFlight(u)') <= Cardinality(InFlight(u))
    BY InFlightFinite, FS_Subset, FS_CardinalityType
<1>2. failures[u] + Cardinality(InFlight(u)) < LoginMaxFailures + Cardinality(Requests)
    BY DEF FailuresBounded
<1>3. failures[u] \in Nat /\ failures'[u] \in Nat
    OBVIOUS
<1>4. QED BY <1>1, <1>2, <1>3, InFlightFinite, ConstantFacts

LEMMA FailuresStep == IInv /\ FailuresBounded /\ [Next]_vars => FailuresBounded'
<1> SUFFICES ASSUME IInv, FailuresBounded, [Next]_vars, NEW u \in Counted
             PROVE  failures'[u] + Cardinality(InFlight(u)')
                    < LoginMaxFailures + Cardinality(Requests)
    BY DEF FailuresBounded
<1> USE IdleFacts
<1>0. /\ \A r \in Requests : req[r] \in Request
      /\ failures \in [Counted -> Nat]
    BY DEF IInv, TypeOk
<1>f. failures' \in [Counted -> Nat]
    BY IStep DEF IInv, TypeOk
<1>1. ASSUME failures' = failures,
             \A q \in Requests : req'[q].pc \in {"lookup", "refused"} =>
                 req[q].pc \in {"lookup", "refused"} /\ req'[q].target = req[q].target
      PROVE  failures'[u] + Cardinality(InFlight(u)')
             < LoginMaxFailures + Cardinality(Requests)
    <2>1. InFlight(u)' \subseteq InFlight(u)
        BY <1>1 DEF InFlight
    <2>2. failures'[u] <= failures[u]
        BY <1>0, <1>1
    <2>3. QED BY <1>0, <1>f, <2>1, <2>2, InFlightShrinks
<1>2. ASSUME NEW r \in Requests, Allow(r)
      PROVE  failures'[u] + Cardinality(InFlight(u)')
             < LoginMaxFailures + Cardinality(Requests)
    <2>1. PICK v \in Ids : /\ Allowed(v)
                           /\ req' = [req EXCEPT ![r] = [Idle EXCEPT !.op = "login",
                                                     !.pc = "lookup", !.target = v]]
        BY <1>2 DEF Allow
    <2>2. failures' = failures
        BY <1>2 DEF Allow
    <2>3. req'[r].target = v /\ \A q \in Requests \ {r} : req'[q] = req[q]
        BY <2>1 DEF Idle, IInv, TypeOk
    <2>4. CASE u = v
        <3>1. failures'[u] < LoginMaxFailures /\ failures'[u] \in Nat
            BY <1>0, <2>1, <2>2, <2>4 DEF Allowed
        <3>2. InFlight(u)' \subseteq Requests
            BY DEF InFlight
        <3>3. /\ Cardinality(InFlight(u)') <= Cardinality(Requests)
              /\ Cardinality(InFlight(u)') \in Nat /\ Cardinality(Requests) \in Nat
            BY <3>2, RequestsAssumption, FS_Subset, FS_CardinalityType
        <3>4. QED BY <3>1, <3>3, ConstantFacts
    <2>5. CASE u # v
        <3>1. InFlight(u)' \subseteq InFlight(u)
            BY <2>3, <2>5 DEF InFlight
        <3>2. failures'[u] <= failures[u]
            BY <1>0, <2>2
        <3>3. QED BY <1>0, <1>f, <3>1, <3>2, InFlightShrinks
    <2>6. QED BY <2>4, <2>5
<1>3. ASSUME NEW r \in Requests, Verify(r)
      PROVE  failures'[u] + Cardinality(InFlight(u)')
             < LoginMaxFailures + Cardinality(Requests)
    BY <1>0, <1>1, <1>3 DEF Verify, Proceed, IInv, TypeOk, Request
<1>4. ASSUME NEW r \in Requests, RecordFailure(r)
      PROVE  failures'[u] + Cardinality(InFlight(u)')
             < LoginMaxFailures + Cardinality(Requests)
    <2>1. /\ req[r].pc = "refused" /\ req'[r] = Idle
          /\ \A q \in Requests \ {r} : req'[q] = req[q]
        BY <1>4 DEF RecordFailure, Finish, IInv, TypeOk
    <2>2. InFlight(u)' = InFlight(u) \ {r}
        BY <2>1 DEF InFlight
    <2>3. CASE req[r].target = u
        <3>1. r \in InFlight(u)
            BY <2>1, <2>3 DEF InFlight
        <3>2. Cardinality(InFlight(u)') = Cardinality(InFlight(u)) - 1
            BY <2>2, <3>1, InFlightFinite, FS_RemoveElement
        <3>3. failures'[u] = failures[u] + 1
            BY <1>4, <2>3 DEF RecordFailure
        <3>4. failures[u] + Cardinality(InFlight(u)) < LoginMaxFailures + Cardinality(Requests)
            BY DEF FailuresBounded
        <3>5. failures[u] \in Nat /\ Cardinality(InFlight(u)) \in Nat
            BY <1>0, InFlightFinite
        <3>6. QED BY <3>2, <3>3, <3>4, <3>5, InFlightFinite, ConstantFacts
    <2>4. CASE req[r].target # u
        <3>1. failures'[u] <= failures[u]
            BY <1>0, <1>4, <2>4 DEF RecordFailure
        <3>2. QED BY <1>0, <1>f, <2>2, <3>1, InFlightShrinks
    <2>5. QED BY <2>3, <2>4
<1>5. ASSUME NEW r \in Requests, ClearFailures(r)
      PROVE  failures'[u] + Cardinality(InFlight(u)')
             < LoginMaxFailures + Cardinality(Requests)
    <2>1. InFlight(u)' \subseteq InFlight(u)
        BY <1>0, <1>5 DEF ClearFailures, Proceed, InFlight, IInv, TypeOk, Request
    <2>2. failures'[u] <= failures[u]
        BY <1>0, <1>5 DEF ClearFailures
    <2>3. QED BY <1>0, <1>f, <2>1, <2>2, InFlightShrinks
<1>6. ASSUME NEW v \in Counted, Slide(v)
      PROVE  failures'[u] + Cardinality(InFlight(u)')
             < LoginMaxFailures + Cardinality(Requests)
    <2>1. InFlight(u)' \subseteq InFlight(u)
        BY <1>6 DEF Slide, InFlight
    <2>2. failures'[u] <= failures[u]
        BY <1>0, <1>6 DEF Slide
    <2>3. QED BY <1>0, <1>f, <2>1, <2>2, InFlightShrinks
<1>7. ASSUME NEW r \in Requests, CreateSession(r) \/ UpdateUserPassword(r)
                                 \/ CreateUser(r) \/ GiveUp(r)
      PROVE  failures'[u] + Cardinality(InFlight(u)')
             < LoginMaxFailures + Cardinality(Requests)
    BY <1>1, <1>7 DEF CreateSession, UpdateUserPassword, CreateUser, GiveUp, Finish,
       IInv, TypeOk
<1>8. ASSUME NEW r \in Requests, Begin(r)
      PROVE  failures'[u] + Cardinality(InFlight(u)')
             < LoginMaxFailures + Cardinality(Requests)
    <2>1. PICK s \in sessions, op \in {"create", "update", "delete", "profile"},
               t \in Ids, role \in Roles, newPw \in BOOLEAN :
            /\ Exists(s.user)
            /\ op # "profile" => s.user \in Admins
            /\ op \in {"profile", "create"} => t = s.user
            /\ op = "delete" => t # s.user
            /\ op \in {"delete", "profile"} => role = "regular"
            /\ newPw => op \in {"update", "profile"}
            /\ req' = [req EXCEPT ![r] =
                      IF op = "create"
                      THEN [Idle EXCEPT !.op = op, !.role = role, !.pc = "write"]
                      ELSE [Idle EXCEPT !.op = op, !.own = (t = s.user), !.target = t,
                                        !.role = role, !.newPw = newPw, !.pc = "load"]]
        BY <1>8, Zenon DEF Begin
    <2>2. PICK own \in BOOLEAN : own = (t = s.user)
        OBVIOUS
    <2>3. req'[r].pc \in {"write", "load"}
        <3>1. CASE op = "create"
            BY <2>1, <3>1 DEF Idle, IInv, TypeOk
        <3>2. CASE op # "create"
            BY <2>1, <2>2, <3>2 DEF Idle, IInv, TypeOk
        <3>3. QED BY <3>1, <3>2
    <2>4. failures' = failures /\ \A q \in Requests \ {r} : req'[q] = req[q]
        BY <1>8, <2>1 DEF Begin, IInv, TypeOk
    <2>5. QED BY <1>1, <2>3, <2>4
<1>9. ASSUME NEW r \in Requests, Load(r)
      PROVE  failures'[u] + Cardinality(InFlight(u)')
             < LoginMaxFailures + Cardinality(Requests)
    <2>1. failures' = failures /\ \A q \in Requests \ {r} : req'[q] = req[q]
        BY <1>9 DEF Load, IInv, TypeOk
    <2>2. req'[r].pc \in {"count", "write"}
        BY <1>0, <1>9 DEF Load, IInv, TypeOk, Request
    <2>3. QED BY <1>1, <2>1, <2>2
<1>10. ASSUME NEW r \in Requests, CountAdmins(r)
      PROVE  failures'[u] + Cardinality(InFlight(u)')
             < LoginMaxFailures + Cardinality(Requests)
    BY <1>0, <1>1, <1>10 DEF CountAdmins, Finish, IInv, TypeOk, Request
<1>11. ASSUME NEW r \in Requests, UpdateUser(r)
      PROVE  failures'[u] + Cardinality(InFlight(u)')
             < LoginMaxFailures + Cardinality(Requests)
    <2> DEFINE next == IF req[r].newPw THEN [req[r] EXCEPT !.pc = "password"] ELSE Idle
    <2>1. next \in Request /\ next.pc \in {"password", "idle"}
        BY <1>0 DEF Request
    <2> HIDE DEF next
    <2>2. failures' = failures
        BY <1>11 DEF UpdateUser
    <2>3. CASE RoleWritten(r, next)
        <3>1. req'[r] = next /\ \A q \in Requests \ {r} :
                  req'[q].pc = req[q].pc /\ req'[q].target = req[q].target
            BY <2>1, <2>3, RoleWrittenFacts DEF IInv
        <3>2. QED BY <1>1, <2>1, <2>2, <3>1
    <2>4. CASE req' = [req EXCEPT ![r] = next]
        BY <1>1, <2>1, <2>2, <2>4 DEF IInv, TypeOk
    <2>5. QED BY <1>11, <2>3, <2>4 DEF UpdateUser, next
<1>12. ASSUME NEW r \in Requests, DeleteUser(r)
      PROVE  failures'[u] + Cardinality(InFlight(u)')
             < LoginMaxFailures + Cardinality(Requests)
    <2>1. failures' = failures
        BY <1>12 DEF DeleteUser
    <2>2. CASE RoleWritten(r, Idle)
        <3>1. req'[r] = Idle /\ \A q \in Requests \ {r} :
                  req'[q].pc = req[q].pc /\ req'[q].target = req[q].target
            BY <2>2, RoleWrittenFacts DEF IInv
        <3>2. QED BY <1>1, <2>1, <3>1
    <2>3. CASE Finish(r)
        BY <1>1, <2>1, <2>3 DEF Finish, IInv, TypeOk
    <2>4. QED BY <1>12, <2>2, <2>3 DEF DeleteUser
<1>13. CASE UNCHANGED <<failures, req>>
    BY <1>1, <1>13
<1>14. QED
    BY <1>2, <1>3, <1>4, <1>5, <1>6, <1>7, <1>8, <1>9, <1>10, <1>11, <1>12, <1>13
    DEF Next, SignIn, Manage, EndSession, vars

(***************************************************************************)
(* loginLimiter: the failures of a name exceed the limit by less than the  *)
(* number of requests at once.                                             *)
(***************************************************************************)
THEOREM LimiterOvershootBounded == Spec => []FailuresBounded
<1>1. Init => FailuresBounded
    <2> SUFFICES ASSUME Init, NEW u \in Counted
                 PROVE  failures[u] + Cardinality(InFlight(u))
                        < LoginMaxFailures + Cardinality(Requests)
        BY DEF FailuresBounded
    <2>1. failures[u] = 0
        BY DEF Init
    <2>2. QED BY <2>1, InFlightFinite, ConstantFacts
<1>2. QED BY <1>1, FailuresStep, Inductive, PTL DEF Spec

(***************************************************************************)
(* A session signs in the account it was issued to, under the password it  *)
(* was issued under, or nobody.                                            *)
(***************************************************************************)
THEOREM SessionsAreCurrent == Spec => []SessionsHold
<1>1. OldSessionsGone /\ SessionNamesItsAccount => SessionsHold
    BY DEF SessionsHold
<1>2. QED BY <1>1, PasswordChangeEndsSessions, SessionsNameTheirAccounts, PTL

-----------------------------------------------------------------------------
(***************************************************************************)
(* Webhooks.  Which rows pruning keeps is a matter of numbers first.       *)
(***************************************************************************)

(* Every nonempty set of natural numbers has a least element: of the        *)
(* intervals 0 .. n, ordered by inclusion, one is minimal.                  *)
LEMMA LeastNumber ==
    ASSUME NEW S \in SUBSET Nat, S # {}
    PROVE  \E n \in S : \A m \in S : n <= m
<1> DEFINE T == {0 .. n : n \in S}
           R == StrictSubsetOrdering(Nat)
<1>1. \A n \in S : IsFiniteSet(0 .. n)
    BY FS_Interval
<1>2. T \subseteq FiniteSubsetsOf(Nat)
    BY <1>1 DEF FiniteSubsetsOf
<1>3. IsWellFoundedOn(R, FiniteSubsetsOf(Nat))
    BY FS_StrictSubsetOrderingWellFounded
<1>4. T # {}
    OBVIOUS
<1> HIDE DEF T, R
<1>5. PICK x \in T : \A y \in T : <<y, x>> \notin R
    BY <1>2, <1>3, <1>4, WFMin
<1>6. PICK n \in S : x = 0 .. n
    BY DEF T
<1>7. ASSUME NEW m \in S, m < n PROVE FALSE
    <2>1. 0 .. m \in T
        BY DEF T
    <2>2. 0 .. m \subseteq 0 .. n /\ n \in 0 .. n /\ n \notin 0 .. m
        BY <1>7
    <2>3. <<0 .. m, x>> \in R
        BY <1>6, <2>2 DEF R, StrictSubsetOrdering
    <2>4. QED BY <1>5, <2>1, <2>3
<1>8. QED BY <1>7

LEMMA GreatestNumber ==
    ASSUME NEW n \in Nat, NEW S, \A e \in S : e \in Nat /\ e <= n, S # {}
    PROVE  \E m \in S : \A k \in S : k <= m
<1>1. {n - k : k \in S} \in SUBSET Nat /\ {n - k : k \in S} # {}
    OBVIOUS
<1>2. PICK l \in {n - k : k \in S} : \A j \in {n - k : k \in S} : l <= j
    BY <1>1, LeastNumber
<1>3. PICK m \in S : l = n - m
    BY <1>2
<1>4. \A k \in S : n - m <= n - k
    BY <1>2, <1>3
<1>5. QED BY <1>4

(* The rows that pruning keeps, of any set of row ids.                      *)
Newest(S, k) == {d \in S : Cardinality({e \in S : e > d}) < k}

(* Rows among those that have an id below n can be counted.                 *)
LEMMA Above ==
    ASSUME NEW n \in Nat, NEW S, \A e \in S : e \in Nat /\ e <= n, NEW T \in SUBSET S
    PROVE  IsFiniteSet(T) /\ Cardinality(T) \in Nat /\ Cardinality(T) <= Cardinality(S)
           /\ Cardinality(S) \in Nat
<1>1. IsFiniteSet(S)
    BY FS_BoundedSetOfNaturals
<1>2. QED BY <1>1, FS_Subset, FS_CardinalityType

(* No more than k rows are kept.                                            *)
LEMMA NewestFew ==
    ASSUME NEW n \in Nat, NEW S, \A e \in S : e \in Nat /\ e <= n, NEW k \in Nat
    PROVE  Cardinality(Newest(S, k)) <= k
<1>1. CASE Newest(S, k) = {}
    BY <1>1, FS_EmptySet
<1>2. CASE Newest(S, k) # {}
    <2>1. Newest(S, k) \subseteq S
        BY DEF Newest
    <2>2. PICK m \in Newest(S, k) : \A e \in Newest(S, k) : m <= e
        <3>1. Newest(S, k) \in SUBSET Nat
            BY <2>1
        <3>2. QED BY <1>2, <3>1, LeastNumber
    <2> DEFINE A == {e \in S : e > m}
    <2>3. Newest(S, k) \subseteq A \cup {m}
        <3>1. \A e \in S : e \in Nat
            OBVIOUS
        <3>2. QED BY <2>1, <2>2, <3>1
    <2>4. Cardinality(A) < k
        BY <2>2 DEF Newest
    <2>5. IsFiniteSet(A) /\ Cardinality(A) \in Nat
        BY Above
    <2> HIDE DEF A
    <2>6. /\ IsFiniteSet(A \cup {m})
          /\ Cardinality(A \cup {m}) \in Nat /\ Cardinality(A \cup {m}) <= Cardinality(A) + 1
        <3>1. IsFiniteSet(A \cup {m}) /\ Cardinality(A \cup {m}) =
                 IF m \in A THEN Cardinality(A) ELSE Cardinality(A) + 1
            BY <2>5, FS_AddElement
        <3>2. QED BY <2>5, <3>1
    <2>7. Cardinality(Newest(S, k)) <= Cardinality(A \cup {m})
          /\ Cardinality(Newest(S, k)) \in Nat
        BY <2>3, <2>6, FS_Subset, FS_CardinalityType
    <2>8. QED BY <2>4, <2>5, <2>6, <2>7
<1>3. QED BY <1>1, <1>2

(* Whoever had k newer rows still has k newer rows.                         *)
LEMMA NewestStay ==
    ASSUME NEW n \in Nat, NEW S, \A e \in S : e \in Nat /\ e <= n, NEW k \in Nat, NEW d \in Nat,
           k <= Cardinality({e \in S : e > d})
    PROVE  k <= Cardinality({e \in Newest(S, k) : e > d})
<1> DEFINE T == Newest(S, k)
           A(m) == {e \in S : e > m}
<1>0. \A m : Cardinality(A(m)) \in Nat /\ IsFiniteSet(A(m))
    BY Above
<1>1. T \subseteq S
    BY DEF Newest
<1>2. \A m \in T : Cardinality(A(m)) < k
    BY DEF Newest
<1>3. \A m \in S \ T : k <= Cardinality(A(m))
    BY <1>0 DEF Newest
<1>4. k <= Cardinality(A(d)) /\ d \in Nat /\ \A e \in S : e \in Nat
    OBVIOUS
<1>5. IsFiniteSet(T) /\ Cardinality(T) \in Nat
    BY <1>1, Above
<1> HIDE DEF T
<1>6. ASSUME NEW m \in T, m <= d PROVE FALSE
    <2>1. A(d) \subseteq A(m)
        BY <1>1, <1>4, <1>6
    <2>2. PICK a : a = A(m)
        OBVIOUS
    <2>3. Cardinality(A(d)) <= Cardinality(a)
        BY <1>0, <2>1, <2>2, FS_Subset
    <2>4. Cardinality(a) < k /\ Cardinality(a) \in Nat /\ Cardinality(A(d)) \in Nat
        BY <1>0, <1>2, <2>2
    <2> HIDE DEF A
    <2>5. QED BY <1>4, <2>3, <2>4
<1>7. {e \in T : e > d} = T
    BY <1>1, <1>4, <1>6
<1>8. k <= Cardinality(T)
    <2>1. CASE T = S
        <3>1. Cardinality(A(d)) <= Cardinality(S) /\ Cardinality(S) \in Nat
            BY Above
        <3>2. Cardinality(A(d)) \in Nat
            BY <1>0
        <3> HIDE DEF A
        <3>3. QED BY <1>4, <2>1, <3>1, <3>2
    <2>2. CASE T # S
        <3>1. S \ T # {} /\ \A e \in S \ T : e \in Nat /\ e <= n
            BY <1>1, <2>2
        <3>2. PICK m \in S \ T : \A e \in S \ T : e <= m
            BY <3>1, GreatestNumber
        <3>3. A(m) \subseteq T
            BY <1>4, <3>2
        <3>4. Cardinality(A(m)) <= Cardinality(T)
            BY <1>5, <3>3, FS_Subset
        <3>5. k <= Cardinality(A(m)) /\ Cardinality(A(m)) \in Nat
            BY <1>0, <1>3
        <3> HIDE DEF A
        <3>6. QED BY <1>5, <3>4, <3>5
    <2>3. QED BY <2>1, <2>2
<1>9. QED BY <1>7, <1>8 DEF T

(* The domains of WebhooksTypeOk.                                           *)
HookRow == [there : BOOLEAN, secret : Secrets \cup {""}, active : BOOLEAN]
LogRow == [hook : HookIds \cup {0}, state : {"none", "pending", "done"}]
Screen == [op : {"none", "create", "update", "toggle", "delete", "test"},
           id : HookIds \cup {0}, secret : Secrets \cup {""}, active : BOOLEAN]
Sending == [pc : {"rest", "create", "post", "refuse", "prune"},
            todo : SUBSET HookIds, hook : HookIds \cup {0},
            row : DeliveryIds \cup {0}, bound : BOOLEAN, gone : BOOLEAN]

(* What a delivery is at: it has a row from its first statement on.         *)
AtRow(q) ==
    /\ q.pc \in {"post", "refuse", "prune"} => q.row \in DeliveryIds /\ q.hook \in HookIds
    /\ q.pc \in {"rest", "create"} => q.row = 0 /\ q.hook = 0
Deliverers == {q \in Sending : AtRow(q)}

(* What a screen has read: all but the form of a new hook name one.         *)
Forms == {f \in Screen : f.op \notin {"none", "create"} => f.id \in HookIds}

SettingsOk ==
    /\ hook \in [HookIds -> HookRow] /\ nextHook \in 1 .. MaxHooks + 1
    /\ screen \in [Screens -> Forms] /\ want \in [HookIds -> Setting]
    /\ overtaken \subseteq HookIds

LogTypes ==
    /\ cgi \in BOOLEAN /\ log \in [DeliveryIds -> LogRow]
    /\ nextDelivery \in 1 .. MaxDeliveries + 1 /\ sender \in [Senders -> Deliverers]
    /\ mishaps \in 0 .. MaxMishaps /\ made \in [DeliveryIds -> HookIds \cup {0}]
    /\ lost \subseteq DeliveryIds /\ untidy \subseteq HookIds

LEMMA WebhooksTypes == SettingsOk /\ LogTypes => WebhooksTypeOk
<1> SUFFICES ASSUME SettingsOk, LogTypes PROVE WebhooksTypeOk
    OBVIOUS
<1>1. screen \in [Screens -> Screen] /\ sender \in [Senders -> Sending]
    BY DEF SettingsOk, LogTypes, Forms, Deliverers
<1>2. QED BY <1>1 DEF SettingsOk, LogTypes, WebhooksTypeOk, HookRow, LogRow, Screen, Sending

LEMMA Blanks ==
    /\ Away \in Forms /\ [Away EXCEPT !.op = "create"] \in Forms
    /\ NoHook \in HookRow /\ NoRow \in LogRow
    /\ Resting \in Deliverers /\ Resting.pc = "rest" /\ Resting.hook = 0 /\ Resting.row = 0
    /\ \A hs \in SUBSET HookIds, b \in BOOLEAN :
          Take(hs, b) \in Deliverers /\ Take(hs, b).pc = "create" /\ Take(hs, b).hook = 0
<1>1. Away \in Screen /\ [Away EXCEPT !.op = "create"] \in Screen
    BY DEF Away, Screen
<1>2. Away \in Forms /\ [Away EXCEPT !.op = "create"] \in Forms
    BY <1>1 DEF Away, Forms
<1>3. NoHook \in HookRow /\ NoRow \in LogRow
    BY DEF NoHook, HookRow, NoRow, LogRow
<1>4. Resting \in Deliverers /\ Resting.pc = "rest" /\ Resting.hook = 0 /\ Resting.row = 0
    BY DEF Resting, Sending, Deliverers, AtRow
<1>5. ASSUME NEW hs \in SUBSET HookIds, NEW b \in BOOLEAN
      PROVE  Take(hs, b) \in Deliverers /\ Take(hs, b).pc = "create" /\ Take(hs, b).hook = 0
    BY DEF Take, Resting, Sending, Deliverers, AtRow
<1>6. QED BY <1>2, <1>3, <1>4, <1>5

(***************************************************************************)
(* The screens.  What a hook is asked to be and what it is change alike,   *)
(* but for a write on the strength of a stale row.                         *)
(***************************************************************************)
Follows(h) ==
    hook[h].there /\ h \notin overtaken =>
        want[h].secret = hook[h].secret /\ want[h].active = hook[h].active

ScreensInv ==
    /\ SettingsOk
    /\ \A h \in HookIds : hook[h].there => h < nextHook
    /\ \A h \in HookIds : Follows(h)

LEMMA ScreensQuiet ==
    ASSUME ScreensInv, UNCHANGED <<hook, nextHook, want, overtaken>>,
           screen' \in [Screens -> Forms]
    PROVE  ScreensInv'
    BY DEF ScreensInv, SettingsOk, Follows

LEMMA ScreensStep == ScreensInv /\ [WebhooksNext]_webhooksVars => ScreensInv'
<1> SUFFICES ASSUME ScreensInv, [WebhooksNext]_webhooksVars PROVE ScreensInv'
    OBVIOUS
<1>0. /\ hook \in [HookIds -> HookRow] /\ nextHook \in 1 .. MaxHooks + 1
      /\ screen \in [Screens -> Forms] /\ want \in [HookIds -> Setting]
      /\ overtaken \subseteq HookIds /\ MaxHooks \in Nat
    BY HookBoundsAssumption DEF ScreensInv, SettingsOk
<1>1. \A s \in Screens : Leave(s) => screen' \in [Screens -> Forms]
    BY <1>0, Blanks DEF Leave
<1>2. ASSUME NEW s \in Screens, CountHooks(s) \/ CloseForm(s) \/ TestHook(s) PROVE ScreensInv'
    <2>1. screen' \in [Screens -> Forms]
        BY <1>0, <1>1, <1>2, Blanks DEF CountHooks, CloseForm, TestHook
    <2>2. QED BY <1>2, <2>1, ScreensQuiet DEF CountHooks, CloseForm, TestHook, tables
<1>3. ASSUME NEW s \in Screens, LoadHook(s) PROVE ScreensInv'
    <2>1. PICK op \in {"update", "toggle", "delete", "test"}, h \in Hooks :
            screen' = [screen EXCEPT ![s] = [op |-> op, id |-> h,
                         secret |-> hook[h].secret, active |-> hook[h].active]]
        BY <1>3 DEF LoadHook
    <2>2. hook[h] \in HookRow /\ h \in HookIds
        BY <1>0 DEF Hooks
    <2>3. [op |-> op, id |-> h, secret |-> hook[h].secret, active |-> hook[h].active] \in Forms
        BY <2>2 DEF HookRow, Screen, Forms
    <2>4. screen' \in [Screens -> Forms]
        BY <1>0, <2>1, <2>3
    <2>5. QED BY <1>3, <2>4, ScreensQuiet DEF LoadHook, tables
<1>4. ASSUME NEW s \in Screens, CreateHook(s) PROVE ScreensInv'
    <2>1. PICK f \in Setting :
            /\ hook' = [hook EXCEPT ![nextHook] =
                          [there |-> TRUE, secret |-> f.secret, active |-> f.active]]
            /\ want' = [want EXCEPT ![nextHook] = f]
        BY <1>4 DEF CreateHook
    <2>2. nextHook \in HookIds /\ nextHook' = nextHook + 1 /\ overtaken' = overtaken
          /\ screen' \in [Screens -> Forms]
        BY <1>1, <1>4 DEF CreateHook
    <2>3. [there |-> TRUE, secret |-> f.secret, active |-> f.active] \in HookRow
        BY DEF Setting, HookRow
    <2>4. hook' \in [HookIds -> HookRow] /\ want' \in [HookIds -> Setting]
          /\ nextHook' \in 1 .. MaxHooks + 1
        BY <1>0, <2>1, <2>2, <2>3 DEF HookIds
    <2>5. /\ hook'[nextHook] = [there |-> TRUE, secret |-> f.secret, active |-> f.active]
          /\ want'[nextHook] = f
          /\ \A h \in HookIds : h # nextHook => hook'[h] = hook[h] /\ want'[h] = want[h]
        BY <1>0, <2>1, <2>2
    <2>6. \A h \in HookIds : hook'[h].there => h < nextHook'
        BY <1>0, <2>2, <2>5 DEF ScreensInv, HookIds
    <2>7. \A h \in HookIds : Follows(h)'
        BY <2>2, <2>5 DEF ScreensInv, Follows
    <2>8. QED BY <2>2, <2>4, <2>6, <2>7 DEF ScreensInv, SettingsOk
<1>5. ASSUME NEW s \in Screens, UpdateHook(s) PROVE ScreensInv'
    <2>1. PICK h \in HookIds : h = screen[s].id
        BY <1>0, <1>5 DEF UpdateHook, Forms
    <2>2. screen[s].secret \in Secrets \cup {""}
        BY <1>0 DEF Forms, Screen
    <2>3. nextHook' = nextHook /\ screen' \in [Screens -> Forms]
        BY <1>1, <1>5 DEF UpdateHook
    <2>4. CASE ~hook[h].there
        BY <1>5, <2>1, <2>3, <2>4, ScreensQuiet DEF UpdateHook
    <2>5. CASE hook[h].there
        <3>1. PICK typed \in Secrets \cup {"keep", ""}, on \in BOOLEAN :
                /\ hook' = [hook EXCEPT ![h].secret = Merged(screen[s].secret, typed),
                                        ![h].active = on]
                /\ want' = [want EXCEPT ![h] =
                      [secret |-> IF typed = "keep" THEN want[h].secret ELSE typed,
                       active |-> on]]
                /\ overtaken' = IF typed = "keep" /\ screen[s].secret # hook[h].secret
                                  THEN overtaken \cup {h} ELSE overtaken
            BY <1>5, <2>1, <2>5 DEF UpdateHook
        <3>2. PICK new : new = Merged(screen[s].secret, typed)
            OBVIOUS
        <3>3. PICK asked : asked = IF typed = "keep" THEN want[h].secret ELSE typed
            OBVIOUS
        <3>4. new \in Secrets \cup {""} /\ asked \in Secrets \cup {""}
            <4>1. want[h].secret \in Secrets \cup {""}
                BY <1>0 DEF Setting
            <4>2. QED BY <2>2, <3>2, <3>3, <4>1 DEF Merged
        <3>5. hook[h] \in HookRow
            BY <1>0
        <3>6. PICK row \in HookRow : row.there = hook[h].there /\ row.secret = new /\ row.active = on
                                     /\ hook' = [hook EXCEPT ![h] = row]
            <4>1. PICK row : row = [hook[h] EXCEPT !.secret = new, !.active = on]
                OBVIOUS
            <4>2. row \in HookRow /\ row.there = hook[h].there /\ row.secret = new /\ row.active = on
                BY <3>4, <3>5, <4>1 DEF HookRow
            <4>3. hook' = [hook EXCEPT ![h] = row]
                BY <1>0, <3>1, <3>2, <3>5, <4>1 DEF HookRow
            <4>4. QED BY <4>2, <4>3
        <3>7. [secret |-> asked, active |-> on] \in Setting
            BY <3>4 DEF Setting
        <3>8. /\ hook' \in [HookIds -> HookRow] /\ want' \in [HookIds -> Setting]
              /\ overtaken' \subseteq HookIds
            BY <1>0, <3>1, <3>3, <3>6, <3>7
        <3>9. /\ hook'[h] = row /\ want'[h].secret = asked /\ want'[h].active = on
              /\ \A g \in HookIds : g # h => hook'[g] = hook[g] /\ want'[g] = want[g]
            BY <1>0, <3>1, <3>3, <3>6
        <3>10. Follows(h)'
            <4>1. CASE typed # "keep"
                BY <3>2, <3>3, <3>6, <3>9, <4>1 DEF Follows, Merged
            <4>2. CASE typed = "keep" /\ screen[s].secret # hook[h].secret
                BY <3>1, <4>2 DEF Follows
            <4>3. CASE typed = "keep" /\ screen[s].secret = hook[h].secret
                <5>1. new = hook[h].secret /\ asked = want[h].secret /\ overtaken' = overtaken
                    BY <3>1, <3>2, <3>3, <4>3 DEF Merged
                <5>2. Follows(h)
                    BY DEF ScreensInv
                <5>3. QED BY <3>6, <3>9, <5>1, <5>2 DEF Follows
            <4>4. QED BY <4>1, <4>2, <4>3
        <3>11. \A g \in HookIds : g # h => Follows(g)'
            BY <3>1, <3>9 DEF ScreensInv, Follows
        <3>12. \A g \in HookIds : hook'[g].there => g < nextHook'
            BY <2>3, <2>5, <3>9 DEF ScreensInv
        <3>13. QED BY <2>3, <1>0, <3>8, <3>10, <3>11, <3>12 DEF ScreensInv, SettingsOk
    <2>6. QED BY <2>4, <2>5
<1>6. ASSUME NEW s \in Screens, ToggleHook(s) PROVE ScreensInv'
    <2>1. PICK h \in HookIds : h = screen[s].id
        BY <1>0, <1>6 DEF ToggleHook, Forms
    <2>2. screen[s].active \in BOOLEAN
        BY <1>0 DEF Forms, Screen
    <2>3. nextHook' = nextHook /\ screen' \in [Screens -> Forms]
        BY <1>1, <1>6 DEF ToggleHook
    <2>4. CASE ~hook[h].there
        BY <1>6, <2>1, <2>3, <2>4, ScreensQuiet DEF ToggleHook
    <2>5. CASE hook[h].there
        <3>1. /\ hook' = [hook EXCEPT ![h].active = ~screen[s].active]
              /\ want' = [want EXCEPT ![h].active = ~@]
              /\ overtaken' = IF screen[s].active # hook[h].active
                                THEN overtaken \cup {h} ELSE overtaken
            BY <1>6, <2>1, <2>5 DEF ToggleHook
        <3>2. hook[h] \in HookRow /\ want[h] \in Setting
            BY <1>0
        <3>3. PICK on \in BOOLEAN : on = ~screen[s].active
            OBVIOUS
        <3>4. PICK row \in HookRow : row.there = hook[h].there /\ row.secret = hook[h].secret
                                     /\ row.active = on /\ hook' = [hook EXCEPT ![h] = row]
            <4>1. PICK row : row = [hook[h] EXCEPT !.active = on]
                OBVIOUS
            <4>2. row \in HookRow /\ row.there = hook[h].there /\ row.secret = hook[h].secret
                  /\ row.active = on
                BY <3>2, <3>3, <4>1 DEF HookRow
            <4>3. hook' = [hook EXCEPT ![h] = row]
                BY <1>0, <3>1, <3>3, <4>1
            <4>4. QED BY <4>2, <4>3
        <3>5. PICK f \in Setting : f.secret = want[h].secret /\ f.active = ~want[h].active
                                   /\ want' = [want EXCEPT ![h] = f]
            <4>1. PICK f : f = [want[h] EXCEPT !.active = ~want[h].active]
                OBVIOUS
            <4>2. f \in Setting /\ f.secret = want[h].secret /\ f.active = ~want[h].active
                BY <3>2, <4>1 DEF Setting
            <4>3. want' = [want EXCEPT ![h] = f]
                BY <1>0, <3>1, <4>1
            <4>4. QED BY <4>2, <4>3
        <3>6. /\ hook' \in [HookIds -> HookRow] /\ want' \in [HookIds -> Setting]
              /\ overtaken' \subseteq HookIds
            BY <1>0, <3>1, <3>4, <3>5
        <3>7. /\ hook'[h] = row /\ want'[h] = f
              /\ \A g \in HookIds : g # h => hook'[g] = hook[g] /\ want'[g] = want[g]
            BY <1>0, <3>4, <3>5
        <3>8. Follows(h)'
            <4>1. CASE screen[s].active # hook[h].active
                BY <3>1, <4>1 DEF Follows
            <4>2. CASE screen[s].active = hook[h].active
                <5>1. Follows(h) /\ overtaken' = overtaken
                    BY <3>1, <4>2 DEF ScreensInv
                <5>2. QED BY <3>3, <3>4, <3>5, <3>7, <4>2, <5>1 DEF Follows
            <4>3. QED BY <4>1, <4>2
        <3>9. \A g \in HookIds : g # h => Follows(g)'
            BY <3>1, <3>7 DEF ScreensInv, Follows
        <3>10. \A g \in HookIds : hook'[g].there => g < nextHook'
            BY <2>3, <2>5, <3>7 DEF ScreensInv
        <3>11. QED BY <2>3, <1>0, <3>6, <3>8, <3>9, <3>10 DEF ScreensInv, SettingsOk
    <2>6. QED BY <2>4, <2>5
<1>7. ASSUME NEW s \in Screens, DeleteHook(s) PROVE ScreensInv'
    <2>1. PICK h \in HookIds : h = screen[s].id
        BY <1>0, <1>7 DEF DeleteHook, Forms
    <2>2. /\ hook' = [hook EXCEPT ![h] = NoHook] /\ screen' \in [Screens -> Forms]
          /\ UNCHANGED <<nextHook, want, overtaken>>
        BY <1>1, <1>7, <2>1 DEF DeleteHook
    <2>3. hook' \in [HookIds -> HookRow] /\ hook'[h] = NoHook
          /\ \A g \in HookIds : g # h => hook'[g] = hook[g]
        BY <1>0, <2>2, Blanks
    <2>4. ~hook'[h].there
        <3>1. ~NoHook.there
            BY DEF NoHook
        <3>2. QED BY <2>3, <3>1
    <2>5. \A g \in HookIds : Follows(g)' /\ (hook'[g].there => g < nextHook')
        BY <2>2, <2>3, <2>4 DEF ScreensInv, Follows
    <2>6. QED BY <1>0, <2>2, <2>3, <2>5 DEF ScreensInv, SettingsOk
<1>8. ASSUME Kill PROVE ScreensInv'
    <2>1. screen' \in [Screens -> Forms] /\ UNCHANGED <<hook, nextHook, want, overtaken>>
        BY <1>0, <1>8, Blanks DEF Kill, tables
    <2>2. QED BY <2>1, ScreensQuiet
<1>9. ASSUME UNCHANGED <<hook, nextHook, screen, want, overtaken>> PROVE ScreensInv'
    BY <1>0, <1>9, ScreensQuiet
<1>10. ASSUME NEW p \in Senders,
              Record(p) \/ Prune(p) \/ HangUp(p) \/ \E h \in HookIds : CreateDelivery(p, h)
       PROVE  ScreensInv'
    BY <1>9, <1>10 DEF Record, Prune, HangUp, CreateDelivery, settings, tables
<1>11. CASE Dispatch
    BY <1>9, <1>11 DEF Dispatch, tables
<1>12. CASE UNCHANGED webhooksVars
    BY <1>9, <1>12 DEF webhooksVars
<1>13. QED BY <1>2, <1>3, <1>4, <1>5, <1>6, <1>7, <1>8, <1>10, <1>11, <1>12 DEF WebhooksNext

(***************************************************************************)
(* The log.  A row belongs to a hook that is there, and the hooks that may *)
(* have rows or lack them are those that were created.                     *)
(***************************************************************************)
RowsBelong ==
    \A d \in DeliveryIds :
        /\ d >= nextDelivery => made[d] = 0 /\ log[d] = NoRow
        /\ made[d] < nextHook
        /\ log[d] # NoRow => log[d].hook = made[d] /\ made[d] # 0 /\ hook[made[d]].there

NewestHere(h) ==
    \A d \in DeliveryIds : made[d] = h /\ log[d] = NoRow =>
        Retention <= Cardinality({e \in RowsOf(h) : e > d})

At(h) == \E p \in Senders : sender[p].hook = h

LogOk(h) ==
    hook[h].there => /\ NewestHere(h)
                     /\ h \in untidy \/ At(h) \/ Cardinality(RowsOf(h)) <= Retention

LogInv == LogTypes /\ RowsBelong /\ OutcomesRecorded /\ \A h \in HookIds : LogOk(h)

LEMMA RowFacts ==
    ASSUME LogInv
    PROVE  /\ \A h \in HookIds : RowsOf(h) \subseteq DeliveryIds
           /\ \A h \in HookIds, d \in DeliveryIds :
                 d \in RowsOf(h) <=> made[d] = h /\ log[d] # NoRow
           /\ \A d \in DeliveryIds : log[d].state = "pending" => log[d] # NoRow
           /\ NoRow.hook = 0 /\ NoRow.state = "none"
<1>1. NoRow.hook = 0 /\ NoRow.state = "none"
    BY DEF NoRow
<1>2. \A h \in HookIds : h # 0
    BY DEF HookIds
<1>3. QED BY <1>1, <1>2 DEF LogInv, RowsBelong, RowsOf

(* Cardinalities of rows.                                                   *)
LEMMA RowsCounted ==
    ASSUME NEW S, S \subseteq DeliveryIds, NEW T, T \subseteq S
    PROVE  /\ Cardinality(S) \in Nat /\ Cardinality(T) \in Nat
           /\ Cardinality(T) <= Cardinality(S)
<1>1. IsFiniteSet(DeliveryIds)
    BY HookBoundsAssumption, FS_Interval DEF DeliveryIds
<1>2. IsFiniteSet(S) /\ IsFiniteSet(T)
    BY <1>1, FS_Subset
<1>3. QED BY <1>2, FS_Subset, FS_CardinalityType

(* Steps that leave the log of a hook.                                      *)
LEMMA SameRows ==
    ASSUME LogInv, NEW h \in HookIds,
           \A d \in DeliveryIds : /\ log'[d].hook = h <=> log[d].hook = h
                                  /\ made'[d] = h => made[d] = h
                                  /\ made[d] = h /\ log'[d] = NoRow => log[d] = NoRow
    PROVE  /\ RowsOf(h)' = RowsOf(h)
           /\ NewestHere(h) => NewestHere(h)'
<1>1. RowsOf(h)' = RowsOf(h)
    BY DEF RowsOf
<1>2. QED BY <1>1 DEF NewestHere

(* Steps of the screens but a deletion, and of deliveries that have no row. *)
LEMMA LogQuiet ==
    ASSUME LogInv, UNCHANGED <<cgi, log, nextDelivery, made, lost, untidy>>,
           mishaps' \in 0 .. MaxMishaps,
           sender' \in [Senders -> Deliverers],
           \A p \in Senders : /\ sender[p].hook # 0 => sender'[p].hook = sender[p].hook
                              /\ sender[p].pc \in {"post", "refuse"} =>
                                    sender'[p].pc = sender[p].pc /\ sender'[p].row = sender[p].row,
           nextHook \in Nat, nextHook' \in Nat, nextHook <= nextHook',
           \A h \in HookIds : h < nextHook => (hook'[h].there <=> hook[h].there)
    PROVE  LogInv'
<1>1. LogTypes'
    BY DEF LogInv, LogTypes
<1>2. \A d \in DeliveryIds : made[d] \in HookIds \cup {0} /\ made[d] < nextHook
    BY DEF LogInv, LogTypes, RowsBelong
<1>3. \A d \in DeliveryIds : made[d] \in Nat
    BY <1>2 DEF HookIds
<1>4. RowsBelong'
    BY <1>2, <1>3 DEF LogInv, RowsBelong
<1>5. OutcomesRecorded'
    BY DEF LogInv, OutcomesRecorded
<1>6. ASSUME NEW h \in HookIds PROVE LogOk(h)'
    <2>1. RowsOf(h)' = RowsOf(h) /\ (NewestHere(h) => NewestHere(h)')
        BY SameRows
    <2>2. CASE h < nextHook
        <3>1. At(h) => At(h)'
            BY DEF At, HookIds
        <3>2. hook'[h].there => hook[h].there
            BY <2>2
        <3>3. LogOk(h)
            BY DEF LogInv
        <3>4. QED BY <2>1, <3>1, <3>2, <3>3 DEF LogOk
    <2>3. CASE ~(h < nextHook)
        <3>1. \A d \in DeliveryIds : made[d] # h
            BY <1>2, <2>3
        <3>2. NewestHere(h)'
            BY <3>1 DEF NewestHere
        <3>3. RowsOf(h) = {}
            <4>1. RowsOf(h) \subseteq DeliveryIds /\ \A d \in DeliveryIds : d \notin RowsOf(h)
                BY <3>1, RowFacts
            <4>2. QED BY <4>1
        <3>4. Cardinality(RowsOf(h)') <= Retention
            BY <2>1, <3>3, FS_EmptySet, RetentionAssumption
        <3>5. QED BY <3>2, <3>4 DEF LogOk
    <2>4. QED BY <2>2, <2>3
<1>7. QED BY <1>1, <1>4, <1>5, <1>6 DEF LogInv

(* What a delivery goes on to.                                              *)
LEMMA NextHookFacts ==
    ASSUME LogTypes, NEW p \in Senders
    PROVE  /\ NextHook(p) \in Deliverers /\ NextHook(p).hook = 0 /\ NextHook(p).row = 0
           /\ NextHook(p).pc \in {"rest", "create"}
<1>1. sender[p] \in Sending
    BY DEF LogTypes, Deliverers
<1> DEFINE rest == sender[p].todo \ {sender[p].hook}
           q == [sender[p] EXCEPT !.pc = "create", !.todo = rest, !.hook = 0, !.row = 0]
<1>2. rest \in SUBSET HookIds
    BY <1>1 DEF Sending
<1>3. q \in Sending /\ q.pc = "create" /\ q.hook = 0 /\ q.row = 0
    BY <1>1, <1>2 DEF Sending
<1>4. NextHook(p) = IF rest = {} THEN Resting ELSE q
    BY DEF NextHook
<1> HIDE DEF q, rest
<1>5. q \in Deliverers
    BY <1>3 DEF Deliverers, AtRow
<1>6. QED BY <1>3, <1>4, <1>5, Blanks

(* A hook that is kept on, and steps of the screens.                        *)
LEMMA LogScreens ==
    ASSUME LogInv, ScreensInv, NEW s \in Screens,
           \/ CountHooks(s) \/ CreateHook(s) \/ LoadHook(s) \/ UpdateHook(s) \/ ToggleHook(s)
           \/ CloseForm(s)
    PROVE  LogInv'
<1>0. hook \in [HookIds -> HookRow] /\ nextHook \in Nat /\ screen \in [Screens -> Forms]
    BY DEF ScreensInv, SettingsOk
<1>1. /\ UNCHANGED <<cgi, log, nextDelivery, sender, mishaps, made, lost, untidy>>
      /\ nextHook' = nextHook \/ nextHook' = nextHook + 1
    BY DEF CountHooks, CreateHook, LoadHook, UpdateHook, ToggleHook, CloseForm, tables
<1>2. \A h \in HookIds : h < nextHook => (hook'[h].there <=> hook[h].there)
    <2>1. CASE CountHooks(s) \/ LoadHook(s) \/ CloseForm(s)
        BY <2>1 DEF CountHooks, LoadHook, CloseForm, tables
    <2>2. CASE CreateHook(s)
        <3>1. PICK row : hook' = [hook EXCEPT ![nextHook] = row]
            BY <2>2 DEF CreateHook
        <3>2. \A h \in HookIds : h < nextHook => hook'[h] = hook[h]
            BY <1>0, <3>1 DEF HookIds
        <3>3. QED BY <3>2
    <2>3. CASE UpdateHook(s)
        <3>1. CASE ~hook[screen[s].id].there
            BY <2>3, <3>1 DEF UpdateHook
        <3>2. CASE hook[screen[s].id].there
            <4>1. PICK secret, on :
                    hook' = [hook EXCEPT ![screen[s].id].secret = secret,
                                         ![screen[s].id].active = on]
                BY <2>3, <3>2 DEF UpdateHook
            <4>2. QED BY <1>0, <4>1 DEF HookRow
        <3>3. QED BY <3>1, <3>2
    <2>4. CASE ToggleHook(s)
        <3>1. CASE ~hook[screen[s].id].there
            BY <2>4, <3>1 DEF ToggleHook
        <3>2. CASE hook[screen[s].id].there
            <4>1. PICK on : hook' = [hook EXCEPT ![screen[s].id].active = on]
                BY <2>4, <3>2 DEF ToggleHook
            <4>2. QED BY <1>0, <4>1 DEF HookRow
        <3>3. QED BY <3>1, <3>2
    <2>5. QED BY <2>1, <2>2, <2>3, <2>4
<1>3. sender' \in [Senders -> Deliverers] /\ mishaps' \in 0 .. MaxMishaps
    BY <1>1 DEF LogInv, LogTypes
<1>4. QED BY <1>0, <1>1, <1>2, <1>3, LogQuiet

LEMMA LogDelete ==
    ASSUME LogInv, ScreensInv, NEW s \in Screens, DeleteHook(s)
    PROVE  LogInv'
<1>0. /\ hook \in [HookIds -> HookRow] /\ log \in [DeliveryIds -> LogRow]
      /\ screen \in [Screens -> Forms]
    BY DEF LogInv, LogTypes, ScreensInv, SettingsOk
<1>1. PICK h \in HookIds : h = screen[s].id
    BY <1>0 DEF DeleteHook, Forms
<1>2. /\ hook' = [hook EXCEPT ![h] = NoHook]
      /\ log' = [d \in DeliveryIds |-> IF log[d].hook = h THEN NoRow ELSE log[d]]
      /\ UNCHANGED <<cgi, nextHook, nextDelivery, sender, mishaps, made, lost, untidy>>
    BY <1>1 DEF DeleteHook
<1>3. ~hook'[h].there /\ \A g \in HookIds : g # h => hook'[g] = hook[g]
    <2>1. hook'[h] = NoHook /\ ~NoHook.there
        BY <1>0, <1>2 DEF NoHook
    <2>2. QED BY <1>0, <1>2, <2>1
<1>4. LogTypes'
    <2>1. log' \in [DeliveryIds -> LogRow]
        BY <1>0, <1>2, Blanks
    <2>2. QED BY <1>2, <2>1 DEF LogInv, LogTypes
<1>5. \A d \in DeliveryIds : log'[d] # NoRow => log'[d] = log[d] /\ log[d].hook # h
    BY <1>2
<1>6. RowsBelong'
    <2>1. \A d \in DeliveryIds : made[d] \in HookIds \cup {0}
        BY DEF LogInv, LogTypes
    <2>2. QED BY <1>2, <1>3, <1>5, <2>1 DEF LogInv, RowsBelong
<1>7. OutcomesRecorded'
    <2>1. \A d \in DeliveryIds : log'[d].state = "pending" => log[d].state = "pending"
        BY <1>2, RowFacts
    <2>2. QED BY <1>2, <2>1 DEF LogInv, OutcomesRecorded
<1>8. ASSUME NEW g \in HookIds PROVE LogOk(g)'
    <2>1. CASE g = h
        BY <1>3, <2>1 DEF LogOk
    <2>2. CASE g # h
        <3>1. \A d \in DeliveryIds :
                 /\ log'[d].hook = g <=> log[d].hook = g
                 /\ made[d] = g /\ log'[d] = NoRow => log[d] = NoRow
            <4>1. g # 0
                BY DEF HookIds
            <4>2. QED BY <1>2, <2>2, <4>1, RowFacts DEF LogInv, RowsBelong
        <3>2. RowsOf(g)' = RowsOf(g) /\ (NewestHere(g) => NewestHere(g)')
            BY <1>2, <3>1, SameRows
        <3>3. LogOk(g)
            BY DEF LogInv
        <3>4. QED BY <1>2, <1>3, <2>2, <3>2, <3>3 DEF LogOk, At
    <2>3. QED BY <2>1, <2>2
<1>9. QED BY <1>4, <1>6, <1>7, <1>8 DEF LogInv

(* A row is added.                                                          *)
LEMMA LogAdds ==
    ASSUME LogInv, ScreensInv, NEW p \in Senders, NEW h \in HookIds,
           sender[p].pc = "create", hook[h].there, nextDelivery \in DeliveryIds,
           log' = [log EXCEPT ![nextDelivery] = [hook |-> h, state |-> "pending"]],
           made' = [made EXCEPT ![nextDelivery] = h],
           nextDelivery' = nextDelivery + 1, mishaps' = mishaps,
           NEW pc \in {"post", "refuse"},
           sender' = [sender EXCEPT ![p].pc = pc, ![p].hook = h, ![p].row = nextDelivery],
           UNCHANGED <<cgi, settings, lost, untidy>>
    PROVE  LogInv'
<1>0. /\ log \in [DeliveryIds -> LogRow] /\ made \in [DeliveryIds -> HookIds \cup {0}]
      /\ sender \in [Senders -> Deliverers] /\ nextDelivery \in 1 .. MaxDeliveries + 1
      /\ MaxDeliveries \in Nat
    BY HookBoundsAssumption DEF LogInv, LogTypes
<1> DEFINE new == nextDelivery
           row == [hook |-> h, state |-> "pending"]
<1>1. row \in LogRow /\ row.hook = h /\ row.state = "pending" /\ row # NoRow
    BY DEF LogRow, NoRow
<1>2. /\ log'[new] = row /\ made'[new] = h
      /\ \A d \in DeliveryIds : d # new => log'[d] = log[d] /\ made'[d] = made[d]
    BY <1>0
<1>3. PICK q : q = [sender[p] EXCEPT !.pc = pc, !.hook = h, !.row = new]
    OBVIOUS
<1>4. sender[p] \in Sending /\ AtRow(sender[p])
    BY <1>0 DEF Deliverers
<1>5. q \in Sending /\ q.pc = pc /\ q.hook = h /\ q.row = new
    BY <1>3, <1>4 DEF Sending
<1>6. sender' = [sender EXCEPT ![p] = q]
    BY <1>0, <1>3, <1>4 DEF Sending
<1>7. q \in Deliverers
    BY <1>5 DEF Deliverers, AtRow
<1>8. sender' \in [Senders -> Deliverers] /\ sender'[p] = q
      /\ \A r \in Senders : r # p => sender'[r] = sender[r]
    BY <1>0, <1>6, <1>7
<1>9. sender[p].hook = 0 /\ sender[p].row = 0
    BY <1>4 DEF AtRow
<1> HIDE DEF row
<1>10. LogTypes'
    <2>1. log' \in [DeliveryIds -> LogRow] /\ made' \in [DeliveryIds -> HookIds \cup {0}]
        BY <1>0, <1>1, <1>2
    <2>2. nextDelivery' \in 1 .. MaxDeliveries + 1
        BY <1>0 DEF DeliveryIds
    <2>3. QED BY <1>8, <2>1, <2>2 DEF LogInv, LogTypes
<1>11. nextHook' = nextHook /\ hook' = hook
    BY DEF settings
<1>12. RowsBelong'
    <2>1. h < nextHook /\ h # 0
        BY DEF ScreensInv, HookIds
    <2>2. \A d \in DeliveryIds : d >= nextDelivery' => d >= nextDelivery /\ d # new
        BY <1>0 DEF DeliveryIds
    <2>3. QED BY <1>1, <1>2, <1>11, <2>1, <2>2 DEF LogInv, RowsBelong
<1>13. OutcomesRecorded'
    <2>1. ASSUME NEW d \in DeliveryIds, log'[d].state = "pending"
          PROVE  d \in lost' \/ \E r \in Senders : sender'[r].row = d
                                                   /\ sender'[r].pc \in {"post", "refuse"}
        <3>1. CASE d = new
            BY <1>5, <1>8, <3>1
        <3>2. CASE d # new
            <4>1. log[d].state = "pending" /\ d # 0
                BY <1>2, <2>1, <3>2 DEF DeliveryIds
            <4>2. d \in lost \/ \E r \in Senders : sender[r].row = d
                                                   /\ sender[r].pc \in {"post", "refuse"}
                BY <4>1 DEF LogInv, OutcomesRecorded
            <4>3. QED BY <1>8, <1>9, <4>1, <4>2
        <3>3. QED BY <3>1, <3>2
    <2>2. QED BY <2>1 DEF OutcomesRecorded
<1>14. made[new] = 0 /\ log[new] = NoRow
    BY <1>0 DEF LogInv, RowsBelong, DeliveryIds
<1>15. ASSUME NEW g \in HookIds PROVE LogOk(g)'
    <2>1. CASE g # h
        <3>1. g # 0
            BY DEF HookIds
        <3>2. \A d \in DeliveryIds : /\ log'[d].hook = g <=> log[d].hook = g
                                     /\ made'[d] = g => made[d] = g
                                     /\ made[d] = g /\ log'[d] = NoRow => log[d] = NoRow
            BY <1>1, <1>2, <1>14, <2>1, <3>1, RowFacts
        <3>3. RowsOf(g)' = RowsOf(g) /\ (NewestHere(g) => NewestHere(g)')
            BY <3>2, SameRows
        <3>4. At(g) => At(g)'
            BY <1>8, <1>9, <3>1 DEF At
        <3>5. LogOk(g)
            BY DEF LogInv
        <3>6. QED BY <1>11, <3>3, <3>4, <3>5 DEF LogOk
    <2>2. CASE g = h
        <3>1. At(g)'
            BY <1>5, <1>8, <2>2 DEF At
        <3>2. NewestHere(g)
            BY <2>2 DEF LogInv, LogOk
        <3>3. RowsOf(g) \subseteq RowsOf(g)' /\ RowsOf(g)' \subseteq DeliveryIds
            BY <1>2, <1>14, RowFacts DEF RowsOf, HookIds
        <3>4. ASSUME NEW d \in DeliveryIds, made'[d] = g, log'[d] = NoRow
              PROVE  Retention <= Cardinality({e \in RowsOf(g)' : e > d})
            <4>1. made[d] = g /\ log[d] = NoRow
                BY <1>1, <1>2, <3>4
            <4>2. Retention <= Cardinality({e \in RowsOf(g) : e > d})
                BY <3>2, <4>1 DEF NewestHere
            <4>3. Cardinality({e \in RowsOf(g) : e > d}) <= Cardinality({e \in RowsOf(g)' : e > d})
                  /\ Cardinality({e \in RowsOf(g) : e > d}) \in Nat
                  /\ Cardinality({e \in RowsOf(g)' : e > d}) \in Nat
                <5>1. {e \in RowsOf(g) : e > d} \subseteq {e \in RowsOf(g)' : e > d}
                      /\ {e \in RowsOf(g)' : e > d} \subseteq DeliveryIds
                    BY <3>3
                <5>2. QED BY <5>1, RowsCounted
            <4>4. QED BY <4>2, <4>3, RetentionAssumption
        <3>5. NewestHere(g)'
            BY <3>4 DEF NewestHere
        <3>6. QED BY <3>1, <3>5 DEF LogOk
    <2>3. QED BY <2>1, <2>2
<1>16. QED BY <1>10, <1>12, <1>13, <1>15 DEF LogInv

LEMMA LogRecords ==
    ASSUME LogInv, NEW p \in Senders, Record(p)
    PROVE  LogInv'
<1>0. /\ log \in [DeliveryIds -> LogRow] /\ sender \in [Senders -> Deliverers]
      /\ mishaps \in 0 .. MaxMishaps /\ MaxMishaps \in Nat
      /\ lost \subseteq DeliveryIds /\ untidy \subseteq HookIds
    BY HookBoundsAssumption DEF LogInv, LogTypes
<1>1. sender[p] \in Sending /\ AtRow(sender[p]) /\ sender[p].pc \in {"post", "refuse"}
    BY <1>0 DEF Deliverers, Record
<1>2. PICK r \in DeliveryIds, h \in HookIds : r = sender[p].row /\ h = sender[p].hook
    BY <1>1 DEF AtRow
<1>3. UNCHANGED <<cgi, nextDelivery, hook, nextHook, made>>
    BY DEF Record, settings
<1>4. mishaps' \in 0 .. MaxMishaps /\ lost \subseteq lost' /\ lost' \subseteq DeliveryIds
    BY <1>0, <1>2 DEF Record, Works, Fails
<1>5. \/ log' = log
      \/ log[r] # NoRow /\ log' = [log EXCEPT ![r].state = "done"]
    BY <1>2 DEF Record
<1>6. log' \in [DeliveryIds -> LogRow] /\ \A d \in DeliveryIds :
         log'[d].hook = log[d].hook /\ (log'[d] = NoRow <=> log[d] = NoRow)
         /\ (log'[d].state = "pending" => log[d].state = "pending")
    <2>1. CASE log' = log
        BY <1>0, <2>1
    <2>2. CASE log[r] # NoRow /\ log' = [log EXCEPT ![r].state = "done"]
        <3>1. log[r] \in LogRow
            BY <1>0
        <3>2. PICK row : row = [log[r] EXCEPT !.state = "done"]
            OBVIOUS
        <3>3. row \in LogRow /\ row.hook = log[r].hook /\ row.state = "done"
            BY <3>1, <3>2 DEF LogRow
        <3>4. log' \in [DeliveryIds -> LogRow] /\ log'[r] = row
              /\ \A d \in DeliveryIds : d # r => log'[d] = log[d]
            BY <1>0, <2>2, <3>2, <3>3
        <3>5. row # NoRow
            BY <3>3, RowFacts
        <3>6. QED BY <2>2, <3>3, <3>4, <3>5
    <2>3. QED BY <1>5, <2>1, <2>2
<1>7. r \in lost' \/ log'[r].state # "pending"
    <2>1. CASE log' = log /\ lost' = lost \cup {r}
        BY <2>1
    <2>2. CASE log' = IF log[r] = NoRow THEN log ELSE [log EXCEPT ![r].state = "done"]
        <3>1. CASE log[r] = NoRow
            BY <2>2, <3>1, RowFacts
        <3>2. CASE log[r] # NoRow
            <4>1. log[r] \in LogRow
                BY <1>0
            <4>2. log'[r].state = "done"
                BY <1>0, <2>2, <3>2, <4>1 DEF LogRow
            <4>3. QED BY <4>2
        <3>3. QED BY <3>1, <3>2
    <2>3. QED BY <1>2, <2>1, <2>2 DEF Record
<1>8. PICK q \in Deliverers :
        /\ sender' = [sender EXCEPT ![p] = q]
        /\ \/ q.hook = h /\ untidy' = untidy
           \/ untidy' = untidy \cup {h}
    <2>1. CASE sender[p].pc = "post"
        <3>1. sender' = [sender EXCEPT ![p].pc = "prune"] /\ untidy' = untidy
            BY <2>1 DEF Record
        <3>2. PICK q : q = [sender[p] EXCEPT !.pc = "prune"]
            OBVIOUS
        <3>3. q \in Sending /\ q.pc = "prune" /\ q.row = r /\ q.hook = h
            BY <1>1, <1>2, <3>2 DEF Sending
        <3>4. q \in Deliverers
            BY <3>3 DEF Deliverers, AtRow
        <3>5. sender' = [sender EXCEPT ![p] = q]
            BY <1>0, <3>1, <3>2
        <3>6. QED BY <3>1, <3>3, <3>4, <3>5
    <2>2. CASE sender[p].pc = "refuse"
        <3>1. sender' = [sender EXCEPT ![p] = NextHook(p)] /\ untidy' = untidy \cup {h}
            BY <1>2, <2>2 DEF Record
        <3>2. NextHook(p) \in Deliverers
            BY NextHookFacts DEF LogInv
        <3>3. QED BY <3>1, <3>2
    <2>3. QED BY <1>1, <2>1, <2>2
<1>9. sender' \in [Senders -> Deliverers] /\ sender'[p] = q
      /\ \A o \in Senders : o # p => sender'[o] = sender[o]
    BY <1>0, <1>8
<1>10. LogTypes'
    <2>1. untidy' \subseteq HookIds
        BY <1>0, <1>8
    <2>2. QED BY <1>3, <1>4, <1>6, <1>9, <2>1 DEF LogInv, LogTypes
<1>11. RowsBelong'
    BY <1>3, <1>6 DEF LogInv, RowsBelong
<1>12. OutcomesRecorded'
    <2>1. ASSUME NEW d \in DeliveryIds, log'[d].state = "pending", d \notin lost'
          PROVE  \E o \in Senders : sender'[o].row = d /\ sender'[o].pc \in {"post", "refuse"}
        <3>1. d # r /\ log[d].state = "pending" /\ d \notin lost
            BY <1>4, <1>6, <1>7, <2>1
        <3>2. PICK o \in Senders : sender[o].row = d /\ sender[o].pc \in {"post", "refuse"}
            BY <3>1 DEF LogInv, OutcomesRecorded
        <3>3. o # p
            BY <1>2, <3>1, <3>2
        <3>4. QED BY <1>9, <3>2, <3>3
    <2>2. QED BY <2>1 DEF OutcomesRecorded
<1>13. ASSUME NEW g \in HookIds PROVE LogOk(g)'
    <2>1. RowsOf(g)' = RowsOf(g) /\ (NewestHere(g) => NewestHere(g)')
        BY <1>3, <1>6, SameRows
    <2>2. At(g) => At(g)' \/ g \in untidy'
        <3>1. ASSUME NEW o \in Senders, sender[o].hook = g, g \notin untidy' PROVE At(g)'
            <4>1. sender'[o].hook = g
                BY <1>2, <1>8, <1>9, <3>1
            <4>2. QED BY <4>1 DEF At
        <3>2. QED BY <3>1 DEF At
    <2>3. g \in untidy => g \in untidy'
        BY <1>8
    <2>4. LogOk(g)
        BY DEF LogInv
    <2>5. QED BY <1>3, <2>1, <2>2, <2>3, <2>4 DEF LogOk
<1>14. QED BY <1>10, <1>11, <1>12, <1>13 DEF LogInv

LEMMA LogPrunes ==
    ASSUME LogInv, NEW p \in Senders, Prune(p)
    PROVE  LogInv'
<1>0. /\ log \in [DeliveryIds -> LogRow] /\ sender \in [Senders -> Deliverers]
      /\ mishaps \in 0 .. MaxMishaps /\ MaxMishaps \in Nat
      /\ untidy \subseteq HookIds
    BY HookBoundsAssumption DEF LogInv, LogTypes
<1>1. sender[p] \in Sending /\ AtRow(sender[p]) /\ sender[p].pc = "prune"
    BY <1>0 DEF Deliverers, Prune
<1>2. PICK h \in HookIds : h = sender[p].hook
    BY <1>1 DEF AtRow
<1>3. UNCHANGED <<cgi, nextDelivery, hook, nextHook, made, lost>>
    BY DEF Prune, settings
<1>4. mishaps' \in 0 .. MaxMishaps
    BY <1>0 DEF Prune, Works, Fails
<1>5. NextHook(p) \in Deliverers /\ sender' = [sender EXCEPT ![p] = NextHook(p)]
    BY NextHookFacts DEF LogInv, Prune
<1>6. sender' \in [Senders -> Deliverers] /\ \A o \in Senders : o # p => sender'[o] = sender[o]
    BY <1>0, <1>5
<1>7. \A g \in HookIds : g # h /\ At(g) => At(g)'
    BY <1>2, <1>6 DEF At
<1>8. ASSUME \A d \in DeliveryIds : log'[d] = log[d] \/ log'[d] = NoRow
      PROVE  OutcomesRecorded'
    <2>1. ASSUME NEW d \in DeliveryIds, log'[d].state = "pending", d \notin lost
          PROVE  \E o \in Senders : sender'[o].row = d /\ sender'[o].pc \in {"post", "refuse"}
        <3>1. log[d].state = "pending"
            BY <1>8, <2>1, RowFacts
        <3>2. PICK o \in Senders : sender[o].row = d /\ sender[o].pc \in {"post", "refuse"}
            BY <2>1, <3>1 DEF LogInv, OutcomesRecorded
        <3>3. QED BY <1>1, <1>6, <3>2
    <2>2. QED BY <1>3, <2>1 DEF OutcomesRecorded
<1>9. CASE log' = log /\ untidy' = untidy \cup {h}
    <2>1. LogTypes'
        <3>1. untidy' \subseteq HookIds
            BY <1>0, <1>9
        <3>2. QED BY <1>3, <1>4, <1>6, <1>9, <3>1 DEF LogInv, LogTypes
    <2>2. RowsBelong'
        BY <1>3, <1>9 DEF LogInv, RowsBelong
    <2>3. OutcomesRecorded'
        BY <1>8, <1>9
    <2>4. ASSUME NEW g \in HookIds PROVE LogOk(g)'
        <3>1. RowsOf(g)' = RowsOf(g) /\ (NewestHere(g) => NewestHere(g)')
            BY <1>3, <1>9, SameRows
        <3>2. LogOk(g)
            BY DEF LogInv
        <3>3. QED BY <1>3, <1>7, <1>9, <3>1, <3>2 DEF LogOk
    <2>5. QED BY <2>1, <2>2, <2>3, <2>4 DEF LogInv
<1>10. CASE /\ log' = [d \in DeliveryIds |->
                         IF d \in RowsOf(h) \ Kept(h) THEN NoRow ELSE log[d]]
            /\ untidy' = untidy \ {h}
    <2>1. \A d \in DeliveryIds : log'[d] = log[d] \/ (d \in RowsOf(h) /\ log'[d] = NoRow)
        BY <1>10
    <2>2. LogTypes'
        <3>1. log' \in [DeliveryIds -> LogRow] /\ untidy' \subseteq HookIds
            BY <1>0, <1>10, Blanks
        <3>2. QED BY <1>3, <1>4, <1>6, <3>1 DEF LogInv, LogTypes
    <2>3. RowsBelong'
        BY <1>3, <2>1 DEF LogInv, RowsBelong
    <2>4. OutcomesRecorded'
        BY <1>8, <2>1
    <2>5. ASSUME NEW g \in HookIds PROVE LogOk(g)'
        <3>1. CASE g # h
            <4>1. g # 0
                BY DEF HookIds
            <4>2. \A d \in RowsOf(h) : log[d].hook = h /\ made[d] = h
                BY RowFacts DEF RowsOf
            <4>3. \A d \in DeliveryIds : /\ log'[d].hook = g <=> log[d].hook = g
                                         /\ made[d] = g /\ log'[d] = NoRow => log[d] = NoRow
                BY <2>1, <3>1, <4>1, <4>2, RowFacts
            <4>4. RowsOf(g)' = RowsOf(g) /\ (NewestHere(g) => NewestHere(g)')
                BY <1>3, <4>3, SameRows
            <4>5. LogOk(g)
                BY DEF LogInv
            <4>6. QED BY <1>3, <1>7, <1>10, <3>1, <4>4, <4>5 DEF LogOk
        <3>2. CASE g = h
            <4>1. PICK rows : rows = RowsOf(h)
                OBVIOUS
            <4>2. rows \subseteq DeliveryIds /\ \A d \in DeliveryIds :
                     d \in rows <=> made[d] = h /\ log[d] # NoRow
                BY <4>1, RowFacts
            <4>3. \A d \in rows : d \in Nat /\ d <= MaxDeliveries
                BY <4>2, HookBoundsAssumption DEF DeliveryIds
            <4>4. Kept(h) = Newest(rows, Retention)
                BY <4>1 DEF Kept, Newest
            <4>5. Newest(rows, Retention) \subseteq rows
                BY DEF Newest
            <4>6. RowsOf(h)' = Newest(rows, Retention)
                <5>1. h # 0 /\ NoRow.hook = 0
                    BY RowFacts DEF HookIds
                <5>2. \A d \in DeliveryIds : log[d].hook = h <=> d \in rows
                    BY <4>1 DEF RowsOf
                <5>3. \A d \in DeliveryIds :
                         log'[d].hook = h <=> d \in Newest(rows, Retention)
                    BY <1>10, <4>1, <4>4, <4>5, <5>1, <5>2
                <5>4. QED BY <4>2, <4>5, <5>3 DEF RowsOf
            <4>7. Cardinality(RowsOf(h)') <= Retention
                BY <4>3, <4>6, NewestFew, HookBoundsAssumption, RetentionAssumption
            <4>8. ASSUME hook[h].there, NEW d \in DeliveryIds, made[d] = h, log'[d] = NoRow
                  PROVE  Retention <= Cardinality({e \in RowsOf(h)' : e > d})
                <5>1. d \in Nat
                    BY DEF DeliveryIds
                <5>2. Retention <= Cardinality({e \in rows : e > d})
                    <6>1. CASE log[d] = NoRow
                        <7>1. NewestHere(h)
                            BY <4>8 DEF LogInv, LogOk
                        <7>2. QED BY <4>1, <4>8, <6>1, <7>1 DEF NewestHere
                    <6>2. CASE log[d] # NoRow
                        <7>1. d \in rows /\ d \notin Newest(rows, Retention)
                            BY <1>10, <4>1, <4>2, <4>4, <4>8, <6>2
                        <7>2. ~(Cardinality({e \in rows : e > d}) < Retention)
                            BY <7>1 DEF Newest
                        <7>3. Cardinality({e \in rows : e > d}) \in Nat
                            BY <4>2, RowsCounted
                        <7>4. QED BY <7>2, <7>3, RetentionAssumption
                    <6>3. QED BY <6>1, <6>2
                <5>3. QED BY <4>3, <4>6, <5>1, <5>2, NewestStay, HookBoundsAssumption,
                             RetentionAssumption
            <4>9. hook[h].there => NewestHere(h)'
                BY <1>3, <4>8 DEF NewestHere
            <4>10. QED BY <1>3, <3>2, <4>7, <4>9 DEF LogOk
        <3>3. QED BY <3>1, <3>2
    <2>6. QED BY <2>2, <2>3, <2>4, <2>5 DEF LogInv
<1>11. QED BY <1>2, <1>9, <1>10 DEF Prune

LEMMA LogKills ==
    ASSUME LogInv, Kill
    PROVE  LogInv'
<1>0. /\ sender \in [Senders -> Deliverers] /\ mishaps \in 0 .. MaxMishaps
      /\ MaxMishaps \in Nat /\ lost \subseteq DeliveryIds /\ untidy \subseteq HookIds
    BY HookBoundsAssumption DEF LogInv, LogTypes
<1>1. PICK dead \in {Senders} \cup {{p} : p \in Senders} :
        /\ LET under == {p \in dead : sender[p].row # 0} IN
            /\ lost' = lost \cup {sender[p].row :
                                    p \in {q \in under : sender[q].pc # "prune"}}
            /\ untidy' = untidy \cup {sender[p].hook : p \in under}
        /\ sender' = [p \in Senders |-> IF p \in dead THEN Resting ELSE sender[p]]
    BY DEF Kill
<1>2. dead \subseteq Senders
    OBVIOUS
<1>3. UNCHANGED <<cgi, hook, nextHook, log, nextDelivery, made>> /\ mishaps' \in 0 .. MaxMishaps
    BY <1>0 DEF Kill, tables
<1>4. \A p \in Senders : sender[p] \in Sending /\ AtRow(sender[p])
    BY <1>0 DEF Deliverers
<1>5. \A p \in Senders :
         /\ sender[p].row # 0 => sender[p].row \in DeliveryIds /\ sender[p].hook \in HookIds
         /\ sender[p].hook # 0 => sender[p].row # 0
         /\ sender[p].pc \in {"post", "refuse"} => sender[p].row # 0
    <2>1. \A p \in Senders : sender[p].pc \in {"rest", "create", "post", "refuse", "prune"}
        BY <1>4 DEF Sending
    <2>2. 0 \notin DeliveryIds
        BY DEF DeliveryIds
    <2>3. QED BY <1>4, <2>1, <2>2 DEF AtRow
<1>6. sender' \in [Senders -> Deliverers]
      /\ \A p \in Senders : p \notin dead => sender'[p] = sender[p]
    BY <1>0, <1>1, Blanks
<1>7. lost' \subseteq DeliveryIds /\ untidy' \subseteq HookIds /\ lost \subseteq lost'
      /\ untidy \subseteq untidy'
    BY <1>0, <1>1, <1>2, <1>5
<1>8. \A p \in dead : /\ sender[p].hook # 0 => sender[p].hook \in untidy'
                      /\ sender[p].pc \in {"post", "refuse"} => sender[p].row \in lost'
    BY <1>1, <1>2, <1>5
<1>9. LogTypes'
    BY <1>3, <1>6, <1>7 DEF LogInv, LogTypes
<1>10. RowsBelong'
    BY <1>3 DEF LogInv, RowsBelong
<1>11. OutcomesRecorded'
    <2>1. ASSUME NEW d \in DeliveryIds, log[d].state = "pending", d \notin lost'
          PROVE  \E o \in Senders : sender'[o].row = d /\ sender'[o].pc \in {"post", "refuse"}
        <3>1. PICK o \in Senders : sender[o].row = d /\ sender[o].pc \in {"post", "refuse"}
            BY <1>7, <2>1 DEF LogInv, OutcomesRecorded
        <3>2. o \notin dead
            BY <1>8, <2>1, <3>1
        <3>3. QED BY <1>6, <3>1, <3>2
    <2>2. QED BY <1>3, <2>1 DEF OutcomesRecorded
<1>12. ASSUME NEW h \in HookIds PROVE LogOk(h)'
    <2>1. RowsOf(h)' = RowsOf(h) /\ (NewestHere(h) => NewestHere(h)')
        BY <1>3, SameRows
    <2>2. At(h) => At(h)' \/ h \in untidy'
        <3>1. h # 0
            BY DEF HookIds
        <3>2. ASSUME NEW o \in Senders, sender[o].hook = h, h \notin untidy' PROVE At(h)'
            <4>1. o \notin dead
                BY <1>8, <3>1, <3>2
            <4>2. QED BY <1>6, <3>2, <4>1 DEF At
        <3>3. QED BY <3>2 DEF At
    <2>3. LogOk(h)
        BY DEF LogInv
    <2>4. QED BY <1>3, <1>7, <2>1, <2>2, <2>3 DEF LogOk
<1>13. QED BY <1>9, <1>10, <1>11, <1>12 DEF LogInv

(* A delivery that gets no row, or that starts or is hung up.               *)
LEMMA LogSenders ==
    ASSUME LogInv, ScreensInv, UNCHANGED <<hook, nextHook, cgi, log, nextDelivery, made, lost, untidy>>,
           mishaps' \in 0 .. MaxMishaps, sender' \in [Senders -> Deliverers],
           \A p \in Senders : \/ sender[p].pc \in {"rest", "create"}
                              \/ /\ sender'[p].hook = sender[p].hook
                                 /\ sender'[p].pc = sender[p].pc
                                 /\ sender'[p].row = sender[p].row
    PROVE  LogInv'
<1>1. \A p \in Senders : sender[p].pc \in {"rest", "create"} => sender[p].hook = 0
    BY DEF LogInv, LogTypes, Deliverers, AtRow
<1>2. nextHook \in Nat
    BY DEF ScreensInv, SettingsOk
<1>3. QED BY <1>1, <1>2, LogQuiet

LEMMA LogStep ==
    LogInv /\ ScreensInv /\ [WebhooksNext]_webhooksVars => LogInv'
<1> SUFFICES ASSUME LogInv, ScreensInv, [WebhooksNext]_webhooksVars PROVE LogInv'
    OBVIOUS
<1>0. /\ sender \in [Senders -> Deliverers] /\ mishaps \in 0 .. MaxMishaps
      /\ MaxMishaps \in Nat /\ hook \in [HookIds -> HookRow] /\ cgi \in BOOLEAN
      /\ screen \in [Screens -> Forms]
    BY HookBoundsAssumption DEF LogInv, LogTypes, ScreensInv, SettingsOk
<1>1. ASSUME Dispatch PROVE LogInv'
    <2>1. PICK to \in [Subscribers -> Resters] :
            sender' = [p \in Senders |->
               LET mine == {h \in Subscribers : to[h] = p}
               IN IF mine = {} THEN sender[p] ELSE Take(mine, FALSE)]
        BY <1>1 DEF Dispatch
    <2> DEFINE mine(p) == {h \in Subscribers : to[h] = p}
    <2>2. \A p \in Senders : mine(p) \in SUBSET HookIds
        BY DEF Subscribers, Hooks
    <2>3. \A p \in Senders : mine(p) # {} => p \in Resters
        BY <2>1
    <2>4. \A p \in Senders : p \in Resters => sender[p].pc = "rest"
        BY Blanks DEF Resters
    <2>5. \A p \in Senders : sender'[p] = IF mine(p) = {} THEN sender[p] ELSE Take(mine(p), FALSE)
        BY <2>1
    <2>6. sender' = [p \in Senders |-> sender'[p]]
        BY <2>1
    <2> HIDE DEF mine
    <2>7. \A p \in Senders : sender'[p] \in Deliverers
        BY <1>0, <2>2, <2>5, Blanks
    <2>8. sender' \in [Senders -> Deliverers]
        BY <2>6, <2>7
    <2>9. \A p \in Senders : sender'[p] = sender[p] \/ sender[p].pc = "rest"
        BY <2>3, <2>4, <2>5
    <2>10. QED BY <1>0, <1>1, <2>8, <2>9, LogSenders DEF Dispatch, tables
<1>2. ASSUME NEW s \in Screens, TestHook(s) PROVE LogInv'
    <2>1. PICK p \in Resters : sender' = [sender EXCEPT ![p] = Take({screen[s].id}, ~cgi)]
        BY <1>2 DEF TestHook
    <2>2. p \in Senders /\ sender[p].pc = "rest"
        BY Blanks DEF Resters
    <2>3. {screen[s].id} \in SUBSET HookIds
        BY <1>0, <1>2 DEF TestHook, Forms
    <2>4. Take({screen[s].id}, ~cgi) \in Deliverers
        BY <1>0, <2>3, Blanks
    <2>5. sender' \in [Senders -> Deliverers]
          /\ \A q \in Senders : sender'[q] = sender[q] \/ sender[q].pc = "rest"
        BY <1>0, <2>1, <2>2, <2>4
    <2>6. QED BY <1>0, <1>2, <2>5, LogSenders DEF TestHook, tables
<1>3. ASSUME NEW p \in Senders, HangUp(p) PROVE LogInv'
    <2>1. PICK q : q = [sender[p] EXCEPT !.gone = TRUE]
        OBVIOUS
    <2>2. sender[p] \in Sending /\ AtRow(sender[p])
        BY <1>0 DEF Deliverers
    <2>3. /\ q \in Sending /\ q.pc = sender[p].pc /\ q.hook = sender[p].hook
          /\ q.row = sender[p].row
        BY <2>1, <2>2 DEF Sending
    <2>4. q \in Deliverers
        BY <2>2, <2>3 DEF Deliverers, AtRow
    <2>5. sender' = [sender EXCEPT ![p] = q]
        BY <1>3, <2>1 DEF HangUp
    <2>6. sender' \in [Senders -> Deliverers]
          /\ \A o \in Senders : /\ sender'[o].hook = sender[o].hook
                                /\ sender'[o].pc = sender[o].pc
                                /\ sender'[o].row = sender[o].row
        BY <1>0, <2>3, <2>4, <2>5
    <2>7. QED BY <1>0, <1>3, <2>6, LogSenders DEF HangUp, tables
<1>4. ASSUME NEW p \in Senders, NEW h \in HookIds, CreateDelivery(p, h) PROVE LogInv'
    <2>1. CASE /\ Works(p) /\ hook[h].there /\ nextDelivery \in DeliveryIds
               /\ log' = [log EXCEPT ![nextDelivery] = [hook |-> h, state |-> "pending"]]
               /\ made' = [made EXCEPT ![nextDelivery] = h]
               /\ nextDelivery' = nextDelivery + 1
               /\ \E pc \in {"post", "refuse"} :
                    sender' = [sender EXCEPT ![p].pc = pc, ![p].hook = h,
                                             ![p].row = nextDelivery]
        <3>1. PICK pc \in {"post", "refuse"} :
                sender' = [sender EXCEPT ![p].pc = pc, ![p].hook = h, ![p].row = nextDelivery]
            BY <2>1
        <3>2. /\ sender[p].pc = "create" /\ mishaps' = mishaps
              /\ UNCHANGED <<cgi, settings, lost, untidy>>
            BY <1>4, <2>1 DEF CreateDelivery, Works
        <3>3. QED BY <2>1, <3>1, <3>2, LogAdds
    <2>2. CASE /\ (Works(p) /\ ~hook[h].there) \/ Fails(p)
               /\ sender' = [sender EXCEPT ![p] =
                    IF sender[p].todo = {h} THEN Resting
                    ELSE [sender[p] EXCEPT !.todo = @ \ {h}]]
               /\ UNCHANGED <<log, made, nextDelivery>>
        <3>1. sender[p] \in Sending /\ AtRow(sender[p]) /\ sender[p].pc = "create"
            BY <1>0, <1>4 DEF Deliverers, CreateDelivery
        <3>2. PICK q : q = [sender[p] EXCEPT !.todo = sender[p].todo \ {h}]
            OBVIOUS
        <3>3. q \in Sending /\ q.pc = "create" /\ q.hook = 0 /\ q.row = 0
            BY <3>1, <3>2 DEF Sending, AtRow
        <3>4. q \in Deliverers
            BY <3>3 DEF Deliverers, AtRow
        <3>5. PICK next \in Deliverers : sender' = [sender EXCEPT ![p] = next]
            <4>1. sender' = [sender EXCEPT ![p] = IF sender[p].todo = {h} THEN Resting ELSE q]
                BY <2>2, <3>2
            <4>2. (IF sender[p].todo = {h} THEN Resting ELSE q) \in Deliverers
                BY <3>4, Blanks
            <4>3. QED BY <4>1, <4>2
        <3>6. sender' \in [Senders -> Deliverers]
              /\ \A o \in Senders : sender'[o] = sender[o] \/ sender[o].pc = "create"
            BY <1>0, <3>1, <3>5
        <3>7. mishaps' \in 0 .. MaxMishaps
            BY <1>0, <2>2 DEF Works, Fails
        <3>8. UNCHANGED <<cgi, settings, lost, untidy>>
            BY <1>4 DEF CreateDelivery
        <3>9. QED BY <2>2, <3>6, <3>7, <3>8, LogSenders DEF settings
    <2>3. QED BY <1>4, <2>1, <2>2 DEF CreateDelivery
<1>5. CASE UNCHANGED webhooksVars
    BY <1>0, <1>5, LogSenders DEF webhooksVars
<1>6. CASE WebhooksNext
    BY <1>1, <1>2, <1>3, <1>4, <1>6, LogScreens, LogDelete, LogRecords, LogPrunes, LogKills
       DEF WebhooksNext
<1>7. QED BY <1>5, <1>6

LEMMA WebhooksInitOk == WebhooksInit => ScreensInv /\ LogInv
<1> SUFFICES ASSUME WebhooksInit PROVE ScreensInv /\ LogInv
    OBVIOUS
<1>1. MaxHooks \in Nat /\ MaxDeliveries \in Nat /\ MaxMishaps \in Nat
    BY HookBoundsAssumption
<1>2. SettingsOk
    <2>1. [secret |-> "", active |-> FALSE] \in Setting
        BY DEF Setting
    <2>2. hook \in [HookIds -> HookRow] /\ want \in [HookIds -> Setting]
        BY <2>1, Blanks DEF WebhooksInit
    <2>3. screen \in [Screens -> Forms]
        BY Blanks DEF WebhooksInit
    <2>4. nextHook \in 1 .. MaxHooks + 1 /\ overtaken \subseteq HookIds
        <3>1. nextHook = 1 /\ overtaken = {}
            BY DEF WebhooksInit
        <3>2. QED BY <1>1, <3>1
    <2>5. QED BY <2>2, <2>3, <2>4 DEF SettingsOk
<1>3. \A h \in HookIds : ~hook[h].there
    BY DEF WebhooksInit, NoHook
<1>4. ScreensInv
    BY <1>2, <1>3 DEF ScreensInv, Follows
<1>5. LogTypes
    <2>1. log \in [DeliveryIds -> LogRow] /\ sender \in [Senders -> Deliverers]
        BY Blanks DEF WebhooksInit
    <2>2. nextDelivery \in 1 .. MaxDeliveries + 1 /\ mishaps \in 0 .. MaxMishaps
          /\ made \in [DeliveryIds -> HookIds \cup {0}]
        <3>1. nextDelivery = 1 /\ mishaps = 0 /\ made = [d \in DeliveryIds |-> 0]
            BY DEF WebhooksInit
        <3>2. QED BY <1>1, <3>1
    <2>3. QED BY <2>1, <2>2 DEF WebhooksInit, LogTypes
<1>6. RowsBelong
    <2>1. \A d \in DeliveryIds : made[d] = 0 /\ log[d] = NoRow /\ nextHook = 1
        BY DEF WebhooksInit
    <2>2. QED BY <2>1 DEF RowsBelong
<1>7. OutcomesRecorded
    BY DEF WebhooksInit, OutcomesRecorded, NoRow
<1>8. \A h \in HookIds : LogOk(h)
    BY <1>3 DEF LogOk
<1>9. QED BY <1>4, <1>5, <1>6, <1>7, <1>8 DEF LogInv

LEMMA WebhooksAlways == WebhooksSpec => [](ScreensInv /\ LogInv)
<1>1. ScreensInv /\ LogInv /\ [WebhooksNext]_webhooksVars => (ScreensInv /\ LogInv)'
    BY ScreensStep, LogStep
<1>2. QED BY <1>1, WebhooksInitOk, PTL DEF WebhooksSpec

(***************************************************************************)
(* Every variable of the webhooks stays in its domain.                     *)
(***************************************************************************)
THEOREM WebhooksTypeCorrect == WebhooksSpec => []WebhooksTypeOk
<1>1. ScreensInv /\ LogInv => WebhooksTypeOk
    BY WebhooksTypes DEF ScreensInv, LogInv
<1>2. QED BY <1>1, WebhooksAlways, PTL

(***************************************************************************)
(* A subscription is as its operators last asked, for any number of        *)
(* screens and subscriptions, unless one of them wrote on the strength of  *)
(* a stale row.                                                            *)
(***************************************************************************)
THEOREM SettingsAreAsked == WebhooksSpec => []SettingsFollowClicks
<1>1. ScreensInv => SettingsFollowClicks
    <2> SUFFICES ASSUME ScreensInv, NEW h \in Hooks \ overtaken
                 PROVE  want[h] = [secret |-> hook[h].secret, active |-> hook[h].active]
        BY DEF SettingsFollowClicks
    <2>1. h \in HookIds /\ hook[h].there /\ Follows(h) /\ want[h] \in Setting
        BY DEF Hooks, ScreensInv, SettingsOk
    <2>2. QED BY <2>1 DEF Follows, Setting
<1>2. QED BY <1>1, WebhooksAlways, PTL

(***************************************************************************)
(* The log of a hook keeps the newest attempts and tells their outcomes,   *)
(* for any number of senders that insert, record and prune at once, of     *)
(* kills and of failing statements.                                        *)
(***************************************************************************)
THEOREM LogIsComplete == WebhooksSpec => []DeliveriesLogged
<1>1. LogInv => DeliveriesLogged
    <2> SUFFICES ASSUME LogInv PROVE DeliveriesLogged
        OBVIOUS
    <2>1. ASSUME NEW h \in Hooks
          PROVE  /\ \A d \in DeliveryIds : made[d] = h /\ log[d] = NoRow =>
                       Cardinality({e \in RowsOf(h) : e > d}) >= Retention
                 /\ h \in untidy \/ (\E p \in Senders : sender[p].hook = h)
                    \/ Cardinality(RowsOf(h)) <= Retention
        <3>1. h \in HookIds /\ hook[h].there
            BY DEF Hooks
        <3>2. NewestHere(h) /\ (h \in untidy \/ At(h) \/ Cardinality(RowsOf(h)) <= Retention)
            BY <3>1 DEF LogInv, LogOk
        <3>3. QED BY <3>2 DEF NewestHere, At
    <2>2. LogHoldsNewest
        BY <2>1 DEF LogHoldsNewest
    <2>3. QED BY <2>2 DEF LogInv, DeliveriesLogged
<1>2. QED BY <1>1, WebhooksAlways, PTL

-----------------------------------------------------------------------------
(***************************************************************************)
(* The parts side by side.  What MCAdministration runs, with one part in   *)
(* focus and its bounds, is behaviours of the two specifications, so the   *)
(* theorems above hold of it; and every variable stays in its domain.      *)
(***************************************************************************)
THEOREM AdministrationRunsTheParts == AdministrationSpec => Spec /\ WebhooksSpec
<1>1. AdministrationInit => Init /\ WebhooksInit
    BY DEF AdministrationInit
<1>2. [AdministrationNext]_<<focus, vars, webhooksVars>>
          => [Next]_vars /\ [WebhooksNext]_webhooksVars
    BY DEF AdministrationNext
<1>3. QED BY <1>1, <1>2, PTL DEF AdministrationSpec, Spec, WebhooksSpec

(***************************************************************************)
(* The parts side by side: every variable of either stays in its domain.   *)
(***************************************************************************)
THEOREM AdministrationTypeCorrect == AdministrationSpec => []AdministrationTypeOk
<1>1. TypeOk /\ WebhooksTypeOk => AdministrationTypeOk
    BY DEF AdministrationTypeOk
<1>2. QED BY <1>1, AdministrationRunsTheParts, TypeCorrect, WebhooksTypeCorrect, PTL
=============================================================================
