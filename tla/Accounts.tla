------------------------------ MODULE Accounts ------------------------------
(***************************************************************************)
(* Users and their sessions: loginSubmit with its failure counter, the     *)
(* users screen (userCreate, userUpdate, userDelete), profileSave and      *)
(* logout, run by concurrent requests over one database.                   *)
(*                                                                         *)
(* Every statement is a step of its own; what UpdateUserPassword and       *)
(* DeleteUser do in a transaction is one.  A name stands for the id of its *)
(* account, a password for the number of times it was changed, and the two *)
(* roles that may not manage users are one, "regular".                     *)
(***************************************************************************)
EXTENDS Naturals, FiniteSets

CONSTANTS
    Requests,           \* requests in flight
    Tokens,             \* session tokens; a random token never repeats
    Counted,            \* names whose failed logins are counted
    LoginMaxFailures,   \* failed logins in the window that block a name
    MaxUsers,           \* bound: accounts ever created
    MaxChanges          \* bound: password changes

ASSUME MaxUsersAssumption == MaxUsers \in Nat \ {0}

ASSUME MaxChangesAssumption == MaxChanges \in Nat

ASSUME RequestsAssumption == IsFiniteSet(Requests)

ASSUME LoginMaxFailuresAssumption == LoginMaxFailures \in Nat \ {0}

Ids == 1 .. MaxUsers

ASSUME CountedAssumption == Counted \subseteq Ids

Roles == {"admin", "regular"}
Passwords == 1 .. MaxChanges + 1

NoUser == [role |-> "none", pw |-> 0, acct |-> 0]
User == [role : Roles, pw : Passwords, acct : Ids]
Session == [token : Tokens, user : Ids, pw : Passwords \cup {0},
            acct : Ids]

VARIABLES
    users,      \* the users table; acct is history, the account in the row
    nextId,     \* its AUTOINCREMENT counter
    sessions,   \* the sessions table; pw and acct are history: the password
                \* the user had when it was issued, the account that signed in
    issued,     \* tokens ever issued
    failures,   \* failed logins of a name inside the window
    req,        \* what each request is doing
    changes,    \* number of password changes
    raced       \* history: a request took a role away that it had not read,
                \* or after what it had read of the roles was changed

vars == <<users, nextId, sessions, issued, failures, req, changes, raced>>

Idle == [op |-> "none", pc |-> "idle", own |-> FALSE, target |-> 0, acct |-> 0,
         role |-> "none", newPw |-> FALSE, stale |-> FALSE]

Request == [op : {"none", "login", "create", "update", "delete", "profile"},
            pc : {"idle", "lookup", "refused", "verified", "session", "load",
                  "count", "write", "password"},
            own : BOOLEAN, target : Ids \cup {0}, acct : Ids \cup {0},
            role : Roles \cup {"none"}, newPw : BOOLEAN, stale : BOOLEAN]

Exists(u) == users[u] # NoUser
Admins == {u \in Ids : users[u].role = "admin"}

Init ==
    /\ users = [u \in Ids |-> IF u = 1 THEN [role |-> "admin", pw |-> 1, acct |-> 1]
                                       ELSE NoUser]
    /\ nextId = 2
    /\ sessions = {}
    /\ issued = {}
    /\ failures = [u \in Counted |-> 0]
    /\ req = [r \in Requests |-> Idle]
    /\ changes = 0
    /\ raced = FALSE

Proceed(r, pc) == req' = [req EXCEPT ![r].pc = pc]
Finish(r) == req' = [req EXCEPT ![r] = Idle]

-----------------------------------------------------------------------------
(* Signing in and out.                                                      *)

(* Bug: one failure more is let through.                                    *)
AllowedAtLimit(u) == u \in Counted => failures[u] <= LoginMaxFailures

Allowed(u) == u \in Counted => failures[u] < LoginMaxFailures

(***************************************************************************)
(* loginSubmit: the limiter lets the attempt through.                      *)
(***************************************************************************)
Allow(r) ==
    /\ req[r] = Idle
    /\ \E u \in Ids :
        /\ Allowed(u)
        /\ req' = [req EXCEPT ![r] = [Idle EXCEPT !.op = "login", !.pc = "lookup",
                                                  !.target = u]]
    /\ UNCHANGED <<users, nextId, sessions, issued, failures, changes, raced>>

(* Bug: a name that is not found passes.                                    *)
VerifyNobody(r) ==
    /\ req[r].pc = "lookup"
    /\ \/ req' = [req EXCEPT ![r].pc = "verified",
                             ![r].acct = users[req[r].target].acct]
       \/ Proceed(r, "refused")
    /\ UNCHANGED <<users, nextId, sessions, issued, failures, changes, raced>>

(***************************************************************************)
(* UserByName, and the typed password compared with the hash it read.      *)
(***************************************************************************)
Verify(r) ==
    /\ req[r].pc = "lookup"
    /\ \/ /\ Exists(req[r].target)
          /\ req' = [req EXCEPT ![r].pc = "verified",
                                ![r].acct = users[req[r].target].acct]
       \/ Proceed(r, "refused")
    /\ UNCHANGED <<users, nextId, sessions, issued, failures, changes, raced>>

RecordFailure(r) ==
    /\ req[r].pc = "refused"
    /\ failures' = [u \in Counted |-> IF u = req[r].target THEN failures[u] + 1
                                                          ELSE failures[u]]
    /\ Finish(r)
    /\ UNCHANGED <<users, nextId, sessions, issued, changes, raced>>

ClearFailures(r) ==
    /\ req[r].pc = "verified"
    /\ failures' = [u \in Counted |-> IF u = req[r].target THEN 0 ELSE failures[u]]
    /\ Proceed(r, "session")
    /\ UNCHANGED <<users, nextId, sessions, issued, changes, raced>>

(* A failure leaves the window of loginWindowPeriod.                        *)
Slide(u) ==
    /\ failures[u] > 0
    /\ failures' = [failures EXCEPT ![u] = @ - 1]
    /\ UNCHANGED <<users, nextId, sessions, issued, req, changes, raced>>

(***************************************************************************)
(* A fresh token for a user, beside the sessions S.                        *)
(***************************************************************************)
NewSession(S, u, acct, pw) ==
    \E t \in Tokens \ issued :
        /\ issued' = issued \cup {t}
        /\ sessions' = S \cup {[token |-> t, user |-> u, pw |-> pw, acct |-> acct]}

(***************************************************************************)
(* Sessions.Create: the account may have been deleted, or its password     *)
(* changed, since it was verified; nothing is read again.                  *)
(***************************************************************************)
CreateSession(r) ==
    /\ req[r].pc = "session"
    /\ NewSession(sessions, req[r].target, req[r].acct, users[req[r].target].pw)
    /\ Finish(r)
    /\ UNCHANGED <<users, nextId, failures, changes, raced>>

(* logout, or the expiry that SessionUser tests.                            *)
EndSession ==
    /\ \E s \in sessions : sessions' = sessions \ {s}
    /\ UNCHANGED <<users, nextId, issued, failures, req, changes, raced>>

-----------------------------------------------------------------------------
(* A request of somebody signed in: what SessionUser reads of the actor     *)
(* stays in the request's context, whatever happens to the row meanwhile;   *)
(* all that matters of it later is whether the actor is the target.         *)

Begin(r) ==
    /\ req[r] = Idle
    /\ \E s \in sessions, op \in {"create", "update", "delete", "profile"},
          u \in Ids, role \in Roles, newPw \in BOOLEAN :
        /\ Exists(s.user)
        /\ op # "profile" => s.user \in Admins
        /\ op \in {"profile", "create"} => u = s.user
        /\ op = "delete" => u # s.user
        /\ op \in {"delete", "profile"} => role = "regular"
        /\ newPw => op \in {"update", "profile"}
        /\ req' = [req EXCEPT ![r] =
                      IF op = "create"
                      THEN [Idle EXCEPT !.op = op, !.role = role, !.pc = "write"]
                      ELSE [Idle EXCEPT !.op = op, !.own = (u = s.user), !.target = u,
                                        !.role = role, !.newPw = newPw, !.pc = "load"]]
    /\ UNCHANGED <<users, nextId, sessions, issued, failures, changes, raced>>

(***************************************************************************)
(* resolveUserRoleUpdate: administrators who edit themselves stay          *)
(* administrators; a profile keeps the role of the row it was loaded from. *)
(***************************************************************************)
ResolveRole(r) ==
    LET q == req[r]  old == users[q.target].role IN
    CASE q.op = "profile" -> old
      [] q.op = "update" /\ q.own /\ old = "admin" -> "admin"
      [] OTHER -> q.role

(* Bug: an administrator is demoted or deleted without a count.             *)
NeverAsks(r) == FALSE

NeedsCount(r) == req[r].target \in Admins /\ ResolveRole(r) # "admin"

(***************************************************************************)
(* UserByID.  userDelete goes on without the row, to a DELETE of nothing,  *)
(* and when the lookup fails, to a DELETE that nothing has counted.        *)
(***************************************************************************)
Load(r) ==
    /\ req[r].pc = "load"
    /\ \/ /\ Exists(req[r].target) \/ req[r].op = "delete"
          /\ req' = [req EXCEPT ![r].role = ResolveRole(r),
                                ![r].stale = FALSE,
                                ![r].pc = IF NeedsCount(r) THEN "count" ELSE "write"]
       \/ /\ req[r].op = "delete"
          /\ req' = [req EXCEPT ![r].stale = TRUE, ![r].pc = "write"]
    /\ UNCHANGED <<users, nextId, sessions, issued, failures, changes, raced>>

(* CountAdmins: the last administrator is neither demoted nor deleted.      *)
CountAdmins(r) ==
    /\ req[r].pc = "count"
    /\ IF \E u, v \in Admins : u # v
       THEN req' = [req EXCEPT ![r].stale = FALSE, ![r].pc = "write"]
       ELSE Finish(r)
    /\ UNCHANGED <<users, nextId, sessions, issued, failures, changes, raced>>

(***************************************************************************)
(* History: r took a role away, or put one back, and what the other        *)
(* requests read of the roles is not so any more.                          *)
(***************************************************************************)
RoleWritten(r, next) ==
    /\ req' = [q \in Requests |->
                  IF q = r THEN next
                  ELSE [req[q] EXCEPT !.stale = (@ \/ req[q].pc \in {"count", "write"})]]
    /\ raced' = (raced \/ req[r].stale)

(***************************************************************************)
(* UpdateUser rewrites every column of the row but the password.           *)
(***************************************************************************)
UpdateUser(r) ==
    LET u == req[r].target
        next == IF req[r].newPw THEN [req[r] EXCEPT !.pc = "password"] ELSE Idle
    IN
    /\ req[r].pc = "write"
    /\ req[r].op \in {"update", "profile"}
    /\ Exists(u)
    /\ users' = [users EXCEPT ![u].role = req[r].role]
    /\ IF users[u].role # req[r].role
       THEN RoleWritten(r, next)
       ELSE req' = [req EXCEPT ![r] = next] /\ UNCHANGED raced
    /\ UNCHANGED <<nextId, sessions, issued, failures, changes>>

SessionsOf(u) == {s \in sessions : s.user = u}

(***************************************************************************)
(* UpdateUserPassword: the hash, the sessions, and for the browser that    *)
(* asked a session to replace them, in one transaction.                    *)
(***************************************************************************)
UpdateUserPassword(r) ==
    LET u == req[r].target
        pw == users[u].pw + 1
        kept == sessions \ SessionsOf(u)
    IN
    /\ req[r].pc = "password"
    /\ Exists(u)
    /\ changes < MaxChanges
    /\ changes' = changes + 1
    /\ users' = [users EXCEPT ![u].pw = pw]
    /\ IF req[r].own
       THEN NewSession(kept, u, users[u].acct, pw)
       ELSE sessions' = kept /\ UNCHANGED issued
    /\ Finish(r)
    /\ UNCHANGED <<nextId, failures, raced>>

(* DeleteUser: the sessions and the row, in one transaction.                *)
DeleteUser(r) ==
    LET u == req[r].target IN
    /\ req[r].pc = "write"
    /\ req[r].op = "delete"
    /\ Exists(u)
    /\ users' = [users EXCEPT ![u] = NoUser]
    /\ sessions' = sessions \ SessionsOf(u)
    /\ IF u \in Admins
       THEN RoleWritten(r, Idle)
       ELSE Finish(r) /\ UNCHANGED raced
    /\ UNCHANGED <<nextId, issued, failures, changes>>

(* Bug: without AUTOINCREMENT, the id of a deleted account is used again.   *)
CreateUserReusingId(r) ==
    /\ req[r].pc = "write"
    /\ req[r].op = "create"
    /\ nextId <= MaxUsers + 1
    /\ \E u \in Ids :
        /\ ~Exists(u)
        /\ users' = [users EXCEPT ![u] = [role |-> req[r].role, pw |-> 1, acct |-> nextId]]
    /\ nextId' = nextId + 1
    /\ Finish(r)
    /\ UNCHANGED <<sessions, issued, failures, changes, raced>>

CreateUser(r) ==
    /\ req[r].pc = "write"
    /\ req[r].op = "create"
    /\ nextId <= MaxUsers
    /\ users' = [users EXCEPT ![nextId] =
                    [role |-> req[r].role, pw |-> 1, acct |-> nextId]]
    /\ nextId' = nextId + 1
    /\ Finish(r)
    /\ UNCHANGED <<sessions, issued, failures, changes, raced>>

(***************************************************************************)
(* A statement fails, a row is gone, a name is taken, the form is refused  *)
(* or the client hangs up: the handler returns, and what it wrote stays.   *)
(***************************************************************************)
GiveUp(r) ==
    /\ req[r] # Idle
    /\ Finish(r)
    /\ UNCHANGED <<users, nextId, sessions, issued, failures, changes, raced>>

SignIn(r) == \/ Allow(r) \/ Verify(r) \/ RecordFailure(r) \/ ClearFailures(r)
             \/ CreateSession(r)

Manage(r) == \/ Begin(r) \/ Load(r) \/ CountAdmins(r) \/ UpdateUser(r)
             \/ UpdateUserPassword(r) \/ DeleteUser(r) \/ CreateUser(r)

Next == \/ \E r \in Requests : SignIn(r) \/ Manage(r) \/ GiveUp(r)
        \/ \E u \in Counted : Slide(u)
        \/ EndSession

Spec == Init /\ [][Next]_vars

-----------------------------------------------------------------------------
(***************************************************************************)
(* Every variable stays in its domain.                                     *)
(***************************************************************************)
TypeOk ==
    /\ users \in [Ids -> User \cup {NoUser}]
    /\ nextId \in 2 .. MaxUsers + 1
    /\ sessions \subseteq Session
    /\ issued \subseteq Tokens
    /\ failures \in [Counted -> Nat]
    /\ req \in [Requests -> Request]
    /\ changes \in 0 .. MaxChanges
    /\ raced \in BOOLEAN

(***************************************************************************)
(* resolveUserRoleUpdate: the lone-admin guard "rejects any path that      *)
(* would leave zero admins".                                               *)
(***************************************************************************)
SomeAdmin == Admins # {}

(***************************************************************************)
(* The same, as long as no request wrote a role without having read it, or *)
(* on the strength of a read that another request had made obsolete; the   *)
(* actor may be stale.                                                     *)
(***************************************************************************)
AdminsLostOnlyByRace == raced \/ SomeAdmin

(***************************************************************************)
(* UpdateUserPassword: no session issued under an earlier password of its  *)
(* user is left, whichever statements the requests interleave.             *)
(***************************************************************************)
OldSessionsGone ==
    \A s \in sessions : Exists(s.user) => s.pw = users[s.user].pw

(***************************************************************************)
(* DeleteUser, CreateUser: a session row, also one that a login inserted   *)
(* after its account was deleted, never comes to stand for another         *)
(* account.                                                                *)
(***************************************************************************)
SessionNamesItsAccount ==
    \A s \in sessions : Exists(s.user) => s.acct = users[s.user].acct

(***************************************************************************)
(* A session signs in the account it was issued to, under the password it  *)
(* was issued under, or nobody.                                            *)
(***************************************************************************)
SessionsHold == OldSessionsGone /\ SessionNamesItsAccount

(***************************************************************************)
(* loginLimiter: allow and recordFailure are separate statements, yet      *)
(* attempts at once exceed the limit by no more than their own number.     *)
(***************************************************************************)
InFlight(u) == {r \in Requests : req[r].target = u /\ req[r].pc \in {"lookup", "refused"}}

FailuresBounded ==
    \A u \in Counted : failures[u] + Cardinality(InFlight(u))
                       < LoginMaxFailures + Cardinality(Requests)
=============================================================================
