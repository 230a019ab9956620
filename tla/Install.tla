------------------------------- MODULE Install -------------------------------
(***************************************************************************)
(* The installation of a site: setupSubmit and its callback, `serenebach   *)
(* seed`, and the statements of Seed, run by the requests of one or more   *)
(* processes over one database.                                            *)
(*                                                                         *)
(* Every statement of Seed is a step.  A row is known by the run that      *)
(* inserted it, since each run has a password and a title of its own.      *)
(***************************************************************************)
EXTENDS Naturals

CONSTANTS
    Requests,       \* forms sent to /setup
    Commands,       \* runs of `serenebach seed`, each a process of its own
    Hosts,          \* processes that serve requests
    HostOf,         \* the process of each request
    Names,          \* names proposed for the administrator
    MaxFaults       \* bound: statements that fail and processes that die

Runs == Requests \cup Commands

ASSUME RunsAssumption == Requests \cap Commands = {}

ASSUME HostOfAssumption == HostOf \in [Requests -> Hosts]

ASSUME MaxFaultsAssumption == MaxFaults \in Nat

NoRun == "nobody"

ASSUME NoRunAssumption == NoRun \notin Runs

Steps == {"lock", "again", "name", "admin", "weblog", "template",
          "newtemplate", "samples", "category", "entries"}

VARIABLES
    admin,          \* the users table: who inserted each name
    weblog,         \* who inserted the weblog
    templates,      \* active templates
    categories,     \* sample categories
    entries,        \* who inserted sample entries
    lock,           \* setupMu of each process, and who holds it
    run,            \* what each run asks for and where it is
    answer,         \* what each run was told
    faults,
    raced           \* history: two runs were past the administrator at once

vars == <<admin, weblog, templates, categories, entries, lock, run, answer, faults, raced>>
site == <<admin, weblog, templates, categories, entries>>

Asked == [pc : Steps, name : Names, samples : BOOLEAN]
Idle == [pc |-> "idle", name |-> NoRun, samples |-> FALSE]

Installed == \E n \in Names : admin[n] # NoRun

Init ==
    /\ admin = [n \in Names |-> NoRun]
    /\ weblog = NoRun
    /\ templates = 0
    /\ categories = 0
    /\ entries = {}
    /\ lock = [h \in Hosts |-> NoRun]
    /\ run = [r \in Runs |-> Idle]
    /\ answer = [r \in Runs |-> "none"]
    /\ faults = 0
    /\ raced = FALSE

Goto(r, pc) == run' = [run EXCEPT ![r].pc = pc]

(* The run returns, and the deferred Unlock lets the next one in.           *)
Answer(r, what) ==
    /\ run' = [run EXCEPT ![r] = Idle]
    /\ answer' = [answer EXCEPT ![r] = what]
    /\ lock' = [h \in Hosts |-> IF lock[h] = r THEN NoRun ELSE lock[h]]

(* A redirect to the login, or the "ok" of the command.                     *)
Done(r) == Answer(r, IF r \in Requests THEN "login" ELSE "ok")

NotFound(r) == Answer(r, IF r \in Requests THEN "notfound" ELSE "skipped")

-----------------------------------------------------------------------------
(* setupSubmit looks for an administrator before it validates the form; the *)
(* command just starts.                                                     *)
Submit(r) ==
    /\ run[r] = Idle
    /\ answer[r] = "none"
    /\ IF r \in Requests /\ Installed
       THEN NotFound(r)
       ELSE /\ \E n \in Names, samples \in BOOLEAN :
                run' = [run EXCEPT ![r] =
                           [pc |-> IF r \in Requests THEN "lock" ELSE "name",
                            name |-> n, samples |-> samples]]
            /\ UNCHANGED <<answer, lock>>
    /\ UNCHANGED <<site, faults, raced>>

Lock(r) ==
    /\ run[r].pc = "lock"
    /\ lock[HostOf[r]] = NoRun
    /\ lock' = [lock EXCEPT ![HostOf[r]] = r]
    /\ Goto(r, "again")
    /\ UNCHANGED <<site, answer, faults, raced>>

(* Bug: the callback does not look again.                                   *)
NoSecondLook(r) ==
    /\ run[r].pc = "again"
    /\ Goto(r, "name")
    /\ UNCHANGED <<site, lock, answer, faults, raced>>

(* makeSetupCallback: HasAdminUser again, under the mutex.                  *)
HasAdminUser(r) ==
    /\ run[r].pc = "again"
    /\ IF Installed
       THEN NotFound(r)
       ELSE Goto(r, "name") /\ UNCHANGED <<lock, answer>>
    /\ UNCHANGED <<site, faults, raced>>

(* Past the administrator; whoever else is there makes it a race.           *)
Enter(r) ==
    /\ Goto(r, "weblog")
    /\ raced' = (raced \/ \E q \in Runs \ {r} :
                    run[q].pc \in {"weblog", "template", "newtemplate", "samples",
                                   "category", "entries"})

(***************************************************************************)
(* seedAdminUser: a user of that name is good enough, whoever it is.       *)
(***************************************************************************)
SeedAdminUser(r) ==
    /\ run[r].pc = "name"
    /\ IF admin[run[r].name] # NoRun
       THEN Enter(r)
       ELSE Goto(r, "admin") /\ UNCHANGED raced
    /\ UNCHANGED <<site, lock, answer, faults>>

(* Bug: INSERT ... VALUES, without the WHERE NOT EXISTS.                    *)
InsertAlways(r) ==
    /\ run[r].pc = "admin"
    /\ admin[run[r].name] = NoRun
    /\ admin' = [admin EXCEPT ![run[r].name] = r]
    /\ Enter(r)
    /\ UNCHANGED <<weblog, templates, categories, entries, lock, answer, faults>>

(***************************************************************************)
(* INSERT ... WHERE NOT EXISTS: the first of all processes inserts, the    *)
(* others find an administrator.                                           *)
(***************************************************************************)
InsertAdmin(r) ==
    /\ run[r].pc = "admin"
    /\ IF Installed
       THEN /\ NotFound(r)
            /\ UNCHANGED <<admin, raced>>
       ELSE /\ admin' = [admin EXCEPT ![run[r].name] = r]
            /\ Enter(r)
            /\ UNCHANGED <<lock, answer>>
    /\ UNCHANGED <<weblog, templates, categories, entries, faults>>

(* seedWeblog: ON CONFLICT DO NOTHING.                                      *)
SeedWeblog(r) ==
    /\ run[r].pc = "weblog"
    /\ weblog' = IF weblog = NoRun THEN r ELSE weblog
    /\ Goto(r, "template")
    /\ UNCHANGED <<admin, templates, categories, entries, lock, answer, faults, raced>>

AfterTemplate(r) ==
    IF run[r].samples THEN Goto(r, "samples") /\ UNCHANGED <<lock, answer>>
                      ELSE Done(r)

SeedDefaultTemplate(r) ==
    /\ run[r].pc = "template"
    /\ IF templates > 0
       THEN AfterTemplate(r)
       ELSE Goto(r, "newtemplate") /\ UNCHANGED <<lock, answer>>
    /\ UNCHANGED <<site, faults, raced>>

InsertTemplate(r) ==
    /\ run[r].pc = "newtemplate"
    /\ templates' = templates + 1
    /\ AfterTemplate(r)
    /\ UNCHANGED <<admin, weblog, categories, entries, faults, raced>>

(* seedSampleContent: only when there is neither a category nor an entry.   *)
SeedSampleContent(r) ==
    /\ run[r].pc = "samples"
    /\ IF categories > 0 \/ entries # {}
       THEN Done(r)
       ELSE Goto(r, "category") /\ UNCHANGED <<lock, answer>>
    /\ UNCHANGED <<site, faults, raced>>

InsertCategory(r) ==
    /\ run[r].pc = "category"
    /\ categories' = categories + 1
    /\ Goto(r, "entries")
    /\ UNCHANGED <<admin, weblog, templates, entries, lock, answer, faults, raced>>

InsertEntries(r) ==
    /\ run[r].pc = "entries"
    /\ entries' = entries \cup {r}
    /\ Done(r)
    /\ UNCHANGED <<admin, weblog, templates, categories, faults, raced>>

(* A statement fails, or the process dies between two of them.              *)
Fail(r) ==
    /\ run[r] # Idle
    /\ faults < MaxFaults
    /\ faults' = faults + 1
    /\ Answer(r, "error")
    /\ UNCHANGED <<site, raced>>

(* The form is sent, or the command run, once more.                         *)
Retry(r) ==
    /\ run[r] = Idle
    /\ answer[r] \in {"error", "skipped"}
    /\ answer' = [answer EXCEPT ![r] = "none"]
    /\ UNCHANGED <<site, lock, run, faults, raced>>

Claim(r) == Submit(r) \/ Lock(r) \/ HasAdminUser(r) \/ SeedAdminUser(r) \/ InsertAdmin(r)

Furnish(r) == \/ SeedWeblog(r) \/ SeedDefaultTemplate(r) \/ InsertTemplate(r)
              \/ SeedSampleContent(r) \/ InsertCategory(r) \/ InsertEntries(r)

Next == \E r \in Runs : Claim(r) \/ Furnish(r) \/ Fail(r) \/ Retry(r)

Spec == Init /\ [][Next]_vars

-----------------------------------------------------------------------------
(***************************************************************************)
(* Every variable stays in its domain, and setupMu is held by a request    *)
(* of its own process that is inside the callback.                         *)
(***************************************************************************)
TypeOk ==
    /\ admin \in [Names -> Runs \cup {NoRun}]
    /\ weblog \in Runs \cup {NoRun}
    /\ templates \in Nat
    /\ categories \in Nat
    /\ entries \subseteq Runs
    /\ lock \in [Hosts -> Runs \cup {NoRun}]
    /\ \A h \in Hosts : lock[h] # NoRun => run[lock[h]] # Idle /\ HostOf[lock[h]] = h
    /\ run \in [Runs -> Asked \cup {Idle}]
    /\ answer \in [Runs -> {"none", "notfound", "login", "ok", "skipped", "error"}]
    /\ faults \in 0 .. MaxFaults
    /\ raced \in BOOLEAN

(***************************************************************************)
(* Seed: of all runs, in whichever process, one inserts an administrator.  *)
(***************************************************************************)
OneFounder ==
    \A m, n \in Names : admin[m] # NoRun /\ admin[n] # NoRun => m = n

(***************************************************************************)
(* setupSubmit redirects to the login, and the command says ok, only when  *)
(* the site can be rendered, whatever failed in this or an earlier run.    *)
(***************************************************************************)
OkMeansRenderable ==
    (\E r \in Runs : answer[r] \in {"login", "ok"}) => weblog # NoRun /\ templates > 0

(***************************************************************************)
(* makeSetupCallback: whoever is sent to the login can sign in with the    *)
(* password typed into the form, as far as the mutex of one process        *)
(* reaches: somebody sent there in vain was beaten by a command or by      *)
(* another process.                                                        *)
(***************************************************************************)
LoginSignsInWithin ==
    \A r \in Requests : answer[r] = "login" =>
        \E n \in Names : \/ admin[n] \in {r} \cup Commands
                         \/ admin[n] \in Requests /\ HostOf[admin[n]] # HostOf[r]

(***************************************************************************)
(* seedDefaultTemplate, seedSampleContent: as long as no two runs furnish  *)
(* the site at once, one template is active ("only one per wid expected")  *)
(* and the samples are inserted once, also when a run failed half-way and  *)
(* was repeated.                                                           *)
(***************************************************************************)
FurnishedOnce ==
    ~raced => templates <= 1 /\ categories <= 1 /\ \A q, r \in entries : q = r

(***************************************************************************)
(* What a setup answers is true: a site that renders and a login that      *)
(* accepts the password, however many forms and commands raced.            *)
(***************************************************************************)
AnswersHold == OkMeansRenderable /\ LoginSignsInWithin

(***************************************************************************)
(* Seed, seedDefaultTemplate, seedSampleContent: one founder, and one set  *)
(* of furniture unless two runs furnish at once.                           *)
(***************************************************************************)
InstalledOnce == OneFounder /\ FurnishedOnce
=============================================================================
