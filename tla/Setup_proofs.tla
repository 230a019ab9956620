---------------------------- MODULE Setup_proofs ----------------------------
(***************************************************************************)
(* Theorems about Install for any number of requests, commands, processes, *)
(* names and faults; about McpAccess for any number of agents, tokens,     *)
(* users and writes; and about OAuthProxy in front of it for any number of *)
(* apps, requests, codes, access tokens and starts.                        *)
(***************************************************************************)
EXTENDS MCSetup, FiniteSetTheorems, TLAPS

Past == {"weblog", "template", "newtemplate", "samples", "category", "entries"}

(* A request works on behalf of its process alone.                          *)
LockInv ==
    /\ \A r \in Runs : run[r].pc \in {"lock", "again"} => r \in Requests
    /\ \A r \in Requests : run[r].pc \in Steps \ {"lock"} => lock[HostOf[r]] = r

(* No other request of the process of r has inserted an administrator.      *)
Unbeaten(r) ==
    \A n \in Names : \/ admin[n] \in {r, NoRun} \cup Commands
                     \/ admin[n] \in Requests /\ HostOf[admin[n]] # HostOf[r]

ClaimInv ==
    /\ OneFounder
    /\ \A r \in Runs : run[r].pc \in Past => Installed
    /\ \A r \in Requests : run[r].pc \in {"name", "admin"} \cup Past => Unbeaten(r)
    /\ \A r \in Requests : answer[r] = "login" => Installed /\ Unbeaten(r)

(* What a run has passed is there.                                          *)
RenderInv ==
    /\ \A r \in Runs :
        /\ run[r].pc \in Past \ {"weblog"} => weblog # NoRun
        /\ run[r].pc \in {"samples", "category", "entries"} => templates > 0
    /\ OkMeansRenderable

(* What a run is about to insert is not there, if it is alone.              *)
AloneInv ==
    ~raced =>
        /\ \A q, r \in Runs : run[q].pc \in Past /\ run[r].pc \in Past => q = r
        /\ templates <= 1 /\ categories <= 1 /\ \A q, r \in entries : q = r
        /\ \A r \in Runs :
            /\ run[r].pc = "newtemplate" => templates = 0
            /\ run[r].pc = "category" => categories = 0 /\ entries = {}
            /\ run[r].pc = "entries" => entries = {}

-----------------------------------------------------------------------------
LEMMA IdleFacts ==
    /\ Idle.pc = "idle" /\ Idle.pc \notin Steps /\ Idle.pc \notin Past
    /\ Past \subseteq Steps
    /\ NoRun \notin Runs
BY NoRunAssumption DEF Idle, Steps, Past

LEMMA RunFacts ==
    ASSUME TypeOk, NEW r \in Runs
    PROVE  /\ run[r] \in Asked \/ run[r] = Idle
           /\ run[r].pc \in Steps => run[r] \in Asked /\ run[r].name \in Names
                                    /\ run[r].samples \in BOOLEAN
           /\ run[r].pc \notin Steps => run[r].pc = "idle"
           /\ run[r] # Idle => run[r].pc \in Steps
<1>1. run[r] \in Asked \/ run[r] = Idle
    BY DEF TypeOk
<1>2. run[r] \in Asked => /\ run[r].pc \in Steps /\ run[r].name \in Names
                          /\ run[r].samples \in BOOLEAN
    BY DEF Asked
<1>3. QED BY <1>1, <1>2, IdleFacts

(* What Goto and Answer leave.                                              *)
LEMMA GotoFacts ==
    ASSUME TypeOk, NEW r \in Runs, run[r].pc \in Steps, NEW pc \in Steps, Goto(r, pc)
    PROVE  /\ run'[r].pc = pc
           /\ run'[r].name = run[r].name /\ run'[r].samples = run[r].samples
           /\ \A q \in Runs \ {r} : run'[q] = run[q]
           /\ run' \in [Runs -> Asked \cup {Idle}]
<1>1. run[r] \in Asked
    BY RunFacts
<1>2. [run[r] EXCEPT !.pc = pc] \in Asked
    BY <1>1 DEF Asked
<1>3. run' = [run EXCEPT ![r] = [run[r] EXCEPT !.pc = pc]]
    BY DEF Goto
<1>4. QED BY <1>1, <1>2, <1>3 DEF TypeOk, Asked

Answers == {"none", "notfound", "login", "ok", "skipped", "error"}

LEMMA AnswerFacts ==
    ASSUME TypeOk, NEW r \in Runs, NEW what \in Answers, Answer(r, what)
    PROVE  /\ run'[r] = Idle
           /\ \A q \in Runs \ {r} : run'[q] = run[q] /\ answer'[q] = answer[q]
           /\ answer'[r] = what
           /\ \A h \in Hosts : lock'[h] = IF lock[h] = r THEN NoRun ELSE lock[h]
           /\ run' \in [Runs -> Asked \cup {Idle}]
           /\ answer' \in [Runs -> Answers]
           /\ lock' \in [Hosts -> Runs \cup {NoRun}]
           /\ \A h \in Hosts : lock'[h] # NoRun => run'[lock'[h]] # Idle /\ HostOf[lock'[h]] = h
BY DEF TypeOk, Answer, Answers

-----------------------------------------------------------------------------
LEMMA TypeInit == Init => TypeOk /\ LockInv
<1> SUFFICES ASSUME Init PROVE TypeOk /\ LockInv
    OBVIOUS
<1>1. \A r \in Runs : run[r] = Idle
    BY DEF Init
<1>2. LockInv
    BY <1>1, IdleFacts DEF LockInv, Runs, Steps
<1>3. run \in [Runs -> Asked \cup {Idle}] /\ lock \in [Hosts -> Runs \cup {NoRun}]
      /\ admin \in [Names -> Runs \cup {NoRun}]
    BY DEF Init
<1>4. faults \in 0 .. MaxFaults
    BY MaxFaultsAssumption DEF Init
<1>5. \A h \in Hosts : lock[h] = NoRun
    BY DEF Init
<1>6. QED BY <1>2, <1>3, <1>4, <1>5 DEF Init, TypeOk

LEMMA TypeStep == TypeOk /\ LockInv /\ [Next]_vars => TypeOk' /\ LockInv'
<1> SUFFICES ASSUME TypeOk, LockInv, [Next]_vars PROVE TypeOk' /\ LockInv'
    OBVIOUS
<1> USE IdleFacts DEF Runs
<1>h. HostOf \in [Requests -> Hosts]
    BY HostOfAssumption
(* The two ways a step moves a run: on, with the lock it has, or out.       *)
<1>g. ASSUME NEW r \in Runs, NEW pc \in Steps, run[r].pc \in Steps \ {"lock"},
             Goto(r, pc), pc \notin {"lock", "again"}, UNCHANGED <<lock, answer>>,
             UNCHANGED admin \/ admin' \in [Names -> Runs \cup {NoRun}],
             weblog' \in Runs \cup {NoRun}, templates' \in Nat, categories' \in Nat,
             entries' \subseteq Runs, faults' \in 0 .. MaxFaults, raced' \in BOOLEAN
      PROVE  TypeOk' /\ LockInv'
    <2>1. /\ run'[r].pc = pc
          /\ \A q \in Runs \ {r} : run'[q] = run[q]
          /\ run' \in [Runs -> Asked \cup {Idle}]
        BY <1>g, GotoFacts
    <2>2. \A h \in Hosts : lock'[h] # NoRun => run'[lock'[h]] # Idle /\ HostOf[lock'[h]] = h
        BY <1>g, <2>1 DEF TypeOk
    <2>3. TypeOk'
        BY <1>g, <2>1, <2>2 DEF TypeOk
    <2>4. LockInv'
        BY <1>g, <2>1 DEF LockInv
    <2>5. QED BY <2>3, <2>4
<1>a. ASSUME NEW r \in Runs, NEW what \in Answers, Answer(r, what),
             UNCHANGED admin \/ admin' \in [Names -> Runs \cup {NoRun}],
             weblog' \in Runs \cup {NoRun}, templates' \in Nat, categories' \in Nat,
             entries' \subseteq Runs, faults' \in 0 .. MaxFaults, raced' \in BOOLEAN
      PROVE  TypeOk' /\ LockInv'
    <2>1. /\ run'[r] = Idle
          /\ \A q \in Runs \ {r} : run'[q] = run[q]
          /\ \A h \in Hosts : lock'[h] = IF lock[h] = r THEN NoRun ELSE lock[h]
        BY <1>a, AnswerFacts
    <2>2. TypeOk'
        BY <1>a, AnswerFacts DEF TypeOk, Answers
    <2>3. LockInv'
        BY <1>h, <2>1 DEF LockInv
    <2>4. QED BY <2>2, <2>3
<1>d. \A r \in Runs : /\ Done(r) => \E what \in Answers : Answer(r, what)
                      /\ NotFound(r) => \E what \in Answers : Answer(r, what)
    BY DEF Done, NotFound, Answers
<1>t. /\ admin \in [Names -> Runs \cup {NoRun}]
      /\ weblog \in Runs \cup {NoRun} /\ templates \in Nat /\ categories \in Nat
      /\ entries \subseteq Runs /\ faults \in 0 .. MaxFaults /\ raced \in BOOLEAN
    BY DEF TypeOk
<1>1. ASSUME NEW r \in Runs, Submit(r) PROVE TypeOk' /\ LockInv'
    <2>1. CASE NotFound(r)
        BY <1>1, <2>1, <1>a, <1>d, <1>t DEF Submit, site
    <2>2. CASE /\ \E n \in Names, samples \in BOOLEAN :
                     run' = [run EXCEPT ![r] =
                                [pc |-> IF r \in Requests THEN "lock" ELSE "name",
                                 name |-> n, samples |-> samples]]
               /\ UNCHANGED <<answer, lock>>
        <3>1. PICK n \in Names, samples \in BOOLEAN :
                run' = [run EXCEPT ![r] =
                           [pc |-> IF r \in Requests THEN "lock" ELSE "name",
                            name |-> n, samples |-> samples]]
            BY <2>2
        <3>2. run' \in [Runs -> Asked \cup {Idle}] /\ run'[r] # Idle
            BY <3>1 DEF TypeOk, Asked, Steps
        <3>3. run[r] = Idle /\ \A q \in Runs \ {r} : run'[q] = run[q]
            BY <1>1, <3>1 DEF Submit, TypeOk
        <3>4. TypeOk'
            BY <1>1, <2>2, <3>2, <3>3 DEF Submit, site, TypeOk
        <3>5. run'[r].pc = IF r \in Requests THEN "lock" ELSE "name"
            BY <3>1 DEF TypeOk
        <3>6. LockInv'
            BY <2>2, <3>3, <3>5, RunsAssumption DEF LockInv
        <3>7. QED BY <3>4, <3>6
    <2>3. QED BY <1>1, <2>1, <2>2 DEF Submit
<1>2. ASSUME NEW r \in Runs, Lock(r) PROVE TypeOk' /\ LockInv'
    <2>1. run[r].pc = "lock" /\ r \in Requests /\ HostOf[r] \in Hosts /\ Goto(r, "again")
        BY <1>2, <1>h DEF Lock, LockInv
    <2>2. /\ run'[r].pc = "again"
          /\ \A q \in Runs \ {r} : run'[q] = run[q]
          /\ run' \in [Runs -> Asked \cup {Idle}]
        BY <2>1, GotoFacts DEF Steps
    <2>3. /\ lock[HostOf[r]] = NoRun
          /\ lock' \in [Hosts -> Runs \cup {NoRun}]
          /\ lock'[HostOf[r]] = r /\ \A h \in Hosts \ {HostOf[r]} : lock'[h] = lock[h]
        BY <1>2, <2>1 DEF Lock, TypeOk
    <2>4. \A h \in Hosts : lock'[h] # NoRun => run'[lock'[h]] # Idle /\ HostOf[lock'[h]] = h
        <3>1. run'[r] # Idle
            BY <2>2
        <3>2. QED BY <2>2, <2>3, <3>1 DEF TypeOk
    <2>5. TypeOk'
        BY <1>2, <2>2, <2>3, <2>4 DEF Lock, site, TypeOk
    <2>6. LockInv'
        BY <1>h, <2>1, <2>2, <2>3 DEF LockInv
    <2>7. QED BY <2>5, <2>6
<1>3. ASSUME NEW r \in Runs, HasAdminUser(r) PROVE TypeOk' /\ LockInv'
    BY <1>3, <1>a, <1>d, <1>g, <1>t DEF HasAdminUser, site, Steps
<1>4. ASSUME NEW r \in Runs, SeedAdminUser(r) PROVE TypeOk' /\ LockInv'
    BY <1>4, <1>g, <1>t DEF SeedAdminUser, Enter, site, Steps
<1>5. ASSUME NEW r \in Runs, InsertAdmin(r) PROVE TypeOk' /\ LockInv'
    <2>1. CASE Installed
        BY <1>5, <2>1, <1>a, <1>d, <1>t DEF InsertAdmin
    <2>2. CASE ~Installed
        <3>1. admin' \in [Names -> Runs \cup {NoRun}]
            BY <1>5, <2>2, <1>t DEF InsertAdmin
        <3>2. QED BY <1>5, <2>2, <3>1, <1>g, <1>t DEF InsertAdmin, Enter, Steps
    <2>3. QED BY <2>1, <2>2
<1>6. ASSUME NEW r \in Runs, SeedWeblog(r) PROVE TypeOk' /\ LockInv'
    BY <1>6, <1>g, <1>t DEF SeedWeblog, Steps
<1>7. ASSUME NEW r \in Runs, SeedDefaultTemplate(r) PROVE TypeOk' /\ LockInv'
    BY <1>7, <1>a, <1>d, <1>g, <1>t DEF SeedDefaultTemplate, AfterTemplate, site, Steps
<1>8. ASSUME NEW r \in Runs, InsertTemplate(r) PROVE TypeOk' /\ LockInv'
    BY <1>8, <1>a, <1>d, <1>g, <1>t DEF InsertTemplate, AfterTemplate, Steps
<1>9. ASSUME NEW r \in Runs, SeedSampleContent(r) PROVE TypeOk' /\ LockInv'
    BY <1>9, <1>a, <1>d, <1>g, <1>t DEF SeedSampleContent, site, Steps
<1>10. ASSUME NEW r \in Runs, InsertCategory(r) PROVE TypeOk' /\ LockInv'
    BY <1>10, <1>g, <1>t DEF InsertCategory, Steps
<1>11. ASSUME NEW r \in Runs, InsertEntries(r) PROVE TypeOk' /\ LockInv'
    BY <1>11, <1>a, <1>d, <1>t DEF InsertEntries
<1>12. ASSUME NEW r \in Runs, Fail(r) PROVE TypeOk' /\ LockInv'
    <2>1. faults' \in 0 .. MaxFaults
        BY <1>12, <1>t, MaxFaultsAssumption DEF Fail
    <2>2. QED BY <1>12, <2>1, <1>a, <1>t DEF Fail, site, Answers
<1>13. ASSUME NEW r \in Runs, Retry(r) PROVE TypeOk' /\ LockInv'
    BY <1>13 DEF Retry, site, TypeOk, LockInv
<1>14. CASE UNCHANGED vars
    BY <1>14 DEF vars, TypeOk, LockInv
<1>15. QED
    BY <1>1, <1>2, <1>3, <1>4, <1>5, <1>6, <1>7, <1>8, <1>9, <1>10, <1>11, <1>12,
       <1>13, <1>14 DEF Next, Claim, Furnish

(***************************************************************************)
(* Every variable of the installation stays in its domain, and setupMu is  *)
(* held by a request of its own process that is inside the callback.       *)
(***************************************************************************)
THEOREM InstallTypeCorrect == Spec => []TypeOk
BY TypeInit, TypeStep, PTL DEF Spec

-----------------------------------------------------------------------------
LEMMA ClaimQuiet ==
    ASSUME ClaimInv, NEW r \in Runs, admin' = admin,
           \A q \in Runs \ {r} : run'[q] = run[q] /\ answer'[q] = answer[q],
           run'[r].pc \in Past => Installed,
           r \in Requests /\ run'[r].pc \in {"name", "admin"} \cup Past => Unbeaten(r),
           r \in Requests /\ answer'[r] = "login" => Installed /\ Unbeaten(r)
    PROVE  ClaimInv'
<1>1. OneFounder' /\ (Installed' <=> Installed)
    BY DEF ClaimInv, OneFounder, Installed
<1>2. \A q \in Runs : Unbeaten(q)' <=> Unbeaten(q)
    BY DEF Unbeaten
<1>3. QED BY <1>1, <1>2 DEF ClaimInv, Runs

LEMMA ClaimInit == Init => ClaimInv
<1> SUFFICES ASSUME Init PROVE ClaimInv
    OBVIOUS
<1>1. \A r \in Runs : run[r].pc = "idle" /\ answer[r] = "none"
    BY IdleFacts DEF Init
<1>2. OneFounder
    BY DEF Init, OneFounder
<1>3. QED BY <1>1, <1>2 DEF ClaimInv, Past, Runs

LEMMA ClaimStep == TypeOk /\ LockInv /\ ClaimInv /\ [Next]_vars => ClaimInv'
<1> SUFFICES ASSUME TypeOk, LockInv, ClaimInv, [Next]_vars PROVE ClaimInv'
    OBVIOUS
<1> USE IdleFacts
<1>g. ASSUME NEW r \in Runs, NEW pc \in Steps, run[r].pc \in Steps, Goto(r, pc),
             UNCHANGED <<admin, answer>>, pc \in Past => Installed,
             r \in Requests /\ pc \in {"name", "admin"} \cup Past => Unbeaten(r)
      PROVE  ClaimInv'
    <2>1. run'[r].pc = pc /\ \A q \in Runs \ {r} : run'[q] = run[q]
        BY <1>g, GotoFacts
    <2>2. QED BY <1>g, <2>1, ClaimQuiet DEF ClaimInv
<1>a. ASSUME NEW r \in Runs, NEW what \in Answers, Answer(r, what), admin' = admin,
             r \in Requests /\ what = "login" => Installed /\ Unbeaten(r)
      PROVE  ClaimInv'
    <2>1. /\ run'[r].pc = "idle" /\ answer'[r] = what
          /\ \A q \in Runs \ {r} : run'[q] = run[q] /\ answer'[q] = answer[q]
        BY <1>a, AnswerFacts
    <2>2. QED BY <1>a, <2>1, ClaimQuiet DEF Past
<1>n. ASSUME NEW r \in Runs, NotFound(r), admin' = admin PROVE ClaimInv'
    <2>1. PICK what \in {"notfound", "skipped"} : Answer(r, what)
        BY <1>n DEF NotFound
    <2>2. what \in Answers /\ what # "login"
        BY DEF Answers
    <2>3. QED BY <1>a, <1>n, <2>1, <2>2
<1>d. ASSUME NEW r \in Runs, Done(r), admin' = admin, run[r].pc \in Past PROVE ClaimInv'
    <2>1. PICK what \in {"login", "ok"} : Answer(r, what)
        BY <1>d DEF Done
    <2>2. what \in Answers
        BY DEF Answers
    <2>3. Installed /\ (r \in Requests => Unbeaten(r))
        BY <1>d DEF ClaimInv
    <2>4. QED BY <1>a, <1>d, <2>1, <2>2, <2>3
<1>1. ASSUME NEW r \in Runs, Submit(r) PROVE ClaimInv'
    <2>1. CASE NotFound(r)
        BY <1>1, <1>n, <2>1 DEF Submit, site
    <2>2. CASE /\ ~(r \in Requests /\ Installed)
               /\ \E n \in Names, samples \in BOOLEAN :
                     run' = [run EXCEPT ![r] =
                                [pc |-> IF r \in Requests THEN "lock" ELSE "name",
                                 name |-> n, samples |-> samples]]
               /\ UNCHANGED <<answer, lock>>
        <3>1. /\ run'[r].pc = IF r \in Requests THEN "lock" ELSE "name"
              /\ \A q \in Runs \ {r} : run'[q] = run[q]
            BY <2>2 DEF TypeOk
        <3>2. answer'[r] = answer[r] /\ answer[r] = "none"
            BY <1>1, <2>2 DEF Submit
        <3>3. QED BY <1>1, <2>2, <3>1, <3>2, ClaimQuiet DEF Submit, site, Past
    <2>3. QED BY <1>1, <2>1, <2>2 DEF Submit
<1>2. ASSUME NEW r \in Runs, Lock(r) PROVE ClaimInv'
    BY <1>2, <1>g DEF Lock, site, Steps, Past
<1>3. ASSUME NEW r \in Runs, HasAdminUser(r) PROVE ClaimInv'
    <2>1. CASE Installed
        BY <1>3, <2>1, <1>n DEF HasAdminUser, site
    <2>2. CASE ~Installed
        <3>1. Unbeaten(r)
            BY <2>2 DEF Unbeaten, Installed
        <3>2. QED BY <1>3, <2>2, <3>1, <1>g DEF HasAdminUser, site, Steps, Past
    <2>3. QED BY <2>1, <2>2
<1>4. ASSUME NEW r \in Runs, SeedAdminUser(r) PROVE ClaimInv'
    <2>1. /\ run[r].pc = "name" /\ run[r].name \in Names
          /\ r \in Requests => Unbeaten(r)
        BY <1>4, RunFacts DEF SeedAdminUser, ClaimInv, Steps
    <2>2. CASE admin[run[r].name] # NoRun
        <3>1. Installed
            BY <2>1, <2>2 DEF Installed
        <3>2. QED BY <1>4, <1>g, <2>1, <2>2, <3>1 DEF SeedAdminUser, Enter, site, Steps
    <2>3. CASE admin[run[r].name] = NoRun
        BY <1>4, <1>g, <2>1, <2>3 DEF SeedAdminUser, site, Steps, Past
    <2>4. QED BY <2>2, <2>3
<1>5. ASSUME NEW r \in Runs, InsertAdmin(r) PROVE ClaimInv'
    <2>1. CASE Installed
        BY <1>5, <2>1, <1>n DEF InsertAdmin
    <2>2. CASE ~Installed
        <3> DEFINE n == run[r].name
        <3>1. /\ run[r].pc = "admin" /\ n \in Names /\ answer' = answer
              /\ admin' = [admin EXCEPT ![n] = r]
            BY <1>5, <2>2, RunFacts DEF InsertAdmin, Steps
        <3>2. \A m \in Names : admin[m] = NoRun
            BY <2>2 DEF Installed
        <3>3. /\ admin'[n] = r /\ \A m \in Names \ {n} : admin'[m] = NoRun
            BY <3>1, <3>2 DEF TypeOk
        <3>4. OneFounder' /\ Installed'
            BY <3>1, <3>3 DEF OneFounder, Installed
        <3>5. run'[r].pc = "weblog" /\ \A q \in Runs \ {r} : run'[q] = run[q]
            BY <1>5, <2>2, GotoFacts DEF InsertAdmin, Enter, Steps
        <3>6. ASSUME NEW q \in Requests, run[q].pc \in {"name", "admin"}
              PROVE  Unbeaten(q)'
            <4>1. CASE q = r
                BY <3>3, <4>1 DEF Unbeaten
            <4>2. CASE q # r /\ r \in Requests
                <5>1. lock[HostOf[q]] = q /\ lock[HostOf[r]] = r
                    BY <3>1, <3>6, <4>2 DEF LockInv, Steps
                <5>2. HostOf[r] # HostOf[q]
                    BY <4>2, <5>1
                <5>3. QED BY <3>3, <4>2, <5>2 DEF Unbeaten
            <4>3. CASE r \in Commands
                BY <3>3, <4>3 DEF Unbeaten
            <4>4. QED BY <4>1, <4>2, <4>3 DEF Runs
        <3>7. r \in Requests => Unbeaten(r)'
            BY <3>1, <3>6
        <3>8. \A q \in Runs : run[q].pc \notin Past
            BY <2>2 DEF ClaimInv
        <3>9. \A q \in Requests : answer[q] # "login"
            BY <2>2 DEF ClaimInv
        <3>10. \A q \in Requests :
                   run'[q].pc \in {"name", "admin"} \cup Past => Unbeaten(q)'
            BY <3>5, <3>6, <3>7, <3>8 DEF Runs
        <3>11. QED BY <3>1, <3>4, <3>9, <3>10 DEF ClaimInv
    <2>3. QED BY <2>1, <2>2
<1>p. ASSUME NEW r \in Runs, run[r].pc \in Past
      PROVE  Installed /\ (r \in Requests => Unbeaten(r))
    BY <1>p DEF ClaimInv
<1>f. ASSUME NEW r \in Runs, AfterTemplate(r), run[r].pc \in Past, admin' = admin
      PROVE  ClaimInv'
    BY <1>f, <1>d, <1>g, <1>p DEF AfterTemplate, Past, Steps
<1>6. ASSUME NEW r \in Runs, SeedWeblog(r) PROVE ClaimInv'
    BY <1>6, <1>g, <1>p DEF SeedWeblog, Steps, Past
<1>7. ASSUME NEW r \in Runs, SeedDefaultTemplate(r) PROVE ClaimInv'
    BY <1>7, <1>f, <1>g, <1>p DEF SeedDefaultTemplate, site, Steps, Past
<1>8. ASSUME NEW r \in Runs, InsertTemplate(r) PROVE ClaimInv'
    BY <1>8, <1>f DEF InsertTemplate, Past
<1>9. ASSUME NEW r \in Runs, SeedSampleContent(r) PROVE ClaimInv'
    BY <1>9, <1>d, <1>g, <1>p DEF SeedSampleContent, site, Steps, Past
<1>10. ASSUME NEW r \in Runs, InsertCategory(r) PROVE ClaimInv'
    BY <1>10, <1>g, <1>p DEF InsertCategory, Steps, Past
<1>11. ASSUME NEW r \in Runs, InsertEntries(r) PROVE ClaimInv'
    BY <1>11, <1>d DEF InsertEntries, Past
<1>12. ASSUME NEW r \in Runs, Fail(r) PROVE ClaimInv'
    BY <1>12, <1>a DEF Fail, site, Answers
<1>13. ASSUME NEW r \in Runs, Retry(r) PROVE ClaimInv'
    <2>1. answer'[r] = "none" /\ \A q \in Runs \ {r} : answer'[q] = answer[q]
        BY <1>13 DEF Retry, TypeOk
    <2>2. UNCHANGED <<admin, run>>
        BY <1>13 DEF Retry, site
    <2>3. QED BY <2>1, <2>2, ClaimQuiet DEF ClaimInv
<1>14. CASE UNCHANGED vars
    BY <1>14 DEF vars, ClaimInv, OneFounder, Installed, Unbeaten
<1>15. QED
    BY <1>1, <1>2, <1>3, <1>4, <1>5, <1>6, <1>7, <1>8, <1>9, <1>10, <1>11, <1>12,
       <1>13, <1>14 DEF Next, Claim, Furnish

LEMMA ClaimCorrect == Spec => [](TypeOk /\ LockInv /\ ClaimInv)
BY TypeInit, TypeStep, ClaimInit, ClaimStep, PTL DEF Spec

(***************************************************************************)
(* seedAdminUser: of any number of runs in any number of processes, one    *)
(* inserts an administrator.                                               *)
(***************************************************************************)
THEOREM OneRunFounds == Spec => []OneFounder
<1>1. ClaimInv => OneFounder
    BY DEF ClaimInv
<1>2. QED BY <1>1, ClaimCorrect, PTL

(***************************************************************************)
(* makeSetupCallback: within one process, a request that is sent to the    *)
(* login can sign in, or was beaten from outside.                          *)
(***************************************************************************)
THEOREM LoginWorksWithinAProcess == Spec => []LoginSignsInWithin
<1>1. TypeOk /\ ClaimInv => LoginSignsInWithin
    <2> SUFFICES ASSUME TypeOk, ClaimInv, NEW r \in Requests, answer[r] = "login"
                 PROVE  \E n \in Names : \/ admin[n] \in {r} \cup Commands
                                         \/ admin[n] \in Requests /\ HostOf[admin[n]] # HostOf[r]
        BY DEF LoginSignsInWithin
    <2>1. Installed /\ Unbeaten(r)
        BY DEF ClaimInv
    <2>2. QED BY <2>1 DEF Installed, Unbeaten
<1>2. QED BY <1>1, ClaimCorrect, PTL

-----------------------------------------------------------------------------
(* A run that moves on or out, on a site that loses nothing.                *)
LEMMA RenderKept ==
    ASSUME TypeOk, RenderInv, NEW r \in Runs,
           \A q \in Runs \ {r} : run'[q] = run[q] /\ answer'[q] = answer[q],
           weblog # NoRun => weblog' # NoRun,
           templates > 0 => templates' > 0,
           run'[r].pc \in Past \ {"weblog"} => weblog' # NoRun,
           run'[r].pc \in {"samples", "category", "entries"} => templates' > 0,
           answer'[r] \in {"login", "ok"} => weblog' # NoRun /\ templates' > 0
    PROVE  RenderInv'
BY DEF RenderInv, OkMeansRenderable

LEMMA RenderStep == TypeOk /\ LockInv /\ RenderInv /\ [Next]_vars => RenderInv'
<1> SUFFICES ASSUME TypeOk, LockInv, RenderInv, [Next]_vars PROVE RenderInv'
    OBVIOUS
<1> USE IdleFacts
<1>0. \A r \in Runs : /\ run[r].pc \in Past \ {"weblog"} => weblog # NoRun
                      /\ run[r].pc \in {"samples", "category", "entries"} => templates > 0
                      /\ answer[r] \in {"login", "ok"} => weblog # NoRun /\ templates > 0
    BY DEF RenderInv, OkMeansRenderable
<1>g. ASSUME NEW r \in Runs, NEW pc \in Steps, run[r].pc \in Steps, Goto(r, pc),
             answer' = answer,
             weblog # NoRun => weblog' # NoRun, templates > 0 => templates' > 0,
             pc \in Past \ {"weblog"} => weblog' # NoRun,
             pc \in {"samples", "category", "entries"} => templates' > 0
      PROVE  RenderInv'
    <2>1. run'[r].pc = pc /\ \A q \in Runs \ {r} : run'[q] = run[q]
        BY <1>g, GotoFacts
    <2>2. QED BY <1>0, <1>g, <2>1, RenderKept
<1>a. ASSUME NEW r \in Runs, NEW what \in Answers, Answer(r, what),
             weblog # NoRun => weblog' # NoRun, templates > 0 => templates' > 0,
             what \in {"login", "ok"} => weblog' # NoRun /\ templates' > 0
      PROVE  RenderInv'
    <2>1. /\ run'[r].pc = "idle" /\ answer'[r] = what
          /\ \A q \in Runs \ {r} : run'[q] = run[q] /\ answer'[q] = answer[q]
        BY <1>a, AnswerFacts
    <2>2. QED BY <1>a, <2>1, RenderKept DEF Past
<1>n. ASSUME NEW r \in Runs, NotFound(r), UNCHANGED <<weblog, templates>> PROVE RenderInv'
    <2>1. PICK what \in {"notfound", "skipped"} : Answer(r, what)
        BY <1>n DEF NotFound
    <2>2. QED BY <1>a, <1>n, <2>1 DEF Answers
<1>d. ASSUME NEW r \in Runs, Done(r), weblog' # NoRun, templates' > 0 PROVE RenderInv'
    <2>1. PICK what \in {"login", "ok"} : Answer(r, what)
        BY <1>d DEF Done
    <2>2. QED BY <1>a, <1>d, <2>1 DEF Answers
<1>1. ASSUME NEW r \in Runs, Submit(r) PROVE RenderInv'
    <2>1. CASE NotFound(r)
        BY <1>1, <1>n, <2>1 DEF Submit, site
    <2>2. CASE /\ \E n \in Names, samples \in BOOLEAN :
                     run' = [run EXCEPT ![r] =
                                [pc |-> IF r \in Requests THEN "lock" ELSE "name",
                                 name |-> n, samples |-> samples]]
               /\ UNCHANGED <<answer, lock>>
        <3>1. /\ run'[r].pc = IF r \in Requests THEN "lock" ELSE "name"
              /\ \A q \in Runs \ {r} : run'[q] = run[q]
            BY <2>2 DEF TypeOk
        <3>2. QED BY <1>0, <1>1, <2>2, <3>1, RenderKept DEF Submit, site, Past
    <2>3. QED BY <1>1, <2>1, <2>2 DEF Submit
<1>2. ASSUME NEW r \in Runs, Lock(r) PROVE RenderInv'
    BY <1>2, <1>g DEF Lock, site, Steps, Past
<1>3. ASSUME NEW r \in Runs, HasAdminUser(r) PROVE RenderInv'
    BY <1>3, <1>g, <1>n DEF HasAdminUser, site, Steps, Past
<1>4. ASSUME NEW r \in Runs, SeedAdminUser(r) PROVE RenderInv'
    BY <1>4, <1>g DEF SeedAdminUser, Enter, site, Steps, Past
<1>5. ASSUME NEW r \in Runs, InsertAdmin(r) PROVE RenderInv'
    BY <1>5, <1>g, <1>n DEF InsertAdmin, Enter, Steps, Past
<1>6. ASSUME NEW r \in Runs, SeedWeblog(r) PROVE RenderInv'
    BY <1>6, <1>g DEF SeedWeblog, Steps, Past
<1>f. ASSUME NEW r \in Runs, AfterTemplate(r), run[r].pc \in Steps,
             weblog' # NoRun, templates' > 0
      PROVE  RenderInv'
    BY <1>d, <1>f, <1>g DEF AfterTemplate, Steps
<1>7. ASSUME NEW r \in Runs, SeedDefaultTemplate(r) PROVE RenderInv'
    <2>1. run[r].pc = "template" /\ weblog # NoRun /\ UNCHANGED <<weblog, templates>>
        BY <1>0, <1>7 DEF SeedDefaultTemplate, site, Past
    <2>2. QED BY <1>7, <1>f, <1>g, <2>1 DEF SeedDefaultTemplate, Steps
<1>8. ASSUME NEW r \in Runs, InsertTemplate(r) PROVE RenderInv'
    <2>1. /\ run[r].pc = "newtemplate" /\ weblog # NoRun /\ weblog' = weblog
          /\ templates' > 0
        BY <1>0, <1>8 DEF InsertTemplate, TypeOk, Past
    <2>2. QED BY <1>8, <1>f, <2>1 DEF InsertTemplate, Steps
<1>9. ASSUME NEW r \in Runs, SeedSampleContent(r) PROVE RenderInv'
    <2>1. /\ run[r].pc = "samples" /\ weblog # NoRun /\ templates > 0
          /\ UNCHANGED <<weblog, templates>>
        BY <1>0, <1>9 DEF SeedSampleContent, site, Past
    <2>2. QED BY <1>9, <1>d, <1>g, <2>1 DEF SeedSampleContent, Steps
<1>10. ASSUME NEW r \in Runs, InsertCategory(r) PROVE RenderInv'
    <2>1. /\ run[r].pc = "category" /\ weblog # NoRun /\ templates > 0
          /\ UNCHANGED <<weblog, templates>>
        BY <1>0, <1>10 DEF InsertCategory, Past
    <2>2. QED BY <1>10, <1>g, <2>1 DEF InsertCategory, Steps
<1>11. ASSUME NEW r \in Runs, InsertEntries(r) PROVE RenderInv'
    <2>1. /\ run[r].pc = "entries" /\ weblog # NoRun /\ templates > 0
          /\ UNCHANGED <<weblog, templates>>
        BY <1>0, <1>11 DEF InsertEntries, Past
    <2>2. QED BY <1>11, <1>d, <2>1 DEF InsertEntries
<1>12. ASSUME NEW r \in Runs, Fail(r) PROVE RenderInv'
    BY <1>12, <1>a DEF Fail, site, Answers
<1>13. ASSUME NEW r \in Runs, Retry(r) PROVE RenderInv'
    <2>1. answer'[r] = "none" /\ \A q \in Runs \ {r} : answer'[q] = answer[q]
        BY <1>13 DEF Retry, TypeOk
    <2>2. UNCHANGED <<weblog, templates, run>>
        BY <1>13 DEF Retry, site
    <2>3. QED BY <1>0, <2>1, <2>2, RenderKept
<1>14. CASE UNCHANGED vars
    BY <1>14 DEF vars, RenderInv, OkMeansRenderable
<1>15. QED
    BY <1>1, <1>2, <1>3, <1>4, <1>5, <1>6, <1>7, <1>8, <1>9, <1>10, <1>11, <1>12,
       <1>13, <1>14 DEF Next, Claim, Furnish

(***************************************************************************)
(* setupSubmit, runSeed: success is reported only of a site that has its   *)
(* weblog and an active template, whatever failed before.                  *)
(***************************************************************************)
THEOREM SuccessMeansRenderable == Spec => []OkMeansRenderable
<1>1. Init => RenderInv
    BY IdleFacts DEF Init, RenderInv, OkMeansRenderable, Past
<1>2. RenderInv => OkMeansRenderable
    BY DEF RenderInv
<1>3. QED BY <1>1, <1>2, RenderStep, TypeInit, TypeStep, PTL DEF Spec

-----------------------------------------------------------------------------
LEMMA AloneKept ==
    ASSUME AloneInv, NEW r \in Runs, raced' = raced,
           \A q \in Runs \ {r} : run'[q] = run[q],
           UNCHANGED <<templates, categories, entries>>,
           run'[r].pc \in Past => run[r].pc \in Past,
           run'[r].pc = "newtemplate" => templates = 0,
           run'[r].pc = "category" => categories = 0 /\ entries = {},
           run'[r].pc = "entries" => entries = {}
    PROVE  AloneInv'
<1> SUFFICES ASSUME ~raced PROVE AloneInv'
    BY DEF AloneInv
<1>1. \A q \in Runs : run'[q].pc \in Past => run[q].pc \in Past
    OBVIOUS
<1>2. QED BY <1>1 DEF AloneInv

LEMMA AloneStep == TypeOk /\ LockInv /\ AloneInv /\ [Next]_vars => AloneInv'
<1> SUFFICES ASSUME TypeOk, LockInv, AloneInv, [Next]_vars PROVE AloneInv'
    OBVIOUS
<1> USE IdleFacts
<1>e. ASSUME NEW r \in Runs, Enter(r), run[r].pc \in Steps,
             UNCHANGED <<templates, categories, entries>>
      PROVE  AloneInv'
    <2>1. run'[r].pc = "weblog" /\ \A q \in Runs \ {r} : run'[q] = run[q]
        BY <1>e, GotoFacts DEF Enter, Steps
    <2>2. ~raced' => ~raced /\ \A q \in Runs \ {r} : run[q].pc \notin Past
        BY <1>e DEF Enter, Past
    <2>3. QED BY <1>e, <2>1, <2>2 DEF AloneInv
<1>o. ASSUME NEW r \in Runs, run'[r] = Idle, \A q \in Runs \ {r} : run'[q] = run[q],
             raced' = raced, UNCHANGED <<templates, categories, entries>>
      PROVE  AloneInv'
    BY <1>o, AloneKept
<1>i. \A r \in Runs : /\ Done(r) => run'[r] = Idle /\ \A q \in Runs \ {r} : run'[q] = run[q]
                      /\ NotFound(r) => run'[r] = Idle /\ \A q \in Runs \ {r} : run'[q] = run[q]
    BY DEF Done, NotFound, Answer, TypeOk
<1>1. ASSUME NEW r \in Runs, Submit(r) PROVE AloneInv'
    <2>1. CASE NotFound(r)
        BY <1>1, <1>i, <1>o, <2>1 DEF Submit, site
    <2>2. CASE \E n \in Names, samples \in BOOLEAN :
                     run' = [run EXCEPT ![r] =
                                [pc |-> IF r \in Requests THEN "lock" ELSE "name",
                                 name |-> n, samples |-> samples]]
        <3>1. /\ run'[r].pc = IF r \in Requests THEN "lock" ELSE "name"
              /\ \A q \in Runs \ {r} : run'[q] = run[q]
            BY <2>2 DEF TypeOk
        <3>2. QED BY <1>1, <3>1, AloneKept DEF Submit, site, Past
    <2>3. QED BY <1>1, <2>1, <2>2 DEF Submit
<1>g. ASSUME NEW r \in Runs, NEW pc \in Steps, run[r].pc \in Steps, Goto(r, pc)
      PROVE  run'[r].pc = pc /\ \A q \in Runs \ {r} : run'[q] = run[q]
    BY <1>g, GotoFacts
<1>2. ASSUME NEW r \in Runs, Lock(r) PROVE AloneInv'
    BY <1>2, <1>g, AloneKept DEF Lock, site, Steps, Past
<1>3. ASSUME NEW r \in Runs, HasAdminUser(r) PROVE AloneInv'
    BY <1>3, <1>g, <1>i, <1>o, AloneKept DEF HasAdminUser, site, Steps, Past
<1>4. ASSUME NEW r \in Runs, SeedAdminUser(r) PROVE AloneInv'
    <2>1. CASE Enter(r)
        BY <1>4, <1>e, <2>1 DEF SeedAdminUser, site, Steps
    <2>2. CASE Goto(r, "admin") /\ UNCHANGED raced
        BY <1>4, <1>g, <2>2, AloneKept DEF SeedAdminUser, site, Steps, Past
    <2>3. QED BY <1>4, <2>1, <2>2 DEF SeedAdminUser
<1>5. ASSUME NEW r \in Runs, InsertAdmin(r) PROVE AloneInv'
    BY <1>5, <1>e, <1>i, <1>o DEF InsertAdmin, Steps
<1>6. ASSUME NEW r \in Runs, SeedWeblog(r) PROVE AloneInv'
    BY <1>6, <1>g, AloneKept DEF SeedWeblog, Steps, Past
<1>7. ASSUME NEW r \in Runs, SeedDefaultTemplate(r) PROVE AloneInv'
    <2>1. CASE Done(r)
        BY <1>7, <1>i, <1>o, <2>1 DEF SeedDefaultTemplate, site
    <2>2. CASE Goto(r, "samples")
        BY <1>7, <1>g, <2>2, AloneKept DEF SeedDefaultTemplate, site, Steps, Past
    <2>3. CASE ~(templates > 0) /\ Goto(r, "newtemplate")
        BY <1>7, <1>g, <2>3, AloneKept DEF SeedDefaultTemplate, site, Steps, Past, TypeOk
    <2>4. QED BY <1>7, <2>1, <2>2, <2>3 DEF SeedDefaultTemplate, AfterTemplate
<1>8. ASSUME NEW r \in Runs, InsertTemplate(r) PROVE AloneInv'
    <2>1. /\ run[r].pc = "newtemplate" /\ templates' = templates + 1
          /\ UNCHANGED <<categories, entries, raced>>
        BY <1>8 DEF InsertTemplate
    <2>2. run'[r].pc \in {"idle", "samples"} /\ \A q \in Runs \ {r} : run'[q] = run[q]
        <3>1. CASE Done(r)
            BY <1>i, <3>1
        <3>2. CASE Goto(r, "samples")
            BY <1>g, <2>1, <3>2 DEF Steps
        <3>3. QED BY <1>8, <3>1, <3>2 DEF InsertTemplate, AfterTemplate
    <2>3. ASSUME ~raced
          PROVE  templates = 0 /\ \A q \in Runs \ {r} : run[q].pc \notin Past
        BY <2>1, <2>3 DEF AloneInv, Past
    <2>4. QED BY <2>1, <2>2, <2>3 DEF AloneInv, Past
<1>9. ASSUME NEW r \in Runs, SeedSampleContent(r) PROVE AloneInv'
    <2>1. CASE Done(r)
        BY <1>9, <1>i, <1>o, <2>1 DEF SeedSampleContent, site
    <2>2. CASE ~(categories > 0 \/ entries # {}) /\ Goto(r, "category")
        BY <1>9, <1>g, <2>2, AloneKept DEF SeedSampleContent, site, Steps, Past, TypeOk
    <2>3. QED BY <1>9, <2>1, <2>2 DEF SeedSampleContent
<1>10. ASSUME NEW r \in Runs, InsertCategory(r) PROVE AloneInv'
    <2>1. /\ run[r].pc = "category" /\ categories' = categories + 1
          /\ UNCHANGED <<templates, entries, raced>>
          /\ run'[r].pc = "entries" /\ \A q \in Runs \ {r} : run'[q] = run[q]
        BY <1>10, <1>g DEF InsertCategory, Steps
    <2>2. ASSUME ~raced
          PROVE  categories = 0 /\ entries = {} /\ \A q \in Runs \ {r} : run[q].pc \notin Past
        BY <2>1, <2>2 DEF AloneInv, Past
    <2>3. QED BY <2>1, <2>2 DEF AloneInv, Past
<1>11. ASSUME NEW r \in Runs, InsertEntries(r) PROVE AloneInv'
    <2>1. /\ run[r].pc = "entries" /\ entries' = entries \cup {r}
          /\ UNCHANGED <<templates, categories, raced>>
          /\ run'[r].pc = "idle" /\ \A q \in Runs \ {r} : run'[q] = run[q]
        BY <1>11, <1>i DEF InsertEntries
    <2>2. ASSUME ~raced
          PROVE  entries = {} /\ \A q \in Runs \ {r} : run[q].pc \notin Past
        BY <2>1, <2>2 DEF AloneInv, Past
    <2>3. QED BY <2>1, <2>2 DEF AloneInv, Past
<1>12. ASSUME NEW r \in Runs, Fail(r) PROVE AloneInv'
    <2>1. run'[r] = Idle /\ \A q \in Runs \ {r} : run'[q] = run[q]
        BY <1>12 DEF Fail, Answer, TypeOk
    <2>2. QED BY <1>12, <1>o, <2>1 DEF Fail, site
<1>13. ASSUME NEW r \in Runs, Retry(r) PROVE AloneInv'
    BY <1>13 DEF Retry, site, AloneInv
<1>14. CASE UNCHANGED vars
    BY <1>14 DEF vars, AloneInv
<1>15. QED
    BY <1>1, <1>2, <1>3, <1>4, <1>5, <1>6, <1>7, <1>8, <1>9, <1>10, <1>11, <1>12,
       <1>13, <1>14 DEF Next, Claim, Furnish

(***************************************************************************)
(* seedDefaultTemplate, seedSampleContent: runs that follow one another,   *)
(* failed and repeated ones too, furnish the site once.                    *)
(***************************************************************************)
THEOREM SerialRunsFurnishOnce == Spec => []FurnishedOnce
<1>1. Init => AloneInv
    BY IdleFacts DEF Init, AloneInv, Past
<1>2. AloneInv => FurnishedOnce
    BY DEF AloneInv, FurnishedOnce
<1>3. QED BY <1>1, <1>2, AloneStep, TypeInit, TypeStep, PTL DEF Spec

(***************************************************************************)
(* What a setup answers, ok or the login, holds, for any runs, hosts and   *)
(* names.                                                                  *)
(***************************************************************************)
THEOREM AnswersAreTrue == Spec => []AnswersHold
<1>1. OkMeansRenderable /\ LoginSignsInWithin => AnswersHold
    BY DEF AnswersHold
<1>2. QED BY <1>1, SuccessMeansRenderable, LoginWorksWithinAProcess, PTL

(***************************************************************************)
(* However many runs there are, in however many processes, the site is     *)
(* founded once, and furnished once unless two of them furnish at once.    *)
(***************************************************************************)
THEOREM SiteIsInstalledOnce == Spec => []InstalledOnce
<1>1. OneFounder /\ FurnishedOnce => InstalledOnce
    BY DEF InstalledOnce
<1>2. QED BY <1>1, OneRunFounds, SerialRunsFurnishOnce, PTL

-----------------------------------------------------------------------------
(* Agents and their tokens.                                                 *)

Writing == {"insert", "update", "tags", "audit"}

(* An admitted call carries the scope and the author of its token, neither  *)
(* of which ever changes, or is a line on stdio; the token was not revoked  *)
(* since, or the call is one of those it had admitted by then.  A call that *)
(* is at a write has write scope, and one that updates has found its entry. *)
CallOk(a, k) ==
    /\ k.pc \in {"quiet", "mint"} => k.token = 0
    /\ k.pc \notin {"quiet"} => k.author \in Authors
    /\ k.pc \notin {"quiet", "mint"} /\ k.token = 0 => k.author = 1
    /\ k.token # 0 =>
          /\ k.token <= minted
          /\ credential[k.token].scope = k.scope
          /\ credential[k.token].author = k.author
          /\ credential[k.token].revoked => a \in late[k.token]
    /\ k.pc = "known" => k.token # 0
    /\ k.pc \in Writing => k.scope = "write" /\ k.tool \in Tools
    /\ k.pc \in {"tags", "audit"} => k.target \in Written
    /\ k.pc = "update" => k.target \in EntryIds /\ k.tool # "create_entry"

CallInv == \A a \in Agents : CallOk(a, call[a])

(* A write is signed as a token says, and its target is the row it made, or *)
(* an entry that an earlier write made.                                     *)
WriteOk(n) ==
    LET w == written[n].by IN
    /\ w.token <= minted
    /\ w.token = 0 => w.author = 1
    /\ w.token # 0 => /\ credential[w.token].scope = "write"
                      /\ credential[w.token].author = w.author
    /\ written[n].excused
    /\ w.tool = "create_entry" => w.target = n
    /\ w.target \in DOMAIN written
    /\ written[n].owner = written[w.target].by.author

WriteInv == \A n \in DOMAIN written : WriteOk(n)

McpInv == McpTypeOk /\ CallInv /\ WriteInv

-----------------------------------------------------------------------------
LEMMA QuietType == Quiet \in Call
    BY DEF Quiet, Call, Scopes

LEMMA QuietOk == ASSUME NEW a PROVE CallOk(a, Quiet)
    BY DEF CallOk, Quiet, Writing

LEMMA McpInitInv == McpInit => McpInv
<1> SUFFICES ASSUME McpInit PROVE McpInv
    OBVIOUS
<1> USE AuthorsAssumption, McpBoundsAssumption
<1>1. McpTypeOk
    BY QuietType DEF McpInit, McpTypeOk, Unminted, Credential, Scopes
<1>2. CallInv
    BY QuietOk DEF McpInit, CallInv
<1>3. WriteInv
    BY DEF McpInit, WriteInv
<1>4. QED BY <1>1, <1>2, <1>3 DEF McpInv

(* What the entries are is decided when they are made.                      *)
LEMMA EntriesStay ==
    ASSUME McpTypeOk, NEW w \in Write, written' = Append(written, w)
    PROVE  /\ EntryIds \subseteq EntryIds'
           /\ Len(written') = Len(written) + 1
           /\ written'[Len(written) + 1] = w
           /\ \A n \in DOMAIN written : n \in DOMAIN written' /\ written'[n] = written[n]
           /\ DOMAIN written' = DOMAIN written \cup {Len(written) + 1}
           /\ written' \in Seq(Write)
<1>1. /\ Len(written) \in Nat /\ DOMAIN written = 1 .. Len(written)
      /\ Len(written') = Len(written) + 1 /\ written' \in Seq(Write)
      /\ DOMAIN written' = 1 .. Len(written')
    BY DEF McpTypeOk
<1>2. \A n \in 1 .. Len(written) : written'[n] = written[n]
    BY <1>1 DEF McpTypeOk
<1>3. written'[Len(written) + 1] = w
    BY <1>1 DEF McpTypeOk
<1>4. EntryIds \subseteq EntryIds'
    BY <1>1, <1>2 DEF EntryIds
<1>5. QED BY <1>1, <1>2, <1>3, <1>4

(* A step that makes no write, and takes a call from one good state to      *)
(* another, or ends it, keeps the invariant.                                *)
LEMMA CallStep ==
    ASSUME McpInv, NEW a \in Agents, NEW k \in Call, CallOk(a, k),
           call' = [call EXCEPT ![a] = k],
           late' = late \/ (k.token = 0 /\ late' = [t \in Minted |-> late[t] \ {a}]),
           audit' \in Seq(Signature), lapses' \in 0 .. MaxLapses,
           UNCHANGED <<minted, operators, written>>,
           credential' \in [Minted -> Credential],
           \A t \in Minted : /\ credential'[t].scope = credential[t].scope
                             /\ credential'[t].author = credential[t].author
                             /\ credential'[t].revoked = credential[t].revoked
    PROVE  McpInv'
<1>1. McpTypeOk'
    BY DEF McpInv, McpTypeOk
<1>2. ASSUME NEW b \in Agents PROVE CallOk(b, call[b])'
    <2>1. call'[b] \in Call /\ CallOk(b, call'[b])
        BY DEF McpInv, McpTypeOk, CallInv
    <2>2. call'[b].token # 0 /\ b \in late[call'[b].token] => b \in late'[call'[b].token]
        BY <2>1 DEF McpInv, McpTypeOk, Call
    <2>3. call'[b].token # 0 => call'[b].token \in Minted
        BY <2>1 DEF Call
    <2>4. QED BY <2>1, <2>2, <2>3 DEF CallOk, EntryIds
<1>3. WriteInv'
    <2> SUFFICES ASSUME NEW n \in DOMAIN written PROVE WriteOk(n)'
        BY DEF WriteInv
    <2>1. written[n] \in Write /\ WriteOk(n)
        BY DEF McpInv, McpTypeOk, WriteInv
    <2>2. written[n].by.token # 0 => written[n].by.token \in Minted
        BY <2>1 DEF Write, Signature
    <2>3. QED BY <2>1, <2>2 DEF WriteOk
<1>4. QED BY <1>1, <1>2, <1>3 DEF McpInv, CallInv

(* A write that may be made now.                                            *)
Warranted(w) ==
    /\ w.by.token <= minted
    /\ w.by.token = 0 => w.by.author = 1
    /\ w.by.token # 0 => /\ credential[w.by.token].scope = "write"
                         /\ credential[w.by.token].author = w.by.author
    /\ w.excused
    /\ w.by.tool = "create_entry" => w.by.target = Len(written) + 1

(* A step that makes a write which is as it should be.                      *)
LEMMA WriteStep ==
    ASSUME McpInv, NEW a \in Agents, NEW k \in Call, CallOk(a, k),
           k.pc \in {"tags", "audit"}, call' = [call EXCEPT ![a] = k],
           NEW w \in Write, written' = Append(written, w), Len(written) < MaxWritten,
           Warranted(w), w.by.target \in DOMAIN written',
           w.owner = written'[w.by.target].by.author,
           UNCHANGED <<credential, minted, operators, audit, late, lapses>>
    PROVE  McpInv'
<1>0. McpTypeOk
    BY DEF McpInv
<1>1. /\ EntryIds \subseteq EntryIds' /\ Len(written') = Len(written) + 1
      /\ written'[Len(written) + 1] = w
      /\ \A n \in DOMAIN written : n \in DOMAIN written' /\ written'[n] = written[n]
      /\ DOMAIN written' = DOMAIN written \cup {Len(written) + 1}
      /\ written' \in Seq(Write)
    BY <1>0, EntriesStay
<1>2. McpTypeOk'
    <2>1. Len(written') <= MaxWritten
        BY <1>0, <1>1, McpBoundsAssumption DEF McpTypeOk
    <2>2. QED BY <1>0, <1>1, <2>1 DEF McpTypeOk
<1>3. ASSUME NEW b \in Agents PROVE CallOk(b, call[b])'
    <2>1. CallOk(b, call'[b])
        BY <1>0 DEF McpInv, McpTypeOk, CallInv
    <2>2. QED BY <1>1, <2>1 DEF CallOk
<1>4. ASSUME NEW n \in DOMAIN written' PROVE WriteOk(n)'
    <2>1. CASE n = Len(written) + 1
        BY <1>1, <2>1 DEF WriteOk, Warranted
    <2>2. CASE n \in DOMAIN written
        <3>1. WriteOk(n)
            BY <2>2 DEF McpInv, WriteInv
        <3>2. /\ written'[n] = written[n]
              /\ written[n].by.target \in DOMAIN written'
              /\ written'[written[n].by.target] = written[written[n].by.target]
            BY <1>1, <2>2, <3>1 DEF WriteOk
        <3>3. QED BY <3>1, <3>2 DEF WriteOk
    <2>3. QED BY <1>1, <2>1, <2>2
<1>5. QED BY <1>2, <1>3, <1>4 DEF McpInv, CallInv, WriteInv

LEMMA FollowersAfter == ASSUME NEW tool PROVE Followers(tool) \subseteq {"tags", "audit"}
    BY DEF Followers

(* What a call that writes is, and how it signs.                            *)
LEMMA Signs ==
    ASSUME McpInv, NEW a \in Agents, call[a].pc \in Writing, NEW n \in Written
    PROVE  /\ Signed(a, n) \in Signature /\ AuthorIDForCtx(a) = call[a].author
           /\ call[a].token <= minted /\ (call[a].token = 0 => call[a].author = 1)
<1>1. call[a] \in Call /\ CallOk(a, call[a]) /\ minted \in Nat
    BY McpBoundsAssumption DEF McpInv, McpTypeOk, CallInv
<1>2. call[a].author \in Authors /\ call[a].tool \in Tools
    BY <1>1 DEF CallOk, Writing
<1>3. call[a].author > 0
    BY <1>2, AuthorsAssumption
<1>4. QED BY <1>1, <1>2, <1>3 DEF Signed, Signature, AuthorIDForCtx, CallOk, Call, Writing

LEMMA InsertRowStep ==
    ASSUME McpInv, NEW a \in Agents, InsertRow(a)
    PROVE  McpInv'
<1> DEFINE n == Len(written) + 1
           w == [by |-> Signed(a, n), owner |-> AuthorIDForCtx(a), excused |-> Excused(a)]
<1>1. call[a] \in Call /\ CallOk(a, call[a]) /\ call[a].pc = "insert" /\ McpTypeOk
    BY DEF McpInv, McpTypeOk, CallInv, InsertRow
<1>2. n \in Written /\ Len(written) < MaxWritten
    BY <1>1, McpBoundsAssumption DEF McpTypeOk, Written, InsertRow
<1>3. PICK pc \in Followers(call[a].tool) :
          call' = [call EXCEPT ![a].pc = pc, ![a].target = n]
    BY DEF InsertRow
<1> DEFINE k == [call[a] EXCEPT !.pc = pc, !.target = n]
<1>4. /\ call' = [call EXCEPT ![a] = k] /\ k \in Call /\ CallOk(a, k)
      /\ k.pc \in {"tags", "audit"}
    <2>1. pc \in {"tags", "audit"}
        BY FollowersAfter
    <2>2. k \in Call /\ call' = [call EXCEPT ![a] = k]
        BY <1>1, <1>2, <1>3, <2>1 DEF McpTypeOk, Call
    <2>3. CallOk(a, k)
        BY <1>1, <1>2, <2>1 DEF CallOk, Call, Writing
    <2>4. QED BY <2>1, <2>2, <2>3, <1>1 DEF Call
<1>5. /\ Signed(a, n) \in Signature /\ AuthorIDForCtx(a) = call[a].author
      /\ call[a].token <= minted /\ (call[a].token = 0 => call[a].author = 1)
    BY <1>1, <1>2, Signs DEF Writing
<1>6. Excused(a)
    BY <1>1 DEF Excused, CallOk
<1>7. w \in Write /\ w.by.target = n /\ w.by.token = call[a].token
      /\ w.by.author = call[a].author /\ w.owner = w.by.author /\ w.excused
    BY <1>1, <1>5, <1>6, AuthorsAssumption DEF Write, Signed, CallOk, Writing
<1>8. /\ w.by.token # 0 => /\ credential[w.by.token].scope = "write"
                           /\ credential[w.by.token].author = w.by.author
    BY <1>1, <1>7 DEF CallOk, Writing
<1>9. written' = Append(written, w)
      /\ UNCHANGED <<credential, minted, operators, audit, late, lapses>>
    BY DEF InsertRow
<1> HIDE DEF w, k
<1>10. n \in DOMAIN written' /\ written'[n] = w
    BY <1>1, <1>7, <1>9, EntriesStay
<1>11. w.by.target \in DOMAIN written' /\ w.owner = written'[w.by.target].by.author
    BY <1>7, <1>10
<1>12. Warranted(w)
    <2>1. w.by.token <= minted /\ (w.by.token = 0 => w.by.author = 1)
        BY <1>5, <1>7
    <2>2. w.by.tool = "create_entry" => w.by.target = Len(written) + 1
        BY <1>7
    <2>3. QED BY <1>7, <1>8, <2>1, <2>2 DEF Warranted
<1>13. QED BY <1>2, <1>4, <1>7, <1>9, <1>11, <1>12, WriteStep

LEMMA UpdateRowStep ==
    ASSUME McpInv, NEW a \in Agents, UpdateRow(a)
    PROVE  McpInv'
<1> DEFINE e == call[a].target
           w == [by |-> Signed(a, e), owner |-> written[e].owner, excused |-> Excused(a)]
<1>1. call[a] \in Call /\ CallOk(a, call[a]) /\ call[a].pc = "update" /\ McpTypeOk
    BY DEF McpInv, McpTypeOk, CallInv, UpdateRow
<1>2. /\ e \in DOMAIN written /\ e \in Written
      /\ WriteOk(e) /\ written[e].by.tool = "create_entry" /\ written[e] \in Write
    BY <1>1, McpBoundsAssumption
       DEF CallOk, EntryIds, McpInv, McpTypeOk, WriteInv, Written
<1>3. written[e].owner = written[e].by.author
    BY <1>2 DEF WriteOk
<1>4. PICK pc \in Followers(call[a].tool) : Step(a, pc)
    BY DEF UpdateRow
<1> DEFINE k == [call[a] EXCEPT !.pc = pc]
<1>5. /\ call' = [call EXCEPT ![a] = k] /\ k \in Call /\ CallOk(a, k)
      /\ k.pc \in {"tags", "audit"}
    <2>1. pc \in {"tags", "audit"}
        BY FollowersAfter
    <2>2. k \in Call /\ call' = [call EXCEPT ![a] = k]
        BY <1>1, <1>4, <2>1 DEF McpTypeOk, Call, Step
    <2>3. CallOk(a, k)
        BY <1>1, <1>2, <2>1 DEF CallOk, Call, Writing
    <2>4. QED BY <2>1, <2>2, <2>3, <1>1 DEF Call
<1>6. /\ Signed(a, e) \in Signature
      /\ call[a].token <= minted /\ (call[a].token = 0 => call[a].author = 1)
    BY <1>1, <1>2, Signs DEF Writing
<1>7. Excused(a)
    BY <1>1 DEF Excused, CallOk
<1>8. w \in Write /\ w.by.target = e /\ w.by.token = call[a].token
      /\ w.by.author = call[a].author /\ w.by.tool # "create_entry"
      /\ w.owner = written[e].by.author /\ w.excused
    BY <1>1, <1>2, <1>3, <1>6, <1>7 DEF Write, Signed, CallOk
<1>9. /\ w.by.token # 0 => /\ credential[w.by.token].scope = "write"
                           /\ credential[w.by.token].author = w.by.author
    BY <1>1, <1>8 DEF CallOk, Writing
<1>10. /\ written' = Append(written, w) /\ Len(written) < MaxWritten
       /\ UNCHANGED <<credential, minted, operators, audit, late, lapses>>
    BY DEF UpdateRow
<1> HIDE DEF w, k
<1>11. e \in DOMAIN written' /\ written'[e] = written[e]
    BY <1>1, <1>2, <1>8, <1>10, EntriesStay
<1>12. w.by.target \in DOMAIN written' /\ w.owner = written'[w.by.target].by.author
    BY <1>8, <1>11
<1>13. Warranted(w)
    <2>1. w.by.token <= minted /\ (w.by.token = 0 => w.by.author = 1)
        BY <1>6, <1>8
    <2>2. w.by.tool = "create_entry" => w.by.target = Len(written) + 1
        BY <1>8
    <2>3. QED BY <1>8, <1>9, <2>1, <2>2 DEF Warranted
<1>14. QED BY <1>5, <1>8, <1>10, <1>12, <1>13, WriteStep

-----------------------------------------------------------------------------
(* The steps that make no write.                                            *)

LEMMA HushStep ==
    ASSUME McpInv, NEW a \in Agents, Hush(a),
           audit' \in Seq(Signature), lapses' \in 0 .. MaxLapses,
           UNCHANGED <<credential, minted, operators, written>>
    PROVE  McpInv'
<1>1. call' = [call EXCEPT ![a] = Quiet] /\ late' = [t \in Minted |-> late[t] \ {a}]
    BY DEF Hush
<1>2. Quiet.token = 0
    BY DEF Quiet
<1>3. credential' \in [Minted -> Credential]
    BY DEF McpInv, McpTypeOk
<1>4. QED BY <1>1, <1>2, <1>3, QuietType, QuietOk, CallStep

LEMMA LapseType == McpInv /\ Lapse => lapses' \in 0 .. MaxLapses
    BY McpBoundsAssumption DEF McpInv, McpTypeOk, Lapse

(* A token that is minted is one no call and no write knows yet.            *)
LEMMA MintStep ==
    ASSUME McpInv, NEW a \in Agents, CreateMCPToken(a)
    PROVE  McpInv'
<1> DEFINE m == minted + 1
           new == [scope |-> call[a].scope, author |-> call[a].author,
                   revoked |-> FALSE, used |-> FALSE]
<1>1. /\ minted \in Nat /\ m \in Minted /\ minted' = m /\ McpTypeOk
    BY McpBoundsAssumption DEF McpInv, McpTypeOk, CreateMCPToken, Minted
<1>2. call[a] \in Call /\ CallOk(a, call[a]) /\ call[a].pc = "mint"
    BY DEF McpInv, McpTypeOk, CallInv, CreateMCPToken
<1>3. new \in Credential
    BY <1>2 DEF Credential, Call, CallOk
<1>4. credential' = [credential EXCEPT ![m] = new]
    BY DEF CreateMCPToken
<1> HIDE DEF new
<1>5. /\ credential' \in [Minted -> Credential]
      /\ \A t \in Minted : t <= minted => credential'[t] = credential[t]
    BY <1>1, <1>3, <1>4 DEF McpTypeOk
<1>6. /\ call' = [call EXCEPT ![a] = Quiet] /\ late' = [t \in Minted |-> late[t] \ {a}]
      /\ UNCHANGED <<operators, written, audit, lapses>>
    BY DEF CreateMCPToken, Hush
<1>7. McpTypeOk'
    BY <1>1, <1>5, <1>6, QuietType, McpBoundsAssumption DEF McpTypeOk, Minted
<1>8. ASSUME NEW b \in Agents PROVE CallOk(b, call[b])'
    <2>1. CASE b = a
        <3>1. call'[b] = Quiet
            BY <1>1, <1>6, <2>1 DEF McpTypeOk
        <3>2. QED BY <3>1 DEF CallOk, Quiet, Writing
    <2>2. CASE b # a
        <3>1. call'[b] = call[b] /\ call[b] \in Call /\ CallOk(b, call[b])
            BY <1>1, <1>6, <2>2 DEF McpInv, McpTypeOk, CallInv
        <3>2. call[b].token # 0 =>
                 /\ call[b].token \in Minted /\ call[b].token <= minted
                 /\ credential'[call[b].token] = credential[call[b].token]
                 /\ b \in late[call[b].token] => b \in late'[call[b].token]
            BY <1>5, <1>6, <2>2, <3>1 DEF Call, CallOk
        <3>3. call[b].token # 0 => call[b].token <= minted'
            BY <1>1, <3>2 DEF Minted
        <3>4. EntryIds' = EntryIds
            BY <1>6 DEF EntryIds
        <3>5. QED BY <3>1, <3>2, <3>3, <3>4 DEF CallOk
    <2>3. QED BY <2>1, <2>2
<1>9. ASSUME NEW n \in DOMAIN written PROVE WriteOk(n)'
    <2>1. written[n] \in Write /\ WriteOk(n)
        BY <1>1 DEF McpInv, McpTypeOk, WriteInv
    <2>2. written[n].by.token # 0 =>
             /\ written[n].by.token \in Minted /\ written[n].by.token <= minted
             /\ credential'[written[n].by.token] = credential[written[n].by.token]
        BY <1>5, <2>1 DEF Write, Signature, WriteOk
    <2>3. written[n].by.token <= minted'
        BY <1>1, <2>1 DEF WriteOk, Write, Signature, Minted
    <2>4. QED BY <1>6, <2>1, <2>2, <2>3 DEF WriteOk
<1>10. QED BY <1>6, <1>7, <1>8, <1>9 DEF McpInv, CallInv, WriteInv

(* Whoever a token has admitted when it is revoked is noted.                *)
LEMMA RevokeStep ==
    ASSUME McpInv, NEW t \in Minted, RevokeMCPToken(t)
    PROVE  McpInv'
<1>1. /\ credential' \in [Minted -> Credential]
      /\ \A u \in Minted : /\ credential'[u].scope = credential[u].scope
                           /\ credential'[u].author = credential[u].author
                           /\ u # t => credential'[u] = credential[u]
    BY DEF McpInv, McpTypeOk, RevokeMCPToken, Credential
<1>2. /\ late' \in [Minted -> SUBSET Agents] /\ late'[t] = Admitted(t)
      /\ \A u \in Minted : u # t => late'[u] = late[u]
    BY DEF McpInv, McpTypeOk, RevokeMCPToken, Admitted
<1>3. UNCHANGED <<minted, operators, call, written, audit, lapses>>
    BY DEF RevokeMCPToken
<1>4. ASSUME NEW b \in Agents PROVE CallOk(b, call[b])'
    <2>1. call[b] \in Call /\ CallOk(b, call[b])
        BY DEF McpInv, McpTypeOk, CallInv
    <2>2. call[b].token # 0 =>
             /\ call[b].token \in Minted
             /\ credential'[call[b].token].revoked => b \in late'[call[b].token]
        BY <1>1, <1>2, <2>1 DEF Call, CallOk, Admitted
    <2>3. EntryIds' = EntryIds
        BY <1>3 DEF EntryIds
    <2>4. QED BY <1>1, <1>3, <2>1, <2>2, <2>3 DEF CallOk
<1>5. ASSUME NEW n \in DOMAIN written PROVE WriteOk(n)'
    <2>1. written[n] \in Write /\ WriteOk(n)
        BY DEF McpInv, McpTypeOk, WriteInv
    <2>2. written[n].by.token # 0 => written[n].by.token \in Minted
        BY <2>1 DEF Write, Signature
    <2>3. QED BY <1>1, <1>3, <2>1, <2>2 DEF WriteOk
<1>6. McpTypeOk'
    BY <1>1, <1>2, <1>3 DEF McpInv, McpTypeOk
<1>7. QED BY <1>3, <1>4, <1>5, <1>6 DEF McpInv, CallInv, WriteInv

(* A step that only takes one call on.                                      *)
LEMMA CallOnStep ==
    ASSUME McpInv, NEW a \in Agents, NEW k \in Call, CallOk(a, k),
           call' = [call EXCEPT ![a] = k], lapses' \in 0 .. MaxLapses,
           UNCHANGED <<credential, minted, operators, written, audit, late>>
    PROVE  McpInv'
<1>1. credential' \in [Minted -> Credential] /\ audit' \in Seq(Signature)
    BY DEF McpInv, McpTypeOk
<1>2. QED BY <1>1, CallStep

LEMMA TouchStep ==
    ASSUME McpInv, NEW a \in Agents, TouchMCPToken(a)
    PROVE  McpInv'
<1> DEFINE k == [call[a] EXCEPT !.pc = "granted"]
<1>1. /\ call[a] \in Call /\ CallOk(a, call[a]) /\ call[a].pc = "known" /\ McpTypeOk
    BY DEF McpInv, McpTypeOk, CallInv, TouchMCPToken
<1>2. k \in Call /\ call' = [call EXCEPT ![a] = k]
    BY <1>1 DEF Call, TouchMCPToken, Step, McpTypeOk
<1>3. CallOk(a, k)
    BY <1>1 DEF CallOk, Call, Writing
<1>4. /\ credential' \in [Minted -> Credential]
      /\ \A t \in Minted : /\ credential'[t].scope = credential[t].scope
                           /\ credential'[t].author = credential[t].author
                           /\ credential'[t].revoked = credential[t].revoked
    <2>1. \/ credential' = [credential EXCEPT ![call[a].token].used = TRUE]
          \/ credential' = credential
        BY DEF TouchMCPToken
    <2>2. credential \in [Minted -> Credential]
        BY <1>1 DEF McpTypeOk
    <2>3. CASE credential' = credential
        BY <2>2, <2>3
    <2>4. CASE credential' = [credential EXCEPT ![call[a].token].used = TRUE]
        <3>1. call[a].token \in Minted
            BY <1>1 DEF CallOk, Call
        <3> DEFINE c == [credential[call[a].token] EXCEPT !.used = TRUE]
        <3>2. /\ c \in Credential /\ c.scope = credential[call[a].token].scope
              /\ c.author = credential[call[a].token].author
              /\ c.revoked = credential[call[a].token].revoked
            BY <2>2, <3>1 DEF Credential
        <3>3. credential' = [credential EXCEPT ![call[a].token] = c]
            BY <2>2, <2>4, <3>1
        <3> HIDE DEF c
        <3>4. QED BY <2>2, <3>1, <3>2, <3>3
    <2>5. QED BY <2>1, <2>3, <2>4
<1>5. lapses' \in 0 .. MaxLapses
    BY <1>1, LapseType DEF TouchMCPToken, McpTypeOk
<1>6. /\ late' = late /\ audit' \in Seq(Signature)
      /\ UNCHANGED <<minted, operators, written>>
    BY <1>1 DEF TouchMCPToken, McpTypeOk
<1> HIDE DEF k
<1>7. QED BY <1>2, <1>3, <1>4, <1>5, <1>6, CallStep

(* The gate lets a write tool through for write scope alone.                *)
LEMMA CallToolStep ==
    ASSUME McpInv, NEW a \in Agents, NEW tool \in Tools, CallTool(a, tool)
    PROVE  McpInv'
<1>1. /\ call[a] \in Call /\ CallOk(a, call[a]) /\ call[a].pc = "granted" /\ McpTypeOk
    BY DEF McpInv, McpTypeOk, CallInv, CallTool
<1>2. lapses' \in 0 .. MaxLapses
      /\ UNCHANGED <<credential, minted, operators, written, audit, late>>
    BY <1>1 DEF CallTool, McpTypeOk
<1>3. ASSUME tool \in EntryTools \cup {"upload_image"} PROVE call[a].scope = "write"
    BY <1>1, <1>3 DEF CallTool, ToolDescriptors, RequiredScope, Call, Scopes
<1>4. CASE /\ tool \in {"create_entry", "upload_image"}
           /\ call' = [call EXCEPT ![a].pc = "insert", ![a].tool = tool]
    <2> DEFINE k == [call[a] EXCEPT !.pc = "insert", !.tool = tool]
    <2>1. k \in Call /\ call' = [call EXCEPT ![a] = k]
        BY <1>1, <1>4 DEF Call, McpTypeOk
    <2>2. CallOk(a, k)
        BY <1>1, <1>3, <1>4 DEF CallOk, Call, Writing, EntryTools
    <2> HIDE DEF k
    <2>3. QED BY <1>2, <2>1, <2>2, CallOnStep
<1>5. ASSUME tool \in {"update_entry", "publish_entry"}, NEW e \in EntryIds,
             call' = [call EXCEPT ![a].pc = "update", ![a].tool = tool, ![a].target = e]
      PROVE  McpInv'
    <2> DEFINE k == [call[a] EXCEPT !.pc = "update", !.tool = tool, !.target = e]
    <2>1. e \in Written
        BY <1>1, McpBoundsAssumption DEF EntryIds, Written, McpTypeOk
    <2>2. k \in Call /\ call' = [call EXCEPT ![a] = k]
        BY <1>1, <1>5, <2>1 DEF Call, McpTypeOk
    <2>3. CallOk(a, k)
        BY <1>1, <1>3, <1>5 DEF CallOk, Call, Writing, EntryTools
    <2> HIDE DEF k
    <2>4. QED BY <1>2, <2>2, <2>3, CallOnStep
<1>6. QED BY <1>4, <1>5 DEF CallTool

LEMMA McpStep == McpInv /\ [McpNext]_mcpVars => McpInv'
<1> SUFFICES ASSUME McpInv, [McpNext]_mcpVars PROVE McpInv'
    OBVIOUS
<1>0. McpTypeOk
    BY DEF McpInv
<1>1. ASSUME NEW a \in Agents, McpTokensCreate(a) PROVE McpInv'
    <2>1. PICK scope \in Scopes, author \in operators :
             call' = [call EXCEPT ![a] = [Quiet EXCEPT !.pc = "mint",
                         !.scope = scope, !.author = author]]
        BY <1>1 DEF McpTokensCreate
    <2> DEFINE k == [Quiet EXCEPT !.pc = "mint", !.scope = scope, !.author = author]
    <2>2. author \in Authors
        BY <1>0 DEF McpTypeOk
    <2>3. k \in Call /\ CallOk(a, k)
        BY <2>2 DEF Call, CallOk, Quiet, Writing
    <2>4. lapses' \in 0 .. MaxLapses
        BY <1>0, <1>1 DEF McpTokensCreate, McpTypeOk
    <2>5. QED BY <1>1, <2>1, <2>3, <2>4, CallOnStep DEF McpTokensCreate
<1>2. ASSUME NEW a \in Agents, NEW t \in Minted, MCPTokenByHash(a, t) PROVE McpInv'
    <2> DEFINE k == [Quiet EXCEPT !.pc = "known", !.token = t,
                        !.scope = credential[t].scope, !.author = credential[t].author]
    <2>1. /\ credential[t].scope \in Scopes /\ credential[t].author \in Authors
          /\ t <= minted /\ t # 0 /\ ~credential[t].revoked
        BY <1>0, <1>2 DEF McpTypeOk, Credential, MCPTokenByHash, ActiveToken, Minted
    <2>2. k \in Call
        BY <2>1, QuietType DEF Call
    <2>3. CallOk(a, k)
        BY <2>1 DEF CallOk, Quiet, Writing
    <2>4. lapses' \in 0 .. MaxLapses /\ call' = [call EXCEPT ![a] = k]
          /\ UNCHANGED <<credential, minted, operators, written, audit, late>>
        BY <1>0, <1>2 DEF MCPTokenByHash, McpTypeOk
    <2> HIDE DEF k
    <2>5. QED BY <2>2, <2>3, <2>4, CallOnStep
<1>3. ASSUME NEW a \in Agents, HandleServeLine(a) PROVE McpInv'
    <2> DEFINE k == [Quiet EXCEPT !.pc = "granted", !.scope = "write", !.author = 1]
    <2>1. k \in Call /\ CallOk(a, k)
        BY AuthorsAssumption DEF Call, CallOk, Quiet, Writing, Scopes
    <2>2. lapses' \in 0 .. MaxLapses
        BY <1>0, <1>3 DEF HandleServeLine, McpTypeOk
    <2>3. QED BY <1>3, <2>1, <2>2, CallOnStep DEF HandleServeLine
<1>4. ASSUME NEW a \in Agents, AnswerCall(a) \/ Refuse(a) PROVE McpInv'
    BY <1>0, <1>4, HushStep DEF AnswerCall, Refuse, McpTypeOk
<1>5. ASSUME NEW a \in Agents, HangUpCall(a) PROVE McpInv'
    BY <1>0, <1>5, HushStep, LapseType DEF HangUpCall, McpTypeOk
<1>6. ASSUME NEW a \in Agents, ApplyTags(a) PROVE McpInv'
    <2>1. CASE Lapse /\ Hush(a)
        BY <1>0, <1>6, <2>1, HushStep, LapseType DEF ApplyTags, McpTypeOk
    <2>2. CASE Step(a, "audit") /\ UNCHANGED <<late, lapses>>
        <3> DEFINE k == [call[a] EXCEPT !.pc = "audit"]
        <3>1. call[a] \in Call /\ CallOk(a, call[a]) /\ call[a].pc = "tags"
            BY <1>6 DEF McpInv, McpTypeOk, CallInv, ApplyTags
        <3>2. k \in Call /\ call' = [call EXCEPT ![a] = k]
            BY <1>0, <2>2, <3>1 DEF Call, Step, McpTypeOk
        <3>3. CallOk(a, k)
            BY <3>1 DEF CallOk, Call, Writing
        <3>4. lapses' \in 0 .. MaxLapses
            BY <1>0, <2>2 DEF McpTypeOk
        <3> HIDE DEF k
        <3>5. QED BY <1>6, <2>2, <3>2, <3>3, <3>4, CallOnStep DEF ApplyTags
    <2>3. QED BY <1>6, <2>1, <2>2 DEF ApplyTags
<1>7. ASSUME NEW a \in Agents, AuditWrite(a) PROVE McpInv'
    <2>1. call[a].target \in Written /\ call[a].pc \in Writing
        BY <1>7 DEF AuditWrite, McpInv, CallInv, CallOk, Writing
    <2>2. Signed(a, call[a].target) \in Signature
        BY <2>1, Signs
    <2>3. audit' \in Seq(Signature)
        <3>1. audit \in Seq(Signature)
            BY <1>0 DEF McpTypeOk
        <3>2. audit' = Append(audit, Signed(a, call[a].target)) \/ audit' = audit
            BY <1>7 DEF AuditWrite
        <3>3. QED BY <2>2, <3>1, <3>2
    <2>4. lapses' \in 0 .. MaxLapses
        BY <1>0, <1>7, LapseType DEF AuditWrite, McpTypeOk
    <2>5. QED BY <1>7, <2>3, <2>4, HushStep DEF AuditWrite
<1>8. ASSUME NEW u \in Authors, RemoveOperator(u) PROVE McpInv'
    <2>1. McpTypeOk'
        BY <1>0, <1>8 DEF RemoveOperator, McpTypeOk
    <2>2. CallInv' /\ WriteInv'
        BY <1>8 DEF RemoveOperator, McpInv, CallInv, CallOk, WriteInv, WriteOk, EntryIds
    <2>3. QED BY <2>1, <2>2 DEF McpInv
<1>9. CASE UNCHANGED mcpVars
    <2>1. McpTypeOk'
        BY <1>0, <1>9 DEF mcpVars, McpTypeOk
    <2>2. CallInv' /\ WriteInv'
        BY <1>9 DEF mcpVars, McpInv, CallInv, CallOk, WriteInv, WriteOk, EntryIds
    <2>3. QED BY <2>1, <2>2 DEF McpInv
<1>10. QED
    BY <1>1, <1>2, <1>3, <1>4, <1>5, <1>6, <1>7, <1>8, <1>9, MintStep, RevokeStep,
       TouchStep, CallToolStep, InsertRowStep, UpdateRowStep
    DEF McpNext, Handled

(***************************************************************************)
(* The tokens, the calls and the audit log: every variable stays in its    *)
(* domain.                                                                 *)
(***************************************************************************)
THEOREM McpTypeCorrect == McpSpec => []McpTypeOk
<1>1. McpInv => McpTypeOk
    BY DEF McpInv
<1>2. QED BY <1>1, McpInitInv, McpStep, PTL DEF McpSpec

(***************************************************************************)
(* A write over MCP has the scope and the author of the token it was made  *)
(* with, a row keeps the author who made it, and a token that is revoked   *)
(* writes no more but for the calls it had admitted (callTool,             *)
(* MCPTokenByHash, RevokeMCPToken), for any number of agents and tokens.   *)
(***************************************************************************)
THEOREM WritesAreGranted == McpSpec => []OnlyGrantedWrites
<1>1. McpInv => OnlyGrantedWrites
    BY DEF McpInv, WriteInv, WriteOk, OnlyGrantedWrites
<1>2. QED BY <1>1, McpInitInv, McpStep, PTL DEF McpSpec

-----------------------------------------------------------------------------
(***************************************************************************)
(* The audit log.  A call that has made its row and not yet come to the    *)
(* end of the log owes a line; Mark is that line.  Counted by the line,    *)
(* what is in the log and what is owed was written; and each write without *)
(* a line, and each token without its use, is a lapse.                     *)
(***************************************************************************)
Owes(k) == k.pc \in {"tags", "audit"}
Mark(k) == [tool |-> k.tool, target |-> k.target, token |-> k.token, author |-> k.author]

Owing == {a \in Agents : Owes(call[a])}
OwingLine(s) == {a \in Agents : Owes(call[a]) /\ Mark(call[a]) = s}
Lines(s) == {i \in DOMAIN audit : audit[i] = s}
Writes(s) == {n \in DOMAIN written : written[n].by = s}
Unused == {t \in Minted : /\ ~credential[t].used
                          /\ \/ \E n \in DOMAIN written : written[n].by.token = t
                             \/ \E a \in Agents : call[a].token = t /\ call[a].pc # "known"}

AuditInv ==
    /\ \A s : Cardinality(Lines(s)) + Cardinality(OwingLine(s)) <= Cardinality(Writes(s))
    /\ Len(written) <= Len(audit) + lapses + Cardinality(Owing)
    /\ Cardinality(Unused) <= lapses

(* The three kinds of step, as the audit log sees them.                     *)
OthersRest(a) == \A b \in Agents \ {a} : call'[b] = call[b]

Calm ==
    /\ UNCHANGED <<written, audit>> /\ lapses' \in {lapses, lapses + 1}
    /\ \A a \in Agents : /\ Owes(call'[a]) <=> Owes(call[a])
                         /\ Owes(call[a]) => Mark(call'[a]) = Mark(call[a])

Wrote(a) ==
    /\ ~Owes(call[a]) /\ Owes(call'[a]) /\ OthersRest(a)
    /\ UNCHANGED <<audit, lapses>>
    /\ \E w : written' = Append(written, w) /\ w.by = Mark(call'[a])

Settled(a) ==
    /\ Owes(call[a]) /\ ~Owes(call'[a]) /\ OthersRest(a) /\ UNCHANGED written
    /\ \/ audit' = Append(audit, Mark(call[a])) /\ lapses' = lapses
       \/ audit' = audit /\ lapses' = lapses + 1

(* The subsets of a sequence's domain and of the agents are finite.         *)
LEMMA AuditFinite ==
    ASSUME McpTypeOk
    PROVE  /\ \A s : /\ IsFiniteSet(Lines(s)) /\ Cardinality(Lines(s)) \in Nat
                     /\ IsFiniteSet(Writes(s)) /\ Cardinality(Writes(s)) \in Nat
                     /\ IsFiniteSet(OwingLine(s)) /\ Cardinality(OwingLine(s)) \in Nat
           /\ IsFiniteSet(Owing) /\ Cardinality(Owing) \in Nat
           /\ IsFiniteSet(Unused) /\ Cardinality(Unused) \in Nat
<1>1. \A T \in SUBSET DOMAIN audit : IsFiniteSet(T) /\ Cardinality(T) \in Nat
    <2>1. DOMAIN audit = 1 .. Len(audit) /\ Len(audit) \in Nat
        BY DEF McpTypeOk
    <2>2. IsFiniteSet(DOMAIN audit)
        BY <2>1, FS_Interval
    <2>3. QED BY <2>2, FS_Subset, FS_CardinalityType
<1>2. \A T \in SUBSET DOMAIN written : IsFiniteSet(T) /\ Cardinality(T) \in Nat
    <2>1. DOMAIN written = 1 .. Len(written) /\ Len(written) \in Nat
        BY DEF McpTypeOk
    <2>2. IsFiniteSet(DOMAIN written)
        BY <2>1, FS_Interval
    <2>3. QED BY <2>2, FS_Subset, FS_CardinalityType
<1>3. \A T \in SUBSET Agents : IsFiniteSet(T) /\ Cardinality(T) \in Nat
    BY AgentsAssumption, FS_Subset, FS_CardinalityType
<1>4. \A T \in SUBSET Minted : IsFiniteSet(T) /\ Cardinality(T) \in Nat
    <2>1. IsFiniteSet(Minted)
        BY McpBoundsAssumption, FS_Interval DEF Minted
    <2>2. QED BY <2>1, FS_Subset, FS_CardinalityType
<1>5. \A s : /\ Lines(s) \in SUBSET DOMAIN audit /\ Writes(s) \in SUBSET DOMAIN written
             /\ OwingLine(s) \in SUBSET Agents
    BY DEF Lines, Writes, OwingLine
<1>6. Owing \in SUBSET Agents /\ Unused \in SUBSET Minted
    BY DEF Owing, Unused
<1>7. QED BY <1>1, <1>2, <1>3, <1>4, <1>5, <1>6

(* Appending to a sequence adds the one place that holds the new value.     *)
LEMMA Appended ==
    ASSUME NEW S, NEW s \in Seq(S), NEW x, NEW t, t = Append(s, x)
    PROVE  /\ Len(s) \in Nat /\ Len(t) = Len(s) + 1 /\ DOMAIN s = 1 .. Len(s)
           /\ DOMAIN t = DOMAIN s \cup {Len(s) + 1} /\ Len(s) + 1 \notin DOMAIN s
           /\ \A i \in DOMAIN s : t[i] = s[i]
           /\ t[Len(s) + 1] = x
    OBVIOUS

LEMMA CalmStep ==
    ASSUME McpInv, AuditInv, Calm
    PROVE  /\ \A s : Cardinality(Lines(s)') + Cardinality(OwingLine(s)')
                        <= Cardinality(Writes(s)')
           /\ Len(written') <= Len(audit') + lapses' + Cardinality(Owing')
<1>1. \A s : Lines(s)' = Lines(s) /\ Writes(s)' = Writes(s) /\ OwingLine(s)' = OwingLine(s)
    <2>1. \A s : Lines(s)' = Lines(s) /\ Writes(s)' = Writes(s)
        BY DEF Calm, Lines, Writes
    <2>2. ASSUME NEW s, NEW b \in Agents
          PROVE  (Owes(call[b]) /\ Mark(call[b]) = s) <=> (Owes(call'[b]) /\ Mark(call'[b]) = s)
        BY DEF Calm
    <2>3. ASSUME NEW s PROVE OwingLine(s)' = OwingLine(s)
        BY <2>2 DEF OwingLine
    <2>4. QED BY <2>1, <2>3
<1>2. Owing' = Owing /\ written' = written /\ audit' = audit
    <2>1. \A b \in Agents : Owes(call[b]) <=> Owes(call'[b])
        BY DEF Calm
    <2>2. QED BY <2>1 DEF Calm, Owing
<1>3. \A s : Cardinality(Lines(s)') + Cardinality(OwingLine(s)') <= Cardinality(Writes(s)')
    BY <1>1 DEF AuditInv
<1>4. Len(written) \in Nat /\ Len(audit) \in Nat /\ lapses \in Nat /\ Cardinality(Owing) \in Nat
    BY McpBoundsAssumption, AuditFinite DEF McpInv, McpTypeOk
<1>5. Len(written) <= Len(audit) + lapses + Cardinality(Owing)
    BY DEF AuditInv
<1>6. Len(written) <= Len(audit) + lapses' + Cardinality(Owing)
    BY <1>4, <1>5 DEF Calm
<1>7. QED BY <1>2, <1>3, <1>6

LEMMA WroteStep ==
    ASSUME McpInv, AuditInv, NEW a \in Agents, Wrote(a)
    PROVE  /\ \A s : Cardinality(Lines(s)') + Cardinality(OwingLine(s)')
                        <= Cardinality(Writes(s)')
           /\ Len(written') <= Len(audit') + lapses' + Cardinality(Owing')
<1>1. PICK w : written' = Append(written, w) /\ w.by = Mark(call'[a])
    BY DEF Wrote
<1>2. written \in Seq(Write) /\ McpTypeOk
    BY DEF McpInv, McpTypeOk
<1>3. PICK n : n = Len(written) + 1
    OBVIOUS
<1>4. /\ Len(written) \in Nat /\ Len(written') = n /\ n \notin DOMAIN written
      /\ DOMAIN written' = DOMAIN written \cup {n} /\ written'[n] = w
      /\ \A i \in DOMAIN written : written'[i] = written[i]
    BY <1>1, <1>2, <1>3, Appended
<1>5. ASSUME NEW s
      PROVE  Cardinality(Lines(s)') + Cardinality(OwingLine(s)') <= Cardinality(Writes(s)')
    <2>1. Lines(s)' = Lines(s)
        BY DEF Wrote, Lines
    <2>2. /\ Cardinality(Lines(s)) \in Nat /\ Cardinality(Writes(s)) \in Nat
          /\ Cardinality(OwingLine(s)) \in Nat
          /\ IsFiniteSet(Writes(s)) /\ IsFiniteSet(OwingLine(s))
        BY <1>2, AuditFinite
    <2>3. Cardinality(Lines(s)) + Cardinality(OwingLine(s)) <= Cardinality(Writes(s))
        BY DEF AuditInv
    <2>4. CASE w.by = s
        <3>1. Writes(s)' = Writes(s) \cup {n} /\ n \notin Writes(s)
            BY <1>4, <2>4 DEF Writes
        <3>2. OwingLine(s)' = OwingLine(s) \cup {a} /\ a \notin OwingLine(s)
            BY <1>1, <2>4 DEF Wrote, OthersRest, OwingLine
        <3>3. /\ Cardinality(Writes(s)') = Cardinality(Writes(s)) + 1
              /\ Cardinality(OwingLine(s)') = Cardinality(OwingLine(s)) + 1
            BY <2>2, <3>1, <3>2, FS_AddElement
        <3>4. QED BY <2>1, <2>2, <2>3, <3>3
    <2>5. CASE w.by # s
        <3>1. Writes(s)' = Writes(s)
            BY <1>4, <2>5 DEF Writes
        <3>2. OwingLine(s)' = OwingLine(s)
            BY <1>1, <2>5 DEF Wrote, OthersRest, OwingLine
        <3>3. QED BY <2>1, <2>3, <3>1, <3>2
    <2>6. QED BY <2>4, <2>5
<1>6. Len(written') <= Len(audit') + lapses' + Cardinality(Owing')
    <2>1. /\ Len(audit) \in Nat /\ lapses \in Nat
          /\ IsFiniteSet(Owing) /\ Cardinality(Owing) \in Nat
        BY <1>2, McpBoundsAssumption, AuditFinite DEF McpTypeOk
    <2>2. Owing' = Owing \cup {a} /\ a \notin Owing
        BY DEF Wrote, OthersRest, Owing
    <2>3. Cardinality(Owing') = Cardinality(Owing) + 1
        BY <2>1, <2>2, FS_AddElement
    <2>4. Len(written) <= Len(audit) + lapses + Cardinality(Owing)
        BY DEF AuditInv
    <2>5. audit' = audit /\ lapses' = lapses
        BY DEF Wrote
    <2>6. QED BY <1>3, <1>4, <2>1, <2>3, <2>4, <2>5
<1>7. QED BY <1>5, <1>6

LEMMA SettledStep ==
    ASSUME McpInv, AuditInv, NEW a \in Agents, Settled(a), Mark(call[a]) \in Signature
    PROVE  /\ \A s : Cardinality(Lines(s)') + Cardinality(OwingLine(s)')
                        <= Cardinality(Writes(s)')
           /\ Len(written') <= Len(audit') + lapses' + Cardinality(Owing')
<1>1. audit \in Seq(Signature) /\ McpTypeOk
    BY DEF McpInv, McpTypeOk
<1>2. PICK n : n = Len(audit) + 1
    OBVIOUS
<1>3. ASSUME audit' = Append(audit, Mark(call[a]))
      PROVE  /\ Len(audit') = Len(audit) + 1 /\ n \notin DOMAIN audit
             /\ DOMAIN audit' = DOMAIN audit \cup {n} /\ audit'[n] = Mark(call[a])
             /\ \A i \in DOMAIN audit : audit'[i] = audit[i]
    BY <1>1, <1>2, <1>3, Appended
<1>4. ASSUME NEW s
      PROVE  Cardinality(Lines(s)') + Cardinality(OwingLine(s)') <= Cardinality(Writes(s)')
    <2>1. Writes(s)' = Writes(s)
        BY DEF Settled, Writes
    <2>2. /\ Cardinality(Lines(s)) \in Nat /\ Cardinality(Writes(s)) \in Nat
          /\ Cardinality(OwingLine(s)) \in Nat
          /\ IsFiniteSet(Lines(s)) /\ IsFiniteSet(OwingLine(s))
        BY <1>1, AuditFinite
    <2>3. Cardinality(Lines(s)) + Cardinality(OwingLine(s)) <= Cardinality(Writes(s))
        BY DEF AuditInv
    <2>4. CASE Mark(call[a]) = s
        <3>1. OwingLine(s)' = OwingLine(s) \ {a} /\ a \in OwingLine(s)
            BY <2>4 DEF Settled, OthersRest, OwingLine
        <3>2. Cardinality(OwingLine(s)') = Cardinality(OwingLine(s)) - 1
            BY <2>2, <3>1, FS_RemoveElement
        <3>3. CASE audit' = audit
            <4>1. Lines(s)' = Lines(s)
                BY <3>3 DEF Lines
            <4>2. QED BY <2>1, <2>2, <2>3, <3>2, <4>1
        <3>4. CASE audit' = Append(audit, Mark(call[a]))
            <4>1. Lines(s)' = Lines(s) \cup {n} /\ n \notin Lines(s)
                BY <1>3, <2>4, <3>4 DEF Lines
            <4>2. Cardinality(Lines(s)') = Cardinality(Lines(s)) + 1
                BY <2>2, <4>1, FS_AddElement
            <4>3. QED BY <2>1, <2>2, <2>3, <3>2, <4>2
        <3>5. QED BY <3>3, <3>4 DEF Settled
    <2>5. CASE Mark(call[a]) # s
        <3>1. OwingLine(s)' = OwingLine(s)
            BY <2>5 DEF Settled, OthersRest, OwingLine
        <3>2. Lines(s)' = Lines(s)
            BY <1>3, <2>5 DEF Settled, Lines
        <3>3. QED BY <2>1, <2>3, <3>1, <3>2
    <2>6. QED BY <2>4, <2>5
<1>5. Len(written') <= Len(audit') + lapses' + Cardinality(Owing')
    <2>1. /\ Len(audit) \in Nat /\ lapses \in Nat /\ Len(written) \in Nat
          /\ IsFiniteSet(Owing) /\ Cardinality(Owing) \in Nat
        BY <1>1, McpBoundsAssumption, AuditFinite DEF McpTypeOk
    <2>2. Owing' = Owing \ {a} /\ a \in Owing
        BY DEF Settled, OthersRest, Owing
    <2>3. Cardinality(Owing') = Cardinality(Owing) - 1
        BY <2>1, <2>2, FS_RemoveElement
    <2>4. Len(written) <= Len(audit) + lapses + Cardinality(Owing)
        BY DEF AuditInv
    <2>5. written' = written
        BY DEF Settled
    <2>6. CASE audit' = audit /\ lapses' = lapses + 1
        BY <2>1, <2>3, <2>4, <2>5, <2>6
    <2>7. CASE audit' = Append(audit, Mark(call[a])) /\ lapses' = lapses
        BY <1>3, <2>1, <2>3, <2>4, <2>5, <2>7
    <2>8. QED BY <2>6, <2>7 DEF Settled
<1>6. QED BY <1>4, <1>5

(* A step of one call that writes nothing and ends no write.                *)
LEMMA CalmCall ==
    ASSUME McpInv, NEW a \in Agents, NEW k, k.pc \notin {"tags", "audit"},
           ~Owes(call[a]), call' = [call EXCEPT ![a] = k],
           UNCHANGED <<written, audit>>, lapses' \in {lapses, lapses + 1}
    PROVE  Calm
<1>1. call \in [Agents -> Call]
    BY DEF McpInv, McpTypeOk
<1>2. call'[a] = k /\ \A b \in Agents \ {a} : call'[b] = call[b]
    BY <1>1
<1>3. QED BY <1>2 DEF Calm, Owes

LEMMA Kinds ==
    ASSUME McpInv, [McpNext]_mcpVars
    PROVE  \/ Calm
           \/ \E a \in Agents : Wrote(a)
           \/ \E a \in Agents : Settled(a) /\ Mark(call[a]) \in Signature
<1>0. /\ call \in [Agents -> Call] /\ lapses \in Nat /\ McpTypeOk
    BY McpBoundsAssumption DEF McpInv, McpTypeOk
<1>1. ASSUME NEW a \in Agents,
             \/ McpTokensCreate(a) \/ CreateMCPToken(a)
             \/ \E t \in Minted : MCPTokenByHash(a, t)
             \/ HandleServeLine(a) \/ AnswerCall(a) \/ Refuse(a)
      PROVE  Calm
    <2>1. Quiet.pc = "quiet"
        BY DEF Quiet
    <2>2. ~Owes(call[a]) /\ UNCHANGED <<written, audit, lapses>>
        BY <1>1, <2>1 DEF McpTokensCreate, CreateMCPToken, MCPTokenByHash, HandleServeLine,
                          AnswerCall, Refuse, Owes
    <2>3. CASE CreateMCPToken(a) \/ AnswerCall(a) \/ Refuse(a)
        <3>1. call' = [call EXCEPT ![a] = Quiet]
            BY <2>3 DEF CreateMCPToken, AnswerCall, Refuse, Hush
        <3>2. QED BY <2>1, <2>2, <3>1, CalmCall
    <2>4. CASE McpTokensCreate(a)
        <3>1. PICK scope \in Scopes, author \in operators :
                 call' = [call EXCEPT ![a] = [Quiet EXCEPT !.pc = "mint",
                             !.scope = scope, !.author = author]]
            BY <2>4 DEF McpTokensCreate
        <3> DEFINE k == [Quiet EXCEPT !.pc = "mint", !.scope = scope, !.author = author]
        <3>2. k.pc = "mint" /\ call' = [call EXCEPT ![a] = k]
            BY <3>1 DEF Quiet
        <3> HIDE DEF k
        <3>3. QED BY <2>2, <3>2, CalmCall
    <2>5. ASSUME NEW t \in Minted, MCPTokenByHash(a, t) PROVE Calm
        <3> DEFINE k == [Quiet EXCEPT !.pc = "known", !.token = t,
                            !.scope = credential[t].scope, !.author = credential[t].author]
        <3>1. k.pc = "known" /\ call' = [call EXCEPT ![a] = k]
            BY <2>5 DEF Quiet, MCPTokenByHash
        <3> HIDE DEF k
        <3>2. QED BY <2>2, <3>1, CalmCall
    <2>6. CASE HandleServeLine(a)
        <3> DEFINE k == [Quiet EXCEPT !.pc = "granted", !.scope = "write", !.author = 1]
        <3>1. k.pc = "granted" /\ call' = [call EXCEPT ![a] = k]
            BY <2>6 DEF Quiet, HandleServeLine
        <3> HIDE DEF k
        <3>2. QED BY <2>2, <3>1, CalmCall
    <2>7. QED BY <1>1, <2>3, <2>4, <2>5, <2>6
<1>2. ASSUME NEW a \in Agents, TouchMCPToken(a) PROVE Calm
    <2> DEFINE k == [call[a] EXCEPT !.pc = "granted"]
    <2>1. /\ ~Owes(call[a]) /\ UNCHANGED <<written, audit>> /\ lapses' \in {lapses, lapses + 1}
          /\ call' = [call EXCEPT ![a].pc = "granted"]
        BY <1>2 DEF TouchMCPToken, Step, Lapse, Owes
    <2>2. k.pc = "granted" /\ call' = [call EXCEPT ![a] = k]
        BY <1>0, <2>1 DEF Call
    <2> HIDE DEF k
    <2>3. QED BY <2>1, <2>2, CalmCall
<1>3. ASSUME NEW a \in Agents, NEW tool \in Tools, CallTool(a, tool) PROVE Calm
    <2>1. ~Owes(call[a]) /\ UNCHANGED <<written, audit, lapses>> /\ call[a] \in Call
        BY <1>0, <1>3 DEF CallTool, Owes
    <2>2. CASE call' = [call EXCEPT ![a].pc = "insert", ![a].tool = tool]
        <3> DEFINE k == [call[a] EXCEPT !.pc = "insert", !.tool = tool]
        <3>1. k.pc = "insert" /\ call' = [call EXCEPT ![a] = k]
            BY <1>0, <2>1, <2>2 DEF Call
        <3> HIDE DEF k
        <3>2. QED BY <2>1, <3>1, CalmCall
    <2>3. ASSUME NEW e \in EntryIds,
                 call' = [call EXCEPT ![a].pc = "update", ![a].tool = tool, ![a].target = e]
          PROVE  Calm
        <3> DEFINE k == [call[a] EXCEPT !.pc = "update", !.tool = tool, !.target = e]
        <3>1. k.pc = "update" /\ call' = [call EXCEPT ![a] = k]
            BY <1>0, <2>1, <2>3 DEF Call
        <3> HIDE DEF k
        <3>2. QED BY <2>1, <3>1, CalmCall
    <2>4. QED BY <1>3, <2>2, <2>3 DEF CallTool
<1>4. ASSUME NEW a \in Agents, InsertRow(a) PROVE Wrote(a)
    <2>1. PICK pc \in Followers(call[a].tool) :
             call' = [call EXCEPT ![a].pc = pc, ![a].target = Len(written) + 1]
        BY <1>4 DEF InsertRow
    <2>2. pc \in {"tags", "audit"}
        BY FollowersAfter
    <2> DEFINE n == Len(written) + 1
               k == [call[a] EXCEPT !.pc = pc, !.target = n]
               w == [by |-> Signed(a, n), owner |-> AuthorIDForCtx(a), excused |-> Excused(a)]
    <2>3. call[a] \in Call /\ call[a].pc = "insert"
        BY <1>0, <1>4 DEF InsertRow
    <2>4. /\ call' = [call EXCEPT ![a] = k] /\ k.pc = pc
          /\ Mark(k) = Signed(a, n)
        BY <1>0, <2>1, <2>3 DEF Call, Mark, Signed
    <2>5. /\ written' = Append(written, w) /\ w.by = Signed(a, n)
          /\ UNCHANGED <<audit, lapses>>
        BY <1>4 DEF InsertRow
    <2> HIDE DEF k, w, n
    <2>6. call'[a] = k /\ OthersRest(a)
        BY <1>0, <2>4 DEF OthersRest
    <2>7. QED BY <2>2, <2>3, <2>4, <2>5, <2>6 DEF Wrote, Owes
<1>5. ASSUME NEW a \in Agents, UpdateRow(a) PROVE Wrote(a)
    <2>1. PICK pc \in Followers(call[a].tool) : call' = [call EXCEPT ![a].pc = pc]
        BY <1>5 DEF UpdateRow, Step
    <2>2. pc \in {"tags", "audit"}
        BY FollowersAfter
    <2> DEFINE e == call[a].target
               k == [call[a] EXCEPT !.pc = pc]
               w == [by |-> Signed(a, e), owner |-> written[e].owner, excused |-> Excused(a)]
    <2>3. call[a] \in Call /\ call[a].pc = "update"
        BY <1>0, <1>5 DEF UpdateRow
    <2>4. /\ call' = [call EXCEPT ![a] = k] /\ k.pc = pc
          /\ Mark(k) = Signed(a, e)
        BY <1>0, <2>1, <2>3 DEF Call, Mark, Signed
    <2>5. /\ written' = Append(written, w) /\ w.by = Signed(a, e)
          /\ UNCHANGED <<audit, lapses>>
        BY <1>5 DEF UpdateRow
    <2> HIDE DEF k, w, e
    <2>6. call'[a] = k /\ OthersRest(a)
        BY <1>0, <2>4 DEF OthersRest
    <2>7. QED BY <2>2, <2>3, <2>4, <2>5, <2>6 DEF Wrote, Owes
<1>6. ASSUME NEW a \in Agents, Owes(call[a])
      PROVE  /\ Mark(call[a]) \in Signature /\ Mark(call[a]) = Signed(a, call[a].target)
             /\ Hush(a) => (OthersRest(a) /\ ~Owes(call'[a]))
    <2>1. Mark(call[a]) = Signed(a, call[a].target)
        BY DEF Mark, Signed
    <2>2. call[a].target \in Written /\ call[a].pc \in Writing
        BY <1>6 DEF Owes, McpInv, CallInv, CallOk, Writing
    <2>3. Signed(a, call[a].target) \in Signature
        BY <2>2, Signs
    <2>4. Hush(a) => (OthersRest(a) /\ ~Owes(call'[a]))
        BY <1>0 DEF Hush, OthersRest, Owes, Quiet
    <2>5. QED BY <2>1, <2>3, <2>4
<1>7. ASSUME NEW a \in Agents, AuditWrite(a) PROVE Settled(a) /\ Mark(call[a]) \in Signature
    <2>1. Owes(call[a])
        BY <1>7 DEF AuditWrite, Owes
    <2>2. QED BY <1>6, <1>7, <2>1 DEF AuditWrite, Lapse, Settled
<1>8. ASSUME NEW a \in Agents, HangUpCall(a) PROVE Settled(a) /\ Mark(call[a]) \in Signature
    <2>1. Owes(call[a])
        BY <1>8 DEF HangUpCall, Owes
    <2>2. QED BY <1>6, <1>8, <2>1 DEF HangUpCall, Lapse, Settled
<1>9. ASSUME NEW a \in Agents, ApplyTags(a)
      PROVE  Calm \/ (Settled(a) /\ Mark(call[a]) \in Signature)
    <2>1. Owes(call[a]) /\ call[a] \in Call
        BY <1>0, <1>9 DEF ApplyTags, Owes
    <2>2. CASE Lapse /\ Hush(a)
        BY <1>6, <1>9, <2>1, <2>2 DEF ApplyTags, Lapse, Settled
    <2>3. CASE Step(a, "audit") /\ UNCHANGED <<late, lapses>>
        <3> DEFINE k == [call[a] EXCEPT !.pc = "audit"]
        <3>1. call' = [call EXCEPT ![a] = k] /\ k.pc = "audit" /\ Mark(k) = Mark(call[a])
            BY <1>0, <2>1, <2>3 DEF Step, Call, Mark
        <3> HIDE DEF k
        <3>2. call'[a] = k /\ \A b \in Agents \ {a} : call'[b] = call[b]
            BY <1>0, <3>1
        <3>3. QED BY <1>9, <2>1, <2>3, <3>1, <3>2 DEF ApplyTags, Calm, Owes
    <2>4. QED BY <1>9, <2>2, <2>3 DEF ApplyTags
<1>10. ASSUME UNCHANGED <<call, written, audit, lapses>> PROVE Calm
    BY <1>10 DEF Calm
<1>11. QED
    BY <1>1, <1>2, <1>3, <1>4, <1>5, <1>7, <1>8, <1>9, <1>10
       DEF McpNext, Handled, RevokeMCPToken, RemoveOperator, mcpVars

(* A token counts as unused once a call of it is past TouchMCPToken, so     *)
(* nothing but a lapse there can add one.                                   *)
LEMMA UnusedStays ==
    ASSUME McpInv, NEW a \in Agents, OthersRest(a),
           \A t \in Minted : t <= minted /\ credential[t].used => credential'[t].used,
           (call'[a].token \in Minted /\ call'[a].pc # "known") =>
               (call'[a].token = call[a].token /\ call[a].pc # "known"),
           \/ written' = written
           \/ /\ \E w : written' = Append(written, w) /\ w.by.token = call[a].token
              /\ call[a].pc # "known"
    PROVE  Unused' \subseteq Unused
<1>0. /\ written \in Seq(Write) /\ \A n \in DOMAIN written : WriteOk(n)
      /\ \A b \in Agents : CallOk(b, call[b]) /\ call[b] \in Call
      /\ \A t \in Minted : t # 0
    BY McpBoundsAssumption DEF McpInv, McpTypeOk, WriteInv, CallInv, Minted
<1>1. ASSUME NEW t \in Minted, NEW b \in Agents, call'[b].token = t, call'[b].pc # "known"
      PROVE  /\ \E c \in Agents : call[c].token = t /\ call[c].pc # "known"
             /\ t <= minted
    <2>1. call[b].token = t /\ call[b].pc # "known"
        BY <1>1 DEF OthersRest
    <2>2. QED BY <1>0, <2>1 DEF CallOk
<1>2. ASSUME NEW t \in Minted, NEW n \in DOMAIN written', written'[n].by.token = t
      PROVE  /\ \/ \E m \in DOMAIN written : written[m].by.token = t
                \/ \E c \in Agents : call[c].token = t /\ call[c].pc # "known"
             /\ t <= minted
    <2>1. CASE written' = written
        BY <1>0, <1>2, <2>1 DEF WriteOk
    <2>2. CASE written' # written
        <3>1. PICK w : written' = Append(written, w) /\ w.by.token = call[a].token
            BY <2>2
        <3>2. CASE n \in DOMAIN written
            <4>1. written[n].by.token = t
                BY <1>0, <1>2, <3>1, <3>2, Appended
            <4>2. QED BY <1>0, <3>2, <4>1 DEF WriteOk
        <3>3. CASE n \notin DOMAIN written
            <4>1. written'[n] = w
                BY <1>0, <1>2, <3>1, <3>3, Appended
            <4>2. call[a].token = t /\ call[a].pc # "known"
                BY <1>2, <2>2, <3>1, <4>1
            <4>3. QED BY <1>0, <4>2 DEF CallOk
        <3>4. QED BY <3>2, <3>3
    <2>3. QED BY <2>1, <2>2
<1>3. QED BY <1>1, <1>2 DEF Unused

LEMMA UnusedStep ==
    ASSUME McpInv, AuditInv, [McpNext]_mcpVars
    PROVE  Cardinality(Unused') <= lapses'
<1>0. /\ call \in [Agents -> Call] /\ lapses \in Nat /\ McpTypeOk /\ minted \in Nat
      /\ credential \in [Minted -> Credential]
      /\ IsFiniteSet(Unused) /\ Cardinality(Unused) \in Nat /\ Cardinality(Unused) <= lapses
    BY McpBoundsAssumption, AuditFinite DEF McpInv, McpTypeOk, AuditInv
<1>1. ASSUME Unused' \subseteq Unused, lapses' \in {lapses, lapses + 1}
      PROVE  Cardinality(Unused') <= lapses'
    <2>1. Cardinality(Unused') <= Cardinality(Unused) /\ Cardinality(Unused') \in Nat
        BY <1>0, <1>1, FS_Subset, FS_CardinalityType
    <2>2. QED BY <1>0, <1>1, <2>1
<1>2. \A b \in Agents : Hush(b) => /\ OthersRest(b) /\ call'[b].token \notin Minted
    BY <1>0 DEF Hush, OthersRest, Quiet, Minted
<1>3. ASSUME NEW b \in Agents, CreateMCPToken(b) PROVE Unused' \subseteq Unused
    <2>1. \A t \in Minted : t <= minted => credential'[t] = credential[t]
        BY <1>0, <1>3 DEF CreateMCPToken
    <2>2. Hush(b) /\ written' = written
        BY <1>3 DEF CreateMCPToken
    <2>3. QED BY <1>2, <2>1, <2>2, UnusedStays
<1>4. ASSUME NEW b \in Agents,
             AnswerCall(b) \/ Refuse(b) \/ HangUpCall(b) \/ AuditWrite(b)
                \/ (ApplyTags(b) /\ Hush(b))
      PROVE  Unused' \subseteq Unused /\ lapses' \in {lapses, lapses + 1}
    <2>1. Hush(b) /\ written' = written /\ credential' = credential
        BY <1>4 DEF AnswerCall, Refuse, HangUpCall, AuditWrite, ApplyTags
    <2>2. lapses' \in {lapses, lapses + 1}
        BY <1>4 DEF AnswerCall, Refuse, HangUpCall, AuditWrite, ApplyTags, Lapse
    <2>3. QED BY <1>2, <2>1, <2>2, UnusedStays
<1>5. ASSUME NEW b \in Agents, NEW k, call' = [call EXCEPT ![b] = k],
             (k.token \in Minted /\ k.pc # "known") =>
                 (k.token = call[b].token /\ call[b].pc # "known"),
             UNCHANGED <<written, credential>>
      PROVE  Unused' \subseteq Unused
    <2>1. OthersRest(b) /\ call'[b] = k
        BY <1>0, <1>5 DEF OthersRest
    <2>2. QED BY <1>5, <2>1, UnusedStays
<1>6. ASSUME NEW b \in Agents, McpTokensCreate(b) PROVE Unused' \subseteq Unused
    <2>1. PICK scope \in Scopes, author \in operators :
             call' = [call EXCEPT ![b] = [Quiet EXCEPT !.pc = "mint",
                         !.scope = scope, !.author = author]]
        BY <1>6 DEF McpTokensCreate
    <2> DEFINE k == [Quiet EXCEPT !.pc = "mint", !.scope = scope, !.author = author]
    <2>2. k.token \notin Minted /\ call' = [call EXCEPT ![b] = k]
        BY <2>1 DEF Quiet, Minted
    <2> HIDE DEF k
    <2>3. QED BY <1>5, <1>6, <2>2 DEF McpTokensCreate
<1>7. ASSUME NEW b \in Agents, NEW t \in Minted, MCPTokenByHash(b, t)
      PROVE  Unused' \subseteq Unused
    <2> DEFINE k == [Quiet EXCEPT !.pc = "known", !.token = t,
                        !.scope = credential[t].scope, !.author = credential[t].author]
    <2>1. k.pc = "known" /\ call' = [call EXCEPT ![b] = k]
        BY <1>7 DEF Quiet, MCPTokenByHash
    <2> HIDE DEF k
    <2>2. QED BY <1>5, <1>7, <2>1 DEF MCPTokenByHash
<1>8. ASSUME NEW b \in Agents, HandleServeLine(b) PROVE Unused' \subseteq Unused
    <2> DEFINE k == [Quiet EXCEPT !.pc = "granted", !.scope = "write", !.author = 1]
    <2>1. k.token \notin Minted /\ call' = [call EXCEPT ![b] = k]
        BY <1>8 DEF Quiet, HandleServeLine, Minted
    <2> HIDE DEF k
    <2>2. QED BY <1>5, <1>8, <2>1 DEF HandleServeLine
<1>9. ASSUME NEW b \in Agents, TouchMCPToken(b) PROVE Cardinality(Unused') <= lapses'
    <2> DEFINE t == call[b].token
               k == [call[b] EXCEPT !.pc = "granted"]
    <2>1. /\ call[b] \in Call /\ CallOk(b, call[b]) /\ call[b].pc = "known"
          /\ call' = [call EXCEPT ![b].pc = "granted"] /\ written' = written
        BY <1>0, <1>9 DEF TouchMCPToken, Step, McpInv, CallInv
    <2>2. /\ t \in Minted /\ call' = [call EXCEPT ![b] = k] /\ k.token = t
        BY <1>0, <2>1 DEF Call, CallOk
    <2> HIDE DEF k
    <2>3. /\ call'[b].token = t /\ \A c \in Agents \ {b} : call'[c] = call[c]
        BY <1>0, <2>2
    <2>4. CASE credential' = [credential EXCEPT ![t].used = TRUE] /\ lapses' = lapses
        <3>1. /\ credential'[t].used = TRUE
              /\ \A u \in Minted \ {t} : credential'[u] = credential[u]
            BY <1>0, <2>2, <2>4 DEF Credential
        <3>2. Unused' \subseteq Unused
            BY <2>1, <2>3, <3>1 DEF Unused
        <3>3. QED BY <1>1, <2>4, <3>2
    <2>5. CASE Lapse /\ credential' = credential
        <3>1. Unused' \subseteq Unused \cup {t}
            BY <2>1, <2>3, <2>5 DEF Unused
        <3>2. /\ IsFiniteSet(Unused \cup {t})
              /\ Cardinality(Unused \cup {t}) <= Cardinality(Unused) + 1
              /\ Cardinality(Unused \cup {t}) \in Nat
            <4>1. /\ IsFiniteSet(Unused \cup {t})
                  /\ Cardinality(Unused \cup {t}) =
                        IF t \in Unused THEN Cardinality(Unused) ELSE Cardinality(Unused) + 1
                BY <1>0, FS_AddElement
            <4>2. Cardinality(Unused) \in Nat
                BY <1>0
            <4>3. QED BY <4>1, <4>2
        <3>3. Cardinality(Unused') <= Cardinality(Unused \cup {t}) /\ Cardinality(Unused') \in Nat
            BY <3>1, <3>2, FS_Subset, FS_CardinalityType
        <3>4. lapses' = lapses + 1
            BY <2>5 DEF Lapse
        <3>5. QED BY <1>0, <3>2, <3>3, <3>4
    <2>6. QED BY <1>9, <2>4, <2>5 DEF TouchMCPToken
<1>10. ASSUME NEW b \in Agents, NEW tool \in Tools, CallTool(b, tool)
       PROVE  Unused' \subseteq Unused
    <2>1. call[b] \in Call /\ call[b].pc = "granted"
        BY <1>0, <1>10 DEF CallTool
    <2>2. CASE call' = [call EXCEPT ![b].pc = "insert", ![b].tool = tool]
        <3> DEFINE k == [call[b] EXCEPT !.pc = "insert", !.tool = tool]
        <3>1. k.token = call[b].token /\ call' = [call EXCEPT ![b] = k]
            BY <1>0, <2>1, <2>2 DEF Call
        <3> HIDE DEF k
        <3>2. QED BY <1>5, <1>10, <2>1, <3>1 DEF CallTool
    <2>3. ASSUME NEW e \in EntryIds,
                 call' = [call EXCEPT ![b].pc = "update", ![b].tool = tool, ![b].target = e]
          PROVE  Unused' \subseteq Unused
        <3> DEFINE k == [call[b] EXCEPT !.pc = "update", !.tool = tool, !.target = e]
        <3>1. k.token = call[b].token /\ call' = [call EXCEPT ![b] = k]
            BY <1>0, <2>1, <2>3 DEF Call
        <3> HIDE DEF k
        <3>2. QED BY <1>5, <1>10, <2>1, <3>1 DEF CallTool
    <2>4. QED BY <1>10, <2>2, <2>3 DEF CallTool
<1>11. ASSUME NEW b \in Agents, InsertRow(b) \/ UpdateRow(b) PROVE Unused' \subseteq Unused
    <2>1. call[b] \in Call /\ call[b].pc # "known" /\ credential' = credential
        BY <1>0, <1>11 DEF InsertRow, UpdateRow
    <2>2. \E n, w : written' = Append(written, w) /\ w.by = Signed(b, n)
        BY <1>11 DEF InsertRow, UpdateRow
    <2>3. \E w : written' = Append(written, w) /\ w.by.token = call[b].token
        BY <2>2 DEF Signed
    <2>4. OthersRest(b) /\ call'[b].token = call[b].token
        <3>1. CASE InsertRow(b)
            <4>1. PICK pc \in Followers(call[b].tool) :
                     call' = [call EXCEPT ![b].pc = pc, ![b].target = Len(written) + 1]
                BY <3>1 DEF InsertRow
            <4>2. QED BY <1>0, <2>1, <4>1 DEF OthersRest, Call
        <3>2. CASE UpdateRow(b)
            <4>1. PICK pc \in Followers(call[b].tool) : call' = [call EXCEPT ![b].pc = pc]
                BY <3>2 DEF UpdateRow, Step
            <4>2. QED BY <1>0, <2>1, <4>1 DEF OthersRest, Call
        <3>3. QED BY <1>11, <3>1, <3>2
    <2>5. QED BY <2>1, <2>3, <2>4, UnusedStays
<1>12. ASSUME NEW b \in Agents, ApplyTags(b) PROVE Unused' \subseteq Unused \/ Hush(b)
    <2>1. CASE Step(b, "audit")
        <3> DEFINE k == [call[b] EXCEPT !.pc = "audit"]
        <3>1. k.token = call[b].token /\ call' = [call EXCEPT ![b] = k] /\ call[b].pc = "tags"
            BY <1>0, <1>12, <2>1 DEF Call, Step, ApplyTags
        <3> HIDE DEF k
        <3>2. QED BY <1>5, <1>12, <3>1 DEF ApplyTags
    <2>2. QED BY <1>12, <2>1 DEF ApplyTags
<1>13. ASSUME NEW t \in Minted, RevokeMCPToken(t) PROVE Unused' \subseteq Unused
    <2>1. \A u \in Minted : credential'[u].used = credential[u].used
        BY <1>0, <1>13 DEF RevokeMCPToken, Credential
    <2>2. UNCHANGED <<call, written>>
        BY <1>13 DEF RevokeMCPToken
    <2>3. QED BY <2>1, <2>2 DEF Unused
<1>14. ASSUME UNCHANGED <<call, written, credential>> PROVE Unused' = Unused
    BY <1>14 DEF Unused
<1>15. QED
    <2>1. ASSUME NEW b \in Agents, Handled(b) PROVE Cardinality(Unused') <= lapses'
        <3>1. CASE ApplyTags(b)
            <4>1. lapses' \in {lapses, lapses + 1}
                BY <3>1 DEF ApplyTags, Lapse
            <4>2. QED BY <1>1, <1>4, <1>12, <3>1, <4>1
        <3>2. CASE AnswerCall(b) \/ Refuse(b) \/ HangUpCall(b) \/ AuditWrite(b)
            BY <1>1, <1>4, <3>2
        <3>3. CASE McpTokensCreate(b) \/ CreateMCPToken(b) \/ HandleServeLine(b)
                      \/ InsertRow(b) \/ UpdateRow(b)
            <4>1. lapses' = lapses
                BY <3>3 DEF McpTokensCreate, CreateMCPToken, HandleServeLine, InsertRow,
                            UpdateRow
            <4>2. QED BY <1>1, <1>3, <1>6, <1>8, <1>11, <3>3, <4>1
        <3>4. ASSUME NEW t \in Minted, MCPTokenByHash(b, t)
              PROVE  Cardinality(Unused') <= lapses'
            <4>1. lapses' = lapses
                BY <3>4 DEF MCPTokenByHash
            <4>2. QED BY <1>1, <1>7, <3>4, <4>1
        <3>5. ASSUME NEW tool \in Tools, CallTool(b, tool)
              PROVE  Cardinality(Unused') <= lapses'
            <4>1. lapses' = lapses
                BY <3>5 DEF CallTool
            <4>2. QED BY <1>1, <1>10, <3>5, <4>1
        <3>6. QED BY <1>9, <2>1, <3>1, <3>2, <3>3, <3>4, <3>5 DEF Handled
    <2>2. ASSUME NEW t \in Minted, RevokeMCPToken(t) PROVE Cardinality(Unused') <= lapses'
        <3>1. lapses' = lapses
            BY <2>2 DEF RevokeMCPToken
        <3>2. QED BY <1>1, <1>13, <2>2, <3>1
    <2>3. ASSUME UNCHANGED <<call, written, credential, lapses>>
          PROVE  Cardinality(Unused') <= lapses'
        BY <1>1, <1>14, <2>3
    <2>4. QED BY <2>1, <2>2, <2>3 DEF McpNext, RemoveOperator, mcpVars

(***************************************************************************)
(* The audit log has no line too many, and a write without its line or a   *)
(* token without its use is a failed statement or a lost client (auditWrite*)
(* and TouchMCPToken), for any number of agents, tokens and writes.        *)
(***************************************************************************)
THEOREM AuditIsFaithful == McpSpec => []AuditFollowsWrites
<1>1. McpInit => AuditInv
    <2> SUFFICES ASSUME McpInit PROVE AuditInv
        OBVIOUS
    <2>1. \A s : Lines(s) = {} /\ Writes(s) = {} /\ OwingLine(s) = {}
        BY DEF McpInit, Lines, Writes, OwingLine, Owes, Quiet
    <2>2. Owing = {} /\ Unused = {}
        BY DEF McpInit, Owing, Owes, Unused, Quiet, Minted
    <2>3. Len(written) = 0 /\ Len(audit) = 0 /\ lapses = 0
        BY DEF McpInit
    <2>4. QED BY <2>1, <2>2, <2>3, FS_EmptySet DEF AuditInv
<1>2. McpInv /\ AuditInv /\ [McpNext]_mcpVars => AuditInv'
    <2> SUFFICES ASSUME McpInv, AuditInv, [McpNext]_mcpVars PROVE AuditInv'
        OBVIOUS
    <2>1. Cardinality(Unused') <= lapses'
        BY UnusedStep
    <2>2. /\ \A s : Cardinality(Lines(s)') + Cardinality(OwingLine(s)')
                       <= Cardinality(Writes(s)')
          /\ Len(written') <= Len(audit') + lapses' + Cardinality(Owing')
        BY Kinds, CalmStep, WroteStep, SettledStep
    <2>3. QED BY <2>1, <2>2 DEF AuditInv
<1>3. McpInv /\ AuditInv => AuditFollowsWrites
    <2> SUFFICES ASSUME McpInv, AuditInv PROVE AuditFollowsWrites
        OBVIOUS
    <2>1. McpTypeOk
        BY DEF McpInv
    <2>2. \A s : Cardinality(Lines(s)) <= Cardinality(Writes(s))
        BY <2>1, AuditFinite DEF AuditInv
    <2>3. ASSUME NEW i \in DOMAIN audit
          PROVE  Cardinality({j \in DOMAIN audit : audit[j] = audit[i]}) <=
                 Cardinality({n \in DOMAIN written : written[n].by = audit[i]})
        BY <2>2 DEF Lines, Writes
    <2>4. Len(written) <= Len(audit) + lapses
             + Cardinality({a \in Agents : call[a].pc \in {"tags", "audit"}})
        BY DEF AuditInv, Owing, Owes
    <2>5. Cardinality({t \in Minted : ~credential[t].used /\
             \E n \in DOMAIN written : written[n].by.token = t}) <= lapses
        <3> DEFINE T == {t \in Minted : ~credential[t].used /\
                           \E n \in DOMAIN written : written[n].by.token = t}
        <3>1. T \subseteq Unused
            BY DEF Unused
        <3> HIDE DEF T
        <3>2. /\ Cardinality(T) <= Cardinality(Unused) /\ Cardinality(T) \in Nat
              /\ Cardinality(Unused) \in Nat
            BY <2>1, <3>1, AuditFinite, FS_Subset, FS_CardinalityType
        <3>3. Cardinality(Unused) <= lapses /\ lapses \in Nat
            BY <2>1, McpBoundsAssumption DEF AuditInv, McpTypeOk
        <3>4. Cardinality(T) <= lapses
            BY <3>2, <3>3
        <3>5. QED BY <3>4 DEF T
    <2>6. QED BY <2>3, <2>4, <2>5 DEF AuditFollowsWrites
<1>4. QED BY <1>1, <1>2, <1>3, McpInitInv, McpStep, PTL DEF McpSpec

-----------------------------------------------------------------------------
(***************************************************************************)
(* The proxy.  A code in the store is of the process that runs; it leaves  *)
(* the store before anything is given for it, with the one request that    *)
(* took it.                                                                *)
(***************************************************************************)
Issued(x) ==
    /\ environment.allowed = {} \/ x.redirect \in environment.allowed
    /\ environment.public => environment.pin
    /\ environment.pin = x.pinned

CodeOk(c) ==
    /\ code[c].start <= starts
    /\ code[c].state = "stored" => code[c].start = starts
    /\ Up /\ code[c].start = starts => Issued(code[c])

AccessOk(k) ==
    /\ access[k].code \in DOMAIN code
    /\ code[access[k].code].state = "gone"
    /\ code[access[k].code].app = access[k].app
    /\ code[access[k].code].start = access[k].start
    /\ access[k].start = starts /\ access[k].fresh => access[k].state = "stored"

Taken(v) == visit[v].pc = "taken"

VisitOk(v) ==
    Taken(v) =>
        /\ visit[v].id \in DOMAIN code
        /\ code[visit[v].id].state = "gone"
        /\ code[visit[v].id].start = starts
        /\ \A k \in DOMAIN access : access[k].code # visit[v].id
        /\ \A u \in Visits : Taken(u) /\ visit[u].id = visit[v].id => u = v

EnvironmentOk ==
    /\ Up => starts >= 1
    /\ Up => (environment.public => environment.pin)

CodesOk == Len(code) <= MaxCodes /\ \A c \in DOMAIN code : CodeOk(c)
AccessesOk ==
    /\ \A k \in DOMAIN access : AccessOk(k)
    /\ \A j, k \in DOMAIN access : access[j].code = access[k].code => j = k

ProxyInv ==
    /\ ProxyTypeOk /\ EnvironmentOk /\ CodesOk /\ AccessesOk
    /\ \A v \in Visits : VisitOk(v)

(* A sequence written over in place.                                        *)
LEMMA Overwritten ==
    ASSUME NEW S, NEW s \in Seq(S), NEW T, NEW f \in [DOMAIN s -> T]
    PROVE  f \in Seq(T) /\ Len(f) = Len(s) /\ DOMAIN f = DOMAIN s
<1>1. Len(s) \in Nat /\ DOMAIN s = 1 .. Len(s)
    OBVIOUS
<1>2. f \in [1 .. Len(s) -> T]
    BY <1>1
<1>3. QED BY <1>1, <1>2

LEMMA ProxyInitInv == ProxyInit => ProxyInv
<1> SUFFICES ASSUME ProxyInit PROVE ProxyInv
    OBVIOUS
<1> USE ProxyBoundsAssumption DEF ProxyInit
<1>1. NoVisit \in Visit
    BY DEF NoVisit, Visit
<1>2. ProxyTypeOk
    <2>1. starts \in 0 .. MaxStarts
        OBVIOUS
    <2>2. code \in Seq(AuthCode) /\ access \in Seq(AccessToken)
        OBVIOUS
    <2>3. visit \in [Visits -> Visit] /\ form \in [Apps -> Redirects \cup {"none"}]
        BY <1>1
    <2>4. QED BY <2>1, <2>2, <2>3 DEF ProxyTypeOk
<1>3. EnvironmentOk /\ CodesOk /\ AccessesOk
    BY DEF EnvironmentOk, Up, CodesOk, AccessesOk
<1>4. \A v \in Visits : VisitOk(v)
    BY DEF VisitOk, Taken, NoVisit
<1>5. QED BY <1>2, <1>3, <1>4 DEF ProxyInv

(* Codes that change, beyond going or growing stale, are new ones.          *)
LEMMA CodesStep ==
    ASSUME ProxyInv, code' \in Seq(AuthCode), Len(code') <= MaxCodes,
           UNCHANGED <<environment, starts, access, visit>>,
           \A c \in DOMAIN code :
              /\ c \in DOMAIN code'
              /\ code'[c].app = code[c].app /\ code'[c].start = code[c].start
              /\ code'[c].redirect = code[c].redirect
              /\ code'[c].pinned = code[c].pinned
              /\ code'[c].state = code[c].state,
           \A c \in DOMAIN code' \ DOMAIN code :
              code'[c].start = starts /\ Issued(code'[c])
    PROVE  CodesOk' /\ AccessesOk' /\ EnvironmentOk' /\ \A v \in Visits : VisitOk(v)'
<1>0. starts \in Nat
    BY ProxyBoundsAssumption DEF ProxyInv, ProxyTypeOk
<1>1. ASSUME NEW c \in DOMAIN code' PROVE CodeOk(c)'
    <2>1. CASE c \in DOMAIN code
        <3>1. CodeOk(c)
            BY <2>1 DEF ProxyInv, CodesOk
        <3>2. QED BY <2>1, <3>1 DEF CodeOk, Issued, Up
    <2>2. CASE c \notin DOMAIN code
        BY <1>0, <2>2 DEF CodeOk, Issued, Up
    <2>3. QED BY <2>1, <2>2
<1>2. AccessesOk'
    BY DEF ProxyInv, AccessesOk, AccessOk
<1>3. EnvironmentOk'
    BY DEF ProxyInv, EnvironmentOk, Up
<1>4. ASSUME NEW v \in Visits PROVE VisitOk(v)'
    BY DEF ProxyInv, VisitOk, Taken
<1>5. QED BY <1>1, <1>2, <1>3, <1>4 DEF CodesOk

LEMMA StartProxyStep == ProxyInv /\ StartProxy => ProxyInv'
<1> SUFFICES ASSUME ProxyInv, StartProxy PROVE ProxyInv'
    OBVIOUS
<1>1. /\ starts \in Nat /\ starts' = starts + 1 /\ starts' \in 0 .. MaxStarts
      /\ code \in Seq(AuthCode) /\ access \in Seq(AccessToken)
    BY ProxyBoundsAssumption DEF ProxyInv, ProxyTypeOk, StartProxy
<1>2. /\ environment' \in Environment
      /\ environment'.public => (environment'.pin /\ environment'.allowed # {})
    BY DEF StartProxy, ProductionGuardsRequired, ValidateProductionConfig
<1>3. /\ code' \in Seq(AuthCode) /\ Len(code') = Len(code) /\ DOMAIN code' = DOMAIN code
      /\ \A c \in DOMAIN code : code'[c] = [code[c] EXCEPT !.state = "gone"]
    <2>1. \A c \in DOMAIN code : code[c] \in AuthCode
        BY <1>1
    <2>2. \A c \in DOMAIN code : [code[c] EXCEPT !.state = "gone"] \in AuthCode
        BY <2>1 DEF AuthCode
    <2>3. code' = [c \in DOMAIN code |-> [code[c] EXCEPT !.state = "gone"]]
        BY DEF StartProxy, Forgotten
    <2>4. code' \in [DOMAIN code -> AuthCode]
        BY <2>2, <2>3
    <2>5. QED BY <1>1, <2>3, <2>4, Overwritten
<1>4. /\ access' \in Seq(AccessToken) /\ DOMAIN access' = DOMAIN access
      /\ \A k \in DOMAIN access : access'[k] = [access[k] EXCEPT !.state = "gone"]
    <2>1. \A k \in DOMAIN access : access[k] \in AccessToken
        BY <1>1
    <2>2. \A k \in DOMAIN access : [access[k] EXCEPT !.state = "gone"] \in AccessToken
        BY <2>1 DEF AccessToken
    <2>3. access' = [k \in DOMAIN access |-> [access[k] EXCEPT !.state = "gone"]]
        BY DEF StartProxy, Forgotten
    <2>4. access' \in [DOMAIN access -> AccessToken]
        BY <2>2, <2>3
    <2>5. QED BY <1>1, <2>3, <2>4, Overwritten
<1>5. ProxyTypeOk'
    <2>1. NoVisit \in Visit
        BY DEF NoVisit, Visit
    <2>2. visit' \in [Visits -> Visit] /\ sweeping' \in BOOLEAN /\ form' = form
        BY <2>1 DEF StartProxy
    <2>3. QED BY <1>1, <1>2, <1>3, <1>4, <2>2 DEF ProxyInv, ProxyTypeOk
<1>6. \A c \in DOMAIN code : /\ code'[c].app = code[c].app
                             /\ code'[c].start = code[c].start
                             /\ code'[c].start <= starts /\ code'[c].start \in Nat
                             /\ code'[c].state = "gone"
    <2>1. \A c \in DOMAIN code : code[c] \in AuthCode
        BY <1>1
    <2>2. \A c \in DOMAIN code : CodeOk(c)
        BY DEF ProxyInv, CodesOk
    <2>3. QED BY <1>3, <2>1, <2>2 DEF AuthCode, CodeOk
<1>7. CodesOk'
    <2>1. \A c \in DOMAIN code' : CodeOk(c)'
        BY <1>1, <1>3, <1>6 DEF CodeOk
    <2>2. QED BY <1>3, <2>1 DEF CodesOk, ProxyInv
<1>8. AccessesOk'
    <2>1. \A k \in DOMAIN access : /\ access'[k].code = access[k].code
                                   /\ access'[k].app = access[k].app
                                   /\ access'[k].start = access[k].start
        <3>1. \A k \in DOMAIN access : access[k] \in AccessToken
            BY <1>1
        <3>2. QED BY <1>4, <3>1 DEF AccessToken
    <2>2. \A k \in DOMAIN access : AccessOk(k)
        BY DEF ProxyInv, AccessesOk
    <2>3. ASSUME NEW k \in DOMAIN access PROVE AccessOk(k)'
        <3>1. access[k].code \in DOMAIN code /\ access[k].start <= starts
              /\ access[k].start \in Nat
            BY <1>6, <2>2 DEF AccessOk
        <3>2. access'[k].start # starts'
            BY <1>1, <2>1, <3>1
        <3>3. QED BY <1>3, <1>6, <2>1, <2>2, <3>1, <3>2 DEF AccessOk
    <2>4. \A j, k \in DOMAIN access : access[j].code = access[k].code => j = k
        BY DEF ProxyInv, AccessesOk
    <2>5. QED BY <1>4, <2>1, <2>3, <2>4 DEF AccessesOk
<1>9. EnvironmentOk'
    BY <1>1, <1>2 DEF EnvironmentOk, Up
<1>10. \A v \in Visits : VisitOk(v)'
    BY DEF StartProxy, VisitOk, Taken, NoVisit
<1>11. QED BY <1>5, <1>7, <1>8, <1>9, <1>10 DEF ProxyInv

(* A code is issued with a redirect that the process lets pass, after the   *)
(* PIN if it asks for one.                                                  *)
LEMMA IssueStep ==
    ASSUME ProxyInv, Up, NEW p \in Apps, NEW redirect \in Redirects,
           ValidateRedirectAndPKCE(redirect), environment.pin = (form[p] # "none"),
           IssueAuthCode(p, redirect),
           UNCHANGED <<environment, starts, access, visit, sweeping>>
    PROVE  ProxyInv'
<1> DEFINE x == [state |-> "stored", fresh |-> TRUE, app |-> p, redirect |-> redirect,
                 start |-> starts, pinned |-> form[p] # "none"]
<1>1. /\ code' = Append(code, x) /\ code \in Seq(AuthCode) /\ Len(code) < MaxCodes
      /\ form' = [form EXCEPT ![p] = "none"] /\ MaxCodes \in Nat
    BY ProxyBoundsAssumption DEF IssueAuthCode, ProxyInv, ProxyTypeOk
<1>2. starts \in 1 .. MaxStarts
    BY ProxyBoundsAssumption DEF ProxyInv, ProxyTypeOk, EnvironmentOk
<1>3. x \in AuthCode
    BY <1>2 DEF AuthCode
<1>4. Issued(x) /\ x.start = starts
    BY DEF Issued, ValidateRedirectAndPKCE, ProxyInv, EnvironmentOk
<1> HIDE DEF x
<1>5. /\ code' \in Seq(AuthCode) /\ Len(code') = Len(code) + 1
      /\ DOMAIN code' = DOMAIN code \cup {Len(code) + 1}
      /\ \A c \in DOMAIN code : code'[c] = code[c]
      /\ code'[Len(code) + 1] = x
    BY <1>1, <1>3
<1>6. Len(code') <= MaxCodes
    BY <1>1, <1>5
<1>7. CodesOk' /\ AccessesOk' /\ EnvironmentOk' /\ \A v \in Visits : VisitOk(v)'
    BY <1>4, <1>5, <1>6, CodesStep
<1>8. ProxyTypeOk'
    BY <1>1, <1>5 DEF ProxyInv, ProxyTypeOk
<1>9. QED BY <1>7, <1>8 DEF ProxyInv

LEMMA TakeCodeStep ==
    ASSUME ProxyInv, NEW v \in Visits, NEW c \in CodeIds, NEW p \in Apps,
           NEW redirect \in Redirects, TakeCode(v, c, p, redirect)
    PROVE  ProxyInv'
<1> DEFINE w == [pc |-> "taken", id |-> c, redirect |-> redirect, app |-> p]
<1>1. /\ code \in Seq(AuthCode) /\ c \in DOMAIN code /\ code[c].state = "stored"
      /\ code' = [code EXCEPT ![c].state = "gone"]
      /\ visit \in [Visits -> Visit] /\ visit[v] = NoVisit
      /\ visit' = [visit EXCEPT ![v] = w]
      /\ UNCHANGED <<environment, starts, form, access, sweeping>>
    BY DEF TakeCode, Spent, Stored, ProxyInv, ProxyTypeOk
<1>2. /\ code[c] \in AuthCode /\ code[c].start = starts
      /\ \A d \in DOMAIN code : CodeOk(d)
    BY <1>1 DEF ProxyInv, CodesOk, CodeOk
<1>3. /\ code' \in Seq(AuthCode) /\ Len(code') = Len(code) /\ DOMAIN code' = DOMAIN code
      /\ code'[c] = [code[c] EXCEPT !.state = "gone"]
      /\ \A d \in DOMAIN code : d # c => code'[d] = code[d]
    <2>1. [code[c] EXCEPT !.state = "gone"] \in AuthCode
        BY <1>2 DEF AuthCode
    <2>2. code' = [code EXCEPT ![c] = [code[c] EXCEPT !.state = "gone"]]
        BY <1>1
    <2>3. code \in [DOMAIN code -> AuthCode]
        BY <1>1
    <2>4. code' \in [DOMAIN code -> AuthCode]
        BY <1>1, <2>1, <2>2, <2>3
    <2>5. QED BY <1>1, <2>2, <2>4, Overwritten
<1>4. /\ code'[c].app = code[c].app /\ code'[c].start = starts
      /\ code'[c].redirect = code[c].redirect /\ code'[c].pinned = code[c].pinned
      /\ code'[c].state = "gone"
    BY <1>2, <1>3 DEF AuthCode
<1>5. ProxyTypeOk'
    <2>1. w \in Visit
        BY DEF Visit, CodeIds
    <2> HIDE DEF w
    <2>2. visit' \in [Visits -> Visit]
        BY <1>1, <2>1
    <2>3. QED BY <1>1, <1>3, <2>2 DEF ProxyInv, ProxyTypeOk
<1>6. CodesOk'
    <2>1. ASSUME NEW d \in DOMAIN code PROVE CodeOk(d)'
        <3>1. CASE d = c
            BY <1>1, <1>2, <1>4, <3>1 DEF CodeOk, Issued, Up
        <3>2. CASE d # c
            BY <1>1, <1>2, <1>3, <3>2 DEF CodeOk, Issued, Up
        <3>3. QED BY <3>1, <3>2
    <2>2. QED BY <1>3, <2>1 DEF ProxyInv, CodesOk
<1>7. \A k \in DOMAIN access : AccessOk(k) /\ access[k].code # c
    BY <1>1 DEF ProxyInv, AccessesOk, AccessOk
<1>8. AccessesOk'
    <2>1. \A k \in DOMAIN access : AccessOk(k)'
        BY <1>1, <1>3, <1>7 DEF AccessOk
    <2>2. QED BY <1>1, <2>1 DEF ProxyInv, AccessesOk
<1>9. EnvironmentOk'
    BY <1>1 DEF ProxyInv, EnvironmentOk, Up
<1>10. ASSUME NEW u \in Visits PROVE VisitOk(u)'
    <2>1. \A t \in Visits \ {v} : /\ visit'[t] = visit[t] /\ VisitOk(t)
                                  /\ Taken(t) => visit[t].id # c
        BY <1>1 DEF ProxyInv, VisitOk
    <2>2. visit'[v] = w /\ w.pc = "taken" /\ w.id = c
        BY <1>1
    <2> HIDE DEF w
    <2>3. CASE u = v
        BY <1>1, <1>3, <1>4, <1>7, <2>1, <2>2, <2>3 DEF VisitOk, Taken
    <2>4. CASE u # v
        BY <1>1, <1>3, <2>1, <2>2, <2>4 DEF VisitOk, Taken
    <2>5. QED BY <2>3, <2>4
<1>11. QED BY <1>5, <1>6, <1>8, <1>9, <1>10 DEF ProxyInv

(* A request that ends, or goes on to the endpoint, and issues nothing.     *)
LEMMA VisitStep ==
    ASSUME ProxyInv, NEW v \in Visits, NEW w \in Visit, w.pc # "taken",
           visit' = [visit EXCEPT ![v] = w], sweeping' \in BOOLEAN,
           UNCHANGED <<environment, starts, form, code, access>>
    PROVE  ProxyInv'
<1>1. ProxyTypeOk' /\ EnvironmentOk'
    BY DEF ProxyInv, ProxyTypeOk, EnvironmentOk, Up
<1>2. CodesOk' /\ AccessesOk'
    BY DEF ProxyInv, CodesOk, CodeOk, Issued, Up, AccessesOk, AccessOk
<1>3. ASSUME NEW u \in Visits PROVE VisitOk(u)'
    <2>1. visit \in [Visits -> Visit] /\ VisitOk(u)
        BY DEF ProxyInv, ProxyTypeOk
    <2>2. \A t \in Visits : Taken(t)' => (Taken(t) /\ visit'[t] = visit[t])
        BY <2>1 DEF Taken
    <2>3. QED BY <2>1, <2>2 DEF VisitOk
<1>4. QED BY <1>1, <1>2, <1>3 DEF ProxyInv

(* A code is taken before an access token is given for it, by one request.  *)
LEMMA HandleTokenStep ==
    ASSUME ProxyInv, NEW v \in Visits, HandleToken(v)
    PROVE  ProxyInv'
<1>1. /\ Taken(v) /\ visit' = [visit EXCEPT ![v] = NoVisit] /\ visit \in [Visits -> Visit]
      /\ VisitOk(v) /\ UNCHANGED <<environment, starts, form, code, sweeping>>
      /\ sweeping \in BOOLEAN
    BY DEF HandleToken, Taken, ProxyInv, ProxyTypeOk
<1>2. NoVisit \in Visit /\ NoVisit.pc # "taken"
    BY DEF NoVisit, Visit
<1>3. CASE access' = access
    BY <1>1, <1>2, <1>3, VisitStep
<1>4. CASE access' # access
    <2> DEFINE x == [state |-> "stored", fresh |-> TRUE, app |-> visit[v].app,
                     code |-> visit[v].id, start |-> starts]
               d == visit[v].id
    <2>1. /\ access' = Append(access, x) /\ code[visit[v].id].app = visit[v].app
          /\ access \in Seq(AccessToken) /\ code \in Seq(AuthCode)
        BY <1>4 DEF HandleToken, ValidExchange, ProxyInv, ProxyTypeOk
    <2>2. /\ d \in DOMAIN code /\ code[d] \in AuthCode /\ code[d].start = starts
          /\ code[d].state = "gone" /\ \A k \in DOMAIN access : access[k].code # d
        BY <1>1, <2>1 DEF VisitOk
    <2>3. d \in CodeIds
        BY <2>1, <2>2, ProxyBoundsAssumption DEF ProxyInv, CodesOk, CodeIds
    <2>4. /\ x \in AccessToken /\ x.code = d /\ x.app = code[d].app /\ x.start = starts
          /\ x.state = "stored"
        BY <2>1, <2>2, <2>3 DEF AuthCode, AccessToken
    <2> HIDE DEF x, d
    <2>0. PICK n : n = Len(access) + 1
        OBVIOUS
    <2>5. /\ access' \in Seq(AccessToken) /\ DOMAIN access' = DOMAIN access \cup {n}
          /\ access'[n] = x /\ \A k \in DOMAIN access : k # n /\ access'[k] = access[k]
        BY <2>0, <2>1, <2>4
    <2>6. ProxyTypeOk' /\ EnvironmentOk' /\ CodesOk'
        BY <1>1, <1>2, <2>5
           DEF ProxyInv, ProxyTypeOk, EnvironmentOk, Up, CodesOk, CodeOk, Issued
    <2>7. AccessesOk'
        <3>1. \A k \in DOMAIN access : AccessOk(k)'
            BY <1>1, <2>5 DEF ProxyInv, AccessesOk, AccessOk
        <3>2. AccessOk(n)'
            BY <1>1, <2>2, <2>4, <2>5 DEF AccessOk
        <3>3. \A j, k \in DOMAIN access' : access'[j].code = access'[k].code => j = k
            BY <2>2, <2>4, <2>5 DEF ProxyInv, AccessesOk
        <3>4. QED BY <2>5, <3>1, <3>2, <3>3 DEF AccessesOk
    <2>8. ASSUME NEW u \in Visits PROVE VisitOk(u)'
        <3>1. VisitOk(u)
            BY DEF ProxyInv
        <3>2. \A t \in Visits : Taken(t)' => (Taken(t) /\ visit'[t] = visit[t] /\ t # v)
            BY <1>1, <1>2 DEF Taken
        <3>3. Taken(u) /\ u # v => visit[u].id # d
            BY <1>1 DEF VisitOk, d
        <3>4. QED BY <1>1, <2>4, <2>5, <3>1, <3>2, <3>3 DEF VisitOk
    <2>9. QED BY <2>6, <2>7, <2>8 DEF ProxyInv
<1>5. QED BY <1>3, <1>4

(* Access tokens that grow stale, or leave the store when they are.         *)
LEMMA TokensStep ==
    ASSUME ProxyInv, access' \in [DOMAIN access -> AccessToken], sweeping' \in BOOLEAN,
           UNCHANGED <<environment, starts, form, code, visit>>,
           \A k \in DOMAIN access :
              /\ access'[k].app = access[k].app /\ access'[k].start = access[k].start
              /\ access'[k].code = access[k].code
              /\ access'[k].fresh =>
                    access[k].fresh /\ access'[k].state = access[k].state
    PROVE  ProxyInv'
<1>1. access' \in Seq(AccessToken) /\ DOMAIN access' = DOMAIN access
    BY Overwritten DEF ProxyInv, ProxyTypeOk
<1>2. ProxyTypeOk' /\ EnvironmentOk' /\ CodesOk'
    BY <1>1 DEF ProxyInv, ProxyTypeOk, EnvironmentOk, Up, CodesOk, CodeOk, Issued
<1>3. AccessesOk'
    BY <1>1 DEF ProxyInv, AccessesOk, AccessOk
<1>4. \A v \in Visits : VisitOk(v)'
    BY <1>1 DEF ProxyInv, VisitOk, Taken
<1>5. QED BY <1>2, <1>3, <1>4 DEF ProxyInv

LEMMA ProxyStepInv == ProxyInv /\ [ProxyNext]_<<mcpVars, proxyVars>> => ProxyInv'
<1> SUFFICES ASSUME ProxyInv, [ProxyNext]_<<mcpVars, proxyVars>> PROVE ProxyInv'
    OBVIOUS
<1>0. ProxyTypeOk
    BY DEF ProxyInv
<1>1. ASSUME NEW p \in Apps, NEW redirect \in Redirects, RenderPINForm(p, redirect)
      PROVE  ProxyInv'
    <2>1. ProxyTypeOk' /\ EnvironmentOk'
        BY <1>1 DEF RenderPINForm, ProxyInv, ProxyTypeOk, EnvironmentOk, Up
    <2>2. CodesOk' /\ AccessesOk' /\ \A v \in Visits : VisitOk(v)'
        BY <1>1 DEF RenderPINForm, ProxyInv, CodesOk, CodeOk, Issued, Up, AccessesOk,
                    AccessOk, VisitOk, Taken
    <2>3. QED BY <2>1, <2>2 DEF ProxyInv
<1>2. ASSUME NEW p \in Apps, NEW redirect \in Redirects, AuthorizeOpenly(p, redirect)
      PROVE  ProxyInv'
    <2>1. environment \in Environment /\ ~environment.pin /\ form[p] = "none"
        BY <1>0, <1>2 DEF AuthorizeOpenly, ProxyTypeOk, Up
    <2>2. environment.pin = (form[p] # "none")
        BY <2>1 DEF Environment
    <2>3. QED BY <1>2, <2>2, IssueStep DEF AuthorizeOpenly
<1>3. ASSUME NEW p \in Apps, AcceptPINPost(p) PROVE ProxyInv'
    <2>1. /\ environment \in Environment /\ environment.pin /\ form[p] # "none"
          /\ form[p] \in Redirects
        BY <1>0, <1>3 DEF AcceptPINPost, ProxyTypeOk, Up
    <2>2. environment.pin = (form[p] # "none")
        BY <2>1 DEF Environment
    <2>3. QED BY <1>3, <2>1, <2>2, IssueStep DEF AcceptPINPost
<1>4. ASSUME NEW v \in Visits, NEW k \in AccessIds, AuthenticateMCPProxy(v, k)
      PROVE  ProxyInv'
    <2> DEFINE w == [NoVisit EXCEPT !.pc = "forward", !.id = k]
    <2>1. w \in Visit /\ w.pc # "taken"
        <3>1. k \in Nat
            BY ProxyBoundsAssumption DEF AccessIds
        <3>2. NoVisit \in Visit
            BY DEF NoVisit, Visit
        <3>3. QED BY <3>1, <3>2 DEF Visit
    <2>2. sweeping' \in BOOLEAN
        <3> DEFINE more == Cardinality(Stored(access)) > SweepAbove
        <3>1. sweeping' \in {sweeping, more} /\ sweeping \in BOOLEAN
            BY <1>0, <1>4 DEF AuthenticateMCPProxy, ProxyTypeOk
        <3>2. more \in BOOLEAN
            OBVIOUS
        <3> HIDE DEF more
        <3>3. QED BY <3>1, <3>2
    <2>3. /\ visit' = [visit EXCEPT ![v] = w]
          /\ UNCHANGED <<environment, starts, form, code, access>>
        BY <1>4 DEF AuthenticateMCPProxy
    <2> HIDE DEF w
    <2>4. QED BY <2>1, <2>2, <2>3, VisitStep
<1>5. ASSUME NEW v \in Visits, HandleMCPProxy(v) PROVE ProxyInv'
    <2>1. NoVisit \in Visit /\ NoVisit.pc # "taken"
        BY DEF NoVisit, Visit
    <2>2. QED BY <1>0, <1>5, <2>1, VisitStep DEF HandleMCPProxy, ProxyTypeOk
<1>6. ASSUME SweepExpiredTokens PROVE ProxyInv'
    <2>1. \A k \in DOMAIN access : access[k] \in AccessToken
        BY <1>0 DEF ProxyTypeOk
    <2>2. \A k \in DOMAIN access : [access[k] EXCEPT !.state = "gone"] \in AccessToken
        BY <2>1 DEF AccessToken
    <2>3. access' = [k \in DOMAIN access |-> IF ~access[k].fresh
                        THEN [access[k] EXCEPT !.state = "gone"] ELSE access[k]]
        BY <1>6 DEF SweepExpiredTokens, Swept
    <2>4. access' \in [DOMAIN access -> AccessToken]
        BY <2>1, <2>2, <2>3
    <2>5. ASSUME NEW k \in DOMAIN access
          PROVE  /\ access'[k].app = access[k].app /\ access'[k].start = access[k].start
                 /\ access'[k].code = access[k].code
                 /\ access'[k].fresh =>
                       access[k].fresh /\ access'[k].state = access[k].state
        <3>1. CASE access[k].fresh
            BY <2>3, <3>1
        <3>2. CASE ~access[k].fresh
            <4>1. access'[k] = [access[k] EXCEPT !.state = "gone"] /\ access[k] \in AccessToken
                BY <2>1, <2>3, <3>2
            <4>2. /\ access'[k].app = access[k].app /\ access'[k].start = access[k].start
                  /\ access'[k].code = access[k].code
                BY <4>1 DEF AccessToken
            <4>3. access'[k].fresh = access[k].fresh
                BY <4>1 DEF AccessToken
            <4>4. QED BY <3>2, <4>2, <4>3
        <3>3. QED BY <3>1, <3>2
    <2>6. QED BY <1>6, <2>4, <2>5, TokensStep DEF SweepExpiredTokens
<1>7. ASSUME NEW k \in AccessIds, ExpireToken(k) PROVE ProxyInv'
    <2> DEFINE x == [access[k] EXCEPT !.fresh = FALSE]
    <2>1. /\ k \in DOMAIN access /\ \A j \in DOMAIN access : access[j] \in AccessToken
          /\ access' = [access EXCEPT ![k] = x] /\ access \in [DOMAIN access -> AccessToken]
        BY <1>0, <1>7 DEF ExpireToken, Stored, ProxyTypeOk
    <2>2. /\ x \in AccessToken /\ x.app = access[k].app /\ x.start = access[k].start
          /\ x.code = access[k].code /\ x.fresh = FALSE
        BY <2>1 DEF AccessToken
    <2> HIDE DEF x
    <2>3. access' \in [DOMAIN access -> AccessToken]
        BY <2>1, <2>2
    <2>4. \A j \in DOMAIN access :
             /\ access'[j].app = access[j].app /\ access'[j].start = access[j].start
             /\ access'[j].code = access[j].code
             /\ access'[j].fresh =>
                   access[j].fresh /\ access'[j].state = access[j].state
        BY <2>1, <2>2
    <2>5. QED BY <1>0, <1>7, <2>3, <2>4, TokensStep DEF ExpireToken, ProxyTypeOk
<1>8. ASSUME NEW c \in CodeIds, ExpireCode(c) PROVE ProxyInv'
    <2> DEFINE x == [code[c] EXCEPT !.fresh = FALSE]
    <2>1. c \in DOMAIN code
        <3>1. CASE c \in Stored(code)
            BY <3>1 DEF Stored
        <3>2. CASE \E v \in Visits : visit[v].pc = "taken" /\ visit[v].id = c
            BY <3>2 DEF ProxyInv, VisitOk, Taken
        <3>3. QED BY <1>8, <3>1, <3>2 DEF ExpireCode
    <2>2. /\ \A d \in DOMAIN code : code[d] \in AuthCode
          /\ code' = [code EXCEPT ![c] = x] /\ code \in [DOMAIN code -> AuthCode]
          /\ code \in Seq(AuthCode)
          /\ UNCHANGED <<environment, starts, form, access, visit, sweeping>>
        BY <1>0, <1>8 DEF ExpireCode, ProxyTypeOk
    <2>3. /\ x \in AuthCode /\ x.app = code[c].app /\ x.start = code[c].start
          /\ x.redirect = code[c].redirect /\ x.pinned = code[c].pinned
          /\ x.state = code[c].state
        BY <2>1, <2>2 DEF AuthCode
    <2> HIDE DEF x
    <2>4. code' \in Seq(AuthCode) /\ Len(code') = Len(code) /\ DOMAIN code' = DOMAIN code
        <3>1. code' \in [DOMAIN code -> AuthCode]
            BY <2>2, <2>3
        <3>2. QED BY <2>2, <3>1, Overwritten
    <2>5. \A d \in DOMAIN code :
             /\ code'[d].app = code[d].app /\ code'[d].start = code[d].start
             /\ code'[d].redirect = code[d].redirect /\ code'[d].pinned = code[d].pinned
             /\ code'[d].state = code[d].state
        BY <2>1, <2>2, <2>3
    <2>6. CodesOk' /\ AccessesOk' /\ EnvironmentOk' /\ \A v \in Visits : VisitOk(v)'
        BY <2>2, <2>4, <2>5, CodesStep DEF ProxyInv, CodesOk
    <2>7. ProxyTypeOk'
        BY <1>0, <2>2, <2>4 DEF ProxyTypeOk
    <2>8. QED BY <2>6, <2>7 DEF ProxyInv
<1>9. ASSUME UNCHANGED proxyVars PROVE ProxyInv'
    BY <1>9 DEF proxyVars, ProxyInv, ProxyTypeOk, EnvironmentOk, CodesOk, CodeOk, Issued,
                Up, AccessesOk, AccessOk, VisitOk, Taken
<1>10. CASE ProxyStep
    <2>1. ASSUME NEW v \in Visits, NEW c \in CodeIds, NEW p \in Apps,
                 NEW redirect \in Redirects, TakeCode(v, c, p, redirect)
          PROVE  ProxyInv'
        BY <2>1, TakeCodeStep
    <2>2. QED
        BY <1>1, <1>2, <1>3, <1>4, <1>5, <1>6, <1>7, <1>8, <1>10, <2>1,
           StartProxyStep, HandleTokenStep DEF ProxyStep
<1>11. QED BY <1>9, <1>10 DEF ProxyNext

(***************************************************************************)
(* The proxy: every variable stays in its domain.                          *)
(***************************************************************************)
THEOREM ProxyTypeCorrect == ProxySpec => []ProxyTypeOk
<1>1. ProxyInv => ProxyTypeOk
    BY DEF ProxyInv
<1>2. QED BY <1>1, ProxyInitInv, ProxyStepInv, PTL DEF ProxySpec

(***************************************************************************)
(* An access token was given for one code, which nothing else was given    *)
(* for, to the app whose challenge it carries, by the process that issued  *)
(* it behind its PIN and its redirects, and one that has not expired stays *)
(* in that process's store: for any number of apps and requests, across    *)
(* restarts.                                                               *)
(***************************************************************************)
THEOREM GrantsAreSingle == ProxySpec => []GrantsHold
<1>1. ProxyInv => GrantsHold
    <2> SUFFICES ASSUME ProxyInv PROVE GrantsHold
        OBVIOUS
    <2>1. /\ \A k \in DOMAIN access : AccessOk(k)
          /\ \A j, k \in DOMAIN access : access[j].code = access[k].code => j = k
          /\ \A c \in DOMAIN code : CodeOk(c)
        BY DEF ProxyInv, AccessesOk, CodesOk
    <2>2. QED BY <2>1 DEF GrantsHold, AccessOk, CodeOk, Issued, Stored
<1>2. QED BY <1>1, ProxyInitInv, ProxyStepInv, PTL DEF ProxySpec

-----------------------------------------------------------------------------
(***************************************************************************)
(* The refinement of CodeGrants.  A code is issued when it enters the      *)
(* store; it is exchanged when the request that took it gives a token; any *)
(* other step leaves what apps see as it is, or ends codes and tokens.     *)
(***************************************************************************)

(* A sequence with one more element.                                        *)
LEMMA AppendedTo ==
    ASSUME NEW S, NEW f \in Seq(S), NEW x \in S, NEW g,
           g = [i \in 1 .. Len(f) + 1 |-> g[i]],
           \A i \in 1 .. Len(f) : g[i] = f[i], g[Len(f) + 1] = x
    PROVE  g = Append(f, x)
<1>1. /\ Len(f) \in Nat /\ Append(f, x)[Len(f) + 1] = x
      /\ \A i \in 1 .. Len(f) : Append(f, x)[i] = f[i]
    OBVIOUS
<1>2. Append(f, x) \in [1 .. Len(f) + 1 -> S]
    <2>1. Append(f, x) \in Seq(S) /\ Len(Append(f, x)) = Len(f) + 1
        OBVIOUS
    <2>2. \A s \in Seq(S) : s \in [1 .. Len(s) -> S]
        OBVIOUS
    <2> DEFINE s == Append(f, x)
    <2> HIDE DEF s
    <2>3. s \in [1 .. Len(s) -> S] /\ Len(s) = Len(f) + 1
        BY <2>1, <2>2 DEF s
    <2>4. s \in [1 .. Len(f) + 1 -> S]
        BY <2>3
    <2>5. QED BY <2>4 DEF s
<1>3. \A i \in 1 .. Len(f) + 1 : g[i] = Append(f, x)[i]
    <2>1. \A i \in 1 .. Len(f) + 1 : i \in 1 .. Len(f) \/ i = Len(f) + 1
        BY <1>1
    <2>2. QED BY <1>1, <2>1, Zenon
<1>4. QED BY <1>2, <1>3

(* While a code can be exchanged, nothing has been given for it.            *)
LEMMA UnusedYet ==
    ASSUME ProxyInv, NEW c \in DOMAIN code, c \in Stored(code) \/ InHand(c),
           NEW k \in DOMAIN access
    PROVE  access[k].code # c
<1>1. AccessOk(k) /\ \A v \in Visits : VisitOk(v)
    BY DEF ProxyInv, AccessesOk
<1>2. CASE c \in Stored(code)
    BY <1>1, <1>2 DEF AccessOk, Stored
<1>3. CASE InHand(c)
    BY <1>1, <1>3 DEF InHand, VisitOk, Taken
<1>4. QED BY <1>2, <1>3

(* A step that issues and gives nothing.                                    *)
LEMMA Ended ==
    ASSUME DOMAIN code' = DOMAIN code, DOMAIN access' = DOMAIN access,
           \A c \in DOMAIN code : code'[c].app = code[c].app,
           \A k \in DOMAIN access :
              access'[k].code = access[k].code /\ access'[k].app = access[k].app,
           \A c \in DOMAIN code : Life(c)' \in {Life(c), "over"}
    PROVE  Grants!Next
<1> DEFINE C == {c \in DOMAIN code : Life(c)' = "over"}
<1>1. [c \in DOMAIN code |-> Life(c)]'
         = [c \in DOMAIN code |-> IF c \in C THEN "over" ELSE Life(c)]
    OBVIOUS
<1>2. /\ [c \in DOMAIN code |-> code[c].app]' = [c \in DOMAIN code |-> code[c].app]
      /\ [k \in DOMAIN access |-> [code |-> access[k].code, app |-> access[k].app]]'
         = [k \in DOMAIN access |-> [code |-> access[k].code, app |-> access[k].app]]
    OBVIOUS
<1>3. C \in SUBSET DOMAIN [c \in DOMAIN code |-> Life(c)]
    OBVIOUS
<1> HIDE DEF C
<1>4. Grants!End(C)
    BY <1>1, <1>2 DEF Grants!End
<1>5. QED BY <1>3, <1>4 DEF Grants!Next

(* A step after which the same codes can be exchanged and the same tokens   *)
(* work, or fewer.                                                          *)
LEMMA EndedIf ==
    ASSUME ProxyInv,
           DOMAIN code' = DOMAIN code, DOMAIN access' = DOMAIN access,
           \A c \in DOMAIN code : code'[c].app = code[c].app,
           \A k \in DOMAIN access :
              access'[k].code = access[k].code /\ access'[k].app = access[k].app,
           \A c \in DOMAIN code : Exchangeable(c)' => Exchangeable(c),
           \A c \in DOMAIN code : Works(c)' => Works(c)
    PROVE  Grants!Next
<1>1. ASSUME NEW c \in DOMAIN code PROVE Life(c)' \in {Life(c), "over"}
    <2>1. ~(Exchangeable(c) /\ Works(c))
        BY UnusedYet DEF Exchangeable, Works, Stored
    <2>2. QED BY <2>1 DEF Life
<1>2. QED BY <1>1, Ended

(* Other requests come and go; what is in hand stays.                       *)
LEMMA VisitsAlone ==
    ASSUME ProxyInv, UNCHANGED <<code, access>>,
           \A v \in Visits : Taken(v)' <=> Taken(v),
           \A v \in Visits : Taken(v) => visit'[v].id = visit[v].id
    PROVE  Grants!Next
<1>1. \A c \in DOMAIN code : InHand(c)' <=> InHand(c)
    BY DEF InHand, Taken
<1>2. \A c \in DOMAIN code : Exchangeable(c)' <=> Exchangeable(c)
    BY <1>1 DEF Exchangeable, Stored
<1>3. \A c \in DOMAIN code : Works(c)' <=> Works(c)
    BY DEF Works, Stored
<1>4. QED BY <1>2, <1>3, EndedIf

LEMMA StartEnds == ProxyInv /\ StartProxy => Grants!Next
<1> SUFFICES ASSUME ProxyInv, StartProxy PROVE Grants!Next
    OBVIOUS
<1>1. \A c \in DOMAIN code : code[c] \in AuthCode
    BY DEF ProxyInv, ProxyTypeOk
<1>2. \A k \in DOMAIN access : access[k] \in AccessToken
    BY DEF ProxyInv, ProxyTypeOk
<1>3. /\ code' = [c \in DOMAIN code |-> [code[c] EXCEPT !.state = "gone"]]
      /\ access' = [k \in DOMAIN access |-> [access[k] EXCEPT !.state = "gone"]]
    BY DEF StartProxy, Forgotten
<1>4. /\ DOMAIN code' = DOMAIN code /\ DOMAIN access' = DOMAIN access
      /\ \A c \in DOMAIN code : code'[c].app = code[c].app /\ code'[c].state = "gone"
      /\ \A k \in DOMAIN access : /\ access'[k].code = access[k].code
                                  /\ access'[k].app = access[k].app
                                  /\ access'[k].state = "gone"
    BY <1>1, <1>2, <1>3 DEF AuthCode, AccessToken
<1>5. \A c \in DOMAIN code : ~Exchangeable(c)' /\ ~Works(c)'
    <2>1. \A v \in Visits : visit'[v].pc = "quiet"
        BY DEF StartProxy, NoVisit
    <2>2. QED BY <1>4, <2>1 DEF Exchangeable, InHand, Works, Stored
<1>6. QED BY <1>4, <1>5, EndedIf

LEMMA IssueIssues ==
    ASSUME ProxyInv, NEW p \in Apps, NEW redirect \in Redirects,
           IssueAuthCode(p, redirect), UNCHANGED <<access, visit>>
    PROVE  Grants!Next
<1> DEFINE x == [state |-> "stored", fresh |-> TRUE, app |-> p, redirect |-> redirect,
                 start |-> starts, pinned |-> form[p] # "none"]
           apps == [c \in DOMAIN code |-> code[c].app]
           lives == [c \in DOMAIN code |-> Life(c)]
<1>0. PICK n : n = Len(code) + 1
    OBVIOUS
<1>1. /\ code' = Append(code, x) /\ code \in Seq(AuthCode)
      /\ \A c \in DOMAIN code : code[c] \in AuthCode
    BY DEF IssueAuthCode, ProxyInv, ProxyTypeOk
<1>2. x.app = p /\ x.fresh /\ x.state = "stored"
    OBVIOUS
<1> HIDE DEF x
<1>3. /\ DOMAIN code = 1 .. Len(code) /\ Len(code) \in Nat
      /\ DOMAIN code' = 1 .. Len(code) + 1 /\ n \in DOMAIN code' /\ n \notin DOMAIN code
      /\ \A c \in DOMAIN code : code'[c] = code[c] /\ c \in DOMAIN code'
      /\ code'[n] = x
    BY <1>0, <1>1
<1>4. \A c \in DOMAIN code : Life(c)' = Life(c)
    <2>1. \A c \in DOMAIN code : Exchangeable(c)' <=> Exchangeable(c)
        BY <1>3 DEF Exchangeable, Stored, InHand
    <2>2. \A c \in DOMAIN code : Works(c)' <=> Works(c)
        BY DEF Works, Stored
    <2>3. QED BY <2>1, <2>2 DEF Life
<1>5. Life(n)' = "code"
    BY <1>2, <1>3 DEF Life, Exchangeable, Stored
<1>6. apps' = Append(apps, p)
    <2>1. apps \in Seq(Apps) /\ Len(apps) = Len(code)
        <3>1. apps \in [DOMAIN code -> Apps]
            BY <1>1 DEF AuthCode
        <3> HIDE DEF apps
        <3>2. QED BY <1>1, <3>1, Overwritten
    <2>2. /\ apps' = [c \in 1 .. Len(code) + 1 |-> apps'[c]]
          /\ \A c \in 1 .. Len(code) : apps'[c] = apps[c]
          /\ apps'[Len(code) + 1] = p
        BY <1>0, <1>2, <1>3
    <2> HIDE DEF apps
    <2>3. QED BY <2>1, <2>2, AppendedTo
<1>7. lives' = Append(lives, "code")
    <2>1. lives \in Seq({"code", "token", "over"}) /\ Len(lives) = Len(code)
        <3>1. lives \in [DOMAIN code -> {"code", "token", "over"}]
            BY DEF Life
        <3> HIDE DEF lives
        <3>2. QED BY <1>1, <3>1, Overwritten
    <2>2. /\ lives' = [c \in 1 .. Len(code) + 1 |-> lives'[c]]
          /\ \A c \in 1 .. Len(code) : lives'[c] = lives[c]
          /\ lives'[Len(code) + 1] = "code"
        BY <1>0, <1>3, <1>4, <1>5
    <2> HIDE DEF lives
    <2>3. QED BY <2>1, <2>2, AppendedTo
<1>8. Grants!Issue(p)
    BY <1>6, <1>7 DEF Grants!Issue
<1>9. QED BY <1>8 DEF Grants!Next

LEMMA TakenInHand ==
    ASSUME ProxyInv, NEW v \in Visits, NEW d \in CodeIds, NEW p \in Apps,
           NEW redirect \in Redirects, TakeCode(v, d, p, redirect)
    PROVE  Grants!Next
<1>1. /\ code \in Seq(AuthCode) /\ d \in DOMAIN code /\ code[d].state = "stored"
      /\ \A c \in DOMAIN code : code[c] \in AuthCode
      /\ code' = [code EXCEPT ![d].state = "gone"]
      /\ visit \in [Visits -> Visit] /\ visit[v] = NoVisit
      /\ \A u \in Visits \ {v} : visit'[u] = visit[u]
      /\ visit'[v].pc = "taken" /\ visit'[v].id = d /\ access' = access
    BY DEF TakeCode, Spent, Stored, ProxyInv, ProxyTypeOk
<1>2. /\ DOMAIN code' = DOMAIN code
      /\ \A c \in DOMAIN code : /\ code'[c].app = code[c].app
                                /\ code'[c].fresh = code[c].fresh
                                /\ c # d => code'[c].state = code[c].state
    BY <1>1 DEF AuthCode
<1>3. \A c \in DOMAIN code : c # d => (InHand(c)' <=> InHand(c))
    BY <1>1 DEF InHand, NoVisit
<1>4. ASSUME NEW c \in DOMAIN code, Exchangeable(c)' PROVE Exchangeable(c)
    <2>1. CASE c = d
        BY <1>1, <1>2, <1>4, <2>1 DEF Exchangeable, Stored
    <2>2. CASE c # d
        BY <1>2, <1>3, <1>4, <2>2 DEF Exchangeable, Stored
    <2>3. QED BY <2>1, <2>2
<1>5. \A c \in DOMAIN code : Works(c)' => Works(c)
    BY <1>1 DEF Works, Stored
<1>6. QED BY <1>1, <1>2, <1>4, <1>5, EndedIf

(* An exchange that is refused ends the code, which no other request has.   *)
LEMMA TokenGiven ==
    ASSUME ProxyInv, NEW v \in Visits, HandleToken(v)
    PROVE  Grants!Next
<1>0. PICK d : d = visit[v].id
    OBVIOUS
<1>1. /\ Taken(v) /\ VisitOk(v) /\ visit \in [Visits -> Visit] /\ code' = code
      /\ visit' = [visit EXCEPT ![v] = NoVisit]
      /\ code \in Seq(AuthCode) /\ access \in Seq(AccessToken)
    BY DEF HandleToken, Taken, ProxyInv, ProxyTypeOk
<1>2. /\ d \in DOMAIN code /\ code[d].state = "gone"
      /\ \A k \in DOMAIN access : access[k].code # d
      /\ \A u \in Visits : Taken(u) /\ visit[u].id = d => u = v
    BY <1>0, <1>1 DEF VisitOk
<1>3. \A u \in Visits : Taken(u)' <=> (Taken(u) /\ u # v)
    BY <1>1 DEF Taken, NoVisit
<1>4. /\ \A c \in DOMAIN code : c # d => (InHand(c)' <=> InHand(c))
      /\ InHand(d) /\ ~InHand(d)'
    BY <1>0, <1>1, <1>2, <1>3 DEF InHand, Taken
<1>5. /\ \A c \in DOMAIN code : c # d => (Exchangeable(c)' <=> Exchangeable(c))
      /\ ~Exchangeable(d)'
    BY <1>1, <1>2, <1>4 DEF Exchangeable, Stored
<1>6. CASE access' = access
    <2>1. \A c \in DOMAIN code : Works(c)' => Works(c)
        BY <1>6 DEF Works, Stored
    <2>2. QED BY <1>1, <1>5, <1>6, <2>1, EndedIf
<1>7. CASE ValidExchange(v) /\ access' # access
    <2> DEFINE x == [state |-> "stored", fresh |-> TRUE, app |-> visit[v].app,
                     code |-> d, start |-> starts]
               y == [code |-> d, app |-> code[d].app]
               gifts == [k \in DOMAIN access |->
                           [code |-> access[k].code, app |-> access[k].app]]
               lives == [c \in DOMAIN code |-> Life(c)]
               apps == [c \in DOMAIN code |-> code[c].app]
    <2>0. PICK n : n = Len(access) + 1
        OBVIOUS
    <2>1. access' = Append(access, x)
        BY <1>0, <1>7 DEF HandleToken
    <2>2. /\ x.app = code[d].app /\ x.code = d /\ x.state = "stored" /\ x.fresh = TRUE
          /\ code[d].fresh
        BY <1>0, <1>7 DEF ValidExchange
    <2> HIDE DEF x
    <2>3. /\ DOMAIN access = 1 .. Len(access) /\ Len(access) \in Nat
          /\ DOMAIN access' = 1 .. Len(access) + 1
          /\ n \in DOMAIN access' /\ n \notin DOMAIN access
          /\ \A k \in DOMAIN access : access'[k] = access[k] /\ k \in DOMAIN access'
          /\ \A k \in DOMAIN access' : k \in DOMAIN access \/ k = n
          /\ access'[n] = x
        BY <1>1, <2>0, <2>1
    <2>4. Exchangeable(d) /\ Life(d) = "code"
        BY <1>4, <2>2 DEF Exchangeable, Life
    <2>5. Works(d)' /\ Life(d)' = "token"
        <3>1. Works(d)'
            BY <2>2, <2>3 DEF Works, Stored
        <3>2. QED BY <1>5, <3>1 DEF Life
    <2>6. ASSUME NEW c \in DOMAIN code, c # d PROVE Life(c)' = Life(c)
        <3>1. Works(c)' <=> Works(c)
            BY <2>2, <2>3, <2>6 DEF Works, Stored
        <3>2. QED BY <1>5, <2>6, <3>1 DEF Life
    <2>7. lives' = [lives EXCEPT ![d] = "token"] /\ lives[d] = "code"
        BY <1>1, <1>2, <2>4, <2>5, <2>6
    <2>8. gifts' = Append(gifts, y)
        <3> DEFINE Gift == [code : Nat, app : Apps]
        <3>1. \A k \in DOMAIN access : access[k] \in AccessToken
            BY <1>1
        <3>2. gifts \in [DOMAIN access -> Gift]
            <4>1. CodeIds \subseteq Nat
                BY ProxyBoundsAssumption DEF CodeIds
            <4>2. QED BY <3>1, <4>1 DEF AccessToken
        <3>3. y \in Gift
            <4>1. d \in Nat /\ code[d] \in AuthCode
                BY <1>1, <1>2
            <4>2. QED BY <4>1 DEF AuthCode
        <3>4. /\ \A k \in 1 .. Len(access) : gifts'[k] = gifts[k]
              /\ gifts'[Len(access) + 1] = y
              /\ gifts' = [k \in 1 .. Len(access) + 1 |-> gifts'[k]]
            BY <2>0, <2>2, <2>3
        <3> HIDE DEF gifts, y, Gift
        <3>5. gifts \in Seq(Gift) /\ Len(gifts) = Len(access)
            BY <1>1, <3>2, Overwritten
        <3>6. QED BY <3>3, <3>4, <3>5, AppendedTo
    <2>9. apps' = apps /\ y = [code |-> d, app |-> apps[d]]
        BY <1>1, <1>2
    <2> HIDE DEF y
    <2>10. Grants!Exchange(d)
        BY <2>7, <2>8, <2>9 DEF Grants!Exchange
    <2>11. QED BY <1>2, <2>10 DEF Grants!Next
<1>8. QED BY <1>6, <1>7 DEF HandleToken

LEMMA GrantsStep == ProxyInv /\ [ProxyNext]_<<mcpVars, proxyVars>>
                       => [Grants!Next]_(Grants!vars)
<1> SUFFICES ASSUME ProxyInv, [ProxyNext]_<<mcpVars, proxyVars>>
             PROVE  Grants!Next \/ UNCHANGED Grants!vars
    OBVIOUS
<1>1. ASSUME NEW p \in Apps, NEW redirect \in Redirects,
             RenderPINForm(p, redirect) \/ AuthorizeOpenly(p, redirect)
      PROVE  Grants!Next
    <2>1. CASE RenderPINForm(p, redirect)
        BY <2>1, VisitsAlone DEF RenderPINForm, Taken
    <2>2. CASE AuthorizeOpenly(p, redirect)
        BY <2>2, IssueIssues DEF AuthorizeOpenly
    <2>3. QED BY <1>1, <2>1, <2>2
<1>2. ASSUME NEW p \in Apps, AcceptPINPost(p) PROVE Grants!Next
    <2>1. form[p] \in Redirects
        BY <1>2 DEF AcceptPINPost, ProxyInv, ProxyTypeOk
    <2>2. QED BY <1>2, <2>1, IssueIssues DEF AcceptPINPost
<1>3. ASSUME NEW v \in Visits, NEW k \in AccessIds, AuthenticateMCPProxy(v, k)
      PROVE  Grants!Next
    <2>1. \A u \in Visits : (Taken(u)' <=> Taken(u)) /\ (Taken(u) => visit'[u] = visit[u])
        BY <1>3 DEF AuthenticateMCPProxy, NoVisit, ProxyInv, ProxyTypeOk, Taken
    <2>2. QED BY <1>3, <2>1, VisitsAlone DEF AuthenticateMCPProxy
<1>4. ASSUME NEW v \in Visits, HandleMCPProxy(v) PROVE Grants!Next
    <2>1. \A u \in Visits : (Taken(u)' <=> Taken(u)) /\ (Taken(u) => visit'[u] = visit[u])
        BY <1>4 DEF HandleMCPProxy, NoVisit, ProxyInv, ProxyTypeOk, Taken
    <2>2. QED BY <1>4, <2>1, VisitsAlone DEF HandleMCPProxy
<1>5. ASSUME access' \in [DOMAIN access -> AccessToken], UNCHANGED <<code, visit>>,
             \A k \in DOMAIN access :
                /\ access'[k].app = access[k].app /\ access'[k].code = access[k].code
                /\ access'[k].fresh =>
                      access[k].fresh /\ access'[k].state = access[k].state
      PROVE  Grants!Next
    <2>1. DOMAIN access' = DOMAIN access
        BY <1>5
    <2>2. \A c \in DOMAIN code : Exchangeable(c)' => Exchangeable(c)
        BY <1>5 DEF Exchangeable, InHand, Stored
    <2>3. \A c \in DOMAIN code : Works(c)' => Works(c)
        BY <1>5, <2>1 DEF Works, Stored
    <2>4. QED BY <1>5, <2>1, <2>2, <2>3, EndedIf
<1>6. ASSUME SweepExpiredTokens PROVE Grants!Next
    <2>1. \A k \in DOMAIN access : access[k] \in AccessToken
        BY DEF ProxyInv, ProxyTypeOk
    <2>2. \A k \in DOMAIN access :
             access'[k] = IF ~access[k].fresh THEN [access[k] EXCEPT !.state = "gone"]
                          ELSE access[k]
        BY <1>6 DEF SweepExpiredTokens, Swept
    <2>3. \A k \in DOMAIN access : [access[k] EXCEPT !.state = "gone"] \in AccessToken
        BY <2>1 DEF AccessToken
    <2>4. access' \in [DOMAIN access -> AccessToken]
        BY <1>6, <2>1, <2>3 DEF SweepExpiredTokens
    <2>5. \A k \in DOMAIN access : /\ access'[k].app = access[k].app
                                   /\ access'[k].code = access[k].code
                                   /\ access'[k].fresh = access[k].fresh
        BY <2>1, <2>2 DEF AccessToken
    <2>6. QED BY <1>5, <1>6, <2>2, <2>4, <2>5 DEF SweepExpiredTokens
<1>7. ASSUME NEW j \in AccessIds, ExpireToken(j) PROVE Grants!Next
    <2>1. /\ \A k \in DOMAIN access : access[k] \in AccessToken
          /\ access \in [DOMAIN access -> AccessToken]
          /\ access' = [access EXCEPT ![j] = [access[j] EXCEPT !.fresh = FALSE]]
          /\ j \in DOMAIN access
        BY <1>7 DEF ExpireToken, Stored, ProxyInv, ProxyTypeOk
    <2>2. [access[j] EXCEPT !.fresh = FALSE] \in AccessToken
        BY <2>1 DEF AccessToken
    <2>3. access' \in [DOMAIN access -> AccessToken]
        BY <2>1, <2>2
    <2>4. \A k \in DOMAIN access : /\ access'[k].app = access[k].app
                                   /\ access'[k].code = access[k].code
                                   /\ access'[k].state = access[k].state
                                   /\ access'[k].fresh => access[k].fresh
        BY <2>1 DEF AccessToken
    <2>5. QED BY <1>5, <1>7, <2>3, <2>4 DEF ExpireToken
<1>8. ASSUME NEW d \in CodeIds, ExpireCode(d) PROVE Grants!Next
    <2>1. /\ \A c \in DOMAIN code : code[c] \in AuthCode
          /\ code' = [code EXCEPT ![d] = [code[d] EXCEPT !.fresh = FALSE]]
          /\ UNCHANGED <<access, visit>>
        BY <1>8 DEF ExpireCode, ProxyInv, ProxyTypeOk
    <2>2. DOMAIN code' = DOMAIN code
        BY <2>1
    <2>3. \A c \in DOMAIN code : /\ code'[c].app = code[c].app
                                 /\ code'[c].state = code[c].state
                                 /\ code'[c].fresh => code[c].fresh
        BY <2>1 DEF AuthCode
    <2>4. \A c \in DOMAIN code : Exchangeable(c)' => Exchangeable(c)
        BY <2>1, <2>2, <2>3 DEF Exchangeable, InHand, Stored
    <2>5. \A c \in DOMAIN code : Works(c)' => Works(c)
        BY <2>1 DEF Works, Stored
    <2>6. QED BY <2>1, <2>2, <2>3, <2>4, <2>5, EndedIf
<1>9. CASE ProxyStep
    BY <1>1, <1>2, <1>3, <1>4, <1>6, <1>7, <1>8, <1>9, StartEnds, TakenInHand,
       TokenGiven DEF ProxyStep
<1>10. CASE UNCHANGED proxyVars
    BY <1>10, VisitsAlone DEF proxyVars, Taken
<1>11. QED BY <1>9, <1>10 DEF ProxyNext

(***************************************************************************)
(* The proxy keeps what an authorization server promises, whatever the     *)
(* interleaving of its requests, of expiry, of sweeps and of restarts: a   *)
(* code is exchanged once at most, before it expires, for a token of the   *)
(* app it was issued to, and neither comes back once it is over.           *)
(***************************************************************************)
THEOREM ProxyKeepsPromises == ProxySpec => KeepsPromises
<1>1. ProxyInit => Grants!Init
    <2> SUFFICES ASSUME ProxyInit PROVE Grants!Init
        OBVIOUS
    <2>1. code = <<>> /\ access = <<>>
        BY DEF ProxyInit
    <2>2. DOMAIN code = {} /\ DOMAIN access = {}
        BY <2>1
    <2>3. QED BY <2>2 DEF Grants!Init
<1>2. QED BY <1>1, ProxyInitInv, ProxyStepInv, GrantsStep, PTL
          DEF ProxySpec, KeepsPromises, Grants!Spec

-----------------------------------------------------------------------------
(***************************************************************************)
(* The parts together.  The proxy is a client of the endpoint: it changes  *)
(* the endpoint's state by the lookup of a request alone, which any client *)
(* might make.                                                             *)
(***************************************************************************)
LEMMA ProxyIsClient == McpInv /\ [ProxyNext]_<<mcpVars, proxyVars>> => [McpNext]_mcpVars
<1> SUFFICES ASSUME McpInv, [ProxyNext]_<<mcpVars, proxyVars>>
             PROVE  McpNext \/ UNCHANGED mcpVars
    OBVIOUS
<1>1. ASSUME NEW v \in Visits, HandleMCPProxy(v) PROVE McpNext \/ UNCHANGED mcpVars
    <2>1. ASSUME NEW g \in Agents, MCPTokenByHash(g, UpstreamToken) PROVE McpNext
        <3>1. UpstreamToken \in Minted
            BY <2>1, McpBoundsAssumption
               DEF MCPTokenByHash, ActiveToken, Minted, McpInv, McpTypeOk
        <3>2. Handled(g)
            BY <2>1, <3>1 DEF Handled
        <3>3. QED BY <3>2 DEF McpNext
    <2>2. QED BY <1>1, <2>1 DEF HandleMCPProxy
<1>2. CASE ProxyStep
    BY <1>1, <1>2 DEF ProxyStep, StartProxy, RenderPINForm, AcceptPINPost, AuthorizeOpenly,
                      TakeCode, HandleToken, AuthenticateMCPProxy, SweepExpiredTokens,
                      ExpireCode, ExpireToken
<1>3. QED BY <1>2 DEF ProxyNext

(***************************************************************************)
(* The proxy in front of the endpoint is, to the endpoint, one of its      *)
(* clients: every behaviour of the two is one of the endpoint alone.  So   *)
(* what holds of the endpoint for any clients holds behind the proxy: its  *)
(* writes are granted, by the token of the proxy, and audited.             *)
(***************************************************************************)
THEOREM EndpointBehindProxy ==
    ProxySpec => McpSpec /\ [](OnlyGrantedWrites /\ AuditFollowsWrites)
<1>1. ProxySpec => McpSpec
    BY ProxyIsClient, McpInitInv, McpStep, PTL DEF ProxySpec, McpSpec
<1>2. QED BY <1>1, WritesAreGranted, AuditIsFaithful, PTL

(***************************************************************************)
(* What MCSetup runs, with one part in focus and its bounds, is behaviours *)
(* of the specifications that the theorems above are about; so they hold   *)
(* of it, on every instance.                                               *)
(***************************************************************************)
THEOREM SetupRunsTheParts ==
    SetupSpec => /\ Spec /\ ProxySpec /\ KeepsPromises
                 /\ [](InstalledOnce /\ AnswersHold /\ GrantsHold)
<1>1. SetupInit => Init /\ McpInit /\ ProxyInit
    BY DEF SetupInit
<1>2. [SetupNext]_<<focus, vars, mcpVars, proxyVars>>
          => [Next]_vars /\ [ProxyNext]_<<mcpVars, proxyVars>>
    BY DEF SetupNext, ProxyNext
<1>3. SetupSpec => Spec /\ ProxySpec
    BY <1>1, <1>2, PTL DEF SetupSpec, Spec, ProxySpec
<1>4. QED BY <1>3, SiteIsInstalledOnce, AnswersAreTrue, GrantsAreSingle,
             ProxyKeepsPromises, PTL
=============================================================================
