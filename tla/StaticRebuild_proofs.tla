------------------------- MODULE StaticRebuild_proofs -------------------------
(***************************************************************************)
(* Theorems about StaticRebuild for any number of requests, hosts, units,  *)
(* sites, failures and kills.  A step theorem has one proof step per       *)
(* action; the temporal theorems combine them.                             *)
(***************************************************************************)
EXTENDS StaticRebuild, TLAPS

LEMMA VersionFact ==
    /\ 0 \in Version
    /\ 1 \in Version
    /\ NoPlan \in Plan
BY BoundsAssumption DEF Version, NoPlan, Plan

(* A plan with another version for its units is a plan.                     *)
LEMMA PlanVersions ==
    ASSUME NEW P, P \in [Requests -> Plan], NEW p \in Requests,
           NEW f \in [Units -> Version]
    PROVE  [P EXCEPT ![p].ver = f] \in [Requests -> Plan]
<1>1. [P[p] EXCEPT !.ver = f] \in Plan
    BY DEF Plan
<1>2. QED BY <1>1

LEMMA PlanVersion ==
    ASSUME NEW P, P \in [Requests -> Plan], NEW p \in Requests,
           NEW u \in Units, NEW v \in Version
    PROVE  [P EXCEPT ![p].ver[u] = v] \in [Requests -> Plan]
<1>1. [P[p].ver EXCEPT ![u] = v] \in [Units -> Version]
    BY DEF Plan
<1>2. [P[p] EXCEPT !.ver[u] = v] \in Plan
    BY <1>1 DEF Plan
<1>3. QED BY <1>2

(* Place and Withdraw keep OutDir and its history in their domains.         *)
LEMMA PlaceType ==
    ASSUME TypeOk, NEW u \in Units, NEW v \in Version, Place(u, v)
    PROVE  /\ live' \in [Units -> Version]
           /\ pub' \in [Units -> [ver : Version, up : BOOLEAN]]
BY DEF TypeOk, Place

LEMMA WithdrawType ==
    ASSUME TypeOk, NEW U, Withdraw(U)
    PROVE  /\ live' \in [Units -> Version]
           /\ pub' \in [Units -> [ver : Version, up : BOOLEAN]]
<1>1. live' \in [Units -> Version]
    BY VersionFact DEF TypeOk, Withdraw
<1>2. ASSUME NEW u \in Units
      PROVE  (IF u \in U THEN [pub[u] EXCEPT !.up = FALSE] ELSE pub[u])
                \in [ver : Version, up : BOOLEAN]
    BY DEF TypeOk
<1>3. QED BY <1>1, <1>2 DEF Withdraw

LEMMA TypeInit == Init => TypeOk
BY VersionFact, BoundsAssumption, UnitKinds
   DEF Init, TypeOk, Locs, Version

LEMMA TypeStep == TypeOk /\ [Next]_vars => TypeOk'
<1> SUFFICES ASSUME TypeOk, [Next]_vars PROVE TypeOk'
    OBVIOUS
<1> USE VersionFact, BoundsAssumption, UnitKinds
<1>1. ASSUME NEW p \in Requests, Save(p) PROVE TypeOk'
    BY <1>1, SitesAssumption DEF TypeOk, Save, Goto, out, Locs, Version
<1>2. ASSUME NEW p \in Requests, Click(p) PROVE TypeOk'
    BY <1>2 DEF TypeOk, Click, Goto, out, Locs
<1>3. ASSUME NEW p \in Requests, Trigger(p) PROVE TypeOk'
    BY <1>3 DEF TypeOk, Trigger, MaybeAutoRebuild, Start, Busy, Goto, out, Locs
<1>4. ASSUME NEW p \in Requests, Stage(p) PROVE TypeOk'
    <2>1. CASE PrepareBuildEnv(p)
        BY <2>1, SitesAssumption DEF TypeOk, PrepareBuildEnv, Goto, out, Locs, Plan, NoPlan, Site, Version
    <2>2. CASE LoadBuildData(p)
        <3> DEFINE f == [u \in Units |-> IF u \in Loaded \cap db.site.subs
                                        THEN db.ver ELSE plan[p].ver[u]]
        <3>1. f \in [Units -> Version]
            BY DEF TypeOk, Plan
        <3>2. plan' = [plan EXCEPT ![p].ver = f]
            BY <2>2 DEF LoadBuildData
        <3>3. plan' \in [Requests -> Plan]
            BY <3>1, <3>2, PlanVersions DEF TypeOk
        <3>4. QED BY <2>2, <3>3 DEF TypeOk, LoadBuildData, Goto, out, Locs
    <2>3. CASE WritePages(p)
        <3> DEFINE f == [u \in Units |-> IF u \in db.site.pages
                                        THEN db.ver ELSE plan[p].ver[u]]
        <3>1. f \in [Units -> Version]
            BY DEF TypeOk, Plan
        <3>2. plan' = [plan EXCEPT ![p].ver = f]
            BY <2>3 DEF WritePages
        <3>3. plan' \in [Requests -> Plan]
            BY <3>1, <3>2, PlanVersions DEF TypeOk
        <3>4. QED BY <2>3, <3>3 DEF TypeOk, WritePages, Goto, out, Locs, Units
    <2>4. CASE WriteList(p)
        <3>1. PICK s \in First(rest[p]) :
                /\ plan' = [plan EXCEPT ![p].ver[s] =
                               IF s \in db.site.subs THEN db.ver ELSE 0]
                /\ rest' = [rest EXCEPT ![p] = rest[p] \ {s}]
            BY <2>4 DEF WriteList
        <3>2. s \in Units /\ (IF s \in db.site.subs THEN db.ver ELSE 0) \in Version
            BY DEF TypeOk, First
        <3>3. plan' \in [Requests -> Plan]
            BY <3>1, <3>2, PlanVersion DEF TypeOk
        <3>4. rest' \in [Requests -> SUBSET Units]
            BY <3>1 DEF TypeOk
        <3>5. QED BY <2>4, <3>3, <3>4 DEF TypeOk, WriteList, out
    <2>5. CASE WriteStagedExtras(p)
        <3> DEFINE f == [u \in Units |-> IF u \in plan[p].env
                                        THEN plan[p].envVer ELSE plan[p].ver[u]]
        <3>1. f \in [Units -> Version]
            BY DEF TypeOk, Plan
        <3>2. plan' = [plan EXCEPT ![p].ver = f]
            BY <2>5 DEF WriteStagedExtras
        <3>3. plan' \in [Requests -> Plan]
            BY <3>1, <3>2, PlanVersions DEF TypeOk
        <3>4. QED BY <2>5, <3>3 DEF TypeOk, WriteStagedExtras, Goto, out, Locs
    <2>6. QED BY <1>4, <2>1, <2>2, <2>3, <2>4, <2>5 DEF Stage
<1>5. ASSUME NEW p \in Requests, Promote(p) PROVE TypeOk'
    <2>1. CASE ReadOldManifest(p)
        BY <2>1 DEF TypeOk, ReadOldManifest, PageRoots, StagedFiles, Goto, out, Locs, Units
    <2>2. CASE RemoveSubtree(p)
        <3>1. PICK s \in First(rest[p]) :
                /\ Withdraw({s})
                /\ touched' = [touched EXCEPT ![p] =
                        IF live[s] = 0 THEN touched[p] ELSE touched[p] \cup {s}]
                /\ rest' = [rest EXCEPT ![p] = rest[p] \ {s}]
            BY <2>2 DEF RemoveSubtree
        <3>2. s \in Units
            BY DEF TypeOk, First
        <3>3. /\ touched' \in [Requests -> SUBSET Units]
              /\ rest' \in [Requests -> SUBSET Units]
            BY <3>1, <3>2 DEF TypeOk
        <3>4. QED BY <2>2, <3>1, <3>3, WithdrawType DEF TypeOk, RemoveSubtree
    <2>3. CASE StatFinal(p)
        BY <2>3 DEF TypeOk, StatFinal, Goto, out, Locs, First
    <2>4. CASE SetAside(p)
        <3>1. PICK u \in cur[p] :
                /\ held' = [held EXCEPT ![p] = live[u]]
                /\ live' = [live EXCEPT ![u] = 0]
            BY <2>4 DEF SetAside
        <3>2. u \in Units
            BY DEF TypeOk
        <3>3. /\ held' \in [Requests -> Version]
              /\ live' \in [Units -> Version]
            BY <3>1, <3>2 DEF TypeOk
        <3>4. QED BY <2>4, <3>3 DEF TypeOk, SetAside, Goto, Locs
    <2>5. CASE MoveIn(p)
        <3>1. PICK u \in cur[p] :
                /\ Place(u, plan[p].ver[u])
                /\ rest' = [rest EXCEPT ![p] = rest[p] \ {u}]
                /\ touched' = [touched EXCEPT ![p] = touched[p] \cup {u}]
            BY <2>5 DEF MoveIn
        <3>2. u \in Units /\ plan[p].ver[u] \in Version
            BY DEF TypeOk, Plan
        <3>3. /\ touched' \in [Requests -> SUBSET Units]
              /\ rest' \in [Requests -> SUBSET Units]
            BY <3>1, <3>2 DEF TypeOk
        <3>4. /\ live' \in [Units -> Version]
              /\ pub' \in [Units -> [ver : Version, up : BOOLEAN]]
            BY <3>1, <3>2, PlaceType
        <3>5. QED BY <2>5, <3>3, <3>4 DEF TypeOk, MoveIn, Goto, Locs
    <2>6. CASE DropBackup(p)
        BY <2>6 DEF TypeOk, DropBackup, Goto, out, Locs
    <2>7. CASE PromoteFile(p)
        <3>1. PICK f \in First(rest[p]) :
                /\ Place(f, plan[p].ver[f])
                /\ rest' = [rest EXCEPT ![p] = rest[p] \ {f}]
                /\ touched' = [touched EXCEPT ![p] = touched[p] \cup {f}]
            BY <2>7 DEF PromoteFile
        <3>2. f \in Units /\ plan[p].ver[f] \in Version
            BY DEF TypeOk, Plan, First
        <3>3. /\ touched' \in [Requests -> SUBSET Units]
              /\ rest' \in [Requests -> SUBSET Units]
            BY <3>1, <3>2 DEF TypeOk
        <3>4. /\ live' \in [Units -> Version]
              /\ pub' \in [Units -> [ver : Version, up : BOOLEAN]]
            BY <3>1, <3>2, PlaceType
        <3>5. QED BY <2>7, <3>3, <3>4 DEF TypeOk, PromoteFile
    <2>8. CASE BeginPrune(p)
        BY <2>8 DEF TypeOk, BeginPrune, Goto, out, Locs, Units
    <2>9. CASE PruneStaleRoot(p)
        <3>1. PICK u \in rest[p] :
                /\ Withdraw({u})
                /\ touched' = [touched EXCEPT ![p] =
                        IF live[u] = 0 THEN touched[p] ELSE touched[p] \cup {u}]
                /\ rest' = [rest EXCEPT ![p] = rest[p] \ {u}]
            BY <2>9 DEF PruneStaleRoot
        <3>2. u \in Units
            BY DEF TypeOk, First
        <3>3. /\ touched' \in [Requests -> SUBSET Units]
              /\ rest' \in [Requests -> SUBSET Units]
            BY <3>1, <3>2 DEF TypeOk
        <3>4. QED BY <2>9, <3>1, <3>3, WithdrawType DEF TypeOk, PruneStaleRoot
    <2>10. CASE PromotePagesManifest(p)
        BY <2>10 DEF TypeOk, PromotePagesManifest, PageRoots, StagedFiles, Goto, Locs, Units
    <2>11. CASE CleanupFile(p)
        <3>1. PICK f \in First(rest[p]) :
                /\ Withdraw({f})
                /\ touched' = [touched EXCEPT ![p] =
                        IF live[f] = 0 THEN touched[p] ELSE touched[p] \cup {f}]
                /\ rest' = [rest EXCEPT ![p] = rest[p] \ {f}]
            BY <2>11 DEF CleanupFile
        <3>2. f \in Units
            BY DEF TypeOk, First
        <3>3. /\ touched' \in [Requests -> SUBSET Units]
              /\ rest' \in [Requests -> SUBSET Units]
            BY <3>1, <3>2 DEF TypeOk
        <3>4. QED BY <2>11, <3>1, <3>3, WithdrawType DEF TypeOk, CleanupFile
    <2>12. CASE Promoted(p)
        BY <2>12 DEF TypeOk, Promoted, Goto, out, Locs
    <2>13. QED BY <1>5, <2>1, <2>2, <2>3, <2>4, <2>5, <2>6, <2>7, <2>8, <2>9,
                  <2>10, <2>11, <2>12 DEF Promote
<1>6. ASSUME NEW p \in Requests, WriteAdditiveAssets(p) PROVE TypeOk'
    BY <1>6 DEF TypeOk, WriteAdditiveAssets, Goto, out, Locs
<1>7. ASSUME NEW p \in Requests, Faulty(p) PROVE TypeOk'
    <2>1. CASE Fail(p)
        BY <2>1 DEF TypeOk, Fail, Abort, Goto, out, Locs
    <2>2. CASE FailMoveIn(p)
        <3>1. PICK u \in cur[p] :
                IF held[p] # 0 THEN RestoreBackup(p, u) ELSE UNCHANGED <<live, litter>>
            BY <2>2 DEF FailMoveIn
        <3>2. u \in Units
            BY DEF TypeOk
        <3>3. /\ live' \in [Units -> Version]
              /\ litter' \subseteq (Units \cup {"staging"}) \X Version
            BY <3>1, <3>2 DEF TypeOk, RestoreBackup
        <3>4. /\ pc[p] = "movein"
              /\ faults < MaxFaults /\ faults' = faults + 1
              /\ Abort(p)
              /\ UNCHANGED <<db, lock, plan, rest, oldRoots, touched, manifest,
                             pub, crashes>>
            BY <2>2 DEF FailMoveIn
        <3>5. QED BY <3>3, <3>4 DEF TypeOk, Abort, Goto, Locs
    <2>3. CASE FailRestore(p)
        BY <2>3 DEF TypeOk, FailRestore, Abort, Goto, Locs
    <2>4. CASE FailDropBackup(p)
        BY <2>4 DEF TypeOk, FailDropBackup, Goto, Locs
    <2>5. CASE LoseRace(p)
        BY <2>5 DEF TypeOk, LoseRace, Abort, Goto, Locs
    <2>6. QED BY <1>7, <2>1, <2>2, <2>3, <2>4, <2>5 DEF Faulty
<1>8. ASSUME NEW p \in Requests, Unwind(p) PROVE TypeOk'
    BY <1>8 DEF TypeOk, Unwind, Goto, out, Locs
<1>9. ASSUME NEW h \in Hosts, Crash(h) PROVE TypeOk'
    BY <1>9 DEF TypeOk, Crash, Locs
<1>10. CASE UNCHANGED vars
    BY <1>10 DEF TypeOk, vars, run, out
<1>11. QED
    BY <1>1, <1>2, <1>3, <1>4, <1>5, <1>6, <1>7, <1>8, <1>9, <1>10
       DEF Next, Request, Build

(***************************************************************************)
(* Every variable of the rebuild stays in its domain.                      *)
(***************************************************************************)
THEOREM TypeCorrect == Spec => []TypeOk
BY TypeInit, TypeStep, PTL DEF Spec

-----------------------------------------------------------------------------
(***************************************************************************)
(* One build per host: whoever builds holds the mutex of its host, through *)
(* every error path, and a host's mutex has one holder.                    *)
(***************************************************************************)
LockInv ==
    /\ \A p \in Requests : Building(p) <=> p \in lock
    /\ \A p, q \in lock : p # q => HostOf[p] # HostOf[q]

(* A step of p's own build, which it neither begins nor ends.               *)
LEMMA LockQuiet ==
    ASSUME TypeOk, LockInv, NEW p \in Requests, NEW l \in Locs,
           Goto(p, l), lock' = lock, p \in lock <=> l \notin {"idle", "saved", "run"}
    PROVE  LockInv'
BY DEF TypeOk, LockInv, Building, Goto, Locs

LEMMA LockStep == TypeOk /\ LockInv /\ [Next]_vars => LockInv'
<1> SUFFICES ASSUME TypeOk, LockInv, [Next]_vars PROVE LockInv'
    OBVIOUS
<1>1. ASSUME NEW p \in Requests, Request(p) PROVE LockInv'
    BY <1>1 DEF TypeOk, LockInv, Building, Request, Save, Click, Goto
<1>2. ASSUME NEW p \in Requests, Trigger(p) PROVE LockInv'
    <2>1. CASE MaybeAutoRebuild(p)
        BY <2>1 DEF TypeOk, LockInv, Building, MaybeAutoRebuild, Goto
    <2>2. CASE Start(p)
        BY <2>2 DEF TypeOk, LockInv, Building, Start, LockFree, Goto
    <2>3. CASE Busy(p)
        BY <2>3 DEF TypeOk, LockInv, Building, Busy, Goto
    <2>4. QED BY <1>2, <2>1, <2>2, <2>3 DEF Trigger
<1>3. ASSUME NEW p \in Requests, Stage(p) PROVE LockInv'
    BY <1>3 DEF TypeOk, LockInv, Building, Stage, PrepareBuildEnv, LoadBuildData,
                WritePages, WriteList, WriteStagedExtras, Goto
<1>4. ASSUME NEW p \in Requests, Promote(p) PROVE LockInv'
    <2>1. /\ lock' = lock
          /\ \/ pc' = pc
             \/ \E l \in Locs \ {"idle", "saved", "run"} : Goto(p, l)
          /\ Building(p)
        BY <1>4 DEF Promote, ReadOldManifest, RemoveSubtree, StatFinal, SetAside,
                    MoveIn, DropBackup, PromoteFile, BeginPrune, PruneStaleRoot,
                    PromotePagesManifest, CleanupFile, Promoted, Building, Locs, Goto
    <2>2. CASE pc' = pc
        BY <2>1, <2>2 DEF LockInv, Building
    <2>3. CASE \E l \in Locs \ {"idle", "saved", "run"} : Goto(p, l)
        BY <2>1, <2>3, LockQuiet DEF LockInv
    <2>4. QED BY <2>1, <2>2, <2>3
<1>5. ASSUME NEW p \in Requests, WriteAdditiveAssets(p) PROVE LockInv'
    BY <1>5 DEF TypeOk, LockInv, Building, WriteAdditiveAssets, Goto
<1>6. ASSUME NEW p \in Requests, Faulty(p) PROVE LockInv'
    <2>1. lock' = lock
        BY <1>6 DEF Faulty, Fail, FailMoveIn, FailRestore, FailDropBackup, LoseRace
    <2>2. Building(p)
        BY <1>6 DEF TypeOk, Faulty, Fail, FailMoveIn, FailRestore, FailDropBackup,
                    LoseRace, Building
    <2>3. \E l \in {"unwind", "promote"} : Goto(p, l)
        BY <1>6 DEF Faulty, Fail, FailMoveIn, FailRestore, FailDropBackup, LoseRace,
                    Abort
    <2>4. QED BY <2>1, <2>2, <2>3, LockQuiet DEF LockInv, Locs
<1>7. ASSUME NEW p \in Requests, Unwind(p) PROVE LockInv'
    BY <1>7 DEF TypeOk, LockInv, Building, Unwind, Goto
<1>8. ASSUME NEW h \in Hosts, Crash(h) PROVE LockInv'
    BY <1>8 DEF TypeOk, LockInv, Building, Crash
<1>9. CASE UNCHANGED vars
    BY <1>9 DEF LockInv, Building, vars, run
<1>10. QED
    BY <1>1, <1>2, <1>3, <1>4, <1>5, <1>6, <1>7, <1>8, <1>9 DEF Next, Build

(***************************************************************************)
(* The mutex of Rebuilder.Run: two requests of one host never build at the *)
(* same time, for any assignment of requests to hosts.                     *)
(***************************************************************************)
THEOREM SerialisedPerHost == Spec => []OneBuildPerHost
<1>1. Init => LockInv
    BY DEF Init, LockInv, Building
<1>2. LockInv => OneBuildPerHost
    BY DEF LockInv, OneBuildPerHost
<1>3. QED BY <1>1, <1>2, LockStep, TypeCorrect, PTL DEF Spec

-----------------------------------------------------------------------------
(***************************************************************************)
(* Nothing is lost.  The three facts that make it inductive: what a run is *)
(* about to place exists in its staging, so do the files left to rename,   *)
(* and what is published has a version.                                    *)
(***************************************************************************)
StagedInv ==
    /\ \A p \in Requests : pc[p] \in {"aside", "movein"} =>
          \A u \in cur[p] : plan[p].ver[u] # 0
    /\ \A p \in Requests : pc[p] \in {"promote", "aside", "movein", "dropbackup"} =>
          \A f \in rest[p] \cap TopFiles : plan[p].ver[f] # 0

PublishedInv == \A u \in Units : pub[u].up => pub[u].ver # 0

SwapInv == StagedInv /\ PublishedInv /\ NothingLost

LEMMA StagedStep == TypeOk /\ StagedInv /\ [Next]_vars => StagedInv'
<1> SUFFICES ASSUME TypeOk, StagedInv, [Next]_vars PROVE StagedInv'
    OBVIOUS
<1>1. ASSUME NEW p \in Requests, Request(p) \/ Trigger(p) PROVE StagedInv'
    BY <1>1 DEF TypeOk, StagedInv, Request, Save, Click, Trigger, MaybeAutoRebuild,
                Start, Busy, Goto
<1>2. ASSUME NEW p \in Requests, Stage(p) PROVE StagedInv'
    <2>1. /\ pc[p] \in {"env", "data", "pages", "lists"}
          /\ pc'[p] \in {"data", "pages", "lists", "old"}
          /\ \A q \in Requests \ {p} : /\ pc'[q] = pc[q] /\ plan'[q] = plan[q]
                                       /\ rest'[q] = rest[q] /\ cur'[q] = cur[q]
        BY <1>2 DEF TypeOk, Stage, PrepareBuildEnv, LoadBuildData, WritePages,
                    WriteList, WriteStagedExtras, Goto
    <2>2. QED BY <2>1 DEF StagedInv
<1>3. ASSUME NEW p \in Requests, Promote(p) PROVE StagedInv'
    <2>1. CASE ReadOldManifest(p)
        <3>1. \A u \in rest'[p] \cap TopFiles : plan[p].ver[u] # 0
            BY <2>1, UnitKinds DEF TypeOk, ReadOldManifest, StagedFiles, PageRoots
        <3>2. QED BY <2>1, <3>1 DEF TypeOk, StagedInv, ReadOldManifest, Goto
    <2>2. CASE RemoveSubtree(p)
        BY <2>2 DEF TypeOk, StagedInv, RemoveSubtree, Goto
    <2>3. CASE StatFinal(p)
        BY <2>3 DEF TypeOk, StagedInv, StatFinal, Goto
    <2>4. CASE SetAside(p)
        BY <2>4 DEF TypeOk, StagedInv, SetAside, Goto
    <2>5. CASE MoveIn(p)
        BY <2>5 DEF TypeOk, StagedInv, MoveIn, Goto
    <2>6. CASE DropBackup(p)
        BY <2>6 DEF TypeOk, StagedInv, DropBackup, Goto
    <2>7. CASE PromoteFile(p)
        BY <2>7 DEF TypeOk, StagedInv, PromoteFile, Goto
    <2>8. CASE \/ BeginPrune(p) \/ PruneStaleRoot(p) \/ PromotePagesManifest(p)
               \/ CleanupFile(p) \/ Promoted(p)
        <3>1. pc'[p] \in {"prune", "cleanup", "assets"}
            BY <2>8 DEF TypeOk, BeginPrune, PruneStaleRoot, PromotePagesManifest,
                        CleanupFile, Promoted, Goto
        <3>2. UNCHANGED <<plan, cur>>
            BY <2>8 DEF BeginPrune, PruneStaleRoot, PromotePagesManifest,
                        CleanupFile, Promoted
        <3>3. \A q \in Requests \ {p} : pc'[q] = pc[q] /\ rest'[q] = rest[q]
            BY <2>8 DEF TypeOk, BeginPrune, PruneStaleRoot, PromotePagesManifest,
                        CleanupFile, Promoted, Goto
        <3>4. QED BY <3>1, <3>2, <3>3 DEF StagedInv
    <2>9. QED BY <1>3, <2>1, <2>2, <2>3, <2>4, <2>5, <2>6, <2>7, <2>8 DEF Promote
<1>4. ASSUME NEW p \in Requests, WriteAdditiveAssets(p) \/ Unwind(p) PROVE StagedInv'
    <2>1. CASE WriteAdditiveAssets(p)
        BY <2>1 DEF TypeOk, StagedInv, WriteAdditiveAssets, Goto
    <2>2. CASE Unwind(p)
        BY <2>2 DEF TypeOk, StagedInv, Unwind, Goto
    <2>3. QED BY <1>4, <2>1, <2>2
<1>5. ASSUME NEW p \in Requests, Faulty(p) PROVE StagedInv'
    <2>1. CASE FailDropBackup(p)
        BY <2>1 DEF TypeOk, StagedInv, FailDropBackup, Goto
    <2>2. CASE Fail(p) \/ FailMoveIn(p) \/ FailRestore(p) \/ LoseRace(p)
        <3>1. Abort(p) /\ UNCHANGED <<plan, rest>>
            BY <2>2 DEF Fail, FailMoveIn, FailRestore, LoseRace
        <3>2. QED BY <3>1 DEF TypeOk, StagedInv, Abort, Goto
    <2>3. QED BY <1>5, <2>1, <2>2 DEF Faulty
<1>6. ASSUME NEW h \in Hosts, Crash(h) PROVE StagedInv'
    BY <1>6 DEF TypeOk, StagedInv, Crash
<1>7. CASE UNCHANGED vars
    BY <1>7 DEF StagedInv, vars, run
<1>8. QED BY <1>1, <1>2, <1>3, <1>4, <1>5, <1>6, <1>7 DEF Next, Build

(* A step that leaves OutDir alone, of a run that is not in a swap.         *)
LEMMA NothingLostQuiet ==
    ASSUME NothingLost, NEW p, pc[p] # "movein",
           \A q \in Requests \ {p} :
               pc'[q] = pc[q] /\ cur'[q] = cur[q] /\ held'[q] = held[q],
           UNCHANGED <<live, pub>>, litter \subseteq litter'
    PROVE  NothingLost'
BY DEF NothingLost

(* Placing or withdrawing units on purpose, by a run that held none of the  *)
(* others.                                                                  *)
LEMMA NothingLostPlace ==
    ASSUME TypeOk, NothingLost, NEW p, NEW u \in Units, NEW v \in Version,
           Place(u, v), pc[p] = "movein" => cur[p] \subseteq {u},
           \A q \in Requests \ {p} :
               pc'[q] = pc[q] /\ cur'[q] = cur[q] /\ held'[q] = held[q],
           litter' = litter
    PROVE  NothingLost'
<1> SUFFICES ASSUME NEW w \in Units, pub'[w].up
             PROVE  \/ live'[w] = pub'[w].ver
                    \/ \E q \in Requests : /\ pc'[q] = "movein" /\ w \in cur'[q]
                                           /\ held'[q] = pub'[w].ver
                    \/ <<w, pub'[w].ver>> \in litter'
    BY DEF NothingLost
<1>1. CASE w = u
    BY <1>1 DEF Place, TypeOk
<1>2. CASE w # u
    BY <1>2 DEF Place, TypeOk, NothingLost
<1>3. QED BY <1>1, <1>2

LEMMA NothingLostWithdraw ==
    ASSUME TypeOk, NothingLost, NEW U, Withdraw(U), UNCHANGED <<pc, cur, held, litter>>
    PROVE  NothingLost'
<1>1. \A w \in Units : pub'[w].up =>
          pub[w].up /\ pub'[w].ver = pub[w].ver /\ live'[w] = live[w]
    BY DEF Withdraw, TypeOk
<1>2. QED BY <1>1 DEF NothingLost

LEMMA SwapStep == TypeOk /\ SwapInv /\ [Next]_vars => NothingLost'
<1> SUFFICES ASSUME TypeOk, SwapInv, [Next]_vars PROVE NothingLost'
    OBVIOUS
<1> USE DEF SwapInv
<1>1. ASSUME NEW p \in Requests, Request(p) \/ Trigger(p) PROVE NothingLost'
    <2>1. pc[p] # "movein" /\ UNCHANGED <<cur, held, live, pub, litter>>
        BY <1>1 DEF Request, Save, Click, Trigger, MaybeAutoRebuild, Start, Busy, out
    <2>2. \A q \in Requests \ {p} : pc'[q] = pc[q]
        BY <1>1 DEF TypeOk, Request, Save, Click, Trigger, MaybeAutoRebuild, Start,
                    Busy, Goto
    <2>3. QED BY <2>1, <2>2, NothingLostQuiet
<1>2. ASSUME NEW p \in Requests, Stage(p) \/ WriteAdditiveAssets(p) \/ Unwind(p)
      PROVE  NothingLost'
    <2>1. pc[p] # "movein" /\ UNCHANGED <<cur, held, live, pub, litter>>
        BY <1>2 DEF Stage, PrepareBuildEnv, LoadBuildData, WritePages, WriteList,
                    WriteStagedExtras, WriteAdditiveAssets, Unwind, out
    <2>2. \A q \in Requests \ {p} : pc'[q] = pc[q]
        BY <1>2 DEF TypeOk, Stage, PrepareBuildEnv, LoadBuildData, WritePages,
                    WriteList, WriteStagedExtras, WriteAdditiveAssets, Unwind, Goto
    <2>3. QED BY <2>1, <2>2, NothingLostQuiet
<1>3. ASSUME NEW p \in Requests, Promote(p) PROVE NothingLost'
    <2>1. CASE \/ ReadOldManifest(p) \/ StatFinal(p) \/ DropBackup(p)
               \/ BeginPrune(p) \/ PromotePagesManifest(p) \/ Promoted(p)
        <3>1. pc[p] # "movein" /\ UNCHANGED <<live, pub, litter>>
            BY <2>1 DEF ReadOldManifest, StatFinal, DropBackup, BeginPrune,
                        PromotePagesManifest, Promoted, out
        <3>2. \A q \in Requests \ {p} :
                  pc'[q] = pc[q] /\ cur'[q] = cur[q] /\ held'[q] = held[q]
            BY <2>1 DEF TypeOk, ReadOldManifest, StatFinal, DropBackup, BeginPrune,
                        PromotePagesManifest, Promoted, Goto
        <3>3. QED BY <3>1, <3>2, NothingLostQuiet
    <2>2. CASE RemoveSubtree(p) \/ PruneStaleRoot(p) \/ CleanupFile(p)
        <3>1. /\ \E U : Withdraw(U)
              /\ UNCHANGED <<pc, cur, held, litter>>
            BY <2>2 DEF RemoveSubtree, PruneStaleRoot, CleanupFile
        <3>2. QED BY <3>1, NothingLostWithdraw
    <2>3. CASE SetAside(p)
        BY <2>3 DEF TypeOk, NothingLost, SetAside, Goto
    <2>4. CASE MoveIn(p)
        <3>1. PICK u \in cur[p] : Place(u, plan[p].ver[u])
            BY <2>4 DEF MoveIn
        <3>2. u \in Units /\ cur[p] = {u} /\ plan[p].ver[u] \in Version
            BY DEF TypeOk, Plan
        <3>3. \A q \in Requests \ {p} :
                  pc'[q] = pc[q] /\ cur'[q] = cur[q] /\ held'[q] = held[q]
            BY <2>4 DEF TypeOk, MoveIn, Goto
        <3>4. litter' = litter
            BY <2>4 DEF MoveIn
        <3>5. QED BY <3>1, <3>2, <3>3, <3>4, NothingLostPlace
    <2>5. CASE PromoteFile(p)
        <3>1. PICK f \in First(rest[p]) : Place(f, plan[p].ver[f])
            BY <2>5 DEF PromoteFile
        <3>2. f \in Units /\ plan[p].ver[f] \in Version
            BY DEF TypeOk, Plan, First
        <3>3. pc[p] # "movein" /\ UNCHANGED <<pc, cur, held, litter>>
            BY <2>5 DEF PromoteFile
        <3>4. QED BY <3>1, <3>2, <3>3, NothingLostPlace
    <2>6. QED BY <1>3, <2>1, <2>2, <2>3, <2>4, <2>5 DEF Promote
<1>4. ASSUME NEW p \in Requests, Faulty(p) PROVE NothingLost'
    <2>1. \A q \in Requests \ {p} :
              pc'[q] = pc[q] /\ cur'[q] = cur[q] /\ held'[q] = held[q]
        BY <1>4 DEF TypeOk, Faulty, Fail, FailMoveIn, FailRestore, FailDropBackup,
                    LoseRace, Abort, Goto
    <2>2. CASE Fail(p) \/ FailDropBackup(p)
        <3>1. pc[p] # "movein" /\ UNCHANGED <<live, pub>> /\ litter \subseteq litter'
            BY <2>2 DEF Fail, FailDropBackup, out
        <3>2. QED BY <3>1, <2>1, NothingLostQuiet
    <2>3. CASE FailMoveIn(p)
        <3>1. PICK u \in cur[p] :
                /\ live[u] = 0
                /\ IF held[p] # 0 THEN RestoreBackup(p, u) ELSE UNCHANGED <<live, litter>>
            BY <2>3 DEF FailMoveIn
        <3>2. u \in Units /\ cur[p] = {u} /\ pub' = pub
            BY <2>3 DEF TypeOk, FailMoveIn
        <3> SUFFICES ASSUME NEW w \in Units, pub[w].up
                     PROVE  \/ live'[w] = pub'[w].ver
                            \/ \E q \in Requests : /\ pc'[q] = "movein" /\ w \in cur'[q]
                                                   /\ held'[q] = pub'[w].ver
                            \/ <<w, pub'[w].ver>> \in litter'
            BY <3>2 DEF NothingLost
        <3>3. pub[w].ver # 0
            BY DEF PublishedInv
        <3>4. CASE live[w] = pub[w].ver
            BY <3>1, <3>2, <3>3, <3>4 DEF TypeOk, RestoreBackup
        <3>5. CASE <<w, pub[w].ver>> \in litter
            BY <3>1, <3>2, <3>5 DEF RestoreBackup
        <3>6. CASE \E q \in Requests : pc[q] = "movein" /\ w \in cur[q] /\ held[q] = pub[w].ver
            <4>1. PICK q \in Requests : pc[q] = "movein" /\ w \in cur[q] /\ held[q] = pub[w].ver
                BY <3>6
            <4>2. CASE q = p
                BY <4>1, <4>2, <3>1, <3>2, <3>3 DEF TypeOk, RestoreBackup
            <4>3. CASE q # p
                BY <4>1, <4>3, <2>1, <3>2
            <4>4. QED BY <4>2, <4>3
        <3>7. QED BY <3>4, <3>5, <3>6 DEF NothingLost
    <2>4. CASE FailRestore(p)
        BY <2>4, <2>1 DEF TypeOk, PublishedInv, NothingLost, FailRestore
    <2>5. CASE LoseRace(p)
        <3>1. PICK u \in cur[p] :
                \/ pc[p] = "aside" /\ UNCHANGED litter
                \/ pc[p] = "movein" /\ litter' = IF held[p] # 0
                                                 THEN litter \cup {<<u, held[p]>>}
                                                 ELSE litter
            BY <2>5 DEF LoseRace
        <3>2. cur[p] = {u} /\ UNCHANGED <<live, pub>> /\ litter \subseteq litter'
            BY <2>5, <3>1 DEF TypeOk, LoseRace
        <3>3. CASE pc[p] = "aside"
            BY <3>2, <3>3, <2>1, NothingLostQuiet
        <3>4. CASE pc[p] = "movein"
            <4>1. \A w \in Units : pub[w].up => pub[w].ver # 0
                BY DEF PublishedInv
            <4>2. held[p] # 0 => <<u, held[p]>> \in litter'
                BY <3>1, <3>4
            <4>3. QED BY <4>1, <4>2, <3>2, <2>1 DEF NothingLost
        <3>5. QED BY <3>1, <3>3, <3>4
    <2>6. QED BY <1>4, <2>2, <2>3, <2>4, <2>5 DEF Faulty
<1>5. ASSUME NEW h \in Hosts, Crash(h) PROVE NothingLost'
    BY <1>5 DEF TypeOk, PublishedInv, NothingLost, Crash
<1>6. CASE UNCHANGED vars
    BY <1>6 DEF NothingLost, vars, run, out
<1>7. QED BY <1>1, <1>2, <1>3, <1>4, <1>5, <1>6 DEF Next, Build

LEMMA PublishedStep == TypeOk /\ StagedInv /\ PublishedInv /\ [Next]_vars => PublishedInv'
<1> SUFFICES ASSUME TypeOk, StagedInv, PublishedInv, [Next]_vars PROVE PublishedInv'
    OBVIOUS
<1>1. CASE pub' = pub
    BY <1>1 DEF PublishedInv
<1>2. ASSUME NEW U, Withdraw(U) PROVE PublishedInv'
    BY <1>2 DEF TypeOk, PublishedInv, Withdraw
<1>3. ASSUME NEW u \in Units, NEW v \in Version \ {0}, Place(u, v) PROVE PublishedInv'
    BY <1>3 DEF TypeOk, PublishedInv, Place
<1>4. ASSUME NEW p \in Requests, MoveIn(p) PROVE PublishedInv'
    <2>1. pc[p] = "movein" /\ \E u \in cur[p] : Place(u, plan[p].ver[u])
        BY <1>4 DEF MoveIn
    <2>. PICK u \in cur[p] : Place(u, plan[p].ver[u])
        BY <2>1
    <2>2. u \in Units /\ plan[p].ver[u] \in Version
        BY DEF TypeOk, Plan
    <2>3. plan[p].ver[u] # 0
        BY <2>1 DEF StagedInv
    <2>4. QED BY <1>3, <2>2, <2>3
<1>5. ASSUME NEW p \in Requests, PromoteFile(p) PROVE PublishedInv'
    <2>1. PICK f \in First(rest[p]) \cap TopFiles : Place(f, plan[p].ver[f])
        BY <1>5 DEF PromoteFile
    <2>2. f \in Units /\ plan[p].ver[f] \in Version \ {0}
        BY <1>5 DEF TypeOk, StagedInv, Plan, PromoteFile, First
    <2>3. QED BY <1>3, <2>1, <2>2
<1>6. ASSUME NEW p \in Requests, Promote(p) PROVE PublishedInv'
    <2>1. CASE RemoveSubtree(p) \/ PruneStaleRoot(p) \/ CleanupFile(p)
        <3>1. PICK U : Withdraw(U)
            BY <2>1 DEF RemoveSubtree, PruneStaleRoot, CleanupFile
        <3>2. QED BY <3>1, <1>2
    <2>2. CASE \/ ReadOldManifest(p) \/ StatFinal(p) \/ SetAside(p) \/ DropBackup(p)
               \/ BeginPrune(p) \/ PromotePagesManifest(p) \/ Promoted(p)
        BY <2>2, <1>1 DEF ReadOldManifest, StatFinal, SetAside, DropBackup, BeginPrune,
                          PromotePagesManifest, Promoted, out
    <2>3. QED BY <1>6, <2>1, <2>2, <1>4, <1>5 DEF Promote
<1>7. ASSUME NEW p \in Requests,
             Request(p) \/ Trigger(p) \/ Stage(p) \/ WriteAdditiveAssets(p) \/ Unwind(p)
      PROVE  PublishedInv'
    BY <1>7, <1>1 DEF Request, Save, Click, Trigger, MaybeAutoRebuild, Start, Busy, Stage,
                PrepareBuildEnv, LoadBuildData, WritePages, WriteList,
                WriteStagedExtras, WriteAdditiveAssets, Unwind, out
<1>8. ASSUME NEW p \in Requests, Faulty(p) PROVE PublishedInv'
    BY <1>8, <1>1 DEF Faulty, Fail, FailMoveIn, FailRestore, FailDropBackup, LoseRace, out
<1>9. ASSUME NEW h \in Hosts, Crash(h) PROVE PublishedInv'
    BY <1>9, <1>1 DEF Crash
<1>10. CASE UNCHANGED vars
    BY <1>10, <1>1 DEF vars, out
<1>11. QED BY <1>6, <1>7, <1>8, <1>9, <1>10 DEF Next, Build

(***************************************************************************)
(* The backup-and-rename swap never destroys the only copy of what was     *)
(* published and not withdrawn: no failure, kill or concurrent host does,  *)
(* whichever requests share a mutex.                                       *)
(***************************************************************************)
THEOREM NothingIsLost == Spec => []NothingLost
<1>1. Init => SwapInv
    BY DEF Init, SwapInv, StagedInv, PublishedInv, NothingLost
<1>2. TypeOk /\ SwapInv /\ [Next]_vars => SwapInv'
    BY StagedStep, PublishedStep, SwapStep DEF SwapInv
<1>3. SwapInv => NothingLost
    BY DEF SwapInv
<1>4. QED BY <1>1, <1>2, <1>3, TypeCorrect, PTL DEF Spec

-----------------------------------------------------------------------------
(***************************************************************************)
(* Never older.  With one host a build cannot meet another one: what it    *)
(* reads is at least as new as what is published, and nothing is published *)
(* before it places what it read.                                          *)
(***************************************************************************)
OneHost == \A p, q \in Requests : HostOf[p] = HostOf[q]

FreshInv ==
    /\ \A u \in Units : pub[u].ver <= db.ver
    /\ \A p \in Requests : ~Building(p) =>
          \A u \in Units : plan[p].ver[u] = 0
    /\ \A p \in Requests, u \in Units :
          plan[p].ver[u] # 0 => plan[p].ver[u] \in pub[u].ver .. db.ver
    /\ \A p \in Requests : pc[p] \in {"data", "pages", "lists"} =>
          /\ plan[p].envVer <= db.ver
          /\ \A u \in Units : pub[u].ver <= plan[p].envVer

(* Steps of one request that publish nothing and leave its plan as it was.  *)
LEMMA FreshQuiet ==
    ASSUME TypeOk, FreshInv, NEW p \in Requests, UNCHANGED <<plan, pub>>,
           \A q \in Requests \ {p} : pc'[q] = pc[q],
           db'.ver \in Version, db.ver <= db'.ver,
           pc'[p] \in {"data", "pages", "lists"} => pc[p] \in {"data", "pages", "lists"},
           Building(p) => Building(p)'
    PROVE  FreshInv'
<1>1. /\ db.ver \in Nat /\ db'.ver \in Nat
      /\ \A u \in Units : pub[u].ver \in Nat
    BY BoundsAssumption DEF TypeOk, Version
<1>2. \A q \in Requests : /\ plan[q].envVer \in Nat
                          /\ \A u \in Units : plan[q].ver[u] \in Nat
    BY BoundsAssumption DEF TypeOk, Version, Plan
<1>3. \A q \in Requests : ~Building(q)' => ~Building(q)
    BY DEF Building
<1>4. \A u \in Units : pub'[u].ver <= db'.ver
    BY <1>1 DEF FreshInv
<1>5. \A q \in Requests : ~Building(q)' => \A u \in Units : plan'[q].ver[u] = 0
    BY <1>3 DEF FreshInv
<1>6. \A q \in Requests, u \in Units :
          plan'[q].ver[u] # 0 => plan'[q].ver[u] \in pub'[u].ver .. db'.ver
    <2> SUFFICES ASSUME NEW q \in Requests, NEW u \in Units, plan[q].ver[u] # 0
                 PROVE  plan[q].ver[u] \in pub[u].ver .. db'.ver
        OBVIOUS
    <2>1. plan[q].ver[u] \in pub[u].ver .. db.ver
        BY DEF FreshInv
    <2>2. QED BY <2>1, <1>1, <1>2
<1>7. \A q \in Requests : pc'[q] \in {"data", "pages", "lists"} =>
          /\ plan'[q].envVer <= db'.ver
          /\ \A u \in Units : pub'[u].ver <= plan'[q].envVer
    <2> SUFFICES ASSUME NEW q \in Requests, pc'[q] \in {"data", "pages", "lists"}
                 PROVE  /\ plan[q].envVer <= db'.ver
                        /\ \A u \in Units : pub[u].ver <= plan[q].envVer
        OBVIOUS
    <2>1. pc[q] \in {"data", "pages", "lists"}
        OBVIOUS
    <2>2. plan[q].envVer <= db.ver /\ \A u \in Units : pub[u].ver <= plan[q].envVer
        BY <2>1 DEF FreshInv
    <2>3. QED BY <2>2, <1>1, <1>2
<1>8. QED BY <1>4, <1>5, <1>6, <1>7 DEF FreshInv

(* A read: the plan of p takes versions that are not older than what is     *)
(* published.                                                               *)
LEMMA FreshRead ==
    ASSUME TypeOk, FreshInv, NEW p \in Requests, UNCHANGED <<db, pub>>,
           \A q \in Requests \ {p} : pc'[q] = pc[q] /\ plan'[q] = plan[q],
           Building(p)',
           \A u \in Units : plan'[p].ver[u] # 0 =>
               plan'[p].ver[u] \in pub[u].ver .. db.ver,
           pc'[p] \in {"data", "pages", "lists"} =>
               /\ plan'[p].envVer <= db.ver
               /\ \A u \in Units : pub[u].ver <= plan'[p].envVer
    PROVE  FreshInv'
BY DEF FreshInv, Building

(* A unit is placed by the only run there is.                               *)
LEMMA FreshPlace ==
    ASSUME TypeOk, FreshInv, OneHost, LockInv, NEW p \in Requests, Building(p),
           pc[p] \notin {"data", "pages", "lists"}, NEW u \in Units,
           Place(u, plan[p].ver[u]), plan[p].ver[u] # 0,
           UNCHANGED <<db, plan>>,
           \A q \in Requests \ {p} : pc'[q] = pc[q],
           pc'[p] \notin {"data", "pages", "lists"}, Building(p)'
    PROVE  FreshInv' /\ \A w \in Units : pub[w].ver <= pub'[w].ver
<1>1. \A w \in Units : /\ pub[w].ver \in Nat /\ db.ver \in Nat
                       /\ plan[p].ver[w] \in Nat
    BY BoundsAssumption DEF TypeOk, Version, Plan
<1>2. \A w \in Units : pub'[w].ver = IF w = u THEN plan[p].ver[u] ELSE pub[w].ver
    BY DEF Place, TypeOk
<1>3. plan[p].ver[u] \in pub[u].ver .. db.ver
    BY DEF FreshInv
<1>4. \A q \in Requests \ {p} : ~Building(q)
    BY DEF OneHost, LockInv
<1>5. \A q \in Requests \ {p} : /\ pc'[q] \notin {"data", "pages", "lists"}
                                /\ \A w \in Units : plan[q].ver[w] = 0
    BY <1>4 DEF FreshInv, Building
<1>6. \A w \in Units : pub'[w].ver <= db.ver
    BY <1>1, <1>2, <1>3 DEF FreshInv
<1>7. \A w \in Units : plan[p].ver[w] # 0 => plan[p].ver[w] \in pub'[w].ver .. db.ver
    BY <1>1, <1>2, <1>3 DEF FreshInv
<1>8. FreshInv'
    BY <1>5, <1>6, <1>7 DEF FreshInv
<1>9. QED BY <1>1, <1>2, <1>3, <1>8

LEMMA FreshWithdraw ==
    ASSUME TypeOk, FreshInv, NEW U, Withdraw(U), UNCHANGED <<db, plan, pc>>
    PROVE  FreshInv' /\ \A w \in Units : pub'[w].ver = pub[w].ver
<1>1. \A w \in Units : pub'[w].ver = pub[w].ver
    BY DEF Withdraw, TypeOk
<1>2. QED BY <1>1 DEF FreshInv, Building

LEMMA FreshStep ==
    ASSUME OneHost
    PROVE  TypeOk /\ LockInv /\ StagedInv /\ FreshInv /\ [Next]_vars
           => FreshInv' /\ \A u \in Units : pub[u].ver <= pub'[u].ver
<1> DEFINE Grows == \A u \in Units : pub[u].ver <= pub'[u].ver
<1> SUFFICES ASSUME TypeOk, LockInv, StagedInv, FreshInv, [Next]_vars
             PROVE  FreshInv' /\ Grows
    OBVIOUS
<1>1. /\ db.ver \in Nat
      /\ \A u \in Units : pub[u].ver \in Nat
      /\ \A q \in Requests : /\ plan[q].envVer \in Nat
                             /\ \A u \in Units : plan[q].ver[u] \in Nat
    BY BoundsAssumption DEF TypeOk, Version, Plan
<1>2. pub' = pub => Grows
    BY <1>1
<1>3. ASSUME NEW p \in Requests, Request(p) \/ Trigger(p) PROVE FreshInv' /\ Grows
    <2>1. UNCHANGED <<plan, pub>>
        BY <1>3 DEF Request, Save, Click, Trigger, MaybeAutoRebuild, Start, Busy, out
    <2>2. \A q \in Requests \ {p} : pc'[q] = pc[q]
        BY <1>3 DEF TypeOk, Request, Save, Click, Trigger, MaybeAutoRebuild, Start,
                    Busy, Goto
    <2>3. db'.ver \in Version /\ db.ver <= db'.ver
        <3>1. CASE Save(p)
            BY <3>1, <1>1, BoundsAssumption DEF Save, Version
        <3>2. CASE db' = db
            BY <3>2, <1>1 DEF TypeOk
        <3>3. QED BY <1>3, <3>1, <3>2
                  DEF Request, Click, Trigger, MaybeAutoRebuild, Start, Busy
    <2>4. ~Building(p) /\ pc'[p] \notin {"data", "pages", "lists"}
        BY <1>3 DEF TypeOk, Request, Save, Click, Trigger, MaybeAutoRebuild, Start,
                    Busy, Goto, Building
    <2>5. QED BY <1>2, <2>1, <2>2, <2>3, <2>4, FreshQuiet
<1>4. ASSUME NEW p \in Requests, Stage(p) PROVE FreshInv' /\ Grows
    <2>1. /\ UNCHANGED <<db, pub>>
          /\ \A q \in Requests \ {p} : pc'[q] = pc[q] /\ plan'[q] = plan[q]
          /\ pc[p] \in {"env", "data", "pages", "lists"}
          /\ pc'[p] \in {"data", "pages", "lists", "old"}
        BY <1>4 DEF TypeOk, Stage, PrepareBuildEnv, LoadBuildData, WritePages,
                    WriteList, WriteStagedExtras, Goto, out
    <2>2. Building(p)' /\ Building(p)
        BY <2>1 DEF Building
    <2>3. CASE PrepareBuildEnv(p)
        <3>1. plan'[p].envVer = db.ver /\ \A u \in Units : plan'[p].ver[u] = 0
            BY <2>3 DEF TypeOk, PrepareBuildEnv, NoPlan
        <3>2. QED BY <3>1, <2>1, <2>2, <1>1, <1>2, FreshRead DEF FreshInv
    <2>4. CASE ~PrepareBuildEnv(p)
        <3>1. pc[p] \in {"data", "pages", "lists"} /\ plan'[p].envVer = plan[p].envVer
            BY <1>4, <2>4 DEF TypeOk, Plan, Stage, LoadBuildData, WritePages, WriteList,
                              WriteStagedExtras
        <3>2. \A u \in Units : plan'[p].ver[u] \in
                  {0, plan[p].ver[u], db.ver, plan[p].envVer}
            <4>1. CASE LoadBuildData(p)
                BY <4>1 DEF TypeOk, Plan, LoadBuildData
            <4>2. CASE WritePages(p)
                BY <4>2 DEF TypeOk, Plan, WritePages
            <4>3. CASE WriteList(p)
                <5>1. PICK s \in First(rest[p]) :
                        plan' = [plan EXCEPT ![p].ver[s] =
                                    IF s \in db.site.subs THEN db.ver ELSE 0]
                    BY <4>3 DEF WriteList
                <5>2. QED BY <5>1 DEF TypeOk, Plan
            <4>4. CASE WriteStagedExtras(p)
                BY <4>4 DEF TypeOk, Plan, WriteStagedExtras
            <4>5. QED BY <1>4, <2>4, <4>1, <4>2, <4>3, <4>4 DEF Stage
        <3>3. \A u \in Units : plan'[p].ver[u] # 0 =>
                  plan'[p].ver[u] \in pub[u].ver .. db.ver
            BY <3>1, <3>2, <1>1 DEF FreshInv
        <3>4. plan'[p].envVer <= db.ver /\ \A u \in Units : pub[u].ver <= plan'[p].envVer
            BY <3>1 DEF FreshInv
        <3>5. QED BY <3>3, <3>4, <2>1, <2>2, <1>2, FreshRead
    <2>5. QED BY <2>3, <2>4
<1>5. ASSUME NEW p \in Requests, Promote(p) PROVE FreshInv' /\ Grows
    <2>1. CASE MoveIn(p)
        <3>1. PICK u \in cur[p] : Place(u, plan[p].ver[u])
            BY <2>1 DEF MoveIn
        <3>2. pc[p] = "movein" /\ UNCHANGED <<db, plan>>
            BY <2>1 DEF MoveIn
        <3>3. /\ pc'[p] \in {"dropbackup", "promote"}
              /\ \A q \in Requests \ {p} : pc'[q] = pc[q]
            BY <2>1 DEF TypeOk, MoveIn, Goto
        <3>4. u \in Units /\ plan[p].ver[u] # 0
            BY <3>2 DEF TypeOk, StagedInv
        <3>5. QED BY <3>1, <3>2, <3>3, <3>4, FreshPlace DEF Building
    <2>2. CASE PromoteFile(p)
        <3>1. PICK f \in First(rest[p]) \cap TopFiles : Place(f, plan[p].ver[f])
            BY <2>2 DEF PromoteFile
        <3>2. pc[p] = "promote" /\ UNCHANGED <<db, plan, pc>>
            BY <2>2 DEF PromoteFile
        <3>3. f \in Units /\ plan[p].ver[f] # 0
            BY <3>2 DEF TypeOk, StagedInv, First
        <3>4. QED BY <3>1, <3>2, <3>3, FreshPlace DEF Building
    <2>3. CASE RemoveSubtree(p) \/ PruneStaleRoot(p) \/ CleanupFile(p)
        <3>1. PICK U : Withdraw(U)
            BY <2>3 DEF RemoveSubtree, PruneStaleRoot, CleanupFile
        <3>2. UNCHANGED <<db, plan, pc>>
            BY <2>3 DEF RemoveSubtree, PruneStaleRoot, CleanupFile
        <3>3. QED BY <3>1, <3>2, <1>1, FreshWithdraw
    <2>4. CASE \/ ReadOldManifest(p) \/ StatFinal(p) \/ SetAside(p) \/ DropBackup(p)
               \/ BeginPrune(p) \/ PromotePagesManifest(p) \/ Promoted(p)
        <3>1. UNCHANGED <<db, plan, pub>>
            BY <2>4 DEF ReadOldManifest, StatFinal, SetAside, DropBackup, BeginPrune,
                        PromotePagesManifest, Promoted, out
        <3>2. /\ pc'[p] \in {"promote", "aside", "movein", "prune", "cleanup", "assets"}
              /\ \A q \in Requests \ {p} : pc'[q] = pc[q]
            BY <2>4 DEF TypeOk, ReadOldManifest, StatFinal, SetAside, DropBackup,
                        BeginPrune, PromotePagesManifest, Promoted, Goto
        <3>3. db'.ver \in Version /\ db.ver <= db'.ver
            BY <3>1, <1>1 DEF TypeOk
        <3>4. QED BY <3>1, <3>2, <3>3, <1>2, FreshQuiet DEF Building
    <2>5. QED BY <1>5, <2>1, <2>2, <2>3, <2>4 DEF Promote
<1>6. ASSUME NEW p \in Requests, Faulty(p) \/ WriteAdditiveAssets(p)
      PROVE  FreshInv' /\ Grows
    <2>1. UNCHANGED <<db, plan, pub>>
        BY <1>6 DEF Faulty, Fail, FailMoveIn, FailRestore, FailDropBackup, LoseRace,
                    WriteAdditiveAssets, out
    <2>2. pc'[p] \in {"promote", "unwind"} /\ \A q \in Requests \ {p} : pc'[q] = pc[q]
        BY <1>6 DEF TypeOk, Faulty, Fail, FailMoveIn, FailRestore, FailDropBackup,
                    LoseRace, Abort, WriteAdditiveAssets, Goto
    <2>3. db'.ver \in Version /\ db.ver <= db'.ver
        BY <2>1, <1>1 DEF TypeOk
    <2>4. QED BY <2>1, <2>2, <2>3, <1>2, FreshQuiet DEF Building
<1>7. ASSUME NEW p \in Requests, Unwind(p) PROVE FreshInv' /\ Grows
    <2>1. /\ UNCHANGED <<db, pub>>
          /\ \A q \in Requests \ {p} : pc'[q] = pc[q] /\ plan'[q] = plan[q]
          /\ pc'[p] = "idle"
          /\ \A u \in Units : plan'[p].ver[u] = 0
        BY <1>7 DEF TypeOk, Unwind, Goto, out, NoPlan
    <2>2. QED BY <2>1, <1>2 DEF FreshInv, Building
<1>8. ASSUME NEW h \in Hosts, Crash(h) PROVE FreshInv' /\ Grows
    <2>1. /\ UNCHANGED <<db, pub>>
          /\ \A q \in Requests : \/ pc'[q] = pc[q] /\ plan'[q] = plan[q]
                                 \/ pc'[q] = "idle" /\ plan'[q] = NoPlan
        BY <1>8 DEF TypeOk, Crash
    <2>2. QED BY <2>1, <1>2 DEF FreshInv, Building, NoPlan
<1>9. CASE UNCHANGED vars
    BY <1>9, <1>2 DEF FreshInv, Building, vars, run, out
<1>10. QED BY <1>3, <1>4, <1>5, <1>6, <1>7, <1>8, <1>9 DEF Next, Build

(***************************************************************************)
(* The server, whose requests share one mutex: content once published is   *)
(* never replaced by content read from the database before it, for any     *)
(* number of requests, saves, failures and kills.                          *)
(***************************************************************************)
THEOREM ServerNeverOlder == OneHost => (Spec => NeverOlder)
<1> SUFFICES ASSUME OneHost PROVE Spec => NeverOlder
    OBVIOUS
<1>1. Init => LockInv /\ StagedInv /\ FreshInv
    BY DEF Init, LockInv, StagedInv, FreshInv, Building, NoPlan
<1>2. TypeOk /\ LockInv /\ StagedInv /\ FreshInv /\ [Next]_vars
      => /\ LockInv' /\ StagedInv' /\ FreshInv'
         /\ [\A u \in Units : pub[u].ver <= pub'[u].ver]_vars
    BY LockStep, StagedStep, FreshStep
<1>3. QED BY <1>1, <1>2, TypeCorrect, PTL DEF Spec, NeverOlder

-----------------------------------------------------------------------------
(***************************************************************************)
(* The loops of promoteStaging, on one host.  What the current loop has    *)
(* visited is in place, what it is about to swap is where the swap expects *)
(* it, and a version is held aside only inside a swap.                     *)
(***************************************************************************)
Wanted(p) == Subtrees \cup StagedFiles(p) \cup PageRoots(p)

InPlace(p, U) == \A u \in U : live[u] = plan[p].ver[u]

SwapLoopOk(p) ==
    /\ pc[p] \in {"promote", "aside", "movein", "dropbackup"} =>
          InPlace(p, Wanted(p) \ rest[p])
    /\ pc[p] \in {"aside", "movein"} => cur[p] \subseteq rest[p]
    /\ pc[p] = "aside" => \A u \in cur[p] : live[u] # 0
    /\ pc[p] = "movein" => \A u \in cur[p] : live[u] = 0

PruneLoopOk(p) ==
    /\ pc[p] \in {"prune", "cleanup", "assets"} => InPlace(p, Wanted(p))
    /\ pc[p] = "prune" => rest[p] \cap Wanted(p) = {}
    /\ pc[p] \in {"cleanup", "assets"} => manifest = PageRoots(p)
    /\ pc[p] = "cleanup" => /\ rest[p] \subseteq ToggledFiles \ StagedFiles(p)
                            /\ InPlace(p, ToggledFiles \ rest[p])
    /\ pc[p] = "assets" => InPlace(p, ToggledFiles)

LoopInv == \A p \in Requests : SwapLoopOk(p) /\ PruneLoopOk(p)

HeldInv == \A p \in Requests : held[p] # 0 => pc[p] \in {"movein", "dropbackup"}

(* Where no loop of promoteStaging runs, its invariant says nothing.        *)
LEMMA LoopElsewhere ==
    ASSUME NEW p, pc'[p] \notin {"promote", "aside", "movein", "dropbackup",
                                 "prune", "cleanup", "assets"}
    PROVE  SwapLoopOk(p)' /\ PruneLoopOk(p)'
BY DEF SwapLoopOk, PruneLoopOk

(* On one host whoever builds is the only one to.                           *)
LEMMA OnlyBuilder ==
    ASSUME OneHost, LockInv, NEW p \in Requests, Building(p)
    PROVE  \A q \in Requests \ {p} : ~Building(q)
BY DEF OneHost, LockInv

LEMMA LoopOne ==
    ASSUME OneHost, LockInv, NEW p \in Requests, Building(p),
           \A q \in Requests \ {p} : pc'[q] = pc[q],
           SwapLoopOk(p)', PruneLoopOk(p)'
    PROVE  LoopInv'
<1>1. ASSUME NEW q \in Requests \ {p} PROVE SwapLoopOk(q)' /\ PruneLoopOk(q)'
    BY OnlyBuilder, LoopElsewhere DEF Building
<1>2. QED BY <1>1 DEF LoopInv

LEMMA HeldStep == TypeOk /\ HeldInv /\ [Next]_vars => HeldInv'
<1> SUFFICES ASSUME TypeOk, HeldInv, [Next]_vars PROVE HeldInv'
    OBVIOUS
<1>1. ASSUME NEW p \in Requests,
             \/ Request(p) \/ Trigger(p) \/ Stage(p) \/ WriteAdditiveAssets(p) \/ Unwind(p)
      PROVE  HeldInv'
    <2>1. /\ held' = held
          /\ pc[p] \notin {"movein", "dropbackup"}
          /\ \A q \in Requests \ {p} : pc'[q] = pc[q]
        BY <1>1 DEF TypeOk, Request, Save, Click, Trigger, MaybeAutoRebuild, Start, Busy,
                    Stage, PrepareBuildEnv, LoadBuildData, WritePages, WriteList,
                    WriteStagedExtras, WriteAdditiveAssets, Unwind, Goto
    <2>2. QED BY <2>1 DEF HeldInv
<1>2. ASSUME NEW p \in Requests, Promote(p) PROVE HeldInv'
    <2>1. \A q \in Requests \ {p} : pc'[q] = pc[q] /\ held'[q] = held[q]
        BY <1>2 DEF TypeOk, Promote, ReadOldManifest, RemoveSubtree, StatFinal, SetAside,
                    MoveIn, DropBackup, PromoteFile, BeginPrune, PruneStaleRoot,
                    PromotePagesManifest, CleanupFile, Promoted, Goto
    <2>2. CASE SetAside(p)
        BY <2>1, <2>2 DEF TypeOk, HeldInv, SetAside, Goto
    <2>3. CASE MoveIn(p)
        BY <2>1, <2>3 DEF TypeOk, HeldInv, MoveIn, Goto
    <2>4. CASE DropBackup(p)
        BY <2>1, <2>4 DEF TypeOk, HeldInv, DropBackup, Goto
    <2>5. CASE ~(SetAside(p) \/ MoveIn(p) \/ DropBackup(p))
        <3>1. held' = held /\ pc[p] \notin {"movein", "dropbackup"}
            BY <1>2, <2>5 DEF Promote, ReadOldManifest, RemoveSubtree, StatFinal,
                    PromoteFile, BeginPrune, PruneStaleRoot,
                    PromotePagesManifest, CleanupFile, Promoted
        <3>2. QED BY <2>1, <3>1 DEF HeldInv
    <2>6. QED BY <2>2, <2>3, <2>4, <2>5
<1>3. ASSUME NEW p \in Requests, Faulty(p) PROVE HeldInv'
    <2>1. held' = [held EXCEPT ![p] = 0] /\ \E l \in Locs : Goto(p, l)
        BY <1>3 DEF Faulty, Fail, FailMoveIn, FailRestore, FailDropBackup, LoseRace,
                    Abort, Locs
    <2>2. QED BY <2>1 DEF TypeOk, HeldInv, Goto
<1>4. ASSUME NEW h \in Hosts, Crash(h) PROVE HeldInv'
    BY <1>4 DEF TypeOk, HeldInv, Crash
<1>5. CASE UNCHANGED vars
    BY <1>5 DEF HeldInv, vars, run
<1>6. QED BY <1>1, <1>2, <1>3, <1>4, <1>5 DEF Next, Build

(* One step of promoteStaging keeps its own loop.                           *)
LEMMA PromoteLoop ==
    ASSUME TypeOk, LoopInv, NEW p \in Requests, Promote(p)
    PROVE  SwapLoopOk(p)' /\ PruneLoopOk(p)'
<1> USE DEF TypeOk, Goto
<1>0. /\ SwapLoopOk(p) /\ PruneLoopOk(p)
      /\ Wanted(p) \subseteq Units /\ ToggledFiles \subseteq Units
      /\ First(rest[p]) \subseteq rest[p]
    BY UnitKinds DEF LoopInv, Wanted, StagedFiles, PageRoots, Units, First
<1>1. plan' = plan /\ Wanted(p)' = Wanted(p) /\ PageRoots(p)' = PageRoots(p)
                   /\ StagedFiles(p)' = StagedFiles(p)
    BY DEF Promote, ReadOldManifest, RemoveSubtree, StatFinal, SetAside, MoveIn,
           DropBackup, PromoteFile, BeginPrune, PruneStaleRoot,
           PromotePagesManifest, CleanupFile, Promoted, Wanted, StagedFiles, PageRoots
<1>2. CASE ReadOldManifest(p)
    BY <1>1, <1>2 DEF ReadOldManifest, SwapLoopOk, PruneLoopOk, InPlace, Wanted
<1>3. CASE RemoveSubtree(p)
    <2>1. PICK s \in First(rest[p]) :
            /\ plan[p].ver[s] = 0
            /\ Withdraw({s})
            /\ rest' = [rest EXCEPT ![p] = rest[p] \ {s}]
        BY <1>3 DEF RemoveSubtree
    <2>2. pc[p] = "promote" /\ pc' = pc /\ rest'[p] = rest[p] \ {s}
        BY <1>3, <2>1 DEF RemoveSubtree
    <2>3. \A u \in Units : live'[u] = IF u = s THEN 0 ELSE live[u]
        BY <2>1 DEF Withdraw
    <2>4. InPlace(p, Wanted(p) \ rest[p])
        BY <1>0, <2>2 DEF SwapLoopOk
    <2>5. InPlace(p, Wanted(p) \ rest[p])'
        BY <1>0, <1>1, <2>1, <2>2, <2>3, <2>4 DEF InPlace
    <2>6. QED BY <2>2, <2>5 DEF SwapLoopOk, PruneLoopOk
<1>4. CASE StatFinal(p)
    <2>1. PICK u \in First(rest[p]) :
            /\ cur' = [cur EXCEPT ![p] = {u}]
            /\ pc' = [pc EXCEPT ![p] = IF live[u] # 0 THEN "aside" ELSE "movein"]
        BY <1>4 DEF StatFinal
    <2>2. pc[p] = "promote" /\ UNCHANGED <<live, rest>>
        BY <1>4 DEF StatFinal, out
    <2>3. QED BY <1>0, <1>1, <2>1, <2>2 DEF SwapLoopOk, PruneLoopOk, InPlace
<1>5. CASE SetAside(p)
    <2>1. PICK u \in cur[p] : live' = [live EXCEPT ![u] = 0]
        BY <1>5 DEF SetAside
    <2>2. pc[p] = "aside" /\ pc'[p] = "movein" /\ UNCHANGED <<cur, rest>> /\ cur[p] = {u}
        BY <1>5 DEF SetAside
    <2>3. u \in rest[p] /\ u \in Units /\ InPlace(p, Wanted(p) \ rest[p])
        BY <1>0, <2>2 DEF SwapLoopOk
    <2>4. InPlace(p, Wanted(p) \ rest[p])'
        BY <1>0, <1>1, <2>1, <2>2, <2>3 DEF InPlace
    <2>5. QED BY <2>1, <2>2, <2>3, <2>4 DEF SwapLoopOk, PruneLoopOk
<1>6. CASE MoveIn(p)
    <2>1. PICK u \in cur[p] : /\ Place(u, plan[p].ver[u])
                              /\ rest' = [rest EXCEPT ![p] = rest[p] \ {u}]
        BY <1>6 DEF MoveIn
    <2>2. pc[p] = "movein" /\ pc'[p] \in {"dropbackup", "promote"} /\ cur[p] = {u}
        BY <1>6 DEF MoveIn
    <2>3. u \in Units /\ InPlace(p, Wanted(p) \ rest[p])
        BY <1>0, <2>2 DEF SwapLoopOk
    <2>4. InPlace(p, Wanted(p) \ rest[p])'
        BY <1>0, <1>1, <2>1, <2>2, <2>3 DEF InPlace, Place
    <2>5. QED BY <2>2, <2>4 DEF SwapLoopOk, PruneLoopOk
<1>7. CASE DropBackup(p)
    BY <1>0, <1>1, <1>7 DEF DropBackup, SwapLoopOk, PruneLoopOk, InPlace, out
<1>8. CASE PromoteFile(p)
    <2>1. PICK u \in First(rest[p]) : /\ Place(u, plan[p].ver[u])
                                      /\ rest' = [rest EXCEPT ![p] = rest[p] \ {u}]
        BY <1>8 DEF PromoteFile
    <2>2. pc[p] = "promote" /\ pc' = pc
        BY <1>8 DEF PromoteFile
    <2>3. u \in Units /\ InPlace(p, Wanted(p) \ rest[p])
        BY <1>0, <2>2 DEF SwapLoopOk
    <2>4. InPlace(p, Wanted(p) \ rest[p])'
        BY <1>0, <1>1, <2>1, <2>2, <2>3 DEF InPlace, Place
    <2>5. QED BY <2>2, <2>4 DEF SwapLoopOk, PruneLoopOk
<1>9. CASE BeginPrune(p)
    <2>1. /\ pc[p] = "promote" /\ rest[p] = {} /\ pc'[p] = "prune" /\ live' = live
          /\ rest'[p] = oldRoots[p] \ PageRoots(p)
        BY <1>9 DEF BeginPrune, out
    <2>2. InPlace(p, Wanted(p))'
        BY <1>0, <1>1, <2>1 DEF SwapLoopOk, InPlace
    <2>3. rest'[p] \cap Wanted(p)' = {}
        BY <1>1, <2>1, UnitKinds DEF Wanted, StagedFiles
    <2>4. QED BY <2>1, <2>2, <2>3 DEF SwapLoopOk, PruneLoopOk
<1>10. CASE PruneStaleRoot(p)
    <2>1. PICK u \in rest[p] : Withdraw({u}) /\ rest' = [rest EXCEPT ![p] = rest[p] \ {u}]
        BY <1>10 DEF PruneStaleRoot
    <2>2. pc[p] = "prune" /\ pc' = pc
        BY <1>10 DEF PruneStaleRoot
    <2>3. InPlace(p, Wanted(p)) /\ rest[p] \cap Wanted(p) = {}
        BY <1>0, <2>2 DEF PruneLoopOk
    <2>4. InPlace(p, Wanted(p))' /\ rest'[p] \cap Wanted(p)' = {}
        BY <1>0, <1>1, <2>1, <2>3 DEF InPlace, Withdraw
    <2>5. QED BY <2>2, <2>4 DEF SwapLoopOk, PruneLoopOk
<1>11. CASE PromotePagesManifest(p)
    <2>1. /\ pc[p] = "prune" /\ pc'[p] = "cleanup" /\ live' = live
          /\ manifest' = PageRoots(p)
          /\ rest'[p] = ToggledFiles \ StagedFiles(p)
        BY <1>11 DEF PromotePagesManifest
    <2>2. InPlace(p, Wanted(p))
        BY <1>0, <2>1 DEF PruneLoopOk
    <2>3. InPlace(p, Wanted(p))' /\ InPlace(p, ToggledFiles \ rest[p])'
        BY <1>1, <2>1, <2>2 DEF InPlace, Wanted
    <2>4. QED BY <1>1, <2>1, <2>3 DEF SwapLoopOk, PruneLoopOk
<1>12. CASE CleanupFile(p)
    <2>1. PICK f \in First(rest[p]) :
            Withdraw({f}) /\ rest' = [rest EXCEPT ![p] = rest[p] \ {f}]
        BY <1>12 DEF CleanupFile
    <2>2. pc[p] = "cleanup" /\ pc' = pc /\ manifest' = manifest
        BY <1>12 DEF CleanupFile
    <2>3. /\ InPlace(p, Wanted(p)) /\ InPlace(p, ToggledFiles \ rest[p])
          /\ manifest = PageRoots(p)
          /\ rest[p] \subseteq ToggledFiles \ StagedFiles(p)
        BY <1>0, <2>2 DEF PruneLoopOk
    <2>4. f \in rest[p] /\ f \in TopFiles /\ plan[p].ver[f] = 0 /\ f \notin Wanted(p)
        BY <1>0, <2>1, <2>3, UnitKinds DEF StagedFiles, Wanted, PageRoots
    <2>5. \A u \in Units : live'[u] = IF u = f THEN 0 ELSE live[u]
        BY <2>1 DEF Withdraw
    <2>6. InPlace(p, Wanted(p))' /\ InPlace(p, ToggledFiles \ rest[p])'
        BY <1>0, <1>1, <2>1, <2>3, <2>4, <2>5 DEF InPlace
    <2>7. rest'[p] \subseteq ToggledFiles \ StagedFiles(p)'
        BY <1>1, <2>1, <2>3
    <2>8. QED BY <1>1, <2>2, <2>3, <2>6, <2>7 DEF SwapLoopOk, PruneLoopOk
<1>13. CASE Promoted(p)
    <2>1. /\ pc[p] = "cleanup" /\ rest[p] = {} /\ pc'[p] = "assets"
          /\ UNCHANGED <<live, manifest>>
        BY <1>13 DEF Promoted, out
    <2>2. /\ InPlace(p, Wanted(p)) /\ InPlace(p, ToggledFiles)
          /\ manifest = PageRoots(p)
        BY <1>0, <2>1 DEF PruneLoopOk
    <2>3. QED BY <1>1, <2>1, <2>2 DEF SwapLoopOk, PruneLoopOk, InPlace
<1>14. QED
    BY <1>2, <1>3, <1>4, <1>5, <1>6, <1>7, <1>8, <1>9, <1>10, <1>11, <1>12, <1>13
       DEF Promote

LEMMA LoopStep ==
    ASSUME OneHost
    PROVE  TypeOk /\ LockInv /\ LoopInv /\ [Next]_vars => LoopInv'
<1> SUFFICES ASSUME TypeOk, LockInv, LoopInv, [Next]_vars PROVE LoopInv'
    OBVIOUS
<1>1. ASSUME NEW p \in Requests, Request(p) \/ Trigger(p) PROVE LoopInv'
    <2>1. UNCHANGED <<live, manifest, plan, rest, cur>>
        BY <1>1 DEF Request, Save, Click, Trigger, MaybeAutoRebuild, Start, Busy, out
    <2>2. /\ \A q \in Requests \ {p} : pc'[q] = pc[q]
          /\ pc'[p] \in {"idle", "saved", "run", "env"}
        BY <1>1 DEF TypeOk, Request, Save, Click, Trigger, MaybeAutoRebuild, Start,
                    Busy, Goto
    <2>3. QED BY <2>1, <2>2
              DEF LoopInv, SwapLoopOk, PruneLoopOk, InPlace, Wanted, StagedFiles, PageRoots
<1>2. ASSUME NEW p \in Requests,
             Stage(p) \/ Promote(p) \/ WriteAdditiveAssets(p) \/ Faulty(p) \/ Unwind(p)
      PROVE  Building(p) /\ \A q \in Requests \ {p} : pc'[q] = pc[q]
    <2>1. CASE Stage(p) \/ WriteAdditiveAssets(p) \/ Unwind(p)
        BY <2>1 DEF TypeOk, Building, Stage, PrepareBuildEnv, LoadBuildData, WritePages,
                    WriteList, WriteStagedExtras, WriteAdditiveAssets, Unwind, Goto
    <2>2. CASE Promote(p)
        BY <2>2 DEF TypeOk, Building, Promote, ReadOldManifest, RemoveSubtree, StatFinal,
                    SetAside, MoveIn, DropBackup, PromoteFile, BeginPrune, PruneStaleRoot,
                    PromotePagesManifest, CleanupFile, Promoted, Goto
    <2>3. CASE Faulty(p)
        BY <2>3 DEF TypeOk, Building, Faulty, Fail, FailMoveIn, FailRestore,
                    FailDropBackup, LoseRace, Abort, Goto
    <2>4. QED BY <1>2, <2>1, <2>2, <2>3
<1>3. ASSUME NEW p \in Requests, Stage(p) \/ WriteAdditiveAssets(p) \/ Unwind(p)
      PROVE  LoopInv'
    <2>1. pc'[p] \in {"data", "pages", "lists", "old", "unwind", "idle"}
        BY <1>3 DEF TypeOk, Stage, PrepareBuildEnv, LoadBuildData, WritePages,
                    WriteList, WriteStagedExtras, WriteAdditiveAssets, Unwind, Goto
    <2>2. SwapLoopOk(p)' /\ PruneLoopOk(p)'
        BY <2>1, LoopElsewhere
    <2>3. QED BY <1>2, <1>3, <2>2, LoopOne
<1>4. ASSUME NEW p \in Requests, Promote(p) PROVE LoopInv'
    BY <1>2, <1>4, PromoteLoop, LoopOne
<1>5. ASSUME NEW p \in Requests, Faulty(p) PROVE LoopInv'
    <2>1. CASE FailDropBackup(p)
        <3>1. SwapLoopOk(p)' /\ PruneLoopOk(p)'
            BY <2>1 DEF TypeOk, FailDropBackup, LoopInv, SwapLoopOk, PruneLoopOk,
                        InPlace, Wanted, StagedFiles, PageRoots, Goto
        <3>2. QED BY <1>2, <1>5, <3>1, LoopOne
    <2>2. CASE ~FailDropBackup(p)
        <3>1. pc'[p] = "unwind"
            BY <1>5, <2>2 DEF TypeOk, Faulty, Fail, FailMoveIn, FailRestore, LoseRace,
                              Abort, Goto
        <3>2. QED BY <1>2, <1>5, <3>1, LoopElsewhere, LoopOne
    <2>3. QED BY <2>1, <2>2
<1>6. ASSUME NEW h \in Hosts, Crash(h) PROVE LoopInv'
    <2>1. \A q \in Requests : pc'[q] = "idle"
        BY <1>6 DEF Crash, Hosts, OneHost
    <2>2. QED BY <2>1, LoopElsewhere DEF LoopInv
<1>7. CASE UNCHANGED vars
    BY <1>7 DEF LoopInv, SwapLoopOk, PruneLoopOk, InPlace, Wanted, StagedFiles,
                PageRoots, vars, run, out
<1>8. QED BY <1>1, <1>3, <1>4, <1>5, <1>6, <1>7 DEF Next, Build

(* Only an error path or a kill leaves a hidden directory: on one host no   *)
(* race is lost.                                                            *)
LEMMA LitterStep ==
    TypeOk /\ LoopInv /\ NoLitter /\ [Next]_vars => NoLitter'
<1> SUFFICES ASSUME TypeOk, LoopInv, NoLitter, [Next]_vars, faults' = 0, crashes' = 0
             PROVE  litter' = {}
    BY DEF NoLitter
<1>1. faults \in Nat /\ crashes \in Nat
    BY BoundsAssumption DEF TypeOk
<1>2. CASE faults' = faults /\ crashes' = crashes /\ litter' = litter
    BY <1>2 DEF NoLitter
<1>3. ASSUME NEW p \in Requests,
             Request(p) \/ Trigger(p) \/ Stage(p) \/ WriteAdditiveAssets(p) \/ Unwind(p)
      PROVE  faults' = faults /\ crashes' = crashes /\ litter' = litter
    BY <1>3 DEF Request, Save, Click, Trigger, MaybeAutoRebuild, Start, Busy,
                Stage, PrepareBuildEnv, LoadBuildData, WritePages, WriteList,
                WriteStagedExtras, WriteAdditiveAssets, Unwind, out
<1>4. ASSUME NEW p \in Requests, Promote(p)
      PROVE  faults' = faults /\ crashes' = crashes /\ litter' = litter
    BY <1>4 DEF Promote, ReadOldManifest, RemoveSubtree, StatFinal, SetAside, MoveIn,
                DropBackup, PromoteFile, BeginPrune, PruneStaleRoot,
                PromotePagesManifest, CleanupFile, Promoted, out
<1>5. ASSUME NEW p \in Requests, Faulty(p) PROVE FALSE
    <2>1. CASE Fail(p) \/ FailMoveIn(p) \/ FailRestore(p) \/ FailDropBackup(p)
        <3>1. faults' \in {faults + 1, faults + 2}
            BY <2>1 DEF Fail, FailMoveIn, FailRestore, FailDropBackup
        <3>2. QED BY <1>1, <3>1
    <2>2. CASE LoseRace(p)
        BY <2>2 DEF LoseRace, LoopInv, SwapLoopOk
    <2>3. QED BY <1>5, <2>1, <2>2 DEF Faulty
<1>6. ASSUME NEW h \in Hosts, Crash(h) PROVE FALSE
    BY <1>1, <1>6 DEF Crash
<1>7. CASE UNCHANGED vars
    BY <1>2, <1>7 DEF vars, out
<1>8. QED BY <1>2, <1>3, <1>4, <1>5, <1>6, <1>7 DEF Next, Build

(***************************************************************************)
(* promoteStaging on the server: when it returns without an error, all     *)
(* that the run wrote is served, what it did not write is gone, the        *)
(* manifest names its pages, and unless something failed or was killed     *)
(* there is no hidden directory left.                                      *)
(***************************************************************************)
THEOREM ServerPromotesClean == OneHost => (Spec => []PromotionClean)
<1> SUFFICES ASSUME OneHost PROVE Spec => []PromotionClean
    OBVIOUS
<1>1. Init => LockInv /\ LoopInv /\ NoLitter
    BY DEF Init, LockInv, Building, LoopInv, SwapLoopOk, PruneLoopOk, NoLitter
<1>2. TypeOk /\ LockInv /\ LoopInv /\ NoLitter /\ [Next]_vars
      => LockInv' /\ LoopInv' /\ NoLitter'
    BY LockStep, LoopStep, LitterStep
<1>3. LoopInv /\ NoLitter => PromotionClean
    BY DEF LoopInv, PruneLoopOk, InPlace, Wanted, PromotionClean, PromotionComplete
<1>4. QED BY <1>1, <1>2, <1>3, TypeCorrect, PTL DEF Spec

-----------------------------------------------------------------------------
(***************************************************************************)
(* The refinement of PublishedSite.  What a visitor is shown is OutDir,    *)
(* except in the window between the two renames of a swap.                 *)
(***************************************************************************)
Window(q) == pc[q] = "movein" /\ held[q] # 0

(* The window of p is open on u, and p is the only request in a swap.       *)
WindowOn(p, u) ==
    /\ p \in Requests /\ u \in Units
    /\ Window(p) /\ cur[p] = {u} /\ live[u] = 0
    /\ \A q \in Requests \ {p} : pc[q] # "movein"

LEMMA VisibleClosed ==
    TypeOk /\ (\A q \in Requests : ~Window(q)) => Visible = live
<1> SUFFICES ASSUME TypeOk, \A q \in Requests : ~Window(q) PROVE Visible = live
    OBVIOUS
<1>1. \A u : InSwap(u) = {}
    BY DEF InSwap, Window
<1>2. Visible = [u \in Units |-> live[u]]
    BY <1>1 DEF Visible
<1>3. QED BY <1>2 DEF TypeOk

LEMMA VisibleOpen ==
    ASSUME NEW p, NEW u
    PROVE  TypeOk /\ WindowOn(p, u) => Visible = [live EXCEPT ![u] = held[p]]
<1> SUFFICES ASSUME TypeOk, WindowOn(p, u)
             PROVE  Visible = [live EXCEPT ![u] = held[p]]
    OBVIOUS
<1>1. InSwap(u) = {p} /\ \A w : w # u => InSwap(w) = {}
    BY DEF InSwap, WindowOn, Window
<1>2. (CHOOSE q \in InSwap(u) : TRUE) = p
    BY <1>1
<1>3. \A w \in Units : Visible[w] = IF w = u THEN held[p] ELSE live[w]
    BY <1>1, <1>2 DEF Visible, WindowOn
<1>4. Visible = [w \in Units |-> Visible[w]]
    BY DEF Visible
<1>5. QED BY <1>3, <1>4 DEF TypeOk, WindowOn

LEMMA VisibleClosedNext ==
    TypeOk' /\ (\A q \in Requests : ~Window(q)') => Visible' = live'
<1> SUFFICES ASSUME TypeOk', \A q \in Requests : ~Window(q)' PROVE Visible' = live'
    OBVIOUS
<1>1. \A u : InSwap(u)' = {}
    BY DEF InSwap, Window
<1>2. Visible' = [u \in Units |-> live'[u]]
    BY <1>1 DEF Visible
<1>3. QED BY <1>2 DEF TypeOk

LEMMA VisibleOpenNext ==
    ASSUME NEW p, NEW u, TypeOk', WindowOn(p, u)'
    PROVE  Visible' = [live' EXCEPT ![u] = held'[p]]
<1>1. InSwap(u)' = {p} /\ \A w : w # u => InSwap(w)' = {}
    BY DEF InSwap, WindowOn, Window
<1>2. (CHOOSE q \in InSwap(u)' : TRUE) = p
    BY <1>1
<1>3. \A w \in Units : Visible'[w] = IF w = u THEN held'[p] ELSE live'[w]
    BY <1>1, <1>2 DEF Visible, WindowOn
<1>4. Visible' = [w \in Units |-> Visible'[w]]
    BY DEF Visible
<1>5. QED BY <1>3, <1>4 DEF TypeOk, WindowOn

SiteInv == LockInv /\ StagedInv /\ FreshInv /\ HeldInv /\ LoopInv

Floor == [u \in Units |-> pub[u].ver]

(* The only builder: nobody else is, or will be after its step, in a swap.  *)
LEMMA BuildsAlone ==
    ASSUME OneHost, TypeOk, SiteInv, NEW p \in Requests, Build(p)
    PROVE  /\ Building(p)
           /\ \A q \in Requests \ {p} : pc[q] # "movein" /\ pc'[q] # "movein"
<1>1. Building(p) /\ \A q \in Requests \ {p} : pc'[q] = pc[q]
    <2>1. CASE Stage(p) \/ WriteAdditiveAssets(p) \/ Unwind(p)
        BY <2>1 DEF TypeOk, Building, Stage, PrepareBuildEnv, LoadBuildData, WritePages,
                    WriteList, WriteStagedExtras, WriteAdditiveAssets, Unwind, Goto
    <2>2. CASE Promote(p)
        BY <2>2 DEF TypeOk, Building, Promote, ReadOldManifest, RemoveSubtree, StatFinal,
                    SetAside, MoveIn, DropBackup, PromoteFile, BeginPrune, PruneStaleRoot,
                    PromotePagesManifest, CleanupFile, Promoted, Goto
    <2>3. CASE Faulty(p)
        BY <2>3 DEF TypeOk, Building, Faulty, Fail, FailMoveIn, FailRestore,
                    FailDropBackup, LoseRace, Abort, Goto
    <2>4. QED BY <2>1, <2>2, <2>3 DEF Build
<1>2. QED BY <1>1, OnlyBuilder DEF SiteInv, Building

(* In the second half of a swap the window is open on the unit of the swap. *)
LEMMA SwapWindow ==
    ASSUME TypeOk, SiteInv, NEW p \in Requests, pc[p] = "movein", NEW u \in cur[p],
           \A q \in Requests \ {p} : pc[q] # "movein"
    PROVE  /\ u \in Units /\ cur[p] = {u} /\ live[u] = 0
           /\ held[p] # 0 => WindowOn(p, u)
           /\ held[p] = 0 => \A q \in Requests : ~Window(q)
<1>1. u \in Units /\ cur[p] = {u}
    BY DEF TypeOk
<1>2. live[u] = 0
    BY DEF SiteInv, LoopInv, SwapLoopOk
<1>3. QED BY <1>1, <1>2 DEF WindowOn, Window

(* Placing a unit publishes it; withdrawing units makes them disappear.     *)
LEMMA PlacePublishes ==
    ASSUME TypeOk, SiteInv, NEW p \in Requests, NEW u \in Units,
           plan[p].ver[u] # 0, Place(u, plan[p].ver[u]), db' = db,
           Visible' = [Visible EXCEPT ![u] = plan[p].ver[u]]
    PROVE  Visitor!Next
<1> DEFINE v == plan[p].ver[u]
<1>1. /\ v \in Nat /\ v > 0
      /\ v \in pub[u].ver .. db.ver
    BY BoundsAssumption DEF SiteInv, FreshInv, TypeOk, Plan, Version
<1>2. v \in Floor[u] .. db.ver
    BY <1>1 DEF Floor
<1>3. Floor' = [Floor EXCEPT ![u] = v]
    BY DEF Place, Floor, TypeOk
<1>4. Visitor!Publish(u)
    BY <1>1, <1>2, <1>3 DEF Visitor!Publish, Floor
<1>5. QED BY <1>4 DEF Visitor!Next

LEMMA WithdrawnDisappear ==
    ASSUME TypeOk, NEW U, Withdraw(U), db' = db, Visible = live, Visible' = live'
    PROVE  Visitor!Next
<1> DEFINE W == U \cap Units
<1>1. live' = [u \in Units |-> IF u \in W THEN 0 ELSE live[u]]
    BY DEF Withdraw
<1>2. Floor' = Floor
    BY DEF Withdraw, Floor, TypeOk
<1>3. Visitor!Disappear(W)
    BY <1>1, <1>2 DEF Visitor!Disappear, Floor
<1>4. W \in SUBSET Units
    OBVIOUS
<1>5. QED BY <1>3, <1>4 DEF Visitor!Next

(* The steps of promoteStaging and its error paths, as a visitor sees them. *)
LEMMA PromoteVisible ==
    ASSUME OneHost, TypeOk, TypeOk', SiteInv, NEW p \in Requests, Promote(p)
    PROVE  Visitor!Next \/ UNCHANGED Visitor!vars
<1>1. \A q \in Requests \ {p} : pc[q] # "movein" /\ pc'[q] # "movein"
    BY BuildsAlone DEF Build
<1>2. pc[p] # "movein" => Visible = live
    BY <1>1, VisibleClosed DEF Window
<1>3. pc'[p] # "movein" => Visible' = live'
    BY <1>1, VisibleClosedNext DEF Window
<1>4. CASE SetAside(p)
    <2>1. PICK u \in cur[p] : /\ live[u] # 0
                              /\ held' = [held EXCEPT ![p] = live[u]]
                              /\ live' = [live EXCEPT ![u] = 0]
        BY <1>4 DEF SetAside
    <2>2. pc[p] = "aside" /\ pc'[p] = "movein" /\ UNCHANGED <<db, cur, pub>>
          /\ u \in Units /\ cur[p] = {u}
        BY <1>4 DEF SetAside, TypeOk, Goto
    <2>3. WindowOn(p, u)'
        BY <1>1, <2>1, <2>2 DEF WindowOn, Window, TypeOk
    <2>4. Visible' = [live' EXCEPT ![u] = held'[p]]
        BY <2>3, VisibleOpenNext
    <2>5. Visible' = live
        BY <2>1, <2>2, <2>4 DEF TypeOk
    <2>6. QED BY <1>2, <2>2, <2>5 DEF Visitor!vars
<1>5. CASE MoveIn(p)
    <2>1. PICK u \in cur[p] : Place(u, plan[p].ver[u])
        BY <1>5 DEF MoveIn
    <2>2. pc[p] = "movein" /\ pc'[p] \in {"dropbackup", "promote"} /\ db' = db
        BY <1>5 DEF MoveIn, TypeOk, Goto
    <2>3. /\ u \in Units /\ cur[p] = {u} /\ live[u] = 0
          /\ held[p] # 0 => WindowOn(p, u)
          /\ held[p] = 0 => \A q \in Requests : ~Window(q)
        BY <1>1, <2>2, SwapWindow
    <2>4. plan[p].ver[u] # 0
        BY <2>2 DEF SiteInv, StagedInv
    <2>5. Visible \in {live, [live EXCEPT ![u] = held[p]]}
        BY <2>3, VisibleOpen, VisibleClosed
    <2>6. Visible' = [live EXCEPT ![u] = plan[p].ver[u]]
        BY <1>3, <2>1, <2>2 DEF Place
    <2>7. Visible' = [Visible EXCEPT ![u] = plan[p].ver[u]]
        BY <2>3, <2>5, <2>6 DEF TypeOk
    <2>8. QED BY <2>1, <2>2, <2>3, <2>4, <2>7, PlacePublishes
<1>6. CASE PromoteFile(p)
    <2>1. PICK f \in First(rest[p]) \cap TopFiles : Place(f, plan[p].ver[f])
        BY <1>6 DEF PromoteFile
    <2>2. pc[p] = "promote" /\ UNCHANGED <<db, pc>>
        BY <1>6 DEF PromoteFile
    <2>3. f \in Units /\ plan[p].ver[f] # 0
        BY <2>2 DEF SiteInv, StagedInv, First, Units
    <2>4. Visible' = [Visible EXCEPT ![f] = plan[p].ver[f]]
        BY <1>2, <1>3, <2>1, <2>2 DEF Place
    <2>5. QED BY <2>1, <2>2, <2>3, <2>4, PlacePublishes
<1>7. CASE RemoveSubtree(p) \/ PruneStaleRoot(p) \/ CleanupFile(p)
    <2>1. PICK U : Withdraw(U)
        BY <1>7 DEF RemoveSubtree, PruneStaleRoot, CleanupFile
    <2>2. pc[p] # "movein" /\ UNCHANGED <<db, pc>>
        BY <1>7 DEF RemoveSubtree, PruneStaleRoot, CleanupFile
    <2>3. QED BY <1>2, <1>3, <2>1, <2>2, WithdrawnDisappear
<1>8. CASE StatFinal(p)
    <2>1. pc[p] = "promote" /\ UNCHANGED <<db, held, live, pub>>
        BY <1>8 DEF StatFinal, out
    <2>2. \A q \in Requests : ~Window(q)'
        BY <1>1, <2>1 DEF SiteInv, HeldInv, Window
    <2>3. Visible = live /\ Visible' = live'
        BY <1>2, <2>1, <2>2, VisibleClosedNext
    <2>4. QED BY <2>1, <2>3 DEF Visitor!vars
<1>9. CASE \/ ReadOldManifest(p) \/ DropBackup(p) \/ BeginPrune(p)
           \/ PromotePagesManifest(p) \/ Promoted(p)
    <2>1. pc[p] # "movein" /\ UNCHANGED <<db, live, pub>>
        BY <1>9 DEF ReadOldManifest, DropBackup, BeginPrune, PromotePagesManifest,
                    Promoted, out
    <2>2. pc'[p] # "movein"
        BY <1>9 DEF TypeOk, ReadOldManifest, DropBackup, BeginPrune,
                    PromotePagesManifest, Promoted, Goto
    <2>3. QED BY <1>2, <1>3, <2>1, <2>2 DEF Visitor!vars
<1>10. QED BY <1>4, <1>5, <1>6, <1>7, <1>8, <1>9 DEF Promote

LEMMA FaultyVisible ==
    ASSUME OneHost, TypeOk, TypeOk', SiteInv, NEW p \in Requests, Faulty(p)
    PROVE  Visitor!Next \/ UNCHANGED Visitor!vars
<1>1. \A q \in Requests \ {p} : pc[q] # "movein" /\ pc'[q] # "movein"
    BY BuildsAlone DEF Build
<1>2. pc[p] # "movein" => Visible = live
    BY <1>1, VisibleClosed DEF Window
<1>3. Visible' = live' /\ UNCHANGED <<db, pub>>
    <2>1. pc'[p] # "movein"
        BY DEF TypeOk, Faulty, Fail, FailMoveIn, FailRestore, FailDropBackup, LoseRace,
               Abort, Goto
    <2>2. UNCHANGED <<db, pub>>
        BY DEF Faulty, Fail, FailMoveIn, FailRestore, FailDropBackup, LoseRace, out
    <2>3. QED BY <1>1, <2>1, <2>2, VisibleClosedNext DEF Window
<1>4. CASE Fail(p) \/ FailDropBackup(p)
    <2>1. pc[p] # "movein" /\ live' = live
        BY <1>4 DEF Fail, FailDropBackup, out
    <2>2. QED BY <1>2, <1>3, <2>1 DEF Visitor!vars
<1>5. CASE FailMoveIn(p)
    <2>1. PICK u \in cur[p] :
            /\ live[u] = 0
            /\ IF held[p] # 0 THEN RestoreBackup(p, u) ELSE UNCHANGED <<live, litter>>
        BY <1>5 DEF FailMoveIn
    <2>2. /\ held[p] # 0 => WindowOn(p, u)
          /\ held[p] = 0 => \A q \in Requests : ~Window(q)
        BY <1>1, <1>5, SwapWindow DEF FailMoveIn
    <2>3. live' = Visible
        BY <2>1, <2>2, VisibleOpen, VisibleClosed DEF RestoreBackup
    <2>4. QED BY <1>3, <2>3 DEF Visitor!vars
<1>6. CASE FailRestore(p)
    <2>1. pc[p] = "movein" /\ held[p] # 0 /\ live' = live
        BY <1>6 DEF FailRestore
    <2>2. CASE cur[p] = {}
        <3>1. \A w \in Units : InSwap(w) = {}
            BY <1>1, <2>2 DEF InSwap
        <3>2. Visible = live
            BY <3>1 DEF Visible, TypeOk
        <3>3. QED BY <1>3, <2>1, <3>2 DEF Visitor!vars
    <2>3. ASSUME NEW u \in cur[p] PROVE Visitor!Next
        <3>1. u \in Units /\ live[u] = 0 /\ WindowOn(p, u)
            BY <1>1, <2>1, SwapWindow
        <3>2. Visible = [live EXCEPT ![u] = held[p]]
            BY <3>1, VisibleOpen
        <3>3. live = [w \in Units |-> IF w \in {u} THEN 0 ELSE Visible[w]]
            BY <3>1, <3>2 DEF TypeOk
        <3>4. Visitor!Disappear({u})
            BY <1>3, <2>1, <3>3 DEF Visitor!Disappear
        <3>5. QED BY <3>1, <3>4 DEF Visitor!Next
    <2>4. QED BY <2>2, <2>3
<1>7. CASE LoseRace(p)
    <2>1. pc[p] = "aside" \/ pc[p] = "movein"
        BY <1>7 DEF LoseRace
    <2>2. FALSE
        BY <1>7 DEF LoseRace, SiteInv, LoopInv, SwapLoopOk
    <2>3. QED BY <2>2
<1>8. QED BY <1>4, <1>5, <1>6, <1>7 DEF Faulty

(* A kill: what was in a window is not shown any more.                      *)
LEMMA CrashVisible ==
    ASSUME OneHost, TypeOk, TypeOk', NEW h \in Hosts, Crash(h)
    PROVE  Visitor!Next
<1>1. \A q \in Requests : pc'[q] = "idle"
    BY DEF Crash, Hosts, OneHost
<1>2. Visible' = live' /\ UNCHANGED <<db, pub, live>>
    BY <1>1, VisibleClosedNext DEF Crash, Window
<1> DEFINE U == {u \in Units : live[u] = 0}
<1>3. \A u \in Units : live[u] = IF u \in U THEN 0 ELSE Visible[u]
    BY DEF Visible
<1>4. live = [u \in Units |-> IF u \in U THEN 0 ELSE Visible[u]]
    BY <1>3 DEF TypeOk
<1>5. Visitor!Disappear(U)
    BY <1>2, <1>4 DEF Visitor!Disappear
<1>6. U \in SUBSET Units
    OBVIOUS
<1>7. QED BY <1>5, <1>6 DEF Visitor!Next

LEMMA VisitorStep ==
    ASSUME OneHost
    PROVE  TypeOk /\ TypeOk' /\ SiteInv /\ [Next]_vars => [Visitor!Next]_(Visitor!vars)
<1> SUFFICES ASSUME TypeOk, TypeOk', SiteInv, [Next]_vars
             PROVE  Visitor!Next \/ UNCHANGED Visitor!vars
    OBVIOUS
<1>1. ASSUME UNCHANGED <<live, cur, held>>,
             \A q \in Requests : pc'[q] = "movein" <=> pc[q] = "movein"
      PROVE  Visible' = Visible
    <2>1. ASSUME NEW u PROVE InSwap(u)' = InSwap(u)
        BY <1>1 DEF InSwap
    <2>2. ASSUME NEW u
          PROVE  (CHOOSE q \in InSwap(u)' : TRUE) = (CHOOSE q \in InSwap(u) : TRUE)
        BY <2>1
    <2>3. ASSUME NEW u \in Units PROVE Visible'[u] = Visible[u]
        <3>1. CASE live[u] = 0 /\ InSwap(u) # {}
            <4>1. Visible[u] = held[CHOOSE q \in InSwap(u) : TRUE]
                BY <3>1 DEF Visible
            <4>2. Visible'[u] = held'[CHOOSE q \in InSwap(u)' : TRUE]
                BY <1>1, <2>1, <3>1 DEF Visible
            <4>3. (CHOOSE q \in InSwap(u)' : TRUE) = (CHOOSE q \in InSwap(u) : TRUE)
                BY <2>2
            <4>4. QED BY <1>1, <4>1, <4>2, <4>3, Zenon
        <3>2. CASE ~(live[u] = 0 /\ InSwap(u) # {})
            BY <1>1, <2>1, <3>2 DEF Visible
        <3>3. QED BY <3>1, <3>2
    <2>4. /\ Visible = [u \in Units |-> Visible[u]]
          /\ Visible' = [u \in Units |-> Visible'[u]]
        BY DEF Visible
    <2>5. QED BY <2>3, <2>4
<1>2. ASSUME NEW p \in Requests, Request(p) \/ Trigger(p)
      PROVE  Visitor!Next \/ UNCHANGED Visitor!vars
    <2>1. /\ UNCHANGED <<live, cur, held, pub>>
          /\ pc[p] # "movein" /\ pc'[p] # "movein"
          /\ \A q \in Requests \ {p} : pc'[q] = pc[q]
        BY <1>2 DEF TypeOk, Request, Save, Click, Trigger, MaybeAutoRebuild, Start,
                    Busy, Goto, out
    <2>2. Visible' = Visible
        BY <1>1, <2>1
    <2>3. CASE Save(p)
        <3>1. db'.ver = db.ver + 1
            BY <2>3 DEF Save
        <3>2. Visitor!Save
            BY <2>1, <2>2, <3>1 DEF Visitor!Save
        <3>3. QED BY <3>2 DEF Visitor!Next
    <2>4. CASE ~Save(p)
        <3>1. db' = db
            BY <1>2, <2>4 DEF Request, Click, Trigger, MaybeAutoRebuild, Start, Busy
        <3>2. QED BY <2>1, <2>2, <3>1 DEF Visitor!vars
    <2>5. QED BY <2>3, <2>4
<1>3. ASSUME NEW p \in Requests, Stage(p) \/ WriteAdditiveAssets(p) \/ Unwind(p)
      PROVE  UNCHANGED Visitor!vars
    <2>1. /\ UNCHANGED <<db, live, cur, held, pub>>
          /\ pc[p] # "movein" /\ pc'[p] # "movein"
          /\ \A q \in Requests \ {p} : pc'[q] = pc[q]
        BY <1>3 DEF TypeOk, Stage, PrepareBuildEnv, LoadBuildData, WritePages,
                    WriteList, WriteStagedExtras, WriteAdditiveAssets, Unwind, Goto, out
    <2>2. Visible' = Visible
        BY <1>1, <2>1
    <2>3. QED BY <2>1, <2>2 DEF Visitor!vars
<1>4. CASE UNCHANGED vars
    BY <1>1, <1>4 DEF vars, run, out, Visitor!vars
<1>5. QED BY <1>2, <1>3, <1>4, PromoteVisible, FaultyVisible, CrashVisible
          DEF Next, Build

(***************************************************************************)
(* The server's rebuild, with any number of requests, saves, failures and  *)
(* kills, implements PublishedSite: every step of the detailed             *)
(* specification is, for a visitor, a save, a unit published at a version  *)
(* no older than the one before, units that disappear, or nothing at all.  *)
(***************************************************************************)
THEOREM ServerIsPublishedSite == OneHost => (Spec => VisitorSpec)
<1> SUFFICES ASSUME OneHost PROVE Spec => VisitorSpec
    OBVIOUS
<1>1. Init => SiteInv
    BY DEF Init, SiteInv, LockInv, StagedInv, FreshInv, HeldInv, LoopInv, Building,
           NoPlan, SwapLoopOk, PruneLoopOk
<1>2. TypeOk /\ SiteInv /\ [Next]_vars => SiteInv'
    BY LockStep, StagedStep, FreshStep, HeldStep, LoopStep DEF SiteInv
<1>3. Init => Visitor!Init
    <2> SUFFICES ASSUME Init PROVE Visitor!Init
        OBVIOUS
    <2>1. Visible = live
        BY TypeInit, VisibleClosed DEF Init, Window
    <2>2. QED BY <2>1 DEF Init, Visitor!Init
<1>4. QED BY <1>1, <1>2, <1>3, TypeCorrect, VisitorStep, PTL
          DEF Spec, VisitorSpec, Visitor!Spec
=============================================================================
