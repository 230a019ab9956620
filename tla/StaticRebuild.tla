---------------------------- MODULE StaticRebuild ----------------------------
(***************************************************************************)
(* The static rebuild: admin.Rebuilder.Run, rebuild.Build and              *)
(* rebuild.promoteStaging, run by any number of requests over one database *)
(* and one output directory.                                               *)
(*                                                                         *)
(* The output directory is a set of units that a build replaces one at a   *)
(* time: the managed subtrees (entry/, category/, tag/, archive/), the     *)
(* top-level files and the roots of the flat pages.  What a unit holds is  *)
(* abstracted to the version of the database its build read for it; 0      *)
(* stands for "not there".  Page roots are flat here (no root inside       *)
(* another one); PagePromotion has the nested ones.                        *)
(*                                                                         *)
(* A request belongs to a host, an operating system process with its own   *)
(* Rebuilder and so its own mutex: the server is one host for every        *)
(* request, under CGI each request is a host, and so is each run of        *)
(* `serenebach build`, which takes no lock at all.                         *)
(***************************************************************************)
EXTENDS Naturals, FiniteSets

CONSTANTS
    Requests,       \* requests and command-line runs that may build
    HostOf,         \* [Requests -> hosts]: the process a request runs in
    Subtrees,       \* managed subtrees
    Loaded,         \* the subtrees rendered from loadBuildData (entry/)
    TopFiles,       \* files promoteTopLevelFiles knows
    ToggledFiles,   \* files removed from OutDir when their toggle is off
    Pages,          \* roots a flat page may have
    Rank,           \* [Subtrees \cup TopFiles \cup Pages -> Nat]
    Sites,          \* contents the database may have, see Site
    MaxEdits,       \* bound: saves that change the database
    MaxFaults,      \* bound: file-system and database calls that fail
    MaxCrashes      \* bound: kills of a host

Units == Subtrees \cup TopFiles \cup Pages

(***************************************************************************)
(* What a build derives from the database: which subtrees, files and pages *)
(* it writes, and the AutoRebuildOnPublish switch.                         *)
(***************************************************************************)
Site == [subs : SUBSET Subtrees, files : SUBSET TopFiles,
         pages : SUBSET Pages, auto : BOOLEAN]

ASSUME UnitKinds ==
    /\ Subtrees \cap TopFiles = {}
    /\ Subtrees \cap Pages = {}
    /\ TopFiles \cap Pages = {}
    /\ Loaded \subseteq Subtrees
    /\ ToggledFiles \subseteq TopFiles

ASSUME RankAssumption == Rank \in [Units -> Nat]

ASSUME SitesAssumption == Sites \subseteq Site

ASSUME BoundsAssumption ==
    MaxEdits \in Nat /\ MaxFaults \in Nat /\ MaxCrashes \in Nat

VARIABLES
    db,         \* the committed database: version and content
    lock,       \* requests that hold the mutex of their host
    pc,         \* where each request is
    plan,       \* what its staging directory was filled with
    rest,       \* units its current loop still has to visit
    cur,        \* the unit it is swapping, a singleton or empty
    held,       \* version it renamed aside into .sb-backup-*, 0 if none
    oldRoots,   \* page roots it read from the manifest
    outcome,    \* result the run is about to return
    touched,    \* units of OutDir this run has replaced or removed
    live,       \* what OutDir serves
    manifest,   \* .sb-pages-manifest in OutDir
    litter,     \* hidden directories no run owns any more
    pub,        \* history: last version placed on purpose, and if withdrawn
    faults, crashes

out == <<live, manifest, litter, pub>>
run == <<lock, pc, plan, rest, cur, held, oldRoots, outcome, touched>>
vars == <<db, run, out, faults, crashes>>

Locs == {"idle", "saved", "run", "env", "data", "pages", "lists", "old", "promote", "aside", "movein", "dropbackup", "prune",
         "manifest", "cleanup", "assets", "unwind"}

Building(p) == pc[p] \notin {"idle", "saved", "run"}

NoPlan == [ver |-> [u \in Units |-> 0], env |-> {}, envVer |-> 0]

(***************************************************************************)
(* The units that come next in a loop: subtrees and files have distinct    *)
(* ranks, page roots of equal depth and pruned roots come from a Go map,   *)
(* in any order.                                                           *)
(***************************************************************************)
First(S) == {u \in S : \A w \in S : Rank[u] <= Rank[w]}

Init ==
    /\ db \in {[ver |-> 1, site |-> s] : s \in Sites}
    /\ lock = {}
    /\ pc = [p \in Requests |-> "idle"]
    /\ plan = [p \in Requests |-> NoPlan]
    /\ rest = [p \in Requests |-> {}]
    /\ cur = [p \in Requests |-> {}]
    /\ held = [p \in Requests |-> 0]
    /\ oldRoots = [p \in Requests |-> {}]
    /\ outcome = [p \in Requests |-> "none"]
    /\ touched = [p \in Requests |-> {}]
    /\ live = [u \in Units |-> 0]
    /\ manifest = {}
    /\ litter = {}
    /\ pub = [u \in Units |-> [ver |-> 0, up |-> FALSE]]
    /\ faults = 0
    /\ crashes = 0

-----------------------------------------------------------------------------
(* Requests: a save, a click on "Rebuild now", a `serenebach build`.        *)

Goto(p, l) == pc' = [pc EXCEPT ![p] = l]

(***************************************************************************)
(* A handler commits a change of the database.  Entries, categories and    *)
(* pages go on to maybeAutoRebuild; templates, settings and the rest do    *)
(* not.                                                                    *)
(***************************************************************************)
Save(p) ==
    /\ pc[p] = "idle"
    /\ db.ver <= MaxEdits
    /\ \E s \in Sites : db' = [ver |-> db.ver + 1, site |-> s]
    /\ \E l \in {"saved", "idle"} : Goto(p, l)
    /\ UNCHANGED <<lock, plan, rest, cur, held, oldRoots, outcome, touched,
                   out, faults, crashes>>

(***************************************************************************)
(* maybeAutoRebuild: nothing happens when the switch is off, nor when the  *)
(* weblog row cannot be read, which leads where Busy leads.                *)
(***************************************************************************)
MaybeAutoRebuild(p) ==
    /\ pc[p] = "saved"
    /\ Goto(p, IF db.site.auto THEN "run" ELSE "idle")
    /\ UNCHANGED <<db, lock, plan, rest, cur, held, oldRoots, outcome,
                   touched, out, faults, crashes>>

Click(p) ==
    /\ pc[p] = "idle"
    /\ Goto(p, "run")
    /\ UNCHANGED <<db, lock, plan, rest, cur, held, oldRoots, outcome,
                   touched, out, faults, crashes>>

(* Bug: a mutex per request instead of one per host.                        *)
LockPerRequest(p) == p \notin lock

(***************************************************************************)
(* Rebuilder.Run: TryLock, and skip rather than queue when it is taken.    *)
(***************************************************************************)
LockFree(p) == \A q \in lock : HostOf[q] # HostOf[p]

Start(p) ==
    /\ pc[p] = "run"
    /\ LockFree(p)
    /\ lock' = lock \cup {p}
    /\ Goto(p, "env")
    /\ UNCHANGED <<db, plan, rest, cur, held, oldRoots, outcome, touched, out,
                   faults, crashes>>

Busy(p) ==
    /\ pc[p] = "run"
    /\ ~LockFree(p)
    /\ Goto(p, "idle")
    /\ UNCHANGED <<db, lock, plan, rest, cur, held, oldRoots, outcome, touched,
                   out, faults, crashes>>

-----------------------------------------------------------------------------
(* Build: the reads and the staging.  Staging is private to the run, so a   *)
(* read and the writes made from it are one step.                           *)

(***************************************************************************)
(* prepareBuildEnv reads the weblog row (the toggles) and the active       *)
(* template (whether there is a style.css): the top-level files to write.  *)
(***************************************************************************)
PrepareBuildEnv(p) ==
    /\ pc[p] = "env"
    /\ plan' = [plan EXCEPT ![p] =
                   [NoPlan EXCEPT !.env = db.site.files, !.envVer = db.ver]]
    /\ Goto(p, "data")
    /\ UNCHANGED <<db, lock, rest, cur, held, oldRoots, outcome, touched, out,
                   faults, crashes>>

(***************************************************************************)
(* loadBuildData, makeStagingDir, writeHome, writeEntries.                 *)
(***************************************************************************)
LoadBuildData(p) ==
    /\ pc[p] = "data"
    /\ plan' = [plan EXCEPT ![p].ver = [u \in Units |->
                   IF u \in Loaded \cap db.site.subs THEN db.ver ELSE @[u]]]
    /\ Goto(p, "pages")
    /\ UNCHANGED <<db, lock, rest, cur, held, oldRoots, outcome, touched, out,
                   faults, crashes>>

(***************************************************************************)
(* writePages asks for the published pages again and writes the manifest.  *)
(***************************************************************************)
WritePages(p) ==
    /\ pc[p] = "pages"
    /\ plan' = [plan EXCEPT ![p].ver = [u \in Units |->
                   IF u \in db.site.pages THEN db.ver ELSE @[u]]]
    /\ rest' = [rest EXCEPT ![p] = Subtrees \ Loaded]
    /\ Goto(p, "lists")
    /\ UNCHANGED <<db, lock, cur, held, oldRoots, outcome, touched, out,
                   faults, crashes>>

(***************************************************************************)
(* writeCategories, writeTags, writeArchives: each with its own queries.   *)
(***************************************************************************)
WriteList(p) ==
    /\ pc[p] = "lists"
    /\ \E s \in First(rest[p]) :
        /\ plan' = [plan EXCEPT ![p].ver[s] =
                       IF s \in db.site.subs THEN db.ver ELSE 0]
        /\ rest' = [rest EXCEPT ![p] = @ \ {s}]
    /\ UNCHANGED <<db, lock, pc, cur, held, oldRoots, outcome, touched, out,
                   faults, crashes>>

(***************************************************************************)
(* writeStagedExtras: style.css, feeds, llms*.txt, sitemap.xml, robots.txt *)
(* from what prepareBuildEnv and loadBuildData read.                       *)
(***************************************************************************)
WriteStagedExtras(p) ==
    /\ pc[p] = "lists"
    /\ rest[p] = {}
    /\ plan' = [plan EXCEPT ![p].ver = [u \in Units |->
                   IF u \in plan[p].env THEN plan[p].envVer ELSE @[u]]]
    /\ Goto(p, "old")
    /\ UNCHANGED <<db, lock, rest, cur, held, oldRoots, outcome, touched, out,
                   faults, crashes>>

-----------------------------------------------------------------------------
(* promoteStaging.                                                          *)

PageRoots(p) == {u \in Pages : plan[p].ver[u] # 0}
StagedFiles(p) == {u \in TopFiles : plan[p].ver[u] # 0}

ReadOldManifest(p) ==
    /\ pc[p] = "old"
    /\ oldRoots' = [oldRoots EXCEPT ![p] = manifest]
    /\ rest' = [rest EXCEPT ![p] = Subtrees \cup StagedFiles(p) \cup PageRoots(p)]
    /\ Goto(p, "promote")
    /\ UNCHANGED <<db, lock, plan, cur, held, outcome, touched, out, faults,
                   crashes>>

Place(u, v) ==
    /\ live' = [live EXCEPT ![u] = v]
    /\ pub' = [pub EXCEPT ![u] = [ver |-> v, up |-> TRUE]]

Withdraw(U) ==
    /\ live' = [u \in Units |-> IF u \in U THEN 0 ELSE live[u]]
    /\ pub' = [u \in Units |-> IF u \in U THEN [pub[u] EXCEPT !.up = FALSE]
                                          ELSE pub[u]]

(* Bug: a subtree that was not staged is skipped, not removed.              *)
SkipMissingSubtree(p) ==
    /\ pc[p] = "promote"
    /\ \E s \in First(rest[p]) \cap Subtrees :
        /\ plan[p].ver[s] = 0
        /\ rest' = [rest EXCEPT ![p] = @ \ {s}]
    /\ UNCHANGED <<db, lock, pc, plan, cur, held, oldRoots, outcome, touched,
                   out, faults, crashes>>

(***************************************************************************)
(* promoteManagedSubtree, staged copy missing: the live one is deleted.    *)
(***************************************************************************)
RemoveSubtree(p) ==
    /\ pc[p] = "promote"
    /\ \E s \in First(rest[p]) \cap Subtrees :
        /\ plan[p].ver[s] = 0
        /\ Withdraw({s})
        /\ touched' = [touched EXCEPT ![p] =
                          IF live[s] = 0 THEN @ ELSE @ \cup {s}]
        /\ rest' = [rest EXCEPT ![p] = @ \ {s}]
    /\ UNCHANGED <<db, lock, pc, plan, cur, held, oldRoots, outcome, manifest,
                   litter, faults, crashes>>

(***************************************************************************)
(* promoteManagedSubtree and promoteOneExtraDir test whether the live      *)
(* directory is there, and only then move it aside.                        *)
(***************************************************************************)
StatFinal(p) ==
    /\ pc[p] = "promote"
    /\ \E u \in First(rest[p]) \ TopFiles :
        /\ plan[p].ver[u] # 0
        /\ cur' = [cur EXCEPT ![p] = {u}]
        /\ Goto(p, IF live[u] # 0 THEN "aside" ELSE "movein")
    /\ UNCHANGED <<db, lock, plan, rest, held, oldRoots, outcome, touched, out,
                   faults, crashes>>

SetAside(p) ==
    /\ pc[p] = "aside"
    /\ \E u \in cur[p] :
        /\ live[u] # 0
        /\ held' = [held EXCEPT ![p] = live[u]]
        /\ live' = [live EXCEPT ![u] = 0]
    /\ Goto(p, "movein")
    /\ UNCHANGED <<db, lock, plan, rest, cur, oldRoots, outcome, touched,
                   manifest, litter, pub, faults, crashes>>

(***************************************************************************)
(* Rename of the staged directory: it needs the target gone (or empty).    *)
(***************************************************************************)
MoveIn(p) ==
    /\ pc[p] = "movein"
    /\ \E u \in cur[p] :
        /\ live[u] = 0
        /\ Place(u, plan[p].ver[u])
        /\ rest' = [rest EXCEPT ![p] = @ \ {u}]
        /\ touched' = [touched EXCEPT ![p] = @ \cup {u}]
    /\ Goto(p, IF held[p] # 0 THEN "dropbackup" ELSE "promote")
    /\ cur' = [cur EXCEPT ![p] = IF held[p] # 0 THEN @ ELSE {}]
    /\ UNCHANGED <<db, lock, plan, held, oldRoots, outcome, manifest, litter,
                   faults, crashes>>

(* Bug: the backup is renamed back over the new directory.                  *)
RestoreAlways(p) ==
    /\ pc[p] = "dropbackup"
    /\ live' = [u \in Units |-> IF u \in cur[p] THEN held[p] ELSE live[u]]
    /\ held' = [held EXCEPT ![p] = 0]
    /\ cur' = [cur EXCEPT ![p] = {}]
    /\ Goto(p, "promote")
    /\ UNCHANGED <<db, lock, plan, rest, oldRoots, outcome, touched, manifest,
                   litter, pub, faults, crashes>>

DropBackup(p) ==
    /\ pc[p] = "dropbackup"
    /\ held' = [held EXCEPT ![p] = 0]
    /\ cur' = [cur EXCEPT ![p] = {}]
    /\ Goto(p, "promote")
    /\ UNCHANGED <<db, lock, plan, rest, oldRoots, outcome, touched, out,
                   faults, crashes>>

(***************************************************************************)
(* promoteTopLevelFiles: a rename over the live file; files that were not  *)
(* staged are skipped.                                                     *)
(***************************************************************************)
PromoteFile(p) ==
    /\ pc[p] = "promote"
    /\ \E f \in First(rest[p]) \cap TopFiles :
        /\ Place(f, plan[p].ver[f])
        /\ rest' = [rest EXCEPT ![p] = @ \ {f}]
        /\ touched' = [touched EXCEPT ![p] = @ \cup {f}]
    /\ UNCHANGED <<db, lock, pc, plan, cur, held, oldRoots, outcome, manifest,
                   litter, faults, crashes>>

(***************************************************************************)
(* pruneStaleRoots: tracked in the old manifest, not staged any more.      *)
(***************************************************************************)
BeginPrune(p) ==
    /\ pc[p] = "promote"
    /\ rest[p] = {}
    /\ rest' = [rest EXCEPT ![p] = oldRoots[p] \ PageRoots(p)]
    /\ Goto(p, "prune")
    /\ UNCHANGED <<db, lock, plan, cur, held, oldRoots, outcome, touched, out,
                   faults, crashes>>

PruneStaleRoot(p) ==
    /\ pc[p] = "prune"
    /\ \E u \in rest[p] :
        /\ Withdraw({u})
        /\ touched' = [touched EXCEPT ![p] =
                          IF live[u] = 0 THEN @ ELSE @ \cup {u}]
        /\ rest' = [rest EXCEPT ![p] = @ \ {u}]
    /\ UNCHANGED <<db, lock, pc, plan, cur, held, oldRoots, outcome, manifest,
                   litter, faults, crashes>>

(* Bug: the manifest lists every top-level name that was promoted.          *)
ManifestOfEverything(p) ==
    /\ pc[p] = "prune"
    /\ rest[p] = {}
    /\ manifest' = PageRoots(p) \cup StagedFiles(p)
    /\ rest' = [rest EXCEPT ![p] = ToggledFiles \ StagedFiles(p)]
    /\ Goto(p, "cleanup")
    /\ UNCHANGED <<db, lock, plan, cur, held, oldRoots, outcome, touched, live,
                   litter, pub, faults, crashes>>

PromotePagesManifest(p) ==
    /\ pc[p] = "prune"
    /\ rest[p] = {}
    /\ manifest' = PageRoots(p)
    /\ rest' = [rest EXCEPT ![p] = ToggledFiles \ StagedFiles(p)]
    /\ Goto(p, "cleanup")
    /\ UNCHANGED <<db, lock, plan, cur, held, oldRoots, outcome, touched, live,
                   litter, pub, faults, crashes>>

(***************************************************************************)
(* cleanupLLMs and cleanupSEOFiles, one os.Remove after the other.         *)
(***************************************************************************)
CleanupFile(p) ==
    /\ pc[p] = "cleanup"
    /\ \E f \in First(rest[p]) :
        /\ Withdraw({f})
        /\ touched' = [touched EXCEPT ![p] =
                          IF live[f] = 0 THEN @ ELSE @ \cup {f}]
        /\ rest' = [rest EXCEPT ![p] = @ \ {f}]
    /\ UNCHANGED <<db, lock, pc, plan, cur, held, oldRoots, outcome, manifest,
                   litter, faults, crashes>>

(***************************************************************************)
(* promoteStaging returned; writeAdditiveAssets copies what is not staged. *)
(***************************************************************************)
Promoted(p) ==
    /\ pc[p] = "cleanup"
    /\ rest[p] = {}
    /\ Goto(p, "assets")
    /\ UNCHANGED <<db, lock, plan, rest, cur, held, oldRoots, outcome, touched,
                   out, faults, crashes>>

WriteAdditiveAssets(p) ==
    /\ pc[p] = "assets"
    /\ outcome' = [outcome EXCEPT ![p] = "ok"]
    /\ Goto(p, "unwind")
    /\ UNCHANGED <<db, lock, plan, rest, cur, held, oldRoots, touched, out,
                   faults, crashes>>

-----------------------------------------------------------------------------
(* Errors.  Every error return of Build goes through its deferred calls.    *)

Abort(p) ==
    /\ outcome' = [outcome EXCEPT ![p] = "err"]
    /\ Goto(p, "unwind")
    /\ cur' = [cur EXCEPT ![p] = {}]
    /\ held' = [held EXCEPT ![p] = 0]

(***************************************************************************)
(* A read, a render, a write into staging, or a rename or remove that      *)
(* leaves OutDir as it was: Build returns the error.                       *)
(***************************************************************************)
Fail(p) ==
    /\ \/ pc[p] \in {"env", "data", "pages", "lists", "old", "aside", "prune",
                     "assets"}
       \/ pc[p] \in {"promote", "cleanup"} /\ rest[p] # {}
    /\ faults < MaxFaults
    /\ faults' = faults + 1
    /\ Abort(p)
    /\ UNCHANGED <<db, lock, plan, rest, oldRoots, touched, out, crashes>>

(* Bug: the error is returned and nothing is renamed back.                  *)
NoRestore(p, u) == UNCHANGED <<live, litter>>

(***************************************************************************)
(* The rename of the staged directory fails.  The backup is renamed back,  *)
(* and the .sb-backup-* directory it was in stays.                         *)
(***************************************************************************)
RestoreBackup(p, u) ==
    /\ live' = [live EXCEPT ![u] = held[p]]
    /\ litter' = litter \cup {<<u, 0>>}

FailMoveIn(p) ==
    /\ pc[p] = "movein"
    /\ faults < MaxFaults
    /\ faults' = faults + 1
    /\ \E u \in cur[p] :
        /\ live[u] = 0
        /\ IF held[p] # 0 THEN RestoreBackup(p, u) ELSE UNCHANGED <<live, litter>>
    /\ Abort(p)
    /\ UNCHANGED <<db, lock, plan, rest, oldRoots, touched, manifest, pub,
                   crashes>>

(***************************************************************************)
(* Another host moved the directory away before SetAside, or put its own   *)
(* in place before MoveIn: the rename fails without any fault, and so does *)
(* the rename back, which leaves the old directory in the backup.          *)
(***************************************************************************)
LoseRace(p) ==
    /\ \E u \in cur[p] :
        \/ /\ pc[p] = "aside" /\ live[u] = 0
           /\ UNCHANGED litter
        \/ /\ pc[p] = "movein" /\ live[u] # 0
           /\ litter' = IF held[p] # 0 THEN litter \cup {<<u, held[p]>>}
                                       ELSE litter
    /\ Abort(p)
    /\ UNCHANGED <<db, lock, plan, rest, oldRoots, touched, live, manifest,
                   pub, faults, crashes>>

(***************************************************************************)
(* The rename back and the removal of a backup ignore their errors.        *)
(***************************************************************************)
FailRestore(p) ==
    /\ pc[p] = "movein"
    /\ held[p] # 0
    /\ faults + 1 < MaxFaults
    /\ faults' = faults + 2
    /\ litter' = litter \cup {<<u, held[p]>> : u \in cur[p]}
    /\ Abort(p)
    /\ UNCHANGED <<db, lock, plan, rest, oldRoots, touched, live, manifest,
                   pub, crashes>>

FailDropBackup(p) ==
    /\ pc[p] = "dropbackup"
    /\ faults < MaxFaults
    /\ faults' = faults + 1
    /\ litter' = litter \cup {<<u, held[p]>> : u \in cur[p]}
    /\ held' = [held EXCEPT ![p] = 0]
    /\ cur' = [cur EXCEPT ![p] = {}]
    /\ Goto(p, "promote")
    /\ UNCHANGED <<db, lock, plan, rest, oldRoots, outcome, touched, live,
                   manifest, pub, crashes>>

(* Bug: Run returns with its mutex locked.                                  *)
UnwindLocked(p) ==
    /\ pc[p] = "unwind"
    /\ plan' = [plan EXCEPT ![p] = NoPlan]
    /\ rest' = [rest EXCEPT ![p] = {}]
    /\ oldRoots' = [oldRoots EXCEPT ![p] = {}]
    /\ outcome' = [outcome EXCEPT ![p] = "none"]
    /\ touched' = [touched EXCEPT ![p] = {}]
    /\ Goto(p, "idle")
    /\ UNCHANGED <<db, lock, cur, held, out, faults, crashes>>

(***************************************************************************)
(* The deferred calls: staging is removed and the mutex released.          *)
(***************************************************************************)
Unwind(p) ==
    /\ pc[p] = "unwind"
    /\ lock' = lock \ {p}
    /\ plan' = [plan EXCEPT ![p] = NoPlan]
    /\ rest' = [rest EXCEPT ![p] = {}]
    /\ oldRoots' = [oldRoots EXCEPT ![p] = {}]
    /\ outcome' = [outcome EXCEPT ![p] = "none"]
    /\ touched' = [touched EXCEPT ![p] = {}]
    /\ Goto(p, "idle")
    /\ UNCHANGED <<db, cur, held, out, faults, crashes>>

(***************************************************************************)
(* A host is killed.  Its staging and backup directories stay on disk;     *)
(* nothing looks for them when a host starts.                              *)
(***************************************************************************)
StagingOnDisk(p) == pc[p] \in Locs \ {"idle", "saved", "run", "env", "data"}

Crash(h) ==
    LET dead == {p \in Requests : HostOf[p] = h}
        reset(f, x) == [p \in Requests |-> IF p \in dead THEN x ELSE f[p]]
    IN
    /\ crashes < MaxCrashes
    /\ \E p \in dead : pc[p] # "idle"
    /\ crashes' = crashes + 1
    /\ litter' = litter
        \cup {<<"staging", 0>> : p \in {q \in dead : StagingOnDisk(q)}}
        \cup UNION {{<<u, held[p]>> : u \in cur[p]} : p \in {q \in dead : held[q] # 0}}
    /\ lock' = lock \ dead
    /\ pc' = reset(pc, "idle")
    /\ plan' = reset(plan, NoPlan)
    /\ rest' = reset(rest, {})
    /\ cur' = reset(cur, {})
    /\ held' = reset(held, 0)
    /\ oldRoots' = reset(oldRoots, {})
    /\ outcome' = reset(outcome, "none")
    /\ touched' = reset(touched, {})
    /\ UNCHANGED <<db, live, manifest, pub, faults>>

-----------------------------------------------------------------------------
Request(p) == Save(p) \/ Click(p)

Trigger(p) == MaybeAutoRebuild(p) \/ Start(p) \/ Busy(p)

Stage(p) == \/ PrepareBuildEnv(p) \/ LoadBuildData(p) \/ WritePages(p)
            \/ WriteList(p) \/ WriteStagedExtras(p)

Promote(p) == \/ ReadOldManifest(p) \/ RemoveSubtree(p)
              \/ StatFinal(p) \/ SetAside(p) \/ MoveIn(p) \/ DropBackup(p)
              \/ PromoteFile(p) \/ BeginPrune(p) \/ PruneStaleRoot(p)
              \/ PromotePagesManifest(p) \/ CleanupFile(p) \/ Promoted(p)

Faulty(p) == \/ Fail(p) \/ FailMoveIn(p) \/ FailRestore(p)
             \/ FailDropBackup(p) \/ LoseRace(p)

Build(p) == \/ Stage(p) \/ Promote(p) \/ WriteAdditiveAssets(p)
            \/ Faulty(p) \/ Unwind(p)

Hosts == {HostOf[p] : p \in Requests}

Next == \/ \E p \in Requests : Request(p) \/ Trigger(p) \/ Build(p)
        \/ \E h \in Hosts : Crash(h)

Spec == Init /\ [][Next]_vars

(***************************************************************************)
(* Every goroutine runs on, and somebody rebuilds again and again: the     *)
(* help pages recommend a cron job.  Nobody has to save anything.          *)
(***************************************************************************)
Fairness == \A p \in Requests : /\ WF_vars(Trigger(p) \/ Build(p))
                               /\ WF_vars(Click(p))

LiveSpec == Spec /\ Fairness

-----------------------------------------------------------------------------
Version == 0 .. MaxEdits + 1

Plan == [ver : [Units -> Version], env : SUBSET TopFiles, envVer : Version]

(***************************************************************************)
(* Every variable stays in its domain.                                     *)
(***************************************************************************)
TypeOk ==
    /\ db \in [ver : Version \ {0}, site : Sites]
    /\ lock \subseteq Requests
    /\ pc \in [Requests -> Locs]
    /\ plan \in [Requests -> Plan]
    /\ rest \in [Requests -> SUBSET Units]
    /\ cur \in [Requests -> {{}} \cup {{u} : u \in Units}]
    /\ held \in [Requests -> Version]
    /\ oldRoots \in [Requests -> SUBSET Pages]
    /\ outcome \in [Requests -> {"none", "ok", "err"}]
    /\ touched \in [Requests -> SUBSET Units]
    /\ live \in [Units -> Version]
    /\ manifest \subseteq Pages
    /\ litter \subseteq (Units \cup {"staging"}) \X Version
    /\ pub \in [Units -> [ver : Version, up : BOOLEAN]]
    /\ faults \in 0 .. MaxFaults
    /\ crashes \in 0 .. MaxCrashes

(***************************************************************************)
(* Rebuilder.Run: two requests of one host never build at the same time,   *)
(* whatever fails and wherever a run is in its error path.                 *)
(***************************************************************************)
OneBuildPerHost ==
    \A p, q \in Requests :
        p # q /\ Building(p) /\ Building(q) => HostOf[p] # HostOf[q]

(***************************************************************************)
(* promoteManagedSubtree, promoteOneExtraDir: the backup-and-rename swap   *)
(* never destroys the only copy of something that was published and not    *)
(* withdrawn: it is being served, or in the backup of a run that is about  *)
(* to put it back, or in a backup directory left on disk.                  *)
(***************************************************************************)
NothingLost ==
    \A u \in Units : pub[u].up =>
        \/ live[u] = pub[u].ver
        \/ \E p \in Requests : pc[p] = "movein" /\ u \in cur[p] /\ held[p] = pub[u].ver
        \/ <<u, pub[u].ver>> \in litter

(***************************************************************************)
(* Rebuilder.Run and promoteStaging: content once published is never       *)
(* replaced by content read from the database before it.                   *)
(***************************************************************************)
NeverOlder == [][\A u \in Units : pub[u].ver <= pub'[u].ver]_vars

(***************************************************************************)
(* promoteStaging, once it returns without an error: every subtree, file   *)
(* and page of this run is being served, subtrees it did not write are     *)
(* gone, and the manifest names the pages it wrote.                        *)
(***************************************************************************)
PromotionComplete ==
    \A p \in Requests : pc[p] = "assets" =>
        /\ \A u \in Subtrees \cup PageRoots(p) \cup StagedFiles(p) \cup ToggledFiles :
              live[u] = plan[p].ver[u]
        /\ manifest = PageRoots(p)

(***************************************************************************)
(* promoteExtraDirs: "deleted / unpublished / renamed flat pages are       *)
(* cleaned up", so a page root that is served after a promotion is one of  *)
(* the pages the promotion wrote.                                          *)
(***************************************************************************)
UnpublishedPagesGone ==
    \A p \in Requests : pc[p] = "assets" =>
        \A u \in Pages \ PageRoots(p) : live[u] = 0

(***************************************************************************)
(* Build: failures inside promoteStaging leave the previous snapshot       *)
(* intact, so a promotion that fails has replaced nothing.                 *)
(***************************************************************************)
Promoting(p) == pc[p] \in {"old", "promote", "aside", "movein", "dropbackup",
                           "prune", "cleanup"}

FailedPromotionChangesNothing ==
    [][\A p \in Requests :
         Promoting(p) /\ pc'[p] = "unwind" => touched[p] = {}]_vars

(***************************************************************************)
(* A build that nothing disturbed takes its hidden directories with it.    *)
(***************************************************************************)
NoLitter == faults = 0 /\ crashes = 0 => litter = {}

(***************************************************************************)
(* The help pages: rebuild again and what is served is what the database   *)
(* says, however many saves met a running build and were skipped.          *)
(***************************************************************************)
Current ==
    /\ \A s \in Subtrees : live[s] = IF s \in db.site.subs THEN db.ver ELSE 0
    /\ \A u \in db.site.files \cup db.site.pages : live[u] = db.ver

EventuallyCurrent == []<>Current

(***************************************************************************)
(* What a build leaves behind: all of itself, and nothing besides.         *)
(***************************************************************************)
PromotionClean == PromotionComplete /\ NoLitter

-----------------------------------------------------------------------------
(***************************************************************************)
(* A visitor between the two renames of a swap is shown the version that   *)
(* was set aside: the refinement mapping looks through that window.        *)
(***************************************************************************)
InSwap(u) == {p \in Requests : pc[p] = "movein" /\ u \in cur[p] /\ held[p] # 0}

Visible == [u \in Units |-> IF live[u] = 0 /\ InSwap(u) # {}
                            THEN held[CHOOSE p \in InSwap(u) : TRUE]
                            ELSE live[u]]

Visitor == INSTANCE PublishedSite WITH
    Parts <- Units, latest <- db.ver, shown <- Visible,
    floor <- [u \in Units |-> pub[u].ver]

(***************************************************************************)
(* The server's rebuild, with its failures and kills, implements what a    *)
(* visitor of the static site may count on.                                *)
(***************************************************************************)
VisitorSpec == Visitor!Spec
=============================================================================
