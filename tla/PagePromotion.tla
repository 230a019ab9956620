---------------------------- MODULE PagePromotion ----------------------------
(***************************************************************************)
(* The flat-page half of promoteStaging: promoteExtraDirs,                 *)
(* promoteOneExtraDir, restorePreservedChildren, pruneStaleRoots and the   *)
(* manifest they work from, over one output directory that operators also  *)
(* put directories into.                                                   *)
(*                                                                         *)
(* A path is a sequence of segments.  A directory tree is a function whose *)
(* domain is the set of paths that are directories and whose value is the  *)
(* set of files in each: n stands for the index.html of the n-th build,    *)
(* and 0 for whatever an operator put there.                               *)
(***************************************************************************)
EXTENDS Naturals, SequencesExt

CONSTANTS
    Publications,   \* sets of page roots that may be published together
    OperatorDirs,   \* paths where operators keep files of their own
    MaxBuilds,      \* bound: builds
    MaxFaults       \* bound: failed file-system calls and kills

ASSUME PathsAssumption ==
    /\ \A P \in Publications : \A q \in P : q \in Seq(STRING) /\ q # <<>>
    /\ \A q \in OperatorDirs : q \in Seq(STRING) /\ q # <<>>

ASSUME BoundsAssumption == MaxBuilds \in Nat /\ MaxFaults \in Nat

VARIABLES
    pages,      \* published pages in the database
    tree,       \* the live output directory
    manifest,   \* .sb-pages-manifest
    gen,        \* number of the current or last build
    pc,         \* where the build is
    roots,      \* pruneSet: the roots this build staged
    oldRoots,   \* the roots the previous manifest names
    todo,       \* roots the current loop still has to visit
    cur,        \* the root being promoted, a singleton or empty
    staging,    \* the staging tree
    backup,     \* the tree in .sb-backup-*/dir
    children,   \* preserved children still to be put back
    faults,
    tracked     \* history: every root some build has staged

vars == <<pages, tree, manifest, gen, pc, roots, oldRoots, todo, cur, staging,
          backup, children, faults, tracked>>

-----------------------------------------------------------------------------
(* Paths and directory trees.                                               *)

NoTree == <<>>

Ancestors(q) == {SubSeq(q, 1, n) : n \in 1 .. Len(q) - 1}

IsUnder(q, root) == IsStrictPrefix(root, q)

DirExists(t, q) == q \in DOMAIN t

(* The part of a tree at and below a path, and what is left without it:     *)
(* a rename takes the one from a tree, os.RemoveAll leaves the other.       *)
At(t, q) == [r \in {r \in DOMAIN t : IsPrefix(q, r)} |-> t[r]]
RemoveAll(t, q) == [r \in {r \in DOMAIN t : ~IsPrefix(q, r)} |-> t[r]]

(* A rename puts tree s where tree t has nothing of it; what t has, stays.  *)
Joined(t, s) == [q \in DOMAIN t \cup DOMAIN s |-> IF q \in DOMAIN t THEN t[q] ELSE s[q]]

MkdirAll(t, Q) == Joined(t, [q \in Q |-> {}])
(* Bug: no MkdirAll before the rename into place.                           *)
NoParents(t, q) == t

MkdirParents(t, q) == MkdirAll(t, Ancestors(q))

(* What writePages stages for a set of page roots.                          *)
StagedTree(P, n) ==
    [q \in P \cup UNION {Ancestors(r) : r \in P} |-> IF q \in P THEN {n} ELSE {}]

OperatorTree ==
    [q \in OperatorDirs \cup UNION {Ancestors(r) : r \in OperatorDirs} |->
        IF q \in OperatorDirs THEN {0} ELSE {}]

-----------------------------------------------------------------------------
Init ==
    /\ pages \in Publications
    /\ tree = OperatorTree
    /\ manifest = {}
    /\ gen = 0
    /\ pc = "idle"
    /\ roots = {} /\ oldRoots = {} /\ todo = {} /\ cur = {} /\ children = {}
    /\ staging = NoTree
    /\ backup = NoTree
    /\ faults = 0
    /\ tracked = {}

(* Pages are created, renamed, unpublished or deleted between two builds.   *)
EditPages ==
    /\ pc = "idle"
    /\ pages' \in Publications \ {pages}
    /\ UNCHANGED <<tree, manifest, gen, pc, roots, oldRoots, todo, cur, staging,
                   backup, children, faults, tracked>>

(***************************************************************************)
(* An operator puts a directory (again) where no file of the name is.      *)
(***************************************************************************)
OperatorCopies ==
    /\ pc = "idle"
    /\ \E q \in OperatorDirs :
        /\ \A r \in Ancestors(q) : DirExists(tree, r)
        /\ ~DirExists(tree, q)
        /\ tree' = [MkdirAll(tree, {q}) EXCEPT ![q] = {0}]
    /\ UNCHANGED <<pages, manifest, gen, pc, roots, oldRoots, todo, cur, staging,
                   backup, children, faults, tracked>>

(***************************************************************************)
(* writePages into a fresh staging directory, then promoteStaging reads    *)
(* the manifest of the previous build.                                     *)
(***************************************************************************)
BeginPromotion ==
    /\ pc = "idle"
    /\ gen < MaxBuilds
    /\ gen' = gen + 1
    /\ roots' = pages
    /\ staging' = StagedTree(pages, gen + 1)
    /\ oldRoots' = manifest
    /\ todo' = pages
    /\ tracked' = tracked \cup pages
    /\ pc' = "promote"
    /\ UNCHANGED <<pages, tree, manifest, cur, backup, children, faults>>

-----------------------------------------------------------------------------
(* promoteExtraDirs, deepest roots first, equally deep ones in any order.   *)

Deepest(S) == {q \in S : \A r \in S : Len(r) <= Len(q)}

(* activeChildrenOf: staged roots below this one that are on disk.          *)
ActiveChildrenOf(root) == {c \in roots : IsUnder(c, root) /\ DirExists(tree, c)}

SetAside ==
    /\ pc = "promote"
    /\ \E root \in Deepest(todo) :
        LET t == MkdirParents(tree, root) IN
        /\ cur' = {root}
        /\ children' = ActiveChildrenOf(root)
        /\ backup' = At(t, root)
        /\ tree' = RemoveAll(t, root)
    /\ pc' = "movein"
    /\ UNCHANGED <<pages, manifest, gen, roots, oldRoots, todo, staging, faults,
                   tracked>>

MoveIn ==
    /\ pc = "movein"
    /\ \E root \in cur :
        /\ tree' = Joined(tree, At(staging, root))
        /\ staging' = RemoveAll(staging, root)
    /\ pc' = "restore"
    /\ UNCHANGED <<pages, manifest, gen, roots, oldRoots, todo, cur, backup,
                   children, faults, tracked>>

(***************************************************************************)
(* restorePreservedChildren, one child of the slice at a time; the slice   *)
(* comes from a Go map, so in any order.                                   *)
(***************************************************************************)
RestoreChild ==
    /\ pc = "restore"
    /\ \E c \in children :
        /\ children' = children \ {c}
        /\ IF DirExists(backup, c)
           THEN /\ tree' = Joined(RemoveAll(MkdirParents(tree, c), c), At(backup, c))
                /\ backup' = RemoveAll(backup, c)
           ELSE UNCHANGED <<tree, backup>>
    /\ UNCHANGED <<pages, manifest, gen, pc, roots, oldRoots, todo, cur, staging,
                   faults, tracked>>

DropBackup ==
    /\ pc = "restore"
    /\ children = {}
    /\ backup' = NoTree
    /\ todo' = todo \ cur
    /\ cur' = {}
    /\ pc' = "promote"
    /\ UNCHANGED <<pages, tree, manifest, gen, roots, oldRoots, children,
                   staging, faults, tracked>>

-----------------------------------------------------------------------------
(* pruneStaleRoots, in any order, and the manifest.                         *)

(* Bug: a stale root is removed with everything below it.                   *)
NoDescendants(root) == FALSE

HasActiveDescendant(root) == \E a \in roots : IsUnder(a, root)

BeginPrune ==
    /\ pc = "promote"
    /\ todo = {}
    /\ todo' = oldRoots \ roots
    /\ pc' = "prune"
    /\ UNCHANGED <<pages, tree, manifest, gen, roots, oldRoots, cur, staging,
                   backup, children, faults, tracked>>

Pruned(root) ==
    IF ~DirExists(tree, root) THEN tree
    ELSE IF HasActiveDescendant(root)
         THEN [tree EXCEPT ![root] = @ \cap {0}]
         ELSE RemoveAll(tree, root)

PruneStaleRoot ==
    /\ pc = "prune"
    /\ \E root \in todo :
        /\ tree' = Pruned(root)
        /\ todo' = todo \ {root}
    /\ UNCHANGED <<pages, manifest, gen, pc, roots, oldRoots, cur, staging,
                   backup, children, faults, tracked>>

(* Bug: the manifest is written by the first build only.                    *)
ManifestOnce ==
    /\ pc = "prune"
    /\ todo = {}
    /\ manifest' = IF gen = 1 THEN roots ELSE manifest
    /\ pc' = "done"
    /\ UNCHANGED <<pages, tree, gen, roots, oldRoots, todo, cur, staging, backup,
                   children, faults, tracked>>

PromotePagesManifest ==
    /\ pc = "prune"
    /\ todo = {}
    /\ manifest' = roots
    /\ pc' = "done"
    /\ UNCHANGED <<pages, tree, gen, roots, oldRoots, todo, cur, staging, backup,
                   children, faults, tracked>>

(* Build returns: staging and the local variables are gone.                 *)
Forget ==
    /\ pc' = "idle"
    /\ roots' = {} /\ oldRoots' = {} /\ todo' = {} /\ cur' = {} /\ children' = {}
    /\ staging' = NoTree
    /\ backup' = NoTree

Return ==
    /\ pc = "done"
    /\ Forget
    /\ UNCHANGED <<pages, tree, manifest, gen, faults, tracked>>

-----------------------------------------------------------------------------
(***************************************************************************)
(* A call fails, or the process is killed, between two steps.  The only    *)
(* error path that repairs anything is the one of the rename of the staged *)
(* root: the old directory is renamed back.  A kill, and an error while    *)
(* children are put back, leave the rest of the old directory in a backup  *)
(* nobody reads again.                                                     *)
(***************************************************************************)
Stop ==
    /\ pc \in {"promote", "movein", "restore", "prune"}
    /\ faults < MaxFaults
    /\ faults' = faults + 1
    /\ \/ UNCHANGED tree
       \/ pc = "movein" /\ tree' = Joined(tree, backup)
    /\ Forget
    /\ UNCHANGED <<pages, manifest, gen, tracked>>

Next == \/ EditPages \/ OperatorCopies \/ BeginPromotion
        \/ SetAside \/ MoveIn \/ RestoreChild \/ DropBackup
        \/ BeginPrune \/ PruneStaleRoot \/ PromotePagesManifest
        \/ Return \/ Stop

Spec == Init /\ [][Next]_vars

-----------------------------------------------------------------------------
Roots == UNION Publications
AllDirs == UNION {{q} \cup Ancestors(q) : q \in Roots \cup OperatorDirs}

IsTree(t) ==
    /\ DOMAIN t \subseteq AllDirs
    /\ \A q \in DOMAIN t : t[q] \subseteq 0 .. MaxBuilds

(***************************************************************************)
(* Every variable stays in its domain, and the live output is a tree: a    *)
(* directory's parents are directories.                                    *)
(***************************************************************************)
TypeOk ==
    /\ pages \in Publications
    /\ IsTree(tree) /\ IsTree(staging) /\ IsTree(backup)
    /\ \A q \in DOMAIN tree : Ancestors(q) \subseteq DOMAIN tree
    /\ manifest \subseteq Roots /\ roots \subseteq Roots
    /\ oldRoots \subseteq Roots /\ todo \subseteq Roots /\ cur \subseteq Roots
    /\ children \subseteq Roots /\ tracked \subseteq Roots
    /\ gen \in 0 .. MaxBuilds
    /\ faults \in 0 .. MaxFaults
    /\ pc \in {"idle", "promote", "movein", "restore", "prune", "done"}

(***************************************************************************)
(* promoteExtraDirs: when it returns, each published page is served by     *)
(* this build's file, however the roots nest and whatever earlier builds   *)
(* left behind.                                                            *)
(***************************************************************************)
PagesServed == pc = "done" => \A q \in roots : DirExists(tree, q) /\ gen \in tree[q]

(***************************************************************************)
(* pruneStaleRoots: when no build was cut short, no page of an earlier     *)
(* build is served any more, neither as a root of its own nor inside the   *)
(* directory of another page.                                              *)
(***************************************************************************)
StalePagesGone ==
    pc = "done" /\ faults = 0 => \A q \in DOMAIN tree : tree[q] \subseteq {0, gen}

(***************************************************************************)
(* promoteExtraDirs: an operator's directory that is neither a page root   *)
(* nor below one, a sibling or a parent of pages, is never touched.        *)
(***************************************************************************)
OutsideDirsUntouched ==
    \A q \in OperatorDirs :
        (\A r \in tracked : ~IsPrefix(r, q)) =>
            DirExists(tree, q) /\ 0 \in tree[q]

(***************************************************************************)
(* What goes: all that is stale, and nothing that is an operator's.        *)
(***************************************************************************)
OnlyStalePagesGo == StalePagesGone /\ OutsideDirsUntouched
=============================================================================
