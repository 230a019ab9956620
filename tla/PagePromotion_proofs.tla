------------------------ MODULE PagePromotion_proofs ------------------------
(***************************************************************************)
(* Theorems about PagePromotion for any sets of pages, any directories,    *)
(* however they nest, and any number of builds: the live output is a tree, *)
(* what an operator put there is not touched, nothing stale is served, and *)
(* every published page is.                                                *)
(***************************************************************************)
EXTENDS PagePromotion, TLAPS

(***************************************************************************)
(* Paths and the prefix order.                                             *)
(***************************************************************************)
Path == Seq(STRING) \ {<<>>}

LEMMA PrefixIs ==
    ASSUME NEW p \in Seq(STRING), NEW q \in Seq(STRING)
    PROVE  IsPrefix(p, q) <=> Len(p) <= Len(q) /\ \A k \in 1 .. Len(p) : p[k] = q[k]
<1>1. Len(p) \in Nat /\ Len(q) \in Nat
    OBVIOUS
<1>2. ASSUME Len(p) <= Len(q)
      PROVE  /\ SubSeq(p, 1, Len(p)) = [k \in 1 .. Len(p) |-> p[k]]
             /\ SubSeq(q, 1, Len(p)) = [k \in 1 .. Len(p) |-> q[k]]
    BY <1>1, <1>2
<1>3. ASSUME Len(p) <= Len(q)
      PROVE  SubSeq(p, 1, Len(p)) = SubSeq(q, 1, Len(p)) <=> \A k \in 1 .. Len(p) : p[k] = q[k]
    BY <1>2, <1>3
<1>4. QED BY <1>1, <1>3 DEF IsPrefix

LEMMA PrefixOrder ==
    /\ \A p \in Path : IsPrefix(p, p)
    /\ \A p, q \in Path : IsPrefix(p, q) /\ IsPrefix(q, p) => p = q
    /\ \A p, q, r \in Path : IsPrefix(p, q) /\ IsPrefix(q, r) => IsPrefix(p, r)
    /\ \A p, q, r \in Path : IsPrefix(p, r) /\ IsPrefix(q, r) /\ Len(p) <= Len(q) => IsPrefix(p, q)
    /\ \A p, q \in Path : IsPrefix(p, q) => Len(p) <= Len(q)
    /\ \A p, q \in Path : IsPrefix(p, q) /\ p # q => ~(Len(q) <= Len(p))
<1>0. \A p \in Path : p \in Seq(STRING) /\ Len(p) \in Nat
    BY DEF Path
<1>1. \A p, q \in Path : IsPrefix(p, q) <=> Len(p) <= Len(q) /\ \A k \in 1 .. Len(p) : p[k] = q[k]
    BY <1>0, PrefixIs
<1>2. \A p, q \in Path : Len(p) = Len(q) /\ (\A k \in 1 .. Len(p) : p[k] = q[k]) => p = q
    BY <1>0
<1>3. \A p \in Path : IsPrefix(p, p)
    BY <1>0, <1>1
<1>4. \A p, q \in Path : IsPrefix(p, q) => Len(p) <= Len(q)
    BY <1>1
<1>5. \A p, q \in Path : IsPrefix(p, q) /\ p # q => ~(Len(q) <= Len(p))
    BY <1>0, <1>1, <1>2
<1>6. \A p, q \in Path : IsPrefix(p, q) /\ IsPrefix(q, p) => p = q
    BY <1>4, <1>5
<1>7. \A p, q, r \in Path : IsPrefix(p, q) /\ IsPrefix(q, r) => IsPrefix(p, r)
    <2> SUFFICES ASSUME NEW p \in Path, NEW q \in Path, NEW r \in Path, IsPrefix(p, q), IsPrefix(q, r)
                 PROVE  IsPrefix(p, r)
        OBVIOUS
    <2>1. Len(p) <= Len(q) /\ Len(q) <= Len(r) /\ (\A k \in 1 .. Len(p) : p[k] = q[k])
          /\ \A k \in 1 .. Len(q) : q[k] = r[k]
        BY <1>1
    <2>2. Len(p) <= Len(r) /\ \A k \in 1 .. Len(p) : p[k] = r[k]
        BY <1>0, <2>1
    <2>3. QED BY <1>1, <2>2
<1>8. \A p, q, r \in Path : IsPrefix(p, r) /\ IsPrefix(q, r) /\ Len(p) <= Len(q) => IsPrefix(p, q)
    <2> SUFFICES ASSUME NEW p \in Path, NEW q \in Path, NEW r \in Path, IsPrefix(p, r), IsPrefix(q, r),
                        Len(p) <= Len(q)
                 PROVE  IsPrefix(p, q)
        OBVIOUS
    <2>1. (\A k \in 1 .. Len(p) : p[k] = r[k]) /\ \A k \in 1 .. Len(q) : q[k] = r[k]
        BY <1>1
    <2>2. \A k \in 1 .. Len(p) : p[k] = q[k]
        BY <1>0, <2>1
    <2>3. QED BY <1>1, <2>2
<1>9. QED BY <1>3, <1>4, <1>5, <1>6, <1>7, <1>8

LEMMA AncestorsAre ==
    ASSUME NEW q \in Path
    PROVE  /\ Ancestors(q) \subseteq Path
           /\ \A a \in Path : a \in Ancestors(q) <=> IsPrefix(a, q) /\ a # q
<1>0. q \in Seq(STRING) /\ Len(q) \in Nat /\ Len(q) >= 1
    BY DEF Path
<1>1. ASSUME NEW n \in 1 .. Len(q) - 1
      PROVE  /\ SubSeq(q, 1, n) \in Seq(STRING) /\ Len(SubSeq(q, 1, n)) = n
             /\ \A k \in 1 .. n : SubSeq(q, 1, n)[k] = q[k]
    BY <1>0
<1>2. \A a \in Ancestors(q) : a \in Path /\ IsPrefix(a, q) /\ a # q
    <2> SUFFICES ASSUME NEW n \in 1 .. Len(q) - 1
                 PROVE  LET a == SubSeq(q, 1, n) IN a \in Path /\ IsPrefix(a, q) /\ a # q
        BY DEF Ancestors
    <2>1. PICK a : a = SubSeq(q, 1, n)
        OBVIOUS
    <2>2. a \in Seq(STRING) /\ Len(a) = n /\ n \in Nat /\ n >= 1 /\ n < Len(q) /\ \A k \in 1 .. n : a[k] = q[k]
        BY <1>0, <1>1, <2>1
    <2>3. a # <<>> /\ a # q
        BY <2>2
    <2>4. IsPrefix(a, q)
        BY <1>0, <2>2, PrefixIs
    <2>5. QED BY <2>1, <2>2, <2>3, <2>4 DEF Path
<1>3. ASSUME NEW a \in Path, IsPrefix(a, q), a # q PROVE a \in Ancestors(q)
    <2>1. a \in Seq(STRING) /\ Len(a) \in Nat /\ Len(a) >= 1
        BY DEF Path
    <2>2. Len(a) < Len(q) /\ \A k \in 1 .. Len(a) : a[k] = q[k]
        <3>1. Len(a) <= Len(q) /\ ~(Len(q) <= Len(a))
            BY <1>3, PrefixOrder
        <3>2. QED BY <1>0, <1>3, <2>1, <3>1, PrefixIs
    <2>3. Len(a) \in 1 .. Len(q) - 1
        BY <1>0, <2>1, <2>2
    <2>4. a = SubSeq(q, 1, Len(a))
        <3>1. PICK s : s = SubSeq(q, 1, Len(a))
            OBVIOUS
        <3>2. s \in Seq(STRING) /\ Len(s) = Len(a) /\ \A k \in 1 .. Len(a) : s[k] = q[k]
            BY <1>1, <2>3, <3>1
        <3>3. QED BY <2>1, <2>2, <3>1, <3>2
    <2>5. QED BY <2>3, <2>4 DEF Ancestors
<1>4. QED BY <1>2, <1>3

(* All that can be a directory, and what the prefix order is on it.         *)
LEMMA DirFacts ==
    /\ AllDirs \subseteq Path /\ Roots \subseteq AllDirs /\ OperatorDirs \subseteq AllDirs
    /\ \A P \in Publications : P \subseteq Roots
    /\ \A q \in AllDirs : Ancestors(q) \subseteq AllDirs
    /\ \A a, q \in AllDirs : a \in Ancestors(q) <=> IsPrefix(a, q) /\ a # q
<1>1. Roots \cup OperatorDirs \subseteq Path
    BY PathsAssumption DEF Roots, Path
<1>2. AllDirs \subseteq Path
    BY <1>1, AncestorsAre DEF AllDirs
<1>3. Roots \subseteq AllDirs /\ OperatorDirs \subseteq AllDirs /\ \A P \in Publications : P \subseteq Roots
    BY DEF AllDirs, Roots
<1>4. ASSUME NEW q \in AllDirs, NEW a \in Ancestors(q) PROVE a \in AllDirs
    <2>1. PICK r \in Roots \cup OperatorDirs : q = r \/ q \in Ancestors(r)
        BY DEF AllDirs
    <2>2. q \in Path /\ r \in Path /\ a \in Path
        BY <1>1, <1>2, <2>1, AncestorsAre
    <2>3. IsPrefix(a, q) /\ a # q /\ IsPrefix(q, r)
        BY <2>1, <2>2, AncestorsAre, PrefixOrder
    <2>4. IsPrefix(a, r) /\ a # r
        BY <2>2, <2>3, PrefixOrder
    <2>5. a \in Ancestors(r)
        BY <2>2, <2>4, AncestorsAre
    <2>6. QED BY <2>5 DEF AllDirs
<1>5. \A a, q \in AllDirs : a \in Ancestors(q) <=> IsPrefix(a, q) /\ a # q
    BY <1>2, AncestorsAre
<1>6. QED BY <1>2, <1>3, <1>4, <1>5

LEMMA DirOrder ==
    /\ \A p \in AllDirs : IsPrefix(p, p)
    /\ \A p, q \in AllDirs : IsPrefix(p, q) /\ IsPrefix(q, p) => p = q
    /\ \A p, q, r \in AllDirs : IsPrefix(p, q) /\ IsPrefix(q, r) => IsPrefix(p, r)
    /\ \A p, q \in AllDirs : IsPrefix(p, q) /\ p # q => ~(Len(q) <= Len(p))
    /\ \A p, q \in AllDirs : IsUnder(q, p) <=> IsPrefix(p, q) /\ p # q
<1>1. AllDirs \subseteq Path
    BY DirFacts
<1>2. \A p, q \in AllDirs : IsUnder(q, p) <=> IsPrefix(p, q) /\ p # q
    BY DEF IsUnder, IsStrictPrefix
<1>3. QED BY <1>1, <1>2, PrefixOrder

(***************************************************************************)
(* Trees: what a rename takes and puts, and what stays.                    *)
(***************************************************************************)
LEMMA TreeOps ==
    /\ \A t, u : /\ \A q : q \in DOMAIN Joined(t, u) <=> q \in DOMAIN t \/ q \in DOMAIN u
                /\ \A q \in DOMAIN Joined(t, u) :
                      Joined(t, u)[q] = IF q \in DOMAIN t THEN t[q] ELSE u[q]
    /\ \A t, p : /\ \A q : q \in DOMAIN At(t, p) <=> q \in DOMAIN t /\ IsPrefix(p, q)
                /\ \A q \in DOMAIN At(t, p) : At(t, p)[q] = t[q]
    /\ \A t, p : /\ \A q : q \in DOMAIN RemoveAll(t, p) <=> q \in DOMAIN t /\ ~IsPrefix(p, q)
                /\ \A q \in DOMAIN RemoveAll(t, p) : RemoveAll(t, p)[q] = t[q]
    /\ \A t, p : /\ \A q : q \in DOMAIN MkdirParents(t, p) <=> q \in DOMAIN t \/ q \in Ancestors(p)
                /\ \A q \in DOMAIN MkdirParents(t, p) :
                      MkdirParents(t, p)[q] = IF q \in DOMAIN t THEN t[q] ELSE {}
<1>1. ASSUME NEW t, NEW u
      PROVE  /\ \A q : q \in DOMAIN Joined(t, u) <=> q \in DOMAIN t \/ q \in DOMAIN u
             /\ \A q \in DOMAIN Joined(t, u) : Joined(t, u)[q] = IF q \in DOMAIN t THEN t[q] ELSE u[q]
    BY DEF Joined
<1>2. ASSUME NEW t, NEW p
      PROVE  /\ \A q : q \in DOMAIN At(t, p) <=> q \in DOMAIN t /\ IsPrefix(p, q)
             /\ \A q \in DOMAIN At(t, p) : At(t, p)[q] = t[q]
             /\ \A q : q \in DOMAIN RemoveAll(t, p) <=> q \in DOMAIN t /\ ~IsPrefix(p, q)
             /\ \A q \in DOMAIN RemoveAll(t, p) : RemoveAll(t, p)[q] = t[q]
    BY DEF At, RemoveAll
<1>3. ASSUME NEW t, NEW p
      PROVE  /\ \A q : q \in DOMAIN MkdirParents(t, p) <=> q \in DOMAIN t \/ q \in Ancestors(p)
             /\ \A q \in DOMAIN MkdirParents(t, p) :
                   MkdirParents(t, p)[q] = IF q \in DOMAIN t THEN t[q] ELSE {}
    BY DEF MkdirParents, MkdirAll, Joined
<1>4. QED BY <1>1, <1>2, <1>3

(***************************************************************************)
(* The shape of a build under way.  Closed: every directory's parents are  *)
(* directories; below a root: those down from it are.                      *)
(***************************************************************************)
Closed(t) == \A q \in DOMAIN t : Ancestors(q) \subseteq DOMAIN t
ClosedBelow(t, root) ==
    \A q \in DOMAIN t : /\ IsPrefix(root, q)
                        /\ \A a \in Ancestors(q) : IsPrefix(root, a) => a \in DOMAIN t

Working == {"promote", "movein", "restore"}
AtRoot == {"movein", "restore"}

StagingOk ==
    /\ Closed(staging)
    /\ \A q \in DOMAIN staging : staging[q] \subseteq {gen} /\ (staging[q] = {} \/ q \in roots)
    /\ pc \in {"promote", "movein"} => \A q \in todo : q \in DOMAIN staging /\ gen \in staging[q]
    /\ pc = "restore" => \A q \in todo \ cur : q \in DOMAIN staging /\ gen \in staging[q]

RootOk(root) ==
    /\ root \in todo /\ root \in roots /\ \A q \in todo : Len(q) <= Len(root)
    /\ Ancestors(root) \subseteq DOMAIN tree
    /\ ClosedBelow(backup, root)
    /\ \A c \in children : c \in roots /\ c \notin todo /\ IsUnder(c, root)
    /\ IF pc = "movein" THEN \A q \in DOMAIN tree : ~IsPrefix(root, q) ELSE root \in DOMAIN tree

Shape ==
    /\ roots \subseteq tracked /\ oldRoots \subseteq tracked /\ manifest \subseteq tracked
    /\ pc # "idle" => roots \in Publications
    /\ pc = "idle" => roots = {} /\ todo = {} /\ cur = {} /\ children = {} /\ staging = NoTree
    /\ pc \in Working => todo \subseteq roots
    /\ pc = "prune" => todo \subseteq oldRoots \ roots
    /\ pc = "done" => todo = {} /\ manifest = roots
    /\ IF pc \in AtRoot THEN \E root \in todo : cur = {root} /\ RootOk(root)
       ELSE cur = {} /\ children = {} /\ backup = NoTree
    /\ StagingOk

PromotionInv == TypeOk /\ Shape

(* The steps, tree by tree.                                                  *)
LEMMA NoTreeIs == DOMAIN NoTree = {} /\ IsTree(NoTree) /\ Closed(NoTree)
    BY DEF NoTree, IsTree, Closed

LEMMA SetAsideEffect ==
    ASSUME TypeOk, Shape, SetAside
    PROVE  \E root \in todo :
             /\ pc = "promote" /\ pc' = "movein" /\ cur' = {root} /\ root \in AllDirs
             /\ \A q \in todo : Len(q) <= Len(root)
             /\ children' = {c \in roots : IsUnder(c, root) /\ c \in DOMAIN tree}
             /\ \A q : q \in DOMAIN tree' <=> (q \in DOMAIN tree \/ q \in Ancestors(root)) /\ ~IsPrefix(root, q)
             /\ \A q \in DOMAIN tree' : tree'[q] = IF q \in DOMAIN tree THEN tree[q] ELSE {}
             /\ \A q : q \in DOMAIN backup' <=> q \in DOMAIN tree /\ IsPrefix(root, q)
             /\ \A q \in DOMAIN backup' : backup'[q] = tree[q]
             /\ UNCHANGED <<pages, manifest, gen, roots, oldRoots, todo, staging, faults, tracked>>
<1>1. PICK root \in Deepest(todo) :
        /\ cur' = {root} /\ children' = ActiveChildrenOf(root)
        /\ backup' = At(MkdirParents(tree, root), root)
        /\ tree' = RemoveAll(MkdirParents(tree, root), root)
    BY DEF SetAside
<1>2. root \in todo /\ (\A q \in todo : Len(q) <= Len(root)) /\ root \in AllDirs
    BY DirFacts DEF Deepest, TypeOk
<1>3. PICK t : t = MkdirParents(tree, root)
    OBVIOUS
<1>4. /\ \A q : q \in DOMAIN t <=> q \in DOMAIN tree \/ q \in Ancestors(root)
      /\ \A q \in DOMAIN t : t[q] = IF q \in DOMAIN tree THEN tree[q] ELSE {}
    BY <1>3, TreeOps
<1>5. \A q \in Ancestors(root) : ~IsPrefix(root, q)
    BY <1>2, DirFacts, DirOrder
<1>6. /\ \A q : q \in DOMAIN tree' <=> q \in DOMAIN t /\ ~IsPrefix(root, q)
      /\ \A q \in DOMAIN tree' : tree'[q] = t[q]
      /\ \A q : q \in DOMAIN backup' <=> q \in DOMAIN t /\ IsPrefix(root, q)
      /\ \A q \in DOMAIN backup' : backup'[q] = t[q]
    BY <1>1, <1>3, TreeOps
<1>7. \A q : q \in DOMAIN backup' <=> q \in DOMAIN tree /\ IsPrefix(root, q)
    BY <1>4, <1>5, <1>6
<1>8. QED BY <1>1, <1>2, <1>4, <1>6, <1>7 DEF SetAside, ActiveChildrenOf, DirExists

LEMMA MoveInEffect ==
    ASSUME TypeOk, Shape, MoveIn
    PROVE  \E root \in todo :
             /\ pc = "movein" /\ pc' = "restore" /\ cur = {root} /\ root \in AllDirs /\ RootOk(root)
             /\ \A q : q \in DOMAIN tree' <=> q \in DOMAIN tree \/ (q \in DOMAIN staging /\ IsPrefix(root, q))
             /\ \A q \in DOMAIN tree' : tree'[q] = IF q \in DOMAIN tree THEN tree[q] ELSE staging[q]
             /\ \A q : q \in DOMAIN staging' <=> q \in DOMAIN staging /\ ~IsPrefix(root, q)
             /\ \A q \in DOMAIN staging' : staging'[q] = staging[q]
             /\ UNCHANGED <<pages, manifest, gen, roots, oldRoots, todo, cur, backup, children, faults, tracked>>
<1>1. PICK root \in todo : cur = {root} /\ RootOk(root) /\ pc = "movein"
    BY DEF Shape, MoveIn, AtRoot
<1>2. tree' = Joined(tree, At(staging, root)) /\ staging' = RemoveAll(staging, root)
    BY <1>1 DEF MoveIn
<1>3. root \in AllDirs
    BY <1>1, DirFacts DEF TypeOk
<1>4. /\ \A q : q \in DOMAIN tree' <=> q \in DOMAIN tree \/ (q \in DOMAIN staging /\ IsPrefix(root, q))
      /\ \A q \in DOMAIN tree' : tree'[q] = IF q \in DOMAIN tree THEN tree[q] ELSE staging[q]
    <2>1. PICK u : u = At(staging, root)
        OBVIOUS
    <2>2. /\ \A q : q \in DOMAIN u <=> q \in DOMAIN staging /\ IsPrefix(root, q)
          /\ \A q \in DOMAIN u : u[q] = staging[q]
        BY <2>1, TreeOps
    <2>3. tree' = Joined(tree, u)
        BY <1>2, <2>1
    <2>4. QED BY <2>2, <2>3, TreeOps
<1>5. /\ \A q : q \in DOMAIN staging' <=> q \in DOMAIN staging /\ ~IsPrefix(root, q)
      /\ \A q \in DOMAIN staging' : staging'[q] = staging[q]
    BY <1>2, TreeOps
<1>6. QED BY <1>1, <1>3, <1>4, <1>5 DEF MoveIn

LEMMA RestoreEffect ==
    ASSUME TypeOk, Shape, RestoreChild
    PROVE  \E root \in todo, c \in children :
             /\ pc = "restore" /\ cur = {root} /\ RootOk(root) /\ c \in AllDirs /\ root \in AllDirs
             /\ c \in roots /\ IsPrefix(root, c) /\ c # root
             /\ children' = children \ {c}
             /\ \/ c \notin DOMAIN backup /\ UNCHANGED <<tree, backup>>
                \/ /\ c \in DOMAIN backup
                   /\ \A q : q \in DOMAIN tree' <=>
                         IF IsPrefix(c, q) THEN q \in DOMAIN backup ELSE q \in DOMAIN tree \/ q \in Ancestors(c)
                   /\ \A q \in DOMAIN tree' :
                         tree'[q] = IF IsPrefix(c, q) THEN backup[q]
                                    ELSE IF q \in DOMAIN tree THEN tree[q] ELSE {}
                   /\ \A q : q \in DOMAIN backup' <=> q \in DOMAIN backup /\ ~IsPrefix(c, q)
                   /\ \A q \in DOMAIN backup' : backup'[q] = backup[q]
             /\ UNCHANGED <<pages, manifest, gen, pc, roots, oldRoots, todo, cur, staging, faults, tracked>>
<1>1. PICK root \in todo : cur = {root} /\ RootOk(root) /\ pc = "restore"
    BY DEF Shape, RestoreChild, AtRoot
<1>2. PICK c \in children :
        /\ children' = children \ {c}
        /\ IF c \in DOMAIN backup
           THEN /\ tree' = Joined(RemoveAll(MkdirParents(tree, c), c), At(backup, c))
                /\ backup' = RemoveAll(backup, c)
           ELSE UNCHANGED <<tree, backup>>
    BY DEF RestoreChild, DirExists
<1>3. root \in AllDirs /\ c \in AllDirs /\ c \in roots /\ IsPrefix(root, c) /\ c # root
    <2>1. root \in AllDirs /\ c \in AllDirs /\ c \in roots /\ IsUnder(c, root)
        BY <1>1, <1>2, DirFacts DEF TypeOk, RootOk
    <2>2. QED BY <2>1, DirOrder
<1>4. CASE c \notin DOMAIN backup
    BY <1>1, <1>2, <1>3, <1>4 DEF RestoreChild
<1>5. CASE c \in DOMAIN backup
    <2>1. PICK t, s, u : t = MkdirParents(tree, c) /\ s = RemoveAll(t, c) /\ u = At(backup, c)
        OBVIOUS
    <2>2. /\ \A q : q \in DOMAIN t <=> q \in DOMAIN tree \/ q \in Ancestors(c)
          /\ \A q \in DOMAIN t : t[q] = IF q \in DOMAIN tree THEN tree[q] ELSE {}
        BY <2>1, TreeOps
    <2>3. (\A q : q \in DOMAIN s <=> q \in DOMAIN t /\ ~IsPrefix(c, q)) /\ \A q \in DOMAIN s : s[q] = t[q]
        BY <2>1, TreeOps
    <2>4. (\A q : q \in DOMAIN u <=> q \in DOMAIN backup /\ IsPrefix(c, q)) /\ \A q \in DOMAIN u : u[q] = backup[q]
        BY <2>1, TreeOps
    <2>5. tree' = Joined(s, u) /\ backup' = RemoveAll(backup, c)
        BY <1>2, <1>5, <2>1
    <2>6. (\A q : q \in DOMAIN tree' <=> q \in DOMAIN s \/ q \in DOMAIN u)
          /\ \A q \in DOMAIN tree' : tree'[q] = IF q \in DOMAIN s THEN s[q] ELSE u[q]
        BY <2>5, TreeOps
    <2>7. /\ \A q : q \in DOMAIN tree' <=>
                         IF IsPrefix(c, q) THEN q \in DOMAIN backup ELSE q \in DOMAIN tree \/ q \in Ancestors(c)
          /\ \A q \in DOMAIN tree' :
                tree'[q] = IF IsPrefix(c, q) THEN backup[q]
                           ELSE IF q \in DOMAIN tree THEN tree[q] ELSE {}
        BY <2>2, <2>3, <2>4, <2>6
    <2>8. /\ \A q : q \in DOMAIN backup' <=> q \in DOMAIN backup /\ ~IsPrefix(c, q)
          /\ \A q \in DOMAIN backup' : backup'[q] = backup[q]
        BY <2>5, TreeOps
    <2>9. QED BY <1>1, <1>2, <1>3, <1>5, <2>7, <2>8 DEF RestoreChild
<1>6. QED BY <1>4, <1>5

-----------------------------------------------------------------------------
LEMMA StagedIs ==
    ASSUME NEW P \in Publications, NEW n
    PROVE  /\ Closed(StagedTree(P, n)) /\ DOMAIN StagedTree(P, n) \subseteq AllDirs
           /\ \A q \in DOMAIN StagedTree(P, n) :
                 /\ StagedTree(P, n)[q] \subseteq {n}
                 /\ StagedTree(P, n)[q] = {} \/ q \in P
           /\ \A q \in P : q \in DOMAIN StagedTree(P, n) /\ n \in StagedTree(P, n)[q]
<1>1. P \subseteq AllDirs
    BY DirFacts
<1>2. PICK t : t = StagedTree(P, n)
    OBVIOUS
<1>3. /\ DOMAIN t = P \cup UNION {Ancestors(r) : r \in P}
      /\ \A q \in DOMAIN t : t[q] = IF q \in P THEN {n} ELSE {}
    BY <1>2 DEF StagedTree
<1>4. DOMAIN t \subseteq AllDirs
    BY <1>1, <1>3, DirFacts
<1>5. ASSUME NEW q \in DOMAIN t, NEW a \in Ancestors(q) PROVE a \in DOMAIN t
    <2>1. CASE q \in P
        BY <1>3, <1>5, <2>1
    <2>2. CASE q \notin P
        <3>1. PICK r \in P : q \in Ancestors(r)
            BY <1>3, <1>5, <2>2
        <3>2. a \in AllDirs /\ q \in AllDirs /\ r \in AllDirs
            BY <1>1, <1>4, <1>5, DirFacts
        <3>3. a \in Ancestors(r)
            BY <1>5, <3>1, <3>2, DirFacts, DirOrder
        <3>4. QED BY <1>3, <3>3
    <2>3. QED BY <2>1, <2>2
<1>6. QED BY <1>2, <1>3, <1>4, <1>5 DEF Closed

LEMMA ShapeInit == Init => TypeOk /\ Shape
<1> SUFFICES ASSUME Init PROVE TypeOk /\ Shape
    OBVIOUS
<1>1. PICK t : t = OperatorTree
    OBVIOUS
<1>2. /\ DOMAIN t = OperatorDirs \cup UNION {Ancestors(r) : r \in OperatorDirs}
      /\ \A q \in DOMAIN t : t[q] = IF q \in OperatorDirs THEN {0} ELSE {}
    BY <1>1 DEF OperatorTree
<1>3. DOMAIN t \subseteq AllDirs
    BY <1>2, DirFacts
<1>4. ASSUME NEW q \in DOMAIN t, NEW a \in Ancestors(q) PROVE a \in DOMAIN t
    <2>1. CASE q \in OperatorDirs
        BY <1>2, <1>4, <2>1
    <2>2. CASE q \notin OperatorDirs
        <3>1. PICK r \in OperatorDirs : q \in Ancestors(r)
            BY <1>2, <1>4, <2>2
        <3>2. a \in AllDirs /\ q \in AllDirs /\ r \in AllDirs
            BY <1>3, <1>4, DirFacts
        <3>3. a \in Ancestors(r)
            BY <1>4, <3>1, <3>2, DirFacts, DirOrder
        <3>4. QED BY <1>2, <3>3
    <2>3. QED BY <2>1, <2>2
<1>5. MaxBuilds \in Nat /\ MaxFaults \in Nat
    BY BoundsAssumption
<1>6. IsTree(t)
    BY <1>2, <1>3, <1>5 DEF IsTree
<1>7. tree = t
    BY <1>1 DEF Init
<1>8. TypeOk
    BY <1>4, <1>5, <1>6, <1>7, NoTreeIs DEF Init, TypeOk
<1>9. StagingOk
    BY NoTreeIs DEF Init, StagingOk
<1>10. QED BY <1>8, <1>9 DEF Init, Shape, Working, AtRoot

LEMMA ShapeIdle ==
    ASSUME TypeOk, Shape, EditPages \/ OperatorCopies
    PROVE  TypeOk' /\ Shape'
<1>1. /\ pc = "idle"
      /\ UNCHANGED <<manifest, gen, pc, roots, oldRoots, todo, cur, staging, backup, children, faults, tracked>>
    BY DEF EditPages, OperatorCopies
<1>2. Shape'
    BY <1>1 DEF Shape, StagingOk, Closed, Working, AtRoot, RootOk, ClosedBelow
<1>3. pages' \in Publications
    BY DEF EditPages, OperatorCopies, TypeOk
<1>4. IsTree(tree)' /\ (\A q \in DOMAIN tree' : Ancestors(q) \subseteq DOMAIN tree')
    <2>1. CASE EditPages
        BY <2>1 DEF EditPages, TypeOk, IsTree
    <2>2. CASE OperatorCopies
        <3>1. PICK q \in OperatorDirs :
                /\ \A r \in Ancestors(q) : r \in DOMAIN tree
                /\ tree' = [MkdirAll(tree, {q}) EXCEPT ![q] = {0}]
            BY <2>2 DEF OperatorCopies, DirExists
        <3>2. /\ DOMAIN tree' = DOMAIN tree \cup {q}
              /\ \A r \in DOMAIN tree' : tree'[r] = IF r = q THEN {0} ELSE tree[r]
            BY <3>1 DEF MkdirAll, Joined
        <3>3. q \in AllDirs /\ {0} \subseteq 0 .. MaxBuilds
            BY DirFacts, BoundsAssumption
        <3>4. QED BY <3>1, <3>2, <3>3 DEF TypeOk, IsTree
    <2>3. QED BY <2>1, <2>2
<1>5. TypeOk'
    BY <1>1, <1>3, <1>4 DEF TypeOk, IsTree
<1>6. QED BY <1>2, <1>5

LEMMA ShapeBegin ==
    ASSUME TypeOk, Shape, BeginPromotion
    PROVE  TypeOk' /\ Shape'
<1>1. /\ pc = "idle" /\ gen' = gen + 1 /\ roots' = pages /\ oldRoots' = manifest
      /\ todo' = pages /\ tracked' = tracked \cup pages /\ pc' = "promote"
      /\ UNCHANGED <<pages, tree, manifest, cur, backup, children, faults>>
      /\ gen < MaxBuilds
    BY DEF BeginPromotion
<1>2. gen \in Nat /\ gen' \in 0 .. MaxBuilds
    BY <1>1, BoundsAssumption DEF TypeOk
<1>3. PICK n, t : n = gen + 1 /\ t = StagedTree(pages, n)
    OBVIOUS
<1>4. staging' = t /\ gen' = n
    BY <1>1, <1>3 DEF BeginPromotion
<1>5. /\ Closed(t) /\ DOMAIN t \subseteq AllDirs
      /\ \A q \in DOMAIN t : t[q] \subseteq {n} /\ (t[q] = {} \/ q \in pages)
      /\ \A q \in pages : q \in DOMAIN t /\ n \in t[q]
    BY <1>3, StagedIs DEF TypeOk
<1>6. pages \subseteq Roots
    BY DirFacts DEF TypeOk
<1>7. IsTree(staging)' /\ Closed(staging)'
    BY <1>2, <1>4, <1>5 DEF IsTree, Closed
<1>8. TypeOk'
    BY <1>1, <1>2, <1>6, <1>7 DEF TypeOk, IsTree
<1>9. StagingOk'
    BY <1>1, <1>4, <1>5, <1>7 DEF StagingOk
<1>10. cur = {} /\ children = {} /\ backup = NoTree /\ manifest \subseteq tracked
    BY <1>1 DEF Shape, AtRoot
<1>11. QED BY <1>1, <1>8, <1>9, <1>10 DEF Shape, TypeOk, Working, AtRoot

LEMMA ShapeSetAside ==
    ASSUME TypeOk, Shape, SetAside
    PROVE  TypeOk' /\ Shape'
<1>1. PICK root \in todo :
             /\ pc = "promote" /\ pc' = "movein" /\ cur' = {root} /\ root \in AllDirs
             /\ \A q \in todo : Len(q) <= Len(root)
             /\ children' = {c \in roots : IsUnder(c, root) /\ c \in DOMAIN tree}
             /\ \A q : q \in DOMAIN tree' <=> (q \in DOMAIN tree \/ q \in Ancestors(root)) /\ ~IsPrefix(root, q)
             /\ \A q \in DOMAIN tree' : tree'[q] = IF q \in DOMAIN tree THEN tree[q] ELSE {}
             /\ \A q : q \in DOMAIN backup' <=> q \in DOMAIN tree /\ IsPrefix(root, q)
             /\ \A q \in DOMAIN backup' : backup'[q] = tree[q]
             /\ UNCHANGED <<pages, manifest, gen, roots, oldRoots, todo, staging, faults, tracked>>
    BY SetAsideEffect
<1>2. root \in roots /\ todo \subseteq roots /\ DOMAIN tree \subseteq AllDirs /\ roots \subseteq AllDirs
    BY <1>1, DirFacts DEF Shape, Working, TypeOk, IsTree
<1>3. IsTree(tree)' /\ IsTree(backup)'
    BY <1>1, <1>2, DirFacts DEF TypeOk, IsTree
<1>4. \A q \in DOMAIN tree' : Ancestors(q) \subseteq DOMAIN tree'
    <2> SUFFICES ASSUME NEW q \in DOMAIN tree', NEW a \in Ancestors(q) PROVE a \in DOMAIN tree'
        OBVIOUS
    <2>1. q \in AllDirs /\ a \in AllDirs /\ IsPrefix(a, q) /\ ~IsPrefix(root, q)
        BY <1>1, <1>2, DirFacts
    <2>2. ~IsPrefix(root, a)
        BY <1>1, <2>1, DirOrder
    <2>3. a \in DOMAIN tree \/ a \in Ancestors(root)
        <3>1. CASE q \in DOMAIN tree
            BY <3>1 DEF TypeOk
        <3>2. CASE q \in Ancestors(root)
            <4>1. IsPrefix(q, root) /\ q # root
                BY <1>1, <2>1, <3>2, DirFacts
            <4>2. IsPrefix(a, root) /\ a # root
                BY <1>1, <2>1, <4>1, DirOrder
            <4>3. QED BY <1>1, <2>1, <4>2, DirFacts
        <3>3. QED BY <1>1, <3>1, <3>2
    <2>4. QED BY <1>1, <2>2, <2>3
<1>5. children' \subseteq Roots
    BY <1>1 DEF TypeOk
<1>6. TypeOk'
    BY <1>1, <1>3, <1>4, <1>5 DEF TypeOk, IsTree
<1>7. StagingOk'
    BY <1>1 DEF Shape, StagingOk, Closed
<1>8. Ancestors(root) \subseteq DOMAIN tree' /\ \A q \in DOMAIN tree' : ~IsPrefix(root, q)
    <2>1. \A a \in Ancestors(root) : ~IsPrefix(root, a)
        BY <1>1, DirFacts, DirOrder
    <2>2. QED BY <1>1, <2>1
<1>9. ClosedBelow(backup, root)'
    BY <1>1 DEF ClosedBelow, TypeOk
<1>10. \A c \in children' : c \in roots' /\ c \notin todo' /\ IsUnder(c, root)
    <2> SUFFICES ASSUME NEW c \in children' PROVE c \notin todo
        BY <1>1
    <2>1. c \in AllDirs /\ IsPrefix(root, c) /\ root # c
        BY <1>1, <1>2, DirOrder
    <2>2. ~(Len(c) <= Len(root))
        BY <1>1, <2>1, DirOrder
    <2>3. QED BY <1>1, <2>2
<1>11. RootOk(root)'
    BY <1>1, <1>2, <1>8, <1>9, <1>10 DEF RootOk
<1>12. QED BY <1>1, <1>2, <1>6, <1>7, <1>11 DEF Shape, Working, AtRoot

LEMMA ShapeMoveIn ==
    ASSUME TypeOk, Shape, MoveIn
    PROVE  TypeOk' /\ Shape'
<1>1. PICK root \in todo :
             /\ pc = "movein" /\ pc' = "restore" /\ cur = {root} /\ root \in AllDirs /\ RootOk(root)
             /\ \A q : q \in DOMAIN tree' <=> q \in DOMAIN tree \/ (q \in DOMAIN staging /\ IsPrefix(root, q))
             /\ \A q \in DOMAIN tree' : tree'[q] = IF q \in DOMAIN tree THEN tree[q] ELSE staging[q]
             /\ \A q : q \in DOMAIN staging' <=> q \in DOMAIN staging /\ ~IsPrefix(root, q)
             /\ \A q \in DOMAIN staging' : staging'[q] = staging[q]
             /\ UNCHANGED <<pages, manifest, gen, roots, oldRoots, todo, cur, backup, children, faults, tracked>>
    BY MoveInEffect
<1>2. DOMAIN tree \subseteq AllDirs /\ DOMAIN staging \subseteq AllDirs /\ todo \subseteq AllDirs
    BY DirFacts DEF TypeOk, IsTree
<1>3. IsTree(tree)' /\ IsTree(staging)'
    BY <1>1 DEF TypeOk, IsTree
<1>4. \A q \in DOMAIN tree' : Ancestors(q) \subseteq DOMAIN tree'
    <2> SUFFICES ASSUME NEW q \in DOMAIN tree', NEW a \in Ancestors(q) PROVE a \in DOMAIN tree'
        OBVIOUS
    <2>1. CASE q \in DOMAIN tree
        BY <1>1, <2>1 DEF TypeOk
    <2>2. CASE q \in DOMAIN staging /\ IsPrefix(root, q)
        <3>1. q \in AllDirs /\ a \in AllDirs /\ IsPrefix(a, q) /\ a \in DOMAIN staging
            BY <1>2, <2>2, DirFacts DEF Shape, StagingOk, Closed
        <3>2. CASE IsPrefix(root, a)
            BY <1>1, <3>1, <3>2
        <3>3. CASE ~IsPrefix(root, a)
            <4>1. Len(a) <= Len(root) \/ Len(root) <= Len(a)
                <5>1. a \in Path /\ root \in Path
                    BY <1>1, <3>1, DirFacts
                <5>2. QED BY <5>1 DEF Path
            <4>2. IsPrefix(a, root)
                BY <1>1, <2>2, <3>1, <3>3, <4>1, DirFacts, PrefixOrder
            <4>3. a # root
                BY <1>1, <3>3, DirOrder
            <4>4. a \in Ancestors(root)
                BY <1>1, <3>1, <4>2, <4>3, DirFacts
            <4>5. QED BY <1>1, <4>4 DEF RootOk
        <3>4. QED BY <3>2, <3>3
    <2>3. QED BY <1>1, <2>1, <2>2
<1>5. TypeOk'
    BY <1>1, <1>3, <1>4 DEF TypeOk, IsTree
<1>6. StagingOk'
    <2>1. Closed(staging)'
        <3> SUFFICES ASSUME NEW q \in DOMAIN staging', NEW a \in Ancestors(q) PROVE a \in DOMAIN staging'
            BY DEF Closed
        <3>1. q \in AllDirs /\ a \in AllDirs /\ a \in DOMAIN staging /\ IsPrefix(a, q) /\ ~IsPrefix(root, q)
            BY <1>1, <1>2, DirFacts DEF Shape, StagingOk, Closed
        <3>2. ~IsPrefix(root, a)
            BY <1>1, <3>1, DirOrder
        <3>3. QED BY <1>1, <3>1, <3>2
    <2>2. ASSUME NEW q \in todo \ {root} PROVE q \in DOMAIN staging' /\ gen \in staging'[q]
        <3>1. q \in DOMAIN staging /\ gen \in staging[q] /\ Len(q) <= Len(root)
            BY <1>1, <2>2 DEF Shape, StagingOk, RootOk
        <3>2. ~IsPrefix(root, q)
            BY <1>1, <1>2, <2>2, <3>1, DirOrder
        <3>3. QED BY <1>1, <3>1, <3>2
    <2>3. \A q \in DOMAIN staging' : staging'[q] \subseteq {gen} /\ (staging'[q] = {} \/ q \in roots)
        BY <1>1 DEF Shape, StagingOk
    <2>4. QED BY <1>1, <2>1, <2>2, <2>3 DEF StagingOk
<1>7. RootOk(root)'
    <2>1. root \in DOMAIN tree'
        <3>1. root \in DOMAIN staging
            BY <1>1 DEF Shape, StagingOk
        <3>2. QED BY <1>1, <3>1, DirOrder
    <2>2. QED BY <1>1, <2>1 DEF RootOk, ClosedBelow
<1>8. QED BY <1>1, <1>5, <1>6, <1>7 DEF Shape, Working, AtRoot

LEMMA ShapeRestore ==
    ASSUME TypeOk, Shape, RestoreChild
    PROVE  TypeOk' /\ Shape'
<1>1. PICK root \in todo, c \in children :
             /\ pc = "restore" /\ cur = {root} /\ RootOk(root) /\ c \in AllDirs /\ root \in AllDirs
             /\ c \in roots /\ IsPrefix(root, c) /\ c # root
             /\ children' = children \ {c}
             /\ \/ c \notin DOMAIN backup /\ UNCHANGED <<tree, backup>>
                \/ /\ c \in DOMAIN backup
                   /\ \A q : q \in DOMAIN tree' <=>
                         IF IsPrefix(c, q) THEN q \in DOMAIN backup ELSE q \in DOMAIN tree \/ q \in Ancestors(c)
                   /\ \A q \in DOMAIN tree' :
                         tree'[q] = IF IsPrefix(c, q) THEN backup[q]
                                    ELSE IF q \in DOMAIN tree THEN tree[q] ELSE {}
                   /\ \A q : q \in DOMAIN backup' <=> q \in DOMAIN backup /\ ~IsPrefix(c, q)
                   /\ \A q \in DOMAIN backup' : backup'[q] = backup[q]
             /\ UNCHANGED <<pages, manifest, gen, pc, roots, oldRoots, todo, cur, staging, faults, tracked>>
    BY RestoreEffect
<1>2. DOMAIN tree \subseteq AllDirs /\ DOMAIN backup \subseteq AllDirs
    BY DEF TypeOk, IsTree
<1>3. CASE UNCHANGED <<tree, backup>>
    <2>1. TypeOk' /\ StagingOk'
        BY <1>1, <1>3 DEF TypeOk, IsTree, Shape, StagingOk, Closed
    <2>2. RootOk(root)'
        BY <1>1, <1>3 DEF RootOk, ClosedBelow
    <2>3. QED BY <1>1, <1>3, <2>1, <2>2 DEF Shape, Working, AtRoot
<1>4. CASE ~UNCHANGED <<tree, backup>>
    <2>1. /\ c \in DOMAIN backup
          /\ \A q : q \in DOMAIN tree' <=>
                IF IsPrefix(c, q) THEN q \in DOMAIN backup ELSE q \in DOMAIN tree \/ q \in Ancestors(c)
          /\ \A q \in DOMAIN tree' :
                tree'[q] = IF IsPrefix(c, q) THEN backup[q]
                           ELSE IF q \in DOMAIN tree THEN tree[q] ELSE {}
          /\ \A q : q \in DOMAIN backup' <=> q \in DOMAIN backup /\ ~IsPrefix(c, q)
          /\ \A q \in DOMAIN backup' : backup'[q] = backup[q]
        BY <1>1, <1>4
    <2>2. IsTree(tree)' /\ IsTree(backup)'
        BY <1>1, <1>2, <2>1, DirFacts DEF TypeOk, IsTree
    <2>3. \A q \in DOMAIN tree' : Ancestors(q) \subseteq DOMAIN tree'
        <3> SUFFICES ASSUME NEW q \in DOMAIN tree', NEW a \in Ancestors(q) PROVE a \in DOMAIN tree'
            OBVIOUS
        <3>1. q \in AllDirs /\ a \in AllDirs /\ IsPrefix(a, q)
            BY <1>1, <1>2, <2>1, DirFacts
        <3>2. CASE IsPrefix(c, q)
            <4>1. q \in DOMAIN backup /\ IsPrefix(root, q)
                BY <1>1, <2>1, <3>2 DEF RootOk, ClosedBelow
            <4>2. CASE IsPrefix(c, a)
                <5>1. IsPrefix(root, a)
                    BY <1>1, <3>1, <4>2, DirOrder
                <5>2. a \in DOMAIN backup
                    BY <1>1, <4>1, <5>1 DEF RootOk, ClosedBelow
                <5>3. QED BY <2>1, <4>2, <5>2
            <4>3. CASE ~IsPrefix(c, a)
                <5>1. Len(a) <= Len(c) \/ Len(c) <= Len(a)
                    <6>1. a \in Path /\ c \in Path
                        BY <1>1, <3>1, DirFacts
                    <6>2. QED BY <6>1 DEF Path
                <5>2. IsPrefix(a, c)
                    BY <1>1, <3>1, <3>2, <4>3, <5>1, DirFacts, PrefixOrder
                <5>3. a # c
                    BY <1>1, <4>3, DirOrder
                <5>4. a \in Ancestors(c)
                    BY <1>1, <3>1, <5>2, <5>3, DirFacts
                <5>5. QED BY <2>1, <4>3, <5>4
            <4>4. QED BY <4>2, <4>3
        <3>3. CASE ~IsPrefix(c, q)
            <4>1. ~IsPrefix(c, a)
                BY <1>1, <3>1, <3>3, DirOrder
            <4>2. CASE q \in DOMAIN tree
                BY <2>1, <4>1, <4>2 DEF TypeOk
            <4>3. CASE q \in Ancestors(c)
                <5>1. IsPrefix(q, c) /\ q # c
                    BY <1>1, <3>1, <4>3, DirFacts
                <5>2. IsPrefix(a, c) /\ a # c
                    BY <1>1, <3>1, <5>1, DirOrder
                <5>3. a \in Ancestors(c)
                    BY <1>1, <3>1, <5>2, DirFacts
                <5>4. QED BY <2>1, <4>1, <5>3
            <4>4. QED BY <2>1, <3>3, <4>2, <4>3
        <3>4. QED BY <3>2, <3>3
    <2>4. TypeOk'
        BY <1>1, <2>2, <2>3 DEF TypeOk, IsTree
    <2>5. StagingOk'
        BY <1>1 DEF Shape, StagingOk, Closed
    <2>6. ClosedBelow(backup, root)'
        <3> SUFFICES ASSUME NEW q \in DOMAIN backup'
                     PROVE  /\ IsPrefix(root, q)
                            /\ \A a \in Ancestors(q) : IsPrefix(root, a) => a \in DOMAIN backup'
            BY DEF ClosedBelow
        <3>1. q \in DOMAIN backup /\ ~IsPrefix(c, q) /\ q \in AllDirs /\ IsPrefix(root, q)
            BY <1>1, <1>2, <2>1 DEF RootOk, ClosedBelow
        <3>2. ASSUME NEW a \in Ancestors(q), IsPrefix(root, a) PROVE a \in DOMAIN backup'
            <4>1. a \in AllDirs /\ IsPrefix(a, q) /\ a \in DOMAIN backup
                BY <1>1, <3>1, <3>2, DirFacts DEF RootOk, ClosedBelow
            <4>2. ~IsPrefix(c, a)
                BY <1>1, <3>1, <4>1, DirOrder
            <4>3. QED BY <2>1, <4>1, <4>2
        <3>3. QED BY <3>1, <3>2
    <2>7. Ancestors(root) \subseteq DOMAIN tree' /\ root \in DOMAIN tree'
        <3>1. root \in DOMAIN tree /\ Ancestors(root) \subseteq DOMAIN tree
            BY <1>1 DEF RootOk
        <3>2. ~IsPrefix(c, root)
            BY <1>1, DirOrder
        <3>3. \A a \in Ancestors(root) : ~IsPrefix(c, a)
            BY <1>1, <3>2, DirFacts, DirOrder
        <3>4. QED BY <2>1, <3>1, <3>2, <3>3
    <2>8. RootOk(root)'
        BY <1>1, <2>6, <2>7 DEF RootOk
    <2>9. QED BY <1>1, <2>4, <2>5, <2>8 DEF Shape, Working, AtRoot
<1>5. QED BY <1>3, <1>4

LEMMA ShapeDropBackup ==
    ASSUME TypeOk, Shape, DropBackup
    PROVE  TypeOk' /\ Shape'
<1>1. PICK root \in todo : cur = {root} /\ RootOk(root) /\ pc = "restore"
    BY DEF Shape, DropBackup, AtRoot
<1>2. /\ children = {} /\ backup' = NoTree /\ todo' = todo \ {root} /\ cur' = {} /\ pc' = "promote"
      /\ UNCHANGED <<pages, tree, manifest, gen, roots, oldRoots, children, staging, faults, tracked>>
    BY <1>1 DEF DropBackup
<1>3. TypeOk'
    BY <1>2, NoTreeIs DEF TypeOk, IsTree
<1>4. StagingOk'
    BY <1>1, <1>2 DEF Shape, StagingOk, Closed
<1>5. QED BY <1>1, <1>2, <1>3, <1>4 DEF Shape, Working, AtRoot

LEMMA ShapeBeginPrune ==
    ASSUME TypeOk, Shape, BeginPrune
    PROVE  TypeOk' /\ Shape'
<1>1. /\ pc = "promote" /\ todo = {} /\ todo' = oldRoots \ roots /\ pc' = "prune"
      /\ UNCHANGED <<pages, tree, manifest, gen, roots, oldRoots, cur, staging, backup, children, faults, tracked>>
    BY DEF BeginPrune
<1>2. TypeOk'
    BY <1>1 DEF TypeOk, IsTree
<1>3. StagingOk'
    BY <1>1 DEF Shape, StagingOk, Closed
<1>4. QED BY <1>1, <1>2, <1>3 DEF Shape, Working, AtRoot

LEMMA PrunedIs ==
    ASSUME NEW root
    PROVE  \/ root \notin DOMAIN tree /\ Pruned(root) = tree
           \/ /\ HasActiveDescendant(root) /\ DOMAIN Pruned(root) = DOMAIN tree
              /\ \A q \in DOMAIN tree : Pruned(root)[q] = IF q = root THEN tree[q] \cap {0} ELSE tree[q]
           \/ /\ ~HasActiveDescendant(root)
              /\ \A q : q \in DOMAIN Pruned(root) <=> q \in DOMAIN tree /\ ~IsPrefix(root, q)
              /\ \A q \in DOMAIN Pruned(root) : Pruned(root)[q] = tree[q]
<1>1. CASE root \notin DOMAIN tree
    BY <1>1 DEF Pruned, DirExists
<1>2. CASE root \in DOMAIN tree /\ HasActiveDescendant(root)
    <2>1. Pruned(root) = [tree EXCEPT ![root] = tree[root] \cap {0}]
        BY <1>2 DEF Pruned, DirExists
    <2>2. QED BY <1>2, <2>1
<1>3. CASE root \in DOMAIN tree /\ ~HasActiveDescendant(root)
    <2>1. Pruned(root) = RemoveAll(tree, root)
        BY <1>3 DEF Pruned, DirExists
    <2>2. QED BY <1>3, <2>1, TreeOps
<1>4. QED BY <1>1, <1>2, <1>3

LEMMA ShapePrune ==
    ASSUME TypeOk, Shape, PruneStaleRoot
    PROVE  TypeOk' /\ Shape'
<1>1. PICK root \in todo : tree' = Pruned(root) /\ todo' = todo \ {root}
    BY DEF PruneStaleRoot
<1>2. /\ pc = "prune" /\ pc' = pc
      /\ UNCHANGED <<pages, manifest, gen, roots, oldRoots, cur, staging, backup, children, faults, tracked>>
    BY DEF PruneStaleRoot
<1>3. root \in AllDirs /\ DOMAIN tree \subseteq AllDirs
    BY <1>1, DirFacts DEF TypeOk, IsTree
<1>4. /\ DOMAIN tree' \subseteq DOMAIN tree /\ \A q \in DOMAIN tree' : tree'[q] \subseteq tree[q]
      /\ DOMAIN tree' = DOMAIN tree \/ \A q \in DOMAIN tree \ DOMAIN tree' : IsPrefix(root, q)
      /\ DOMAIN tree' = DOMAIN tree \/ \A q \in DOMAIN tree' : ~IsPrefix(root, q)
    BY <1>1, PrunedIs
<1>5. IsTree(tree)'
    BY <1>4 DEF TypeOk, IsTree
<1>6. \A q \in DOMAIN tree' : Ancestors(q) \subseteq DOMAIN tree'
    <2> SUFFICES ASSUME NEW q \in DOMAIN tree', NEW a \in Ancestors(q) PROVE a \in DOMAIN tree'
        OBVIOUS
    <2>1. a \in DOMAIN tree /\ q \in AllDirs /\ a \in AllDirs /\ IsPrefix(a, q)
        BY <1>3, <1>4, DirFacts DEF TypeOk
    <2>2. DOMAIN tree' # DOMAIN tree => ~IsPrefix(root, a)
        BY <1>3, <1>4, <2>1, DirOrder
    <2>3. QED BY <1>4, <2>1, <2>2
<1>7. TypeOk'
    BY <1>1, <1>2, <1>5, <1>6 DEF TypeOk, IsTree
<1>8. StagingOk'
    BY <1>2 DEF Shape, StagingOk, Closed
<1>9. QED BY <1>1, <1>2, <1>7, <1>8 DEF Shape, Working, AtRoot

LEMMA ShapeEnd ==
    ASSUME TypeOk, Shape, PromotePagesManifest \/ Return
    PROVE  TypeOk' /\ Shape'
<1>1. CASE PromotePagesManifest
    <2>1. TypeOk'
        BY <1>1 DEF PromotePagesManifest, TypeOk, IsTree
    <2>2. StagingOk'
        BY <1>1 DEF PromotePagesManifest, Shape, StagingOk, Closed
    <2>3. QED BY <1>1, <2>1, <2>2 DEF PromotePagesManifest, Shape, Working, AtRoot
<1>2. CASE Return
    <2>1. TypeOk'
        BY <1>2, NoTreeIs DEF Return, Forget, TypeOk, IsTree
    <2>2. StagingOk'
        BY <1>2, NoTreeIs DEF Return, Forget, StagingOk, Closed
    <2>3. QED BY <1>2, <2>1, <2>2 DEF Return, Forget, Shape, Working, AtRoot
<1>3. QED BY <1>1, <1>2

LEMMA ShapeStop ==
    ASSUME TypeOk, Shape, Stop
    PROVE  TypeOk' /\ Shape'
<1>1. /\ Forget /\ faults < MaxFaults /\ faults' = faults + 1
      /\ UNCHANGED <<pages, manifest, gen, tracked>>
      /\ tree' = tree \/ (pc = "movein" /\ tree' = Joined(tree, backup))
    BY DEF Stop
<1>2. faults' \in 0 .. MaxFaults
    BY <1>1, BoundsAssumption DEF TypeOk
<1>3. IsTree(tree)' /\ \A q \in DOMAIN tree' : Ancestors(q) \subseteq DOMAIN tree'
    <2>1. CASE tree' = tree
        BY <2>1 DEF TypeOk, IsTree
    <2>2. CASE pc = "movein" /\ tree' = Joined(tree, backup)
        <3>1. /\ \A q : q \in DOMAIN tree' <=> q \in DOMAIN tree \/ q \in DOMAIN backup
              /\ \A q \in DOMAIN tree' : tree'[q] = IF q \in DOMAIN tree THEN tree[q] ELSE backup[q]
            BY <2>2, TreeOps
        <3>2. PICK root \in todo : cur = {root} /\ RootOk(root)
            BY <2>2 DEF Shape, AtRoot
        <3>3. root \in AllDirs /\ DOMAIN backup \subseteq AllDirs
            BY <3>2, DirFacts DEF TypeOk, IsTree
        <3>4. ASSUME NEW q \in DOMAIN backup, NEW a \in Ancestors(q) PROVE a \in DOMAIN tree'
            <4>1. q \in AllDirs /\ a \in AllDirs /\ IsPrefix(a, q) /\ IsPrefix(root, q)
                BY <3>2, <3>3, <3>4, DirFacts DEF RootOk, ClosedBelow
            <4>2. CASE IsPrefix(root, a)
                BY <3>1, <3>2, <3>4, <4>2 DEF RootOk, ClosedBelow
            <4>3. CASE ~IsPrefix(root, a)
                <5>1. Len(a) <= Len(root) \/ Len(root) <= Len(a)
                    <6>1. a \in Path /\ root \in Path
                        BY <3>3, <4>1, DirFacts
                    <6>2. QED BY <6>1 DEF Path
                <5>2. IsPrefix(a, root) /\ a # root
                    BY <3>3, <4>1, <4>3, <5>1, DirFacts, DirOrder, PrefixOrder
                <5>3. a \in Ancestors(root)
                    BY <3>3, <4>1, <5>2, DirFacts
                <5>4. QED BY <3>1, <3>2, <5>3 DEF RootOk
            <4>4. QED BY <4>2, <4>3
        <3>5. QED BY <3>1, <3>4 DEF TypeOk, IsTree
    <2>3. QED BY <1>1, <2>1, <2>2
<1>4. TypeOk'
    BY <1>1, <1>2, <1>3, NoTreeIs DEF Forget, TypeOk, IsTree
<1>5. StagingOk'
    BY <1>1, NoTreeIs DEF Forget, StagingOk, Closed
<1>6. QED BY <1>1, <1>4, <1>5 DEF Forget, Shape, Working, AtRoot

LEMMA ShapeStep == TypeOk /\ Shape /\ [Next]_vars => TypeOk' /\ Shape'
<1> SUFFICES ASSUME TypeOk, Shape, [Next]_vars PROVE TypeOk' /\ Shape'
    OBVIOUS
<1>1. CASE UNCHANGED vars
    BY <1>1 DEF vars, TypeOk, IsTree, Shape, StagingOk, Closed, Working, AtRoot, RootOk, ClosedBelow
<1>2. CASE Next
    BY <1>2, ShapeIdle, ShapeBegin, ShapeSetAside, ShapeMoveIn, ShapeRestore, ShapeDropBackup,
       ShapeBeginPrune, ShapePrune, ShapeEnd, ShapeStop DEF Next
<1>3. QED BY <1>1, <1>2

(***************************************************************************)
(* Every variable of the promotion stays in its domain, and the live       *)
(* output is a tree after every call, failure and kill.                    *)
(***************************************************************************)
THEOREM PromotionTypeCorrect == Spec => []TypeOk
<1>1. Spec => [](TypeOk /\ Shape)
    BY ShapeInit, ShapeStep, PTL DEF Spec
<1>2. QED BY <1>1, PTL

-----------------------------------------------------------------------------
(* What is not below a root that was ever tracked is not touched.           *)
LEMMA OutsideStep ==
    TypeOk /\ Shape /\ OutsideDirsUntouched /\ [Next]_vars => OutsideDirsUntouched'
<1> SUFFICES ASSUME TypeOk, Shape, OutsideDirsUntouched, [Next]_vars,
                    NEW d \in OperatorDirs, \A r \in tracked' : ~IsPrefix(r, d)
             PROVE  d \in DOMAIN tree' /\ 0 \in tree'[d]
    BY DEF OutsideDirsUntouched, DirExists
<1>0. tracked \subseteq tracked'
    BY DEF Next, vars, EditPages, OperatorCopies, BeginPromotion, SetAside, MoveIn, RestoreChild,
       DropBackup, BeginPrune, PruneStaleRoot, PromotePagesManifest, Return, Stop
<1>1. d \in DOMAIN tree /\ 0 \in tree[d] /\ \A r \in tracked : ~IsPrefix(r, d)
    BY <1>0 DEF OutsideDirsUntouched, DirExists
<1>2. CASE tree' = tree
    BY <1>1, <1>2
<1>3. CASE OperatorCopies
    <2>1. PICK p \in OperatorDirs : p \notin DOMAIN tree /\ tree' = [MkdirAll(tree, {p}) EXCEPT ![p] = {0}]
        BY <1>3 DEF OperatorCopies, DirExists
    <2>2. d \in DOMAIN tree' /\ tree'[d] = tree[d]
        BY <1>1, <2>1 DEF MkdirAll, Joined
    <2>3. QED BY <1>1, <2>2
<1>4. CASE SetAside
    <2>1. PICK root \in todo :
             /\ pc = "promote" /\ pc' = "movein" /\ cur' = {root} /\ root \in AllDirs
             /\ \A q \in todo : Len(q) <= Len(root)
             /\ children' = {c \in roots : IsUnder(c, root) /\ c \in DOMAIN tree}
             /\ \A q : q \in DOMAIN tree' <=> (q \in DOMAIN tree \/ q \in Ancestors(root)) /\ ~IsPrefix(root, q)
             /\ \A q \in DOMAIN tree' : tree'[q] = IF q \in DOMAIN tree THEN tree[q] ELSE {}
             /\ \A q : q \in DOMAIN backup' <=> q \in DOMAIN tree /\ IsPrefix(root, q)
             /\ \A q \in DOMAIN backup' : backup'[q] = tree[q]
             /\ UNCHANGED <<pages, manifest, gen, roots, oldRoots, todo, staging, faults, tracked>>
        BY <1>4, SetAsideEffect
    <2>2. root \in tracked
        BY <2>1 DEF Shape, Working
    <2>3. QED BY <1>1, <2>1, <2>2
<1>5. CASE MoveIn
    BY <1>1, <1>5, MoveInEffect
<1>6. CASE RestoreChild
    <2>1. PICK root \in todo, c \in children :
             /\ pc = "restore" /\ cur = {root} /\ RootOk(root) /\ c \in AllDirs /\ root \in AllDirs
             /\ c \in roots /\ IsPrefix(root, c) /\ c # root
             /\ children' = children \ {c}
             /\ \/ c \notin DOMAIN backup /\ UNCHANGED <<tree, backup>>
                \/ /\ c \in DOMAIN backup
                   /\ \A q : q \in DOMAIN tree' <=>
                         IF IsPrefix(c, q) THEN q \in DOMAIN backup ELSE q \in DOMAIN tree \/ q \in Ancestors(c)
                   /\ \A q \in DOMAIN tree' :
                         tree'[q] = IF IsPrefix(c, q) THEN backup[q]
                                    ELSE IF q \in DOMAIN tree THEN tree[q] ELSE {}
                   /\ \A q : q \in DOMAIN backup' <=> q \in DOMAIN backup /\ ~IsPrefix(c, q)
                   /\ \A q \in DOMAIN backup' : backup'[q] = backup[q]
             /\ UNCHANGED <<pages, manifest, gen, pc, roots, oldRoots, todo, cur, staging, faults, tracked>>
        BY <1>6, RestoreEffect
    <2>2. c \in tracked
        BY <2>1 DEF Shape
    <2>3. QED BY <1>1, <2>1, <2>2
<1>7. CASE PruneStaleRoot
    <2>1. PICK root \in todo : tree' = Pruned(root)
        BY <1>7 DEF PruneStaleRoot
    <2>2. root \in tracked
        BY <1>7, <2>1 DEF Shape, PruneStaleRoot
    <2>3. d # root /\ ~IsPrefix(root, d)
        BY <1>1, <2>2, DirFacts, DirOrder
    <2>4. QED BY <1>1, <2>1, <2>3, PrunedIs
<1>8. CASE Stop
    <2>1. tree' = tree \/ tree' = Joined(tree, backup)
        BY <1>8 DEF Stop
    <2>2. QED BY <1>1, <2>1, TreeOps
<1>9. QED BY <1>2, <1>3, <1>4, <1>5, <1>6, <1>7, <1>8 DEF Next, vars, EditPages, BeginPromotion,
          DropBackup, BeginPrune, PromotePagesManifest, Return

LEMMA OutsideInit == Init => OutsideDirsUntouched
<1> SUFFICES ASSUME Init, NEW q \in OperatorDirs PROVE q \in DOMAIN tree /\ 0 \in tree[q]
    BY DEF OutsideDirsUntouched, DirExists
<1>1. q \in DOMAIN OperatorTree /\ OperatorTree[q] = {0}
    BY DEF OperatorTree
<1>2. QED BY <1>1 DEF Init

-----------------------------------------------------------------------------
(* Stale files, when nothing was cut short: what has a file of a build is a *)
(* root that has its new file, or a root of the last build that this one    *)
(* has not got to.                                                         *)
Promoted == IF pc \in Working THEN roots \ todo ELSE roots
Settled(t, q) == t[q] \subseteq {0} \/ (q \in roots /\ t[q] \subseteq {0, gen})
Stale(q, P) == q \in oldRoots /\ \A p \in P : ~IsPrefix(p, q)

FilesInv ==
    /\ pc = "idle" => \A q \in DOMAIN tree : tree[q] \subseteq {0} \/ q \in manifest
    /\ pc = "promote" => \A q \in DOMAIN tree : Settled(tree, q) \/ Stale(q, Promoted)
    /\ pc \in AtRoot => \A q \in DOMAIN tree : Settled(tree, q) \/ Stale(q, Promoted \cup cur)
    /\ pc \in AtRoot => \A c \in children, q \in DOMAIN backup : IsPrefix(c, q) => Settled(backup, q)
    /\ pc = "prune" => \A q \in DOMAIN tree : Settled(tree, q) \/ q \in todo
    /\ pc = "done" => \A q \in DOMAIN tree : Settled(tree, q)

FilesOk == faults = 0 => FilesInv

LEMMA FilesInit == Init => FilesOk
<1> SUFFICES ASSUME Init PROVE FilesInv
    BY DEF FilesOk
<1>1. \A q \in DOMAIN OperatorTree : OperatorTree[q] \subseteq {0}
    BY DEF OperatorTree
<1>2. QED BY <1>1 DEF Init, FilesInv, AtRoot

LEMMA FilesStep ==
    TypeOk /\ Shape /\ FilesOk /\ [Next]_vars => FilesOk'
<1> SUFFICES ASSUME TypeOk, Shape, faults = 0 => FilesInv, [Next]_vars, faults' = 0
             PROVE  FilesInv'
    BY DEF FilesOk
<1>0. faults = 0 /\ ~Stop
    <2>1. faults \in Nat
        BY BoundsAssumption DEF TypeOk
    <2>2. ~Stop
        BY <2>1 DEF Stop
    <2>3. QED BY <2>2 DEF Next, vars, EditPages, OperatorCopies, BeginPromotion, SetAside, MoveIn,
              RestoreChild, DropBackup, BeginPrune, PruneStaleRoot, PromotePagesManifest, Return
<1>i. FilesInv
    BY <1>0
<1>a. DOMAIN tree \subseteq AllDirs /\ DOMAIN backup \subseteq AllDirs /\ roots \subseteq AllDirs
      /\ todo \subseteq AllDirs
    BY DirFacts DEF TypeOk, IsTree
<1>1. CASE UNCHANGED vars
    BY <1>i, <1>1 DEF vars, FilesInv, Settled, Stale, Promoted, AtRoot, Working
<1>2. CASE EditPages
    BY <1>i, <1>2 DEF EditPages, FilesInv, AtRoot
<1>3. CASE OperatorCopies
    <2>1. PICK p : tree' = [MkdirAll(tree, {p}) EXCEPT ![p] = {0}]
        BY <1>3 DEF OperatorCopies
    <2>2. \A q \in DOMAIN tree' : tree'[q] \subseteq {0} \/ (q \in DOMAIN tree /\ tree'[q] = tree[q])
        BY <2>1 DEF MkdirAll, Joined
    <2>3. pc = "idle" /\ pc' = "idle" /\ manifest' = manifest
        BY <1>3 DEF OperatorCopies
    <2>4. QED BY <1>i, <2>2, <2>3 DEF FilesInv, AtRoot
<1>4. CASE BeginPromotion
    <2>1. pc = "idle" /\ pc' = "promote" /\ tree' = tree /\ oldRoots' = manifest /\ todo' = roots'
        BY <1>4 DEF BeginPromotion
    <2>2. Promoted' = {}
        BY <2>1 DEF Promoted, Working
    <2>3. QED BY <1>i, <2>1, <2>2 DEF FilesInv, AtRoot, Settled, Stale
<1>5. CASE SetAside
    <2>1. PICK root \in todo :
             /\ pc = "promote" /\ pc' = "movein" /\ cur' = {root} /\ root \in AllDirs
             /\ \A q \in todo : Len(q) <= Len(root)
             /\ children' = {c \in roots : IsUnder(c, root) /\ c \in DOMAIN tree}
             /\ \A q : q \in DOMAIN tree' <=> (q \in DOMAIN tree \/ q \in Ancestors(root)) /\ ~IsPrefix(root, q)
             /\ \A q \in DOMAIN tree' : tree'[q] = IF q \in DOMAIN tree THEN tree[q] ELSE {}
             /\ \A q : q \in DOMAIN backup' <=> q \in DOMAIN tree /\ IsPrefix(root, q)
             /\ \A q \in DOMAIN backup' : backup'[q] = tree[q]
             /\ UNCHANGED <<pages, manifest, gen, roots, oldRoots, todo, staging, faults, tracked>>
        BY <1>5, SetAsideEffect
    <2>2. Promoted' = Promoted /\ Promoted = roots \ todo
        BY <2>1 DEF Promoted, Working
    <2>3. ASSUME NEW q \in DOMAIN tree' PROVE (Settled(tree, q) \/ Stale(q, Promoted \cup cur))'
        <3>1. CASE q \in DOMAIN tree
            <4>1. tree'[q] = tree[q] /\ ~IsPrefix(root, q) /\ (Settled(tree, q) \/ Stale(q, Promoted))
                BY <1>i, <2>1, <2>3, <3>1 DEF FilesInv
            <4>2. QED BY <2>1, <2>2, <4>1 DEF Settled, Stale
        <3>2. CASE q \notin DOMAIN tree
            <4>1. tree'[q] = {}
                BY <2>1, <2>3, <3>2
            <4>2. QED BY <4>1 DEF Settled
        <3>3. QED BY <3>1, <3>2
    <2>4. ASSUME NEW c \in children', NEW q \in DOMAIN backup', IsPrefix(c, q) PROVE Settled(backup, q)'
        <3>1. q \in DOMAIN tree /\ backup'[q] = tree[q] /\ c \in roots /\ IsUnder(c, root)
            BY <2>1, <2>4
        <3>2. c \notin todo
            <4>1. ~(Len(c) <= Len(root))
                BY <1>a, <2>1, <3>1, DirOrder
            <4>2. QED BY <2>1, <4>1
        <3>3. ~Stale(q, Promoted)
            BY <2>2, <2>4, <3>1, <3>2 DEF Stale
        <3>4. Settled(tree, q)
            BY <1>i, <2>1, <3>1, <3>3 DEF FilesInv
        <3>5. QED BY <2>1, <3>1, <3>4 DEF Settled
    <2>5. QED BY <2>1, <2>3, <2>4 DEF FilesInv
<1>6. CASE MoveIn
    <2>1. PICK root \in todo :
             /\ pc = "movein" /\ pc' = "restore" /\ cur = {root} /\ root \in AllDirs /\ RootOk(root)
             /\ \A q : q \in DOMAIN tree' <=> q \in DOMAIN tree \/ (q \in DOMAIN staging /\ IsPrefix(root, q))
             /\ \A q \in DOMAIN tree' : tree'[q] = IF q \in DOMAIN tree THEN tree[q] ELSE staging[q]
             /\ \A q : q \in DOMAIN staging' <=> q \in DOMAIN staging /\ ~IsPrefix(root, q)
             /\ \A q \in DOMAIN staging' : staging'[q] = staging[q]
             /\ UNCHANGED <<pages, manifest, gen, roots, oldRoots, todo, cur, backup, children, faults, tracked>>
        BY <1>6, MoveInEffect
    <2>2. Promoted' = Promoted
        BY <2>1 DEF Promoted, Working
    <2>3. ASSUME NEW q \in DOMAIN tree' PROVE (Settled(tree, q) \/ Stale(q, Promoted \cup cur))'
        <3>1. CASE q \in DOMAIN tree
            <4>1. tree'[q] = tree[q] /\ (Settled(tree, q) \/ Stale(q, Promoted \cup cur))
                BY <1>i, <2>1, <2>3, <3>1 DEF FilesInv, AtRoot
            <4>2. QED BY <2>1, <2>2, <4>1 DEF Settled, Stale
        <3>2. CASE q \notin DOMAIN tree
            <4>1. tree'[q] = staging[q] /\ q \in DOMAIN staging
                BY <2>1, <2>3, <3>2
            <4>2. staging[q] \subseteq {gen} /\ (staging[q] = {} \/ q \in roots)
                BY <4>1 DEF Shape, StagingOk
            <4>3. QED BY <2>1, <4>1, <4>2 DEF Settled
        <3>3. QED BY <3>1, <3>2
    <2>4. ASSUME NEW c \in children', NEW q \in DOMAIN backup', IsPrefix(c, q) PROVE Settled(backup, q)'
        BY <1>i, <2>1, <2>4 DEF FilesInv, AtRoot, Settled
    <2>5. QED BY <2>1, <2>3, <2>4 DEF FilesInv
<1>7. CASE RestoreChild
    <2>1. PICK root \in todo, c \in children :
             /\ pc = "restore" /\ cur = {root} /\ RootOk(root) /\ c \in AllDirs /\ root \in AllDirs
             /\ c \in roots /\ IsPrefix(root, c) /\ c # root
             /\ children' = children \ {c}
             /\ \/ c \notin DOMAIN backup /\ UNCHANGED <<tree, backup>>
                \/ /\ c \in DOMAIN backup
                   /\ \A q : q \in DOMAIN tree' <=>
                         IF IsPrefix(c, q) THEN q \in DOMAIN backup ELSE q \in DOMAIN tree \/ q \in Ancestors(c)
                   /\ \A q \in DOMAIN tree' :
                         tree'[q] = IF IsPrefix(c, q) THEN backup[q]
                                    ELSE IF q \in DOMAIN tree THEN tree[q] ELSE {}
                   /\ \A q : q \in DOMAIN backup' <=> q \in DOMAIN backup /\ ~IsPrefix(c, q)
                   /\ \A q \in DOMAIN backup' : backup'[q] = backup[q]
             /\ UNCHANGED <<pages, manifest, gen, pc, roots, oldRoots, todo, cur, staging, faults, tracked>>
        BY <1>7, RestoreEffect
    <2>2. Promoted' = Promoted /\ cur' = cur
        BY <2>1 DEF Promoted, Working
    <2>3. CASE UNCHANGED <<tree, backup>>
        BY <1>i, <2>1, <2>2, <2>3 DEF FilesInv, Settled, Stale, AtRoot
    <2>4. CASE ~UNCHANGED <<tree, backup>>
        <3>1. /\ c \in DOMAIN backup
              /\ \A q : q \in DOMAIN tree' <=>
                    IF IsPrefix(c, q) THEN q \in DOMAIN backup ELSE q \in DOMAIN tree \/ q \in Ancestors(c)
              /\ \A q \in DOMAIN tree' :
                    tree'[q] = IF IsPrefix(c, q) THEN backup[q]
                               ELSE IF q \in DOMAIN tree THEN tree[q] ELSE {}
              /\ \A q : q \in DOMAIN backup' <=> q \in DOMAIN backup /\ ~IsPrefix(c, q)
              /\ \A q \in DOMAIN backup' : backup'[q] = backup[q]
            BY <2>1, <2>4
        <3>2. ASSUME NEW q \in DOMAIN tree' PROVE (Settled(tree, q) \/ Stale(q, Promoted \cup cur))'
            <4>1. CASE IsPrefix(c, q)
                <5>1. q \in DOMAIN backup /\ tree'[q] = backup[q]
                    BY <3>1, <3>2, <4>1
                <5>2. Settled(backup, q)
                    BY <1>i, <2>1, <4>1, <5>1 DEF FilesInv, AtRoot
                <5>3. QED BY <2>1, <5>1, <5>2 DEF Settled
            <4>2. CASE ~IsPrefix(c, q) /\ q \in DOMAIN tree
                <5>1. tree'[q] = tree[q] /\ (Settled(tree, q) \/ Stale(q, Promoted \cup cur))
                    BY <1>i, <2>1, <3>1, <3>2, <4>2 DEF FilesInv, AtRoot
                <5>2. QED BY <2>1, <2>2, <5>1 DEF Settled, Stale
            <4>3. CASE ~IsPrefix(c, q) /\ q \notin DOMAIN tree
                <5>1. tree'[q] = {}
                    BY <3>1, <3>2, <4>3
                <5>2. QED BY <5>1 DEF Settled
            <4>4. QED BY <4>1, <4>2, <4>3
        <3>3. ASSUME NEW d \in children', NEW q \in DOMAIN backup', IsPrefix(d, q) PROVE Settled(backup, q)'
            BY <1>i, <2>1, <3>1, <3>3 DEF FilesInv, AtRoot, Settled
        <3>4. QED BY <2>1, <3>2, <3>3 DEF FilesInv
    <2>5. QED BY <2>3, <2>4
<1>8. CASE DropBackup
    <2>1. PICK root \in todo : cur = {root} /\ RootOk(root) /\ pc = "restore"
        BY <1>8 DEF Shape, DropBackup, AtRoot
    <2>2. todo' = todo \ {root} /\ pc' = "promote" /\ UNCHANGED <<tree, gen, roots, oldRoots>>
        BY <1>8, <2>1 DEF DropBackup
    <2>3. Promoted' \subseteq Promoted \cup cur
        BY <2>1, <2>2 DEF Promoted, Working
    <2>4. QED BY <1>i, <2>1, <2>2, <2>3 DEF FilesInv, AtRoot, Settled, Stale
<1>9. CASE BeginPrune
    <2>1. /\ pc = "promote" /\ todo = {} /\ todo' = oldRoots \ roots /\ pc' = "prune"
          /\ UNCHANGED <<tree, gen, roots>>
        BY <1>9 DEF BeginPrune
    <2>2. Promoted = roots
        BY <2>1 DEF Promoted, Working
    <2>3. \A q \in DOMAIN tree : Stale(q, Promoted) => q \in oldRoots \ roots
        BY <1>a, <2>2, DirOrder DEF Stale
    <2>4. QED BY <1>i, <2>1, <2>3 DEF FilesInv, AtRoot, Settled
<1>10. CASE PruneStaleRoot
    <2>1. PICK root \in todo : tree' = Pruned(root) /\ todo' = todo \ {root}
        BY <1>10 DEF PruneStaleRoot
    <2>2. pc = "prune" /\ pc' = "prune" /\ UNCHANGED <<gen, roots>>
        BY <1>10 DEF PruneStaleRoot
    <2>3. /\ DOMAIN tree' \subseteq DOMAIN tree /\ \A q \in DOMAIN tree' : tree'[q] \subseteq tree[q]
          /\ root \notin DOMAIN tree' \/ tree'[root] \subseteq {0}
        <3>1. IsPrefix(root, root)
            BY <1>a, DirOrder
        <3>2. DOMAIN tree' \subseteq DOMAIN tree /\ \A q \in DOMAIN tree' : tree'[q] \subseteq tree[q]
            BY <2>1, PrunedIs
        <3>3. root \notin DOMAIN tree' \/ tree'[root] \subseteq {0}
            BY <2>1, <3>1, PrunedIs
        <3>4. QED BY <3>2, <3>3
    <2>4. \A q \in DOMAIN tree' : (Settled(tree, q) \/ q \in todo)'
        BY <1>i, <2>1, <2>2, <2>3 DEF FilesInv, Settled
    <2>5. QED BY <2>2, <2>4 DEF FilesInv, AtRoot
<1>11. CASE PromotePagesManifest
    BY <1>i, <1>11 DEF PromotePagesManifest, FilesInv, AtRoot, Settled
<1>12. CASE Return
    <2>1. pc = "done" /\ pc' = "idle" /\ manifest = roots /\ UNCHANGED <<tree, manifest>>
        BY <1>12 DEF Return, Forget, Shape
    <2>2. QED BY <1>i, <2>1 DEF FilesInv, AtRoot, Settled
<1>13. QED BY <1>0, <1>1, <1>2, <1>3, <1>4, <1>5, <1>6, <1>7, <1>8, <1>9, <1>10, <1>11, <1>12 DEF Next

(***************************************************************************)
(* When no build was cut short nothing of an earlier build is served, and  *)
(* an operator's directory that is no page's is never touched, for any     *)
(* sets of pages, however their roots nest.                                *)
(***************************************************************************)
THEOREM OnlyStaleGoes == Spec => []OnlyStalePagesGo
<1>1. Spec => [](TypeOk /\ Shape)
    BY ShapeInit, ShapeStep, PTL DEF Spec
<1>2. Spec => []OutsideDirsUntouched
    BY <1>1, OutsideInit, OutsideStep, PTL DEF Spec
<1>3. Spec => []FilesOk
    BY <1>1, FilesInit, FilesStep, PTL DEF Spec
<1>4. FilesOk /\ OutsideDirsUntouched => OnlyStalePagesGo
    BY DEF FilesOk, OnlyStalePagesGo, StalePagesGone, FilesInv, Settled
<1>5. QED BY <1>2, <1>3, <1>4, PTL

-----------------------------------------------------------------------------
(* Published pages, when at most two of them lie on one path: a root that    *)
(* is promoted has its file, in the live tree or in the backup of the root   *)
(* above it, from where it is put back.                                      *)
NoChains == \A P \in Publications : \A q, r, s \in P : ~(IsUnder(r, q) /\ IsUnder(s, r))

Served(t, q) == q \in DOMAIN t /\ gen \in t[q]

ServeInv ==
    /\ pc \in {"promote", "prune", "done"} => \A q \in Promoted : Served(tree, q)
    /\ pc = "movein" => \A root \in cur, q \in Promoted :
          IF IsUnder(q, root) THEN q \in children /\ Served(backup, q) ELSE Served(tree, q)
    /\ pc = "restore" => \A q \in Promoted \cup cur :
          IF q \in children THEN Served(backup, q) ELSE Served(tree, q)

LEMMA ServeStep ==
    ASSUME NoChains
    PROVE  TypeOk /\ Shape /\ ServeInv /\ [Next]_vars => ServeInv'
<1> SUFFICES ASSUME TypeOk, Shape, ServeInv, [Next]_vars PROVE ServeInv'
    OBVIOUS
<1>a. DOMAIN tree \subseteq AllDirs /\ DOMAIN backup \subseteq AllDirs /\ roots \subseteq AllDirs
      /\ todo \subseteq AllDirs
    BY DirFacts DEF TypeOk, IsTree
<1>1. CASE UNCHANGED vars
    BY <1>1 DEF vars, ServeInv, Served, Promoted, Working
<1>2. CASE EditPages \/ OperatorCopies \/ Return \/ Stop
    <2>1. pc' = "idle"
        BY <1>2 DEF EditPages, OperatorCopies, Return, Stop, Forget
    <2>2. QED BY <2>1 DEF ServeInv
<1>3. CASE BeginPromotion
    <2>1. pc' = "promote" /\ todo' = roots'
        BY <1>3 DEF BeginPromotion
    <2>2. Promoted' = {}
        BY <2>1 DEF Promoted, Working
    <2>3. QED BY <2>1, <2>2 DEF ServeInv
<1>4. CASE SetAside
    <2>1. PICK root \in todo :
             /\ pc = "promote" /\ pc' = "movein" /\ cur' = {root} /\ root \in AllDirs
             /\ \A q \in todo : Len(q) <= Len(root)
             /\ children' = {c \in roots : IsUnder(c, root) /\ c \in DOMAIN tree}
             /\ \A q : q \in DOMAIN tree' <=> (q \in DOMAIN tree \/ q \in Ancestors(root)) /\ ~IsPrefix(root, q)
             /\ \A q \in DOMAIN tree' : tree'[q] = IF q \in DOMAIN tree THEN tree[q] ELSE {}
             /\ \A q : q \in DOMAIN backup' <=> q \in DOMAIN tree /\ IsPrefix(root, q)
             /\ \A q \in DOMAIN backup' : backup'[q] = tree[q]
             /\ UNCHANGED <<pages, manifest, gen, roots, oldRoots, todo, staging, faults, tracked>>
        BY <1>4, SetAsideEffect
    <2>2. Promoted' = Promoted /\ Promoted = roots \ todo
        BY <2>1 DEF Promoted, Working
    <2>3. ASSUME NEW q \in Promoted
          PROVE  IF IsUnder(q, root) THEN q \in children' /\ Served(backup, q)' ELSE Served(tree, q)'
        <3>1. q \in DOMAIN tree /\ gen \in tree[q]
            BY <2>1, <2>3 DEF ServeInv, Served
        <3>2. q # root /\ q \in AllDirs /\ q \in roots
            BY <1>a, <2>2, <2>3
        <3>3. CASE IsUnder(q, root)
            <4>1. IsPrefix(root, q)
                BY <2>1, <3>2, <3>3, DirOrder
            <4>2. QED BY <2>1, <3>1, <3>2, <3>3, <4>1 DEF Served
        <3>4. CASE ~IsUnder(q, root)
            <4>1. ~IsPrefix(root, q)
                BY <2>1, <3>2, <3>4, DirOrder
            <4>2. QED BY <2>1, <3>1, <3>4, <4>1 DEF Served
        <3>5. QED BY <3>3, <3>4
    <2>4. QED BY <2>1, <2>2, <2>3 DEF ServeInv
<1>5. CASE MoveIn
    <2>1. PICK root \in todo :
             /\ pc = "movein" /\ pc' = "restore" /\ cur = {root} /\ root \in AllDirs /\ RootOk(root)
             /\ \A q : q \in DOMAIN tree' <=> q \in DOMAIN tree \/ (q \in DOMAIN staging /\ IsPrefix(root, q))
             /\ \A q \in DOMAIN tree' : tree'[q] = IF q \in DOMAIN tree THEN tree[q] ELSE staging[q]
             /\ \A q : q \in DOMAIN staging' <=> q \in DOMAIN staging /\ ~IsPrefix(root, q)
             /\ \A q \in DOMAIN staging' : staging'[q] = staging[q]
             /\ UNCHANGED <<pages, manifest, gen, roots, oldRoots, todo, cur, backup, children, faults, tracked>>
        BY <1>5, MoveInEffect
    <2>2. Promoted' = Promoted /\ Promoted = roots \ todo
        BY <2>1 DEF Promoted, Working
    <2>3. ASSUME NEW q \in Promoted PROVE IF q \in children THEN Served(backup, q)' ELSE Served(tree, q)'
        <3>1. IF IsUnder(q, root) THEN q \in children /\ Served(backup, q) ELSE Served(tree, q)
            BY <2>1, <2>3 DEF ServeInv
        <3>2. q \in children => IsUnder(q, root)
            BY <2>1 DEF RootOk
        <3>3. CASE q \in children
            BY <2>1, <3>1, <3>2, <3>3 DEF Served
        <3>4. CASE q \notin children
            BY <2>1, <3>1, <3>2, <3>4 DEF Served
        <3>5. QED BY <3>3, <3>4
    <2>4. root \notin children /\ Served(tree, root)'
        <3>1. root \in DOMAIN staging /\ gen \in staging[root]
            BY <2>1 DEF Shape, StagingOk
        <3>2. root \notin DOMAIN tree /\ IsPrefix(root, root)
            BY <2>1, DirOrder DEF RootOk
        <3>3. root \notin children
            BY <2>1 DEF RootOk
        <3>4. QED BY <2>1, <3>1, <3>2, <3>3 DEF Served
    <2>5. QED BY <2>1, <2>2, <2>3, <2>4 DEF ServeInv
<1>6. CASE RestoreChild
    <2>1. PICK root \in todo, c \in children :
             /\ pc = "restore" /\ cur = {root} /\ RootOk(root) /\ c \in AllDirs /\ root \in AllDirs
             /\ c \in roots /\ IsPrefix(root, c) /\ c # root
             /\ children' = children \ {c}
             /\ \/ c \notin DOMAIN backup /\ UNCHANGED <<tree, backup>>
                \/ /\ c \in DOMAIN backup
                   /\ \A q : q \in DOMAIN tree' <=>
                         IF IsPrefix(c, q) THEN q \in DOMAIN backup ELSE q \in DOMAIN tree \/ q \in Ancestors(c)
                   /\ \A q \in DOMAIN tree' :
                         tree'[q] = IF IsPrefix(c, q) THEN backup[q]
                                    ELSE IF q \in DOMAIN tree THEN tree[q] ELSE {}
                   /\ \A q : q \in DOMAIN backup' <=> q \in DOMAIN backup /\ ~IsPrefix(c, q)
                   /\ \A q \in DOMAIN backup' : backup'[q] = backup[q]
             /\ UNCHANGED <<pages, manifest, gen, pc, roots, oldRoots, todo, cur, staging, faults, tracked>>
        BY <1>6, RestoreEffect
    <2>2. Promoted' = Promoted /\ cur' = cur /\ Promoted = roots \ todo
        BY <2>1 DEF Promoted, Working
    <2>3. root \in roots /\ c \in Promoted /\ roots \in Publications
        BY <2>1, <2>2 DEF RootOk, Shape
    <2>4. c \in DOMAIN backup /\ gen \in backup[c]
        BY <2>1, <2>3 DEF ServeInv, Served
    <2>5. /\ \A q : q \in DOMAIN tree' <=>
                IF IsPrefix(c, q) THEN q \in DOMAIN backup ELSE q \in DOMAIN tree \/ q \in Ancestors(c)
          /\ \A q \in DOMAIN tree' :
                tree'[q] = IF IsPrefix(c, q) THEN backup[q]
                           ELSE IF q \in DOMAIN tree THEN tree[q] ELSE {}
          /\ \A q : q \in DOMAIN backup' <=> q \in DOMAIN backup /\ ~IsPrefix(c, q)
          /\ \A q \in DOMAIN backup' : backup'[q] = backup[q]
        BY <2>1, <2>4
    <2>6. ASSUME NEW q \in Promoted \cup cur PROVE IF q \in children' THEN Served(backup, q)' ELSE Served(tree, q)'
        <3>1. q \in roots /\ q \in AllDirs
            BY <1>a, <2>1, <2>2, <2>3, <2>6
        <3>2. IF q \in children THEN Served(backup, q) ELSE Served(tree, q)
            BY <2>1, <2>6 DEF ServeInv
        <3>3. CASE q = c
            <4>1. q \notin children' /\ IsPrefix(c, q)
                BY <2>1, <3>3, DirOrder
            <4>2. Served(tree, q)'
                BY <2>1, <2>4, <2>5, <3>3, <4>1 DEF Served
            <4>3. QED BY <4>1, <4>2
        <3>4. CASE q # c
            <4>1. ~IsPrefix(c, q)
                <5>1. IsUnder(c, root)
                    BY <2>1, DirOrder
                <5>2. ~IsUnder(q, c)
                    BY <2>1, <2>3, <3>1, <5>1 DEF NoChains
                <5>3. QED BY <2>1, <3>1, <3>4, <5>2, DirOrder
            <4>2. CASE q \in children
                <5>1. q \in children' /\ Served(backup, q)'
                    BY <2>1, <2>5, <3>2, <3>4, <4>1, <4>2 DEF Served
                <5>2. QED BY <5>1
            <4>3. CASE q \notin children
                <5>1. q \notin children' /\ Served(tree, q)'
                    BY <2>1, <2>5, <3>2, <4>1, <4>3 DEF Served
                <5>2. QED BY <5>1
            <4>4. QED BY <4>2, <4>3
        <3>5. QED BY <3>3, <3>4
    <2>7. QED BY <2>1, <2>2, <2>6 DEF ServeInv
<1>7. CASE DropBackup
    <2>1. PICK root \in todo : cur = {root} /\ RootOk(root) /\ pc = "restore"
        BY <1>7 DEF Shape, DropBackup, AtRoot
    <2>2. todo' = todo \ {root} /\ pc' = "promote" /\ children = {} /\ UNCHANGED <<tree, gen, roots>>
        BY <1>7, <2>1 DEF DropBackup
    <2>3. Promoted' \subseteq Promoted \cup cur
        BY <2>1, <2>2 DEF Promoted, Working
    <2>4. QED BY <2>1, <2>2, <2>3 DEF ServeInv, Served
<1>8. CASE BeginPrune
    <2>1. pc = "promote" /\ todo = {} /\ pc' = "prune" /\ UNCHANGED <<tree, gen, roots>>
        BY <1>8 DEF BeginPrune
    <2>2. Promoted = roots /\ Promoted' = roots
        BY <2>1 DEF Promoted, Working
    <2>3. QED BY <2>1, <2>2 DEF ServeInv, Served
<1>9. CASE PruneStaleRoot
    <2>1. PICK root \in todo : tree' = Pruned(root)
        BY <1>9 DEF PruneStaleRoot
    <2>2. pc = "prune" /\ pc' = "prune" /\ root \notin roots /\ UNCHANGED <<gen, roots>>
        BY <1>9, <2>1 DEF PruneStaleRoot, Shape
    <2>3. Promoted = roots /\ Promoted' = roots
        BY <2>2 DEF Promoted, Working
    <2>4. ASSUME NEW q \in roots PROVE Served(tree, q)'
        <3>1. q \in DOMAIN tree /\ gen \in tree[q] /\ q # root
            BY <2>2, <2>3, <2>4 DEF ServeInv, Served
        <3>2. ~HasActiveDescendant(root) => ~IsPrefix(root, q)
            <4>1. ~HasActiveDescendant(root) => ~IsUnder(q, root)
                BY <2>4 DEF HasActiveDescendant
            <4>2. QED BY <1>a, <2>1, <2>4, <3>1, <4>1, DirOrder
        <3>3. q \in DOMAIN tree' /\ tree'[q] = tree[q]
            BY <2>1, <3>1, <3>2, PrunedIs
        <3>4. QED BY <2>2, <3>1, <3>3 DEF Served
    <2>5. QED BY <2>2, <2>3, <2>4 DEF ServeInv
<1>10. CASE PromotePagesManifest
    <2>1. pc = "prune" /\ pc' = "done" /\ UNCHANGED <<tree, gen, roots>>
        BY <1>10 DEF PromotePagesManifest
    <2>2. Promoted = roots /\ Promoted' = roots
        BY <2>1 DEF Promoted, Working
    <2>3. QED BY <2>1, <2>2 DEF ServeInv, Served
<1>11. QED BY <1>1, <1>2, <1>3, <1>4, <1>5, <1>6, <1>7, <1>8, <1>9, <1>10 DEF Next

(***************************************************************************)
(* When promoteExtraDirs returns, each published page is served by this     *)
(* build's file, whatever earlier builds, failures and operators left, when *)
(* at most two page roots lie on one path.  With three the run of chains    *)
(* shows the page of the grandchild lost.                                   *)
(***************************************************************************)
THEOREM PagesAreServed == NoChains => (Spec => []PagesServed)
<1> SUFFICES ASSUME NoChains PROVE Spec => []PagesServed
    OBVIOUS
<1>1. Spec => [](TypeOk /\ Shape)
    BY ShapeInit, ShapeStep, PTL DEF Spec
<1>2. Init => ServeInv
    BY DEF Init, ServeInv
<1>3. TypeOk /\ Shape /\ ServeInv /\ [Next]_vars => ServeInv'
    BY ServeStep
<1>4. ServeInv => PagesServed
    BY DEF ServeInv, PagesServed, Promoted, Working, Served, DirExists
<1>5. QED BY <1>1, <1>2, <1>3, <1>4, PTL DEF Spec
=============================================================================
