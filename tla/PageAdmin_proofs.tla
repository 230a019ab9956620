-------------------------- MODULE PageAdmin_proofs --------------------------
(***************************************************************************)
(* Theorems about PageAdmin for any number of requests, any set of slugs   *)
(* and any number of pages.                                                *)
(***************************************************************************)
EXTENDS PageAdmin, TLAPS

(* An id is given once.                                                     *)
PageRowsInv ==
    /\ OneRowPerSlug
    /\ \A p \in rows : p.id < nextId

(* A request alone between its validation and its write still is right.     *)
AloneInv ==
    ~raced =>
        /\ NoSlugConflict
        /\ \A q, r \in Clients : req[q].pc = "write" /\ req[r].pc = "write" => q = r
        /\ \A r \in Clients : req[r].pc = "write" => ValidSlug(req[r].slug, req[r].id)

-----------------------------------------------------------------------------
LEMMA PagesTypeInit == PagesInit => PagesTypeOk
<1> SUFFICES ASSUME PagesInit PROVE PagesTypeOk
    OBVIOUS
<1>1. nextId \in 1 .. MaxPages + 1
    BY MaxPagesAssumption DEF PagesInit
<1>2. req \in [Clients -> {Idle} \cup Form]
    BY DEF PagesInit
<1>3. rows \subseteq Row /\ raced \in BOOLEAN
    BY DEF PagesInit
<1>4. QED BY <1>1, <1>2, <1>3 DEF PagesTypeOk

LEMMA PagesTypeStep == PagesTypeOk /\ [PagesNext]_pagesVars => PagesTypeOk'
<1> SUFFICES ASSUME PagesTypeOk, [PagesNext]_pagesVars PROVE PagesTypeOk'
    OBVIOUS
<1> USE MaxPagesAssumption
<1>1. ASSUME NEW r \in Clients, SubmitPage(r) PROVE PagesTypeOk'
    <2>1. \A p \in rows : p.id \in 0 .. MaxPages
        BY DEF PagesTypeOk, Row, Ids
    <2>2. req' \in [Clients -> {Idle} \cup Form]
        BY <1>1, <2>1 DEF SubmitPage, PagesTypeOk, Form
    <2>3. QED BY <1>1, <2>2 DEF SubmitPage, PagesTypeOk
<1>2. ASSUME NEW r \in Clients, Validate(r) PROVE PagesTypeOk'
    <2>1. req[r] \in Form
        BY <1>2 DEF Validate, PagesTypeOk, Idle
    <2>2. [req[r] EXCEPT !.pc = "write"] \in Form
        BY <2>1 DEF Form
    <2>3. req' \in [Clients -> {Idle} \cup Form]
        BY <1>2, <2>2 DEF Validate, PagesTypeOk
    <2>4. raced' \in BOOLEAN
        BY <1>2 DEF Validate, PagesTypeOk
    <2>5. QED BY <1>2, <2>3, <2>4 DEF Validate, PagesTypeOk
<1>3. ASSUME NEW r \in Clients, CreatePage(r) PROVE PagesTypeOk'
    <2>1. req[r] \in Form
        BY <1>3 DEF CreatePage, PagesTypeOk, Idle
    <2>2. rows' \subseteq Row /\ nextId' \in 1 .. MaxPages + 1
        BY <1>3, <2>1 DEF CreatePage, PagesTypeOk, Row, Form, Ids
    <2>3. req' \in [Clients -> {Idle} \cup Form]
        BY <1>3 DEF CreatePage, PagesTypeOk
    <2>4. QED BY <1>3, <2>2, <2>3 DEF CreatePage, PagesTypeOk
<1>4. ASSUME NEW r \in Clients, UpdatePage(r) PROVE PagesTypeOk'
    <2>1. req[r] \in Form
        <3>1. req[r] \in {Idle} \cup Form /\ req[r].pc = "write"
            BY <1>4 DEF UpdatePage, PagesTypeOk
        <3>2. QED BY <3>1 DEF Idle
    <2>2. rows' \subseteq Row
        <3>1. req[r].slug \in PageSlugs /\ req[r].status \in Status
            BY <2>1 DEF Form
        <3>2. \A p \in rows :
                [p EXCEPT !.slug = req[r].slug, !.status = req[r].status] \in Row
            BY <3>1 DEF PagesTypeOk, Row
        <3>3. QED BY <1>4, <3>2 DEF UpdatePage, PagesTypeOk
    <2>3. req' \in [Clients -> {Idle} \cup Form]
        BY <1>4 DEF UpdatePage, PagesTypeOk
    <2>4. QED BY <1>4, <2>2, <2>3 DEF UpdatePage, PagesTypeOk
<1>5. ASSUME NEW r \in Clients, DeletePage(r) PROVE PagesTypeOk'
    BY <1>5 DEF DeletePage, PagesTypeOk
<1>6. CASE UNCHANGED pagesVars
    BY <1>6 DEF pagesVars, PagesTypeOk
<1>7. QED BY <1>1, <1>2, <1>3, <1>4, <1>5, <1>6 DEF PagesNext

(***************************************************************************)
(* pageCreate, pageUpdate, pageDelete: every variable stays in its domain. *)
(***************************************************************************)
THEOREM PagesTypeCorrect == PagesSpec => []PagesTypeOk
    BY PagesTypeInit, PagesTypeStep, PTL DEF PagesSpec

-----------------------------------------------------------------------------
LEMMA RowsStep == PagesTypeOk /\ PageRowsInv /\ [PagesNext]_pagesVars => PageRowsInv'
<1> SUFFICES ASSUME PagesTypeOk, PageRowsInv, [PagesNext]_pagesVars PROVE PageRowsInv'
    OBVIOUS
<1> USE MaxPagesAssumption
<1>1. \A p \in rows : p.id \in Nat /\ nextId \in Nat
    BY DEF PagesTypeOk, Row, Ids
<1>2. ASSUME NEW r \in Clients, SubmitPage(r) \/ Validate(r) PROVE PageRowsInv'
    BY <1>2 DEF SubmitPage, Validate, PageRowsInv, OneRowPerSlug
<1>3. ASSUME NEW r \in Clients, CreatePage(r) PROVE PageRowsInv'
    <2>1. CASE Unique(req[r].slug, 0) /\ nextId <= MaxPages
        <3> DEFINE new == [id |-> nextId, slug |-> req[r].slug, status |-> req[r].status]
        <3>1. rows' = rows \cup {new} /\ nextId' = nextId + 1
            BY <1>3, <2>1 DEF CreatePage
        <3>2. \A p \in rows : p.id # new.id /\ ~PageSlugInUse(p.slug, new.slug)
            BY <1>1, <2>1 DEF PageRowsInv, Unique, PagesTypeOk, Row, Ids
        <3>3. \A p \in rows' : p.id < nextId'
            BY <1>1, <3>1 DEF PageRowsInv, PagesTypeOk
        <3>4. QED BY <3>1, <3>2, <3>3 DEF PageRowsInv, OneRowPerSlug, PageSlugInUse
    <2>2. CASE ~(Unique(req[r].slug, 0) /\ nextId <= MaxPages)
        BY <1>3, <2>2 DEF CreatePage, PageRowsInv, OneRowPerSlug
    <2>3. QED BY <2>1, <2>2
<1>4. ASSUME NEW r \in Clients, UpdatePage(r) PROVE PageRowsInv'
    <2> DEFINE Set(p) == IF p.id = req[r].id /\ Unique(req[r].slug, p.id)
                         THEN [p EXCEPT !.slug = req[r].slug, !.status = req[r].status]
                         ELSE p
    <2>1. rows' = {Set(p) : p \in rows} /\ nextId' = nextId
        BY <1>4 DEF UpdatePage
    <2>2. \A p \in rows : Set(p).id = p.id
        BY DEF PagesTypeOk, Row
    <2>3. \A p \in rows : Set(p) = p \/ (/\ p.id = req[r].id
                                         /\ Set(p).slug = req[r].slug
                                         /\ Unique(req[r].slug, p.id))
        BY DEF PagesTypeOk, Row
    <2>4. ASSUME NEW p \in rows, NEW q \in rows,
                 Set(p).id = Set(q).id \/ PageSlugInUse(Set(p).slug, Set(q).slug)
          PROVE  p = q
        <3>1. p.id = q.id \/ PageSlugInUse(p.slug, q.slug) => p = q
            BY DEF PageRowsInv, OneRowPerSlug
        <3>2. CASE Set(p).id = Set(q).id
            BY <3>1, <3>2, <2>2
        <3>3. CASE PageSlugInUse(Set(p).slug, Set(q).slug) /\ p.id # q.id
            <4> HIDE DEF Set
            <4>1. CASE Set(p) = p /\ Set(q) = q
                BY <3>1, <3>3, <4>1
            <4>2. CASE Set(p) # p
                BY <2>3, <3>3, <4>2 DEF Unique, PageSlugInUse
            <4>3. CASE Set(q) # q
                BY <2>3, <3>3, <4>3 DEF Unique, PageSlugInUse
            <4>4. QED BY <4>1, <4>2, <4>3
        <3>4. QED BY <2>2, <2>4, <3>1, <3>2, <3>3
    <2> HIDE DEF Set
    <2>5. QED BY <2>1, <2>2, <2>4 DEF PageRowsInv, OneRowPerSlug
<1>5. ASSUME NEW r \in Clients, DeletePage(r) PROVE PageRowsInv'
    BY <1>5 DEF DeletePage, PageRowsInv, OneRowPerSlug
<1>6. CASE UNCHANGED pagesVars
    BY <1>6 DEF pagesVars, PageRowsInv, OneRowPerSlug
<1>7. QED BY <1>2, <1>3, <1>4, <1>5, <1>6 DEF PagesNext

LEMMA RowsCorrect == PagesSpec => [](PagesTypeOk /\ PageRowsInv)
<1>1. PagesInit => PagesTypeOk /\ PageRowsInv
    BY PagesTypeInit DEF PagesInit, PageRowsInv, OneRowPerSlug
<1>2. PagesTypeOk /\ PageRowsInv /\ [PagesNext]_pagesVars => (PagesTypeOk /\ PageRowsInv)'
    BY PagesTypeStep, RowsStep
<1>3. QED BY <1>1, <1>2, PTL DEF PagesSpec

(***************************************************************************)
(* CreatePage, UpdatePage: an id and a slug each name at most one page,    *)
(* whatever the requests interleave to.                                    *)
(***************************************************************************)
THEOREM SlugsAreUnique == PagesSpec => []OneRowPerSlug
<1>1. PageRowsInv => OneRowPerSlug
    BY DEF PageRowsInv
<1>2. QED BY <1>1, RowsCorrect, PTL

-----------------------------------------------------------------------------
LEMMA AloneStep == PagesTypeOk /\ PageRowsInv /\ AloneInv /\ [PagesNext]_pagesVars => AloneInv'
<1> SUFFICES ASSUME PagesTypeOk, PageRowsInv, AloneInv, [PagesNext]_pagesVars, ~raced' PROVE AloneInv'
    BY DEF AloneInv
<1>1. ~raced
    BY DEF PagesNext, pagesVars, SubmitPage, Validate, CreatePage, UpdatePage, DeletePage
<1>2. /\ NoSlugConflict
      /\ \A q, r \in Clients : req[q].pc = "write" /\ req[r].pc = "write" => q = r
      /\ \A r \in Clients : req[r].pc = "write" => ValidSlug(req[r].slug, req[r].id)
    BY <1>1 DEF AloneInv
<1>3. req \in [Clients -> {Idle} \cup Form] /\ Idle.pc # "write"
    BY DEF PagesTypeOk, Idle
<1>4. ASSUME NEW r \in Clients, SubmitPage(r) PROVE AloneInv'
    <2>1. req'[r].pc = "validate" /\ \A q \in Clients \ {r} : req'[q] = req[q]
        BY <1>3, <1>4 DEF SubmitPage
    <2>2. \A q \in Clients : req'[q].pc = "write" => q # r /\ req'[q] = req[q]
        BY <2>1
    <2>3. QED BY <1>2, <1>4, <2>2 DEF SubmitPage, AloneInv, NoSlugConflict, ValidSlug
<1>5. ASSUME NEW r \in Clients, Validate(r) PROVE AloneInv'
    <2>1. \A q \in Clients \ {r} : req'[q] = req[q] /\ req'[q].pc # "write"
        BY <1>3, <1>5 DEF Validate
    <2>2. req'[r].pc = "write" =>
            /\ ValidSlug(req[r].slug, req[r].id)
            /\ req'[r].slug = req[r].slug /\ req'[r].id = req[r].id
        BY <1>3, <1>5 DEF Validate, PagesTypeOk, Form
    <2>3. QED BY <1>2, <1>5, <2>1, <2>2 DEF Validate, AloneInv, NoSlugConflict, ValidSlug
<1>6. ASSUME NEW r \in Clients, CreatePage(r) \/ UpdatePage(r)
      PROVE  \A q \in Clients : req'[q].pc # "write"
    BY <1>2, <1>3, <1>6 DEF CreatePage, UpdatePage
<1>7. ASSUME NEW r \in Clients, CreatePage(r) PROVE AloneInv'
    <2>1. ValidSlug(req[r].slug, 0)
        BY <1>2, <1>7 DEF CreatePage
    <2> DEFINE new == [id |-> nextId, slug |-> req[r].slug, status |-> req[r].status]
    <2>2. rows' = rows \/ rows' = rows \cup {new}
        BY <1>7 DEF CreatePage
    <2>3. \A p \in rows : ~PageSlugInUse(p.slug, new.slug) /\ ~PrefixConflict(p.slug, new.slug)
        BY <2>1 DEF ValidSlug, PagesTypeOk, Row, Ids
    <2>4. NoSlugConflict'
        <3> HIDE DEF new
        <3>1. QED BY <1>2, <2>2, <2>3 DEF NoSlugConflict, PageSlugInUse, PrefixConflict
    <2>5. QED BY <1>6, <1>7, <2>4 DEF AloneInv
<1>8. ASSUME NEW r \in Clients, UpdatePage(r) PROVE AloneInv'
    <2> DEFINE Set(p) == IF p.id = req[r].id /\ Unique(req[r].slug, p.id)
                         THEN [p EXCEPT !.slug = req[r].slug, !.status = req[r].status]
                         ELSE p
    <2>1. rows' = {Set(p) : p \in rows}
        BY <1>8 DEF UpdatePage
    <2>2. ValidSlug(req[r].slug, req[r].id)
        BY <1>2, <1>8 DEF UpdatePage
    <2>3. \A p \in rows : \/ Set(p) = p
                          \/ p.id = req[r].id /\ Set(p).slug = req[r].slug
        BY DEF PagesTypeOk, Row
    <2> HIDE DEF Set
    <2>4. ASSUME NEW p \in rows, NEW q \in rows, Set(p) # Set(q)
          PROVE  ~PageSlugInUse(Set(p).slug, Set(q).slug) /\ ~PrefixConflict(Set(p).slug, Set(q).slug)
        <3>1. p.id # q.id
            BY <2>4 DEF PageRowsInv, OneRowPerSlug
        <3>2. CASE Set(p) = p /\ Set(q) = q
            BY <1>2, <2>4, <3>2 DEF NoSlugConflict
        <3>3. CASE Set(p) # p
            BY <2>2, <2>3, <3>1, <3>3 DEF ValidSlug, PageSlugInUse, PrefixConflict
        <3>4. CASE Set(q) # q
            BY <2>2, <2>3, <3>1, <3>4 DEF ValidSlug, PageSlugInUse, PrefixConflict
        <3>5. QED BY <3>2, <3>3, <3>4
    <2>5. NoSlugConflict'
        BY <2>1, <2>4 DEF NoSlugConflict
    <2>6. QED BY <1>6, <1>8, <2>5 DEF AloneInv
<1>9. ASSUME NEW r \in Clients, DeletePage(r) PROVE AloneInv'
    <2>1. rows' \subseteq rows /\ req' = req
        BY <1>9 DEF DeletePage
    <2>2. QED BY <1>2, <2>1 DEF AloneInv, NoSlugConflict, ValidSlug
<1>10. CASE UNCHANGED pagesVars
    BY <1>2, <1>10 DEF pagesVars, AloneInv, NoSlugConflict, ValidSlug
<1>11. QED BY <1>4, <1>5, <1>7, <1>8, <1>9, <1>10 DEF PagesNext

(***************************************************************************)
(* validatePageSlug: two pages collide only if some request validated its  *)
(* slug between the validation and the write of another one.               *)
(***************************************************************************)
THEOREM ConflictsAreRaces == PagesSpec => []ConflictsNeedRace
<1>1. PagesInit => AloneInv
    BY DEF PagesInit, AloneInv, NoSlugConflict, Idle
<1>2. PagesTypeOk /\ PageRowsInv /\ AloneInv /\ [PagesNext]_pagesVars => AloneInv'
    BY AloneStep
<1>3. AloneInv => ConflictsNeedRace
    BY DEF AloneInv, ConflictsNeedRace
<1>4. QED BY <1>1, <1>2, <1>3, RowsCorrect, PTL DEF PagesSpec
=============================================================================
