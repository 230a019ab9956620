------------------------------ MODULE PageAdmin ------------------------------
(***************************************************************************)
(* The flat pages the admin screens keep: pageCreate, pageUpdate and       *)
(* pageDelete of concurrent requests over the pages table.  A request      *)
(* reads (UserFrom, PageByID, validatePageSlug) and writes (CreatePage,    *)
(* UpdatePage, DeletePage) in separate statements.  The slugs are paths, a *)
(* sequence of segments; other columns are left out but for the status.    *)
(***************************************************************************)
EXTENDS ContentParameters, SequencesExt

Ids == 1 .. MaxPages
Status == {"draft", "published"}
Row == [id : Ids, slug : PageSlugs, status : Status]

VARIABLES
    rows,       \* the pages table
    nextId,     \* its AUTOINCREMENT counter
    req,        \* what each request is doing
    raced       \* history: a request validated before another one's write

pagesVars == <<rows, nextId, req, raced>>

Idle == [pc |-> "idle"]
Form == [pc : {"validate", "write"}, id : 0 .. MaxPages, slug : PageSlugs,
         status : Status]

PagesInit ==
    /\ rows = {}
    /\ nextId = 1
    /\ req = [r \in Clients |-> Idle]
    /\ raced = FALSE

(* The slug collisions of two distinct pages.                               *)
PageSlugInUse(s, t) == s = t
PrefixConflict(s, t) == IsStrictPrefix(s, t) \/ IsStrictPrefix(t, s)

(* A request arrives with a form: id 0 creates a page, another id edits     *)
(* one, which PageByID finds.                                               *)
SubmitPage(r) ==
    /\ req[r] = Idle
    /\ \E i \in {0} \cup {p.id : p \in rows}, s \in PageSlugs, st \in Status :
        req' = [req EXCEPT ![r] = [pc |-> "validate", id |-> i, slug |-> s,
                                   status |-> st]]
    /\ UNCHANGED <<rows, nextId, raced>>

(* Bug: a page may be put above an existing one.                             *)
ValidSlugBelow(s, id) ==
    \A p \in rows : p.id # id => ~PageSlugInUse(p.slug, s) /\ ~IsStrictPrefix(p.slug, s)

(***************************************************************************)
(* validatePageSlug: the other rows, published or not.                     *)
(***************************************************************************)
ValidSlug(s, id) ==
    \A p \in rows : p.id # id => ~PageSlugInUse(p.slug, s) /\ ~PrefixConflict(p.slug, s)

Validate(r) ==
    /\ req[r].pc = "validate"
    /\ req' = [req EXCEPT ![r] =
                  IF ValidSlug(req[r].slug, req[r].id)
                  THEN [req[r] EXCEPT !.pc = "write"] ELSE Idle]
    /\ raced' = (raced \/ \E q \in Clients \ {r} : req[q].pc = "write")
    /\ UNCHANGED <<rows, nextId>>

(* The unique index on (wid, slug): the statement fails with ErrSlugInUse.  *)
Unique(s, id) == \A p \in rows : p.id # id => ~PageSlugInUse(p.slug, s)

(* Bug: the INSERT takes the id of the form, which is 0 for a new page.     *)
CreateFormId(r) ==
    /\ req[r].pc = "write" /\ req[r].id = 0
    /\ rows' = rows \cup {[id |-> req[r].id, slug |-> req[r].slug,
                           status |-> req[r].status]}
    /\ req' = [req EXCEPT ![r] = Idle]
    /\ UNCHANGED <<nextId, raced>>

CreatePage(r) ==
    /\ req[r].pc = "write" /\ req[r].id = 0
    /\ IF Unique(req[r].slug, 0) /\ nextId <= MaxPages
       THEN /\ rows' = rows \cup {[id |-> nextId, slug |-> req[r].slug,
                                   status |-> req[r].status]}
            /\ nextId' = nextId + 1
       ELSE UNCHANGED <<rows, nextId>>
    /\ req' = [req EXCEPT ![r] = Idle]
    /\ UNCHANGED raced

(* The row may be gone by now: RowsAffected is 0 and nothing is written.    *)
UpdatePage(r) ==
    /\ req[r].pc = "write" /\ req[r].id # 0
    /\ rows' = {IF p.id = req[r].id /\ Unique(req[r].slug, p.id)
                THEN [p EXCEPT !.slug = req[r].slug, !.status = req[r].status]
                ELSE p : p \in rows}
    /\ req' = [req EXCEPT ![r] = Idle]
    /\ UNCHANGED <<nextId, raced>>

(* pageDelete: one statement after the permission check.                    *)
DeletePage(r) ==
    /\ req[r] = Idle
    /\ \E p \in rows : rows' = rows \ {p}
    /\ UNCHANGED <<nextId, req, raced>>

PagesNext ==
    \E r \in Clients :
        \/ SubmitPage(r) \/ Validate(r) \/ CreatePage(r)
        \/ UpdatePage(r) \/ DeletePage(r)

PagesSpec == PagesInit /\ [][PagesNext]_pagesVars

-----------------------------------------------------------------------------
(***************************************************************************)
(* Every variable stays in its domain.                                     *)
(***************************************************************************)
PagesTypeOk ==
    /\ rows \subseteq Row
    /\ nextId \in 1 .. MaxPages + 1
    /\ req \in [Clients -> {Idle} \cup Form]
    /\ raced \in BOOLEAN

(***************************************************************************)
(* validatePageSlug: no page's slug collides with another page's, "either  *)
(* exactly or as a prefix/child".                                          *)
(***************************************************************************)
NoSlugConflict ==
    \A p, q \in rows : p # q =>
        ~PageSlugInUse(p.slug, q.slug) /\ ~PrefixConflict(p.slug, q.slug)

(***************************************************************************)
(* The same, over any sequence of creations, edits and deletions in which  *)
(* no request validates between another one's validation and its write.    *)
(***************************************************************************)
ConflictsNeedRace == raced \/ NoSlugConflict

(***************************************************************************)
(* CreatePage and UpdatePage, whatever the requests interleave to: an id   *)
(* and a slug each name at most one page, so a build stages one directory  *)
(* per page.                                                               *)
(***************************************************************************)
OneRowPerSlug ==
    \A p, q \in rows : p.id = q.id \/ PageSlugInUse(p.slug, q.slug) => p = q
=============================================================================
