----------------------------- MODULE Categories -----------------------------
(***************************************************************************)
(* The category tree and the categories of the entries, as the admin       *)
(* screens change them.  A form is rendered (renderCategoryForm,           *)
(* renderEntryForm), stays open in a browser for any time, and is handled  *)
(* when it is sent: categoryCreate and categoryUpdate read the row, check  *)
(* the slug and write, in three statements; entryUpdate reads and writes.  *)
(* Names, descriptions, templates and the sort order are left out.         *)
(***************************************************************************)
EXTENDS ContentParameters

CatIds == 1 .. MaxCategories
Uncategorized == -1
Top == 0                 \* parent_id of a category without a parent
CatRow == [parent : {Top} \cup CatIds, slug : Slugs \cup {""}, hidden : BOOLEAN]
NoRow == [parent |-> -1, slug |-> "", hidden |-> FALSE]
NewRow == [parent |-> Top, slug |-> "", hidden |-> FALSE]

VARIABLES
    cat,        \* categories: the row of an id
    nextCat,    \* categories: the AUTOINCREMENT counter
    category,   \* entries.category_id
    form,       \* the form each browser shows, or the request handling it
    carved,     \* history: an edit was written on a tree edited since its form
    undead      \* history: entries saved from a form older than a deletion

categoriesVars == <<cat, nextCat, category, form, carved, undead>>

NoForm == [kind |-> "none"]
CategoryForm == [kind : {"shown", "check", "write"}, id : {0} \cup CatIds,
                 offers : SUBSET CatIds, row : CatRow, fresh : BOOLEAN]
PostForm == [kind : {"post"}, entry : Posts, offers : SUBSET CatIds,
             fresh : BOOLEAN]

Rows == {i \in CatIds : cat[i] # NoRow}

CategoriesInit ==
    /\ cat = [i \in CatIds |-> NoRow]
    /\ nextCat = 1
    /\ category = [p \in Posts |-> Uncategorized]
    /\ form = [c \in Clients |-> NoForm]
    /\ carved = FALSE
    /\ undead = {}

(* Bug: the form leaves out the row itself, as categoryUpdate does.         *)
ItselfOnly(i) == {i}

(***************************************************************************)
(* The loop of filterParents adds rows to desc until nothing changes.      *)
(***************************************************************************)
Descendants(i) ==
    LET desc[n \in 0 .. MaxCategories] ==
            IF n = 0 THEN {i}
            ELSE LET d == desc[n - 1] IN d \cup {j \in Rows : cat[j].parent \in d}
    IN  desc[MaxCategories]

Candidates(i) == IF i = 0 THEN Rows ELSE Rows \ Descendants(i)

Shown(i) == [kind |-> "shown", id |-> i, offers |-> Candidates(i),
             row |-> NewRow, fresh |-> TRUE]

(* categoryNewForm and categoryEditForm; id 0 is a new category.            *)
ShowForm(c, i) ==
    /\ form[c] = NoForm
    /\ i = 0 => nextCat <= MaxCategories
    /\ form' = [form EXCEPT ![c] = Shown(i)]
    /\ UNCHANGED <<cat, nextCat, category, carved, undead>>

(* parseCategoryForm: the parent is one of those the form offered.          *)
Send(c, parent, slug, hidden) ==
    LET f == form[c] IN
    /\ f.kind = "shown" /\ parent \in f.offers \cup {Top}
    /\ form' = [form EXCEPT ![c] =
          IF f.id # 0 /\ f.id \notin Rows THEN NoForm
          ELSE [f EXCEPT !.kind = "check", !.offers = {},
                         !.row = [parent |-> parent, slug |-> slug, hidden |-> hidden]]]
    /\ UNCHANGED <<cat, nextCat, category, carved, undead>>

(* CategorySlugInUse, and the unique index on (wid, slug).                  *)
CategorySlugInUse(slug, id) == slug # "" /\ \E j \in Rows \ {id} : cat[j].slug = slug

Indexed(slug, id) == CategorySlugInUse(slug, id)

(* validateCategorySlugUnique; a slug in use renders the form again.        *)
CheckSlug(c) ==
    LET f == form[c] IN
    /\ f.kind = "check"
    /\ form' = [form EXCEPT ![c] =
          IF CategorySlugInUse(f.row.slug, f.id) THEN Shown(f.id) ELSE [f EXCEPT !.kind = "write"]]
    /\ UNCHANGED <<cat, nextCat, category, carved, undead>>

(* The other forms, after an edit of the tree or a deletion.                *)
Outdated(kinds, f) == IF f.kind \in kinds THEN [f EXCEPT !.fresh = FALSE] ELSE f
Done(c, kinds) == [d \in Clients |->
                     IF d = c THEN NoForm ELSE Outdated(kinds, form[d])]

(* CreateCategory and UpdateCategory: the row may be gone by now.           *)
Write(c) ==
    LET f == form[c]
        i == IF f.id = 0 THEN nextCat ELSE f.id
        fits == IF f.id = 0 THEN nextCat <= MaxCategories ELSE f.id \in Rows
    IN
    /\ f.kind = "write"
    /\ IF fits /\ ~Indexed(f.row.slug, f.id)
       THEN /\ cat' = [cat EXCEPT ![i] = f.row]
            /\ nextCat' = IF f.id = 0 THEN nextCat + 1 ELSE nextCat
            /\ carved' = (carved \/ (f.id # 0 /\ ~f.fresh))
            /\ form' = Done(c, IF f.id = 0 THEN {} ELSE {"shown", "check", "write"})
       ELSE /\ form' = [form EXCEPT ![c] = NoForm]
            /\ UNCHANGED <<cat, nextCat, carved>>
    /\ UNCHANGED <<category, undead>>

(* DeleteCategory, first statement.  The children keep their parent id.     *)
Reassign(i) == [p \in Posts |-> IF category[p] = i THEN Uncategorized ELSE category[p]]

DeleteCategory(i) ==
    /\ i \in Rows
    /\ cat' = [cat EXCEPT ![i] = NoRow]
    /\ category' = Reassign(i)
    /\ form' = [d \in Clients |-> Outdated({"post"}, form[d])]
    /\ UNCHANGED <<nextCat, carved, undead>>

(* renderEntryForm lists every category.                                    *)
ShowPost(c, p) ==
    /\ form[c] = NoForm
    /\ form' = [form EXCEPT ![c] = [kind |-> "post", entry |-> p, offers |-> Rows,
                                   fresh |-> TRUE]]
    /\ UNCHANGED <<cat, nextCat, category, carved, undead>>

(* entryUpdate: parseEntryCategoryID takes any number.                      *)
SavePost(c, i) ==
    LET f == form[c] IN
    /\ f.kind = "post" /\ i \in f.offers \cup {Uncategorized}
    /\ category' = [category EXCEPT ![f.entry] = i]
    /\ undead' = IF f.fresh THEN undead \ {f.entry} ELSE undead \cup {f.entry}
    /\ form' = [form EXCEPT ![c] = NoForm]
    /\ UNCHANGED <<cat, nextCat, carved>>

(* The browser leaves the form.                                             *)
Leave(c) ==
    /\ form[c].kind \in {"shown", "post"}
    /\ form' = [form EXCEPT ![c] = NoForm]
    /\ UNCHANGED <<cat, nextCat, category, carved, undead>>

CategoriesNext ==
    \/ \E c \in Clients :
        \/ \E i \in {0} \cup Rows : ShowForm(c, i)
        \/ \E parent \in {Top} \cup CatIds, slug \in Slugs \cup {""}, hidden \in BOOLEAN :
              Send(c, parent, slug, hidden)
        \/ CheckSlug(c) \/ Write(c) \/ Leave(c)
        \/ \E p \in Posts : ShowPost(c, p)
        \/ \E i \in {Uncategorized} \cup CatIds : SavePost(c, i)
    \/ \E i \in CatIds : DeleteCategory(i)

CategoriesSpec == CategoriesInit /\ [][CategoriesNext]_categoriesVars

-----------------------------------------------------------------------------
(* The categories with entries; a post here is a published one.             *)
Used == {i \in Rows : \E p \in Posts : category[p] = i}

(* applyCategorySidebarBlock: those that get into the tree.                 *)
Navigable == {i \in Used : ~cat[i].hidden}

(* Bug: the tree is cut one level early.                                    *)
TooShallow == MaxDepth - 1

TreeDepth == MaxDepth

(***************************************************************************)
(* renderCategoryTree, the categories it emits for {subcategory_list}:     *)
(* from those without a parent down, TreeDepth levels.  One that is hidden *)
(* or without entries is left out, and all below it with it.               *)
(***************************************************************************)
Listed ==
    LET level[n \in 0 .. TreeDepth] ==
            IF n = 0 THEN {}
            ELSE LET l == level[n - 1]
                 IN  l \cup {i \in Navigable : cat[i].parent \in {Top} \cup l}
    IN  level[TreeDepth]

(***************************************************************************)
(* categoryFullname: up through the parents that are in the map it is      *)
(* given, at most MaxDepth of them, and no category twice.                 *)
(***************************************************************************)
Fullname(i, all) ==
    LET path[n \in 0 .. MaxDepth] ==
            IF n = 0 THEN <<i>>
            ELSE LET below == path[n - 1]
                     up == cat[below[1]].parent
                 IN  IF up \in all /\ \A k \in DOMAIN below : below[k] # up
                     THEN <<up>> \o below ELSE below
    IN  path[MaxDepth]

(* resolveRefs: a build has the categories of all its entries, hidden ones  *)
(* too; lookupRefs: a route has those of the entries on its page, which on  *)
(* the page of a category are all of that category.                         *)
BuildRefs == Used
RouteRefs(i) == {i} \cap Used

(***************************************************************************)
(* categoryKeyFor and resolveCategoryKey: the rows that the permalink of a *)
(* category leads to.  A key that reads as a number is taken for an id.    *)
(***************************************************************************)
Resolved(i) ==
    LET slug == cat[i].slug
        number == IF slug = "" THEN i ELSE NumberOf[slug]
    IN  IF number > 0 THEN {j \in Rows : j = number}
        ELSE {j \in Rows : cat[j].slug = slug}

(***************************************************************************)
(* Every variable stays in its domain.                                     *)
(***************************************************************************)
CategoriesTypeOk ==
    /\ cat \in [CatIds -> CatRow \cup {NoRow}]
    /\ nextCat \in 1 .. MaxCategories + 1
    /\ category \in [Posts -> {Uncategorized} \cup CatIds]
    /\ form \in [Clients -> {NoForm} \cup CategoryForm \cup PostForm]
    /\ carved \in BOOLEAN
    /\ undead \subseteq Posts

Cyclic(i) == LET above[n \in 0 .. MaxCategories] ==
                     IF n = 0 THEN {cat[i].parent}
                     ELSE LET a == above[n - 1]
                          IN  a \cup {cat[j].parent : j \in a \cap Rows}
             IN  i \in above[MaxCategories]

(***************************************************************************)
(* categoryFullname: "Cycles - which categoryUpdate already forbids".      *)
(***************************************************************************)
NoParentCycle == \A i \in Rows : ~Cyclic(i)

(***************************************************************************)
(* filterParents keeps the tree a tree through any sequence of edits and   *)
(* deletions, unless an edit is written over one that came after its form; *)
(* DeleteCategory "never leaves an entry pointing at a dead id", except on *)
(* entries that were then saved from a form older than the deletion.       *)
(***************************************************************************)
DamageNeedsOldForm ==
    /\ carved \/ NoParentCycle
    /\ \A p \in Posts : category[p] \in Rows \cup {Uncategorized} \/ p \in undead

(***************************************************************************)
(* The two walks over parent ids agree in a build, on any table, cyclic or *)
(* with dead parents: the sidebar lists a category exactly when the full   *)
(* name on its page starts at a category without a parent, passes none     *)
(* that is hidden, and is not deeper than the cap.                         *)
(***************************************************************************)
SidebarFollowsFullname ==
    \A i \in Navigable : i \in Listed <=>
        LET f == Fullname(i, BuildRefs) IN
        /\ Len(f) <= MaxDepth
        /\ cat[f[1]].parent = Top
        /\ \A k \in DOMAIN f : f[k] \in Navigable

(***************************************************************************)
(* {category_fullname}, the "parent-chain": the page of a category that is *)
(* built, for every category that is not hidden, and the one that is served*)
(* give it the same full name exactly when its parent has no entries; the  *)
(* served one knows no parents.                                            *)
(***************************************************************************)
RouteDropsParents ==
    \A i \in Rows : ~cat[i].hidden =>
        /\ Fullname(i, RouteRefs(i)) = <<i>>
        /\ Fullname(i, BuildRefs) = <<i>> <=> cat[i].parent \notin Used \ {i}

(***************************************************************************)
(* The permalinks, "{key} is the category's slug when one is set; otherwise *)
(* the numeric id", lead to the category, for every slug that does not read*)
(* as a number, whatever two forms sent at once do between the check and   *)
(* the write.                                                              *)
(***************************************************************************)
WordPermalinksResolve ==
    \A i \in Rows : \/ cat[i].slug \in {s \in Slugs : NumberOf[s] > 0}
                    \/ Resolved(i) = {i}

(***************************************************************************)
(* What readers reach categories by, sidebar, full names and permalinks,   *)
(* follows the table through every edit.                                   *)
(***************************************************************************)
CategoriesReachable ==
    SidebarFollowsFullname /\ RouteDropsParents /\ WordPermalinksResolve
=============================================================================
