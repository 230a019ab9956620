------------------------------ MODULE Reading ------------------------------
(***************************************************************************)
(* What readers of the weblog are shown: the lists and their pager, entry  *)
(* pages with their neighbours, the sidebar, feeds, sitemap and search, as *)
(* the public routes query them from the database.  A page of a list is    *)
(* several statements, and authors save in between.  The queries take the  *)
(* database as an argument: the static build asks some of them of a copy.  *)
(***************************************************************************)
EXTENDS Integers, FiniteSets

CONSTANTS
    Categories,    \* the categories there are
    Rows,          \* what authors make of an entry
    MonthOf,       \* the archive month of a day, in the site's time zone
    SlugNumber,    \* the number a slug is written as, 0 if it is a word
    PageSize,      \* EntriesPerPage
    MaxPosts,      \* bound: entries ever created
    MaxEdits       \* bound: saves beside the readers

Uncategorized == "-1"

ASSUME ReadingAssumption ==
    /\ Uncategorized \notin Categories
    /\ PageSize \in Nat \ {0} /\ MaxPosts \in Nat /\ MaxEdits \in Nat
    /\ \A row \in Rows : /\ row.st \in {"draft", "published", "closed"}
                         /\ row.day \in Int /\ row.day \in DOMAIN MonthOf
                         /\ row.slug \in DOMAIN SlugNumber
                         /\ row.cat \in Categories \cup {Uncategorized}
                         /\ row.pinned \in BOOLEAN /\ row.noindex \in BOOLEAN

VARIABLES
    db,        \* the tables: entries, hidden categories, entries_fts
    nextPost,  \* the AUTOINCREMENT counter of entries
    reindex,   \* where `serenebach reindex` is
    drifted,   \* whether a reindex was cut short since the last full one
    walk,      \* a reader's way through the pages of a list
    edits      \* how many saves there were

readingVars == <<db, nextPost, reindex, drifted, walk, edits>>

PostIds == 1 .. MaxPosts
NoRow == [st |-> "none"]
Present(d) == {i \in PostIds : d.post[i] # NoRow}
Databases == [post : [PostIds -> Rows \cup {NoRow}], hidden : SUBSET Categories,
              indexed : SUBSET PostIds]

-----------------------------------------------------------------------------
(* What each query selects.                                                 *)

Published(d) == {i \in PostIds : d.post[i].st = "published"}

(* excludeHiddenCategoryClause: an entry without a category, or of one that *)
(* is missing, is not hidden.                                               *)
Public(d) == {i \in Published(d) : d.post[i].cat \notin d.hidden}

Home == [kind |-> "home", of |-> ""]
Search == [kind |-> "search", of |-> ""]
Category(c) == [kind |-> "category", of |-> c]
Tag(t) == [kind |-> "tag", of |-> t]
Month(m) == [kind |-> "month", of |-> m]

Tags == UNION {row.tags : row \in Rows}
Months == {MonthOf[day] : day \in DOMAIN MonthOf}
Lists == {Home, Search} \cup {Category(c) : c \in Categories}
         \cup {Tag(t) : t \in Tags} \cup {Month(m) : m \in Months}

(* A category's own page lists its entries even when it is hidden.          *)
Members(d, list) ==
    CASE list.kind = "home"     -> Public(d)
      [] list.kind = "search"   -> Public(d) \cap d.indexed
      [] list.kind = "category" -> {i \in Published(d) : d.post[i].cat = list.of}
      [] list.kind = "tag"      -> {i \in Public(d) : list.of \in d.post[i].tags}
      [] list.kind = "month"    -> {i \in Public(d) : MonthOf[d.post[i].day] = list.of}

(* The COUNT statements repeat the conditions of the lists.                 *)
Counted(d, list) == Cardinality(Members(d, list))

Later(d, i, j) == \/ d.post[i].day > d.post[j].day
                  \/ d.post[i].day = d.post[j].day /\ i > j

(* posted_at DESC: entries of one time come as idx_entries_wid_posted has   *)
(* them.                                                                    *)
Newer(d, i, j) == \/ d.post[i].day > d.post[j].day
                  \/ d.post[i].day = d.post[j].day /\ i < j

(* ORDER BY of a list.                                                      *)
Ahead(d, list, i, j) ==
    CASE list.kind \in {"home", "category"} ->
             IF d.post[i].pinned = d.post[j].pinned THEN Newer(d, i, j)
             ELSE d.post[i].pinned
      [] list.kind = "search"         -> Later(d, i, j)
      [] list.kind \in {"tag", "month"} -> Newer(d, i, j)

Place(d, list, i) == Cardinality({j \in Members(d, list) : Ahead(d, list, j, i)})

(* LIMIT PageSize OFFSET (page - 1) * PageSize                              *)
PageOf(d, list, page) ==
    {i \in Members(d, list) : Place(d, list, i) \div PageSize = page - 1}

PageCount(total) == (total + PageSize - 1) \div PageSize

-----------------------------------------------------------------------------
(* Entry pages, and what their addresses lead to.                           *)

(* Bug: the newer neighbour is asked for without its id.                    *)
NextOfAnotherDay(d, i) ==
    {j \in Public(d) : /\ d.post[j].day > d.post[i].day
                       /\ \A k \in Public(d) :
                             d.post[k].day > d.post[i].day => k = j \/ Later(d, k, j)}

(* PrevPublishedEntry and NextPublishedEntry, as sets of at most one.       *)
PrevOf(d, i) ==
    {j \in Public(d) : /\ Later(d, i, j)
                       /\ \A k \in Public(d) : Later(d, i, k) => k = j \/ Later(d, j, k)}
NextOf(d, i) ==
    {j \in Public(d) : /\ Later(d, j, i)
                       /\ \A k \in Public(d) : Later(d, k, i) => k = j \/ Later(d, k, j)}

(* An entry of a hidden category is shown without neighbours.               *)
Neighbours(d, i) ==
    IF i \in Public(d) THEN [prev |-> PrevOf(d, i), next |-> NextOf(d, i)]
    ELSE [prev |-> {}, next |-> {}]

(* The address of an entry: its slug, or its id where it has none.  What    *)
(* reads as a positive number is an id to the router.                       *)
KeyOf(d, i) ==
    LET slug == d.post[i].slug
    IN IF slug = "" THEN [id |-> i, word |-> ""]
       ELSE IF SlugNumber[slug] > 0 THEN [id |-> SlugNumber[slug], word |-> ""]
       ELSE [id |-> 0, word |-> slug]

Resolve(d, key) == IF key.id > 0 THEN {i \in Present(d) : i = key.id}
                   ELSE {i \in Present(d) : d.post[i].slug = key.word}

(* GET /entry/{key}: the id form of an entry with a slug is redirected      *)
(* before its status is looked at.                                          *)
Answer(d, key) ==
    IF Resolve(d, key) = {} THEN [code |-> 404, entry |-> 0]
    ELSE LET i == CHOOSE j \in Resolve(d, key) : TRUE
         IN CASE key.id > 0 /\ d.post[i].slug # "" -> [code |-> 301, entry |-> i]
              [] d.post[i].st = "published"        -> [code |-> 200, entry |-> i]
              [] d.post[i].st = "closed"           -> [code |-> 410, entry |-> i]
              [] OTHER                             -> [code |-> 404, entry |-> i]

-----------------------------------------------------------------------------
(* What else links to entries and lists.                                    *)

(* RecentPublishedEntries: the newest, whether pinned or not.               *)
Recent(d, limit) ==
    {i \in Public(d) : Cardinality({j \in Public(d) : Newer(d, j, i)}) < limit}

SidebarMonths(d) == {MonthOf[d.post[i].day] : i \in Public(d)}
SidebarCategories(d) ==
    {c \in Categories \ d.hidden : Members(d, Category(c)) # {}}

(* loadInput of the sitemap: entries without a category or of a visible     *)
(* one, but for those that ask not to be indexed.                           *)
SitemapEntries(d) ==
    {i \in Published(d) : /\ ~d.post[i].noindex
                          /\ \/ d.post[i].cat = Uncategorized
                             \/ d.post[i].cat \in Categories \ d.hidden}

-----------------------------------------------------------------------------
(* Saves, as the readers notice them.                                       *)

Nowhere == [pc |-> "away", list |-> Home, page |-> 1, total |-> 0, seen |-> {},
            twice |-> FALSE, kept |-> {}, calm |-> TRUE, settled |-> TRUE,
            torn |-> FALSE]

ReadingInit ==
    /\ db \in {d \in Databases : d.indexed = Present(d)}
    /\ \A i, j \in Present(db) : db.post[i].slug = db.post[j].slug
                                 => i = j \/ db.post[i].slug = ""
    /\ nextPost \in {n \in 1 .. MaxPosts + 1 : \A i \in Present(db) : i < n}
    /\ reindex = "idle" /\ drifted = FALSE
    /\ walk = Nowhere
    /\ edits = 0

(* History of a walk: which entries its list had throughout, whether one    *)
(* left it or changed places, and whether a save fell between the count of  *)
(* a page and its rows.                                                     *)
WalkBeside(d) ==
    IF walk.pc = "away" THEN walk
    ELSE LET before == Members(db, walk.list)
             after == Members(d, walk.list)
             settled == /\ before \subseteq after
                        /\ \A i, j \in before :
                              Ahead(db, walk.list, i, j) = Ahead(d, walk.list, i, j)
         IN [walk EXCEPT !.kept = @ \cap after, !.calm = FALSE,
                         !.settled = @ /\ settled,
                         !.torn = @ \/ walk.pc = "rows"]

Change(d) == db' = d /\ walk' = WalkBeside(d)

FreeSlug(i, row) == \A j \in Present(db) : db.post[j].slug = row.slug
                                            => j = i \/ row.slug = ""

(* Trigger entries_fts_ai: a row of the index that is there already makes   *)
(* the INSERT fail.                                                         *)
CreatePost(row) ==
    /\ nextPost \in PostIds
    /\ FreeSlug(nextPost, row)
    /\ Change([db EXCEPT !.post[nextPost] = row, !.indexed = @ \cup {nextPost}])
    /\ nextPost' = nextPost + 1

(* Trigger entries_fts_au updates the row of the index where there is one.  *)
SavePost(i, row) ==
    /\ i \in Present(db)
    /\ FreeSlug(i, row)
    /\ Change([db EXCEPT !.post[i] = row])
    /\ UNCHANGED nextPost

DeletePost(i) ==
    /\ i \in Present(db)
    /\ Change([db EXCEPT !.post[i] = NoRow, !.indexed = @ \ {i}])
    /\ UNCHANGED nextPost

HideCategory(c) ==
    /\ Change([db EXCEPT !.hidden = IF c \in @ THEN @ \ {c} ELSE @ \cup {c}])
    /\ UNCHANGED nextPost

Edit ==
    /\ edits < MaxEdits /\ edits' = edits + 1
    /\ \/ \E row \in Rows : CreatePost(row)
       \/ \E i \in PostIds, row \in Rows : SavePost(i, row)
       \/ \E i \in PostIds : DeletePost(i)
       \/ \E c \in Categories : HideCategory(c)
    /\ UNCHANGED <<reindex, drifted>>

-----------------------------------------------------------------------------
(* `serenebach reindex`: two statements of their own, beside the server.    *)

ClearIndex ==
    /\ reindex = "idle" /\ reindex' = "cleared"
    /\ Change([db EXCEPT !.indexed = {}])
    /\ UNCHANGED <<nextPost, drifted, edits>>

(* Bug: the rows of the index that are there are kept, the others left out. *)
FillIndexPartly ==
    /\ reindex = "cleared" /\ reindex' = "idle"
    /\ drifted' = FALSE
    /\ IF db.indexed = {} THEN Change([db EXCEPT !.indexed = Present(db)])
       ELSE UNCHANGED <<db, walk>>
    /\ UNCHANGED <<nextPost, edits>>

(* The INSERT fails as a whole if an entry was created since.               *)
FillIndex ==
    /\ reindex = "cleared" /\ reindex' = "idle"
    /\ IF db.indexed = {}
       THEN Change([db EXCEPT !.indexed = Present(db)]) /\ drifted' = FALSE
       ELSE drifted' = TRUE /\ UNCHANGED <<db, walk>>
    /\ UNCHANGED <<nextPost, edits>>

KillReindex ==
    /\ reindex = "cleared" /\ reindex' = "idle"
    /\ drifted' = TRUE
    /\ UNCHANGED <<db, nextPost, walk, edits>>

-----------------------------------------------------------------------------
(* A reader who follows the pager of a list from its first page.            *)

StartWalk(list) ==
    /\ walk.pc = "away"
    /\ walk' = [Nowhere EXCEPT !.pc = "count", !.list = list,
                               !.kept = Members(db, list)]
    /\ UNCHANGED <<db, nextPost, reindex, drifted, edits>>

(* A page past the last is 404, but for the first.                          *)
CountPage ==
    /\ walk.pc = "count"
    /\ LET total == Counted(db, walk.list)
       IN walk' = [walk EXCEPT !.total = total,
                      !.pc = IF walk.page > 1 /\ walk.page > PageCount(total)
                             THEN "gone" ELSE "rows"]
    /\ UNCHANGED <<db, nextPost, reindex, drifted, edits>>

(* The page links to the next one as its count has it.                      *)
ShowPage ==
    /\ walk.pc = "rows"
    /\ LET shown == PageOf(db, walk.list, walk.page)
           more == walk.page < PageCount(walk.total)
       IN walk' = [walk EXCEPT !.seen = @ \cup shown,
                               !.twice = @ \/ walk.seen \cap shown # {},
                               !.page = IF more THEN @ + 1 ELSE @,
                               !.pc = IF more THEN "count" ELSE "end"]
    /\ UNCHANGED <<db, nextPost, reindex, drifted, edits>>

ReadingNext == \/ Edit \/ ClearIndex \/ FillIndex \/ KillReindex
               \/ \E list \in Lists : StartWalk(list)
               \/ CountPage \/ ShowPage

ReadingSpec == ReadingInit /\ [][ReadingNext]_readingVars

-----------------------------------------------------------------------------
ReadingTypeOk ==
    /\ db \in Databases
    /\ nextPost \in 1 .. MaxPosts + 1
    /\ reindex \in {"idle", "cleared"} /\ drifted \in BOOLEAN
    /\ walk \in [pc : {"away", "count", "rows", "gone", "end"}, list : Lists,
                 page : Nat, total : Nat, seen : SUBSET PostIds, twice : BOOLEAN,
                 kept : SUBSET PostIds, calm : BOOLEAN, settled : BOOLEAN,
                 torn : BOOLEAN]
    /\ edits \in 0 .. MaxEdits

(* A reader who follows the pager to its end has seen every entry that the  *)
(* list had all the while, and never meets a page that is gone, unless an   *)
(* entry left the list or changed places, or a save fell between the count  *)
(* of a page and its rows; without any save the reader has seen exactly the *)
(* list, and nothing twice.  New entries may repeat others, not hide them.  *)
WalksComplete ==
    /\ walk.pc = "end" /\ walk.settled /\ ~walk.torn => walk.kept \subseteq walk.seen
    /\ walk.pc = "gone" => ~walk.settled
    /\ walk.pc = "end" /\ walk.calm => walk.seen = walk.kept /\ ~walk.twice

(* The older neighbour of an entry has it as its newer one and the other    *)
(* way round, also among entries of one time, and only the oldest entry has *)
(* no older one: no entry is left out of the chain readers page along.      *)
NeighboursMirror ==
    \A i, j \in Public(db) :
        /\ j \in PrevOf(db, i) <=> i \in NextOf(db, j)
        /\ Later(db, i, j) => Neighbours(db, i).prev # {}

(* Readers come to every entry, by the pager and from entry to entry.       *)
ReadersReachAll == WalksComplete /\ NeighboursMirror

(* The search finds what the entries table has: it misses an entry only     *)
(* while a reindex runs or since one was cut short or met a new entry, and  *)
(* never has a row of an entry that is gone.                                *)
SearchMatchesTable ==
    /\ db.indexed \subseteq Present(db)
    /\ reindex = "idle" /\ ~drifted => db.indexed = Present(db)

=============================================================================
