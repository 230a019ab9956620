------------------------------ MODULE Snapshot ------------------------------
(***************************************************************************)
(* What the static build writes down of the public pages.  It reads the    *)
(* published entries once, then what they refer to, then the sidebar; home,*)
(* entries, feeds and sitemap are written from memory, the lists each from *)
(* a query of its own.  There is no transaction: authors save in between.  *)
(* Promotion of what is written, and failures, are StaticRebuild's.        *)
(***************************************************************************)
EXTENDS Reading

CONSTANTS Discussed,     \* entries with an approved comment
          SidebarLimit,  \* entries of the sidebar's latest block
          FeedLimit,     \* DefaultEntryLimit of the feeds
          LLMsLimit      \* llmsMaxEntries

ASSUME SnapshotAssumption == {SidebarLimit, FeedLimit, LLMsLimit} \subseteq Nat

VARIABLES build,  \* the local variables of Build
          shelf   \* the pages in its staging directory

snapshotVars == <<build, shelf>>

NoPost == [i \in PostIds |-> NoRow]
BeforeBuild == [pc |-> "idle", all |-> NoPost, refs |-> {}, side |-> {},
                todo |-> {}, listed |-> FALSE, clean |-> TRUE]
EmptyShelf == [home |-> {}, entries |-> {}, lists |-> {}, feed |-> {},
               llms |-> {}, sitemap |-> {}, links |-> {}]

SnapshotInit == build = BeforeBuild /\ shelf = EmptyShelf

(* What a writer knows that has the entries alone, and one that has the     *)
(* categories they refer to as well.                                        *)
EntriesRead == [post |-> build.all, hidden |-> {}, indexed |-> {}]
RefsRead == [EntriesRead EXCEPT !.hidden = build.refs]
CatsRead == {c \in Categories : \E i \in Published(EntriesRead) : build.all[i].cat = c}

-----------------------------------------------------------------------------
(* The links a page shows.                                                  *)

EntryLink(d, i) == [to |-> "entry", key |-> KeyOf(d, i), list |-> Home]
ListLink(list) == [to |-> "list", key |-> [id |-> 0, word |-> ""], list |-> list]

(* The blocks of the sidebar; its links block stays empty in a build.       *)
ArchiveLinks(d) == {ListLink(Month(m)) : m \in SidebarMonths(d)}
CategoryLinks(d) == {ListLink(Category(c)) : c \in SidebarCategories(d)}
CommentLinks(d) == {EntryLink(d, i) : i \in Public(d) \cap Discussed}
LatestLinks(d) == {EntryLink(d, i) : i \in Recent(d, SidebarLimit)}
SidebarLinks(d) == ArchiveLinks(d) \cup CategoryLinks(d) \cup CommentLinks(d)
                   \cup LatestLinks(d)

(* An entry on a page: its permalink, its category where the build has read *)
(* it, hidden or not, and its tags, read when the page is written.          *)
RowLinks(d, i) ==
    {EntryLink(d, i)}
    \cup {ListLink(Category(c)) : c \in CatsRead \cap {d.post[i].cat}}
    \cup {ListLink(Tag(t)) : t \in IF i \in Present(db) THEN db.post[i].tags ELSE {}}

NavLinks(i) == LET beside == Neighbours(RefsRead, i)
               IN {EntryLink(EntriesRead, j) : j \in beside.prev \cup beside.next}

EntryPageLinks(i) == RowLinks(EntriesRead, i) \cup NavLinks(i)

(* assembleURLs: entries, visible categories they refer to, and every tag.  *)
SitemapLinks ==
    {EntryLink(EntriesRead, i) : i \in SitemapEntries(RefsRead)}
    \cup {ListLink(Category(c)) : c \in CatsRead \ build.refs}
    \cup {ListLink(Tag(t)) : t \in Tags}

On(page, links) == {[on |-> page, link |-> l] : l \in links}

-----------------------------------------------------------------------------
LoadEntries ==
    /\ build.pc = "idle"
    /\ build' = [build EXCEPT !.pc = "refs",
          !.all = [i \in PostIds |-> IF i \in Published(db) THEN db.post[i] ELSE NoRow]]
    /\ UNCHANGED shelf

(* Bug: the categories are taken as they were named, hidden or not.         *)
LoadRefsUnread ==
    /\ build.pc = "refs"
    /\ build' = [build EXCEPT !.pc = "sidebar"]
    /\ UNCHANGED shelf

(* resolveRefs: the categories of those entries, as they are now.           *)
LoadRefs ==
    /\ build.pc = "refs"
    /\ build' = [build EXCEPT !.pc = "sidebar", !.refs = db.hidden \cap CatsRead]
    /\ UNCHANGED shelf

LoadSidebar ==
    /\ build.pc = "sidebar"
    /\ build' = [build EXCEPT !.pc = "entries", !.side = SidebarLinks(db)]
    /\ UNCHANGED shelf

(* buildVisibleIndex and adjacentFromIndex order what was read once; of two *)
(* entries with one address the one written later stays.                    *)
EntryPages ==
    LET Under(i) == {k \in Published(EntriesRead) :
                        /\ KeyOf(EntriesRead, k) = KeyOf(EntriesRead, i)
                        /\ Newer(EntriesRead, i, k)}
    IN {[key |-> KeyOf(EntriesRead, i), is |-> i, beside |-> Neighbours(RefsRead, i)] :
           i \in {j \in Published(EntriesRead) : Under(j) = {}}}

(* pinnedFirst, cut to a page: hidden categories are not asked about.       *)
HomeRows == PageOf(EntriesRead, Home, 1)

WriteEntries ==
    /\ build.pc = "entries"
    /\ shelf' = [shelf EXCEPT !.home = HomeRows, !.entries = EntryPages,
          !.links = @ \cup On("home", UNION {RowLinks(EntriesRead, i) : i \in HomeRows})
                      \cup On("entry", UNION {EntryPageLinks(p.is) : p \in EntryPages})
                      \cup On("sidebar", build.side)]
    /\ build' = [build EXCEPT !.pc = "category"]

(* Bug: the categories the entries name are listed, that of none as well.   *)
ListsOfNamed(kind) ==
    CASE kind = "category" -> {Category(db.post[i].cat) : i \in Published(db)}
      [] kind = "tag"      -> {Tag(t) : t \in Tags}
      [] kind = "month"    -> {Month(m) : m \in SidebarMonths(db)}

(* Each kind of list is enumerated, then queried one by one: first pages    *)
(* only, and none for a hidden category.                                    *)
ListsOf(kind) == CASE kind = "category" -> {Category(c) : c \in Categories \ db.hidden}
                   [] kind = "tag"      -> {Tag(t) : t \in Tags}
                   [] kind = "month"    -> {Month(m) : m \in SidebarMonths(db)}

EnumerateLists ==
    /\ build.pc \in {"category", "tag", "month"} /\ ~build.listed
    /\ build' = [build EXCEPT !.listed = TRUE, !.todo = ListsOf(build.pc)]
    /\ UNCHANGED shelf

WriteList(list) ==
    /\ list \in build.todo
    /\ LET shown == PageOf(db, list, 1)
       IN shelf' = [shelf EXCEPT !.lists = @ \cup {[list |-> list, shows |-> shown]},
             !.links = @ \cup On("list", UNION {RowLinks(db, i) : i \in shown})]
    /\ build' = [build EXCEPT !.todo = @ \ {list}]

ListsWritten ==
    /\ build.listed /\ build.todo = {}
    /\ build' = [build EXCEPT !.listed = FALSE,
          !.pc = CASE build.pc = "category" -> "tag" [] build.pc = "tag" -> "month"
                   [] OTHER -> "extras"]
    /\ UNCHANGED shelf

(* limitEntries of a feed that the build hands everything.                  *)
FeedEntries == Recent(EntriesRead, FeedLimit)

(* llms.txt lists whatever it is handed: the build hands it everything, the *)
(* route no more than llmsMaxEntries.                                       *)
LLMsEntries == Published(EntriesRead)
LLMsServed(d) == Recent(d, LLMsLimit)

(* writeFeeds, writeLLMsTxt and writeStagedSitemap, all from memory.        *)
WriteExtras ==
    /\ build.pc = "extras"
    /\ shelf' = [shelf EXCEPT !.feed = FeedEntries, !.llms = LLMsEntries,
          !.sitemap = SitemapEntries(RefsRead),
          !.links = @ \cup On("feed", {EntryLink(EntriesRead, i) : i \in FeedEntries \cup LLMsEntries})
                      \cup On("sitemap", SitemapLinks)]
    /\ build' = [build EXCEPT !.pc = "done"]

BuildStep == \/ LoadEntries \/ LoadRefs \/ LoadSidebar \/ WriteEntries
             \/ EnumerateLists \/ (\E list \in Lists : WriteList(list))
             \/ ListsWritten \/ WriteExtras

(* A save beside a build, or after it; readers and a reindex change nothing *)
(* that a build reads.                                                      *)
BuildBeside == build' = [build EXCEPT !.clean = @ /\ build.pc = "idle"]

ReadingBeside ==
    /\ ReadingNext
    /\ IF edits' # edits THEN BuildBeside ELSE UNCHANGED build
    /\ UNCHANGED shelf

SnapshotNext == ReadingBeside \/ (BuildStep /\ UNCHANGED readingVars)

SnapshotSpec == /\ ReadingInit /\ SnapshotInit
                /\ [][SnapshotNext]_<<readingVars, snapshotVars>>

-----------------------------------------------------------------------------
Written(list) == \E page \in shelf.lists : page.list = list
PageAt(key) == {page \in shelf.entries : page.key = key}
Leads(link) == IF link.to = "list" THEN Written(link.list) ELSE PageAt(link.key) # {}

(* Two entries may share an address only where a slug reads as a number.    *)
WordSlugs(d) == \A i \in Published(d) : SlugNumber[d.post[i].slug] = 0

SnapshotTypeOk ==
    /\ build.pc \in {"idle", "refs", "sidebar", "entries", "category", "tag",
                     "month", "extras", "done"}
    /\ build.all \in [PostIds -> Rows \cup {NoRow}]
    /\ build.refs \subseteq Categories /\ build.todo \subseteq Lists
    /\ {build.listed, build.clean} \subseteq BOOLEAN
    /\ shelf.home \cup shelf.feed \cup shelf.llms \cup shelf.sitemap \subseteq PostIds
    /\ \A page \in shelf.entries : page.is \in PostIds
    /\ \A page \in shelf.lists : page.list \in Lists /\ page.shows \subseteq PostIds

AsServed(page) ==
    /\ Answer(db, page.key) = [code |-> 200, entry |-> page.is]
    /\ page.beside = Neighbours(db, page.is)

(* What is written while no one saves is what the public routes answer: the *)
(* entry pages with their neighbours at the same addresses, the first page  *)
(* of every list, the sitemap's entries; and, where no published entry is of*)
(* a hidden category, home, feeds and an llms.txt below its limit.          *)
StaticMatchesDynamic ==
    build.pc = "done" /\ build.clean =>
        /\ \A list \in Lists : list.kind \in {"category", "tag", "month"} =>
              /\ \A page \in shelf.lists :
                    page.list = list => page.shows = PageOf(db, list, 1)
              /\ Members(db, list) # {} =>
                    \/ Written(list)
                    \/ list.kind = "category" /\ list.of \in db.hidden
        /\ WordSlugs(db) => /\ {page.is : page \in shelf.entries} = Published(db)
                            /\ \A page \in shelf.entries : AsServed(page)
        /\ shelf.sitemap = SitemapEntries(db)
        /\ Published(db) = Public(db) =>
              /\ shelf.home = PageOf(db, Home, 1)
              /\ shelf.feed = Recent(db, FeedLimit)
              /\ Cardinality(Public(db)) <= LLMsLimit => shelf.llms = LLMsServed(db)

(* Whatever is saved beside a build, the links to entries from home, entry  *)
(* pages, feeds and sitemap lead to pages of the same snapshot; where no one*)
(* saved all links of it do, but for those to a hidden category.            *)
SnapshotLinksHold ==
    build.pc = "done" /\ WordSlugs(EntriesRead) =>
        \A l \in shelf.links :
            \/ Leads(l.link)
            \/ ~build.clean /\ (l.on \in {"sidebar", "list"} \/ l.link.to = "list")
            \/ l.link.to = "list" /\ l.link.list.of \in build.refs

(* What a build writes is what the routes serve, and its links lead on.     *)
SnapshotHolds == StaticMatchesDynamic /\ SnapshotLinksHold

(* rebuild.go:518: the static home page matches the dynamic route.          *)
HomeAsDynamic == build.pc = "done" /\ build.clean
                 => shelf.home = PageOf(db, Home, 1)

=============================================================================
