------------------------------ MODULE Importer ------------------------------
(***************************************************************************)
(* `serenebach import`: a Serene Bach 2 or 3 site, or a directory of       *)
(* markdown files, copied in one transaction into tables that may hold     *)
(* rows already; and the redirects that lead old addresses to the copies,  *)
(* by settings that a server reads once, when it starts.                   *)
(***************************************************************************)
EXTENDS Reading, Sequences, FiniteSetsExt

CONSTANTS
    LegacySites,    \* the sites an operator may move here
    Directories,    \* directories of markdown files, each in order of names
    Mounts,         \* SB_BASE_PATH of the server
    MaxImports,     \* bound: runs of the command
    MaxMoves        \* bound: what else operators and readers do

NoRef == -1         \* an empty column of the old site, NULL in this one
Garbled == -2       \* a column of the old site that is not a number

Columns == {"type", "log", "base", "cgi", "prefix"}

ASSUME ImporterAssumption ==
    /\ MaxPosts > 0 /\ MaxImports \in Nat /\ MaxMoves \in Nat
    /\ \A from \in LegacySites :
          /\ from.version \in {2, 3} /\ from.templates \in Nat
          /\ \A k \in DOMAIN from.cats : /\ from.cats[k].main \in Int
                                         /\ from.cats[k].main = Garbled => from.version = 2
          /\ IsFiniteSet(DOMAIN from.messages)
          /\ DOMAIN from.cats \cup DOMAIN from.entries \subseteq 0 .. MaxPosts - 1
          /\ \A n \in DOMAIN from.layers : DOMAIN from.layers[n] = Columns
    /\ \A files \in Directories :
          /\ Len(files) \in Nat /\ DOMAIN files = 1 .. Len(files)
          /\ \A n \in DOMAIN files : files[n].st \in {"draft", "published", "closed"}

VARIABLES
    old,       \* the site that is moved
    site,      \* entries, categories, comments, how many templates wait unused,
               \* the weblog's title and its legacy_* columns
    cached,    \* Handler.LegacyURL
    mount,     \* the deployment's base path
    drawing,   \* entries whose cards a markdown import still has to draw
    cards,     \* files og/<id>.png
    late,      \* entries deleted while an import was drawing their cards
    imports, moves

importerVars == <<old, site, cached, mount, drawing, cards, late, imports, moves>>

CatIds == 1 .. MaxPosts
NoName == [word |-> "", n |-> NoRef]
NoCat == [legacy |-> NoRef, run |-> 0]
Stored(s) == {i \in PostIds : s.post[i] # NoRow}
Filing(s) == {c \in CatIds : s.cat[c] # NoCat}

(* weblogs.legacy_* of a site that was never imported; HasAny is false.     *)
NoLegacy == [c \in Columns \ {"cgi"} |-> ""]

-----------------------------------------------------------------------------
(* What the importers make of the old rows.                                 *)

(* atoi64 reads garbage as 0, which Serene Bach 2 counts from; the database *)
(* of version 3 is read with more care.                                     *)
NumberOf(ref) == IF ref = Garbled /\ old.version = 2 THEN 0 ELSE ref
MainOf(k) == NumberOf(old.cats[k].main)
EntryOf(m) == NumberOf(old.messages[m].eid)

(* OnlyPublished, always, by the command: version 2 publishes its states 1  *)
(* and 2.                                                                   *)
Taken == {e \in DOMAIN old.entries :
             old.entries[e].stat \in (IF old.version = 2 THEN {1, 2} ELSE {1})}

(* LastInsertId, row by row; version 3 has the categories in the order of    *)
(* their parents, entries are numbered by their dates.                      *)
Sooner(j, k) == IF old.version = 3 /\ MainOf(j) # MainOf(k)
                THEN MainOf(j) < MainOf(k) ELSE j < k
CatCopy(s, k) == s.nextCat + Cardinality({j \in DOMAIN old.cats : Sooner(j, k)})
NextCat(s) == s.nextCat + Cardinality(DOMAIN old.cats)
PostCopy(s, e) == s.nextPost + Cardinality({f \in Taken : f < e})
NextPost(s) == s.nextPost + Cardinality(Taken)

(* Bug: a parent of 0 is taken for none.                                    *)
ParentFromOne(s, k) ==
    IF MainOf(k) \in DOMAIN old.cats \ {0} THEN CatCopy(s, MainOf(k)) ELSE 0

(* The second pass: 0 is a category of the old site and a top level here.   *)
ParentOf(s, k) ==
    IF MainOf(k) \in DOMAIN old.cats THEN CatCopy(s, MainOf(k)) ELSE 0

ImportCategories(s) ==
    [c \in CatIds |->
        IF \E k \in DOMAIN old.cats : c = CatCopy(s, k)
        THEN LET k == CHOOSE j \in DOMAIN old.cats : c = CatCopy(s, j)
             IN [legacy |-> k, dir |-> old.cats[k].dir, slug |-> "",
                 parent |-> ParentOf(s, k), run |-> imports + 1]
        ELSE s.cat[c]]

(* resolveCategory: what is unknown becomes uncategorised.                  *)
ResolveCategory(s, ref) ==
    IF NumberOf(ref) \in DOMAIN old.cats THEN CatCopy(s, NumberOf(ref)) ELSE NoRef

Copy(s, e) == [st |-> "published", slug |-> "",
               cat |-> ResolveCategory(s, old.entries[e].cat), legacy |-> e,
               file |-> old.entries[e].file, count |-> 0, run |-> imports + 1]

ImportEntries(s) ==
    [i \in PostIds |->
        IF \E e \in Taken : i = PostCopy(s, e)
        THEN Copy(s, CHOOSE e \in Taken : i = PostCopy(s, e))
        ELSE s.post[i]]

(* The comments of the entries that were taken.                             *)
ImportMessages(s) ==
    {[of |-> <<imports + 1, m>>, post |-> PostCopy(s, EntryOf(m)),
      st |-> old.messages[m].st] : m \in {k \in DOMAIN old.messages : EntryOf(k) \in Taken}}

-----------------------------------------------------------------------------
(* The settings that shaped the old addresses.                              *)

Defaults == [type |-> "Individual", log |-> "log/", base |-> "/", cgi |-> "",
             prefix |-> "eid"]

Given(value) == value # ""

(* overlay: the last layer with a value wins.  The first layer is sb_config,*)
(* which version 2 does not have; then init.cgi, then configure.cgi.        *)
Merged(key) ==
    LET given == {n \in DOMAIN old.layers : /\ Given(old.layers[n][key])
                                            /\ n = 1 => old.version = 3}
    IN IF given = {} THEN "" ELSE old.layers[Max(given)][key]

LoadLegacyConfig ==
    [key \in Columns \ {"cgi"} |->
        CASE Given(Merged(key)) -> Merged(key)
          [] key = "base" /\ ~Given(Merged("base")) /\ Given(Merged("cgi")) -> Merged("cgi")
          [] OTHER -> Defaults[key]]

(* The first weblog of the old site gives its title, be it empty.           *)
ImportWeblog(s) == IF old.weblogs = <<>> THEN s.title ELSE Head(old.weblogs)

(* Templates arrive inactive, and again with each run.                      *)
ImportTemplates(s) == s.templates + old.templates

(* One transaction: all of it, or none.                                     *)
Transaction(messages) ==
    /\ imports < MaxImports /\ imports' = imports + 1
    /\ NextPost(site) <= MaxPosts + 1 /\ NextCat(site) <= MaxPosts + 1
    /\ site' = [post |-> ImportEntries(site), cat |-> ImportCategories(site),
                msg |-> site.msg \cup messages,
                title |-> ImportWeblog(site), templates |-> ImportTemplates(site),
                config |-> LoadLegacyConfig,
                nextPost |-> NextPost(site), nextCat |-> NextCat(site)]
    /\ UNCHANGED <<old, cached, mount, drawing, cards, late, moves>>

ImportSB3 == old.version = 3 /\ Transaction({})
ImportSB2 == old.version = 2 /\ Transaction(ImportMessages(site))

-----------------------------------------------------------------------------
(* Markdown.                                                                *)

(* Files without a usable slug are skipped; of two that claim one slug the  *)
(* first is taken.                                                          *)
Records(files) ==
    {n \in DOMAIN files : /\ files[n].slug # ""
                          /\ \A k \in 1 .. n - 1 : files[k].slug # files[n].slug}

Called(s, slug) == {i \in Stored(s) : s.post[i].slug = slug}

(* resolveMDCategory, by slug.                                              *)
CategoryNamed(s, slug) ==
    LET found == {c \in Filing(s) : slug # "" /\ s.cat[c].slug = slug}
    IN IF found = {} THEN NoRef ELSE CHOOSE c \in found : TRUE

Fresh(s, files) == {n \in Records(files) : Called(s, files[n].slug) = {}}
RowFor(s, files, n) ==
    IF n \in Fresh(s, files)
    THEN s.nextPost + Cardinality({k \in Fresh(s, files) : k < n})
    ELSE CHOOSE i \in Called(s, files[n].slug) : TRUE

(* The row of a slug keeps its address of the old site and its comments.    *)
Upsert(s, files) ==
    [i \in PostIds |->
        IF \E n \in Records(files) : i = RowFor(s, files, n)
        THEN LET n == CHOOSE k \in Records(files) : i = RowFor(s, files, k)
                 row == IF n \in Fresh(s, files)
                        THEN [st |-> "", slug |-> files[n].slug, cat |-> NoRef,
                              legacy |-> NoRef, file |-> NoName, count |-> 0, run |-> 0]
                        ELSE s.post[i]
             IN [row EXCEPT !.st = files[n].st, !.cat = CategoryNamed(s, files[n].cat)]
        ELSE s.post[i]]

ImportMarkdown(files) ==
    /\ imports < MaxImports /\ imports' = imports + 1
    /\ drawing = {}
    /\ site.nextPost + Cardinality(Fresh(site, files)) <= MaxPosts + 1
    /\ site' = [site EXCEPT !.post = Upsert(site, files),
                            !.nextPost = @ + Cardinality(Fresh(site, files))]
    /\ drawing' = {RowFor(site, files, n) : n \in Records(files)}
    /\ UNCHANGED <<old, cached, mount, cards, late, moves>>

(* Cards are drawn after the commit, one by one, whatever became of the row;*)
(* one that fails is only warned of.                                        *)
DrawCard(i) ==
    /\ i \in drawing
    /\ cards' \in {cards, cards \cup {i}}
    /\ drawing' = drawing \ {i}
    /\ UNCHANGED <<old, site, cached, mount, late, imports, moves>>

KillImport ==
    /\ drawing # {} /\ drawing' = {}
    /\ UNCHANGED <<old, site, cached, mount, cards, late, imports, moves>>

-----------------------------------------------------------------------------
(* What happens to the copies afterwards.                                   *)

Move == /\ moves < MaxMoves /\ moves' = moves + 1
        /\ UNCHANGED <<old, mount, drawing, imports>>

SetSlug(i, slug) ==
    /\ i \in Stored(site) /\ Called(site, slug) = {}
    /\ site' = [site EXCEPT !.post[i].slug = slug]
    /\ UNCHANGED <<cached, cards, late>>

SetCategorySlug(c, slug) ==
    /\ c \in Filing(site) /\ \A k \in Filing(site) : site.cat[k].slug # slug
    /\ site' = [site EXCEPT !.cat[c].slug = slug]
    /\ UNCHANGED <<cached, cards, late>>

(* Comments go with the row, and the card after it.                         *)
RemovePost(i) ==
    /\ i \in Stored(site)
    /\ site' = [site EXCEPT !.post[i] = NoRow, !.msg = {m \in @ : m.post # i}]
    /\ cards' = cards \ {i}
    /\ late' = IF i \in drawing THEN late \cup {i} ELSE late
    /\ UNCHANGED cached

(* UpdateMessageStatus keeps the count in step with the change.             *)
Judge(m, st) ==
    /\ m \in site.msg /\ m.st # st
    /\ LET by == (IF st = "approved" THEN 1 ELSE 0) - (IF m.st = "approved" THEN 1 ELSE 0)
       IN site' = [site EXCEPT !.msg = (@ \ {m}) \cup {[m EXCEPT !.st = st]},
                               !.post[m.post].count = @ + by]
    /\ UNCHANGED <<cached, cards, late>>

Restart ==
    /\ cached # site.config /\ cached' = site.config
    /\ UNCHANGED <<old, site, mount, drawing, cards, late, imports, moves>>

ImporterStep ==
    \/ ImportSB3 \/ ImportSB2
    \/ \E files \in Directories : ImportMarkdown(files)
    \/ (\E i \in PostIds : DrawCard(i)) \/ KillImport
    \/ /\ Move
       /\ \/ \E i \in PostIds, slug \in DOMAIN SlugNumber \ {""} : SetSlug(i, slug)
          \/ \E c \in CatIds, slug \in DOMAIN SlugNumber \ {""} : SetCategorySlug(c, slug)
          \/ \E i \in PostIds : RemovePost(i)
          \/ \E m \in site.msg, st \in {"approved", "hidden"} : Judge(m, st)
    \/ Restart

(* A site with an administrator's own entry and category, or none.          *)
OwnPost == [st |-> "published", slug |-> "", cat |-> 1, legacy |-> NoRef, file |-> NoName,
            count |-> 0, run |-> 0]
OwnCat == [legacy |-> NoRef, dir |-> "", slug |-> "", parent |-> 0, run |-> 0]

StartOf(from, base, own) ==
    /\ old = from /\ mount = base
    /\ site = [post |-> [i \in PostIds |-> IF i > own THEN NoRow ELSE OwnPost],
               cat |-> [c \in CatIds |-> IF c > own THEN NoCat ELSE OwnCat],
               msg |-> {}, title |-> "mine", templates |-> 0, config |-> NoLegacy,
               nextPost |-> own + 1, nextCat |-> own + 1]
    /\ cached = site.config
    /\ drawing = {} /\ cards = {} /\ late = {} /\ imports = 0 /\ moves = 0

ImporterInit == \E from \in LegacySites, base \in Mounts, own \in {0, 1} :
                    StartOf(from, base, own)

ImporterSpec == ImporterInit /\ [][ImporterStep]_importerVars

-----------------------------------------------------------------------------
(* Old addresses, and where they lead.  LIMIT 1 leaves open which of several*)
(* rows is taken: the operators return all of them.                         *)

ByQuery(e) == [kind |-> "query", base |-> "", log |-> "", name |-> [word |-> "", n |-> e]]
ByPage(name) == [kind |-> "page", base |-> LoadLegacyConfig.base,
                 log |-> LoadLegacyConfig.log, name |-> name]
ById(e) == ByPage([word |-> LoadLegacyConfig.prefix, n |-> e])
ByDir(dir) == [kind |-> "dir", base |-> LoadLegacyConfig.base, log |-> dir, name |-> NoName]

(* Bug: the id of the old site is taken for one of this site.               *)
EntryById(e) == {i \in Stored(site) : i = e}

EntryByLegacyID(e) == {i \in Stored(site) : e # NoRef /\ site.post[i].legacy = e}
EntryByLegacyFile(name) == {i \in Stored(site) : name # NoName /\ site.post[i].file = name}
CategoryByLegacyID(k) == {c \in Filing(site) : k # NoRef /\ site.cat[c].legacy = k}
CategoryByLegacyDir(dir) ==
    {c \in Filing(site) : dir # "" /\ site.cat[c].legacy # NoRef /\ site.cat[c].dir = dir}

(* StripPrefix has taken the deployment's base path off before the old one  *)
(* is looked for.                                                           *)
StripBasePath(url) == \/ mount = "/" /\ url.base = cached.base
                      \/ mount # "/" /\ url.base = mount /\ cached.base = "/"

(* A name that reads as an id is one, unless no entry had it.               *)
TryLegacyEntryHTML(url) ==
    IF cached.type = "Monthly" \/ url.log # cached.log \/ ~StripBasePath(url) THEN {}
    ELSE IF url.name.word = cached.prefix /\ EntryByLegacyID(url.name.n) # {}
         THEN EntryByLegacyID(url.name.n)
         ELSE EntryByLegacyFile(url.name)

TryLegacyCategoryDir(url) ==
    IF url.log = cached.log \/ ~StripBasePath(url) THEN {} ELSE CategoryByLegacyDir(url.log)

LegacyCGI(url) == EntryByLegacyID(url.name.n)

(* The columns are empty before an import, and the middleware off.          *)
EntriesAt(url) ==
    IF url.kind = "query" THEN LegacyCGI(url)
    ELSE IF cached = NoLegacy THEN {} ELSE TryLegacyEntryHTML(url)

AsRead == [post |-> site.post, hidden |-> {}, indexed |-> {}]

ImporterTypeOk ==
    /\ \A i \in Stored(site) :
          /\ site.post[i].st \in {"draft", "published", "closed"}
          /\ site.post[i].cat \in CatIds \cup {NoRef} /\ site.post[i].count \in Int
    /\ \A c \in Filing(site) : site.cat[c].parent \in CatIds \cup {0}
    /\ \A m \in site.msg : m.post \in Stored(site)
    /\ site.templates \in Nat
    /\ site.nextPost \in 1 .. MaxPosts + 1 /\ site.nextCat \in 1 .. MaxPosts + 1
    /\ DOMAIN cached = Columns \ {"cgi"}
    /\ drawing \cup cards \cup late \subseteq PostIds
    /\ imports \in 0 .. MaxImports /\ moves \in 0 .. MaxMoves

(* An old address leads to a copy of the entry that had it, at whatever     *)
(* address the copy has now, and shows it if it is published: addresses of  *)
(* sb.cgi as soon as the site is imported, pages once the server has read   *)
(* the settings, if it serves the root of its host and the old site kept    *)
(* a page for each entry.  A save name that reads as another entry's number *)
(* is left to that entry; categories likewise, by their directory.          *)
LegacyUrlsLand ==
    \A i \in Stored(site) : site.post[i].legacy # NoRef =>
        LET e == site.post[i].legacy
            file == old.entries[e].file
            Static == cached = LoadLegacyConfig /\ mount = "/" /\ cached.type # "Monthly"
            Plain == file.word # cached.prefix \/ file.n \notin DOMAIN old.entries
            urls == {ByQuery(e)} \cup (IF Static THEN {ById(e)} ELSE {})
                    \cup (IF Static /\ file # NoName /\ Plain THEN {ByPage(file)} ELSE {})
        IN /\ \A url \in urls :
                 /\ EntriesAt(url) # {}
                 /\ \A j \in EntriesAt(url) :
                       /\ \/ site.post[j].legacy = e
                          \/ url = ByPage(file) /\ site.post[j].file = file
                       /\ SlugNumber[site.post[j].slug] = 0 =>
                             LET answer == Answer(AsRead, KeyOf(AsRead, j))
                             IN /\ answer.entry \in {0, j}
                                /\ answer.code = 200 <=> site.post[j].st = "published"
           /\ Static => \A c \in Filing(site) :
                 site.cat[c].legacy # NoRef /\ site.cat[c].dir \notin {"", cached.log}
                 => c \in TryLegacyCategoryDir(ByDir(site.cat[c].dir))

(* A run of the importer keeps what the old site related: the tree of its   *)
(* categories, which counts from 0, the entries in them, and the comments   *)
(* at their entries.  The counters of the entries start at 0 all the same:  *)
(* they trail the approved comments by those that arrived approved.  And a  *)
(* card is drawn for an entry that is gone only if it went meanwhile.       *)
ImportsFaithful ==
    /\ \A c \in Filing(site) : site.cat[c].run > 0 =>
          LET main == MainOf(site.cat[c].legacy)
          IN IF main \in DOMAIN old.cats
             THEN site.cat[c].parent \in {p \in CategoryByLegacyID(main) :
                                             site.cat[p].run = site.cat[c].run}
             ELSE site.cat[c].parent = 0
    /\ \A i \in Stored(site) : site.post[i].run > 0 /\ site.post[i].slug = "" =>
          LET ref == NumberOf(old.entries[site.post[i].legacy].cat)
          IN IF ref \in DOMAIN old.cats THEN site.cat[site.post[i].cat].legacy = ref
             ELSE site.post[i].cat = NoRef
    /\ \A m \in site.msg : /\ site.post[m.post].run = m.of[1]
                           /\ site.post[m.post].legacy = EntryOf(m.of[2])
    /\ \A i \in Stored(site) :
          LET Approved == {m \in site.msg : m.post = i /\ m.st = "approved"}
              Arrived == {m \in site.msg : m.post = i /\ old.messages[m.of[2]].st = "approved"}
          IN site.post[i].count = Cardinality(Approved) - Cardinality(Arrived)
    /\ cards \subseteq Stored(site) \cup late
=============================================================================
