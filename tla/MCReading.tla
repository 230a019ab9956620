----------------------------- MODULE MCReading -----------------------------
(***************************************************************************)
(* Readers, the static build and `serenebach reindex` over every small     *)
(* database, with an author's saves in between; and `serenebach import`    *)
(* with the readers of old addresses.  In a behaviour one of them is in    *)
(* focus; they meet in nothing but the tables.                             *)
(***************************************************************************)
EXTENDS Snapshot, Importer

(* The site behind the readers that no import fills: any of the old ones,   *)
(* at the root.                                                             *)
ASSUME AnyOldSiteAssumption == LegacySites # {} /\ "/" \in Mounts

VARIABLE focus

Row(st, day, slug, cat, tags, pinned, noindex) ==
    [st |-> st, day |-> day, slug |-> slug, cat |-> cat, tags |-> tags,
     pinned |-> pinned, noindex |-> noindex]

Plain(day) == Row("published", day, "", Uncategorized, {}, FALSE, FALSE)
Filed(day) == Row("published", day, "", "c", {"t"}, FALSE, FALSE)
Pinned(day) == Row("published", day, "", "c", {}, TRUE, TRUE)
Named(slug) == Row("published", 1, slug, Uncategorized, {"t"}, FALSE, FALSE)
Other(st) == Row(st, 1, "", "c", {}, FALSE, FALSE)

MCMonthOf == <<"jan", "feb">>
MCSlugNumber == [s \in {"", "w", "v", "2"} |-> IF s = "2" THEN 2 ELSE 0]

(* What a focus has entries of.                                             *)
Walked == {Plain(1), Filed(2), Pinned(1)}
Built == {Plain(1), Filed(2), Pinned(1), Named("w"), Other("draft"), Other("closed")}
Linked == {Plain(1), Filed(1), Named("w"), Named("2"), Other("draft")}
Sought == {Plain(1), Other("draft")}
MCRows == Walked \cup Built \cup Linked

RowsOf == [walk |-> Walked, build |-> Built, links |-> Linked, search |-> Sought]

(* Old sites: two categories, one below the other or not, an entry whose     *)
(* category may be garbage, a draft, one with a save name, and settings.     *)
Layer(type, log, base, cgi) ==
    [type |-> type, log |-> log, base |-> base, cgi |-> cgi, prefix |-> ""]
Unset == Layer("", "", "", "")
MCLayers == {<<Layer("", "old/", "", ""), Unset, Unset>>,
             <<Unset, Layer("", "old/", "/", ""), Layer("", "", "", "/blog/")>>,
             <<Unset, Unset, Layer("Monthly", "old/", "/blog/", "")>>}
Launch == [word |-> "launch", n |-> NoRef]
Odd(main, cat, file) == [main |-> main, cat |-> cat, file |-> file]
Oddities == {Odd(NoRef, 0, Launch), Odd(0, Garbled, [word |-> "eid", n |-> 0])}
MCLegacySites ==
    {[version |-> v, layers |-> layers, templates |-> 1,
      weblogs |-> IF v = 2 THEN <<>> ELSE <<"">>,
      cats |-> [k \in 0 .. 1 |-> [main |-> IF k = 1 THEN odd.main ELSE NoRef,
                                  dir |-> IF k = 1 THEN "trips/" ELSE "log/"]],
      entries |-> [e \in 0 .. 2 |->
          CASE e = 0 -> [stat |-> IF v = 2 THEN 2 ELSE 1, cat |-> odd.cat, file |-> NoName]
            [] e = 1 -> [stat |-> 0, cat |-> 1, file |-> NoName]
            [] e = 2 -> [stat |-> 1, cat |-> 1, file |-> odd.file]],
      messages |-> [m \in 0 .. 2 |->
          [eid |-> IF m = 1 /\ odd.cat = Garbled THEN Garbled ELSE m,
           st |-> IF m = 0 THEN "hidden" ELSE "approved"]]] :
        v \in {2, 3}, layers \in MCLayers, odd \in Oddities}

File(slug, st, cat) == [slug |-> slug, st |-> st, cat |-> cat]
MCDirectories == {<<File("w", "published", "v"), File("w", "draft", ""), File("", "draft", "")>>,
                  <<File("v", "draft", ""), File("w", "closed", "")>>}

InFocus == focus # "import" => \A i \in Present(db) : db.post[i] \in RowsOf[focus]

Init ==
    /\ \/ /\ focus = "import"
          /\ db = [post |-> [i \in PostIds |-> NoRow], hidden |-> {}, indexed |-> {}]
          /\ ImporterInit
       \/ /\ focus \in DOMAIN RowsOf
          /\ StartOf(CHOOSE from \in LegacySites : TRUE, "/", 0)
    /\ ReadingInit /\ SnapshotInit
    /\ InFocus /\ nextPost = Cardinality(Present(db)) + 1
    /\ focus # "walk" => nextPost < MaxPosts + 1
    /\ focus = "search" => db.hidden = {}

Next ==
    /\ UNCHANGED focus
    /\ \/ /\ ReadingBeside
          /\ walk' # walk /\ edits' = edits /\ reindex' = reindex => focus = "walk"
          /\ reindex' # reindex => focus = "search"
          /\ focus # "import"
          /\ UNCHANGED importerVars
       \/ /\ focus \in {"build", "links"} /\ BuildStep
          /\ UNCHANGED <<readingVars, importerVars>>
       \/ /\ focus = "import" /\ ImporterStep
          /\ UNCHANGED <<readingVars, snapshotVars>>
    /\ InFocus'
    /\ focus = "links" => edits' = edits
    /\ focus = "build" => nextPost' < MaxPosts + 1

Spec == Init /\ [][Next]_<<focus, readingVars, snapshotVars, importerVars>>

(* Every variable stays in its domain.                                      *)
TypeOk == ReadingTypeOk /\ SnapshotTypeOk /\ ImporterTypeOk
=============================================================================
