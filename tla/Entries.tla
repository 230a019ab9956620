------------------------------- MODULE Entries -------------------------------
(***************************************************************************)
(* The entries of the weblog and the tags on them, as concurrent requests  *)
(* change them: the entry form (entryCreate, entryUpdate, entryDelete,     *)
(* entryOGRegenerate), the tag screen (tagUpdate, tagDelete) and the MCP   *)
(* tools (create_entry, update_entry, publish_entry).  A save is a row, a  *)
(* lookup and perhaps an insertion per tag, the join rows, the preview     *)
(* card and the webhook, each a statement of its own under the context of  *)
(* the HTTP request: once the client hangs up, the remaining ones fail.    *)
(* Of a row the status is kept; slugs, dates and text are left out.        *)
(***************************************************************************)
EXTENDS ContentParameters

EntryIds == 1 .. MaxEntries
TagIds == 1 .. MaxTags
Statuses == {"draft", "published"}     \* EntryClosed is handled as a draft
TagRow == [id : TagIds, name : Names, slug : {SlugOf[n] : n \in Names}]
Grant == [id : TagIds, name : Names]

VARIABLES
    status,      \* entries: the status of the row, "none" without a row
    nextEntry,   \* entries: the AUTOINCREMENT counter
    tags,        \* the rows of tags
    nextTag,     \* tags: the AUTOINCREMENT counter
    entryTags,   \* the rows of entry_tags: pairs of an entry and a tag
    cards,       \* the files under img/og/
    saves,       \* bound: requests made so far
    save,        \* what each request is doing
    given,       \* history: what the last save of an entry resolved
    renamed,     \* history: tags tagUpdate has changed
    owing,       \* history: requests that published, entry.published not sent
    outrun,      \* history: requests that read a publication since taken back
    silent,      \* history: requests of an MCP call, or whose client hung up
    crossed      \* history: entries deleted under another request's hands

tables == <<status, nextEntry, tags, nextTag, entryTags>>
publicity == <<owing, outrun, silent>>
history == <<given, renamed, publicity, crossed>>
entriesVars == <<status, nextEntry, tags, nextTag, entryTags, cards, saves,
                 save, given, renamed, owing, outrun, silent, crossed>>

Steps == {"update", "ensure", "create", "card", "dispatch", "remove", "draw"}
None == [pc |-> "idle"]
Save == [pc : Steps, src : {"form", "mcp"}, id : EntryIds, to : Statuses,
         publishes : BOOLEAN, tagged : BOOLEAN, todo : SUBSET Names,
         missing : SUBSET Names, out : SUBSET Grant, up : BOOLEAN]

EntriesInit ==
    /\ status = [e \in EntryIds |-> "none"]
    /\ nextEntry = 1
    /\ tags = {}
    /\ nextTag = 1
    /\ entryTags = {}
    /\ cards = {}
    /\ saves = 0
    /\ save = [c \in Clients |-> None]
    /\ given = [e \in EntryIds |-> {}]
    /\ renamed = {}
    /\ owing = {}
    /\ outrun = {}
    /\ silent = {}
    /\ crossed = {}

Live(e) == status[e] # "none"

(* wasPublished, as the request read it: will this save be a publication?   *)
Publishing(e, to) == to = "published" /\ status[e] # "published"

(* A statement takes the row of an entry to published.                      *)
Publication(c, e, to) == IF Publishing(e, to) THEN {c} ELSE {}

(* A statement takes it back, past requests that have read "published".     *)
Outruns(e, to) ==
    IF status[e] # "published" \/ to = "published" THEN {}
    ELSE {d \in Clients : /\ save[d].pc = "update" /\ save[d].id = e
                          /\ save[d].to = "published" /\ ~save[d].publishes}

(* What follows the row: the tags, unless update_entry had none.             *)
AfterRow(s) == IF s.tagged THEN [s EXCEPT !.pc = "ensure", !.to = "draft"] ELSE None

(* Bug: a save whose tags failed stops there.                                *)
NothingAfterTags(s) == None

(***************************************************************************)
(* What follows the tags, also when they failed: the form only logs that.  *)
(***************************************************************************)
AfterTags(s) ==
    IF s.src = "mcp" THEN None
    ELSE [s EXCEPT !.pc = "card", !.todo = {}, !.missing = {}, !.out = {}]

-----------------------------------------------------------------------------
(* A request with its form or arguments, and no tag resolved yet.           *)
Begun(e, src, to, tagged, names) ==
    [pc |-> "update", src |-> src, id |-> e, to |-> to,
     publishes |-> Publishing(e, to), tagged |-> tagged, todo |-> names,
     missing |-> {}, out |-> {}, up |-> TRUE]

(* A client that waits for no answer makes a request.                       *)
Begin(c) == save[c] = None /\ saves < MaxSaves /\ saves' = saves + 1

(* What is remembered of the last request of a client gives way to a save;  *)
(* the tools in internal/mcp write rows without a webhook.                  *)
Afresh(c, src) ==
    /\ outrun' = outrun \ {c}
    /\ silent' = IF src = "mcp" THEN silent \cup {c} ELSE silent \ {c}

(* entryCreate and create_entry: the INSERT.                                *)
Create(c, src, to, tagged, names) ==
    LET s == Begun(nextEntry, src, to, tagged, names) IN
    /\ Begin(c) /\ nextEntry <= MaxEntries
    /\ status' = [status EXCEPT ![nextEntry] = to]
    /\ nextEntry' = nextEntry + 1
    /\ save' = [save EXCEPT ![c] = AfterRow(s)]
    /\ owing' = (owing \ {c}) \cup Publication(c, nextEntry, to)
    /\ Afresh(c, src)
    /\ UNCHANGED <<tags, nextTag, entryTags, cards, given, renamed, crossed>>

(* entryUpdate, update_entry and publish_entry: EntryByID.                  *)
Load(c, e, src, to, tagged, names) ==
    /\ Begin(c) /\ Live(e)
    /\ save' = [save EXCEPT ![c] = Begun(e, src, to, tagged, names)]
    /\ owing' = owing \ {c}
    /\ Afresh(c, src)
    /\ UNCHANGED <<tables, cards, given, renamed, crossed>>

(* UpdateEntry, of a row that another request may have deleted.             *)
Update(c) ==
    LET s == save[c] IN
    /\ s.pc = "update"
    /\ IF s.up /\ Live(s.id)
       THEN /\ status' = [status EXCEPT ![s.id] = s.to]
            /\ save' = [save EXCEPT ![c] = AfterRow(s)]
            /\ owing' = owing \cup Publication(c, s.id, s.to)
            /\ outrun' = outrun \cup Outruns(s.id, s.to)
       ELSE /\ save' = [save EXCEPT ![c] = None]
            /\ UNCHANGED <<status, owing, outrun>>
    /\ UNCHANGED <<saves, nextEntry, tags, nextTag, entryTags, cards, given, renamed,
                   silent, crossed>>

(* EnsureTagsByName, one name: tagByName finds the tag or does not.         *)
Ensure(c) ==
    LET s == save[c] IN
    /\ s.pc = "ensure" /\ s.up
    /\ \E n \in s.todo :
        LET found == {t \in tags : t.name = n} IN
        save' = [save EXCEPT ![c] =
            IF found = {} THEN [s EXCEPT !.pc = "create", !.missing = {n}]
            ELSE [s EXCEPT !.todo = @ \ {n},
                           !.out = @ \cup {[id |-> t.id, name |-> n] : t \in found}]]
    /\ UNCHANGED <<saves, tables, cards, history>>

(* The unique indexes on (wid, name) and (wid, slug).                       *)
Free(name, slug, id) ==
    \A t \in tags : t.id # id => t.name # name /\ t.slug # slug

(* Bug: the id of the last row that is left, plus one.                      *)
ReusedTagId == IF tags = {} THEN 1
               ELSE 1 + (CHOOSE i \in TagIds : /\ \E t \in tags : t.id = i
                                              /\ \A t \in tags : t.id <= i)

NewTagId == nextTag

(* CreateTag: a collision, with a tag that another request has just made or *)
(* a name of the same slug, ends the tags of this save.                     *)
CreateTag(c) ==
    LET s == save[c] IN
    /\ s.pc = "create" /\ s.up
    /\ \E n \in s.missing :
        IF Free(n, SlugOf[n], 0) /\ nextTag <= MaxTags
        THEN /\ tags' = tags \cup {[id |-> NewTagId, name |-> n, slug |-> SlugOf[n]]}
             /\ nextTag' = nextTag + 1
             /\ save' = [save EXCEPT ![c] =
                   [s EXCEPT !.pc = "ensure", !.todo = @ \ {n}, !.missing = {},
                             !.out = @ \cup {[id |-> NewTagId, name |-> n]}]]
        ELSE /\ save' = [save EXCEPT ![c] = AfterTags(s)]
             /\ UNCHANGED <<tags, nextTag>>
    /\ UNCHANGED <<saves, status, nextEntry, entryTags, cards, history>>

(* Any statement on the tags, of a request whose client has hung up.        *)
TagsFail(c) ==
    /\ save[c].pc \in {"ensure", "create"} /\ ~save[c].up
    /\ save' = [save EXCEPT ![c] = AfterTags(save[c])]
    /\ UNCHANGED <<saves, tables, cards, history>>

OtherTags(e) == {r \in entryTags : r[1] # e}

(* SetEntryTags: one transaction; neither the entry nor a tag need be left. *)
SetTags(c) ==
    LET s == save[c] IN
    /\ s.pc = "ensure" /\ s.todo = {} /\ s.up
    /\ entryTags' = OtherTags(s.id) \cup {<<s.id, g.id>> : g \in s.out}
    /\ given' = [given EXCEPT ![s.id] = s.out]
    /\ save' = [save EXCEPT ![c] = AfterTags(s)]
    /\ UNCHANGED <<saves, status, nextEntry, tags, nextTag, cards, renamed,
                   publicity, crossed>>

(* regenerateOGCard: WeblogByID needs the client, the file does not.        *)
Card(c) ==
    LET s == save[c] IN
    /\ s.pc = "card"
    /\ cards' = IF s.up THEN cards \cup {s.id} ELSE cards
    /\ save' = [save EXCEPT ![c].pc = "dispatch"]
    /\ UNCHANGED <<saves, tables, history>>

(* dispatchEntryEvent, entry.published; an entry.updated leaves no trace.   *)
Dispatch(c) ==
    LET s == save[c] IN
    /\ s.pc = "dispatch"
    /\ owing' = IF s.up /\ s.publishes THEN owing \ {c} ELSE owing
    /\ save' = [save EXCEPT ![c] = None]
    /\ UNCHANGED <<saves, tables, cards, given, renamed, outrun, silent, crossed>>

(* The client goes away and the context of its request is cancelled.        *)
HangUp(c) ==
    LET s == save[c] IN
    /\ s # None /\ s.pc # "remove" /\ s.up
    /\ save' = [save EXCEPT ![c].up = FALSE]
    /\ silent' = silent \cup {c}
    /\ UNCHANGED <<saves, tables, cards, given, renamed, owing, outrun, crossed>>

(* entryDelete: the row; its tags, comments and reactions stay behind.      *)
DeleteEntry(c, e) ==
    /\ Begin(c) /\ Live(e)
    /\ status' = [status EXCEPT ![e] = "none"]
    /\ crossed' = crossed \cup {d \in {e} : \E q \in Clients :
                                  save[q] # None /\ save[q].id = e}
    /\ save' = [save EXCEPT ![c] = [Begun(e, "form", "draft", FALSE, {})
                                   EXCEPT !.pc = "remove"]]
    /\ given' = [given EXCEPT ![e] = {}]
    /\ UNCHANGED <<nextEntry, tags, nextTag, entryTags, cards, renamed, publicity>>

(* Bug: the file of a deleted entry is left alone.                          *)
NoCardOf(e) == {}

CardOf(e) == {e}

(* removeOGCard.                                                            *)
RemoveCard(c) ==
    /\ save[c].pc = "remove"
    /\ cards' = cards \ CardOf(save[c].id)
    /\ save' = [save EXCEPT ![c] = None]
    /\ UNCHANGED <<saves, tables, history>>

(* entryOGRegenerate: EntryByID, then the file.                             *)
Regenerate(c, e) ==
    /\ Begin(c) /\ Live(e)
    /\ save' = [save EXCEPT ![c] = [Begun(e, "form", "draft", FALSE, {})
                                   EXCEPT !.pc = "draw"]]
    /\ UNCHANGED <<tables, cards, history>>

Draw(c) ==
    /\ save[c].pc = "draw"
    /\ cards' = IF save[c].up THEN cards \cup {save[c].id} ELSE cards
    /\ save' = [save EXCEPT ![c] = None]
    /\ UNCHANGED <<saves, tables, history>>

(* tagUpdate: one statement, refused by the unique indexes.                 *)
UpdateTag(t, name, slug) ==
    /\ t \in tags /\ Free(name, slug, t.id)
    /\ tags' = (tags \ {t}) \cup {[t EXCEPT !.name = name, !.slug = slug]}
    /\ renamed' = renamed \cup {t.id}
    /\ UNCHANGED <<saves, status, nextEntry, nextTag, entryTags, cards, save, given,
                   publicity, crossed>>

(* tagDelete: the row and its join rows in one transaction.                 *)
DeleteTag(t) ==
    /\ t \in tags
    /\ tags' = tags \ {t}
    /\ entryTags' = {r \in entryTags : r[2] # t.id}
    /\ renamed' = renamed \ {t.id}
    /\ given' = [e \in EntryIds |-> {g \in given[e] : g.id # t.id}]
    /\ UNCHANGED <<saves, status, nextEntry, nextTag, cards, save, publicity,
                   crossed>>

(* A save with its arguments: the form always brings the list of tags.      *)
SaveWith(c, src, to, tagged, names) ==
    /\ src = "form" => tagged
    /\ ~tagged => names = {}
    /\ \/ Create(c, src, to, tagged, names)
       \/ \E e \in EntryIds : Load(c, e, src, to, tagged, names)

EntriesNext ==
    \/ \E c \in Clients :
        \/ \E src \in {"form", "mcp"}, to \in Statuses, tagged \in BOOLEAN,
              names \in SUBSET Names : SaveWith(c, src, to, tagged, names)
        \/ Update(c) \/ Ensure(c) \/ CreateTag(c) \/ TagsFail(c) \/ SetTags(c)
        \/ Card(c) \/ Dispatch(c) \/ HangUp(c) \/ RemoveCard(c) \/ Draw(c)
        \/ \E e \in EntryIds : DeleteEntry(c, e) \/ Regenerate(c, e)
    \/ \E t \in tags :
        \/ \E name, like \in Names : UpdateTag(t, name, SlugOf[like])
        \/ DeleteTag(t)

EntriesSpec == EntriesInit /\ [][EntriesNext]_entriesVars

-----------------------------------------------------------------------------
(***************************************************************************)
(* Every variable stays in its domain.                                     *)
(***************************************************************************)
EntriesTypeOk ==
    /\ status \in [EntryIds -> Statuses \cup {"none"}]
    /\ nextEntry \in 1 .. MaxEntries + 1
    /\ tags \subseteq TagRow
    /\ nextTag \in 1 .. MaxTags + 1
    /\ entryTags \subseteq EntryIds \X TagIds
    /\ cards \subseteq EntryIds
    /\ saves \in 0 .. MaxSaves
    /\ save \in [Clients -> {None} \cup Save]
    /\ given \in [EntryIds -> SUBSET Grant]
    /\ renamed \subseteq TagIds
    /\ owing \subseteq Clients
    /\ outrun \subseteq Clients
    /\ silent \subseteq Clients
    /\ crossed \subseteq EntryIds

Attached(e) == {t \in tags : <<e, t.id>> \in entryTags}

(***************************************************************************)
(* SetEntryTags and the ids that are never given out twice: whatever saves,*)
(* renames and deletions interleave to, an entry carries the tags its last *)
(* complete save resolved, less those deleted since, and no later tag that *)
(* came to the id of one of them.                                          *)
(***************************************************************************)
TagsOfLastSave ==
    \A e \in EntryIds : Live(e) =>
        /\ {t.id : t \in Attached(e)} =
               {g.id : g \in given[e]} \cap {t.id : t \in tags}
        /\ \A t \in Attached(e), g \in given[e] :
               t.id = g.id => t.name = g.name \/ t.id \in renamed

(* A request that is past its UPDATE and on its way to dispatch.            *)
Announcing(c) ==
    /\ save[c].pc \in {"ensure", "create", "card", "dispatch"}
    /\ save[c].src = "form" /\ save[c].publishes /\ save[c].up

(***************************************************************************)
(* entry.published: "An entry transitions to published (draft / closed to  *)
(* published)".  Every statement that takes a row to published is that of  *)
(* a request that has announced it or still will, unless it is an MCP call *)
(* or its client hung up, or it read the entry as published and another    *)
(* request took that back before it wrote: neither a tag that fails, nor a *)
(* deletion, nor any other race of saves loses one.                        *)
(***************************************************************************)
FormPublicationsAnnounced ==
    \A c \in owing : Announcing(c) \/ c \in silent \/ c \in outrun

(***************************************************************************)
(* removeOGCard: the preview card of a deleted entry goes with it, unless  *)
(* another request was at work on the entry when it was deleted.           *)
(***************************************************************************)
StrayCardsAreRaces ==
    \A e \in cards :
        \/ Live(e) \/ e \in crossed
        \/ \E c \in Clients : save[c].pc = "remove" /\ save[c].id = e
=============================================================================
