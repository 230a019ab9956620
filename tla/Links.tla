------------------------------- MODULE Links -------------------------------
(***************************************************************************)
(* The blogroll: links, and groups that hold links.  A save reads the row  *)
(* it changes, then the group it names, then writes; groups are deleted    *)
(* and lists reordered by other requests between these statements.         *)
(***************************************************************************)
EXTENDS ContentParameters, Functions

LinkIds == 1 .. MaxLinks
LinkKinds == {"link", "group"}

NoLink == [kind |-> "none", parent |-> 0, order |-> 0, hidden |-> FALSE]
LinkRow == [kind : LinkKinds \cup {"none"}, parent : LinkIds \cup {0},
            order : Nat, hidden : BOOLEAN]

NoSave == [pc |-> "none", id |-> 0, row |-> NoLink, late |-> FALSE]
LinkSave == [pc : {"none", "max", "insert", "check", "write"},
             id : LinkIds \cup {0}, row : LinkRow, late : BOOLEAN]

VARIABLES
    link,       \* the links table
    nextLink,   \* its AUTOINCREMENT counter
    saving,     \* linkCreate and linkUpdate in flight
                \*   .late : the group went after it was looked up (history)
    adrift,     \* links that a late save wrote (history)
    arranged    \* pairs <<i, j>>: i was put before j, and no save that
                \*   overlapped this has undone it (history)

linksVars == <<link, nextLink, saving, adrift, arranged>>

LinksInit ==
    /\ link = [i \in LinkIds |-> NoLink] /\ nextLink = 1
    /\ saving = [c \in Clients |-> NoSave]
    /\ adrift = {} /\ arranged = {}

AllLinks == {i \in LinkIds : link[i].kind # "none"}
VisibleLinks == {i \in AllLinks : ~link[i].hidden}
IsGroup(i) == link[i].kind = "group"

-----------------------------------------------------------------------------
(* parseLinkForm: a group has no parent and is never hidden.  The parent    *)
(* comes from a list of groups that was rendered before.                    *)
ParseLinkForm(kind, order) ==
    [kind : {kind}, order : {order},
     parent : IF kind = "group" THEN {0} ELSE 0 .. nextLink - 1,
     hidden : IF kind = "group" THEN {FALSE} ELSE BOOLEAN]

(* A parent that is gone, or is no group, is dropped without a word.        *)
Grouped(row) ==
    IF row.parent # 0 /\ ~IsGroup(row.parent) THEN [row EXCEPT !.parent = 0]
                                              ELSE row

LinkCreate(c) ==
    /\ saving[c] = NoSave /\ nextLink <= MaxLinks
    /\ \E kind \in LinkKinds : \E row \in ParseLinkForm(kind, 0) :
          saving' = [saving EXCEPT ![c] =
                [NoSave EXCEPT !.pc = "max", !.row = Grouped(row)]]
    /\ UNCHANGED <<link, nextLink, adrift, arranged>>

(* The SELECT MAX(sort_order) of CreateLink.                                *)
SelectMax(c) ==
    /\ saving[c].pc = "max"
    /\ \E top \in {0} \cup {link[i].order : i \in AllLinks} :
          /\ \A i \in AllLinks : link[i].order <= top
          /\ saving' = [saving EXCEPT ![c].pc = "insert", ![c].row.order = top + 1]
    /\ UNCHANGED <<link, nextLink, adrift, arranged>>

Drift(c, i) ==
    adrift' = IF saving[c].late THEN adrift \cup {i} ELSE adrift \ {i}

CreateLink(c) ==
    /\ saving[c].pc = "insert" /\ nextLink <= MaxLinks
    /\ link' = [link EXCEPT ![nextLink] = saving[c].row]
    /\ nextLink' = nextLink + 1
    /\ Drift(c, nextLink)
    /\ saving' = [saving EXCEPT ![c] = NoSave]
    /\ UNCHANGED arranged

(* linkUpdate loads the row.  The kind and the place stay as they are; the  *)
(* rest is the form's.                                                      *)
LinkUpdate(c) ==
    /\ saving[c] = NoSave
    /\ \E i \in AllLinks :
          \E row \in ParseLinkForm(link[i].kind, link[i].order) :
             saving' = [saving EXCEPT ![c] =
                   [NoSave EXCEPT !.pc = "check", !.id = i, !.row = row]]
    /\ UNCHANGED <<link, nextLink, adrift, arranged>>

CheckGroup(c) ==
    /\ saving[c].pc = "check"
    /\ saving' = [saving EXCEPT ![c].pc = "write", ![c].row = Grouped(@)]
    /\ UNCHANGED <<link, nextLink, adrift, arranged>>

Without(ids) == {p \in arranged : p[1] \notin ids /\ p[2] \notin ids}

(* The columns of UpdateLink; the kind is not among them.  The sort_order   *)
(* is the one that was loaded, also when the list was reordered meanwhile.  *)
SavedLink(row, i) == [row EXCEPT !.kind = link[i].kind]

UpdateLink(c) ==
    /\ saving[c].pc = "write"
    /\ LET i == saving[c].id IN
          IF i \in AllLinks
          THEN /\ link' = [link EXCEPT ![i] = SavedLink(saving[c].row, i)]
               /\ Drift(c, i)
               /\ arranged' = IF saving[c].row.order = link[i].order
                              THEN arranged ELSE Without({i})
          ELSE UNCHANGED <<link, adrift, arranged>>
    /\ saving' = [saving EXCEPT ![c] = NoSave]
    /\ UNCHANGED nextLink

Forgotten(row, i) == row

(* The members stay, outside any group.                                     *)
Detached(row, i) == IF row.parent = i THEN [row EXCEPT !.parent = 0] ELSE row

(* One transaction.                                                         *)
DeleteLink(i) ==
    /\ i \in AllLinks
    /\ link' = [j \in LinkIds |-> IF j = i THEN NoLink ELSE Detached(link[j], i)]
    /\ saving' = [c \in Clients |-> [saving[c] EXCEPT !.late =
          \/ saving[c].late
          \/ saving[c].pc \in {"max", "insert", "write"} /\ saving[c].row.parent = i]]
    /\ adrift' = adrift \ {i}
    /\ arranged' = Without({i})
    /\ UNCHANGED nextLink

(* The ids come from a page that may be old, and shows two rows at least.   *)
Payloads == UNION {Injection(1 .. n, 1 .. nextLink - 1) : n \in 2 .. MaxShown}

Place(ids, i) == CHOOSE n \in DOMAIN ids : ids[n] = i

Renumber(ids, matched) ==
    LET moved == matched \cap Range(ids) IN
    /\ link' = [i \in LinkIds |->
          IF i \in moved THEN [link[i] EXCEPT !.order = Place(ids, i) - 1]
                         ELSE link[i]]
    /\ arranged' = Without(moved) \cup
          {p \in moved \X moved : Place(ids, p[1]) < Place(ids, p[2])}
    /\ UNCHANGED <<nextLink, saving, adrift>>

ReorderLinks(ids) == Renumber(ids, AllLinks)

(* Rows that are not in the group are skipped.                              *)
ReorderLinksInGroup(g, ids) ==
    Renumber(ids, {i \in AllLinks : link[i].parent = g})

LinkReorder == \E ids \in Payloads : ReorderLinks(ids)

LinkMemberReorder(g) ==
    IsGroup(g) /\ \E ids \in Payloads : ReorderLinksInGroup(g, ids)

LinksNext ==
    \/ \E c \in Clients :
          \/ LinkCreate(c) \/ SelectMax(c) \/ CreateLink(c)
          \/ LinkUpdate(c) \/ CheckGroup(c) \/ UpdateLink(c)
    \/ \E i \in LinkIds : DeleteLink(i) \/ LinkMemberReorder(i)
    \/ LinkReorder

LinksSpec == LinksInit /\ [][LinksNext]_linksVars

-----------------------------------------------------------------------------
(* What is shown.                                                           *)

(* The list of the admin, and the form of a group under it.                 *)
MainList == {i \in AllLinks : IsGroup(i) \/ link[i].parent = 0}
Members(g) == {i \in AllLinks : link[i].parent = g}

(* The sidebar: links outside of groups, and those of groups in the list.   *)
Children(g) == {i \in VisibleLinks : ~IsGroup(i) /\ link[i].parent = g}
SidebarLinks ==
    {i \in VisibleLinks : ~IsGroup(i) /\ link[i].parent = 0}
    \cup UNION {Children(g) : g \in {h \in VisibleLinks : IsGroup(h)}}

-----------------------------------------------------------------------------
(* Every variable stays in its domain.                                      *)
LinksTypeOk ==
    /\ link \in [LinkIds -> LinkRow] /\ nextLink \in 1 .. MaxLinks + 1
    /\ saving \in [Clients -> LinkSave]
    /\ adrift \subseteq LinkIds /\ arranged \subseteq LinkIds \X LinkIds

(* A link can be reached in the admin screens, and is in the sidebar unless *)
(* it is hidden, whatever saves and deletions came before; only a save      *)
(* whose group was deleted after it had looked it up may lose one           *)
(* (linkUpdate, DeleteLink, applyLinkBlock).                                *)
LinksReachable ==
    LET kept == AllLinks \ adrift IN
    /\ kept \subseteq MainList \cup UNION {Members(g) : g \in MainList}
    /\ {i \in kept : ~IsGroup(i) /\ ~link[i].hidden} \subseteq SidebarLinks
    /\ SidebarLinks \subseteq VisibleLinks

(* Links stay in the order they were put in, however they are edited, moved *)
(* between groups and joined by new ones, but for a save that overlapped    *)
(* the reordering (ReorderLinks, UpdateLink).                               *)
OrderKept == \A p \in arranged : link[p[1]].order < link[p[2]].order

(* The blogroll people see is the one that was put together.                *)
LinksHold == LinksReachable /\ OrderKept
=============================================================================
