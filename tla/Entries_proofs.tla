--------------------------- MODULE Entries_proofs ---------------------------
(***************************************************************************)
(* Theorems about Entries for any number of requests, entries, tags and    *)
(* saves.                                                                  *)
(***************************************************************************)
EXTENDS Entries, TLAPS

(***************************************************************************)
(* What a save may become.                                                 *)
(***************************************************************************)
LEMMA BegunTyped ==
    ASSUME EntriesTypeOk, NEW e \in EntryIds, NEW src \in {"form", "mcp"},
           NEW to \in Statuses, NEW tagged \in BOOLEAN, NEW names \in SUBSET Names
    PROVE  Begun(e, src, to, tagged, names) \in Save
<1>1. Publishing(e, to) \in BOOLEAN
    BY DEF Publishing
<1>2. QED BY <1>1 DEF Begun, Save, Steps, Grant

LEMMA SaveFacts ==
    ASSUME EntriesTypeOk, NEW c \in Clients, save[c] # None
    PROVE  save[c] \in Save
BY DEF EntriesTypeOk

LEMMA AfterTyped ==
    ASSUME NEW s \in Save
    PROVE  AfterRow(s) \in {None} \cup Save /\ AfterTags(s) \in {None} \cup Save
<1>1. [s EXCEPT !.pc = "ensure", !.to = "draft"] \in Save
    BY DEF Save, Steps, Statuses
<1>2. [s EXCEPT !.pc = "card", !.todo = {}, !.missing = {}, !.out = {}] \in Save
    BY DEF Save, Steps
<1>3. QED BY <1>1, <1>2 DEF AfterRow, AfterTags

LEMMA EntryReplaced ==
    ASSUME EntriesTypeOk, NEW c \in Clients, NEW q \in {None} \cup Save,
           save' = [save EXCEPT ![c] = q]
    PROVE  /\ save' \in [Clients -> {None} \cup Save]
           /\ save'[c] = q
           /\ \A d \in Clients \ {c} : save'[d] = save[d]
BY DEF EntriesTypeOk

(* A request that is somewhere is no idle one.                              *)
LEMMA Busy ==
    ASSUME NEW c \in Clients, save[c].pc # "idle"
    PROVE  save[c] # None
BY DEF None

(***************************************************************************)
(* The step of a request, action by action: one save changes, into what.   *)
(***************************************************************************)
Becomes(c, q) == c \in Clients /\ q \in {None} \cup Save
                 /\ save' = [save EXCEPT ![c] = q]

LEMMA CreateSave ==
    ASSUME EntriesTypeOk, NEW c \in Clients, NEW src \in {"form", "mcp"},
           NEW to \in Statuses, NEW tagged \in BOOLEAN,
           NEW names \in SUBSET Names, Create(c, src, to, tagged, names)
    PROVE  /\ nextEntry \in EntryIds
           /\ Begun(nextEntry, src, to, tagged, names) \in Save
           /\ Becomes(c, AfterRow(Begun(nextEntry, src, to, tagged, names)))
<1>1. nextEntry \in EntryIds
    BY EntriesAssumption DEF Create, EntriesTypeOk, EntryIds
<1>2. Begun(nextEntry, src, to, tagged, names) \in Save
    BY <1>1, BegunTyped
<1>3. QED BY <1>1, <1>2, AfterTyped DEF Create, Becomes

LEMMA LoadSave ==
    ASSUME EntriesTypeOk, NEW c \in Clients, NEW e \in EntryIds,
           NEW src \in {"form", "mcp"}, NEW to \in Statuses,
           NEW tagged \in BOOLEAN, NEW names \in SUBSET Names,
           Load(c, e, src, to, tagged, names)
    PROVE  Becomes(c, Begun(e, src, to, tagged, names))
BY BegunTyped DEF Load, Becomes

LEMMA UpdateSave ==
    ASSUME EntriesTypeOk, NEW c \in Clients, Update(c)
    PROVE  /\ save[c] \in Save
           /\ IF save[c].up /\ Live(save[c].id)
              THEN Becomes(c, AfterRow(save[c])) ELSE Becomes(c, None)
<1>1. save[c] \in Save
    BY Busy, SaveFacts DEF Update
<1>2. QED BY <1>1, AfterTyped DEF Update, Becomes

LEMMA EnsureSave ==
    ASSUME EntriesTypeOk, NEW c \in Clients, Ensure(c)
    PROVE  /\ save[c] \in Save
           /\ \E n \in save[c].todo :
                \/ Becomes(c, [save[c] EXCEPT !.pc = "create", !.missing = {n}])
                \/ Becomes(c, [save[c] EXCEPT
                        !.todo = @ \ {n},
                        !.out = @ \cup {[id |-> t.id, name |-> n] :
                                        t \in {t \in tags : t.name = n}}])
<1>1. save[c] \in Save
    BY Busy, SaveFacts DEF Ensure
<1>2. PICK n \in save[c].todo :
        save' = [save EXCEPT ![c] =
            IF {t \in tags : t.name = n} = {}
            THEN [save[c] EXCEPT !.pc = "create", !.missing = {n}]
            ELSE [save[c] EXCEPT !.todo = @ \ {n},
                    !.out = @ \cup {[id |-> t.id, name |-> n] :
                                    t \in {t \in tags : t.name = n}}]]
    BY DEF Ensure
<1>3. n \in Names
    BY <1>1 DEF Save
<1>4. [save[c] EXCEPT !.pc = "create", !.missing = {n}] \in Save
    BY <1>1, <1>3 DEF Save, Steps
<1>5. {[id |-> t.id, name |-> n] : t \in {t \in tags : t.name = n}} \subseteq Grant
    BY <1>3 DEF EntriesTypeOk, TagRow, Grant
<1>6. [save[c] EXCEPT !.todo = @ \ {n},
          !.out = @ \cup {[id |-> t.id, name |-> n] :
                          t \in {t \in tags : t.name = n}}] \in Save
    BY <1>1, <1>5 DEF Save
<1>7. QED BY <1>1, <1>2, <1>4, <1>6 DEF Becomes

LEMMA CreateTagSave ==
    ASSUME EntriesTypeOk, NEW c \in Clients, CreateTag(c)
    PROVE  /\ save[c] \in Save
           /\ \E n \in save[c].missing :
                /\ n \in Names
                /\ \/ /\ Free(n, SlugOf[n], 0) /\ nextTag \in TagIds
                      /\ tags' = tags \cup
                           {[id |-> nextTag, name |-> n, slug |-> SlugOf[n]]}
                      /\ nextTag' = nextTag + 1
                      /\ Becomes(c, [save[c] EXCEPT
                            !.pc = "ensure", !.todo = @ \ {n}, !.missing = {},
                            !.out = @ \cup {[id |-> nextTag, name |-> n]}])
                   \/ /\ Becomes(c, AfterTags(save[c]))
                      /\ UNCHANGED <<tags, nextTag>>
<1>1. save[c] \in Save
    BY Busy, SaveFacts DEF CreateTag
<1>2. PICK n \in save[c].missing :
        IF Free(n, SlugOf[n], 0) /\ nextTag <= MaxTags
        THEN /\ tags' = tags \cup
                  {[id |-> nextTag, name |-> n, slug |-> SlugOf[n]]}
             /\ nextTag' = nextTag + 1
             /\ save' = [save EXCEPT ![c] =
                   [save[c] EXCEPT
                        !.pc = "ensure", !.todo = @ \ {n}, !.missing = {},
                        !.out = @ \cup {[id |-> nextTag, name |-> n]}]]
        ELSE /\ save' = [save EXCEPT ![c] = AfterTags(save[c])]
             /\ UNCHANGED <<tags, nextTag>>
    BY DEF CreateTag, NewTagId
<1>3. n \in Names
    BY <1>1 DEF Save
<1>4. CASE Free(n, SlugOf[n], 0) /\ nextTag <= MaxTags
    <2>1. nextTag \in TagIds
        BY <1>4, EntriesAssumption DEF EntriesTypeOk, TagIds
    <2>2. [id |-> nextTag, name |-> n] \in Grant
        BY <1>3, <2>1 DEF Grant
    <2>3. [save[c] EXCEPT !.pc = "ensure", !.todo = @ \ {n}, !.missing = {},
               !.out = @ \cup {[id |-> nextTag, name |-> n]}] \in Save
        BY <1>1, <2>2 DEF Save, Steps
    <2>4. QED BY <1>1, <1>2, <1>3, <1>4, <2>1, <2>3 DEF Becomes
<1>5. CASE ~(Free(n, SlugOf[n], 0) /\ nextTag <= MaxTags)
    BY <1>1, <1>2, <1>3, <1>5, AfterTyped DEF Becomes
<1>6. QED BY <1>4, <1>5

LEMMA OtherSaves ==
    ASSUME EntriesTypeOk, NEW c \in Clients
    PROVE  /\ TagsFail(c) \/ SetTags(c) =>
                 save[c] \in Save /\ Becomes(c, AfterTags(save[c]))
           /\ Card(c) => /\ save[c] \in Save
                         /\ Becomes(c, [save[c] EXCEPT !.pc = "dispatch"])
           /\ HangUp(c) => /\ save[c] \in Save
                           /\ Becomes(c, [save[c] EXCEPT !.up = FALSE])
           /\ Dispatch(c) \/ RemoveCard(c) \/ Draw(c) =>
                 save[c] \in Save /\ Becomes(c, None)
           /\ \A e \in EntryIds :
                 /\ DeleteEntry(c, e) => Becomes(c,
                      [Begun(e, "form", "draft", FALSE, {}) EXCEPT !.pc = "remove"])
                 /\ Regenerate(c, e) => Becomes(c,
                      [Begun(e, "form", "draft", FALSE, {}) EXCEPT !.pc = "draw"])
<1>1. ASSUME TagsFail(c) \/ SetTags(c)
      PROVE  save[c] \in Save /\ Becomes(c, AfterTags(save[c]))
    <2>1. save[c] \in Save
        BY <1>1, Busy, SaveFacts DEF TagsFail, SetTags
    <2>2. save' = [save EXCEPT ![c] = AfterTags(save[c])]
        BY <1>1 DEF TagsFail, SetTags
    <2>3. QED BY <2>1, <2>2, AfterTyped DEF Becomes
<1>2. ASSUME Card(c)
      PROVE  save[c] \in Save /\ Becomes(c, [save[c] EXCEPT !.pc = "dispatch"])
    <2>1. save[c] \in Save
        BY <1>2, Busy, SaveFacts DEF Card
    <2>2. [save[c] EXCEPT !.pc = "dispatch"] \in Save
        BY <2>1 DEF Save, Steps
    <2>3. QED BY <1>2, <2>1, <2>2 DEF Card, Becomes, EntriesTypeOk
<1>3. ASSUME HangUp(c)
      PROVE  save[c] \in Save /\ Becomes(c, [save[c] EXCEPT !.up = FALSE])
    <2>1. save[c] \in Save
        BY <1>3, SaveFacts DEF HangUp
    <2>2. [save[c] EXCEPT !.up = FALSE] \in Save
        BY <2>1 DEF Save
    <2>3. QED BY <1>3, <2>1, <2>2 DEF HangUp, Becomes, EntriesTypeOk
<1>4. ASSUME Dispatch(c) \/ RemoveCard(c) \/ Draw(c)
      PROVE  save[c] \in Save /\ Becomes(c, None)
    <2>1. save[c] \in Save
        BY <1>4, Busy, SaveFacts DEF Dispatch, RemoveCard, Draw
    <2>2. QED BY <1>4, <2>1 DEF Dispatch, RemoveCard, Draw, Becomes
<1>5. ASSUME NEW e \in EntryIds
      PROVE  /\ DeleteEntry(c, e) => Becomes(c,
                  [Begun(e, "form", "draft", FALSE, {}) EXCEPT !.pc = "remove"])
             /\ Regenerate(c, e) => Becomes(c,
                  [Begun(e, "form", "draft", FALSE, {}) EXCEPT !.pc = "draw"])
    <2>1. Begun(e, "form", "draft", FALSE, {}) \in Save
        BY BegunTyped DEF Statuses
    <2>2. /\ [Begun(e, "form", "draft", FALSE, {}) EXCEPT !.pc = "remove"] \in Save
          /\ [Begun(e, "form", "draft", FALSE, {}) EXCEPT !.pc = "draw"] \in Save
        BY <2>1 DEF Save, Steps
    <2>3. QED BY <2>2 DEF DeleteEntry, Regenerate, Becomes
<1>6. QED BY <1>1, <1>2, <1>3, <1>4, <1>5

LEMMA BecomesTyped ==
    ASSUME EntriesTypeOk, NEW c \in Clients, NEW q, Becomes(c, q)
    PROVE  /\ save' \in [Clients -> {None} \cup Save]
           /\ save'[c] = q
           /\ \A d \in Clients \ {c} : save'[d] = save[d]
BY EntryReplaced DEF Becomes

-----------------------------------------------------------------------------
LEMMA EntriesTypeInit == EntriesInit => EntriesTypeOk
<1> SUFFICES ASSUME EntriesInit PROVE EntriesTypeOk
    OBVIOUS
<1> USE EntriesAssumption DEF EntriesInit
<1>1. /\ nextEntry \in 1 .. MaxEntries + 1
      /\ nextTag \in 1 .. MaxTags + 1
      /\ saves \in 0 .. MaxSaves
    OBVIOUS
<1>2. save \in [Clients -> {None} \cup Save]
    OBVIOUS
<1>3. /\ tags \subseteq TagRow /\ entryTags \subseteq EntryIds \X TagIds
      /\ given \in [EntryIds -> SUBSET Grant]
      /\ status \in [EntryIds -> Statuses \cup {"none"}]
    OBVIOUS
<1>4. QED BY <1>1, <1>2, <1>3 DEF EntriesTypeOk

LEMMA EntriesTypeStep == EntriesTypeOk /\ [EntriesNext]_entriesVars => EntriesTypeOk'
<1> SUFFICES ASSUME EntriesTypeOk, [EntriesNext]_entriesVars PROVE EntriesTypeOk'
    OBVIOUS
<1> USE EntriesAssumption
<1>0. ASSUME NEW c \in Clients, Begin(c) PROVE saves' \in 0 .. MaxSaves
    BY <1>0 DEF Begin, EntriesTypeOk
<1>1. ASSUME NEW c \in Clients, NEW src \in {"form", "mcp"}, NEW to \in Statuses,
             NEW tagged \in BOOLEAN, NEW names \in SUBSET Names,
             Create(c, src, to, tagged, names)
      PROVE  EntriesTypeOk'
    <2>1. save' \in [Clients -> {None} \cup Save] /\ nextEntry \in EntryIds
        BY <1>1, CreateSave, BecomesTyped
    <2>2. owing' \subseteq Clients /\ outrun' \subseteq Clients /\ silent' \subseteq Clients
        BY <1>1 DEF Create, Afresh, Publication, EntriesTypeOk
    <2>3. nextEntry' \in 1 .. MaxEntries + 1 /\ saves' \in 0 .. MaxSaves
        BY <1>0, <1>1, <2>1 DEF Create, EntriesTypeOk, EntryIds
    <2>4. status' \in [EntryIds -> Statuses \cup {"none"}]
        BY <1>1 DEF Create, EntriesTypeOk
    <2>5. QED BY <1>1, <2>1, <2>2, <2>3, <2>4 DEF Create, EntriesTypeOk
<1>2. ASSUME NEW c \in Clients, NEW e \in EntryIds, NEW src \in {"form", "mcp"},
             NEW to \in Statuses, NEW tagged \in BOOLEAN, NEW names \in SUBSET Names,
             Load(c, e, src, to, tagged, names)
      PROVE  EntriesTypeOk'
    <2>1. save' \in [Clients -> {None} \cup Save]
        BY <1>2, LoadSave, BecomesTyped
    <2>2. saves' \in 0 .. MaxSaves
        BY <1>0, <1>2 DEF Load
    <2>3. QED BY <1>2, <2>1, <2>2 DEF Load, Afresh, EntriesTypeOk, tables
<1>3. ASSUME NEW c \in Clients, Update(c) PROVE EntriesTypeOk'
    <2>1. save' \in [Clients -> {None} \cup Save] /\ save[c] \in Save
        BY <1>3, UpdateSave, BecomesTyped
    <2>2. owing' \subseteq Clients /\ outrun' \subseteq Clients
        BY <1>3 DEF Update, EntriesTypeOk, Publication, Outruns
    <2>3. status' \in [EntryIds -> Statuses \cup {"none"}]
        BY <1>3, <2>1 DEF Update, EntriesTypeOk, Save
    <2>4. QED BY <1>3, <2>1, <2>2, <2>3 DEF Update, EntriesTypeOk
<1>4. ASSUME NEW c \in Clients, Ensure(c) PROVE EntriesTypeOk'
    <2>1. save' \in [Clients -> {None} \cup Save]
        BY <1>4, EnsureSave, BecomesTyped
    <2>2. QED BY <1>4, <2>1 DEF Ensure, EntriesTypeOk, tables, history, publicity
<1>5. ASSUME NEW c \in Clients, CreateTag(c) PROVE EntriesTypeOk'
    <2>1. PICK n \in save[c].missing :
            /\ n \in Names
            /\ \/ /\ nextTag \in TagIds
                  /\ tags' = tags \cup
                       {[id |-> nextTag, name |-> n, slug |-> SlugOf[n]]}
                  /\ nextTag' = nextTag + 1
               \/ UNCHANGED <<tags, nextTag>>
        BY <1>5, CreateTagSave
    <2>2. tags' \subseteq TagRow
        BY <2>1 DEF EntriesTypeOk, TagRow
    <2>3. nextTag' \in 1 .. MaxTags + 1
        BY <2>1 DEF EntriesTypeOk, TagIds
    <2>4. save' \in [Clients -> {None} \cup Save]
        BY <1>5, CreateTagSave, BecomesTyped
    <2>5. QED BY <1>5, <2>2, <2>3, <2>4 DEF CreateTag, EntriesTypeOk, history, publicity
<1>6. ASSUME NEW c \in Clients, TagsFail(c) PROVE EntriesTypeOk'
    <2>1. save' \in [Clients -> {None} \cup Save]
        BY <1>6, OtherSaves, BecomesTyped
    <2>2. QED BY <1>6, <2>1 DEF TagsFail, EntriesTypeOk, tables, history, publicity
<1>7. ASSUME NEW c \in Clients, SetTags(c) PROVE EntriesTypeOk'
    <2>1. save' \in [Clients -> {None} \cup Save] /\ save[c] \in Save
        BY <1>7, OtherSaves, BecomesTyped
    <2>2. given' \in [EntryIds -> SUBSET Grant]
        BY <1>7, <2>1 DEF SetTags, EntriesTypeOk, Save
    <2>3. entryTags' \subseteq EntryIds \X TagIds
        BY <1>7, <2>1 DEF SetTags, OtherTags, EntriesTypeOk, Save, Grant
    <2>4. QED BY <1>7, <2>1, <2>2, <2>3 DEF SetTags, EntriesTypeOk, publicity
<1>8. ASSUME NEW c \in Clients, Card(c) PROVE EntriesTypeOk'
    <2>1. save' \in [Clients -> {None} \cup Save] /\ save[c] \in Save
        BY <1>8, OtherSaves, BecomesTyped
    <2>2. cards' \subseteq EntryIds
        BY <1>8, <2>1 DEF Card, EntriesTypeOk, Save
    <2>3. QED BY <1>8, <2>1, <2>2 DEF Card, EntriesTypeOk, tables, history, publicity
<1>9. ASSUME NEW c \in Clients, Dispatch(c) PROVE EntriesTypeOk'
    <2>1. save' \in [Clients -> {None} \cup Save] /\ save[c] \in Save
        BY <1>9, OtherSaves, BecomesTyped
    <2>2. owing' \subseteq Clients
        BY <1>9 DEF Dispatch, EntriesTypeOk
    <2>3. QED BY <1>9, <2>1, <2>2 DEF Dispatch, EntriesTypeOk, tables
<1>10. ASSUME NEW c \in Clients, HangUp(c) PROVE EntriesTypeOk'
    <2>1. save' \in [Clients -> {None} \cup Save] /\ save[c] \in Save
        BY <1>10, OtherSaves, BecomesTyped
    <2>2. silent' \subseteq Clients
        BY <1>10 DEF HangUp, EntriesTypeOk
    <2>3. QED BY <1>10, <2>1, <2>2 DEF HangUp, EntriesTypeOk, tables
<1>11. ASSUME NEW c \in Clients, RemoveCard(c) \/ Draw(c) PROVE EntriesTypeOk'
    <2>1. save' \in [Clients -> {None} \cup Save] /\ save[c] \in Save
        BY <1>11, OtherSaves, BecomesTyped
    <2>2. cards' \subseteq EntryIds
        BY <1>11, <2>1 DEF RemoveCard, Draw, EntriesTypeOk, Save
    <2>3. QED
        BY <1>11, <2>1, <2>2 DEF RemoveCard, Draw, EntriesTypeOk, tables, history, publicity
<1>12. ASSUME NEW c \in Clients, NEW e \in EntryIds, DeleteEntry(c, e)
       PROVE  EntriesTypeOk'
    <2>1. save' \in [Clients -> {None} \cup Save]
        BY <1>12, OtherSaves, BecomesTyped
    <2>2. saves' \in 0 .. MaxSaves
        BY <1>0, <1>12 DEF DeleteEntry
    <2>3. /\ status' \in [EntryIds -> Statuses \cup {"none"}]
          /\ given' \in [EntryIds -> SUBSET Grant]
          /\ crossed' \subseteq EntryIds
        BY <1>12 DEF DeleteEntry, EntriesTypeOk
    <2>4. QED BY <1>12, <2>1, <2>2, <2>3 DEF DeleteEntry, EntriesTypeOk, publicity
<1>13. ASSUME NEW c \in Clients, NEW e \in EntryIds, Regenerate(c, e)
       PROVE  EntriesTypeOk'
    <2>1. save' \in [Clients -> {None} \cup Save]
        BY <1>13, OtherSaves, BecomesTyped
    <2>2. saves' \in 0 .. MaxSaves
        BY <1>0, <1>13 DEF Regenerate
    <2>3. QED BY <1>13, <2>1, <2>2 DEF Regenerate, EntriesTypeOk, tables, history, publicity
<1>14. ASSUME NEW t \in tags, NEW name \in Names, NEW like \in Names,
              UpdateTag(t, name, SlugOf[like])
       PROVE  EntriesTypeOk'
    <2>1. tags' \subseteq TagRow
        BY <1>14 DEF UpdateTag, EntriesTypeOk, TagRow
    <2>2. renamed' \subseteq TagIds
        BY <1>14 DEF UpdateTag, EntriesTypeOk, TagRow
    <2>3. QED BY <1>14, <2>1, <2>2 DEF UpdateTag, EntriesTypeOk, publicity
<1>15. ASSUME NEW t \in tags, DeleteTag(t) PROVE EntriesTypeOk'
    <2>1. given' \in [EntryIds -> SUBSET Grant]
        BY <1>15 DEF DeleteTag, EntriesTypeOk
    <2>2. QED BY <1>15, <2>1 DEF DeleteTag, EntriesTypeOk, publicity
<1>16. CASE UNCHANGED entriesVars
    BY <1>16 DEF entriesVars, EntriesTypeOk
<1>17. QED
    BY <1>1, <1>2, <1>3, <1>4, <1>5, <1>6, <1>7, <1>8, <1>9, <1>10, <1>11, <1>12,
       <1>13, <1>14, <1>15, <1>16 DEF EntriesNext, SaveWith

LEMMA AfterFacts ==
    ASSUME NEW s \in Save
    PROVE  /\ \/ AfterRow(s) = None /\ ~s.tagged
              \/ /\ AfterRow(s) # None /\ s.tagged
                 /\ AfterRow(s).pc = "ensure"
                 /\ AfterRow(s).id = s.id
                 /\ AfterRow(s).src = s.src
                 /\ AfterRow(s).publishes = s.publishes
                 /\ AfterRow(s).up = s.up
                 /\ AfterRow(s).out = s.out
           /\ \/ AfterTags(s) = None /\ s.src = "mcp"
              \/ /\ AfterTags(s) # None /\ s.src = "form"
                 /\ AfterTags(s).pc = "card"
                 /\ AfterTags(s).id = s.id
                 /\ AfterTags(s).src = s.src
                 /\ AfterTags(s).publishes = s.publishes
                 /\ AfterTags(s).up = s.up
                 /\ AfterTags(s).out = {}
BY DEF AfterRow, AfterTags, None, Save

(* A tag looked up or made leaves a save what it is.                        *)
SameSave(q, s) == /\ q # None /\ q.id = s.id /\ q.src = s.src
                  /\ q.publishes = s.publishes /\ q.up = s.up

LEMMA EnsureMoves ==
    ASSUME EntriesTypeOk, NEW c \in Clients, Ensure(c)
    PROVE  \E q : /\ Becomes(c, q) /\ SameSave(q, save[c])
                  /\ q.pc \in {"ensure", "create"}
<1>1. PICK n \in save[c].todo :
        \/ Becomes(c, [save[c] EXCEPT !.pc = "create", !.missing = {n}])
        \/ Becomes(c, [save[c] EXCEPT
                !.todo = @ \ {n},
                !.out = @ \cup {[id |-> t.id, name |-> n] :
                                t \in {t \in tags : t.name = n}}])
    BY EnsureSave
<1>2. save[c] \in Save /\ save[c].pc = "ensure"
    BY EnsureSave DEF Ensure
<1>3. CASE Becomes(c, [save[c] EXCEPT !.pc = "create", !.missing = {n}])
    <2> DEFINE q == [save[c] EXCEPT !.pc = "create", !.missing = {n}]
    <2>1. SameSave(q, save[c]) /\ q.pc = "create"
        BY <1>2 DEF Save, SameSave, None
    <2>2. QED BY <1>3, <2>1
<1>4. CASE Becomes(c, [save[c] EXCEPT
                !.todo = @ \ {n},
                !.out = @ \cup {[id |-> t.id, name |-> n] :
                                t \in {t \in tags : t.name = n}}])
    <2> DEFINE more == {[id |-> t.id, name |-> n] : t \in {t \in tags : t.name = n}}
               q == [save[c] EXCEPT !.todo = @ \ {n}, !.out = @ \cup more]
    <2> HIDE DEF more
    <2>1. SameSave(q, save[c]) /\ q.pc = "ensure"
        BY <1>2 DEF Save, SameSave, None
    <2>2. QED BY <1>4, <2>1 DEF more
<1>5. QED BY <1>1, <1>3, <1>4

LEMMA CreateTagMoves ==
    ASSUME EntriesTypeOk, NEW c \in Clients, CreateTag(c)
    PROVE  \/ Becomes(c, AfterTags(save[c]))
           \/ \E q : Becomes(c, q) /\ SameSave(q, save[c]) /\ q.pc = "ensure"
<1>1. PICK n \in save[c].missing :
        \/ Becomes(c, AfterTags(save[c]))
        \/ Becomes(c, [save[c] EXCEPT
              !.pc = "ensure", !.todo = @ \ {n}, !.missing = {},
              !.out = @ \cup {[id |-> nextTag, name |-> n]}])
    BY CreateTagSave
<1>2. save[c] \in Save
    BY CreateTagSave
<1>3. ASSUME Becomes(c, [save[c] EXCEPT
              !.pc = "ensure", !.todo = @ \ {n}, !.missing = {},
              !.out = @ \cup {[id |-> nextTag, name |-> n]}])
      PROVE  \E q : Becomes(c, q) /\ SameSave(q, save[c]) /\ q.pc = "ensure"
    <2> DEFINE q == [save[c] EXCEPT
              !.pc = "ensure", !.todo = @ \ {n}, !.missing = {},
              !.out = @ \cup {[id |-> nextTag, name |-> n]}]
    <2>1. SameSave(q, save[c]) /\ q.pc = "ensure"
        BY <1>2 DEF Save, SameSave, None
    <2>2. QED BY <1>3, <2>1
<1>4. QED BY <1>1, <1>3

-----------------------------------------------------------------------------
(***************************************************************************)
(* The preview cards.  A request other than a deletion is at an entry that *)
(* is there, or was deleted under its hands.                               *)
(***************************************************************************)
AtWork(c) == save[c] # None /\ save[c].pc # "remove"
CardInv ==
    /\ StrayCardsAreRaces
    /\ \A c \in Clients : AtWork(c) => Live(save[c].id) \/ save[c].id \in crossed

(* A step that deletes no entry, of a request at work or one that begins,   *)
(* or the end of a deletion.                                                *)
LEMMA CalmStep ==
    ASSUME EntriesTypeOk, CardInv, NEW c \in Clients, NEW q, Becomes(c, q),
           \A e \in EntryIds : Live(e) => status'[e] # "none",
           crossed' = crossed,
           \A e \in cards' : e \in cards \/ (AtWork(c) /\ e = save[c].id),
           save[c] # None /\ save[c].pc = "remove" =>
               \/ q # None /\ q.pc = "remove" /\ q.id = save[c].id
               \/ save[c].id \notin cards',
           q # None /\ q.pc # "remove" =>
               \/ status'[q.id] # "none"
               \/ AtWork(c) /\ q.id = save[c].id
    PROVE  CardInv'
<1>1. /\ save' \in [Clients -> {None} \cup Save] /\ save'[c] = q
      /\ \A d \in Clients \ {c} : save'[d] = save[d]
    BY BecomesTyped
<1>2. ASSUME NEW d \in Clients, save'[d] # None, save'[d].pc # "remove"
      PROVE  status'[save'[d].id] # "none" \/ save'[d].id \in crossed'
    <2>1. CASE d = c
        BY <1>1, <1>2, <2>1 DEF CardInv, AtWork, Live, EntriesTypeOk, Save
    <2>2. CASE d # c
        BY <1>1, <1>2, <2>2 DEF CardInv, AtWork, Live, EntriesTypeOk, Save
    <2>3. QED BY <2>1, <2>2
<1>3. ASSUME NEW e \in cards'
      PROVE  \/ status'[e] # "none" \/ e \in crossed'
             \/ \E d \in Clients : save'[d].pc = "remove" /\ save'[d].id = e
    <2>1. CASE AtWork(c) /\ e = save[c].id
        BY <2>1 DEF CardInv, AtWork, Live, EntriesTypeOk, Save
    <2>2. CASE e \in cards
        <3>1. CASE Live(e) \/ e \in crossed
            BY <2>2, <3>1 DEF EntriesTypeOk
        <3>2. ASSUME NEW d \in Clients, save[d].pc = "remove", save[d].id = e
              PROVE  \E b \in Clients : save'[b].pc = "remove" /\ save'[b].id = e
            <4>1. save[d] # None
                BY <3>2, Busy
            <4>2. CASE d = c
                BY <1>1, <1>3, <3>2, <4>1, <4>2
            <4>3. CASE d # c
                BY <1>1, <3>2, <4>3
            <4>4. QED BY <4>2, <4>3
        <3>3. QED BY <2>2, <3>1, <3>2 DEF CardInv, StrayCardsAreRaces
    <2>3. QED BY <2>1, <2>2
<1>4. QED BY <1>2, <1>3 DEF CardInv, StrayCardsAreRaces, AtWork, Live

LEMMA CardStep == EntriesTypeOk /\ CardInv /\ [EntriesNext]_entriesVars => CardInv'
<1> SUFFICES ASSUME EntriesTypeOk, CardInv, [EntriesNext]_entriesVars PROVE CardInv'
    OBVIOUS
<1>1. ASSUME NEW c \in Clients, NEW src \in {"form", "mcp"}, NEW to \in Statuses,
             NEW tagged \in BOOLEAN, NEW names \in SUBSET Names,
             Create(c, src, to, tagged, names)
      PROVE  CardInv'
    <2> DEFINE s == Begun(nextEntry, src, to, tagged, names)
    <2>1. s \in Save /\ Becomes(c, AfterRow(s)) /\ nextEntry \in EntryIds
        BY <1>1, CreateSave
    <2>2. s.id = nextEntry
        BY DEF Begun
    <2>3. \A e \in EntryIds : Live(e) => status'[e] # "none"
        BY <1>1 DEF Create, Live, EntriesTypeOk, Statuses
    <2>4. status'[nextEntry] # "none"
        BY <1>1, <2>1 DEF Create, EntriesTypeOk, Statuses
    <2>5. crossed' = crossed /\ cards' = cards /\ save[c] = None
        BY <1>1 DEF Create, Begin
    <2>6. AfterRow(s) = None \/ AfterRow(s).id = nextEntry
        BY <2>1, <2>2, AfterFacts
    <2> HIDE DEF s
    <2>7. QED BY <2>1, <2>3, <2>4, <2>5, <2>6, CalmStep
<1>2. ASSUME NEW c \in Clients, NEW e \in EntryIds, NEW src \in {"form", "mcp"},
             NEW to \in Statuses, NEW tagged \in BOOLEAN, NEW names \in SUBSET Names,
             Load(c, e, src, to, tagged, names)
      PROVE  CardInv'
    <2> DEFINE s == Begun(e, src, to, tagged, names)
    <2>1. Becomes(c, s)
        BY <1>2, LoadSave
    <2>2. s.id = e
        BY DEF Begun
    <2>3. /\ crossed' = crossed /\ cards' = cards /\ save[c] = None
          /\ status' = status /\ status[e] # "none"
        BY <1>2 DEF Load, Begin, Live, tables
    <2> HIDE DEF s
    <2>4. QED BY <2>1, <2>2, <2>3, CalmStep DEF Live
<1>3. ASSUME NEW c \in Clients, Update(c) PROVE CardInv'
    <2>1. save[c] \in Save /\ AtWork(c)
        BY <1>3, UpdateSave, Busy DEF Update, AtWork
    <2>2. crossed' = crossed /\ cards' = cards
        BY <1>3 DEF Update
    <2>3. \A e \in EntryIds : Live(e) => status'[e] # "none"
        BY <1>3, <2>1 DEF Update, Live, EntriesTypeOk, Save, Statuses
    <2>4. PICK q : Becomes(c, q) /\ (q = None \/ q.id = save[c].id)
        BY <1>3, <2>1, UpdateSave, AfterFacts
    <2>5. QED BY <2>1, <2>2, <2>3, <2>4, CalmStep DEF AtWork
<1>4. ASSUME NEW c \in Clients, Ensure(c) \/ CreateTag(c) \/ TagsFail(c) \/ SetTags(c)
      PROVE  CardInv'
    <2>1. save[c] \in Save /\ AtWork(c)
        BY <1>4, EnsureSave, CreateTagSave, OtherSaves, Busy
        DEF Ensure, CreateTag, TagsFail, SetTags, AtWork
    <2>2. crossed' = crossed /\ cards' = cards /\ status' = status
        BY <1>4 DEF Ensure, CreateTag, TagsFail, SetTags, tables, history
    <2>3. PICK q : Becomes(c, q) /\ (q = None \/ q.id = save[c].id)
        <3>1. CASE Ensure(c)
            BY <2>1, <3>1, EnsureMoves DEF SameSave
        <3>2. CASE CreateTag(c)
            BY <2>1, <3>2, CreateTagMoves, AfterFacts DEF SameSave
        <3>3. CASE TagsFail(c) \/ SetTags(c)
            BY <2>1, <3>3, OtherSaves, AfterFacts
        <3>4. QED BY <1>4, <3>1, <3>2, <3>3
    <2>4. QED BY <2>1, <2>2, <2>3, CalmStep DEF AtWork, Live
<1>5. ASSUME NEW c \in Clients, Card(c) \/ Dispatch(c) \/ HangUp(c) \/ Draw(c)
      PROVE  CardInv'
    <2>1. save[c] \in Save /\ AtWork(c)
        BY <1>5, OtherSaves, Busy DEF Card, Dispatch, HangUp, Draw, AtWork
    <2>2. /\ crossed' = crossed /\ status' = status
          /\ cards' \subseteq cards \cup {save[c].id}
        BY <1>5 DEF Card, Dispatch, HangUp, Draw, tables, history
    <2>3. PICK q : Becomes(c, q) /\ (q = None \/ q.id = save[c].id)
        <3>1. /\ [save[c] EXCEPT !.pc = "dispatch"].id = save[c].id
              /\ [save[c] EXCEPT !.up = FALSE].id = save[c].id
            BY <2>1 DEF Save
        <3>2. CASE Card(c)
            BY <3>1, <3>2, OtherSaves
        <3>3. CASE HangUp(c)
            BY <3>1, <3>3, OtherSaves
        <3>4. CASE Dispatch(c) \/ Draw(c)
            BY <3>4, OtherSaves
        <3>5. QED BY <1>5, <3>2, <3>3, <3>4
    <2>4. QED BY <2>1, <2>2, <2>3, CalmStep DEF AtWork, Live
<1>6. ASSUME NEW c \in Clients, RemoveCard(c) PROVE CardInv'
    <2>1. save[c].pc = "remove" /\ Becomes(c, None)
        BY <1>6, OtherSaves DEF RemoveCard
    <2>2. crossed' = crossed /\ status' = status /\ cards' = cards \ {save[c].id}
        BY <1>6 DEF RemoveCard, CardOf, tables, history
    <2>3. QED BY <2>1, <2>2, CalmStep DEF Live
<1>7. ASSUME NEW c \in Clients, NEW e \in EntryIds, Regenerate(c, e) PROVE CardInv'
    <2> DEFINE s == [Begun(e, "form", "draft", FALSE, {}) EXCEPT !.pc = "draw"]
    <2>1. Becomes(c, s)
        BY <1>7, OtherSaves
    <2>2. s.id = e
        BY DEF Begun
    <2>3. /\ crossed' = crossed /\ cards' = cards /\ save[c] = None
          /\ status' = status /\ status[e] # "none"
        BY <1>7 DEF Regenerate, Begin, Live, tables, history
    <2> HIDE DEF s
    <2>4. QED BY <2>1, <2>2, <2>3, CalmStep DEF Live
<1>8. ASSUME NEW c \in Clients, NEW e \in EntryIds, DeleteEntry(c, e) PROVE CardInv'
    <2> DEFINE s == [Begun(e, "form", "draft", FALSE, {}) EXCEPT !.pc = "remove"]
    <2>1. Becomes(c, s) /\ s.id = e /\ s.pc = "remove"
        BY <1>8, OtherSaves DEF Begun
    <2>2. /\ cards' = cards /\ save[c] = None /\ crossed \subseteq crossed'
          /\ \A d \in EntryIds \ {e} : status'[d] = status[d]
          /\ \A d \in Clients : save[d] # None /\ save[d].id = e => e \in crossed'
        BY <1>8 DEF DeleteEntry, Begin, EntriesTypeOk
    <2> HIDE DEF s
    <2>3. save'[c] = s /\ \A d \in Clients \ {c} : save'[d] = save[d]
        BY <2>1, BecomesTyped
    <2>4. ASSUME NEW d \in Clients, save'[d] # None, save'[d].pc # "remove"
          PROVE  status'[save'[d].id] # "none" \/ save'[d].id \in crossed'
        <3>1. d # c /\ save'[d] = save[d] /\ AtWork(d) /\ save[d].id \in EntryIds
            BY <2>1, <2>3, <2>4 DEF AtWork, EntriesTypeOk, Save
        <3>2. QED BY <2>2, <3>1 DEF CardInv, Live, AtWork
    <2>5. ASSUME NEW d \in cards'
          PROVE  \/ status'[d] # "none" \/ d \in crossed'
                 \/ \E b \in Clients : save'[b].pc = "remove" /\ save'[b].id = d
        <3>1. CASE d = e
            BY <2>1, <2>3, <3>1
        <3>2. CASE d # e
            <4>1. d \in EntryIds /\ d \in cards
                BY <2>2 DEF EntriesTypeOk
            <4>2. ASSUME NEW b \in Clients, save[b].pc = "remove"
                  PROVE  save'[b] = save[b]
                BY <2>2, <2>3, <4>2, Busy
            <4>3. QED BY <2>2, <3>2, <4>1, <4>2 DEF CardInv, StrayCardsAreRaces, Live
        <3>3. QED BY <3>1, <3>2
    <2>6. QED BY <2>4, <2>5 DEF CardInv, StrayCardsAreRaces, AtWork, Live
<1>9. ASSUME UNCHANGED <<status, cards, crossed, save>> PROVE CardInv'
    BY <1>9 DEF CardInv, StrayCardsAreRaces, AtWork, Live
<1>10. QED
    BY <1>1, <1>2, <1>3, <1>4, <1>5, <1>6, <1>7, <1>8, <1>9
    DEF EntriesNext, SaveWith, UpdateTag, DeleteTag, entriesVars

(***************************************************************************)
(* The announcements.  A request that has yet to write its row owes none;  *)
(* one that has read "published" finds the entry still published when it   *)
(* writes, or gone, unless it has been outrun.                             *)
(***************************************************************************)
Announces(s) ==
    /\ s.pc \in {"ensure", "create", "card", "dispatch"}
    /\ s.src = "form" /\ s.publishes /\ s.up
HasRead(s) == s.pc = "update" /\ s.to = "published" /\ ~s.publishes
Standing(e) == status[e] \in {"none", "published"}
IdsGiven == \A c \in Clients : save[c] # None => save[c].id < nextEntry
PubInv ==
    /\ FormPublicationsAnnounced
    /\ \A c \in Clients : save[c].pc = "update" =>
          /\ c \notin owing
          /\ save[c].src = "form" => save[c].tagged
          /\ save[c].src = "mcp" => c \in silent
    /\ \A c \in Clients : HasRead(save[c]) => Standing(save[c].id) \/ c \in outrun

(* A step of one request, that takes no published entry back from another   *)
(* without outrunning it.                                                   *)
LEMMA PubCalm ==
    ASSUME EntriesTypeOk, PubInv, owing' \subseteq Clients,
           NEW c \in Clients, NEW q, Becomes(c, q),
           \A d \in Clients \ {c} : /\ d \in owing' => d \in owing
                                    /\ d \in silent => d \in silent'
                                    /\ d \in outrun => d \in outrun',
           c \in owing' => Announces(q) \/ c \in silent' \/ c \in outrun',
           q.pc = "update" =>
               /\ c \notin owing'
               /\ q.src = "form" => q.tagged
               /\ q.src = "mcp" => c \in silent',
           HasRead(q) => status'[q.id] \in {"none", "published"} \/ c \in outrun',
           \A d \in Clients \ {c} : HasRead(save[d]) =>
               \/ status'[save[d].id] = status[save[d].id]
               \/ status'[save[d].id] \in {"none", "published"}
               \/ d \in outrun'
    PROVE  PubInv'
<1>1. /\ save'[c] = q
      /\ \A d \in Clients \ {c} : save'[d] = save[d]
    BY BecomesTyped
<1>2. ASSUME NEW d \in Clients, d \in owing'
      PROVE  Announces(save'[d]) \/ d \in silent' \/ d \in outrun'
    <2>1. CASE d = c
        BY <1>1, <1>2, <2>1
    <2>2. CASE d # c
        BY <1>1, <1>2, <2>2 DEF PubInv, FormPublicationsAnnounced, Announcing, Announces
    <2>3. QED BY <2>1, <2>2
<1>3. FormPublicationsAnnounced'
    BY <1>2 DEF FormPublicationsAnnounced, Announcing, Announces
<1>4. ASSUME NEW d \in Clients, save'[d].pc = "update"
      PROVE  /\ d \notin owing'
             /\ save'[d].src = "form" => save'[d].tagged
             /\ save'[d].src = "mcp" => d \in silent'
    <2>1. CASE d = c
        BY <1>1, <1>4, <2>1
    <2>2. CASE d # c
        BY <1>1, <1>4, <2>2 DEF PubInv
    <2>3. QED BY <2>1, <2>2
<1>5. ASSUME NEW d \in Clients, HasRead(save'[d])
      PROVE  status'[save'[d].id] \in {"none", "published"} \/ d \in outrun'
    <2>1. CASE d = c
        BY <1>1, <1>5, <2>1
    <2>2. CASE d # c
        BY <1>1, <1>5, <2>2 DEF PubInv, Standing
    <2>3. QED BY <2>1, <2>2
<1>6. QED BY <1>3, <1>4, <1>5 DEF PubInv, HasRead, Standing

LEMMA PubStep ==
    EntriesTypeOk /\ IdsGiven /\ PubInv /\ [EntriesNext]_entriesVars => PubInv'
<1> SUFFICES ASSUME EntriesTypeOk, IdsGiven, PubInv, [EntriesNext]_entriesVars
             PROVE  PubInv'
    OBVIOUS
<1>0. owing' \subseteq Clients
    BY EntriesTypeStep DEF EntriesTypeOk
<1>n. ~HasRead(None) /\ None.pc # "update" /\ ~Announces(None)
    BY DEF HasRead, None, Announces
<1>1. ASSUME NEW c \in Clients, NEW src \in {"form", "mcp"}, NEW to \in Statuses,
             NEW tagged \in BOOLEAN, NEW names \in SUBSET Names,
             src = "form" => tagged,
             Create(c, src, to, tagged, names)
      PROVE  PubInv'
    <2> DEFINE s == Begun(nextEntry, src, to, tagged, names)
               q == AfterRow(s)
    <2>1. s \in Save /\ Becomes(c, q) /\ nextEntry \in EntryIds
        BY <1>1, CreateSave
    <2>2. /\ s.id = nextEntry /\ s.src = src /\ s.up = TRUE /\ s.tagged = tagged
          /\ s.publishes = Publishing(nextEntry, to)
        BY DEF Begun
    <2>3. /\ owing' = (owing \ {c}) \cup Publication(c, nextEntry, to)
          /\ outrun' = outrun \ {c}
          /\ silent' = IF src = "mcp" THEN silent \cup {c} ELSE silent \ {c}
          /\ status' = [status EXCEPT ![nextEntry] = to]
        BY <1>1 DEF Create, Afresh
    <2>4. q.pc # "update" /\ ~HasRead(q)
        BY <2>1, AfterFacts DEF None, HasRead
    <2>5. c \in owing' => Announces(q) \/ c \in silent'
        <3> SUFFICES ASSUME c \in owing', src = "form" PROVE Announces(q)
            BY <2>3
        <3>1. s.publishes
            BY <2>2, <2>3 DEF Publication
        <3>2. QED BY <1>1, <2>1, <2>2, <3>1, AfterFacts DEF Announces
    <2>6. \A d \in Clients \ {c} : /\ d \in owing' => d \in owing
                                   /\ d \in silent => d \in silent'
                                   /\ d \in outrun => d \in outrun'
        BY <2>3 DEF Publication
    <2>7. ASSUME NEW d \in Clients \ {c}, HasRead(save[d])
          PROVE  status'[save[d].id] = status[save[d].id]
        <3>1. save[d] # None /\ save[d] \in Save
            BY <1>n, <2>7, SaveFacts
        <3>2. save[d].id \in EntryIds /\ save[d].id < nextEntry
            BY <3>1 DEF Save, IdsGiven
        <3>3. save[d].id # nextEntry
            BY <3>2, EntriesAssumption DEF EntryIds, EntriesTypeOk
        <3>4. QED BY <2>3, <3>2, <3>3 DEF EntriesTypeOk
    <2> HIDE DEF s, q
    <2>8. QED BY <1>0, <2>1, <2>4, <2>5, <2>6, <2>7, PubCalm
<1>2. ASSUME NEW c \in Clients, NEW e \in EntryIds, NEW src \in {"form", "mcp"},
             NEW to \in Statuses, NEW tagged \in BOOLEAN, NEW names \in SUBSET Names,
             src = "form" => tagged,
             Load(c, e, src, to, tagged, names)
      PROVE  PubInv'
    <2> DEFINE q == Begun(e, src, to, tagged, names)
    <2>1. Becomes(c, q)
        BY <1>2, LoadSave
    <2>2. /\ q.id = e /\ q.src = src /\ q.tagged = tagged /\ q.to = to
          /\ q.publishes = Publishing(e, to)
        BY DEF Begun
    <2>3. /\ owing' = owing \ {c} /\ outrun' = outrun \ {c} /\ status' = status
          /\ silent' = IF src = "mcp" THEN silent \cup {c} ELSE silent \ {c}
        BY <1>2 DEF Load, Afresh, tables
    <2>4. HasRead(q) => status'[q.id] \in {"none", "published"}
        BY <2>2, <2>3 DEF HasRead, Publishing
    <2>5. q.src = "mcp" => c \in silent'
        BY <2>2, <2>3
    <2>6. \A d \in Clients \ {c} : /\ d \in owing' => d \in owing
                                   /\ d \in silent => d \in silent'
                                   /\ d \in outrun => d \in outrun'
        BY <2>3
    <2> HIDE DEF q
    <2>7. QED BY <1>0, <1>2, <2>1, <2>2, <2>3, <2>4, <2>5, <2>6, PubCalm
<1>3. ASSUME NEW c \in Clients, Update(c) PROVE PubInv'
    <2> DEFINE s == save[c]
    <2>1. s \in Save /\ s.pc = "update" /\ silent' = silent
        BY <1>3, UpdateSave DEF Update
    <2>2. /\ c \notin owing
          /\ s.src = "form" => s.tagged
          /\ s.src = "mcp" => c \in silent
          /\ HasRead(s) => Standing(s.id) \/ c \in outrun
        BY <2>1 DEF PubInv
    <2>3. CASE s.up /\ Live(s.id)
        <3> DEFINE q == AfterRow(s)
        <3>1. Becomes(c, q)
            BY <1>3, <2>3, UpdateSave
        <3>2. /\ owing' = owing \cup Publication(c, s.id, s.to)
              /\ outrun' = outrun \cup Outruns(s.id, s.to)
              /\ status' = [status EXCEPT ![s.id] = s.to]
            BY <1>3, <2>3 DEF Update
        <3>3. q.pc # "update" /\ ~HasRead(q)
            BY <2>1, AfterFacts DEF None, HasRead
        <3>4. c \in owing' => Announces(q) \/ c \in silent' \/ c \in outrun'
            <4> SUFFICES ASSUME c \in owing', c \notin silent', c \notin outrun'
                         PROVE  Announces(q)
                OBVIOUS
            <4>1. s.to = "published" /\ status[s.id] # "published"
                BY <2>2, <3>2 DEF Publication, Publishing
            <4>2. s.src = "form" /\ s.tagged
                BY <2>1, <2>2 DEF Save
            <4>3. ~HasRead(s)
                BY <2>2, <2>3, <3>2, <4>1 DEF Standing, Live
            <4>4. s.publishes
                BY <2>1, <4>1, <4>3 DEF HasRead
            <4>5. QED BY <2>1, <2>3, <4>2, <4>4, AfterFacts DEF Announces
        <3>5. \A d \in Clients \ {c} : /\ d \in owing' => d \in owing
                                       /\ d \in silent => d \in silent'
                                       /\ d \in outrun => d \in outrun'
            BY <2>1, <3>2 DEF Publication
        <3>6. ASSUME NEW d \in Clients \ {c}, HasRead(save[d])
              PROVE  \/ status'[save[d].id] = status[save[d].id]
                     \/ status'[save[d].id] \in {"none", "published"}
                     \/ d \in outrun'
            <4>1. save[d] \in Save
                BY <1>n, <3>6, SaveFacts
            <4>2. save[d].id \in EntryIds /\ s.id \in EntryIds
                BY <2>1, <4>1 DEF Save
            <4>3. CASE save[d].id # s.id
                BY <3>2, <4>2, <4>3 DEF EntriesTypeOk
            <4>4. CASE save[d].id = s.id /\ s.to # "published" /\ status[s.id] = "published"
                BY <3>2, <3>6, <4>4 DEF Outruns, HasRead
            <4>5. CASE save[d].id = s.id /\ s.to = "published"
                BY <3>2, <4>2, <4>5 DEF EntriesTypeOk
            <4>6. CASE save[d].id = s.id /\ status[s.id] # "published"
                BY <2>3, <3>2, <3>6, <4>6 DEF PubInv, Standing, Live
            <4>7. QED BY <4>3, <4>4, <4>5, <4>6
        <3> HIDE DEF q
        <3>7. QED BY <1>0, <2>1, <3>1, <3>3, <3>4, <3>5, <3>6, PubCalm
    <2>4. CASE ~(s.up /\ Live(s.id))
        <3>1. /\ Becomes(c, None) /\ status' = status
              /\ owing' = owing /\ outrun' = outrun
            BY <1>3, <2>4, UpdateSave DEF Update
        <3>2. QED BY <1>0, <1>n, <2>1, <2>2, <3>1, PubCalm
    <2>5. QED BY <2>3, <2>4
<1>4. ASSUME NEW c \in Clients, Ensure(c) \/ CreateTag(c) \/ SetTags(c) \/ TagsFail(c)
      PROVE  PubInv'
    <2>1. /\ save[c] \in Save /\ status' = status
          /\ owing' = owing /\ outrun' = outrun /\ silent' = silent
        BY <1>4, EnsureSave, CreateTagSave, OtherSaves
        DEF Ensure, CreateTag, SetTags, TagsFail, tables, history, publicity
    <2>2. c \in owing => Announces(save[c]) \/ c \in silent \/ c \in outrun
        BY DEF PubInv, FormPublicationsAnnounced, Announcing, Announces
    <2>3. ASSUME NEW q, Becomes(c, q), SameSave(q, save[c]),
                 q.pc \in {"ensure", "create", "card"}
          PROVE  PubInv'
        <3>1. Announces(save[c]) => Announces(q)
            BY <2>3 DEF Announces, SameSave
        <3>2. q.pc # "update" /\ ~HasRead(q)
            BY <2>3 DEF HasRead
        <3>3. QED BY <1>0, <2>1, <2>2, <2>3, <3>1, <3>2, PubCalm
    <2>4. ASSUME Becomes(c, AfterTags(save[c])) PROVE PubInv'
        <3>1. CASE AfterTags(save[c]) = None /\ save[c].src = "mcp"
            <4>1. ~Announces(save[c])
                BY <3>1 DEF Announces
            <4>2. QED BY <1>0, <1>n, <2>1, <2>2, <2>4, <3>1, <4>1, PubCalm
        <3>2. CASE ~(AfterTags(save[c]) = None /\ save[c].src = "mcp")
            <4>1. SameSave(AfterTags(save[c]), save[c]) /\ AfterTags(save[c]).pc = "card"
                BY <2>1, <3>2, AfterFacts DEF SameSave
            <4>2. QED BY <2>3, <2>4, <4>1
        <3>3. QED BY <3>1, <3>2
    <2>5. CASE Ensure(c)
        BY <2>3, <2>5, EnsureMoves
    <2>6. CASE CreateTag(c)
        BY <2>3, <2>4, <2>6, CreateTagMoves
    <2>7. CASE SetTags(c) \/ TagsFail(c)
        BY <2>4, <2>7, OtherSaves
    <2>8. QED BY <1>4, <2>5, <2>6, <2>7
<1>5. ASSUME NEW c \in Clients, Card(c) PROVE PubInv'
    <2> DEFINE q == [save[c] EXCEPT !.pc = "dispatch"]
    <2>1. save[c] \in Save /\ Becomes(c, q)
        BY <1>5, OtherSaves
    <2>2. owing' = owing /\ outrun' = outrun /\ silent' = silent /\ status' = status
        BY <1>5 DEF Card, tables, history, publicity
    <2>3. Announces(save[c]) => Announces(q)
        BY <2>1 DEF Announces, Save
    <2>4. q.pc # "update" /\ ~HasRead(q)
        BY <2>1 DEF Save, HasRead
    <2>5. c \in owing => Announces(save[c]) \/ c \in silent \/ c \in outrun
        BY DEF PubInv, FormPublicationsAnnounced, Announcing, Announces
    <2> HIDE DEF q
    <2>6. QED BY <1>0, <2>1, <2>2, <2>3, <2>4, <2>5, PubCalm
<1>6. ASSUME NEW c \in Clients, Dispatch(c) PROVE PubInv'
    <2>1. save[c] \in Save /\ Becomes(c, None)
        BY <1>6, OtherSaves
    <2>2. /\ outrun' = outrun /\ silent' = silent /\ status' = status
          /\ owing' = IF save[c].up /\ save[c].publishes THEN owing \ {c} ELSE owing
        BY <1>6 DEF Dispatch, tables
    <2>3. c \in owing' => c \in silent \/ c \in outrun
        BY <2>2 DEF PubInv, FormPublicationsAnnounced, Announcing
    <2>4. QED BY <1>0, <1>n, <2>1, <2>2, <2>3, PubCalm
<1>7. ASSUME NEW c \in Clients, HangUp(c) PROVE PubInv'
    <2> DEFINE q == [save[c] EXCEPT !.up = FALSE]
    <2>1. save[c] \in Save /\ Becomes(c, q)
        BY <1>7, OtherSaves
    <2>2. /\ owing' = owing /\ outrun' = outrun /\ status' = status
          /\ silent' = silent \cup {c}
        BY <1>7 DEF HangUp, tables
    <2>3. /\ q.pc = save[c].pc /\ q.src = save[c].src /\ q.tagged = save[c].tagged
          /\ q.to = save[c].to /\ q.publishes = save[c].publishes /\ q.id = save[c].id
        BY <2>1 DEF Save
    <2> HIDE DEF q
    <2>4. HasRead(q) => status'[q.id] \in {"none", "published"} \/ c \in outrun'
        BY <2>2, <2>3 DEF PubInv, HasRead, Standing
    <2>5. q.pc = "update" => c \notin owing /\ (q.src = "form" => q.tagged)
        BY <2>3 DEF PubInv
    <2>6. QED BY <1>0, <2>1, <2>2, <2>4, <2>5, PubCalm
<1>8. ASSUME NEW c \in Clients, RemoveCard(c) \/ Draw(c) PROVE PubInv'
    <2>1. /\ save[c] \in Save /\ Becomes(c, None) /\ status' = status
          /\ owing' = owing /\ outrun' = outrun /\ silent' = silent
        BY <1>8, OtherSaves DEF RemoveCard, Draw, tables, history, publicity
    <2>2. c \in owing => c \in silent \/ c \in outrun
        BY <1>8 DEF RemoveCard, Draw, PubInv, FormPublicationsAnnounced, Announcing
    <2>3. QED BY <1>0, <1>n, <2>1, <2>2, PubCalm
<1>9. ASSUME NEW c \in Clients, NEW e \in EntryIds,
             DeleteEntry(c, e) \/ Regenerate(c, e)
      PROVE  PubInv'
    <2>1. PICK q : Becomes(c, q) /\ q.pc \in {"remove", "draw"}
        <3>1. /\ [Begun(e, "form", "draft", FALSE, {}) EXCEPT !.pc = "remove"].pc = "remove"
              /\ [Begun(e, "form", "draft", FALSE, {}) EXCEPT !.pc = "draw"].pc = "draw"
            BY DEF Begun
        <3>2. CASE DeleteEntry(c, e)
            BY <3>1, <3>2, OtherSaves
        <3>3. CASE Regenerate(c, e)
            BY <3>1, <3>3, OtherSaves
        <3>4. QED BY <1>9, <3>2, <3>3
    <2>2. owing' = owing /\ outrun' = outrun /\ silent' = silent /\ save[c] = None
        BY <1>9 DEF DeleteEntry, Regenerate, Begin, history, publicity
    <2>3. \A d \in EntryIds : status'[d] = status[d] \/ status'[d] = "none"
        BY <1>9 DEF DeleteEntry, Regenerate, tables, EntriesTypeOk
    <2>4. \A d \in Clients : HasRead(save[d]) => save[d].id \in EntryIds
        BY <1>n, SaveFacts DEF Save
    <2>5. c \in owing => c \in silent \/ c \in outrun
        BY <1>n, <2>2 DEF PubInv, FormPublicationsAnnounced, Announcing, Announces
    <2>6. q.pc # "update" /\ ~HasRead(q)
        BY <2>1 DEF HasRead
    <2>7. QED BY <1>0, <2>1, <2>2, <2>3, <2>4, <2>5, <2>6, PubCalm
<1>10. ASSUME UNCHANGED <<status, save, publicity>> PROVE PubInv'
    BY <1>10 DEF PubInv, FormPublicationsAnnounced, Announcing, HasRead, Standing, publicity
<1>11. QED
    BY <1>1, <1>2, <1>3, <1>4, <1>5, <1>6, <1>7, <1>8, <1>9, <1>10
    DEF EntriesNext, SaveWith, UpdateTag, DeleteTag, entriesVars, publicity

-----------------------------------------------------------------------------
(***************************************************************************)
(* The tags.  An id names one tag for ever, so whatever a request or an    *)
(* entry has resolved still means the same tag, perhaps under a new name.  *)
(***************************************************************************)
Agrees(g, t) == t.id = g.id => t.name = g.name \/ t.id \in renamed
Good(g) == g.id < nextTag /\ \A t \in tags : Agrees(g, t)
TagsInv ==
    /\ \A t, u \in tags : t.id = u.id => t = u
    /\ \A t \in tags : t.id < nextTag
    /\ \A c \in Clients : save[c] # None => \A g \in save[c].out : Good(g)
    /\ \A e \in EntryIds : \A g \in given[e] : Good(g)

(* A step that changes no tag, and resolves what is good.                   *)
LEMMA TagsCalm ==
    ASSUME EntriesTypeOk, TagsInv, UNCHANGED <<tags, nextTag, renamed>>,
           NEW c \in Clients, NEW q, Becomes(c, q),
           q # None => \A g \in q.out : Good(g),
           \A e \in EntryIds : \A g \in given'[e] : Good(g)
    PROVE  TagsInv'
<1>1. /\ save'[c] = q
      /\ \A d \in Clients \ {c} : save'[d] = save[d]
    BY BecomesTyped
<1>2. ASSUME NEW g, Good(g) PROVE g.id < nextTag' /\ \A t \in tags' :
             t.id = g.id => t.name = g.name \/ t.id \in renamed'
    BY <1>2 DEF Good, Agrees
<1>3. ASSUME NEW d \in Clients, save'[d] # None, NEW g \in save'[d].out
      PROVE  Good(g)
    <2>1. CASE d = c
        BY <1>1, <1>3, <2>1
    <2>2. CASE d # c
        BY <1>1, <1>3, <2>2 DEF TagsInv
    <2>3. QED BY <2>1, <2>2
<1>4. QED BY <1>2, <1>3 DEF TagsInv, Good, Agrees

LEMMA TagsStep == EntriesTypeOk /\ TagsInv /\ [EntriesNext]_entriesVars => TagsInv'
<1> SUFFICES ASSUME EntriesTypeOk, TagsInv, [EntriesNext]_entriesVars PROVE TagsInv'
    OBVIOUS
<1>0. ASSUME NEW e \in EntryIds, NEW src \in {"form", "mcp"}, NEW to \in Statuses,
             NEW tagged \in BOOLEAN, NEW names \in SUBSET Names
      PROVE  Begun(e, src, to, tagged, names).out = {}
    BY DEF Begun
<1>1. ASSUME NEW c \in Clients, NEW src \in {"form", "mcp"}, NEW to \in Statuses,
             NEW tagged \in BOOLEAN, NEW names \in SUBSET Names,
             Create(c, src, to, tagged, names)
      PROVE  TagsInv'
    <2>1. PICK q : Becomes(c, q) /\ (q = None \/ q.out = {})
        BY <1>0, <1>1, CreateSave, AfterFacts
    <2>2. UNCHANGED <<tags, nextTag, renamed, given>>
        BY <1>1 DEF Create
    <2>3. QED BY <2>1, <2>2, TagsCalm DEF TagsInv
<1>2. ASSUME NEW c \in Clients, NEW e \in EntryIds, NEW src \in {"form", "mcp"},
             NEW to \in Statuses, NEW tagged \in BOOLEAN, NEW names \in SUBSET Names,
             Load(c, e, src, to, tagged, names)
      PROVE  TagsInv'
    <2>1. PICK q : Becomes(c, q) /\ q.out = {}
        BY <1>0, <1>2, LoadSave
    <2>2. UNCHANGED <<tags, nextTag, renamed, given>>
        BY <1>2 DEF Load, tables
    <2>3. QED BY <2>1, <2>2, TagsCalm DEF TagsInv
<1>3. ASSUME NEW c \in Clients, Update(c) PROVE TagsInv'
    <2>1. save[c] \in Save /\ save[c] # None
        BY <1>3, UpdateSave, Busy DEF Update
    <2>2. PICK q : Becomes(c, q) /\ (q = None \/ q.out = save[c].out)
        BY <1>3, <2>1, UpdateSave, AfterFacts
    <2>3. UNCHANGED <<tags, nextTag, renamed, given>>
        BY <1>3 DEF Update
    <2>4. QED BY <2>1, <2>2, <2>3, TagsCalm DEF TagsInv
<1>4. ASSUME NEW c \in Clients, Ensure(c) PROVE TagsInv'
    <2>1. save[c] \in Save /\ save[c] # None
        BY <1>4, EnsureSave, Busy DEF Ensure
    <2>2. UNCHANGED <<tags, nextTag, renamed, given>>
        BY <1>4 DEF Ensure, tables, history
    <2>3. PICK n \in save[c].todo :
            \/ Becomes(c, [save[c] EXCEPT !.pc = "create", !.missing = {n}])
            \/ Becomes(c, [save[c] EXCEPT
                    !.todo = @ \ {n},
                    !.out = @ \cup {[id |-> t.id, name |-> n] :
                                    t \in {t \in tags : t.name = n}}])
        BY <1>4, EnsureSave
    <2> DEFINE more == {[id |-> t.id, name |-> n] : t \in {t \in tags : t.name = n}}
    <2>4. \A g \in more : Good(g)
        BY DEF TagsInv, Good, Agrees
    <2> HIDE DEF more
    <2>5. CASE Becomes(c, [save[c] EXCEPT !.pc = "create", !.missing = {n}])
        <3>1. [save[c] EXCEPT !.pc = "create", !.missing = {n}].out = save[c].out
            BY <2>1 DEF Save
        <3>2. QED BY <2>1, <2>2, <2>5, <3>1, TagsCalm DEF TagsInv
    <2>6. CASE Becomes(c, [save[c] EXCEPT !.todo = @ \ {n}, !.out = @ \cup more])
        <3>1. [save[c] EXCEPT !.todo = @ \ {n}, !.out = @ \cup more].out
              = save[c].out \cup more
            BY <2>1 DEF Save
        <3>2. QED BY <2>1, <2>2, <2>4, <2>6, <3>1, TagsCalm DEF TagsInv
    <2>7. QED BY <2>3, <2>5, <2>6 DEF more
<1>5. ASSUME NEW c \in Clients, CreateTag(c) PROVE TagsInv'
    <2>1. save[c] \in Save /\ save[c] # None /\ UNCHANGED <<renamed, given>>
        BY <1>5, CreateTagSave, Busy DEF CreateTag, history
    <2>2. PICK n \in save[c].missing :
            /\ n \in Names
            /\ \/ /\ Free(n, SlugOf[n], 0) /\ nextTag \in TagIds
                  /\ tags' = tags \cup
                       {[id |-> nextTag, name |-> n, slug |-> SlugOf[n]]}
                  /\ nextTag' = nextTag + 1
                  /\ Becomes(c, [save[c] EXCEPT
                        !.pc = "ensure", !.todo = @ \ {n}, !.missing = {},
                        !.out = @ \cup {[id |-> nextTag, name |-> n]}])
               \/ /\ Becomes(c, AfterTags(save[c]))
                  /\ UNCHANGED <<tags, nextTag>>
        BY <1>5, CreateTagSave
    <2>3. CASE Becomes(c, AfterTags(save[c])) /\ UNCHANGED <<tags, nextTag>>
        <3>1. AfterTags(save[c]) = None \/ AfterTags(save[c]).out = {}
            BY <2>1, AfterFacts
        <3>2. QED BY <2>1, <2>3, <3>1, TagsCalm DEF TagsInv
    <2>4. CASE /\ nextTag \in TagIds
               /\ tags' = tags \cup {[id |-> nextTag, name |-> n, slug |-> SlugOf[n]]}
               /\ nextTag' = nextTag + 1
               /\ Becomes(c, [save[c] EXCEPT
                        !.pc = "ensure", !.todo = @ \ {n}, !.missing = {},
                        !.out = @ \cup {[id |-> nextTag, name |-> n]}])
        <3>0. PICK new : new = [id |-> nextTag, name |-> n]
            OBVIOUS
        <3>1. [save[c] EXCEPT !.pc = "ensure", !.todo = @ \ {n}, !.missing = {},
                              !.out = @ \cup {new}].out = save[c].out \cup {new}
            BY <2>1 DEF Save
        <3>2. save'[c].out = save[c].out \cup {new}
              /\ \A d \in Clients \ {c} : save'[d] = save[d]
            BY <2>4, <3>0, <3>1, BecomesTyped
        <3>3. \A t \in tags : t.id \in Nat /\ t.id < nextTag
            BY DEF TagsInv, EntriesTypeOk, TagRow, TagIds
        <3>4. nextTag \in Nat
            BY <2>4 DEF TagIds
        <3>5. ASSUME NEW g \in Grant, Good(g) PROVE Good(g)'
            BY <2>1, <2>4, <3>4, <3>5 DEF Good, Agrees, Grant, TagIds
        <3>6. Good(new)'
            BY <2>4, <3>0, <3>3, <3>4 DEF Good, Agrees
        <3>7. ASSUME NEW d \in Clients, save'[d] # None, NEW g \in save'[d].out
              PROVE  Good(g)'
            <4>1. CASE d = c
                BY <2>1, <3>2, <3>5, <3>6, <3>7, <4>1 DEF TagsInv, Save
            <4>2. CASE d # c
                <5>1. save[d] \in Save /\ save[d] # None /\ g \in save[d].out
                    BY <3>2, <3>7, <4>2, SaveFacts
                <5>2. QED BY <3>5, <5>1 DEF TagsInv, Save
            <4>3. QED BY <4>1, <4>2
        <3>8. ASSUME NEW e \in EntryIds, NEW g \in given'[e] PROVE Good(g)'
            BY <2>1, <3>5 DEF TagsInv, EntriesTypeOk
        <3>9. \A t, u \in tags' : t.id = u.id => t = u
            BY <2>4, <3>3, <3>4 DEF TagsInv
        <3>10. \A t \in tags' : t.id < nextTag'
            BY <2>4, <3>3, <3>4
        <3>11. QED BY <3>7, <3>8, <3>9, <3>10 DEF TagsInv
    <2>5. QED BY <2>2, <2>3, <2>4
<1>6. ASSUME NEW c \in Clients, TagsFail(c) \/ SetTags(c) PROVE TagsInv'
    <2>1. save[c] \in Save /\ save[c] # None /\ Becomes(c, AfterTags(save[c]))
        BY <1>6, OtherSaves, Busy DEF TagsFail, SetTags
    <2>2. AfterTags(save[c]) = None \/ AfterTags(save[c]).out = {}
        BY <2>1, AfterFacts
    <2>3. UNCHANGED <<tags, nextTag, renamed>>
        BY <1>6 DEF TagsFail, SetTags, tables, history
    <2>4. \A e \in EntryIds : given'[e] = given[e] \/ given'[e] = save[c].out
        BY <1>6 DEF TagsFail, SetTags, history, EntriesTypeOk
    <2>5. \A e \in EntryIds : \A g \in given'[e] : Good(g)
        BY <2>1, <2>4 DEF TagsInv
    <2>6. QED BY <2>1, <2>2, <2>3, <2>5, TagsCalm
<1>7. ASSUME NEW c \in Clients,
             Card(c) \/ HangUp(c) \/ Dispatch(c) \/ RemoveCard(c) \/ Draw(c)
      PROVE  TagsInv'
    <2>1. save[c] \in Save /\ save[c] # None
        BY <1>7, OtherSaves, Busy DEF Card, HangUp, Dispatch, RemoveCard, Draw
    <2>2. UNCHANGED <<tags, nextTag, renamed, given>>
        BY <1>7 DEF Card, HangUp, Dispatch, RemoveCard, Draw, tables, history
    <2>3. /\ [save[c] EXCEPT !.pc = "dispatch"].out = save[c].out
          /\ [save[c] EXCEPT !.up = FALSE].out = save[c].out
        BY <2>1 DEF Save
    <2>4. PICK q : Becomes(c, q) /\ (q = None \/ q.out = save[c].out)
        <3>1. CASE Card(c)
            BY <2>3, <3>1, OtherSaves
        <3>2. CASE HangUp(c)
            BY <2>3, <3>2, OtherSaves
        <3>3. CASE Dispatch(c) \/ RemoveCard(c) \/ Draw(c)
            BY <3>3, OtherSaves
        <3>4. QED BY <1>7, <3>1, <3>2, <3>3
    <2>5. QED BY <2>1, <2>2, <2>4, TagsCalm DEF TagsInv
<1>8. ASSUME NEW c \in Clients, NEW e \in EntryIds,
             DeleteEntry(c, e) \/ Regenerate(c, e)
      PROVE  TagsInv'
    <2>1. PICK q : Becomes(c, q) /\ q.out = {}
        <3>1. /\ [Begun(e, "form", "draft", FALSE, {}) EXCEPT !.pc = "remove"].out = {}
              /\ [Begun(e, "form", "draft", FALSE, {}) EXCEPT !.pc = "draw"].out = {}
            BY DEF Begun
        <3>2. CASE DeleteEntry(c, e)
            BY <3>1, <3>2, OtherSaves
        <3>3. CASE Regenerate(c, e)
            BY <3>1, <3>3, OtherSaves
        <3>4. QED BY <1>8, <3>2, <3>3
    <2>2. /\ UNCHANGED <<tags, nextTag, renamed>>
          /\ \A d \in EntryIds : given'[d] \subseteq given[d]
        BY <1>8 DEF DeleteEntry, Regenerate, tables, history, EntriesTypeOk
    <2>3. \A d \in EntryIds : \A g \in given'[d] : Good(g)
        BY <2>2 DEF TagsInv
    <2>4. QED BY <2>1, <2>2, <2>3, TagsCalm
<1>9. ASSUME NEW t \in tags, NEW name \in Names, NEW like \in Names,
             UpdateTag(t, name, SlugOf[like])
      PROVE  TagsInv'
    <2> DEFINE new == [t EXCEPT !.name = name, !.slug = SlugOf[like]]
    <2>1. new.id = t.id
        BY DEF EntriesTypeOk, TagRow
    <2>2. /\ tags' = (tags \ {t}) \cup {new} /\ renamed' = renamed \cup {t.id}
          /\ UNCHANGED <<nextTag, save, given>>
        BY <1>9 DEF UpdateTag
    <2> HIDE DEF new
    <2>3. ASSUME NEW g, Good(g) PROVE Good(g)'
        BY <2>1, <2>2, <2>3 DEF Good, Agrees
    <2>4. QED BY <2>1, <2>2, <2>3 DEF TagsInv
<1>10. ASSUME NEW t \in tags, DeleteTag(t) PROVE TagsInv'
    <2>1. /\ tags' = tags \ {t} /\ renamed' = renamed \ {t.id}
          /\ UNCHANGED <<nextTag, save>>
          /\ \A e \in EntryIds : given'[e] \subseteq given[e]
        BY <1>10 DEF DeleteTag
    <2>2. \A u \in tags' : u.id # t.id
        BY <2>1 DEF TagsInv
    <2>3. ASSUME NEW g, Good(g) PROVE Good(g)'
        BY <2>1, <2>2, <2>3 DEF Good, Agrees
    <2>4. QED BY <2>1, <2>3 DEF TagsInv
<1>11. CASE UNCHANGED entriesVars
    BY <1>11 DEF entriesVars, TagsInv, Good, Agrees
<1>12. QED
    BY <1>1, <1>2, <1>3, <1>4, <1>5, <1>6, <1>7, <1>8, <1>9, <1>10, <1>11
    DEF EntriesNext, SaveWith

(***************************************************************************)
(* The join rows.  A live entry has rows exactly for what it was given, as *)
(* far as the tags are left; ids that are still to come occur nowhere.     *)
(***************************************************************************)
JoinInv ==
    /\ \A c \in Clients : save[c] # None => save[c].id < nextEntry
    /\ \A e \in EntryIds : Live(e) =>
          /\ e < nextEntry
          /\ \A t \in tags :
                 <<e, t.id>> \in entryTags <=> \E g \in given[e] : g.id = t.id
    /\ \A e \in EntryIds : e >= nextEntry => given[e] = {}
    /\ \A e \in EntryIds, i \in TagIds :
          <<e, i>> \in entryTags => e < nextEntry /\ i < nextTag

(* The requests across a step that gives no id of an entry.                 *)
LEMMA IdsKept ==
    ASSUME EntriesTypeOk, JoinInv, NEW c \in Clients, NEW q, Becomes(c, q),
           nextEntry' = nextEntry, q # None => q.id < nextEntry
    PROVE  \A d \in Clients : save'[d] # None => save'[d].id < nextEntry'
<1>1. /\ save'[c] = q
      /\ \A d \in Clients \ {c} : save'[d] = save[d]
    BY BecomesTyped
<1>2. QED BY <1>1 DEF JoinInv

LEMMA JoinCalm ==
    ASSUME EntriesTypeOk, JoinInv, NEW c \in Clients, NEW q, Becomes(c, q),
           q # None => q.id < nextEntry,
           UNCHANGED <<tags, nextTag, nextEntry, entryTags, given>>,
           \A e \in EntryIds : status'[e] # "none" => Live(e)
    PROVE  JoinInv'
<1>1. \A d \in Clients : save'[d] # None => save'[d].id < nextEntry'
    BY IdsKept
<1>2. QED BY <1>1 DEF JoinInv, Live

LEMMA JoinStep ==
    EntriesTypeOk /\ TagsInv /\ JoinInv /\ [EntriesNext]_entriesVars => JoinInv'
<1> SUFFICES ASSUME EntriesTypeOk, TagsInv, JoinInv, [EntriesNext]_entriesVars
             PROVE  JoinInv'
    OBVIOUS
<1>0. nextEntry \in Nat /\ nextTag \in Nat
    BY EntriesAssumption DEF EntriesTypeOk
<1>1. ASSUME NEW c \in Clients, NEW src \in {"form", "mcp"}, NEW to \in Statuses,
             NEW tagged \in BOOLEAN, NEW names \in SUBSET Names,
             Create(c, src, to, tagged, names)
      PROVE  JoinInv'
    <2> DEFINE s == Begun(nextEntry, src, to, tagged, names)
    <2>1. s \in Save /\ Becomes(c, AfterRow(s)) /\ nextEntry \in EntryIds
        BY <1>1, CreateSave
    <2>2. s.id = nextEntry
        BY DEF Begun
    <2>3. AfterRow(s) = None \/ AfterRow(s).id = nextEntry
        BY <2>1, <2>2, AfterFacts
    <2>4. save'[c] = AfterRow(s) /\ \A d \in Clients \ {c} : save'[d] = save[d]
        BY <2>1, BecomesTyped
    <2> HIDE DEF s
    <2>5. /\ nextEntry' = nextEntry + 1
          /\ status' = [status EXCEPT ![nextEntry] = to]
          /\ UNCHANGED <<tags, nextTag, entryTags, given>>
        BY <1>1 DEF Create
    <2>6. ASSUME NEW d \in Clients, save'[d] # None PROVE save'[d].id < nextEntry'
        <3>1. CASE d = c
            BY <1>0, <2>3, <2>4, <2>5, <2>6, <3>1
        <3>2. CASE d # c
            <4>1. save[d] # None /\ save[d].id < nextEntry /\ save'[d] = save[d]
                BY <2>4, <2>6, <3>2 DEF JoinInv
            <4>2. save[d].id \in Nat
                BY <4>1, SaveFacts DEF Save, EntryIds
            <4>3. QED BY <1>0, <2>5, <4>1, <4>2
        <3>3. QED BY <3>1, <3>2
    <2>7. ASSUME NEW e \in EntryIds, status'[e] # "none"
          PROVE  /\ e < nextEntry'
                 /\ \A t \in tags' :
                      <<e, t.id>> \in entryTags' <=> \E g \in given'[e] : g.id = t.id
        <3>1. CASE e = nextEntry
            <4>1. given[e] = {} /\ \A t \in tags : <<e, t.id>> \notin entryTags
                BY <1>0, <3>1 DEF JoinInv, EntriesTypeOk, TagRow
            <4>2. QED BY <1>0, <2>5, <3>1, <4>1
        <3>2. CASE e # nextEntry
            <4>1. Live(e)
                BY <2>5, <2>7, <3>2 DEF Live, EntriesTypeOk
            <4>2. QED BY <1>0, <2>5, <4>1 DEF JoinInv, EntryIds
        <3>3. QED BY <3>1, <3>2
    <2>8. \A e \in EntryIds : e >= nextEntry' => given'[e] = {}
        BY <1>0, <2>5 DEF JoinInv, EntryIds
    <2>9. \A e \in EntryIds, i \in TagIds :
             <<e, i>> \in entryTags' => e < nextEntry' /\ i < nextTag'
        BY <1>0, <2>5 DEF JoinInv, EntryIds
    <2>10. QED BY <2>6, <2>7, <2>8, <2>9 DEF JoinInv, Live
<1>2. ASSUME NEW c \in Clients, NEW e \in EntryIds, NEW src \in {"form", "mcp"},
             NEW to \in Statuses, NEW tagged \in BOOLEAN, NEW names \in SUBSET Names,
             Load(c, e, src, to, tagged, names)
      PROVE  JoinInv'
    <2> DEFINE q == Begun(e, src, to, tagged, names)
    <2>1. Becomes(c, q) /\ q.id = e
        BY <1>2, LoadSave DEF Begun
    <2>2. /\ UNCHANGED <<tags, nextTag, nextEntry, entryTags, given, status>>
          /\ Live(e)
        BY <1>2 DEF Load, tables
    <2> HIDE DEF q
    <2>3. QED BY <2>1, <2>2, JoinCalm DEF JoinInv, Live
<1>3. ASSUME NEW c \in Clients, Update(c) PROVE JoinInv'
    <2>1. save[c] \in Save /\ save[c] # None
        BY <1>3, UpdateSave, Busy DEF Update
    <2>2. PICK q : Becomes(c, q) /\ (q = None \/ q.id = save[c].id)
        BY <1>3, <2>1, UpdateSave, AfterFacts
    <2>3. /\ UNCHANGED <<tags, nextTag, nextEntry, entryTags, given>>
          /\ \A e \in EntryIds : status'[e] # "none" => Live(e)
        BY <1>3 DEF Update, Live, EntriesTypeOk
    <2>4. QED BY <2>1, <2>2, <2>3, JoinCalm DEF JoinInv
<1>4. ASSUME NEW c \in Clients, Ensure(c) \/ TagsFail(c) PROVE JoinInv'
    <2>1. save[c] \in Save /\ save[c] # None
        BY <1>4, EnsureSave, OtherSaves, Busy DEF Ensure, TagsFail
    <2>2. PICK q : Becomes(c, q) /\ (q = None \/ q.id = save[c].id)
        <3>1. CASE Ensure(c)
            BY <3>1, EnsureMoves DEF SameSave
        <3>2. CASE TagsFail(c)
            BY <2>1, <3>2, OtherSaves, AfterFacts
        <3>3. QED BY <1>4, <3>1, <3>2
    <2>3. UNCHANGED <<tags, nextTag, nextEntry, entryTags, given, status>>
        BY <1>4 DEF Ensure, TagsFail, tables, history
    <2>4. QED BY <2>1, <2>2, <2>3, JoinCalm DEF JoinInv, Live
<1>5. ASSUME NEW c \in Clients, CreateTag(c) PROVE JoinInv'
    <2>1. /\ save[c] \in Save /\ save[c] # None
          /\ UNCHANGED <<nextEntry, entryTags, given, status>>
        BY <1>5, CreateTagSave, Busy DEF CreateTag, history
    <2>2. PICK q : Becomes(c, q) /\ (q = None \/ q.id = save[c].id)
        BY <1>5, <2>1, CreateTagMoves, AfterFacts DEF SameSave
    <2>3. PICK n \in save[c].missing :
            \/ /\ tags' = tags \cup {[id |-> nextTag, name |-> n, slug |-> SlugOf[n]]}
               /\ nextTag' = nextTag + 1 /\ nextTag \in TagIds
            \/ UNCHANGED <<tags, nextTag>>
        BY <1>5, CreateTagSave
    <2>4. CASE UNCHANGED <<tags, nextTag>>
        BY <2>1, <2>2, <2>4, JoinCalm DEF JoinInv, Live
    <2>5. CASE /\ tags' = tags \cup {[id |-> nextTag, name |-> n, slug |-> SlugOf[n]]}
               /\ nextTag' = nextTag + 1 /\ nextTag \in TagIds
        <3>1. \A d \in Clients : save'[d] # None => save'[d].id < nextEntry'
            BY <2>1, <2>2, IdsKept DEF JoinInv
        <3>2. \A e \in EntryIds : <<e, nextTag>> \notin entryTags
            BY <1>0, <2>5 DEF JoinInv
        <3>3. \A e \in EntryIds : \A g \in given[e] : g.id # nextTag
            BY <1>0 DEF TagsInv, Good
        <3>4. \A e \in EntryIds : Live(e) =>
                 \A t \in tags' :
                     <<e, t.id>> \in entryTags <=> \E g \in given[e] : g.id = t.id
            BY <2>5, <3>2, <3>3 DEF JoinInv
        <3>5. \A i \in TagIds : i < nextTag => i < nextTag'
            BY <1>0, <2>5 DEF TagIds
        <3>6. QED BY <2>1, <3>1, <3>4, <3>5 DEF JoinInv, Live
    <2>6. QED BY <2>3, <2>4, <2>5
<1>6. ASSUME NEW c \in Clients, SetTags(c) PROVE JoinInv'
    <2> DEFINE s == save[c]
    <2>1. /\ s \in Save /\ s # None /\ s.id \in EntryIds
          /\ UNCHANGED <<nextEntry, tags, nextTag, status>>
          /\ given' = [given EXCEPT ![s.id] = s.out]
          /\ entryTags' = OtherTags(s.id) \cup {<<s.id, g.id>> : g \in s.out}
        BY <1>6, OtherSaves, Busy DEF SetTags, Save
    <2>2. PICK q : Becomes(c, q) /\ (q = None \/ q.id = s.id)
        BY <1>6, <2>1, OtherSaves, AfterFacts
    <2>3. s.id < nextEntry /\ \A g \in s.out : g.id \in TagIds /\ g.id < nextTag
        BY <2>1 DEF JoinInv, TagsInv, Good, Save, Grant
    <2> HIDE DEF s
    <2>4. \A d \in Clients : save'[d] # None => save'[d].id < nextEntry'
        BY <2>1, <2>2, <2>3, IdsKept
    <2>5. \A e \in EntryIds, i \in TagIds :
             <<e, i>> \in entryTags' <=>
                 IF e = s.id THEN \E g \in s.out : g.id = i ELSE <<e, i>> \in entryTags
        BY <2>1, <2>3 DEF OtherTags
    <2>6. ASSUME NEW e \in EntryIds, Live(e), NEW t \in tags
          PROVE  <<e, t.id>> \in entryTags' <=> \E g \in given'[e] : g.id = t.id
        <3>1. t.id \in TagIds
            BY DEF EntriesTypeOk, TagRow
        <3>2. CASE e = s.id
            BY <2>1, <2>5, <3>1, <3>2 DEF EntriesTypeOk
        <3>3. CASE e # s.id
            BY <2>1, <2>5, <2>6, <3>1, <3>3 DEF EntriesTypeOk, JoinInv
        <3>4. QED BY <3>2, <3>3
    <2>7. \A e \in EntryIds : e >= nextEntry => given'[e] = {}
        BY <1>0, <2>1, <2>3 DEF EntriesTypeOk, JoinInv, EntryIds
    <2>8. \A e \in EntryIds, i \in TagIds :
             <<e, i>> \in entryTags' => e < nextEntry /\ i < nextTag
        BY <2>3, <2>5 DEF JoinInv
    <2>9. QED BY <2>1, <2>4, <2>6, <2>7, <2>8 DEF JoinInv, Live
<1>7. ASSUME NEW c \in Clients,
             Card(c) \/ HangUp(c) \/ Dispatch(c) \/ RemoveCard(c) \/ Draw(c)
      PROVE  JoinInv'
    <2>1. save[c] \in Save /\ save[c] # None
        BY <1>7, OtherSaves, Busy DEF Card, HangUp, Dispatch, RemoveCard, Draw
    <2>2. UNCHANGED <<tags, nextTag, nextEntry, entryTags, given, status>>
        BY <1>7 DEF Card, HangUp, Dispatch, RemoveCard, Draw, tables, history
    <2>3. PICK q : Becomes(c, q) /\ (q = None \/ q.id = save[c].id)
        <3>1. /\ [save[c] EXCEPT !.pc = "dispatch"].id = save[c].id
              /\ [save[c] EXCEPT !.up = FALSE].id = save[c].id
            BY <2>1 DEF Save
        <3>2. CASE Card(c)
            BY <3>1, <3>2, OtherSaves
        <3>3. CASE HangUp(c)
            BY <3>1, <3>3, OtherSaves
        <3>4. CASE Dispatch(c) \/ RemoveCard(c) \/ Draw(c)
            BY <3>4, OtherSaves
        <3>5. QED BY <1>7, <3>2, <3>3, <3>4
    <2>4. QED BY <2>1, <2>2, <2>3, JoinCalm DEF JoinInv, Live
<1>8. ASSUME NEW c \in Clients, NEW e \in EntryIds,
             DeleteEntry(c, e) \/ Regenerate(c, e)
      PROVE  JoinInv'
    <2>1. PICK q : Becomes(c, q) /\ q.id = e
        <3>1. /\ [Begun(e, "form", "draft", FALSE, {}) EXCEPT !.pc = "remove"].id = e
              /\ [Begun(e, "form", "draft", FALSE, {}) EXCEPT !.pc = "draw"].id = e
            BY DEF Begun
        <3>2. CASE DeleteEntry(c, e)
            BY <3>1, <3>2, OtherSaves
        <3>3. CASE Regenerate(c, e)
            BY <3>1, <3>3, OtherSaves
        <3>4. QED BY <1>8, <3>2, <3>3
    <2>2. /\ Live(e) /\ UNCHANGED <<tags, nextTag, nextEntry, entryTags>>
          /\ \A d \in EntryIds : \/ status'[d] = status[d] /\ given'[d] = given[d]
                                 \/ status'[d] = "none" /\ given'[d] = {}
        BY <1>8 DEF DeleteEntry, Regenerate, tables, history, EntriesTypeOk
    <2>3. \A d \in Clients : save'[d] # None => save'[d].id < nextEntry'
        BY <2>1, <2>2, IdsKept DEF JoinInv
    <2>4. QED BY <2>2, <2>3 DEF JoinInv, Live
<1>9. ASSUME NEW t \in tags, NEW name \in Names, NEW like \in Names,
             UpdateTag(t, name, SlugOf[like])
      PROVE  JoinInv'
    <2>1. /\ UNCHANGED <<nextTag, nextEntry, entryTags, given, status, save>>
          /\ \A u \in tags' : \E v \in tags : u.id = v.id
        BY <1>9 DEF UpdateTag, EntriesTypeOk, TagRow
    <2>2. QED BY <2>1 DEF JoinInv, Live
<1>10. ASSUME NEW t \in tags, DeleteTag(t) PROVE JoinInv'
    <2>1. /\ UNCHANGED <<nextTag, nextEntry, status, save>>
          /\ tags' = tags \ {t}
          /\ \A e \in EntryIds : given'[e] = {g \in given[e] : g.id # t.id}
          /\ \A e \in EntryIds, i \in TagIds :
                <<e, i>> \in entryTags' <=> <<e, i>> \in entryTags /\ i # t.id
        BY <1>10 DEF DeleteTag
    <2>2. \A u \in tags' : u \in tags /\ u.id # t.id /\ u.id \in TagIds
        BY <2>1 DEF TagsInv, EntriesTypeOk, TagRow
    <2>3. QED BY <2>1, <2>2 DEF JoinInv, Live
<1>11. CASE UNCHANGED entriesVars
    BY <1>11 DEF entriesVars, JoinInv, Live
<1>12. QED
    BY <1>1, <1>2, <1>3, <1>4, <1>5, <1>6, <1>7, <1>8, <1>9, <1>10, <1>11
    DEF EntriesNext, SaveWith

-----------------------------------------------------------------------------
EntriesInv == EntriesTypeOk /\ TagsInv /\ JoinInv /\ PubInv /\ CardInv

LEMMA EntriesInductive == EntriesSpec => []EntriesInv
<1>1. EntriesInit => EntriesInv
    <2> SUFFICES ASSUME EntriesInit PROVE EntriesInv
        OBVIOUS
    <2>1. EntriesTypeOk
        BY EntriesTypeInit
    <2>2. \A c \in Clients : save[c] = None
        BY DEF EntriesInit
    <2>3. None.pc # "update"
        BY DEF None
    <2>4. TagsInv /\ JoinInv
        BY <2>2 DEF EntriesInit, TagsInv, JoinInv, Live
    <2>5. PubInv /\ CardInv
        BY <2>2, <2>3 DEF EntriesInit, PubInv, FormPublicationsAnnounced, HasRead, CardInv,
                          StrayCardsAreRaces, AtWork
    <2>6. QED BY <2>1, <2>4, <2>5 DEF EntriesInv
<1>2. EntriesInv /\ [EntriesNext]_entriesVars => EntriesInv'
    BY EntriesTypeStep, TagsStep, JoinStep, PubStep, CardStep DEF EntriesInv, JoinInv, IdsGiven
<1>3. QED BY <1>1, <1>2, PTL DEF EntriesSpec

(***************************************************************************)
(* Entries: every variable stays in its domain.                            *)
(***************************************************************************)
THEOREM EntriesTypeCorrect == EntriesSpec => []EntriesTypeOk
<1>1. EntriesInv => EntriesTypeOk
    BY DEF EntriesInv
<1>2. QED BY <1>1, EntriesInductive, PTL

(***************************************************************************)
(* SetEntryTags, EnsureTagsByName: entries carry the tags that their last  *)
(* complete save resolved, by any number of requests and tag edits.        *)
(***************************************************************************)
THEOREM TagsAreThoseSaved == EntriesSpec => []TagsOfLastSave
<1>1. EntriesInv => TagsOfLastSave
    <2> SUFFICES ASSUME EntriesInv, NEW e \in EntryIds, Live(e)
                 PROVE  /\ {t.id : t \in Attached(e)} =
                              {g.id : g \in given[e]} \cap {t.id : t \in tags}
                        /\ \A t \in Attached(e), g \in given[e] :
                              t.id = g.id => t.name = g.name \/ t.id \in renamed
        BY DEF TagsOfLastSave
    <2>1. \A t \in tags : t \in Attached(e) <=> \E g \in given[e] : g.id = t.id
        BY DEF EntriesInv, JoinInv, Attached
    <2>2. Attached(e) \subseteq tags
        BY DEF Attached
    <2>3. {t.id : t \in Attached(e)} =
              {g.id : g \in given[e]} \cap {t.id : t \in tags}
        BY <2>1, <2>2
    <2>4. \A t \in Attached(e), g \in given[e] :
              t.id = g.id => t.name = g.name \/ t.id \in renamed
        BY <2>2 DEF EntriesInv, TagsInv, Good, Agrees
    <2>5. QED BY <2>3, <2>4
<1>2. QED BY <1>1, EntriesInductive, PTL

(***************************************************************************)
(* dispatchEntryEvent: every statement that takes a row to published is of *)
(* a request that announces it, but for MCP calls, clients that hang up,   *)
(* and saves that have read "published" before another took it back.       *)
(***************************************************************************)
THEOREM PublicationsAreAnnounced == EntriesSpec => []FormPublicationsAnnounced
<1>1. EntriesInv => FormPublicationsAnnounced
    BY DEF EntriesInv, PubInv
<1>2. QED BY <1>1, EntriesInductive, PTL

(***************************************************************************)
(* removeOGCard: a card outlives its entry only by a race.                 *)
(***************************************************************************)
THEOREM CardsGoWithEntries == EntriesSpec => []StrayCardsAreRaces
<1>1. EntriesInv => StrayCardsAreRaces
    BY DEF EntriesInv, CardInv
<1>2. QED BY <1>1, EntriesInductive, PTL
=============================================================================
