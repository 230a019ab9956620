------------------------------ MODULE Templates ------------------------------
(***************************************************************************)
(* The templates of the weblog and their assets.  Which row is active is   *)
(* flipped in one transaction (ActivateTemplate); deleting, saving and     *)
(* renaming read the row in a statement of their own before they write,    *)
(* and an upload writes a file under TemplateDir and then a row, a         *)
(* deletion the other way round.  Of a row the name, one body and the      *)
(* flag are kept; the sort order and the pins of the weblog, categories    *)
(* and pages are left out: they only choose a row with a fallback to the   *)
(* active one (pickTemplate).                                              *)
(***************************************************************************)
EXTENDS ContentParameters

TemplateIds == 1 .. MaxTemplates
Fields == {"name", "body"}
Written == [Fields -> Texts]
NoTemplate == [there |-> FALSE]
TemplateRow == [there : {TRUE}, active : BOOLEAN, is : Written]
Key == TemplateIds \X FileNames          \* TemplateDir/<id>/<name>
AssetRow == [id : 1 .. MaxAssets, key : Key]

VARIABLES
    template,      \* the rows of templates
    nextTemplate,  \* templates: the AUTOINCREMENT counter
    assets,        \* the rows of template_assets
    nextAsset,     \* template_assets: the AUTOINCREMENT counter
    files,         \* the files under TemplateDir
    job,           \* what each request is doing
    faults,        \* bound: failures so far
    last,          \* history: the last name and body an edit brought
    overtaken,     \* history: templates edited on a row read before an edit
    deposed,       \* history: a deletion hit the active template
    disturbed      \* history: assets two requests were at, or a re-upload,
                   \* an import or a removal failed for, or a kill fell on

designVars == <<template, nextTemplate, last, overtaken, deposed>>
assetVars == <<assets, nextAsset, files, faults, disturbed>>
templatesVars == <<template, nextTemplate, assets, nextAsset, files, job, faults,
                   last, overtaken, deposed, disturbed>>

Rest == [pc |-> "rest"]
Removal == [pc : {"remove"}, id : TemplateIds]
Edit == [pc : {"edit", "saveas"}, id : TemplateIds, is : Written, field : Fields,
         fresh : BOOLEAN]
Upload == [pc : {"file", "row"}, key : Key, import : BOOLEAN]
Deletion == [pc : {"drop", "unlink"}, key : Key, asset : 1 .. MaxAssets]

There(t) == template[t].there
TemplatesLeft == {t \in TemplateIds : There(t)}

(* The template that the installation brought, active.                      *)
TemplatesInit ==
    /\ \E text \in Texts :
        /\ template = [t \in TemplateIds |->
              IF t = 1 THEN [there |-> TRUE, active |-> TRUE, is |-> [f \in Fields |-> text]]
              ELSE NoTemplate]
        /\ last = [t \in TemplateIds |-> [f \in Fields |-> text]]
    /\ nextTemplate = 2
    /\ assets = {}
    /\ nextAsset = 1
    /\ files = {}
    /\ job = [c \in Clients |-> Rest]
    /\ faults = 0
    /\ overtaken = {}
    /\ deposed = FALSE
    /\ disturbed = {}

(* Bug: the transaction commits although the second UPDATE hit no row.      *)
AfterActivate(id) ==
    [t \in TemplateIds |-> IF There(t) THEN [template[t] EXCEPT !.active = t = id]
                           ELSE template[t]]

(* ActivateTemplate: cleared and set in one transaction, rolled back when   *)
(* there is no such row.                                                    *)
Activated(id) ==
    [t \in TemplateIds |-> IF There(t) /\ There(id)
                           THEN [template[t] EXCEPT !.active = t = id]
                           ELSE template[t]]

(* templatesActivate, of a list that may be old.                            *)
Activate(id) ==
    /\ id < nextTemplate
    /\ template' = Activated(id)
    /\ UNCHANGED <<nextTemplate, last, overtaken, deposed, job, assetVars>>

Deletable(t) == There(t) /\ ~template[t].active

(* DeleteTemplate: SELECT is_active.                                        *)
CheckDelete(c, t) ==
    /\ job[c] = Rest /\ Deletable(t)
    /\ job' = [job EXCEPT ![c] = [pc |-> "remove", id |-> t]]
    /\ UNCHANGED <<designVars, assetVars>>

(* DeleteTemplate: DELETE, which looks at the flag no more.  The assets     *)
(* stay behind.                                                             *)
Delete(c) ==
    LET t == job[c].id IN
    /\ job[c].pc = "remove"
    /\ template' = [template EXCEPT ![t] = NoTemplate]
    /\ deposed' = (deposed \/ (There(t) /\ ~Deletable(t)))
    /\ job' = [job EXCEPT ![c] = Rest]
    /\ UNCHANGED <<nextTemplate, last, overtaken, assetVars>>

-----------------------------------------------------------------------------
(* Bug: the form stands for the whole row.                                  *)
OnlyForm(is, field, text) == [f \in Fields |-> text]

(* parseTemplateForm and templatesRename lay one field over the row read.   *)
Overlaid(is, field, text) == [is EXCEPT ![field] = text]

(* templatesSave ("body"), templatesRename ("name") and templatesSaveAs:    *)
(* TemplateByID and the form.                                               *)
BeginEdit(c, t, pc, field, text) ==
    /\ job[c] = Rest /\ There(t)
    /\ pc = "saveas" => field = "body"
    /\ job' = [job EXCEPT ![c] = [pc |-> pc, id |-> t, field |-> field, fresh |-> TRUE,
                                 is |-> Overlaid(template[t].is, field, text)]]
    /\ UNCHANGED <<designVars, assetVars>>

(* UpdateTemplate: all the fields, of the row as it was read, but the flag. *)
WriteEdit(c) ==
    LET e == job[c] IN
    /\ e.pc = "edit"
    /\ IF There(e.id)
       THEN /\ template' = [template EXCEPT ![e.id].is = e.is]
            /\ last' = [last EXCEPT ![e.id][e.field] = e.is[e.field]]
            /\ overtaken' = overtaken \cup {t \in {e.id} : ~e.fresh}
            /\ job' = [d \in Clients |->
                  IF d = c THEN Rest
                  ELSE IF job[d].pc = "edit" /\ job[d].id = e.id
                  THEN [job[d] EXCEPT !.fresh = FALSE] ELSE job[d]]
       ELSE /\ job' = [job EXCEPT ![c] = Rest]
            /\ UNCHANGED <<template, last, overtaken>>
    /\ UNCHANGED <<nextTemplate, deposed, assetVars>>

(* CreateTemplate: a row that is not active.                                *)
NewTemplate(is) ==
    /\ nextTemplate <= MaxTemplates
    /\ template' = [template EXCEPT ![nextTemplate] =
                       [there |-> TRUE, active |-> FALSE, is |-> is]]
    /\ last' = [last EXCEPT ![nextTemplate] = is]
    /\ nextTemplate' = nextTemplate + 1
    /\ UNCHANGED <<overtaken, deposed>>

(* templatesSaveAs: the new name is given.                                  *)
WriteCopy(c) ==
    /\ job[c].pc = "saveas"
    /\ \E name \in Texts : NewTemplate([job[c].is EXCEPT !["name"] = name])
    /\ job' = [job EXCEPT ![c] = Rest]
    /\ UNCHANGED assetVars

-----------------------------------------------------------------------------
AtKey(key) == {c \in Clients : job[c].pc \in {"file", "row", "drop", "unlink"}
                               /\ job[c].key = key}

(* A request turns to an asset that others may be at.                       *)
Turned(key) == disturbed \cup {k \in {key} : AtKey(k) # {}}

(* templateAssetUpload: loadTemplateForAssetUpload.                         *)
BeginUpload(c, key) ==
    /\ job[c] = Rest /\ There(key[1])
    /\ job' = [job EXCEPT ![c] = [pc |-> "file", key |-> key, import |-> FALSE]]
    /\ disturbed' = Turned(key)
    /\ UNCHANGED <<designVars, assets, nextAsset, files, faults>>

(* templateImportSubmit: the row, then one asset of the pack.               *)
Import(c, name, is) ==
    LET key == <<nextTemplate, name>> IN
    /\ job[c] = Rest
    /\ NewTemplate(is)
    /\ job' = [job EXCEPT ![c] = [pc |-> "file", key |-> key, import |-> TRUE]]
    /\ UNCHANGED assetVars

Stored(key) == \E a \in assets : a.key = key

(* A failed upload takes its file away, a failed import leaves it.          *)
Cleaned(c) ==
    IF job[c].import THEN files \cup {job[c].key} ELSE files \ {job[c].key}

(* os.Create, io.Copy or the INSERT fails.  The file of an asset that was   *)
(* there before is gone with it.                                            *)
FailUpload(c) ==
    LET u == job[c] IN
    /\ u.pc \in {"file", "row"} /\ faults < MaxFaults
    /\ faults' = faults + 1
    /\ files' = Cleaned(c)
    /\ disturbed' = disturbed \cup {k \in {u.key} : Stored(k) \/ u.import}
    /\ job' = [job EXCEPT ![c] = Rest]
    /\ UNCHANGED <<designVars, assets, nextAsset>>

(* persistTemplateAssetFile.                                                *)
StoreFile(c) ==
    /\ job[c].pc = "file"
    /\ files' = files \cup {job[c].key}
    /\ job' = [job EXCEPT ![c].pc = "row"]
    /\ UNCHANGED <<designVars, assets, nextAsset, faults, disturbed>>

(* CreateOrReplaceTemplateAsset: ON CONFLICT keeps the row.                 *)
StoreRow(c) ==
    LET u == job[c] IN
    /\ u.pc = "row"
    /\ IF Stored(u.key) THEN UNCHANGED <<assets, nextAsset>>
       ELSE /\ nextAsset <= MaxAssets
            /\ assets' = assets \cup {[id |-> nextAsset, key |-> u.key]}
            /\ nextAsset' = nextAsset + 1
    /\ job' = [job EXCEPT ![c] = Rest]
    /\ UNCHANGED <<designVars, files, faults, disturbed>>

(* templateAssetDelete: TemplateAssetByID.                                  *)
BeginDeletion(c, a) ==
    /\ job[c] = Rest /\ a \in assets
    /\ job' = [job EXCEPT ![c] = [pc |-> "drop", key |-> a.key, asset |-> a.id]]
    /\ disturbed' = Turned(a.key)
    /\ UNCHANGED <<designVars, assets, nextAsset, files, faults>>

(* DeleteTemplateAsset: a row that is gone ends the request.                *)
DropRow(c) ==
    LET d == job[c]
        rows == {a \in assets : a.id = d.asset}
    IN
    /\ d.pc = "drop"
    /\ assets' = assets \ rows
    /\ job' = [job EXCEPT ![c] = IF rows = {} THEN Rest ELSE [d EXCEPT !.pc = "unlink"]]
    /\ UNCHANGED <<designVars, nextAsset, files, faults, disturbed>>

(* os.Remove.                                                               *)
Unlink(c) ==
    /\ job[c].pc = "unlink"
    /\ files' = files \ {job[c].key}
    /\ job' = [job EXCEPT ![c] = Rest]
    /\ UNCHANGED <<designVars, assets, nextAsset, faults, disturbed>>

(* The process is killed between file and row; or os.Remove fails, an error  *)
(* that templateAssetDelete drops.                                          *)
LeaveFile(c) ==
    /\ job[c].pc \in {"row", "unlink"} /\ faults < MaxFaults
    /\ faults' = faults + 1
    /\ disturbed' = disturbed \cup {job[c].key}
    /\ job' = [job EXCEPT ![c] = Rest]
    /\ UNCHANGED <<designVars, assets, nextAsset, files>>

TemplatesNext ==
    \/ \E t \in TemplateIds : Activate(t)
    \/ \E c \in Clients :
        \/ \E t \in TemplateIds : CheckDelete(c, t)
        \/ \E t \in TemplateIds, pc \in {"edit", "saveas"}, field \in Fields,
              text \in Texts : BeginEdit(c, t, pc, field, text)
        \/ Delete(c) \/ WriteEdit(c) \/ WriteCopy(c)
        \/ \E key \in Key : BeginUpload(c, key)
        \/ \E name \in FileNames, is \in Written : Import(c, name, is)
        \/ FailUpload(c) \/ StoreFile(c) \/ StoreRow(c)
        \/ \E a \in assets : BeginDeletion(c, a)
        \/ DropRow(c) \/ Unlink(c) \/ LeaveFile(c)

TemplatesSpec == TemplatesInit /\ [][TemplatesNext]_templatesVars

-----------------------------------------------------------------------------
(***************************************************************************)
(* Every variable stays in its domain.                                     *)
(***************************************************************************)
TemplatesTypeOk ==
    /\ template \in [TemplateIds -> TemplateRow \cup {NoTemplate}]
    /\ nextTemplate \in 2 .. MaxTemplates + 1
    /\ assets \subseteq AssetRow
    /\ nextAsset \in 1 .. MaxAssets + 1
    /\ files \subseteq Key
    /\ job \in [Clients -> {Rest} \cup Removal \cup Edit \cup Upload \cup Deletion]
    /\ faults \in 0 .. MaxFaults
    /\ last \in [TemplateIds -> Written]
    /\ overtaken \subseteq TemplateIds
    /\ deposed \in BOOLEAN
    /\ disturbed \subseteq Key

Active == {t \in TemplatesLeft : template[t].active}

(***************************************************************************)
(* The single-active invariant of ActivateTemplate, and deleting the       *)
(* active template "is refused so the public site always has something to  *)
(* render", unless a template was activated between the two statements of  *)
(* its deletion: not after an activation of a template that another tab    *)
(* has deleted, nor by any order of edits and imports.                     *)
(***************************************************************************)
OneActive == Cardinality(Active) = 1 \/ (deposed /\ Active = {})

(***************************************************************************)
(* UpdateTemplate writes every field: a template shows the last name and   *)
(* the last body it was given unless two edits of it overlapped.           *)
(***************************************************************************)
EditsSurvive ==
    \A t \in TemplatesLeft : t \in overtaken \/ template[t].is = last[t]

(***************************************************************************)
(* Rows and files of the assets agree where no request is at work, unless  *)
(* two requests met at the asset, a re-upload, an import or the removal of *)
(* a file failed, or a kill fell between the two: else "a half-written     *)
(* asset never appears on disk without a matching DB row".                 *)
(***************************************************************************)
AssetsHaveFiles ==
    \A key \in Key \ disturbed : AtKey(key) = {} => (Stored(key) <=> key \in files)

(***************************************************************************)
(* The site has something to render, and the files that go with it.        *)
(***************************************************************************)
DesignHolds == OneActive /\ AssetsHaveFiles
=============================================================================
