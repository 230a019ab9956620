------------------------------ MODULE MCContent ------------------------------
(***************************************************************************)
(* The tables the admin screens and the readers write, side by side: in a  *)
(* behaviour one of them is in focus and the others rest.  They meet in no *)
(* statement of the code but for the ids they hold, so their interleavings *)
(* would show nothing more.  Each focus names its bounds.                  *)
(***************************************************************************)
EXTENDS Entries, Categories, Responses, Templates, PageAdmin, Images, Links, TLC

CONSTANTS c1, c2, p1, p2, t1, t2

VARIABLE focus

MCSlugOf == [n \in Names |-> n]

(* "2" is a slug that reads as a number, and as the id of a category.       *)
MCNumberOf == [s \in Slugs |-> IF s = "2" THEN 2 ELSE 0]

MCPageSlugs == {<<"a">>, <<"a", "b">>, <<"a", "b", "c">>}

Interchangeable == Permutations(Clients) \cup Permutations({p1, p2})
                   \cup Permutations({t1, t2})

Focuses == {"tags", "publish", "tree", "menu", "links", "posts", "comments",
            "flood", "reactions", "design", "assets", "pages", "pictures", "blogroll"}

Init == /\ focus \in Focuses
        /\ EntriesInit /\ CategoriesInit /\ ResponsesInit
        /\ TemplatesInit /\ PagesInit /\ ImagesInit /\ LinksInit
        /\ focus # "comments" => mode = "open"

(* Tags: one entry, saved by MCP calls whose client stays.                  *)
TagsFocus ==
    /\ nextEntry' <= 2
    /\ \A c \in Clients : save'[c] # None =>
          save'[c].src = "mcp" /\ save'[c].tagged /\ save'[c].up /\ save'[c].to = "draft"

(* Publishing: one tag, which no one renames or deletes.                    *)
PublishFocus ==
    /\ renamed' = {} /\ tags \subseteq tags'
    /\ \A c \in Clients : save'[c] # None =>
          /\ save'[c].todo \subseteq {"go"}
          /\ save'[c].tagged => save'[c].src = "form"

NoSlugs == \A i \in 1 .. MaxCategories : cat'[i].slug = ""
Ticked == \E c \in Clients : form'[c].kind = "check" /\ form'[c].row.hidden

(* Only the first category is ever hidden.                                  *)
FirstTicked == Ticked =>
    \/ nextCat' = 1
    \/ \E c \in Clients : form'[c].kind = "check" /\ form'[c].id = 1
NoPosts == \A c \in Clients : form'[c].kind # "post"

CategoriesFocus ==
    \/ focus = "tree" /\ NoSlugs /\ ~Ticked /\ NoPosts /\ nextCat' <= 3
    \/ focus = "menu" /\ NoSlugs /\ \E c \in Clients : form'[c] = NoForm
       /\ FirstTicked
    \/ focus = "links" /\ ~Ticked /\ NoPosts /\ nextCat' <= 3
       /\ \A i \in 1 .. MaxCategories : cat'[i].parent \in {-1, Top}
    \/ focus = "posts" /\ NoSlugs /\ ~Ticked /\ nextCat' <= 2

NoClicks == \A c \in Clients : visit'[c].pc # "react"

ResponsesFocus ==
    \/ focus = "comments" /\ NoClicks /\ nextComment' <= 3
       /\ \A c \in Clients : visit'[c].pc # "away" => visit'[c].email # ""
    \/ focus = "flood" /\ NoClicks /\ accepting' = accepting
       /\ \A c \in Clients : visit'[c].pc # "away" => visit'[c].email = ""
       /\ \A m \in comments' : m.status # "hidden"
    \/ focus = "reactions" /\ mode' = mode
       /\ \A c \in Clients : visit'[c].pc \in {"react", "away"}

TemplatesFocus ==
    \/ focus = "design" /\ \A c \in Clients :
           job'[c].pc # "file" /\ (job'[c].pc = "edit" => job'[c].id = 1)
    \/ focus = "assets" /\ \A c \in Clients : job'[c].pc \notin {"edit", "saveas"}
       /\ \A t \in TemplateIds : template'[t].there => template'[t].is = last[1]

(* An author's picture comes first; the labels are only the editor's.       *)
PicturesFocus ==
    \A c \in Clients :
        /\ task'[c].pc = "rename" => task'[c].user = "editor"
        /\ task'[c].pc \in {"read", "alt"} => task'[c].user = "author"
        /\ task'[c].pc = "write" =>
              /\ task'[c].body = "document" => task'[c].file = 2
              /\ task'[c].user = (IF task'[c].file = 1 THEN "author" ELSE "editor")

(* The first row is a group, and saves at once are of one link.             *)
BlogrollFocus ==
    /\ nextLink' > 1 => link'[1].kind # "link"
    /\ \A c \in Clients : saving'[c].row.hidden => saving'[c].id = 2
    /\ \A c, d \in Clients : c # d /\ saving'[c] # NoSave /\ saving'[d] # NoSave =>
          saving'[c].id = 2 /\ saving'[d].id = 2 /\ nextLink' = 3

Next ==
    \/ /\ focus \in {"tags", "publish"} /\ EntriesNext
       /\ focus = "tags" => TagsFocus
       /\ focus = "publish" => PublishFocus
       /\ UNCHANGED <<focus, categoriesVars, responsesVars, templatesVars, pagesVars,
                      imagesVars, linksVars>>
    \/ /\ focus \in {"tree", "menu", "links", "posts"} /\ CategoriesNext
       /\ CategoriesFocus
       /\ UNCHANGED <<focus, entriesVars, responsesVars, templatesVars, pagesVars,
                      imagesVars, linksVars>>
    \/ /\ focus \in {"comments", "flood", "reactions"} /\ ResponsesNext
       /\ ResponsesFocus
       /\ UNCHANGED <<focus, entriesVars, categoriesVars, templatesVars, pagesVars,
                      imagesVars, linksVars>>
    \/ /\ focus \in {"design", "assets"} /\ TemplatesNext
       /\ TemplatesFocus
       /\ UNCHANGED <<focus, entriesVars, categoriesVars, responsesVars, pagesVars,
                      imagesVars, linksVars>>
    \/ /\ focus = "pages" /\ PagesNext
       /\ UNCHANGED <<focus, entriesVars, categoriesVars, responsesVars,
                      templatesVars, imagesVars, linksVars>>
    \/ /\ focus = "pictures" /\ ImagesNext /\ PicturesFocus
       /\ UNCHANGED <<focus, entriesVars, categoriesVars, responsesVars,
                      templatesVars, pagesVars, linksVars>>
    \/ /\ focus = "blogroll" /\ LinksNext /\ BlogrollFocus
       /\ UNCHANGED <<focus, entriesVars, categoriesVars, responsesVars,
                      templatesVars, pagesVars, imagesVars>>

Spec == Init /\ [][Next]_<<focus, entriesVars, categoriesVars,
                           responsesVars, templatesVars, pagesVars, imagesVars, linksVars>>

-----------------------------------------------------------------------------
(* Every variable stays in its domain.                                      *)
TypeOk == /\ EntriesTypeOk /\ CategoriesTypeOk /\ ResponsesTypeOk
          /\ TemplatesTypeOk /\ PagesTypeOk /\ ImagesTypeOk
          /\ LinksTypeOk
=============================================================================
