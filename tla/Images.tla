------------------------------- MODULE Images -------------------------------
(***************************************************************************)
(* Uploaded pictures: a file, its thumbnail and a row of the images table, *)
(* written one after the other by the upload form and by upload_image of   *)
(* the MCP tools, and taken away in the other order by imagesDelete, with  *)
(* renaming and the generation of alt texts beside them.                   *)
(*                                                                         *)
(* Every statement and every write to the disk is a step; each may fail,   *)
(* and the process may die before it.  A file is named after the upload    *)
(* that made it, for a random name never repeats.                          *)
(***************************************************************************)
EXTENDS ContentParameters

ImageIds == 1 .. MaxImages
Uploads == 1 .. MaxImages

(* What a body can be, as far as its fate depends on it: an image that      *)
(* decodes, one that does not, and any other kind that is accepted.         *)
Bodies == {"image", "undecodable", "document"}
KindFor(body) == IF body = "document" THEN "document" ELSE "image"

FileOf(n) == <<"file", n>>
ThumbOf(n) == <<"thumb", n>>
Files == {FileOf(n) : n \in Uploads} \cup {ThumbOf(n) : n \in Uploads}

NoPicture == [there |-> FALSE, owner |-> "none", kind |-> "none", label |-> 0,
              file |-> 0, thumb |-> FALSE, alt |-> 0]
Picture == [there : BOOLEAN, owner : Uploaders \cup {"none"},
            kind : {"image", "document", "none"}, label : 0 .. 1,
            file : Uploads \cup {0}, thumb : BOOLEAN, alt : Uploads \cup {0}]

NoTask == [pc |-> "none", user |-> "none", via |-> "none", body |-> "document",
           id |-> 0, file |-> 0, thumb |-> FALSE]
Task == [pc : {"none", "write", "thumbnail", "row", "undo", "announce",
               "delete", "unlink", "rename", "read", "alt"},
         user : Uploaders \cup {"none"}, via : {"none", "form", "mcp"},
         body : Bodies, id : ImageIds \cup {0}, file : Uploads \cup {0},
         thumb : BOOLEAN]

VARIABLES
    picture,    \* the images table
    nextPicture,\* its AUTOINCREMENT counter
    disk,       \* the tree below ImageDir
    uploads,    \* number of uploads that reached the disk
    task,       \* what each client's request is doing
    dispatched, \* uploads announced to the webhooks
    slips       \* number of failed writes, failed statements and deaths

imagesVars == <<picture, nextPicture, disk, uploads, task, dispatched, slips>>

ImagesInit ==
    /\ picture = [i \in ImageIds |-> NoPicture] /\ nextPicture = 1
    /\ disk = {} /\ uploads = 0
    /\ task = [c \in Clients |-> NoTask]
    /\ dispatched = {} /\ slips = 0

Slip == slips < MaxFaults /\ slips' = slips + 1
Turn(c, pc) == task' = [task EXCEPT ![c].pc = pc]
Drop(c) == task' = [task EXCEPT ![c] = NoTask]

-----------------------------------------------------------------------------
(* The upload.                                                              *)

(* upload_image takes images only.                                          *)
Accepted(via) == IF via = "mcp" THEN {b \in Bodies : KindFor(b) = "image"} ELSE Bodies

(* The checks that come before the disk: size, type, and the dimensions in  *)
(* the header.                                                              *)
ImagesUpload(c) ==
    /\ task[c] = NoTask /\ uploads < MaxImages
    /\ uploads' = uploads + 1
    /\ \E user \in Uploaders, via \in {"form", "mcp"} : \E body \in Accepted(via) :
          task' = [task EXCEPT ![c] = [NoTask EXCEPT !.pc = "write",
                !.user = user, !.via = via, !.body = body,
                !.file = uploads + 1]]
    /\ UNCHANGED <<picture, nextPicture, disk, dispatched, slips>>

(* A failed write removes what it wrote, or fails to.                       *)
WriteNewFile(f, written, failed) ==
    \/ written /\ disk' = disk \cup {f} /\ slips' = slips
    \/ failed /\ disk' \in {disk, disk \cup {f}} /\ Slip

WriteFile(c) ==
    /\ task[c].pc = "write"
    /\ WriteNewFile(FileOf(task[c].file),
          Turn(c, IF task[c].body = "image" THEN "thumbnail" ELSE "row"), Drop(c))
    /\ UNCHANGED <<picture, nextPicture, uploads, dispatched>>

(* A failure of writeThumbnail is not the upload's.                         *)
WriteThumbnail(c) ==
    /\ task[c].pc = "thumbnail"
    /\ WriteNewFile(ThumbOf(task[c].file),
          task' = [task EXCEPT ![c].pc = "row", ![c].thumb = TRUE], Turn(c, "row"))
    /\ UNCHANGED <<picture, nextPicture, uploads, dispatched>>

PictureRow(t) ==
    [there |-> TRUE, owner |-> t.user, kind |-> KindFor(t.body), label |-> 0,
     file |-> t.file, thumb |-> t.thumb, alt |-> 0]

InsertImage(row) ==
    /\ nextPicture <= MaxImages
    /\ picture' = [picture EXCEPT ![nextPicture] = row]
    /\ nextPicture' = nextPicture + 1

(* The statement of either client.  Only the form announces an image.       *)
CreateImage(c) ==
    /\ task[c].pc = "row"
    /\ \/ InsertImage(PictureRow(task[c])) /\ slips' = slips
          /\ IF task[c].via = "form" /\ KindFor(task[c].body) = "image"
             THEN Turn(c, "announce") ELSE Drop(c)
       \/ Slip /\ Turn(c, "undo") /\ UNCHANGED <<picture, nextPicture>>
    /\ UNCHANGED <<disk, uploads, dispatched>>

AnnounceUpload(c) ==
    /\ task[c].pc = "announce"
    /\ dispatched' = dispatched \cup {task[c].file}
    /\ Drop(c)
    /\ UNCHANGED <<picture, nextPicture, disk, uploads, slips>>

OriginalOf(n, thumb) == {FileOf(n)}
FilesOf(n, thumb) == {FileOf(n)} \cup IF thumb THEN {ThumbOf(n)} ELSE {}

(* After the row of an upload failed, or the row of a picture is gone.  No  *)
(* error is looked at: each file is removed or, by a slip, stays.           *)
DeleteFiles(c) ==
    /\ task[c].pc \in {"undo", "unlink"}
    /\ LET theirs == FilesOf(task[c].file, task[c].thumb) IN
          \/ disk' = disk \ theirs /\ slips' = slips
          \/ Slip /\ \E left \in SUBSET theirs \ {{}} : disk' = disk \ (theirs \ left)
    /\ Drop(c)
    /\ UNCHANGED <<picture, nextPicture, uploads, dispatched>>

-----------------------------------------------------------------------------
(* A stored picture.                                                        *)

(* "editor" is an administrator or a power user.                            *)
CanDeleteImage(user, owner) == user = "editor" \/ user = owner

(* ImageByID and the permission; what was read is kept for later.           *)
LoadPicture(c) ==
    /\ task[c] = NoTask
    /\ \E i \in ImageIds, user \in Uploaders, pc \in {"delete", "rename"} :
          /\ picture[i].there /\ CanDeleteImage(user, picture[i].owner)
          /\ task' = [task EXCEPT ![c] = [NoTask EXCEPT !.pc = pc,
                !.user = user, !.id = i, !.file = picture[i].file,
                !.thumb = picture[i].thumb]]
    /\ UNCHANGED <<picture, nextPicture, disk, uploads, dispatched, slips>>

(* DeleteImage: a row that another request deleted meanwhile is an error,   *)
(* and the files are then the other's to remove.                            *)
DeleteImage(c) ==
    /\ task[c].pc = "delete"
    /\ IF picture[task[c].id].there
       THEN /\ picture' = [picture EXCEPT ![task[c].id] = NoPicture]
            /\ Turn(c, "unlink")
       ELSE Drop(c) /\ picture' = picture
    /\ UNCHANGED <<nextPicture, disk, uploads, dispatched, slips>>

UpdateWhere(i, new) ==
    picture' = IF picture[i].there THEN [picture EXCEPT ![i] = new] ELSE picture

(* Only the label changes; stored_path stays.                               *)
UpdateImageFilename(c) ==
    /\ task[c].pc = "rename"
    /\ LET i == task[c].id IN UpdateWhere(i, [picture[i] EXCEPT !.label = 1])
    /\ Drop(c)
    /\ UNCHANGED <<nextPicture, disk, uploads, dispatched, slips>>

(* imagesGenerateAlt, which anyone who is signed in may ask for.            *)
LoadAltGenerationImage(c) ==
    /\ task[c] = NoTask
    /\ \E i \in ImageIds, user \in Uploaders :
          /\ picture[i].there /\ picture[i].kind = "image"
          /\ task' = [task EXCEPT ![c] = [NoTask EXCEPT !.pc = "read",
                !.user = user, !.id = i, !.file = picture[i].file]]
    /\ UNCHANGED <<picture, nextPicture, disk, uploads, dispatched, slips>>

(* The file as it is on disk goes to the provider.                          *)
ReadStoredFile(c) ==
    /\ task[c].pc = "read"
    /\ IF FileOf(task[c].file) \in disk THEN Turn(c, "alt") ELSE Drop(c)
    /\ UNCHANGED <<picture, nextPicture, disk, uploads, dispatched, slips>>

(* The answer comes after many seconds, or is an error.                     *)
UpdateImageAltText(c) ==
    /\ task[c].pc = "alt"
    /\ LET i == task[c].id IN
          \/ UpdateWhere(i, [picture[i] EXCEPT !.alt = task[c].file])
          \/ picture' = picture
    /\ Drop(c)
    /\ UNCHANGED <<nextPicture, disk, uploads, dispatched, slips>>

(* The process dies before the next step, also in the middle of a file.     *)
DieImages(c) ==
    /\ task[c] # NoTask /\ Slip /\ Drop(c)
    /\ disk' \in {disk} \cup
          CASE task[c].pc = "write"     -> {disk \cup {FileOf(task[c].file)}}
            [] task[c].pc = "thumbnail" -> {disk \cup {ThumbOf(task[c].file)}}
            [] OTHER                    -> {}
    /\ UNCHANGED <<picture, nextPicture, uploads, dispatched>>

-----------------------------------------------------------------------------
(* The gallery: a page of the rows, newest first.                           *)

CountImages == Cardinality({i \in ImageIds : picture[i].there})
Rank(i) == Cardinality({j \in ImageIds : j >= i /\ picture[j].there})

ListImages(limit, offset) ==
    {i \in ImageIds : picture[i].there /\ Rank(i) \in offset + 1 .. offset + limit}

TotalPages(total) ==
    IF total = 0 THEN 1 ELSE (total + ImagesPerPage - 1) \div ImagesPerPage

(* listPagination brings a page that is too high down to the last.          *)
ImagesList(page) ==
    LET total == TotalPages(CountImages)
        shown == IF page > total THEN total ELSE page
    IN ListImages(ImagesPerPage, (shown - 1) * ImagesPerPage)

ImagesNext ==
    \E c \in Clients :
        \/ ImagesUpload(c) \/ WriteFile(c) \/ WriteThumbnail(c) \/ CreateImage(c)
        \/ AnnounceUpload(c) \/ DeleteFiles(c)
        \/ LoadPicture(c) \/ DeleteImage(c) \/ UpdateImageFilename(c)
        \/ LoadAltGenerationImage(c) \/ ReadStoredFile(c) \/ UpdateImageAltText(c)
        \/ DieImages(c)

ImagesSpec == ImagesInit /\ [][ImagesNext]_imagesVars

-----------------------------------------------------------------------------
(* Every variable stays in its domain.                                      *)
ImagesTypeOk ==
    /\ picture \in [ImageIds -> Picture] /\ nextPicture \in 1 .. MaxImages + 1
    /\ disk \subseteq Files /\ uploads \in 0 .. MaxImages
    /\ task \in [Clients -> Task]
    /\ dispatched \subseteq Uploads /\ slips \in 0 .. MaxFaults

Held == {FileOf(picture[i].file) : i \in {j \in ImageIds : picture[j].there}}
        \cup {ThumbOf(picture[i].file) : i \in {j \in ImageIds : picture[j].thumb}}
InHand == UNION {{FileOf(task[c].file), ThumbOf(task[c].file)} :
                  c \in {d \in Clients : task[d].pc \in
                         {"write", "thumbnail", "row", "undo", "unlink"}}}

(* The row of a picture names files that exist, and its alt text was made   *)
(* from the picture itself, however deletions, renames and late answers of  *)
(* the provider interleave; every other file is that of a request that is   *)
(* at it, or was left by a failure of the disk or the death of a process,   *)
(* two by each at most (SaveUpload, CreateImage, imagesDelete, DeleteFiles).*)
FilesMatchRows ==
    /\ Held \subseteq disk
    /\ Cardinality(disk \ (Held \cup InHand)) <= 2 * slips
    /\ \A i \in ImageIds : picture[i].alt \in {0, picture[i].file}

(* The gallery shows every picture on exactly one of its pages, none of     *)
(* them empty while there are any, and a page that is gone shows the last.  *)
GalleryReachesAll ==
    LET pages == 1 .. TotalPages(CountImages) IN
    /\ {i \in ImageIds : picture[i].there} = UNION {ImagesList(p) : p \in pages}
    /\ \A p, q \in pages : p # q => ImagesList(p) \cap ImagesList(q) = {}
    /\ CountImages > 0 => \A p \in pages : ImagesList(p) # {}

(* The pictures people see are those that are there.                        *)
PicturesHold == FilesMatchRows /\ GalleryReachesAll
=============================================================================
