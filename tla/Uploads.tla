------------------------------ MODULE Uploads ------------------------------
(***************************************************************************)
(* Rows that point to stored files: the images of one portfolio item and   *)
(* the profile's photo.  The storage takes no part in a transaction.       *)
(***************************************************************************)
EXTENDS CommunityStore

CONSTANTS
    MaxImages,  \* PORTFOLIO_MAX_IMAGES
    MaxFiles    \* bound: files that are uploaded

ASSUME UploadAssumption == MaxImages \in Nat /\ MaxFiles \in Nat

VARIABLES
    item,     \* whether the PortfolioItem row exists
    images,   \* PortfolioImage rows: the file of each
    photo,    \* Profile.profilePhoto: the file, as a set of at most one
    files,    \* files in the storage
    uploaded  \* files uploaded so far: the last one's name

uploadVars == <<item, images, photo, files, uploaded>>

CanUpload ==
    uploaded + Cardinality({r \in Requests : req[r].pc = "upload"}) < MaxFiles

Upload(r) ==
    /\ req[r].pc = "upload"
    /\ uploaded' = uploaded + 1
    /\ files' = files \cup {uploaded'}
    /\ req' = [req EXCEPT ![r].pc = IF req[r].op = "PHOTO" THEN "delete_old" ELSE "insert",
                          ![r].row = uploaded']
    /\ UNCHANGED <<item, images, photo>>

(***************************************************************************)
(* Portfolio images                                                        *)
(***************************************************************************)
RoomForImage == Cardinality(images) < MaxImages

BeginAddImage(r) ==
    /\ Begins(r, "IMAGE")
    /\ item /\ CanUpload /\ RoomForImage
    /\ Starts(r, "IMAGE", "upload", "nobody", 0, {})
    /\ UNCHANGED uploadVars

\* The foreign key refuses the row when the item is gone.
InsertImage(r) ==
    /\ At(r, "IMAGE", "insert")
    /\ images' = IF item THEN images \cup {req[r].row} ELSE images
    /\ Ends(r)
    /\ UNCHANGED <<item, photo, files, uploaded>>

BeginRemoveImage(r) ==
    /\ Begins(r, "IMAGE_REMOVE")
    /\ \E image \in images : Starts(r, "IMAGE_REMOVE", "delete_row", "nobody", 0, {image})
    /\ UNCHANGED uploadVars

\* delete() throws when the row is gone.
DeleteImage(r) ==
    /\ At(r, "IMAGE_REMOVE", "delete_row")
    /\ images' = images \ req[r].seen
    /\ IF images' = images THEN Ends(r) ELSE Goto(r, "delete_files")
    /\ UNCHANGED <<item, photo, files, uploaded>>

BeginRemoveItem(r) ==
    /\ Begins(r, "ITEM_REMOVE")
    /\ item
    /\ Starts(r, "ITEM_REMOVE", "delete_item", "nobody", 0, images)
    /\ UNCHANGED uploadVars

\* Mutant: the image rows outlive the item.
DeleteItemOnly(r) ==
    /\ At(r, "ITEM_REMOVE", "delete_item")
    /\ item' = FALSE
    /\ IF item THEN Goto(r, "delete_files") ELSE Ends(r)
    /\ UNCHANGED <<images, photo, files, uploaded>>

\* The images go with the item (onDelete: Cascade).
DeleteItem(r) ==
    /\ At(r, "ITEM_REMOVE", "delete_item")
    /\ item' = FALSE /\ images' = {}
    /\ IF item THEN Goto(r, "delete_files") ELSE Ends(r)
    /\ UNCHANGED <<photo, files, uploaded>>

\* One file after another, of those the call read before it deleted the rows.
DeleteFile(r) ==
    /\ req[r].pc = "delete_files"
    /\ IF req[r].seen = {}
       THEN Ends(r) /\ UNCHANGED files
       ELSE \E file \in req[r].seen :
               /\ files' = files \ {file}
               /\ req' = [req EXCEPT ![r].seen = @ \ {file}]
    /\ UNCHANGED <<item, images, photo, uploaded>>

(***************************************************************************)
(* The profile's photo                                                     *)
(***************************************************************************)
BeginPhoto(r) ==
    /\ Begins(r, "PHOTO")
    /\ CanUpload
    /\ Starts(r, "PHOTO", "upload", "nobody", 0, photo)
    /\ UNCHANGED uploadVars

DeleteOldPhoto(r) ==
    /\ At(r, "PHOTO", "delete_old")
    /\ files' = files \ req[r].seen
    /\ Goto(r, "update")
    /\ UNCHANGED <<item, images, photo, uploaded>>

UpdatePhoto(r) ==
    /\ At(r, "PHOTO", "update")
    /\ photo' = {req[r].row}
    /\ Ends(r)
    /\ UNCHANGED <<item, images, files, uploaded>>

UploadsInit ==
    /\ item = TRUE /\ images = {} /\ photo = {} /\ files = {} /\ uploaded = 0

UploadsBegin ==
    \E r \in Requests : \/ BeginAddImage(r) \/ BeginRemoveImage(r) \/ BeginRemoveItem(r)
                        \/ BeginPhoto(r)

UploadsStep(r) ==
    \/ Upload(r) \/ InsertImage(r) \/ DeleteImage(r) \/ DeleteItem(r) \/ DeleteFile(r)
    \/ DeleteOldPhoto(r) \/ UpdatePhoto(r)
=============================================================================
