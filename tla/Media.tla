------------------------------- MODULE Media -------------------------------
(***************************************************************************)
(* The pictures: a profile shows at most one in each slot (AuthService's     *)
(* avatar, the logo and banner of SellerService and KopdesConsoleService),   *)
(* kept in a storage that is neither part of the database nor of its         *)
(* transactions.  A product shows several, one of them first.                *)
(***************************************************************************)
EXTENDS Requests

CONSTANTS Slots,           \* {avatar}, or {logo, banner}
          Logo,            \* the slot a partner's location form writes too
          MaxPictures      \* bound: pictures uploaded

Pictures == 1..MaxPictures
NoPicture == 0
NoUpload == [s \in Slots |-> NoPicture]

VARIABLES shown,           \* slot -> picture the profile's row points to
          stored,          \* the pictures that are in the storage
          uploads,         \* how many were uploaded
          doubted,         \* an UPDATE was reported as failed but was done
          entered,         \* a form has put another stored picture in the row
          primaries,       \* ProductImage rows of one product with isPrimary
          crossed          \* two product updates were under way at once

mediaVars == <<shown, stored, uploads, doubted, entered, primaries, crossed>>

MediaInit ==
    /\ shown = NoUpload
    /\ stored = {}
    /\ uploads = 0
    /\ doubted = FALSE
    /\ entered = FALSE
    /\ primaries = {}
    /\ crossed = FALSE

(* updateProfileMedia, updateAvatar: the files come, the row is read.        *)
MediaAsks(w, slots) ==
    /\ Start(w, [op |-> "upload", todo |-> slots, old |-> shown, new |-> NoUpload])
    /\ UNCHANGED mediaVars

(* uploadFile, one slot after the other.                                    *)
Uploaded(w, s) ==
    LET j == job[w] IN
    /\ Doing(w, "upload") /\ s \in j.todo
    /\ uploads < MaxPictures
    /\ uploads' = uploads + 1
    /\ stored' = stored \cup {uploads'}
    /\ Goto(w, [j EXCEPT !.todo = @ \ {s}, !.new[s] = uploads',
                         !.op = IF j.todo = {s} THEN "point" ELSE "upload"])
    /\ UNCHANGED <<shown, doubted, entered, primaries, crossed>>

(* An upload that is refused takes the other file's with it.                *)
PicturesIn(slots) == {slots[s] : s \in Slots} \ {NoPicture}

Cleans(w, pictures) == Goto(w, [op |-> "clean", pictures |-> pictures])

UploadFails(w) ==
    /\ Doing(w, "upload")
    /\ Cleans(w, PicturesIn(job[w].new))
    /\ UNCHANGED mediaVars

(* UPDATE; undefined columns stay.  The pictures it replaces, as they were   *)
(* READ, are deleted afterwards.                                            *)
Pointed(w) ==
    LET new == job[w].new
        slots == {s \in Slots : new[s] # NoPicture} IN
    /\ shown' = [s \in Slots |-> IF s \in slots THEN new[s] ELSE shown[s]]

Replaced_Mutant(k) == PicturesIn(k.old)     \* both slots
Replaced(k) == {k.old[s] : s \in {t \in Slots : k.new[t] # NoPicture}} \ {NoPicture}

RowPointed(w) ==
    /\ Doing(w, "point")
    /\ Pointed(w)
    /\ Cleans(w, Replaced(job[w]))
    /\ UNCHANGED <<stored, uploads, doubted, entered, primaries, crossed>>

(* The catch: the new pictures are deleted.  When it was only the answer     *)
(* that was lost, the row already points to them.                           *)
PointFails(w) ==
    /\ Doing(w, "point")
    /\ \/ UNCHANGED <<shown, doubted>>
       \/ Pointed(w) /\ doubted' = TRUE
    /\ Cleans(w, PicturesIn(job[w].new))
    /\ UNCHANGED <<stored, uploads, entered, primaries, crossed>>

(* deleteFile never throws: a picture it could not delete stays behind.      *)
Cleaned(w) ==
    /\ Doing(w, "clean")
    /\ \E kept \in SUBSET job[w].pictures : stored' = (stored \ job[w].pictures)
                                                      \cup (kept \cap stored)
    /\ Finish(w)
    /\ UNCHANGED <<shown, uploads, doubted, entered, primaries, crossed>>

(* UmkmService.updateLocation writes the URL that the form sent, whatever the *)
(* row names by then: nothing, or an address outside the storage, or any     *)
(* picture that was once uploaded.                                          *)
LogoEntered(picture) ==
    /\ Logo \in Slots /\ picture <= uploads
    /\ shown' = [shown EXCEPT ![Logo] = picture]
    /\ entered' = (entered \/ picture \notin {NoPicture, shown[Logo]})
    /\ UNCHANGED <<stored, uploads, doubted, primaries, crossed, job>>

(* Product pictures, update: the first of the new ones becomes the primary   *)
(* one when the product has none.                                           *)
ProductUpdateReads(w) ==
    /\ Start(w, [op |-> "attach", first |-> primaries = {}])
    /\ crossed' = (crossed \/ \E o \in Workers \ {w} : Doing(o, "attach"))
    /\ UNCHANGED <<shown, stored, uploads, doubted, entered, primaries>>

ImagesAttached(w) ==
    /\ Doing(w, "attach") /\ uploads < MaxPictures
    /\ uploads' = uploads + 1
    /\ stored' = stored \cup {uploads'}
    /\ primaries' = IF job[w].first THEN primaries \cup {uploads'} ELSE primaries
    /\ Finish(w)
    /\ UNCHANGED <<shown, doubted, entered, crossed>>

MediaNext ==
    \/ \E w \in Workers :
         \/ \E slots \in SUBSET Slots \ {{}} : MediaAsks(w, slots)
         \/ \E s \in Slots : Uploaded(w, s)
         \/ UploadFails(w) \/ RowPointed(w) \/ PointFails(w) \/ Cleaned(w)
         \/ ProductUpdateReads(w) \/ ImagesAttached(w)
         \/ Crash(w) /\ UNCHANGED mediaVars
    \/ \E picture \in Pictures \cup {NoPicture} : LogoEntered(picture)

(* A profile never points to a picture that was deleted, and a product never *)
(* shows two first pictures, however uploads, failures and updates of the    *)
(* same profile cross, and although the location form clears the logo or     *)
(* sends it back in between: what is deleted is what the row pointed to      *)
(* before.  (Not so when a write was done that was reported as failed, when  *)
(* a form has put a picture in the row that the row did not show, such as a  *)
(* logo the partner had replaced since the form was opened, or when two      *)
(* updates of one product crossed.)                                         *)
PicturesStored ==
    /\ doubted \/ entered \/ PicturesIn(shown) \subseteq stored
    /\ crossed \/ Cardinality(primaries) <= 1
=============================================================================
