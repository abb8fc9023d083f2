---------------------------- MODULE WeddingDrawer ----------------------------
(***************************************************************************)
(* The settings drawer of the couple's dashboard (settings-drawer.tsx with  *)
(* event-fields.tsx and settings-fields.tsx): drafts of two tabs, their      *)
(* dirty marks, the warning before a draft is dropped, the uploads that      *)
(* write into a draft when they end, and the key-wise merge of the server    *)
(* (patchEvent, patchSettings).  Another host may edit the same wedding.     *)
(*                                                                         *)
(* A few fields stand for all: a text and an uploaded picture of the event,  *)
(* its subdomain, a text of the site, its cover photo with a focal point,    *)
(* and its album.  A draft holds a value for each key that was changed.      *)
(***************************************************************************)
EXTENDS Integers, Sequences, FiniteSets, TLC

CONSTANTS
  FirstAlbum,   \* photos of the album when the drawer opens first
  MaxEdits,     \* bound: changes made by hand
  MaxUploads,   \* bound: uploads started
  MaxSaves,     \* bound: saves sent
  Keys,         \* fields in use
  Nil

LOCAL S == INSTANCE SequencesExt

VARIABLES
  stored,   \* server: [Keys -> value], and the subdomain proposed by the couple
  drawer,   \* the drawer
  loads,    \* uploads under way
  save      \* the save under way, or Nil

drawerVars == <<stored, drawer, loads, save>>

TabOf(k) == IF k \in {"name", "subdomain", "map"} THEN "event" ELSE "site"
KeysOf(tab) == {k \in Keys : TabOf(k) = tab}

Photo(url) == [url |-> url, x |-> 50]
ValueOf(k, name, album) ==
  CASE k = "gallery" -> album
    [] k = "hero" -> Photo(<<name>>)
    [] k = "map" -> <<name>>
    [] OTHER -> name
OtherHosts(k) == ValueOf(k, "hers", <<>>)

NoDraft == [k \in Keys |-> Nil]

DrawerInit ==
  /\ stored = [value |-> [k \in Keys |-> ValueOf(k, "old", FirstAlbum)], proposed |-> Nil, hers |-> {}]
  /\ drawer = [open |-> FALSE, tab |-> "event", props |-> stored.value, draft |-> NoDraft,
               uploading |-> FALSE, started |-> 0, edits |-> 0, saves |-> 0,
               typed |-> NoDraft, touched |-> {}, raced |-> FALSE]
  /\ loads = {}
  /\ save = Nil

(***************************************************************************)
(* What the drawer derives.  val: the draft's value, or the one last served. *)
(***************************************************************************)
val(k) == IF drawer.draft[k] # Nil THEN drawer.draft[k] ELSE drawer.props[k]
fieldDirty(k) == drawer.draft[k] # Nil /\ drawer.draft[k] # drawer.props[k]
draftDirty(tab) == \E k \in KeysOf(tab) : fieldDirty(k)
activeDirty == draftDirty(drawer.tab)

Cleared(draft, tab) == [k \in Keys |-> IF TabOf(k) = tab THEN Nil ELSE draft[k]]

(* What a drop of these tabs' drafts leaves of what was put in: a confirmed    *)
(* drop nothing; an unasked one keeps the claim on fields that were dirty.     *)
Forgotten(tabs, asked) ==
  [k \in Keys |-> IF TabOf(k) \in tabs /\ (asked \/ ~fieldDirty(k)) THEN Nil ELSE drawer.typed[k]]

(***************************************************************************)
(* Opening, closing and changing tabs.  confirmLeave asks about the active   *)
(* tab only; an answer of no leaves everything as it is.                    *)
(***************************************************************************)
openDrawer ==
  /\ ~drawer.open
  /\ drawer' = [drawer EXCEPT !.open = TRUE, !.tab = "event", !.draft = NoDraft,
                              !.typed = Forgotten({"event", "site"}, FALSE)]
  /\ UNCHANGED <<stored, loads, save>>

(* The cross, the backdrop and Escape. *)
attemptClose ==
  /\ drawer.open
  /\ drawer' = [drawer EXCEPT !.open = FALSE, !.draft = NoDraft,
                  !.typed = IF activeDirty THEN Forgotten({drawer.tab}, TRUE)
                            ELSE Forgotten({"event", "site"}, FALSE)]
  /\ UNCHANGED <<stored, loads, save>>

switchTab(next) ==
  /\ drawer.open /\ next # drawer.tab
  /\ drawer' = [drawer EXCEPT !.tab = next, !.draft = Cleared(@, drawer.tab),
                              !.typed = Forgotten({drawer.tab}, activeDirty)]
  /\ UNCHANGED <<stored, loads, save>>

(* The cancel button of the bar, there while the active tab is dirty. *)
resetActive ==
  /\ drawer.open /\ activeDirty
  /\ drawer' = [drawer EXCEPT !.draft = Cleared(@, drawer.tab),
                              !.typed = Forgotten({drawer.tab}, TRUE)]
  /\ UNCHANGED <<stored, loads, save>>

(***************************************************************************)
(* Changing fields.  raced remembers that a change met a save or an upload   *)
(* of the same tab that was still under way.                                *)
(***************************************************************************)
Patched(k, v) ==
  [drawer EXCEPT !.draft[k] = v, !.typed[k] = v, !.touched = @ \cup {k},
                 !.raced = @ \/ (save # Nil /\ save.tab = TabOf(k))
                             \/ (TabOf(k) # drawer.tab \/ ~drawer.open)]

Edit(k, v) ==
  /\ drawer.open /\ k \in KeysOf(drawer.tab) /\ v # val(k)
  /\ drawer.edits < MaxEdits
  /\ drawer' = [Patched(k, v) EXCEPT !.edits = @ + 1,
                  !.raced = @ \/ \E u \in loads : u.key = k /\ k = "gallery"]
  /\ UNCHANGED <<stored, loads, save>>

Texts == {"old", "mine"}
evPatch(k) == k \in KeysOf("event") \ {"map"} /\ \E v \in Texts : Edit(k, v)
sitePatch(k) == k \in KeysOf("site") \ {"hero", "gallery"} /\ \E v \in Texts : Edit(k, v)

(* FocalPicker: a point or an arrow key, kept within the picture. *)
clampFocal(x) == IF x < 0 THEN 0 ELSE IF x > 100 THEN 100 ELSE x
moveFocal(x, step) == clampFocal(x + step)
Album == val("gallery")

pickFocal(step) ==
  \/ "hero" \in Keys /\ Edit("hero", [val("hero") EXCEPT !.x = moveFocal(@, step)])
  \/ /\ "gallery" \in Keys
     /\ \E i \in DOMAIN Album : Edit("gallery", [Album EXCEPT ![i].x = moveFocal(@, step)])

reorderGallery(from, to) ==
  /\ "gallery" \in Keys /\ from # to /\ {from, to} \subseteq DOMAIN Album
  /\ Edit("gallery", S!InsertAt(S!RemoveAt(Album, from), to, Album[from]))

removePhoto(i) ==
  /\ "gallery" \in Keys /\ i \in DOMAIN Album
  /\ Edit("gallery", S!RemoveAt(Album, i))

(* galleryBlocks: how many photos each of the three blocks of the grid shows. *)
GALLERY_BLOCKS == <<3, 5, 4>>
galleryBlocks(n) ==
  LET atMost(x, y) == IF x < y THEN x ELSE y
      first == atMost(3, n)  second == atMost(5, n - first)
  IN <<first, second, n - first - second>>

(***************************************************************************)
(* Uploads: presign and post, minutes apart from the click.  A picture of    *)
(* one field replaces it; a photo of the album is put into the album as it   *)
(* was when it was picked; several are added one after the other to it.      *)
(***************************************************************************)
StartUpload(u) ==
  /\ drawer.open /\ drawer.started < MaxUploads
  /\ TabOf(u.key) = drawer.tab /\ u.key \in Keys
  /\ loads' = loads \cup {[id |-> drawer.started + 1] @@ u}
  /\ drawer' = [drawer EXCEPT !.started = @ + 1,
                  !.uploading = IF u.at = 0 /\ u.key = "gallery" THEN @ ELSE TRUE]
  /\ UNCHANGED <<stored, save>>

Task(k, at, base, left) == [key |-> k, at |-> at, base |-> base, left |-> left]
uploadFile(k) == k \in {"map", "hero"} /\ StartUpload(Task(k, 0, Nil, 1))
replacePhoto(i) ==
  "gallery" \in Keys /\ i \in DOMAIN Album /\ StartUpload(Task("gallery", i, Album, 1))
addPhotos(n) == "gallery" \in Keys /\ StartUpload(Task("gallery", 0, Album, n))

NewName(u) == <<"new", u.id, u.left>>
Result(u) ==
  IF u.key = "map" THEN NewName(u)
  ELSE IF u.key = "hero" THEN Photo(NewName(u))
  ELSE IF u.at = 0 THEN Append(u.base, Photo(NewName(u)))
  ELSE [u.base EXCEPT ![u.at].url = NewName(u)]

(* Other uploads of the album still hold the album they were picked in. *)
Overlaps(u) == u.key = "gallery" /\ \E o \in loads \ {u} : o.key = "gallery"
More(u, base) == IF u.left > 1 THEN {[u EXCEPT !.base = base, !.left = @ - 1]} ELSE {}
Quiet(u) == IF u.at = 0 /\ u.key = "gallery" THEN drawer.uploading ELSE FALSE

uploadEnds(u) ==
  /\ drawer' = [Patched(u.key, Result(u)) EXCEPT !.uploading = Quiet(u), !.raced = @ \/ Overlaps(u)]
  /\ loads' = (loads \ {u}) \cup More(u, Result(u))
  /\ UNCHANGED <<stored, save>>

uploadFailed(u) ==
  /\ drawer' = [drawer EXCEPT !.uploading = Quiet(u)]
  /\ loads' = (loads \ {u}) \cup More(u, u.base)
  /\ UNCHANGED <<stored, save>>

(***************************************************************************)
(* Saving: the draft of the active tab, merged by key on the server.  The    *)
(* subdomain of a couple is only proposed: the live one stays.               *)
(***************************************************************************)
body(tab) == Cleared(drawer.draft, IF tab = "event" THEN "site" ELSE "event")

startSave ==
  /\ drawer.open /\ save = Nil /\ activeDirty /\ drawer.saves < MaxSaves
  /\ save' = [tab |-> drawer.tab, body |-> body(drawer.tab), answer |-> Nil]
  /\ drawer' = [drawer EXCEPT !.saves = @ + 1]
  /\ UNCHANGED <<stored, loads>>

Merge(row, patched) ==
  [k \in Keys |-> IF patched[k] # Nil /\ k # "subdomain" THEN patched[k] ELSE row[k]]

patchSettings ==
  /\ save # Nil /\ save.answer = Nil
  /\ stored' = [value |-> Merge(stored.value, save.body),
                proposed |-> IF "subdomain" \in Keys /\ save.body["subdomain"] # Nil
                             THEN save.body["subdomain"] ELSE stored.proposed,
                hers |-> stored.hers]
  /\ save' = [save EXCEPT !.answer = stored'.value]
  /\ UNCHANGED <<drawer, loads>>

(* The answer clears the tab's draft and becomes what the form starts from.   *)
saved ==
  /\ save # Nil /\ save.answer # Nil
  /\ drawer' = [drawer EXCEPT !.draft = Cleared(@, save.tab),
                  !.props = [k \in Keys |-> IF TabOf(k) = save.tab THEN save.answer[k] ELSE @[k]],
                  !.typed = [k \in Keys |-> IF save.body[k] # Nil /\ @[k] = save.body[k]
                                            THEN Nil ELSE @[k]]]
  /\ save' = Nil
  /\ UNCHANGED <<stored, loads>>

(* Refused (a subdomain of another wedding), or the answer is lost. *)
saveFailed ==
  /\ save # Nil /\ save' = Nil
  /\ UNCHANGED <<stored, drawer, loads>>

(* Another host saves one field from another device. *)
otherHostSaves(k) ==
  /\ stored.hers = {} /\ k # "subdomain"
  /\ stored' = [stored EXCEPT !.hers = {k},
                  !.value[k] = OtherHosts(k)]
  /\ drawer' = [drawer EXCEPT !.touched = {x \in Keys : drawer.draft[x] # Nil} \cup
                                          (IF save = Nil THEN {} ELSE {x \in Keys : save.body[x] # Nil})]
  /\ UNCHANGED <<loads, save>>

DrawerNext ==
  \/ openDrawer \/ attemptClose \/ resetActive \/ startSave \/ patchSettings \/ saved \/ saveFailed
  \/ \E tab \in {"event", "site"} : switchTab(tab)
  \/ \E k \in Keys : evPatch(k) \/ sitePatch(k) \/ uploadFile(k) \/ otherHostSaves(k)
  \/ \E step \in {-50, 50} : pickFocal(step)
  \/ \E i, j \in 1 .. 3 : reorderGallery(i, j)
  \/ \E i \in 1 .. 3 : removePhoto(i) \/ replacePhoto(i)
  \/ \E n \in 1 .. 2 : addPhotos(n)
  \/ \E u \in loads : uploadEnds(u) \/ uploadFailed(u)

DrawerSpec == DrawerInit /\ [][DrawerNext]_drawerVars

-----------------------------------------------------------------------------
DrawerTypeOK ==
  /\ drawer.tab \in {"event", "site"} /\ drawer.edits \in 0 .. MaxEdits
  /\ drawer.touched \subseteq Keys /\ stored.hers \subseteq Keys
  /\ "hero" \in Keys => val("hero").x \in 0 .. 100

(* Whatever the couple put into the form, by hand or by upload, is what the   *)
(* form shows until they save it, cancel it or agree to lose it: no close,    *)
(* tab change, refused save or finished upload drops it or puts another value *)
(* in its place.  Changes made while a save of the tab is under way, and      *)
(* uploads that end in a tab that was left or among other album changes, are  *)
(* where the code does lose input.                                          *)
InputIsKept ==
  ~drawer.raced => \A k \in Keys : drawer.typed[k] # Nil => val(k) = drawer.typed[k]

(* A save of this device never takes back what another host saved in a field  *)
(* the couple did not touch here.                                           *)
OtherHostsFieldsStay ==
  \A k \in stored.hers \ drawer.touched :
    stored.value[k] = OtherHosts(k)

(* Every photo of an album has one cell of the drawer's grid, and no block    *)
(* starts before the one above it is full.                                  *)
EveryPhotoCanBeEdited ==
  \A n \in 0 .. 16 :
    LET b == galleryBlocks(n) IN
      /\ b[1] + b[2] + b[3] = n
      /\ b[2] > 0 => b[1] = GALLERY_BLOCKS[1]
      /\ b[3] > 0 => b[2] = GALLERY_BLOCKS[2]

DrawerSound == InputIsKept /\ OtherHostsFieldsStay /\ EveryPhotoCanBeEdited
=============================================================================
