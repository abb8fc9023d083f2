---------------------------- MODULE ProductEditor ----------------------------
(***************************************************************************)
(* The product list (products-view.tsx) and the product form                 *)
(* (product-editor.tsx, product-form.ts, product-gallery.tsx) of the admin    *)
(* pages, against the server that validates and stores the whole product      *)
(* (admin_products.go).  A text is the triple the validations tell apart: how  *)
(* many UTF-16 units and code points are left of it once trimmed, and whether *)
(* it has the shape its field wants.                                        *)
(*                                                                         *)
(* removed and doubt are history: photos taken out and whether an upload was   *)
(* running then, and whether an answer was lost that may have stored a draft. *)
(***************************************************************************)
EXTENDS Integers, Sequences, FiniteSets

CONSTANTS
  Texts,      \* texts typed into the name
  Slugs,      \* addresses typed
  TakenSlugs, \* those another product has
  Prices,     \* prices typed
  MaxEdits, MaxSaves, MaxUploads, \* bounds: fields and photos touched, requests, photos uploaded
  None

VARIABLES
  product, \* the row: the stored input, or None before it exists
  editor,  \* the form
  upload,  \* the gallery's upload: the photos the page showed when it began
  request  \* the save or delete under way

editorVars == <<product, editor, upload, request>>

Text(units, points, shaped) == [units |-> units, points |-> points, shaped |-> shaped]
MAX_NAME == 200
MAX_SLUG == 200

Blank == -1
Huge == 10^6   \* stands for a whole number the browser takes and the wire's 64 bits do not

(***************************************************************************)
(* parseIntField, validateDraft; cleanProductInput and the unique index.      *)
(***************************************************************************)
parseIntField(price) == IF price \in Nat THEN price ELSE None

validateDraft(draft) ==
  (IF draft.name.units = 0 \/ draft.name.units > MAX_NAME THEN {"name"} ELSE {})
  \cup (IF draft.slug.units = 0 \/ draft.slug.units > MAX_SLUG \/ ~draft.slug.shaped THEN {"slug"} ELSE {})
  \cup (IF parseIntField(draft.price) = None THEN {"price"} ELSE {})

draftToInput(draft) == [draft EXCEPT !.price = parseIntField(draft.price)]
draftFromProduct(stored) == stored
emptyDraft == [name |-> Text(0, 0, TRUE), slug |-> Text(0, 0, FALSE), price |-> Blank, images |-> <<>>]

cleanProductInput(input) ==
  (IF input.name.points \notin 1 .. 200 THEN {"name"} ELSE {})
  \cup (IF input.slug.points > 200 \/ ~input.slug.shaped THEN {"slug"} ELSE {})
productWriteConflict(input) == IF input.slug \in TakenSlugs THEN {"slug"} ELSE {}
Decodes(input) == input.price # Huge

(* slugify: letters lose their marks, everything else between two letters      *)
(* becomes one dash, dashes at the ends go.                                  *)
Plain(c) == CASE c \in {"e", "E", "marked e"} -> "e" [] c = "crossed d" -> "d" [] OTHER -> "-"
Dashed(name) ==
  LET f[i \in 0 .. Len(name)] ==
        IF i = 0 THEN <<>>
        ELSE IF Plain(name[i]) = "-" /\ f[i - 1] # <<>> /\ f[i - 1][Len(f[i - 1])] = "-" THEN f[i - 1]
        ELSE Append(f[i - 1], Plain(name[i]))
  IN f[Len(name)]
slugify(name) ==
  LET d == Dashed(name)
      a == IF d # <<>> /\ d[1] = "-" THEN 2 ELSE 1
      b == IF d # <<>> /\ d[Len(d)] = "-" THEN Len(d) - 1 ELSE Len(d)
  IN SubSeq(d, a, b)
SLUG_RE(slug) ==
  /\ slug # <<>> /\ slug[1] # "-" /\ slug[Len(slug)] # "-"
  /\ \A i \in 1 .. Len(slug) - 1 : ~(slug[i] = "-" /\ slug[i + 1] = "-")

(***************************************************************************)
(* The list: tabs and search.                                               *)
(***************************************************************************)
PRODUCT_STATUSES == {"active", "draft", "archived"}
filterProducts(rows, tab, hits) == {r \in rows : (tab = "all" \/ r.status = tab) /\ r.id \in hits}
countByTab(rows) ==
  [tab \in PRODUCT_STATUSES \cup {"all"} |->
     IF tab = "all" THEN Cardinality(rows) ELSE Cardinality({r \in rows : r.status = tab})]

(***************************************************************************)
(* The form.                                                               *)
(***************************************************************************)
Opened(stored) ==
  LET draft == IF stored = None THEN emptyDraft ELSE draftFromProduct(stored)
  IN [at |-> IF stored = None THEN "new" ELSE "edit", draft |-> draft, baseline |-> draft, errors |-> {},
      formError |-> FALSE, saved |-> FALSE, confirming |-> FALSE, edits |-> 0, saves |-> 0, uploads |-> 0,
      added |-> {}, removed |-> {}, doubt |-> FALSE]

EditorInit ==
  /\ \E old \in BOOLEAN :
       product = IF old THEN [name |-> Text(9, 9, TRUE), slug |-> Text(9, 9, TRUE), price |-> 1,
                              images |-> <<1, 2>>] ELSE None
  /\ editor = Opened(product)
  /\ upload = None /\ request = None

dirty == editor.draft # editor.baseline
Photos(images) == {images[i] : i \in DOMAIN images}

set(key, value) == [editor EXCEPT !.draft[key] = value, !.errors = @ \ {key}, !.saved = FALSE]
onChange(key, value) ==
  /\ editor.at # "left" /\ editor.edits < MaxEdits /\ editor.draft[key] # value
  /\ editor' = [set(key, value) EXCEPT !.edits = @ + 1]
  /\ UNCHANGED <<product, upload, request>>

onSave ==
  /\ editor.at # "left" /\ request = None /\ dirty /\ editor.saves < MaxSaves
  /\ LET found == validateDraft(editor.draft)
         now == [editor EXCEPT !.errors = found, !.formError = FALSE, !.saved = FALSE, !.saves = @ + 1] IN
     /\ editor' = now
     /\ request' = IF found # {} THEN None
                   ELSE [op |-> editor.at, draft |-> editor.draft, step |-> "sent", fields |-> {}]
  /\ UNCHANGED <<product, upload>>

(* Two taps.                                                               *)
askDelete(on) ==
  /\ editor.at = "edit" /\ request = None /\ editor.confirming # on /\ editor.saves < MaxSaves
  /\ editor' = [editor EXCEPT !.confirming = on]
  /\ UNCHANGED <<product, upload, request>>
onDelete ==
  /\ editor.confirming /\ request = None /\ editor.saves < MaxSaves
  /\ editor' = [editor EXCEPT !.formError = FALSE, !.saves = @ + 1]
  /\ request' = [op |-> "delete", draft |-> editor.draft, step |-> "sent", fields |-> {}]
  /\ UNCHANGED <<product, upload>>

(* An update of a product that is gone is refused (404), before its fields are *)
(* looked at; a create whose answer was lost finds its own address taken.    *)
CreateOrUpdateProduct ==
  /\ request # None /\ request.op # "delete" /\ request.step = "sent"
  /\ LET input == draftToInput(request.draft)
         gone == request.op = "edit" /\ product = None
         same == request.op = "new" /\ product # None /\ product.slug = input.slug
         fields == CASE ~Decodes(input) \/ gone -> {}
                     [] cleanProductInput(input) # {} -> cleanProductInput(input)
                     [] OTHER -> productWriteConflict(input) \cup (IF same THEN {"slug"} ELSE {})
         accepted == Decodes(input) /\ ~gone /\ fields = {} IN
     /\ product' = IF accepted THEN input ELSE product
     /\ request' = [request EXCEPT !.step = IF accepted THEN "stored" ELSE "refused", !.fields = fields]
  /\ UNCHANGED <<editor, upload>>

(* An order or an asset job that refers to the product keeps it.             *)
DeleteProduct ==
  /\ request # None /\ request.op = "delete" /\ request.step = "sent"
  /\ \/ product # None /\ product' = None /\ request' = [request EXCEPT !.step = "stored"]
     \/ UNCHANGED product /\ request' = [request EXCEPT !.step = "refused"]
  /\ UNCHANGED <<editor, upload>>

(* What was sent becomes the baseline; a new product opens in its own editor.  *)
answered ==
  /\ request # None /\ request.step = "stored"
  /\ editor' = CASE request.op = "edit" -> [editor EXCEPT !.saved = TRUE, !.baseline = request.draft, !.doubt = FALSE]
                 [] request.op = "new" -> [Opened(product) EXCEPT !.edits = editor.edits, !.saves = editor.saves,
                                                                  !.uploads = editor.uploads]
                 [] OTHER -> [editor EXCEPT !.at = "left"]
  /\ upload' = IF request.op = "new" THEN None ELSE upload
  /\ request' = None
  /\ UNCHANGED product

(* Only a failed delete takes the second tap back.                           *)
refused ==
  /\ request # None /\ request.step = "refused"
  /\ editor' = [editor EXCEPT !.formError = TRUE, !.confirming = @ /\ request.op # "delete",
                              !.errors = IF request.fields = {} THEN @ ELSE request.fields]
  /\ request' = None
  /\ UNCHANGED <<product, upload>>

(* Nothing came back; the server may have acted.                            *)
unanswered ==
  /\ request # None /\ request.step \in {"sent", "stored"}
  /\ editor' = [editor EXCEPT !.formError = TRUE, !.confirming = @ /\ request.op # "delete",
                              !.doubt = @ \/ request.step = "stored"]
  /\ request' = None
  /\ UNCHANGED <<product, upload>>

(***************************************************************************)
(* The gallery: the cover is the first photo.  An upload keeps the photos it   *)
(* was started with.                                                        *)
(***************************************************************************)
Gallery(images) == onChange("images", images)
onPick ==
  /\ editor.at = "edit" /\ upload = None /\ editor.uploads < MaxUploads
  /\ upload' = [images |-> editor.draft.images, url |-> editor.uploads + 3]
  /\ editor' = [editor EXCEPT !.uploads = @ + 1]
  /\ UNCHANGED <<product, request>>

uploaded ==
  /\ upload # None /\ editor.at = "edit"
  /\ editor' = [set("images", Append(upload.images, upload.url)) EXCEPT !.added = @ \cup {upload.url}]
  /\ upload' = None
  /\ UNCHANGED <<product, request>>

uploadFailed ==
  /\ upload # None
  /\ upload' = None
  /\ UNCHANGED <<product, editor, request>>

Others(images, i) == SubSeq(images, 1, i - 1) \o SubSeq(images, i + 1, Len(images))
removeAt(i) ==
  /\ i \in DOMAIN editor.draft.images /\ editor.at = "edit" /\ editor.edits < MaxEdits
  /\ editor' = [set("images", Others(editor.draft.images, i)) EXCEPT
                  !.edits = @ + 1, !.added = @ \ {editor.draft.images[i]},
                  !.removed = @ \cup (IF upload = None THEN {editor.draft.images[i]} ELSE {})]
  /\ UNCHANGED <<product, upload, request>>
makeCover(i) ==
  /\ i \in DOMAIN editor.draft.images \ {1}
  /\ Gallery(<<editor.draft.images[i]>> \o Others(editor.draft.images, i))

EditorNext ==
  \/ \E t \in Texts : onChange("name", t)
  \/ \E s \in Slugs : onChange("slug", s)
  \/ \E p \in Prices : onChange("price", p)
  \/ onSave \/ onDelete \/ CreateOrUpdateProduct \/ DeleteProduct \/ answered \/ refused \/ unanswered
  \/ \E on \in BOOLEAN : askDelete(on)
  \/ onPick \/ uploaded \/ uploadFailed
  \/ \E i \in DOMAIN editor.draft.images : removeAt(i) \/ makeCover(i)

EditorSpec == EditorInit /\ [][EditorNext]_editorVars

-----------------------------------------------------------------------------
EditorTypeOK ==
  /\ editor.errors \subseteq {"name", "slug", "price", "images"}
  /\ editor.at \in {"new", "edit", "left"}
  /\ request # None => request.op \in {"new", "edit", "delete"}

(* When the bar of unsaved changes is away, and so also while "saved" is shown, *)
(* the product stored is the draft on the screen, unless an answer was lost.  *)
BarTellsUnsaved ==
  editor.at = "edit" /\ request = None /\ ~dirty /\ ~editor.doubt =>
    product = draftToInput(editor.draft)

(* A draft the form lets through is never refused by the server for its shape, *)
(* up to a price the wire cannot hold; what slugify proposes has the shape of  *)
(* an address or is empty (looked at once, before anything is typed).        *)
FormPassesServer ==
  /\ validateDraft(editor.draft) = {} => cleanProductInput(draftToInput(editor.draft)) = {}
  /\ editor.edits + editor.saves = 0 =>
       \A n \in 0 .. 4 : \A name \in [1 .. n -> {"e", "E", "marked e", "crossed d", " "}] :
         LET slug == slugify(name) IN slug # <<>> => SLUG_RE(slug)

(* A photo that was uploaded stays until it is taken out, and one taken out     *)
(* stays out, unless an upload was running when it was.                      *)
GalleryKeeps ==
  editor.at = "edit" =>
    /\ editor.added \subseteq Photos(editor.draft.images)
    /\ editor.removed \cap Photos(editor.draft.images) = {}

(* The tabs of the list count what they show (also looked at once).          *)
TabsCount ==
  editor.edits + editor.saves = 0 =>
    \A status \in [1 .. 3 -> PRODUCT_STATUSES] :
      LET rows == {[id |-> i, status |-> status[i]] : i \in 1 .. 3}
      IN \A tab \in PRODUCT_STATUSES \cup {"all"} :
           Cardinality(filterProducts(rows, tab, 1 .. 3)) = countByTab(rows)[tab]

EditorSound == BarTellsUnsaved /\ FormPassesServer /\ GalleryKeeps /\ TabsCount
=============================================================================
