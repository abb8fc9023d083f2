------------------------------- MODULE PetTag -------------------------------
(***************************************************************************)
(* One NFC pet tag: the customer endpoints of core-api (pettag_customer.go)*)
(* and the pages every phone that scans it gets from /t/{shortId} -        *)
(* onboarding, the pet page with its lost switch, the three owner panels    *)
(* (content, theme, layout) and the finder's location share.               *)
(*                                                                         *)
(* A phone acts on the page it was last served (props); calls are what the *)
(* phones sent and have no answer for, each with the server's result once   *)
(* it has been handled.  A pet's content is its name and its album; a theme *)
(* is a background and whether it has an image.                             *)
(***************************************************************************)
EXTENDS Naturals, Sequences, FiniteSets

CONSTANTS
  Phones,        \* phones that scan the tag
  SignedIn,      \* [Phones -> customer of the session cookie, or Nil]
  MaxCalls,      \* bound: calls sent
  Photos,        \* bound: photos the owner picks from
  MaxPhotos,     \* bound: photos in the album when one more is picked
  MaxScans,      \* bound: scans and reloads of one phone
  Nil

SeqExt == INSTANCE SequencesExt

VARIABLES
  pet,     \* the tag row and its profile
  phone,   \* [Phones -> what the browser shows]
  calls    \* calls under way

petVars == <<pet, phone, calls>>

(***************************************************************************)
(* Layout: lib/pet-blocks.ts.  Two content blocks stand for the five: the   *)
(* one the page never hides while the pet is lost, and one of the others.   *)
(***************************************************************************)
PHOTO_NAME == "photo_name"
CONTENT_BLOCK_TYPES == <<"bio", "medical">>
Block(type, order, visible) == [type |-> type, order |-> order, visible |-> visible]
Photo == Block(PHOTO_NAME, 0, TRUE)

(* The photo first, the content blocks after it, numbered by where they stand. *)
Layout(content) == <<Photo>> \o [i \in DOMAIN content |-> [content[i] EXCEPT !.order = i]]

(* The first stored block of the n-th type, or its default.                   *)
StoredBlock(stored, n) ==
  LET of == {i \in DOMAIN stored : stored[i].type = CONTENT_BLOCK_TYPES[n]}
  IN IF of # {} THEN stored[CHOOSE i \in of : \A j \in of : i <= j]
     ELSE Block(CONTENT_BLOCK_TYPES[n], n - 1, TRUE)

normalizeBlocks(stored) ==
  LET first == StoredBlock(stored, 1)  second == StoredBlock(stored, 2)
  IN Layout(IF second.order < first.order THEN <<second, first>> ELSE <<first, second>>)

ContentOf(blocks) == Tail(blocks)   \* of a normalized layout: all after its photo

moveContentBlock(blocks, index, dir) ==
  LET content == ContentOf(blocks)  target == index + dir
  IN IF {index, target} \subseteq DOMAIN content
     THEN Layout([content EXCEPT ![index] = content[target], ![target] = content[index]])
     ELSE blocks

toggleBlockVisible(blocks, type) ==
  [i \in DOMAIN blocks |->
     IF blocks[i].type = type /\ type # PHOTO_NAME
     THEN [blocks[i] EXCEPT !.visible = ~@] ELSE blocks[i]]

\* Mutant: a hidden block stays hidden while the pet is lost.
visibleBlocks(profile) ==
  {b \in SeqExt!ToSet(normalizeBlocks(profile.blocks)) : b.type # PHOTO_NAME /\ b.visible}

(* The blocks a page draws, each with its order: allergies stay while the pet  *)
(* is lost.                                                                *)
orderedBlocks(profile) ==
  {b \in SeqExt!ToSet(normalizeBlocks(profile.blocks)) :
     b.type # PHOTO_NAME /\ (b.visible \/ (b.type = "medical" /\ profile.lost))}

(***************************************************************************)
(* Theme: lib/pet-theme.ts.  The background and its image stand for the      *)
(* whole theme; colorway, opacity and name font are read and sent alike.     *)
(***************************************************************************)
BACKGROUND_IDS == {"plain", "image"}
DEFAULT_THEME == [background |-> "plain", image |-> FALSE]
NoTheme == [background |-> Nil, image |-> FALSE]   \* {} at activation

themeFormFrom(theme) ==
  [background |-> IF theme.background \in BACKGROUND_IDS THEN theme.background
                  ELSE DEFAULT_THEME.background,
   image |-> theme.image]

themeToWire(form) == [form EXCEPT !.image = form.background = "image" /\ @]

validateAppearance(in) ==
  /\ in.theme.background \in BACKGROUND_IDS
  /\ in.theme.background = "image" => in.theme.image
  /\ \A i \in DOMAIN in.blocks :
       in.blocks[i].type \in {PHOTO_NAME} \cup SeqExt!ToSet(CONTENT_BLOCK_TYPES)
  /\ \E i \in DOMAIN in.blocks : in.blocks[i].type = PHOTO_NAME
  /\ \A i \in DOMAIN in.blocks : in.blocks[i].type = PHOTO_NAME => in.blocks[i].visible

(***************************************************************************)
(* The server.                                                             *)
(***************************************************************************)
Fresh(name, owner) == [owner |-> owner, lost |-> FALSE, name |-> name, gallery |-> <<>>,
                       theme |-> NoTheme, blocks |-> <<>>]

(* GetPetPage: what a scan by this customer is served.                        *)
GetPetPage(who) ==
  IF pet.status = "ACTIVATED"
  THEN [status |-> "ACTIVATED", isOwner |-> who # Nil /\ who = pet.profile.owner,
        profile |-> pet.profile,
        masked |-> ~(pet.profile.lost \/ (who # Nil /\ who = pet.profile.owner))]
  ELSE [status |-> pet.status, isOwner |-> FALSE, profile |-> Nil, masked |-> TRUE]

Owned(who) == pet.profile # Nil /\ who = pet.profile.owner

(* Each handler: its result, and the row after it.                           *)
(* A tag encoded again keeps its profile, and tag_id is unique there: the       *)
(* activation that passes the status guard fails on the insert and rolls back. *)
ActivatePetTag(c) ==
  IF pet.status # "ENCODED" THEN <<"conflict", pet>>
  ELSE IF pet.profile # Nil THEN <<"error", pet>>
  ELSE <<"ok", [pet EXCEPT !.status = "ACTIVATED", !.owner = c.who,
                           !.profile = Fresh(c.arg[2], c.who), !.consents = @ \cup {c.who}]>>

ToggleLostMode(c) ==
  IF Owned(c.who) THEN <<"ok", [pet EXCEPT !.profile.lost = c.arg[2]]>> ELSE <<"forbidden", pet>>

UpdatePetProfile(c) ==
  IF Owned(c.who)
  THEN <<"ok", [pet EXCEPT !.profile.name = c.arg[2].name, !.profile.gallery = c.arg[2].gallery]>>
  ELSE <<"forbidden", pet>>

UpdatePetAppearance(c) ==
  IF ~validateAppearance(c.arg[2]) THEN <<"validation", pet>>
  ELSE IF Owned(c.who)
  THEN <<"ok", [pet EXCEPT !.profile.theme = c.arg[2].theme, !.profile.blocks = c.arg[2].blocks]>>
  ELSE <<"forbidden", pet>>

SharePetLocation(c) ==
  IF pet.profile = Nil \/ ~pet.profile.lost THEN <<"notLost", pet>>
  ELSE <<"ok", [pet EXCEPT !.scans = @ + 1]>>

Handled(c) ==
  CASE c.arg[1] = "activate"   -> ActivatePetTag(c)
    [] c.arg[1] = "toggle"     -> ToggleLostMode(c)
    [] c.arg[1] = "content"    -> UpdatePetProfile(c)
    [] c.arg[1] = "appearance" -> UpdatePetAppearance(c)
    [] c.arg[1] = "locate"     -> SharePetLocation(c)

(* A call is handled and answered, handled with its answer lost, or lost.    *)
Serve(c) ==
  /\ c.res = Nil
  /\ \E outcome \in {Handled(c), <<"error", Handled(c)[2]>>, <<"error", pet>>} :
       /\ pet' = outcome[2]
       /\ calls' = (calls \ {c}) \cup {[c EXCEPT !.res = outcome[1]]}
  /\ UNCHANGED phone

(***************************************************************************)
(* A phone: what page.tsx rendered, and the client state of its components. *)
(***************************************************************************)
Blank == [view |-> "away", props |-> Nil, refreshing |-> FALSE, pending |-> FALSE,
          error |-> FALSE, on |-> FALSE, toggling |-> FALSE, panel |-> Nil, finder |-> "idle",
          name |-> Nil, consent |-> FALSE, mount |-> 0]

PetTagInit ==
  /\ pet = [status |-> "UNENCODED", owner |-> Nil, profile |-> Nil, consents |-> {},
            scans |-> 0, sent |-> 0]
  /\ phone = [p \in Phones |-> Blank]
  /\ calls = {}

ViewOf(page, p) ==
  IF page.status = "ACTIVATED" THEN "page"
  ELSE IF page.status = "ENCODED" THEN IF SignedIn[p] # Nil THEN "onboarding" ELSE "welcome"
  ELSE "unavailable"

(* EncodePrintJobTag marks the tag ENCODED whatever it was: a board that still  *)
(* shows the card unpacked encodes a tag its customer has activated by now.    *)
EncodeTag ==
  /\ pet.status # "ENCODED"     \* encoding once more only replaces the chip's UID
  /\ pet' = [pet EXCEPT !.status = "ENCODED"]
  /\ UNCHANGED <<phone, calls>>

(* A scan or a reload: everything mounts afresh; the fetch may fail.         *)
OpenTag(p) ==
  /\ phone[p].mount < MaxScans
  /\ LET page == GetPetPage(SignedIn[p])
         n == phone[p].mount + 1
     IN \/ phone' = [phone EXCEPT ![p] =
             [Blank EXCEPT !.view = ViewOf(page, p), !.props = page, !.mount = n,
                           !.on = page.status = "ACTIVATED" /\ page.profile.lost]]
        \/ phone' = [phone EXCEPT ![p] = [Blank EXCEPT !.view = "unavailable", !.mount = n]]
  /\ UNCHANGED <<pet, calls>>

(* router.refresh arrives: new props, same client state, unless the tag's       *)
(* status now calls for another page, which mounts afresh.                   *)
Refreshed(p) ==
  /\ phone[p].refreshing
  /\ LET page == GetPetPage(SignedIn[p])  s == phone[p]
     IN phone' = [phone EXCEPT ![p] =
          IF ViewOf(page, p) = s.view THEN [s EXCEPT !.refreshing = FALSE, !.props = page]
          ELSE [Blank EXCEPT !.view = ViewOf(page, p), !.props = page, !.mount = s.mount + 1]]
  /\ UNCHANGED <<pet, calls>>

Send(p, kind, body) ==
  /\ pet.sent < MaxCalls
  /\ pet' = [pet EXCEPT !.sent = @ + 1]
  /\ calls' = calls \cup {[id |-> pet.sent + 1, from |-> p, mount |-> phone[p].mount,
                           who |-> SignedIn[p], arg |-> <<kind, body>>, res |-> Nil]}

Set(p, next) == phone' = [phone EXCEPT ![p] = next] /\ UNCHANGED <<pet, calls>>

(* Onboarding: a name and a consent, then one activation at a time.           *)
FillOnboarding(p) ==
  /\ phone[p].view = "onboarding" /\ ~phone[p].pending
  /\ \/ Set(p, [phone[p] EXCEPT !.name = IF @ = Nil THEN "miu" ELSE Nil])
     \/ Set(p, [phone[p] EXCEPT !.consent = ~@])

validateOnboarding(f) == f.name # Nil /\ f.consent

SubmitOnboarding(p) ==
  /\ phone[p].view = "onboarding" /\ ~phone[p].pending
  /\ IF validateOnboarding(phone[p])
     THEN /\ Send(p, "activate", phone[p].name)
          /\ phone' = [phone EXCEPT ![p].pending = TRUE, ![p].error = FALSE]
     ELSE Set(p, [phone[p] EXCEPT !.error = TRUE])

(* The lost switch flips at once and takes the flip back on a failure.       *)
ToggleSwitch(p) ==
  /\ phone[p].view = "page" /\ phone[p].props.isOwner /\ ~phone[p].toggling
  /\ Send(p, "toggle", ~phone[p].on)
  /\ phone' = [phone EXCEPT ![p].on = ~@, ![p].toggling = TRUE, ![p].error = FALSE]

(***************************************************************************)
(* The owner's panels.  Each seeds its form from the props when it opens.   *)
(***************************************************************************)
Panel(kind, form) == [kind |-> kind, form |-> form, saving |-> FALSE, busy |-> FALSE,
                      uploads |-> {}]

OpenPanel(p) ==
  /\ phone[p].view = "page" /\ phone[p].props.isOwner /\ phone[p].panel = Nil
  /\ LET profile == phone[p].props.profile
     IN \/ Set(p, [phone[p] EXCEPT !.panel =
                     Panel("edit", [name |-> profile.name, gallery |-> profile.gallery])])
        \/ Set(p, [phone[p] EXCEPT !.panel = Panel("theme", themeFormFrom(profile.theme))])
        \/ Set(p, [phone[p] EXCEPT !.panel = Panel("arrange", normalizeBlocks(profile.blocks))])

InPanel(p, kind) == phone[p].panel # Nil /\ phone[p].panel.kind = kind
SetForm(p, form) == Set(p, [phone[p] EXCEPT !.panel.form = form])

EditContent(p) ==
  /\ InPanel(p, "edit")
  /\ LET form == phone[p].panel.form
     IN \/ SetForm(p, [form EXCEPT !.name = IF @ = "miu" THEN "mun" ELSE "miu"])
        \/ \E i \in DOMAIN form.gallery : SetForm(p, [form EXCEPT !.gallery = SeqExt!RemoveAt(@, i)])

(* GalleryField: the pick remembers the album it was rendered with.          *)
PickPhoto(p) ==
  /\ InPanel(p, "edit") /\ Cardinality(phone[p].panel.uploads) < 2
  /\ Len(phone[p].panel.form.gallery) < MaxPhotos
  /\ \E photo \in Photos :
       /\ \A u \in phone[p].panel.uploads : u.photo # photo
       /\ Set(p, [phone[p] EXCEPT !.panel.busy = TRUE,
                    !.panel.uploads = @ \cup {[photo |-> photo,
                                               items |-> phone[p].panel.form.gallery]}])

PhotoUploaded(p) ==
  /\ InPanel(p, "edit")
  /\ \E u \in phone[p].panel.uploads, ok \in BOOLEAN :
       Set(p, [phone[p] EXCEPT !.panel.busy = FALSE, !.panel.uploads = @ \ {u},
                 !.panel.form.gallery = IF ok THEN Append(u.items, u.photo) ELSE @])

EditTheme(p) ==
  /\ InPanel(p, "theme")
  /\ LET form == phone[p].panel.form
     IN \/ \E bg \in BACKGROUND_IDS \ {form.background} : SetForm(p, [form EXCEPT !.background = bg])
        \/ form.background = "image" /\ SetForm(p, IF form.image THEN DEFAULT_THEME
                                                   ELSE [form EXCEPT !.image = TRUE])

Arrange(p) ==
  /\ InPanel(p, "arrange")
  /\ LET blocks == phone[p].panel.form
     IN \/ \E i \in DOMAIN ContentOf(blocks), dir \in {1, 0 - 1} :
             /\ i + dir \in DOMAIN ContentOf(blocks)
             /\ SetForm(p, moveContentBlock(blocks, i, dir))
        \/ \E type \in SeqExt!ToSet(CONTENT_BLOCK_TYPES) : SetForm(p, toggleBlockVisible(blocks, type))

(* onSave of the three panels.  The two appearance panels pass the other     *)
(* half of the full-replace write through from their props.                 *)
Request(p) ==
  LET panel == phone[p].panel  profile == phone[p].props.profile
  IN IF panel.kind = "edit" THEN [kind |-> "content", body |-> panel.form]
     ELSE [kind |-> "appearance",
           body |-> IF panel.kind = "theme"
                    THEN [theme |-> themeToWire(panel.form),
                          blocks |-> normalizeBlocks(profile.blocks)]
                    ELSE [theme |-> themeToWire(themeFormFrom(profile.theme)),
                          blocks |-> panel.form]]

SavePanel(p) ==
  /\ phone[p].panel # Nil /\ ~phone[p].panel.saving /\ ~phone[p].panel.busy
  /\ Send(p, Request(p).kind, Request(p).body)
  /\ phone' = [phone EXCEPT ![p].panel.saving = TRUE, ![p].error = FALSE]

ClosePanel(p) ==
  /\ phone[p].panel # Nil
  /\ Set(p, [phone[p] EXCEPT !.panel = Nil])

(***************************************************************************)
(* The finder.                                                             *)
(***************************************************************************)
OffersShare(p) ==
  phone[p].view = "page" /\ phone[p].props.profile.lost /\ ~phone[p].props.isOwner

PressShare(p) ==
  /\ OffersShare(p) /\ phone[p].finder \notin {"locating", "sending", "sent"}
  /\ \E next \in {"locating", "unsupported"} : Set(p, [phone[p] EXCEPT !.finder = next])

Located(p) ==
  /\ phone[p].finder = "locating"
  /\ \/ /\ Send(p, "locate", Nil)
        /\ phone' = [phone EXCEPT ![p].finder = "sending"]
     \/ \E next \in {"denied", "error"} : Set(p, [phone[p] EXCEPT !.finder = next])

(***************************************************************************)
(* An answer reaches the component that asked, if it is still mounted.       *)
(***************************************************************************)
AfterActivate(s, res) ==
  IF res = "ok" THEN [s EXCEPT !.pending = FALSE, !.view = "done"]
  ELSE [s EXCEPT !.pending = FALSE, !.error = TRUE]

AfterToggle(s, res, next) ==
  IF res = "ok" THEN [s EXCEPT !.toggling = FALSE, !.refreshing = TRUE]
  ELSE [s EXCEPT !.toggling = FALSE, !.on = ~next, !.error = TRUE]

AfterSave(s, res) ==
  IF res = "ok" THEN [s EXCEPT !.panel = Nil, !.refreshing = TRUE]
  ELSE [s EXCEPT !.panel.saving = FALSE, !.error = TRUE]

AfterShare(s, res) ==
  [s EXCEPT !.finder = IF res = "ok" THEN "sent" ELSE res]

Answer(c) ==
  /\ c.res # Nil
  /\ calls' = calls \ {c}
  /\ phone' =
       LET s == phone[c.from]
           panelAlive == s.panel # Nil /\ s.panel.saving
       IN IF s.mount # c.mount THEN phone
          ELSE [phone EXCEPT ![c.from] =
                 CASE c.arg[1] = "activate" -> AfterActivate(s, c.res)
                   [] c.arg[1] = "toggle" -> AfterToggle(s, c.res, c.arg[2])
                   [] c.arg[1] = "locate" -> AfterShare(s, c.res)
                   [] OTHER -> IF panelAlive THEN AfterSave(s, c.res)
                               ELSE IF c.res = "ok" THEN [s EXCEPT !.refreshing = TRUE] ELSE s]
  /\ UNCHANGED pet

Visit(p) == OpenTag(p) \/ Refreshed(p)
Onboard(p) == FillOnboarding(p) \/ SubmitOnboarding(p)
Own(p) == \/ OpenPanel(p) \/ EditContent(p) \/ PickPhoto(p) \/ PhotoUploaded(p)
          \/ EditTheme(p) \/ Arrange(p) \/ SavePanel(p) \/ ClosePanel(p)
Lose(p) == ToggleSwitch(p)
Find(p) == PressShare(p) \/ Located(p)
Network == \E c \in calls : Serve(c) \/ Answer(c)

PetTagNext ==
  \/ EncodeTag \/ Network
  \/ \E p \in Phones : Visit(p) \/ Onboard(p) \/ Own(p) \/ Lose(p) \/ Find(p)

PetTagSpec == PetTagInit /\ [][PetTagNext]_petVars

-----------------------------------------------------------------------------
PetTagTypeOK ==
  /\ pet.status \in {"UNENCODED", "ENCODED", "ACTIVATED"}
  /\ pet.sent \in 0 .. MaxCalls
  /\ \A p \in Phones : phone[p].view \in {"away", "unavailable", "welcome", "onboarding", "done", "page"}

(* A tag is activated once, by a customer who consented, and only that       *)
(* customer is ever told it is theirs or shown the owner's controls, even when *)
(* the tag was encoded again: its page asks to be set up then, and nobody can. *)
OneOwner ==
  /\ pet.status = "ACTIVATED" => pet.profile # Nil
  /\ pet.profile # Nil => pet.owner = pet.profile.owner /\ pet.consents = {pet.owner}
  /\ \A p \in Phones :
       /\ phone[p].view = "done" => SignedIn[p] = pet.owner
       /\ phone[p].panel # Nil \/ phone[p].toggling => SignedIn[p] = pet.owner

(* A layout save carries a theme the page was served, so the server never    *)
(* refuses it; and every stored layout starts with the photo and has each     *)
(* block once, whatever was moved or hidden.                                *)
LayoutSaveAccepted ==
  /\ \A p \in Phones : InPanel(p, "arrange") => validateAppearance(Request(p).body)
  /\ pet.profile # Nil /\ pet.profile.blocks # <<>> =>
       /\ pet.profile.blocks = normalizeBlocks(pet.profile.blocks)
       /\ Len(pet.profile.blocks) = Cardinality({b.type : b \in SeqExt!ToSet(pet.profile.blocks)})

(* Allergies are on the page of a lost pet even when its owner hid them.     *)
LostShowsMedical ==
  \A p \in Phones :
    phone[p].view = "page" /\ phone[p].props.profile.lost =>
      \E b \in orderedBlocks(phone[p].props.profile) : b.type = "medical"

(* "Sent" is only said of a location the shop recorded.                      *)
SentWasRecorded ==
  Cardinality({p \in Phones : phone[p].finder = "sent"}) <= pet.scans

PetTagSound == OneOwner /\ LayoutSaveAccepted /\ LostShowsMedical /\ SentWasRecorded
=============================================================================
