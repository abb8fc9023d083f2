----------------------------- MODULE MCBackOffice -----------------------------
(***************************************************************************)
(* The pages behind a login: the shop's admin screens, the panel staff have in *)
(* the browser, the wedding desks; and the assets' pipeline.  The pipeline, the *)
(* print board and the wedding desks are extended, as theorems are proved of    *)
(* them; the others are instances.  Each scene runs one of them against the     *)
(* server behaviour it depends on; the others stand still.                  *)
(***************************************************************************)
EXTENDS AssetPipeline, PrintDesk, WeddingOffice

CONSTANT Scenes

VARIABLES
  scene,
  books, bundle, ledger, sent,
  shop, set, orders,
  rows, list, acts,
  order, page, asked, proof,
  section, items, part, writes,
  queue, model, pose, anchors, fetches, lost,
  edited, editor, picture, request,
  placed, bucket, sweeps, now, retained,
  inbox, details, quotes, sends, stall, seen,
  card, searches, moves, book, trace

-----------------------------------------------------------------------------
Gram == [unit |-> "gram", stock |-> 1, imported |-> 1, lots |-> 1, scrapped |-> 0, threshold |-> 2]
Costing == INSTANCE AdminCosting WITH
  desk <- ledger, Entries <- {2, 99}, TooMuch <- 99, Stocked <- <<Gram>>, MaxWrites <- 2, MaxDialogs <- 2

Settings == INSTANCE AdminSettings WITH
  acts <- orders, Sections <- {"bank", "shipping"}, Provinces <- {"hn"}, Fees <- {None, 0},
  Emails <- {"a"}, MaxRows <- 2, MaxActs <- 2

Listed(id, text) == [id |-> id, text |-> text, on |-> TRUE, used |-> FALSE]
Plain == <<Listed("a", "old"), [Listed("b", "old") EXCEPT !.used = TRUE]>>
Reviews == <<Listed("a", None), [Listed("b", "old") EXCEPT !.on = FALSE]>>
Screens == {"categories", "templates", "domains", "reviews"}
Lists == INSTANCE AdminLists WITH
  Pages <- Screens, Start <- [p \in Screens |-> IF p = "reviews" THEN Reviews ELSE Plain],
  Names <- {"a", "b", "c"}, MaxActs <- 2

Host(e) == IF e = "e1" THEN "h1" ELSE None
Guest(i, e) == [id |-> i, ev |-> e, group |-> "friends", note |-> "", rsvp |-> None]
Guests == <<Guest(1, "e1"), Guest(2, "e1"), Guest(3, "e2")>>

OldPhoto(url) == [url |-> <<url>>, x |-> 50]
OldPhotos == <<OldPhoto("a"), OldPhoto("b")>>

OrderPage == INSTANCE OrderDesk WITH Sessions <- {"owner", "staff"}, MaxTries <- 2, MaxOther <- 2

Parts == INSTANCE ProductParts WITH
  rows <- items, Sections <- {"colors", "options"}, FirstGroups <- 1, FirstMembers <- 2, Pinned <- {2},
  MaxWrites <- 2, MaxElse <- 1
Preview == INSTANCE ProductPreview WITH
  PollCap <- 1, Options <- {"o1", "o2"}, Spots <- {"p", "q"}, MaxUploads <- 1, MaxSaves <- 2, MaxEdits <- 3,
  MaxLost <- 1
Length(units, points, shaped) == [units |-> units, points |-> points, shaped |-> shaped]
Editor == INSTANCE ProductEditor WITH
  product <- edited, upload <- picture,
  Texts <- {Length(0, 0, TRUE), Length(9, 9, TRUE), Length(200, 200, TRUE), Length(201, 101, TRUE)},
  Slugs <- {Length(9, 9, TRUE), Length(5, 5, TRUE), Length(5, 5, FALSE)}, TakenSlugs <- {Length(5, 5, TRUE)},
  Prices <- {-1, 1, 10^6}, MaxUploads <- 1, MaxSaves <- 2, MaxEdits <- 2

Slug(label) == CASE label = "!!" -> "khach" [] label = "TIEC" -> "tiec" [] OTHER -> "hoa"
Password(units, bytes) == [units |-> units, bytes |-> bytes]
FirstPasswords == {Password(0, 0), Password(8, 8), Password(7, 10), Password(40, 80)}
TwoCouples == (<<"an", 1>> :> "an") @@ (<<"binh", 1>> :> "binh")
TwoEvents == (<<"le", 1>> :> [of |-> <<"an", 1>>, sub |-> None])
               @@ (<<"le", 2>> :> [of |-> <<"binh", 1>>, sub |-> "khach"])

Receipts == INSTANCE ReceiptRetention WITH
  orders <- placed, objects <- bucket, past <- retained, Orders <- {"o1", "o2"}, Urls <- {"u", "v"}, Foreign <- {"f"},
  Sweepers <- {"s1", "s2"}, Batch <- 2, Retention <- 0, MaxTime <- 1

Color(id, of, available) == [id |-> id, part |-> of, available |-> available, isDefault |-> FALSE]
Option(id, type, choices) == [id |-> id, type |-> type, choices |-> choices, maxChars |-> None]
Rule(province, ward) == [province |-> province, ward |-> ward]
Chat == INSTANCE InboxForm WITH
  form <- inbox, shop <- stall,
  Catalogue <- ("lamp" :> [parts |-> <<>>, colors |-> <<Color("red", None, FALSE), Color("blue", None, TRUE)>>,
                           options |-> <<Option("gift", "choice", {})>>])
            @@ ("tag" :> [parts |-> <<[id |-> "shade", object |-> None]>>, colors |-> <<Color("blue", "shade", TRUE)>>,
                          options |-> <<Option("size", "choice", {"s"}), Option("name", "text", {})>>]),
  FirstRules <- {Rule("hn", None), Rule("hn", "w1"), Rule("hcm", "w1")}, Wards <- {"w1", "w2"},
  MaxFillings <- 2, MaxEdits <- 5, MaxSends <- 2, MaxChanges <- 1, MaxLost <- 1

Lookup == INSTANCE OrderLookup WITH
  Codes <- {"c1", "c2"}, Pasted <- {"c1", "c2", None}, role <- "staff",
  MaxSearches <- 2, MaxMoves <- 2, MaxOther <- 1, MaxLost <- 1

costing == <<books, bundle, ledger, sent>>
settings == <<shop, set, orders>>
lists == <<rows, list, acts>>
ordering == <<order, page, asked, proof>>
parts == <<section, items, part, writes>>
preview == <<queue, model, pose, anchors, fetches, lost>>
editing == <<edited, editor, picture, request>>
products == <<parts, preview, editing>>
receipts == <<placed, bucket, sweeps, now, retained>>
chatting == <<inbox, details, quotes, sends, stall, seen>>
looking == <<card, searches, moves, book, trace>>
panel == <<chatting, looking>>
vars == <<scene, costing, settings, lists, deskVars, drawerVars, printVars, ordering, products, officeVars, assetVars, receipts, panel>>
-----------------------------------------------------------------------------
WeddingScenes == {"tabs", "groups", "panels", "table"}
PrintScenes == {"board", "encode"}
PreviewScenes == {"model", "pose", "anchors"}
OfficeScenes == {"couples", "sites", "requests"}

(* What the scene runs starts as it does; of the rest, nothing is there but the  *)
(* assets' pipeline without jobs, the print boards and the wedding desks, just  *)
(* loaded.                                                                 *)
Init ==
  /\ scene \in Scenes /\ AssetInit /\ DeskInit /\ DrawerInit /\ OfficeInit
  /\ PrintInit /\ cards = [c \in Cards |-> IF scene = "encode" THEN "NFC_ENCODE" ELSE "NEED_PRINT"]
  /\ IF scene \in {"costing"} THEN Costing!CostingInit
     ELSE books = None /\ bundle = None /\ ledger = None /\ sent = None
  /\ IF scene \in {"settings"} THEN Settings!SettingsInit
     ELSE shop = None /\ set = None /\ orders = None
  /\ IF scene \in {"lists"} THEN Lists!ListsInit
     ELSE rows = None /\ list = None /\ acts = None
  /\ IF scene \in {"orders"} THEN OrderPage!DeskInit
     ELSE order = None /\ page = None /\ asked = None /\ proof = None
  /\ IF scene \in {"parts"} THEN Parts!PartsInit
     ELSE section = None /\ items = None /\ part = None /\ writes = None
  /\ IF scene \in PreviewScenes THEN Preview!PreviewInit /\ (scene = "anchors" => queue = <<>>)
     ELSE queue = None /\ model = None /\ pose = None /\ anchors = None /\ fetches = None /\ lost = None
  /\ IF scene \in {"editor"} THEN Editor!EditorInit
     ELSE edited = None /\ editor = None /\ picture = None /\ request = None
  /\ IF scene \in {"receipts"} THEN Receipts!RetentionInit
     ELSE placed = None /\ bucket = None /\ sweeps = None /\ now = None /\ retained = None
  /\ IF scene \in {"inbox"} THEN Chat!InboxInit
     ELSE inbox = None /\ details = None /\ quotes = None /\ sends = None /\ stall = None /\ seen = None
  /\ IF scene \in {"lookup"} THEN Lookup!LookupInit /\ book["c1"] \in {"PENDING_CONFIRM", "PAID"} /\ book["c2"] = "PAID"
     ELSE card = None /\ searches = None /\ moves = None /\ book = None /\ trace = None

(* The couple's dashboard, one group of its controls at a time. *)
WeddingScene ==
  \/ scene = "tabs" /\ (Session \/ Network \/ Tabs \/ QuickAdd(1))
  \/ scene = "groups" /\ (ProbeSession \/ Network \/ Quick)
  \/ scene = "panels" /\ (ProbeSession \/ Network \/ Panels)
  \/ scene = "table" /\ (ProbeSession \/ Network \/ Table \/ GuestAnswers)
       /\ desk'.started <= 2

(* Two changes in all, by hand or by upload; the other host changes the album; *)
(* when two uploads overlap they are uploads of the album; and nothing more is  *)
(* begun once input was lost to a race.                                     *)
DrawerScene ==
  /\ scene = "drawer" /\ DrawerNext
  /\ drawer'.edits + drawer'.started <= 2
  /\ stored'.hers \subseteq {"gallery"}
  /\ drawer'.started = 2 => \A u \in loads' : u.key = "gallery"
  /\ drawer.raced => drawer'.edits + drawer'.started = drawer.edits + drawer.started /\ drawer'.saves = drawer.saves

(* Two people at the print board.  The second has a stream or polls once it is *)
(* lost; after the first move it stays connected.                            *)
BoardScene ==
  /\ scene = "board" /\ (StreamNext \/ PollNext \/ MoveNext \/ PushNext)
  /\ \A k \in calls' : k.kind = "poll" => k.board = "x"
  /\ board["y"].live => board'["y"].live
  /\ past'.moves > 0 => board'["y"].feed # Null
  /\ past'.blips = 0 \/ past'.moves <= 1

(* Two people encode the tag of one card. *)
EncodeScene == scene = "encode" /\ (SheetNext \/ PushNext)

(* One product's editor: its two lists, the model's panel, the camera, the      *)
(* spots of an engraving, the form.  The panel of the model has at most two   *)
(* requests under way, and every list is read once a model was uploaded.     *)
ProductScene ==
  \/ scene = "parts" /\ Parts!PartsNext /\ UNCHANGED <<preview, editing>>
  \/ /\ scene = "model" /\ (Preview!ModelNext \/ Preview!JobsNext) /\ UNCHANGED <<parts, editing>>
     /\ Cardinality(fetches') <= 2 /\ (model.uploads > 0 => lost' = lost)
  \/ scene = "pose" /\ (Preview!PoseNext \/ Preview!JobsNext) /\ UNCHANGED <<parts, editing>>
  \/ scene = "anchors" /\ Preview!AnchorsNext /\ UNCHANGED <<parts, editing>>
  \/ scene = "editor" /\ Editor!EditorNext /\ UNCHANGED <<parts, preview>>

Reloads(p) == office[p].up /\ office'[p].fetch.on /\ ~office'[p].up
InPlay ==
  /\ <<"le", 2>> \in DOMAIN events' => events'[<<"le", 2>>] = events[<<"le", 2>>]
  /\ asking' \subseteq {<<"le", 1>>} \X {None, "tiec", "hoa"}
  /\ \A p \in Pages : office'[p].call # Idle =>
       office'[p].call.id # <<"le", 2>> /\ (office'[p].call.op = "event" => office'[p].call.arg = "an")

(* The owner's pages of the couples: two of them, then one where the sites are  *)
(* set up, then two where the owner decides what a couple asked for, which may   *)
(* have asked for another address since.  There a tab is loaded again to see    *)
(* what is asked for.  Of the addresses only the first site's is in play.       *)
OfficeScene ==
  \/ /\ scene = "couples" /\ (CouplesNext \/ AnswersNext)
     /\ \A p \in Pages : ~Reloads(p)
  \/ /\ scene = "sites" /\ (SitesNext \/ AnswersNext) /\ InPlay
     /\ ~Reloads("x")
     /\ office'["x"].typed \subseteq {<<"le", 1>>}
     /\ office'["y"] \in {office["y"], [office["y"] EXCEPT !.behind = TRUE]}
  \/ /\ scene = "requests" /\ (SitesNext \/ AnswersNext) /\ InPlay
     /\ \A p \in Pages :
          /\ office'[p].typed = {} /\ office'[p].call.op \in {"none", "approve", "reject"}
          /\ office'[p].fetch.on /\ office'[p].fetch.events # None => office'[p].fetch.couples # None

(* Two jobs of one kind: two models, or two renders of the first, the colours   *)
(* changed between their inserts and those of the second read before or after  *)
(* that.  They are announced in either order before the worker starts, and     *)
(* faults happen when it is that of the inserts.                             *)
AssetScene ==
  /\ scene = "assets" /\ AssetNext
  /\ \A i, j \in DOMAIN jobs' :
       /\ jobs'[i].type = jobs'[j].type /\ jobs'[1].version = "v1"
       /\ jobs'[i].version = jobs'[j].version <=> i = j \/ jobs'[i].type = "sprite_render"
  /\ product'.look # product.look => Len(jobs) = 1 /\ jobs[1].type = "sprite_render"
  /\ Len(jobs') = 2 /\ jobs'[2].type = "sprite_render" => product.look = 2
  /\ stream' # stream => Len(jobs) = 2
  /\ worker' # worker => Len(stream) >= 2
  /\ mishaps'.count > 0 /\ stream' # <<>> => stream'[1].job = 1

(* Orders that are paid for, or cancelled before or after.                    *)
ReceiptScene ==
  /\ scene = "receipts" /\ Receipts!RetentionNext
  /\ \A o \in DOMAIN placed' : placed'[o] # None => placed'[o].status \in {"PENDING_CONFIRM", "PAID", "CANCELLED"}

(* The panel in the browser.  Of the form, the first filling is sent, its fields *)
(* are entered from the product down, and while an order is under way either   *)
(* the owner changes something, or the answer is lost, or the tab is left.      *)
PanelScene ==
  \/ /\ scene = "inbox" /\ Chat!InboxNext /\ UNCHANGED looking
     /\ inbox'.ward # inbox.ward => Chat!Complete(inbox)
     /\ inbox'.province # inbox.province => inbox.slug # None
     /\ seen'.changes # seen.changes => sends # {} /\ sends' = sends
     /\ inbox'.boot = "closed" => sends # {}
     /\ seen'.changes + Cardinality(seen'.lost) <= 1
     /\ inbox'.submit.status = "submitting" => inbox'.filling = 1
  \/ scene = "lookup" /\ Lookup!LookupNext /\ UNCHANGED chatting

Next ==
  /\ UNCHANGED scene
  /\ \/ scene = "costing" /\ Costing!CostingNext
          /\ UNCHANGED <<settings, lists, deskVars, drawerVars, printVars, ordering, products, officeVars, assetVars, receipts, panel>>
     \/ scene = "settings" /\ Settings!SettingsNext
          /\ UNCHANGED <<costing, lists, deskVars, drawerVars, printVars, ordering, products, officeVars, assetVars, receipts, panel>>
     \/ scene = "lists" /\ Lists!ListsNext
          /\ UNCHANGED <<costing, settings, deskVars, drawerVars, printVars, ordering, products, officeVars, assetVars, receipts, panel>>
     \/ WeddingScene
          /\ UNCHANGED <<costing, settings, lists, drawerVars, printVars, ordering, products, officeVars, assetVars, receipts, panel>>
     \/ DrawerScene
          /\ UNCHANGED <<costing, settings, lists, deskVars, printVars, ordering, products, officeVars, assetVars, receipts, panel>>
     \/ (BoardScene \/ EncodeScene)
          /\ UNCHANGED <<costing, settings, lists, deskVars, drawerVars, ordering, products, officeVars, assetVars, receipts, panel>>
     \/ scene = "orders" /\ OrderPage!OrderDeskNext
          /\ UNCHANGED <<costing, settings, lists, deskVars, drawerVars, printVars, products, officeVars, assetVars, receipts, panel>>
     \/ ProductScene
          /\ UNCHANGED <<costing, settings, lists, deskVars, drawerVars, printVars, ordering, officeVars, assetVars, receipts, panel>>
     \/ OfficeScene
          /\ UNCHANGED <<costing, settings, lists, deskVars, drawerVars, printVars, ordering, products, assetVars, receipts, panel>>
     \/ AssetScene
          /\ UNCHANGED <<costing, settings, lists, deskVars, drawerVars, printVars, ordering, products, officeVars, receipts, panel>>
     \/ ReceiptScene
          /\ UNCHANGED <<costing, settings, lists, deskVars, drawerVars, printVars, ordering, products, officeVars, assetVars, panel>>
     \/ PanelScene
          /\ UNCHANGED <<costing, settings, lists, deskVars, drawerVars, printVars, ordering, products, officeVars, assetVars, receipts>>

Spec == Init /\ [][Next]_vars
-----------------------------------------------------------------------------
(* Only the scene's own screen changes: only its invariants are evaluated.    *)
On(scenes, inv) == scene \in scenes => inv

(* The type invariants of the screens above. *)
DesksTypeOK ==
  /\ On({"costing"}, Costing!CostingTypeOK) /\ On({"settings"}, Settings!SettingsTypeOK)
  /\ On({"lists"}, Lists!ListsTypeOK) /\ On(WeddingScenes, DeskTypeOK)
  /\ On({"drawer"}, DrawerTypeOK) /\ On(PrintScenes, PrintTypeOK)
  /\ On({"orders"}, OrderPage!OrderDeskTypeOK) /\ On(OfficeScenes, OfficeTypeOK)
  /\ On({"parts"}, Parts!PartsTypeOK) /\ On(PreviewScenes, Preview!PreviewTypeOK) /\ On({"editor"}, Editor!EditorTypeOK)
  /\ On({"inbox"}, Chat!InboxTypeOK) /\ On({"lookup"}, Lookup!LookupTypeOK)
  /\ On({"assets"}, AssetTypeOK) /\ On({"receipts"}, Receipts!RetentionTypeOK)

(* What the shop's screens show and send is what the server has and what was  *)
(* entered (AdminCosting, AdminSettings, AdminLists); the order page offers     *)
(* what the server accepts (OrderDesk); a product looks the same wherever it    *)
(* is shown, its panels tell what became of what was asked, and its form is     *)
(* the product (ProductParts, ProductPreview, ProductEditor); the panel sends    *)
(* and charges what it shows, and moves the order it was asked about           *)
(* (InboxForm, OrderLookup); a receipt is in the bucket as long as its order     *)
(* needs it, and gone once nothing refers to it (ReceiptRetention).  AssetsSound, *)
(* PrintDeskSound and WeddingDeskSound are their modules' own.               *)
StaffSound ==
  /\ On({"costing"}, Costing!CostingSound) /\ On({"settings"}, Settings!SettingsSound)
  /\ On({"lists"}, Lists!ListsSound)
  /\ On({"orders"}, OrderPage!OrderDeskSound)
  /\ On({"parts"}, Parts!PartsSound) /\ On(PreviewScenes, Preview!PreviewSound) /\ On({"editor"}, Editor!EditorSound)
  /\ On({"inbox"}, Chat!InboxSound) /\ On({"lookup"}, Lookup!LookupSound)
  /\ On({"receipts"}, Receipts!RetentionSound)
=============================================================================
