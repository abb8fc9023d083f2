---------------------------- MODULE MCPublicPages ----------------------------
(***************************************************************************)
(* The pages anybody may open: the catalogue, the configurator, cart and     *)
(* checkout, order tracking, the pet page behind an NFC tag, the four         *)
(* interactive parts of a wedding invitation, and the rate limiters before    *)
(* them.  Each scene runs one of them against the server behaviour it depends *)
(* on; the others are not there.  ConfiguratorSound of the configurator,        *)
(* CheckoutSound and EditNeverResurrects of the cart and its checkout,          *)
(* TrackingHonest of the tracker, PetTagSound of the tag, InvitationSound of     *)
(* the invitation and IdentitiesSound of its visitors are properties of every    *)
(* scene.                                                                    *)
(***************************************************************************)
EXTENDS Configurator, Checkout, OrderTracking, GuestIdentity, PetTag, Invitation, TLC

CONSTANTS Scenes

VARIABLES
  scene,
  shelf, cache, reads, shopper, crawl, spent,
  clock, buckets, lastSweep, grants

-----------------------------------------------------------------------------
(* Three products, of two categories and two prices; search finds one letter. *)
Kind(p) == IF p = 3 THEN "b" ELSE "a"
Tag(p) == IF p = 1 THEN 5 ELSE 2
Hit(p, q) == \E i \in DOMAIN q : q[i] = IF p = 2 THEN "x" ELSE "y"
Home == [category |-> None, q |-> <<>>, sort |-> "", page |-> 0]
Bookmarks ==
  {Home, [Home EXCEPT !.page = 3], [Home EXCEPT !.page = 1000], [Home EXCEPT !.category = "c"],
   [Home EXCEPT !.q = <<" ", "x", "x", " ", "y">>, !.page = 2], [Home EXCEPT !.q = <<"z">>, !.sort = "odd"]}

\* A page of one product; of two reviews, the sitemap's two pages of one product.
Browse == INSTANCE Catalog WITH
  Products <- 1 .. 3, Category <- Kind, Price <- Tag, Matches <- Hit, Product <- 2, Reviews <- 7 .. 9,
  Categories <- {"a", "b"}, Addresses <- Bookmarks, PAGE_SIZE <- 1, SITEMAP_PAGE_SIZE <- 1, SITEMAP_MAX_PAGES <- 2,
  MAX_Q_LENGTH <- 3, MaxInt <- 100, MaxVisits <- 2, MaxWrites <- 2, MaxExpiries <- 1, MaxPurges <- 1, MaxLost <- 1
ProductPage == INSTANCE Catalog WITH
  Products <- 1 .. 3, Category <- Kind, Price <- Tag, Matches <- Hit, Product <- 2, Reviews <- 7 .. 9,
  Categories <- {"a", "b"}, Addresses <- Bookmarks, PAGE_SIZE <- 2, SITEMAP_PAGE_SIZE <- 1, SITEMAP_MAX_PAGES <- 2,
  MAX_Q_LENGTH <- 3, MaxInt <- 100, MaxVisits <- 2, MaxWrites <- 2, MaxExpiries <- 1, MaxPurges <- 1, MaxLost <- 1

(* Catalogue versions the configurator is opened on: one colour sells out and    *)
(* another returns between two of them.                                      *)
Col(id, part, available, isDefault) ==
  [id |-> id, part |-> part, available |-> available, isDefault |-> isDefault]
Opt(id, type, choices, maxChars) ==
  [id |-> id, type |-> type, choices |-> choices, maxChars |-> maxChars]
Flat ==
  [parts |-> <<>>,
   colors |-> <<Col("red", None, FALSE, TRUE), Col("blue", None, TRUE, FALSE), Col("teal", None, TRUE, FALSE)>>,
   options |-> <<Opt("gift", "choice", {}, None), Opt("name", "text", {}, 2), Opt("motto", "text", {}, None)>>]
Sized ==
  [Flat EXCEPT
     !.colors = <<Col("red", None, TRUE, TRUE), Col("blue", None, FALSE, FALSE), Col("teal", None, TRUE, FALSE)>>,
     !.options = <<Opt("gift", "choice", {"small", "large"}, None), Opt("name", "text", {}, 1)>>]
Parted ==
  [parts |-> <<[id |-> "shade", object |-> "mesh"], [id |-> "base", object |-> None]>>,
   colors |-> <<Col("blue", "shade", TRUE, FALSE), Col("teal", "shade", TRUE, TRUE), Col("red", "base", TRUE, FALSE)>>,
   options |-> Flat.options]
Versions == {Flat, Sized, Parted}
Engravings ==
  {[length |-> 0, blank |-> TRUE], [length |-> 2, blank |-> FALSE], [length |-> 3, blank |-> FALSE]}

(* A cart left by an earlier version, and the wards of a province.             *)
WardsIn(p) == IF p = "hanoi" THEN {"w1"} ELSE {"w2"}
Leftover ==
  {<<>>, <<[key |-> "named", qty |-> 1, on |-> Unset], [key |-> Unset, qty |-> 1, on |-> TRUE],
           [key |-> "plain", qty |-> 9, on |-> FALSE]>>}

(* Two customers who are signed in, and somebody who is not. *)
Customer == "mai" :> "mai" @@ "lan" :> "lan" @@ "finder" :> Nil

(* One invited phone loads the invitation twice.                             *)
Visits(g) == IF g = "mai" THEN 2 ELSE 1

(* Two order codes; three guests of a wedding, two of them many; the bucket of   *)
(* the whole process.  A token comes back in two ticks, a burst in three.     *)
Lookups == INSTANCE RateLimiter WITH
  Keys <- {"c1", "c2"}, Sweeping <- "interval", Ttl <- 3, SoftCap <- 1, Cost <- 2, Capacity <- 3, MaxClock <- 10
Invited == INSTANCE RateLimiter WITH
  Keys <- {"mai", "lan", "an"}, Sweeping <- "crowded", Ttl <- 3, SoftCap <- 1, Cost <- 2, Capacity <- 3, MaxClock <- 7
Uploads == INSTANCE RateLimiter WITH
  Keys <- {"c1"}, Sweeping <- "never", Ttl <- 3, SoftCap <- 1, Cost <- 1, Capacity <- 3, MaxClock <- 7

browsing == <<shelf, cache, reads, shopper, crawl, spent>>
limits == <<clock, buckets, lastSweep, grants>>
vars == <<scene, browsing, cfg, shopVars, trail, track, pet, phone, calls, invitationVars, identityVars, limits>>
-----------------------------------------------------------------------------
CatalogScenes == {"catalog", "product page", "sitemap"}
TagScenes == {"new tag", "pet page", "lost pet"}
IdentityScenes == {"opened", "answered"}

(* What the scene runs starts as it does; of the rest, nothing is there but a   *)
(* closed configurator, an empty cart, the tracker's screen, closed, an empty    *)
(* tag and an invitation that nobody opened.                                *)
Init ==
  /\ scene \in Scenes
  /\ IF scene \in CatalogScenes THEN Browse!CatalogInit
     ELSE shelf = None /\ cache = None /\ reads = None /\ shopper = None /\ crawl = None /\ spent = None
  /\ ConfiguratorInit /\ IdentityInit /\ (scene # "opened" => store.rolling)
  /\ PetTagInit /\ CartInit /\ CheckoutInit /\ InvitationInit
  /\ TrackingInit /\ trail["c2"] = <<"PAID">> /\ (scene # "tracking" => trail["c1"] = <<"PAID">>)
  /\ CASE scene = "lookups" -> Lookups!LimiterInit [] scene = "guests" -> Invited!LimiterInit
       [] scene = "uploads" -> Uploads!LimiterInit
       [] OTHER -> clock = None /\ buckets = None /\ lastSweep = None /\ grants = None

(* Two tabs share a cart, the second without quotes and dialogs of its own;   *)
(* or one tab checks out, its cart written once more at most, its form filled *)
(* from the top (the acknowledgements last), no quote asked for on the cart   *)
(* page and no way back to the shop.                                        *)
FromTheTop(form) ==
  /\ ~form.contact => form.province = Unset
  /\ form.province = Unset => form.proof = "idle"
  /\ form.proof = "idle" => ~form.ack
  /\ form.echo => form.ack

CartScene ==
  \/ /\ scene = "carts"
     /\ \E t \in {"t1", "t2"} :
          \/ CartStep(t) /\ UNCHANGED <<submits, co, posts, order>>
          \/ Navigate(t, "cart")
     /\ edit'["t2"] = Unset /\ quote'["t2"] = Idle
  \/ /\ scene = "checkout"
     /\ \/ CartStep("t1") /\ UNCHANGED <<submits, co, posts, order>>
        \/ CheckoutStep("t1")
     /\ writes' <= 1 /\ edit'["t1"] = Unset /\ FromTheTop(co'["t1"])
     /\ page'["t1"] = "shop" => page["t1"] \in {"closed", "shop"}
     /\ page'["t1"] = "cart" => quote'["t1"] = Idle

(* A new tag: two customers scan it.  A tag that is already Mai's: she lays   *)
(* out its page, or loses the pet and somebody finds it.                    *)
Lives == pet.profile # Nil
ScansOnce(p) == (phone[p].mount = 0 /\ Visit(p)) \/ Refreshed(p)

(* Bound: a panel is not worked on once its owner's calls are used up.         *)
Lays(p) == Own(p) /\ (phone'[p].panel = Nil \/ pet.sent < 2)

(* Hers, as activated or with a block hidden by an earlier visit. *)
Activated ==
  /\ pet.profile = Nil
  /\ \E blocks \in {<<>>, toggleBlockVisible(normalizeBlocks(<<>>), "medical")} :
       pet' = [pet EXCEPT !.status = "ACTIVATED", !.owner = "mai", !.consents = {"mai"},
                          !.profile = [Fresh("miu", "mai") EXCEPT !.blocks = blocks]]
  /\ UNCHANGED <<phone, calls>>

PetScene ==
  \/ scene \in {"new tag", "lost pet"} /\ EncodeTag
  \/ scene = "new tag" /\ \E p \in {"mai", "lan"} : ScansOnce(p) \/ Onboard(p)
  \/ scene \in {"pet page", "lost pet"} /\ Activated
  \/ scene = "pet page" /\ Lives /\ (ScansOnce("mai") \/ Lays("mai"))
  \/ scene = "lost pet" /\ Lives
       /\ (ScansOnce("mai") \/ Lose("mai") \/ Visit("finder") \/ Find("finder"))
  \/ scene \in {"new tag", "pet page", "lost pet"} /\ Network

(* One of its four parts at a time: they share no state.                       *)
InviteScene ==
  \/ scene = "music" /\ PlayMusic
  \/ scene = "rsvp" /\ AnswerInvitation
  \/ scene = "wishes" /\ WriteWishes
  \/ scene = "gallery" /\ LookAtAlbum

(* A shopper who browses while products leave, the latest first; one who reads  *)
(* the reviews of a product that may leave; the sitemap.                     *)
CatalogScene ==
  \/ /\ scene = "catalog" /\ Browse!CatalogNext
     /\ crawl' = crawl /\ shopper'.at \notin {"detail", "notFound"} /\ shelf'.published = shelf.published
     /\ shelf'.live \in {1 .. 3, {1, 2}, {1}} /\ spent'.writes + spent'.lost + spent'.purges <= 2
  \/ /\ scene = "product page" /\ ProductPage!CatalogNext
     /\ crawl' = crawl /\ shopper'.at # "list" /\ shelf'.live \in {1 .. 3, {1, 3}} /\ spent'.writes <= 1
  \/ /\ scene = "sitemap" /\ ProductPage!CatalogNext
     /\ shopper' = shopper /\ shelf'.published = shelf.published

(* Two requests of two browsers, the first slot and the first browser first.    *)
(* A wedding with a date is one whose devices expire together; the couple logs   *)
(* in on the second browser.  Where guests answer, nobody is logged in, nothing  *)
(* expires, one browser has a link of its own and five requests are made.      *)
IdentityScene ==
  /\ scene \in IdentityScenes /\ IdentityNext
  /\ \/ /\ scene = "opened" /\ used'.visits <= 2 /\ used'.answers = 0
        /\ \A r \in Requests : tx'[r] # Null =>
             /\ tx'[r].op = "visit" /\ tx'[r].session => tx'[r].who = "u"
             /\ ~store.rolling => tx'[r].op \in {"visit", "purge"}
     \/ /\ scene = "answered" /\ used'.desk <= 1 /\ store'.lapsed = {}
        /\ used'.visits + used'.answers + used'.desk <= 5
        /\ \A r \in Requests : tx'[r] # Null =>
             /\ tx'[r].op \in {"visit", "answer", "delete"}
             /\ tx'[r].op = "visit" => ~tx'[r].session /\ (tx'[r].who = "t" \/ tx'[r].guest = Null)
  /\ tx'["s"] # Null /\ tx["s"] = Null => tx["r"] # Null
  /\ used.visits = 0 /\ used'.visits = 1 => tx'["r"].who = "t"

LimitScene ==
  \/ scene = "lookups" /\ Lookups!LimiterNext
  \/ scene = "guests" /\ Invited!LimiterNext
  \/ scene = "uploads" /\ Uploads!LimiterNext

Next ==
  /\ UNCHANGED scene
  /\ \/ scene = "configurator" /\ ConfiguratorNext
          /\ UNCHANGED <<browsing, shopVars, trail, track, pet, phone, calls, invitationVars, identityVars, limits>>
     \/ CartScene /\ UNCHANGED <<browsing, cfg, trail, track, pet, phone, calls, invitationVars, identityVars, limits>>
     \/ scene = "tracking" /\ TrackingNext
          /\ UNCHANGED <<browsing, cfg, shopVars, pet, phone, calls, invitationVars, identityVars, limits>>
     \/ PetScene /\ UNCHANGED <<browsing, cfg, shopVars, trail, track, invitationVars, identityVars, limits>>
     \/ InviteScene /\ UNCHANGED <<browsing, cfg, shopVars, trail, track, pet, phone, calls, identityVars, limits>>
     \/ CatalogScene /\ UNCHANGED <<cfg, shopVars, trail, track, pet, phone, calls, invitationVars, identityVars, limits>>
     \/ IdentityScene /\ UNCHANGED <<browsing, cfg, shopVars, trail, track, pet, phone, calls, invitationVars, limits>>
     \/ LimitScene /\ UNCHANGED <<browsing, cfg, shopVars, trail, track, pet, phone, calls, invitationVars, identityVars>>

Spec == Init /\ [][Next]_vars
-----------------------------------------------------------------------------
(* Only the scene's own pages change: only their invariants are evaluated.    *)
On(scenes, inv) == scene \in scenes => inv

(* The type invariants of the pages above. *)
PagesTypeOK ==
  /\ On(CatalogScenes, Browse!CatalogTypeOK)
  /\ On({"carts", "checkout"}, CartTypeOK) /\ On({"tracking"}, TrackingTypeOK)
  /\ On(TagScenes, PetTagTypeOK)
  /\ On({"music", "rsvp", "wishes"}, InvitationTypeOK)
  /\ On(IdentityScenes, IdentityTypeOK)
  /\ On({"lookups"}, Lookups!LimiterTypeOK) /\ On({"guests"}, Invited!LimiterTypeOK)
  /\ On({"uploads"}, Uploads!LimiterTypeOK)

(* The catalogue leads where its links say, says that there is nothing only   *)
(* if there is nothing, and its cache lets go when told to (Catalog); the     *)
(* limiters before the order lookup, the invitation and the uploads hold every   *)
(* caller to the rate and lock none out (RateLimiter).                        *)
PagesSound ==
  /\ On({"catalog"}, Browse!CatalogSound) /\ On({"product page", "sitemap"}, ProductPage!CatalogSound)
  /\ On({"lookups"}, Lookups!LimiterSound) /\ On({"guests"}, Invited!LimiterSound)
  /\ On({"uploads"}, Uploads!LimiterSound)
=============================================================================
