-------------------------------- MODULE Catalog --------------------------------
(***************************************************************************)
(* Browsing the shop: /danh-muc, whose address holds filter, search, order    *)
(* and page (catalog-params.ts), the reviews of a product page, the sitemap,  *)
(* the cached reads behind them (catalog.ts) and the purge of that cache.     *)
(* core-api answers a list from two reads, its rows and their number         *)
(* (ListActiveProductCards, ListPublishedReviews).                          *)
(*                                                                         *)
(* A read's fields then, counted, began and late, hops and lost of the page,  *)
(* from of the crawl, and spent, are history.                              *)
(***************************************************************************)
EXTENDS Naturals, Sequences, FiniteSets, FiniteSetsExt, SequencesExt

CONSTANTS
  Products, Category(_), Price(_), Matches(_, _), \* the catalogue: newest has the greatest number
  Product, Reviews,   \* the product whose page is opened, its reviews
  Categories,         \* slugs the taxonomy shows
  Addresses,          \* addresses typed or bookmarked: a page that is no number is 0
  PAGE_SIZE, SITEMAP_PAGE_SIZE, SITEMAP_MAX_PAGES, MAX_Q_LENGTH,
  MaxInt,             \* the greatest page number core-api reads
  MaxVisits, MaxWrites, MaxExpiries, MaxPurges, MaxLost, \* bounds
  None

VARIABLES shelf, cache, reads, shopper, crawl, spent

catalogVars == <<shelf, cache, reads, shopper, crawl, spent>>

(***************************************************************************)
(* The address.                                                            *)
(***************************************************************************)
SORT_OPTIONS == {"newest", "price_asc"}
DEFAULT_SORT == "newest"
Bare == [category |-> None, q |-> <<>>, sort |-> "", page |-> 0]

Trim(text) ==
  LET solid == {i \in DOMAIN text : text[i] # " "} IN
  IF solid = {} THEN <<>> ELSE SubSeq(text, Min(solid), Max(solid))
clampRunes(text, max) == IF Len(text) <= max THEN text ELSE SubSeq(text, 1, max)

parseReviewsPage(page) == IF page >= 1 THEN page ELSE 1
parseCatalogParams(raw) ==
  [category |-> raw.category,
   q |-> clampRunes(Trim(raw.q), MAX_Q_LENGTH),
   sort |-> IF raw.sort \in SORT_OPTIONS THEN raw.sort ELSE DEFAULT_SORT,
   page |-> parseReviewsPage(raw.page)]

buildCatalogHref(current, patch) ==
  LET resets == DOMAIN patch \cap {"category", "q", "sort"} # {} /\ "page" \notin DOMAIN patch
      next == [f \in DOMAIN current |->
                IF f \in DOMAIN patch THEN patch[f] ELSE IF f = "page" /\ resets THEN 1 ELSE current[f]]
  IN [next EXCEPT !.sort = IF @ = DEFAULT_SORT THEN "" ELSE @, !.page = IF @ > 1 THEN @ ELSE 0]

totalPages(total) == Max({1, (total + PAGE_SIZE - 1) \div PAGE_SIZE})

(* Page markers; 0 is an ellipsis.                                           *)
pageItems(current, pages) ==
  LET shown == {1, pages, current - 1, current, current + 1} \cap 1 .. pages
      After(p) == LET next == {q \in shown : q > p} IN
        IF next = {} \/ Min(next) = p + 1 THEN <<p>>
        ELSE IF Min(next) = p + 2 THEN <<p, p + 1>> ELSE <<p, 0>>
  IN IF pages <= 7 THEN [p \in 1 .. pages |-> p]
     ELSE FlattenSeq([i \in 1 .. Cardinality(shown) |-> After(SetToSortSeq(shown, <)[i])])

emptyStateKind(params) ==
  IF params.q # <<>> THEN "search" ELSE IF params.category # None THEN "filter" ELSE "catalog"

(* What a page of the catalogue links to: the patch of each link.             *)
CategoryLinks == {[category |-> c] : c \in Categories \cup {None}}
ToolbarLinks(params) ==
  {[sort |-> s] : s \in SORT_OPTIONS} \cup IF params.q # <<>> THEN {[q |-> <<>>]} ELSE {}
PagerLinks(params, pages) ==
  {[page |-> n] : n \in IF pages <= 1 THEN {}
     ELSE ({params.page - 1, params.page + 1} \cup Range(pageItems(params.page, pages))) \cap (1 .. pages \ {params.page})}
EmptyLinks(params) ==
  IF emptyStateKind(params) = "filter" THEN {[category |-> None, q |-> <<>>]}
  ELSE IF emptyStateKind(params) = "search" THEN {[q |-> <<>>]} ELSE {}
Links(params, entry) ==
  CategoryLinks \cup ToolbarLinks(params) \cup PagerLinks(params, totalPages(entry.total))
    \cup IF entry.items = <<>> THEN EmptyLinks(params) ELSE {}

(***************************************************************************)
(* core-api, and the cache in front of it.                                   *)
(***************************************************************************)
Key(what, params) ==
  [what |-> what, category |-> params.category, q |-> params.q, sort |-> params.sort, page |-> params.page]
First == parseCatalogParams(Bare)

Matching(on, key) ==
  IF key.what = "reviews" THEN on.published
  ELSE {p \in on.live : (key.category # None => Category(p) = key.category)
                          /\ (key.q # <<>> => Matches(p, key.q))}
Ordered(on, key) ==
  LET Before(a, b) == IF key.sort = "price_asc" /\ Price(a) # Price(b) THEN Price(a) < Price(b) ELSE a > b
  IN SetToSortSeq(Matching(on, key), Before)
RowsOf(on, key) ==
  LET size == IF key.what = "sitemap" THEN SITEMAP_PAGE_SIZE ELSE PAGE_SIZE
      rows == Ordered(on, key)
  IN SubSeq(rows, (key.page - 1) * size + 1, Min({key.page * size, Len(rows)}))
\* pageParams, searchParam
Refused(key) == key.page \notin 1 .. MaxInt \/ Len(Trim(key.q)) > MAX_Q_LENGTH
Found(on, key) == key.what \in {"detail", "reviews"} => Product \in on.live

Entry(key, items, total, read) ==
  [key |-> key, items |-> items, total |-> total, then |-> read.then, counted |-> shelf, began |-> read.began,
   late |-> read.late, stale |-> FALSE]
Asked(key) == [key |-> key, items |-> None, then |-> None, began |-> spent.purges, late |-> FALSE]

CatalogInit ==
  /\ shelf = [live |-> Products, published |-> Reviews]
  /\ cache = [k \in {} |-> None]
  /\ reads = [who \in {"shopper", "crawler", "refresh"} |-> None]
  /\ shopper = [at |-> "blank", params |-> First, want |-> None, entry |-> None, hops |-> 0, lost |-> FALSE]
  /\ crawl = [step |-> "idle", want |-> None, slugs |-> <<>>, from |-> {}]
  /\ spent = [visits |-> 0, writes |-> 0, expiries |-> 0, purges |-> 0, lost |-> 0]

(***************************************************************************)
(* The pages.  A product page reads the product first.                       *)
(***************************************************************************)
Opening(at, params, hops) ==
  [at |-> at, params |-> params, want |-> Key(at, params), entry |-> None, hops |-> hops, lost |-> FALSE]

visit(at, params) ==
  /\ spent.visits < MaxVisits /\ shopper.want = None
  /\ shopper' = Opening(at, params, 0)
  /\ spent' = [spent EXCEPT !.visits = @ + 1]
  /\ UNCHANGED <<shelf, cache, reads, crawl>>

\* A bookmark, the search field of the header, or a link of what is shown.
openCatalog ==
  \E raw \in Addresses \cup
       (IF shopper.at = "list" /\ shopper.entry # None
        THEN {buildCatalogHref(shopper.params, patch) : patch \in Links(shopper.params, shopper.entry)} ELSE {}) :
    visit("list", parseCatalogParams(raw))
openProduct ==
  \E page \in {0, 2} \cup
       (IF shopper.at = "detail" /\ shopper.entry # None
        THEN {shopper.params.page - 1, shopper.params.page + 1} \cap 1 .. totalPages(shopper.entry.total) ELSE {}) :
    visit("detail", [First EXCEPT !.page = parseReviewsPage(page)])

(* CatalogPage and ProductDetailPage: beyond the last page, to the last page.   *)
Rendered(entry) ==
  LET pages == totalPages(entry.total)
      last == IF shopper.at = "list" THEN parseCatalogParams(buildCatalogHref(shopper.params, [page |-> pages]))
              ELSE [First EXCEPT !.page = pages]
  IN IF entry.key.what = "detail" THEN [shopper EXCEPT !.want = Key("reviews", shopper.params)]
     ELSE IF entry.total > 0 /\ shopper.params.page > pages THEN Opening(shopper.at, last, shopper.hops + 1)
     ELSE [shopper EXCEPT !.want = None, !.entry = entry]

(* fetchAllProductSlugs.                                                    *)
Collected(entry) ==
  LET page == entry.key.page
      ends == Len(entry.items) = 0 \/ page * SITEMAP_PAGE_SIZE >= entry.total \/ page = SITEMAP_MAX_PAGES
  IN [crawl EXCEPT !.slugs = @ \o entry.items, !.from = @ \cup {entry.then, entry.counted},
                   !.step = IF ends THEN "done" ELSE @,
                   !.want = IF ends THEN None ELSE [@ EXCEPT !.page = page + 1]]
sitemap ==
  /\ crawl.step # "loop" /\ spent.visits < MaxVisits
  /\ crawl' = [step |-> "loop", want |-> Key("sitemap", First), slugs |-> <<>>, from |-> {}]
  /\ spent' = [spent EXCEPT !.visits = @ + 1]
  /\ UNCHANGED <<shelf, cache, reads, shopper>>

Given(who, entry) ==
  /\ shopper' = IF who = "shopper" THEN Rendered(entry) ELSE shopper
  /\ crawl' = IF who = "crawler" THEN Collected(entry) ELSE crawl
Wanted(who) == IF who = "shopper" THEN shopper.want ELSE IF who = "crawler" THEN crawl.want ELSE None

(* A stored answer is served at once, and asked for anew once it is stale.     *)
fetch(who) ==
  LET key == Wanted(who) IN
  /\ key # None /\ reads[who] = None
  /\ IF key \in DOMAIN cache
     THEN /\ Given(who, cache[key])
          /\ reads' = IF cache[key].stale /\ reads["refresh"] = None THEN [reads EXCEPT !["refresh"] = Asked(key)] ELSE reads
     ELSE reads' = [reads EXCEPT ![who] = Asked(key)] /\ UNCHANGED <<shopper, crawl>>
  /\ UNCHANGED <<shelf, cache, spent>>

(* The lookups that come first, and the rows.                                 *)
readRows(who) ==
  LET read == reads[who] IN
  /\ read # None /\ read.items = None /\ ~Refused(read.key) /\ Found(shelf, read.key)
  /\ reads' = [reads EXCEPT ![who].items = RowsOf(shelf, read.key), ![who].then = shelf]
  /\ UNCHANGED <<shelf, cache, shopper, crawl, spent>>
countRows(who) ==
  LET read == reads[who]
      entry == Entry(read.key, read.items, Cardinality(Matching(shelf, read.key)), read)
  IN /\ read # None /\ read.items # None
     /\ cache' = [k \in DOMAIN cache \cup {read.key} |-> IF k = read.key THEN entry ELSE cache[k]]
     /\ reads' = [reads EXCEPT ![who] = None]
     /\ Given(who, entry)
     /\ UNCHANGED <<shelf, spent>>

(* A product that is not active: its page is not found, its reviews are none.   *)
notFound(who) ==
  LET read == reads[who] IN
  /\ read # None /\ read.items = None /\ ~Found(shelf, read.key)
  /\ reads' = [reads EXCEPT ![who] = None]
  /\ IF who = "refresh" THEN UNCHANGED shopper
     ELSE shopper' = IF read.key.what = "detail" THEN [shopper EXCEPT !.want = None, !.at = "notFound"]
                     ELSE Rendered(Entry(read.key, <<>>, 0, [read EXCEPT !.then = shelf]))
  /\ UNCHANGED <<shelf, cache, crawl, spent>>

(* The error boundary; the sitemap falls back to its static routes.           *)
failed(who) ==
  LET read == reads[who]  refused == Refused(read.key) IN
  /\ read # None /\ (refused \/ spent.lost < MaxLost)
  /\ reads' = [reads EXCEPT ![who] = None]
  /\ shopper' = IF who = "shopper" THEN [shopper EXCEPT !.want = None, !.at = "error", !.lost = ~refused] ELSE shopper
  /\ crawl' = IF who = "crawler" THEN [crawl EXCEPT !.want = None, !.step = "static", !.slugs = <<>>] ELSE crawl
  /\ spent' = [spent EXCEPT !.lost = IF refused THEN @ ELSE @ + 1]
  /\ UNCHANGED <<shelf, cache>>

(***************************************************************************)
(* What happens elsewhere.                                                 *)
(***************************************************************************)
write ==
  /\ spent.writes < MaxWrites
  /\ \/ \E p \in Products : shelf' = [shelf EXCEPT !.live = IF p \in @ THEN @ \ {p} ELSE @ \cup {p}]
     \/ \E r \in Reviews : shelf' = [shelf EXCEPT !.published = @ \ {r}]
  /\ shelf' # shelf
  /\ spent' = [spent EXCEPT !.writes = @ + 1]
  /\ UNCHANGED <<cache, reads, shopper, crawl>>

expire ==
  /\ spent.expiries < MaxExpiries
  /\ \E k \in DOMAIN cache : ~cache[k].stale /\ cache' = [cache EXCEPT ![k].stale = TRUE]
  /\ spent' = [spent EXCEPT !.expiries = @ + 1]
  /\ UNCHANGED <<shelf, reads, shopper, crawl>>

(* POST /api/revalidate: a secret is its length and whether it is the right one. *)
verifyRevalidateSecret(provided, expected) ==
  IF expected = None THEN 500
  ELSE IF provided = None \/ provided.length # expected.length THEN 401
  ELSE IF provided.text = expected.text THEN 200 ELSE 401
revalidate(provided, expected) ==
  /\ spent.purges < MaxPurges /\ verifyRevalidateSecret(provided, expected) = 200
  /\ cache' = [k \in {} |-> None]
  /\ reads' = [who \in DOMAIN reads |-> IF reads[who] = None THEN None ELSE [reads[who] EXCEPT !.late = TRUE]]
  /\ spent' = [spent EXCEPT !.purges = @ + 1]
  /\ UNCHANGED <<shelf, shopper, crawl>>

CatalogNext ==
  \/ openCatalog \/ openProduct \/ sitemap
  \/ \E who \in DOMAIN reads : fetch(who) \/ readRows(who) \/ countRows(who) \/ notFound(who) \/ failed(who)
  \/ write \/ expire
  \/ LET secret == [length |-> 8, text |-> "right"] IN revalidate(secret, secret)

CatalogSpec == CatalogInit /\ [][CatalogNext]_catalogVars

-----------------------------------------------------------------------------
CatalogTypeOK ==
  /\ shelf.live \subseteq Products /\ shelf.published \subseteq Reviews
  /\ shopper.at \in {"blank", "list", "detail", "notFound", "error"}
  /\ shopper.params.sort \in SORT_OPTIONS /\ shopper.params.page >= 1 /\ Len(shopper.params.q) <= MAX_Q_LENGTH
  /\ crawl.step \in {"idle", "loop", "done", "static"}
  /\ \A k \in DOMAIN cache : cache[k].key = k /\ k.page <= MaxInt

(* A page says that there is nothing only if nothing matched when core-api      *)
(* counted, or the shelf changed between its two reads, or the product went.   *)
NothingMeansNothing ==
  LET e == shopper.entry IN
  e # None => (e.items = <<>> =>
    Matching(e.counted, e.key) = {} \/ e.then # e.counted \/ ~Found(e.then, e.key))

(* However the stored answers disagree, a page is not sent on forever.          *)
RedirectsEnd == shopper.hops <= totalPages(Cardinality(Products))

(* Every link leads to what it says: it changes what it names, keeps the rest,  *)
(* and starts at the first page unless it names a page.  (Of a search that was *)
(* cut at a blank the blank is lost.)                                       *)
LinksLeadThere ==
  shopper.at = "list" /\ shopper.entry # None =>
    \A patch \in Links(shopper.params, shopper.entry) :
      LET to == parseCatalogParams(buildCatalogHref(shopper.params, patch))
          Kept(f) == IF f = "q" THEN Trim(shopper.params.q) ELSE shopper.params[f]
      IN /\ \A f \in {"category", "q", "sort"} : to[f] = IF f \in DOMAIN patch THEN patch[f] ELSE Kept(f)
         /\ to.page = IF "page" \in DOMAIN patch THEN patch.page ELSE 1

(* The pager names the first, the current and the last page in order, and an    *)
(* ellipsis never stands for a single page.                                 *)
PagerWhole ==
  spent.visits + spent.writes = 0 => \A pages \in 1 .. 10 : \A current \in 1 .. pages :
    LET items == pageItems(current, pages) IN
    /\ {1, current, pages} \subseteq Range(items) /\ items[1] = 1 /\ items[Len(items)] = pages
    /\ \A i \in 1 .. Len(items) - 1 :
         IF items[i] = 0 THEN items[i + 1] > items[i - 1] + 2 ELSE items[i + 1] \in {0, items[i] + 1}

(* The address never makes core-api refuse, save a page it cannot read as a     *)
(* number.                                                                 *)
NeverRefused == shopper.at = "error" => shopper.lost \/ shopper.params.page > MaxInt

(* A purge sticks: what is stored was asked for after it, or was being read.    *)
PurgeSticks == \A k \in DOMAIN cache : cache[k].began = spent.purges \/ cache[k].late

(* A sitemap whose pages were read from one shelf lists all of it, once, as far *)
(* as it goes.                                                             *)
SitemapWhole ==
  crawl.step = "done" /\ Cardinality(crawl.from) = 1 =>
    LET all == Ordered(CHOOSE on \in crawl.from : TRUE, Key("sitemap", First)) IN
    crawl.slugs = SubSeq(all, 1, Min({Len(all), SITEMAP_MAX_PAGES * SITEMAP_PAGE_SIZE}))

CatalogSound ==
  /\ NothingMeansNothing /\ RedirectsEnd /\ LinksLeadThere /\ PagerWhole
  /\ NeverRefused /\ PurgeSticks /\ SitemapWhole
=============================================================================
