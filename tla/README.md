# Lumin Studio: TLA+ models and proofs

Lumin Studio sells personalised 3D prints: a storefront, an admin console, a
browser extension for orders taken in chat, a Go API over Postgres (`core-api`),
an outbox relay to NATS JetStream, a GPU worker in Rust, and a wedding product
of its own: a site for guests, a dashboard for the couple, a service behind
both. This directory models the parts where concurrency, failure and ordering
decide whether the shop works: the transactions of the back end, statement by
statement, and the front ends against the handlers they call. Paths below are
relative to `services/core-api/` unless they say otherwise.

## Inventory

| Component | State | Operations | Talks to |
|---|---|---|---|
| Order state machine, `internal/order` (twin: `packages/core/src/order-state.ts`) | none: pure rules | `Transition`, `GenesisEvent`, `ReplayStatus`, `RoleAllowed` | every writer of orders |
| Order write path, `internal/db/orders.go`, `internal/httpapi/checkout.go`, `transition.go`, `server.go` | `orders`, `order_items` | create (web, inbox), reconcile, the other transitions | print board, outbox: same transaction |
| Print board, `internal/httpapi/admin_print_queue.go`, `admin_print_deduct.go`, `internal/db/jobs.go`, `filament.go` | `print_jobs`, `filament_batches`, `filament_consumption` | move a card, scrap, import a lot, encode a tag | orders (auto-advance) |
| Outbox relay, `internal/relay`, `internal/natsx` | `outbox`; JetStream streams | insert (in the domain transaction), drain, quarantine, requeue | every domain writer, NATS |
| Asset jobs, `internal/httpapi/internal_asset_jobs.go`, `admin_asset_jobs.go`, `internal/retention/assetjobs.go` | `asset_jobs`, product URLs | enqueue, report a result, sweep stuck jobs | outbox, asset worker |
| Asset worker, `services/asset-worker` | its pull buffer, the message in hand | pull, process, report, ack / nak / term | JetStream, core-api callback |
| NFC pet tags, `internal/db/pettag.go`, `internal/httpapi/pettag_customer.go`, `admin_pettag_encode.go` | `pet_tags`, `pet_profiles` | mint, encode, activate, edit, lost mode, locate | print board, customers |
| Retention sweepers, `internal/retention` | `orders.payment_proof_url`, stored objects | delete the object, clear the reference | object store |
| Pricing, money, costing, `internal/pricing`, `internal/money`, `internal/db/costing*.go` | none / cost books | price a line, total an order, book imports and scrap | checkout, board |
| Catalog, settings, reviews | one row per entity, cached reads in the storefront | CRUD, publish, moderate, purge | storefront, admin |
| Wedding API, `services/wedding-api` | couples, events, guests, identities per device, wishes | open, answer, wish, claim a device, purge; the dashboard's writes | wedding site, owner's console |
| Storefront, `apps/storefront` | address of the catalogue, cart in `localStorage`, forms, polls | browse, configure, edit a line, check out, track, a tag's pages | core-api |
| Admin console, `apps/admin` | screens, queues of server actions, a push stream | every screen's writes, uploads, polls | core-api, wedding-api |
| Wedding site and dashboard, `apps/wedding-web` | music, answer, wish wall; lists, drafts, ticks | answer, wish, play; edit guests and settings | wedding-api |
| Rate limiters, `internal/httpapi/ratelimit.go`, the same of `services/wedding-api` | a token bucket per code, email or address | let through or refuse, sweep | lookup, login, guests' pages, uploads |
| Browser extension, `apps/extension` | a form with the fetched product and its running total; the card of one order | take an order from a chat, look one up, move it | core-api |
| Auth, domain manager, infrastructure | cookies / none | sign in; Kubernetes calls; deploy | - |

Requests run concurrently, each in one READ COMMITTED transaction (`withTx`) cut
off by a disconnect, the 30 s timeout or a crash. The only coordination is what
Postgres gives: row locks (`SELECT .. FOR UPDATE`, `UPDATE`), conditional
updates, unique indexes, and the deadlock detector. Messages leave the database
through the outbox only; the relay is one goroutine of the one `core-api`
replica, without a lock against a second instance (`internal/relay/relay.go`
4-6), while the deployment rolls without a `Recreate` strategy. In the browsers
every handler is a coroutine: what it read before an `await` may be stale after
it, tabs share storage, answers overtake each other, and a closed dialog or page
does not stop the request it sent. Next.js server actions of one page are an
exception: they run one after the other.

What must hold, per component:

* **Orders**: no transition is lost or applied to a stale order; the audit trail
  replays to the status; the columns copied from it agree; money moves by the
  owner only; an order that is paid has its cards on the board and its event in
  the outbox, once, whatever fails on the way.
* **Board**: one physical print draws filament once; draws never take the same
  grams twice and use the oldest lot first; the ledger explains the stock; the
  order leaves PAID when its last card leaves NEED_PRINT; nobody waits for ever.
* **Relay**: nothing is published that did not commit, nothing committed is
  forgotten, a cause precedes its effect, an outage burns no attempts.
* **Assets**: a product shows its newest finished model in its newest colours,
  and a job's message leaves the queue only with a result on record.
* **Pet tags**: one owner, one layout the server takes, a lost pet's allergies on
  the page, a chip that opens the tag that records it.
* **Retention**: no cleared reference leaves its object, no running order loses
  its receipt.
* **Rate limiters**: no key gets more than its rate, none is locked out, and idle
  buckets are given back.
* **Storefront**: an empty page means an empty shelf, a purge sticks, a cart line
  has the total of its own configuration, an order is what was shown.
* **Wedding**: answers are one's own, a guest counts as opened exactly if a guest's
  device opened, the couple loses no input and deletes only what it sees.
* **Browser extension**: the total on the form is the server's for that form, an
  order is not made twice or unseen, a button moves the order it is shown with.
* **Screens**: what a screen shows at rest is what the server stores, and what a
  screen offers the server accepts.

The full list of hazards, each at its line, is in `PROJECT.json`.

## Modules

Back end, each with its own runs:

| Module | What it is |
|---|---|
| `OrderStatus` | The rules of `internal/order/status.go` as constant operators. |
| `OrderBook` | Abstract specification: an order is an append-only trail; each step is atomic with its cards and announcements. |
| `OrderTransactions` | The same operations as concurrent transactions, statement by statement. Defines the refinement `ImplementsOrderBook`. |
| `OrderTransactionsProofs` | Types, isolation, the database invariants and the refinement of `OrderBook`, proved. |
| `PrintBoard` | Card moves, filament draws, scrap, auto-advance, with explicit locks. |
| `PrintBoardProofs` | The laws of the sums grams are added up with; then types, stock, order of lots, claims, draws, ledger and edges of the board, proved. |
| `AssetPipelineProofs` | Types and safety of the asset pipeline, proved (`AssetPipeline` is below). |
| `OutboxRelay` | Outbox rows, relay, broker, crashes, requeue. |
| `OutboxRelayProofs` | The relay's safety, proved. |
| `CustomerPagesProofs` | Types and honesty of the order tracker, the promises of a pet tag, those of the cart and its checkout, and the configurator's, proved (`OrderTracking`, `PetTag`, `Cart`, `Checkout` and `Configurator` are below). |
| `InvitationProofs` | The opened counts, profiles, choices and list of an invitation, and its page's music, answers, wishes and album, proved (`GuestIdentity` and `Invitation` are below). |
| `PrintDeskProofs` | Convergence of the boards in the browser and the tags on the chips, proved (`PrintDesk` is below). |
| `TimeLimitProofs` | The rate limiters' rate, absence of a lockout and map size, and the receipt sweeper's safety, proved (`RateLimiter` and `ReceiptRetention` are below). |

Components of the two larger instances, `MCPublicPages` (what anybody may open)
and `MCBackOffice` (what is behind a login, and the jobs behind it):

| Module | State and actions |
|---|---|
| `Catalog` | `shelf` and the cached reads of `catalog.ts`; visits, links, the two reads behind a list (rows, number), expiry and purge, the sitemap crawl. |
| `Configurator` | `cfg`: the pickers and the button's gate, against `pricing.PriceItem` on the catalogue version then current. |
| `Cart` | The stored `cart` all tabs share and what each `seen`; reducers, storage events, debounced quote, edit dialog. |
| `Checkout` | On top of `Cart`: form, shipping, receipt upload, submission, and handlers that outlive their page. |
| `OrderTracking` | Guest tracker and wait screen: the poll loop with its deadline, hidden tabs, abandoned answers and calls that reach nobody, and the timeline drawn. |
| `RateLimiter` | The buckets of one limiter, by key, and its clock: a call with its sweep, time, a restart. |
| `PetTag` | Tag row and profile, the phones that scanned it, calls under way: encode, onboarding, panels, lost mode, location share. |
| `InvitationMusic`, `InvitationRsvp`, `InvitationWishes`, `InvitationGallery` | The four interactive parts of an invitation with the handlers they call. |
| `Invitation` | The page they are mounted on, side by side (`invitation-card.tsx`). |
| `GuestIdentity` | The devices of an invitation (`guest_identity.go`), transaction by transaction: resolve, claim, recompute, fork, delete, purge. |
| `AdminCosting`, `AdminSettings`, `AdminLists` | Costing tabs and dialogs; settings, team and tokens; categories, templates, domains and reviews as a queue of actions and refreshes. |
| `OrderDesk` | The owner's and staff's order page and list against the rules of `OrderStatus`, while others move the order. |
| `PrintDesk` | The board in two browsers: optimistic moves, the push hub with its full buffers, polling, and the two-phase encode of a tag. |
| `ProductParts`, `ProductPreview`, `ProductEditor` | Parts, colours and options; model, pose and engraving spots with their jobs; the product form and gallery. |
| `GuestDesk`, `WeddingDrawer`, `WeddingOffice` | The couple's dashboard, its settings drawer, and the owner's page of all couples with the addresses they ask for. |
| `InboxForm` | The extension's order form: product, selections, address, the running total, the order under way, the shop that changes meanwhile. |
| `OrderLookup` | The extension's card of an order: lookups and moves under way, the reason picker, others who move the order. |
| `AssetPipeline` | Jobs, their messages, the one worker with its pull buffer, stored derivatives and reports. |
| `ReceiptRetention` | Orders with receipts, the bucket, and sweeps that list, delete and clear. |

`MCOrderTransactions`, `MCPrintBoard` and `MCOutboxRelay` hold bounds and symmetry
only, and extend their module. `MCPublicPages` extends `Checkout`, `OrderTracking`,
`PetTag`, `GuestIdentity` and `Invitation`, `MCBackOffice` extends `AssetPipeline`, `PrintDesk`
and `WeddingOffice`, which itself extends `GuestDesk` and `WeddingDrawer`: mostly the components
whose proofs name a property of these runs. Both instantiate the others. Both choose, in the initial state, one
*scene*: the component (or the group of its controls) that runs while the
variables of the others hold nothing, or stay as they start. Components of different scenes share no row that a property
speaks of, so running them together would multiply the states and add no
behaviour; where two do interact (cart and checkout, tag and board, model and
jobs) they are one scene. The conjuncts a scene adds to the component's own
next-state relation are its bounds, named in the comment above it.

`OrderStatus` is shared by `OrderBook`, `OrderTransactions`, `PrintBoard`,
`OrderDesk` and `OrderLookup`; `InboxForm` takes the pricing rules of a line
(`PriceItem`) from `Configurator`. The board sees an order's transitions as single steps
(`ConfirmPayment`, `TransitionOrder`): that is what `OrderTransactions`
implementing `OrderBook` entitles it to.

**OrderTransactions.** `rows`, `boarded` and `told` are the committed tables
(`boarded[o]` counts runs of `CreatePrintJobsForOrder`; `told[o]` is the outbox
restricted to o). `tx[r]` is a request slot with its program counter and its
uncommitted writes. `Receive` is the handler up to `Begin`, with the boundary
checks of `intakeFrom` and `TransitionOrder` as its guard. Then one action per
statement that reads or writes: `InsertOrder`, `Lock`, `AdvanceStatus`,
`SetShippingArtifacts`, `CreatePrintJobs`, `EnqueueOutbox`, and `Commit`,
`Reject`, `Abort` for the ends of `withTx`. A row lock is the program counter
itself (`Holds`). Abstractions: an actor is a role; of the papers a request
carries only those some check examines are kept; the items, totals and codes are
left out; the customer and consent rows of the same transaction are left out.

**PrintBoard.** `tx[r].locks` is explicit because locks of three tables mix
here. A statement whose row another transaction holds is `Blocked`; a conditional
update passes over a row that does not match without waiting (`CardWanted`) and
is evaluated on the committed row once the lock is free, as Postgres re-checks
it. `drawn` are the uncommitted takes; `StageSeenBy` is read-committed visibility
plus the transaction's own write. Lots are locked per material: every draw locks
the open lots of a material in one order, so the first open lot decides. A draw
against an empty material locks nothing. The frozen cost of a draw, lot imports
and the encode move are not in the module yet.

**OutboxRelay.** `row[e]` follows the outbox row of the e-th value of the
`bigserial`, from the running transaction that inserted it ("open") to its status
column. `Cause[e]` says which committed event a transaction had to see before it
could insert e (an order.paid needs its order.created). `drainOnce` is one action
per statement and per publish, on a snapshot of the batch; a transient failure
drops the rest of the batch. `Poison` events are rejected by the broker until the
owner cures the cause. The duplicate window may forget any id at any time, so
duplicates beyond it are in the model. A failed `EnsureTopology` on a reachable
broker is folded into the time before the broker is reachable.

**Front ends.** A handler is split where the code awaits: the part before it is
one action, the request is an element of a set (`calls`, `fetches`, `jobs`,
`posts`, `writes`), the server's handler is one step on it (it is one statement
or one `withTx` with no lock to wait for), and the continuation is the action
that takes the answer, against whatever the component has become by then. Where
the browser orders its server actions (`AdminSettings`, `AdminLists`) the calls
are a queue. A call may be lost before or after the server acted, within a bound.
Texts, photos, prices and keys are members of small sets; lengths and shapes are
kept where two validations of one text are compared (`ProductEditor`,
`WeddingOffice`, `Configurator`). Data that only drawing uses is left out.

**GuestIdentity.** One action per statement that reads or writes; `tx[r]` holds
what a transaction has read and not committed. All browsers share one
fingerprint, as the phones of one household do. A save on an untrusted device
forks it in two steps: `Copy` makes the new device, `Take` gives it the token and
the browser's own visits (two UPDATEs as one step, since the token's row stays
locked between them). On a device of the browser's own it is `Write`. The locks
are operators of what a transaction has done so far.

**AssetPipeline.** `stream` is the work queue with its delivery counts; the
worker's `buffer` may hold deliveries that expire behind a long render. Only the
job in hand sends heartbeats. A derivative is stored under its source model's
hash, so the renders of one model overwrite each other's object. Jobs may be
announced in any order: the relay passes over a row the broker rejects, which a
requeue publishes later, and a row's seq is taken when it is inserted, not when it
commits. A job announced after a newer one has *fallen behind* (`mishaps.behind`), and so has one
that is announced or worked on again. The colours of a render are read before the
transaction that inserts its job (`CreateAssetJob`): they may be those of a moment
ago. There is no
action for the reconcile sweep: it looks for jobs in 'processing', and no worker
reports that status.

**ReceiptRetention.** Listing, each delete and each clear are steps of their own;
a sweep may fail or die at any of them, and two pods sweep while a rolling update
overlaps. The bucket's own lifecycle rule is assumed longer than the life of an
order plus the retention term.

**WeddingOffice.** A handler that looks before it writes is two steps or more:
`probeSlug` tries one number after another, a query each, and `insertWedding` or
`insertEvent` comes later and may meet a slug taken meanwhile (answered as an
error); `countWeddings` comes before `deleteCounted`, and the couple's check of an
address (`askSubdomain`) before `storeRequest`. A page that is loaded again shows nothing until
both of its reads are back.

**RateLimiter.** One module for the three limiters, told apart by `Sweeping`: the
order lookup and the login sweep once per ttl, the wedding service when its map
is large, the process-wide bucket of the uploads and pet pages is never
forgotten. A call is one step, because it holds the mutex throughout. A bucket of
`golang.org/x/time/rate` is external; it is modelled by the time it will be full
again, measured so that one token is `Cost`. The wedding service reads the clock
twice in a call; here both readings are one. `grants` is a record of the calls
let through since the process started.

**PrintDesk.** A push carries a whole card, and who pushes decides how old it is: a
move and an encode push what they committed, a prepare what it read before its
commit (`admin_pettag_encode.go:98`), which a move committed meanwhile has
outdated. A poll is read at one moment and merged at another; `since` remembers
the cards that moved in between, `missed` the ones a board was never told.
`past.raced` names the cards that somebody moved, opened or confirmed before all
earlier news of them had arrived, or whose answer was lost after the commit: the
answers of such calls and the pushes come in either order, and a board may keep the older.

**PetTag.** A phone acts on the page it was last served. An encode sets the
status whatever it was (`MarkPetTagEncoded` is unconditional): a tag that has an
owner then serves the set-up form, which nobody can complete, because the profile
it would insert exists (`tag_id` is unique).

Every module keeps, next to a definition, the mutated forms that
`PROJECT.json` names (marked "Mutant"): plausible bugs in that code. No
specification uses them; each shows that one property can fail.

**History.** Some variables and fields record only what has happened (`past`,
`mishaps`, `spent`, `during`, `raced`, ..; each module's head names them). They
are there to say *exactly* where the code does not keep a promise: a property
reads "unless this very race took place", and the race is the narrowest one under
which the model checker still finds no violation. What they record is listed
under "What the code does not promise".

## Runs

| Run | Question | Bounds |
|---|---|---|
| `order_tx` | Do racing, failing order transactions keep the database consistent and implement the order book? | one order, two requests, owner and staff, every destination status and every set of examined papers |
| `order_live` | Does every order transaction end? | the same with the owner only, no symmetry |
| `board` | Do racing moves and scrap draws keep cards, stock and ledger right? | one order, two cards with crossed two-material draws, three lots that run short, two requests |
| `board_live` | Do moves end, deadlock included? | the same without scrap, two columns |
| `board_race` | Does the auto-advance hold when two cards move at once? A counterexample, see Findings. | two requests |
| `relay` | Is the deployed relay safe? | three events, one poison, batch 2, two attempts, two faults |
| `relay_live` | Is everything delivered in the end? | the same with batch 1: a poison row is a full batch |
| `relay_rollout` | Does the order of cause and effect survive two relays at once? | two relays, one fault |
| `public_pages` | Do the public pages keep their promises? | 19 scenes; two or three tabs, phones, browsers, versions or keys each, two to four writes, a clock of up to ten ticks |
| `offline` | Does a failed poll ever end the polling? A counterexample, see Findings. | the tracking scene |
| `late_order` | Does only what was ordered leave the cart? A counterexample, see Findings. | the checkout scene |
| `back_office` | Do the screens behind a login, the extension's panel, the asset pipeline and the receipt sweeper? | 23 scenes; two screens, hosts, jobs or sweepers each, two or three writes |

What the properties of the two larger runs are made of:

| Property | Conjuncts |
|---|---|
| `PagesSound` | `CatalogSound`: an empty page means an empty shelf (or a shelf that changed between the two reads), redirects end, links lead where they say, the pager is whole, core-api never refuses an address, a purge sticks, a sitemap read from one shelf is whole. The limiters of order lookups, of guests and of uploads (`LimiterSound`): `NoBurstBeyondTheLimit`, `RefusedOnlyByGrants`, `IdleBucketsGo`. |
| `ConfiguratorSound` | `GateMatchesServer`: the button, whenever it is enabled, builds a line that `PriceItem` accepts, on the version of the product the dialog fetched; `UntouchedEditKeepsLine`: an edit that changes nothing keeps its line. |
| `CheckoutSound` | `CartWellFormed`: one line per configuration, within the limits; `LineTotalsAreTheirOwn`; `OrderAsShown`: lines, destination, receipt and acknowledgements are those of the total on screen; `OneSubmissionAtATime`. |
| `EditNeverResurrects` | A line another tab removed stays removed (action property). |
| `TrackingHonest` | "Live" means that something will poll, unless the storefront was out of reach; one request at a time; the order shown is the one asked for, and never an older state of it than this run has shown before; the timeline tells its trail. |
| `PetTagSound` | One owner, also after a second encode; every layout save is accepted; a lost pet shows its allergies; "sent" means recorded. |
| `InvitationSound` | `OffIsSilent`: music that is off is silent, music that is on ends at its own level; `AnswersAreOnesOwn`: guests nobody can tell apart keep an answer each; `WallMatchesServer`; `EveryPhotoHasItsCell`. |
| `IdentitiesSound` | `OpenedCounts`: a guest has opened exactly if a device not the couple's did; `ProfileIsOnesOwn`; `ChoiceStays`; `AnswersAreListed`. |
| `StaffSound` | `CostingSound`, `SettingsSound`, `ListsSound`, `OrderDeskSound` (what is offered is accepted), `PartsSound` (every surface opens on one colour), `PreviewSound`, `EditorSound`; `InboxSound` (the total is the form's, a refusal has a reason, no order goes unseen, what was shown is charged), `LookupSound` (the card is the one searched last and current, its buttons are accepted); of the receipts `ClearedMeansDeleted`, `ReceiptKept`, `FailureStallsNoOther`. |
| `PrintDeskSound` | `BoardConverges`: a board left alone shows each card where it is, polls and buffers included; `ChipOpensItsTag`: the chip whose uid a tag records carries that tag's address. |
| `WeddingDeskSound` | `DeskSound` (lists settle on what is stored, a bulk delete reaches what is seen), `DrawerSound` (no input is dropped, no other host's field taken back), `OfficeSound` (one couple stays; what goes live was typed by the owner or seen when approving, unless the couple asked for it behind the page's back). |
| `AssetsSound` | `ShowsWhatWasMade`, `ShowsNewestModel`, `ShowsNewestLook`, `NoJobForgotten`. |

Why the bounds are enough to be interesting: order transactions of different
orders touch disjoint rows, so one order with two requests has every conflict
there is, and the theorems below lift the result to all sizes. Two requests are
what a lock conflict, a deadlock and a write skew need. Three lots give a take
that ends inside a lot, at its end and across lots, and quantities that exceed
the stock. In the relay a batch smaller than the backlog, a cause with its effect
and an unrelated event with an inverted commit order are present together;
`MaxFaults` bounds crashes, outages, lost acknowledgements, database errors and
premature requeues together. `DropTargets` bounds the columns a card is dropped
into; columns left out behave like PACKING. In the scenes, two actors and two or
three writes are what every race named below takes. The panel's form has five edits,
two fillings, two orders sent and one change by the owner or one lost answer; its
card two searches and two moves, of two orders. The print board has two browsers, one
card (a pet tag), a push buffer of one instead of 16, so that it is full at once,
two moves or sheets, one lost stream and one poll under way per board (`MaxMoves`,
`MaxBlips`, `MaxPolls`); the theorem lifts all of these. A page size of one or two
makes two or three rows a list with pages. The limiters' clock runs for more
than two ttls: a bucket is forgotten and used again, and one that was never
forgotten would show. In the scene of the assets the colours change once between
two renders of a model, which are announced in either order. In `sites` one page
sets up sites; in `requests` two pages decide while the couple asks twice, for two
addresses, and the tabs are loaded again at any time.

Deadlock is not checked in `public_pages`, `late_order`, `offline` and `back_office`:
a page may be closed for good and the budgets of calls run out; nor in
`board_race`, where an unpaid order that is cancelled leaves nothing to do.

What holds only for one relay: `PublishedIsFinal` and delivery. Both mark queries
are unconditional, so a second relay with an old snapshot can set `failed` on a
row the first one published; `relay_rollout` therefore checks only what the
overlap keeps: causes stay ahead of their effects. That no event is lost and only rejected ones
fail is proved for any number of relays.

**Fairness.** `order_live`, `board_live`: a transaction that can execute its next
statement does (weak fairness: Go schedules the handler, Postgres the query), a
lock waiter is served eventually (strong fairness: Postgres queues waiters of a
row in order), and the deadlock detector fires. No fairness is assumed of
clients, faults or timeouts. `relay_live`: the ticker ticks, a dead pod is
restarted by Kubernetes, the broker comes back; faults are finite. Nothing makes
the owner cure or requeue, so `CommittedIsDelivered` speaks of events that the
broker accepts. The other runs check safety only: browsers promise nothing, and
the worker's report has no timeout (`callback.rs`), so it may wait for ever.

## Findings

`board_race`: two staff members move the last two NEED_PRINT cards of an order at
the same time. Each transaction counts the cards still at NEED_PRINT while the
other's update is uncommitted, sees one, and skips the auto-advance. Both commit;
the order stays PAID though every card has left NEED_PRINT, against the comment
at `internal/httpapi/admin_print_queue.go:104` and `db/queries/jobs.sql:145`
("the count is never stale"). Locking the order row before the count would order
the two.

`late_order`: the answer to a placed order clears what is selected *when it
arrives*. The checkout page can be left while the order is being placed, and a
line selected meanwhile leaves the cart without having been ordered, against the
comment at `apps/storefront/src/components/checkout-view.tsx:336` ("Only the
ORDERED (selected) lines leave the cart").

`offline`: a poll that is *answered* by a failure backs off and goes on, as the
comment at `apps/storefront/src/lib/use-order-poll.ts:111` says ("keep the last
order on screen, back off, keep trying until the deadline"). A poll whose server
action cannot reach the storefront at all is answered by an exception, at line 84,
which nothing catches: the loop ends, and the page goes on calling itself live.

### What the code does not promise

The properties name these cases. For most of them nothing in the repository says
otherwise; where a comment does, it is quoted:

* A job whose last delivery died with the worker, or whose last report was lost,
  stays queued: the sweep looks for 'processing'. A job worked on again may write
  its older model, or its older colours under the shared key, over the newer one;
  so may one whose announcement came after the newer one's.
* Encoding skips the board's count of cards left to print. Encoding an activated
  tag turns its page into a set-up form that nobody can complete. Two sheets
  opened at once mint two tags for one order item.
* Two deletes of couples that both counted before either removed leave none,
  against `admin_weddings.go:243-245` of wedding-api ("There must always be at
  least one couple"): the count is read before the transaction that deletes.
  Locking the rows it counts would order the two.
* An approval names a site, not an address. If the couple asks for another one
  while a page still shows the first, approving there makes the second live,
  which the owner has not seen (`admin_weddings.go:361-365`).
* A frame that a full buffer of the hub drops stays missed while the stream lives:
  a board polls only when it is not connected, and nothing else reads the queue
  again. `print_stream.go:54-58` calls a drop self-healing by the "next GET /
  fallback poll", and `admin_print_queue.go:142` says that a missed frame self-heals by the
  client's re-read or poll. Neither happens until the stream is lost or the page
  is loaded again.
* A recompute of opened counts that read before another device's visit was
  committed un-marks the guest until the next one; two saves that fork the same
  device lose a choice or leave an answer unlisted; so may a save that was let in
  on another browser's visit to the shared device, or whose visit a fork of that
  device took along; withdrawing or deleting
  through a token the server does not trust removes the sibling's device.
* A checkout sent again after a lost answer makes two orders share a receipt, and
  the sweep of one deletes the other's. A changed public base URL makes the sweeper clear
  references whose objects stay. `Batch` rows that fail for good and are oldest
  fill every sweep.
* In the extension, the answer to a move puts its order on the screen, whatever
  was looked up since, and that order inherits an open reason picker. The panel
  asks for a total by province and orders by province and ward: a ward with a rule
  of its own costs other than what was shown, and in a province with rules for
  single wards only an order is refused at the end. A lost answer or a tab that was left
  can make two orders of one filling. "Computing" stays on screen when the line
  becomes incomplete while a total is under way.
* A tracking page opened in a hidden tab asks for nothing; shown again after ten
  minutes, it shows the spinner of its first request for ever.
* A drawer of the couple's dashboard loses what is typed while its tab is being
  saved, and uploads that end in a tab that was left.

## What is proved

For any value of the constants, from the named assumptions below, which the runs
evaluate, and the premises stated in the theorems:

* `UsersAssumption`: a session carries the role owner or staff (the enum
  `user_role` has no third member).
* `RelayAssumption`: the shape of `Cause`: a cause has a smaller seq.
* `BoardAssumption`: every order has an item, there are finitely many cards and
  lots, draws and lots are positive, the three tables' keys are apart.
* `RetentionConstants`, for the receipts: `None` is no row, a foreign URL is no
  URL of the shop.
* `LimiterNumbers`, for the limiters: an empty bucket is full again within the
  ttl. In the code the longest takes 100 s, and the shortest ttl is 10 minutes.
* `TrackingBounds`, for the tracker: the bound on restarts is at least one, and
  the orders that move exist.
* `CartAssumption`, for the cart: the limits are positive numbers, and what an
  earlier visit left has no more lines with a key than the limit, each key once.
* `CatalogueAssumption`, for the configurator: parts, colours and options have
  primary keys, and no choice of an option is `Missing`.
* `TagConstants`, for a pet tag: finitely many phones, and a `Nil` that is no
  profile, background or result of a call.
* `IdentityConstants`, for an invitation's visitors: `Null` is no device, guest,
  row, answer or transaction, and the bounds are numbers.
* `InvitationConstants`, for an invitation's page: finitely many phones, and a `NoOne`
  that is no token's row, no answer and no acknowledged choice.
* `PrintConstants`, for the board in the browser: tags are cards, cards are
  dropped on columns of the board, the buffer's bound is a number, and `Null` is
  none of the values it stands beside.
* `AssetConstants`, for the assets: the models with named parts are models, a
  message may be delivered at least once, and `None` is none of the values it
  stands beside.

| Module | Theorems |
|---|---|
| `OrderTransactionsProofs` | `TypeCorrect`, `IsolationInvariant`, `OneWriter`, `TrailIsReplayable`, `ColumnsAgree`, `BoardFilledOnce`, `AnnouncementsAreExact`, `OwnerMovesMoney`, and the refinement `Implementation`: `Spec => ImplementsOrderBook` |
| `PrintBoardProofs` | `BoardTypes`, `StockNeverNegative`, `LotsAreUsedInOrder`, `FilamentIsDrawnOnce`, `StockIsTheLedgers`, `ShortOnlyIfRunOut`, `NothingPrintsUnclaimed`, `BoardKeepsTheEdges`, and for one request `SerialMovesAdvance` |
| `AssetPipelineProofs` | `AssetTypes`, `AssetsAreSound` |
| `OutboxRelayProofs` | `RelayTyped`, `NoEventLost`, `NothingInvented`, `CausesComeFirst`, `OnlyRejectedFail`, and for one relay `ConfirmedForGood` |
| `CustomerPagesProofs` | `TrackingTypes`, `TrackingIsHonest`; `PetTagIsSound` and, as an action property, `TagStaysTheirs`; `CheckoutIsSound` and, as an action property, `EditsNeverResurrect`; `ConfiguratorIsSound` |
| `InvitationProofs` | `IdentityInvariant`, `IdentityTypes`, `IdentitiesAreSound`; `InvitationIsSound` |
| `PrintDeskProofs` | `DeskTypes`, `PrintDeskIsSound` |
| `TimeLimitProofs` | `NothingLeftBehind`, `ReceiptsAreKept`; `RateIsKept`, `NoLockout`, and for finitely many keys `MemoryIsReturned` |

**Orders.** None of the five database invariants is inductive: a commit writes
a row computed several steps earlier, and nothing in them says it is still up to
date. `WritesAreCurrent` does: a busy transaction's row is exactly `AdvancedRow`
(or `CreatedRow`) of the committed row, the verdict `Accepts` still holds on it,
and its cards and announcements are those its program counter implies. It is
inductive together with `OneWriterPerOrder` (`OneWriter`: between its `SELECT .. FOR
UPDATE` and its commit a transaction is the only one on its order): the only step that changes a
committed row is the commit of its one owner, so the rows that others depend on
stay. On top, `DatabaseConsistent` says of each order that it is absent with
nothing on the board and nothing announced, or `Consistent`. Only `Commit` can
disturb it, and by `WritesAreCurrent` a commit applies one accepted transition to
a consistent row. The "once" in board and announcements comes from
`PendingIsFresh`: no edge leads back to PENDING_CONFIRM, so an order reconciled
now was never PAID before. The refinement uses the same invariant: a commit is
`Open`, `ConfirmPayment` or `Move` of `OrderBook`; every other step leaves the
three mapped variables alone.

**Board.** `BoardInv` says what a transaction may rely on. `Exclusive`: no two
transactions hold one row. `CardSound`, `OrderSound` and `DrawSound`: the card it
is about to write was claimed if it goes to PRINTING, the order it is about to
advance is locked and may be advanced, its uncommitted takes are of locked
materials, within the stock, and touch a lot only when the older ones are taken
whole; a move draws only for a card it has locked and that is not yet deducted. A statement extends one transaction (`StatementStep`), and what it locks
nobody else holds, since it was not `Blocked`. A commit writes rows it holds, and
`CommitLeavesOthers` shows that what the others have read is not among them: the
takes of two transactions are of different materials. The orders side moves only
orders nobody holds, and by `Confirmed` creates cards only where there were none.

The ledger needs sums. `LedgerInv` is `LedgerTyped`, `LinesSound`, `DrawnOnce` and
`LedgerExplainsStock` together. `LinesSound` says that the takes of a running draw
follow its lines: of each material it has taken what the lines so far ask for, or
less if every lot is taken whole; never more. A commit then moves the same grams from the lots
to the ledger, and the sums change by as much (`SumAdds`, `SumTakeOut`). A draw that records less than it needs has, by `DrawSound`, taken
every older lot whole and found no further one, so its commit leaves none open.
The module proves the laws of the library's sum without induction, which the
provers cannot instantiate: a set for which a law fails has a smallest subset for
which it fails, and taking one element out of that one gives the contradiction.
With one request, `SerialInv` says that a move ready to commit advances its order,
or the order is not PAID, or it still sees a card at NEED_PRINT. That is all the
auto-advance needs: with two requests `board_race` refutes it.

**Relay.** A batch is read once and worked off long after. `RelayInv` says what
it still holds to: its rows are committed, a row to be marked is in the stream, a
row to be counted or failed is one the broker refuses, and the cause of each row
is in the stream or ahead of it in the same batch. With that, the duplicate
window is a part of the stream and causes are committed before their effects, no
step of any number of relays disturbs the four safety invariants. With one relay
`Fresh` is inductive too: the rows of a batch are pending and in order, so no
mark and no failure hits a row that was already published.

**Receipts.** `RetentionInv`: a row a sweep has listed stays due until it is
cleared, because a closed order has no transition left (`TerminalStays`); the
object of the row in hand is gone; an object no order took is still there; two
orders with one receipt are on record as such. A clear therefore never precedes
its delete, and a delete never reaches a running order's receipt.

**Tracker.** The screen is honest because of what every request and every trail
keep. `CallsHonest`: the requests of the present run ask what the screen asks and
exist only while it waits for one, so an answer that is let in answers the right
question; and what was read was the trail then, which only grew since
(`EarlierStays`). `LoopHonest` ties what is shown to where the loop stands.
`Told` says of a trail that an order still running has been through the whole
progress up to where it is, but for the confirmation if it was born paid: every
edge of `status.go` that does not end the order moves one step along it
(`ToldGrows`). That is all the timeline needs, which is drawn from the status
alone (`DrawnTruly`). That the screen never falls back to an older state of its order
needs `NeverBack`: every answer on its way to the present run was read no earlier
than what is shown, because a run has one request under way and asks again only after its answer.

**Pet tag.** `TagInv` has four parts. `TagShaped` says which fields a tag, a screen
and a call have, and no more about what they hold. `OwnerInv`: a profile exists from
the first activation on, its owner is the only one who consented, and every screen
that shows the owner's controls, has a panel open or waits for the lost switch, as
well as every activation answered with success, is that owner's. A phone keeps its
customer, so an answer that arrives after the page was left says nothing false.
`SharesInv` counts: a location recorded is on its way back as an answer, shown as
sent, or lost. `LayoutInv` follows a layout from the panel through the call to the
row and back to the pages: normalizing, moving and hiding keep it a photo and each
content block once (`IsLayout`), which is all `validateAppearance` asks; a theme in a
form or on the wire has an image where its background is one. All four
need `TagShaped`; `LayoutInv` needs of `OwnerInv` that an activated tag, the only one that is
served as a page, has a profile. The layouts of the model were
rewritten for this: `normalizeBlocks` and `moveContentBlock` build them with `Layout` and
`StoredBlock` instead of a library sort and filter, which are defined by recursion, and what a page draws is
the set of its blocks, as each carries its order.

**Cart and checkout.** A tab writes what it derives from the stored cart by a key it
read from an older render, and orders what an older quote priced. `CartInv` says that
the stored cart stays a good one whichever reducer runs (`GoodCart`, with one lemma for each:
`AddGood`, `ReplaceGood`, `OldGood`, ..) and that each quote's lines are those of the
shape it was asked for, which only the page that asks can tell (`PricesItsOwn`): the page
left is the quote dropped. So a total that counts, being of the shape on screen, is
of the lines on screen. `CheckoutInv` follows the submission: the
latch is down and nothing is placed while a call that can still reach its page is
under way (`OneLive`), the ward is one of the chosen province however the two were picked
(`IsForm`), and each call under way carries what the screen showed (`AsShown`), so that the
order the server makes of the oldest one does too. An edit saved over a line that is
gone is nothing by `ReplaceGood`, whatever the dialog held. The reducers of the model
filter with `Kept` instead of the library's filter, which is defined by recursion:
the n-th line kept is the one that has n of them up to it (`RankIsPlace`).

**Configurator.** The gate reads the selection, the server reads the line made of it, and
the line holds only what still exists of what was picked. `GateAccepts` shows for one
product at a time that this is enough: a part's colour is found again by its key and is
the part's own (`PartsPriced`), what goes on the wire as an extra or an engraving is no
option with choices (`WireOf`), and a stale pick that `buildCartItem` drops is one the gate
does not ask for. For an edit `SeedGivesBack` reads each field back from the line
(`PartsAgain`, `ChoicesAgain`, ..): of several written texts the line keeps the first,
so it is the line that comes back, not the selection. `ConfiguratorInv` then has little to say: the product on
screen is one of the catalogue, the last line was built by a gate that stood open, of
the product recorded with it, and an untouched dialog still holds that line's seed. That the
engraving is the *first* text needs a least index, and that an absent choice is never
offered is in `CatalogueAssumption`: without it an option nobody answered would pass.

**Boards in the browser.** `BoardConverges` speaks of a board at rest and says
nothing of how it got there. `PrintInv` has four parts. `Typed`: what each kind of
call carries at each step. `Streams`: a feed belongs to a connected board and a
poll to one that is not, and a poll that was read knows each card's stage or that it
is behind. `Told`, for cards that were not raced: one call of a card at a time; it
moves from where the card is, and once committed carries where it is; and each
board is told of it, in one of the forms of `Settles`: the card is shown right with no frame
of it under way, or the last frame under way is right (`LastNews`), or it is
missed. That is what every step must hand on: a commit makes all boards wrong, but by
`NewsOf` it owes them an announcement; the announcement puts the
last word into every feed or records the miss; the frames, the answer and the
put-back then only take it over. `TagsSound`: an order item not minted twice has
one tag and one call that may mint it (`OneTag`), so what a sheet shows and what a
chip was burnt with (`SheetTag`, `Burnt`) is the tag the encode will look up. Only
`Told` needs `Streams`, and all need `Typed`; with fewer parts a step is not
preserved. The attempt was what showed that a prepare pushes what it read: the
model had pushed the stage current at its push, and cards opened while a move was
under way now count as raced.

**Identities.** A commit writes what was decided several statements before, on
tables others have changed since, and none of the four parts of `IdentitiesSound`
says why that is still right. `IdentityInv` does, in three layers. `TablesSound`
is about the committed rows: they refer to devices that exist (`Referring`), and
the four promises hold in a form that survives (`Listed` asks for the browser's
*own* visit, `Chosen` for its token's trust). `Sound` is about one open
transaction: what a recompute will write is right but for what it missed
(`PlanRight`); what a purge has summed up is still there (`SumsRight`); the devices
it works on exist and the ones it makes do not yet (`Placed`, `Holds`); a browser
it is going to trust with a device is the only one (`ClaimRight`, `TrustStays`);
and a fork takes its own visits along (`ForkRight`, `VisitStays`). `Apart` is about two
transactions: neither deletes what the other hangs rows on, they mint different
devices, claim one device for the same browser only, and write different guests. A statement
extends one transaction and changes no table, so `StepKeeps` leaves only its own
obligations. `CommitKeeps` reduces a commit to three: the tables are sound
after it, every other transaction is still settled, and no visit of a guest comes,
goes or changes hands unless a running recompute is recorded to have missed it. The
couple's deletions and the purge share `RemovedTables` and `RemovedSettles`. The
attempt showed where the promise to list every answer ends: a save let in on
another browser's visit, or on one older than its token (`past.displaced`).

**The invitation's page.** Its four parts share no state, and `InvitationRight` is one
invariant for each. Silence is a promise about a page at rest; on the way, `HookRight` says of an element
that sounds unwanted that a fade which will pause it is on or a `play()` unsettled,
and of one that is wanted below its volume that a fade goes there or a promise will
send it. Where the volume is read-only nothing fades (`Fixed`). `RsvpRight` follows the answers:
identities are minted in order, an answer in a row that a token is trusted with was
given by that token's guest, and a phone that got an acknowledgement is trusted with
a row that has its answer (`ServerRight`, `ChoseRight`). Only such a phone is shown a name it has not typed, so
nobody reads a neighbour's (`PageRight`). Each phone is trusted with a row of its own, so as
many identities as phones are enough (`IdentitiesSuffice`), which is why the
model numbers them up to there. `WishesRight`: the wall is numbered without a gap, newest first, and a
component's list holds each wish once, with the wall's text unless an answer was lost,
and at most the one wish the server has not named yet, whose text is the one on
its way (`ListRight`, `ComponentRight`). `AlbumRight` bounds the viewer's index; the cells
are the shape of the grid for any number of photos. The wall's and the album's operators were rewritten for this
with an index instead of a library fold.

**Rate limiters.** `LimiterInv` says what a bucket remembers: it is full no earlier
than any stretch of granted calls requires, and, if it is not full yet, exactly
as late as one of them does. A bucket fills up within `Capacity` of its last use,
so one that is swept was full (`SweptRemembers`): a new one knows as much. The
first half bounds the calls let through, the second shows that only they can
cause a refusal.

**Assets.** What a product shows is right because of an order that two components
keep and a third mostly does: the broker makes first deliveries in stream order, the
pull buffer is first in, first out (`Buffered`), and the relay announces jobs in
order, but for those that have fallen behind (`Streamed`); nothing is assumed of how
many those are. Hence `InTurn`: while an older job that is not behind still waits for its
first delivery or is in hand, no newer one has been touched. The worker stores
before it reports (`HandSound`) and core-api records before it answers
(`ReportsSound`), so a ready report that comes in turn is the newest, and the
columns it writes are right (`Shown`, `Painted`). Expired deliveries, late and second
announcements, lost reports and crashes break the order for single jobs only.
Those are named in `mishaps`, and each part of `AssetInv` excepts exactly them;
what it says of all other jobs survives. `Kept` is why no job is forgotten: a
message out of deliveries has its last one still in the buffer or in hand.

Only model-checked: liveness (`RequestsFinish`, `CommittedIsDelivered`), which is out of the prover's reach; `FailureStallsNoOther`;
and the properties of the front ends other than the tracker, the pet tag, the cart, the checkout, the configurator,
the invitation and the print board:
`PagesSound` (the catalogue; its limiters are proved), `StaffSound` (but for its receipts) and `WeddingDeskSound`. Many of them rest on what a
filter, a sort or a sum over a sequence returns (sorted and paged lists), and the library defines those by recursion: facts about
them for every input need induction over data, which the installed provers
cannot instantiate. Their other parts were left, not tried. `PaidMeansUnstarted`
is proved for one board transaction at a time (`SerialMovesAdvance`) and false in general (`board_race`). What
`OnlyAllowedEdges` and the other theorems say of `PrintBoard` is said of its
transactions, not of the encode's move, which is not in the module.

## Not modelled

* `packages/api-client/src/schema.gen.ts` is generated; message tables
  (`messages/vi.ts`), `design_handoff_*` prototypes, layout-only components, the
  3D viewer's drawing and animations keep no state of their own.
* Sign-in and sessions (JWT cookies, refresh), the domain manager's Kubernetes
  client, deployment manifests.
* Of the browser extension: its sign-in, message templates, popup, and the
  progress track and copied message of an order's card.
* The geo retention sweep (one UPDATE); the validation of single fields beyond
  what a screen's own check is compared with; the arithmetic of totals and of the
  frozen cost of a draw; lot imports during a draw.
* The statements of the wedding handlers for guests, groups, wishes and settings;
  the couple's sessions and uploads on the server.

## Plan

1. A `Session` module: the refresh of an expired cookie while several requests
   are under way.
2. The encode's move and lot imports in `PrintBoard`, with their proofs.
3. Pricing and the rounding of the frozen cost against reference definitions over
   bounded inputs.
4. Proofs: the extension's form and order card, and the couple's dashboard.
