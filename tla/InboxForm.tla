------------------------------ MODULE InboxForm ------------------------------
(***************************************************************************)
(* The create-order screen of the browser extension (create-order.tsx,      *)
(* lib/order-form.ts, lib/orders.ts): staff enter an order taken in chat.    *)
(* The picked product is fetched, the total is the server's and is asked     *)
(* again at every change, and the order is sent with the form as it is at     *)
(* the click.  The fields stay open while the order is under way, and        *)
(* another tab of the panel (shell.tsx) drops the form.                    *)
(*                                                                         *)
(* An effect that runs again turns the request it made before dead: its      *)
(* answer changes nothing, so it is forgotten here.  The total is asked for   *)
(* the province alone, the order is priced by province and ward.            *)
(***************************************************************************)
EXTENDS Naturals, Sequences, FiniteSets

CONSTANTS
  Catalogue,   \* products by slug: [parts, colors, options], as Configurator has them
  FirstRules,  \* shipping rules: [province, ward], ward None for the whole province
  Wards,       \* what is typed as the ward
  MaxFillings, MaxEdits, MaxSends, MaxChanges, MaxLost, \* bounds
  None

VARIABLES
  form,     \* the screen
  details,  \* slug whose product is asked for
  quotes,   \* totals asked for
  sends,    \* orders under way
  shop,     \* the server: colours out of stock, shipping rules, orders
  seen      \* history: fillings, edits, sends, changes; orders told of, lost, left under way

inboxVars == <<form, details, quotes, sends, shop, seen>>

Config == INSTANCE Configurator WITH
  cfg <- form, Catalogue <- {Catalogue[s] : s \in DOMAIN Catalogue}, Texts <- {}, StepperMax <- 1, Missing <- None

(***************************************************************************)
(* lib/order-form.ts.  A quantity is at least one, whatever is typed, and   *)
(* the rest of the customer's fields is valid once the ward is entered.     *)
(***************************************************************************)
emptySelection == [colorId |-> None, partColors |-> << >>, choices |-> << >>, toggles |-> {}]

selectionComplete(product, sel) ==
  /\ IF product.parts # <<>> THEN Config!allPartsSelected(product, sel.partColors)
                             ELSE Config!canAddToCart(sel.colorId, Config!colorsForPart(product.colors, None))
  /\ Config!allChoicesSelected(product.options, sel.choices)

Pairs(f, keys) == {<<k, f[k]>> : k \in keys \cap DOMAIN f}

buildOrderItem(product, sel) ==
  [product |-> product.slug,
   colorId |-> IF product.parts = <<>> THEN sel.colorId ELSE None,
   partColors |-> Pairs(sel.partColors, Config!Ids(product.parts)),
   optionIds |-> sel.toggles \cap Config!Ids(SelectSeq(product.options, Config!Toggle)),
   optionChoices |-> Pairs(sel.choices, Config!Ids(SelectSeq(product.options, Config!Enumerated))),
   engrave |-> None]

Complete(f) == f.product # None /\ selectionComplete(f.product, f.sel)
Asked(f) == [item |-> buildOrderItem(f.product, f.sel), province |-> f.province]

(***************************************************************************)
(* The server: what is in stock, what is shipped where, what a line costs.   *)
(* A fee is known by the rule it comes from.                                *)
(***************************************************************************)
Product(slug) ==
  LET p == Catalogue[slug]
  IN [slug |-> slug, parts |-> p.parts, options |-> p.options,
      colors |-> [i \in DOMAIN p.colors |->
                    [p.colors[i] EXCEPT !.available = @ /\ p.colors[i].id \notin shop.off]]]

shippableProvinces == {r.province : r \in shop.rules} \ {"*"}

(* The ward's own rule, else the province's, else the one for everywhere. *)
ShippingFee(province, ward) ==
  LET fits == {r \in shop.rules : \/ r.province = province /\ r.ward \in {ward, None}
                                  \/ r.province = "*"}
      Best(r) == \A x \in fits : /\ x.province # "*" => r.province # "*"
                                 /\ x.province # "*" /\ x.ward # None => r.ward = x.ward
  IN IF fits = {} THEN None ELSE CHOOSE r \in fits : Best(r)

(* What is wrong with a line for an address, or None. *)
Refusal(item, province, ward) ==
  IF ~Config!PriceItemAccepts(Product(item.product), item) THEN "unavailable"
  ELSE IF province # None /\ ShippingFee(province, ward) = None THEN "no_shipping_rule"
  ELSE None

Quoted(q) ==
  LET code == Refusal(q.item, q.province, None)
  IN [of |-> q, code |-> code,
      fee |-> IF code # None \/ q.province = None THEN None ELSE ShippingFee(q.province, None)]

-----------------------------------------------------------------------------
Idle == [status |-> "idle", code |-> None]
Blank(filling, boot, provinces) ==
  [filling |-> filling, boot |-> boot, provinces |-> provinces, slug |-> None, product |-> None,
   detail |-> "idle", sel |-> emptySelection, province |-> None, ward |-> None,
   quote |-> None, quoting |-> FALSE, submit |-> Idle]

InboxInit ==
  /\ form = Blank(0, "closed", {}) /\ details = {} /\ quotes = {} /\ sends = {}
  /\ shop = [off |-> {}, rules |-> FirstRules, orders |-> {}]
  /\ seen = [fillings |-> 0, edits |-> 0, sends |-> 0, changes |-> 0, told |-> {}, lost |-> {}, left |-> {}]

(* The tab opens: products and provinces are read, again on request.          *)
OpenTab ==
  /\ form.boot = "closed" /\ seen.fillings < MaxFillings
  /\ form' = Blank(seen.fillings + 1, "loading", {})
  /\ seen' = [seen EXCEPT !.fillings = @ + 1]
  /\ UNCHANGED <<details, quotes, sends, shop>>

Booted ==
  /\ form.boot = "loading"
  /\ \/ form' = [form EXCEPT !.boot = "ready", !.provinces = shippableProvinces]
     \/ form' = [form EXCEPT !.boot = "error"]
  /\ UNCHANGED <<details, quotes, sends, shop, seen>>

load ==
  /\ form.boot = "error"
  /\ form' = [form EXCEPT !.boot = "loading"]
  /\ UNCHANGED <<details, quotes, sends, shop, seen>>

LeaveTab ==
  /\ form.boot # "closed"
  /\ form' = Blank(form.filling, "closed", {}) /\ details' = {} /\ quotes' = {}
  /\ seen' = [seen EXCEPT !.left = @ \cup {k.n : k \in sends}]
  /\ UNCHANGED <<sends, shop>>

(* What the cleanup of an effect leaves alive of the requests it made. *)
Cleanup(requests) == {}

(* The effect that keeps the total, on a form whose line or province changed.  *)
(* With the line incomplete it says nothing of a total being computed.       *)
Requote(f) ==
  IF Complete(f)
  THEN form' = [f EXCEPT !.quoting = TRUE] /\ quotes' = Cleanup(quotes) \cup {Asked(f)}
  ELSE form' = [f EXCEPT !.quote = None] /\ quotes' = Cleanup(quotes)

QuoteAnswered(q) ==
  /\ q \in quotes
  /\ quotes' = quotes \ {q}
  /\ \/ form' = [form EXCEPT !.quoting = FALSE, !.quote = Quoted(q)]
     \/ form' = [form EXCEPT !.quoting = FALSE, !.quote = [of |-> q, code |-> "error", fee |-> None]]
  /\ UNCHANGED <<details, sends, shop, seen>>

(* The fields.  They are open unless the screen tells of a success.           *)
Edit ==
  /\ form.boot = "ready" /\ form.submit.status # "success" /\ seen.edits < MaxEdits
  /\ seen' = [seen EXCEPT !.edits = @ + 1]
  /\ UNCHANGED <<sends, shop>>

Picked(slug) ==
  [form EXCEPT !.slug = slug, !.product = None, !.detail = IF slug = None THEN "idle" ELSE "loading",
               !.sel = IF slug = None THEN @ ELSE emptySelection]

PickProduct(slug) ==
  /\ Edit /\ slug # form.slug
  /\ details' = Cleanup(details) \cup ({slug} \ {None})
  /\ Requote(Picked(slug))

DetailAnswered(slug) ==
  /\ slug \in details
  /\ details' = details \ {slug}
  /\ \/ Requote([form EXCEPT !.product = Product(slug), !.detail = "idle"])
     \/ form' = [form EXCEPT !.detail = "error"] /\ UNCHANGED quotes
  /\ UNCHANGED <<sends, shop, seen>>

(* VariantFields: an empty choice takes the pick back, a colour out of stock  *)
(* cannot be picked.                                                       *)
Put(f, k, v) == IF v = None THEN [x \in DOMAIN f \ {k} |-> f[x]] ELSE Config!Put(f, k, v)
Offered(part) == {c.id : c \in {form.product.colors[i] : i \in
                                 {j \in DOMAIN form.product.colors :
                                    form.product.colors[j].part = part /\ form.product.colors[j].available}}}

Selections ==
  LET sel == form.sel  parts == Config!Ids(form.product.parts)
      options == {form.product.options[i] : i \in DOMAIN form.product.options}
  IN (IF parts = {} THEN {[sel EXCEPT !.colorId = c] : c \in Offered(None) \cup {None}} ELSE {})
     \cup UNION {{[sel EXCEPT !.partColors = Put(@, p, c)] : c \in Offered(p) \cup {None}} : p \in parts}
     \cup UNION {{[sel EXCEPT !.choices = Put(@, o.id, ch)] : ch \in o.choices \cup {None}} :
                   o \in {x \in options : Config!Enumerated(x)}}
     \cup {[sel EXCEPT !.toggles = IF o.id \in @ THEN @ \ {o.id} ELSE @ \cup {o.id}] :
                   o \in {x \in options : Config!Toggle(x)}}

Choose ==
  /\ form.product # None /\ Edit
  /\ \E sel \in Selections \ {form.sel} : Requote([form EXCEPT !.sel = sel])
  /\ UNCHANGED details

PickProvince(province) ==
  /\ Edit /\ province # form.province
  /\ Requote([form EXCEPT !.province = province])
  /\ UNCHANGED details

TypeWard(ward) ==
  /\ Edit /\ ward # form.ward
  /\ form' = [form EXCEPT !.ward = ward]
  /\ UNCHANGED <<details, quotes>>

(***************************************************************************)
(* The order: sent as the form is, priced again by the server.  An incomplete *)
(* form shows its errors and sends nothing.                                  *)
(***************************************************************************)
Free == form.submit.status # "submitting"

onSubmit ==
  /\ form.boot = "ready" /\ form.submit.status # "success" /\ Free
  /\ form.province # None /\ form.ward # None /\ Complete(form)
  /\ seen.sends < MaxSends
  /\ form' = [form EXCEPT !.submit = [status |-> "submitting", code |-> None]]
  /\ sends' = sends \cup
       {[n |-> seen.sends + 1, filling |-> form.filling, of |-> Asked(form), ward |-> form.ward,
         shown |-> IF form.quoting THEN None ELSE form.quote, step |-> "sent", result |-> None]}
  /\ seen' = [seen EXCEPT !.sends = @ + 1]
  /\ UNCHANGED <<details, quotes, shop>>

(* POST /orders of the inbox channel: see OrderTransactions for the writes. *)
CreateOrder(k) ==
  LET refusal == Refusal(k.of.item, k.of.province, k.ward)
      order == [n |-> k.n, filling |-> k.filling, of |-> k.of, shown |-> k.shown,
                fee |-> ShippingFee(k.of.province, k.ward)]
  IN /\ k \in sends /\ k.step = "sent"
     /\ shop' = [shop EXCEPT !.orders = IF refusal = None THEN @ \cup {order} ELSE @]
     /\ sends' = (sends \ {k}) \cup {[k EXCEPT !.step = "answered", !.result = refusal]}
     /\ UNCHANGED <<form, details, quotes, seen>>

(* A form that is gone is told nothing. *)
Listens(k) == form.filling = k.filling /\ form.boot # "closed"
Tell(k, submit) == form' = IF Listens(k) THEN [form EXCEPT !.submit = submit] ELSE form

OrderAnswered(k) ==
  /\ k \in sends /\ k.step = "answered"
  /\ sends' = sends \ {k}
  /\ Tell(k, IF k.result = None THEN [status |-> "success", code |-> k.n]
                                ELSE [status |-> "error", code |-> k.result])
  /\ seen' = [seen EXCEPT !.told = @ \cup {x.n : x \in {y \in {k} : Listens(y) /\ y.result = None}}]
  /\ UNCHANGED <<details, quotes, shop>>

OrderLost(k) ==
  /\ k \in sends /\ Cardinality(seen.lost) < MaxLost
  /\ sends' = sends \ {k}
  /\ Tell(k, [status |-> "error", code |-> "error"])
  /\ seen' = [seen EXCEPT !.lost = @ \cup {k.n}]
  /\ UNCHANGED <<details, quotes, shop>>

reset ==
  /\ form.submit.status = "success" /\ seen.fillings < MaxFillings
  /\ Requote([Blank(seen.fillings + 1, "ready", form.provinces) EXCEPT !.quoting = form.quoting])
  /\ details' = {}
  /\ seen' = [seen EXCEPT !.fillings = @ + 1]
  /\ UNCHANGED <<sends, shop>>

(* The owner, meanwhile: a colour is sold out, a shipping rule withdrawn.     *)
OwnerChanges ==
  /\ seen.changes < MaxChanges
  /\ seen' = [seen EXCEPT !.changes = @ + 1]
  /\ \/ \E s \in DOMAIN Catalogue : \E c \in Config!Ids(Catalogue[s].colors) \ shop.off :
          shop' = [shop EXCEPT !.off = @ \cup {c}]
     \/ \E r \in shop.rules : shop' = [shop EXCEPT !.rules = @ \ {r}]
  /\ UNCHANGED <<form, details, quotes, sends>>

InboxNext ==
  \/ OpenTab \/ Booted \/ load \/ LeaveTab \/ Choose \/ onSubmit \/ reset \/ OwnerChanges
  \/ \E slug \in DOMAIN Catalogue \cup {None} : PickProduct(slug) \/ DetailAnswered(slug)
  \/ \E province \in form.provinces \cup {None} : PickProvince(province)
  \/ \E ward \in Wards \cup {None} : TypeWard(ward)
  \/ \E q \in quotes : QuoteAnswered(q)
  \/ \E k \in sends : CreateOrder(k) \/ OrderAnswered(k) \/ OrderLost(k)

-----------------------------------------------------------------------------
InboxTypeOK ==
  /\ form.boot \in {"closed", "loading", "error", "ready"}
  /\ form.slug \in DOMAIN Catalogue \cup {None} /\ form.detail \in {"idle", "loading", "error"}
  /\ form.province \in form.provinces \cup {None} /\ form.ward \in Wards \cup {None}
  /\ form.quoting \in BOOLEAN
  /\ form.submit.status \in {"idle", "submitting", "error", "success"}
  /\ details \subseteq DOMAIN Catalogue
  /\ \A k \in sends : k.n \in 1 .. seen.sends /\ k.step \in {"sent", "answered"}
  /\ seen.told \cup seen.lost \cup seen.left \subseteq 1 .. seen.sends

(* The variants on screen are those of the picked product, and a total that is *)
(* shown is the server's for exactly the line and the province in the form,    *)
(* in whatever order the answers come.  A complete line is never left without  *)
(* a total under way or an answer.                                         *)
TotalIsOfTheForm ==
  /\ form.product # None => form.product.slug = form.slug
  /\ form.quote # None /\ ~form.quoting => Complete(form) /\ form.quote.of = Asked(form)
  /\ Complete(form) => IF form.quoting THEN quotes = {Asked(form)} ELSE form.quote # None

(* A complete line of the form is one the server prices, unless the owner      *)
(* changed the shop; and its address is refused only in a province where       *)
(* single wards have a rule and the rest has none.                           *)
RefusedForAReason ==
  form.submit.status = "error" /\ form.submit.code # "error" =>
    \/ seen.changes > 0
    \/ form.submit.code = "no_shipping_rule" /\ \E r \in FirstRules : r.ward # None /\ [r EXCEPT !.ward = None] \notin FirstRules

(* Staff see every order they made, unless its answer was lost or they left     *)
(* the form while it was under way; only then can one filling of the form be    *)
(* ordered twice.                                                          *)
NoOrderUnseen ==
  /\ \A o \in shop.orders :
       o.n \in seen.told \cup seen.lost \cup seen.left \/ \E k \in sends : k.n = o.n
  /\ \A o, p \in shop.orders : o.filling = p.filling /\ o.n < p.n => o.n \in seen.lost

(* The order costs what the screen showed at the click, unless the owner      *)
(* changed the shop or the ward has a rule of its own.                       *)
ChargedAsShown ==
  \A o \in shop.orders :
    o.shown # None /\ seen.changes = 0 =>
      \/ o.shown.of = o.of /\ o.shown.fee = o.fee
      \/ o.fee.ward # None \/ o.shown.code = "error"

InboxSound == TotalIsOfTheForm /\ RefusedForAReason /\ NoOrderUnseen /\ ChargedAsShown
=============================================================================
