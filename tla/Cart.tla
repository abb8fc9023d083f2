-------------------------------- MODULE Cart --------------------------------
(***************************************************************************)
(* The storefront cart: the pure reducers of lib/cart.ts, the localStorage *)
(* store every tab of one browser shares (lib/cart-store.ts), the cart     *)
(* page with its debounced server quote, and the in-place edit dialog.     *)
(*                                                                         *)
(* A tab acts on what it last rendered (seen), the store writes through to *)
(* what is stored now (cart), and another tab learns of the write when its *)
(* storage event arrives.  A line is its configuration key, its quantity   *)
(* and whether it is selected; a quote is what it priced.                  *)
(***************************************************************************)
EXTENDS Naturals, Integers, Sequences, FiniteSets

CONSTANTS
  Tabs,           \* browser tabs of one shopper
  Keys,           \* configuration keys a line may carry
  MAX_QUANTITY, MAX_LINES,
  OldCarts,       \* raw carts an earlier visit may have left in localStorage
  MaxWrites,      \* bound: writes to the store
  Unset

(* What the code takes for granted of the constants: positive limits, and that  *)
(* an earlier visit left a cart of this store, whatever its lines lack: no more  *)
(* lines with a key than it stores, each key once.                           *)
OldLines == [key : Keys \cup {Unset}, qty : Int, on : BOOLEAN \cup {Unset}]
CartConstants ==
  /\ MAX_QUANTITY \in Nat \ {0} /\ MAX_LINES \in Nat /\ Unset \notin Nat
  /\ \A raw \in OldCarts :
       /\ raw \in Seq(OldLines) /\ Cardinality({i \in DOMAIN raw : raw[i].key # Unset}) <= MAX_LINES
       /\ \A i, j \in DOMAIN raw : raw[i].key = raw[j].key /\ raw[i].key # Unset => i = j
ASSUME CartAssumption == CartConstants

VARIABLES
  cart,     \* the stored cart
  writes,   \* writes so far
  page,     \* [Tabs -> page on screen]
  seen,     \* [Tabs -> the cart that tab last rendered]
  quote,    \* [Tabs -> quote state of the page]
  edit      \* [Tabs -> the open edit dialog, or Unset]

cartVars == <<cart, writes, page, seen, quote, edit>>

(***************************************************************************)
(* Reducers: lib/cart.ts.                                                  *)
(***************************************************************************)
clampQuantity(q) == IF q < 1 THEN 1 ELSE IF q > MAX_QUANTITY THEN MAX_QUANTITY ELSE q

(* The items at the given places, in their order: the n-th stands at the place  *)
(* that has n of them up to it.                                            *)
Kept(items, at) ==
  [n \in 1 .. Cardinality(at) |-> items[CHOOSE i \in at : Cardinality({j \in at : j <= i}) = n]]

KeysIn(items) == {items[i].key : i \in DOMAIN items}
IndexOf(items, key) == CHOOSE i \in DOMAIN items : items[i].key = key
\* Mutant: the merged quantity passes the limit of one line.
MergeAll(line, qty) == [line EXCEPT !.qty = @ + qty, !.on = TRUE]

Merge(line, qty) == [line EXCEPT !.qty = clampQuantity(@ + qty), !.on = TRUE]

addItem(items, line) ==
  IF line.key \in KeysIn(items)
  THEN [items EXCEPT ![IndexOf(items, line.key)] = Merge(@, line.qty)]
  ELSE IF Len(items) >= MAX_LINES THEN items
  ELSE Append(items, [line EXCEPT !.qty = clampQuantity(@)])

\* Mutant: remove the old line, add the new one.
removeAndAdd(items, oldKey, line) ==
  addItem(Kept(items, {i \in DOMAIN items : items[i].key # oldKey}), line)

replaceItem(items, oldKey, line) ==
  IF oldKey \notin KeysIn(items) THEN items
  ELSE LET at == IndexOf(items, oldKey)
           inPlace == [line EXCEPT !.qty = clampQuantity(@), !.on = items[at].on]
       IN IF line.key # oldKey /\ line.key \in KeysIn(items)
          THEN Kept([items EXCEPT ![IndexOf(items, line.key)] = Merge(@, line.qty)], DOMAIN items \ {at})
          ELSE [items EXCEPT ![at] = inPlace]

removeItem(items, key) == Kept(items, {i \in DOMAIN items : items[i].key # key})

setItemQuantity(items, key, q) ==
  IF q <= 0 THEN removeItem(items, key)
  ELSE [n \in DOMAIN items |-> IF items[n].key = key
                               THEN [items[n] EXCEPT !.qty = clampQuantity(q)] ELSE items[n]]

setItemSelected(items, key, on) ==
  [n \in DOMAIN items |-> IF items[n].key = key THEN [items[n] EXCEPT !.on = on] ELSE items[n]]

setAllSelected(items, on) == [n \in DOMAIN items |-> [items[n] EXCEPT !.on = on]]

selectedItems(items) == Kept(items, {i \in DOMAIN items : items[i].on})
clearSelected(items) == Kept(items, {i \in DOMAIN items : ~items[i].on})

(* cartQuoteItems: what a quote request, and later the order, says of a line. *)
cartQuoteItems(items) == [n \in DOMAIN items |-> <<items[n].key, items[n].qty>>]

cartSignature(items) == items   \* key, quantity and selection of every line, in order

(* sanitizeCart: malformed lines are dropped, quantities clamped, a missing  *)
(* selection reads as selected.                                             *)
sanitizeCart(raw) ==
  LET good == Kept(raw, {i \in DOMAIN raw : raw[i].key # Unset})
  IN [n \in DOMAIN good |-> [key |-> good[n].key, qty |-> clampQuantity(good[n].qty),
                             on |-> good[n].on # FALSE]]

(***************************************************************************)
(* The store.                                                              *)
(***************************************************************************)
(* A quote: what was asked (of: the shape and its request), and how it stands. *)
Idle == [status |-> "idle", of |-> Unset, lines |-> Unset]

CartInit ==
  /\ cart = <<>> /\ writes = 0
  /\ page = [t \in Tabs |-> "closed"]
  /\ seen = [t \in Tabs |-> <<>>]
  /\ quote = [t \in Tabs |-> Idle]
  /\ edit = [t \in Tabs |-> Unset]

(* The dialog lives in its line's element: it goes when the line goes. *)
DialogAfter(t, items) ==
  [edit EXCEPT ![t] = IF @ # Unset /\ @.key \notin KeysIn(items) THEN Unset ELSE @]

(* write: persist, and re-render this tab; other tabs wait for the event.    *)
Store(t, next) ==
  /\ writes < MaxWrites
  /\ writes' = writes + 1
  /\ cart' = next
  /\ seen' = [seen EXCEPT ![t] = next]

(* onStorage: another tab wrote. *)
HearStorage(t) ==
  /\ page[t] # "closed" /\ seen[t] # cart
  /\ seen' = [seen EXCEPT ![t] = cart]
  /\ edit' = DialogAfter(t, cart)
  /\ UNCHANGED <<cart, writes, page, quote>>

(* A tab is opened on the cart an earlier visit stored. *)
VisitShop(t, raw) ==
  /\ page[t] = "closed"
  /\ cart' = IF \A u \in Tabs : page[u] = "closed" THEN sanitizeCart(raw) ELSE cart
  /\ page' = [page EXCEPT ![t] = "shop"]
  /\ seen' = [seen EXCEPT ![t] = cart']
  /\ UNCHANGED <<writes, quote, edit>>

(* Client-side navigation: the page unmounts, and with it quote and dialog.  *)
GoTo(t, to) ==
  /\ page[t] \notin {"closed", to}
  /\ page' = [page EXCEPT ![t] = to]
  /\ quote' = [quote EXCEPT ![t] = Idle]
  /\ edit' = [edit EXCEPT ![t] = Unset]
  /\ UNCHANGED <<cart, writes, seen>>

AddFromProductPage(t, key, q) ==
  /\ page[t] = "shop"
  /\ Store(t, addItem(cart, [key |-> key, qty |-> q, on |-> TRUE]))
  /\ UNCHANGED <<page, quote, edit>>

(***************************************************************************)
(* The cart page.  Its controls are those of the lines it rendered; the     *)
(* stepper of a line goes from 0 (remove) to MAX_QUANTITY.                  *)
(***************************************************************************)
OnLine(t, i) == page[t] = "cart" /\ i \in DOMAIN seen[t]

ChangeQuantity(t, i, step) ==
  /\ OnLine(t, i) /\ edit[t] = Unset
  /\ seen[t][i].qty + step \in 0 .. MAX_QUANTITY
  /\ Store(t, setItemQuantity(cart, seen[t][i].key, seen[t][i].qty + step))
  /\ UNCHANGED <<page, quote, edit>>

SelectLine(t, i) ==
  /\ OnLine(t, i) /\ edit[t] = Unset
  /\ Store(t, setItemSelected(cart, seen[t][i].key, ~seen[t][i].on))
  /\ UNCHANGED <<page, quote, edit>>

SelectAll(t) ==
  /\ page[t] = "cart" /\ seen[t] # <<>> /\ edit[t] = Unset
  /\ Store(t, setAllSelected(cart, selectedItems(seen[t]) # seen[t]))
  /\ UNCHANGED <<page, quote, edit>>

(* CartEditDialog: loading -> form | error (retry) | not_found (remove). *)
OpenDialog(t, i) ==
  /\ OnLine(t, i) /\ edit[t] = Unset
  /\ edit' = [edit EXCEPT ![t] = [key |-> seen[t][i].key, phase |-> "loading"]]
  /\ UNCHANGED <<cart, writes, page, seen, quote>>

ProductFetched(t, phase) ==
  /\ edit[t] # Unset /\ edit[t].phase = "loading"
  /\ edit' = [edit EXCEPT ![t].phase = phase]
  /\ UNCHANGED <<cart, writes, page, seen, quote>>

RetryFetch(t) ==
  /\ edit[t] # Unset /\ edit[t].phase = "error"
  /\ edit' = [edit EXCEPT ![t].phase = "loading"]
  /\ UNCHANGED <<cart, writes, page, seen, quote>>

SaveDialog(t, key, q) ==
  /\ edit[t] # Unset /\ edit[t].phase = "form"
  /\ Store(t, replaceItem(cart, edit[t].key, [key |-> key, qty |-> q, on |-> TRUE]))
  /\ edit' = [edit EXCEPT ![t] = Unset]
  /\ UNCHANGED <<page, quote>>

RemoveGone(t) ==
  /\ edit[t] # Unset /\ edit[t].phase = "not_found"
  /\ Store(t, removeItem(cart, edit[t].key))
  /\ edit' = [edit EXCEPT ![t] = Unset]
  /\ UNCHANGED <<page, quote>>

CloseDialog(t) ==
  /\ edit[t] # Unset
  /\ edit' = [edit EXCEPT ![t] = Unset]
  /\ UNCHANGED <<cart, writes, page, seen, quote>>

(***************************************************************************)
(* Quoting, as the cart page and the checkout share it.  shape is what the *)
(* rendered page would price; the effect re-runs when its dependencies     *)
(* changed since it last ran, and its cleanup abandons the older request,   *)
(* so only the newest request's answer is ever applied.                     *)
(***************************************************************************)
StartQuote(t, shape, items) ==
  /\ quote[t].of # shape
  /\ quote' = [quote EXCEPT ![t] =
       [status |-> IF items = <<>> THEN "idle" ELSE "loading",
        of |-> shape, lines |-> cartQuoteItems(items)]]

AnswerQuote(t, status) ==
  /\ quote[t].status = "loading"
  /\ quote' = [quote EXCEPT ![t].status = status]

RetryQuote(t, shape) ==
  /\ quote[t].status = "error" /\ quote[t].of = shape
  /\ quote' = [quote EXCEPT ![t].status = "loading"]

(* A settled quote counts only while it still describes what is on screen.   *)
Settled(t, status, shape) == quote[t].status = status /\ quote[t].of = shape

CartShape(t) == cartSignature(seen[t])

QuoteCart(t) ==
  /\ page[t] = "cart"
  /\ \/ StartQuote(t, CartShape(t), selectedItems(seen[t]))
     \/ \E status \in {"ok", "error", "unavailable"} : AnswerQuote(t, status)
     \/ RetryQuote(t, CartShape(t))
  /\ UNCHANGED <<cart, writes, page, seen, edit>>

CartStep(t) ==
  \/ HearStorage(t)
  \/ \E raw \in OldCarts : VisitShop(t, raw)
  \/ \E key \in Keys, q \in 1 .. MAX_QUANTITY :
       AddFromProductPage(t, key, q) \/ SaveDialog(t, key, q)
  \/ \E i \in 1 .. MAX_LINES :
       \/ \E step \in {-1, 1} : ChangeQuantity(t, i, step)
       \/ SelectLine(t, i)
       \/ OpenDialog(t, i)
  \/ SelectAll(t)
  \/ \E phase \in {"form", "error", "not_found"} : ProductFetched(t, phase)
  \/ RetryFetch(t) \/ RemoveGone(t) \/ CloseDialog(t)
  \/ QuoteCart(t)

CartSpec == CartInit /\ [][\E t \in Tabs : CartStep(t)]_cartVars

-----------------------------------------------------------------------------
CartTypeOK ==
  /\ \A i \in DOMAIN cart : cart[i].key \in Keys /\ cart[i].on \in BOOLEAN
  /\ writes \in 0 .. MaxWrites
  /\ page \in [Tabs -> {"closed", "shop", "cart", "checkout"}]
  /\ \A t \in Tabs : edit[t] # Unset => edit[t].phase \in {"loading", "form", "error", "not_found"}

(* The stored cart keeps one line per configuration, within the bounds of    *)
(* the quote endpoint, whichever tab wrote it and from however old a render. *)
CartWellFormed ==
  /\ Len(cart) <= MAX_LINES
  /\ \A i \in DOMAIN cart : cart[i].qty \in 1 .. MAX_QUANTITY
  /\ \A i, j \in DOMAIN cart : cart[i].key = cart[j].key => i = j

(* A line's total on the cart page is read off the quote by position: it is  *)
(* the total of that very configuration and quantity.                       *)
LineTotalsAreTheirOwn ==
  \A t \in Tabs :
    page[t] = "cart" /\ Settled(t, "ok", CartShape(t)) =>
      quote[t].lines = cartQuoteItems(selectedItems(seen[t]))

(* Saving an edit never brings a line back: what the other tab removed while *)
(* the dialog was open stays removed.                                       *)
SaveAddsNoLine ==
  \A t \in Tabs : \A key \in Keys, q \in 1 .. MAX_QUANTITY :
    SaveDialog(t, key, q) =>
      /\ Len(cart') <= Len(cart)
      /\ edit[t].key \notin KeysIn(cart) => cart' = cart
EditNeverResurrects == [][SaveAddsNoLine]_cartVars
=============================================================================
