------------------------------ MODULE Checkout ------------------------------
(***************************************************************************)
(* The checkout page (components/checkout-view.tsx) on top of the shared   *)
(* cart: the address and contact form, the server-priced total, the two    *)
(* engraving acknowledgements, the receipt upload, the submission and what *)
(* the shop's server does with it.                                         *)
(*                                                                         *)
(* The component's state of one mount is a record; a handler that is still *)
(* waiting for an answer when the page unmounts keeps running, but its     *)
(* setState calls reach nobody (live = FALSE).  The messages the form shows *)
(* (errors, formError, submitError) decide nothing and are left out.       *)
(***************************************************************************)
EXTENDS Cart

CONSTANTS
  Engraved,        \* configuration keys that carry engraving
  Provinces, Wards,
  WardsOf(_),      \* getWardsByProvince
  Shippable,       \* provinces a shipping rule covers
  MaxUploads,      \* bound: receipts picked on one mount
  CheckoutTabs,    \* bound: tabs that open the checkout
  MaxSubmits       \* bound: submissions sent

VARIABLES
  submits,  \* POST /orders calls sent so far
  co,       \* [Tabs -> state of the checkout component]
  posts,    \* [Tabs -> POST /orders calls without an answer, oldest first]
  order     \* the order the server created last, or Unset

checkoutVars == <<submits, co, posts, order>>
shopVars == <<cart, writes, page, seen, quote, edit, submits, co, posts, order>>

Fields == {"contact", "province", "ward"}   \* contact stands for e-mail, name, phone and street

Unmounted == [mounted |-> FALSE, config |-> "none", contact |-> FALSE, province |-> Unset,
              ward |-> Unset, ack |-> FALSE, echo |-> FALSE, proof |-> "idle",
              receipt |-> Unset, uploads |-> {}, picked |-> 0, latch |-> FALSE,
              submitting |-> FALSE, placed |-> FALSE]

CheckoutInit ==
  /\ submits = 0
  /\ co = [t \in Tabs |-> Unmounted]
  /\ posts = [t \in Tabs |-> <<>>]
  /\ order = Unset

(***************************************************************************)
(* What the component derives on each render.                              *)
(***************************************************************************)
Items(t) == selectedItems(seen[t])

CheckoutShape(t) ==
  [lines |-> cartSignature(Items(t)), province |-> co[t].province, ward |-> co[t].ward]

(* quoteCart folds the shipping fee in only when a province was sent. *)
HasTotal(t) == Settled(t, "ok", CheckoutShape(t)) /\ co[t].province # Unset

engravedLines(items) == {items[i].key : i \in DOMAIN items} \cap Engraved

personalizationAckMet(items, ack, echo) == engravedLines(items) # {} => ack /\ echo

validateCheckoutForm(form) ==
  {f \in Fields : \/ f = "contact" /\ ~form.contact
                  \/ f = "province" /\ form.province = Unset
                  \/ f = "ward" /\ form.ward = Unset}

buildWebOrderInput(t) ==
  [lines |-> cartQuoteItems(Items(t)), province |-> co[t].province, ward |-> co[t].ward,
   proof |-> co[t].receipt, acks |-> engravedLines(Items(t)) # {} /\ co[t].ack /\ co[t].echo]

(* The screen, in the order of the component's early returns. *)
Screen(t) ==
  IF page[t] # "checkout" THEN "elsewhere"
  ELSE IF co[t].config # "ok" THEN "config error"
  ELSE IF co[t].placed THEN "wait"
  ELSE IF co[t].submitting THEN "submitting"
  ELSE IF Items(t) = <<>> THEN "empty"
  ELSE "form"

(***************************************************************************)
(* Page load.                                                              *)
(***************************************************************************)
Fade(t) == posts' = [posts EXCEPT ![t] = [i \in DOMAIN @ |-> [@[i] EXCEPT !.live = FALSE]]]

Navigate(t, to) ==
  /\ to = "checkout" => t \in CheckoutTabs
  /\ GoTo(t, to)
  /\ Fade(t)
  /\ \E config \in (IF to = "checkout" THEN {"ok", "error"} ELSE {"none"}) :
       co' = [co EXCEPT ![t] = [Unmounted EXCEPT !.mounted = to = "checkout",
                                                 !.config = config]]
  /\ UNCHANGED <<submits, order>>

(* router.refresh re-fetches the configuration and keeps the mount.          *)
RefreshConfig(t) ==
  /\ Screen(t) = "config error"
  /\ co' = [co EXCEPT ![t].config = "ok"]
  /\ UNCHANGED <<cartVars, submits, posts, order>>

(***************************************************************************)
(* The form.  A province pick clears the ward, which belonged to the old   *)
(* one.                                                                    *)
(***************************************************************************)
SetCheckout(t, next) ==
  /\ Screen(t) = "form"
  /\ co' = [co EXCEPT ![t] = next]
  /\ UNCHANGED <<cartVars, submits, posts, order>>

FillContact(t) == SetCheckout(t, [co[t] EXCEPT !.contact = ~@])

PickProvince(t, p) ==
  /\ p # co[t].province
  /\ SetCheckout(t, [co[t] EXCEPT !.province = p, !.ward = Unset])

PickWard(t, w) ==
  /\ co[t].province # Unset /\ w \in WardsOf(co[t].province) \ {co[t].ward}
  /\ SetCheckout(t, [co[t] EXCEPT !.ward = w])

TickAck(t) ==
  /\ engravedLines(Items(t)) # {}
  /\ \/ SetCheckout(t, [co[t] EXCEPT !.ack = ~@])
     \/ SetCheckout(t, [co[t] EXCEPT !.echo = ~@])

(***************************************************************************)
(* The receipt.  A pick is refused for its type, or starts an upload whose *)
(* three steps may each fail; nothing stops a second pick meanwhile, and   *)
(* whichever upload ends last sets the state.                              *)
(***************************************************************************)
PickFile(t) ==
  /\ Screen(t) = "form" /\ co[t].picked < MaxUploads
  /\ \/ co' = [co EXCEPT ![t] = [co[t] EXCEPT !.proof = "error", !.picked = @ + 1]]
     \/ co' = [co EXCEPT ![t] = [co[t] EXCEPT !.proof = "uploading", !.picked = @ + 1,
                                              !.uploads = @ \cup {co[t].picked + 1}]]
  /\ UNCHANGED <<cartVars, submits, posts, order>>

UploadEnds(t, file, stored) ==
  /\ file \in co[t].uploads
  /\ co' = [co EXCEPT ![t] = [co[t] EXCEPT !.uploads = @ \ {file},
                                           !.proof = IF stored THEN "done" ELSE "error",
                                           !.receipt = IF stored THEN file ELSE Unset]]
  /\ UNCHANGED <<cartVars, submits, posts, order>>

(***************************************************************************)
(* Pricing: the quote of the shared machinery, for the selected lines and  *)
(* the chosen destination.                                                 *)
(***************************************************************************)
QuoteAnswers(t) ==
  LET p == quote[t].of.province
  IN {"error", "unavailable"}
     \cup (IF p = Unset \/ p \in Shippable THEN {"ok"} ELSE {"no_shipping_rule"})

QuoteCheckout(t) ==
  /\ page[t] = "checkout"
  /\ \/ StartQuote(t, CheckoutShape(t), Items(t))
     \/ quote[t].status = "loading" /\ \E status \in QuoteAnswers(t) : AnswerQuote(t, status)
     \/ RetryQuote(t, CheckoutShape(t))
  /\ UNCHANGED <<cart, writes, page, seen, edit, checkoutVars>>

(***************************************************************************)
(* Submitting.  The handler runs against the rendered form; the latch is a *)
(* ref, so it holds before the submitting screen is painted.               *)
(***************************************************************************)
Submit(t) ==
  /\ Screen(t) = "form"
  /\ validateCheckoutForm(co[t]) = {}
  /\ HasTotal(t)
  /\ personalizationAckMet(Items(t), co[t].ack, co[t].echo)
  /\ co[t].proof = "done"
  /\ ~co[t].latch
  /\ submits < MaxSubmits
  /\ submits' = submits + 1
  /\ co' = [co EXCEPT ![t].latch = TRUE]
  /\ posts' = [posts EXCEPT ![t] =
                 Append(@, [input |-> buildWebOrderInput(t), live |-> TRUE, shown |-> quote[t]])]
  /\ UNCHANGED <<cartVars, order>>

(* setSubmitting(true) commits. *)
Paint(t) ==
  /\ co[t].latch /\ ~co[t].submitting /\ ~co[t].placed
  /\ co' = [co EXCEPT ![t].submitting = TRUE]
  /\ UNCHANGED <<cartVars, submits, posts, order>>

Heard(t, live, next) ==
  co' = IF live THEN [co EXCEPT ![t] = next] ELSE co

(* The server created the order and its answer arrived: the selected lines   *)
(* leave the cart, even when the page is gone.                              *)
OrderPlaced(t) ==
  /\ posts[t] # <<>>
  /\ LET post == Head(posts[t]) IN
       /\ post.input.province \in Shippable
       /\ order' = post
       /\ cart' = clearSelected(cart)
       /\ seen' = [seen EXCEPT ![t] = cart']
       /\ Heard(t, post.live, [co[t] EXCEPT !.placed = TRUE, !.submitting = FALSE])
  /\ posts' = [posts EXCEPT ![t] = Tail(@)]
  /\ UNCHANGED <<writes, page, quote, edit, submits>>

(* It was refused, or the call failed before or after the order was stored.  *)
OrderFailed(t, stored) ==
  /\ posts[t] # <<>>
  /\ LET post == Head(posts[t]) IN
       /\ order' = IF stored THEN post ELSE order
       /\ Heard(t, post.live, [co[t] EXCEPT !.latch = FALSE, !.submitting = FALSE])
  /\ posts' = [posts EXCEPT ![t] = Tail(@)]
  /\ UNCHANGED <<cartVars, submits>>

CheckoutStep(t) ==
  \/ \E to \in {"shop", "cart", "checkout"} : Navigate(t, to)
  \/ RefreshConfig(t) \/ FillContact(t) \/ TickAck(t) \/ PickFile(t)
  \/ \E p \in Provinces : PickProvince(t, p)
  \/ \E w \in Wards : PickWard(t, w)
  \/ \E file \in 1 .. MaxUploads, stored \in BOOLEAN : UploadEnds(t, file, stored)
  \/ QuoteCheckout(t)
  \/ Submit(t) \/ Paint(t) \/ OrderPlaced(t)
  \/ \E stored \in BOOLEAN : OrderFailed(t, stored)

ShopNext == \E t \in Tabs : (CartStep(t) /\ UNCHANGED checkoutVars) \/ CheckoutStep(t)

ShopSpec == CartInit /\ CheckoutInit /\ [][ShopNext]_shopVars

-----------------------------------------------------------------------------
(* Every order is for exactly the lines and the destination of the total    *)
(* that was on the screen when it was submitted, with a stored receipt, and *)
(* with both acknowledgements when it carries engraving.                    *)
AsShown(post) ==
  LET input == post.input  shown == post.shown IN
    /\ shown.status = "ok" /\ input.lines # <<>>
    /\ input.lines = shown.lines
    /\ input.province = shown.of.province /\ input.ward = shown.of.ward
    /\ input.ward \in WardsOf(input.province)
    /\ input.proof # Unset
    /\ (\E n \in DOMAIN input.lines : input.lines[n][1] \in Engraved) => input.acks
OrderAsShown == order # Unset => AsShown(order)

(* One mount of the page has at most one submission under way, and none once *)
(* its order is placed, however fast the button is pressed.                 *)
OneSubmissionAtATime ==
  \A t \in Tabs : \A i \in DOMAIN posts[t] :
    posts[t][i].live =>
      /\ \A j \in DOMAIN posts[t] : posts[t][j].live => i = j
      /\ co[t].latch /\ ~co[t].placed

(* Only the ordered lines leave the cart when an order is placed. *)
OnlyOrderedLinesLeave ==
  [][\A t \in Tabs : OrderPlaced(t) =>
       KeysIn(cart) \ KeysIn(cart')
         \subseteq {Head(posts[t]).input.lines[n][1] : n \in DOMAIN Head(posts[t]).input.lines}]_shopVars

(* The cart two tabs share keeps one line per configuration and each total   *)
(* next to its own line (Cart), and a checkout orders what it showed, once.    *)
CheckoutSound == CartWellFormed /\ LineTotalsAreTheirOwn /\ OrderAsShown /\ OneSubmissionAtATime
=============================================================================
