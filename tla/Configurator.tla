---------------------------- MODULE Configurator ----------------------------
(***************************************************************************)
(* The product configurator of the storefront: the colour, part, choice,   *)
(* engraving and add-on pickers shared by the product page and by the cart *)
(* line's edit dialog, the gate of their button, the cart line it builds,  *)
(* and the server's own reading of that line (pricing.PriceItem).          *)
(*                                                                         *)
(* Catalogue is the set of product versions the owner may publish: a page  *)
(* opens with one of them, and the edit dialog fetches whichever is        *)
(* current by then.  Prices do not appear: the client never adds any.      *)
(***************************************************************************)
EXTENDS Naturals, Sequences, FiniteSets

CONSTANTS
  Catalogue,   \* product versions: [parts, colors, options], each a sequence in catalogue order
  Texts,       \* engraving texts: [length, blank], length in code points
  StepperMax,  \* highest quantity the stepper offers (MAX_QUANTITY, scaled down)
  Missing      \* absent value

Each(s) == {s[i] : i \in DOMAIN s}

(* product-view.ts ColorView: a colour of a part, or of the product when part = Missing. *)
Ids(s) == {s[i].id : i \in DOMAIN s}
ById(s, id) == CHOOSE x \in Each(s) : x.id = id

(* find: the first element of s that satisfies Test, or Missing. *)
First(s, Test(_)) ==
  LET hits == {i \in DOMAIN s : Test(s[i])}
  IN IF hits = {} THEN Missing ELSE s[CHOOSE i \in hits : \A j \in hits : i <= j]

IdOf(x) == IF x = Missing THEN Missing ELSE x.id

(* Parts, colours and options have primary keys, and an absent choice is none.  *)
Keyed(s) == \A i, j \in DOMAIN s : s[i].id = s[j].id => i = j
CatalogueKeyed ==
  \A p \in Catalogue :
    /\ p.options \in Seq(Each(p.options))
    /\ Keyed(p.parts) /\ Keyed(p.colors) /\ Keyed(p.options)
    /\ \A o \in Each(p.options) : Missing \notin o.choices
ASSUME CatalogueAssumption == CatalogueKeyed

(***************************************************************************)
(* Defaults and gate: product-view.ts.                                     *)
(***************************************************************************)
FirstSelectable(colors) ==
  LET owner == First(colors, LAMBDA c : c.available /\ c.isDefault)
  IN IF owner # Missing THEN owner ELSE First(colors, LAMBDA c : c.available)

defaultFlatColorId(colors) == IdOf(FirstSelectable(colors))

colorsForPart(colors, part) == SelectSeq(colors, LAMBDA c : c.part = part)

defaultPartColors(product) ==
  [p \in Ids(product.parts) |-> IdOf(FirstSelectable(colorsForPart(product.colors, p)))]

\* Mutant: a colour that sold out while the dialog was open still counts.
canAddSoldOut(colorId, colors) == colors = <<>> \/ colorId \in Ids(colors)

canAddToCart(colorId, colors) ==
  \/ colors = <<>>
  \/ \E i \in DOMAIN colors : colors[i].id = colorId /\ colors[i].available

allPartsSelected(product, picked) ==
  \A p \in Ids(product.parts) :
    /\ p \in DOMAIN picked
    /\ \E i \in DOMAIN product.colors :
         /\ product.colors[i].id = picked[p]
         /\ product.colors[i].part = p
         /\ product.colors[i].available

Enumerated(o) == o.type = "choice" /\ o.choices # {}
Toggle(o) == o.type = "choice" /\ o.choices = {}

At(f, x) == IF x \in DOMAIN f THEN f[x] ELSE Missing
Put(f, x, v) == [y \in DOMAIN f \cup {x} |-> IF y = x THEN v ELSE f[y]]

allChoicesSelected(options, picked) ==
  \A i \in DOMAIN options :
    Enumerated(options[i]) => At(picked, options[i].id) \in options[i].choices

EmptyText == [length |-> 0, blank |-> TRUE]
TextOf(texts, o) == IF o.id \in DOMAIN texts THEN texts[o.id] ELSE EmptyText

isEngraveWithinLimit(text, maxChars) ==
  ~text.blank /\ maxChars # Missing => text.length <= maxChars

ColorOk(product, sel) ==
  IF product.parts # <<>> THEN allPartsSelected(product, sel.partColors)
                          ELSE canAddToCart(sel.colorId, product.colors)

canAddConfiguredToCart(product, sel) ==
  /\ ColorOk(product, sel)
  /\ allChoicesSelected(product.options, sel.choices)
  /\ \A i \in DOMAIN product.options :
       LET o == product.options[i]
       IN o.type = "text" => isEngraveWithinLimit(TextOf(sel.texts, o), o.maxChars)

(***************************************************************************)
(* buildCartItem (cart.ts): the line a selection becomes.  Its key is the  *)
(* fingerprint of everything that is priced or printed.                    *)
(***************************************************************************)
buildCartItem(product, sel) ==
  LET colorId == IF sel.colorId \in Ids(product.colors) THEN sel.colorId ELSE Missing
      partColors == {<<p, sel.partColors[p]>> :
                       p \in {q \in Ids(product.parts) \cap DOMAIN sel.partColors :
                                sel.partColors[q] \in Ids(product.colors)}}
      optionIds == {o.id : o \in {x \in Each(product.options) :
                                    Toggle(x) /\ x.id \in sel.toggles}}
      optionChoices == {<<o.id, sel.choices[o.id]>> :
                          o \in {x \in Each(product.options) :
                                   Enumerated(x) /\ At(sel.choices, x.id) \in x.choices}}
      text == First(product.options, LAMBDA o : o.type = "text" /\ ~TextOf(sel.texts, o).blank)
      engrave == IF text = Missing THEN Missing
                 ELSE [optionId |-> text.id, text |-> sel.texts[text.id]]
  IN [colorId |-> colorId, partColors |-> partColors, optionIds |-> optionIds,
      optionChoices |-> optionChoices, engrave |-> engrave]

cartLineKey(item) == item   \* every field but name, image, labels, quantity and selection is in the key

(* configuratorSeedFromCartItem: the selection an edit starts from. *)
seedFromCartItem(item) ==
  [colorId |-> item.colorId,
   partColors |-> [p \in {pc[1] : pc \in item.partColors} |->
                     (CHOOSE pc \in item.partColors : pc[1] = p)[2]],
   choices |-> [o \in {oc[1] : oc \in item.optionChoices} |->
                  (CHOOSE oc \in item.optionChoices : oc[1] = o)[2]],
   toggles |-> item.optionIds,
   texts |-> IF item.engrave = Missing THEN << >>
             ELSE [o \in {item.engrave.optionId} |-> item.engrave.text]]

freshSelection(product) ==
  [colorId |-> IF product.parts # <<>> THEN Missing ELSE defaultFlatColorId(product.colors),
   partColors |-> defaultPartColors(product),
   choices |-> << >>, toggles |-> {}, texts |-> << >>]

(***************************************************************************)
(* The server: pricing.go PriceItem, as the set of its refusals.           *)
(***************************************************************************)
pricePartColors(product, partColors) ==
  /\ \A p \in Ids(product.parts) : Cardinality({pc \in partColors : pc[1] = p}) = 1
  /\ \A pc \in partColors :
       /\ pc[1] \in Ids(product.parts)
       /\ pc[2] \in Ids(product.colors)
       /\ ById(product.colors, pc[2]).part = pc[1]
       /\ ById(product.colors, pc[2]).available

validateEngrave(product, item) ==
  item.engrave # Missing =>
    LET o == ById(product.options, item.engrave.optionId)
    IN o.maxChars # Missing => item.engrave.text.length <= o.maxChars

PriceItemAccepts(product, item) ==
  LET wire == item.optionIds \cup (IF item.engrave = Missing THEN {} ELSE {item.engrave.optionId})
  IN /\ IF product.parts # <<>>
          THEN item.colorId = Missing /\ pricePartColors(product, item.partColors)
          ELSE /\ item.partColors = {}
               /\ item.colorId # Missing =>
                    /\ item.colorId \in Ids(product.colors)
                    /\ ById(product.colors, item.colorId).available
     /\ \A id \in wire : id \in Ids(product.options) /\ ~Enumerated(ById(product.options, id))
     /\ \A oc \in item.optionChoices :
          /\ oc[1] \in Ids(product.options) \ wire
          /\ oc[2] \in ById(product.options, oc[1]).choices
     /\ validateEngrave(product, item)

(***************************************************************************)
(* The page or dialog.                                                     *)
(***************************************************************************)
VARIABLE cfg   \* the open configurator, and the last line it built

cfgVars == <<cfg>>

Closed == [mode |-> "closed", product |-> Missing, sel |-> Missing, qty |-> 1,
           touched |-> FALSE, built |-> Missing]

ConfiguratorInit == cfg = Closed

(* The product page mounts useConfiguratorState without a seed. *)
OpenProductPage(p) ==
  /\ cfg.mode = "closed"
  /\ cfg' = [Closed EXCEPT !.mode = "page", !.product = p, !.sel = freshSelection(p),
                           !.built = cfg.built]

(* The dialog of the line just built: it fetches the product fresh, so the  *)
(* version may differ from the one the line was built from.                 *)
OpenEditDialog(p) ==
  /\ cfg.mode = "closed" /\ cfg.built # Missing
  /\ cfg' = [Closed EXCEPT !.mode = "edit", !.product = p,
                           !.sel = seedFromCartItem(cfg.built.item), !.qty = cfg.built.qty,
                           !.built = cfg.built]

IsOpen == cfg.mode # "closed"
Touch(sel) == cfg' = [cfg EXCEPT !.sel = sel, !.touched = TRUE]

(* Out-of-stock swatches are disabled, so only selectable colours are picked. *)
PickPartColor ==
  /\ IsOpen /\ cfg.product.parts # <<>>
  /\ \E c \in Each(cfg.product.colors) :
       /\ c.part \in Ids(cfg.product.parts) /\ c.available
       /\ Touch([cfg.sel EXCEPT !.partColors = Put(@, c.part, c.id)])

PickColor ==
  /\ IsOpen /\ cfg.product.parts = <<>>
  /\ \E c \in Each(cfg.product.colors) :
       c.available /\ Touch([cfg.sel EXCEPT !.colorId = c.id])

PickChoice ==
  /\ IsOpen
  /\ \E o \in Each(cfg.product.options) : \E ch \in o.choices :
       Enumerated(o) /\ Touch([cfg.sel EXCEPT !.choices = Put(@, o.id, ch)])

EnterText ==
  /\ IsOpen
  /\ \E o \in Each(cfg.product.options), text \in Texts :
       o.type = "text" /\ Touch([cfg.sel EXCEPT !.texts = Put(@, o.id, text)])

ToggleChoice ==
  /\ IsOpen
  /\ \E o \in Each(cfg.product.options) :
       /\ Toggle(o)
       /\ Touch([cfg.sel EXCEPT !.toggles = IF o.id \in @ THEN @ \ {o.id} ELSE @ \cup {o.id}])

StepQuantity ==
  /\ IsOpen
  /\ \E q \in {cfg.qty - 1, cfg.qty + 1} \cap 1 .. StepperMax : cfg' = [cfg EXCEPT !.qty = q]

(* What the callers hand to buildCartItem: a product with parts sends no flat colour. *)
Sent(product, sel) == [sel EXCEPT !.colorId = IF product.parts # <<>> THEN Missing ELSE @]

CanAdd == canAddConfiguredToCart(cfg.product, cfg.sel)
Line == buildCartItem(cfg.product, Sent(cfg.product, cfg.sel))
Built == [item |-> Line, product |-> cfg.product, qty |-> cfg.qty]

(* addCurrentSelectionToCart keeps the page open; onSave of the dialog       *)
(* replaces the line and closes.                                             *)
AddToCart ==
  /\ cfg.mode = "page" /\ CanAdd
  /\ cfg' = [Closed EXCEPT !.built = Built]

SaveEdit ==
  /\ cfg.mode = "edit" /\ CanAdd
  /\ cfg' = [Closed EXCEPT !.built = Built]

CloseConfigurator ==
  /\ IsOpen
  /\ cfg' = [Closed EXCEPT !.built = cfg.built]

ConfiguratorNext ==
  \/ \E p \in Catalogue : OpenProductPage(p) \/ OpenEditDialog(p)
  \/ PickPartColor \/ PickColor \/ PickChoice \/ EnterText \/ ToggleChoice
  \/ StepQuantity \/ AddToCart \/ SaveEdit \/ CloseConfigurator

ConfiguratorSpec == ConfiguratorInit /\ [][ConfiguratorNext]_cfgVars

-----------------------------------------------------------------------------
(* What the button lets into the cart is what the server prices: whatever   *)
(* was picked, and whichever version of the product the dialog fetched, an  *)
(* enabled button never builds a line that PriceItem refuses.               *)
GateMatchesServer ==
  IsOpen /\ CanAdd => PriceItemAccepts(cfg.product, Line)

(* Opening the dialog and saving with nothing changed gives the line its own *)
(* key back, so it is updated in place and never split or merged.           *)
UntouchedEditKeepsLine ==
  cfg.mode = "edit" /\ ~cfg.touched /\ cfg.product = cfg.built.product =>
    CanAdd /\ cartLineKey(Line) = cartLineKey(cfg.built.item)

(* Both hold whatever the owner changes and the shopper picks.                *)
ConfiguratorSound == GateMatchesServer /\ UntouchedEditKeepsLine
=============================================================================
