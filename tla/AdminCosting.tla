---------------------------- MODULE AdminCosting ----------------------------
(***************************************************************************)
(* The costing screen of the admin: filament stock, machines, overheads    *)
(* and scrap, in four tabs, with one dialog per kind of write.  A dialog   *)
(* is a native <dialog>: Escape closes it while its write is under way.    *)
(* The answer of a write closes whatever dialog is open by then.           *)
(*                                                                         *)
(* A field holds None (blank or not a whole number), a number, or TooMuch, *)
(* which the form lets through and only the server refuses.                *)
(***************************************************************************)
EXTENDS Naturals, Sequences, FiniteSets

CONSTANTS
  Entries,     \* what a numeric field may hold: None, numbers, TooMuch
  TooMuch,     \* a number above every server-side cap
  Stocked,     \* materials the shop starts with
  MaxWrites,   \* bound: writes stored on the server
  MaxDialogs,  \* bound: dialogs opened
  None

LOCAL S == INSTANCE SequencesExt

VARIABLES
  books,    \* server: materials, machines, overheads
  bundle,   \* what the screen was served last
  desk,     \* tab and open dialog
  sent      \* writes with no answer yet

costingVars == <<books, bundle, desk, sent>>

COSTING_TABS == <<"filament", "machine", "aux", "waste">>

CostingInit ==
  /\ books = [materials |-> Stocked, machines |-> <<>>, aux |-> <<>>, stored |-> 0]
  /\ bundle = books
  /\ desk = [tab |-> 1, dialog |-> None, opened |-> 0, stale |-> FALSE, acks |-> 0]
  /\ sent = {}

(***************************************************************************)
(* Reading the bundle: lib/materials.ts.                                   *)
(***************************************************************************)
filamentStatus(m) ==
  IF m.threshold <= 0 THEN "track" ELSE IF m.stock <= m.threshold THEN "low" ELSE "ok"

filamentRows(list) ==
  [i \in DOMAIN list |-> [stock |-> list[i].stock, status |-> filamentStatus(list[i]),
                          cost |-> IF list[i].lots = 0 THEN None ELSE "rate"]]

filamentStockGrams(list) ==
  S!FoldSeq(LAMBDA m, sum : IF m.unit = "gram" THEN sum + m.stock ELSE sum, 0, list)

lowStockCount(list) == Len(SelectSeq(list, LAMBDA m : filamentStatus(m) = "low"))

primaryMachine(list) ==
  LET set == {i \in DOMAIN list : list[i].primary}
  IN IF set = {} THEN None ELSE CHOOSE i \in set : \A j \in set : i <= j

splitAuxCosts(list, kind) == SelectSeq(list, LAMBDA a : a.kind = kind)
sumAmountVnd(list) == S!FoldSeq(LAMBDA a, sum : sum + a.amount, 0, list)

(* What each panel says. *)
KpiRow(b) ==
  [grams |-> filamentStockGrams(b.materials), low |-> lowStockCount(b.materials)]
FilamentPanel(b) == filamentRows(b.materials)
MachinePanel(b) == primaryMachine(b.machines)
AuxPanel(b) ==
  [kind \in {"per_order", "per_month"} |-> sumAmountVnd(splitAuxCosts(b.aux, kind))]

(***************************************************************************)
(* The dialogs.  A form is its numeric fields and whether its text field,  *)
(* where it has one, was filled in.                                        *)
(***************************************************************************)
intAtLeast(raw, min) == raw # None /\ (raw = TooMuch \/ raw >= min)

MaterialForm(f) == f.text /\ intAtLeast(f.a, 0)
ImportForm(f)   == f.material # None /\ intAtLeast(f.a, 1) /\ intAtLeast(f.b, 0)
MachineForm(f)  == f.text /\ intAtLeast(f.a, 1) /\ intAtLeast(f.b, 0)
AuxForm(f)      == f.text /\ intAtLeast(f.a, 0)
ScrapForm(f)    == f.material # None /\ intAtLeast(f.a, 1)

Ready(kind, f) ==
  CASE kind = "material" -> MaterialForm(f)
    [] kind = "import"   -> ImportForm(f)
    [] kind = "machine"  -> MachineForm(f)
    [] kind = "aux"      -> AuxForm(f)
    [] kind = "scrap"    -> ScrapForm(f)

\* Mutant: the button stays enabled while the write is under way.
CanSubmitAgain(d) == Ready(d.kind, d.form)

CanSubmit(d) == ~d.pending /\ Ready(d.kind, d.form)

ShowTab(i) ==
  /\ desk.dialog = None /\ i # desk.tab
  /\ desk' = [desk EXCEPT !.tab = i]
  /\ UNCHANGED <<books, bundle, sent>>

\* Mutant: the arrows do not go round.
onTabKeyStraight(key) == IF key = "ArrowRight" THEN desk.tab + 1 ELSE desk.tab

(* onTabKeyDown: arrows go round, Home and End go to the ends. *)
onTabKeyDown(key) ==
  LET last == Len(COSTING_TABS) IN
  CASE key = "ArrowRight" -> IF desk.tab = last THEN 1 ELSE desk.tab + 1
    [] key = "ArrowLeft"  -> IF desk.tab = 1 THEN last ELSE desk.tab - 1
    [] key = "Home" -> 1
    [] key = "End"  -> last

OpenWrite(kind) ==
  /\ desk.dialog = None /\ desk.opened < MaxDialogs
  /\ kind \in CASE COSTING_TABS[desk.tab] = "filament" -> {"material", "import"}
                [] COSTING_TABS[desk.tab] = "machine" -> {"machine"}
                [] COSTING_TABS[desk.tab] = "aux" -> {"aux"}
                [] COSTING_TABS[desk.tab] = "waste" -> {"scrap"}
  /\ kind \in {"import", "scrap"} => bundle.materials # <<>>
  /\ desk' = [desk EXCEPT !.opened = @ + 1,
       !.dialog = [id |-> desk.opened + 1, kind |-> kind, pending |-> FALSE, error |-> FALSE,
                   form |-> [text |-> FALSE, a |-> None, b |-> None,
                             material |-> IF kind \in {"import", "scrap"} THEN 1 ELSE None]]]
  /\ UNCHANGED <<books, bundle, sent>>

(* Every field stays editable while the write is under way. *)
FillForm ==
  /\ desk.dialog # None /\ desk.dialog.id \notin {w.from : w \in sent}
  /\ \E a \in Entries, b \in IF desk.dialog.kind \in {"import", "machine"} THEN Entries ELSE {None} :
       /\ desk.dialog.form.a # a
       /\ desk' = [desk EXCEPT !.dialog.form = [@ EXCEPT !.text = TRUE, !.a = a, !.b = b]]
  /\ UNCHANGED <<books, bundle, sent>>

Submit ==
  /\ desk.dialog # None /\ CanSubmit(desk.dialog)
  /\ sent' = sent \cup {[from |-> desk.dialog.id, kind |-> desk.dialog.kind,
                         form |-> desk.dialog.form, res |-> None]}
  /\ desk' = [desk EXCEPT !.dialog.pending = TRUE, !.dialog.error = FALSE]
  /\ UNCHANGED <<books, bundle>>

(* Cancel waits for the write; Escape does not. *)
Cancel ==
  /\ desk.dialog # None /\ ~desk.dialog.pending
  /\ desk' = [desk EXCEPT !.dialog = None]
  /\ UNCHANGED <<books, bundle, sent>>

PressEscape ==
  /\ desk.dialog # None /\ desk.dialog.pending
  /\ desk' = [desk EXCEPT !.dialog = None]
  /\ UNCHANGED <<books, bundle, sent>>

(***************************************************************************)
(* The writes on the server, and their answers.                            *)
(***************************************************************************)
WithinCaps(w) == TooMuch \notin {w.form.a, w.form.b}

(* Decrement draws what is there and no more. *)
Drawn(stock, qty) == IF qty > stock THEN stock ELSE qty

importFilament(w) ==
  [books EXCEPT !.materials[w.form.material].stock = @ + w.form.a,
                !.materials[w.form.material].imported = @ + w.form.a,
                !.materials[w.form.material].lots = @ + 1]

scrapFilament(w) ==
  LET m == books.materials[w.form.material]  drawn == Drawn(m.stock, w.form.a)
  IN [books EXCEPT !.materials[w.form.material] =
        [m EXCEPT !.stock = @ - drawn, !.scrapped = @ + drawn]]

createFilamentMaterial(w) ==
  [books EXCEPT !.materials =
     Append(@, [unit |-> "gram", stock |-> 0, imported |-> 0, lots |-> 0, scrapped |-> 0,
                threshold |-> w.form.a])]

createMachine(w) == [books EXCEPT !.machines = Append(@, [primary |-> w.form.b # 0])]

createAuxCost(w) == [books EXCEPT !.aux = Append(@, [kind |-> "per_order", amount |-> w.form.a])]

Effect(w) ==
  CASE w.kind = "import" -> importFilament(w)
    [] w.kind = "scrap" -> scrapFilament(w)
    [] w.kind = "material" -> createFilamentMaterial(w)
    [] w.kind = "machine" -> createMachine(w)
    [] w.kind = "aux" -> createAuxCost(w)

HandleWrite(w) ==
  /\ w \in sent /\ w.res = None /\ books.stored < MaxWrites
  /\ books' = IF WithinCaps(w) THEN [Effect(w) EXCEPT !.stored = @ + 1] ELSE books
  /\ sent' = (sent \ {w}) \cup {[w EXCEPT !.res = IF WithinCaps(w) THEN "ok" ELSE "validation"]}
  /\ UNCHANGED <<bundle, desk>>

(* useWrite: ok refreshes and closes, anything else shows in its own dialog.  *)
(* The answer may be lost after the write was stored.                        *)
Answered(w, res) ==
  /\ w \in sent /\ sent' = sent \ {w}
  /\ desk' =
       IF res = "ok" THEN [desk EXCEPT !.dialog = None, !.stale = TRUE, !.acks = @ + 1]
       ELSE IF desk.dialog # None /\ desk.dialog.id = w.from
       THEN [desk EXCEPT !.dialog.pending = FALSE, !.dialog.error = TRUE]
       ELSE desk
  /\ UNCHANGED <<books, bundle>>

WriteAnswered(w) == w.res # None /\ (Answered(w, w.res) \/ Answered(w, "error"))

Refreshed ==
  /\ desk.stale
  /\ desk' = [desk EXCEPT !.stale = FALSE]
  /\ bundle' = books
  /\ UNCHANGED <<books, sent>>

CostingNext ==
  \/ \E i \in DOMAIN COSTING_TABS : ShowTab(i)
  \/ \E key \in {"ArrowRight", "ArrowLeft", "Home", "End"} : ShowTab(onTabKeyDown(key))
  \/ \E kind \in {"material", "import", "machine", "aux", "scrap"} : OpenWrite(kind)
  \/ FillForm \/ Submit \/ Cancel \/ PressEscape \/ Refreshed
  \/ \E w \in sent : HandleWrite(w) \/ WriteAnswered(w)

CostingSpec == CostingInit /\ [][CostingNext]_costingVars

-----------------------------------------------------------------------------
CostingTypeOK ==
  /\ desk.tab \in DOMAIN COSTING_TABS /\ desk.opened \in 0 .. MaxDialogs
  /\ \A i \in DOMAIN books.materials : books.materials[i].stock \in Nat

(* A dialog has one write out at a time, so one press never books an import   *)
(* or a scrap twice; what is acknowledged is on the books; stock is what was  *)
(* imported less what was really drawn, and the low-stock count is the one    *)
(* of the table below it.                                                   *)
CostingSound ==
  /\ \A w, v \in sent : w.from = v.from => w = v
  /\ desk.dialog # None /\ ~desk.dialog.pending => desk.dialog.id \notin {w.from : w \in sent}
  /\ desk.acks <= books.stored
  /\ \A i \in DOMAIN books.materials :
       books.materials[i].stock = books.materials[i].imported - books.materials[i].scrapped
  /\ KpiRow(bundle).low = Len(SelectSeq(FilamentPanel(bundle), LAMBDA row : row.status = "low"))
  /\ MachinePanel(bundle) = None <=> \A i \in DOMAIN bundle.machines : ~bundle.machines[i].primary
  /\ AuxPanel(bundle)["per_order"] + AuxPanel(bundle)["per_month"] = sumAmountVnd(bundle.aux)
=============================================================================
