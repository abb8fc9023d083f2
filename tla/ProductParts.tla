---------------------------- MODULE ProductParts ----------------------------
(***************************************************************************)
(* The two lists of the product editor (product-colors.tsx,                 *)
(* product-options.tsx) and their dialogs: parts with their colours, options *)
(* with their choices, each written by a call of its own, and what the shop's *)
(* pages make of the rows.  A group is a part or an option, a member a colour *)
(* or a choice; only a colour may be outside every group and change groups.   *)
(*                                                                         *)
(* moved and uneven are history: groups a default colour was moved into, and *)
(* whether the numbering of members has had a chance to collide.             *)
(***************************************************************************)
EXTENDS Naturals, Sequences, FiniteSets

CONSTANTS
  Sections,    \* "colors", "options"
  FirstGroups, FirstMembers, \* rows when the page is opened
  Pinned,      \* colours an order refers to
  MaxWrites,   \* bound: dialogs opened; and dialogs submitted, deletes and defaults asked for
  MaxElse,     \* bound: changes from another tab
  None

VARIABLES
  section, \* which of the two lists
  rows,    \* the tables: id -> row
  part,    \* the list on the screen: rows last rendered, dialog, pending delete, bookkeeping
  writes   \* calls under way, refreshes among them

partsVars == <<section, rows, part, writes>>

Ids == 1 .. FirstGroups + FirstMembers + MaxWrites + MaxElse
GroupRows(table) == {i \in DOMAIN table : table[i].kind = "group"}
Members(table) == {i \in DOMAIN table : table[i].kind = "member"}
In(table, g) == {i \in Members(table) : table[i].of = g}
Put(table, i, row) == [j \in DOMAIN table \cup {i} |-> IF j = i THEN row ELSE table[j]]
Only(table, ids) == [j \in ids |-> table[j]]

(***************************************************************************)
(* What a product opens on.  Lists come ordered by colour name, here the id.  *)
(***************************************************************************)
First(ids) == IF ids = {} THEN None ELSE CHOOSE i \in ids : \A j \in ids : i <= j
On(table, scope) == {i \in In(table, scope) : table[i].on}

\* The editor's previews.
defaultModelColors(table, scope) ==
  LET owners == {i \in On(table, scope) : table[i].dflt}
  IN IF owners # {} THEN First(owners) ELSE First(On(table, scope))

\* The sprite, frozen by the server when a job is enqueued: one pass over the list.
defaultScopeColor(table, scope) ==
  LET Pick(i) == i \in On(table, scope)
      scan[i \in 0 .. Cardinality(Ids)] ==
        IF i = 0 THEN [first |-> None, owner |-> None]
        ELSE IF i \notin DOMAIN table \/ ~Pick(i) THEN scan[i - 1]
        ELSE [first |-> IF scan[i - 1].first = None THEN i ELSE scan[i - 1].first,
              owner |-> IF table[i].dflt /\ scan[i - 1].owner = None THEN i ELSE scan[i - 1].owner]
      end == scan[Cardinality(Ids)]
  IN IF end.owner # None THEN end.owner ELSE end.first

\* The storefront: a flat product looks over all its colours, a part over its own.
shopDefault(table, scope) ==
  LET seen == IF scope = None THEN Members(table) ELSE In(table, scope)
      owners == {i \in seen : table[i].on /\ table[i].dflt}
  IN IF owners # {} THEN First(owners) ELSE First({i \in seen : table[i].on})

\* groupColorsByPart: a colour of a part that is gone stays visible in the flat group.
groupColorsByPart(table) ==
  [g \in GroupRows(table) \cup {None} |->
     IF g = None THEN {i \in Members(table) : table[i].of \notin GroupRows(table)} ELSE In(table, g)]

\* The two readers of an option's choices: the editor sorts ties by label (here by
\* descending id, the worst case), the shop takes the server's order (ties by id).
sortChoices(table, g) ==
  [i \in In(table, g) |->
     Cardinality({j \in In(table, g) : table[j].order < table[i].order \/ (table[j].order = table[i].order /\ j > i)})]
ListChoicesByProduct(table, g) ==
  [i \in In(table, g) |->
     Cardinality({j \in In(table, g) : table[j].order < table[i].order \/ (table[j].order = table[i].order /\ j < i)})]

Row(kind, of, order) == [kind |-> kind, of |-> of, order |-> order, on |-> TRUE, dflt |-> FALSE]
PartsInit ==
  /\ section \in Sections
  /\ rows = [i \in 1 .. FirstGroups + FirstMembers |->
               IF i <= FirstGroups THEN Row("group", None, i - 1) 
               ELSE [Row("member", 1, i - FirstGroups - 1) EXCEPT !.dflt = (section = "colors" /\ i = FirstGroups + 1)]]
  /\ part = [view |-> rows, dialog |-> None, deleting |-> FALSE, error |-> None, next |-> Len(rows) + 1,
             asked |-> 0, others |-> 0, opened |-> 0, moved |-> {}, uneven |-> FALSE, behind |-> FALSE]
  /\ writes = {}

(***************************************************************************)
(* The dialogs: a copy of the row's fields when opened; full replace.        *)
(***************************************************************************)
Dialog(id, row) == [n |-> part.opened + 1, id |-> id, row |-> row, pending |-> FALSE, error |-> None]
open(id, row) ==
  /\ part.dialog = None /\ part.opened < MaxWrites /\ part.asked < MaxWrites
  /\ part' = [part EXCEPT !.dialog = Dialog(id, row), !.opened = @ + 1]
  /\ UNCHANGED <<section, rows, writes>>

setTarget ==
  \/ \E i \in DOMAIN part.view : open(i, part.view[i])
  \/ section = "colors" /\ open(None, Row("group", None, Cardinality(GroupRows(part.view))))
  \/ section = "colors" /\ open(None, Row("member", None, 0))
  \/ section = "options" /\ open(None, Row("group", None, 0))
  \/ section = "options" /\ \E g \in GroupRows(part.view) :
       open(None, Row("member", g, Cardinality(In(part.view, g))))

(* The colour form's part and its "on sale" switch.                          *)
ColorForm ==
  /\ section = "colors" /\ part.dialog # None /\ part.dialog.row.kind = "member"
  /\ \/ \E g \in GroupRows(part.view) \cup {None} : g # part.dialog.row.of /\ part' = [part EXCEPT !.dialog.row.of = g]
     \/ part.dialog.row.on /\ part' = [part EXCEPT !.dialog.row.on = FALSE]
  /\ UNCHANGED <<section, rows, writes>>

Call(op, id, row) == [n |-> IF part.dialog = None THEN 0 ELSE part.dialog.n, op |-> op, id |-> id, row |-> row,
                      step |-> "sent"]
(* The dialog's submit waits for an answer; Escape closes it regardless.      *)
onSubmit ==
  /\ part.dialog # None /\ ~part.dialog.pending /\ part.asked < MaxWrites
  /\ writes' = writes \cup {Call(IF part.dialog.id = None THEN "create" ELSE "update", part.dialog.id, part.dialog.row)}
  /\ part' = [part EXCEPT !.dialog.pending = TRUE, !.dialog.error = None, !.asked = @ + 1]
  /\ UNCHANGED <<section, rows>>

onClose ==
  /\ part.dialog # None
  /\ part' = [part EXCEPT !.dialog = None]
  /\ UNCHANGED <<section, rows, writes>>

(* Two taps on delete, one on "make default"; they share one transition and   *)
(* need no dialog to be closed but the dialog is modal.                      *)
runAction(op, id) ==
  /\ part.dialog = None /\ ~part.deleting /\ part.asked < MaxWrites
  /\ writes' = writes \cup {Call(op, id, part.view[id])}
  /\ part' = [part EXCEPT !.deleting = TRUE, !.error = None, !.asked = @ + 1]
  /\ UNCHANGED <<section, rows>>
runDelete == \E i \in DOMAIN part.view : runAction("delete", i)
runSetDefault ==
  section = "colors" /\ \E i \in Members(part.view) : part.view[i].on /\ ~part.view[i].dflt /\ runAction("default", i)

(***************************************************************************)
(* The server.                                                             *)
(***************************************************************************)
Known(k) == k.id \in DOMAIN rows
GroupExists(k) == k.row.kind = "group" \/ k.row.of \in GroupRows(rows) \cup (IF section = "colors" THEN {None} ELSE {})
Cascade(id) == {id} \cup {i \in Members(rows) : rows[i].of = id}
SetDefaultColor(table, id) ==
  [i \in DOMAIN table |->
     IF i \notin Members(table) \/ table[i].of # table[id].of THEN table[i]
     ELSE [table[i] EXCEPT !.dflt = (i = id)]]

Outcome(k) ==
  CASE k.op = "create" -> IF GroupExists(k) THEN "done" ELSE "refused"
    [] k.op = "update" -> IF Known(k) /\ GroupExists(k) THEN "done" ELSE "refused"
    [] k.op = "delete" -> IF ~Known(k) \/ Cascade(k.id) \cap Pinned # {} THEN "refused" ELSE "done"
    [] OTHER -> IF Known(k) THEN "done" ELSE "refused"

Written(k) ==
  CASE k.op = "create" -> Put(rows, part.next, k.row)
    [] k.op = "update" -> Put(rows, k.id, [k.row EXCEPT !.dflt = rows[k.id].dflt])
    [] k.op = "delete" -> Only(rows, DOMAIN rows \ Cascade(k.id))
    [] OTHER -> SetDefaultColor(rows, k.id)

Noted(k) ==
  [part EXCEPT
     !.next = IF k.op = "create" THEN @ + 1 ELSE @,
     !.moved = @ \cup (IF k.op = "update" /\ rows[k.id].dflt /\ rows[k.id].of # k.row.of THEN {k.row.of} ELSE {}),
     !.uneven = @ \/ k.op = "delete"
                  \/ (k.op = "create" /\ k.row.kind = "member" /\ k.row.order # Cardinality(In(rows, k.row.of)))]

serve(k) ==
  /\ k.step = "sent" /\ k.op # "refresh"
  /\ IF Outcome(k) = "done" THEN rows' = Written(k) /\ part' = Noted(k) ELSE UNCHANGED <<rows, part>>
  /\ writes' = (writes \ {k}) \cup {[k EXCEPT !.step = Outcome(k)]}
  /\ UNCHANGED section

(* The same calls from another tab of the editor.                           *)
elsewhere ==
  /\ part.others < MaxElse
  /\ \E i \in DOMAIN rows :
       LET k == [n |-> 0, op |-> "delete", id |-> i, row |-> rows[i], step |-> "sent"] IN
       /\ Outcome(k) = "done"
       /\ rows' = Written(k) /\ part' = [Noted(k) EXCEPT !.others = @ + 1, !.behind = TRUE]
  /\ UNCHANGED <<section, writes>>

(***************************************************************************)
(* The answer.  A success refreshes the page and closes the dialog that is    *)
(* open then; a failure shows in the form it came from.                      *)
(***************************************************************************)
Refresh(set) == set \cup {[n |-> 0, op |-> "refresh", id |-> None, row |-> None, step |-> "sent"]}
Mine(k) == part.dialog # None /\ part.dialog.n = k.n

answered(k) ==
  /\ k.step = "done"
  /\ part' = IF k.op \in {"create", "update"} THEN [part EXCEPT !.dialog = None] ELSE [part EXCEPT !.deleting = FALSE]
  /\ writes' = Refresh(writes \ {k})
  /\ UNCHANGED <<section, rows>>

failed(k) ==
  /\ k.op # "refresh" /\ k.step \in {"sent", "refused", "done"}
  /\ part' = LET code == IF k.step = "refused" THEN "refused" ELSE "error"
                 now == [part EXCEPT !.behind = @ \/ k.step = "done"] IN
       IF k.op \in {"delete", "default"} THEN [now EXCEPT !.deleting = FALSE, !.error = code]
       ELSE IF Mine(k) THEN [now EXCEPT !.dialog.pending = FALSE, !.dialog.error = code]
       ELSE now
  /\ writes' = writes \ {k}
  /\ UNCHANGED <<section, rows>>

refreshed(k) ==
  /\ k.op = "refresh"
  /\ part' = [part EXCEPT !.view = rows, !.behind = FALSE]
  /\ writes' = writes \ {k}
  /\ UNCHANGED <<section, rows>>

PartsNext ==
  \/ setTarget \/ ColorForm \/ onSubmit \/ onClose \/ runDelete \/ runSetDefault \/ elsewhere
  \/ \E k \in writes : serve(k) \/ answered(k) \/ failed(k) \/ refreshed(k)

PartsSpec == PartsInit /\ [][PartsNext]_partsVars

-----------------------------------------------------------------------------
PartsTypeOK ==
  /\ DOMAIN rows \subseteq Ids
  /\ \A i \in DOMAIN rows :
       /\ rows[i].kind \in {"group", "member"}
       /\ rows[i].dflt => section = "colors" /\ rows[i].kind = "member"
  /\ part.next \in Ids \cup {Cardinality(Ids) + 1}
  /\ \A k \in writes : k.op \in {"create", "update", "delete", "default", "refresh"}

(* The colour a product opens on is one: the editor's preview, the frozen      *)
(* sprite and the storefront pick the same colour of every part, and of a     *)
(* product without parts, whatever was set, moved, withdrawn or deleted.     *)
SurfacesAgree ==
  section = "colors" =>
    \A scope \in GroupRows(rows) \cup (IF GroupRows(rows) = {} THEN {None} ELSE {}) :
      /\ defaultModelColors(rows, scope) = defaultScopeColor(rows, scope)
      /\ defaultModelColors(rows, scope) = shopDefault(rows, scope)

(* One owner's default per scope, unless an edit moved a default colour into    *)
(* a scope that had its own; every colour is listed under one heading.        *)
OneDefault ==
  /\ \A scope \in (GroupRows(rows) \cup {None}) \ part.moved :
       Cardinality({i \in In(rows, scope) : rows[i].dflt}) <= 1
  /\ \A i \in Members(rows) : Cardinality({g \in DOMAIN groupColorsByPart(rows) : i \in groupColorsByPart(rows)[g]}) = 1

(* When nothing is under way the list on the screen is the server's, unless    *)
(* another tab or a lost answer changed it and nothing was refreshed since.   *)
ListFollows == writes = {} /\ ~part.behind => part.view = rows

(* Until something is deleted, or two dialogs counted the same choices, the    *)
(* editor and the shop show an option's choices in the same order.           *)
OneOrder ==
  section = "options" /\ ~part.uneven =>
    \A g \in GroupRows(rows) : sortChoices(rows, g) = ListChoicesByProduct(rows, g)

PartsSound == SurfacesAgree /\ OneDefault /\ ListFollows /\ OneOrder
=============================================================================
