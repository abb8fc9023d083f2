----------------------------- MODULE AdminLists -----------------------------
(***************************************************************************)
(* Four list screens of the admin and what their writes do: the category   *)
(* menu (drag to reorder, inline visibility, edit panel), reply templates  *)
(* and site domains (rows with a two-step delete, one dialog), and review  *)
(* moderation (tabs, reply composer).                                      *)
(*                                                                         *)
(* The browser runs its server actions and refreshes in the order they     *)
(* were asked for: acts is that queue.  A row is its id, its content (text: *)
(* name and picture, template, target, or reply), whether it is on (visible *)
(* or published) and whether it is used (by products), or has photos.      *)
(***************************************************************************)
EXTENDS Naturals, Sequences, FiniteSets, TLC

CONSTANTS
  Pages,     \* screens opened
  Start,     \* [Pages -> rows on the server when the screen opens]
  Names,     \* ids a created or renamed row may get
  MaxActs,   \* bound: server actions sent
  None

LOCAL S == INSTANCE SequencesExt

VARIABLES
  rows,   \* server: the rows, in stored order
  list,   \* the screen
  acts    \* queue of server actions and refreshes, oldest first

listsVars == <<rows, list, acts>>

Row(id, text) == [id |-> id, text |-> text, on |-> TRUE, used |-> FALSE]
Ids(s) == [i \in DOMAIN s |-> s[i].id]
At(s, id) == CHOOSE i \in DOMAIN s : s[i].id = id
Has(s, id) == id \in S!Range(Ids(s))

ListsInit ==
  /\ \E page \in Pages : rows = Start[page] /\ list =
       [page |-> page, items |-> rows, tab |-> "pending", panel |-> None, busy |-> {},
        confirming |-> None, sent |-> 0, overtaken |-> FALSE, lost |-> FALSE, deleted |-> {}]
  /\ acts = <<>>

Post(act) ==
  /\ list.sent < MaxActs
  /\ acts' = Append(acts, act @@ [answer |-> None])

(***************************************************************************)
(* Categories: the menu list.                                              *)
(***************************************************************************)
arrayMove(s, from, to) == S!InsertAt(S!RemoveAt(s, from), to, s[from])

(* The drag shows at once; overtaken notes that a refresh asked for earlier   *)
(* has yet to arrive and will show the order from before the drag.          *)
DragRow(from, to) ==
  /\ list.page = "categories" /\ from # to /\ {from, to} \subseteq DOMAIN list.items
  /\ LET next == arrayMove(list.items, from, to) IN
       /\ Post([do |-> "reorder", ids |-> Ids(next)])
       /\ list' = [list EXCEPT !.items = next, !.sent = @ + 1,
            !.overtaken = @ \/ \E i \in DOMAIN acts : acts[i].do # "reorder"]
  /\ UNCHANGED rows

(* toggleVisible re-sends the whole row as it was rendered. *)
ToggleVisible(id) ==
  /\ list.page = "categories" /\ Has(list.items, id) /\ id \notin list.busy
  /\ LET row == list.items[At(list.items, id)] IN
       Post([do |-> "update", id |-> id, from |-> "row", text |-> row.text, on |-> ~row.on, as |-> id])
  /\ list' = [list EXCEPT !.busy = @ \cup {id}, !.sent = @ + 1]
  /\ UNCHANGED rows

(***************************************************************************)
(* Panel and dialog.  The panel keeps what it was opened with; a template   *)
(* or domain dialog is modal and holds the row it was opened on.            *)
(***************************************************************************)
OpenPanel(id) ==
  /\ list.page # "reviews"
  /\ list.page # "categories" => list.panel = None
  /\ id = None \/ Has(list.items, id)
  /\ list.panel # None => list.panel.id # id
  /\ list' = [list EXCEPT !.confirming = IF list.page = "categories" THEN None ELSE @,
       !.panel = [id |-> id, text |-> IF id = None THEN "" ELSE list.items[At(list.items, id)].text,
                  on |-> id = None \/ list.items[At(list.items, id)].on,
                  pending |-> FALSE, uploading |-> FALSE, error |-> FALSE]]
  /\ UNCHANGED <<rows, acts>>

EditPanel ==
  /\ list.panel # None /\ list.panel.text # "new" /\ ~list.panel.uploading
  /\ list' = [list EXCEPT !.panel.text = "new"]
  /\ UNCHANGED <<rows, acts>>

(* onPickImage: while the picture goes up nothing can be saved. *)
PickImage ==
  /\ list.page = "categories" /\ list.panel # None /\ list.panel.id # None /\ ~list.panel.uploading
  /\ list' = [list EXCEPT !.panel.uploading = TRUE]
  /\ UNCHANGED <<rows, acts>>

ImageUploaded ==
  /\ list.panel # None /\ list.panel.uploading
  /\ \E text \in {list.panel.text, "new"} :
       list' = [list EXCEPT !.panel.uploading = FALSE, !.panel.text = text]
  /\ UNCHANGED <<rows, acts>>

CanSubmit == ~list.panel.pending /\ ~list.panel.uploading /\ list.panel.text # ""

(* A created row, and a renamed domain, take a name; the rest keep theirs.   *)
SubmitPanel(as) ==
  /\ list.panel # None /\ CanSubmit
  /\ list.panel.id = None \/ as = list.panel.id \/ list.page = "domains"
  /\ Post([do |-> IF list.panel.id = None THEN "create" ELSE "update", from |-> "panel",
           id |-> list.panel.id, text |-> list.panel.text, on |-> list.panel.on, as |-> as])
  /\ list' = [list EXCEPT !.panel.pending = TRUE, !.panel.error = FALSE, !.sent = @ + 1]
  /\ UNCHANGED rows

(* A template dialog also closes on Escape, saving or not. *)
CancelPanel ==
  /\ list.panel # None /\ ~list.panel.uploading
  /\ list.panel.pending => list.page = "templates"
  /\ list.page # "categories" \/ list.panel.id = None
  /\ list' = [list EXCEPT !.panel = None]
  /\ UNCHANGED <<rows, acts>>

(***************************************************************************)
(* Deleting takes a second press.  A category is deleted from its panel,    *)
(* and not while products are in it.                                       *)
(***************************************************************************)
AskDelete(id) ==
  /\ list.page # "reviews" /\ Has(list.items, id) /\ list.confirming # id /\ id \notin list.busy
  /\ list.page = "categories" =>
       /\ list.panel # None /\ list.panel.id = id
       /\ ~list.items[At(list.items, id)].used
  /\ list' = [list EXCEPT !.confirming = id]
  /\ UNCHANGED <<rows, acts>>

KeepRow ==
  /\ list.confirming # None /\ list.confirming \notin list.busy
  /\ list' = [list EXCEPT !.confirming = None]
  /\ UNCHANGED <<rows, acts>>

ConfirmDelete ==
  /\ list.confirming # None /\ list.confirming \notin list.busy
  /\ list.page = "categories" => ~list.panel.pending /\ ~list.panel.uploading
  /\ Post([do |-> "delete", id |-> list.confirming])
  /\ list' = [list EXCEPT !.busy = @ \cup {list.confirming}, !.sent = @ + 1,
                          !.deleted = @ \cup {list.confirming}]
  /\ UNCHANGED rows

(***************************************************************************)
(* Reviews.                                                                *)
(***************************************************************************)
REVIEW_TABS == <<"pending", "replied", "hasImage", "hidden">>

matchesReviewTab(r, tab) ==
  CASE tab = "hidden" -> ~r.on
    [] tab = "pending" -> r.on /\ r.text = None
    [] tab = "replied" -> r.on /\ r.text # None
    [] tab = "hasImage" -> r.on /\ r.used

ShowReviewTab(tab) ==
  /\ list.page = "reviews" /\ list.tab # tab
  /\ list' = [list EXCEPT !.tab = tab]
  /\ UNCHANGED <<rows, acts>>

(* The composer is there for a published review without a reply; its reply    *)
(* also publishes.  Hide and show send the status alone (text = None).       *)
Moderate(id, reply) ==
  /\ list.page = "reviews" /\ Has(list.items, id) /\ id \notin list.busy
  /\ LET r == list.items[At(list.items, id)] IN
       /\ matchesReviewTab(r, list.tab)
       /\ reply # None => r.on /\ r.text = None
       /\ Post([do |-> "moderate", id |-> id, text |-> reply, on |-> reply # None \/ ~r.on])
  /\ list' = [list EXCEPT !.busy = @ \cup {id}, !.sent = @ + 1]
  /\ UNCHANGED rows

(***************************************************************************)
(* The server.                                                             *)
(***************************************************************************)
Reordered(ids) ==
  LET rank(row) == IF row.id \in S!Range(ids) THEN CHOOSE i \in DOMAIN ids : ids[i] = row.id ELSE 0
  IN SortSeq(rows, LAMBDA a, b : rank(a) < rank(b))

Answer(act, res) == [act EXCEPT !.answer = res]

HandleAct ==
  /\ acts # <<>> /\ Head(acts).do # "refresh" /\ Head(acts).answer = None
  /\ LET a == Head(acts)
         Done(next, res) == rows' = next /\ acts' = [acts EXCEPT ![1] = Answer(a, res)]
     IN CASE a.do = "reorder" -> Done(Reordered(a.ids), "ok")
          [] a.do = "create" -> IF Has(rows, a.as) THEN Done(rows, "conflict")
                                ELSE Done(Append(rows, Row(a.as, a.text)), "ok")
          [] a.do = "delete" -> IF ~Has(rows, a.id) THEN Done(rows, "notFound")
                                ELSE IF rows[At(rows, a.id)].used THEN Done(rows, "inUse")
                                ELSE Done(S!RemoveAt(rows, At(rows, a.id)), "ok")
          [] a.do = "moderate" ->
               Done([rows EXCEPT ![At(rows, a.id)] =
                       [@ EXCEPT !.on = a.on, !.text = IF a.text = None THEN @ ELSE a.text]], "ok")
          [] a.do = "update" ->
               IF ~Has(rows, a.id) THEN Done(rows, "notFound")
               ELSE IF a.as = a.id
               THEN Done([rows EXCEPT ![At(rows, a.id)] = [@ EXCEPT !.text = a.text, !.on = a.on]], "ok")
               ELSE IF Has(rows, a.as) THEN Done(rows, "conflict")
               ELSE Done(Append(rows, Row(a.as, a.text)), "created")
  /\ UNCHANGED list

(* UpdateIngress renames by creating the new name first and then deleting the *)
(* old one, which may fail.                                                *)
DeleteOldName ==
  /\ acts # <<>> /\ Head(acts).do # "refresh" /\ Head(acts).answer = "created"
  /\ \E ok \in BOOLEAN :
       /\ rows' = IF ok THEN S!RemoveAt(rows, At(rows, Head(acts).id)) ELSE rows
       /\ acts' = [acts EXCEPT ![1] = Answer(@, IF ok THEN "ok" ELSE "half")]
  /\ UNCHANGED list

(***************************************************************************)
(* Answers, in order; an answer may be lost after the server acted.          *)
(***************************************************************************)
Refresh == [do |-> "refresh"]

PanelAfter(a, res) ==
  LET mine == list.panel # None /\ list.panel.id = a.id IN
  IF res = "ok" /\ list.page = "categories"
  THEN IF list.panel # None /\ list.panel.id = None THEN None
       ELSE IF mine THEN [list.panel EXCEPT !.pending = FALSE] ELSE list.panel
  ELSE IF res = "ok" THEN None
  ELSE IF mine THEN [list.panel EXCEPT !.pending = FALSE, !.error = TRUE] ELSE list.panel

ActAnswered ==
  /\ acts # <<>> /\ Head(acts).do # "refresh" /\ Head(acts).answer \notin {None, "created"}
  /\ \E res \in {Head(acts).answer, "error"} \ {"half"} :
       LET a == Head(acts)
           ofPanel == a.do = "create" \/ (a.do = "update" /\ a.from = "panel")
           refreshes == IF a.do = "reorder" THEN res # "ok" ELSE res = "ok"
       IN /\ acts' = IF refreshes THEN Append(Tail(acts), Refresh) ELSE Tail(acts)
          /\ list' = [list EXCEPT
               !.panel = IF ofPanel THEN PanelAfter(a, res) ELSE @,
               !.busy = IF ofPanel \/ a.do = "reorder" THEN @ ELSE @ \ {a.id},
               !.confirming = IF a.do = "delete" THEN None ELSE @,
               !.lost = @ \/ (a.do # "reorder" /\ res # a.answer)]
  /\ UNCHANGED rows

(* New props: the list is reset to them; a panel and a half-made delete go      *)
(* with their row.                                                         *)
RefreshArrives ==
  /\ acts # <<>> /\ Head(acts).do = "refresh"
  /\ acts' = Tail(acts)
  /\ list' = [list EXCEPT !.items = rows,
       !.confirming = IF @ # None /\ ~Has(rows, @) THEN None ELSE @,
       !.panel = IF @ # None /\ list.page = "categories" /\ @.id # None /\ ~Has(rows, @.id)
                 THEN None ELSE @]
  /\ UNCHANGED rows

ListsNext ==
  \/ \E i, j \in DOMAIN list.items : DragRow(i, j)
  \/ \E id \in Names : ToggleVisible(id) \/ AskDelete(id) \/ SubmitPanel(id)
                       \/ OpenPanel(id) \/ (\E reply \in {None, "thanks"} : Moderate(id, reply))
  \/ OpenPanel(None) \/ EditPanel \/ PickImage \/ ImageUploaded \/ CancelPanel
  \/ KeepRow \/ ConfirmDelete
  \/ \E i \in DOMAIN REVIEW_TABS : ShowReviewTab(REVIEW_TABS[i])
  \/ HandleAct \/ DeleteOldName \/ ActAnswered \/ RefreshArrives

ListsSpec == ListsInit /\ [][ListsNext]_listsVars

-----------------------------------------------------------------------------
ListsTypeOK ==
  /\ list.page \in {"categories", "templates", "domains", "reviews"}
  /\ list.sent \in 0 .. MaxActs
  /\ list.confirming # None => Has(list.items, list.confirming)

(* Once the queue is empty the screen shows the stored rows in the stored      *)
(* order, whichever drags, switches and saves were made and refused meanwhile, *)
(* unless an answer was lost, a rename stopped half-way, or a drag overtook a  *)
(* refresh.                                                                *)
SettledListIsStored ==
  acts = <<>> /\ ~list.lost /\ ~list.overtaken => list.items = rows

(* A row goes only when its delete was confirmed, or under a new name: no      *)
(* failure between the two steps of a rename leaves a site without either.    *)
NothingGoesUnasked ==
  LET first == Start[list.page] IN
  \A i \in DOMAIN first :
    \/ Has(rows, first[i].id) \/ first[i].id \in list.deleted
    \/ list.page = "domains" /\ Len(rows) + Cardinality(list.deleted) >= Len(first)

ListsSound == SettledListIsStored /\ NothingGoesUnasked
=============================================================================
