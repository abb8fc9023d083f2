----------------------------- MODULE OrderDesk -----------------------------
(***************************************************************************)
(* The admin's order list and order page (orders-table.tsx,                 *)
(* order-detail-view.tsx, transition-dialog.tsx): the moves the screen       *)
(* offers, the papers its dialog collects and uploads, the request it sends, *)
(* and what it shows of the order's trail.  The server is the state machine   *)
(* of OrderStatus; somebody else may move the order at any moment.           *)
(***************************************************************************)
EXTENDS OrderStatus, FiniteSets

CONSTANTS
  Sessions,   \* roles of the people who use the screen
  MaxTries,   \* bound: attempts made on the screen
  MaxOther,   \* bound: moves made elsewhere
  None

VARIABLES
  order,   \* the row: channel, trail of statuses, papers it holds
  page,    \* the screen: the order as last read, messages, the dialog
  asked,   \* requests under way
  proof    \* the payment proof's viewer

orderVars == <<order, page, asked, proof>>

(***************************************************************************)
(* order-detail.ts: what the screen derives.                                *)
(***************************************************************************)
ORDER_MILESTONES == <<"PENDING_CONFIRM", "PAID", "PRINTING", "SHIPPING", "COMPLETED">>
StatusOf(trail) == trail[Len(trail)]
reachedMilestoneIndex(trail) ==
  LET reached == {i \in DOMAIN ORDER_MILESTONES : \E e \in DOMAIN trail : trail[e] = ORDER_MILESTONES[i]}
  IN IF reached = {} THEN 0 ELSE CHOOSE i \in reached : \A j \in reached : j <= i

progressSteps(trail) ==
  LET reached == reachedMilestoneIndex(trail) IN
  [i \in DOMAIN ORDER_MILESTONES |->
     IF i < reached THEN "done"
     ELSE IF i > reached THEN "todo"
     ELSE IF StatusOf(trail) = ORDER_MILESTONES[i] /\ ORDER_MILESTONES[i] # "COMPLETED" THEN "current"
     ELSE "done"]

transitionKind(to) ==
  CASE to = "PAID" -> "confirm"
    [] to = "SHIPPING" -> "ship"
    [] to = "CANCELLED" -> "cancel"
    [] to = "REFUNDED" -> "refund"
    [] OTHER -> "advance"

(* The screen asks as the owner, whoever is signed in.                       *)
ROLE == "owner"
availableTransitions(from, role) == {to \in Statuses : CanTransition(from, to, role)}

needs(kind) ==
  CASE kind = "ship" -> {"trackingCode", "qcPhoto"}
    [] kind = "cancel" -> {"reason"}
    [] kind = "refund" -> {"reason", "refundProof"}
    [] OTHER -> {}
FileOf(kind) == needs(kind) \cap {"qcPhoto", "refundProof"}

(***************************************************************************)
(* orders.ts, page.tsx: the list in pages.                                  *)
(***************************************************************************)
pageCount(total, pageSize) == IF total = 0 THEN 1 ELSE (total + pageSize - 1) \div pageSize
buildOrdersHref(page_) == IF page_ > 1 THEN page_ ELSE None
parsePage(raw) == IF raw = None \/ raw < 1 THEN 1 ELSE raw
OrdersPage(total, pageSize, page_) == {n \in 1 .. total : (n - 1) \div pageSize = page_ - 1}
PagerNext(total, pageSize, page_) ==
  IF page_ < pageCount(total, pageSize) THEN {buildOrdersHref(page_ + 1)} ELSE {}

DeskInit ==
  /\ \E c \in Channels : order = [channel |-> c, trail |-> <<InitialStatusForChannel(c)>>]
  /\ \E s \in Sessions : page =
            [session |-> s, trail |-> order.trail, pending |-> FALSE, error |-> None, dialog |-> None,
             tries |-> 0, other |-> 0, unfair |-> FALSE, incomplete |-> FALSE]
  /\ asked = {}
  /\ proof = [state |-> "loading", attempt |-> 0]

(***************************************************************************)
(* Moves of one touch.                                                     *)
(***************************************************************************)
Request(id, to, papers) == [id |-> id, to |-> to, papers |-> papers, read |-> page.trail, step |-> "sent"]

onAction(to) ==
  /\ to \in availableTransitions(StatusOf(page.trail), ROLE)
  /\ page.dialog = None /\ ~page.pending /\ page.tries < MaxTries
  /\ IF transitionKind(to) \in {"confirm", "advance"}
     THEN /\ page' = [page EXCEPT !.pending = TRUE, !.error = None, !.tries = @ + 1]
          /\ asked' = asked \cup {Request(0, to, {})}
     ELSE /\ page' = [page EXCEPT !.tries = @ + 1,
                        !.dialog = [id |-> page.tries + 1, to |-> to, has |-> {}, submitting |-> FALSE,
                                    error |-> None]]
          /\ UNCHANGED asked
  /\ UNCHANGED <<order, proof>>

(***************************************************************************)
(* The dialog.  Its fields are collected one by one; Escape closes it even    *)
(* while it submits.                                                        *)
(***************************************************************************)
KindOf(d) == transitionKind(d.to)
canSubmit(d) == ~d.submitting /\ needs(KindOf(d)) \subseteq d.has

fill(field) ==
  /\ page.dialog # None /\ field \in needs(KindOf(page.dialog)) \ page.dialog.has
  /\ page' = [page EXCEPT !.dialog.has = @ \cup {field}]
  /\ UNCHANGED <<order, asked, proof>>

closeDialog ==
  /\ page.dialog # None
  /\ page' = [page EXCEPT !.dialog = None]
  /\ UNCHANGED <<order, asked, proof>>

submit ==
  /\ page.dialog # None /\ canSubmit(page.dialog)
  /\ page' = [page EXCEPT !.dialog.submitting = TRUE, !.dialog.error = None]
  /\ asked' = asked \cup {[Request(page.dialog.id, page.dialog.to, page.dialog.has) EXCEPT
                             !.step = IF FileOf(KindOf(page.dialog)) = {} THEN "sent" ELSE "uploading"]}
  /\ UNCHANGED <<order, proof>>

uploadProofFile(k) ==
  /\ k.step = "uploading"
  /\ asked' = (asked \ {k}) \cup {[k EXCEPT !.step = "sent"]}
  /\ UNCHANGED <<order, page, proof>>

IsOpen(k) == page.dialog # None /\ page.dialog.id = k.id
WithError(k, code) ==
  IF k.id = 0 THEN [page EXCEPT !.pending = FALSE, !.error = code]
  ELSE IF IsOpen(k) THEN [page EXCEPT !.dialog.submitting = FALSE, !.dialog.error = code]
  ELSE page

(* A wrong type, too many bytes, or the store refuses: nothing is moved.     *)
uploadFailed(k) ==
  /\ k.step = "uploading"
  /\ page' = WithError(k, "upload")
  /\ asked' = asked \ {k}
  /\ UNCHANGED <<order, proof>>

(***************************************************************************)
(* The server, and the answer.                                              *)
(***************************************************************************)
BoundaryAccepts(k) ==
  /\ k.to = "SHIPPING" => {"trackingCode", "qcPhoto"} \subseteq k.papers
  /\ k.to = "PAID" => page.session = "owner"
  /\ PaperworkFor(k.to) \subseteq k.papers

transitionOrder(k) ==
  /\ k.step = "sent"
  /\ LET ok == BoundaryAccepts(k) /\ CanTransition(StatusOf(order.trail), k.to, page.session) IN
     /\ order' = IF ok THEN [order EXCEPT !.trail = Append(@, k.to)] ELSE order
     /\ asked' = (asked \ {k}) \cup {[k EXCEPT !.step = IF ok THEN "done" ELSE "refused"]}
     /\ page' = [page EXCEPT !.unfair = @ \/ (~ok /\ k.read = order.trail /\ page.session = "owner"),
                             !.incomplete = @ \/ ~(PaperworkFor(k.to) \subseteq k.papers)]
  /\ UNCHANGED proof

(* onDone closes the dialog that is open, and the page is read again.        *)
answered(k) ==
  /\ k.step = "done"
  /\ page' = [page EXCEPT !.pending = FALSE, !.trail = order.trail,
                          !.dialog = IF k.id = 0 THEN @ ELSE None]
  /\ asked' = asked \ {k}
  /\ UNCHANGED <<order, proof>>

refused(k) ==
  /\ k.step \in {"refused", "sent", "done"}
  /\ page' = WithError(k, IF k.step = "refused" THEN "conflict" ELSE "error")
  /\ asked' = asked \ {k}
  /\ UNCHANGED <<order, proof>>

(* Another member of staff, or the board's auto-advance, moves the order.    *)
movedElsewhere(to) ==
  /\ page.other < MaxOther /\ CanTransition(StatusOf(order.trail), to, "owner")
  /\ order' = [order EXCEPT !.trail = Append(@, to)]
  /\ page' = [page EXCEPT !.other = @ + 1]
  /\ UNCHANGED <<asked, proof>>

(***************************************************************************)
(* The proof's viewer: a signed address, fetched on mount and on retry.       *)
(***************************************************************************)
proofImageUrl(ok) ==
  /\ proof.state = "loading"
  /\ proof' = [proof EXCEPT !.state = IF ok THEN "done" ELSE "error"]
  /\ UNCHANGED <<order, page, asked>>

retryProof ==
  /\ proof.state = "error" /\ proof.attempt < 1
  /\ proof' = [state |-> "loading", attempt |-> proof.attempt + 1]
  /\ UNCHANGED <<order, page, asked>>

OrderDeskNext ==
  \/ \E to \in Statuses : onAction(to) \/ movedElsewhere(to)
  \/ \E field \in Documents : fill(field)
  \/ closeDialog \/ submit \/ retryProof
  \/ \E k \in asked : uploadProofFile(k) \/ uploadFailed(k) \/ transitionOrder(k) \/ answered(k) \/ refused(k)
  \/ \E ok \in BOOLEAN : proofImageUrl(ok)

OrderDeskSpec == DeskInit /\ [][OrderDeskNext]_orderVars

-----------------------------------------------------------------------------
OrderDeskTypeOK ==
  /\ \A i \in DOMAIN order.trail : order.trail[i] \in Statuses
  /\ page.trail = SubSeq(order.trail, 1, Len(page.trail))
  /\ page.dialog # None => page.dialog.has \subseteq needs(KindOf(page.dialog))
  /\ \A k \in asked : k.to \in Statuses /\ k.papers \subseteq Documents

(* The owner's screen never offers a move, and its dialog never lets through   *)
(* a form, that the server then refuses, unless the order has moved on since   *)
(* the screen read it.                                                      *)
OfferedMeansAccepted == ~page.unfair

(* Whoever is signed in, no request leaves without the papers its move needs.  *)
FormsAreComplete == ~page.incomplete

(* On every trail an order can have, the progress track shows as done only     *)
(* what the order went through (an inbox order starts paid), shows one current *)
(* step exactly while the order is on its way, and never a later step done     *)
(* before an earlier one.                                                   *)
StepsTellTheTruth ==
  LET steps == progressSteps(order.trail)
      was(i) == \E e \in DOMAIN order.trail : order.trail[e] = ORDER_MILESTONES[i]
  IN /\ \A i \in DOMAIN steps : steps[i] # "todo" => was(i) \/ (i = 1 /\ order.channel = "inbox")
     /\ \A i \in DOMAIN steps : was(i) => steps[i] # "todo"
     /\ (\E i \in DOMAIN steps : steps[i] = "current") <=> StatusOf(order.trail) \notin TerminalStatuses

(* Following "next" from the first page visits every order once and ends.     *)
PagerVisitsAll ==
  \A total \in 0 .. 5, size \in 1 .. 2 :
    LET pages == 1 .. pageCount(total, size) IN
      /\ UNION {OrdersPage(total, size, parsePage(buildOrdersHref(p))) : p \in pages} = 1 .. total
      /\ \A p \in pages : PagerNext(total, size, p) = {} <=> p = pageCount(total, size)
      /\ \A p \in pages : OrdersPage(total, size, p) = {} => total = 0

OrderDeskSound == OfferedMeansAccepted /\ FormsAreComplete /\ StepsTellTheTruth /\ PagerVisitsAll
=============================================================================
