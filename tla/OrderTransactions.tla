------------------------- MODULE OrderTransactions -------------------------
(***************************************************************************)
(* The order write path of core-api: concurrent HTTP requests (POST        *)
(* /orders, POST /orders/{id}/transitions), each running one READ          *)
(* COMMITTED Postgres transaction (withTx) statement by statement.         *)
(*                                                                         *)
(* A request is idle, or it passed the handler's boundary checks and is at *)
(* pc "begun" (tx open), "locked" (SELECT .. FOR UPDATE returned),         *)
(* "written" (orders row written), "boarded" (print jobs inserted) or      *)
(* "ready" (everything written, COMMIT next). Its writes stay private:     *)
(*   row      the orders row as this transaction sees or wrote it          *)
(*   boarded  fillings of the print board it inserted                      *)
(*   told     outbox rows it inserted                                      *)
(* A failed statement, a disconnect, the request timeout or a crash of     *)
(* core-api is Abort: the private writes vanish and the row lock with them.*)
(***************************************************************************)
EXTENDS OrderStatus

CONSTANTS Orders,      \* order ids (uuid.New, never reused)
          Requests,    \* request slots: concurrently served HTTP requests
          Users        \* roles of the logged-in users (enum user_role)

\* user_role has no 'system' member, so a session can never yield it.
ASSUME UsersAssumption == Users \subseteq { "owner", "staff" }

VARIABLES rows,        \* committed orders rows
          boarded,     \* committed CreatePrintJobsForOrder runs, per order
          told,        \* committed outbox rows, per order in seq order
          tx           \* what each request slot is doing

vars == <<rows, boarded, told, tx>>

EventTypes == { "order.created", "order.paid" }

Row == [ status : Statuses \cup { Unborn }, history : Seq(Event),
         confirmed : BOOLEAN,      \* payment_confirmed_at is set
         refundProof : BOOLEAN,    \* refund_proof_url is set
         artifacts : BOOLEAN ]     \* tracking_code and qc_photo_url are set

\* No row yet.
Absent == [ status |-> Unborn, history |-> <<>>, confirmed |-> FALSE,
            refundProof |-> FALSE, artifacts |-> FALSE ]

-----------------------------------------------------------------------------
(* Requests as they reach a handler.                                       *)

\* The documents some check of this request looks at.
Examined(kind, to) ==
    CASE kind = "web"     -> { "paymentProof" }
      [] kind = "inbox"   -> {}
      [] to = "SHIPPING"  -> { "trackingCode", "qcPhoto" }
      [] OTHER            -> PaperworkFor(to)

Calls ==
    { c \in [ kind : Channels \cup { "transition" }, order : Orders,
              to : Statuses, by : Users \cup { Guest }, papers : SUBSET Documents ] :
        /\ c.papers \subseteq Examined(c.kind, c.to)
        /\ c.kind \in Channels => c.to = InitialStatusForChannel(c.kind) }

\* What intakeFrom and TransitionOrder refuse before any transaction opens.
IntakeAccepts(c) ==
    /\ c.kind = "web"   => "paymentProof" \in c.papers
    /\ c.kind = "inbox" => c.by # Guest

\* Mutant: the reconcile gate relies on the role ConfirmPaymentTx fixes itself.
AnyoneReconciles(c) ==
    /\ c.by # Guest
    /\ c.to = "SHIPPING" => { "trackingCode", "qcPhoto" } \subseteq c.papers

TransitionBoundaryAccepts(c) ==
    /\ c.by # Guest
    /\ c.to = "SHIPPING" => { "trackingCode", "qcPhoto" } \subseteq c.papers
    /\ c.to = "PAID" => c.by = "owner"

PassesBoundary(c) ==
    IF c.kind = "transition" THEN TransitionBoundaryAccepts(c) ELSE IntakeAccepts(c)

Idle == [ pc |-> "idle" ]

BusyTx == [ pc : { "begun", "locked", "written", "boarded", "ready" },
            call : Calls, row : Row, boarded : Nat, told : Seq(EventTypes) ]

Busy(r)  == tx[r].pc # "idle"
Order(r) == tx[r].call.order

\* r holds the row lock of its order (or the row it inserted, invisible to others).
Holds(r) == tx[r].pc \in { "locked", "written", "boarded", "ready" }

Init ==
    /\ rows    = [o \in Orders |-> Absent]
    /\ boarded = [o \in Orders |-> 0]
    /\ told    = [o \in Orders |-> <<>>]
    /\ tx      = [r \in Requests |-> Idle]

\* An accepted request begins its transaction. A create mints a fresh id.
Receive(r) ==
    \E c \in Calls :
        /\ tx[r] = Idle
        /\ PassesBoundary(c)
        /\ c.kind \in Channels =>
              /\ rows[c.order] = Absent
              /\ \A q \in Requests : Busy(q) => Order(q) # c.order
        /\ tx' = [tx EXCEPT ![r] = [ pc |-> "begun", call |-> c, row |-> Absent,
                                     boarded |-> 0, told |-> <<>> ]]
        /\ UNCHANGED <<rows, boarded, told>>

-----------------------------------------------------------------------------
(* CreateOrderTx                                                           *)

CreatedRow(c) ==
    [ Absent EXCEPT !.status    = c.to,
                    !.history   = << GenesisEvent(c.to, c.by) >>,
                    !.confirmed = (c.to = "PAID") ]

InsertOrder(r) ==
    /\ tx[r].pc = "begun"
    /\ tx[r].call.kind \in Channels
    /\ tx' = [tx EXCEPT ![r].pc = "written", ![r].row = CreatedRow(tx[r].call)]
    /\ UNCHANGED <<rows, boarded, told>>

-----------------------------------------------------------------------------
(* AdvanceStatusTx, ConfirmPaymentTx, SetShippingArtifactsTx               *)

\* ConfirmPaymentTx fixes the role; every other seam passes the actor's own.
RoleOf(c) == IF c.to = "PAID" THEN "owner" ELSE c.by

\* Mutant: SELECT without FOR UPDATE.
LockNobody(r) ==
    /\ tx[r].pc = "begun"
    /\ tx[r].call.kind = "transition"
    /\ rows[Order(r)] # Absent
    /\ tx' = [tx EXCEPT ![r].pc = "locked", ![r].row = rows[Order(r)]]
    /\ UNCHANGED <<rows, boarded, told>>

\* GetOrderForUpdate: waits for the holder, then reads the committed row.
Lock(r) ==
    /\ tx[r].pc = "begun"
    /\ tx[r].call.kind = "transition"
    /\ \A q \in Requests : Holds(q) => Order(q) # Order(r)
    /\ rows[Order(r)] # Absent
    /\ tx' = [tx EXCEPT ![r].pc = "locked", ![r].row = rows[Order(r)]]
    /\ UNCHANGED <<rows, boarded, told>>

\* Mutant: payment_confirmed_at overwritten without COALESCE.
ConfirmedOverwritten(row, c) ==
    [ row EXCEPT !.status      = c.to,
                 !.history     = Append(@, TransitionEvent(row.status, c.to, c.by, c.papers)),
                 !.confirmed   = (c.to = "PAID"),
                 !.refundProof = @ \/ c.to = "REFUNDED" ]

AdvancedRow(row, c) ==
    [ row EXCEPT !.status      = c.to,
                 !.history     = Append(@, TransitionEvent(row.status, c.to, c.by, c.papers)),
                 !.confirmed   = @ \/ c.to = "PAID",
                 !.refundProof = @ \/ c.to = "REFUNDED" ]

\* Mutant: a PAID edge through AdvanceStatusTx alone, the seam its comment warns of.
AdvancePaidAlone(r) ==
    LET c == tx[r].call
    IN  /\ tx[r].pc = "locked"
        /\ Accepts(tx[r].row.status, c.to, RoleOf(c), c.papers)
        /\ tx' = [tx EXCEPT
                    ![r].pc  = IF c.to = "SHIPPING" THEN "written" ELSE "ready",
                    ![r].row = AdvancedRow(@, c)]
        /\ UNCHANGED <<rows, boarded, told>>

\* order.Transition on the row read, then UpdateOrderStatus.
AdvanceStatus(r) ==
    LET c == tx[r].call
    IN  /\ tx[r].pc = "locked"
        /\ Accepts(tx[r].row.status, c.to, RoleOf(c), c.papers)
        /\ tx' = [tx EXCEPT
                    ![r].pc  = IF c.to \in { "PAID", "SHIPPING" } THEN "written" ELSE "ready",
                    ![r].row = AdvancedRow(@, c)]
        /\ UNCHANGED <<rows, boarded, told>>

SetShippingArtifacts(r) ==
    /\ tx[r].pc = "written"
    /\ tx[r].call.to = "SHIPPING"
    /\ tx' = [tx EXCEPT ![r].pc = "ready", ![r].row.artifacts = TRUE]
    /\ UNCHANGED <<rows, boarded, told>>

-----------------------------------------------------------------------------
(* The side effects a PAID order and an announced order carry.             *)

\* Both seams that make an order PAID spawn its print cards.
CreatePrintJobs(r) ==
    /\ tx[r].pc = "written"
    /\ tx[r].call.to = "PAID"
    /\ tx' = [tx EXCEPT ![r].pc = "boarded", ![r].boarded = @ + 1]
    /\ UNCHANGED <<rows, boarded, told>>

\* Mutant: a subject that no stream captures.
AnnouncementMisnamed(c) == IF c.kind = "transition" THEN "order.confirmed" ELSE "order.created"

AnnouncementOf(c) == IF c.kind = "transition" THEN "order.paid" ELSE "order.created"

\* Mutant: every create announces straight away, a PAID one without its cards.
EnqueueBeforeBoard(r) ==
    LET c == tx[r].call
        e == AnnouncementOf(c)
    IN  /\ tx[r].pc = "boarded" \/ (tx[r].pc = "written" /\ c.kind \in Channels)
        /\ \A i \in 1 .. Len(told[c.order]) : told[c.order][i] # e
        /\ tx' = [tx EXCEPT ![r].pc = "ready", ![r].told = Append(@, e)]
        /\ UNCHANGED <<rows, boarded, told>>

\* The event enters the outbox on the same tx; UNIQUE(dedup_key) refuses a second.
EnqueueOutbox(r) ==
    LET c == tx[r].call
        e == AnnouncementOf(c)
    IN  /\ \/ tx[r].pc = "boarded"
           \/ tx[r].pc = "written" /\ c.kind = "web"
        /\ \A i \in 1 .. Len(told[c.order]) : told[c.order][i] # e
        /\ tx' = [tx EXCEPT ![r].pc = "ready", ![r].told = Append(@, e)]
        /\ UNCHANGED <<rows, boarded, told>>

-----------------------------------------------------------------------------
(* withTx                                                                  *)

Commit(r) ==
    LET o == Order(r)
    IN  /\ tx[r].pc = "ready"
        /\ rows'    = [rows EXCEPT ![o] = tx[r].row]
        /\ boarded' = [boarded EXCEPT ![o] = @ + tx[r].boarded]
        /\ told'    = [told EXCEPT ![o] = @ \o tx[r].told]
        /\ tx'      = [tx EXCEPT ![r] = Idle]

\* Mutant: a TransitionError returns without ending the transaction.
RejectLeavesOpen(r) ==
    /\ tx[r].pc = "begun"
    /\ tx[r].call.kind = "transition"
    /\ rows[Order(r)] = Absent
    /\ tx' = [tx EXCEPT ![r] = Idle]
    /\ UNCHANGED <<rows, boarded, told>>

\* ErrNotFound, or a TransitionError from order.Transition: roll back.
Reject(r) ==
    /\ \/ /\ tx[r].pc = "begun"
          /\ tx[r].call.kind = "transition"
          /\ rows[Order(r)] = Absent
       \/ /\ tx[r].pc = "locked"
          /\ LET c == tx[r].call
             IN  ~ Accepts(tx[r].row.status, c.to, RoleOf(c), c.papers)
    /\ tx' = [tx EXCEPT ![r] = Idle]
    /\ UNCHANGED <<rows, boarded, told>>

\* Mutant: the orders row is written on the pool, outside the transaction.
AbortKeepsRow(r) ==
    /\ Busy(r)
    /\ rows' = IF tx[r].pc \in { "written", "boarded", "ready" }
               THEN [rows EXCEPT ![Order(r)] = tx[r].row] ELSE rows
    /\ tx' = [tx EXCEPT ![r] = Idle]
    /\ UNCHANGED <<boarded, told>>

\* A fault at any statement: failed query, disconnect, timeout, crash.
Abort(r) ==
    /\ Busy(r)
    /\ tx' = [tx EXCEPT ![r] = Idle]
    /\ UNCHANGED <<rows, boarded, told>>

\* The statements of a transaction other than the one that may wait for a lock.
Proceed(r) ==
    \/ InsertOrder(r) \/ AdvanceStatus(r) \/ SetShippingArtifacts(r)
    \/ CreatePrintJobs(r) \/ EnqueueOutbox(r) \/ Commit(r) \/ Reject(r)

Next == \E r \in Requests : Receive(r) \/ Lock(r) \/ Proceed(r) \/ Abort(r)

\* A running transaction keeps executing; Postgres serves lock waiters in turn.
Fairness == \A r \in Requests : WF_vars(Proceed(r)) /\ SF_vars(Lock(r))

Spec     == Init /\ [][Next]_vars
FairSpec == Spec /\ Fairness

-----------------------------------------------------------------------------
(* Properties                                                              *)

\* Every variable has the shape its table or its transaction gives it.
TypeOK ==
    /\ rows    \in [Orders -> Row]
    /\ boarded \in [Orders -> Nat]
    /\ told    \in [Orders -> Seq(EventTypes)]
    /\ tx      \in [Requests -> { Idle } \cup BusyTx]

\* A row that exists has a trail that ReplayStatus accepts and that replays to
\* the status column, however requests interleave (no lost or torn update).
TrailReplays ==
    \A o \in Orders : rows[o] # Absent =>
        /\ Replays(rows[o].history)
        /\ rows[o].status = TrailStatus(rows[o].history)

\* The columns AdvanceStatusTx and SetShippingArtifactsTx denormalize never
\* diverge from the history: paid <=> payment_confirmed_at, refunded <=>
\* refund_proof_url, shipped <=> tracking code and QC photo.
ColumnsMatchTrail ==
    \A o \in Orders :
        LET row == rows[o]
        IN  /\ row.confirmed   <=> Visited(row.history, "PAID")
            /\ row.refundProof <=> Visited(row.history, "REFUNDED")
            /\ row.artifacts   <=> Visited(row.history, "SHIPPING")

\* An order's cards reach the print board exactly once, on whichever path made
\* it PAID, and never before.
BoardedOncePaid ==
    \A o \in Orders :
        boarded[o] = (IF Visited(rows[o].history, "PAID") THEN 1 ELSE 0)

\* Exactly one order.created per order, exactly one order.paid for a
\* reconciled web order (after its order.created), none for an inbox order.
Reconciled(h) == \E i \in 2 .. Len(h) : h[i].to = "PAID"

AnnouncedOnce ==
    \A o \in Orders :
        told[o] = IF rows[o] = Absent THEN <<>>
                  ELSE IF Reconciled(rows[o].history)
                  THEN << "order.created", "order.paid" >>
                  ELSE << "order.created" >>

\* Money moves in and out by the owner only (ADR-010): the recorded actor of
\* every owner-only edge is the owner, whichever layer enforces it.
MoneyMovedByOwner ==
    \A o \in Orders : \A i \in 2 .. Len(rows[o].history) :
        LET e == rows[o].history[i]
        IN  <<e.from, e.to>> \in OwnerOnlyEdges => e.by = "owner"

\* A transaction owns its order from FOR UPDATE (or from minting its id) on.
Creates(t) == t.call.kind \in Channels
Owns(t)    == t.pc # "idle" /\ (t.pc # "begun" \/ Creates(t))

OneWriterPerOrder ==
    \A q, r \in Requests :
        q # r /\ Owns(tx[q]) /\ Owns(tx[r]) => Order(q) # Order(r)

\* The row a transaction has written so far, given the committed row.
PrivateRow(t, committed) ==
    CASE t.pc = "begun"  -> Absent
      [] t.pc = "locked" -> committed
      [] t.pc \in { "written", "boarded", "ready" } ->
            IF Creates(t) THEN CreatedRow(t.call)
            ELSE IF t.pc = "ready" /\ t.call.to = "SHIPPING"
            THEN [ AdvancedRow(committed, t.call) EXCEPT !.artifacts = TRUE ]
            ELSE AdvancedRow(committed, t.call)

\* What t has written derives from the row committed now: nothing another
\* request committed since t read the order can be overwritten, and every
\* check t passed still holds when its writes become visible.
CurrentFor(t) ==
    LET c == t.call
    IN  /\ t.row = PrivateRow(t, rows[c.order])
        /\ t.boarded = (IF c.to = "PAID" /\ t.pc \in { "boarded", "ready" } THEN 1 ELSE 0)
        /\ t.told = (IF t.pc = "ready" /\ (Creates(t) \/ c.to = "PAID")
                     THEN << AnnouncementOf(c) >> ELSE <<>>)
        /\ t.pc = "boarded" => c.to = "PAID"
        /\ Creates(t) => rows[c.order] = Absent /\ t.pc # "locked"
        /\ ~ Creates(t) /\ Owns(t) => rows[c.order] # Absent
        /\ ~ Creates(t) /\ t.pc = "written" => c.to \in { "PAID", "SHIPPING" }
        /\ ~ Creates(t) /\ t.pc \in { "written", "boarded", "ready" } =>
              Accepts(rows[c.order].status, c.to, RoleOf(c), c.papers)
        /\ PassesBoundary(c)

WritesAreCurrent == \A r \in Requests : Busy(r) => CurrentFor(tx[r])

\* A request that began its transaction ends it: no lock is held forever and
\* no waiter starves, so an order can always be acted on again.
RequestsFinish == \A r \in Requests : Busy(r) ~> ~ Busy(r)

\* The transactions implement the order book.
Book == INSTANCE OrderBook WITH
            trail <- [o \in Orders |-> rows[o].history],
            boarded <- boarded, told <- told, Orders <- Orders

ImplementsOrderBook == Book!BookSpec
=============================================================================
