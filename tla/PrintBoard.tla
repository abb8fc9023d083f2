----------------------------- MODULE PrintBoard -----------------------------
(***************************************************************************)
(* The fulfilment board: staff drag print cards between columns (PATCH     *)
(* /admin/print-jobs/{id}). One move is one READ COMMITTED transaction     *)
(* that claims the card, draws its filament first-in-first-out, counts the *)
(* order's cards still at NEED_PRINT and, at zero, advances the order.     *)
(* Scrap draws (POST /admin/filaments/{id}/scrap) share the lots, and the  *)
(* transitions of OrderTransactions, atomic here, share the orders rows.   *)
(*                                                                         *)
(* Row locks are explicit: tx[r].locks is what request r has locked, and a *)
(* statement that wants a row of another request waits. Filament lots are  *)
(* locked per material: every draw locks a material's open lots in the     *)
(* same order, so the first open lot decides who waits.                    *)
(***************************************************************************)
EXTENDS OrderStatus, FiniteSetsExt, Functions

CONSTANTS Orders, Cards, Materials,
          OrderOf,      \* [Cards -> Orders], via the card's order item
          Lines,        \* [Cards -> Seq of [material, qty]], the draws of a card
          LotMaterial,  \* <<material of lot 1, lot 2, ..>>, oldest lot first
          LotQty,       \* their quantities
          ScrapQtys,    \* the quantities a scrap request may ask for
          DropTargets,  \* the columns staff drop cards into (bounds the model)
          Requests

Stages == { "NEED_PRINT", "PRINTING", "NFC_ENCODE", "PACKING", "SHIPPED" }

ASSUME BoardAssumption ==
    /\ IsFiniteSet(Cards)
    /\ OrderOf \in [Cards -> Orders]
    /\ \A o \in Orders : \E c \in Cards : OrderOf[c] = o    \* ErrNoItems
    /\ Lines \in [Cards -> Seq([material : Materials, qty : Nat \ {0}])]
    /\ LotMaterial \in Seq(Materials) /\ LotQty \in Seq(Nat \ {0}) /\ Len(LotMaterial) = Len(LotQty)
    /\ ScrapQtys \subseteq Nat \ {0}
    /\ DropTargets \subseteq Stages
    /\ Cards \cap (Materials \cup Orders) = {} /\ Materials \cap Orders = {}  \* tables of their own
    /\ "scrap" \notin Cards

VARIABLES status,   \* orders.status
          board,    \* print_jobs: stage and filament_deducted_at, per card
          stock,    \* filament_batches.qty_remaining, per lot
          ledger,   \* filament_consumption: quantity per card (or scrap), material
          tx        \* what each request is doing

vars == <<status, board, stock, ledger, tx>>

Lots       == DOMAIN LotQty
LotsOf(m)  == { l \in Lots : LotMaterial[l] = m }
Scrap      == "scrap"
CardsOf(o) == { c \in Cards : OrderOf[c] = o }

NoCard   == [ stage |-> "NONE", deducted |-> FALSE ]
NewCard  == [ stage |-> "NEED_PRINT", deducted |-> FALSE ]
CardRow  == [ stage : Stages, deducted : BOOLEAN ]

Moves  == [ card : Cards, stage : DropTargets ]
Scraps == [ material : Materials, qty : ScrapQtys ]
IsMove(req) == "card" \in DOMAIN req

\* The draws a request performs, in order.
DrawsOf(req) == IF IsMove(req) THEN Lines[req.card] ELSE << req >>

NoDraw == [ l \in Lots |-> 0 ]
Idle   == [ pc |-> "idle", locks |-> {} ]

BusyTx == [ pc : { "begun", "drawing", "readback", "count", "advance", "ready" },
            req : Moves \cup Scraps, locks : SUBSET (Cards \cup Materials \cup Orders),
            line : Nat \ {0}, card : CardRow \cup { NoCard }, drawn : [Lots -> Nat],
            advance : BOOLEAN ]

Busy(r) == tx[r].pc # "idle"

Init ==
    /\ status = [o \in Orders |-> "PENDING_CONFIRM"]
    /\ board  = [c \in Cards |-> NoCard]
    /\ stock  = LotQty
    /\ ledger = [x \in Cards \cup { Scrap } |-> [m \in Materials |-> 0]]
    /\ tx     = [r \in Requests |-> Idle]

Begin(r, pc, req) ==
    /\ ~ Busy(r)
    /\ tx' = [tx EXCEPT ![r] = [ pc |-> pc, req |-> req, locks |-> {}, line |-> 1,
                                 card |-> NoCard, drawn |-> NoDraw, advance |-> FALSE ]]
    /\ UNCHANGED <<status, board, stock, ledger>>

\* Staff drop a card that exists in some column, or the owner scraps filament.
ReceiveMove(r)  == \E req \in Moves : board[req.card] # NoCard /\ Begin(r, "begun", req)
ReceiveScrap(r) == \E req \in Scraps : Begin(r, "drawing", req)

-----------------------------------------------------------------------------
(* What a request sees, and what it waits for.                             *)

\* qty_remaining as r reads it: committed, less its own uncommitted draws.
Remaining(r, l) == stock[l] - tx[r].drawn[l]
OpenLots(r, m)  == { l \in LotsOf(m) : Remaining(r, l) > 0 }

DrawLine(r) == DrawsOf(tx[r].req)[tx[r].line]
MoreDraws(r) == tx[r].line <= Len(DrawsOf(tx[r].req))

\* The card a statement of r updates: the claim's WHERE clause passes over a
\* deducted card, the nudge over one already in PRINTING, neither waiting.
CardWanted(r) ==
    LET c == tx[r].req.card
    IN  CASE tx[r].pc = "begun" ->
               IF tx[r].req.stage = "PRINTING" /\ board[c].deducted THEN {} ELSE { c }
          [] tx[r].pc = "readback" -> IF board[c].stage = "PRINTING" THEN {} ELSE { c }

\* Mutant: the lots are read without FOR UPDATE.
WantsNoLot(r) ==
    CASE tx[r].pc \in { "begun", "readback" } -> CardWanted(r)
      [] tx[r].pc = "advance"                 -> { OrderOf[tx[r].req.card] }
      [] OTHER                                -> {}

\* The row the next statement of r locks, if any.
Wanted(r) ==
    CASE tx[r].pc \in { "begun", "readback" } -> CardWanted(r)
      [] tx[r].pc = "drawing"  ->
            IF MoreDraws(r) /\ OpenLots(r, DrawLine(r).material) # {}
            THEN { DrawLine(r).material } ELSE {}
      [] tx[r].pc = "advance"  -> { OrderOf[tx[r].req.card] }
      [] OTHER                 -> {}

WaitsFor(r, q) == q # r /\ Wanted(r) \cap tx[q].locks # {}
Blocked(r)     == \E q \in Requests : WaitsFor(r, q)

Unchanged == UNCHANGED <<status, board, stock, ledger>>

-----------------------------------------------------------------------------
(* AdvancePrintJobStage, statement by statement                            *)

\* Mutant: the claim forgets WHERE filament_deducted_at IS NULL.
ClaimAgain(r) ==
    LET c == tx[r].req.card
    IN  /\ tx[r].pc = "begun"
        /\ tx[r].req.stage = "PRINTING"
        /\ ~ Blocked(r)
        /\ tx' = [tx EXCEPT ![r].pc    = "drawing",
                            ![r].locks = @ \cup { c },
                            ![r].card  = [ stage |-> "PRINTING", deducted |-> TRUE ]]
        /\ Unchanged

\* ClaimPrintForPrinting's UPDATE .. WHERE filament_deducted_at IS NULL,
\* evaluated on the committed row once the lock is free.
Claim(r) ==
    LET c == tx[r].req.card
    IN  /\ tx[r].pc = "begun"
        /\ tx[r].req.stage = "PRINTING"
        /\ ~ Blocked(r)
        /\ tx' = IF board[c].deducted
                 THEN [tx EXCEPT ![r].pc = "readback"]
                 ELSE [tx EXCEPT ![r].pc    = "drawing",
                                 ![r].locks = @ \cup { c },
                                 ![r].card  = [ stage |-> "PRINTING", deducted |-> TRUE ]]
        /\ Unchanged

\* Already deducted: a card in another column is nudged to PRINTING, no draw.
Nudge(r) ==
    LET c == tx[r].req.card
    IN  /\ tx[r].pc = "readback"
        /\ ~ Blocked(r)
        /\ tx' = IF board[c].stage = "PRINTING"
                 THEN [tx EXCEPT ![r].pc = "count"]
                 ELSE [tx EXCEPT ![r].pc    = "count",
                                 ![r].locks = @ \cup { c },
                                 ![r].card  = [ board[c] EXCEPT !.stage = "PRINTING" ]]
        /\ Unchanged

\* Mutant: PRINTING may also go through the plain stage update.
AdvanceAnyStage(r) ==
    LET c == tx[r].req.card
    IN  /\ tx[r].pc = "begun"
        /\ ~ Blocked(r)
        /\ tx' = [tx EXCEPT ![r].pc    = "count",
                            ![r].locks = @ \cup { c },
                            ![r].card  = [ board[c] EXCEPT !.stage = tx[r].req.stage ]]
        /\ Unchanged

\* AdvancePrintStage: any other column, unconditionally.
AdvancePrintStage(r) ==
    LET c == tx[r].req.card
    IN  /\ tx[r].pc = "begun"
        /\ tx[r].req.stage # "PRINTING"
        /\ ~ Blocked(r)
        /\ tx' = [tx EXCEPT ![r].pc    = "count",
                            ![r].locks = @ \cup { c },
                            ![r].card  = [ board[c] EXCEPT !.stage = tx[r].req.stage ]]
        /\ Unchanged

\* Mutant: the loop does not stop once the need is met.
TakePastNeed(r, m, need) ==
    { [ l \in Lots |->
          IF l \notin LotsOf(m) THEN 0
          ELSE LET older == { k \in LotsOf(m) : k < l }
               IN  Min({ need - MapThenSumSet(LAMBDA k : Remaining(r, k), older),
                         Remaining(r, l) }) ] }

\* Mutant: newest lot first.
LifoTake(r, m, need) ==
    { [ l \in Lots |->
          IF l \notin LotsOf(m) THEN 0
          ELSE LET newer == { k \in LotsOf(m) : k > l }
                   left  == need - MapThenSumSet(LAMBDA k : Remaining(r, k), newer)
               IN  Max({ 0, Min({ left, Remaining(r, l) }) }) ] }

\* Mutant: only the oldest open lot is drawn from.
TakeFromOneLot(r, m, need) ==
    { [ l \in Lots |->
          IF OpenLots(r, m) # {} /\ l = Min(OpenLots(r, m))
          THEN Min({ need, Remaining(r, l) }) ELSE 0 ] }

\* fifoDraw: the one way to take the need from the lots of m, oldest first and
\* clamped at what is there.
FifoTake(r, m, need) ==
    { take \in [Lots -> 0 .. need] :
        /\ \A l \in Lots : take[l] <= Remaining(r, l) /\ (l \notin LotsOf(m) => take[l] = 0)
        /\ \A k, l \in LotsOf(m) : k < l /\ take[l] > 0 => take[k] = Remaining(r, k)
        /\ LET total == SumFunctionOnSet(take, LotsOf(m))
           IN  \/ total = need
               \/ total < need /\ \A l \in LotsOf(m) : take[l] = Remaining(r, l) }

\* Filament.Decrement for the next draw line; zero stock locks and draws nothing.
Decrement(r) ==
    /\ tx[r].pc = "drawing"
    /\ MoreDraws(r)
    /\ ~ Blocked(r)
    /\ \E take \in FifoTake(r, DrawLine(r).material, DrawLine(r).qty) :
          tx' = [tx EXCEPT ![r].line  = @ + 1,
                           ![r].locks = @ \cup Wanted(r),
                           ![r].drawn = [ l \in Lots |-> @[l] + take[l] ]]
    /\ Unchanged

DrawsDone(r) ==
    /\ tx[r].pc = "drawing"
    /\ ~ MoreDraws(r)
    /\ tx' = [tx EXCEPT ![r].pc = IF IsMove(tx[r].req) THEN "count" ELSE "ready"]
    /\ Unchanged

\* CountNeedPrintForOrder: committed cards of the order, and r's own write.
StageSeenBy(r, c) ==
    IF c \in tx[r].locks THEN tx[r].card.stage ELSE board[c].stage

NeedPrintCount(r) ==
    Cardinality({ c \in CardsOf(OrderOf[tx[r].req.card]) :
                    StageSeenBy(r, c) = "NEED_PRINT" })

CountNeedPrint(r) ==
    /\ tx[r].pc = "count"
    /\ tx' = [tx EXCEPT ![r].pc = IF NeedPrintCount(r) = 0 THEN "advance" ELSE "ready"]
    /\ Unchanged

\* Mutant: the order's status is set, not advanced.
AdvanceBlindly(r) ==
    LET o == OrderOf[tx[r].req.card]
    IN  /\ tx[r].pc = "advance"
        /\ ~ Blocked(r)
        /\ tx' = [tx EXCEPT ![r].pc = "ready", ![r].locks = @ \cup { o },
                            ![r].advance = TRUE]
        /\ Unchanged

\* AdvanceStatusTx to PRINTING under the order's row lock; an invalid edge (the
\* order is not PAID) is ignored and the card still moves.
AutoAdvance(r) ==
    LET o == OrderOf[tx[r].req.card]
    IN  /\ tx[r].pc = "advance"
        /\ ~ Blocked(r)
        /\ tx' = [tx EXCEPT ![r].pc      = "ready",
                            ![r].locks   = @ \cup { o },
                            ![r].advance = (<<status[o], "PRINTING">> \in AllowedEdges)]
        /\ Unchanged

-----------------------------------------------------------------------------
(* The end of a transaction                                                *)

\* What each of some draws asks of one material.
OfMaterial(draws, m) == [ i \in DOMAIN draws |-> IF draws[i].material = m THEN draws[i].qty ELSE 0 ]

\* Mutant: the ledger records what was asked for, not what was there.
Asked(r, m) == SumFunction(OfMaterial(DrawsOf(tx[r].req), m))

Drawn(r, m) == SumFunctionOnSet(tx[r].drawn, LotsOf(m))

Commit(r) ==
    LET req   == tx[r].req
        payer == IF IsMove(req) THEN req.card ELSE Scrap
    IN  /\ tx[r].pc = "ready"
        /\ stock'  = [l \in Lots |-> stock[l] - tx[r].drawn[l]]
        /\ ledger' = [ledger EXCEPT ![payer] = [m \in Materials |-> @[m] + Drawn(r, m)]]
        /\ board'  = IF payer \in tx[r].locks
                     THEN [board EXCEPT ![payer] = tx[r].card] ELSE board
        /\ status' = IF tx[r].advance
                     THEN [status EXCEPT ![OrderOf[payer]] = "PRINTING"] ELSE status
        /\ tx'     = [tx EXCEPT ![r] = Idle]

RollBack(r) == tx' = [tx EXCEPT ![r] = Idle] /\ Unchanged

\* A failed statement, a disconnect, the request timeout or a crash.
Abort(r) == Busy(r) /\ RollBack(r)

\* Postgres breaks a cycle of lock waits by failing one of its members.
InDeadlock(r) ==
    \E S \in SUBSET Requests :
        r \in S /\ \A q \in S : \E p \in S : WaitsFor(q, p)

\* Mutant: no deadlock detector.
NoVictim(r) == FALSE

DeadlockVictim(r) == InDeadlock(r) /\ RollBack(r)

-----------------------------------------------------------------------------
(* The orders side, one atomic step per committed transition.              *)

OrderUnlocked(o) == \A r \in Requests : o \notin tx[r].locks

\* ConfirmPaymentTx: PAID, and one NEED_PRINT card per item.
ConfirmPayment(o) ==
    /\ <<status[o], "PAID">> \in AllowedEdges
    /\ OrderUnlocked(o)
    /\ status' = [status EXCEPT ![o] = "PAID"]
    /\ board'  = [c \in Cards |-> IF c \in CardsOf(o) THEN NewCard ELSE board[c]]
    /\ UNCHANGED <<stock, ledger, tx>>

\* POST /orders/{id}/transitions for the other edges (the cards stay).
TransitionOrder(o) ==
    /\ OrderUnlocked(o)
    /\ \E to \in Successors(status[o]) \ { "PAID" } :
          status' = [status EXCEPT ![o] = to]
    /\ UNCHANGED <<board, stock, ledger, tx>>

Waiting(r)  == Claim(r) \/ Nudge(r) \/ AdvancePrintStage(r) \/ Decrement(r) \/ AutoAdvance(r)
Straight(r) == DrawsDone(r) \/ CountNeedPrint(r) \/ Commit(r) \/ DeadlockVictim(r)

Next ==
    \/ \E r \in Requests :
          ReceiveMove(r) \/ ReceiveScrap(r) \/ Waiting(r) \/ Straight(r) \/ Abort(r)
    \/ \E o \in Orders : ConfirmPayment(o) \/ TransitionOrder(o)

\* A running transaction keeps executing, lock waiters are served in turn and
\* the deadlock detector always fires.
Fairness == \A r \in Requests : WF_vars(Straight(r)) /\ SF_vars(Waiting(r))

Spec     == Init /\ [][Next]_vars
FairSpec == Spec /\ Fairness

-----------------------------------------------------------------------------
(* Properties                                                              *)

TypeOK ==
    /\ status \in [Orders -> Statuses]
    /\ board  \in [Cards -> CardRow \cup { NoCard }]
    /\ stock  \in [Lots -> Int]
    /\ ledger \in [Cards \cup { Scrap } -> [Materials -> Nat]]
    /\ tx     \in [Requests -> { Idle } \cup BusyTx]

\* Racing draws of one filament never take the same grams twice: no lot goes
\* below zero (the CHECK of migration 000018 is only a backstop).
NoOverdraw == \A l \in Lots : stock[l] >= 0

Need(c, m) == SumFunction(OfMaterial(Lines[c], m))

\* One physical print draws filament once, however often and by however many
\* staff its card is dragged: a card never draws more than its lines need, and
\* draws nothing before the move that claimed it.
DrawnOnce ==
    \A c \in Cards, m \in Materials :
        ledger[c][m] <= (IF board[c].deducted THEN Need(c, m) ELSE 0)

\* qty_remaining is a rebuildable cache of the ledger: what left the lots of a
\* material is what the draws recorded, racing, clamped or rolled back.
LedgerExplainsStock ==
    \A m \in Materials :
        SumFunctionOnSet([ l \in Lots |-> LotQty[l] - stock[l] ], LotsOf(m))
            = SumFunction([ x \in Cards \cup { Scrap } |-> ledger[x][m] ])

\* A lot is opened only after every older lot of its material is used up.
OldestLotFirst ==
    \A m \in Materials : \A l, k \in LotsOf(m) :
        k < l /\ stock[l] < LotQty[l] => stock[k] = 0

\* No card reaches the PRINTING column without having been claimed.
PrintingWasClaimed == \A c \in Cards : board[c].stage = "PRINTING" => board[c].deducted

\* A claim draws what its lines need, short only when the material ran out.
ShortOnlyWhenEmpty ==
    [][\A c \in Cards : ~ board[c].deducted /\ board'[c].deducted =>
          \A m \in Materials :
              \/ ledger'[c][m] = Need(c, m)
              \/ \A l \in LotsOf(m) : stock'[l] = 0]_vars

\* The board never takes an order along an edge the state machine refuses: an
\* order cancelled while a card is being dragged is not revived as PRINTING.
OnlyAllowedEdges ==
    [][\A o \in Orders : status'[o] # status[o] =>
          <<status[o], status'[o]>> \in AllowedEdges]_vars

\* Every move and scrap ends, also when two multi-material draws deadlock.
RequestsFinish == \A r \in Requests : Busy(r) ~> ~ Busy(r)

\* "auto-advances the order PAID -> PRINTING once every line of the order has
\* left NEED_PRINT": with no request in flight, a PAID order still has a card
\* at NEED_PRINT.
PaidMeansUnstarted ==
    (\A r \in Requests : ~ Busy(r)) =>
        \A o \in Orders : status[o] = "PAID" =>
            \E c \in CardsOf(o) : board[c].stage = "NEED_PRINT"
=============================================================================
