----------------------------- MODULE OrderLookup -----------------------------
(***************************************************************************)
(* The lookup screen of the browser extension (lookup.tsx, lib/lookup.ts,    *)
(* lib/lookup-view.ts): staff paste an order code, see the order's card and  *)
(* move the order by the card's buttons.                                    *)
(*                                                                         *)
(* The answer to a move puts its order on the screen, whatever was looked up  *)
(* since, and takes the place of a card that is shown then: the new order     *)
(* inherits that card's open reason picker.  "late" records that it happened. *)
(***************************************************************************)
EXTENDS OrderStatus, FiniteSets

CONSTANTS
  Codes,      \* codes of the orders there are
  Pasted,     \* codes that may be pasted; None where the text holds no code
  role,       \* who is signed in
  MaxSearches, MaxMoves, MaxOther, MaxLost, \* bounds
  None

VARIABLES
  card,      \* the screen
  searches,  \* lookups under way
  moves,     \* transitions under way
  book,      \* the server: status by code
  trace      \* history: last code searched, counts, late; codes moved behind the card's back

lookupVars == <<card, searches, moves, book, trace>>

(***************************************************************************)
(* lookup-view.ts: the buttons are the state machine's edges for the role.   *)
(***************************************************************************)
actionKind(to) ==
  CASE to = "CANCELLED" -> "cancel"
    [] to \in {"SHIPPING", "REFUNDED"} -> "defer"
    [] OTHER -> "direct"

nextActions(status) == {to \in Statuses : CanTransition(status, to, role)}

(* A component that is mounted starts afresh; one that stays keeps its state. *)
Unmounted == [mount |-> 0, busy |-> FALSE, error |-> None, picker |-> None, reason |-> FALSE]
Plain(state) == [state |-> state, code |-> None, status |-> None, actions |-> Unmounted]

Showing(code, status) ==
  LET a == IF card.state = "found" THEN card.actions ELSE [Unmounted EXCEPT !.mount = trace.mounts + 1]
  IN [state |-> "found", code |-> code, status |-> status,
      actions |-> [a EXCEPT !.reason = @ /\ nextActions(status) # {}]]
Mounts == IF card.state = "found" THEN trace.mounts ELSE trace.mounts + 1

LookupInit ==
  /\ card = Plain("idle") /\ searches = {} /\ moves = {}
  /\ book \in [Codes -> Statuses \ TerminalStatuses]
  /\ trace = [last |-> None, searches |-> 0, mounts |-> 0, moves |-> 0, other |-> 0, lost |-> 0,
              late |-> FALSE, moved |-> {}]

(* The search button is disabled while the screen says it searches.           *)
Searching == card.state = "loading"
onSearch(code) ==
  /\ ~Searching /\ trace.searches < MaxSearches
  /\ IF code = None
     THEN card' = Plain("invalid") /\ UNCHANGED searches
     ELSE /\ card' = Plain("loading")
          /\ searches' = searches \cup {[n |-> trace.searches + 1, code |-> code, step |-> "sent", status |-> None]}
  /\ trace' = [trace EXCEPT !.searches = @ + 1, !.last = code, !.moved = @ \cup {k.code : k \in moves}]
  /\ UNCHANGED <<moves, book>>

(* GET /admin/orders/by-code. *)
Read(q) ==
  /\ q \in searches /\ q.step = "sent"
  /\ searches' = (searches \ {q}) \cup
       {[q EXCEPT !.step = "read", !.status = IF q.code \in Codes THEN book[q.code] ELSE None]}
  /\ UNCHANGED <<card, moves, book, trace>>

SearchAnswered(q) ==
  /\ q \in searches /\ q.step = "read"
  /\ searches' = searches \ {q}
  /\ IF q.status = None
     THEN card' = Plain("notfound") /\ UNCHANGED trace
     ELSE card' = Showing(q.code, q.status) /\ trace' = [trace EXCEPT !.mounts = Mounts]
  /\ UNCHANGED <<moves, book>>

SearchFailed(q) ==
  /\ q \in searches /\ trace.lost < MaxLost
  /\ searches' = searches \ {q}
  /\ card' = Plain("error")
  /\ trace' = [trace EXCEPT !.lost = @ + 1]
  /\ UNCHANGED <<moves, book>>

(***************************************************************************)
(* The card's buttons.  A cancellation goes by way of the reason picker.     *)
(***************************************************************************)
Offers(kind) == IF card.state # "found" \/ card.actions.busy THEN {}
                ELSE {to \in nextActions(card.status) : actionKind(to) = kind}

run(to, papers) ==
  /\ trace.moves < MaxMoves
  /\ card' = [card EXCEPT !.actions.busy = TRUE, !.actions.error = None]
  /\ moves' = moves \cup {[n |-> trace.moves + 1, mount |-> card.actions.mount, code |-> card.code, to |-> to,
                           papers |-> papers, picker |-> card.actions.picker, step |-> "sent", result |-> None]}
  /\ trace' = [trace EXCEPT !.moves = @ + 1]
  /\ UNCHANGED <<searches, book>>

onDirect(to) == card.actions.picker = None /\ to \in Offers("direct") /\ run(to, {})

onCancel ==
  /\ card.actions.picker = None /\ Offers("cancel") # {}
  /\ card' = [card EXCEPT !.actions.picker = card.code]
  /\ UNCHANGED <<searches, moves, book, trace>>

(* setKey, or the way back. *)
InPicker ==
  /\ card.actions.picker # None /\ Offers("cancel") # {}
  /\ \/ ~card.actions.reason /\ card' = [card EXCEPT !.actions.reason = TRUE]
     \/ card' = [card EXCEPT !.actions.picker = None, !.actions.reason = FALSE]
  /\ UNCHANGED <<searches, moves, book, trace>>

onConfirm ==
  /\ card.actions.picker # None /\ card.actions.reason /\ Offers("cancel") # {}
  /\ run("CANCELLED", {"reason"})

(* POST /orders/{id}/transitions. *)
Verdict(k) ==
  CASE <<book[k.code], k.to>> \notin AllowedEdges -> "conflict"
    [] ~RoleAllowed(book[k.code], k.to, role) -> "forbidden"
    [] ~(PaperworkFor(k.to) \subseteq k.papers) -> "validation"
    [] OTHER -> "ok"

transitionOrder(k) ==
  /\ k \in moves /\ k.step = "sent"
  /\ book' = IF Verdict(k) = "ok" THEN [book EXCEPT ![k.code] = k.to] ELSE book
  /\ moves' = (moves \ {k}) \cup {[k EXCEPT !.step = "answered", !.result = Verdict(k)]}
  /\ UNCHANGED <<card, searches, trace>>

(* Of the component that asked, if it is still there: the outcome.            *)
Mine(k) == card.state = "found" /\ card.actions.mount = k.mount
Ended(k, error) ==
  IF ~Mine(k) THEN card
  ELSE IF error = None THEN [card EXCEPT !.actions = [@ EXCEPT !.busy = FALSE, !.picker = None, !.reason = FALSE]]
  ELSE [card EXCEPT !.actions.busy = FALSE, !.actions.error = error]

MoveAnswered(k) ==
  /\ k \in moves /\ k.step = "answered"
  /\ moves' = moves \ {k}
  /\ IF k.result = "ok"
     THEN /\ card' = [Showing(k.code, k.to) EXCEPT !.actions = IF Mine(k) THEN Ended(k, None).actions ELSE @]
          /\ trace' = [trace EXCEPT !.mounts = Mounts, !.late = @ \/ ~Mine(k)]
     ELSE card' = Ended(k, k.result) /\ UNCHANGED trace
  /\ UNCHANGED <<searches, book>>

MoveLost(k) ==
  /\ k \in moves /\ trace.lost < MaxLost
  /\ moves' = moves \ {k}
  /\ card' = Ended(k, "error")
  /\ trace' = [trace EXCEPT !.lost = @ + 1, !.moved = @ \cup {k.code}]
  /\ UNCHANGED <<searches, book>>

(* The admin, another member of staff, or the board. *)
MovedElsewhere(code, to) ==
  /\ trace.other < MaxOther /\ CanTransition(book[code], to, "owner")
  /\ book' = [book EXCEPT ![code] = to]
  /\ trace' = [trace EXCEPT !.other = @ + 1, !.moved = @ \cup {code}]
  /\ UNCHANGED <<card, searches, moves>>

LookupNext ==
  \/ \E code \in Pasted : onSearch(code)
  \/ \E q \in searches : Read(q) \/ SearchAnswered(q) \/ SearchFailed(q)
  \/ \E to \in Statuses : onDirect(to) \/ \E code \in Codes : MovedElsewhere(code, to)
  \/ onCancel \/ InPicker \/ onConfirm
  \/ \E k \in moves : transitionOrder(k) \/ MoveAnswered(k) \/ MoveLost(k)

-----------------------------------------------------------------------------
LookupTypeOK ==
  /\ card.state \in {"idle", "invalid", "loading", "notfound", "error", "found"}
  /\ card.state = "found" => card.code \in Codes /\ card.status \in Statuses /\ card.actions.mount \in 1 .. trace.mounts
  /\ card.actions.busy \in BOOLEAN /\ card.actions.reason \in BOOLEAN
  /\ card.actions.picker \in Codes \cup {None}
  /\ book \in [Codes -> Statuses]
  /\ \A q \in searches : q.step \in {"sent", "read"}
  /\ \A k \in moves : k.to \in Statuses /\ k.step \in {"sent", "answered"}

(* The card is the one that was looked up last, and a cancellation is of the    *)
(* order whose reason picker was opened, as long as no answer to a move came   *)
(* after its card was left.                                                *)
CardIsTheLastSearched ==
  ~trace.late =>
    /\ card.state = "found" => card.code = trace.last
    /\ \A k \in moves : k.to = "CANCELLED" => k.picker = k.code

(* Whoever is signed in, the server never refuses a button for want of a right  *)
(* or a paper; it refuses one as out of date only if the order was moved       *)
(* elsewhere, an answer was lost, or the card was left with a move under way.   *)
OffersAreAccepted ==
  /\ card.actions.error \notin {"forbidden", "validation"}
  /\ ~trace.late /\ card.actions.error = "conflict" => card.code \in trace.moved

(* A card never waits for an answer that does not come.                      *)
NeverStuck == card.actions.busy => \E k \in moves : k.mount = card.actions.mount

(* What a card that nobody moved behind its back shows is where the order is,   *)
(* but for the move it waits for.                                           *)
CardIsCurrent ==
  card.state = "found" /\ ~trace.late /\ card.code \notin trace.moved =>
    \/ card.status = book[card.code]
    \/ \E k \in moves : k.code = card.code /\ k.step = "answered" /\ k.to = book[card.code]

LookupSound == CardIsTheLastSearched /\ OffersAreAccepted /\ NeverStuck /\ CardIsCurrent
=============================================================================
