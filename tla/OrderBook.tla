----------------------------- MODULE OrderBook -----------------------------
(***************************************************************************)
(* What core-api promises about orders, with no transactions in sight: an  *)
(* order is an append-only audit trail, and each step of it is atomic with *)
(* the print cards and the announcements that go with it.                  *)
(*                                                                         *)
(*   trail[o]   the statusHistory events, <<>> while o does not exist      *)
(*   boarded[o] how many times the fulfilment board was filled for o       *)
(*   told[o]    the domain events announced about o, oldest first          *)
(***************************************************************************)
EXTENDS OrderStatus

CONSTANT Orders

VARIABLES trail, boarded, told

bookVars == <<trail, boarded, told>>

BookInit ==
    /\ trail   = [o \in Orders |-> <<>>]
    /\ boarded = [o \in Orders |-> 0]
    /\ told    = [o \in Orders |-> <<>>]

\* An order comes into existence; born PAID it goes straight to the board.
Open(o, channel, by) ==
    LET status == InitialStatusForChannel(channel)
    IN  /\ trail[o] = <<>>
        /\ channel = "inbox" => by # Guest
        /\ trail'   = [trail EXCEPT ![o] = << GenesisEvent(status, by) >>]
        /\ boarded' = [boarded EXCEPT ![o] = IF status = "PAID" THEN @ + 1 ELSE @]
        /\ told'    = [told EXCEPT ![o] = Append(@, "order.created")]

\* Money in: the owner's reconcile fills the board and announces the payment.
ConfirmPayment(o) ==
    LET from == TrailStatus(trail[o])
    IN  /\ CanTransition(from, "PAID", "owner")
        /\ trail'   = [trail EXCEPT ![o] =
                          Append(@, TransitionEvent(from, "PAID", "owner", {}))]
        /\ boarded' = [boarded EXCEPT ![o] = @ + 1]
        /\ told'    = [told EXCEPT ![o] = Append(@, "order.paid")]

\* Any other edge touches the trail alone.
Move(o, to, by, papers) ==
    LET from == TrailStatus(trail[o])
    IN  /\ to # "PAID"
        /\ Accepts(from, to, by, papers)
        /\ trail' = [trail EXCEPT ![o] =
                        Append(@, TransitionEvent(from, to, by, papers))]
        /\ UNCHANGED <<boarded, told>>

BookNext ==
    \E o \in Orders :
        \/ \E channel \in Channels, by \in Actors : Open(o, channel, by)
        \/ ConfirmPayment(o)
        \/ \E to \in Successors(TrailStatus(trail[o])), by \in Roles,
              papers \in SUBSET Recorded :
              Move(o, to, by, papers)

BookSpec == BookInit /\ [][BookNext]_bookVars
=============================================================================
