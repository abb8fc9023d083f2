---------------------------- MODULE OrderStatus ----------------------------
(***************************************************************************)
(* The order state machine of internal/order: the transition table, the    *)
(* RBAC rule, the paperwork rule and the audit trail a transition extends. *)
(* Constant-level operators only, shared by every module about orders.     *)
(***************************************************************************)
EXTENDS Sequences, Integers

Statuses == { "PENDING_CONFIRM", "PAID", "PRINTING", "SHIPPING",
              "COMPLETED", "CANCELLED", "REFUNDED" }

\* The status of an order id that has no row, and the From of a genesis event.
Unborn == "UNBORN"

Roles    == { "owner", "staff", "system" }
\* byUserCustomer, the reserved actor of a guest checkout.
Guest    == "customer"
Actors   == Roles \cup { Guest }
Channels == { "web", "inbox" }

\* The documents a request may carry. Only what a guard examines is kept.
Documents == { "reason", "refundProof", "trackingCode", "qcPhoto", "paymentProof" }

\* The documents a history event keeps; the others live in columns.
Recorded == { "reason", "refundProof" }

AllowedEdges ==
    { <<"PENDING_CONFIRM", "PAID">>,  <<"PENDING_CONFIRM", "CANCELLED">>,
      <<"PAID", "PRINTING">>,         <<"PAID", "CANCELLED">>,
      <<"PAID", "REFUNDED">>,         <<"PRINTING", "SHIPPING">>,
      <<"PRINTING", "CANCELLED">>,    <<"PRINTING", "REFUNDED">>,
      <<"SHIPPING", "COMPLETED">>,    <<"SHIPPING", "CANCELLED">>,
      <<"SHIPPING", "REFUNDED">> }

OwnerOnlyEdges ==
    { <<"PENDING_CONFIRM", "PAID">>, <<"PAID", "REFUNDED">>,
      <<"PRINTING", "REFUNDED">>,    <<"SHIPPING", "REFUNDED">> }

TerminalStatuses == { "COMPLETED", "CANCELLED", "REFUNDED" }
ReasonRequired   == { "CANCELLED", "REFUNDED" }

\* The statuses an order may move to next.
Successors(from) == { to \in Statuses : <<from, to>> \in AllowedEdges }

RoleAllowed(from, to, role) ==
    IF <<from, to>> \in OwnerOnlyEdges
    THEN role = "owner"
    ELSE role \in { "owner", "staff" } \/ (role = "system" /\ to = "COMPLETED")

\* Mutant: the role is checked, the edge is not.
AnyEdge(from, to, role) == RoleAllowed(from, to, role)

CanTransition(from, to, role) ==
    /\ <<from, to>> \in AllowedEdges
    /\ RoleAllowed(from, to, role)

\* What Transition demands beyond edge and role.
PaperworkFor(to) ==
    (IF to \in ReasonRequired THEN { "reason" } ELSE {})
        \cup (IF to = "REFUNDED" THEN { "refundProof" } ELSE {})

Event == [ from : Statuses \cup { Unborn }, to : Statuses, by : Actors,
           papers : SUBSET Documents ]

InitialStatusForChannel(channel) ==
    IF channel = "web" THEN "PENDING_CONFIRM" ELSE "PAID"

GenesisEvent(status, by) ==
    [ from |-> Unborn, to |-> status, by |-> by, papers |-> {} ]

\* Transition's verdict on an order at status from.
Accepts(from, to, by, papers) ==
    /\ CanTransition(from, to, by)
    /\ PaperworkFor(to) \subseteq papers

TransitionEvent(from, to, by, papers) ==
    [ from |-> from, to |-> to, by |-> by,
      papers |-> papers \cap Recorded ]

\* The status a trail claims: the To of its last event.
TrailStatus(h) == IF h = <<>> THEN Unborn ELSE h[Len(h)].to

\* ReplayStatus succeeds: contiguous hops, each along an allowed edge.
Replays(h) ==
    /\ h # <<>>
    /\ h[1].from = Unborn
    /\ \A i \in 2 .. Len(h) :
          /\ h[i].from = h[i - 1].to
          /\ <<h[i].from, h[i].to>> \in AllowedEdges

\* h ever entered status s.
Visited(h, s) == \E i \in 1 .. Len(h) : h[i].to = s
=============================================================================
