-------------------------- MODULE MCOutboxRelay --------------------------
(* Model-checking instances of OutboxRelay. Event 2 is the order.paid of the *)
(* order whose order.created is event 1; event 3 belongs to another tx.     *)
EXTENDS OutboxRelay, TLC

MCCause == << 0, 1, 0 >>
Symmetry == Permutations(Relays)
=============================================================================
