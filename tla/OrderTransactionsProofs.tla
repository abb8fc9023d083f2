---------------------- MODULE OrderTransactionsProofs ----------------------
(***************************************************************************)
(* Proofs about OrderTransactions for every set of orders and requests:    *)
(* types, isolation, the database invariants, and that it implements the   *)
(* order book.                                                             *)
(***************************************************************************)
EXTENDS OrderTransactions, SequenceTheorems, TLAPS

-----------------------------------------------------------------------------
(* Type correctness                                                        *)

LEMMA CallFields ==
  ASSUME NEW c \in Calls
  PROVE  /\ c.order \in Orders /\ c.to \in Statuses
         /\ c.by \in Actors /\ c.papers \in SUBSET Documents
         /\ c.kind \in Channels \cup { "transition" }
         /\ c.kind \in Channels => c.to = InitialStatusForChannel(c.kind)
  BY UsersAssumption DEF Calls, Actors, Roles

LEMMA GenesisEventType ==
  ASSUME NEW to \in Statuses, NEW by \in Actors
  PROVE  GenesisEvent(to, by) \in Event
  BY DEF GenesisEvent, Event

LEMMA CreatedRowType == ASSUME NEW c \in Calls PROVE CreatedRow(c) \in Row
<1>1. GenesisEvent(c.to, c.by) \in Event
  BY CallFields, GenesisEventType
<1>2. << GenesisEvent(c.to, c.by) >> \in Seq(Event)
  BY <1>1
<1> QED
  BY <1>2, CallFields DEF CreatedRow, Row, Absent

LEMMA TransitionEventType ==
  ASSUME NEW from \in Statuses \cup { Unborn }, NEW to \in Statuses,
         NEW by \in Actors, NEW papers \in SUBSET Documents
  PROVE  TransitionEvent(from, to, by, papers) \in Event
  BY DEF TransitionEvent, Event, Recorded

LEMMA AdvancedRowType ==
  ASSUME NEW row \in Row, NEW c \in Calls
  PROVE  AdvancedRow(row, c) \in Row
<1>1. c.to \in Statuses /\ c.by \in Actors /\ c.papers \in SUBSET Documents
  BY CallFields
<1>2. TransitionEvent(row.status, c.to, c.by, c.papers) \in Event
  BY <1>1, TransitionEventType DEF Row
<1> DEFINE e == TransitionEvent(row.status, c.to, c.by, c.papers)
           paid == row.confirmed \/ c.to = "PAID"
           refunded == row.refundProof \/ c.to = "REFUNDED"
<1>3. paid \in BOOLEAN /\ refunded \in BOOLEAN
  OBVIOUS
<1>4. Append(row.history, e) \in Seq(Event)
  BY <1>2 DEF Row
<1>5. AdvancedRow(row, c) =
        [ row EXCEPT !.status = c.to, !.history = Append(row.history, e),
                     !.confirmed = paid, !.refundProof = refunded ]
  BY DEF AdvancedRow
<1> HIDE DEF e, paid, refunded
<1> QED
  BY <1>1, <1>3, <1>4, <1>5 DEF Row

LEMMA InitTypeOK == Init => TypeOK
  BY DEF Init, TypeOK, Row, Absent, Idle, Unborn, EventTypes

\* A step of one request on its private record: enough to re-establish TypeOK.
LEMMA PrivateStepTypeOK ==
  ASSUME TypeOK, NEW r \in Requests, NEW t \in { Idle } \cup BusyTx,
         tx' = [tx EXCEPT ![r] = t], UNCHANGED <<rows, boarded, told>>
  PROVE  TypeOK'
  BY DEF TypeOK

LEMMA BusyTyped ==
  ASSUME TypeOK, NEW r \in Requests, tx[r].pc # "idle"
  PROVE  /\ tx[r] \in BusyTx
         /\ tx[r].call \in Calls /\ tx[r].call.order \in Orders
         /\ tx[r].row \in Row
  BY DEF TypeOK, Idle, BusyTx, Calls

LEMMA NextTypeOK == TypeOK /\ [Next]_vars => TypeOK'
<1> SUFFICES ASSUME TypeOK, [Next]_vars PROVE TypeOK'
  OBVIOUS
<1>1. CASE UNCHANGED vars
  BY <1>1 DEF vars, TypeOK
<1>2. ASSUME NEW r \in Requests, Receive(r) PROVE TypeOK'
  <2>1. PICK c \in Calls :
          tx' = [tx EXCEPT ![r] = [ pc |-> "begun", call |-> c, row |-> Absent,
                                    boarded |-> 0, told |-> <<>> ]]
    BY <1>2 DEF Receive
  <2>2. [ pc |-> "begun", call |-> c, row |-> Absent, boarded |-> 0, told |-> <<>> ] \in BusyTx
    BY DEF BusyTx, Row, Absent, Unborn, EventTypes
  <2> QED
    BY <1>2, <2>1, <2>2, PrivateStepTypeOK DEF Receive
<1>3. ASSUME NEW r \in Requests, InsertOrder(r) PROVE TypeOK'
  <2>1. tx[r] \in BusyTx /\ CreatedRow(tx[r].call) \in Row
    BY <1>3, BusyTyped, CreatedRowType DEF InsertOrder
  <2> DEFINE t == [tx[r] EXCEPT !.pc = "written", !.row = CreatedRow(tx[r].call)]
  <2>2. t \in BusyTx
    BY <2>1 DEF BusyTx
  <2>3. tx' = [tx EXCEPT ![r] = t]
    BY <1>3 DEF InsertOrder
  <2> QED
    BY <1>3, <2>2, <2>3, PrivateStepTypeOK DEF InsertOrder
<1>4. ASSUME NEW r \in Requests, Lock(r) PROVE TypeOK'
  <2>1. tx[r] \in BusyTx /\ rows[Order(r)] \in Row
    BY <1>4, BusyTyped DEF Lock, Order, TypeOK
  <2> DEFINE t == [tx[r] EXCEPT !.pc = "locked", !.row = rows[Order(r)]]
  <2>2. t \in BusyTx
    BY <2>1 DEF BusyTx
  <2>3. tx' = [tx EXCEPT ![r] = t]
    BY <1>4 DEF Lock
  <2> QED
    BY <1>4, <2>2, <2>3, PrivateStepTypeOK DEF Lock
<1>5. ASSUME NEW r \in Requests, AdvanceStatus(r) PROVE TypeOK'
  <2>1. tx[r] \in BusyTx /\ AdvancedRow(tx[r].row, tx[r].call) \in Row
    BY <1>5, BusyTyped, AdvancedRowType DEF AdvanceStatus
  <2> DEFINE next == IF tx[r].call.to \in { "PAID", "SHIPPING" } THEN "written" ELSE "ready"
             t == [tx[r] EXCEPT !.pc = next, !.row = AdvancedRow(tx[r].row, tx[r].call)]
  <2>2. t \in BusyTx
    BY <2>1 DEF BusyTx
  <2>3. tx' = [tx EXCEPT ![r] = t]
    BY <1>5 DEF AdvanceStatus
  <2> QED
    BY <1>5, <2>2, <2>3, PrivateStepTypeOK DEF AdvanceStatus
<1>6. ASSUME NEW r \in Requests, SetShippingArtifacts(r) PROVE TypeOK'
  <2>1. tx[r] \in BusyTx /\ tx[r].row \in Row
    BY <1>6, BusyTyped DEF SetShippingArtifacts
  <2> DEFINE t == [tx[r] EXCEPT !.pc = "ready", !.row = [tx[r].row EXCEPT !.artifacts = TRUE]]
  <2>2. t \in BusyTx
    BY <2>1 DEF BusyTx, Row
  <2>3. tx' = [tx EXCEPT ![r] = t]
    BY <1>6 DEF SetShippingArtifacts
  <2> QED
    BY <1>6, <2>2, <2>3, PrivateStepTypeOK DEF SetShippingArtifacts
<1>7. ASSUME NEW r \in Requests, CreatePrintJobs(r) PROVE TypeOK'
  <2>1. tx[r] \in BusyTx /\ tx[r].call.to = "PAID"
    BY <1>7, BusyTyped DEF CreatePrintJobs
  <2> DEFINE n == tx[r].boarded + 1
             t == [tx[r] EXCEPT !.pc = "boarded", !.boarded = n]
  <2>a. n \in Nat
    BY <2>1 DEF BusyTx
  <2>2. t \in BusyTx
    <3> HIDE DEF n
    <3> QED BY <2>1, <2>a DEF BusyTx
  <2>3. tx' = [tx EXCEPT ![r] = t]
    BY <1>7 DEF CreatePrintJobs
  <2> QED
    BY <1>7, <2>2, <2>3, PrivateStepTypeOK DEF CreatePrintJobs
<1>8. ASSUME NEW r \in Requests, EnqueueOutbox(r) PROVE TypeOK'
  <2>1. tx[r] \in BusyTx /\ AnnouncementOf(tx[r].call) \in EventTypes
    BY <1>8, BusyTyped DEF EnqueueOutbox, AnnouncementOf, EventTypes
  <2> DEFINE s == Append(tx[r].told, AnnouncementOf(tx[r].call))
             t == [tx[r] EXCEPT !.pc = "ready", !.told = s]
  <2>a. s \in Seq(EventTypes)
    BY <2>1 DEF BusyTx
  <2>2. t \in BusyTx
    <3> HIDE DEF s
    <3> QED BY <2>1, <2>a DEF BusyTx
  <2>3. tx' = [tx EXCEPT ![r] = t]
    BY <1>8 DEF EnqueueOutbox
  <2> QED
    BY <1>8, <2>2, <2>3, PrivateStepTypeOK DEF EnqueueOutbox
<1>9. ASSUME NEW r \in Requests, Commit(r) PROVE TypeOK'
  <2>1. tx[r] \in BusyTx /\ Order(r) \in Orders
    BY <1>9, BusyTyped DEF Commit, Order
  <2>2. tx[r].row \in Row /\ tx[r].boarded \in Nat /\ tx[r].told \in Seq(EventTypes)
    BY <2>1 DEF BusyTx
  <2>3. told[Order(r)] \o tx[r].told \in Seq(EventTypes)
    BY <2>1, <2>2 DEF TypeOK
  <2> QED
    BY <1>9, <2>1, <2>2, <2>3 DEF Commit, TypeOK
<1>10. ASSUME NEW r \in Requests, Reject(r) \/ Abort(r) PROVE TypeOK'
  BY <1>10, PrivateStepTypeOK DEF Reject, Abort
<1> QED
  BY <1>1, <1>2, <1>3, <1>4, <1>5, <1>6, <1>7, <1>8, <1>9, <1>10 DEF Next, Proceed

\* Every table and every transaction keeps its shape, for any number of orders
\* and of concurrent requests.
THEOREM TypeCorrect == Spec => []TypeOK
  BY InitTypeOK, NextTypeOK, PTL DEF Spec

-----------------------------------------------------------------------------
(* Ownership of an order and currency of what its owner writes             *)

Isolation == TypeOK /\ OneWriterPerOrder /\ WritesAreCurrent

\* What CurrentFor says, state of the transaction by state.
LEMMA PrivateRowCases ==
  ASSUME NEW t, NEW base
  PROVE  /\ t.pc = "begun" => PrivateRow(t, base) = Absent
         /\ t.pc = "locked" => PrivateRow(t, base) = base
         /\ t.pc \in { "written", "boarded", "ready" } /\ Creates(t) =>
               PrivateRow(t, base) = CreatedRow(t.call)
         /\ t.pc \in { "written", "boarded" } /\ ~ Creates(t) =>
               PrivateRow(t, base) = AdvancedRow(base, t.call)
         /\ t.pc = "ready" /\ ~ Creates(t) /\ t.call.to # "SHIPPING" =>
               PrivateRow(t, base) = AdvancedRow(base, t.call)
         /\ t.pc = "ready" /\ ~ Creates(t) /\ t.call.to = "SHIPPING" =>
               PrivateRow(t, base) = [ AdvancedRow(base, t.call) EXCEPT !.artifacts = TRUE ]
  BY DEF PrivateRow

\* A step that changes only r's private record keeps isolation when the new
\* record is current and r does not take over an owned order.
LEMMA PrivateStepIsolation ==
  ASSUME Isolation, TypeOK', NEW r \in Requests, NEW t,
         tx' = [tx EXCEPT ![r] = t], UNCHANGED rows,
         t.pc # "idle" => CurrentFor(t),
         Owns(t) => \A q \in Requests \ { r } : Owns(tx[q]) => Order(q) # t.call.order
  PROVE  Isolation'
<1>1. tx'[r] = t /\ \A q \in Requests \ { r } : tx'[q] = tx[q]
  BY DEF Isolation, TypeOK
<1>2. OneWriterPerOrder'
  <2> SUFFICES ASSUME NEW p \in Requests, NEW q \in Requests, p # q,
                      Owns(tx[p])', Owns(tx[q])'
               PROVE  tx'[p].call.order # tx'[q].call.order
    BY DEF OneWriterPerOrder, Order
  <2>1. Owns(tx'[p]) /\ Owns(tx'[q])
    BY DEF Owns, Creates
  <2>2. CASE p = r
    BY <1>1, <2>1, <2>2 DEF Order
  <2>3. CASE q = r
    BY <1>1, <2>1, <2>3 DEF Order
  <2>4. CASE p # r /\ q # r
    BY <1>1, <2>1, <2>4 DEF Isolation, OneWriterPerOrder, Order
  <2> QED
    BY <2>2, <2>3, <2>4
<1>3. WritesAreCurrent'
  <2> SUFFICES ASSUME NEW q \in Requests, Busy(q)' PROVE CurrentFor(tx[q])'
    BY DEF WritesAreCurrent
  <2>1. CurrentFor(tx'[q])
    <3>1. CASE q = r
      BY <1>1, <3>1 DEF Busy
    <3>2. CASE q # r
      BY <1>1, <3>2 DEF Busy, Isolation, WritesAreCurrent
    <3> QED BY <3>1, <3>2
  <2> QED
    BY <2>1 DEF CurrentFor, Creates, Owns
<1> QED
  BY <1>2, <1>3 DEF Isolation

LEMMA InitIsolation == Init => Isolation
  BY InitTypeOK DEF Init, Isolation, OneWriterPerOrder, WritesAreCurrent, Owns, Busy, Idle

\* The facts a step of a busy request starts from.
LEMMA BusyFacts ==
  ASSUME Isolation, NEW r \in Requests, tx[r].pc # "idle"
  PROVE  /\ tx[r] \in BusyTx /\ tx[r].call \in Calls /\ CurrentFor(tx[r])
         /\ Order(r) = tx[r].call.order /\ Order(r) \in Orders
  BY BusyTyped DEF Isolation, WritesAreCurrent, Busy, Order

\* A step that keeps r an owner, or leaves it a non-owner, meets the second
\* premise of PrivateStepIsolation.
LEMMA StillAlone ==
  ASSUME Isolation, NEW r \in Requests, Owns(tx[r])
  PROVE  \A q \in Requests \ { r } : Owns(tx[q]) => Order(q) # tx[r].call.order
  BY DEF Isolation, OneWriterPerOrder, Order

\* COMMIT publishes r's writes; nobody else was relying on the old row.
LEMMA CommitIsolation ==
  ASSUME Isolation, TypeOK', NEW r \in Requests, Commit(r)
  PROVE  Isolation'
<1>1. /\ Owns(tx[r]) /\ Order(r) = tx[r].call.order /\ Order(r) \in Orders
      /\ rows' = [rows EXCEPT ![Order(r)] = tx[r].row]
  BY BusyFacts DEF Commit, Owns
<1>2. tx'[r] = Idle /\ \A q \in Requests \ { r } : tx'[q] = tx[q]
  BY DEF Commit, Isolation, TypeOK
<1>3. OneWriterPerOrder'
  <2> SUFFICES ASSUME NEW p \in Requests, NEW q \in Requests, p # q,
                      Owns(tx[p])', Owns(tx[q])'
               PROVE  tx'[p].call.order # tx'[q].call.order
    BY DEF OneWriterPerOrder, Order
  <2>1. Owns(tx'[p]) /\ Owns(tx'[q])
    BY DEF Owns, Creates
  <2>2. p # r /\ q # r
    BY <1>2, <2>1 DEF Owns, Idle
  <2> QED
    BY <1>2, <2>1, <2>2 DEF Isolation, OneWriterPerOrder, Order
<1>4. WritesAreCurrent'
  <2> SUFFICES ASSUME NEW q \in Requests, Busy(q)' PROVE CurrentFor(tx[q])'
    BY DEF WritesAreCurrent
  <2>1. q # r /\ tx'[q] = tx[q] /\ tx[q].pc # "idle"
    BY <1>2 DEF Busy, Idle
  <2>2. CurrentFor(tx[q]) /\ Order(q) = tx[q].call.order /\ Order(q) \in Orders
    BY <2>1, BusyFacts
  <2>3. CASE Order(q) # Order(r)
    <3>1. rows'[tx[q].call.order] = rows[tx[q].call.order]
      BY <1>1, <2>2, <2>3 DEF Isolation, TypeOK
    <3> QED
      BY <2>1, <2>2, <3>1 DEF CurrentFor, Creates, Owns
  <2>4. CASE Order(q) = Order(r)
    <3>1. ~ Owns(tx[q])
      BY <1>1, <2>1, <2>2, <2>4 DEF Isolation, OneWriterPerOrder
    <3>2. tx[q].pc = "begun" /\ ~ Creates(tx[q])
      BY <2>1, <3>1 DEF Owns
    <3>3. \A base : PrivateRow(tx[q], base) = Absent
      BY <3>2 DEF PrivateRow
    <3>4. tx[q].row = Absent /\ tx[q].boarded = 0 /\ tx[q].told = <<>>
      BY <2>2, <3>2, <3>3 DEF CurrentFor
    <3>5. PassesBoundary(tx[q].call)
      BY <2>2 DEF CurrentFor
    <3>6. PrivateRow(tx'[q], rows'[tx'[q].call.order]) = Absent
      BY <2>1, <3>3
    <3> QED
      BY <2>1, <3>2, <3>4, <3>5, <3>6 DEF CurrentFor, Creates, Owns
  <2> QED
    BY <2>3, <2>4
<1> QED
  BY <1>3, <1>4 DEF Isolation

LEMMA NextIsolation == Isolation /\ [Next]_vars => Isolation'
<1> SUFFICES ASSUME Isolation, [Next]_vars PROVE Isolation'
  OBVIOUS
<1>0. TypeOK'
  BY NextTypeOK DEF Isolation
<1>1. CASE UNCHANGED vars
  <2>1. \A r \in Requests : CurrentFor(tx[r]) => CurrentFor(tx[r])'
    BY <1>1 DEF vars, CurrentFor, Creates, Owns
  <2> QED
    BY <1>0, <1>1, <2>1 DEF vars, Isolation, OneWriterPerOrder, WritesAreCurrent,
                            Owns, Creates, Order, Busy
<1>2. ASSUME NEW r \in Requests, Receive(r) PROVE Isolation'
  <2>1. PICK c \in Calls :
          /\ PassesBoundary(c)
          /\ c.kind \in Channels =>
                /\ rows[c.order] = Absent
                /\ \A q \in Requests : Busy(q) => Order(q) # c.order
          /\ tx' = [tx EXCEPT ![r] = [ pc |-> "begun", call |-> c, row |-> Absent,
                                       boarded |-> 0, told |-> <<>> ]]
    BY <1>2 DEF Receive
  <2> DEFINE t == [ pc |-> "begun", call |-> c, row |-> Absent,
                    boarded |-> 0, told |-> <<>> ]
  <2>2. CurrentFor(t)
    <3>1. PrivateRow(t, rows[c.order]) = Absent
      BY DEF PrivateRow
    <3> QED
      BY <2>1, <3>1 DEF CurrentFor, Creates, Owns
  <2>3. Owns(t) => \A q \in Requests \ { r } : Owns(tx[q]) => Order(q) # t.call.order
    BY <2>1 DEF Owns, Creates, Busy
  <2> QED
    BY <1>0, <1>2, <2>1, <2>2, <2>3, PrivateStepIsolation DEF Receive
<1>3. ASSUME NEW r \in Requests, InsertOrder(r) PROVE Isolation'
  <2> DEFINE c == tx[r].call
             t == [tx[r] EXCEPT !.pc = "written", !.row = CreatedRow(c)]
  <2>1. tx[r] \in BusyTx /\ CurrentFor(tx[r]) /\ Creates(tx[r]) /\ tx[r].pc = "begun"
    BY <1>3, BusyFacts DEF InsertOrder, Creates
  <2>2. tx' = [tx EXCEPT ![r] = t] /\ UNCHANGED rows
    BY <1>3 DEF InsertOrder
  <2>3. t.pc = "written" /\ t.call = c /\ t.row = CreatedRow(c)
        /\ t.boarded = tx[r].boarded /\ t.told = tx[r].told
    BY <2>1 DEF BusyTx
  <2>4. CurrentFor(t)
    <3>1. PrivateRow(t, rows[c.order]) = CreatedRow(c)
      BY <2>1, <2>3 DEF PrivateRow, Creates
    <3> HIDE DEF t
    <3> QED
      BY <2>1, <2>3, <3>1 DEF CurrentFor, Creates, Owns
  <2>5. \A q \in Requests \ { r } : Owns(tx[q]) => Order(q) # t.call.order
    BY <2>1, <2>3, StillAlone DEF Owns
  <2> HIDE DEF t
  <2> QED
    BY <1>0, <2>2, <2>4, <2>5, PrivateStepIsolation
<1>4. ASSUME NEW r \in Requests, Lock(r) PROVE Isolation'
  <2> DEFINE c == tx[r].call
             t == [tx[r] EXCEPT !.pc = "locked", !.row = rows[Order(r)]]
  <2>1. /\ tx[r] \in BusyTx /\ CurrentFor(tx[r]) /\ tx[r].pc = "begun"
        /\ Order(r) = c.order /\ rows[c.order] # Absent
        /\ c.kind = "transition" /\ ~ Creates(tx[r])
        /\ \A q \in Requests : Holds(q) => Order(q) # Order(r)
    BY <1>4, BusyFacts DEF Lock, Creates, Channels
  <2>2. tx' = [tx EXCEPT ![r] = t] /\ UNCHANGED rows
    BY <1>4 DEF Lock
  <2>3. /\ t.pc = "locked" /\ t.call = c /\ t.row = rows[c.order]
        /\ t.boarded = tx[r].boarded /\ t.told = tx[r].told
    BY <2>1 DEF BusyTx
  <2>4. CurrentFor(t)
    <3>1. PrivateRow(t, rows[c.order]) = rows[c.order]
      BY <2>3 DEF PrivateRow
    <3> HIDE DEF t
    <3> QED
      BY <2>1, <2>3, <3>1 DEF CurrentFor, Creates, Owns
  <2>5. \A q \in Requests \ { r } : Owns(tx[q]) => Order(q) # t.call.order
    <3> SUFFICES ASSUME NEW q \in Requests \ { r }, Owns(tx[q]), Order(q) = c.order
                 PROVE  FALSE
      BY <2>3
    <3>1. CurrentFor(tx[q]) /\ Order(q) = tx[q].call.order /\ tx[q] \in BusyTx
      BY BusyFacts DEF Owns
    <3>2. ~ Holds(q)
      BY <2>1
    <3>3. Creates(tx[q])
      BY <3>1, <3>2 DEF Holds, Owns, BusyTx
    <3> QED
      BY <2>1, <3>1, <3>3 DEF CurrentFor
  <2> HIDE DEF t
  <2> QED
    BY <1>0, <2>2, <2>4, <2>5, PrivateStepIsolation
<1>5. ASSUME NEW r \in Requests, AdvanceStatus(r) PROVE Isolation'
  <2> DEFINE c == tx[r].call
             next == IF c.to \in { "PAID", "SHIPPING" } THEN "written" ELSE "ready"
             t == [tx[r] EXCEPT !.pc = next, !.row = AdvancedRow(tx[r].row, c)]
  <2>1. /\ tx[r] \in BusyTx /\ CurrentFor(tx[r]) /\ tx[r].pc = "locked"
        /\ Accepts(tx[r].row.status, c.to, RoleOf(c), c.papers)
    BY <1>5, BusyFacts DEF AdvanceStatus
  <2>2. tx' = [tx EXCEPT ![r] = t] /\ UNCHANGED rows
    BY <1>5 DEF AdvanceStatus
  <2>3. /\ t.pc = next /\ t.call = c /\ t.row = AdvancedRow(tx[r].row, c)
        /\ t.boarded = tx[r].boarded /\ t.told = tx[r].told
    BY <2>1 DEF BusyTx
  <2>4. CurrentFor(t)
    <3>1. ~ Creates(tx[r]) /\ tx[r].row = rows[c.order]
      BY <2>1, PrivateRowCases DEF CurrentFor
    <3>2. PrivateRow(t, rows[c.order]) = AdvancedRow(rows[c.order], c)
      BY <2>3, <3>1 DEF PrivateRow, Creates
    <3> HIDE DEF t
    <3> QED
      BY <2>1, <2>3, <3>1, <3>2 DEF CurrentFor, Creates, Owns
  <2>5. \A q \in Requests \ { r } : Owns(tx[q]) => Order(q) # t.call.order
    BY <2>1, <2>3, StillAlone DEF Owns
  <2> HIDE DEF t
  <2> QED
    BY <1>0, <2>2, <2>4, <2>5, PrivateStepIsolation
<1>6. ASSUME NEW r \in Requests, SetShippingArtifacts(r) PROVE Isolation'
  <2> DEFINE c == tx[r].call
             row == [tx[r].row EXCEPT !.artifacts = TRUE]
             t == [tx[r] EXCEPT !.pc = "ready", !.row = row]
  <2>1. /\ tx[r] \in BusyTx /\ CurrentFor(tx[r]) /\ tx[r].pc = "written"
        /\ c.to = "SHIPPING" /\ c \in Calls
    BY <1>6, BusyFacts DEF SetShippingArtifacts
  <2>2. tx' = [tx EXCEPT ![r] = t] /\ UNCHANGED rows
    BY <1>6 DEF SetShippingArtifacts
  <2>3. /\ t.pc = "ready" /\ t.call = c /\ t.row = row
        /\ t.boarded = tx[r].boarded /\ t.told = tx[r].told
    BY <2>1 DEF BusyTx
  <2>4. CurrentFor(t)
    <3>1. ~ Creates(tx[r])
      BY <2>1, CallFields DEF Creates, InitialStatusForChannel
    <3>2. tx[r].row = AdvancedRow(rows[c.order], c)
      BY <2>1, <3>1, PrivateRowCases DEF CurrentFor
    <3>3. PrivateRow(t, rows[c.order]) =
            [ AdvancedRow(rows[c.order], c) EXCEPT !.artifacts = TRUE ]
      BY <2>1, <2>3, <3>1 DEF PrivateRow, Creates
    <3> HIDE DEF t
    <3> QED
      BY <2>1, <2>3, <3>1, <3>2, <3>3 DEF CurrentFor, Creates, Owns
  <2>5. \A q \in Requests \ { r } : Owns(tx[q]) => Order(q) # t.call.order
    BY <2>1, <2>3, StillAlone DEF Owns
  <2> HIDE DEF t
  <2> QED
    BY <1>0, <2>2, <2>4, <2>5, PrivateStepIsolation
<1>7. ASSUME NEW r \in Requests, CreatePrintJobs(r) PROVE Isolation'
  <2> DEFINE c == tx[r].call
             t == [tx[r] EXCEPT !.pc = "boarded", !.boarded = @ + 1]
  <2>1. /\ tx[r] \in BusyTx /\ CurrentFor(tx[r]) /\ tx[r].pc = "written"
        /\ c.to = "PAID"
    BY <1>7, BusyFacts DEF CreatePrintJobs
  <2>2. tx' = [tx EXCEPT ![r] = t] /\ UNCHANGED rows
    BY <1>7 DEF CreatePrintJobs
  <2>3. /\ t.pc = "boarded" /\ t.call = c /\ t.row = tx[r].row
        /\ t.boarded = tx[r].boarded + 1 /\ t.told = tx[r].told
    BY <2>1 DEF BusyTx
  <2>4. CurrentFor(t)
    <3>1. PrivateRow(t, rows[c.order]) = PrivateRow(tx[r], rows[c.order])
      BY <2>1, <2>3 DEF PrivateRow, Creates
    <3>2. t.boarded = 1 /\ t.told = <<>>
      BY <2>1, <2>3 DEF CurrentFor
    <3> HIDE DEF t
    <3> QED
      BY <2>1, <2>3, <3>1, <3>2 DEF CurrentFor, Creates, Owns
  <2>5. \A q \in Requests \ { r } : Owns(tx[q]) => Order(q) # t.call.order
    BY <2>1, <2>3, StillAlone DEF Owns
  <2> HIDE DEF t
  <2> QED
    BY <1>0, <2>2, <2>4, <2>5, PrivateStepIsolation
<1>8. ASSUME NEW r \in Requests, EnqueueOutbox(r) PROVE Isolation'
  <2> DEFINE c == tx[r].call
             t == [tx[r] EXCEPT !.pc = "ready", !.told = Append(@, AnnouncementOf(c))]
  <2>1. /\ tx[r] \in BusyTx /\ CurrentFor(tx[r]) /\ c \in Calls
        /\ tx[r].pc = "boarded" \/ (tx[r].pc = "written" /\ c.kind = "web")
    BY <1>8, BusyFacts DEF EnqueueOutbox
  <2>2. tx' = [tx EXCEPT ![r] = t] /\ UNCHANGED rows
    BY <1>8 DEF EnqueueOutbox
  <2>3. /\ t.pc = "ready" /\ t.call = c /\ t.row = tx[r].row
        /\ t.boarded = tx[r].boarded /\ t.told = Append(tx[r].told, AnnouncementOf(c))
    BY <2>1 DEF BusyTx
  <2>4. CurrentFor(t)
    <3>1. c.to # "SHIPPING" /\ (Creates(t) \/ c.to = "PAID")
      <4>1. CASE tx[r].pc = "boarded"
        BY <2>1, <4>1 DEF CurrentFor
      <4>2. CASE c.kind = "web"
        BY <2>1, <2>3, <4>2, CallFields DEF Creates, Channels, InitialStatusForChannel
      <4> QED
        BY <2>1, <4>1, <4>2
    <3>2. PrivateRow(t, rows[c.order]) = PrivateRow(tx[r], rows[c.order])
      BY <2>1, <2>3, <3>1 DEF PrivateRow, Creates
    <3>3. t.told = << AnnouncementOf(c) >>
      <4>1. tx[r].told = <<>>
        BY <2>1 DEF CurrentFor
      <4>2. Append(<<>>, AnnouncementOf(c)) = << AnnouncementOf(c) >>
        OBVIOUS
      <4> QED
        BY <2>3, <4>1, <4>2
    <3>4. t.boarded = (IF c.to = "PAID" THEN 1 ELSE 0)
      <4>1. CASE tx[r].pc = "boarded"
        BY <2>1, <2>3, <4>1 DEF CurrentFor
      <4>2. CASE tx[r].pc = "written" /\ c.kind = "web"
        <5>1. c.to = "PENDING_CONFIRM"
          BY <2>1, <4>2, CallFields DEF Channels, InitialStatusForChannel
        <5> QED
          BY <2>1, <2>3, <4>2, <5>1 DEF CurrentFor
      <4> QED
        BY <2>1, <4>1, <4>2
    <3> HIDE DEF t
    <3> QED
      BY <2>1, <2>3, <3>1, <3>2, <3>3, <3>4 DEF CurrentFor, Creates, Owns
  <2>5. \A q \in Requests \ { r } : Owns(tx[q]) => Order(q) # t.call.order
    BY <2>1, <2>3, StillAlone DEF Owns
  <2> HIDE DEF t
  <2> QED
    BY <1>0, <2>2, <2>4, <2>5, PrivateStepIsolation
<1>9. ASSUME NEW r \in Requests, Commit(r) PROVE Isolation'
  BY <1>0, <1>9, CommitIsolation
<1>10. ASSUME NEW r \in Requests, Reject(r) \/ Abort(r) PROVE Isolation'
  <2>1. tx' = [tx EXCEPT ![r] = Idle] /\ UNCHANGED rows
    BY <1>10 DEF Reject, Abort
  <2>2. Idle.pc = "idle" /\ ~ Owns(Idle)
    BY DEF Idle, Owns
  <2> QED
    BY <1>0, <2>1, <2>2, PrivateStepIsolation
<1> QED
  BY <1>1, <1>2, <1>3, <1>4, <1>5, <1>6, <1>7, <1>8, <1>9, <1>10 DEF Next, Proceed

\* While a request checks an order and writes it, no other request can commit a
\* change to that order, and what it writes derives from the committed row.
THEOREM IsolationInvariant == Spec => [](OneWriterPerOrder /\ WritesAreCurrent)
<1>1. Isolation => OneWriterPerOrder /\ WritesAreCurrent
  BY DEF Isolation
<1> QED
  BY InitIsolation, NextIsolation, <1>1, PTL DEF Spec

\* SELECT .. FOR UPDATE at the head of every transition: an order has one
\* transaction between its lock and its commit, for any number of requests.
THEOREM OneWriter == Spec => []OneWriterPerOrder
<1>1. Isolation => OneWriterPerOrder
  BY DEF Isolation
<1> QED
  BY InitIsolation, NextIsolation, <1>1, PTL DEF Spec

-----------------------------------------------------------------------------
(* The trail of one order, and everything that must agree with it          *)

ColumnsOf(row) ==
    /\ row.confirmed   <=> Visited(row.history, "PAID")
    /\ row.refundProof <=> Visited(row.history, "REFUNDED")
    /\ row.artifacts   <=> Visited(row.history, "SHIPPING")

MoneyOf(h) ==
    \A i \in 2 .. Len(h) : <<h[i].from, h[i].to>> \in OwnerOnlyEdges => h[i].by = "owner"

AnnouncedFor(h) ==
    IF Reconciled(h) THEN << "order.created", "order.paid" >> ELSE << "order.created" >>

\* A live order: its row, the fillings of its board and its outbox rows.
Consistent(row, n, events) ==
    /\ Replays(row.history)
    /\ row.status = TrailStatus(row.history)
    /\ ColumnsOf(row)
    /\ n = (IF Visited(row.history, "PAID") THEN 1 ELSE 0)
    /\ events = AnnouncedFor(row.history)
    /\ MoneyOf(row.history)

LEMMA AppendFacts ==
  ASSUME NEW S, NEW h \in Seq(S), NEW e \in S
  PROVE  /\ Append(h, e) \in Seq(S) /\ Len(Append(h, e)) = Len(h) + 1
         /\ Len(h) \in Nat
         /\ Append(h, e)[Len(h) + 1] = e
         /\ \A i \in 1 .. Len(h) : Append(h, e)[i] = h[i]
  OBVIOUS

LEMMA PairOfSingletons ==
  ASSUME NEW S, NEW a \in S, NEW b \in S
  PROVE  << a >> \o << b >> = << a, b >>
<1> DEFINE s == << a >> \o << b >>
           t == << a, b >>
<1>1. << a >> \in Seq(S) /\ << b >> \in Seq(S) /\ t \in Seq(S)
  OBVIOUS
<1>2. /\ s \in Seq(S) /\ Len(s) = 2
      /\ \A i \in 1 .. 2 : s[i] = IF i <= 1 THEN << a >>[i] ELSE << b >>[i - 1]
  BY <1>1, ConcatProperties
<1>3. s[1] = a /\ s[2] = b
  <2>1. s[1] = << a >>[1] /\ s[2] = << b >>[2 - 1]
    BY <1>2
  <2> QED
    BY <2>1
<1>4. Len(t) = 2 /\ t[1] = a /\ t[2] = b
  OBVIOUS
<1> HIDE DEF s, t
<1>5. \A i \in 1 .. Len(s) : s[i] = t[i]
  BY <1>2, <1>3, <1>4
<1>6. s = t
  BY <1>1, <1>2, <1>4, <1>5, SeqEqual
<1> QED
  BY <1>6 DEF s, t

\* A fresh order agrees with itself, on both channels.
LEMMA CreatedConsistent ==
  ASSUME NEW c \in Calls, c.kind \in Channels
  PROVE  Consistent(CreatedRow(c), IF c.to = "PAID" THEN 1 ELSE 0, << "order.created" >>)
<1> DEFINE e == GenesisEvent(c.to, c.by)
           h == << e >>
           row == CreatedRow(c)
<1>1. /\ row.history = h /\ row.status = c.to
      /\ row.refundProof = FALSE /\ row.artifacts = FALSE
      /\ row.confirmed = (c.to = "PAID")
  BY DEF CreatedRow, Absent
<1>2. Len(h) = 1 /\ h[1] = e /\ e.to = c.to /\ e.from = Unborn /\ h # <<>>
  BY DEF GenesisEvent
<1>3. c.to \in { "PAID", "PENDING_CONFIRM" }
  BY CallFields DEF InitialStatusForChannel
<1>4. Replays(h) /\ TrailStatus(h) = c.to
  BY <1>2 DEF Replays, TrailStatus
<1>5. \A s : Visited(h, s) <=> c.to = s
  BY <1>2 DEF Visited
<1>6. ~ Reconciled(h) /\ MoneyOf(h)
  BY <1>2 DEF Reconciled, MoneyOf
<1>7. ColumnsOf(row)
  <2>1. Visited(h, "PAID") <=> c.to = "PAID"
    BY <1>5
  <2>2. ~ Visited(h, "REFUNDED") /\ ~ Visited(h, "SHIPPING")
    BY <1>3, <1>5
  <2> HIDE DEF h, row
  <2> QED
    BY <1>1, <2>1, <2>2, Zenon DEF ColumnsOf
<1>8. AnnouncedFor(h) = << "order.created" >>
  BY <1>6 DEF AnnouncedFor
<1> QED
  <2>1. Consistent(row, IF c.to = "PAID" THEN 1 ELSE 0, << "order.created" >>)
    <3> HIDE DEF h, row
    <3> QED
      BY <1>1, <1>4, <1>5, <1>6, <1>7, <1>8 DEF Consistent
  <2> QED
    BY <2>1

\* One event appended to a trail, in the terms the consistency is stated in.
LEMMA AppendToTrail ==
  ASSUME NEW h \in Seq(Event), NEW e \in Event, Replays(h),
         e.from = TrailStatus(h), <<e.from, e.to>> \in AllowedEdges
  PROVE  LET g == Append(h, e)
         IN  /\ Replays(g) /\ TrailStatus(g) = e.to
             /\ \A s : Visited(g, s) <=> Visited(h, s) \/ e.to = s
             /\ Reconciled(g) <=> Reconciled(h) \/ e.to = "PAID"
             /\ MoneyOf(h) /\ (<<e.from, e.to>> \in OwnerOnlyEdges => e.by = "owner")
                   => MoneyOf(g)
<1> DEFINE g == Append(h, e)
           n == Len(h)
<1>1. /\ g \in Seq(Event) /\ Len(g) = n + 1 /\ n \in Nat /\ g[n + 1] = e
      /\ \A i \in 1 .. n : g[i] = h[i]
  BY AppendFacts
<1>2. n >= 1 /\ TrailStatus(h) = h[n].to
  BY DEF Replays, TrailStatus
<1> HIDE DEF g, n
<1>3. g # <<>> /\ TrailStatus(g) = e.to
  BY <1>1, <1>2 DEF TrailStatus
<1>4. Replays(g)
  <2>1. g[1].from = Unborn
    BY <1>1, <1>2 DEF Replays
  <2>2. ASSUME NEW i \in 2 .. n + 1
        PROVE  g[i].from = g[i - 1].to /\ <<g[i].from, g[i].to>> \in AllowedEdges
    <3>1. CASE i = n + 1
      BY <1>1, <1>2, <3>1
    <3>2. CASE i \in 2 .. n
      <4>1. h[i].from = h[i - 1].to /\ <<h[i].from, h[i].to>> \in AllowedEdges
        BY <3>2 DEF Replays, n
      <4>2. g[i] = h[i] /\ g[i - 1] = h[i - 1]
        BY <1>1, <3>2
      <4> QED
        BY <4>1, <4>2
    <3> QED
      BY <1>1, <3>1, <3>2
  <2> QED
    BY <1>1, <1>3, <2>1, <2>2 DEF Replays
<1>5. ASSUME NEW s PROVE Visited(g, s) <=> Visited(h, s) \/ e.to = s
  <2>1. Visited(g, s) => Visited(h, s) \/ e.to = s
    <3> SUFFICES ASSUME NEW i \in 1 .. n + 1, g[i].to = s PROVE Visited(h, s) \/ e.to = s
      BY <1>1 DEF Visited
    <3>1. i = n + 1 \/ i \in 1 .. n
      BY <1>1
    <3> QED
      BY <1>1, <3>1 DEF Visited, n
  <2>2. Visited(h, s) => Visited(g, s)
    <3> SUFFICES ASSUME NEW i \in 1 .. n, h[i].to = s PROVE Visited(g, s)
      BY DEF Visited, n
    <3>1. i \in 1 .. Len(g) /\ g[i].to = s
      BY <1>1
    <3> QED
      BY <3>1 DEF Visited
  <2>3. e.to = s => Visited(g, s)
    <3>1. n + 1 \in 1 .. Len(g)
      BY <1>1
    <3> QED
      BY <1>1, <3>1 DEF Visited
  <2> QED
    BY <2>1, <2>2, <2>3
<1>6. Reconciled(g) <=> Reconciled(h) \/ e.to = "PAID"
  <2>1. Reconciled(g) => Reconciled(h) \/ e.to = "PAID"
    <3> SUFFICES ASSUME NEW i \in 2 .. n + 1, g[i].to = "PAID"
                 PROVE  Reconciled(h) \/ e.to = "PAID"
      BY <1>1 DEF Reconciled
    <3>1. i = n + 1 \/ i \in 2 .. n
      BY <1>1
    <3> QED
      BY <1>1, <3>1 DEF Reconciled, n
  <2>2. Reconciled(h) => Reconciled(g)
    <3> SUFFICES ASSUME NEW i \in 2 .. n, h[i].to = "PAID" PROVE Reconciled(g)
      BY DEF Reconciled, n
    <3>1. i \in 2 .. Len(g) /\ g[i].to = "PAID"
      BY <1>1
    <3> QED
      BY <3>1 DEF Reconciled
  <2>3. e.to = "PAID" => Reconciled(g)
    <3>1. n + 1 \in 2 .. Len(g)
      BY <1>1, <1>2
    <3> QED
      BY <1>1, <3>1 DEF Reconciled
  <2> QED
    BY <2>1, <2>2, <2>3
<1>7. MoneyOf(h) /\ (<<e.from, e.to>> \in OwnerOnlyEdges => e.by = "owner") => MoneyOf(g)
  <2> SUFFICES ASSUME MoneyOf(h), <<e.from, e.to>> \in OwnerOnlyEdges => e.by = "owner",
                      NEW i \in 2 .. n + 1, <<g[i].from, g[i].to>> \in OwnerOnlyEdges
               PROVE  g[i].by = "owner"
    BY <1>1 DEF MoneyOf
  <2>1. i = n + 1 \/ i \in 2 .. n
    BY <1>1
  <2>2. CASE i = n + 1
    BY <1>1, <2>2
  <2>3. CASE i \in 2 .. n
    BY <1>1, <2>3 DEF MoneyOf, n
  <2> QED
    BY <2>1, <2>2, <2>3
<1> QED
  BY <1>3, <1>4, <1>5, <1>6, <1>7 DEF g

\* No edge leads back to PENDING_CONFIRM: an order in it has only its genesis.
LEMMA PendingIsFresh ==
  ASSUME NEW h \in Seq(Event), Replays(h), TrailStatus(h) = "PENDING_CONFIRM"
  PROVE  ~ Visited(h, "PAID") /\ ~ Reconciled(h)
<1>1. Len(h) \in Nat /\ Len(h) >= 1 /\ h[Len(h)].to = "PENDING_CONFIRM"
  BY DEF Replays, TrailStatus
<1>2. \A from : <<from, "PENDING_CONFIRM">> \notin AllowedEdges
  BY DEF AllowedEdges
<1>3. ~ (Len(h) >= 2)
  <2> SUFFICES ASSUME Len(h) >= 2 PROVE FALSE
    OBVIOUS
  <2>1. <<h[Len(h)].from, h[Len(h)].to>> \in AllowedEdges
    BY <1>1 DEF Replays
  <2> QED
    BY <1>1, <1>2, <2>1
<1>4. Len(h) = 1
  <2>1. \A n \in Nat : n >= 1 /\ ~ (n >= 2) => n = 1
    OBVIOUS
  <2>2. Len(h) \in Nat /\ Len(h) >= 1 /\ ~ (Len(h) >= 2)
    BY <1>1, <1>3
  <2> QED
    BY <2>1, <2>2, Zenon
<1> QED
  BY <1>1, <1>4 DEF Visited, Reconciled

\* The row a transition publishes.
MovedRow(row, c) ==
    IF c.to = "SHIPPING" THEN [ AdvancedRow(row, c) EXCEPT !.artifacts = TRUE ]
    ELSE AdvancedRow(row, c)

LEMMA MovedRowFields ==
  ASSUME NEW row \in Row, NEW c \in Calls
  PROVE  LET m == MovedRow(row, c)
         IN  /\ m.status = c.to
             /\ m.history = Append(row.history,
                                   TransitionEvent(row.status, c.to, c.by, c.papers))
             /\ m.confirmed = (row.confirmed \/ c.to = "PAID")
             /\ m.refundProof = (row.refundProof \/ c.to = "REFUNDED")
             /\ m.artifacts = IF c.to = "SHIPPING" THEN TRUE ELSE row.artifacts
<1> DEFINE g == Append(row.history, TransitionEvent(row.status, c.to, c.by, c.papers))
           paid == (row.confirmed \/ c.to = "PAID")
           refunded == (row.refundProof \/ c.to = "REFUNDED")
<1>1. AdvancedRow(row, c) = [ row EXCEPT !.status = c.to, !.history = g,
                                         !.confirmed = paid, !.refundProof = refunded ]
  BY DEF AdvancedRow
<1> HIDE DEF g, paid, refunded
<1>2. LET a == AdvancedRow(row, c)
      IN  /\ a.status = c.to /\ a.history = g /\ a.confirmed = paid
          /\ a.refundProof = refunded /\ a.artifacts = row.artifacts
          /\ DOMAIN a = DOMAIN row /\ "artifacts" \in DOMAIN row
  BY <1>1 DEF Row
<1>3. LET m == MovedRow(row, c)
      IN  /\ m.status = c.to /\ m.history = g /\ m.confirmed = paid
          /\ m.refundProof = refunded
          /\ m.artifacts = IF c.to = "SHIPPING" THEN TRUE ELSE row.artifacts
  <2> HIDE DEF AdvancedRow
  <2> DEFINE a == AdvancedRow(row, c)
  <2>0. a \in Row
    BY AdvancedRowType
  <2>1. CASE c.to = "SHIPPING"
    <3>1. MovedRow(row, c) = [ a EXCEPT !.artifacts = TRUE ]
      BY <2>1 DEF MovedRow
    <3> HIDE DEF a
    <3>2. LET m == [ a EXCEPT !.artifacts = TRUE ]
          IN  /\ m.status = a.status /\ m.history = a.history /\ m.confirmed = a.confirmed
              /\ m.refundProof = a.refundProof /\ m.artifacts = TRUE
      BY <2>0 DEF Row
    <3> QED
      BY <1>2, <2>1, <3>1, <3>2 DEF a
  <2>2. CASE c.to # "SHIPPING"
    BY <1>2, <2>2 DEF MovedRow
  <2> QED
    BY <2>1, <2>2
<1> QED
  BY <1>3 DEF g, paid, refunded

\* The event of a legal transition: who the guards let through is who is recorded.
LEMMA LegalEvent ==
  ASSUME NEW row \in Row, NEW c \in Calls, c.kind = "transition", PassesBoundary(c),
         Accepts(row.status, c.to, RoleOf(c), c.papers)
  PROVE  LET e == TransitionEvent(row.status, c.to, c.by, c.papers)
         IN  /\ e \in Event /\ e.from = row.status /\ e.to = c.to /\ e.by = c.by
             /\ <<e.from, e.to>> \in AllowedEdges
             /\ <<e.from, e.to>> \in OwnerOnlyEdges => e.by = "owner"
<1> DEFINE e == TransitionEvent(row.status, c.to, c.by, c.papers)
<1>1. e \in Event
  BY CallFields, TransitionEventType DEF Row
<1>2. e.from = row.status /\ e.to = c.to /\ e.by = c.by
  BY DEF TransitionEvent
<1>3. <<row.status, c.to>> \in AllowedEdges
  BY DEF Accepts, CanTransition
<1>4. <<row.status, c.to>> \in OwnerOnlyEdges => RoleOf(c) = "owner"
  BY DEF Accepts, CanTransition, RoleAllowed
<1>5. RoleOf(c) = "owner" => c.by = "owner"
  BY DEF RoleOf, PassesBoundary, TransitionBoundaryAccepts
<1> HIDE DEF e
<1> QED
  BY <1>1, <1>2, <1>3, <1>4, <1>5 DEF e

\* A transition takes a consistent order to a consistent order.
LEMMA MovedConsistent ==
  ASSUME NEW row \in Row, NEW c \in Calls, NEW n, NEW events,
         c.kind = "transition", PassesBoundary(c), Consistent(row, n, events),
         Accepts(row.status, c.to, RoleOf(c), c.papers)
  PROVE  Consistent(MovedRow(row, c),
                    n + (IF c.to = "PAID" THEN 1 ELSE 0),
                    events \o (IF c.to = "PAID" THEN << "order.paid" >> ELSE <<>>))
<1> DEFINE h == row.history
           e == TransitionEvent(row.status, c.to, c.by, c.papers)
           g == Append(h, e)
           m == MovedRow(row, c)
<1>0. h \in Seq(Event) /\ Replays(h) /\ row.status = TrailStatus(h) /\ ColumnsOf(row)
      /\ MoneyOf(h)
  BY DEF Row, Consistent
<1>1. /\ e \in Event /\ e.from = row.status /\ e.to = c.to
      /\ <<e.from, e.to>> \in AllowedEdges
      /\ <<e.from, e.to>> \in OwnerOnlyEdges => e.by = "owner"
  BY LegalEvent
<1>2. /\ m.status = c.to /\ m.history = g
      /\ m.confirmed = (row.confirmed \/ c.to = "PAID")
      /\ m.refundProof = (row.refundProof \/ c.to = "REFUNDED")
      /\ m.artifacts = IF c.to = "SHIPPING" THEN TRUE ELSE row.artifacts
  BY MovedRowFields
<1> HIDE DEF e, m
<1>3. /\ Replays(g) /\ TrailStatus(g) = e.to /\ MoneyOf(g)
      /\ \A s : Visited(g, s) <=> Visited(h, s) \/ e.to = s
      /\ Reconciled(g) <=> Reconciled(h) \/ e.to = "PAID"
  BY <1>0, <1>1, AppendToTrail
<1> HIDE DEF h, g
<1>4. ColumnsOf(m)
  <2>1. /\ row.confirmed <=> Visited(h, "PAID")
        /\ row.refundProof <=> Visited(h, "REFUNDED")
        /\ row.artifacts <=> Visited(h, "SHIPPING")
    BY <1>0 DEF ColumnsOf, h
  <2>2. m.confirmed <=> Visited(g, "PAID")
    BY <1>1, <1>2, <1>3, <2>1, Zenon
  <2>3. m.refundProof <=> Visited(g, "REFUNDED")
    BY <1>1, <1>2, <1>3, <2>1, Zenon
  <2>4. m.artifacts <=> Visited(g, "SHIPPING")
    <3>1. CASE c.to = "SHIPPING"
      <4>1. m.artifacts = TRUE
        BY <1>2, <3>1
      <4> QED
        BY <1>1, <1>3, <3>1, <4>1, Zenon
    <3>2. CASE c.to # "SHIPPING"
      <4>1. m.artifacts = row.artifacts
        BY <1>2, <3>2
      <4> QED
        BY <1>1, <1>3, <2>1, <3>2, <4>1, Zenon
    <3> QED
      BY <3>1, <3>2
  <2> QED
    BY <1>2, <2>2, <2>3, <2>4, Zenon DEF ColumnsOf
<1>5. CASE c.to = "PAID"
  <2>1. row.status = "PENDING_CONFIRM"
    BY <1>1, <1>5 DEF AllowedEdges
  <2>2. ~ Visited(h, "PAID") /\ ~ Reconciled(h)
    BY <1>0, <2>1, PendingIsFresh DEF h
  <2>3. n = 0 /\ events = << "order.created" >>
    BY <2>2 DEF Consistent, AnnouncedFor, h
  <2>4. Visited(g, "PAID") /\ Reconciled(g)
    BY <1>1, <1>3, <1>5
  <2>5. << "order.created" >> \o << "order.paid" >> = << "order.created", "order.paid" >>
    <3>1. "order.created" \in EventTypes /\ "order.paid" \in EventTypes
      BY DEF EventTypes
    <3> QED
      BY <3>1, PairOfSingletons
  <2> QED
    BY <1>1, <1>2, <1>3, <1>4, <1>5, <2>3, <2>4, <2>5 DEF Consistent, AnnouncedFor, m
<1>6. CASE c.to # "PAID"
  <2>1. (Visited(g, "PAID") <=> Visited(h, "PAID")) /\ (Reconciled(g) <=> Reconciled(h))
    BY <1>1, <1>3, <1>6
  <2>2. n = (IF Visited(h, "PAID") THEN 1 ELSE 0) /\ events = AnnouncedFor(h)
    BY DEF Consistent, h
  <2>3. n + 0 = n /\ events \o <<>> = events
    BY <2>2 DEF AnnouncedFor
  <2>4. n = (IF Visited(g, "PAID") THEN 1 ELSE 0) /\ events = AnnouncedFor(g)
    BY <2>1, <2>2 DEF AnnouncedFor
  <2> QED
    BY <1>1, <1>2, <1>3, <1>4, <1>6, <2>3, <2>4 DEF Consistent, m
<1> QED
  BY <1>5, <1>6

-----------------------------------------------------------------------------
(* The committed database                                                  *)

\* What the tables say about one order, before and after it exists.
OrderConsistent(row, n, events) ==
    IF row = Absent THEN n = 0 /\ events = <<>> ELSE Consistent(row, n, events)

DatabaseConsistent == \A o \in Orders : OrderConsistent(rows[o], boarded[o], told[o])

Inv == Isolation /\ DatabaseConsistent

LEMMA ConsistentIsPresent ==
  ASSUME NEW row, NEW n, NEW events, Consistent(row, n, events)
  PROVE  row # Absent
  BY DEF Consistent, Replays, Absent

\* The row a transaction commits is one CreateOrderTx or one AdvanceStatusTx
\* away from the row committed now.
LEMMA CommitCases ==
  ASSUME Isolation, NEW r \in Requests, tx[r].pc = "ready"
  PROVE  LET c == tx[r].call
             old == rows[c.order]
         IN  /\ c \in Calls /\ PassesBoundary(c)
             /\ tx[r].boarded = (IF c.to = "PAID" THEN 1 ELSE 0)
             /\ \/ /\ c.kind \in Channels /\ old = Absent
                   /\ tx[r].row = CreatedRow(c) /\ tx[r].told = << "order.created" >>
                \/ /\ c.kind = "transition" /\ old # Absent
                   /\ tx[r].row = MovedRow(old, c)
                   /\ Accepts(old.status, c.to, RoleOf(c), c.papers)
                   /\ tx[r].told = (IF c.to = "PAID" THEN << "order.paid" >> ELSE <<>>)
<1> DEFINE c == tx[r].call
           old == rows[c.order]
<1>1. c \in Calls /\ CurrentFor(tx[r])
  BY BusyFacts
<1>2. c.kind \in Channels \cup { "transition" }
  BY <1>1, CallFields
<1>3. /\ tx[r].row = PrivateRow(tx[r], old) /\ PassesBoundary(c)
      /\ tx[r].boarded = (IF c.to = "PAID" THEN 1 ELSE 0)
      /\ tx[r].told = (IF Creates(tx[r]) \/ c.to = "PAID"
                       THEN << AnnouncementOf(c) >> ELSE <<>>)
      /\ Creates(tx[r]) => old = Absent
      /\ ~ Creates(tx[r]) =>
            old # Absent /\ Accepts(old.status, c.to, RoleOf(c), c.papers)
  BY <1>1 DEF CurrentFor, Owns
<1>4. CASE c.kind \in Channels
  <2>1. Creates(tx[r]) /\ AnnouncementOf(c) = "order.created"
    BY <1>4 DEF Creates, AnnouncementOf, Channels
  <2>2. tx[r].row = CreatedRow(c)
    BY <1>3, <2>1, PrivateRowCases
  <2> QED
    BY <1>1, <1>3, <1>4, <2>1, <2>2
<1>5. CASE c.kind = "transition"
  <2>1. ~ Creates(tx[r]) /\ AnnouncementOf(c) = "order.paid"
    BY <1>5 DEF Creates, AnnouncementOf, Channels
  <2>2. tx[r].row = MovedRow(old, c)
    BY <1>3, <2>1, PrivateRowCases DEF MovedRow
  <2>3. tx[r].told = (IF c.to = "PAID" THEN << "order.paid" >> ELSE <<>>)
    BY <1>3, <2>1
  <2> QED
    BY <1>1, <1>3, <1>5, <2>1, <2>2, <2>3
<1> QED
  BY <1>2, <1>4, <1>5

LEMMA CommitConsistent ==
  ASSUME Inv, NEW r \in Requests, Commit(r)
  PROVE  DatabaseConsistent'
<1> DEFINE c == tx[r].call
           o == c.order
<1>1. /\ tx[r].pc = "ready" /\ tx[r] \in BusyTx /\ o \in Orders /\ o = Order(r)
  BY BusyFacts DEF Commit, Inv
<1>2. /\ rows'[o] = tx[r].row /\ boarded'[o] = boarded[o] + tx[r].boarded
      /\ told'[o] = told[o] \o tx[r].told
      /\ \A p \in Orders \ { o } :
            rows'[p] = rows[p] /\ boarded'[p] = boarded[p] /\ told'[p] = told[p]
  BY <1>1 DEF Commit, Inv, Isolation, TypeOK
<1>3. OrderConsistent(rows[o], boarded[o], told[o])
  BY <1>1 DEF Inv, DatabaseConsistent
<1>4. Consistent(rows'[o], boarded'[o], told'[o])
  <2>1. /\ c \in Calls /\ PassesBoundary(c)
        /\ tx[r].boarded = (IF c.to = "PAID" THEN 1 ELSE 0)
    BY <1>1, CommitCases DEF Inv
  <2>2. CASE /\ c.kind \in Channels /\ rows[o] = Absent
             /\ tx[r].row = CreatedRow(c) /\ tx[r].told = << "order.created" >>
    <3>1. boarded[o] = 0 /\ told[o] = <<>>
      BY <1>3, <2>2 DEF OrderConsistent
    <3>2. boarded'[o] = (IF c.to = "PAID" THEN 1 ELSE 0)
      BY <1>2, <2>1, <3>1
    <3>3. told'[o] = << "order.created" >>
      <4>1. told'[o] = <<>> \o << "order.created" >>
        BY <1>2, <2>2, <3>1
      <4>2. << "order.created" >> \in Seq(EventTypes)
        BY DEF EventTypes
      <4> QED
        BY <4>1, <4>2, ConcatEmptySeq
    <3> QED
      BY <1>2, <2>1, <2>2, <3>2, <3>3, CreatedConsistent
  <2>3. CASE /\ c.kind = "transition" /\ rows[o] # Absent
             /\ tx[r].row = MovedRow(rows[o], c)
             /\ Accepts(rows[o].status, c.to, RoleOf(c), c.papers)
             /\ tx[r].told = (IF c.to = "PAID" THEN << "order.paid" >> ELSE <<>>)
    <3>1. Consistent(rows[o], boarded[o], told[o]) /\ rows[o] \in Row
      BY <1>1, <1>3, <2>3 DEF OrderConsistent, Inv, Isolation, TypeOK
    <3>2. Consistent(MovedRow(rows[o], c),
                     boarded[o] + (IF c.to = "PAID" THEN 1 ELSE 0),
                     told[o] \o (IF c.to = "PAID" THEN << "order.paid" >> ELSE <<>>))
      BY <2>1, <2>3, <3>1, MovedConsistent
    <3>3. /\ rows'[o] = MovedRow(rows[o], c)
          /\ boarded'[o] = boarded[o] + (IF c.to = "PAID" THEN 1 ELSE 0)
          /\ told'[o] = told[o] \o (IF c.to = "PAID" THEN << "order.paid" >> ELSE <<>>)
      BY <1>2, <2>1, <2>3
    <3> QED
      BY <3>2, <3>3
  <2> QED
    BY <1>1, <2>2, <2>3, CommitCases DEF Inv
<1>5. OrderConsistent(rows'[o], boarded'[o], told'[o])
  BY <1>4, ConsistentIsPresent DEF OrderConsistent
<1>6. \A p \in Orders \ { o } : OrderConsistent(rows'[p], boarded'[p], told'[p])
  BY <1>2 DEF Inv, DatabaseConsistent
<1> QED
  BY <1>5, <1>6 DEF DatabaseConsistent

LEMMA InitInv == Init => Inv
<1> SUFFICES ASSUME Init PROVE DatabaseConsistent
  BY InitIsolation DEF Inv
<1> QED
  BY DEF Init, DatabaseConsistent, OrderConsistent

LEMMA NextInv == Inv /\ [Next]_vars => Inv'
<1> SUFFICES ASSUME Inv, [Next]_vars PROVE DatabaseConsistent'
  BY NextIsolation DEF Inv
<1>1. CASE UNCHANGED <<rows, boarded, told>>
  BY <1>1 DEF Inv, DatabaseConsistent
<1>2. ASSUME NEW r \in Requests, Commit(r) PROVE DatabaseConsistent'
  BY <1>2, CommitConsistent
<1> QED
  BY <1>1, <1>2 DEF Next, Proceed, Receive, InsertOrder, Lock, AdvanceStatus,
                    SetShippingArtifacts, CreatePrintJobs, EnqueueOutbox, Reject, Abort, vars

LEMMA InvHolds == Spec => []Inv
  BY InitInv, NextInv, PTL DEF Spec

\* Per order, the invariant gives each of the table properties.
LEMMA InvImplies ==
  Inv => /\ TrailReplays /\ ColumnsMatchTrail /\ BoardedOncePaid
         /\ AnnouncedOnce /\ MoneyMovedByOwner
<1> SUFFICES ASSUME Inv PROVE /\ TrailReplays /\ ColumnsMatchTrail /\ BoardedOncePaid
                              /\ AnnouncedOnce /\ MoneyMovedByOwner
  OBVIOUS
<1>1. \A o \in Orders : OrderConsistent(rows[o], boarded[o], told[o])
  BY DEF Inv, DatabaseConsistent
<1>2. /\ Absent.history = <<>> /\ Absent.confirmed = FALSE
      /\ Absent.refundProof = FALSE /\ Absent.artifacts = FALSE
  BY DEF Absent
<1>3. \A s : ~ Visited(<<>>, s)
  BY DEF Visited
<1>4. TrailReplays
  BY <1>1 DEF OrderConsistent, Consistent, TrailReplays
<1>5. ColumnsMatchTrail
  <2> SUFFICES ASSUME NEW o \in Orders PROVE ColumnsOf(rows[o])
    BY Zenon DEF ColumnsMatchTrail, ColumnsOf
  <2>1. CASE rows[o] = Absent
    <3>1. ColumnsOf(Absent)
      BY <1>2, <1>3, Zenon DEF ColumnsOf
    <3> QED
      BY <2>1, <3>1
  <2>2. CASE rows[o] # Absent
    BY <1>1, <2>2, Zenon DEF OrderConsistent, Consistent
  <2> QED
    BY <2>1, <2>2
<1>6. BoardedOncePaid
  BY <1>1, <1>2, <1>3 DEF OrderConsistent, Consistent, BoardedOncePaid
<1>7. AnnouncedOnce
  BY <1>1 DEF OrderConsistent, Consistent, AnnouncedOnce, AnnouncedFor
<1>8. MoneyMovedByOwner
  <2> SUFFICES ASSUME NEW o \in Orders PROVE MoneyOf(rows[o].history)
    BY DEF MoneyMovedByOwner, MoneyOf
  <2>1. CASE rows[o] = Absent
    BY <1>2, <2>1 DEF MoneyOf
  <2>2. CASE rows[o] # Absent
    BY <1>1, <2>2 DEF OrderConsistent, Consistent
  <2> QED
    BY <2>1, <2>2
<1> QED
  BY <1>4, <1>5, <1>6, <1>7, <1>8

\* ReplayStatus accepts every committed trail and gives the status column.
THEOREM TrailIsReplayable == Spec => []TrailReplays
  BY InvHolds, InvImplies, PTL

\* The denormalized columns never diverge from the audit trail.
THEOREM ColumnsAgree == Spec => []ColumnsMatchTrail
  BY InvHolds, InvImplies, PTL

\* The fulfilment board is filled exactly once, by whichever seam made it PAID.
THEOREM BoardFilledOnce == Spec => []BoardedOncePaid
  BY InvHolds, InvImplies, PTL

\* One order.created per order, then at most one order.paid, on reconcile only.
THEOREM AnnouncementsAreExact == Spec => []AnnouncedOnce
  BY InvHolds, InvImplies, PTL

\* The trail never attributes a movement of money to anybody but the owner.
THEOREM OwnerMovesMoney == Spec => []MoneyMovedByOwner
  BY InvHolds, InvImplies, PTL

-----------------------------------------------------------------------------
(***************************************************************************)
(* The order book: every commit of an order transaction is one step of      *)
(* OrderBook, and every other step is invisible there, for any set of orders *)
(* and of requests.                                                        *)
(***************************************************************************)
trailOf == [o \in Orders |-> rows[o].history]

\* The instance's copies of the transition rules are the rules themselves.
LEMMA SameRules ==
  /\ \A s, b : Book!GenesisEvent(s, b) = GenesisEvent(s, b)
  /\ \A f, t, b, p : Book!TransitionEvent(f, t, b, p) = TransitionEvent(f, t, b, p)
  /\ \A f, t, b, p : Book!Accepts(f, t, b, p) = Accepts(f, t, b, p)
  /\ \A f, t, b : Book!CanTransition(f, t, b) = CanTransition(f, t, b)
  /\ \A h : Book!TrailStatus(h) = TrailStatus(h)
  /\ \A f : Book!Successors(f) = Successors(f)
  /\ \A k : Book!InitialStatusForChannel(k) = InitialStatusForChannel(k)
  /\ Book!Channels = Channels /\ Book!Actors = Actors /\ Book!Roles = Roles
  /\ Book!Recorded = Recorded /\ Book!Guest = Guest
<1>1. \A s, b : Book!GenesisEvent(s, b) = GenesisEvent(s, b)
  BY DEF GenesisEvent, Book!GenesisEvent, Unborn, Book!Unborn
<1>2. Book!Recorded = Recorded
  BY DEF Recorded, Book!Recorded
<1>3. \A f, t, b, p : Book!TransitionEvent(f, t, b, p) = TransitionEvent(f, t, b, p)
  BY <1>2 DEF TransitionEvent, Book!TransitionEvent
<1>4. Book!AllowedEdges = AllowedEdges /\ Book!OwnerOnlyEdges = OwnerOnlyEdges
  BY DEF AllowedEdges, Book!AllowedEdges, OwnerOnlyEdges, Book!OwnerOnlyEdges
<1>5. \A f, t, b : Book!CanTransition(f, t, b) = CanTransition(f, t, b)
  BY <1>4 DEF CanTransition, Book!CanTransition, RoleAllowed, Book!RoleAllowed
<1>6. \A t : Book!PaperworkFor(t) = PaperworkFor(t)
  BY DEF PaperworkFor, Book!PaperworkFor, ReasonRequired, Book!ReasonRequired
<1>7. \A f, t, b, p : Book!Accepts(f, t, b, p) = Accepts(f, t, b, p)
  BY <1>5, <1>6 DEF Accepts, Book!Accepts
<1>8. \A h : Book!TrailStatus(h) = TrailStatus(h)
  BY DEF TrailStatus, Book!TrailStatus, Unborn, Book!Unborn
<1>9. \A f : Book!Successors(f) = Successors(f)
  BY <1>4 DEF Successors, Book!Successors, Statuses, Book!Statuses
<1>10. \A k : Book!InitialStatusForChannel(k) = InitialStatusForChannel(k)
  BY DEF InitialStatusForChannel, Book!InitialStatusForChannel
<1>11. /\ Book!Channels = Channels /\ Book!Actors = Actors /\ Book!Roles = Roles
       /\ Book!Guest = Guest
  BY DEF Channels, Book!Channels, Actors, Book!Actors, Roles, Book!Roles, Guest, Book!Guest
<1> QED
  BY <1>1, <1>2, <1>3, <1>5, <1>7, <1>8, <1>9, <1>10, <1>11

\* What a commit does to the three abstract variables.
LEMMA CommitOnBook ==
  ASSUME Inv, NEW r \in Requests, Commit(r)
  PROVE  LET c == tx[r].call
             o == c.order
         IN  /\ o \in Orders /\ tx[r].pc = "ready"
             /\ trailOf[o] = rows[o].history
             /\ trailOf' = [trailOf EXCEPT ![o] = tx[r].row.history]
             /\ boarded' = [boarded EXCEPT ![o] = boarded[o] + tx[r].boarded]
             /\ told' = [told EXCEPT ![o] = told[o] \o tx[r].told]
<1>1. /\ tx[r].pc = "ready" /\ Order(r) \in Orders /\ Order(r) = tx[r].call.order
  BY BusyFacts DEF Commit, Inv
<1>2. trailOf' = [trailOf EXCEPT ![Order(r)] = tx[r].row.history]
  BY <1>1 DEF Commit, trailOf, Inv, Isolation, TypeOK
<1> QED
  BY <1>1, <1>2 DEF Commit, trailOf

LEMMA BookOpenFits ==
  ASSUME NEW o \in Orders, NEW k \in Channels, NEW by \in Actors,
         k = "inbox" => by # Guest, trailOf[o] = <<>>,
         trailOf' = [trailOf EXCEPT ![o] = << GenesisEvent(InitialStatusForChannel(k), by) >>],
         boarded' = [boarded EXCEPT ![o] =
                        IF InitialStatusForChannel(k) = "PAID" THEN boarded[o] + 1 ELSE boarded[o]],
         told' = [told EXCEPT ![o] = Append(told[o], "order.created")]
  PROVE  Book!BookNext
<1>1. Book!Open(o, k, by)
  BY SameRules DEF Book!Open, trailOf
<1> QED
  BY <1>1, SameRules DEF Book!BookNext

LEMMA BookConfirmFits ==
  ASSUME NEW o \in Orders, CanTransition(TrailStatus(trailOf[o]), "PAID", "owner"),
         trailOf' = [trailOf EXCEPT ![o] = Append(trailOf[o],
             TransitionEvent(TrailStatus(trailOf[o]), "PAID", "owner", {}))],
         boarded' = [boarded EXCEPT ![o] = boarded[o] + 1],
         told' = [told EXCEPT ![o] = Append(told[o], "order.paid")]
  PROVE  Book!BookNext
<1>1. Book!ConfirmPayment(o)
  BY SameRules DEF Book!ConfirmPayment, trailOf
<1> QED
  BY <1>1 DEF Book!BookNext

LEMMA BookMoveFits ==
  ASSUME NEW o \in Orders, NEW by \in Roles, NEW papers \in SUBSET Recorded,
         NEW to \in Successors(TrailStatus(trailOf[o])), to # "PAID",
         Accepts(TrailStatus(trailOf[o]), to, by, papers),
         trailOf' = [trailOf EXCEPT ![o] = Append(trailOf[o],
             TransitionEvent(TrailStatus(trailOf[o]), to, by, papers))],
         UNCHANGED <<boarded, told>>
  PROVE  Book!BookNext
<1>1. Book!Move(o, to, by, papers)
  BY SameRules DEF Book!Move, trailOf
<1> QED
  BY <1>1, SameRules DEF Book!BookNext, trailOf

LEMMA ToldIsAppended ==
  ASSUME NEW s \in Seq(EventTypes), NEW e \in EventTypes
  PROVE  s \o << e >> = Append(s, e)
  BY AppendIsConcat

LEMMA CommitRefines ==
  ASSUME Inv, NEW r \in Requests, Commit(r)
  PROVE  Book!BookNext
<1> DEFINE c == tx[r].call
           o == c.order
           old == rows[o]
<1>1. /\ o \in Orders /\ tx[r].pc = "ready" /\ trailOf[o] = old.history
      /\ trailOf' = [trailOf EXCEPT ![o] = tx[r].row.history]
      /\ boarded' = [boarded EXCEPT ![o] = boarded[o] + tx[r].boarded]
      /\ told' = [told EXCEPT ![o] = told[o] \o tx[r].told]
  BY CommitOnBook
<1>2. /\ c \in Calls /\ PassesBoundary(c)
      /\ tx[r].boarded = (IF c.to = "PAID" THEN 1 ELSE 0)
  BY <1>1, CommitCases DEF Inv
<1>3. /\ boarded \in [Orders -> Nat] /\ told \in [Orders -> Seq(EventTypes)]
      /\ old \in Row /\ OrderConsistent(old, boarded[o], told[o])
  BY <1>1 DEF Inv, Isolation, TypeOK, DatabaseConsistent
<1>6. boarded[o] + 0 = boarded[o]
  <2>1. PICK b \in Nat : b = boarded[o]
    BY <1>1, <1>3
  <2>2. b + 0 = b
    OBVIOUS
  <2> QED
    BY <2>1, <2>2
<1>4. CASE /\ c.kind \in Channels /\ old = Absent
           /\ tx[r].row = CreatedRow(c) /\ tx[r].told = << "order.created" >>
  <2>1. c.to = InitialStatusForChannel(c.kind) /\ c.by \in Actors
    BY <1>2, <1>4, CallFields
  <2>2. c.kind = "inbox" => c.by # Guest
    BY <1>2 DEF PassesBoundary, IntakeAccepts
  <2>3. trailOf[o] = <<>> /\ tx[r].row.history = << GenesisEvent(c.to, c.by) >>
    BY <1>1, <1>4 DEF Absent, CreatedRow
  <2>4. told[o] \o << "order.created" >> = Append(told[o], "order.created")
    <3>1. "order.created" \in EventTypes
      BY DEF EventTypes
    <3> QED
      BY <1>1, <1>3, <3>1, ToldIsAppended
  <2>5. boarded[o] + tx[r].boarded = (IF c.to = "PAID" THEN boarded[o] + 1 ELSE boarded[o])
    BY <1>2, <1>6
  <2>6. trailOf' = [trailOf EXCEPT ![o] = << GenesisEvent(InitialStatusForChannel(c.kind), c.by) >>]
    BY <1>1, <2>1, <2>3
  <2>7. boarded' = [boarded EXCEPT ![o] =
          IF InitialStatusForChannel(c.kind) = "PAID" THEN boarded[o] + 1 ELSE boarded[o]]
    BY <1>1, <2>1, <2>5
  <2>8. told' = [told EXCEPT ![o] = Append(told[o], "order.created")]
    BY <1>1, <1>4, <2>4
  <2>9. c.kind \in Channels /\ o \in Orders
    BY <1>1, <1>4
  <2> HIDE DEF o, c
  <2> QED
    BY <2>1, <2>2, <2>3, <2>6, <2>7, <2>8, <2>9, BookOpenFits
<1>5. CASE /\ c.kind = "transition" /\ old # Absent
           /\ tx[r].row = MovedRow(old, c)
           /\ Accepts(old.status, c.to, RoleOf(c), c.papers)
           /\ tx[r].told = (IF c.to = "PAID" THEN << "order.paid" >> ELSE <<>>)
  <2>1. old.status = TrailStatus(trailOf[o])
    BY <1>1, <1>3, <1>5 DEF OrderConsistent, Consistent
  <2>2. tx[r].row.history = Append(trailOf[o],
          TransitionEvent(TrailStatus(trailOf[o]), c.to, c.by, c.papers))
    BY <1>1, <1>2, <1>3, <1>5, <2>1, MovedRowFields
  <2>3. CASE c.to = "PAID"
    <3>1. c.by = "owner" /\ RoleOf(c) = "owner"
      BY <1>2, <1>5, <2>3 DEF PassesBoundary, TransitionBoundaryAccepts, RoleOf
    <3>2. TransitionEvent(old.status, c.to, c.by, c.papers)
            = TransitionEvent(old.status, "PAID", "owner", {})
      <4>1. c.papers = {}
        BY <1>2, <1>5, <2>3 DEF Calls, Examined, PaperworkFor, ReasonRequired
      <4> QED
        BY <2>3, <3>1, <4>1
    <3>3. CanTransition(TrailStatus(trailOf[o]), "PAID", "owner")
      BY <1>5, <2>1, <2>3, <3>1 DEF Accepts
    <3>4. told[o] \o << "order.paid" >> = Append(told[o], "order.paid")
      <4>1. "order.paid" \in EventTypes
        BY DEF EventTypes
      <4> QED
        BY <1>1, <1>3, <4>1, ToldIsAppended
    <3> QED
      BY <1>1, <1>2, <1>5, <2>1, <2>2, <2>3, <3>2, <3>3, <3>4, BookConfirmFits
  <2>4. CASE c.to # "PAID"
    <3> DEFINE papers == c.papers \cap Recorded
    <3>1. c.by \in Roles /\ papers \in SUBSET Recorded
      BY <1>2, <1>5, CallFields DEF PassesBoundary, TransitionBoundaryAccepts, Actors
    <3>2. Accepts(old.status, c.to, c.by, papers)
      <4>1. RoleOf(c) = c.by
        BY <2>4 DEF RoleOf
      <4>2. PaperworkFor(c.to) \subseteq Recorded
        BY DEF PaperworkFor, Recorded
      <4> QED
        BY <1>5, <4>1, <4>2 DEF Accepts
    <3>3. c.to \in Successors(old.status)
      BY <1>2, <3>2, CallFields DEF Accepts, CanTransition, Successors
    <3>4. TransitionEvent(old.status, c.to, c.by, c.papers)
            = TransitionEvent(old.status, c.to, c.by, papers)
      BY DEF TransitionEvent
    <3>5. boarded' = boarded
      <4>1. boarded[o] + tx[r].boarded = boarded[o]
        BY <1>2, <1>6, <2>4
      <4> QED
        BY <1>1, <1>3, <4>1
    <3>6. told' = told
      <4>1. told[o] \o <<>> = told[o]
        BY <1>1, <1>3, ConcatEmptySeq
      <4> QED
        BY <1>1, <1>3, <1>5, <2>4, <4>1
    <3>7. trailOf' = [trailOf EXCEPT ![o] = Append(trailOf[o],
            TransitionEvent(TrailStatus(trailOf[o]), c.to, c.by, papers))]
      BY <1>1, <2>1, <2>2, <3>4
    <3>8. /\ o \in Orders /\ c.to \in Successors(TrailStatus(trailOf[o]))
          /\ Accepts(TrailStatus(trailOf[o]), c.to, c.by, papers)
          /\ UNCHANGED <<boarded, told>>
      BY <1>1, <2>1, <3>2, <3>3, <3>5, <3>6
    <3> HIDE DEF papers, o, c
    <3> QED
      BY <2>4, <3>1, <3>7, <3>8, BookMoveFits
  <2> QED
    BY <2>3, <2>4
<1> QED
  BY <1>1, <1>4, <1>5, CommitCases DEF Inv

LEMMA InitRefines == Init => Book!BookInit
<1> SUFFICES ASSUME Init PROVE Book!BookInit
  OBVIOUS
<1>1. [o \in Orders |-> rows[o].history] = [o \in Orders |-> <<>>]
  BY DEF Init, Absent
<1> QED
  BY <1>1 DEF Init, Book!BookInit

LEMMA NextRefines == Inv /\ [Next]_vars => [Book!BookNext]_(Book!bookVars)
<1> SUFFICES ASSUME Inv, [Next]_vars PROVE [Book!BookNext]_(Book!bookVars)
  OBVIOUS
<1>1. CASE UNCHANGED <<rows, boarded, told>>
  BY <1>1 DEF Book!bookVars
<1>2. ASSUME NEW r \in Requests, Commit(r) PROVE Book!BookNext
  BY <1>2, CommitRefines
<1> QED
  BY <1>1, <1>2 DEF Next, Proceed, Receive, InsertOrder, Lock, AdvanceStatus,
                    SetShippingArtifacts, CreatePrintJobs, EnqueueOutbox, Reject, Abort, vars

\* The transactions implement the order book: whatever the interleaving and
\* wherever a transaction fails, the committed tables move only by whole orders
\* opened, payments confirmed and legal transitions.
THEOREM Implementation == Spec => ImplementsOrderBook
<1>1. Init => Book!BookInit
  BY InitRefines
<1>2. Inv /\ [Next]_vars => [Book!BookNext]_(Book!bookVars)
  BY NextRefines
<1> QED
  BY <1>1, <1>2, InvHolds, PTL DEF Spec, ImplementsOrderBook, Book!BookSpec
=============================================================================
