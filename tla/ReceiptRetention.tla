-------------------------- MODULE ReceiptRetention --------------------------
(***************************************************************************)
(* The payment receipts of web orders: uploaded to the bucket, referenced by *)
(* an order, and deleted by the sweeper some time after the order's last      *)
(* transition (internal/retention/sweeper.go).  The database and the bucket   *)
(* share no transaction: the sweeper lists a batch, deletes each object and    *)
(* then clears the reference, and may die between any two of these.          *)
(***************************************************************************)
EXTENDS OrderStatus, FiniteSets

CONSTANTS
  Orders,
  Urls,        \* receipts the shop's bucket may hold
  Foreign,     \* URLs taken while uploads were not configured: no object of the shop's
  Sweepers,    \* one goroutine per pod; two while a rolling update overlaps
  Batch,       \* rows one sweep lists
  Retention,   \* how long after its last transition an order keeps its receipt
  MaxTime,     \* bound of the clock
  None

VARIABLES
  orders,      \* [Orders -> row or None]
  objects,     \* what the bucket holds
  sweeps,      \* [Sweepers -> the sweep under way or None]
  now,
  past         \* history: URLs signed, given to an order, given to two; references cleared

retentionVars == <<orders, objects, sweeps, now, past>>

RetentionInit ==
  /\ orders = [o \in Orders |-> None] /\ objects = {} /\ now = 0
  /\ sweeps = [s \in Sweepers |-> None]
  /\ past = [signed |-> {}, taken |-> {}, shared |-> {}, cleared |-> {}]

(* PresignPost mints a key of its own; the browser uploads under it.         *)
UploadReceipt(u) ==
  /\ u \notin past.signed
  /\ objects' = objects \cup {u} /\ past' = [past EXCEPT !.signed = @ \cup {u}]
  /\ UNCHANGED <<orders, sweeps, now>>

(* CreateOrder takes any URL the shop has signed: a checkout sent again after   *)
(* a lost answer carries the same receipt.                                   *)
PlaceOrder(o, u) ==
  /\ orders[o] = None /\ u \in past.signed \cup Foreign
  /\ orders' = [orders EXCEPT ![o] = [status |-> InitialStatusForChannel("web"), proof |-> u, at |-> now]]
  /\ past' = [past EXCEPT !.taken = @ \cup {u}, !.shared = @ \cup (past.taken \cap {u})]
  /\ UNCHANGED <<objects, sweeps, now>>

AdvanceOrder(o, to) ==
  /\ orders[o] # None /\ to \in Successors(orders[o].status)
  /\ orders' = [orders EXCEPT ![o].status = to, ![o].at = now]
  /\ UNCHANGED <<objects, sweeps, now, past>>

Tick == now < MaxTime /\ now' = now + 1 /\ UNCHANGED <<orders, objects, sweeps, past>>

\* Mutant: every status but the first counts as closed.
DueOnceConfirmed(row) ==
  row # None /\ row.proof # None /\ row.status # "PENDING_CONFIRM" /\ row.at + Retention < now

(* ListPurgeableProofOrders.                                                *)
Due(row) ==
  row # None /\ row.proof # None /\ row.status \in TerminalStatuses /\ row.at + Retention < now

(* The oldest rows that are due, at most Batch of them.                       *)
List(s) ==
  LET due == {o \in Orders : Due(orders[o])} IN
  /\ sweeps[s] = None
  /\ \E batch \in SUBSET due :
       /\ Cardinality(batch) = IF Cardinality(due) < Batch THEN Cardinality(due) ELSE Batch
       /\ \A o \in batch, p \in due \ batch : orders[o].at <= orders[p].at
       /\ sweeps' = [sweeps EXCEPT ![s] =
            [batch |-> [o \in batch |-> orders[o].proof], left |-> batch, row |-> None, failed |-> {}]]
  /\ UNCHANGED <<orders, objects, now, past>>

(* Delete, answered: an object of the shop's is gone, a foreign URL was left    *)
(* alone and counts as done.                                                *)
DeleteObject(s, o) ==
  /\ sweeps[s] # None /\ sweeps[s].row = None /\ o \in sweeps[s].left
  /\ objects' = objects \ {sweeps[s].batch[o]}
  /\ sweeps' = [sweeps EXCEPT ![s].row = o, ![s].left = @ \ {o}]
  /\ UNCHANGED <<orders, now, past>>

\* Mutant: one row that fails ends the sweep.
DeleteStalls(s, o) ==
  /\ sweeps[s] # None /\ sweeps[s].row = None /\ o \in sweeps[s].left
  /\ objects' \in {objects, objects \ {sweeps[s].batch[o]}}
  /\ sweeps' = [sweeps EXCEPT ![s].left = {}, ![s].failed = @ \cup {o}]
  /\ UNCHANGED <<orders, now, past>>

(* An error, whatever became of the object; the reference is kept.            *)
DeleteFails(s, o) ==
  /\ sweeps[s] # None /\ sweeps[s].row = None /\ o \in sweeps[s].left
  /\ objects' \in {objects, objects \ {sweeps[s].batch[o]}}
  /\ sweeps' = [sweeps EXCEPT ![s].left = @ \ {o}, ![s].failed = @ \cup {o}]
  /\ UNCHANGED <<orders, now, past>>

(* ClearOrderPaymentProof touches a row that still has its receipt.            *)
ClearPaymentProof(s) ==
  /\ sweeps[s] # None /\ sweeps[s].row # None
  /\ LET o == sweeps[s].row IN
       IF orders[o].proof = None THEN UNCHANGED <<orders, past>>
       ELSE /\ orders' = [orders EXCEPT ![o].proof = None, ![o].at = now]
            /\ past' = [past EXCEPT !.cleared = @ \cup {[order |-> o, url |-> orders[o].proof]}]
  /\ sweeps' = [sweeps EXCEPT ![s].row = None]
  /\ UNCHANGED <<objects, now>>

ClearFails(s) ==
  /\ sweeps[s] # None /\ sweeps[s].row # None
  /\ sweeps' = [sweeps EXCEPT ![s].row = None, ![s].failed = @ \cup {sweeps[s].row}]
  /\ UNCHANGED <<orders, objects, now, past>>

(* The sweep ends with its rows, or dies with its pod or in a panic.           *)
EndSweep(s) ==
  /\ sweeps[s] # None
  /\ sweeps' = [sweeps EXCEPT ![s] = None]
  /\ UNCHANGED <<orders, objects, now, past>>

RetentionNext ==
  \/ \E u \in Urls : UploadReceipt(u)
  \/ \E o \in Orders, u \in Urls \cup Foreign : PlaceOrder(o, u)
  \/ \E o \in Orders, to \in Statuses : AdvanceOrder(o, to)
  \/ Tick
  \/ \E s \in Sweepers :
       \/ List(s) \/ ClearPaymentProof(s) \/ ClearFails(s) \/ EndSweep(s)
       \/ \E o \in Orders : DeleteObject(s, o) \/ DeleteFails(s, o)

RetentionSpec == RetentionInit /\ [][RetentionNext]_retentionVars

-----------------------------------------------------------------------------
RetentionTypeOK ==
  /\ orders \in [Orders -> {None} \cup [status : Statuses, proof : Urls \cup Foreign \cup {None}, at : Nat]]
  /\ objects \subseteq past.signed /\ past.signed \subseteq Urls /\ now \in Nat
  /\ past.cleared \subseteq [order : Orders, url : Urls \cup Foreign]

(* A cleared reference leaves no object behind that nothing refers to any more, *)
(* wherever a sweep died; and only closed orders lose theirs.                *)
ClearedMeansDeleted ==
  \A c \in past.cleared :
    c.url \notin objects /\ orders[c.order] # None /\ orders[c.order].status \in TerminalStatuses

(* An order that is open, or closed for no longer than the term, has its        *)
(* receipt in the bucket, whatever the sweepers had listed; unless another     *)
(* order carries the same one, as after a checkout sent twice.               *)
ReceiptKept ==
  \A o \in Orders :
    orders[o] # None /\ orders[o].proof \in Urls \ (objects \cup past.shared) => Due(orders[o])

(* One row that fails holds up no other: when a sweep is through, every row it  *)
(* listed has lost its reference or has failed itself.                       *)
FailureStallsNoOther ==
  \A s \in Sweepers :
    sweeps[s] # None /\ sweeps[s].left = {} /\ sweeps[s].row = None =>
      \A o \in DOMAIN sweeps[s].batch : orders[o].proof = None \/ o \in sweeps[s].failed

RetentionSound == ClearedMeansDeleted /\ ReceiptKept /\ FailureStallsNoOther
=============================================================================
