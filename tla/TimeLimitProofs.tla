----------------------------- MODULE TimeLimitProofs -----------------------------
(***************************************************************************)
(* Proofs about the two parts that answer for a stretch of time: the receipt   *)
(* sweeper (ReceiptRetention), for every set of orders, receipts and pods, and  *)
(* the rate limiters (RateLimiter), for every rate, burst, ttl, cap and set of  *)
(* keys.                                                                    *)
(***************************************************************************)
EXTENDS ReceiptRetention, RateLimiter, FiniteSetTheorems, TLAPS

-----------------------------------------------------------------------------
(* The receipts' rows.                                                      *)
Row == [status : Statuses, proof : Urls \cup Foreign \cup {None}, at : Nat]
Batches == UNION {[B -> Urls \cup Foreign] : B \in SUBSET Orders}
SweepRow == [batch : Batches, left : SUBSET Orders, row : Orders \cup {None}, failed : SUBSET Orders]

\* What the proofs take of the constants.
RetentionConstants ==
  /\ Retention \in Nat /\ Urls \cap Foreign = {}
  /\ None \notin Urls \cup Foreign \cup Orders \cup Row \cup SweepRow

-----------------------------------------------------------------------------
(* The inductive invariant.                                                 *)
Typed ==
  /\ orders \in [Orders -> {None} \cup Row] /\ now \in Nat
  /\ sweeps \in [Sweepers -> {None} \cup SweepRow]
  /\ past \in [signed : SUBSET Urls, taken : SUBSET (Urls \cup Foreign), shared : SUBSET (Urls \cup Foreign),
               cleared : SUBSET [order : Orders, url : Urls \cup Foreign]]
  /\ objects \subseteq past.signed

(* A receipt no order took is in the bucket, and one that two orders have had  *)
(* is shared.                                                               *)
Accounted ==
  /\ past.taken \subseteq past.signed \cup Foreign
  /\ past.signed \ past.taken \subseteq objects
  /\ \A o \in Orders : orders[o] # None =>
       /\ orders[o].proof \in past.taken \cup {None}
       /\ \A p \in Orders \ {o} :
            orders[p] # None /\ orders[p].proof = orders[o].proof /\ orders[o].proof # None =>
              orders[o].proof \in past.shared

(* A row a sweep has listed stays due until it is cleared; the object of the   *)
(* row in hand is gone.                                                     *)
Listed(w) ==
  /\ w.left \subseteq DOMAIN w.batch /\ w.row \in DOMAIN w.batch \cup {None}
  /\ \A o \in DOMAIN w.batch :
       /\ orders[o] # None /\ w.batch[o] \in past.taken
       /\ orders[o].status \in TerminalStatuses
       /\ orders[o].proof \in {None, w.batch[o]}
       /\ orders[o].proof # None => Due(orders[o])
       /\ \A p \in Orders \ {o} :
            orders[p] # None /\ orders[p].proof = w.batch[o] => w.batch[o] \in past.shared
  /\ w.row # None => w.batch[w.row] \notin objects

Cleared ==
  \A c \in past.cleared :
    /\ c.url \in past.taken /\ c.url \notin objects
    /\ orders[c.order] # None /\ orders[c.order].status \in TerminalStatuses

RetentionInv ==
  Typed /\ Accounted /\ (\A s \in Sweepers : sweeps[s] # None => Listed(sweeps[s])) /\ Cleared /\ ReceiptKept

-----------------------------------------------------------------------------
\* A closed order has no transition left.
LEMMA TerminalStays ==
  ASSUME NEW from \in TerminalStatuses PROVE Successors(from) = {}
  BY DEF TerminalStatuses, Successors, AllowedEdges, Statuses

LEMMA InvInit == RetentionConstants /\ RetentionInit => RetentionInv
<1> SUFFICES ASSUME RetentionConstants, RetentionInit PROVE RetentionInv
  OBVIOUS
<1>1. Typed
  BY DEF RetentionInit, Typed
<1>2. Accounted /\ Cleared /\ ReceiptKept /\ \A s \in Sweepers : sweeps[s] = None
  BY DEF RetentionInit, Accounted, Cleared, ReceiptKept
<1> QED
  BY <1>1, <1>2 DEF RetentionInv

LEMMA InvUpload ==
  ASSUME RetentionConstants, RetentionInv, NEW u \in Urls, UploadReceipt(u)
  PROVE  RetentionInv'
<1> USE DEF RetentionInv, UploadReceipt
<1>1. Typed'
  BY DEF Typed
<1>2. u \notin past.taken
  BY DEF Accounted, RetentionConstants
<1>3. past'.taken = past.taken /\ past'.shared = past.shared /\ past'.cleared = past.cleared
      /\ past'.signed = past.signed \cup {u}
  BY DEF Typed
<1>4. Accounted'
  BY <1>3 DEF Accounted
<1>5. \A s \in Sweepers : sweeps'[s] # None => Listed(sweeps[s])'
  BY <1>2, <1>3 DEF Listed, Due, Typed
<1>6. Cleared'
  BY <1>2, <1>3 DEF Cleared
<1>7. ReceiptKept'
  BY <1>3 DEF ReceiptKept, Due
<1> QED
  BY <1>1, <1>4, <1>5, <1>6, <1>7

LEMMA InvTick ==
  ASSUME RetentionConstants, RetentionInv, Tick PROVE RetentionInv'
<1> USE DEF RetentionInv, Tick
<1>1. Typed'
  BY DEF Typed
<1>2. \A o \in Orders : Due(orders[o]) => Due(orders[o])'
  BY DEF Due, Typed, Row, RetentionConstants
<1>3. Accounted' /\ Cleared'
  BY DEF Accounted, Cleared
<1>4. \A s \in Sweepers : sweeps[s] # None => DOMAIN sweeps[s].batch \subseteq Orders
  BY DEF Typed, SweepRow, Batches
<1>5. \A s \in Sweepers : sweeps'[s] # None => Listed(sweeps[s])'
  BY <1>2, <1>4 DEF Listed
<1>6. ReceiptKept'
  BY <1>2 DEF ReceiptKept
<1> QED
  BY <1>1, <1>3, <1>5, <1>6

LEMMA InvPlace ==
  ASSUME RetentionConstants, RetentionInv, NEW o \in Orders, NEW u \in Urls \cup Foreign, PlaceOrder(o, u)
  PROVE  RetentionInv'
<1> DEFINE row == [status |-> InitialStatusForChannel("web"), proof |-> u, at |-> now]
<1> USE DEF RetentionInv
<1>1. /\ orders[o] = None /\ u \in past.signed \cup Foreign
      /\ orders' = [orders EXCEPT ![o] = row]
      /\ past' = [past EXCEPT !.taken = @ \cup {u}, !.shared = @ \cup (past.taken \cap {u})]
      /\ UNCHANGED <<objects, sweeps, now>>
  BY DEF PlaceOrder
<1>2. row \in Row /\ row.status = "PENDING_CONFIRM" /\ row.proof = u /\ row # None
  BY DEF Row, Typed, Statuses, InitialStatusForChannel, RetentionConstants
<1> HIDE DEF row
<1>3. Typed'
  BY <1>1, <1>2 DEF Typed
<1>4. /\ past'.taken = past.taken \cup {u} /\ past'.shared = past.shared \cup (past.taken \cap {u})
      /\ past'.signed = past.signed /\ past'.cleared = past.cleared
  BY <1>1 DEF Typed
<1>5. orders'[o] = row /\ \A p \in Orders \ {o} : orders'[p] = orders[p]
  BY <1>1 DEF Typed
<1>6. Accounted'
  BY <1>1, <1>2, <1>4, <1>5 DEF Accounted
<1>7. ASSUME NEW s \in Sweepers, sweeps'[s] # None PROVE Listed(sweeps[s])'
  <2>1. Listed(sweeps[s]) /\ DOMAIN sweeps[s].batch \subseteq Orders \ {o}
    BY <1>1, <1>7 DEF Typed, SweepRow, Batches, Listed
  <2> QED
    BY <1>1, <1>2, <1>4, <1>5, <2>1 DEF Listed, Due
<1>8. Cleared'
  <2>1. ASSUME NEW c \in past.cleared PROVE c.order \in Orders \ {o}
    BY <1>1, <2>1 DEF Typed, Cleared
  <2> QED
    BY <1>1, <1>4, <1>5, <2>1 DEF Cleared
<1>9. ReceiptKept'
  <2>1. u \in Urls \ objects => u \in past.taken
    BY <1>1 DEF Accounted, RetentionConstants
  <2> QED
    BY <1>1, <1>2, <1>4, <1>5, <2>1 DEF ReceiptKept, Due
<1> QED
  BY <1>3, <1>6, <1>7, <1>8, <1>9

LEMMA InvAdvance ==
  ASSUME RetentionConstants, RetentionInv, NEW o \in Orders, NEW to \in Statuses, AdvanceOrder(o, to)
  PROVE  RetentionInv'
<1> DEFINE row == [orders[o] EXCEPT !.status = to, !.at = now]
<1> USE DEF RetentionInv
<1>1. /\ orders[o] # None /\ orders[o].status \notin TerminalStatuses
      /\ orders' = [orders EXCEPT ![o] = row] /\ UNCHANGED <<objects, sweeps, now, past>>
  BY TerminalStays DEF AdvanceOrder, Typed, Row
<1>2. row \in Row /\ row.proof = orders[o].proof /\ row # None
  <2>1. orders[o] \in Row /\ now \in Nat
    BY <1>1 DEF Typed
  <2>2. row \in Row /\ row.proof = orders[o].proof
    BY <2>1 DEF Row
  <2> QED
    BY <2>2 DEF RetentionConstants
<1> HIDE DEF row
<1>3. Typed' /\ orders'[o] = row /\ \A p \in Orders \ {o} : orders'[p] = orders[p]
  BY <1>1, <1>2 DEF Typed
<1>4. Accounted'
  BY <1>1, <1>2, <1>3 DEF Accounted
<1>5. ASSUME NEW s \in Sweepers, sweeps'[s] # None PROVE Listed(sweeps[s])'
  <2>1. Listed(sweeps[s]) /\ DOMAIN sweeps[s].batch \subseteq Orders \ {o}
    BY <1>1, <1>5 DEF Typed, SweepRow, Batches, Listed
  <2> QED
    BY <1>1, <1>2, <1>3, <2>1 DEF Listed, Due
<1>6. Cleared'
  <2>1. ASSUME NEW c \in past.cleared PROVE c.order \in Orders \ {o}
    BY <1>1, <2>1 DEF Typed, Cleared
  <2> QED
    BY <1>1, <1>3, <2>1 DEF Cleared
<1>7. ReceiptKept'
  BY <1>1, <1>2, <1>3 DEF ReceiptKept, Due
<1> QED
  BY <1>3, <1>4, <1>5, <1>6, <1>7

(* A step of one sweep that leaves the tables alone; objects may go.           *)
LEMMA SweepStep ==
  ASSUME RetentionConstants, RetentionInv, NEW s \in Sweepers, NEW w \in {None} \cup SweepRow,
         sweeps' = [sweeps EXCEPT ![s] = w], UNCHANGED <<orders, now, past>>,
         objects' \subseteq objects, past.signed \ past.taken \subseteq objects',
         w # None => Listed(w)', ReceiptKept'
  PROVE  RetentionInv'
<1> USE DEF RetentionInv
<1>1. Typed'
  BY DEF Typed
<1>2. Accounted' /\ Cleared'
  BY DEF Accounted, Cleared
<1>3. ASSUME NEW r \in Sweepers \ {s}, sweeps'[r] # None PROVE Listed(sweeps[r])'
  BY <1>3 DEF Typed, Listed, Due
<1>4. sweeps'[s] = w
  BY DEF Typed
<1> QED
  BY <1>1, <1>2, <1>3, <1>4

LEMMA InvList ==
  ASSUME RetentionConstants, RetentionInv, NEW s \in Sweepers, List(s) PROVE RetentionInv'
<1> USE DEF RetentionInv
<1>1. PICK batch \in SUBSET {o \in Orders : Due(orders[o])} :
        sweeps' = [sweeps EXCEPT ![s] =
          [batch |-> [o \in batch |-> orders[o].proof], left |-> batch, row |-> None, failed |-> {}]]
  BY DEF List
<1> PICK w : w = [batch |-> [o \in batch |-> orders[o].proof], left |-> batch, row |-> None, failed |-> {}]
  OBVIOUS
<1>2. UNCHANGED <<orders, objects, now, past>>
  BY DEF List
<1>3. \A o \in batch : /\ o \in Orders /\ orders[o] # None /\ Due(orders[o]) /\ orders[o].status \in TerminalStatuses
                       /\ orders[o].proof # None /\ orders[o].proof \in Urls \cup Foreign
  BY DEF Due, Typed, Row
<1>4. [o \in batch |-> orders[o].proof] \in Batches
  <2>1. [o \in batch |-> orders[o].proof] \in [batch -> Urls \cup Foreign]
    BY <1>3
  <2> QED
    BY <2>1 DEF Batches
<1>5. w \in SweepRow
  BY <1>4 DEF SweepRow
<1>6. Listed(w)'
  BY <1>2, <1>3 DEF Listed, Accounted, Due
<1>7. ReceiptKept' /\ past.signed \ past.taken \subseteq objects'
  BY <1>2 DEF ReceiptKept, Accounted, Due
<1> QED
  BY <1>1, <1>2, <1>5, <1>6, <1>7, SweepStep

(* The object of a listed row may go: an order that still needs it shares it.   *)
LEMMA ObjectGoes ==
  ASSUME RetentionConstants, RetentionInv, NEW s \in Sweepers, sweeps[s] # None,
         NEW o \in DOMAIN sweeps[s].batch,
         UNCHANGED <<orders, now, past>>, objects' \in {objects, objects \ {sweeps[s].batch[o]}}
  PROVE  ReceiptKept' /\ past.signed \ past.taken \subseteq objects' /\ objects' \subseteq objects
<1> USE DEF RetentionInv
<1>1. Listed(sweeps[s])
  OBVIOUS
<1>2. sweeps[s].batch[o] \in past.taken
  BY <1>1 DEF Listed
<1>3. past.signed \ past.taken \subseteq objects'
  BY <1>2 DEF Accounted
<1>4. ASSUME NEW p \in Orders, orders[p] # None, orders[p].proof \in Urls \ (objects' \cup past.shared)
      PROVE  Due(orders[p])
  <2>1. CASE orders[p].proof \notin objects
    BY <1>4, <2>1 DEF ReceiptKept
  <2>2. CASE orders[p].proof = sweeps[s].batch[o]
    BY <1>1, <1>4, <2>2 DEF Listed, RetentionConstants
  <2> QED
    BY <1>4, <2>1, <2>2
<1> QED
  BY <1>3, <1>4 DEF ReceiptKept, Due

LEMMA InvDelete ==
  ASSUME RetentionConstants, RetentionInv, NEW s \in Sweepers, NEW o \in Orders, DeleteObject(s, o)
  PROVE  RetentionInv'
<1> PICK w : w = [sweeps[s] EXCEPT !.row = o, !.left = @ \ {o}]
  OBVIOUS
<1>1. /\ sweeps[s] # None /\ sweeps[s] \in SweepRow /\ Listed(sweeps[s]) /\ o \in sweeps[s].left
      /\ sweeps' = [sweeps EXCEPT ![s] = w] /\ objects' = objects \ {sweeps[s].batch[o]}
      /\ UNCHANGED <<orders, now, past>>
  BY DEF DeleteObject, RetentionInv, Typed
<1>2. w \in SweepRow /\ w.batch = sweeps[s].batch /\ w.row = o /\ w.left = sweeps[s].left \ {o}
  BY <1>1 DEF SweepRow
<1>3. o \in DOMAIN sweeps[s].batch
  BY <1>1 DEF Listed
<1>4. Listed(w)'
  BY <1>1, <1>2, <1>3 DEF Listed, Due
<1> QED
  BY <1>1, <1>2, <1>3, <1>4, ObjectGoes, SweepStep

LEMMA InvDeleteFails ==
  ASSUME RetentionConstants, RetentionInv, NEW s \in Sweepers, NEW o \in Orders, DeleteFails(s, o)
  PROVE  RetentionInv'
<1> PICK w : w = [sweeps[s] EXCEPT !.left = @ \ {o}, !.failed = @ \cup {o}]
  OBVIOUS
<1>1. /\ sweeps[s] # None /\ sweeps[s] \in SweepRow /\ Listed(sweeps[s]) /\ o \in sweeps[s].left
      /\ sweeps[s].row = None
      /\ sweeps' = [sweeps EXCEPT ![s] = w] /\ objects' \in {objects, objects \ {sweeps[s].batch[o]}}
      /\ UNCHANGED <<orders, now, past>>
  BY DEF DeleteFails, RetentionInv, Typed
<1>2. w \in SweepRow /\ w.batch = sweeps[s].batch /\ w.row = None /\ w.left = sweeps[s].left \ {o}
  BY <1>1 DEF SweepRow
<1>3. o \in DOMAIN sweeps[s].batch
  BY <1>1 DEF Listed
<1>4. Listed(w)'
  BY <1>1, <1>2 DEF Listed, Due
<1> QED
  BY <1>1, <1>2, <1>3, <1>4, ObjectGoes, SweepStep

LEMMA InvClearFails ==
  ASSUME RetentionConstants, RetentionInv, NEW s \in Sweepers, ClearFails(s) PROVE RetentionInv'
<1> PICK w : w = [sweeps[s] EXCEPT !.row = None, !.failed = @ \cup {sweeps[s].row}]
  OBVIOUS
<1>1. /\ sweeps[s] # None /\ sweeps[s] \in SweepRow /\ Listed(sweeps[s]) /\ sweeps[s].row # None
      /\ sweeps' = [sweeps EXCEPT ![s] = w] /\ UNCHANGED <<orders, objects, now, past>>
  BY DEF ClearFails, RetentionInv, Typed
<1>2. w \in SweepRow /\ w.batch = sweeps[s].batch /\ w.row = None /\ w.left = sweeps[s].left
  BY <1>1 DEF SweepRow
<1>3. Listed(w)'
  BY <1>1, <1>2 DEF Listed, Due
<1>4. ReceiptKept' /\ past.signed \ past.taken \subseteq objects'
  BY <1>1 DEF RetentionInv, ReceiptKept, Accounted, Due
<1> QED
  BY <1>1, <1>2, <1>3, <1>4, SweepStep

LEMMA InvEnd ==
  ASSUME RetentionConstants, RetentionInv, NEW s \in Sweepers, EndSweep(s) PROVE RetentionInv'
<1>1. sweeps' = [sweeps EXCEPT ![s] = None] /\ UNCHANGED <<orders, objects, now, past>>
  BY DEF EndSweep
<1>2. ReceiptKept' /\ past.signed \ past.taken \subseteq objects'
  BY <1>1 DEF RetentionInv, ReceiptKept, Accounted, Due
<1> QED
  BY <1>1, <1>2, SweepStep

LEMMA ListedKept ==
  ASSUME NEW w, NEW v, Listed(w), v.batch = w.batch, v.left = w.left, v.row \in {None, w.row},
         objects' = objects, past'.taken = past.taken, past'.shared = past.shared,
         \A q \in DOMAIN w.batch :
           /\ orders'[q] # None /\ orders'[q].status \in TerminalStatuses
           /\ orders'[q].proof \in {None, w.batch[q]}
           /\ orders'[q].proof # None => Due(orders[q])'
           /\ \A p \in Orders \ {q} :
                orders'[p] # None /\ orders'[p].proof = w.batch[q] => w.batch[q] \in past.shared
  PROVE  Listed(v)'
  BY DEF Listed

(* A listed row is cleared: its object is gone, and it is closed for good.      *)
LEMMA InvClear ==
  ASSUME RetentionConstants, RetentionInv, NEW s \in Sweepers, ClearPaymentProof(s) PROVE RetentionInv'
<1> USE DEF RetentionInv
<1> PICK o : o = sweeps[s].row
  OBVIOUS
<1> PICK w : w = [sweeps[s] EXCEPT !.row = None]
  OBVIOUS
<1>1. /\ sweeps[s] # None /\ sweeps[s] \in SweepRow /\ Listed(sweeps[s]) /\ o # None
      /\ sweeps' = [sweeps EXCEPT ![s] = w] /\ UNCHANGED <<objects, now>>
  BY DEF ClearPaymentProof, Typed
<1>2. w \in SweepRow /\ w.batch = sweeps[s].batch /\ w.row = None /\ w.left = sweeps[s].left
  BY <1>1 DEF SweepRow
<1>3. o \in DOMAIN sweeps[s].batch /\ DOMAIN sweeps[s].batch \subseteq Orders
  BY <1>1 DEF Listed, SweepRow, Batches
<1>4. /\ orders[o] # None /\ orders[o] \in Row /\ orders[o].status \in TerminalStatuses
      /\ orders[o].proof \in {None, sweeps[s].batch[o]} /\ sweeps[s].batch[o] \notin objects
      /\ sweeps[s].batch[o] \in past.taken
  BY <1>1, <1>3 DEF Listed, Typed
<1>5. CASE orders[o].proof = None
  <2>1. UNCHANGED <<orders, past>>
    BY <1>5 DEF ClearPaymentProof
  <2>2. Listed(w)'
    BY <1>1, <1>2, <2>1 DEF Listed, Due
  <2>3. ReceiptKept' /\ past.signed \ past.taken \subseteq objects'
    BY <1>1, <2>1 DEF ReceiptKept, Accounted, Due
  <2> QED
    BY <1>1, <1>2, <2>1, <2>2, <2>3, SweepStep
<1>6. CASE orders[o].proof # None
  <2> PICK row : row = [orders[o] EXCEPT !.proof = None, !.at = now]
    OBVIOUS
  <2> PICK c : c = [order |-> o, url |-> orders[o].proof]
    OBVIOUS
  <2>1. orders' = [orders EXCEPT ![o] = row] /\ past' = [past EXCEPT !.cleared = @ \cup {c}]
    BY <1>6 DEF ClearPaymentProof
  <2>2. /\ row \in Row /\ row.proof = None /\ row.status = orders[o].status
    BY <1>4 DEF Row, Typed
  <2>3. row # None
    BY <2>2 DEF RetentionConstants
  <2>4. /\ o \in Orders /\ orders'[o] = row /\ \A p \in Orders \ {o} : orders'[p] = orders[p]
        /\ sweeps'[s] = w /\ \A r \in Sweepers \ {s} : sweeps'[r] = sweeps[r]
    BY <1>1, <1>3, <2>1 DEF Typed
  <2>5. c \in [order : Orders, url : Urls \cup Foreign] /\ c.order = o /\ c.url = sweeps[s].batch[o]
    BY <1>3, <1>4, <1>6 DEF Row
  <2>6. /\ past'.taken = past.taken /\ past'.shared = past.shared /\ past'.signed = past.signed
        /\ past'.cleared = past.cleared \cup {c}
    BY <2>1 DEF Typed
  <2>7. Typed'
    BY <1>1, <1>2, <2>1, <2>2, <2>5 DEF Typed
  <2>8. Accounted'
    <3>1. ASSUME NEW p \in Orders, orders'[p] # None, orders'[p].proof # None
          PROVE  p # o /\ orders'[p] = orders[p]
      BY <2>2, <2>4, <3>1
    <3> QED
      BY <1>1, <2>2, <2>4, <2>6, <3>1 DEF Accounted
  <2>9. ASSUME NEW r \in Sweepers, sweeps'[r] # None PROVE Listed(sweeps[r])'
    <3>1. /\ sweeps[r] # None /\ Listed(sweeps[r]) /\ sweeps'[r].batch = sweeps[r].batch
          /\ sweeps'[r].left = sweeps[r].left /\ sweeps'[r].row \in {None, sweeps[r].row}
      BY <1>1, <1>2, <2>4, <2>9
    <3>2. DOMAIN sweeps[r].batch \subseteq Orders
      BY <3>1 DEF Typed, SweepRow, Batches
    <3>3. ASSUME NEW q \in DOMAIN sweeps[r].batch
          PROVE  /\ orders'[q] # None /\ orders'[q].status \in TerminalStatuses
                 /\ orders'[q].proof \in {None, sweeps[r].batch[q]}
                 /\ orders'[q].proof # None => Due(orders[q])'
      <4>1. CASE q = o
        BY <1>4, <2>2, <2>3, <2>4, <4>1
      <4>2. CASE q # o
        BY <1>1, <2>4, <3>1, <3>2, <4>2 DEF Listed, Due
      <4> QED
        BY <4>1, <4>2
    <3>4. ASSUME NEW q \in DOMAIN sweeps[r].batch, NEW p \in Orders \ {q},
                 orders'[p] # None, orders'[p].proof = sweeps[r].batch[q]
          PROVE  sweeps[r].batch[q] \in past.shared
      <4>1. sweeps[r].batch[q] # None
        BY <3>1 DEF Typed, SweepRow, Batches, RetentionConstants
      <4>2. p # o /\ orders'[p] = orders[p]
        BY <2>2, <2>4, <3>4, <4>1
      <4> QED
        BY <3>1, <3>4, <4>2 DEF Listed
    <3> QED
      BY <1>1, <2>6, <3>1, <3>3, <3>4, ListedKept
  <2>10. Cleared'
    <3>1. ASSUME NEW d \in past.cleared PROVE orders'[d.order] # None /\ orders'[d.order].status \in TerminalStatuses
      <4>1. d.order \in Orders /\ orders[d.order] # None /\ orders[d.order].status \in TerminalStatuses
        BY <3>1 DEF Cleared, Typed
      <4> QED
        BY <1>4, <2>2, <2>3, <2>4, <4>1
    <3>2. ASSUME NEW d \in past.cleared PROVE d.url \in past'.taken /\ d.url \notin objects'
      BY <1>1, <2>6, <3>2 DEF Cleared
    <3>3. /\ c.url \in past'.taken /\ c.url \notin objects'
          /\ orders'[c.order] # None /\ orders'[c.order].status \in TerminalStatuses
      BY <1>1, <1>4, <2>2, <2>3, <2>4, <2>5, <2>6
    <3> QED
      BY <2>6, <3>1, <3>2, <3>3 DEF Cleared
  <2>11. ReceiptKept'
    <3>1. ASSUME NEW p \in Orders, orders'[p] # None, orders'[p].proof \in Urls \ (objects' \cup past'.shared)
          PROVE  Due(orders[p])'
      <4>0. orders'[p].proof # None
        BY <3>1 DEF RetentionConstants
      <4>1. p # o /\ orders'[p] = orders[p]
        BY <2>2, <2>4, <4>0
      <4>2. Due(orders[p])
        BY <1>1, <2>6, <3>1, <4>1 DEF ReceiptKept
      <4> QED
        BY <1>1, <4>1, <4>2 DEF Due
    <3> QED
      BY <3>1 DEF ReceiptKept
  <2> QED
    BY <2>7, <2>8, <2>9, <2>10, <2>11
<1> QED
  BY <1>5, <1>6

-----------------------------------------------------------------------------
LEMMA InvNext == RetentionConstants /\ RetentionInv /\ [RetentionNext]_retentionVars => RetentionInv'
<1> SUFFICES ASSUME RetentionConstants, RetentionInv, [RetentionNext]_retentionVars PROVE RetentionInv'
  OBVIOUS
<1>1. CASE UNCHANGED retentionVars
  BY <1>1 DEF retentionVars, RetentionInv, Typed, Accounted, Listed, Cleared, ReceiptKept, Due
<1>2. CASE RetentionNext
  BY <1>2, InvUpload, InvPlace, InvAdvance, InvTick, InvList, InvDelete, InvDeleteFails, InvClear, InvClearFails,
     InvEnd DEF RetentionNext
<1> QED
  BY <1>1, <1>2

(* A sweep that dies between the bucket and the database, or beside another one, *)
(* never leaves an object behind whose reference is gone.                    *)
THEOREM NothingLeftBehind == ASSUME RetentionConstants PROVE RetentionSpec => []ClearedMeansDeleted
<1>1. RetentionInit => RetentionInv
  BY InvInit
<1>2. RetentionInv /\ [RetentionNext]_retentionVars => RetentionInv'
  BY InvNext
<1>3. RetentionInv => ClearedMeansDeleted
  BY DEF RetentionInv, Cleared, ClearedMeansDeleted
<1> QED
  BY <1>1, <1>2, <1>3, PTL DEF RetentionSpec

(* An order has its receipt as long as it may be needed, however many sweeps     *)
(* run from however old a list.                                             *)
THEOREM ReceiptsAreKept == ASSUME RetentionConstants PROVE RetentionSpec => []ReceiptKept
<1>1. RetentionInit => RetentionInv
  BY InvInit
<1>2. RetentionInv /\ [RetentionNext]_retentionVars => RetentionInv'
  BY InvNext
<1>3. RetentionInv => ReceiptKept
  BY DEF RetentionInv
<1> QED
  BY <1>1, <1>2, <1>3, PTL DEF RetentionSpec

-----------------------------------------------------------------------------
(***************************************************************************)
(* The rate limiters.                                                       *)
(***************************************************************************)
(* What the code's numbers have in common: 30 minutes against 15 tokens of 2 s *)
(* or 10 of 10 s; 10 minutes against 30 of 0.1 s or 5 of 5 s.                *)
LimiterNumbers ==
  /\ Ttl \in Nat /\ SoftCap \in Nat /\ MaxClock \in Nat
  /\ Cost \in Nat \ {0} /\ Capacity \in Nat /\ Cost <= Capacity
  /\ Capacity <= Ttl
  /\ Sweeping \in {"interval", "crowded", "never"}

Bucket == [kept : BOOLEAN, fullAt : Nat, seen : Nat]

(* What a bucket knows of the calls let through: it is full no earlier than    *)
(* they require, and if it is not full yet, exactly as late as they require.   *)
Remembers(b, g, time) ==
  /\ \A i \in 1 .. Len(g) : g[i] <= time /\ g[i] + Worth(Len(g) - i + 1) <= Later(b.fullAt, time)
  /\ b.fullAt <= time \/ \E i \in 1 .. Len(g) : b.fullAt = g[i] + Worth(Len(g) - i + 1)

(* A bucket fills up within Capacity of its last use. *)
FillsUp(b, time) ==
  IF b.kept THEN b.seen <= time /\ b.fullAt <= b.seen + Capacity ELSE b.fullAt = 0

Within(g) ==
  \A j \in 1 .. Len(g) : \A i \in 1 .. j : Worth(j - i + 1) <= Capacity + g[j] - g[i]

LimiterInv ==
  /\ LimiterTypeOK
  /\ \A k \in Keys : Remembers(buckets[k], grants[k], clock) /\ FillsUp(buckets[k], clock) /\ Within(grants[k])

-----------------------------------------------------------------------------
USE DEF LimiterNumbers

LEMMA OneMore ==
  ASSUME LimiterNumbers
  PROVE  Worth(1) = Cost /\ \A n \in Nat : Worth(n + 1) = Worth(n) + Cost /\ Worth(n) \in Nat
  BY DEF Worth

LEMMA LimiterStarts == LimiterNumbers /\ LimiterInit => LimiterInv
  BY DEF LimiterInit, LimiterInv, LimiterTypeOK, Absent, Remembers, FillsUp, Within, Later

\* A sweep forgets nothing that matters.
LEMMA SweptRemembers ==
  ASSUME LimiterNumbers, LimiterInv
  PROVE  /\ sweepLocked \in [Keys -> Bucket]
         /\ \A k \in Keys : Remembers(sweepLocked[k], grants[k], clock) /\ FillsUp(sweepLocked[k], clock)
<1>1. sweepLocked \in [Keys -> Bucket]
  BY DEF sweepLocked, Absent, Bucket, LimiterInv, LimiterTypeOK
<1>2. ASSUME NEW k \in Keys PROVE Remembers(sweepLocked[k], grants[k], clock) /\ FillsUp(sweepLocked[k], clock)
  <2> DEFINE b == buckets[k]
  <2>0. /\ b \in Bucket /\ grants[k] \in Seq(Nat) /\ clock \in Nat
        /\ Remembers(b, grants[k], clock) /\ FillsUp(b, clock)
    BY DEF LimiterInv, LimiterTypeOK, Bucket
  <2>1. CASE sweepLocked[k] = b
    BY <2>0, <2>1
  <2>2. CASE sweepLocked[k] = Absent /\ b.seen + Ttl < clock
    <3>1. b.fullAt <= clock
      BY <2>0, <2>2 DEF FillsUp, Bucket
    <3>2. Later(b.fullAt, clock) = clock /\ Later(0, clock) = clock
      BY <2>0, <3>1 DEF Later, Bucket
    <3>3. Remembers(Absent, grants[k], clock)
      BY <2>0, <3>2 DEF Remembers, Absent
    <3> QED
      BY <2>2, <3>3 DEF FillsUp, Absent
  <2> QED
    BY <2>1, <2>2 DEF sweepLocked
<1> QED
  BY <1>1, <1>2


LEMMA InvAllow ==
  ASSUME LimiterNumbers, LimiterInv, NEW k \in Keys, allow(k)
  PROVE  LimiterInv'
<1> DEFINE b == sweepLocked[k]  g == grants[k]  n == Len(g)
<1>0. /\ clock' = clock /\ clock \in Nat
      /\ buckets' = [sweepLocked EXCEPT ![k] = [kept |-> TRUE, fullAt |-> Taken(b, clock), seen |-> clock]]
      /\ grants' = IF AllowN(b, clock) THEN [grants EXCEPT ![k] = Append(@, clock)] ELSE grants
  BY DEF allow, LimiterInv, LimiterTypeOK
<1>1. /\ b \in Bucket /\ g \in Seq(Nat) /\ n \in Nat
      /\ Remembers(b, g, clock) /\ FillsUp(b, clock) /\ Within(g)
  BY SweptRemembers DEF LimiterInv, LimiterTypeOK
<1>2. Taken(b, clock) \in Nat
  BY <1>0, <1>1 DEF Taken, Later, Bucket
<1>3. LimiterTypeOK'
  <2>1. buckets' \in [Keys -> Bucket]
    BY <1>0, <1>2, SweptRemembers DEF Bucket
  <2>2. grants' \in [Keys -> Seq(Nat)]
    BY <1>0, <1>1 DEF LimiterInv, LimiterTypeOK
  <2>3. lastSweep' \in Nat
    BY DEF allow, LimiterInv, LimiterTypeOK
  <2> QED
    BY <1>0, <2>1, <2>2, <2>3 DEF LimiterTypeOK, Bucket
<1>4. buckets'[k] = [kept |-> TRUE, fullAt |-> Taken(b, clock), seen |-> clock]
  BY <1>0, SweptRemembers
<1>5. FillsUp(buckets'[k], clock')
  <2>1. CASE AllowN(b, clock)
    BY <1>0, <1>1, <1>4, <2>1 DEF FillsUp, Taken, AllowN, Later, Bucket
  <2>2. CASE ~AllowN(b, clock)
    BY <1>0, <1>1, <1>4, <2>2 DEF FillsUp, Taken, Bucket
  <2> QED
    BY <2>1, <2>2
<1>6. CASE ~AllowN(b, clock)
  <2>1. grants' = grants /\ buckets'[k].fullAt = b.fullAt
    BY <1>0, <1>4, <1>6 DEF Taken
  <2>2. Remembers(buckets'[k], g, clock')
    BY <1>0, <1>1, <2>1 DEF Remembers
  <2>3. \A l \in Keys \ {k} : Remembers(buckets'[l], grants[l], clock') /\ FillsUp(buckets'[l], clock')
    BY <1>0, <2>1, SweptRemembers DEF Remembers, FillsUp
  <2> QED
    BY <1>1, <1>3, <1>5, <2>1, <2>2, <2>3 DEF LimiterInv, Within
<1>7. CASE AllowN(b, clock)
  <2> DEFINE full == Later(b.fullAt, clock)
  <2>1. /\ full \in Nat /\ clock <= full /\ full + Cost <= clock + Capacity
        /\ buckets'[k].fullAt = full + Cost
    BY <1>0, <1>1, <1>4, <1>7 DEF AllowN, Taken, Later, Bucket
  <2>2. /\ grants'[k] = Append(g, clock) /\ Len(grants'[k]) = n + 1
        /\ grants'[k] \in Seq(Nat) /\ grants'[k][n + 1] = clock
        /\ \A i \in 1 .. n : grants'[k][i] = g[i] /\ g[i] \in Nat
    BY <1>0, <1>1, <1>7 DEF LimiterInv, LimiterTypeOK
  <2>3. \A i \in 1 .. n : Worth(n + 1 - i + 1) = Worth(n - i + 1) + Cost /\ Worth(n - i + 1) \in Nat
    <3> TAKE i \in 1 .. n
    <3>1. n - i + 1 \in Nat /\ n + 1 - i + 1 = (n - i + 1) + 1
      <4>1. n \in Nat
        BY <1>1
      <4> HIDE DEF n
      <4> QED
        BY <4>1
    <3> QED
      BY <3>1, OneMore
  <2>4. Worth(n + 1 - (n + 1) + 1) = Cost
    BY <1>1, OneMore
  <2>5. \A i \in 1 .. n : g[i] <= clock /\ g[i] + Worth(n - i + 1) <= full
    BY <1>1 DEF Remembers
  <2>6. \A i \in 1 .. n + 1 :
          grants'[k][i] <= clock /\ grants'[k][i] + Worth(n + 1 - i + 1) <= full + Cost
    <3> TAKE i \in 1 .. n + 1
    <3>1. CASE i = n + 1
      BY <1>0, <2>1, <2>2, <2>4, <3>1
    <3>2. CASE i # n + 1
      <4>1. /\ grants'[k][i] = g[i] /\ g[i] \in Nat /\ g[i] <= clock /\ g[i] + Worth(n - i + 1) <= full
            /\ Worth(n + 1 - i + 1) = Worth(n - i + 1) + Cost /\ Worth(n - i + 1) \in Nat
        <5>1. i \in 1 .. n
          BY <1>1, <3>2
        <5> QED
          BY <2>2, <2>3, <2>5, <5>1
      <4> HIDE DEF full, b, g, n
      <4> QED
        BY <2>1, <4>1
    <3> QED
      BY <3>1, <3>2
  <2>7. \E i \in 1 .. n + 1 : full + Cost = grants'[k][i] + Worth(n + 1 - i + 1)
    <3>1. CASE full = clock
      BY <1>1, <2>2, <2>4, <3>1
    <3>2. CASE full # clock
      <4>1. PICK i \in 1 .. n : b.fullAt = g[i] + Worth(n - i + 1)
        BY <1>0, <1>1, <3>2 DEF Remembers, Later, Bucket
      <4>2. full = b.fullAt
        BY <3>2 DEF Later
      <4>3. /\ i \in 1 .. n + 1 /\ grants'[k][i] = g[i] /\ g[i] \in Nat
            /\ Worth(n + 1 - i + 1) = Worth(n - i + 1) + Cost /\ Worth(n - i + 1) \in Nat
        BY <1>1, <2>2, <2>3
      <4>4. full + Cost = g[i] + Worth(n + 1 - i + 1)
        <5> HIDE DEF full, b, g, n
        <5> QED
          BY <2>1, <4>1, <4>2, <4>3
      <4> QED
        BY <4>3, <4>4
    <3> QED
      BY <3>1, <3>2
  <2>8. Remembers(buckets'[k], grants'[k], clock')
    <3>1. Later(full + Cost, clock) = full + Cost
      BY <1>0, <2>1 DEF Later
    <3>2. Len(grants'[k]) = n + 1 /\ clock' = clock /\ buckets'[k].fullAt = full + Cost
          /\ n \in Nat /\ full \in Nat
      BY <1>0, <1>1, <2>1, <2>2
    <3> HIDE DEF full, b, g, n
    <3>3. \A i \in 1 .. Len(grants'[k]) :
            /\ grants'[k][i] <= clock'
            /\ grants'[k][i] + Worth(Len(grants'[k]) - i + 1) <= Later(buckets'[k].fullAt, clock')
      <4>1. Later(buckets'[k].fullAt, clock') = full + Cost  BY <3>1, <3>2
      <4>2. 1 .. Len(grants'[k]) = 1 .. n + 1  BY <3>2
      <4>3. ASSUME NEW i \in 1 .. n + 1
            PROVE  /\ grants'[k][i] <= clock'
                   /\ grants'[k][i] + Worth(Len(grants'[k]) - i + 1) <= Later(buckets'[k].fullAt, clock')
        <5>1. grants'[k][i] <= clock /\ grants'[k][i] + Worth(n + 1 - i + 1) <= full + Cost  BY <2>6
        <5>2. Len(grants'[k]) - i + 1 = n + 1 - i + 1  BY <3>2
        <5>3. QED  BY <3>2, <4>1, <5>1, <5>2
      <4>4. QED  BY <4>2, <4>3
    <3>4. \E i \in 1 .. Len(grants'[k]) : buckets'[k].fullAt = grants'[k][i] + Worth(Len(grants'[k]) - i + 1)
      BY <2>7, <3>2
    <3> QED
      BY <3>3, <3>4 DEF Remembers
  <2>9. Within(grants'[k])
    <3> SUFFICES ASSUME NEW j \in 1 .. n + 1, NEW i \in 1 .. j
                 PROVE  Worth(j - i + 1) <= Capacity + grants'[k][j] - grants'[k][i]
      BY <2>2 DEF Within
    <3>1. CASE j = n + 1
      <4>1. grants'[k][i] + Worth(j - i + 1) <= clock + Capacity /\ grants'[k][i] \in Nat
            /\ Worth(j - i + 1) \in Int
        <5>1. i \in 1 .. n + 1 /\ grants'[k][i] \in Nat
          BY <1>0, <1>1, <2>2, <3>1
        <5>2. Worth(j - i + 1) \in Int
          <6>1. j - i + 1 \in Nat
            BY <1>1
          <6> QED
            BY <6>1, OneMore
        <5>3. grants'[k][i] + Worth(j - i + 1) <= full + Cost
          BY <2>6, <3>1, <5>1
        <5> HIDE DEF full
        <5> QED
          BY <1>0, <2>1, <5>1, <5>2, <5>3
      <4> QED
        BY <1>0, <1>1, <2>2, <3>1, <4>1
    <3>2. CASE j # n + 1
      <4>1. j \in 1 .. n /\ i \in 1 .. n
        BY <1>1, <3>2
      <4>2. grants'[k][j] = g[j] /\ grants'[k][i] = g[i]
        BY <2>2, <4>1
      <4>3. Worth(j - i + 1) <= Capacity + g[j] - g[i]
        BY <1>1, <4>1 DEF Within
      <4> QED
        BY <4>2, <4>3
    <3> QED
      BY <3>1, <3>2
  <2>10. \A l \in Keys \ {k} : /\ grants'[l] = grants[l] /\ buckets'[l] = sweepLocked[l]
    BY <1>0, <1>7, SweptRemembers DEF LimiterInv, LimiterTypeOK
  <2>11. \A l \in Keys \ {k} : Remembers(buckets'[l], grants'[l], clock') /\ FillsUp(buckets'[l], clock') /\ Within(grants'[l])
    BY <1>0, <2>10, SweptRemembers DEF Remembers, FillsUp, Within, LimiterInv
  <2> QED
    BY <1>3, <1>5, <2>8, <2>9, <2>11 DEF LimiterInv
<1> QED
  BY <1>6, <1>7

LEMMA InvTime == LimiterNumbers /\ LimiterInv /\ TimePasses => LimiterInv'
<1> SUFFICES ASSUME LimiterNumbers, LimiterInv, TimePasses PROVE LimiterInv'
  OBVIOUS
<1>1. LimiterTypeOK' /\ clock \in Nat /\ clock' = clock + 1 /\ UNCHANGED <<buckets, grants>>
  BY DEF LimiterInv, LimiterTypeOK, TimePasses
<1>2. ASSUME NEW k \in Keys PROVE Remembers(buckets[k], grants[k], clock') /\ FillsUp(buckets[k], clock') /\ Within(grants[k])
  <2>1. /\ buckets[k] \in Bucket /\ grants[k] \in Seq(Nat)
        /\ Remembers(buckets[k], grants[k], clock) /\ FillsUp(buckets[k], clock) /\ Within(grants[k])
    BY DEF LimiterInv, LimiterTypeOK, Bucket
  <2>2. Later(buckets[k].fullAt, clock) <= Later(buckets[k].fullAt, clock')
        /\ Later(buckets[k].fullAt, clock) \in Nat /\ Later(buckets[k].fullAt, clock') \in Nat
    BY <1>1, <2>1 DEF Later, Bucket
  <2>3. \A i \in 1 .. Len(grants[k]) :
          grants[k][i] \in Nat /\ Worth(Len(grants[k]) - i + 1) \in Nat
    <3> TAKE i \in 1 .. Len(grants[k])
    <3>1. Len(grants[k]) - i + 1 \in Nat /\ grants[k][i] \in Nat
      BY <2>1
    <3> QED
      BY <3>1, OneMore
  <2>4. Remembers(buckets[k], grants[k], clock')
    <3>1. \A i \in 1 .. Len(grants[k]) : grants[k][i] <= clock
                                         /\ grants[k][i] + Worth(Len(grants[k]) - i + 1) <= Later(buckets[k].fullAt, clock)
      BY <2>1 DEF Remembers
    <3>2. \A i \in 1 .. Len(grants[k]) : grants[k][i] <= clock'
                                         /\ grants[k][i] + Worth(Len(grants[k]) - i + 1) <= Later(buckets[k].fullAt, clock')
      <4> TAKE i \in 1 .. Len(grants[k])
      <4>1. /\ grants[k][i] \in Nat /\ Worth(Len(grants[k]) - i + 1) \in Nat /\ grants[k][i] <= clock
            /\ grants[k][i] + Worth(Len(grants[k]) - i + 1) <= Later(buckets[k].fullAt, clock)
        BY <2>3, <3>1
      <4> QED
        BY <1>1, <2>2, <4>1
    <3>3. buckets[k].fullAt <= clock' \/ \E i \in 1 .. Len(grants[k]) :
                                           buckets[k].fullAt = grants[k][i] + Worth(Len(grants[k]) - i + 1)
      <4>1. buckets[k].fullAt \in Nat
        BY <2>1 DEF Bucket
      <4>2. CASE buckets[k].fullAt <= clock
        BY <1>1, <4>1, <4>2
      <4> QED
        BY <2>1, <4>2 DEF Remembers
    <3> QED
      BY <3>2, <3>3 DEF Remembers
  <2>5. FillsUp(buckets[k], clock')
    BY <1>1, <2>1 DEF FillsUp, Bucket
  <2> QED
    BY <1>1, <2>1, <2>4, <2>5 DEF Within
<1> QED
  BY <1>1, <1>2 DEF LimiterInv

LEMMA InvRestart == LimiterNumbers /\ LimiterInv /\ RestartLimiter => LimiterInv'
  BY DEF RestartLimiter, LimiterInv, LimiterTypeOK, Absent, Remembers, FillsUp, Within, Later

LEMMA InvStutter == LimiterInv /\ UNCHANGED limiterVars => LimiterInv'
  BY DEF limiterVars, LimiterInv, LimiterTypeOK, Remembers, FillsUp, Within

-----------------------------------------------------------------------------
(* The books of every bucket are in order, whatever was swept: the inductive  *)
(* invariant the theorems below rest on.                                    *)
THEOREM LimiterInvariant == LimiterNumbers => (LimiterSpec => []LimiterInv)
<1> SUFFICES ASSUME LimiterNumbers PROVE LimiterSpec => []LimiterInv
  OBVIOUS
<1>1. LimiterInv /\ [LimiterNext]_limiterVars => LimiterInv'
  BY InvAllow, InvTime, InvRestart, InvStutter DEF LimiterNext
<1> QED
  BY <1>1, LimiterStarts, PTL DEF LimiterSpec

(* No stretch of time lets more calls of one key through than the burst and    *)
(* what came back meanwhile, although idle buckets are forgotten              *)
(* (sweepLocked): a new bucket is no fuller than the forgotten one.         *)
THEOREM RateIsKept == LimiterNumbers => (LimiterSpec => []NoBurstBeyondTheLimit)
<1> SUFFICES ASSUME LimiterNumbers PROVE LimiterSpec => []NoBurstBeyondTheLimit
  OBVIOUS
<1>1. ASSUME LimiterInv PROVE NoBurstBeyondTheLimit
  <2>1. \A k \in Keys : DOMAIN grants[k] = 1 .. Len(grants[k]) /\ Within(grants[k])
    BY <1>1 DEF LimiterInv, LimiterTypeOK
  <2> QED
    BY <2>1 DEF NoBurstBeyondTheLimit, Within
<1> QED
  BY <1>1, LimiterInvariant, PTL

(* A call is refused only if the calls let through use the limit up: refused   *)
(* calls cost nothing, so no number of attempts locks a key out               *)
(* (the comment of lookupLimiter).                                         *)
THEOREM NoLockout == LimiterNumbers => (LimiterSpec => []RefusedOnlyByGrants)
<1> SUFFICES ASSUME LimiterNumbers PROVE LimiterSpec => []RefusedOnlyByGrants
  OBVIOUS
<1>1. ASSUME LimiterInv PROVE RefusedOnlyByGrants
  <2> SUFFICES ASSUME NEW k \in Keys,
                      \A i \in DOMAIN grants[k] :
                        Worth(Len(grants[k]) - i + 2) <= Capacity + clock - grants[k][i]
               PROVE  AllowN(sweepLocked[k], clock)
    BY DEF RefusedOnlyByGrants
  <2> DEFINE b == sweepLocked[k]  g == grants[k]
  <2>1. b \in Bucket /\ clock \in Nat /\ g \in Seq(Nat) /\ Remembers(b, g, clock)
    BY <1>1, SweptRemembers DEF LimiterInv, LimiterTypeOK
  <2>2. CASE b.fullAt <= clock
    BY <2>1, <2>2 DEF AllowN, Later, Bucket
  <2>3. CASE ~(b.fullAt <= clock)
    <3>1. PICK i \in 1 .. Len(g) : b.fullAt = g[i] + Worth(Len(g) - i + 1)
      BY <2>1, <2>3 DEF Remembers
    <3>2. Len(g) - i + 1 \in Nat /\ Len(g) - i + 2 = (Len(g) - i + 1) + 1 /\ g[i] \in Nat /\ i \in DOMAIN g
      <4>1. Len(g) \in Nat /\ DOMAIN g = 1 .. Len(g)
        BY <2>1
      <4>2. g[i] \in Nat
        BY <2>1
      <4> HIDE DEF g
      <4> QED
        BY <4>1, <4>2
    <3>3. Worth(Len(g) - i + 2) = Worth(Len(g) - i + 1) + Cost /\ Worth(Len(g) - i + 1) \in Nat
      BY <3>2, OneMore
    <3>4. Later(b.fullAt, clock) = b.fullAt
      BY <2>1, <2>3 DEF Later, Bucket
    <3>5. Worth(Len(g) - i + 2) <= Capacity + clock - g[i]
      BY <3>2
    <3>6. b.fullAt + Cost <= clock + Capacity
      <4> DEFINE t == g[i]  owed == Worth(Len(g) - i + 1)  due == Worth(Len(g) - i + 2)
      <4>1. /\ t \in Nat /\ owed \in Nat /\ clock \in Nat /\ Cost \in Nat /\ Capacity \in Nat
            /\ b.fullAt = t + owed /\ due = owed + Cost /\ due <= Capacity + clock - t
        BY <2>1, <3>1, <3>2, <3>3, <3>5
      <4> HIDE DEF b, t, owed, due
      <4> QED
        BY ONLY <4>1
    <3> QED
      BY <3>4, <3>6 DEF AllowN
  <2> QED
    BY <2>2, <2>3
<1> QED
  BY <1>1, LimiterInvariant, PTL

-----------------------------------------------------------------------------
(* The map stays small.                                                     *)
Kept == {k \in Keys : buckets[k].kept}

SweptLately ==
  /\ lastSweep <= clock
  /\ Sweeping = "interval" =>
       \A k \in Kept : lastSweep <= buckets[k].seen + Ttl /\ buckets[k].seen <= lastSweep + Ttl

CrowdSwept ==
  Sweeping = "crowded" /\ Cardinality(Kept) > SoftCap + 1 =>
    \A k, other \in Kept : buckets[k].seen <= buckets[other].seen + Ttl

MemoryInv == LimiterInv /\ SweptLately /\ CrowdSwept

LEMMA CallSweeps ==
  ASSUME LimiterNumbers, LimiterInv, NEW k \in Keys, allow(k)
  PROVE  /\ buckets'[k].kept /\ buckets'[k].seen = clock
         /\ \A l \in Keys \ {k} : buckets'[l] = sweepLocked[l]
         /\ Kept' \subseteq Kept \cup {k}
<1>1. /\ buckets' = [sweepLocked EXCEPT ![k] =
                       [kept |-> TRUE, fullAt |-> Taken(sweepLocked[k], clock), seen |-> clock]]
      /\ sweepLocked \in [Keys -> Bucket]
  BY SweptRemembers DEF allow
<1>2. \A l \in Keys : sweepLocked[l].kept => buckets[l].kept
  BY DEF sweepLocked, Absent
<1> QED
  BY <1>1, <1>2 DEF Kept

LEMMA CallKeepsLately ==
  ASSUME LimiterNumbers, LimiterInv, SweptLately, NEW k \in Keys, allow(k)
  PROVE  SweptLately'
<1>0. lastSweep' <= clock'
  BY DEF allow, SweptLately, LimiterInv, LimiterTypeOK
<1> SUFFICES ASSUME Sweeping = "interval", NEW l \in Kept'
             PROVE  lastSweep' <= buckets'[l].seen + Ttl /\ buckets'[l].seen <= lastSweep' + Ttl
  BY <1>0 DEF SweptLately
<1>1. /\ clock \in Nat /\ lastSweep \in Nat /\ l \in Keys /\ buckets[l] \in Bucket
      /\ lastSweep' = IF SweepDue THEN clock ELSE lastSweep
      /\ Ttl \in Nat /\ Ttl > 0
  BY DEF LimiterInv, LimiterTypeOK, Bucket, allow, Kept
<1>2. SweepDue <=> clock - lastSweep >= Ttl
  BY <1>1 DEF SweepDue, IntervalPassed
<1>3. buckets[l].kept => buckets[l].seen <= clock
  BY <1>1 DEF LimiterInv, FillsUp
<1>4. CASE l = k
  <2>1. buckets'[l].seen = clock /\ lastSweep <= clock
    BY <1>4, CallSweeps DEF SweptLately
  <2> QED
    BY <1>1, <1>2, <2>1
<1>5. CASE l # k
  <2>1. buckets'[l] = sweepLocked[l] /\ buckets'[l].kept
    BY <1>1, <1>5, CallSweeps DEF Kept
  <2>2. buckets'[l] = buckets[l] /\ (SweepDue => ~(buckets[l].seen + Ttl < clock))
    BY <1>1, <2>1 DEF sweepLocked, Absent
  <2>3. l \in Kept
    BY <1>1, <2>1, <2>2 DEF Kept
  <2>4. lastSweep <= buckets[l].seen + Ttl /\ buckets[l].seen <= lastSweep + Ttl
    BY <2>3 DEF SweptLately
  <2> QED
    BY <1>1, <1>3, <2>1, <2>2, <2>4 DEF Bucket
<1> QED
  BY <1>4, <1>5

LEMMA CallKeepsCrowd ==
  ASSUME LimiterNumbers, IsFiniteSet(Keys), LimiterInv, NEW k \in Keys, allow(k)
  PROVE  CrowdSwept'
<1> SUFFICES ASSUME Sweeping = "crowded", Cardinality(Kept') > SoftCap + 1,
                    NEW l \in Kept', NEW m \in Kept'
             PROVE  buckets'[l].seen <= buckets'[m].seen + Ttl
  BY DEF CrowdSwept
<1>1. /\ IsFiniteSet(Kept) /\ IsFiniteSet(Kept') /\ IsFiniteSet(Kept \cup {k})
      /\ Cardinality(Kept) \in Nat /\ Cardinality(Kept') \in Nat
  <2>1. Kept \subseteq Keys /\ Kept' \subseteq Keys /\ Kept \cup {k} \subseteq Keys
    BY DEF Kept
  <2> QED
    BY <2>1, FS_Subset, FS_CardinalityType
<1>2. Cardinality(Kept') <= Cardinality(Kept) + 1
  <2>1. Cardinality(Kept') <= Cardinality(Kept \cup {k})
    BY <1>1, CallSweeps, FS_Subset
  <2>2. Cardinality(Kept \cup {k}) \in {Cardinality(Kept), Cardinality(Kept) + 1}
    BY <1>1, FS_AddElement
  <2> QED
    BY <1>1, <2>1, <2>2
<1>3. SweepDue
  <2>1. Cardinality(Kept) > SoftCap
    BY <1>1, <1>2
  <2> QED
    BY <2>1 DEF SweepDue, Crowded, Kept
<1>4. \A x \in Kept' : /\ buckets'[x].seen \in Nat /\ buckets'[x].seen <= clock
                       /\ clock <= buckets'[x].seen + Ttl
  <2> SUFFICES ASSUME NEW x \in Kept'
               PROVE  /\ buckets'[x].seen \in Nat /\ buckets'[x].seen <= clock
                      /\ clock <= buckets'[x].seen + Ttl
    OBVIOUS
  <2>0. clock \in Nat /\ x \in Keys /\ buckets[x] \in Bucket /\ Ttl \in Nat
    BY DEF LimiterInv, LimiterTypeOK, Kept, Bucket
  <2>1. CASE x = k
    BY <2>0, <2>1, CallSweeps
  <2>2. CASE x # k
    <3>1. buckets'[x] = sweepLocked[x] /\ buckets'[x].kept
      BY <2>0, <2>2, CallSweeps DEF Kept
    <3>2. buckets'[x] = buckets[x] /\ ~(buckets[x].seen + Ttl < clock)
      BY <1>3, <2>0, <3>1 DEF sweepLocked, Absent
    <3>3. buckets[x].seen <= clock
      BY <2>0, <3>1, <3>2 DEF LimiterInv, FillsUp
    <3> QED
      BY <2>0, <3>2, <3>3 DEF Bucket
  <2> QED
    BY <2>1, <2>2
<1>5. clock \in Nat /\ Ttl \in Nat
  BY DEF LimiterInv, LimiterTypeOK
<1> QED
  BY <1>4, <1>5

(* Whoever probes many keys, the map holds no bucket that was idle for two     *)
(* ttls when another was used, and a large map of the wedding service none    *)
(* that was idle for one (sweepLocked, rateLimiter.allow).                  *)
THEOREM MemoryIsReturned == LimiterNumbers /\ IsFiniteSet(Keys) => (LimiterSpec => []IdleBucketsGo)
<1> SUFFICES ASSUME LimiterNumbers, IsFiniteSet(Keys) PROVE LimiterSpec => []IdleBucketsGo
  OBVIOUS
<1>1. LimiterInit => MemoryInv
  <2> SUFFICES ASSUME LimiterInit PROVE MemoryInv
    OBVIOUS
  <2>1. Kept = {} /\ lastSweep <= clock
    BY DEF LimiterInit, Kept, Absent
  <2> QED
    BY <2>1, LimiterStarts DEF MemoryInv, SweptLately, CrowdSwept
<1>2. MemoryInv /\ [LimiterNext]_limiterVars => MemoryInv'
  <2> SUFFICES ASSUME MemoryInv, [LimiterNext]_limiterVars PROVE MemoryInv'
    OBVIOUS
  <2>1. ASSUME NEW k \in Keys, allow(k) PROVE MemoryInv'
    BY <2>1, InvAllow, CallKeepsLately, CallKeepsCrowd DEF MemoryInv
  <2>2. CASE TimePasses
    BY <2>2, InvTime DEF MemoryInv, LimiterInv, LimiterTypeOK, TimePasses, SweptLately, CrowdSwept, Kept
  <2>3. CASE RestartLimiter
    <3>1. Kept' = {} /\ lastSweep' <= clock'
      BY <2>3 DEF RestartLimiter, Kept, Absent, MemoryInv, LimiterInv, LimiterTypeOK
    <3> QED
      BY <2>3, <3>1, InvRestart DEF MemoryInv, SweptLately, CrowdSwept
  <2>4. CASE UNCHANGED limiterVars
    BY <2>4, InvStutter DEF limiterVars, MemoryInv, SweptLately, CrowdSwept, Kept
  <2> QED
    BY <2>1, <2>2, <2>3, <2>4 DEF LimiterNext
<1>3. ASSUME MemoryInv PROVE IdleBucketsGo
  <2> SUFFICES ASSUME NEW k \in Kept, NEW other \in Kept
               PROVE  /\ Sweeping = "interval" => buckets[k].seen <= buckets[other].seen + 2 * Ttl
                      /\ Sweeping = "crowded" /\ Cardinality(Kept) > SoftCap + 1
                           => buckets[k].seen <= buckets[other].seen + Ttl
    BY DEF IdleBucketsGo, Kept
  <2>1. /\ buckets[k].seen \in Nat /\ buckets[other].seen \in Nat /\ lastSweep \in Nat /\ Ttl \in Nat
    BY <1>3 DEF MemoryInv, LimiterInv, LimiterTypeOK, Kept
  <2> QED
    BY <1>3, <2>1 DEF MemoryInv, SweptLately, CrowdSwept
<1> QED
  BY <1>1, <1>2, <1>3, PTL DEF LimiterSpec
==================================================================================
