----------------------------- MODULE OutboxRelay -----------------------------
(***************************************************************************)
(* The transactional outbox and the relay that drains it to JetStream.     *)
(* An event is named by its bigserial seq: 1, 2, .. in INSERT order, while *)
(* the transactions that insert them commit in any order or roll back.     *)
(* Relays holds one relay; two while a rolling update overlaps two pods.   *)
(*                                                                         *)
(* A relay is "stopped", "waiting" for its tick, about to "publish" the    *)
(* head of its batch, to "mark" it after its PubAck, to "count" a          *)
(* rejection or to "fail" the row. A batch is a snapshot: pairs of event   *)
(* and the attempts read with it.                                          *)
(***************************************************************************)
EXTENDS Integers, Sequences, FiniteSets

CONSTANTS NEvents,      \* events 1 .. NEvents
          Cause,        \* Cause[e]: the event committed before e is inserted, or 0
          Poison,       \* events the broker rejects until their cause is fixed
          Batch,        \* RELAY_BATCH_SIZE
          MaxAttempts,  \* RELAY_MAX_ATTEMPTS
          Relays,
          MaxFaults     \* bound on crashes, outages, lost acks, DB errors

Events == 1 .. NEvents

ASSUME RelayAssumption ==
    /\ NEvents \in Nat
    /\ Cause \in [Events -> 0 .. NEvents] /\ \A e \in Events : Cause[e] < e
    /\ Poison \subseteq Events
    /\ Batch \in Nat \ {0} /\ MaxAttempts \in Nat \ {0}     \* newRelay clamps
    /\ MaxFaults \in Nat

VARIABLES row,        \* per event: "unborn", "open" (tx running), "gone"
                      \* (rolled back), or the status column once committed
          attempts,   \* the attempts column
          relay,      \* [pc, batch] per relay
          reachable,  \* the broker is connected
          topology,   \* its streams exist
          stream,     \* what JetStream stored, in order
          window,     \* message ids inside the duplicate window
          poison,     \* events whose poison cause is still there
          faults

vars == <<row, attempts, relay, reachable, topology, stream, window, poison, faults>>

dbVars     == <<row, attempts>>
brokerVars == <<reachable, topology, stream, window>>

Committed(e) == row[e] \in { "pending", "published", "failed" }

Init ==
    /\ row      = [e \in Events |-> "unborn"]
    /\ attempts = [e \in Events |-> 0]
    /\ relay    = [x \in Relays |-> [ pc |-> "stopped", batch |-> <<>> ]]
    /\ reachable \in BOOLEAN
    /\ topology = reachable
    /\ stream   = <<>>
    /\ window   = {}
    /\ poison   = Poison
    /\ faults   = 0

Fault == faults < MaxFaults /\ faults' = faults + 1

-----------------------------------------------------------------------------
(* The domain transactions                                                 *)

\* e is the next value of the sequence, and its cause has committed.
Insert(e) ==
    /\ row[e] = "unborn"
    /\ \A d \in 1 .. e - 1 : row[d] # "unborn"
    /\ Cause[e] # 0 => Committed(Cause[e])
    /\ row' = [row EXCEPT ![e] = "open"]
    /\ UNCHANGED <<attempts, relay, brokerVars, poison, faults>>

CommitEvent(e) ==
    /\ row[e] = "open"
    /\ row' = [row EXCEPT ![e] = "pending"]
    /\ UNCHANGED <<attempts, relay, brokerVars, poison, faults>>

\* The transaction fails; its seq stays a gap.
RollBackEvent(e) ==
    /\ \/ row[e] = "open"
       \/ row[e] = "unborn" /\ \A d \in 1 .. e - 1 : row[d] # "unborn"
    /\ row' = [row EXCEPT ![e] = "gone"]
    /\ UNCHANGED <<attempts, relay, brokerVars, poison, faults>>

-----------------------------------------------------------------------------
(* drainOnce                                                               *)

Head1(x) == Head(relay[x].batch)
At(x, pc) == relay[x].pc = pc /\ UNCHANGED poison

\* Mutant: the loop runs past the last row.
NextRowAlways(x) ==
    relay' = [relay EXCEPT ![x] = [ pc |-> "publish", batch |-> Tail(relay[x].batch) ]]

\* The loop goes on to the next row of the batch, or waits for the next tick.
NextRow(x) ==
    LET rest == Tail(relay[x].batch)
    IN  relay' = [relay EXCEPT ![x] =
            [ pc |-> IF rest = <<>> THEN "waiting" ELSE "publish", batch |-> rest ]]

Goto(x, pc) == relay' = [relay EXCEPT ![x].pc = pc]
DropBatch(x) == relay' = [relay EXCEPT ![x] = [ pc |-> "waiting", batch |-> <<>> ]]

Snapshot(seqs) == [ i \in DOMAIN seqs |-> [ id |-> seqs[i], attempts |-> attempts[seqs[i]] ] ]

\* The one sequence that lists S by seq, cut off after Batch rows; none if S is empty.
InOrder(seqs) == \A i, j \in DOMAIN seqs : i < j => seqs[i] < seqs[j]

FirstBatch(S) ==
    { seqs \in UNION { [1 .. n -> S] : n \in 1 .. Batch } :
        /\ InOrder(seqs)
        /\ \A e \in S : \/ \E i \in DOMAIN seqs : seqs[i] = e
                         \/ (Len(seqs) = Batch /\ seqs[Batch] < e) }

\* Mutant: newest first.
LastBatch(S) ==
    { seqs \in UNION { [1 .. n -> S] : n \in 1 .. Batch } :
        /\ \A i, j \in DOMAIN seqs : i < j => seqs[j] < seqs[i]
        /\ \A e \in S : \/ \E i \in DOMAIN seqs : seqs[i] = e
                         \/ (Len(seqs) = Batch /\ e < seqs[Batch]) }

Take(x, chosen) ==
    /\ At(x, "waiting")
    /\ relay' = [relay EXCEPT ![x] = [ pc |-> "publish", batch |-> Snapshot(chosen) ]]
    /\ UNCHANGED <<dbVars, brokerVars, faults>>

\* Mutant: rows of running transactions are read (READ UNCOMMITTED).
SelectUncommitted(x) ==
    \E chosen \in FirstBatch({ e \in Events : row[e] \in { "open", "pending" } }) : Take(x, chosen)

SelectNewest(x) == \E chosen \in LastBatch({ e \in Events : row[e] = "pending" }) : Take(x, chosen)

\* SelectPendingOutbox: the whole pending set by seq, up to LIMIT.
SelectPending(x) == \E chosen \in FirstBatch({ e \in Events : row[e] = "pending" }) : Take(x, chosen)

\* JetStream stores a message unless its Nats-Msg-Id is in the window.
Store(e) ==
    /\ stream' = IF e \in window THEN stream ELSE Append(stream, e)
    /\ window' = window \cup { e }
    /\ UNCHANGED <<reachable, topology>>

Accepting(e) == reachable /\ topology /\ e \notin poison

\* publishOne: stored and acknowledged.
PublishAcked(x) ==
    /\ At(x, "publish")
    /\ Accepting(Head1(x).id)
    /\ Store(Head1(x).id)
    /\ Goto(x, "mark")
    /\ UNCHANGED <<dbVars, faults>>

\* No answer in time: transient, whether the message was stored or not.
PublishTimeout(x) ==
    /\ At(x, "publish")
    /\ reachable /\ topology
    /\ Fault
    /\ \/ Accepting(Head1(x).id) /\ Store(Head1(x).id)
       \/ UNCHANGED brokerVars
    /\ DropBatch(x)
    /\ UNCHANGED dbVars

\* Mutant: the error is ignored and the row marked.
PublishFireAndForget(x) ==
    /\ At(x, "publish")
    /\ ~ (reachable /\ topology)
    /\ Goto(x, "mark")
    /\ topology' = (topology \/ reachable)
    /\ UNCHANGED <<dbVars, reachable, stream, window, faults>>

\* Mutant: the failing row is skipped and the next one tried.
PublishSkips(x) ==
    /\ At(x, "publish")
    /\ ~ (reachable /\ topology)
    /\ NextRow(x)
    /\ topology' = (topology \/ reachable)
    /\ UNCHANGED <<dbVars, reachable, stream, window, faults>>

\* Mutant: the missing streams are left missing.
PublishNoReEnsure(x) ==
    /\ At(x, "publish")
    /\ ~ (reachable /\ topology)
    /\ DropBatch(x)
    /\ UNCHANGED <<dbVars, brokerVars, faults>>

\* Broker down or stream missing: the batch stays pending, no attempt is
\* burned, and onTransient re-creates the streams if it can.
PublishTransient(x) ==
    /\ At(x, "publish")
    /\ ~ (reachable /\ topology)
    /\ DropBatch(x)
    /\ topology' = (topology \/ reachable)
    /\ UNCHANGED <<dbVars, reachable, stream, window, faults>>

\* Mutant: every publish error counts as a rejection.
PublishErrorCounts(x) ==
    /\ At(x, "publish")
    /\ (reachable /\ topology) => Head1(x).id \in poison
    /\ Goto(x, "count")
    /\ UNCHANGED <<dbVars, brokerVars, faults>>

\* A reachable broker refuses this message.
PublishRejected(x) ==
    /\ At(x, "publish")
    /\ reachable /\ topology
    /\ Head1(x).id \in poison
    /\ Goto(x, "count")
    /\ UNCHANGED <<dbVars, brokerVars, faults>>

MarkPublished(x) ==
    /\ At(x, "mark")
    /\ row' = [row EXCEPT ![Head1(x).id] = "published"]
    /\ NextRow(x)
    /\ UNCHANGED <<attempts, brokerVars, faults>>

\* quarantine: bump the counter; the budget is judged on the snapshot.
IncrementAttempts(x) ==
    /\ At(x, "count")
    /\ attempts' = [attempts EXCEPT ![Head1(x).id] = @ + 1]
    /\ IF Head1(x).attempts + 1 < MaxAttempts THEN NextRow(x) ELSE Goto(x, "fail")
    /\ UNCHANGED <<row, brokerVars, faults>>

MarkFailed(x) ==
    /\ At(x, "fail")
    /\ row' = [row EXCEPT ![Head1(x).id] = "failed"]
    /\ NextRow(x)
    /\ UNCHANGED <<attempts, brokerVars, faults>>

\* A database error in mark, count or fail is logged and the loop goes on.
DatabaseError(x) ==
    /\ relay[x].pc \in { "mark", "count", "fail" }
    /\ Fault
    /\ NextRow(x)
    /\ UNCHANGED <<dbVars, brokerVars, poison>>

-----------------------------------------------------------------------------
(* The process, the broker and the owner                                   *)

\* The pod starts; it provisions the streams when the broker is up.
Start(x) ==
    /\ At(x, "stopped")
    /\ Goto(x, "waiting")
    /\ topology' = (topology \/ reachable)
    /\ UNCHANGED <<dbVars, reachable, stream, window, faults>>

\* Killed or shut down between any two statements.
Crash(x) ==
    /\ relay[x].pc # "stopped"
    /\ Fault
    /\ relay' = [relay EXCEPT ![x] = [ pc |-> "stopped", batch |-> <<>> ]]
    /\ UNCHANGED <<dbVars, brokerVars, poison>>

BrokerDown ==
    /\ reachable
    /\ Fault
    /\ reachable' = FALSE
    /\ UNCHANGED <<dbVars, relay, topology, stream, window, poison>>

\* A first connection fires no reconnect handler: streams may still be missing.
BrokerUp ==
    /\ ~ reachable
    /\ reachable' = TRUE
    /\ UNCHANGED <<dbVars, relay, topology, stream, window, poison, faults>>

\* The duplicate window forgets an id.
Forget(e) ==
    /\ e \in window
    /\ window' = window \ { e }
    /\ UNCHANGED <<dbVars, relay, reachable, topology, stream, poison, faults>>

\* The owner removes the cause of a rejection.
Cure(e) ==
    /\ e \in poison
    /\ poison' = poison \ { e }
    /\ UNCHANGED <<dbVars, relay, brokerVars, faults>>

\* Mutant: the bulk requeue forgets WHERE status = 'failed'.
RequeueEverything ==
    LET failed == { e \in Events : row[e] \in { "failed", "published" } }
    IN  /\ failed # {}
        /\ IF failed \cap poison = {} THEN UNCHANGED faults ELSE Fault
        /\ row'      = [e \in Events |-> IF e \in failed THEN "pending" ELSE row[e]]
        /\ attempts' = [e \in Events |-> IF e \in failed THEN 0 ELSE attempts[e]]
        /\ UNCHANGED <<relay, brokerVars, poison>>

\* POST /admin/outbox/requeue, bulk. Requeueing before the cause is fixed is the
\* owner's mistake, bounded as a fault.
RequeueFailed ==
    LET failed == { e \in Events : row[e] = "failed" }
    IN  /\ failed # {}
        /\ IF failed \cap poison = {} THEN UNCHANGED faults ELSE Fault
        /\ row'      = [e \in Events |-> IF e \in failed THEN "pending" ELSE row[e]]
        /\ attempts' = [e \in Events |-> IF e \in failed THEN 0 ELSE attempts[e]]
        /\ UNCHANGED <<relay, brokerVars, poison>>

Drain(x) ==
    \/ SelectPending(x) \/ PublishAcked(x) \/ PublishTransient(x) \/ PublishRejected(x)
    \/ MarkPublished(x) \/ IncrementAttempts(x) \/ MarkFailed(x)

Trouble(x) == PublishTimeout(x) \/ DatabaseError(x) \/ Crash(x)

Next ==
    \/ \E e \in Events : Insert(e) \/ CommitEvent(e) \/ RollBackEvent(e) \/ Forget(e) \/ Cure(e)
    \/ \E x \in Relays : Drain(x) \/ Trouble(x) \/ Start(x)
    \/ BrokerDown \/ BrokerUp \/ RequeueFailed

\* The ticker keeps ticking, a dead pod is restarted and the broker comes back;
\* faults are finite because MaxFaults bounds them.
Fairness ==
    /\ \A x \in Relays : WF_vars(Drain(x)) /\ WF_vars(Start(x))
    /\ WF_vars(BrokerUp)

Spec     == Init /\ [][Next]_vars
FairSpec == Spec /\ Fairness

-----------------------------------------------------------------------------
(* Properties                                                              *)

Statuses == { "unborn", "open", "gone", "pending", "published", "failed" }
RelayPCs == { "stopped", "waiting", "publish", "mark", "count", "fail" }

TypeOK ==
    /\ row \in [Events -> Statuses]
    /\ attempts \in [Events -> Nat]
    /\ relay \in [Relays -> [pc : RelayPCs, batch : Seq([id : Events, attempts : Nat])]]
    /\ \A x \in Relays : (relay[x].batch = <<>>) <=> (relay[x].pc \in { "stopped", "waiting" })
    /\ reachable \in BOOLEAN /\ topology \in BOOLEAN
    /\ stream \in Seq(Events)
    /\ window \subseteq Events /\ poison \subseteq Poison
    /\ faults \in 0 .. MaxFaults

InStream(e) == \E i \in DOMAIN stream : stream[i] = e

\* A row is marked published only when JetStream stored its event: no crash,
\* lost ack or failed statement makes the relay forget an event.
PublishedIsStored == \A e \in Events : row[e] = "published" => InStream(e)

\* Nothing is published that was not committed, and nothing rolled back ever is.
StoredIsCommitted == \A e \in Events : InStream(e) => Committed(e)

\* A consumer meets order.created before the same order's order.paid, whatever
\* was retried, unless the broker itself rejects the order.created.
CauseBeforeEffect ==
    \A i \in DOMAIN stream :
        LET c == Cause[stream[i]]
        IN  c \notin Poison \cup { 0 } => \E k \in 1 .. i - 1 : stream[k] = c

\* Outages and restarts burn no attempts: only a rejected event is quarantined.
OnlyPoisonFails == \A e \in Events : attempts[e] > 0 \/ row[e] = "failed" => e \in Poison

\* An event confirmed as published stays so; in particular it is never
\* reported lost (failed) after it was delivered. One relay only.
PublishedIsFinal ==
    [][\A e \in Events : row[e] = "published" => row'[e] = "published"]_vars

\* Every committed event a broker accepts is delivered, also behind poison rows
\* that fill the batch and with a seq below one already published.
CommittedIsDelivered ==
    \A e \in Events \ Poison : row[e] = "pending" ~> row[e] = "published"
=============================================================================
