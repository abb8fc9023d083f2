------------------------- MODULE OutboxRelayProofs -------------------------
(***************************************************************************)
(* What the relay keeps for any number of events, relays and rows in a     *)
(* batch, and any schedule of crashes, outages and lost answers: it        *)
(* publishes committed events only, marks only what the broker stored,     *)
(* keeps a cause ahead of its effect and gives up only on what the broker  *)
(* itself rejects.                                                         *)
(*                                                                         *)
(* None of these is inductive alone.  A batch is read once and worked off  *)
(* long after, so RelayInv says what a batch still holds to: its rows are  *)
(* committed, and the cause of each is in the stream or ahead of it in the *)
(* same batch.                                                             *)
(***************************************************************************)
EXTENDS OutboxRelay, SequenceTheorems, TLAPS

RelayStates == [pc : RelayPCs, batch : Seq([id : Events, attempts : Nat])]

\* An event whose place in the stream the broker's own rejection does not excuse.
Binds(c) == c \notin Poison \cup { 0 }

\* The relay at this pc has dealt with the head of its batch as far as pc says.
HeadSound(b) ==
    /\ b.pc = "mark" => InStream(b.batch[1].id)
    /\ b.pc \in { "count", "fail" } => b.batch[1].id \in Poison

\* What remains of a batch is committed, and no row comes before its cause.
RowsSound(b) ==
    \A i \in DOMAIN b.batch :
        /\ Committed(b.batch[i].id)
        /\ Binds(Cause[b.batch[i].id]) =>
              \/ InStream(Cause[b.batch[i].id])
              \/ \E j \in 1 .. i - 1 : b.batch[j].id = Cause[b.batch[i].id]

CauseCommitted ==
    \A e \in Events :
        row[e] \notin { "unborn", "gone" } /\ Cause[e] # 0 => Committed(Cause[e])

WindowStored == \A e \in window : InStream(e)

StreamSound == PublishedIsStored /\ StoredIsCommitted /\ CauseBeforeEffect /\ WindowStored
RowSound    == OnlyPoisonFails /\ CauseCommitted
BatchSound  == \A x \in Relays : HeadSound(relay[x]) /\ RowsSound(relay[x])

RelayInv == TypeOK /\ StreamSound /\ RowSound /\ BatchSound

-----------------------------------------------------------------------------
(* Batches and the stream.                                                 *)

\* A batch is a sequence of rows of the outbox.
LEMMA BatchRows ==
  ASSUME NEW b \in RelayStates
  PROVE  /\ Len(b.batch) \in Nat /\ DOMAIN b.batch = 1 .. Len(b.batch)
         /\ \A i \in DOMAIN b.batch : b.batch[i].id \in Events /\ b.batch[i].attempts \in Nat
         /\ b.batch # <<>> =>
               /\ 1 \in DOMAIN b.batch
               /\ Tail(b.batch) \in Seq([id : Events, attempts : Nat])
               /\ DOMAIN Tail(b.batch) = 1 .. Len(b.batch) - 1
               /\ \A i \in DOMAIN Tail(b.batch) : Tail(b.batch)[i] = b.batch[i + 1]
<1>1. b.batch \in Seq([id : Events, attempts : Nat])
  BY DEF RelayStates
<1>2. Len(b.batch) \in Nat /\ DOMAIN b.batch = 1 .. Len(b.batch)
  BY <1>1, LenProperties
<1>3. \A i \in 1 .. Len(b.batch) : b.batch[i] \in [id : Events, attempts : Nat]
  BY <1>1, ElementOfSeq
<1>4. ASSUME b.batch # <<>>
      PROVE  /\ 1 \in DOMAIN b.batch
             /\ Tail(b.batch) \in Seq([id : Events, attempts : Nat])
             /\ DOMAIN Tail(b.batch) = 1 .. Len(b.batch) - 1
             /\ \A i \in DOMAIN Tail(b.batch) : Tail(b.batch)[i] = b.batch[i + 1]
  <2>1. /\ Tail(b.batch) \in Seq([id : Events, attempts : Nat])
        /\ Len(Tail(b.batch)) = Len(b.batch) - 1
        /\ \A i \in 1 .. Len(Tail(b.batch)) : Tail(b.batch)[i] = b.batch[i + 1]
    BY <1>1, <1>4, HeadTailProperties
  <2>2. DOMAIN Tail(b.batch) = 1 .. Len(Tail(b.batch))
    BY <2>1, LenProperties
  <2>3. Len(b.batch) # 0
    BY <1>1, <1>4, EmptySeq
  <2> QED
    BY <1>2, <2>1, <2>2, <2>3
<1> QED
  BY <1>2, <1>3, <1>4

\* Whatever only adds to the stream and un-commits nothing leaves a batch sound.
LEMMA BatchKept ==
  ASSUME NEW b \in RelayStates, HeadSound(b) /\ RowsSound(b),
         b.batch = <<>> => b.pc \in { "stopped", "waiting" },
         \A e \in Events : InStream(e) => InStream(e)',
         \A e \in Events : Committed(e) => Committed(e)'
  PROVE  (HeadSound(b) /\ RowsSound(b))'
<1>1. \A i \in DOMAIN b.batch : b.batch[i].id \in Events
  BY BatchRows
<1>2. HeadSound(b)'
  <2>1. b.pc = "mark" => 1 \in DOMAIN b.batch
    BY BatchRows
  <2> QED
    BY <1>1, <2>1 DEF HeadSound
<1>3. ASSUME NEW i \in DOMAIN b.batch, Binds(Cause[b.batch[i].id])
      PROVE  Cause[b.batch[i].id] \in Events
  BY <1>1, <1>3, RelayAssumption DEF Binds, Events
<1> QED
  BY <1>1, <1>2, <1>3 DEF RowsSound

\* The head is done with: it is in the stream or the broker rejects it.
LEMMA RestSound ==
  ASSUME NEW b \in RelayStates, HeadSound(b) /\ RowsSound(b),
         b.pc \in { "mark", "count", "fail" }, b.batch # <<>>, NEW pc \in { "waiting", "publish" }
  PROVE  /\ [pc |-> pc, batch |-> Tail(b.batch)] \in RelayStates
         /\ HeadSound([pc |-> pc, batch |-> Tail(b.batch)])
         /\ RowsSound([pc |-> pc, batch |-> Tail(b.batch)])
<1> DEFINE rest == Tail(b.batch)
<1> DEFINE n == Len(b.batch)
<1>a. /\ n \in Nat /\ DOMAIN b.batch = 1 .. n
      /\ rest \in Seq([id : Events, attempts : Nat]) /\ DOMAIN rest = 1 .. n - 1
      /\ \A i \in DOMAIN rest : rest[i] = b.batch[i + 1]
  BY BatchRows
<1>1. /\ rest \in Seq([id : Events, attempts : Nat])
      /\ \A i \in DOMAIN rest : i \in Nat /\ i + 1 \in DOMAIN b.batch /\ rest[i] = b.batch[i + 1]
      /\ \A i \in DOMAIN rest : \A j \in 1 .. i : j # 1 => j - 1 \in DOMAIN rest
  <2> HIDE DEF n, rest
  <2> QED
    BY <1>a
<1>2. ASSUME NEW i \in DOMAIN rest, Binds(Cause[rest[i].id]), ~ InStream(Cause[rest[i].id])
      PROVE  \E j \in 1 .. i - 1 : rest[j].id = Cause[rest[i].id]
  <2>a. i + 1 \in DOMAIN b.batch /\ rest[i] = b.batch[i + 1] /\ i \in Nat
    BY <1>1
  <2>b. \E j \in 1 .. (i + 1) - 1 : b.batch[j].id = Cause[b.batch[i + 1].id]
    BY <1>2, <2>a DEF RowsSound
  <2>1. PICK j \in 1 .. i : b.batch[j].id = Cause[rest[i].id]
    BY <2>a, <2>b
  <2>3. j # 1
    BY <1>2, <2>1 DEF HeadSound, Binds
  <2>4. j - 1 \in 1 .. i - 1 /\ rest[j - 1] = b.batch[j]
    <3>1. j - 1 \in DOMAIN rest /\ rest[j - 1] = b.batch[(j - 1) + 1]
      BY <1>1, <2>1, <2>3
    <3> QED
      BY <2>a, <2>1, <2>3, <3>1
  <2> QED
    BY <2>1, <2>4
<1>3. RowsSound([pc |-> pc, batch |-> rest])
  BY <1>1, <1>2 DEF RowsSound
<1> QED
  BY <1>1, <1>3 DEF HeadSound, RelayStates, RelayPCs

\* A function on 1 .. n is a sequence.
LEMMA FunctionIsSeq ==
  ASSUME NEW S, NEW n \in Nat, NEW f \in [1 .. n -> S] PROVE f \in Seq(S)
OBVIOUS

\* The rows of a selection: committed, and each after its cause.
LEMMA SelectionSound ==
  ASSUME TypeOK, StreamSound, RowSound,
         NEW chosen \in FirstBatch({ e \in Events : row[e] = "pending" })
  PROVE  LET b == [pc |-> "publish", batch |-> Snapshot(chosen)]
         IN  b \in RelayStates /\ b.batch # <<>> /\ HeadSound(b) /\ RowsSound(b)
<1> DEFINE S == { e \in Events : row[e] = "pending" }
           b == [pc |-> "publish", batch |-> Snapshot(chosen)]
<1>1. PICK n \in 1 .. Batch : chosen \in [1 .. n -> S]
  BY DEF FirstBatch
<1>2. n \in Nat /\ n # 0 /\ Batch \in Nat /\ DOMAIN chosen = 1 .. n /\ Len(chosen) = n
  BY <1>1, RelayAssumption
<1>3. /\ Snapshot(chosen) \in [1 .. n -> [id : Events, attempts : Nat]]
      /\ \A i \in 1 .. n : Snapshot(chosen)[i].id = chosen[i]
  BY <1>1, <1>2 DEF Snapshot, TypeOK
<1>4. b \in RelayStates /\ b.batch # <<>>
  <2>1. Snapshot(chosen) \in Seq([id : Events, attempts : Nat])
    BY <1>2, <1>3, FunctionIsSeq
  <2>2. Snapshot(chosen) # <<>>
    BY <1>2, <1>3
  <2> QED
    BY <2>1, <2>2 DEF RelayStates, RelayPCs
<1>5. ASSUME NEW i \in 1 .. n, Binds(Cause[chosen[i]]), ~ InStream(Cause[chosen[i]])
      PROVE  \E j \in 1 .. i - 1 : chosen[j] = Cause[chosen[i]]
  <2> DEFINE c == Cause[chosen[i]]
  <2>1. /\ chosen[i] \in Events /\ row[chosen[i]] = "pending"
        /\ c \in Events /\ c < chosen[i] /\ c # 0
    BY <1>1, <1>5, RelayAssumption DEF Binds, Events
  <2>2. Committed(c)
    BY <2>1 DEF RowSound, CauseCommitted
  <2>3. c \in S
    BY <1>5, <2>1, <2>2 DEF Committed, StreamSound, PublishedIsStored, RowSound, OnlyPoisonFails, Binds
  <2>4. InOrder(chosen) /\ ((\E j \in DOMAIN chosen : chosen[j] = c) \/ (Len(chosen) = Batch /\ chosen[Batch] < c))
    BY <2>3 DEF FirstBatch
  <2>5. \A j \in 1 .. n : chosen[j] \in Int
    BY <1>1 DEF Events
  <2>6. ASSUME NEW j \in 1 .. n, i <= j PROVE chosen[i] <= chosen[j]
    BY <1>2, <2>4, <2>5, <2>6 DEF InOrder
  <2>7. ~ (Len(chosen) = Batch /\ chosen[Batch] < c)
    <3> SUFFICES ASSUME Len(chosen) = Batch, chosen[Batch] < c PROVE FALSE
      OBVIOUS
    <3>1. Batch = n
      BY <1>2
    <3>2. chosen[i] <= chosen[n]
      BY <1>2, <2>6
    <3> QED
      BY <2>1, <2>5, <1>2, <3>1, <3>2 DEF Events
  <2>8. PICK j \in 1 .. n : chosen[j] = c
    BY <1>2, <2>4, <2>7
  <2>9. ~ (i <= j)
    BY <2>1, <2>5, <2>6, <2>8 DEF Events
  <2> QED
    BY <2>8, <2>9
<1>6. RowsSound(b)
  <2> SUFFICES ASSUME NEW i \in DOMAIN b.batch
               PROVE  /\ Committed(b.batch[i].id)
                      /\ Binds(Cause[b.batch[i].id]) =>
                            \/ InStream(Cause[b.batch[i].id])
                            \/ \E j \in 1 .. i - 1 : b.batch[j].id = Cause[b.batch[i].id]
    BY DEF RowsSound
  <2>1. i \in 1 .. n /\ b.batch[i].id = chosen[i] /\ \A j \in 1 .. i - 1 : b.batch[j].id = chosen[j]
    BY <1>2, <1>3
  <2>2. Committed(chosen[i])
    BY <1>1, <2>1 DEF Committed
  <2> QED
    BY <1>5, <2>1, <2>2
<1> QED
  BY <1>4, <1>6 DEF HeadSound

-----------------------------------------------------------------------------
(* The parts a step can disturb.                                           *)

RelaysTyped ==
    /\ relay \in [Relays -> RelayStates]
    /\ \A x \in Relays : (relay[x].batch = <<>>) <=> (relay[x].pc \in { "stopped", "waiting" })

RowsTyped == row \in [Events -> Statuses] /\ attempts \in [Events -> Nat]

BrokerTyped ==
    /\ reachable \in BOOLEAN /\ topology \in BOOLEAN
    /\ stream \in Seq(Events)
    /\ window \subseteq Events /\ poison \subseteq Poison
    /\ faults \in 0 .. MaxFaults

LEMMA TypeParts == /\ TypeOK <=> RelaysTyped /\ RowsTyped /\ BrokerTyped
                   /\ TypeOK' <=> (RelaysTyped /\ RowsTyped /\ BrokerTyped)'
BY DEF TypeOK, RelaysTyped, RowsTyped, BrokerTyped, RelayStates

\* What every step keeps: the stream only grows and no commit is undone.
Grows == /\ \A e \in Events : InStream(e) => InStream(e)'
         /\ \A e \in Events : Committed(e) => Committed(e)'

\* A relay that does not move keeps its batch sound.
LEMMA StillSound ==
  ASSUME RelayInv, Grows, NEW y \in Relays, relay'[y] = relay[y]
  PROVE  (HeadSound(relay[y]) /\ RowsSound(relay[y]))'
<1>1. PICK b : b = relay[y]
  OBVIOUS
<1>2. b \in RelayStates /\ HeadSound(b) /\ RowsSound(b) /\ (b.batch = <<>> => b.pc \in { "stopped", "waiting" })
  BY <1>1, TypeParts DEF RelayInv, RelaysTyped, BatchSound
<1>3. (HeadSound(b) /\ RowsSound(b))'
  BY <1>2, BatchKept DEF Grows
<1> QED
  BY <1>1, <1>3

LEMMA NobodyMoves ==
  ASSUME RelayInv, Grows, relay' = relay
  PROVE  (RelaysTyped /\ BatchSound)'
BY StillSound, TypeParts DEF RelayInv, RelaysTyped, BatchSound

\* Relay x moves to b, whose head the step itself may have made sound.
LEMMA OneMoves ==
  ASSUME RelayInv, Grows, NEW x \in Relays, NEW b \in RelayStates,
         relay' = [relay EXCEPT ![x] = b],
         HeadSound(b)', RowsSound(b),
         (b.batch = <<>>) <=> (b.pc \in { "stopped", "waiting" })
  PROVE  (RelaysTyped /\ BatchSound)'
<1>1. relay \in [Relays -> RelayStates]
  BY TypeParts DEF RelayInv, RelaysTyped
<1>2. relay'[x] = b /\ \A y \in Relays \ { x } : relay'[y] = relay[y]
  BY <1>1
<1>3. RelaysTyped'
  BY <1>1, <1>2, TypeParts DEF RelayInv, RelaysTyped
<1>4. RowsSound(b)'
  <2>1. PICK idle \in RelayStates : idle = [pc |-> "publish", batch |-> b.batch]
    BY DEF RelayStates, RelayPCs
  <2> CASE b.batch = <<>>
    BY DEF RowsSound
  <2> CASE b.batch # <<>>
    <3>1. HeadSound(idle) /\ RowsSound(idle) /\ idle.batch # <<>>
      BY <2>1 DEF HeadSound, RowsSound
    <3>2. RowsSound(idle)'
      BY <3>1, BatchKept DEF Grows
    <3> QED
      BY <2>1, <3>2 DEF RowsSound
  <2> QED
    OBVIOUS
<1>5. ASSUME NEW y \in Relays PROVE (HeadSound(relay[y]) /\ RowsSound(relay[y]))'
  <2>1. CASE y = x
    BY <1>2, <1>4, <2>1
  <2>2. CASE y # x
    BY <1>2, <2>2, StillSound
  <2> QED
    BY <2>1, <2>2
<1> QED
  BY <1>3, <1>5 DEF BatchSound

\* A batch that is dropped.
LEMMA Dropped ==
  ASSUME RelayInv, Grows, NEW x \in Relays, NEW pc \in { "stopped", "waiting" },
         relay' = [relay EXCEPT ![x] = [ pc |-> pc, batch |-> <<>> ]]
  PROVE  (RelaysTyped /\ BatchSound)'
<1>1. PICK b : b = [ pc |-> pc, batch |-> <<>> ]
  OBVIOUS
<1>2. b \in RelayStates /\ b.batch = <<>> /\ b.pc \in { "stopped", "waiting" }
  BY <1>1 DEF RelayStates, RelayPCs
<1>3. RowsSound(b) /\ HeadSound(b)'
  BY <1>2 DEF RowsSound, HeadSound
<1> QED
  BY <1>1, <1>2, <1>3, OneMoves

\* The loop goes on after a head the relay has dealt with.
LEMMA GoesOn ==
  ASSUME RelayInv, Grows, NEW x \in Relays, relay[x].pc \in { "mark", "count", "fail" }, NextRow(x)
  PROVE  (RelaysTyped /\ BatchSound)'
<1>1. PICK b : b = relay[x]
  OBVIOUS
<1>2. /\ b \in RelayStates /\ HeadSound(b) /\ RowsSound(b) /\ b.batch # <<>>
      /\ b.pc \in { "mark", "count", "fail" }
  BY <1>1, TypeParts DEF RelayInv, RelaysTyped, BatchSound
<1>3. PICK pc : pc = IF Tail(b.batch) = <<>> THEN "waiting" ELSE "publish"
  OBVIOUS
<1>4. PICK rest : rest = [ pc |-> pc, batch |-> Tail(b.batch) ]
  OBVIOUS
<1>5. rest \in RelayStates /\ RowsSound(rest)
  BY <1>2, <1>3, <1>4, RestSound
<1>6. HeadSound(rest)' /\ ((rest.batch = <<>>) <=> (rest.pc \in { "stopped", "waiting" }))
  BY <1>3, <1>4 DEF HeadSound
<1>7. relay' = [relay EXCEPT ![x] = rest]
  BY <1>1, <1>3, <1>4 DEF NextRow
<1> QED
  BY <1>5, <1>6, <1>7, OneMoves

\* The head is taken up: pc moves, the batch stays.
LEMMA TakenUp ==
  ASSUME RelayInv, Grows, NEW x \in Relays, NEW pc \in { "mark", "count", "fail" },
         relay[x].batch # <<>>, Goto(x, pc),
         pc = "mark" => InStream(relay[x].batch[1].id)',
         pc # "mark" => relay[x].batch[1].id \in Poison
  PROVE  (RelaysTyped /\ BatchSound)'
<1>1. PICK b : b = relay[x]
  OBVIOUS
<1>2. b \in RelayStates /\ RowsSound(b) /\ b.batch # <<>> /\ relay \in [Relays -> RelayStates]
  BY <1>1, TypeParts DEF RelayInv, RelaysTyped, BatchSound
<1>3. PICK next : next = [ pc |-> pc, batch |-> b.batch ]
  OBVIOUS
<1>4. next \in RelayStates /\ RowsSound(next) /\ next.batch # <<>>
  BY <1>2, <1>3 DEF RelayStates, RelayPCs, RowsSound
<1>5. relay' = [relay EXCEPT ![x] = next]
  <2>1. [b EXCEPT !.pc = pc] = next
    BY <1>2, <1>3 DEF RelayStates
  <2>2. relay' = [relay EXCEPT ![x] = [b EXCEPT !.pc = pc]]
    BY <1>1 DEF Goto
  <2> QED
    BY <2>1, <2>2
<1>6. relay'[x] = next /\ next.batch = relay[x].batch
  BY <1>1, <1>2, <1>3, <1>5
<1>7. HeadSound(next)'
  BY <1>3, <1>6 DEF HeadSound
<1>8. (next.batch = <<>>) <=> (next.pc \in { "stopped", "waiting" })
  BY <1>3, <1>4
<1> QED
  BY <1>4, <1>5, <1>7, <1>8, OneMoves

-----------------------------------------------------------------------------
(* The steps.                                                              *)

\* A step that leaves the database and the stream as they are.
LEMMA QuietStep ==
  ASSUME RelayInv, UNCHANGED <<dbVars, stream>>, window' \subseteq window, poison' \subseteq poison,
         reachable' \in BOOLEAN, topology' \in BOOLEAN, faults' \in 0 .. MaxFaults,
         Grows => (RelaysTyped /\ BatchSound)'
  PROVE  RelayInv'
<1>1. Grows
  BY DEF Grows, InStream, Committed, dbVars
<1>2. (RowsTyped /\ BrokerTyped)'
  BY TypeParts DEF RelayInv, RowsTyped, BrokerTyped, dbVars
<1>3. StreamSound'
  BY DEF RelayInv, StreamSound, PublishedIsStored, StoredIsCommitted, CauseBeforeEffect,
         WindowStored, InStream, Committed, dbVars
<1>4. RowSound'
  BY DEF RelayInv, RowSound, OnlyPoisonFails, CauseCommitted, Committed, dbVars
<1>5. TypeOK' /\ BatchSound'
  BY <1>1, <1>2, TypeParts
<1> QED
  BY <1>1, <1>3, <1>4, <1>5 DEF RelayInv

\* A step of the database alone.
LEMMA RowStep ==
  ASSUME RelayInv, RowsTyped', UNCHANGED <<brokerVars, poison>>, faults' \in 0 .. MaxFaults,
         \A e \in Events : Committed(e) => Committed(e)',
         PublishedIsStored', RowSound',
         Grows => (RelaysTyped /\ BatchSound)'
  PROVE  RelayInv'
<1>1. Grows
  BY DEF Grows, InStream, brokerVars
<1>2. BrokerTyped'
  BY TypeParts DEF RelayInv, BrokerTyped, brokerVars
<1>3. StreamSound'
  BY DEF RelayInv, StreamSound, StoredIsCommitted, CauseBeforeEffect, WindowStored, InStream, brokerVars
<1>4. TypeOK' /\ BatchSound'
  BY <1>1, <1>2, TypeParts
<1> QED
  BY <1>1, <1>3, <1>4 DEF RelayInv

\* Storing a committed event whose cause is stored.
LEMMA StoreStep ==
  ASSUME RelayInv, NEW e \in Events, Store(e), UNCHANGED <<dbVars, poison>>, faults' \in 0 .. MaxFaults,
         Committed(e), Binds(Cause[e]) => InStream(Cause[e]),
         Grows /\ InStream(e)' => (RelaysTyped /\ BatchSound)'
  PROVE  RelayInv'
<1>1. stream \in Seq(Events) /\ WindowStored /\ CauseBeforeEffect
  BY TypeParts DEF RelayInv, BrokerTyped, StreamSound
<1>2. \/ stream' = stream /\ InStream(e)
      \/ /\ stream' \in Seq(Events) /\ Len(stream) \in Nat
         /\ DOMAIN stream = 1 .. Len(stream) /\ DOMAIN stream' = 1 .. Len(stream) + 1
         /\ stream'[Len(stream) + 1] = e
         /\ \A i \in 1 .. Len(stream) : stream'[i] = stream[i]
  <2>1. CASE e \in window
    BY <1>1, <2>1 DEF Store, WindowStored
  <2>2. CASE e \notin window
    <3>1. stream' = Append(stream, e)
      BY <2>2 DEF Store
    <3>2. /\ stream' \in Seq(Events) /\ Len(stream') = Len(stream) + 1
          /\ \A i \in 1 .. Len(stream) : stream'[i] = stream[i]
          /\ stream'[Len(stream) + 1] = e
      BY <1>1, <3>1, AppendProperties
    <3>3. Len(stream) \in Nat /\ DOMAIN stream = 1 .. Len(stream) /\ DOMAIN stream' = 1 .. Len(stream')
      BY <1>1, <3>2, LenProperties
    <3> QED
      BY <3>2, <3>3
  <2> QED
    BY <2>1, <2>2
<1>3. (\A d : InStream(d) => InStream(d)') /\ InStream(e)'
  <2>1. CASE stream' = stream /\ InStream(e)
    BY <2>1 DEF InStream
  <2>2. CASE /\ stream' \in Seq(Events) /\ Len(stream) \in Nat
             /\ DOMAIN stream = 1 .. Len(stream) /\ DOMAIN stream' = 1 .. Len(stream) + 1
             /\ stream'[Len(stream) + 1] = e
             /\ \A i \in 1 .. Len(stream) : stream'[i] = stream[i]
    BY <2>2 DEF InStream
  <2> QED
    BY <1>2, <2>1, <2>2
<1>4. \A d : InStream(d)' => InStream(d) \/ d = e
  BY <1>2 DEF InStream
<1>5. CauseBeforeEffect'
  <2>1. CASE stream' = stream /\ InStream(e)
    BY <1>1, <2>1 DEF CauseBeforeEffect
  <2>2. CASE /\ stream' \in Seq(Events) /\ Len(stream) \in Nat
             /\ DOMAIN stream = 1 .. Len(stream) /\ DOMAIN stream' = 1 .. Len(stream) + 1
             /\ stream'[Len(stream) + 1] = e
             /\ \A i \in 1 .. Len(stream) : stream'[i] = stream[i]
    <3> SUFFICES ASSUME NEW i \in 1 .. Len(stream) + 1, Cause[stream'[i]] \notin Poison \cup { 0 }
                 PROVE  \E k \in 1 .. i - 1 : stream'[k] = Cause[stream'[i]]
      BY <2>2 DEF CauseBeforeEffect
    <3>1. CASE i = Len(stream) + 1
      <4>1. PICK k \in 1 .. Len(stream) : stream[k] = Cause[e]
        BY <2>2, <3>1 DEF Binds, InStream
      <4> QED
        BY <2>2, <3>1, <4>1
    <3>2. CASE i # Len(stream) + 1
      <4>1. i \in 1 .. Len(stream) /\ stream'[i] = stream[i]
        BY <2>2, <3>2
      <4>2. PICK k \in 1 .. i - 1 : stream[k] = Cause[stream[i]]
        BY <1>1, <2>2, <4>1 DEF CauseBeforeEffect
      <4> QED
        BY <2>2, <4>1, <4>2
    <3> QED
      BY <3>1, <3>2
  <2> QED
    BY <1>2, <2>1, <2>2
<1>6. Grows
  BY <1>3 DEF Grows, Committed, dbVars
<1>7. (RowsTyped /\ BrokerTyped)'
  BY <1>1, <1>2, TypeParts DEF RelayInv, RowsTyped, BrokerTyped, dbVars, Store
<1>8. StreamSound'
  <2>1. PublishedIsStored'
    BY <1>3 DEF RelayInv, StreamSound, PublishedIsStored, dbVars
  <2>2. StoredIsCommitted'
    BY <1>4 DEF RelayInv, StreamSound, StoredIsCommitted, Committed, dbVars
  <2>3. WindowStored'
    BY <1>1, <1>3 DEF WindowStored, Store
  <2> QED
    BY <1>5, <2>1, <2>2, <2>3 DEF StreamSound
<1>9. RowSound'
  BY DEF RelayInv, RowSound, OnlyPoisonFails, CauseCommitted, Committed, dbVars
<1> QED
  BY <1>3, <1>6, <1>7, <1>8, <1>9, TypeParts DEF RelayInv

\* The head of a batch that is being worked on.
LEMMA HeadFacts ==
  ASSUME RelayInv, NEW x \in Relays, relay[x].pc \in { "publish", "mark", "count", "fail" }
  PROVE  /\ relay[x].batch # <<>> /\ Head1(x) = relay[x].batch[1]
         /\ Head1(x).id \in Events /\ Head1(x).attempts \in Nat /\ Committed(Head1(x).id)
         /\ Binds(Cause[Head1(x).id]) => InStream(Cause[Head1(x).id])
         /\ relay[x].pc = "mark" => InStream(Head1(x).id)
         /\ relay[x].pc \in { "count", "fail" } => Head1(x).id \in Poison
<1>1. relay[x] \in RelayStates /\ relay[x].batch # <<>> /\ HeadSound(relay[x]) /\ RowsSound(relay[x])
  BY TypeParts DEF RelayInv, RelaysTyped, BatchSound
<1>2. 1 \in DOMAIN relay[x].batch /\ relay[x].batch[1].id \in Events /\ relay[x].batch[1].attempts \in Nat
  BY <1>1, BatchRows
<1>3. Head1(x) = relay[x].batch[1]
  BY <1>1 DEF Head1
<1>4. /\ Committed(relay[x].batch[1].id)
      /\ Binds(Cause[relay[x].batch[1].id]) =>
           \/ InStream(Cause[relay[x].batch[1].id])
           \/ \E j \in 1 .. 1 - 1 : relay[x].batch[j].id = Cause[relay[x].batch[1].id]
  BY <1>1, <1>2 DEF RowsSound
<1> QED
  BY <1>1, <1>2, <1>3, <1>4 DEF HeadSound

\* The transactions that insert events.
LEMMA TransactionStep ==
  ASSUME RelayInv, NEW e \in Events, Insert(e) \/ CommitEvent(e) \/ RollBackEvent(e)
  PROVE  RelayInv'
<1>1. UNCHANGED <<attempts, relay, brokerVars, poison, faults>>
  BY DEF Insert, CommitEvent, RollBackEvent
<1>2. RowsTyped /\ BrokerTyped /\ PublishedIsStored /\ OnlyPoisonFails /\ CauseCommitted
  BY TypeParts DEF RelayInv, StreamSound, RowSound
<1>3. PICK to \in { "open", "pending", "gone" } :
        /\ row[e] \in { "unborn", "open" }
        /\ row' = [row EXCEPT ![e] = to]
        /\ to = "pending" => row[e] = "open"
        /\ to = "open" /\ Cause[e] # 0 => Committed(Cause[e])
  BY DEF Insert, CommitEvent, RollBackEvent
<1>4. RowsTyped'
  BY <1>1, <1>2, <1>3 DEF RowsTyped, Statuses
<1>5. \A d \in Events : Committed(d) => Committed(d)'
  BY <1>2, <1>3 DEF Committed, RowsTyped
<1>6. PublishedIsStored' /\ OnlyPoisonFails'
  BY <1>1, <1>2, <1>3 DEF PublishedIsStored, OnlyPoisonFails, InStream, RowsTyped, brokerVars
<1>7. CauseCommitted'
  <2> SUFFICES ASSUME NEW d \in Events, row'[d] \notin { "unborn", "gone" }, Cause[d] # 0
               PROVE  Committed(Cause[d])'
    BY DEF CauseCommitted
  <2>1. Cause[d] \in Events
    BY RelayAssumption DEF Events
  <2>2. Committed(Cause[d])
    BY <1>2, <1>3 DEF CauseCommitted, RowsTyped
  <2> QED
    BY <1>5, <2>1, <2>2
<1>8. faults' \in 0 .. MaxFaults /\ UNCHANGED <<brokerVars, poison>>
  BY <1>1, <1>2 DEF BrokerTyped
<1>9. Grows => (RelaysTyped /\ BatchSound)'
  BY <1>1, NobodyMoves
<1> QED
  BY <1>4, <1>5, <1>6, <1>7, <1>8, <1>9, RowStep DEF RowSound

LEMMA RequeueStep ==
  ASSUME RelayInv, RequeueFailed
  PROVE  RelayInv'
<1>1. RowsTyped /\ BrokerTyped /\ PublishedIsStored /\ OnlyPoisonFails /\ CauseCommitted
  BY TypeParts DEF RelayInv, StreamSound, RowSound
<1>2. /\ UNCHANGED <<relay, brokerVars, poison>> /\ faults' \in 0 .. MaxFaults
  BY <1>1, RelayAssumption DEF RequeueFailed, Fault, BrokerTyped
<1>3. /\ row' = [e \in Events |-> IF row[e] = "failed" THEN "pending" ELSE row[e]]
      /\ attempts' = [e \in Events |-> IF row[e] = "failed" THEN 0 ELSE attempts[e]]
  BY DEF RequeueFailed
<1>4. RowsTyped'
  BY <1>1, <1>3 DEF RowsTyped, Statuses
<1>5. \A d \in Events : Committed(d) <=> Committed(d)'
  BY <1>3 DEF Committed
<1>6. PublishedIsStored' /\ OnlyPoisonFails'
  BY <1>1, <1>2, <1>3 DEF PublishedIsStored, OnlyPoisonFails, InStream, brokerVars
<1>7. CauseCommitted'
  <2> SUFFICES ASSUME NEW d \in Events, row'[d] \notin { "unborn", "gone" }, Cause[d] # 0
               PROVE  Committed(Cause[d])'
    BY DEF CauseCommitted
  <2>1. Cause[d] \in Events
    BY RelayAssumption DEF Events
  <2>2. Committed(Cause[d])
    BY <1>1, <1>3 DEF CauseCommitted
  <2> QED
    BY <1>5, <2>1, <2>2
<1>9. Grows => (RelaysTyped /\ BatchSound)'
  BY <1>2, NobodyMoves
<1> QED
  BY <1>2, <1>4, <1>5, <1>6, <1>7, <1>9, RowStep DEF RowSound

\* The relay writes a verdict on its head.
LEMMA VerdictStep ==
  ASSUME RelayInv, NEW x \in Relays, MarkPublished(x) \/ IncrementAttempts(x) \/ MarkFailed(x)
  PROVE  RelayInv'
<1> DEFINE e == Head1(x).id
<1>1. RowsTyped /\ BrokerTyped /\ PublishedIsStored /\ OnlyPoisonFails /\ CauseCommitted
  BY TypeParts DEF RelayInv, StreamSound, RowSound
<1>2. /\ relay[x].pc \in { "mark", "count", "fail" }
      /\ UNCHANGED <<brokerVars, poison, faults>> /\ faults' \in 0 .. MaxFaults
  BY <1>1 DEF MarkPublished, IncrementAttempts, MarkFailed, At, BrokerTyped
<1>3. /\ e \in Events /\ Committed(e) /\ relay[x].batch # <<>> /\ Head1(x) = relay[x].batch[1]
      /\ relay[x].pc = "mark" => InStream(e)
      /\ relay[x].pc \in { "count", "fail" } => e \in Poison
  BY <1>2, HeadFacts
<1> HIDE DEF e
<1>4. \/ /\ row' = [row EXCEPT ![e] = "published"] /\ attempts' = attempts /\ InStream(e)
      \/ /\ row' = [row EXCEPT ![e] = "failed"] /\ attempts' = attempts /\ e \in Poison
      \/ /\ row' = row /\ attempts' = [attempts EXCEPT ![e] = @ + 1] /\ e \in Poison
  BY <1>3 DEF MarkPublished, IncrementAttempts, MarkFailed, At, e
<1>5. RowsTyped'
  BY <1>1, <1>3, <1>4 DEF RowsTyped, Statuses
<1>6. \A d \in Events : Committed(d) <=> Committed(d)'
  BY <1>1, <1>3, <1>4 DEF Committed, RowsTyped
<1>7. \A d : InStream(d) <=> InStream(d)'
  BY <1>2 DEF InStream, brokerVars
<1>8. PublishedIsStored'
  BY <1>1, <1>4, <1>7 DEF PublishedIsStored, RowsTyped
<1>9. OnlyPoisonFails'
  BY <1>1, <1>3, <1>4 DEF OnlyPoisonFails, RowsTyped
<1>10. CauseCommitted'
  <2> SUFFICES ASSUME NEW d \in Events, row'[d] \notin { "unborn", "gone" }, Cause[d] # 0
               PROVE  Committed(Cause[d])'
    BY DEF CauseCommitted
  <2>1. Cause[d] \in Events
    BY RelayAssumption DEF Events
  <2>2. row[d] \notin { "unborn", "gone" }
    BY <1>1, <1>3, <1>4 DEF Committed, RowsTyped
  <2> QED
    BY <1>1, <1>6, <2>1, <2>2 DEF CauseCommitted
<1>11. Grows
  BY <1>6, <1>7 DEF Grows
<1>12. (RelaysTyped /\ BatchSound)'
  <2>1. CASE NextRow(x)
    BY <1>2, <1>11, <2>1, GoesOn
  <2>2. CASE Goto(x, "fail") /\ relay[x].pc = "count"
    BY <1>3, <1>11, <2>2, TakenUp DEF e
  <2> QED
    BY <2>1, <2>2 DEF MarkPublished, IncrementAttempts, MarkFailed, At
<1> QED
  BY <1>2, <1>5, <1>6, <1>8, <1>9, <1>10, <1>12, RowStep DEF RowSound

\* Selecting, publishing, and the troubles of a relay.
LEMMA RelayStep ==
  ASSUME RelayInv, NEW x \in Relays,
         \/ SelectPending(x) \/ PublishAcked(x) \/ PublishTransient(x) \/ PublishRejected(x)
         \/ PublishTimeout(x) \/ DatabaseError(x) \/ Crash(x) \/ Start(x)
  PROVE  RelayInv'
<1>1. BrokerTyped /\ RelaysTyped
  BY TypeParts DEF RelayInv
<1>2. CASE SelectPending(x)
  <2>1. PICK chosen \in FirstBatch({ e \in Events : row[e] = "pending" }) : Take(x, chosen)
    BY <1>2 DEF SelectPending
  <2>2. PICK b : b = [pc |-> "publish", batch |-> Snapshot(chosen)]
    OBVIOUS
  <2>3. b \in RelayStates /\ b.batch # <<>> /\ RowsSound(b)
    BY <2>2, SelectionSound DEF RelayInv
  <2>4. HeadSound(b)' /\ b.pc \notin { "stopped", "waiting" }
    BY <2>2 DEF HeadSound
  <2>5. relay' = [relay EXCEPT ![x] = b] /\ UNCHANGED <<dbVars, brokerVars, poison, faults>>
    BY <2>1, <2>2 DEF Take, At
  <2>6. Grows => (RelaysTyped /\ BatchSound)'
    BY <2>3, <2>4, <2>5, OneMoves
  <2> QED
    BY <1>1, <2>5, <2>6, QuietStep DEF BrokerTyped, brokerVars
<1>3. CASE PublishAcked(x)
  <2>1. /\ relay[x].pc = "publish" /\ Store(Head1(x).id) /\ Goto(x, "mark")
        /\ UNCHANGED <<dbVars, poison, faults>>
    BY <1>3 DEF PublishAcked, At
  <2>2. /\ Head1(x).id \in Events /\ Committed(Head1(x).id) /\ relay[x].batch # <<>>
        /\ Head1(x) = relay[x].batch[1]
        /\ Binds(Cause[Head1(x).id]) => InStream(Cause[Head1(x).id])
    BY <2>1, HeadFacts
  <2>3. PICK e : e = Head1(x).id
    OBVIOUS
  <2>4. relay'[x].batch = relay[x].batch
    BY <1>1, <2>1 DEF Goto, RelaysTyped, RelayStates
  <2>5. InStream(e)' => InStream(relay[x].batch[1].id)'
    BY <2>2, <2>3, <2>4
  <2>6. Grows /\ InStream(e)' => (RelaysTyped /\ BatchSound)'
    BY <2>1, <2>2, <2>5, TakenUp
  <2>7. faults' \in 0 .. MaxFaults
    BY <1>1, <2>1 DEF BrokerTyped
  <2> QED
    BY <2>1, <2>2, <2>3, <2>6, <2>7, StoreStep
<1>4. CASE PublishTimeout(x)
  <2>1. /\ relay[x].pc = "publish" /\ DropBatch(x) /\ UNCHANGED <<dbVars, poison>>
        /\ Store(Head1(x).id) \/ UNCHANGED brokerVars
        /\ faults' \in 0 .. MaxFaults
    BY <1>1, <1>4, RelayAssumption DEF PublishTimeout, At, Fault, BrokerTyped
  <2>2. Grows => (RelaysTyped /\ BatchSound)'
    BY <2>1, Dropped DEF DropBatch
  <2>3. CASE Store(Head1(x).id)
    <3>1. /\ Head1(x).id \in Events /\ Committed(Head1(x).id)
          /\ Binds(Cause[Head1(x).id]) => InStream(Cause[Head1(x).id])
      BY <2>1, HeadFacts
    <3>2. PICK e : e = Head1(x).id
      OBVIOUS
    <3> QED
      BY <2>1, <2>2, <2>3, <3>1, <3>2, StoreStep
  <2>4. CASE UNCHANGED brokerVars
    BY <1>1, <2>1, <2>2, <2>4, QuietStep DEF BrokerTyped, brokerVars
  <2> QED
    BY <2>1, <2>3, <2>4
<1>5. CASE PublishTransient(x) \/ Start(x)
  <2>1. /\ UNCHANGED <<dbVars, stream, window, poison, faults, reachable>> /\ topology' \in BOOLEAN
    BY <1>1, <1>5 DEF PublishTransient, Start, At, BrokerTyped
  <2>2. CASE PublishTransient(x)
    <3>1. Grows => (RelaysTyped /\ BatchSound)'
      BY <2>2, Dropped DEF PublishTransient, DropBatch
    <3> QED
      BY <1>1, <2>1, <3>1, QuietStep DEF BrokerTyped
  <2>3. CASE Start(x)
    <3>1. relay[x] \in RelayStates /\ relay[x].batch = <<>>
      BY <1>1, <2>3 DEF Start, At, RelaysTyped
    <3>2. [relay[x] EXCEPT !.pc = "waiting"] = [ pc |-> "waiting", batch |-> <<>> ]
      BY <3>1 DEF RelayStates
    <3>3. relay' = [relay EXCEPT ![x] = [ pc |-> "waiting", batch |-> <<>> ]]
      BY <2>3, <3>2 DEF Start, Goto
    <3>4. Grows => (RelaysTyped /\ BatchSound)'
      BY <3>3, Dropped
    <3> QED
      BY <1>1, <2>1, <3>4, QuietStep DEF BrokerTyped
  <2> QED
    BY <1>5, <2>2, <2>3
<1>6. CASE PublishRejected(x)
  <2>1. /\ relay[x].pc = "publish" /\ Goto(x, "count") /\ Head1(x).id \in poison
        /\ UNCHANGED <<dbVars, brokerVars, poison, faults>>
    BY <1>6 DEF PublishRejected, At
  <2>2. Head1(x) = relay[x].batch[1] /\ relay[x].batch # <<>> /\ Head1(x).id \in Poison
    BY <1>1, <2>1, HeadFacts DEF BrokerTyped
  <2>3. Grows => (RelaysTyped /\ BatchSound)'
    BY <2>1, <2>2, TakenUp
  <2> QED
    BY <1>1, <2>1, <2>3, QuietStep DEF BrokerTyped, brokerVars
<1>7. CASE DatabaseError(x)
  <2>1. Grows => (RelaysTyped /\ BatchSound)'
    BY <1>7, GoesOn DEF DatabaseError
  <2>2. UNCHANGED <<dbVars, brokerVars, poison>> /\ faults' \in 0 .. MaxFaults
    BY <1>1, <1>7, RelayAssumption DEF DatabaseError, Fault, BrokerTyped
  <2> QED
    BY <1>1, <2>1, <2>2, QuietStep DEF BrokerTyped, brokerVars
<1>8. CASE Crash(x)
  <2>1. Grows => (RelaysTyped /\ BatchSound)'
    BY <1>8, Dropped DEF Crash
  <2>2. UNCHANGED <<dbVars, brokerVars, poison>> /\ faults' \in 0 .. MaxFaults
    BY <1>1, <1>8, RelayAssumption DEF Crash, Fault, BrokerTyped
  <2> QED
    BY <1>1, <2>1, <2>2, QuietStep DEF BrokerTyped, brokerVars
<1> QED
  BY <1>2, <1>3, <1>4, <1>5, <1>6, <1>7, <1>8

\* The broker, its window and the owner's repairs.
LEMMA WorldStep ==
  ASSUME RelayInv,
         \/ BrokerDown \/ BrokerUp
         \/ \E e \in Events : Forget(e) \/ Cure(e)
  PROVE  RelayInv'
<1>1. BrokerTyped
  BY TypeParts DEF RelayInv
<1>2. /\ UNCHANGED <<dbVars, relay, stream>> /\ window' \subseteq window /\ poison' \subseteq poison
      /\ reachable' \in BOOLEAN /\ topology' \in BOOLEAN /\ faults' \in 0 .. MaxFaults
  <2>1. UNCHANGED <<dbVars, relay, stream>> /\ window' \subseteq window /\ poison' \subseteq poison
    BY <1>1 DEF BrokerDown, BrokerUp, Forget, Cure, brokerVars
  <2>2. topology' = topology /\ (reachable' = reachable \/ reachable' = TRUE \/ reachable' = FALSE)
    BY DEF BrokerDown, BrokerUp, Forget, Cure, brokerVars
  <2>3. reachable' \in BOOLEAN /\ topology' \in BOOLEAN
    BY <1>1, <2>2, Zenon DEF BrokerTyped
  <2>4. faults' \in 0 .. MaxFaults
    BY <1>1, RelayAssumption DEF BrokerDown, BrokerUp, Forget, Cure, Fault, BrokerTyped
  <2> QED
    BY <2>1, <2>3, <2>4
<1>3. Grows => (RelaysTyped /\ BatchSound)'
  BY <1>2, NobodyMoves
<1> QED
  BY <1>2, <1>3, QuietStep

-----------------------------------------------------------------------------
(* The invariant and what follows from it.                                 *)

LEMMA InvInit == Init => RelayInv
<1> SUFFICES ASSUME Init PROVE RelayInv
  OBVIOUS
<1>1. \A e \in Events : row[e] = "unborn" /\ attempts[e] = 0 /\ ~ Committed(e)
  BY DEF Init, Committed
<1>2. stream = <<>> /\ window = {} /\ (\A e : ~ InStream(e))
  BY DEF Init, InStream
<1>3. RelaysTyped /\ RowsTyped /\ BrokerTyped
  <2>1. <<>> \in Seq(Events) /\ <<>> \in Seq([id : Events, attempts : Nat])
    OBVIOUS
  <2> QED
    BY <2>1, RelayAssumption
       DEF Init, RelaysTyped, RelayStates, RelayPCs, RowsTyped, Statuses, BrokerTyped
<1>4. StreamSound
  BY <1>1, <1>2 DEF StreamSound, PublishedIsStored, StoredIsCommitted, CauseBeforeEffect, WindowStored
<1>5. RowSound
  BY <1>1 DEF RowSound, OnlyPoisonFails, CauseCommitted
<1>6. BatchSound
  BY DEF Init, BatchSound, HeadSound, RowsSound
<1> QED
  BY <1>3, <1>4, <1>5, <1>6, TypeParts DEF RelayInv

LEMMA InvStep == RelayInv /\ [Next]_vars => RelayInv'
<1> SUFFICES ASSUME RelayInv, [Next]_vars PROVE RelayInv'
  OBVIOUS
<1>1. CASE UNCHANGED vars
  <2>1. UNCHANGED <<dbVars, relay, stream, window, poison, reachable, topology, faults>>
    BY <1>1 DEF vars, dbVars
  <2>2. BrokerTyped
    BY TypeParts DEF RelayInv
  <2>3. Grows => (RelaysTyped /\ BatchSound)'
    BY <2>1, NobodyMoves
  <2> QED
    BY <2>1, <2>2, <2>3, QuietStep DEF BrokerTyped
<1>2. CASE Next
  BY <1>2, TransactionStep, RequeueStep, VerdictStep, RelayStep, WorldStep DEF Next, Drain, Trouble
<1> QED
  BY <1>1, <1>2

\* drainOnce keeps RelayInv, whatever interrupts it.
THEOREM RelayInvariant == Spec => []RelayInv
BY InvInit, InvStep, PTL DEF Spec

\* The rows, the batches in hand and the broker keep their types.
THEOREM RelayTyped == Spec => []TypeOK
<1>1. RelayInv => TypeOK
  BY DEF RelayInv
<1> QED
  BY <1>1, RelayInvariant, PTL

\* A row is marked published only after JetStream stored its event (publishOne,
\* then MarkOutboxPublished): no event is lost, with any number of relays.
THEOREM NoEventLost == Spec => []PublishedIsStored
<1>1. RelayInv => PublishedIsStored
  BY DEF RelayInv, StreamSound
<1> QED
  BY <1>1, RelayInvariant, PTL

\* SelectPendingOutbox reads committed rows only: nothing rolled back is published.
THEOREM NothingInvented == Spec => []StoredIsCommitted
<1>1. RelayInv => StoredIsCommitted
  BY DEF RelayInv, StreamSound
<1> QED
  BY <1>1, RelayInvariant, PTL

\* Dropping the batch on a transient error keeps a cause ahead of its effect,
\* also with several relays working off overlapping batches.
THEOREM CausesComeFirst == Spec => []CauseBeforeEffect
<1>1. RelayInv => CauseBeforeEffect
  BY DEF RelayInv, StreamSound
<1> QED
  BY <1>1, RelayInvariant, PTL

\* quarantine counts and fails only what the broker itself rejects.
THEOREM OnlyRejectedFail == Spec => []OnlyPoisonFails
<1>1. RelayInv => OnlyPoisonFails
  BY DEF RelayInv, RowSound
<1> QED
  BY <1>1, RelayInvariant, PTL

-----------------------------------------------------------------------------
(* One relay: between the read of a batch and its last row nobody else     *)
(* settles one of its rows, so a row still in the batch is still pending.  *)

Fresh ==
    \A x \in Relays :
        /\ \A i \in DOMAIN relay[x].batch : row[relay[x].batch[i].id] = "pending"
        /\ \A i, j \in DOMAIN relay[x].batch :
              i < j => relay[x].batch[i].id < relay[x].batch[j].id

\* A batch as SelectPendingOutbox returns it.
LEMMA FreshSelection ==
  ASSUME RelayInv, NEW x \in Relays, NEW S \in SUBSET Events, NEW chosen \in FirstBatch(S)
  PROVE  /\ DOMAIN Snapshot(chosen) = DOMAIN chosen
         /\ \A i \in DOMAIN chosen : Snapshot(chosen)[i].id = chosen[i] /\ chosen[i] \in S
         /\ \A i, j \in DOMAIN chosen : i < j => chosen[i] < chosen[j]
BY DEF FirstBatch, InOrder, Snapshot

\* The rows of a step that leaves every batch alone, or shortens it.
LEMMA FreshKept ==
  ASSUME RelayInv, Fresh, NEW x \in Relays,
         \A e \in Events : row[e] = "pending" => row'[e] = "pending",
         relay'[x] = relay[x] \/ relay'[x].batch = relay[x].batch \/ relay'[x].batch = <<>>
           \/ (relay[x].batch # <<>> /\ relay'[x].batch = Tail(relay[x].batch))
  PROVE  /\ \A i \in DOMAIN relay'[x].batch : row'[relay'[x].batch[i].id] = "pending"
         /\ \A i, j \in DOMAIN relay'[x].batch :
               i < j => relay'[x].batch[i].id < relay'[x].batch[j].id
<1>1. relay[x] \in RelayStates
  BY DEF RelayInv, TypeOK, RelayStates
<1>2. CASE relay'[x].batch = relay[x].batch
  BY <1>1, <1>2, BatchRows DEF Fresh
<1>3. CASE relay'[x].batch = <<>>
  BY <1>3
<1>4. CASE relay[x].batch # <<>> /\ relay'[x].batch = Tail(relay[x].batch)
  <2>1. PICK b \in RelayStates : b = relay[x]
    BY <1>1
  <2>2. \A i \in DOMAIN Tail(b.batch) : i \in Int /\ i + 1 \in DOMAIN b.batch
                                        /\ Tail(b.batch)[i] = b.batch[i + 1]
                                        /\ b.batch[i + 1].id \in Events
    BY <1>4, <2>1, BatchRows
  <2> QED
    BY <1>4, <2>1, <2>2 DEF Fresh
<1> QED
  BY <1>2, <1>3, <1>4

LEMMA InitFresh == Init => Fresh
BY DEF Init, Fresh

LEMMA NextFresh ==
  ASSUME RelayInv, Fresh, [Next]_vars, NEW only, Relays = { only }
  PROVE  Fresh' /\ \A e \in Events : row[e] = "published" => row'[e] = "published"
<1>1. only \in Relays /\ relay[only] \in RelayStates /\ row \in [Events -> Statuses]
      /\ relay \in [Relays -> RelayStates]
  BY DEF RelayInv, TypeOK, RelayStates
<1>2. (relay[only].batch = <<>>) <=> (relay[only].pc \in { "stopped", "waiting" })
  BY <1>1 DEF RelayInv, TypeOK
<1>3. ASSUME \A e \in Events : row[e] \in { "pending", "published" } => row'[e] = row[e],
             \/ relay'[only] = relay[only] \/ relay'[only].batch = relay[only].batch
             \/ relay'[only].batch = <<>>
             \/ (relay[only].batch # <<>> /\ relay'[only].batch = Tail(relay[only].batch))
      PROVE  Fresh' /\ \A e \in Events : row[e] = "published" => row'[e] = "published"
  BY <1>1, <1>3, FreshKept DEF Fresh
<1>4. ASSUME NEW e \in Events, Insert(e) \/ CommitEvent(e) \/ RollBackEvent(e) \/ Forget(e) \/ Cure(e)
      PROVE  Fresh' /\ \A d \in Events : row[d] = "published" => row'[d] = "published"
  BY <1>1, <1>3, <1>4 DEF Insert, CommitEvent, RollBackEvent, Forget, Cure, dbVars
<1>5. CASE BrokerDown \/ BrokerUp \/ RequeueFailed
  BY <1>1, <1>3, <1>5 DEF BrokerDown, BrokerUp, RequeueFailed, dbVars
<1>6. CASE SelectPending(only)
  <2>1. PICK chosen \in FirstBatch({ e \in Events : row[e] = "pending" }) : Take(only, chosen)
    BY <1>6 DEF SelectPending
  <2>2. relay'[only].batch = Snapshot(chosen) /\ row' = row
    BY <1>1, <2>1 DEF Take, dbVars
  <2>3. /\ \A i \in DOMAIN Snapshot(chosen) :
             row[Snapshot(chosen)[i].id] = "pending"
        /\ \A i, j \in DOMAIN Snapshot(chosen) :
             i < j => Snapshot(chosen)[i].id < Snapshot(chosen)[j].id
    BY <1>1, FreshSelection
  <2> QED
    BY <2>2, <2>3 DEF Fresh
<1>7. CASE PublishAcked(only) \/ PublishTransient(only) \/ PublishRejected(only)
           \/ Trouble(only) \/ Start(only) \/ IncrementAttempts(only)
  <2>1. row' = row
    BY <1>7 DEF PublishAcked, PublishTransient, PublishRejected, Trouble, PublishTimeout,
                DatabaseError, Crash, Start, IncrementAttempts, dbVars
  <2>2. \/ relay'[only].batch = relay[only].batch \/ relay'[only].batch = <<>>
        \/ (relay[only].batch # <<>> /\ relay'[only].batch = Tail(relay[only].batch))
    BY <1>1, <1>2, <1>7 DEF PublishAcked, PublishTransient, PublishRejected, Trouble, PublishTimeout,
         DatabaseError, Crash, Start, IncrementAttempts, NextRow, Goto, DropBatch, At, RelayStates
  <2> QED
    BY <1>3, <2>1, <2>2
<1>8. CASE MarkPublished(only) \/ MarkFailed(only)
  <2>1. PICK b \in RelayStates : b = relay[only]
    BY <1>1
  <2>2. b.batch # <<>> /\ relay'[only].batch = Tail(b.batch)
    <3>1. b.pc \in { "mark", "fail" } /\ NextRow(only)
      BY <1>8, <2>1 DEF MarkPublished, MarkFailed, At
    <3>2. relay'[only].batch = Tail(b.batch)
      BY <1>1, <2>1, <3>1 DEF NextRow
    <3> QED
      BY <1>2, <2>1, <3>1, <3>2
  <2>3. 1 \in DOMAIN b.batch /\ Head1(only) = b.batch[1] /\ b.batch[1].id \in Events
        /\ row[b.batch[1].id] = "pending"
    BY <1>1, <2>1, <2>2, BatchRows DEF Head1, Fresh
  <2>4. \A e \in Events : e # b.batch[1].id => row'[e] = row[e]
    BY <1>1, <1>8, <2>3 DEF MarkPublished, MarkFailed
  <2>5. \A i \in DOMAIN Tail(b.batch) :
          /\ i \in Int /\ i + 1 \in DOMAIN b.batch /\ 1 < i + 1
          /\ Tail(b.batch)[i] = b.batch[i + 1] /\ b.batch[i + 1].id \in Events
    BY <2>2, BatchRows
  <2>6. \A i \in DOMAIN Tail(b.batch) : row[b.batch[i + 1].id] = "pending"
                                        /\ b.batch[1].id < b.batch[i + 1].id
    BY <1>1, <2>1, <2>3, <2>5 DEF Fresh
  <2>7. \A i \in DOMAIN Tail(b.batch) : row'[Tail(b.batch)[i].id] = "pending"
    <3> SUFFICES ASSUME NEW i \in DOMAIN Tail(b.batch) PROVE row'[Tail(b.batch)[i].id] = "pending"
      OBVIOUS
    <3>1. b.batch[1].id \in Int /\ b.batch[i + 1].id \in Int
      BY <2>3, <2>5, RelayAssumption DEF Events
    <3> QED
      BY <2>4, <2>5, <2>6, <3>1
  <2>8. \A i, j \in DOMAIN Tail(b.batch) : i < j => Tail(b.batch)[i].id < Tail(b.batch)[j].id
    BY <1>1, <2>1, <2>5 DEF Fresh
  <2> QED
    BY <2>2, <2>3, <2>4, <2>7, <2>8 DEF Fresh
<1>9. CASE UNCHANGED vars
  BY <1>9, <1>3 DEF vars, dbVars, brokerVars
<1> QED
  BY <1>4, <1>5, <1>6, <1>7, <1>8, <1>9 DEF Next, Drain

\* With the one replica relay.go assumes, MarkOutboxPublished is final: an
\* event once marked published is never taken back, nor reported failed.
THEOREM ConfirmedForGood ==
  ASSUME NEW only, Relays = { only } PROVE Spec => PublishedIsFinal
<1>1. RelayInv /\ Fresh /\ [Next]_vars => Fresh'
  BY NextFresh
<1>2. RelayInv /\ Fresh /\ [Next]_vars
        => [\A e \in Events : row[e] = "published" => row'[e] = "published"]_vars
  BY NextFresh
<1> QED
  BY RelayInvariant, InitFresh, <1>1, <1>2, PTL DEF Spec, PublishedIsFinal
=============================================================================
