--------------------------- MODULE InvitationProofs ---------------------------
(***************************************************************************)
(* Proofs about an invitation.  GuestIdentity: for any number of browsers,     *)
(* guests, devices and requests at once, in any interleaving, the couple's       *)
(* counts, the profiles, the choices and the list are right, but for the races   *)
(* the module names.  Invitation: for any number of phones, names, lines and     *)
(* photos, however requests overtake each other or get lost, what the page plays *)
(* and shows is right.                                                       *)
(***************************************************************************)
EXTENDS GuestIdentity, Invitation, FiniteSetTheorems, SequenceTheorems, TLAPS

-----------------------------------------------------------------------------
(* Types, and what a transaction has decided by the time it stands at pc.     *)
Tx == VisitTx \cup AnswerTx \cup DeskTx \cup PurgeTx
Store ==
  [devices : SUBSET Devices, lapsed : SUBSET Devices, admins : SUBSET Devices,
   tokens : [Tokens -> Row \cup {Null}], opens : SUBSET Opening,
   answers : [Devices -> Reply \cup {Null}], opened : SUBSET Guests, legacy : SUBSET Guests,
   rolling : BOOLEAN, over : BOOLEAN]
Used ==
  [devices : 0 .. MaxDevices, visits : 0 .. MaxVisits, answers : Nat, desk : Nat,
   issued : SUBSET Tokens, shared : SUBSET Tokens]
Past ==
  [chose : SUBSET Tokens, forkedLate : SUBSET Tokens, displaced : SUBSET Tokens,
   overtaken : SUBSET (Guests \cup {Null})]

Typed ==
  /\ store \in Store /\ used \in Used /\ past \in Past
  /\ tx \in [Requests -> Tx \cup {Null}]

Staged(t) ==
  /\ t.op = "visit" =>
       /\ t.pc \in {"changed", "scanned", "rewritten"} => t.session
       /\ t.pc = "identified" => ~t.session
       /\ t.session /\ t.pc # "looked" => t.isAdmin
       /\ t.new => t.trusted
  /\ t.op = "answer" =>
       /\ t.pc = "copied" => ~t.trusted
       /\ t.pc \in {"copied", "written"} /\ ~t.trusted => t.fork \in Devices

-----------------------------------------------------------------------------
(* The devices a transaction makes, the ones it was told of, and the one that  *)
(* its browser is trusted with, or is going to be.                           *)
Minted(t) ==
  CASE t.op = "visit" /\ t.new -> {t.id}
    [] t.op = "answer" /\ t.pc \in {"copied", "written"} /\ ~t.trusted -> {t.fork}
    [] OTHER -> {}
Named(t) ==
  CASE t.op = "visit" -> IF t.new THEN {} ELSE {t.id}
    [] t.op = "answer" -> {t.id}
    [] OTHER -> t.ids
Claimed(t) == IF t.op \in {"visit", "answer"} /\ t.trusted THEN {t.id} ELSE Minted(t)

\* What a transaction made is not there yet, what it was told of was once.
Placed(t) ==
  /\ Minted(t) \cup Named(t) \subseteq 1 .. used.devices
  /\ Minted(t) \cap (store.devices \cup Named(t)) = {}

\* The rows it updates or hangs something on are there: nobody deletes them.
Holds(t) == DevicesUpdated(t) \cup IF t.op = "answer" THEN DevicesShared(t) ELSE {}

-----------------------------------------------------------------------------
(* Counts.  What a recompute is going to write is right but for what it       *)
(* missed; what a purge has summed up is still there.                       *)
Recomputing(t) ==
  /\ t.op \in {"visit", "admin", "unadmin", "delete"} /\ t.pc \in {"scanned", "rewritten", "written"}
  /\ t.op = "visit" => t.session

PlanRight(t) ==
  Recomputing(t) =>
    \A g \in Guests \ t.missed : g \in t.plan <=> g \in OpenedBy(Changed(t).opens, Changed(t).admins)

SumsRight(t) ==
  t.op = "purge" /\ t.pc # "begun" =>
    /\ t.sums = OpenedBy(t.summed, {})
    /\ \A v \in t.summed : v.guest # Null => v \in store.opens /\ v.id \notin store.admins

CountsRight(t) == PlanRight(t) /\ SumsRight(t)

-----------------------------------------------------------------------------
(* Profiles.  A device is one browser's; a browser that was trusted with one   *)
(* stays with it, but for a late fork.                                      *)
ClaimRight(t) ==
  \A d \in Claimed(t) :
    /\ \A k \in Known : store.tokens[k].trusted /\ store.tokens[k].id = d => k = t.who
    /\ store.answers[d] # Null => store.answers[d].by = t.who

TrustStays(t) ==
  t.op \in {"visit", "answer"} /\ t.trusted /\ t.id \in store.devices /\ t.who \notin past.forkedLate =>
    t.who \in Known /\ store.tokens[t.who].trusted /\ store.tokens[t.who].id = t.id

-----------------------------------------------------------------------------
(* Forks.  Visits are told apart by their number, and a token's row by the     *)
(* number of the visit it came with; what a fork takes is its own.           *)
Stamped(t) ==
  /\ t.op = "visit" => t.at <= used.visits /\ \A k \in Known : store.tokens[k].since # t.at
  /\ t.op = "answer" => t.since <= used.visits

Seen(t) == [id |-> t.id, trusted |-> FALSE, since |-> t.since]
Forking(t) == t.op = "answer" /\ t.pc = "written" /\ ~t.trusted

ForkRight(t) ==
  Forking(t) =>
    /\ t.from # Null => store.tokens[t.who] = t.from
    /\ t.late <=> t.from # Seen(t)
    /\ \A o \in t.moved : o \in store.opens /\ o.guest = Null /\ o.id = t.id

\* A browser's own visit by the shared link to device d, not before number n.
OwnVisit(opens, k, d, n) == \E o \in opens : o.by = k /\ o.id = d /\ o.guest = Null /\ n <= o.at

Excused == past.displaced \cup past.forkedLate

\* A save that was let in on the browser's own visit still has that visit.
VisitStays(t) ==
  t.op = "answer" /\ t.pc # "begun" /\ ~t.borrowed /\ t.who \notin Excused =>
    IF t.trusted THEN t.id \in store.devices => OwnVisit(store.opens, t.who, t.id, 0)
    ELSE IF t.pc = "written" THEN t.late \/ OwnVisit(t.moved, t.who, t.id, t.since)
    ELSE store.tokens[t.who] # Seen(t) \/ OwnVisit(store.opens, t.who, t.id, t.since)

-----------------------------------------------------------------------------
(* The inductive invariant: the tables, each transaction, each two of them.   *)
Referring ==
  /\ store.devices \subseteq 1 .. used.devices
  /\ store.lapsed \subseteq store.devices /\ store.admins \subseteq store.devices
  /\ \A k \in Known : store.tokens[k].id \in store.devices /\ store.tokens[k].since <= used.visits
  /\ \A o \in store.opens : o.id \in store.devices
  /\ \A d \in Devices : store.answers[d] # Null => d \in store.devices

Listed ==
  \A k \in Known \ Excused :
    store.tokens[k].trusted /\ store.answers[store.tokens[k].id] # Null =>
      OwnVisit(store.opens, k, store.tokens[k].id, 0)

Chosen ==
  /\ past.chose \subseteq Known
  /\ \A k \in past.chose \ past.forkedLate :
       /\ store.tokens[k].trusted /\ store.answers[store.tokens[k].id] # Null
       /\ store.answers[store.tokens[k].id].rsvp # Null

TablesSound == Referring /\ OpenedCounts /\ ProfileIsOnesOwn /\ Listed /\ Chosen

Settled(t) ==
  /\ Placed(t) /\ Holds(t) \subseteq store.devices /\ SumsRight(t)
  /\ ClaimRight(t) /\ TrustStays(t) /\ Stamped(t) /\ ForkRight(t) /\ VisitStays(t)

Sound(t) == Staged(t) /\ PlanRight(t) /\ Settled(t)

Apart(t, o) ==
  /\ Minted(t) \cap (Minted(o) \cup Named(o)) = {}
  /\ Claimed(t) \cap Claimed(o) # {} => t.who = o.who
  /\ (DevicesUpdated(t) \cup DevicesShared(t)) \cap DevicesDeleted(o) = {}
  /\ GuestsUpdated(t) \cap GuestsUpdated(o) = {}
  /\ ~(t.op = "purge" /\ o.op = "purge")
  /\ t.op = "visit" /\ o.op = "visit" => t.at # o.at
  /\ t.op = "visit" /\ o.op = "answer" => t.at # o.since
  /\ Forking(t) /\ Forking(o) => t.who # o.who /\ t.moved \cap o.moved = {}

IdentityInv ==
  /\ Typed /\ TablesSound
  /\ \A r \in Busy : Sound(tx[r])
  /\ \A r, s \in Busy : r # s => Apart(tx[r], tx[s])

-----------------------------------------------------------------------------
(* Transactions.                                                           *)

LEMMA Kinds ==
  ASSUME NEW t \in Tx
  PROVE  /\ t # Null
         /\ t.op \in {"visit", "answer", "admin", "unadmin", "delete", "purge"}
         /\ t.op = "visit" <=> t \in VisitTx
         /\ t.op = "answer" <=> t \in AnswerTx
         /\ t.op \in {"admin", "unadmin", "delete"} <=> t \in DeskTx
         /\ t.op = "purge" <=> t \in PurgeTx
  BY IdentityConstants DEF Tx, VisitTx, AnswerTx, DeskTx, PurgeTx

LEMMA Transaction ==
  ASSUME Typed, NEW r \in Requests, tx[r] # Null
  PROVE  r \in Busy /\ tx[r] \in Tx
  BY DEF Typed, Busy

(* The devices it claims it made or was told of.                            *)
LEMMA ClaimsKnown ==
  ASSUME NEW t \in Tx
  PROVE  Claimed(t) \subseteq Minted(t) \cup Named(t)
  BY Kinds DEF Claimed, Minted, Named

(* A step of one transaction that writes no table yet keeps everything, if     *)
(* what the transaction becomes is sound and apart from the others.          *)
LEMMA CountersGrow ==
  ASSUME Typed, UNCHANGED <<store, past>>, used' \in Used,
         used.devices <= used'.devices, used.visits <= used'.visits
  PROVE  /\ TablesSound => TablesSound'
         /\ \A t \in Tx : Sound(t) => Sound(t)'
<1>0. used \in Used /\ \A i, j, k \in Nat : i <= j /\ j <= k => i <= k
  BY DEF Typed
<1>1. 1 .. used.devices \subseteq 1 .. used'.devices
  BY <1>0 DEF Used
<1>2. used.visits \in Nat /\ used'.visits \in Nat
  BY <1>0, IdentityConstants DEF Used
<1>3. TablesSound => TablesSound'
  <2> SUFFICES ASSUME TablesSound PROVE TablesSound'
    OBVIOUS
  <2>1. Referring'
    <3>1. \A k \in Known : store.tokens[k].since \in Nat
      BY IdentityConstants DEF Known, Typed, Store, Row
    <3> QED
      BY <3>1, <1>1, <1>2 DEF TablesSound, Referring, Known
  <2>2. OpenedCounts' /\ ProfileIsOnesOwn' /\ Listed' /\ Chosen'
    BY DEF TablesSound, OpenedCounts, OpenedBy, ProfileIsOnesOwn, Listed, Chosen, Known, Excused, OwnVisit
  <2> QED
    BY <2>1, <2>2 DEF TablesSound
<1>4. ASSUME NEW t \in Tx, Sound(t) PROVE Sound(t)'
  <2>1. Placed(t)'
    BY <1>1, <1>4 DEF Sound, Settled, Placed
  <2>2. Stamped(t)'
    <3>1. t.op = "visit" => t.at \in Nat
      BY Kinds, IdentityConstants DEF VisitTx
    <3>2. t.op = "answer" => t.since \in Nat
      BY Kinds, IdentityConstants DEF AnswerTx
    <3> QED
      BY <3>1, <3>2, <1>2, <1>4 DEF Sound, Settled, Stamped, Known
  <2>3. (Holds(t) \subseteq store.devices)' /\ Staged(t)'
    BY <1>4 DEF Sound, Settled, Holds
  <2>4. CountsRight(t)'
    BY <1>4 DEF Sound, Settled, CountsRight, PlanRight, SumsRight, OpenedBy, Changed, Without
  <2>5. ClaimRight(t)' /\ TrustStays(t)' /\ ForkRight(t)' /\ VisitStays(t)'
    BY <1>4 DEF Sound, Settled, ClaimRight, TrustStays, ForkRight, VisitStays, Known, Excused, OwnVisit
  <2> QED
    BY <2>1, <2>2, <2>3, <2>4, <2>5 DEF Sound, Settled, CountsRight
<1> QED
  BY <1>3, <1>4

LEMMA StepKeeps ==
  ASSUME IdentityInv, NEW r \in Requests, NEW n \in Tx \cup {Null}, tx' = [tx EXCEPT ![r] = n],
         UNCHANGED <<store, past>>, used' \in Used,
         used.devices <= used'.devices, used.visits <= used'.visits,
         n # Null =>
           /\ Sound(n)'
           /\ \A s \in Busy \ {r} : Apart(n, tx[s]) /\ Apart(tx[s], n)
  PROVE  IdentityInv'
<1>1. Typed'
  BY DEF IdentityInv, Typed
<1>2. TablesSound'
  BY CountersGrow DEF IdentityInv
<1>3. \A s \in Requests : tx'[s] = IF s = r THEN n ELSE tx[s]
  BY DEF IdentityInv, Typed
<1>4. ASSUME NEW s \in Busy' PROVE Sound(tx[s])'
  <2>1. CASE s = r
    BY <2>1, <1>3 DEF Busy
  <2>2. CASE s # r
    <3>1. PICK t : t = tx[s]
      OBVIOUS
    <3>2. t \in Tx /\ Sound(t)
      BY <3>1, <2>2, <1>3, Transaction DEF Busy, IdentityInv
    <3>3. Sound(t)'
      BY <3>2, CountersGrow DEF IdentityInv
    <3>4. tx'[s] = t
      BY <3>1, <2>2, <1>3 DEF Busy
    <3> QED
      BY <3>3, <3>4
  <2> QED
    BY <2>1, <2>2
<1>5. ASSUME NEW s \in Busy', NEW q \in Busy', s # q PROVE Apart(tx[s], tx[q])'
  <2>1. /\ s \in Requests /\ q \in Requests
        /\ s # r => s \in Busy /\ tx'[s] = tx[s]
        /\ q # r => q \in Busy /\ tx'[q] = tx[q]
        /\ s = r \/ q = r => n # Null
        /\ tx'[r] = n
    BY <1>3 DEF Busy
  <2>2. CASE s = r
    BY <2>1, <2>2, <1>5
  <2>3. CASE q = r
    BY <2>1, <2>3, <1>5
  <2>4. CASE s # r /\ q # r
    BY <2>1, <2>4, <1>5 DEF IdentityInv
  <2> QED
    BY <2>2, <2>3, <2>4
<1> QED
  BY <1>1, <1>2, <1>4, <1>5 DEF IdentityInv

-----------------------------------------------------------------------------
(* What a transaction of each kind makes, names, claims and locks.            *)

LEMMA VisitFoot ==
  ASSUME NEW t \in VisitTx
  PROVE  /\ Minted(t) = IF t.new THEN {t.id} ELSE {}
         /\ Named(t) = IF t.new THEN {} ELSE {t.id}
         /\ Claimed(t) = IF t.trusted \/ t.new THEN {t.id} ELSE {}
         /\ DevicesUpdated(t) = IF t.pc # "looked" /\ ~t.new THEN {t.id} ELSE {}
         /\ DevicesShared(t) = {} /\ DevicesDeleted(t) = {}
         /\ ~Forking(t)
         /\ Staged(t) =>
              GuestsUpdated(t) = IF t.session THEN IF t.pc \in {"rewritten", "written"} THEN Guests ELSE {}
                                 ELSE IF t.pc = "written" THEN Marks(t) ELSE {}
<1>1. t.op = "visit"
  BY DEF VisitTx
<1>2. Minted(t) = IF t.new THEN {t.id} ELSE {}
  BY <1>1 DEF Minted
<1>3. Claimed(t) = IF t.trusted \/ t.new THEN {t.id} ELSE {}
  BY <1>1, <1>2 DEF Claimed
<1>4. Staged(t) =>
        GuestsUpdated(t) = IF t.session THEN IF t.pc \in {"rewritten", "written"} THEN Guests ELSE {}
                           ELSE IF t.pc = "written" THEN Marks(t) ELSE {}
  BY <1>1 DEF GuestsUpdated, Staged, Marks
<1> QED
  BY <1>1, <1>2, <1>3, <1>4 DEF Named, DevicesUpdated, DevicesShared, DevicesDeleted, Forking

LEMMA AnswerFoot ==
  ASSUME NEW t \in AnswerTx
  PROVE  /\ Minted(t) = IF t.pc \in {"copied", "written"} /\ ~t.trusted THEN {t.fork} ELSE {}
         /\ Named(t) = {t.id}
         /\ Claimed(t) = IF t.trusted THEN {t.id} ELSE Minted(t)
         /\ DevicesUpdated(t) = {} /\ DevicesDeleted(t) = {} /\ GuestsUpdated(t) = {}
         /\ t.pc # "written" => DevicesShared(t) = {}
         /\ t.pc = "written" /\ t.trusted => DevicesShared(t) = {t.id}
         /\ t.pc = "written" /\ ~t.trusted =>
              DevicesShared(t) = (IF t.from = Null THEN {} ELSE {t.from.id}) \cup {o.id : o \in t.moved}
<1>1. t.op = "answer"
  BY DEF AnswerTx
<1> QED
  BY <1>1 DEF Minted, Named, Claimed, DevicesUpdated, DevicesShared, DevicesDeleted, GuestsUpdated

LEMMA DeskFoot ==
  ASSUME NEW t \in DeskTx
  PROVE  /\ Minted(t) = {} /\ Named(t) = t.ids /\ Claimed(t) = {} /\ DevicesUpdated(t) = {}
         /\ DevicesShared(t) = IF t.op \in {"admin", "unadmin"} /\ t.pc # "begun" THEN t.ids ELSE {}
         /\ DevicesDeleted(t) = IF t.op = "delete" /\ t.pc # "begun" THEN t.ids ELSE {}
         /\ GuestsUpdated(t) = IF t.pc = "rewritten" THEN Guests ELSE {}
         /\ ~Forking(t)
<1>1. t.op \in {"admin", "unadmin", "delete"} /\ t.pc \in {"begun", "changed", "scanned", "rewritten"}
  BY DEF DeskTx
<1> QED
  BY <1>1 DEF Minted, Named, Claimed, DevicesUpdated, DevicesShared, DevicesDeleted, GuestsUpdated, Forking

LEMMA PurgeFoot ==
  ASSUME NEW t \in PurgeTx
  PROVE  /\ Minted(t) = {} /\ Named(t) = t.ids /\ Claimed(t) = {} /\ DevicesUpdated(t) = {}
         /\ DevicesShared(t) = {}
         /\ DevicesDeleted(t) = IF t.pc = "written" THEN t.ids ELSE {}
         /\ GuestsUpdated(t) = IF t.pc # "begun" THEN t.sums ELSE {}
         /\ ~Forking(t)
<1>1. t.op = "purge"
  BY DEF PurgeTx
<1> QED
  BY <1>1 DEF Minted, Named, Claimed, DevicesUpdated, DevicesShared, DevicesDeleted, GuestsUpdated, Forking

(* A step that makes and claims nothing new has its new locks to check.        *)
LEMMA StillApart ==
  ASSUME NEW t \in Tx, NEW n \in Tx, NEW o \in Tx, Apart(t, o), Apart(o, t), n.op = t.op,
         Minted(n) = Minted(t), Named(n) = Named(t), Claimed(n) = Claimed(t),
         t.op \in {"visit", "answer"} => n.who = t.who,
         t.op = "visit" => n.at = t.at, t.op = "answer" => n.since = t.since,
         (DevicesUpdated(n) \cup DevicesShared(n)) \cap DevicesDeleted(o) = {},
         (DevicesUpdated(o) \cup DevicesShared(o)) \cap DevicesDeleted(n) = {},
         GuestsUpdated(n) \cap GuestsUpdated(o) = {},
         Forking(n) /\ Forking(o) => n.who # o.who /\ n.moved \cap o.moved = {}
  PROVE  Apart(n, o) /\ Apart(o, n)
<1>1. Claimed(t) # {} => n.who = t.who
  BY Kinds, DeskFoot, PurgeFoot
<1>2. Minted(n) \cap (Minted(o) \cup Named(o)) = {} /\ Minted(o) \cap (Minted(n) \cup Named(n)) = {}
  BY DEF Apart
<1>3. /\ Claimed(n) \cap Claimed(o) # {} => n.who = o.who
      /\ Claimed(o) \cap Claimed(n) # {} => o.who = n.who
  BY <1>1 DEF Apart
<1>4. /\ ~(n.op = "purge" /\ o.op = "purge")
      /\ n.op = "visit" /\ o.op = "visit" => n.at # o.at
      /\ n.op = "visit" /\ o.op = "answer" => n.at # o.since
      /\ o.op = "visit" /\ n.op = "answer" => o.at # n.since
  BY DEF Apart
<1>5. GuestsUpdated(o) \cap GuestsUpdated(n) = {}
  OBVIOUS
<1>6. Forking(o) /\ Forking(n) => o.who # n.who /\ o.moved \cap n.moved = {}
  OBVIOUS
<1> QED
  BY <1>2, <1>3, <1>4, <1>5, <1>6 DEF Apart

(* What a transaction at work knows of itself and of the others.              *)
LEMMA AtWork ==
  ASSUME IdentityInv, NEW r \in Requests, tx[r] # Null
  PROVE  /\ tx[r] \in Tx /\ Sound(tx[r])
         /\ \A s \in Busy \ {r} : tx[s] \in Tx /\ Sound(tx[s]) /\ Apart(tx[r], tx[s]) /\ Apart(tx[s], tx[r])
         /\ Others(r) = Busy \ {r}
  BY Transaction DEF IdentityInv, Busy, Others

LEMMA StepSound ==
  ASSUME IdentityInv, NEW r \in Requests, NEW n \in Tx, tx' = [tx EXCEPT ![r] = n],
         UNCHANGED <<store, used, past>>, Sound(n),
         \A s \in Busy \ {r} : Apart(n, tx[s]) /\ Apart(tx[s], n)
  PROVE  IdentityInv'
<1>1. used' \in Used /\ used.devices <= used'.devices /\ used.visits <= used'.visits
  BY IdentityConstants DEF IdentityInv, Typed, Used
<1>2. Sound(n)'
  BY <1>1, CountersGrow DEF IdentityInv
<1> QED
  BY <1>1, <1>2, StepKeeps

-----------------------------------------------------------------------------
(* A step of a transaction leaves most of what makes it sound alone.          *)

LEMMA VisitGoesOn ==
  ASSUME NEW t \in VisitTx, NEW n \in VisitTx, Sound(t), Staged(n),
         n.who = t.who, n.guest = t.guest, n.session = t.session, n.id = t.id, n.new = t.new,
         n.trusted = t.trusted, n.at = t.at,
         DevicesUpdated(n) \subseteq store.devices, CountsRight(n)
  PROVE  /\ Sound(n)
         /\ Minted(n) = Minted(t) /\ Named(n) = Named(t) /\ Claimed(n) = Claimed(t)
         /\ n.op = "visit" /\ t.op = "visit" /\ n \in Tx /\ t \in Tx
<1>1. Minted(n) = Minted(t) /\ Named(n) = Named(t) /\ Claimed(n) = Claimed(t)
  BY VisitFoot
<1>2. n.op = "visit" /\ t.op = "visit"
  BY DEF VisitTx
<1>3. Placed(n) /\ Holds(n) \subseteq store.devices
  BY <1>1, <1>2 DEF Sound, Settled, Placed, Holds
<1>4. ClaimRight(n) /\ TrustStays(n) /\ Stamped(n)
  BY <1>1, <1>2 DEF Sound, Settled, ClaimRight, TrustStays, Stamped
<1>5. ForkRight(n) /\ VisitStays(n)
  BY <1>2 DEF ForkRight, Forking, VisitStays
<1> QED
  BY <1>1, <1>2, <1>3, <1>4, <1>5 DEF Sound, Settled, CountsRight, Tx

LEMMA AnswerGoesOn ==
  ASSUME NEW t \in AnswerTx, NEW n \in AnswerTx, Sound(t), Staged(n),
         n.who = t.who, n.id = t.id, n.trusted = t.trusted, n.since = t.since, Minted(n) = Minted(t),
         DevicesShared(n) \subseteq store.devices, ForkRight(n), VisitStays(n)
  PROVE  /\ Sound(n)
         /\ Named(n) = Named(t) /\ Claimed(n) = Claimed(t)
         /\ n.op = "answer" /\ t.op = "answer" /\ n \in Tx /\ t \in Tx
<1>1. Named(n) = Named(t) /\ Claimed(n) = Claimed(t) /\ DevicesUpdated(n) = {}
  BY AnswerFoot
<1>2. n.op = "answer" /\ t.op = "answer"
  BY DEF AnswerTx
<1>3. Placed(n) /\ Holds(n) \subseteq store.devices
  BY <1>1, <1>2 DEF Sound, Settled, Placed, Holds
<1>4. ClaimRight(n) /\ TrustStays(n) /\ Stamped(n)
  BY <1>1, <1>2 DEF Sound, Settled, ClaimRight, TrustStays, Stamped
<1>5. CountsRight(n)
  BY <1>2 DEF CountsRight, PlanRight, SumsRight, Recomputing
<1> QED
  BY <1>1, <1>2, <1>3, <1>4, <1>5 DEF Sound, Settled, CountsRight, Tx

LEMMA DeskGoesOn ==
  ASSUME NEW t \in DeskTx \cup PurgeTx, NEW n \in DeskTx \cup PurgeTx, Sound(t), n.op = t.op,
         Named(n) \subseteq 1 .. used.devices, CountsRight(n)
  PROVE  /\ Sound(n)
         /\ Minted(n) = {} /\ Minted(t) = {} /\ Claimed(n) = {} /\ Claimed(t) = {}
         /\ n \in Tx /\ t \in Tx /\ n.op \in {"admin", "unadmin", "delete", "purge"}
<1>1. Minted(n) = {} /\ Minted(t) = {} /\ Claimed(n) = {} /\ Claimed(t) = {} /\ DevicesUpdated(n) = {}
  BY DeskFoot, PurgeFoot
<1>2. n.op \in {"admin", "unadmin", "delete", "purge"}
  BY DEF DeskTx, PurgeTx
<1>3. Placed(n) /\ Holds(n) \subseteq store.devices /\ Staged(n)
  BY <1>1, <1>2 DEF Sound, Settled, Placed, Holds, Staged
<1>4. ClaimRight(n) /\ TrustStays(n) /\ Stamped(n) /\ ForkRight(n) /\ VisitStays(n)
  BY <1>1, <1>2 DEF ClaimRight, TrustStays, Stamped, ForkRight, Forking, VisitStays
<1> QED
  BY <1>1, <1>2, <1>3, <1>4 DEF Sound, Settled, CountsRight, Tx

-----------------------------------------------------------------------------
(* The steps of a visit.                                                    *)

LEMMA IdentifyKeeps ==
  ASSUME IdentityInv, NEW r \in Requests, Identify(r)
  PROVE  IdentityInv'
<1>1. PICK t : t = tx[r]
  OBVIOUS
<1>2. /\ t \in VisitTx /\ t \in Tx /\ Sound(t) /\ t.pc = "looked" /\ Others(r) = Busy \ {r}
      /\ \A s \in Busy \ {r} : tx[s] \in Tx /\ Apart(t, tx[s]) /\ Apart(tx[s], t)
  BY <1>1, AtWork, Kinds DEF Identify
<1>3. PICK n : n = [t EXCEPT !.pc = IF t.session THEN "changed" ELSE "identified",
                             !.isAdmin = t.session \/ t.id \in store.admins]
  OBVIOUS
<1>4. /\ n \in VisitTx /\ n.pc = IF t.session THEN "changed" ELSE "identified"
      /\ n.isAdmin = (t.session \/ t.id \in store.admins)
      /\ n.who = t.who /\ n.guest = t.guest /\ n.session = t.session /\ n.id = t.id /\ n.new = t.new
      /\ n.trusted = t.trusted /\ n.at = t.at /\ n.op = "visit" /\ t.session \in BOOLEAN
  BY <1>2, <1>3 DEF VisitTx
<1>5. Staged(n)
  BY <1>2, <1>4 DEF Sound, Settled, Staged, VisitTx
<1>6. DevicesUpdated(n) \subseteq store.devices
  BY <1>1, <1>2, <1>4, VisitFoot DEF Identify
<1>7. CountsRight(n)
  BY <1>4 DEF CountsRight, PlanRight, SumsRight, Recomputing
<1>8. /\ Sound(n) /\ Minted(n) = Minted(t) /\ Named(n) = Named(t) /\ Claimed(n) = Claimed(t)
      /\ n.op = "visit" /\ t.op = "visit" /\ n \in Tx
  BY <1>2, <1>4, <1>5, <1>6, <1>7, VisitGoesOn
<1>9. ASSUME NEW s \in Busy \ {r} PROVE Apart(n, tx[s]) /\ Apart(tx[s], n)
  <2>1. PICK o : o = tx[s]
    OBVIOUS
  <2>2. DevicesUpdated(n) \cap DevicesDeleted(o) = {}
    BY <1>1, <1>2, <1>4, <2>1, VisitFoot DEF Identify, MayUpdate
  <2>3. DevicesShared(n) = {} /\ DevicesDeleted(n) = {} /\ GuestsUpdated(n) = {} /\ ~Forking(n)
    BY <1>4, <1>5, VisitFoot
  <2> QED
    BY <1>2, <1>4, <1>8, <2>1, <2>2, <2>3, StillApart
<1>10. tx' = [tx EXCEPT ![r] = n] /\ UNCHANGED <<store, used, past>>
  BY <1>1, <1>3 DEF Identify, Step
<1> QED
  BY <1>8, <1>9, <1>10, StepSound

LEMMA OpenKeeps ==
  ASSUME IdentityInv, NEW r \in Requests, Open(r)
  PROVE  IdentityInv'
<1>1. PICK t : t = tx[r]
  OBVIOUS
<1>2. /\ t \in VisitTx /\ t \in Tx /\ Sound(t) /\ Staged(t) /\ Others(r) = Busy \ {r}
      /\ t.pc = IF t.session THEN "rewritten" ELSE "identified"
      /\ \A s \in Busy \ {r} : tx[s] \in Tx /\ Apart(t, tx[s]) /\ Apart(tx[s], t)
  BY <1>1, AtWork, Kinds DEF Open, Sound, Settled
<1>3. PICK n : n = [t EXCEPT !.pc = "written"]
  OBVIOUS
<1>4. /\ n \in VisitTx /\ n.pc = "written" /\ n.isAdmin = t.isAdmin
      /\ n.who = t.who /\ n.guest = t.guest /\ n.session = t.session /\ n.id = t.id /\ n.new = t.new
      /\ n.trusted = t.trusted /\ n.at = t.at /\ n.op = "visit" /\ t.session \in BOOLEAN
      /\ n.plan = t.plan /\ n.missed = t.missed /\ t.op = "visit"
  BY <1>2, <1>3 DEF VisitTx
<1>5. Staged(n)
  BY <1>2, <1>4 DEF Staged
<1>6. DevicesUpdated(n) = DevicesUpdated(t) /\ DevicesUpdated(n) \subseteq store.devices
  BY <1>2, <1>4, VisitFoot DEF Sound, Settled, Holds
<1>7. CountsRight(n)
  <2>1. Recomputing(n) => Recomputing(t) /\ Changed(n) = Changed(t)
    BY <1>2, <1>4 DEF Recomputing, Changed
  <2> QED
    BY <1>2, <1>4, <2>1 DEF Sound, Settled, CountsRight, PlanRight, SumsRight
<1>8. /\ Sound(n) /\ Minted(n) = Minted(t) /\ Named(n) = Named(t) /\ Claimed(n) = Claimed(t) /\ n \in Tx
  BY <1>2, <1>4, <1>5, <1>6, <1>7, VisitGoesOn
<1>9. ASSUME NEW s \in Busy \ {r} PROVE Apart(n, tx[s]) /\ Apart(tx[s], n)
  <2>1. PICK o : o = tx[s]
    OBVIOUS
  <2>2. DevicesUpdated(n) \cap DevicesDeleted(o) = {}
    BY <1>2, <1>6, <2>1 DEF Apart
  <2>3. DevicesShared(n) = {} /\ DevicesDeleted(n) = {} /\ ~Forking(n)
    BY <1>4, VisitFoot
  <2>4. GuestsUpdated(n) \cap GuestsUpdated(o) = {}
    <3>1. CASE t.session
      <4>1. GuestsUpdated(n) = GuestsUpdated(t)
        BY <3>1, <1>2, <1>4, <1>5, VisitFoot
      <4> QED
        BY <4>1, <1>2, <2>1 DEF Apart
    <3>2. CASE ~t.session
      <4>1. GuestsUpdated(n) = Marks(t)
        BY <3>2, <1>4, <1>5, VisitFoot DEF Marks
      <4> QED
        BY <4>1, <1>1, <1>2, <2>1 DEF Open, MayTouch
    <3> QED
      BY <3>1, <3>2
  <2> QED
    BY <1>2, <1>4, <1>8, <2>1, <2>2, <2>3, <2>4, StillApart
<1>10. tx' = [tx EXCEPT ![r] = n] /\ UNCHANGED <<store, used, past>>
  BY <1>1, <1>3 DEF Open, Step
<1> QED
  BY <1>8, <1>9, <1>10, StepSound

-----------------------------------------------------------------------------
(* The steps of the couple's requests, and the recompute they share with the  *)
(* visit of a session.                                                      *)

\* What the steps of both kinds change, and what they leave.
Replan(t, pc, plan) == [t EXCEPT !.pc = pc, !.plan = plan]

LEMMA Replanned ==
  ASSUME NEW t \in VisitTx \cup DeskTx, NEW pc \in {"changed", "scanned", "rewritten"},
         NEW plan \in SUBSET Guests, NEW n, n = Replan(t, pc, plan)
  PROVE  /\ n \in VisitTx \cup DeskTx /\ (t \in VisitTx => n \in VisitTx) /\ (t \in DeskTx => n \in DeskTx)
         /\ n.op = t.op /\ n.pc = pc /\ n.plan = plan /\ n.missed = t.missed
         /\ t \in DeskTx => n.ids = t.ids
         /\ t \in VisitTx =>
              /\ n.who = t.who /\ n.guest = t.guest /\ n.session = t.session /\ n.id = t.id /\ n.new = t.new
              /\ n.trusted = t.trusted /\ n.at = t.at /\ n.isAdmin = t.isAdmin
         /\ Changed(n) = Changed(t)
<1>1. CASE t \in VisitTx
  <2>1. /\ n \in VisitTx /\ n.op = "visit" /\ t.op = "visit" /\ n.pc = pc /\ n.plan = plan /\ n.missed = t.missed
        /\ n.who = t.who /\ n.guest = t.guest /\ n.session = t.session /\ n.id = t.id /\ n.new = t.new
        /\ n.trusted = t.trusted /\ n.at = t.at /\ n.isAdmin = t.isAdmin
    BY <1>1 DEF VisitTx, Replan
  <2>2. t \notin DeskTx
    BY <2>1 DEF DeskTx
  <2> QED
    BY <2>1, <2>2 DEF Changed
<1>2. CASE t \in DeskTx
  <2>1. /\ n \in DeskTx /\ n.op = t.op /\ n.pc = pc /\ n.plan = plan /\ n.missed = t.missed /\ n.ids = t.ids
        /\ t.op # "visit"
    BY <1>2 DEF DeskTx, Replan
  <2>2. t \notin VisitTx
    BY <2>1 DEF VisitTx
  <2> QED
    BY <2>1, <2>2 DEF Changed
<1> QED
  BY <1>1, <1>2

LEMMA ReplannedSound ==
  ASSUME NEW t \in VisitTx \cup DeskTx, NEW pc \in {"changed", "scanned", "rewritten"},
         NEW plan \in SUBSET Guests, NEW n, n = Replan(t, pc, plan),
         Sound(t), t.pc \in {"changed", "scanned"}, CountsRight(n)
  PROVE  /\ Sound(n) /\ n \in Tx /\ n.op = t.op
         /\ \A o \in Tx : Apart(t, o) /\ Apart(o, t) /\ GuestsUpdated(n) \cap GuestsUpdated(o) = {}
                            => Apart(n, o) /\ Apart(o, n)
<1>1. CASE t \in VisitTx
  <2>1. /\ n \in VisitTx /\ n.op = "visit" /\ t.op = "visit" /\ n.pc = pc /\ n.isAdmin = t.isAdmin
        /\ n.who = t.who /\ n.guest = t.guest /\ n.session = t.session /\ n.id = t.id /\ n.new = t.new
        /\ n.trusted = t.trusted /\ n.at = t.at
    BY <1>1, Replanned DEF VisitTx
  <2>2. Staged(n)
    BY <2>1 DEF Sound, Settled, Staged
  <2>3. /\ DevicesUpdated(n) = DevicesUpdated(t) /\ DevicesUpdated(n) \subseteq store.devices
        /\ DevicesShared(n) = {} /\ DevicesDeleted(n) = {} /\ ~Forking(n)
    BY <1>1, <2>1, VisitFoot DEF Sound, Settled, Holds
  <2>4. /\ Sound(n) /\ Minted(n) = Minted(t) /\ Named(n) = Named(t) /\ Claimed(n) = Claimed(t) /\ n \in Tx /\ t \in Tx
    BY <1>1, <2>1, <2>2, <2>3, VisitGoesOn
  <2>5. ASSUME NEW o \in Tx, Apart(t, o), Apart(o, t), GuestsUpdated(n) \cap GuestsUpdated(o) = {}
        PROVE  Apart(n, o) /\ Apart(o, n)
    <3>1. DevicesUpdated(n) \cap DevicesDeleted(o) = {}
      BY <2>3, <2>5 DEF Apart
    <3> QED
      BY <2>1, <2>3, <2>4, <2>5, <3>1, StillApart
  <2> QED
    BY <2>1, <2>4, <2>5
<1>2. CASE t \in DeskTx
  <2>1. /\ n \in DeskTx /\ n.op = t.op /\ n.pc = pc /\ n.ids = t.ids
        /\ t.op \in {"admin", "unadmin", "delete"}
    BY <1>2, Replanned DEF DeskTx
  <2>2. /\ Named(n) = Named(t) /\ DevicesUpdated(n) = {} /\ ~Forking(n)
        /\ DevicesShared(n) = DevicesShared(t) /\ DevicesDeleted(n) = DevicesDeleted(t)
    BY <1>2, <2>1, DeskFoot
  <2>3. /\ Sound(n) /\ Minted(n) = Minted(t) /\ Claimed(n) = Claimed(t) /\ n \in Tx /\ t \in Tx
    BY <1>2, <2>1, <2>2, DeskGoesOn DEF Sound, Settled, Placed
  <2>4. ASSUME NEW o \in Tx, Apart(t, o), Apart(o, t), GuestsUpdated(n) \cap GuestsUpdated(o) = {}
        PROVE  Apart(n, o) /\ Apart(o, n)
    <3>1. /\ (DevicesUpdated(n) \cup DevicesShared(n)) \cap DevicesDeleted(o) = {}
          /\ (DevicesUpdated(o) \cup DevicesShared(o)) \cap DevicesDeleted(n) = {}
      BY <2>2, <2>4 DEF Apart
    <3> QED
      BY <2>1, <2>2, <2>3, <2>4, <3>1, StillApart
  <2> QED
    BY <2>1, <2>3, <2>4
<1> QED
  BY <1>1, <1>2

LEMMA ScanKeeps ==
  ASSUME IdentityInv, NEW r \in Requests, Scan(r)
  PROVE  IdentityInv'
<1>1. PICK t : t = tx[r]
  OBVIOUS
<1>2. /\ t \in Tx /\ Sound(t) /\ t.pc = "changed"
      /\ \A s \in Busy \ {r} : tx[s] \in Tx /\ Apart(t, tx[s]) /\ Apart(tx[s], t)
  BY <1>1, AtWork DEF Scan
<1>3. t \in VisitTx \cup DeskTx
  BY <1>2 DEF Tx, AnswerTx, PurgeTx
<1>4. PICK plan : plan = OpenedBy(Changed(t).opens, Changed(t).admins)
  OBVIOUS
<1>5. plan \in SUBSET Guests
  <2>1. Changed(t).opens \subseteq store.opens /\ store.opens \subseteq Opening
    <3>1. store \in Store
      BY DEF IdentityInv, Typed
    <3>2. store.opens \subseteq Opening /\ {o \in store.opens : o.id \notin t.ids} \subseteq store.opens
      BY <3>1 DEF Store
    <3>3. t.op \in {"visit", "admin", "unadmin"} => Changed(t).opens = store.opens
      BY <3>1 DEF Changed, Store
    <3>4. t.op = "delete" => Changed(t).opens = {o \in store.opens : o.id \notin t.ids}
      BY <3>1 DEF Changed, Store, Without
    <3>5. t.op \in {"visit", "admin", "unadmin", "delete"}
      BY <1>3 DEF VisitTx, DeskTx
    <3> QED
      BY <3>2, <3>3, <3>4, <3>5
  <2>2. \A o \in Opening : o.guest \in Guests \cup {Null}
    BY DEF Opening
  <2> QED
    BY <1>4, <2>1, <2>2 DEF OpenedBy
<1>6. PICK n : n = Replan(t, "scanned", plan)
  OBVIOUS
<1>7. n.op = t.op /\ n.pc = "scanned" /\ n.plan = plan /\ Changed(n) = Changed(t) /\ n \in VisitTx \cup DeskTx
  BY <1>3, <1>5, <1>6, Replanned
<1>8. CountsRight(n)
  <2>1. n.op # "purge"
    BY <1>7 DEF VisitTx, DeskTx
  <2> QED
    BY <1>4, <1>7, <2>1 DEF CountsRight, PlanRight, SumsRight
<1>9. /\ Sound(n) /\ n \in Tx
      /\ \A o \in Tx : Apart(t, o) /\ Apart(o, t) /\ GuestsUpdated(n) \cap GuestsUpdated(o) = {}
                         => Apart(n, o) /\ Apart(o, n)
  BY <1>2, <1>3, <1>5, <1>6, <1>8, ReplannedSound
<1>10. GuestsUpdated(n) = {}
  <2>1. CASE n \in VisitTx
    BY <2>1, <1>7, <1>9, VisitFoot DEF Sound, Settled
  <2>2. CASE n \in DeskTx
    BY <2>2, <1>7, DeskFoot
  <2> QED
    BY <2>1, <2>2, <1>7
<1>11. tx' = [tx EXCEPT ![r] = n] /\ UNCHANGED <<store, used, past>>
  BY <1>1, <1>4, <1>6 DEF Scan, Step, Replan
<1>12. \A s \in Busy \ {r} : Apart(n, tx[s]) /\ Apart(tx[s], n)
  BY <1>2, <1>9, <1>10
<1> QED
  BY <1>9, <1>11, <1>12, StepSound

LEMMA RewriteKeeps ==
  ASSUME IdentityInv, NEW r \in Requests, Rewrite(r)
  PROVE  IdentityInv'
<1>1. PICK t : t = tx[r]
  OBVIOUS
<1>2. /\ t \in Tx /\ Sound(t) /\ t.pc = "scanned" /\ Others(r) = Busy \ {r}
      /\ \A s \in Busy \ {r} : tx[s] \in Tx /\ Apart(t, tx[s]) /\ Apart(tx[s], t)
  BY <1>1, AtWork DEF Rewrite
<1>3. t \in VisitTx \cup DeskTx
  BY <1>2 DEF Tx, AnswerTx, PurgeTx
<1>4. PICK plan : plan = t.plan
  OBVIOUS
<1>5. plan \in SUBSET Guests
  BY <1>3, <1>4 DEF VisitTx, DeskTx
<1>6. PICK n : n = Replan(t, "rewritten", plan)
  OBVIOUS
<1>7. /\ n.op = t.op /\ n.pc = "rewritten" /\ n.plan = t.plan /\ n.missed = t.missed
      /\ Changed(n) = Changed(t) /\ n \in VisitTx \cup DeskTx /\ (t \in VisitTx => n.session = t.session)
  BY <1>3, <1>4, <1>5, <1>6, Replanned
<1>8. CountsRight(n)
  <2>1. n.op # "purge"
    BY <1>7 DEF VisitTx, DeskTx
  <2>2. Recomputing(n) => Recomputing(t)
    BY <1>2, <1>3, <1>7 DEF Recomputing, VisitTx, DeskTx
  <2> QED
    BY <1>2, <1>7, <2>1, <2>2 DEF Sound, Settled, CountsRight, PlanRight, SumsRight
<1>9. /\ Sound(n) /\ n \in Tx
      /\ \A o \in Tx : Apart(t, o) /\ Apart(o, t) /\ GuestsUpdated(n) \cap GuestsUpdated(o) = {}
                         => Apart(n, o) /\ Apart(o, n)
  BY <1>2, <1>3, <1>5, <1>6, <1>8, ReplannedSound
<1>10. GuestsUpdated(n) \subseteq Guests
  <2>1. CASE n \in VisitTx
    BY <2>1, <1>7, <1>9, VisitFoot DEF Sound, Settled
  <2>2. CASE n \in DeskTx
    BY <2>2, <1>7, DeskFoot
  <2> QED
    BY <2>1, <2>2, <1>7
<1>11. [t EXCEPT !.pc = "rewritten"] = n
  BY <1>3, <1>4, <1>6 DEF VisitTx, DeskTx, Replan
<1>12. tx' = [tx EXCEPT ![r] = n] /\ UNCHANGED <<store, used, past>>
  BY <1>1, <1>11 DEF Rewrite, Step
<1>13. \A s \in Busy \ {r} : Apart(n, tx[s]) /\ Apart(tx[s], n)
  BY <1>2, <1>9, <1>10 DEF Rewrite, MayTouch
<1> QED
  BY <1>9, <1>12, <1>13, StepSound

LEMMA ChangeKeeps ==
  ASSUME IdentityInv, NEW r \in Requests, Change(r)
  PROVE  IdentityInv'
<1>1. PICK t : t = tx[r]
  OBVIOUS
<1>2. /\ t \in DeskTx /\ t \in Tx /\ Sound(t) /\ t.op \in {"admin", "unadmin", "delete"} /\ Others(r) = Busy \ {r}
      /\ \A s \in Busy \ {r} : tx[s] \in Tx /\ Apart(t, tx[s]) /\ Apart(tx[s], t)
  BY <1>1, AtWork, Kinds DEF Change
<1>3. PICK n : n = [t EXCEPT !.pc = "changed"]
  OBVIOUS
<1>4. n \in DeskTx /\ n.op = t.op /\ n.pc = "changed" /\ n.ids = t.ids
  BY <1>2, <1>3 DEF DeskTx
<1>5. CountsRight(n)
  BY <1>2, <1>4 DEF CountsRight, PlanRight, SumsRight, Recomputing
<1>6. Named(n) = Named(t) /\ DevicesUpdated(n) = {} /\ ~Forking(n) /\ GuestsUpdated(n) = {}
  BY <1>2, <1>4, DeskFoot
<1>7. Sound(n) /\ Minted(n) = Minted(t) /\ Claimed(n) = Claimed(t) /\ n \in Tx
  BY <1>2, <1>4, <1>5, <1>6, DeskGoesOn DEF Sound, Settled, Placed
<1>8. ASSUME NEW s \in Busy \ {r} PROVE Apart(n, tx[s]) /\ Apart(tx[s], n)
  <2>1. PICK o : o = tx[s]
    OBVIOUS
  <2>2. CASE t.op = "delete"
    <3>1. DevicesShared(n) = {} /\ DevicesDeleted(n) = t.ids
      BY <2>2, <1>4, DeskFoot
    <3>2. (DevicesUpdated(o) \cup DevicesShared(o)) \cap DevicesDeleted(n) = {}
      BY <3>1, <2>1, <2>2, <1>1, <1>2 DEF Change, MayDelete
    <3> QED
      BY <1>2, <1>4, <1>6, <1>7, <2>1, <3>1, <3>2, StillApart
  <2>3. CASE t.op # "delete"
    <3>1. DevicesShared(n) = t.ids /\ DevicesDeleted(n) = {}
      BY <2>3, <1>2, <1>4, DeskFoot
    <3>2. DevicesShared(n) \cap DevicesDeleted(o) = {}
      BY <3>1, <2>1, <2>3, <1>1, <1>2 DEF Change, MayShare
    <3> QED
      BY <1>2, <1>4, <1>6, <1>7, <2>1, <3>1, <3>2, StillApart
  <2> QED
    BY <2>2, <2>3
<1>9. tx' = [tx EXCEPT ![r] = n] /\ UNCHANGED <<store, used, past>>
  BY <1>1, <1>3 DEF Change, Step
<1> QED
  BY <1>7, <1>8, <1>9, StepSound

\* A request about devices that are there, before it does anything.
LEMMA FreshIsSound ==
  ASSUME IdentityInv, NEW n \in DeskTx \cup PurgeTx, n.pc = "begun", n.ids \subseteq store.devices
  PROVE  /\ Sound(n)
         /\ \A o \in Tx : Sound(o) /\ ~(o.op = "purge" /\ n.op = "purge") => Apart(n, o) /\ Apart(o, n)
<1>1. /\ Minted(n) = {} /\ Claimed(n) = {} /\ DevicesUpdated(n) = {} /\ DevicesShared(n) = {}
      /\ DevicesDeleted(n) = {} /\ GuestsUpdated(n) = {} /\ ~Forking(n) /\ Named(n) = n.ids
  BY DeskFoot, PurgeFoot
<1>2. n.op \in {"admin", "unadmin", "delete", "purge"}
  BY DEF DeskTx, PurgeTx
<1>3. store.devices \subseteq 1 .. used.devices
  BY DEF IdentityInv, TablesSound, Referring
<1>4. Placed(n) /\ Holds(n) \subseteq store.devices /\ Staged(n)
  BY <1>1, <1>2, <1>3 DEF Placed, Holds, Staged
<1>5. CountsRight(n) /\ ClaimRight(n) /\ TrustStays(n) /\ Stamped(n) /\ ForkRight(n) /\ VisitStays(n)
  BY <1>1, <1>2 DEF CountsRight, PlanRight, SumsRight, Recomputing, ClaimRight, TrustStays, Stamped, ForkRight, VisitStays
<1>6. ASSUME NEW o \in Tx, Sound(o), ~(o.op = "purge" /\ n.op = "purge") PROVE Apart(n, o) /\ Apart(o, n)
  <2>1. Minted(o) \cap Named(n) = {}
    BY <1>1, <1>6 DEF Sound, Settled, Placed
  <2> QED
    BY <1>1, <1>2, <1>6, <2>1 DEF Apart
<1> QED
  BY <1>4, <1>5, <1>6 DEF Sound, Settled, CountsRight

LEMMA BeginDeskKeeps ==
  ASSUME IdentityInv, NEW r \in Requests, NEW op \in {"admin", "unadmin", "delete"},
         NEW ids, ids \subseteq store.devices, BeginDesk(r, op, ids)
  PROVE  IdentityInv'
<1>1. PICK n : n = [op |-> op, pc |-> "begun", ids |-> ids, plan |-> {}, missed |-> {}]
  OBVIOUS
<1>2. store.devices \in SUBSET Devices
  BY DEF IdentityInv, Typed, Store
<1>3. n \in DeskTx /\ n.pc = "begun" /\ n.ids \subseteq store.devices /\ n.op # "purge"
  BY <1>1, <1>2 DEF DeskTx
<1>4. Sound(n) /\ n \in Tx /\ \A s \in Busy \ {r} : Apart(n, tx[s]) /\ Apart(tx[s], n)
  <2>1. \A s \in Busy \ {r} : tx[s] \in Tx /\ Sound(tx[s])
    BY Transaction DEF IdentityInv, Busy
  <2> QED
    BY <1>3, <2>1, FreshIsSound DEF Tx
<1>5. tx' = [tx EXCEPT ![r] = n] /\ UNCHANGED <<store, past>>
  BY <1>1 DEF BeginDesk, Begin
<1>6. used' \in Used /\ used.devices <= used'.devices /\ used.visits <= used'.visits
  BY IdentityConstants DEF BeginDesk, IdentityInv, Typed, Used
<1>7. Sound(n)'
  BY <1>4, <1>5, <1>6, CountersGrow DEF IdentityInv
<1> QED
  BY <1>4, <1>5, <1>6, <1>7, StepKeeps

LEMMA BeginPurgeKeeps ==
  ASSUME IdentityInv, NEW r \in Requests, BeginPurge(r)
  PROVE  IdentityInv'
<1>1. PICK n : n = [op |-> "purge", pc |-> "begun", ids |-> store.lapsed, sums |-> {}, summed |-> {}]
  OBVIOUS
<1>2. store.lapsed \in SUBSET Devices /\ store.lapsed \subseteq store.devices
  BY DEF IdentityInv, Typed, Store, TablesSound, Referring
<1>3. n \in PurgeTx /\ n.pc = "begun" /\ n.ids \subseteq store.devices
  BY <1>1, <1>2 DEF PurgeTx
<1>4. Sound(n) /\ n \in Tx /\ \A s \in Busy \ {r} : Apart(n, tx[s]) /\ Apart(tx[s], n)
  <2>1. \A s \in Busy \ {r} : tx[s] \in Tx /\ Sound(tx[s]) /\ tx[s].op # "purge"
    BY Transaction DEF IdentityInv, Busy, BeginPurge
  <2> QED
    BY <1>3, <2>1, FreshIsSound DEF Tx
<1>5. tx' = [tx EXCEPT ![r] = n] /\ UNCHANGED <<store, past>>
  BY <1>1 DEF BeginPurge, Begin
<1>6. used' \in Used /\ used.devices <= used'.devices /\ used.visits <= used'.visits
  BY IdentityConstants DEF BeginPurge, IdentityInv, Typed, Used
<1>7. Sound(n)'
  BY <1>4, <1>5, <1>6, CountersGrow DEF IdentityInv
<1> QED
  BY <1>4, <1>5, <1>6, <1>7, StepKeeps

LEMMA SumUpKeeps ==
  ASSUME IdentityInv, NEW r \in Requests, SumUp(r)
  PROVE  IdentityInv'
<1>1. PICK t : t = tx[r]
  OBVIOUS
<1>2. /\ t \in PurgeTx /\ t \in Tx /\ Sound(t) /\ t.op = "purge" /\ t.pc = "begun" /\ Others(r) = Busy \ {r}
      /\ \A s \in Busy \ {r} : tx[s] \in Tx /\ Apart(t, tx[s]) /\ Apart(tx[s], t)
  BY <1>1, AtWork, Kinds DEF SumUp
<1>3. PICK visits : visits = {o \in store.opens : o.id \in Expired(t) \ store.admins}
  OBVIOUS
<1>4. PICK sums : sums = OpenedBy(visits, {})
  OBVIOUS
<1>5. visits \in SUBSET Opening /\ sums \in SUBSET Guests
  <2>1. store.opens \in SUBSET Opening
    BY DEF IdentityInv, Typed, Store
  <2> QED
    BY <1>3, <1>4, <2>1 DEF OpenedBy, Opening
<1>6. PICK n : n = [t EXCEPT !.pc = "summed", !.sums = sums, !.summed = visits]
  OBVIOUS
<1>7. n \in PurgeTx /\ n.op = "purge" /\ n.pc = "summed" /\ n.sums = sums /\ n.summed = visits /\ n.ids = t.ids
  BY <1>2, <1>5, <1>6 DEF PurgeTx
<1>8. CountsRight(n)
  BY <1>3, <1>4, <1>7 DEF CountsRight, PlanRight, SumsRight, Recomputing
<1>9. /\ Named(n) = Named(t) /\ DevicesUpdated(n) = {} /\ ~Forking(n) /\ GuestsUpdated(n) = sums
      /\ DevicesShared(n) = {} /\ DevicesDeleted(n) = {}
  BY <1>2, <1>7, PurgeFoot
<1>10. Sound(n) /\ Minted(n) = Minted(t) /\ Claimed(n) = Claimed(t) /\ n \in Tx
  BY <1>2, <1>7, <1>8, <1>9, DeskGoesOn DEF Sound, Settled, Placed
<1>11. MayTouch(r, sums) /\ tx' = [tx EXCEPT ![r] = n] /\ UNCHANGED <<store, used, past>>
  BY <1>1, <1>3, <1>4, <1>6 DEF SumUp, Step
<1>12. ASSUME NEW s \in Busy \ {r} PROVE Apart(n, tx[s]) /\ Apart(tx[s], n)
  <2>1. GuestsUpdated(n) \cap GuestsUpdated(tx[s]) = {}
    BY <1>2, <1>9, <1>11 DEF MayTouch
  <2>2. PICK o : o = tx[s]
    OBVIOUS
  <2> QED
    BY <1>2, <1>7, <1>9, <1>10, <2>1, <2>2, StillApart
<1> QED
  BY <1>10, <1>11, <1>12, StepSound

LEMMA ExpiredThere ==
  ASSUME IdentityInv, NEW t
  PROVE  Expired(t) \subseteq store.devices
  BY DEF IdentityInv, TablesSound, Referring, Expired

LEMMA DropExpiredKeeps ==
  ASSUME IdentityInv, NEW r \in Requests, DropExpired(r)
  PROVE  IdentityInv'
<1>1. PICK t : t = tx[r]
  OBVIOUS
<1>2. /\ t \in PurgeTx /\ t \in Tx /\ Sound(t) /\ t.op = "purge" /\ t.pc = "summed" /\ Others(r) = Busy \ {r}
      /\ \A s \in Busy \ {r} : tx[s] \in Tx /\ Sound(tx[s]) /\ Apart(t, tx[s]) /\ Apart(tx[s], t)
  BY <1>1, AtWork, Kinds DEF DropExpired
<1>3. PICK ids : ids = Expired(t)
  OBVIOUS
<1>4. ids \subseteq store.devices /\ store.devices \subseteq Devices /\ store.devices \subseteq 1 .. used.devices
  BY <1>3, ExpiredThere DEF IdentityInv, Typed, Store, TablesSound, Referring
<1>5. PICK n : n = [t EXCEPT !.pc = "written", !.ids = ids]
  OBVIOUS
<1>6. n \in PurgeTx /\ n.op = "purge" /\ n.pc = "written" /\ n.sums = t.sums /\ n.summed = t.summed /\ n.ids = ids
  BY <1>2, <1>4, <1>5 DEF PurgeTx
<1>7. CountsRight(n)
  BY <1>2, <1>6 DEF CountsRight, PlanRight, SumsRight, Recomputing, Sound, Settled
<1>8. /\ Named(n) = ids /\ DevicesUpdated(n) = {} /\ ~Forking(n) /\ GuestsUpdated(n) = GuestsUpdated(t)
      /\ DevicesShared(n) = {} /\ DevicesDeleted(n) = ids
  BY <1>2, <1>6, PurgeFoot
<1>9. Sound(n) /\ Minted(n) = {} /\ Claimed(n) = {} /\ n \in Tx
  BY <1>2, <1>4, <1>6, <1>7, <1>8, DeskGoesOn
<1>10. MayDelete(r, ids) /\ tx' = [tx EXCEPT ![r] = n] /\ UNCHANGED <<store, used, past>>
  BY <1>1, <1>3, <1>5 DEF DropExpired, Step
<1>11. ASSUME NEW s \in Busy \ {r} PROVE Apart(n, tx[s]) /\ Apart(tx[s], n)
  <2>1. PICK o : o = tx[s]
    OBVIOUS
  <2>2. (DevicesUpdated(o) \cup DevicesShared(o)) \cap ids = {}
    BY <1>2, <1>10, <2>1 DEF MayDelete
  <2>3. Minted(o) \cap ids = {}
    BY <1>2, <1>4, <2>1 DEF Sound, Settled, Placed
  <2>4. /\ GuestsUpdated(n) \cap GuestsUpdated(o) = {} /\ GuestsUpdated(o) \cap GuestsUpdated(n) = {}
        /\ o.op # "purge"
    BY <1>2, <1>8, <2>1 DEF Apart
  <2> QED
    BY <1>6, <1>8, <1>9, <2>1, <2>2, <2>3, <2>4 DEF Apart
<1> QED
  BY <1>9, <1>10, <1>11, StepSound

LEMMA AbortKeeps ==
  ASSUME IdentityInv, NEW r \in Requests, Abort(r)
  PROVE  IdentityInv'
<1>1. used' \in Used /\ used.devices <= used'.devices /\ used.visits <= used'.visits
  BY IdentityConstants DEF Abort, IdentityInv, Typed, Used
<1>2. PICK n : n = Null
  OBVIOUS
<1> QED
  BY <1>1, <1>2, StepKeeps DEF Abort

\* A term that ends changes nothing anything else reads.
LEMMA LapseKeeps ==
  ASSUME IdentityInv, Lapse
  PROVE  IdentityInv'
<1>1. PICK ids \in IF store.rolling THEN {{d} : d \in store.devices} ELSE {store.devices} :
        store' = [store EXCEPT !.lapsed = ids, !.over = ~store.rolling] /\ UNCHANGED <<tx, used, past>>
  BY DEF Lapse
<1>2. ids \subseteq store.devices
  <2>1. CASE store.rolling
    BY <2>1
  <2>2. CASE ~store.rolling
    BY <2>2
  <2> QED
    BY <2>1, <2>2
<1>3. /\ store' \in Store /\ store'.devices = store.devices /\ store'.lapsed = ids
      /\ store'.admins = store.admins /\ store'.tokens = store.tokens /\ store'.opens = store.opens
      /\ store'.answers = store.answers /\ store'.opened = store.opened /\ store'.legacy = store.legacy
  BY <1>1, <1>2 DEF IdentityInv, Typed, Store
<1>4. Typed' /\ Busy' = Busy
  BY <1>1, <1>3 DEF IdentityInv, Typed, Busy
<1>5. Referring' /\ OpenedCounts' /\ ProfileIsOnesOwn' /\ Listed' /\ Chosen'
  BY <1>1, <1>2, <1>3 DEF IdentityInv, TablesSound, Referring, OpenedCounts, OpenedBy, ProfileIsOnesOwn, Listed,
                    Chosen, Known, Excused, OwnVisit
<1>6. ASSUME NEW s \in Busy PROVE Sound(tx[s])'
  <2>1. PICK t : t = tx[s]
    OBVIOUS
  <2>2. t \in Tx /\ Sound(t) /\ tx'[s] = t
    BY <1>1, <2>1, Transaction DEF Busy, IdentityInv
  <2>3. Staged(t)' /\ Placed(t)' /\ (Holds(t) \subseteq store.devices)' /\ Stamped(t)'
    BY <1>1, <1>3, <2>2 DEF Sound, Settled, Placed, Holds, Stamped, Known
  <2>4. CountsRight(t)'
    <3>1. Recomputing(t) => Changed(t).opens' = Changed(t).opens /\ Changed(t).admins' = Changed(t).admins
      BY <1>3 DEF IdentityInv, Typed, Store, Changed, Without, Recomputing
    <3> QED
      BY <1>3, <2>2, <3>1 DEF Sound, Settled, CountsRight, PlanRight, SumsRight
  <2>5. ClaimRight(t)' /\ TrustStays(t)' /\ ForkRight(t)' /\ VisitStays(t)'
    BY <1>1, <1>3, <2>2 DEF Sound, Settled, ClaimRight, TrustStays, ForkRight, VisitStays, Known, Excused
  <2> QED
    BY <2>2, <2>3, <2>4, <2>5 DEF Sound, Settled, CountsRight
<1>7. \A s, q \in Busy : s # q => Apart(tx[s], tx[q])'
  BY <1>1 DEF IdentityInv
<1> QED
  BY <1>4, <1>5, <1>6, <1>7 DEF IdentityInv, TablesSound

-----------------------------------------------------------------------------
(* The beginning of a visit: its device is the token's, the only one like it,  *)
(* or a new one.                                                            *)

LEMMA LookupFinds ==
  ASSUME IdentityInv, NEW t \in Tokens, NEW found, found = Lookup(t)
  PROVE  /\ found.trusted \in BOOLEAN /\ found.new \in BOOLEAN
         /\ ~found.new => found.id \in store.devices
         /\ found.new => found.id = used.devices + 1 /\ found.trusted
         /\ found.trusted /\ ~found.new =>
              t \in Known /\ store.tokens[t].trusted /\ store.tokens[t].id = found.id
<1>1. store.tokens[t] \in Row \cup {Null}
  BY DEF IdentityInv, Typed, Store
<1>2. CASE store.tokens[t] # Null
  <2>1. found = [id |-> store.tokens[t].id, new |-> FALSE, trusted |-> store.tokens[t].trusted]
    BY <1>2 DEF Lookup
  <2>2. t \in Known /\ store.tokens[t].id \in store.devices /\ store.tokens[t].trusted \in BOOLEAN
    BY <1>1, <1>2 DEF Known, IdentityInv, TablesSound, Referring, Row
  <2> QED
    BY <2>1, <2>2
<1>3. CASE store.tokens[t] = Null
  <2>1. PICK alike : alike = store.devices \ (store.lapsed \cup store.admins)
    OBVIOUS
  <2>2. CASE Cardinality(alike) = 1
    <3>1. alike # {}
      BY <2>2, FS_EmptySet
    <3>2. found = [id |-> CHOOSE d \in alike : TRUE, new |-> FALSE, trusted |-> FALSE]
      BY <1>3, <2>1, <2>2 DEF Lookup
    <3>3. found.id \in alike
      BY <3>1, <3>2
    <3> QED
      BY <2>1, <3>2, <3>3
  <2>3. CASE Cardinality(alike) # 1
    <3>1. found = [id |-> used.devices + 1, new |-> TRUE, trusted |-> TRUE]
      BY <1>3, <2>1, <2>3 DEF Lookup
    <3> QED
      BY <3>1
  <2> QED
    BY <2>2, <2>3
<1> QED
  BY <1>2, <1>3

(* Whoever else claims the device of a trusted token is that token's browser.  *)
LEMMA TrustedIsOnes ==
  ASSUME IdentityInv, NEW t \in Known, store.tokens[t].trusted
  PROVE  /\ \A k \in Known : store.tokens[k].trusted /\ store.tokens[k].id = store.tokens[t].id => k = t
         /\ store.answers[store.tokens[t].id] # Null => store.answers[store.tokens[t].id].by = t
         /\ \A o \in Tx : Sound(o) /\ store.tokens[t].id \in Claimed(o) => o.who = t
  BY DEF IdentityInv, TablesSound, ProfileIsOnesOwn, Sound, Settled, ClaimRight

LEMMA BeginVisitKeeps ==
  ASSUME IdentityInv, NEW r \in Requests, NEW t \in Tokens, NEW g \in Guests \cup {Null},
         NEW session \in BOOLEAN, BeginVisit(r, t, g, session)
  PROVE  IdentityInv'
<1>1. PICK found : found = Lookup(t)
  OBVIOUS
<1>2. /\ found.trusted \in BOOLEAN /\ found.new \in BOOLEAN
      /\ ~found.new => found.id \in store.devices
      /\ found.new => found.id = used.devices + 1 /\ found.trusted
      /\ found.trusted /\ ~found.new =>
           t \in Known /\ store.tokens[t].trusted /\ store.tokens[t].id = found.id
  BY <1>1, LookupFinds
<1>3. PICK n :
        n = [op |-> "visit", pc |-> "looked", who |-> t, guest |-> g, session |-> session,
             id |-> found.id, new |-> found.new, trusted |-> found.trusted, at |-> used.visits + 1,
             isAdmin |-> FALSE, plan |-> {}, missed |-> {}]
  OBVIOUS
<1>4. /\ used \in Used /\ used.visits < MaxVisits /\ (found.new => used.devices < MaxDevices)
      /\ used' = [used EXCEPT !.visits = @ + 1, !.devices = IF found.new THEN @ + 1 ELSE @]
      /\ tx' = [tx EXCEPT ![r] = n] /\ UNCHANGED <<store, past>> /\ tx[r] = Null
  BY <1>1, <1>3 DEF BeginVisit, Begin, IdentityInv, Typed
<1>5. /\ used.visits \in Nat /\ used.devices \in Nat
      /\ used'.visits = used.visits + 1 /\ used'.devices = IF found.new THEN used.devices + 1 ELSE used.devices
      /\ used.devices <= MaxDevices
  BY <1>4, IdentityConstants DEF Used
<1>6. used' \in Used /\ used.devices <= used'.devices /\ used.visits <= used'.visits
  <2>1. used'.devices \in 0 .. MaxDevices /\ used'.visits \in 0 .. MaxVisits
    BY <1>2, <1>4, <1>5, IdentityConstants
  <2>2. used' \in Used
    BY <1>4, <2>1 DEF Used
  <2>3. used.devices <= used'.devices /\ used.visits <= used'.visits
    BY <1>2, <1>5
  <2> QED
    BY <2>2, <2>3
<1>7. store.devices \subseteq 1 .. used.devices /\ store.devices \subseteq Devices
  BY DEF IdentityInv, Typed, Store, TablesSound, Referring
<1>8. found.id \in Devices /\ used.visits + 1 \in 1 .. MaxVisits
  BY <1>2, <1>4, <1>5, <1>7, IdentityConstants DEF Devices
<1>9. /\ n \in VisitTx /\ n \in Tx /\ n.op = "visit" /\ n.pc = "looked" /\ n.who = t /\ n.id = found.id
      /\ n.new = found.new /\ n.trusted = found.trusted /\ n.at = used.visits + 1
  BY <1>2, <1>3, <1>8 DEF VisitTx, Tx
<1>10. /\ Minted(n) = IF found.new THEN {found.id} ELSE {}
       /\ Named(n) = IF found.new THEN {} ELSE {found.id}
       /\ Claimed(n) = IF found.trusted THEN {found.id} ELSE {}
       /\ DevicesUpdated(n) = {} /\ DevicesShared(n) = {} /\ DevicesDeleted(n) = {} /\ ~Forking(n)
  BY <1>2, <1>9, VisitFoot
<1>11. Staged(n)
  BY <1>2, <1>9 DEF Staged
<1>12. GuestsUpdated(n) = {}
  BY <1>9, <1>11, VisitFoot
<1>13. found.new => found.id \notin 1 .. used.devices /\ found.id \in 1 .. used'.devices
  BY <1>2, <1>5
<1>14. Sound(n)'
  <2>1. Placed(n)'
    <3>1. 1 .. used.devices \subseteq 1 .. used'.devices
      BY <1>5
    <3> QED
      BY <1>2, <1>4, <1>7, <1>10, <1>13, <3>1 DEF Placed
  <2>2. (Holds(n) \subseteq store.devices)'
    BY <1>9, <1>10 DEF Holds
  <2>3. CountsRight(n)' /\ ForkRight(n)' /\ VisitStays(n)'
    BY <1>9, <1>10 DEF CountsRight, PlanRight, SumsRight, Recomputing, ForkRight, VisitStays
  <2>4. ClaimRight(n)'
    <3>1. CASE found.new
      <4>1. found.id \notin store.devices
        BY <3>1, <1>7, <1>13
      <4>2. \A k \in Known : store.tokens[k].id # found.id
        BY <4>1 DEF IdentityInv, TablesSound, Referring
      <4>3. store.answers[found.id] = Null
        BY <4>1, <1>8 DEF IdentityInv, TablesSound, Referring
      <4> QED
        BY <4>2, <4>3, <1>4, <1>10 DEF ClaimRight, Known
    <3>2. CASE ~found.new
      BY <3>2, <1>2, <1>4, <1>9, <1>10, TrustedIsOnes DEF ClaimRight, Known
    <3> QED
      BY <3>1, <3>2
  <2>5. TrustStays(n)'
    BY <1>2, <1>4, <1>7, <1>9, <1>13 DEF TrustStays, Known
  <2>6. Stamped(n)'
    <3>1. \A k \in Known : store.tokens[k].since \in Nat /\ store.tokens[k].since <= used.visits
      BY IdentityConstants DEF Known, IdentityInv, Typed, Store, Row, TablesSound, Referring
    <3> QED
      BY <1>4, <1>5, <1>9, <3>1 DEF Stamped, Known
  <2> QED
    BY <1>11, <2>1, <2>2, <2>3, <2>4, <2>5, <2>6 DEF Sound, Settled, CountsRight
<1>15. ASSUME NEW s \in Busy \ {r} PROVE Apart(n, tx[s]) /\ Apart(tx[s], n)
  <2>1. PICK o : o = tx[s]
    OBVIOUS
  <2>2. o \in Tx /\ Sound(o) /\ Minted(o) \cup Named(o) \subseteq 1 .. used.devices /\ Minted(o) \cap store.devices = {}
    BY <2>1, Transaction DEF Busy, IdentityInv, Sound, Settled, Placed
  <2>3. Minted(n) \cap (Minted(o) \cup Named(o)) = {} /\ Minted(o) \cap (Minted(n) \cup Named(n)) = {}
    BY <2>2, <1>2, <1>10, <1>13
  <2>4. Claimed(n) \cap Claimed(o) # {} => n.who = o.who
    <3>1. Claimed(o) \subseteq 1 .. used.devices
      BY <2>2, ClaimsKnown
    <3> QED
      BY <1>2, <1>9, <1>10, <1>13, <2>2, <3>1, TrustedIsOnes
  <2>5. /\ o.op = "visit" => n.at # o.at
        /\ o.op = "answer" => n.at # o.since
    <3>1. o.op = "visit" => o.at \in Nat
      BY <2>2, Kinds, IdentityConstants DEF VisitTx
    <3>2. o.op = "answer" => o.since \in Nat
      BY <2>2, Kinds, IdentityConstants DEF AnswerTx
    <3> QED
      BY <1>5, <1>9, <2>2, <3>1, <3>2 DEF Sound, Settled, Stamped
  <2> QED
    BY <1>9, <1>10, <1>12, <2>1, <2>3, <2>4, <2>5 DEF Apart
<1> QED
  BY <1>4, <1>6, <1>9, <1>14, <1>15, StepKeeps

-----------------------------------------------------------------------------
(* The steps of a save.                                                     *)

LEMMA BeginAnswerKeeps ==
  ASSUME IdentityInv, NEW r \in Requests, NEW t \in Tokens, NEW choice \in {Null, "yes"}, BeginAnswer(r, t, choice)
  PROVE  IdentityInv'
<1>1. PICK row : row = store.tokens[t]
  OBVIOUS
<1>2. /\ row \in Row /\ t \in Known /\ row.id \in store.devices /\ row.since <= used.visits
      /\ row.id \in Devices /\ row.trusted \in BOOLEAN /\ row.since \in 1 .. MaxVisits
  <2>1. row \in Row /\ t \in Known
    BY <1>1 DEF BeginAnswer, Known, IdentityInv, Typed, Store
  <2> QED
    BY <1>1, <2>1 DEF IdentityInv, TablesSound, Referring, Row
<1>3. PICK n :
        n = [op |-> "answer", pc |-> "begun", who |-> t, rsvp |-> choice, id |-> row.id,
             trusted |-> row.trusted, since |-> row.since,
             fork |-> Null, from |-> Null, moved |-> {}, stale |-> FALSE, late |-> FALSE, borrowed |-> FALSE]
  OBVIOUS
<1>4. /\ n \in AnswerTx /\ n \in Tx /\ n.op = "answer" /\ n.pc = "begun" /\ n.who = t /\ n.id = row.id
      /\ n.trusted = row.trusted /\ n.since = row.since
  BY <1>2, <1>3 DEF AnswerTx, Tx
<1>5. tx' = [tx EXCEPT ![r] = n] /\ UNCHANGED <<store, past>>
  BY <1>1, <1>3 DEF BeginAnswer, Begin
<1>6. used' \in Used /\ used.devices <= used'.devices /\ used.visits <= used'.visits
  BY IdentityConstants DEF BeginAnswer, IdentityInv, Typed, Used
<1>7. /\ Minted(n) = {} /\ Named(n) = {row.id} /\ Claimed(n) = IF row.trusted THEN {row.id} ELSE {}
      /\ DevicesUpdated(n) = {} /\ DevicesShared(n) = {} /\ DevicesDeleted(n) = {} /\ GuestsUpdated(n) = {}
      /\ ~Forking(n)
  BY <1>4, AnswerFoot DEF Forking
<1>8. Sound(n)
  <2>1. Staged(n) /\ Placed(n) /\ Holds(n) \subseteq store.devices
    <3>1. store.devices \subseteq 1 .. used.devices
      BY DEF IdentityInv, TablesSound, Referring
    <3> QED
      BY <1>2, <1>4, <1>7, <3>1 DEF Staged, Placed, Holds
  <2>2. CountsRight(n) /\ ForkRight(n) /\ VisitStays(n) /\ Stamped(n)
    BY <1>2, <1>4, <1>7 DEF CountsRight, PlanRight, SumsRight, Recomputing, ForkRight, VisitStays, Stamped
  <2>3. ClaimRight(n) /\ TrustStays(n)
    BY <1>1, <1>2, <1>4, <1>7, TrustedIsOnes DEF ClaimRight, TrustStays
  <2> QED
    BY <2>1, <2>2, <2>3 DEF Sound, Settled, CountsRight
<1>9. Sound(n)'
  BY <1>4, <1>5, <1>6, <1>8, CountersGrow DEF IdentityInv
<1>10. ASSUME NEW s \in Busy \ {r} PROVE Apart(n, tx[s]) /\ Apart(tx[s], n)
  <2>1. PICK o : o = tx[s]
    OBVIOUS
  <2>2. o \in Tx /\ Sound(o) /\ Minted(o) \cap store.devices = {}
    BY <2>1, Transaction DEF Busy, IdentityInv, Sound, Settled, Placed
  <2>3. Claimed(n) \cap Claimed(o) # {} => n.who = o.who
    BY <1>1, <1>2, <1>4, <1>7, <2>2, TrustedIsOnes
  <2>4. o.op = "visit" => o.at # n.since
    BY <1>1, <1>2, <1>4, <2>2 DEF Sound, Settled, Stamped
  <2> QED
    BY <1>2, <1>4, <1>7, <2>1, <2>2, <2>3, <2>4 DEF Apart
<1> QED
  BY <1>4, <1>5, <1>6, <1>9, <1>10, StepKeeps

LEMMA CheckOpenKeeps ==
  ASSUME IdentityInv, NEW r \in Requests, CheckOpen(r)
  PROVE  IdentityInv'
<1>1. PICK t : t = tx[r]
  OBVIOUS
<1>2. PICK visits : visits = {o \in store.opens : o.id = t.id /\ o.guest = Null}
  OBVIOUS
<1>3. /\ t \in AnswerTx /\ t \in Tx /\ Sound(t) /\ t.pc = "begun" /\ Others(r) = Busy \ {r}
      /\ \A s \in Busy \ {r} : tx[s] \in Tx /\ Apart(t, tx[s]) /\ Apart(tx[s], t)
  BY <1>1, AtWork, Kinds DEF CheckOpen
<1>4. UNCHANGED <<store, used, past>>
  BY DEF CheckOpen
<1>5. CASE visits = {}
  <2>1. used' \in Used /\ used.devices <= used'.devices /\ used.visits <= used'.visits
    BY <1>4, IdentityConstants DEF IdentityInv, Typed, Used
  <2>2. PICK n : n = Null
    OBVIOUS
  <2>3. tx' = [tx EXCEPT ![r] = n]
    BY <1>1, <1>2, <1>5, <2>2 DEF CheckOpen, Step
  <2> QED
    BY <1>4, <2>1, <2>2, <2>3, StepKeeps
<1>6. CASE visits # {}
  <2>1. PICK b \in BOOLEAN : b = \A o \in visits : o.by # t.who \/ (~t.trusted /\ o.at < t.since)
    OBVIOUS
  <2>2. PICK n : n = [t EXCEPT !.pc = "checked", !.borrowed = b]
    OBVIOUS
  <2>3. /\ n \in AnswerTx /\ n.op = "answer" /\ n.pc = "checked" /\ n.borrowed = b
        /\ n.who = t.who /\ n.id = t.id /\ n.trusted = t.trusted /\ n.since = t.since
    BY <1>3, <2>2 DEF AnswerTx
  <2>4. tx' = [tx EXCEPT ![r] = n]
    BY <1>1, <1>2, <1>6, <2>1, <2>2 DEF CheckOpen, Step
  <2>5. /\ Minted(n) = Minted(t) /\ DevicesUpdated(n) = {} /\ DevicesShared(n) = {} /\ DevicesDeleted(n) = {}
        /\ GuestsUpdated(n) = {} /\ ~Forking(n)
    BY <1>3, <2>3, AnswerFoot DEF Forking
  <2>6. VisitStays(n)
    <3>1. t.since \in Nat /\ \A o \in visits : o.at \in Nat
      BY <1>2, <1>3, IdentityConstants DEF AnswerTx, IdentityInv, Typed, Store, Opening
    <3>2. ASSUME ~b PROVE \E o \in visits : o.by = t.who /\ 0 <= o.at /\ (~t.trusted => t.since <= o.at)
      BY <2>1, <3>1, <3>2
    <3> QED
      BY <1>2, <2>3, <3>2 DEF VisitStays, OwnVisit
  <2>7. Staged(n) /\ ForkRight(n) /\ DevicesShared(n) \subseteq store.devices
    BY <2>3, <2>5 DEF Staged, ForkRight
  <2>8. Sound(n) /\ Named(n) = Named(t) /\ Claimed(n) = Claimed(t) /\ t.op = "answer" /\ n \in Tx
    BY <1>3, <2>3, <2>5, <2>6, <2>7, AnswerGoesOn
  <2>9. ASSUME NEW s \in Busy \ {r} PROVE Apart(n, tx[s]) /\ Apart(tx[s], n)
    <3>1. PICK o : o = tx[s]
      OBVIOUS
    <3> QED
      BY <1>3, <2>3, <2>5, <2>8, <3>1, StillApart
  <2> QED
    BY <1>4, <2>4, <2>8, <2>9, StepSound
<1> QED
  BY <1>5, <1>6

LEMMA WriteKeeps ==
  ASSUME IdentityInv, NEW r \in Requests, Write(r)
  PROVE  IdentityInv'
<1>1. PICK t : t = tx[r]
  OBVIOUS
<1>2. /\ t \in AnswerTx /\ t \in Tx /\ Sound(t) /\ t.pc = "checked" /\ t.trusted /\ Others(r) = Busy \ {r}
      /\ \A s \in Busy \ {r} : tx[s] \in Tx /\ Apart(t, tx[s]) /\ Apart(tx[s], t)
  BY <1>1, AtWork, Kinds DEF Write
<1>3. PICK n : n = [t EXCEPT !.pc = "written"]
  OBVIOUS
<1>4. /\ n \in AnswerTx /\ n.op = "answer" /\ n.pc = "written" /\ n.borrowed = t.borrowed
      /\ n.who = t.who /\ n.id = t.id /\ n.trusted = t.trusted /\ n.since = t.since
  BY <1>2, <1>3 DEF AnswerTx
<1>5. /\ Minted(n) = Minted(t) /\ DevicesUpdated(n) = {} /\ DevicesShared(n) = {t.id} /\ DevicesDeleted(n) = {}
      /\ GuestsUpdated(n) = {} /\ ~Forking(n)
  BY <1>2, <1>4, AnswerFoot DEF Forking
<1>6. t.id \in store.devices /\ MayShare(r, t.id) /\ tx' = [tx EXCEPT ![r] = n] /\ UNCHANGED <<store, used, past>>
  BY <1>1, <1>3 DEF Write, Step
<1>7. VisitStays(n)
  <2>1. t.op = "answer"
    BY <1>2, Kinds
  <2> QED
    BY <1>2, <1>4, <2>1 DEF Sound, Settled, VisitStays
<1>8. Staged(n) /\ ForkRight(n) /\ DevicesShared(n) \subseteq store.devices
  BY <1>2, <1>4, <1>5, <1>6 DEF Staged, ForkRight
<1>9. Sound(n) /\ Named(n) = Named(t) /\ Claimed(n) = Claimed(t) /\ t.op = "answer" /\ n \in Tx
  BY <1>2, <1>4, <1>5, <1>7, <1>8, AnswerGoesOn
<1>10. ASSUME NEW s \in Busy \ {r} PROVE Apart(n, tx[s]) /\ Apart(tx[s], n)
  <2>1. PICK o : o = tx[s]
    OBVIOUS
  <2>2. DevicesShared(n) \cap DevicesDeleted(o) = {}
    BY <1>2, <1>5, <1>6, <2>1 DEF MayShare
  <2> QED
    BY <1>2, <1>4, <1>5, <1>9, <2>1, <2>2, StillApart
<1> QED
  BY <1>6, <1>9, <1>10, StepSound

LEMMA CopyKeeps ==
  ASSUME IdentityInv, NEW r \in Requests, Copy(r)
  PROVE  IdentityInv'
<1>1. PICK t : t = tx[r]
  OBVIOUS
<1>2. /\ t \in AnswerTx /\ t \in Tx /\ Sound(t) /\ t.op = "answer" /\ t.pc = "checked" /\ ~t.trusted
      /\ t.id \in store.devices
      /\ \A s \in Busy \ {r} : tx[s] \in Tx /\ Sound(tx[s]) /\ Apart(t, tx[s]) /\ Apart(tx[s], t)
  BY <1>1, AtWork, Kinds DEF Copy
<1>3. PICK stale \in BOOLEAN : stale = (t.id \in store.lapsed)
  <2>1. (t.id \in store.lapsed) \in BOOLEAN
    OBVIOUS
  <2> QED
    BY <2>1
<1>4. PICK fork : fork = used.devices + 1
  OBVIOUS
<1>5. PICK n : n = [t EXCEPT !.pc = "copied", !.fork = fork, !.stale = stale]
  OBVIOUS
<1>6. /\ used \in Used /\ used.devices < MaxDevices /\ used' = [used EXCEPT !.devices = @ + 1]
      /\ tx' = [tx EXCEPT ![r] = n] /\ UNCHANGED <<store, past>>
  BY <1>1, <1>3, <1>4, <1>5 DEF Copy, Step, IdentityInv, Typed
<1>7. used.devices \in Nat /\ used.visits \in Nat /\ used'.devices = used.devices + 1 /\ used'.visits = used.visits
  BY <1>6, IdentityConstants DEF Used
<1>8. used' \in Used /\ used.devices <= used'.devices /\ used.visits <= used'.visits
  <2>1. used'.devices \in 0 .. MaxDevices
    BY <1>6, <1>7, IdentityConstants
  <2>2. used' \in Used
    BY <1>6, <2>1 DEF Used
  <2>3. used.devices <= used'.devices /\ used.visits <= used'.visits
    BY <1>7
  <2> QED
    BY <2>2, <2>3
<1>9. fork \in Devices /\ fork \notin 1 .. used.devices /\ fork \in 1 .. used'.devices
  BY <1>4, <1>6, <1>7, IdentityConstants DEF Devices
<1>10. /\ n \in AnswerTx /\ n \in Tx /\ n.op = "answer" /\ n.pc = "copied" /\ n.borrowed = t.borrowed /\ n.fork = fork
       /\ n.who = t.who /\ n.id = t.id /\ n.trusted = t.trusted /\ n.since = t.since
  BY <1>2, <1>5, <1>9 DEF AnswerTx, Tx
<1>11. /\ Minted(n) = {fork} /\ Named(n) = {t.id} /\ Claimed(n) = {fork} /\ Named(t) = {t.id}
       /\ DevicesUpdated(n) = {} /\ DevicesShared(n) = {} /\ DevicesDeleted(n) = {} /\ GuestsUpdated(n) = {}
       /\ ~Forking(n)
  BY <1>2, <1>10, AnswerFoot DEF Forking
<1>12. store.devices \subseteq 1 .. used.devices /\ 1 .. used.devices \subseteq 1 .. used'.devices
  BY <1>7 DEF IdentityInv, TablesSound, Referring
<1>13. Sound(n)'
  <2>1. Staged(n)' /\ Placed(n)' /\ (Holds(n) \subseteq store.devices)'
    BY <1>2, <1>6, <1>9, <1>10, <1>11, <1>12 DEF Staged, Placed, Holds
  <2>2. CountsRight(n)' /\ ForkRight(n)' /\ TrustStays(n)'
    BY <1>2, <1>10, <1>11 DEF CountsRight, PlanRight, SumsRight, Recomputing, ForkRight, TrustStays
  <2>3. ClaimRight(n)'
    <3>1. fork \notin store.devices
      BY <1>9, <1>12
    <3>2. \A k \in Known : store.tokens[k].id # fork
      BY <3>1 DEF IdentityInv, TablesSound, Referring
    <3>3. store.answers[fork] = Null
      BY <3>1, <1>9 DEF IdentityInv, TablesSound, Referring
    <3> QED
      BY <1>6, <1>11, <3>2, <3>3 DEF ClaimRight, Known
  <2>4. VisitStays(n)'
    BY <1>2, <1>6, <1>10 DEF Sound, Settled, VisitStays, Excused, Seen
  <2>5. Stamped(n)'
    BY <1>2, <1>7, <1>10 DEF Sound, Settled, Stamped
  <2> QED
    BY <2>1, <2>2, <2>3, <2>4, <2>5 DEF Sound, Settled, CountsRight
<1>14. ASSUME NEW s \in Busy \ {r} PROVE Apart(n, tx[s]) /\ Apart(tx[s], n)
  <2>1. PICK o : o = tx[s]
    OBVIOUS
  <2>2. /\ o \in Tx /\ Apart(t, o) /\ Apart(o, t) /\ Minted(o) \cup Named(o) \subseteq 1 .. used.devices
        /\ Claimed(o) \subseteq 1 .. used.devices
    BY <1>2, <2>1, ClaimsKnown DEF Sound, Settled, Placed
  <2>3. Minted(n) \cap (Minted(o) \cup Named(o)) = {} /\ Minted(o) \cap (Minted(n) \cup Named(n)) = {}
    BY <1>9, <1>11, <2>2 DEF Apart
  <2>4. Claimed(n) \cap Claimed(o) = {}
    BY <1>9, <1>11, <2>2
  <2>5. o.op = "visit" => o.at # n.since
    BY <1>2, <1>10, <2>2 DEF Apart
  <2> QED
    BY <1>10, <1>11, <2>1, <2>3, <2>4, <2>5 DEF Apart
<1> QED
  BY <1>6, <1>8, <1>10, <1>13, <1>14, StepKeeps

LEMMA TakeKeeps ==
  ASSUME IdentityInv, NEW r \in Requests, Take(r)
  PROVE  IdentityInv'
<1>1. PICK t : t = tx[r]
  OBVIOUS
<1>2. /\ t \in AnswerTx /\ t \in Tx /\ Sound(t) /\ t.op = "answer" /\ t.pc = "copied" /\ Others(r) = Busy \ {r}
      /\ ~t.trusted /\ t.fork \in Devices
      /\ \A s \in Busy \ {r} : tx[s] \in Tx /\ Apart(t, tx[s]) /\ Apart(tx[s], t)
  BY <1>1, AtWork, Kinds DEF Take, Sound, Settled, Staged
<1>3. PICK row : row = store.tokens[t.who]
  OBVIOUS
<1>4. PICK visits : visits = {o \in store.opens : o.id = t.id /\ o.guest = Null /\ o.at >= t.since}
  OBVIOUS
<1>5. PICK late \in BOOLEAN : late = (row # [id |-> t.id, trusted |-> FALSE, since |-> t.since])
  OBVIOUS
<1>6. /\ t.who \in Tokens /\ row \in Row \cup {Null} /\ visits \in SUBSET Opening
      /\ t.since \in Nat /\ \A o \in store.opens : o.at \in Nat
  BY <1>2, <1>3, <1>4, IdentityConstants DEF AnswerTx, IdentityInv, Typed, Store, Opening
<1>7. PICK n : n = [t EXCEPT !.pc = "written", !.from = row, !.moved = visits, !.late = late]
  OBVIOUS
<1>8. /\ n \in AnswerTx /\ n.op = "answer" /\ n.pc = "written" /\ n.borrowed = t.borrowed /\ n.fork = t.fork
      /\ n.who = t.who /\ n.id = t.id /\ n.trusted = t.trusted /\ n.since = t.since
      /\ n.from = row /\ n.moved = visits /\ n.late = late
  BY <1>2, <1>6, <1>7 DEF AnswerTx
<1>9. /\ \A o \in Others(r) : ~Takes(tx[o], t.who, visits)
      /\ \A d \in DevicesShared(n) : MayShare(r, d)
      /\ tx' = [tx EXCEPT ![r] = n] /\ UNCHANGED <<store, used, past>>
  BY <1>1, <1>3, <1>4, <1>5, <1>7 DEF Take, Step
<1>10. /\ Minted(n) = Minted(t) /\ DevicesUpdated(n) = {} /\ DevicesDeleted(n) = {} /\ GuestsUpdated(n) = {}
       /\ DevicesShared(n) = (IF row = Null THEN {} ELSE {row.id}) \cup {o.id : o \in visits}
  BY <1>2, <1>8, AnswerFoot
<1>11. DevicesShared(n) \subseteq store.devices
  <2>1. row # Null => row.id \in store.devices
    BY <1>3, <1>6 DEF Known, IdentityInv, TablesSound, Referring
  <2>2. \A o \in visits : o.id \in store.devices
    BY <1>4 DEF IdentityInv, TablesSound, Referring
  <2> QED
    BY <1>10, <2>1, <2>2
<1>12. Staged(n)
  BY <1>2, <1>8 DEF Staged
<1>13. ForkRight(n)
  BY <1>3, <1>4, <1>5, <1>8 DEF ForkRight, Seen
<1>14. VisitStays(n)
  <2>1. SUFFICES ASSUME ~t.borrowed, t.who \notin Excused, ~late PROVE OwnVisit(visits, t.who, t.id, t.since)
    BY <1>2, <1>8 DEF VisitStays
  <2>2. store.tokens[t.who] = Seen(t)
    BY <1>3, <1>5, <2>1 DEF Seen
  <2>3. OwnVisit(store.opens, t.who, t.id, t.since)
    BY <1>2, <2>1, <2>2 DEF Sound, Settled, VisitStays
  <2> QED
    BY <1>4, <1>6, <2>3 DEF OwnVisit
<1>15. Sound(n) /\ Named(n) = Named(t) /\ Claimed(n) = Claimed(t) /\ n \in Tx
  BY <1>2, <1>8, <1>10, <1>11, <1>12, <1>13, <1>14, AnswerGoesOn
<1>16. ASSUME NEW s \in Busy \ {r} PROVE Apart(n, tx[s]) /\ Apart(tx[s], n)
  <2>1. PICK o : o = tx[s]
    OBVIOUS
  <2>2. DevicesShared(n) \cap DevicesDeleted(o) = {}
    BY <1>2, <1>9, <2>1 DEF MayShare
  <2>3. Forking(o) => n.who # o.who /\ n.moved \cap o.moved = {}
    BY <1>2, <1>8, <1>9, <2>1 DEF Takes, Forking
  <2> QED
    BY <1>2, <1>8, <1>10, <1>15, <2>1, <2>2, <2>3, StillApart
<1> QED
  BY <1>9, <1>15, <1>16, StepSound

-----------------------------------------------------------------------------
(* The ends of a transaction.                                               *)

\* Which visits count under the change that a recompute belongs to.
Counts(t, v, admins) ==
  IF t.op = "visit" THEN v.id \notin admins \cup {t.id}
  ELSE IF t.op = "unadmin" THEN v.id \notin admins \ t.ids
  ELSE v.id \notin admins \cup t.ids

LEMMA PlanCounts ==
  ASSUME NEW t \in Tx, Recomputing(t), NEW g \in Guests
  PROVE  /\ store \in Store /\ (\A v \in store.opens : v.id \in store.devices) =>
              (g \in OpenedBy(Changed(t).opens, Changed(t).admins)
                 <=> \E v \in store.opens : v.guest = g /\ Counts(t, v, store.admins))
         /\ (store \in Store /\ (\A v \in store.opens : v.id \in store.devices) =>
              (g \in OpenedBy(Changed(t).opens, Changed(t).admins)
                 <=> \E v \in store.opens : v.guest = g /\ Counts(t, v, store.admins)))'
<1>1. g # Null
  BY IdentityConstants
<1>2. t.op \in {"visit", "admin", "unadmin", "delete"}
  BY DEF Recomputing
<1>3. CASE t.op = "delete"
  <2>1. store \in Store => /\ Changed(t).opens = {v \in store.opens : v.id \notin t.ids}
                           /\ Changed(t).admins = store.admins \ t.ids
    BY <1>3 DEF Changed, Without, Store
  <2>2. (store \in Store => /\ Changed(t).opens = {v \in store.opens : v.id \notin t.ids}
                            /\ Changed(t).admins = store.admins \ t.ids)'
    BY <1>3 DEF Changed, Without, Store
  <2> QED
    BY <1>1, <1>3, <2>1, <2>2 DEF OpenedBy, Counts
<1>4. CASE t.op = "visit"
  <2>1. store \in Store => Changed(t).opens = store.opens /\ Changed(t).admins = store.admins \cup {t.id}
    BY <1>4 DEF Changed, Store
  <2>2. (store \in Store => Changed(t).opens = store.opens /\ Changed(t).admins = store.admins \cup {t.id})'
    BY <1>4 DEF Changed, Store
  <2> QED
    BY <1>1, <1>4, <2>1, <2>2 DEF OpenedBy, Counts
<1>5. CASE t.op = "admin"
  <2>1. store \in Store => /\ Changed(t).opens = store.opens
                           /\ Changed(t).admins = store.admins \cup (t.ids \cap store.devices)
    BY <1>5 DEF Changed, Store
  <2>2. (store \in Store => /\ Changed(t).opens = store.opens
                            /\ Changed(t).admins = store.admins \cup (t.ids \cap store.devices))'
    BY <1>5 DEF Changed, Store
  <2> QED
    BY <1>1, <1>5, <2>1, <2>2 DEF OpenedBy, Counts
<1>6. CASE t.op = "unadmin"
  <2>1. store \in Store => Changed(t).opens = store.opens /\ Changed(t).admins = store.admins \ t.ids
    BY <1>6 DEF Changed, Store
  <2>2. (store \in Store => Changed(t).opens = store.opens /\ Changed(t).admins = store.admins \ t.ids)'
    BY <1>6 DEF Changed, Store
  <2> QED
    BY <1>1, <1>6, <2>1, <2>2 DEF OpenedBy, Counts
<1> QED
  BY <1>2, <1>3, <1>4, <1>5, <1>6

\* What a transaction has missed is read by its recompute alone.
Missing(t, m) == [t EXCEPT !.missed = @ \cup m]

LEMMA MissedOnly ==
  ASSUME NEW o \in Tx, o.op \notin {"answer", "purge"}, NEW m \in SUBSET (Guests \cup {Null}),
         NEW n, n = Missing(o, m)
  PROVE  /\ n \in Tx /\ n.op = o.op /\ n.missed = o.missed \cup m /\ n.plan = o.plan
         /\ Recomputing(n) <=> Recomputing(o)
         /\ \A v, admins : Counts(n, v, admins) <=> Counts(o, v, admins)
         /\ Staged(o) => Staged(n)
         /\ Settled(o)' => Settled(n)'
         /\ \A p \in Tx : /\ Apart(o, p) => Apart(n, p)
                          /\ Apart(p, o) => Apart(p, n)
<1>1. CASE o \in VisitTx
  <2>1. /\ n \in VisitTx /\ n.op = "visit" /\ o.op = "visit" /\ n.pc = o.pc /\ n.missed = o.missed \cup m
        /\ n.plan = o.plan /\ n.who = o.who /\ n.guest = o.guest /\ n.session = o.session /\ n.id = o.id
        /\ n.new = o.new /\ n.trusted = o.trusted /\ n.at = o.at /\ n.isAdmin = o.isAdmin
    BY <1>1 DEF VisitTx, Missing
  <2>2. /\ Minted(n) = Minted(o) /\ Named(n) = Named(o) /\ Claimed(n) = Claimed(o)
        /\ DevicesUpdated(n) = DevicesUpdated(o) /\ DevicesShared(n) = DevicesShared(o)
        /\ DevicesDeleted(n) = DevicesDeleted(o) /\ (Forking(n) <=> Forking(o))
    BY <1>1, <2>1, VisitFoot
  <2>3. GuestsUpdated(n) = GuestsUpdated(o)
    BY <2>1 DEF GuestsUpdated
  <2>4. Settled(o)' => Settled(n)'
    <3>1. SumsRight(n)' /\ ForkRight(n)' /\ VisitStays(n)'
      BY <1>1, <2>1, VisitFoot DEF SumsRight, ForkRight, VisitStays
    <3>2. Placed(o)' => Placed(n)'
      BY <2>2 DEF Placed
    <3>3. (Holds(o) \subseteq store.devices)' => (Holds(n) \subseteq store.devices)'
      BY <2>1, <2>2 DEF Holds
    <3>4. ClaimRight(o)' => ClaimRight(n)'
      BY <2>1, <2>2 DEF ClaimRight
    <3>5. TrustStays(o)' => TrustStays(n)'
      BY <2>1 DEF TrustStays
    <3>6. Stamped(o)' => Stamped(n)'
      BY <2>1 DEF Stamped
    <3> QED
      BY <3>1, <3>2, <3>3, <3>4, <3>5, <3>6 DEF Settled
  <2>5. \A p \in Tx : /\ Apart(o, p) => Apart(n, p)
                      /\ Apart(p, o) => Apart(p, n)
    BY <2>1, <2>2, <2>3 DEF Apart, Forking
  <2> QED
    BY <2>1, <2>2, <2>4, <2>5 DEF Tx, Recomputing, Counts, Staged
<1>2. CASE o \in DeskTx
  <2>1. /\ n \in DeskTx /\ n.op = o.op /\ o.op \in {"admin", "unadmin", "delete"} /\ n.pc = o.pc
        /\ n.missed = o.missed \cup m /\ n.plan = o.plan /\ n.ids = o.ids
    BY <1>2 DEF DeskTx, Missing
  <2>2. /\ Minted(n) = Minted(o) /\ Named(n) = Named(o) /\ Claimed(n) = {} /\ Claimed(o) = {}
        /\ DevicesUpdated(n) = DevicesUpdated(o) /\ DevicesShared(n) = DevicesShared(o)
        /\ DevicesDeleted(n) = DevicesDeleted(o) /\ (Forking(n) <=> Forking(o)) /\ ~Forking(o)
        /\ GuestsUpdated(n) = GuestsUpdated(o)
    BY <1>2, <2>1, DeskFoot
  <2>3. Settled(o)' => Settled(n)'
    BY <2>1, <2>2 DEF Settled, Placed, Holds, SumsRight, ClaimRight, TrustStays, Stamped, ForkRight, VisitStays
  <2>4. \A p \in Tx : /\ Apart(o, p) => Apart(n, p)
                      /\ Apart(p, o) => Apart(p, n)
    BY <2>1, <2>2 DEF Apart
  <2> QED
    BY <2>1, <2>2, <2>3, <2>4 DEF Tx, Recomputing, Counts, Staged
<1> QED
  BY <1>1, <1>2, Kinds DEF Tx

\* The transactions when t has ended at r, if the recomputes missed m.
Ended(r, t, m) ==
  [o \in Requests |->
     IF o # r /\ tx[o] # Null /\ tx[o].op \notin {"answer", "purge"} /\ t.op # "answer"
          /\ tx[o].pc \in {"scanned", "rewritten", "written"}
     THEN [tx[o] EXCEPT !.missed = @ \cup m]
     ELSE IF o = r THEN Null ELSE tx[o]]

(* A transaction that ends keeps everything if the tables are sound again, if  *)
(* the others are settled with them, and if no visit of a guest that the      *)
(* recomputes do not miss comes, goes, or changes hands.                     *)
LEMMA CommitKeeps ==
  ASSUME IdentityInv, NEW r \in Requests, NEW t, t = tx[r], t # Null, NEW m \in SUBSET (Guests \cup {Null}),
         tx' = Ended(r, t, m),
         store' \in Store, used' \in Used, past' \in Past, TablesSound',
         \A o \in Tx : Sound(o) /\ Apart(t, o) /\ Apart(o, t) => Settled(o)',
         \A g \in Guests, v \in Opening :
           v.guest = g /\ (g \in m => t.op = "answer") =>
             /\ v \in store.opens <=> v \in store'.opens
             /\ v \in store.opens => (v.id \in store.admins <=> v.id \in store'.admins)
  PROVE  IdentityInv'
<1>1. \A s \in Busy \ {r} : tx[s] \in Tx /\ Sound(tx[s]) /\ Apart(t, tx[s]) /\ Apart(tx[s], t)
  BY AtWork
<1>2. ASSUME NEW s \in Requests, s \in Busy \/ tx'[s] # Null, s # r
      PROVE  /\ s \in Busy /\ tx[s] \in Tx /\ tx'[s] \in Tx
             /\ \/ tx'[s] = tx[s] /\ (Recomputing(tx[s]) => t.op = "answer")
                \/ tx[s].op \notin {"answer", "purge"} /\ tx'[s] = Missing(tx[s], m)
  <2>1. tx'[s] = IF tx[s] # Null /\ tx[s].op \notin {"answer", "purge"} /\ t.op # "answer"
                      /\ tx[s].pc \in {"scanned", "rewritten", "written"}
                 THEN Missing(tx[s], m) ELSE tx[s]
    BY <1>2 DEF Missing, Ended
  <2>2. s \in Busy
    BY <1>2, <2>1 DEF Busy
  <2>3. PICK o : o = tx[s]
    OBVIOUS
  <2>4. o \in Tx /\ o # Null
    BY <1>1, <1>2, <2>2, <2>3, Kinds
  <2>5. CASE o.op \notin {"answer", "purge"} /\ t.op # "answer" /\ o.pc \in {"scanned", "rewritten", "written"}
    <3>1. tx'[s] = Missing(o, m)
      BY <2>1, <2>3, <2>4, <2>5
    <3>2. tx'[s] \in Tx
      BY <3>1, <2>4, <2>5, MissedOnly
    <3> QED
      BY <2>2, <2>3, <2>4, <2>5, <3>1, <3>2
  <2>6. CASE ~(o.op \notin {"answer", "purge"} /\ t.op # "answer" /\ o.pc \in {"scanned", "rewritten", "written"})
    BY <2>1, <2>2, <2>3, <2>4, <2>6 DEF Recomputing
  <2> QED
    BY <2>5, <2>6
<1>3. tx'[r] = Null /\ Busy' = Busy \ {r}
  <2>1. tx'[r] = Null
    BY DEF Ended
  <2>2. ASSUME NEW s \in Busy, s # r PROVE tx'[s] # Null
    <3>1. s \in Requests
      BY <2>2 DEF Busy
    <3>2. PICK n : n = tx'[s]
      OBVIOUS
    <3>3. n \in Tx
      BY <1>2, <2>2, <3>1, <3>2
    <3> QED
      BY <3>2, <3>3, Kinds
  <2> QED
    BY <1>2, <2>1, <2>2 DEF Busy
<1>4. Typed'
  <2>1. \A s \in Requests : tx'[s] \in Tx \cup {Null}
    BY <1>2, <1>3
  <2> QED
    BY <2>1 DEF Typed, Ended
<1>5. \A o \in Tx : Recomputing(o) =>
        \A g \in Guests : (g \in m => t.op = "answer") =>
          (g \in OpenedBy(Changed(o).opens, Changed(o).admins)
             <=> \E v \in store'.opens : v.guest = g /\ Counts(o, v, store'.admins))
  <2> SUFFICES ASSUME NEW o \in Tx, Recomputing(o), NEW g \in Guests, g \in m => t.op = "answer"
               PROVE  g \in OpenedBy(Changed(o).opens, Changed(o).admins)
                        <=> \E v \in store'.opens : v.guest = g /\ Counts(o, v, store'.admins)
    OBVIOUS
  <2>1. g \in OpenedBy(Changed(o).opens, Changed(o).admins)
          <=> \E v \in store.opens : v.guest = g /\ Counts(o, v, store.admins)
    BY PlanCounts DEF IdentityInv, Typed, TablesSound, Referring
  <2>2. store.opens \subseteq Opening /\ store'.opens \subseteq Opening
    BY DEF IdentityInv, Typed, Store
  <2>3. \A v \in store.opens : v.guest = g => (Counts(o, v, store.admins) <=> Counts(o, v, store'.admins))
    BY <2>2 DEF Counts
  <2> QED
    BY <2>1, <2>2, <2>3
<1>6. ASSUME NEW s \in Busy \ {r} PROVE Sound(tx[s])'
  <2>1. PICK o : o = tx[s]
    OBVIOUS
  <2>2. PICK n : n = tx'[s]
    OBVIOUS
  <2>3. o \in Tx /\ Sound(o) /\ Settled(o)' /\ n \in Tx /\ s \in Requests
    BY <1>1, <1>2, <2>1, <2>2 DEF Busy
  <2>4. \/ n = o /\ (Recomputing(o) => t.op = "answer")
        \/ o.op \notin {"answer", "purge"} /\ n = Missing(o, m)
    BY <1>2, <2>1, <2>2, <2>3
  <2>5. /\ Staged(n) /\ Settled(n)' /\ n.plan = o.plan
        /\ Recomputing(n) <=> Recomputing(o)
        /\ Recomputing(n) => /\ \A v, admins : Counts(n, v, admins) <=> Counts(o, v, admins)
                             /\ o.missed \subseteq n.missed /\ (t.op = "answer" \/ m \subseteq n.missed)
    <3>1. CASE n = o /\ (Recomputing(o) => t.op = "answer")
      BY <2>3, <3>1 DEF Sound
    <3>2. CASE o.op \notin {"answer", "purge"} /\ n = Missing(o, m)
      BY <2>3, <3>2, MissedOnly DEF Sound
    <3> QED
      BY <2>4, <3>1, <3>2
  <2>6. PlanRight(n)'
    <3>1. SUFFICES ASSUME Recomputing(n), NEW g \in Guests \ n.missed
                   PROVE  g \in n.plan <=> (g \in OpenedBy(Changed(n).opens, Changed(n).admins))'
      BY DEF PlanRight
    <3>2. g \in o.plan <=> g \in OpenedBy(Changed(o).opens, Changed(o).admins)
      BY <2>3, <2>5, <3>1 DEF Sound, PlanRight
    <3>3. g \in OpenedBy(Changed(o).opens, Changed(o).admins)
            <=> \E v \in store'.opens : v.guest = g /\ Counts(o, v, store'.admins)
      BY <1>5, <2>3, <2>5, <3>1
    <3>4. (g \in OpenedBy(Changed(n).opens, Changed(n).admins)
             <=> \E v \in store.opens : v.guest = g /\ Counts(n, v, store.admins))'
      BY <2>3, <3>1, PlanCounts DEF TablesSound, Referring
    <3> QED
      BY <2>5, <3>1, <3>2, <3>3, <3>4
  <2> QED
    BY <2>2, <2>5, <2>6 DEF Sound
<1>7. ASSUME NEW s \in Busy \ {r}, NEW q \in Busy \ {r}, s # q PROVE Apart(tx[s], tx[q])'
  <2>1. PICK o, p : o = tx[s] /\ p = tx[q]
    OBVIOUS
  <2>2. PICK n, k : n = tx'[s] /\ k = tx'[q]
    OBVIOUS
  <2>3. /\ o \in Tx /\ n \in Tx /\ p \in Tx /\ k \in Tx
        /\ n = o \/ (o.op \notin {"answer", "purge"} /\ n = Missing(o, m))
        /\ k = p \/ (p.op \notin {"answer", "purge"} /\ k = Missing(p, m))
    BY <1>2, <2>1, <2>2 DEF Busy
  <2>4. Apart(o, p)
    BY <1>7, <2>1 DEF IdentityInv
  <2>5. Apart(n, p)
    BY <2>3, <2>4, MissedOnly
  <2>6. Apart(n, k)
    BY <2>3, <2>5, MissedOnly
  <2> QED
    BY <2>2, <2>6
<1> QED
  BY <1>3, <1>4, <1>6, <1>7 DEF IdentityInv

\* What every end of a transaction has in common.
LEMMA CommitParts ==
  ASSUME IdentityInv, NEW r \in Requests, NEW t, t = tx[r], Commit(r)
  PROVE  /\ t # Null /\ t \in Tx /\ Sound(t) /\ Staged(t) /\ Settled(t)
         /\ t.pc = IF t.op \in {"visit", "answer", "purge"} THEN "written" ELSE "rewritten"
         /\ tx' = Ended(r, t, Touches(t))
         /\ used' \in Used /\ used'.devices = used.devices /\ used'.visits = used.visits
         /\ used'.devices \in Nat /\ used'.visits \in Nat
         /\ Overtaken(t) \subseteq Guests \cup {Null} => past' \in Past
         /\ past'.overtaken = Overtaken(t)
         /\ t.op # "answer" =>
              /\ past'.chose = past.chose \cap Known'
              /\ past'.forkedLate = past.forkedLate /\ past'.displaced = past.displaced
         /\ t.op = "answer" =>
              /\ past'.chose = (IF t.rsvp # Null THEN past.chose \cup {t.who} ELSE past.chose) \cap Known'
              /\ past'.forkedLate = IF t.late THEN past.forkedLate \cup {t.who} ELSE past.forkedLate
              /\ past'.displaced = past.displaced \cup ({o.by : o \in t.moved} \ {t.who})
                                     \cup (IF t.borrowed THEN {t.who} ELSE {})
<1>1. /\ t # Null /\ t \in Tx /\ Sound(t) /\ Staged(t) /\ Settled(t)
      /\ t.pc = IF t.op \in {"visit", "answer", "purge"} THEN "written" ELSE "rewritten"
  BY AtWork DEF Commit, Sound
<1>2. used' \in Used /\ used'.devices = used.devices /\ used'.visits = used.visits
  <2>1. used \in Used
    BY DEF IdentityInv, Typed
  <2>2. CASE t.op # "visit"
    BY <2>1, <2>2 DEF Commit
  <2>3. CASE t.op = "visit"
    <3>1. t.who \in Tokens
      BY <1>1, <2>3, Kinds DEF VisitTx
    <3>2. used' = [used EXCEPT !.issued = @ \cup {t.who}, !.shared = IF t.guest = Null THEN @ \cup {t.who} ELSE @]
      BY <2>3 DEF Commit
    <3> QED
      BY <2>1, <3>1, <3>2 DEF Used
  <2> QED
    BY <2>2, <2>3
<1>3. used.devices \in Nat /\ used.visits \in Nat
  BY IdentityConstants DEF IdentityInv, Typed, Used
<1>4. PICK picked : picked = (IF t.op = "answer" /\ t.rsvp # Null THEN past.chose \cup {t.who} ELSE past.chose) \cap Known'
  OBVIOUS
<1>5. PICK late : late = IF t.op = "answer" /\ t.late THEN past.forkedLate \cup {t.who} ELSE past.forkedLate
  OBVIOUS
<1>6. PICK displaced :
        displaced = IF t.op = "answer"
                    THEN past.displaced \cup ({o.by : o \in t.moved} \ {t.who}) \cup (IF t.borrowed THEN {t.who} ELSE {})
                    ELSE past.displaced
  OBVIOUS
<1>7. past' = [past EXCEPT !.overtaken = Overtaken(t), !.chose = picked, !.forkedLate = late, !.displaced = displaced]
  BY <1>4, <1>5, <1>6 DEF Commit, Known
<1>8. past \in Past
  BY DEF IdentityInv, Typed
<1>9. picked \subseteq Tokens /\ late \subseteq Tokens /\ displaced \subseteq Tokens
  <2>1. t.op = "answer" => t.who \in Tokens /\ t.moved \subseteq Opening
    BY <1>1, Kinds DEF AnswerTx
  <2>2. \A o \in Opening : o.by \in Tokens
    BY DEF Opening
  <2>3. past.forkedLate \subseteq Tokens /\ past.displaced \subseteq Tokens
    BY <1>8 DEF Past
  <2> QED
    BY <1>4, <1>5, <1>6, <2>1, <2>2, <2>3 DEF Known
<1>10. /\ past'.overtaken = Overtaken(t) /\ past'.chose = picked /\ past'.forkedLate = late
       /\ past'.displaced = displaced
       /\ Overtaken(t) \subseteq Guests \cup {Null} => past' \in Past
  BY <1>7, <1>8, <1>9 DEF Past
<1>11. tx' = Ended(r, t, Touches(t))
  BY DEF Commit, Ended
<1> QED
  BY <1>1, <1>2, <1>3, <1>4, <1>5, <1>6, <1>10, <1>11

LEMMA MissedGuests ==
  ASSUME Typed, NEW t \in Tx
  PROVE  /\ Touches(t) \subseteq Guests \cup {Null}
         /\ Overtaken(t) \subseteq Guests \cup {Null}
<1>1. store.opens \subseteq Opening /\ \A o \in Opening : o.guest \in Guests \cup {Null}
  BY DEF Typed, Store, Opening
<1>2. past.overtaken \subseteq Guests \cup {Null}
  BY DEF Typed, Past
<1>3. t.op = "visit" => t.guest \in Guests \cup {Null} /\ t.missed \subseteq Guests \cup {Null}
  BY Kinds DEF VisitTx
<1>4. t.op \in {"admin", "unadmin", "delete"} => t.missed \subseteq Guests \cup {Null}
  BY Kinds DEF DeskTx
<1>5. Touches(t) \subseteq Guests \cup {Null}
  BY <1>1, <1>3 DEF Touches
<1>6. CASE t.op = "visit"
  BY <1>2, <1>3, <1>5, <1>6 DEF Overtaken
<1>7. CASE t.op = "purge"
  BY <1>1, <1>2, <1>5, <1>7 DEF Overtaken, OpenedBy
<1>8. CASE t.op = "answer"
  BY <1>2, <1>5, <1>8 DEF Overtaken
<1>9. CASE t.op \in {"admin", "unadmin", "delete"}
  BY <1>4, <1>5, <1>9 DEF Overtaken
<1> QED
  BY <1>6, <1>7, <1>8, <1>9, Kinds

(* The end of a visit.                                                      *)
LEMMA VisitStores ==
  ASSUME IdentityInv, NEW t \in VisitTx, store' = VisitStored(t)
  PROVE  /\ store' \in Store
         /\ store'.devices = store.devices \cup {t.id} /\ store'.lapsed \subseteq store.lapsed \cup {t.id}
         /\ store'.admins = IF t.session THEN store.admins \cup {t.id} ELSE store.admins
         /\ store'.opened = IF t.session THEN t.plan \cup store.legacy ELSE store.opened \cup Marks(t)
         /\ store'.tokens = [store.tokens EXCEPT ![t.who] =
                               IF @ = Null THEN [id |-> t.id, trusted |-> t.trusted, since |-> t.at] ELSE @]
         /\ store'.opens = store.opens \cup {[id |-> t.id, guest |-> t.guest, at |-> t.at, by |-> t.who]}
         /\ store'.answers = store.answers /\ store'.legacy = store.legacy
<1>1. store \in Store
  BY DEF IdentityInv, Typed
<1>2. /\ t.id \in Devices /\ t.who \in Tokens /\ t.trusted \in BOOLEAN /\ t.at \in 1 .. MaxVisits
      /\ t.guest \in Guests \cup {Null} /\ t.plan \in SUBSET Guests /\ t.session \in BOOLEAN
  BY DEF VisitTx
<1>3. PICK admins : admins = IF t.session THEN store.admins \cup {t.id} ELSE store.admins
  OBVIOUS
<1>4. PICK opened : opened = IF t.session THEN t.plan \cup store.legacy ELSE store.opened \cup Marks(t)
  OBVIOUS
<1>5. PICK lapsed : lapsed = IF store.rolling THEN store.lapsed \ {t.id}
                             ELSE IF t.new /\ store.over THEN store.lapsed \cup {t.id} ELSE store.lapsed
  OBVIOUS
<1>6. PICK kept : kept = [store.tokens EXCEPT ![t.who] =
                                IF @ = Null THEN [id |-> t.id, trusted |-> t.trusted, since |-> t.at] ELSE @]
  OBVIOUS
<1>7. PICK opens : opens = store.opens \cup {[id |-> t.id, guest |-> t.guest, at |-> t.at, by |-> t.who]}
  OBVIOUS
<1>8. PICK claimed : claimed = [store EXCEPT !.admins = admins, !.opened = opened]
  OBVIOUS
<1>9. /\ claimed.devices = store.devices /\ claimed.lapsed = store.lapsed /\ claimed.tokens = store.tokens
       /\ claimed.opens = store.opens /\ claimed.admins = admins /\ claimed.opened = opened
       /\ claimed.answers = store.answers /\ claimed.legacy = store.legacy
       /\ claimed.rolling = store.rolling /\ claimed.over = store.over
  BY <1>1, <1>8 DEF Store
<1>10. claimed = IF t.session THEN [store EXCEPT !.admins = @ \cup {t.id}, !.opened = t.plan \cup store.legacy]
                 ELSE [store EXCEPT !.opened = @ \cup Marks(t)]
  BY <1>1, <1>3, <1>4, <1>8 DEF Store
<1>11. store' = [claimed EXCEPT !.devices = @ \cup {t.id}, !.lapsed = lapsed, !.tokens = kept, !.opens = opens]
  BY <1>5, <1>6, <1>7, <1>9, <1>10 DEF VisitStored
<1>12. /\ store.devices \subseteq Devices /\ store.lapsed \subseteq Devices /\ store.admins \subseteq Devices
      /\ store.opened \subseteq Guests /\ store.legacy \subseteq Guests /\ store.opens \subseteq Opening
      /\ store.tokens \in [Tokens -> Row \cup {Null}]
  BY <1>1 DEF Store
<1>13. /\ admins \subseteq Devices /\ opened \subseteq Guests /\ store.devices \cup {t.id} \subseteq Devices
       /\ lapsed \subseteq Devices /\ lapsed \subseteq store.lapsed \cup {t.id}
  BY <1>2, <1>3, <1>4, <1>5, <1>12 DEF Marks
<1>14. kept \in [Tokens -> Row \cup {Null}] /\ opens \subseteq Opening
  <2>1. [id |-> t.id, trusted |-> t.trusted, since |-> t.at] \in Row
    BY <1>2 DEF Row
  <2>2. [id |-> t.id, guest |-> t.guest, at |-> t.at, by |-> t.who] \in Opening
    BY <1>2 DEF Opening
  <2> QED
    BY <1>2, <1>6, <1>7, <1>12, <2>1, <2>2
<1>15. claimed \in Store
  BY <1>8, <1>12, <1>13, <1>1 DEF Store
<1>16. /\ store' \in Store
       /\ store'.devices = store.devices \cup {t.id} /\ store'.lapsed = lapsed /\ store'.admins = admins
       /\ store'.opened = opened /\ store'.tokens = kept /\ store'.opens = opens
       /\ store'.answers = store.answers /\ store'.legacy = store.legacy
  BY <1>9, <1>11, <1>13, <1>14, <1>15 DEF Store
<1> QED
  BY <1>3, <1>4, <1>6, <1>7, <1>13, <1>16

\* The token of a visit gets a row only if it had none.
LEMMA VisitTokens ==
  ASSUME IdentityInv, NEW t \in VisitTx, store' = VisitStored(t)
  PROVE  /\ Known' = Known \cup {t.who}
         /\ \A k \in Known : store'.tokens[k] = store.tokens[k]
         /\ t.who \notin Known => store'.tokens[t.who] = [id |-> t.id, trusted |-> t.trusted, since |-> t.at]
<1>1. t.who \in Tokens /\ store.tokens \in [Tokens -> Row \cup {Null}]
  BY DEF VisitTx, IdentityInv, Typed, Store
<1>2. store'.tokens = [store.tokens EXCEPT ![t.who] =
                         IF @ = Null THEN [id |-> t.id, trusted |-> t.trusted, since |-> t.at] ELSE @]
  BY VisitStores
<1>3. [id |-> t.id, trusted |-> t.trusted, since |-> t.at] # Null
  BY IdentityConstants DEF VisitTx, Row
<1>4. \A k \in Tokens : store'.tokens[k] =
        IF k = t.who /\ store.tokens[k] = Null THEN [id |-> t.id, trusted |-> t.trusted, since |-> t.at]
        ELSE store.tokens[k]
  BY <1>1, <1>2
<1> QED
  BY <1>1, <1>3, <1>4 DEF Known

LEMMA VisitCountsRight ==
  ASSUME IdentityInv, NEW r \in Requests, NEW t, t = tx[r], Commit(r), t.op = "visit", t \in VisitTx
  PROVE  OpenedCounts'
<1>1. Sound(t) /\ Staged(t) /\ t.pc = "written" /\ past'.overtaken = Overtaken(t)
  BY CommitParts
<1>2. store' = VisitStored(t)
  BY DEF Commit
<1>3. /\ store'.admins = IF t.session THEN store.admins \cup {t.id} ELSE store.admins
      /\ store'.opened = IF t.session THEN t.plan \cup store.legacy ELSE store.opened \cup Marks(t)
      /\ store'.opens = store.opens \cup {[id |-> t.id, guest |-> t.guest, at |-> t.at, by |-> t.who]}
      /\ store'.legacy = store.legacy
  BY <1>2, VisitStores
<1>4. SUFFICES ASSUME NEW g \in Guests \ Overtaken(t)
               PROVE  g \in store'.opened <=> g \in store'.legacy \cup OpenedBy(store'.opens, store'.admins)
  BY <1>1 DEF OpenedCounts
<1>5. g # Null
  BY IdentityConstants
<1>6. CASE t.session
  <2>1. Recomputing(t) /\ g \notin t.missed
    BY <1>1, <1>4, <1>6 DEF Recomputing, Overtaken
  <2>2. g \in t.plan <=> g \in OpenedBy(Changed(t).opens, Changed(t).admins)
    BY <1>1, <1>4, <2>1 DEF Sound, PlanRight
  <2>3. Changed(t).opens = store.opens /\ Changed(t).admins = store'.admins
    BY <1>3, <1>6 DEF Changed, IdentityInv, Typed, Store
  <2>4. t.id \in store'.admins
    BY <1>3, <1>6
  <2>5. OpenedBy(store'.opens, store'.admins) = OpenedBy(store.opens, store'.admins)
    BY <1>3, <2>4 DEF OpenedBy
  <2> QED
    BY <1>3, <1>6, <2>2, <2>3, <2>5
<1>7. CASE ~t.session
  <2>1. g \notin past.overtaken /\ (g = t.guest => (t.isAdmin <=> t.id \in store.admins))
    BY <1>4, <1>7 DEF Overtaken, VisitTx
  <2>2. g \in store.opened <=> g \in store.legacy \cup OpenedBy(store.opens, store.admins)
    BY <2>1, <1>4 DEF IdentityInv, TablesSound, OpenedCounts
  <2>3. g \in OpenedBy(store'.opens, store'.admins)
          <=> g \in OpenedBy(store.opens, store.admins) \/ (g = t.guest /\ t.id \notin store.admins)
    <3>1. PICK v : v = [id |-> t.id, guest |-> t.guest, at |-> t.at, by |-> t.who]
      OBVIOUS
    <3>2. v.id = t.id /\ v.guest = t.guest /\ store'.opens = store.opens \cup {v} /\ store'.admins = store.admins
      BY <3>1, <1>3, <1>7
    <3> QED
      BY <3>2, <1>5 DEF OpenedBy
  <2>4. g \in Marks(t) <=> g = t.guest /\ ~t.isAdmin
    BY <1>5 DEF Marks
  <2> QED
    BY <1>3, <1>7, <2>1, <2>2, <2>3, <2>4
<1> QED
  BY <1>6, <1>7

LEMMA VisitCommits ==
  ASSUME IdentityInv, NEW r \in Requests, NEW t, t = tx[r], Commit(r), t.op = "visit"
  PROVE  IdentityInv'
<1>1. /\ t # Null /\ t \in Tx /\ Sound(t) /\ Staged(t) /\ Settled(t) /\ t.pc = "written"
      /\ used' \in Used /\ used'.devices = used.devices /\ used'.visits = used.visits
      /\ Overtaken(t) \subseteq Guests \cup {Null} => past' \in Past
      /\ past'.chose = past.chose \cap Known'
      /\ past'.forkedLate = past.forkedLate /\ past'.displaced = past.displaced
  BY CommitParts
<1>2. t \in VisitTx /\ store' = VisitStored(t)
  BY <1>1, Kinds DEF Commit
<1>3. PICK v : v = [id |-> t.id, guest |-> t.guest, at |-> t.at, by |-> t.who]
  OBVIOUS
<1>4. /\ store' \in Store /\ store'.devices = store.devices \cup {t.id}
      /\ store'.lapsed \subseteq store.lapsed \cup {t.id}
      /\ store'.admins = IF t.session THEN store.admins \cup {t.id} ELSE store.admins
      /\ store'.opens = store.opens \cup {v}
      /\ store'.answers = store.answers
  BY <1>2, <1>3, VisitStores
<1>5. /\ Known' = Known \cup {t.who}
      /\ \A k \in Known : store'.tokens[k] = store.tokens[k]
      /\ t.who \notin Known => store'.tokens[t.who] = [id |-> t.id, trusted |-> t.trusted, since |-> t.at]
  BY <1>2, VisitTokens
<1>6. PICK m : m = Touches(t)
  OBVIOUS
<1>7. m \in SUBSET (Guests \cup {Null}) /\ past' \in Past
  BY <1>1, <1>6, MissedGuests DEF IdentityInv
<1>8. /\ Excused' = Excused /\ t.id \in 1 .. used.devices
      /\ t.new => t.id \notin store.devices /\ t.trusted
      /\ ~t.new => t.id \in store.devices
      /\ t.trusted => Claimed(t) = {t.id}
      /\ t.new => Minted(t) = {t.id}
      /\ t.at <= used.visits /\ \A k \in Known : store.tokens[k].since # t.at
      /\ v.id = t.id /\ v.guest = t.guest /\ v.by = t.who
  <2>1. DevicesUpdated(t) = IF ~t.new THEN {t.id} ELSE {}
    BY <1>1, <1>2, VisitFoot
  <2>2. t.new => t.trusted
    BY <1>1 DEF Staged
  <2> QED
    BY <1>1, <1>2, <1>3, <2>1, <2>2, VisitFoot DEF Settled, Placed, Holds, Stamped, Excused
<1>9. TablesSound'
  <2>1. Referring'
    BY <1>1, <1>2, <1>4, <1>5, <1>8 DEF IdentityInv, TablesSound, Referring
  <2>2. OpenedCounts'
    BY <1>2, VisitCountsRight
  <2>3. ProfileIsOnesOwn'
    <3>1. \A k \in Known : t.trusted /\ store.tokens[k].trusted /\ store.tokens[k].id = t.id => k = t.who
      BY <1>1, <1>8 DEF Settled, ClaimRight
    <3>2. t.trusted /\ store.answers[t.id] # Null => store.answers[t.id].by = t.who
      BY <1>1, <1>8 DEF Settled, ClaimRight
    <3>3. \A k, l \in Known' :
            store'.tokens[k].trusted /\ store'.tokens[l].trusted /\ store'.tokens[l].id = store'.tokens[k].id => k = l
      BY <1>5, <3>1 DEF IdentityInv, TablesSound, ProfileIsOnesOwn
    <3>4. \A k \in Known' : store'.tokens[k].trusted /\ store.answers[store'.tokens[k].id] # Null
                              => store.answers[store'.tokens[k].id].by = k
      BY <1>5, <3>2 DEF IdentityInv, TablesSound, ProfileIsOnesOwn
    <3> QED
      BY <1>4, <3>3, <3>4 DEF ProfileIsOnesOwn
  <2>4. Listed'
    <3>1. ASSUME NEW k \in Known' \ Excused, store'.tokens[k].trusted, store.answers[store'.tokens[k].id] # Null
          PROVE  OwnVisit(store'.opens, k, store'.tokens[k].id, 0)
      <4>1. k \in Known
        <5>1. SUFFICES ASSUME k \notin Known PROVE FALSE
          OBVIOUS
        <5>2. k = t.who /\ t.trusted /\ store'.tokens[k].id = t.id
          BY <1>5, <3>1, <5>1
        <5>3. ~t.new
          BY <1>2, <1>8, <3>1, <5>2 DEF IdentityInv, TablesSound, Referring, VisitTx
        <5> QED
          BY <1>1, <1>8, <3>1, <5>1, <5>2, <5>3 DEF Settled, TrustStays, Excused
      <4>2. OwnVisit(store.opens, k, store.tokens[k].id, 0)
        BY <1>5, <3>1, <4>1 DEF IdentityInv, TablesSound, Listed
      <4> QED
        BY <1>4, <1>5, <4>1, <4>2 DEF OwnVisit
    <3> QED
      BY <1>4, <1>8, <3>1 DEF Listed
  <2>5. Chosen'
    BY <1>1, <1>4, <1>5 DEF IdentityInv, TablesSound, Chosen
  <2> QED
    BY <2>1, <2>2, <2>3, <2>4, <2>5 DEF TablesSound
<1>10. ASSUME NEW o \in Tx, Sound(o), Apart(t, o), Apart(o, t) PROVE Settled(o)'
  <2>1. Settled(o) /\ (Minted(o) \cup Named(o)) \cap Minted(t) = {}
    BY <1>10 DEF Sound, Apart
  <2>2. Placed(o)' /\ (Holds(o) \subseteq store.devices)'
    <3>1. Minted(o) \cap store'.devices = {}
      BY <1>4, <1>8, <2>1 DEF Settled, Placed
    <3> QED
      BY <1>1, <1>4, <2>1, <3>1 DEF Settled, Placed, Holds
  <2>3. SumsRight(o)'
    <3>1. SUFFICES ASSUME o.op = "purge", o.pc # "begun" PROVE SumsRight(o)'
      BY DEF SumsRight
    <3>2. GuestsUpdated(o) = o.sums /\ o \in PurgeTx
      BY <1>10, <3>1, Kinds, PurgeFoot
    <3>3. /\ o.sums = OpenedBy(o.summed, {})
          /\ \A w \in o.summed : w.guest # Null => w \in store.opens /\ w.id \notin store.admins
      BY <2>1, <3>1 DEF Settled, SumsRight
    <3>4. ASSUME NEW w \in o.summed, w.guest # Null, t.session PROVE FALSE
      <4>1. w.guest \in o.sums
        BY <3>3, <3>4 DEF OpenedBy
      <4>2. GuestsUpdated(t) = Guests
        BY <1>1, <1>2, <3>4, VisitFoot
      <4>3. o.sums \subseteq Guests
        BY <3>2 DEF PurgeTx
      <4> QED
        BY <1>10, <3>2, <4>1, <4>2, <4>3 DEF Apart
    <3> QED
      BY <1>4, <3>3, <3>4 DEF SumsRight
  <2>4. ClaimRight(o)'
    <3>1. ASSUME NEW d \in Claimed(o), NEW k \in Known', store'.tokens[k].trusted, store'.tokens[k].id = d
          PROVE  k = o.who
      <4>1. CASE k \in Known
        BY <1>5, <2>1, <3>1, <4>1 DEF Settled, ClaimRight
      <4>2. CASE k \notin Known
        BY <1>5, <1>8, <1>10, <3>1, <4>2 DEF Apart
      <4> QED
        BY <4>1, <4>2
    <3> QED
      BY <1>4, <2>1, <3>1 DEF Settled, ClaimRight
  <2>5. TrustStays(o)'
    <3>1. SUFFICES ASSUME o.op \in {"visit", "answer"}, o.trusted, o.id \in store'.devices, o.who \notin past.forkedLate
                   PROVE  o.who \in Known' /\ store'.tokens[o.who].trusted /\ store'.tokens[o.who].id = o.id
      BY <1>1 DEF TrustStays
    <3>2. o.id \in Minted(o) \/ o.id \in Named(o)
      BY <3>1, <1>10, Kinds, VisitFoot, AnswerFoot DEF VisitTx
    <3>3. o.id \in store.devices
      BY <1>4, <1>8, <2>1, <3>1, <3>2
    <3> QED
      BY <1>5, <2>1, <3>1, <3>3 DEF Settled, TrustStays
  <2>6. Stamped(o)'
    <3>1. o.op = "visit" => t.at # o.at
      BY <1>10, <1>2 DEF Apart, VisitTx
    <3> QED
      BY <1>1, <1>5, <2>1, <3>1 DEF Settled, Stamped
  <2>7. ForkRight(o)'
    <3>1. SUFFICES ASSUME Forking(o) PROVE ForkRight(o)'
      BY DEF ForkRight
    <3>2. o.who \in Tokens
      BY <1>10, <3>1, Kinds DEF Forking, AnswerTx
    <3>3. o.from # Null => store'.tokens[o.who] = o.from
      BY <1>5, <2>1, <3>1, <3>2 DEF Settled, ForkRight, Known
    <3> QED
      BY <1>4, <2>1, <3>1, <3>3 DEF Settled, ForkRight
  <2>8. VisitStays(o)'
    <3>1. SUFFICES ASSUME o.op = "answer", o.pc # "begun", ~o.borrowed, o.who \notin Excused PROVE VisitStays(o)'
      BY <1>8 DEF VisitStays
    <3>2. o \in AnswerTx /\ o.who \in Tokens /\ o.id \in Named(o)
      BY <1>10, <3>1, Kinds, AnswerFoot DEF AnswerTx
    <3>3. \A k, d, n : OwnVisit(store.opens, k, d, n) => OwnVisit(store'.opens, k, d, n)
      BY <1>4 DEF OwnVisit
    <3>4. CASE o.trusted
      <4>1. o.id \in store'.devices => o.id \in store.devices
        BY <1>4, <1>8, <2>1, <3>2
      <4> QED
        BY <2>1, <3>1, <3>3, <3>4, <4>1 DEF Settled, VisitStays
    <3>5. CASE ~o.trusted /\ o.pc = "written"
      BY <2>1, <3>1, <3>5 DEF Settled, VisitStays
    <3>6. CASE ~o.trusted /\ o.pc # "written"
      <4>1. store.tokens[o.who] # Seen(o) => store'.tokens[o.who] # Seen(o)
        <5>1. CASE o.who \in Known
          BY <1>5, <5>1
        <5>2. CASE o.who \notin Known /\ o.who # t.who
          <6>1. store'.tokens[o.who] = Null
            BY <1>5, <3>2, <5>2 DEF Known
          <6>2. store.tokens[o.who] = Null
            BY <3>2, <5>2 DEF Known
          <6> QED
            BY <6>1, <6>2
        <5>3. CASE o.who \notin Known /\ o.who = t.who
          BY <1>5, <1>10, <3>1, <5>3 DEF Seen, Apart
        <5> QED
          BY <5>1, <5>2, <5>3
      <4> QED
        BY <2>1, <3>1, <3>3, <3>6, <4>1 DEF Settled, VisitStays
    <3> QED
      BY <3>4, <3>5, <3>6
  <2> QED
    BY <2>2, <2>3, <2>4, <2>5, <2>6, <2>7, <2>8 DEF Settled
<1>11. ASSUME NEW g \in Guests, NEW w \in Opening, w.guest = g, g \in m => t.op = "answer"
       PROVE  /\ w \in store.opens <=> w \in store'.opens
              /\ w \in store.opens => (w.id \in store.admins <=> w.id \in store'.admins)
  <2>1. g # t.guest /\ (t.session => \A u \in store.opens : u.id = t.id => u.guest # g)
    BY <1>6, <1>11 DEF Touches
  <2> QED
    BY <1>4, <1>8, <1>11, <2>1
<1>12. tx' = Ended(r, t, m)
  BY <1>6, CommitParts
<1> QED
  BY <1>1, <1>4, <1>7, <1>9, <1>10, <1>11, <1>12, CommitKeeps

-----------------------------------------------------------------------------
(* The end of a save at a device of the browser's own.                        *)

LEMMA SavedIs ==
  ASSUME NEW t \in AnswerTx, NEW old \in Reply \cup {Null}
  PROVE  /\ Saved(t, old) \in Reply /\ Saved(t, old) # Null /\ Saved(t, old).by = t.who
         /\ t.rsvp # Null => Saved(t, old).rsvp # Null
         /\ old # Null /\ old.rsvp # Null => Saved(t, old).rsvp # Null
<1>1. t.who \in Tokens /\ t.rsvp \in {Null, "yes"} /\ (old # Null => old.rsvp \in {Null, "yes"})
  BY DEF AnswerTx, Reply
<1>2. Saved(t, old) \in Reply
  BY <1>1 DEF Saved, Reply
<1> QED
  BY <1>1, <1>2, IdentityConstants DEF Saved

LEMMA AnswerStores ==
  ASSUME IdentityInv, NEW t \in AnswerTx, t.trusted, store' = Answered(t)
  PROVE  /\ store' \in Store
         /\ store'.devices = store.devices /\ store'.lapsed = store.lapsed /\ store'.admins = store.admins
         /\ store'.tokens = store.tokens /\ store'.opens = store.opens /\ store'.opened = store.opened
         /\ store'.legacy = store.legacy
         /\ \A d \in Devices :
              store'.answers[d] = IF d = t.id THEN Saved(t, store.answers[d]) ELSE store.answers[d]
<1>1. store \in Store /\ t.id \in Devices /\ store.answers \in [Devices -> Reply \cup {Null}]
  BY DEF IdentityInv, Typed, Store, AnswerTx
<1>2. PICK reply : reply = Saved(t, store.answers[t.id])
  OBVIOUS
<1>3. PICK answers : answers = [store.answers EXCEPT ![t.id] = reply]
  OBVIOUS
<1>4. store' = [store EXCEPT !.answers = answers]
  BY <1>2, <1>3 DEF Answered
<1>5. reply \in Reply
  BY <1>1, <1>2, SavedIs
<1>6. answers \in [Devices -> Reply \cup {Null}]
  BY <1>1, <1>3, <1>5
<1>7. /\ store' \in Store /\ store'.answers = answers
      /\ store'.devices = store.devices /\ store'.lapsed = store.lapsed /\ store'.admins = store.admins
      /\ store'.tokens = store.tokens /\ store'.opens = store.opens /\ store'.opened = store.opened
      /\ store'.legacy = store.legacy
  BY <1>1, <1>4, <1>6 DEF Store
<1> QED
  BY <1>1, <1>2, <1>3, <1>7

LEMMA AnswerCommits ==
  ASSUME IdentityInv, NEW r \in Requests, NEW t, t = tx[r], Commit(r), t.op = "answer", t.trusted
  PROVE  IdentityInv'
<1>1. /\ t # Null /\ t \in Tx /\ Sound(t) /\ Staged(t) /\ Settled(t) /\ t.pc = "written"
      /\ used' \in Used /\ used'.devices = used.devices /\ used'.visits = used.visits
      /\ Overtaken(t) \subseteq Guests \cup {Null} => past' \in Past
      /\ past'.overtaken = Overtaken(t)
      /\ past'.chose = (IF t.rsvp # Null THEN past.chose \cup {t.who} ELSE past.chose) \cap Known'
      /\ past'.forkedLate = IF t.late THEN past.forkedLate \cup {t.who} ELSE past.forkedLate
      /\ past'.displaced = past.displaced \cup ({o.by : o \in t.moved} \ {t.who})
                             \cup (IF t.borrowed THEN {t.who} ELSE {})
  BY CommitParts
<1>2. t \in AnswerTx /\ store' = Answered(t)
  BY <1>1, Kinds DEF Commit
<1>3. /\ store' \in Store
      /\ store'.devices = store.devices /\ store'.lapsed = store.lapsed /\ store'.admins = store.admins
      /\ store'.tokens = store.tokens /\ store'.opens = store.opens /\ store'.opened = store.opened
      /\ store'.legacy = store.legacy
      /\ \A d \in Devices :
           store'.answers[d] = IF d = t.id THEN Saved(t, store.answers[d]) ELSE store.answers[d]
  BY <1>2, AnswerStores
<1>4. PICK m : m = Touches(t)
  OBVIOUS
<1>5. m \in SUBSET (Guests \cup {Null}) /\ past' \in Past
  BY <1>1, <1>4, MissedGuests DEF IdentityInv
<1>6. /\ Known' = Known /\ past'.overtaken = past.overtaken
      /\ past.forkedLate \subseteq past'.forkedLate /\ Excused \subseteq Excused'
      /\ t.borrowed => t.who \in Excused'
  BY <1>1, <1>3 DEF Known, Overtaken, Excused
<1>7. t.id \in store.devices /\ t.id \in Devices /\ Claimed(t) = {t.id} /\ t.who \in Tokens
  <2>1. DevicesShared(t) = {t.id}
    BY <1>1, <1>2, AnswerFoot
  <2> QED
    BY <1>1, <1>2, <2>1, AnswerFoot DEF Settled, Holds, AnswerTx
<1>8. /\ store'.answers[t.id] # Null /\ store'.answers[t.id].by = t.who
      /\ t.rsvp # Null => store'.answers[t.id].rsvp # Null
      /\ store.answers[t.id] # Null /\ store.answers[t.id].rsvp # Null => store'.answers[t.id].rsvp # Null
  <2>1. store.answers[t.id] \in Reply \cup {Null}
    BY <1>7 DEF IdentityInv, Typed, Store
  <2> QED
    BY <1>2, <1>3, <1>7, <2>1, SavedIs
<1>9. \A k \in Known : store.tokens[k].id \in Devices /\ store.tokens[k].id \in store.devices
  BY DEF IdentityInv, Typed, Store, TablesSound, Referring
<1>10. \A k \in Known : store.tokens[k].trusted /\ store.tokens[k].id = t.id => k = t.who
  BY <1>1, <1>7 DEF Settled, ClaimRight
<1>11. TablesSound'
  <2>1. Referring'
    BY <1>1, <1>3, <1>6, <1>7 DEF IdentityInv, TablesSound, Referring
  <2>2. OpenedCounts'
    BY <1>3, <1>6 DEF IdentityInv, TablesSound, OpenedCounts
  <2>3. ProfileIsOnesOwn'
    BY <1>3, <1>6, <1>8, <1>9, <1>10 DEF IdentityInv, TablesSound, ProfileIsOnesOwn
  <2>4. Listed'
    <3>1. ASSUME NEW k \in Known \ Excused', store.tokens[k].trusted, store'.answers[store.tokens[k].id] # Null
          PROVE  OwnVisit(store.opens, k, store.tokens[k].id, 0)
      <4>1. CASE store.tokens[k].id = t.id
        <5>1. k = t.who /\ ~t.borrowed /\ t.who \notin Excused
          BY <1>6, <1>10, <3>1, <4>1
        <5> QED
          BY <1>1, <1>7, <4>1, <5>1 DEF Settled, VisitStays
      <4>2. CASE store.tokens[k].id # t.id
        BY <1>3, <1>6, <1>9, <3>1, <4>2 DEF IdentityInv, TablesSound, Listed
      <4> QED
        BY <4>1, <4>2
    <3> QED
      BY <1>3, <1>6, <3>1 DEF Listed
  <2>5. Chosen'
    <3>1. ASSUME NEW k \in past'.chose \ past'.forkedLate
          PROVE  store.tokens[k].trusted /\ store'.answers[store.tokens[k].id] # Null
                   /\ store'.answers[store.tokens[k].id].rsvp # Null
      <4>1. k \in Known /\ k \notin past.forkedLate
        BY <1>1, <1>6, <3>1
      <4>2. CASE k \in past.chose
        <5>1. /\ store.tokens[k].trusted /\ store.answers[store.tokens[k].id] # Null
              /\ store.answers[store.tokens[k].id].rsvp # Null
          BY <4>1, <4>2 DEF IdentityInv, TablesSound, Chosen
        <5> QED
          BY <1>3, <1>8, <1>9, <4>1, <5>1
      <4>3. CASE k = t.who /\ t.rsvp # Null
        <5>1. store.tokens[k].trusted /\ store.tokens[k].id = t.id
          BY <1>1, <1>7, <4>1, <4>3 DEF Settled, TrustStays
        <5> QED
          BY <1>8, <4>3, <5>1
      <4> QED
        BY <1>1, <3>1, <4>2, <4>3
    <3> QED
      BY <1>1, <1>3, <3>1 DEF Chosen
  <2> QED
    BY <2>1, <2>2, <2>3, <2>4, <2>5 DEF TablesSound
<1>12. ASSUME NEW o \in Tx, Sound(o), Apart(t, o), Apart(o, t) PROVE Settled(o)'
  <2>1. Settled(o)
    BY <1>12 DEF Sound
  <2>2. Placed(o)' /\ (Holds(o) \subseteq store.devices)' /\ SumsRight(o)' /\ Stamped(o)'
    BY <1>1, <1>3, <1>6, <2>1 DEF Settled, Placed, Holds, SumsRight, Stamped
  <2>3. ClaimRight(o)'
    <3>1. t.id \in Claimed(o) => o.who = t.who
      BY <1>7, <1>12 DEF Apart
    <3>2. Claimed(o) \subseteq Devices
      <4>1. o.op \in {"visit", "answer"} /\ o.trusted => o.id \in Devices
        BY <1>12, Kinds DEF VisitTx, AnswerTx
      <4>2. Minted(o) \subseteq Devices
        BY <1>12, Kinds DEF Minted, VisitTx, Sound, Staged
      <4> QED
        BY <4>1, <4>2 DEF Claimed
    <3>3. \A d \in Claimed(o) : store'.answers[d] # Null => store'.answers[d].by = o.who
      BY <1>3, <1>8, <2>1, <3>1, <3>2 DEF Settled, ClaimRight
    <3> QED
      BY <1>3, <1>6, <2>1, <3>3 DEF Settled, ClaimRight
  <2>4. TrustStays(o)'
    BY <1>3, <1>6, <2>1 DEF Settled, TrustStays
  <2>5. ForkRight(o)'
    BY <1>3, <2>1 DEF Settled, ForkRight
  <2>6. VisitStays(o)'
    BY <1>3, <1>6, <2>1 DEF Settled, VisitStays
  <2> QED
    BY <2>2, <2>3, <2>4, <2>5, <2>6 DEF Settled
<1>13. tx' = Ended(r, t, m)
  BY <1>4, CommitParts
<1> QED
  BY <1>1, <1>3, <1>5, <1>11, <1>12, <1>13, CommitKeeps

-----------------------------------------------------------------------------
(* The end of a save that forks its device.                                  *)

LEMMA ForkStores ==
  ASSUME IdentityInv, NEW t \in AnswerTx, ~t.trusted, t.fork \in Devices, store' = Answered(t)
  PROVE  /\ store' \in Store
         /\ store'.devices = store.devices \cup {t.fork} /\ store'.lapsed \subseteq store.lapsed \cup {t.fork}
         /\ store'.admins = store.admins /\ store'.opened = store.opened /\ store'.legacy = store.legacy
         /\ \A k \in Tokens :
              store'.tokens[k] = IF k = t.who /\ t.from # Null
                                 THEN [id |-> t.fork, trusted |-> TRUE, since |-> t.from.since] ELSE store.tokens[k]
         /\ \A v : v \in store'.opens <=> \/ v \in store.opens /\ v \notin t.moved
                                          \/ \E o \in t.moved : v = [o EXCEPT !.id = t.fork]
         /\ \A d \in Devices : store'.answers[d] = IF d = t.fork THEN Saved(t, Null) ELSE store.answers[d]
<1>1. /\ store \in Store /\ t.who \in Tokens /\ t.from \in Row \cup {Null} /\ t.moved \subseteq Opening
      /\ store.devices \subseteq Devices /\ store.lapsed \subseteq Devices /\ store.opens \subseteq Opening
      /\ store.tokens \in [Tokens -> Row \cup {Null}] /\ store.answers \in [Devices -> Reply \cup {Null}]
  BY DEF IdentityInv, Typed, Store, AnswerTx
<1>2. PICK lapsed : lapsed = store.lapsed \cup IF t.stale \/ t.id \in store.lapsed \/ store.over THEN {t.fork} ELSE {}
  OBVIOUS
<1>3. PICK kept :
        kept = [store.tokens EXCEPT ![t.who] =
                    IF t.from # Null THEN [id |-> t.fork, trusted |-> TRUE, since |-> t.from.since] ELSE @]
  OBVIOUS
<1>4. PICK opens : opens = (store.opens \ t.moved) \cup {[o EXCEPT !.id = t.fork] : o \in t.moved}
  OBVIOUS
<1>5. PICK answers : answers = [store.answers EXCEPT ![t.fork] = Saved(t, Null)]
  OBVIOUS
<1>6. store' = [store EXCEPT !.devices = store.devices \cup {t.fork}, !.lapsed = lapsed, !.tokens = kept,
                             !.opens = opens, !.answers = answers]
  BY <1>2, <1>3, <1>4, <1>5 DEF Answered
<1>7. lapsed \subseteq Devices /\ lapsed \subseteq store.lapsed \cup {t.fork}
  BY <1>1, <1>2
<1>8. kept \in [Tokens -> Row \cup {Null}]
  <2>1. t.from # Null => [id |-> t.fork, trusted |-> TRUE, since |-> t.from.since] \in Row
    BY <1>1 DEF Row
  <2> QED
    BY <1>1, <1>3, <2>1
<1>9. opens \subseteq Opening
  <2>1. \A o \in t.moved : [o EXCEPT !.id = t.fork] \in Opening
    BY <1>1 DEF Opening
  <2> QED
    BY <1>1, <1>4, <2>1
<1>10. answers \in [Devices -> Reply \cup {Null}]
  BY <1>1, <1>5, SavedIs
<1>11. store.devices \cup {t.fork} \subseteq Devices
  BY <1>1
<1>12. /\ store' \in Store /\ store'.devices = store.devices \cup {t.fork} /\ store'.lapsed = lapsed
       /\ store'.tokens = kept /\ store'.opens = opens /\ store'.answers = answers
       /\ store'.admins = store.admins /\ store'.opened = store.opened /\ store'.legacy = store.legacy
  <2>1. store \in Store /\ lapsed \subseteq Devices
    BY <1>1, <1>7
  <2>2. PICK known : known = store.devices \cup {t.fork}
    OBVIOUS
  <2>3. store' = [store EXCEPT !.devices = known, !.lapsed = lapsed, !.tokens = kept,
                               !.opens = opens, !.answers = answers]
    BY <1>6, <2>2
  <2>4. known \subseteq Devices
    BY <1>11, <2>2
  <2>5. store' \in Store
    <3>1. PICK held : held = [Tokens -> Row \cup {Null}]
      OBVIOUS
    <3>2. PICK replies : replies = [Devices -> Reply \cup {Null}]
      OBVIOUS
    <3>3. PICK of : of = SUBSET Devices
      OBVIOUS
    <3>4. Store = [devices : of, lapsed : of, admins : of, tokens : held, opens : SUBSET Opening, answers : replies,
                   opened : SUBSET Guests, legacy : SUBSET Guests, rolling : BOOLEAN, over : BOOLEAN]
      BY <3>1, <3>2, <3>3 DEF Store
    <3>5. known \in of /\ lapsed \in of /\ kept \in held /\ answers \in replies /\ opens \in SUBSET Opening
      BY <3>1, <3>2, <3>3, <2>1, <2>4, <1>8, <1>9, <1>10
    <3> QED
      BY <3>4, <3>5, <2>1, <2>3
  <2>6. /\ store'.devices = known /\ store'.lapsed = lapsed
        /\ store'.tokens = kept /\ store'.opens = opens /\ store'.answers = answers
    BY <2>1, <2>3 DEF Store
  <2>7. /\ store'.admins = store.admins /\ store'.opened = store.opened /\ store'.legacy = store.legacy
    BY <2>1, <2>3 DEF Store
  <2> QED
    BY <2>2, <2>5, <2>6, <2>7
<1>13. \A v : v \in opens <=> \/ v \in store.opens /\ v \notin t.moved
                              \/ \E o \in t.moved : v = [o EXCEPT !.id = t.fork]
  BY <1>4
<1>14. \A k \in Tokens :
         kept[k] = IF k = t.who /\ t.from # Null
                     THEN [id |-> t.fork, trusted |-> TRUE, since |-> t.from.since] ELSE store.tokens[k]
  BY <1>1, <1>3
<1>15. \A d \in Devices : answers[d] = IF d = t.fork THEN Saved(t, Null) ELSE store.answers[d]
  BY <1>1, <1>5
<1> QED
  BY <1>7, <1>12, <1>13, <1>14, <1>15

(* What a fork does, in the terms of the invariant: everything it writes is of  *)
(* its browser or at its own device, which nobody else knows of.              *)
LEMMA ForkSteps ==
  ASSUME IdentityInv, NEW r \in Requests, NEW t, t = tx[r], Commit(r), t.op = "answer", ~t.trusted
  PROVE  /\ store' \in Store /\ past' \in Past /\ t \in AnswerTx /\ Settled(t)
         /\ t.fork \in Devices /\ t.fork \notin store.devices /\ t.fork \in 1 .. used.devices
         /\ Minted(t) = {t.fork} /\ Claimed(t) = {t.fork}
         /\ store'.devices = store.devices \cup {t.fork} /\ store'.lapsed \subseteq store'.devices
         /\ store'.admins = store.admins /\ store'.opened = store.opened /\ store'.legacy = store.legacy
         /\ Known' = Known /\ t.who \in Tokens
         /\ \A k \in Known \ {t.who} : store'.tokens[k] = store.tokens[k]
         /\ \A k \in Tokens \ Known : store'.tokens[k] = Null
         /\ t.who \in Known =>
              \/ t.late /\ store'.tokens[t.who] = store.tokens[t.who]
              \/ /\ store'.tokens[t.who].id = t.fork /\ store'.tokens[t.who].trusted
                 /\ store'.tokens[t.who].since = store.tokens[t.who].since
         /\ t.late \/ (t.who \in Known /\ store.tokens[t.who] = Seen(t) /\ store'.tokens[t.who].id = t.fork)
         /\ t.late => t.who \in past'.forkedLate
         /\ \A o \in store.opens : o \notin t.moved => o \in store'.opens
         /\ \A o \in t.moved : o.guest = Null /\ (o.by # t.who => o.by \in past'.displaced)
         /\ \A v \in store'.opens : v \in store.opens \/ (v.guest = Null /\ v.id = t.fork)
         /\ \A o \in t.moved : \E v \in store'.opens :
              v.id = t.fork /\ v.by = o.by /\ v.guest = Null /\ v.at = o.at /\ v.at \in Nat
         /\ \A d \in Devices \ {t.fork} : store'.answers[d] = store.answers[d]
         /\ store'.answers[t.fork] # Null /\ store'.answers[t.fork].by = t.who
         /\ t.rsvp # Null => store'.answers[t.fork].rsvp # Null
<1>1. /\ t # Null /\ t \in Tx /\ Staged(t) /\ Settled(t) /\ t.pc = "written"
      /\ Overtaken(t) \subseteq Guests \cup {Null} => past' \in Past
      /\ past'.forkedLate = IF t.late THEN past.forkedLate \cup {t.who} ELSE past.forkedLate
      /\ past'.displaced = past.displaced \cup ({o.by : o \in t.moved} \ {t.who})
                             \cup (IF t.borrowed THEN {t.who} ELSE {})
  BY CommitParts
<1>2. t \in AnswerTx /\ store' = Answered(t) /\ t.fork \in Devices /\ t.who \in Tokens
  BY <1>1, Kinds DEF Commit, Staged, AnswerTx
<1>3. past' \in Past
  BY <1>1, MissedGuests DEF IdentityInv
<1>4. Minted(t) = {t.fork} /\ Claimed(t) = {t.fork}
  BY <1>1, <1>2, AnswerFoot
<1>5. t.fork \notin store.devices /\ t.fork \in 1 .. used.devices
  BY <1>1, <1>4 DEF Settled, Placed
<1>6. /\ t.from # Null => store.tokens[t.who] = t.from
      /\ t.late <=> t.from # Seen(t)
      /\ \A o \in t.moved : o \in store.opens /\ o.guest = Null /\ o.id = t.id
  BY <1>1 DEF Settled, ForkRight, Forking
<1>7. /\ store' \in Store
      /\ store'.devices = store.devices \cup {t.fork} /\ store'.lapsed \subseteq store.lapsed \cup {t.fork}
      /\ store'.admins = store.admins /\ store'.opened = store.opened /\ store'.legacy = store.legacy
      /\ \A k \in Tokens :
           store'.tokens[k] = IF k = t.who /\ t.from # Null
                              THEN [id |-> t.fork, trusted |-> TRUE, since |-> t.from.since] ELSE store.tokens[k]
      /\ \A v : v \in store'.opens <=> \/ v \in store.opens /\ v \notin t.moved
                                       \/ \E o \in t.moved : v = [o EXCEPT !.id = t.fork]
      /\ \A d \in Devices : store'.answers[d] = IF d = t.fork THEN Saved(t, Null) ELSE store.answers[d]
  BY <1>2, ForkStores
<1>8. store'.lapsed \subseteq store'.devices
  BY <1>7 DEF IdentityInv, TablesSound, Referring
<1>9. PICK row : row = [id |-> t.fork, trusted |-> TRUE, since |-> t.from.since]
  OBVIOUS
<1>10. row.id = t.fork /\ row.trusted /\ row.since = t.from.since
  BY <1>9
<1>11. t.from # Null => row # Null
  <2>1. t.from # Null => t.from.since \in 1 .. MaxVisits
    BY <1>2 DEF AnswerTx, Row
  <2>2. t.from # Null => row \in Row
    BY <1>2, <1>9, <2>1 DEF Row
  <2> QED
    BY <2>2, IdentityConstants
<1>12. \A k \in Tokens : store'.tokens[k] = IF k = t.who /\ t.from # Null THEN row ELSE store.tokens[k]
  BY <1>7, <1>9
<1>13. /\ Known' = Known
       /\ \A k \in Known \ {t.who} : store'.tokens[k] = store.tokens[k]
       /\ \A k \in Tokens \ Known : store'.tokens[k] = Null
  BY <1>2, <1>6, <1>11, <1>12 DEF Known
<1>14. /\ t.who \in Known =>
            \/ t.late /\ store'.tokens[t.who] = store.tokens[t.who]
            \/ /\ store'.tokens[t.who].id = t.fork /\ store'.tokens[t.who].trusted
               /\ store'.tokens[t.who].since = store.tokens[t.who].since
       /\ t.late \/ (t.who \in Known /\ store.tokens[t.who] = Seen(t) /\ store'.tokens[t.who].id = t.fork)
  <2>1. CASE t.from = Null
    <3>1. Seen(t) \in Row
      BY <1>2 DEF Seen, Row, AnswerTx
    <3>2. t.late
      BY <1>6, <2>1, <3>1, IdentityConstants
    <3> QED
      BY <1>2, <1>12, <2>1, <3>2
  <2>2. CASE t.from # Null
    <3>1. t.who \in Known /\ store'.tokens[t.who] = row /\ store.tokens[t.who] = t.from
      BY <1>2, <1>6, <1>12, <2>2 DEF Known
    <3> QED
      BY <1>6, <1>10, <3>1
  <2> QED
    BY <2>1, <2>2
<1>15. \A v \in store'.opens : v \in store.opens \/ (v.guest = Null /\ v.id = t.fork)
  <2>1. TAKE v \in store'.opens
  <2>2. v \in store.opens \/ \E o \in t.moved : v = [o EXCEPT !.id = t.fork]
    BY <1>7
  <2>3. ASSUME NEW o \in t.moved, v = [o EXCEPT !.id = t.fork]
        PROVE  v.guest = Null /\ v.id = t.fork
    <3>1. o \in Opening
      BY <1>2 DEF AnswerTx
    <3>2. v.guest = o.guest /\ v.id = t.fork
      BY <2>3, <3>1 DEF Opening
    <3> QED
      BY <1>6, <3>2
  <2> QED
    BY <2>2, <2>3
<1>16. ASSUME NEW o \in t.moved
       PROVE  \E v \in store'.opens : v.id = t.fork /\ v.by = o.by /\ v.guest = Null /\ v.at = o.at /\ v.at \in Nat
  <2>1. PICK v : v = [o EXCEPT !.id = t.fork]
    OBVIOUS
  <2>2. o \in Opening
    BY <1>2 DEF AnswerTx
  <2>3. v.id = t.fork /\ v.by = o.by /\ v.guest = o.guest /\ v.at = o.at /\ v.at \in Nat
    BY <2>1, <2>2, IdentityConstants DEF Opening
  <2>4. v \in store'.opens
    BY <1>7, <2>1
  <2> QED
    BY <1>6, <2>3, <2>4
<1>17. /\ \A d \in Devices \ {t.fork} : store'.answers[d] = store.answers[d]
       /\ store'.answers[t.fork] # Null /\ store'.answers[t.fork].by = t.who
       /\ t.rsvp # Null => store'.answers[t.fork].rsvp # Null
  BY <1>2, <1>7, SavedIs
<1>18. \A o \in t.moved : o.guest = Null /\ (o.by # t.who => o.by \in past'.displaced)
  BY <1>1, <1>6
<1> QED
  BY <1>1, <1>2, <1>3, <1>4, <1>5, <1>7, <1>8, <1>13, <1>14, <1>15, <1>16, <1>17, <1>18

LEMMA ForkTables ==
  ASSUME IdentityInv, NEW r \in Requests, NEW t, t = tx[r], Commit(r), t.op = "answer", ~t.trusted
  PROVE  TablesSound'
<1>1. /\ t.pc = "written" /\ Settled(t) /\ used'.devices = used.devices /\ used'.visits = used.visits
      /\ past'.overtaken = Overtaken(t)
      /\ past'.chose = (IF t.rsvp # Null THEN past.chose \cup {t.who} ELSE past.chose) \cap Known'
      /\ past'.forkedLate = IF t.late THEN past.forkedLate \cup {t.who} ELSE past.forkedLate
      /\ past'.displaced = past.displaced \cup ({o.by : o \in t.moved} \ {t.who})
                             \cup (IF t.borrowed THEN {t.who} ELSE {})
  BY CommitParts
<1>2. /\ t.fork \in Devices /\ t.fork \notin store.devices /\ t.fork \in 1 .. used.devices
      /\ store'.devices = store.devices \cup {t.fork} /\ store'.lapsed \subseteq store'.devices
      /\ store'.admins = store.admins /\ store'.opened = store.opened /\ store'.legacy = store.legacy
      /\ Known' = Known
      /\ \A k \in Known \ {t.who} : store'.tokens[k] = store.tokens[k]
  BY ForkSteps
<1>3. /\ t.who \in Known =>
           \/ t.late /\ store'.tokens[t.who] = store.tokens[t.who]
           \/ /\ store'.tokens[t.who].id = t.fork /\ store'.tokens[t.who].trusted
              /\ store'.tokens[t.who].since = store.tokens[t.who].since
      /\ t.late \/ (t.who \in Known /\ store.tokens[t.who] = Seen(t) /\ store'.tokens[t.who].id = t.fork)
      /\ t.late => t.who \in past'.forkedLate
  BY ForkSteps
<1>4. /\ \A o \in store.opens : o \notin t.moved => o \in store'.opens
      /\ \A o \in t.moved : o.guest = Null /\ (o.by # t.who => o.by \in past'.displaced)
      /\ \A v \in store'.opens : v \in store.opens \/ (v.guest = Null /\ v.id = t.fork)
      /\ \A o \in t.moved : \E v \in store'.opens :
           v.id = t.fork /\ v.by = o.by /\ v.guest = Null /\ v.at = o.at /\ v.at \in Nat
  BY ForkSteps
<1>5. /\ \A d \in Devices \ {t.fork} : store'.answers[d] = store.answers[d]
      /\ store'.answers[t.fork] # Null /\ store'.answers[t.fork].by = t.who
      /\ t.rsvp # Null => store'.answers[t.fork].rsvp # Null
  BY ForkSteps
<1>6. \A k \in Known : store.tokens[k].id \in store.devices \ {t.fork} /\ store.tokens[k].id \in Devices
  BY <1>2 DEF IdentityInv, Typed, Store, TablesSound, Referring
<1>7. Excused \subseteq Excused' /\ past.forkedLate \subseteq past'.forkedLate
  BY <1>1 DEF Excused
<1>8. Referring'
  <2>1. \A k \in Known : store'.tokens[k].id \in store'.devices /\ store'.tokens[k].since <= used.visits
    BY <1>2, <1>3, <1>6 DEF IdentityInv, TablesSound, Referring
  <2>2. \A v \in store'.opens : v.id \in store'.devices
    BY <1>2, <1>4 DEF IdentityInv, TablesSound, Referring
  <2>3. \A d \in Devices : store'.answers[d] # Null => d \in store'.devices
    BY <1>2, <1>5 DEF IdentityInv, TablesSound, Referring
  <2> QED
    BY <1>1, <1>2, <2>1, <2>2, <2>3 DEF IdentityInv, TablesSound, Referring
<1>9. OpenedCounts'
  <2>1. past'.overtaken = past.overtaken
    BY <1>1 DEF Overtaken
  <2>2. OpenedBy(store'.opens, store'.admins) = OpenedBy(store.opens, store.admins)
    BY <1>2, <1>4 DEF OpenedBy
  <2> QED
    BY <1>2, <2>1, <2>2 DEF IdentityInv, TablesSound, OpenedCounts
<1>10. ProfileIsOnesOwn'
  <2>1. ASSUME NEW k \in Known, NEW l \in Known \ {k}, store'.tokens[k].trusted, store'.tokens[l].trusted
        PROVE  store'.tokens[l].id # store'.tokens[k].id
    <3>1. CASE k = t.who /\ store'.tokens[k].id = t.fork
      BY <1>2, <1>6, <2>1, <3>1
    <3>2. CASE l = t.who /\ store'.tokens[l].id = t.fork
      BY <1>2, <1>6, <2>1, <3>2
    <3>3. CASE store'.tokens[k] = store.tokens[k] /\ store'.tokens[l] = store.tokens[l]
      BY <2>1, <3>3 DEF IdentityInv, TablesSound, ProfileIsOnesOwn
    <3> QED
      BY <1>2, <1>3, <2>1, <3>1, <3>2, <3>3
  <2>2. ASSUME NEW k \in Known, store'.tokens[k].trusted, store'.answers[store'.tokens[k].id] # Null
        PROVE  store'.answers[store'.tokens[k].id].by = k
    <3>1. CASE k = t.who /\ store'.tokens[k].id = t.fork
      BY <1>5, <3>1
    <3>2. CASE store'.tokens[k] = store.tokens[k]
      BY <1>5, <1>6, <2>2, <3>2 DEF IdentityInv, TablesSound, ProfileIsOnesOwn
    <3> QED
      BY <1>2, <1>3, <2>2, <3>1, <3>2
  <2> QED
    BY <1>2, <2>1, <2>2 DEF ProfileIsOnesOwn
<1>11. Listed'
  <2>1. ASSUME NEW k \in Known \ Excused', store'.tokens[k].trusted, store'.answers[store'.tokens[k].id] # Null
        PROVE  OwnVisit(store'.opens, k, store'.tokens[k].id, 0)
    <3>1. CASE k = t.who
      <4>1. ~t.late /\ ~t.borrowed /\ t.who \notin Excused
        BY <1>1, <1>3, <1>7, <2>1, <3>1 DEF Excused
      <4>2. OwnVisit(t.moved, t.who, t.id, t.since)
        BY <1>1, <4>1 DEF Settled, VisitStays
      <4>3. store'.tokens[k].id = t.fork
        BY <1>3, <3>1, <4>1
      <4>4. PICK o \in t.moved : o.by = t.who
        BY <4>2 DEF OwnVisit
      <4>5. PICK v \in store'.opens : v.id = t.fork /\ v.by = t.who /\ v.guest = Null /\ v.at \in Nat
        BY <1>4, <4>4
      <4> QED
        BY <3>1, <4>3, <4>5 DEF OwnVisit
    <3>2. CASE k # t.who
      <4>1. store'.tokens[k] = store.tokens[k] /\ store.answers[store.tokens[k].id] # Null
        BY <1>2, <1>5, <1>6, <2>1, <3>2
      <4>2. OwnVisit(store.opens, k, store.tokens[k].id, 0)
        BY <1>7, <2>1, <4>1 DEF IdentityInv, TablesSound, Listed
      <4> QED
        BY <1>4, <2>1, <3>2, <4>1, <4>2 DEF OwnVisit, Excused
    <3> QED
      BY <3>1, <3>2
  <2> QED
    BY <1>2, <2>1 DEF Listed
<1>12. Chosen'
  <2>1. ASSUME NEW k \in past'.chose \ past'.forkedLate
        PROVE  store'.tokens[k].trusted /\ store'.answers[store'.tokens[k].id] # Null
                 /\ store'.answers[store'.tokens[k].id].rsvp # Null
    <3>1. k \in Known /\ k \notin past.forkedLate
      BY <1>1, <1>2, <1>7, <2>1
    <3>2. k \in past.chose => /\ store.tokens[k].trusted /\ store.answers[store.tokens[k].id] # Null
                              /\ store.answers[store.tokens[k].id].rsvp # Null
      BY <3>1 DEF IdentityInv, TablesSound, Chosen
    <3>3. CASE k = t.who
      <4>1. ~t.late /\ store.tokens[k] = Seen(t)
        BY <1>3, <2>1, <3>3
      <4>2. ~store.tokens[k].trusted
        BY <4>1 DEF Seen
      <4>3. t.rsvp # Null
        BY <1>1, <2>1, <3>2, <4>2
      <4> QED
        BY <1>3, <1>5, <3>1, <3>3, <4>1, <4>3
    <3>4. CASE k # t.who
      BY <1>1, <1>2, <1>5, <1>6, <2>1, <3>1, <3>2, <3>4
    <3> QED
      BY <3>3, <3>4
  <2> QED
    BY <1>1, <2>1 DEF Chosen
<1> QED
  BY <1>8, <1>9, <1>10, <1>11, <1>12 DEF TablesSound

LEMMA ForkSettles ==
  ASSUME IdentityInv, NEW r \in Requests, NEW t, t = tx[r], Commit(r), t.op = "answer", ~t.trusted,
         NEW o \in Tx, Sound(o), Apart(t, o), Apart(o, t)
  PROVE  Settled(o)'
<1>1. /\ t.pc = "written" /\ Settled(t) /\ used'.devices = used.devices /\ used'.visits = used.visits
      /\ past'.forkedLate = IF t.late THEN past.forkedLate \cup {t.who} ELSE past.forkedLate
      /\ past'.displaced = past.displaced \cup ({v.by : v \in t.moved} \ {t.who})
                             \cup (IF t.borrowed THEN {t.who} ELSE {})
  BY CommitParts
<1>2. /\ t.fork \in Devices /\ t.fork \notin store.devices /\ Minted(t) = {t.fork} /\ Claimed(t) = {t.fork}
      /\ store'.devices = store.devices \cup {t.fork} /\ store'.admins = store.admins
      /\ Known' = Known /\ t.who \in Tokens
      /\ \A k \in Known \ {t.who} : store'.tokens[k] = store.tokens[k]
      /\ \A k \in Tokens \ Known : store'.tokens[k] = Null
  BY ForkSteps
<1>3. /\ t.who \in Known =>
           \/ t.late /\ store'.tokens[t.who] = store.tokens[t.who]
           \/ /\ store'.tokens[t.who].id = t.fork /\ store'.tokens[t.who].trusted
              /\ store'.tokens[t.who].since = store.tokens[t.who].since
      /\ t.late \/ (t.who \in Known /\ store.tokens[t.who] = Seen(t) /\ store'.tokens[t.who].id = t.fork)
      /\ t.late => t.who \in past'.forkedLate
  BY ForkSteps
<1>4. /\ \A v \in store.opens : v \notin t.moved => v \in store'.opens
      /\ \A v \in t.moved : v.guest = Null /\ (v.by # t.who => v.by \in past'.displaced)
  BY ForkSteps
<1>5. /\ \A d \in Devices \ {t.fork} : store'.answers[d] = store.answers[d]
      /\ store'.answers[t.fork] # Null /\ store'.answers[t.fork].by = t.who
  BY ForkSteps
<1>6. /\ Settled(o) /\ Excused \subseteq Excused' /\ past.forkedLate \subseteq past'.forkedLate
      /\ (Minted(o) \cup Named(o)) \cap {t.fork} = {}
      /\ t.fork \in Claimed(o) => o.who = t.who
  BY <1>1, <1>2 DEF Sound, Apart, Excused
<1>7. o.op \in {"visit", "answer"} => o.who \in Tokens
  BY Kinds DEF VisitTx, AnswerTx
<1>8. Placed(o)' /\ (Holds(o) \subseteq store.devices)'
  BY <1>1, <1>2, <1>6 DEF Settled, Placed, Holds
<1>9. SumsRight(o)'
  BY <1>2, <1>4, <1>6 DEF Settled, SumsRight
<1>10. ClaimRight(o)'
  <2>1. Claimed(o) \subseteq Devices /\ t.fork \notin Claimed(o)
    <3>1. o.op \in {"visit", "answer"} /\ o.trusted => o.id \in Devices
      BY Kinds DEF VisitTx, AnswerTx
    <3>2. Minted(o) \subseteq Devices
      BY Kinds DEF Minted, VisitTx, Sound, Staged
    <3> QED
      BY <1>6, <3>1, <3>2, ClaimsKnown DEF Claimed
  <2>2. \A k \in Known : store'.tokens[k].id \in Claimed(o) => store'.tokens[k] = store.tokens[k]
    BY <1>2, <1>3, <2>1
  <2> QED
    BY <1>2, <1>5, <1>6, <2>1, <2>2 DEF Settled, ClaimRight
<1>11. TrustStays(o)'
  <2>1. SUFFICES ASSUME o.op \in {"visit", "answer"}, o.trusted, o.id \in store'.devices, o.who \notin past'.forkedLate
                 PROVE  o.who \in Known' /\ store'.tokens[o.who].trusted /\ store'.tokens[o.who].id = o.id
    BY DEF TrustStays
  <2>2. o.id \in Minted(o) \/ o.id \in Named(o)
    BY <2>1, Kinds, VisitFoot, AnswerFoot DEF VisitTx
  <2>3. o.who \in Known /\ store.tokens[o.who].trusted /\ store.tokens[o.who].id = o.id
    BY <1>2, <1>6, <2>1, <2>2 DEF Settled, TrustStays
  <2>4. o.who # t.who
    <3>1. SUFFICES ASSUME o.who = t.who PROVE FALSE
      OBVIOUS
    <3>2. ~t.late /\ store.tokens[t.who] = Seen(t)
      BY <1>3, <2>1, <3>1
    <3> QED
      BY <2>3, <3>1, <3>2 DEF Seen
  <2> QED
    BY <1>2, <2>3, <2>4
<1>12. Stamped(o)'
  <2>1. \A k \in Known : store'.tokens[k].since = store.tokens[k].since
    BY <1>2, <1>3
  <2> QED
    BY <1>1, <1>2, <1>6, <2>1 DEF Settled, Stamped
<1>13. ForkRight(o)'
  <2>1. SUFFICES ASSUME Forking(o) PROVE ForkRight(o)'
    BY DEF ForkRight
  <2>2. o.who # t.who /\ o.moved \cap t.moved = {} /\ o.who \in Tokens
    BY <1>1, <1>7, <2>1 DEF Apart, Forking
  <2>3. o.from # Null => store.tokens[o.who] = o.from
    BY <1>6, <2>1 DEF Settled, ForkRight
  <2>4. o.from # Null => o.who \in Known /\ store'.tokens[o.who] = o.from
    BY <1>2, <2>2, <2>3 DEF Known
  <2> QED
    BY <1>4, <1>6, <2>1, <2>2, <2>4 DEF Settled, ForkRight
<1>14. VisitStays(o)'
  <2>1. SUFFICES ASSUME o.op = "answer", o.pc # "begun", ~o.borrowed, o.who \notin Excused' PROVE VisitStays(o)'
    BY DEF VisitStays
  <2>2. o.who \notin Excused /\ o.who \notin past'.displaced /\ o.who \notin past'.forkedLate /\ o.who \in Tokens
    BY <1>6, <1>7, <2>1 DEF Excused
  <2>3. \A d, n : o.who # t.who /\ OwnVisit(store.opens, o.who, d, n) => OwnVisit(store'.opens, o.who, d, n)
    BY <1>4, <2>2 DEF OwnVisit
  <2>4. CASE o.trusted
    <3>1. SUFFICES ASSUME o.id \in store'.devices PROVE OwnVisit(store'.opens, o.who, o.id, 0)
      BY <2>4 DEF VisitStays
    <3>2. o.id \in Named(o)
      BY <2>1, Kinds, AnswerFoot
    <3>3. o.id \in store.devices
      BY <1>2, <1>6, <3>1, <3>2
    <3>4. OwnVisit(store.opens, o.who, o.id, 0)
      BY <1>6, <2>1, <2>2, <2>4, <3>3 DEF Settled, VisitStays
    <3>5. o.who # t.who
      <4>1. SUFFICES ASSUME o.who = t.who PROVE FALSE
        OBVIOUS
      <4>2. ~t.late /\ store.tokens[t.who] = Seen(t)
        BY <1>3, <2>2, <4>1
      <4>3. store.tokens[o.who].trusted
        BY <1>6, <2>1, <2>2, <2>4, <3>3 DEF Settled, TrustStays, Excused
      <4> QED
        BY <4>1, <4>2, <4>3 DEF Seen
    <3> QED
      BY <2>3, <3>4, <3>5
  <2>5. CASE ~o.trusted /\ o.pc = "written"
    BY <1>6, <2>1, <2>2, <2>5 DEF Settled, VisitStays
  <2>6. CASE ~o.trusted /\ o.pc # "written"
    <3>1. store.tokens[o.who] # Seen(o) \/ OwnVisit(store.opens, o.who, o.id, o.since)
      BY <1>6, <2>1, <2>2, <2>6 DEF Settled, VisitStays
    <3>2. SUFFICES ASSUME store'.tokens[o.who] = Seen(o) PROVE OwnVisit(store'.opens, o.who, o.id, o.since)
      BY <2>6 DEF VisitStays
    <3>3. Seen(o) # Null /\ ~Seen(o).trusted
      <4>1. Seen(o) \in Row
        BY <2>1, Kinds DEF Seen, Row, AnswerTx
      <4> QED
        BY <4>1, IdentityConstants DEF Seen
    <3>4. o.who \in Known
      BY <1>2, <2>2, <3>2, <3>3
    <3>5. o.who # t.who
      BY <1>3, <2>2, <3>2, <3>3, <3>4
    <3> QED
      BY <1>2, <2>3, <3>1, <3>2, <3>4, <3>5
  <2> QED
    BY <2>4, <2>5, <2>6
<1> QED
  BY <1>8, <1>9, <1>10, <1>11, <1>12, <1>13, <1>14 DEF Settled

LEMMA ForkCommits ==
  ASSUME IdentityInv, NEW r \in Requests, NEW t, t = tx[r], Commit(r), t.op = "answer", ~t.trusted
  PROVE  IdentityInv'
<1>1. t # Null /\ t \in Tx /\ used' \in Used
  BY CommitParts
<1>2. /\ store' \in Store /\ past' \in Past /\ store'.admins = store.admins
      /\ \A v \in store.opens : v \notin t.moved => v \in store'.opens
      /\ \A v \in t.moved : v.guest = Null
      /\ \A v \in store'.opens : v \in store.opens \/ (v.guest = Null /\ v.id = t.fork)
  BY ForkSteps
<1>3. PICK m : m = Touches(t)
  OBVIOUS
<1>4. m \in SUBSET (Guests \cup {Null}) /\ tx' = Ended(r, t, m)
  BY <1>1, <1>3, MissedGuests, CommitParts DEF IdentityInv
<1>5. TablesSound'
  BY ForkTables
<1>6. \A o \in Tx : Sound(o) /\ Apart(t, o) /\ Apart(o, t) => Settled(o)'
  BY ForkSettles
<1>7. \A g \in Guests, v \in Opening :
        v.guest = g /\ (g \in m => t.op = "answer") =>
          /\ v \in store.opens <=> v \in store'.opens
          /\ v \in store.opens => (v.id \in store.admins <=> v.id \in store'.admins)
  BY <1>2, IdentityConstants
<1> QED
  BY <1>1, <1>2, <1>4, <1>5, <1>6, <1>7, CommitKeeps

-----------------------------------------------------------------------------
(* The ends that delete devices, with all that hangs on them, and change what   *)
(* counts: the couple's requests and the purge.                             *)

\* The tables but for the devices ids, whatever becomes of the counts.
Removing(ids) ==
  /\ store' \in Store /\ store'.devices = store.devices \ ids
  /\ store'.lapsed \subseteq store'.devices /\ store'.admins \subseteq store'.devices
  /\ \A v : v \in store'.opens <=> v \in store.opens /\ v.id \notin ids
  /\ \A k \in Tokens :
       store'.tokens[k] = IF store.tokens[k] # Null /\ store.tokens[k].id \in ids THEN Null ELSE store.tokens[k]
  /\ \A d \in Devices : store'.answers[d] = IF d \in ids THEN Null ELSE store.answers[d]

LEMMA WithoutRemoves ==
  ASSUME IdentityInv, NEW ids, NEW s, s = Without(store, ids)
  PROVE  /\ s \in Store /\ s.devices = store.devices \ ids /\ s.lapsed \subseteq s.devices
         /\ s.admins = store.admins \ ids /\ s.admins \subseteq s.devices
         /\ \A v : v \in s.opens <=> v \in store.opens /\ v.id \notin ids
         /\ \A k \in Tokens :
              s.tokens[k] = IF store.tokens[k] # Null /\ store.tokens[k].id \in ids THEN Null ELSE store.tokens[k]
         /\ \A d \in Devices : s.answers[d] = IF d \in ids THEN Null ELSE store.answers[d]
         /\ s.opened = store.opened /\ s.legacy = store.legacy
<1>1. store \in Store /\ store.lapsed \subseteq store.devices /\ store.admins \subseteq store.devices
  BY DEF IdentityInv, Typed, TablesSound, Referring
<1>2. PICK kept :
        kept = [k \in Tokens |-> IF store.tokens[k] # Null /\ store.tokens[k].id \in ids THEN Null ELSE store.tokens[k]]
  OBVIOUS
<1>3. PICK answers : answers = [d \in Devices |-> IF d \in ids THEN Null ELSE store.answers[d]]
  OBVIOUS
<1>4. PICK opens : opens = {o \in store.opens : o.id \notin ids}
  OBVIOUS
<1>5. s = [store EXCEPT !.devices = store.devices \ ids, !.lapsed = store.lapsed \ ids,
                        !.admins = store.admins \ ids, !.tokens = kept, !.opens = opens, !.answers = answers]
  BY <1>2, <1>3, <1>4 DEF Without
<1>6. /\ store.tokens \in [Tokens -> Row \cup {Null}] /\ store.answers \in [Devices -> Reply \cup {Null}]
      /\ store.opens \subseteq Opening
  BY <1>1 DEF Store
<1>7. /\ kept \in [Tokens -> Row \cup {Null}] /\ answers \in [Devices -> Reply \cup {Null}]
      /\ opens \subseteq Opening /\ store.devices \ ids \subseteq Devices
      /\ store.lapsed \ ids \subseteq Devices /\ store.admins \ ids \subseteq Devices
  <2>1. store.devices \subseteq Devices /\ store.lapsed \subseteq Devices /\ store.admins \subseteq Devices
    BY <1>1 DEF Store
  <2> QED
    BY <1>2, <1>3, <1>4, <1>6, <2>1
<1>8. /\ s \in Store /\ s.devices = store.devices \ ids /\ s.lapsed = store.lapsed \ ids
      /\ s.admins = store.admins \ ids /\ s.tokens = kept /\ s.opens = opens /\ s.answers = answers
      /\ s.opened = store.opened /\ s.legacy = store.legacy
  BY <1>1, <1>5, <1>7 DEF Store
<1> QED
  BY <1>1, <1>2, <1>3, <1>4, <1>8

(* What is left refers to what is left.                                      *)
LEMMA RemovedTables ==
  ASSUME IdentityInv, NEW ids, Removing(ids),
         used'.devices = used.devices, used'.visits = used.visits,
         past'.chose = past.chose \cap Known', past'.forkedLate = past.forkedLate, past'.displaced = past.displaced
  PROVE  /\ Referring' /\ ProfileIsOnesOwn' /\ Listed' /\ Chosen'
         /\ Known' = {k \in Known : store.tokens[k].id \notin ids}
         /\ \A k \in Known' : store'.tokens[k] = store.tokens[k]
<1>1. /\ Known' = {k \in Known : store.tokens[k].id \notin ids}
      /\ \A k \in Known' : store'.tokens[k] = store.tokens[k]
  BY DEF Removing, Known
<1>2. \A k \in Known : store.tokens[k].id \in Devices /\ store.tokens[k].id \in store.devices
  BY DEF IdentityInv, Typed, Store, TablesSound, Referring
<1>3. \A k \in Known' : store'.answers[store'.tokens[k].id] = store.answers[store.tokens[k].id]
  BY <1>1, <1>2 DEF Removing
<1>4. Excused' = Excused
  BY DEF Excused
<1>5. Referring'
  <2>1. \A v \in store'.opens : v.id \in store'.devices
    BY DEF Removing, IdentityInv, TablesSound, Referring
  <2>2. \A k \in Known' : store'.tokens[k].id \in store'.devices /\ store'.tokens[k].since <= used'.visits
    BY <1>1, <1>2 DEF Removing, IdentityInv, TablesSound, Referring
  <2>3. \A d \in Devices : store'.answers[d] # Null => d \in store'.devices
    BY DEF Removing, IdentityInv, TablesSound, Referring
  <2> QED
    BY <2>1, <2>2, <2>3 DEF Removing, IdentityInv, TablesSound, Referring
<1>6. ProfileIsOnesOwn'
  BY <1>1, <1>3 DEF IdentityInv, TablesSound, ProfileIsOnesOwn
<1>7. Listed'
  <2>1. ASSUME NEW k \in Known' \ Excused', store'.tokens[k].trusted, store'.answers[store'.tokens[k].id] # Null
        PROVE  OwnVisit(store'.opens, k, store'.tokens[k].id, 0)
    <3>1. store.tokens[k].id \notin ids /\ store'.tokens[k] = store.tokens[k]
      BY <1>1, <2>1
    <3>2. OwnVisit(store.opens, k, store.tokens[k].id, 0)
      BY <1>1, <1>3, <1>4, <2>1 DEF IdentityInv, TablesSound, Listed
    <3> QED
      BY <3>1, <3>2 DEF OwnVisit, Removing
  <2> QED
    BY <2>1 DEF Listed
<1>8. Chosen'
  BY <1>1, <1>3 DEF IdentityInv, TablesSound, Chosen
<1> QED
  BY <1>1, <1>5, <1>6, <1>7, <1>8

(* A transaction that holds none of the devices is as settled as it was.      *)
LEMMA RemovedSettles ==
  ASSUME IdentityInv, NEW ids, Removing(ids),
         used'.devices = used.devices, used'.visits = used.visits,
         past'.chose = past.chose \cap Known', past'.forkedLate = past.forkedLate, past'.displaced = past.displaced,
         NEW o \in Tx, Sound(o), (DevicesUpdated(o) \cup DevicesShared(o)) \cap ids = {}, SumsRight(o)'
  PROVE  Settled(o)'
<1>1. /\ Known' = {k \in Known : store.tokens[k].id \notin ids}
      /\ \A k \in Known' : store'.tokens[k] = store.tokens[k]
  BY RemovedTables
<1>2. /\ Settled(o) /\ Excused' = Excused
      /\ store'.devices = store.devices \ ids
      /\ \A v : v \in store.opens /\ v.id \notin ids => v \in store'.opens
      /\ \A d \in Devices : store'.answers[d] # Null => store'.answers[d] = store.answers[d]
  BY DEF Sound, Removing, Excused
<1>3. Placed(o)' /\ (Holds(o) \subseteq store.devices)'
  BY <1>2 DEF Settled, Placed, Holds
<1>4. ClaimRight(o)'
  <2>1. Claimed(o) \subseteq Devices
    <3>1. o.op \in {"visit", "answer"} /\ o.trusted => o.id \in Devices
      BY Kinds DEF VisitTx, AnswerTx
    <3>2. Minted(o) \subseteq Devices
      BY Kinds DEF Minted, VisitTx, Sound, Staged
    <3> QED
      BY <3>1, <3>2 DEF Claimed
  <2> QED
    BY <1>1, <1>2, <2>1 DEF Settled, ClaimRight
<1>5. TrustStays(o)'
  BY <1>1, <1>2 DEF Settled, TrustStays
<1>6. Stamped(o)'
  BY <1>1, <1>2 DEF Settled, Stamped
<1>7. ForkRight(o)'
  <2>1. SUFFICES ASSUME Forking(o) PROVE ForkRight(o)'
    BY DEF ForkRight
  <2>2. /\ DevicesShared(o) = (IF o.from = Null THEN {} ELSE {o.from.id}) \cup {v.id : v \in o.moved}
        /\ o.who \in Tokens
    BY <2>1, Kinds, AnswerFoot DEF Forking, AnswerTx
  <2>3. (o.from # Null => o.from.id \notin ids) /\ \A v \in o.moved : v.id \notin ids
    BY <2>2
  <2>4. o.from # Null => store'.tokens[o.who] = o.from
    BY <1>2, <2>1, <2>2, <2>3 DEF Settled, ForkRight, Removing
  <2> QED
    BY <1>2, <2>1, <2>3, <2>4 DEF Settled, ForkRight
<1>8. VisitStays(o)'
  <2>1. SUFFICES ASSUME o.op = "answer", o.pc # "begun", ~o.borrowed, o.who \notin Excused PROVE VisitStays(o)'
    BY <1>2 DEF VisitStays
  <2>2. o.who \in Tokens /\ Seen(o) # Null
    <3>1. o \in AnswerTx
      BY <2>1, Kinds
    <3>2. Seen(o) \in Row
      BY <3>1 DEF Seen, Row, AnswerTx
    <3> QED
      BY <3>1, <3>2, IdentityConstants DEF AnswerTx
  <2>3. \A n : o.id \notin ids /\ OwnVisit(store.opens, o.who, o.id, n) => OwnVisit(store'.opens, o.who, o.id, n)
    BY <1>2 DEF OwnVisit
  <2>4. CASE o.trusted
    BY <1>2, <2>1, <2>3, <2>4 DEF Settled, VisitStays
  <2>5. CASE ~o.trusted /\ o.pc = "written"
    BY <1>2, <2>1, <2>5 DEF Settled, VisitStays
  <2>6. CASE ~o.trusted /\ o.pc # "written"
    <3>1. store.tokens[o.who] # Seen(o) \/ OwnVisit(store.opens, o.who, o.id, o.since)
      BY <1>2, <2>1, <2>6 DEF Settled, VisitStays
    <3>2. store'.tokens[o.who] = Seen(o) => store.tokens[o.who] = Seen(o) /\ o.id \notin ids
      BY <2>2 DEF Removing, Seen
    <3> QED
      BY <2>3, <2>6, <3>1, <3>2 DEF VisitStays
  <2> QED
    BY <2>4, <2>5, <2>6
<1> QED
  BY <1>3, <1>4, <1>5, <1>6, <1>7, <1>8 DEF Settled

(* A purge keeps the count of every visit it sums up.                        *)
LEMMA PurgeCommits ==
  ASSUME IdentityInv, NEW r \in Requests, NEW t, t = tx[r], Commit(r), t.op = "purge"
  PROVE  IdentityInv'
<1>1. /\ t # Null /\ t \in Tx /\ Sound(t) /\ Settled(t) /\ t.pc = "written"
      /\ used' \in Used /\ used'.devices = used.devices /\ used'.visits = used.visits
      /\ Overtaken(t) \subseteq Guests \cup {Null} => past' \in Past
      /\ past'.overtaken = Overtaken(t)
      /\ past'.chose = past.chose \cap Known' /\ past'.forkedLate = past.forkedLate
      /\ past'.displaced = past.displaced
  BY CommitParts
<1>2. /\ t \in PurgeTx /\ store' = [Without(store, t.ids) EXCEPT !.legacy = @ \cup t.sums]
      /\ DevicesDeleted(t) = t.ids /\ t.sums \subseteq Guests /\ t.summed \subseteq Opening
  BY <1>1, Kinds, PurgeFoot DEF Commit, Purged, PurgeTx
<1>3. PICK m : m = Touches(t)
  OBVIOUS
<1>4. /\ m \in SUBSET (Guests \cup {Null}) /\ past' \in Past /\ tx' = Ended(r, t, m)
      /\ m = {v.guest : v \in {w \in store.opens : w.id \in t.ids}}
  <2>1. m \in SUBSET (Guests \cup {Null}) /\ past' \in Past /\ tx' = Ended(r, t, m)
    BY <1>1, <1>3, MissedGuests, CommitParts DEF IdentityInv
  <2>2. t.op # "visit"
    OBVIOUS
  <2> QED
    BY <1>3, <2>1, <2>2 DEF Touches
<1>5. PICK left : left = Without(store, t.ids)
  OBVIOUS
<1>6. /\ left \in Store /\ left.devices = store.devices \ t.ids /\ left.lapsed \subseteq left.devices
      /\ left.admins = store.admins \ t.ids /\ left.admins \subseteq left.devices
      /\ \A v : v \in left.opens <=> v \in store.opens /\ v.id \notin t.ids
      /\ \A k \in Tokens :
           left.tokens[k] = IF store.tokens[k] # Null /\ store.tokens[k].id \in t.ids THEN Null ELSE store.tokens[k]
      /\ \A d \in Devices : left.answers[d] = IF d \in t.ids THEN Null ELSE store.answers[d]
      /\ left.opened = store.opened /\ left.legacy = store.legacy
  BY <1>5, WithoutRemoves
<1>7. store' = [left EXCEPT !.legacy = left.legacy \cup t.sums]
  BY <1>2, <1>5
<1>8. left.legacy \cup t.sums \subseteq Guests
  BY <1>2, <1>6 DEF Store
<1>9. /\ store' \in Store /\ store'.devices = left.devices /\ store'.lapsed = left.lapsed
      /\ store'.admins = left.admins /\ store'.opens = left.opens /\ store'.tokens = left.tokens
      /\ store'.answers = left.answers /\ store'.opened = left.opened /\ store'.legacy = left.legacy \cup t.sums
  BY <1>6, <1>7, <1>8 DEF Store
<1>10. Removing(t.ids)
  BY <1>6, <1>9 DEF Removing
<1>11. OpenedCounts'
  <2>1. SUFFICES ASSUME NEW g \in Guests, g \notin past'.overtaken
                 PROVE  g \in store'.opened <=> g \in store'.legacy \cup OpenedBy(store'.opens, store'.admins)
    BY DEF OpenedCounts
  <2>2. /\ g \notin past.overtaken /\ g # Null
        /\ \A v \in store.opens : v \notin t.summed /\ v.id \in t.ids /\ v.id \notin store.admins => v.guest # g
    BY <1>1, <1>2, <2>1, IdentityConstants DEF Overtaken, OpenedBy
  <2>3. /\ t.sums = OpenedBy(t.summed, {})
        /\ \A v \in t.summed : v.guest # Null => v \in store.opens /\ v.id \notin store.admins
    BY <1>1 DEF Settled, SumsRight
  <2>4. g \in store.opened <=> g \in store.legacy \cup OpenedBy(store.opens, store.admins)
    BY <2>2 DEF IdentityInv, TablesSound, OpenedCounts
  <2>5. g \in t.sums <=> \E v \in t.summed : v.guest = g
    BY <2>2, <2>3 DEF OpenedBy
  <2>6. g \in OpenedBy(store.opens, store.admins) <=> \E v \in store.opens : v.guest = g /\ v.id \notin store.admins
    BY <2>2 DEF OpenedBy
  <2>7. g \in OpenedBy(store'.opens, store'.admins) <=> \E v \in store'.opens : v.guest = g /\ v.id \notin store'.admins
    BY <2>2 DEF OpenedBy
  <2>8. \A v : v \in store'.opens /\ v.id \notin store'.admins
                 <=> v \in store.opens /\ v.id \notin store.admins /\ v.id \notin t.ids
    BY <1>6, <1>9
  <2>9. g \in t.sums \cup OpenedBy(store'.opens, store'.admins) <=> g \in OpenedBy(store.opens, store.admins)
    BY <2>2, <2>3, <2>5, <2>6, <2>7, <2>8
  <2> QED
    BY <1>6, <1>9, <2>4, <2>9
<1>12. TablesSound'
  BY <1>1, <1>10, <1>11, RemovedTables DEF TablesSound
<1>13. ASSUME NEW o \in Tx, Sound(o), Apart(t, o), Apart(o, t) PROVE Settled(o)'
  <2>1. SumsRight(o)'
    BY <1>13 DEF Apart, SumsRight
  <2>2. (DevicesUpdated(o) \cup DevicesShared(o)) \cap t.ids = {}
    BY <1>2, <1>13 DEF Apart
  <2> QED
    BY <1>1, <1>10, <1>13, <2>1, <2>2, RemovedSettles
<1>14. ASSUME NEW g \in Guests, NEW v \in Opening, v.guest = g, g \in m => t.op = "answer"
       PROVE  /\ v \in store.opens <=> v \in store'.opens
              /\ v \in store.opens => (v.id \in store.admins <=> v.id \in store'.admins)
  <2>1. v \in store.opens => v.id \notin t.ids
    BY <1>4, <1>14
  <2> QED
    BY <1>6, <1>9, <2>1
<1> QED
  BY <1>1, <1>4, <1>9, <1>12, <1>13, <1>14, CommitKeeps

(* The couple's requests recompute every guest.                             *)
LEMMA DeskCommits ==
  ASSUME IdentityInv, NEW r \in Requests, NEW t, t = tx[r], Commit(r), t.op \in {"admin", "unadmin", "delete"}
  PROVE  IdentityInv'
<1>1. /\ t # Null /\ t \in Tx /\ Sound(t) /\ Settled(t) /\ t.pc = "rewritten"
      /\ used' \in Used /\ used'.devices = used.devices /\ used'.visits = used.visits
      /\ Overtaken(t) \subseteq Guests \cup {Null} => past' \in Past
      /\ past'.overtaken = t.missed
      /\ past'.chose = past.chose \cap Known' /\ past'.forkedLate = past.forkedLate
      /\ past'.displaced = past.displaced
  BY CommitParts DEF Overtaken
<1>2. /\ t \in DeskTx /\ store' = [Changed(t) EXCEPT !.opened = t.plan \cup store.legacy]
      /\ GuestsUpdated(t) = Guests /\ t.plan \subseteq Guests
  BY <1>1, Kinds, DeskFoot DEF Commit, Recomputed, DeskTx
<1>3. PICK m : m = Touches(t)
  OBVIOUS
<1>4. /\ m \in SUBSET (Guests \cup {Null}) /\ past' \in Past /\ tx' = Ended(r, t, m)
      /\ m = {v.guest : v \in {w \in store.opens : w.id \in t.ids}}
  <2>1. m \in SUBSET (Guests \cup {Null}) /\ past' \in Past /\ tx' = Ended(r, t, m)
    BY <1>1, <1>3, MissedGuests, CommitParts DEF IdentityInv
  <2>2. t.op # "visit"
    OBVIOUS
  <2> QED
    BY <1>3, <2>1, <2>2 DEF Touches
<1>5. PICK ids : ids = IF t.op = "delete" THEN t.ids ELSE {}
  OBVIOUS
<1>6. PICK new : new = Changed(t)
  OBVIOUS
<1>7. /\ new \in Store /\ new.devices = store.devices \ ids /\ new.lapsed \subseteq new.devices
      /\ new.admins \subseteq new.devices
      /\ \A d \in Devices : d \notin t.ids => (d \in new.admins <=> d \in store.admins)
      /\ \A v : v \in new.opens <=> v \in store.opens /\ v.id \notin ids
      /\ \A k \in Tokens :
           new.tokens[k] = IF store.tokens[k] # Null /\ store.tokens[k].id \in ids THEN Null ELSE store.tokens[k]
      /\ \A d \in Devices : new.answers[d] = IF d \in ids THEN Null ELSE store.answers[d]
      /\ new.legacy = store.legacy
  <2>1. store \in Store /\ store.lapsed \subseteq store.devices /\ store.admins \subseteq store.devices
    BY DEF IdentityInv, Typed, TablesSound, Referring
  <2>2. CASE t.op = "delete"
    <3>1. new = Without(store, t.ids) /\ ids = t.ids
      BY <1>5, <1>6, <2>2 DEF Changed
    <3> QED
      BY <3>1, WithoutRemoves
  <2>3. CASE t.op # "delete"
    <3>1. PICK admins : admins = IF t.op = "admin" THEN store.admins \cup (t.ids \cap store.devices)
                                 ELSE store.admins \ t.ids
      OBVIOUS
    <3>2. new = [store EXCEPT !.admins = admins] /\ ids = {}
      BY <1>5, <1>6, <2>3, <3>1 DEF Changed
    <3>3. admins \subseteq store.devices /\ \A d \in Devices : d \notin t.ids => (d \in admins <=> d \in store.admins)
      BY <2>1, <3>1
    <3>4. /\ new \in Store /\ new.devices = store.devices /\ new.lapsed = store.lapsed /\ new.admins = admins
          /\ new.opens = store.opens /\ new.tokens = store.tokens /\ new.answers = store.answers
          /\ new.legacy = store.legacy
      BY <2>1, <3>2, <3>3 DEF Store
    <3> QED
      BY <2>1, <3>2, <3>3, <3>4
  <2> QED
    BY <2>2, <2>3
<1>8. t.plan \cup store.legacy \subseteq Guests
  BY <1>2 DEF IdentityInv, Typed, Store
<1>9. /\ store' \in Store /\ store'.devices = new.devices /\ store'.lapsed = new.lapsed
      /\ store'.admins = new.admins /\ store'.opens = new.opens /\ store'.tokens = new.tokens
      /\ store'.answers = new.answers /\ store'.opened = t.plan \cup store.legacy /\ store'.legacy = new.legacy
  BY <1>2, <1>6, <1>7, <1>8 DEF Store
<1>10. Removing(ids)
  BY <1>7, <1>9 DEF Removing
<1>11. OpenedCounts'
  <2>1. Recomputing(t)
    BY <1>1 DEF Recomputing
  <2>2. \A g \in Guests \ t.missed : g \in t.plan <=> g \in OpenedBy(new.opens, new.admins)
    BY <1>1, <1>6, <2>1 DEF Sound, PlanRight
  <2> QED
    BY <1>1, <1>7, <1>9, <2>2 DEF OpenedCounts
<1>12. TablesSound'
  BY <1>1, <1>10, <1>11, RemovedTables DEF TablesSound
<1>13. ASSUME NEW o \in Tx, Sound(o), Apart(t, o), Apart(o, t) PROVE Settled(o)'
  <2>1. SumsRight(o)'
    <3>1. SUFFICES ASSUME o.op = "purge", o.pc # "begun" PROVE SumsRight(o)'
      BY DEF SumsRight
    <3>2. GuestsUpdated(o) = o.sums /\ o.sums \subseteq Guests
      BY <1>13, <3>1, Kinds, PurgeFoot DEF PurgeTx
    <3>3. o.sums = {} /\ o.sums = OpenedBy(o.summed, {})
      BY <1>2, <1>13, <3>1, <3>2 DEF Apart, Sound, Settled, SumsRight
    <3>4. \A v \in o.summed : v.guest = Null
      BY <3>3 DEF OpenedBy
    <3> QED
      BY <3>3, <3>4 DEF SumsRight
  <2>2. (DevicesUpdated(o) \cup DevicesShared(o)) \cap ids = {}
    <3>1. ids \subseteq DevicesDeleted(t)
      BY <1>1, <1>2, <1>5, DeskFoot
    <3> QED
      BY <1>13, <3>1 DEF Apart
  <2> QED
    BY <1>1, <1>10, <1>13, <2>1, <2>2, RemovedSettles
<1>14. ASSUME NEW g \in Guests, NEW v \in Opening, v.guest = g, g \in m => t.op = "answer"
       PROVE  /\ v \in store.opens <=> v \in store'.opens
              /\ v \in store.opens => (v.id \in store.admins <=> v.id \in store'.admins)
  <2>1. v \in store.opens => v.id \notin t.ids
    BY <1>4, <1>14
  <2>2. v.id \in Devices
    BY DEF Opening
  <2> QED
    BY <1>5, <1>7, <1>9, <2>1, <2>2
<1> QED
  BY <1>1, <1>4, <1>9, <1>12, <1>13, <1>14, CommitKeeps

-----------------------------------------------------------------------------
(* The invariant.                                                          *)

LEMMA InitKeeps ==
  ASSUME IdentityInit
  PROVE  IdentityInv
<1>1. PICK rolling \in BOOLEAN :
        store = [devices |-> {}, lapsed |-> {}, admins |-> {}, tokens |-> [k \in Tokens |-> Null],
                 opens |-> {}, answers |-> [d \in Devices |-> Null], opened |-> {}, legacy |-> {},
                 rolling |-> rolling, over |-> FALSE]
  BY DEF IdentityInit
<1>2. /\ store \in Store /\ store.devices = {} /\ store.lapsed = {} /\ store.admins = {} /\ store.opens = {}
      /\ store.opened = {} /\ store.legacy = {} /\ (\A k \in Tokens : store.tokens[k] = Null)
      /\ \A d \in Devices : store.answers[d] = Null
  BY <1>1 DEF Store
<1>3. used \in Used /\ past \in Past /\ past.chose = {}
  BY IdentityConstants DEF IdentityInit, Used, Past
<1>4. Typed /\ Busy = {}
  BY <1>2, <1>3 DEF IdentityInit, Typed, Busy
<1>5. Known = {} /\ OpenedBy(store.opens, store.admins) = {}
  BY <1>2 DEF Known, OpenedBy
<1>6. TablesSound
  BY <1>2, <1>3, <1>5 DEF TablesSound, Referring, OpenedCounts, ProfileIsOnesOwn, Listed, Chosen
<1> QED
  BY <1>4, <1>6 DEF IdentityInv

LEMMA CommitPreserves ==
  ASSUME IdentityInv, NEW r \in Requests, Commit(r)
  PROVE  IdentityInv'
<1>1. PICK t : t = tx[r]
  OBVIOUS
<1>2. t \in Tx
  BY <1>1, CommitParts
<1>3. CASE t.op = "visit"
  BY <1>1, <1>3, VisitCommits
<1>4. CASE t.op = "answer" /\ t.trusted
  BY <1>1, <1>4, AnswerCommits
<1>5. CASE t.op = "answer" /\ ~t.trusted
  BY <1>1, <1>5, ForkCommits
<1>6. CASE t.op = "purge"
  BY <1>1, <1>6, PurgeCommits
<1>7. CASE t.op \in {"admin", "unadmin", "delete"}
  BY <1>1, <1>7, DeskCommits
<1> QED
  BY <1>2, <1>3, <1>4, <1>5, <1>6, <1>7, Kinds

LEMMA NextKeeps ==
  ASSUME IdentityInv, IdentityNext
  PROVE  IdentityInv'
<1>1. CASE Lapse
  BY <1>1, LapseKeeps
<1>2. ASSUME NEW r \in Requests, NEW t \in Tokens, NEW g \in Guests \cup {Null}, NEW session \in BOOLEAN,
             BeginVisit(r, t, g, session)
      PROVE  IdentityInv'
  BY <1>2, BeginVisitKeeps
<1>3. ASSUME NEW r \in Requests, NEW t \in Tokens, NEW choice \in {Null, "yes"}, BeginAnswer(r, t, choice)
      PROVE  IdentityInv'
  BY <1>3, BeginAnswerKeeps
<1>4. ASSUME NEW r \in Requests, NEW op \in {"admin", "unadmin", "delete"}, NEW d \in store.devices,
             BeginDesk(r, op, {d})
      PROVE  IdentityInv'
  BY <1>4, {d} \subseteq store.devices, BeginDeskKeeps
<1>5. ASSUME NEW r \in Requests, BeginDesk(r, "delete", store.devices)
      PROVE  IdentityInv'
  BY <1>5, BeginDeskKeeps
<1>6. ASSUME NEW r \in Requests,
             Identify(r) \/ Open(r) \/ CheckOpen(r) \/ Write(r) \/ Copy(r) \/ Take(r) \/ Change(r)
      PROVE  IdentityInv'
  BY <1>6, IdentifyKeeps, OpenKeeps, CheckOpenKeeps, WriteKeeps, CopyKeeps, TakeKeeps, ChangeKeeps
<1>7. ASSUME NEW r \in Requests,
             Scan(r) \/ Rewrite(r) \/ BeginPurge(r) \/ SumUp(r) \/ DropExpired(r) \/ Commit(r) \/ Abort(r)
      PROVE  IdentityInv'
  BY <1>7, ScanKeeps, RewriteKeeps, BeginPurgeKeeps, SumUpKeeps, DropExpiredKeeps, CommitPreserves, AbortKeeps
<1> QED
  BY <1>1, <1>2, <1>3, <1>4, <1>5, <1>6, <1>7 DEF IdentityNext

LEMMA StutterKeeps ==
  ASSUME IdentityInv, UNCHANGED identityVars
  PROVE  IdentityInv'
<1>1. UNCHANGED <<store, used, past>> /\ tx' = tx /\ used' \in Used
      /\ used.devices <= used'.devices /\ used.visits <= used'.visits
  BY IdentityConstants DEF identityVars, IdentityInv, Typed, Used
<1>2. Typed' /\ Busy' = Busy
  BY <1>1 DEF IdentityInv, Typed, Busy
<1>3. TablesSound' /\ \A s \in Busy : Sound(tx[s])'
  <2>1. TablesSound' /\ \A t \in Tx : Sound(t) => Sound(t)'
    BY <1>1, CountersGrow DEF IdentityInv
  <2>2. ASSUME NEW s \in Busy PROVE Sound(tx[s])'
    <3>1. PICK t : t = tx[s]
      OBVIOUS
    <3>2. t \in Tx /\ Sound(t) /\ tx'[s] = t
      BY <1>1, <3>1, Transaction DEF Busy, IdentityInv
    <3>3. Sound(t)'
      BY <2>1, <3>2
    <3> QED
      BY <3>2, <3>3
  <2> QED
    BY <2>1, <2>2
<1>4. \A s, q \in Busy : s # q => Apart(tx[s], tx[q])'
  BY <1>1 DEF IdentityInv
<1> QED
  BY <1>2, <1>3, <1>4 DEF IdentityInv

(* In every interleaving of visits, saves, purges and the couple's requests,    *)
(* whatever each of them has read before another one commits: the tables refer  *)
(* to what is there, and what an open transaction is going to write fits them.  *)
THEOREM IdentityInvariant == IdentitySpec => []IdentityInv
<1>1. IdentityInit => IdentityInv
  BY InitKeeps
<1>2. IdentityInv /\ [IdentityNext]_identityVars => IdentityInv'
  BY NextKeeps, StutterKeeps
<1> QED
  BY <1>1, <1>2, PTL DEF IdentitySpec

(* No token, visit or answer outlives its device, which the schema's ON DELETE   *)
(* CASCADE has to take along.                                               *)
THEOREM IdentityTypes == IdentitySpec => []IdentityTypeOK
<1>1. IdentityInv => IdentityTypeOK
  BY DEF IdentityInv, Typed, Store, TablesSound, Referring, IdentityTypeOK
<1> QED
  BY <1>1, IdentityInvariant, PTL

(* The opened counts, the profiles, the saved choices and the couple's list are  *)
(* right but for the races that the history names: recomputeOpened overtaken by  *)
(* a commit, a device forked by two saves, a visit a fork takes along.        *)
THEOREM IdentitiesAreSound == IdentitySpec => []IdentitiesSound
<1>1. ASSUME IdentityInv PROVE AnswersAreListed
  BY <1>1 DEF IdentityInv, TablesSound, Listed, Excused, OwnVisit, AnswersAreListed
<1>2. ASSUME IdentityInv PROVE ChoiceStays
  BY <1>2 DEF IdentityInv, TablesSound, Chosen, ChoiceStays
<1>3. IdentityInv => IdentitiesSound
  BY <1>1, <1>2 DEF IdentityInv, TablesSound, IdentitiesSound
<1> QED
  BY <1>3, IdentityInvariant, PTL

(***************************************************************************)
(* The music: the hook, its element and what the browser delivers later.   *)
(***************************************************************************)
(* The states of the music hook.                                             *)
Fades == [to : 0 .. 2, stops : BOOLEAN, on : BOOLEAN]

Hooks ==
  [mounted : BOOLEAN, exists : BOOLEAN, paused : BOOLEAN, level : 0 .. 2, volume : {0, 2},
   playing : BOOLEAN, want : BOOLEAN, retry : BOOLEAN, hiddenPause : BOOLEAN, hidden : BOOLEAN,
   pressed : BOOLEAN, fade : Fades, open : Nat, refused : Nat, events : Seq({"play", "pause"})]

(* Where the volume is read-only nothing fades.                                *)
Fixed(m) == ~Supported => ~m.fade.on /\ m.level = m.volume

Sounds(m) == m.exists /\ ~m.paused

(* What sounds unwanted is about to be paused; what sounds on purpose is at its   *)
(* level, on its way there, or will be sent there by a promise.                 *)
HookRight(m) ==
  /\ m \in Hooks /\ Fixed(m)
  /\ m.want => m.mounted
  /\ Sounds(m) /\ ~m.want => (m.fade.on /\ m.fade.stops) \/ m.open > 0
  /\ Supported /\ Sounds(m) /\ m.want =>
       \/ m.open > 0
       \/ m.fade.on /\ m.fade.to = m.volume
       \/ ~m.fade.on /\ m.level = m.volume

(* Nothing of what HookRight reads.                                            *)
SameSound(p, m) ==
  /\ p.mounted = m.mounted /\ p.want = m.want /\ p.exists = m.exists /\ p.paused = m.paused
  /\ p.fade = m.fade /\ p.level = m.level /\ p.volume = m.volume /\ p.open = m.open

LEMMA NoFadeIsOff == Music!NoFade \in Fades /\ ~Music!NoFade.on
BY DEF Fades, Music!NoFade

LEMMA SameSoundSame ==
  ASSUME NEW m, HookRight(m), NEW p \in Hooks, SameSound(p, m)
  PROVE  HookRight(p)
BY DEF HookRight, SameSound, Fixed, Sounds

(* pause() leaves the element paused and nothing else that matters.              *)
LEMMA PauseStops ==
  ASSUME NEW m \in Hooks, NEW p, p = Music!Pause(m)
  PROVE  /\ p \in Hooks /\ p.paused /\ p.want = m.want /\ p.mounted = m.mounted
         /\ p.exists = m.exists /\ p.level = m.level /\ p.volume = m.volume /\ p.fade = m.fade
<1>1. CASE m.paused  BY <1>1 DEF Music!Pause, Hooks
<1>2. CASE ~m.paused
  <2> DEFINE e == Append(m.events, "pause")  r == m.refused + m.open
  <2>1. e \in Seq({"play", "pause"}) /\ r \in Nat  BY DEF Hooks
  <2>2. p = [m EXCEPT !.paused = TRUE, !.refused = r, !.open = 0, !.events = e]
    BY <1>2 DEF Music!Pause
  <2> HIDE DEF e, r
  <2>3. [m EXCEPT !.paused = TRUE, !.refused = r, !.open = 0, !.events = e] \in Hooks
    BY <2>1 DEF Hooks
  <2>4. QED  BY <2>1, <2>2, <2>3 DEF Hooks
<1>3. QED  BY <1>1, <1>2

LEMMA PausedRight ==
  ASSUME NEW m \in Hooks, Fixed(m), m.want => m.mounted, m.paused
  PROVE  HookRight(m)
BY DEF HookRight, Sounds

LEMMA PauseRight ==
  ASSUME NEW m \in Hooks, Fixed(m), m.want => m.mounted
  PROVE  HookRight(Music!Pause(m))
<1> DEFINE p == Music!Pause(m)
<1>1. /\ p \in Hooks /\ p.paused /\ p.want = m.want /\ p.mounted = m.mounted
      /\ p.level = m.level /\ p.volume = m.volume /\ p.fade = m.fade
  BY PauseStops
<1> HIDE DEF p
<1>2. Fixed(p)  BY <1>1 DEF Fixed
<1>3. HookRight(p)  BY <1>1, <1>2, PausedRight
<1>4. QED  BY <1>3 DEF p

(* A play on an element leaves it paused, or a promise out.                     *)
LEMMA PlayPromises ==
  ASSUME NEW m \in Hooks, NEW allowed \in BOOLEAN, NEW p, p = Music!Play(m, allowed)
  PROVE  /\ p \in Hooks /\ (p.paused \/ p.open > 0) /\ p.want = m.want /\ p.mounted = m.mounted
         /\ p.exists = m.exists /\ p.level = m.level /\ p.volume = m.volume /\ p.fade = m.fade
<1> DEFINE n == m.open + 1  r == m.refused + 1  e == Append(m.events, "play")
<1>1. e \in Seq({"play", "pause"}) /\ n \in Nat /\ n > 0 /\ r \in Nat  BY DEF Hooks
<1>2. CASE ~m.paused
  <2>1. p = [m EXCEPT !.open = n]  BY <1>2 DEF Music!Play
  <2> HIDE DEF n, r, e
  <2>2. QED  BY <1>1, <2>1 DEF Hooks
<1>3. CASE m.paused /\ allowed
  <2>1. p = [m EXCEPT !.paused = FALSE, !.open = n, !.events = e]  BY <1>3 DEF Music!Play
  <2> HIDE DEF n, r, e
  <2>2. p \in Hooks  BY <1>1, <2>1 DEF Hooks
  <2>3. QED  BY <1>1, <2>1, <2>2 DEF Hooks
<1>4. CASE m.paused /\ ~allowed
  <2>1. p = [m EXCEPT !.refused = r]  BY <1>4 DEF Music!Play
  <2> HIDE DEF n, r, e
  <2>2. QED  BY <1>1, <1>4, <2>1 DEF Hooks
<1>5. QED  BY <1>2, <1>3, <1>4

LEMMA ApplyVolume ==
  ASSUME NEW m \in Hooks, NEW v \in 0 .. 2
  PROVE  LET p == Music!applyVolume(m, v) IN
         /\ p \in Hooks /\ p.want = m.want /\ p.mounted = m.mounted /\ p.exists = m.exists
         /\ p.paused = m.paused /\ p.volume = m.volume /\ p.fade = m.fade /\ p.open = m.open
         /\ m.exists => p.level = v
BY DEF Music!applyVolume, Hooks

LEMMA TryPlayRight ==
  ASSUME NEW m \in Hooks, Fixed(m), m.want, m.mounted, NEW allowed \in BOOLEAN
  PROVE  HookRight(Music!tryPlay(m, allowed))
<1> DEFINE a == Music!ensureAudio(m)
           v == IF Supported THEN 0 ELSE m.volume
           l == Music!applyVolume(a, v)
           p == Music!Play(l, allowed)
<1>1. /\ a \in Hooks /\ a.want = m.want /\ a.mounted = m.mounted /\ a.fade = m.fade
      /\ a.level = m.level /\ a.volume = m.volume /\ a.exists
  BY DEF Music!ensureAudio, Hooks
<1>2. v \in 0 .. 2 /\ (~Supported => v = m.volume)  BY DEF Hooks
<1>3. Music!tryPlay(m, allowed) = p  BY DEF Music!tryPlay
<1> HIDE DEF a, v
<1>4. /\ l \in Hooks /\ l.want = a.want /\ l.mounted = a.mounted /\ l.fade = a.fade
      /\ l.volume = a.volume /\ l.level = v
  BY <1>1, <1>2 DEF Music!applyVolume, Hooks
<1>5. Fixed(l)  BY <1>1, <1>2, <1>4 DEF Fixed
<1> HIDE DEF l
<1>6. /\ p \in Hooks /\ (p.paused \/ p.open > 0) /\ p.want = l.want /\ p.mounted = l.mounted
      /\ p.level = l.level /\ p.volume = l.volume /\ p.fade = l.fade
  BY <1>4, PlayPromises
<1> HIDE DEF p
<1>7. HookRight(p)  BY <1>1, <1>4, <1>5, <1>6 DEF HookRight, Fixed, Sounds
<1>8. QED  BY <1>3, <1>7

LEMMA StopRight ==
  ASSUME NEW m \in Hooks, Fixed(m)
  PROVE  HookRight(Music!stop(m))
<1> DEFINE n == [m EXCEPT !.want = FALSE, !.hiddenPause = FALSE, !.retry = FALSE, !.playing = FALSE]
           s == Music!stop(m)
<1> SUFFICES HookRight(s)  OBVIOUS
<1>1. /\ n \in Hooks /\ ~n.want /\ n.mounted = m.mounted /\ n.fade = m.fade
      /\ n.level = m.level /\ n.volume = m.volume
  BY DEF Hooks
<1>2. s = Music!fadeTo(n, 0, TRUE)  BY DEF Music!stop
<1> HIDE DEF n, s
<1>3. CASE ~n.exists
  <2>1. s = n  BY <1>2, <1>3 DEF Music!fadeTo
  <2>2. QED  BY <1>1, <1>3, <2>1 DEF HookRight, Fixed, Sounds
<1>4. CASE n.exists /\ Supported
  <2> DEFINE f == [to |-> 0, stops |-> TRUE, on |-> TRUE]
  <2>1. s = [n EXCEPT !.fade = f]  BY <1>2, <1>4 DEF Music!fadeTo
  <2>2. f \in Fades /\ f.on /\ f.stops  BY DEF Fades
  <2> HIDE DEF f
  <2>3. s \in Hooks /\ s.fade = f /\ ~s.want  BY <1>1, <2>1, <2>2 DEF Hooks
  <2>4. QED  BY <1>4, <2>2, <2>3 DEF HookRight, Fixed
<1>5. CASE n.exists /\ ~Supported
  <2> DEFINE u == [n EXCEPT !.fade = Music!NoFade]
             a == Music!applyVolume(u, 0)
             p == Music!Pause(a)
             z == Music!applyVolume(p, a.volume)
  <2>1. u \in Hooks /\ ~u.want /\ u.exists /\ ~u.fade.on /\ u.volume = n.volume
    BY <1>1, <1>5, NoFadeIsOff DEF Hooks
  <2>2. s = Music!FadeDone(a, TRUE)  BY <1>2, <1>5 DEF Music!fadeTo
  <2> HIDE DEF u
  <2>3. a \in Hooks /\ ~a.want /\ a.exists /\ ~a.fade.on  BY <2>1, ApplyVolume
  <2>4. s = z  BY <2>2, <2>3 DEF Music!FadeDone
  <2> HIDE DEF a
  <2>5. p \in Hooks /\ ~p.want /\ p.exists /\ ~p.fade.on /\ p.paused /\ p.volume = a.volume
    BY <2>3, PauseStops
  <2>6. a.volume \in 0 .. 2  BY <2>3 DEF Hooks
  <2> HIDE DEF p
  <2>7. z \in Hooks /\ ~z.want /\ ~z.fade.on /\ z.paused /\ z.level = z.volume
    BY <2>5, <2>6, ApplyVolume
  <2> HIDE DEF z
  <2>8. QED  BY <1>5, <2>4, <2>7, PausedRight DEF Fixed
<1>6. QED  BY <1>1, <1>3, <1>4, <1>5 DEF Hooks

LEMMA StartRight ==
  ASSUME NEW m, HookRight(m), m.mounted, NEW allowed \in BOOLEAN
  PROVE  HookRight(Music!start(m, allowed))
<1> DEFINE n == [m EXCEPT !.want = TRUE]
<1>1. n \in Hooks /\ n.want /\ n.mounted /\ Fixed(n)  BY DEF HookRight, Hooks, Fixed
<1>2. HookRight(Music!tryPlay(n, allowed))  BY <1>1, TryPlayRight
<1>3. QED  BY <1>2 DEF Music!start

LEMMA ToggleRight ==
  ASSUME NEW m, HookRight(m), m.mounted, NEW allowed \in BOOLEAN
  PROVE  HookRight(Music!toggle(m, allowed))
<1> DEFINE n == [m EXCEPT !.hiddenPause = FALSE]
<1>1. m \in Hooks /\ Fixed(m)  BY DEF HookRight
<1>2. HookRight(Music!stop(m))  BY <1>1, StopRight
<1>3. HookRight(Music!start(m, allowed))  BY StartRight
<1>4. ASSUME m.want PROVE HookRight(Music!tryPlay(n, allowed))
  <2>1. n \in Hooks /\ n.want /\ n.mounted /\ Fixed(n)  BY <1>1, <1>4 DEF Hooks, Fixed
  <2>2. QED  BY <2>1, TryPlayRight
<1>5. QED  BY <1>2, <1>3, <1>4 DEF Music!toggle

(* One lemma per step of the hook.                                              *)
LEMMA FreshRight == HookRight(Music!Fresh)
BY EmptySeq DEF HookRight, Fixed, Sounds, Hooks, Fades, Music!Fresh, Music!NoFade

LEMMA OpenRight ==
  ASSUME HookRight(music), NEW allowed \in BOOLEAN, Music!OpenInvitation(allowed)
  PROVE  HookRight(music')
<1> DEFINE m == [music EXCEPT !.mounted = TRUE]
<1>1. m.mounted /\ HookRight(m)  BY DEF HookRight, Hooks, Fixed, Sounds
<1>2. music' = Music!start(m, allowed)  BY DEF Music!OpenInvitation
<1> HIDE DEF m
<1>3. QED  BY <1>1, <1>2, StartRight

LEMMA PointerRight ==
  ASSUME HookRight(music), NEW allowed \in BOOLEAN, NEW onButton \in BOOLEAN,
         Music!PointerDown(allowed, onButton)
  PROVE  HookRight(music')
<1> DEFINE m == [music EXCEPT !.retry = FALSE, !.pressed = onButton]
<1>1. m \in Hooks /\ SameSound(m, music)  BY DEF HookRight, Hooks, SameSound
<1>2. music' = m \/ (music.want /\ music' = Music!tryPlay(m, allowed))  BY DEF Music!PointerDown
<1> HIDE DEF m
<1>3. HookRight(m)  BY <1>1, SameSoundSame
<1>4. m.want => m.mounted /\ Fixed(m)  BY <1>3 DEF HookRight
<1>5. QED  BY <1>1, <1>2, <1>3, <1>4, TryPlayRight DEF SameSound

LEMMA ClickRight ==
  ASSUME HookRight(music), NEW allowed \in BOOLEAN, Music!Click(allowed)
  PROVE  HookRight(music')
<1> DEFINE m == [music EXCEPT !.pressed = FALSE]
<1>1. m \in Hooks /\ SameSound(m, music)  BY DEF HookRight, Hooks, SameSound
<1>2. music.mounted /\ music' = Music!toggle(m, allowed)
  BY DEF Music!Click, Music!Visible, Music!Mounted
<1> HIDE DEF m
<1>3. HookRight(m) /\ m.mounted  BY <1>1, <1>2, SameSoundSame DEF SameSound
<1>4. QED  BY <1>2, <1>3, ToggleRight

LEMMA VolumeRight ==
  ASSUME HookRight(music), NEW v \in {0, 2}, Music!SetVolume(v)
  PROVE  HookRight(music')
<1> DEFINE m == [music EXCEPT !.volume = v]
           f == [m EXCEPT !.fade = Music!NoFade]
<1>1. m \in Hooks /\ m.volume = v /\ m.want = music.want /\ m.mounted = music.mounted
      /\ m.fade = music.fade /\ m.open = music.open /\ m.exists = music.exists
      /\ m.paused = music.paused
  BY DEF HookRight, Hooks
<1>2. Supported /\ music' = IF m.want THEN Music!applyVolume(f, v) ELSE m
  BY DEF Music!SetVolume, Music!Visible
<1> HIDE DEF m
<1>3. f \in Hooks /\ f.volume = v /\ f.want = m.want /\ f.mounted = m.mounted /\ ~f.fade.on
  BY <1>1, NoFadeIsOff DEF Hooks
<1> HIDE DEF f
<1>4. CASE m.want
  <2> DEFINE p == Music!applyVolume(f, v)
  <2>0. v \in 0 .. 2  OBVIOUS
  <2>1. /\ p \in Hooks /\ p.want = f.want /\ p.mounted = f.mounted /\ p.exists = f.exists
        /\ p.fade = f.fade /\ p.volume = f.volume /\ (f.exists => p.level = v)
    BY <1>3, <2>0, ApplyVolume
  <2> HIDE DEF p
  <2>2. HookRight(p)  BY <1>1, <1>2, <1>3, <1>4, <2>1 DEF HookRight, Fixed, Sounds
  <2>3. QED  BY <1>2, <1>4, <2>2 DEF p
<1>5. CASE ~m.want
  BY <1>1, <1>2, <1>5 DEF HookRight, Fixed, Sounds
<1>6. QED  BY <1>4, <1>5

LEMMA VisibilityRight ==
  ASSUME HookRight(music), NEW allowed \in BOOLEAN, Music!VisibilityChange(allowed)
  PROVE  HookRight(music')
<1> DEFINE m == [music EXCEPT !.hidden = ~music.hidden, !.pressed = FALSE]
           t == [m EXCEPT !.hiddenPause = TRUE]
           u == [m EXCEPT !.hiddenPause = FALSE]
<1>1. m \in Hooks /\ SameSound(m, music)  BY DEF HookRight, Hooks, SameSound
<1>2. \/ music' = Music!Pause(t) \/ music' = m
      \/ m.want /\ music' = Music!tryPlay(u, allowed)
      \/ music' = u
  BY DEF Music!VisibilityChange
<1> HIDE DEF m
<1>3. HookRight(m)  BY <1>1, SameSoundSame
<1>4. t \in Hooks /\ SameSound(t, m) /\ u \in Hooks /\ SameSound(u, m)  BY <1>1 DEF Hooks, SameSound
<1> HIDE DEF t, u
<1>5. HookRight(t) /\ HookRight(u)  BY <1>3, <1>4, SameSoundSame
<1>6. HookRight(Music!Pause(t))  BY <1>5, PauseRight DEF HookRight
<1>7. m.want => HookRight(Music!tryPlay(u, allowed))  BY <1>4, <1>5, TryPlayRight DEF HookRight, SameSound
<1>8. QED  BY <1>2, <1>3, <1>5, <1>6, <1>7

LEMMA InterruptedRight ==
  ASSUME HookRight(music), Music!Interrupted PROVE HookRight(music')
BY PauseRight DEF HookRight, Music!Interrupted

LEMMA SourceFailsRight ==
  ASSUME HookRight(music), Music!SourceFails PROVE HookRight(music')
<1> DEFINE r == music.refused + music.open
<1>1. r \in Nat /\ <<>> \in Seq({"play", "pause"})  BY DEF HookRight, Hooks
<1>2. music' = [music EXCEPT !.exists = FALSE, !.paused = TRUE, !.want = FALSE, !.retry = FALSE,
                             !.playing = FALSE, !.refused = r, !.open = 0, !.events = <<>>]
  BY DEF Music!SourceFails
<1> HIDE DEF r
<1>3. /\ music' \in Hooks /\ ~music'.want /\ ~music'.exists /\ music'.fade = music.fade
      /\ music'.level = music.level /\ music'.volume = music.volume
  BY <1>1, <1>2 DEF HookRight, Hooks
<1>4. QED  BY <1>3 DEF HookRight, Fixed, Sounds

LEMMA UnmountRight ==
  ASSUME HookRight(music), Music!Unmount PROVE HookRight(music')
<1> DEFINE m == [music EXCEPT !.mounted = FALSE, !.fade = Music!NoFade, !.retry = FALSE,
                              !.want = FALSE, !.pressed = FALSE]
<1>1. /\ m \in Hooks /\ ~m.want /\ ~m.fade.on /\ m.level = music.level /\ m.volume = music.volume
  BY NoFadeIsOff DEF HookRight, Hooks
<1>2. music' = Music!Pause(m)  BY DEF Music!Unmount
<1> HIDE DEF m
<1>3. Fixed(m)  BY <1>1 DEF HookRight, Fixed
<1>4. QED  BY <1>1, <1>2, <1>3, PauseRight

LEMMA HearRight ==
  ASSUME HookRight(music), Music!HearEvent PROVE HookRight(music')
<1> DEFINE p == Head(music.events) = "play"  e == Tail(music.events)
<1>1. p \in BOOLEAN /\ e \in Seq({"play", "pause"})  BY DEF HookRight, Hooks, Music!HearEvent
<1>2. music' = [music EXCEPT !.playing = p, !.events = e]  BY DEF Music!HearEvent
<1> HIDE DEF p, e
<1>3. music' \in Hooks /\ SameSound(music', music)  BY <1>1, <1>2 DEF HookRight, Hooks, SameSound
<1>4. QED  BY <1>3, SameSoundSame

LEMMA RejectedRight ==
  ASSUME HookRight(music), Music!PlayRejected PROVE HookRight(music')
<1> DEFINE r == music.refused - 1
<1>1. r \in Nat  BY DEF HookRight, Hooks, Music!PlayRejected
<1>2. music' = [music EXCEPT !.refused = r, !.retry = TRUE]  BY DEF Music!PlayRejected
<1> HIDE DEF r
<1>3. music' \in Hooks /\ SameSound(music', music)  BY <1>1, <1>2 DEF HookRight, Hooks, SameSound
<1>4. QED  BY <1>3, SameSoundSame

LEMMA ResolvesRight ==
  ASSUME HookRight(music), Music!PlayResolves PROVE HookRight(music')
<1> DEFINE n == music.open - 1  m == [music EXCEPT !.open = n]
<1>1. n \in Nat  BY DEF HookRight, Hooks, Music!PlayResolves
<1>2. music' = IF ~m.want THEN Music!Pause(m)
               ELSE IF Supported THEN Music!fadeTo(m, m.volume, FALSE) ELSE m
  BY DEF Music!PlayResolves
<1> HIDE DEF n
<1>3. /\ m \in Hooks /\ m.want = music.want /\ m.mounted = music.mounted /\ m.exists = music.exists
      /\ m.fade = music.fade /\ m.level = music.level /\ m.volume = music.volume
  BY <1>1 DEF HookRight, Hooks
<1> HIDE DEF m
<1>4. Fixed(m) /\ (m.want => m.mounted)  BY <1>3 DEF HookRight, Fixed
<1>5. CASE ~m.want  BY <1>2, <1>3, <1>4, <1>5, PauseRight
<1>6. CASE m.want /\ ~Supported
  BY <1>2, <1>3, <1>4, <1>6 DEF HookRight
<1>7. CASE m.want /\ Supported /\ ~m.exists
  <2>1. music' = m  BY <1>2, <1>7 DEF Music!fadeTo
  <2>2. QED  BY <1>3, <1>4, <1>7, <2>1 DEF HookRight, Sounds
<1>8. CASE m.want /\ Supported /\ m.exists
  <2> DEFINE f == [to |-> m.volume, stops |-> FALSE, on |-> TRUE]
  <2>1. music' = [m EXCEPT !.fade = f]  BY <1>2, <1>8 DEF Music!fadeTo
  <2>2. f \in Fades /\ f.on /\ f.to = m.volume  BY <1>3 DEF Fades, Hooks
  <2> HIDE DEF f
  <2>3. /\ music' \in Hooks /\ music'.fade = f /\ music'.want = m.want
        /\ music'.mounted = m.mounted /\ music'.volume = m.volume
    BY <1>3, <2>1, <2>2 DEF Hooks
  <2>4. QED  BY <1>4, <1>8, <2>2, <2>3 DEF HookRight, Fixed
<1>9. QED  BY <1>3, <1>5, <1>6, <1>7, <1>8 DEF Hooks

LEMMA TickRight ==
  ASSUME HookRight(music), Music!FadeTick PROVE HookRight(music')
<1> DEFINE f == music.fade
           m == [music EXCEPT !.level = f.to, !.fade = Music!NoFade]
<1>1. f \in Fades /\ f.on /\ Supported /\ f.to \in 0 .. 2
  BY DEF HookRight, Fixed, Hooks, Fades, Music!FadeTick
<1>2. CASE music' = [music EXCEPT !.level = 1]
  <2>1. /\ music' \in Hooks /\ music'.fade = music.fade /\ music'.want = music.want
        /\ music'.mounted = music.mounted /\ music'.volume = music.volume
        /\ music'.exists = music.exists /\ music'.paused = music.paused /\ music'.open = music.open
    BY <1>2 DEF HookRight, Hooks
  <2>2. QED  BY <1>1, <2>1 DEF HookRight, Fixed, Sounds
<1>3. CASE music' = Music!FadeDone(m, f.stops)
  <2>1. /\ m \in Hooks /\ m.level = f.to /\ ~m.fade.on /\ m.want = music.want
        /\ m.mounted = music.mounted /\ m.volume = music.volume
        /\ m.exists = music.exists /\ m.paused = music.paused /\ m.open = music.open
    BY <1>1, NoFadeIsOff DEF HookRight, Hooks
  <2> HIDE DEF m
  <2>2. Fixed(m) /\ (m.want => m.mounted)  BY <1>1, <2>1 DEF HookRight, Fixed
  <2>3. CASE ~f.stops \/ m.want
    <3>1. music' = m  BY <1>3, <2>3 DEF Music!FadeDone
    <3>2. QED  BY <1>1, <2>1, <2>2, <2>3, <3>1 DEF HookRight, Sounds
  <2>4. CASE ~(~f.stops \/ m.want)
    <3> DEFINE p == Music!Pause(m)  z == Music!applyVolume(p, m.volume)
    <3>1. music' = z  BY <1>3, <2>4 DEF Music!FadeDone
    <3>2. p \in Hooks /\ p.paused /\ p.want = m.want  BY <2>1, PauseStops
    <3>3. m.volume \in 0 .. 2  BY <2>1 DEF Hooks
    <3> HIDE DEF p
    <3>4. z \in Hooks /\ z.paused /\ z.want = m.want  BY <3>2, <3>3, ApplyVolume
    <3> HIDE DEF z
    <3>5. QED  BY <1>1, <2>4, <3>1, <3>4, PausedRight DEF Fixed
  <2>5. QED  BY <2>3, <2>4
<1>4. QED  BY <1>2, <1>3 DEF Music!FadeTick

LEMMA MusicStays ==
  ASSUME HookRight(music), Music!MusicNext PROVE HookRight(music')
BY OpenRight, PointerRight, ClickRight, VolumeRight, VisibilityRight, InterruptedRight,
   SourceFailsRight, UnmountRight, HearRight, RejectedRight, ResolvesRight, TickRight
   DEF Music!MusicNext

LEMMA HookIsSilent == HookRight(music) => Music!OffIsSilent
BY DEF HookRight, Hooks, Fixed, Sounds, Music!OffIsSilent, Music!Resting, Music!Sounding

(***************************************************************************)
(* The album.                                                              *)
(***************************************************************************)
First(n) == IF n < 3 THEN n ELSE 3
Second(n) == IF n < 3 THEN 0 ELSE IF n < 8 THEN n - 3 ELSE 5
Third(n) == IF n < 8 THEN 0 ELSE n - 8

(* The three blocks share the photos out without a gap or an overlap.            *)
LEMMA BlocksOfPhotos ==
  ASSUME NEW n \in Nat
  PROVE  LET laid == Gallery!Laid(n) IN
         /\ DOMAIN laid \subseteq 1 .. 3
         /\ (1 \in DOMAIN laid <=> First(n) > 0) /\ (2 \in DOMAIN laid <=> Second(n) > 0)
         /\ (3 \in DOMAIN laid <=> Third(n) > 0)
         /\ 1 \in DOMAIN laid => laid[1] = <<0, First(n)>>
         /\ 2 \in DOMAIN laid => laid[2] = <<First(n), Second(n)>>
         /\ 3 \in DOMAIN laid => laid[3] = <<First(n) + Second(n), Third(n)>>
<1> DEFINE Count(b, offset) ==
             Gallery!AtMost(IF b = Len(Gallery!BLOCKS)
                            THEN Gallery!AtLeast(Gallery!BLOCKS[b], n - offset)
                            ELSE Gallery!BLOCKS[b], Gallery!AtLeast(0, n - offset))
           offsets == <<0, Count(1, 0), Count(1, 0) + Count(2, Count(1, 0))>>
           D == {b \in 1 .. Len(Gallery!BLOCKS) : Count(b, offsets[b]) > 0}
<1>1. Gallery!Laid(n) = [b \in D |-> <<offsets[b], Count(b, offsets[b])>>]  BY DEF Gallery!Laid
<1>2. Len(Gallery!BLOCKS) = 3 /\ Gallery!BLOCKS[1] = 3 /\ Gallery!BLOCKS[2] = 5 /\ Gallery!BLOCKS[3] = 4
  BY DEF Gallery!BLOCKS
<1>3. Count(1, 0) = First(n)  BY <1>2 DEF Gallery!AtMost, Gallery!AtLeast, First
<1>4. Count(2, First(n)) = Second(n)  BY <1>2 DEF Gallery!AtMost, Gallery!AtLeast, First, Second
<1>5. Count(3, First(n) + Second(n)) = Third(n)
  BY <1>2 DEF Gallery!AtMost, Gallery!AtLeast, First, Second, Third
<1>6. offsets[1] = 0 /\ offsets[2] = First(n) /\ offsets[3] = First(n) + Second(n)
  BY <1>3, <1>4
<1> HIDE DEF Count, offsets
<1>7. D \subseteq 1 .. 3 /\ (1 \in D <=> First(n) > 0) /\ (2 \in D <=> Second(n) > 0)
      /\ (3 \in D <=> Third(n) > 0)
  BY <1>2, <1>3, <1>4, <1>5, <1>6
<1> HIDE DEF D
<1>8. QED  BY <1>1, <1>3, <1>4, <1>5, <1>6, <1>7

AlbumRight == gallery.photos \in Nat /\ gallery.index \in -1 .. gallery.photos - 1
              /\ gallery = [photos |-> gallery.photos, index |-> gallery.index]

LEMMA AlbumShown ==
  AlbumRight => Gallery!EveryPhotoHasItsCell
<1> SUFFICES ASSUME AlbumRight PROVE Gallery!EveryPhotoHasItsCell  OBVIOUS
<1> DEFINE n == gallery.photos  laid == Gallery!Laid(n)
           a == First(n)  b == Second(n)  c == Third(n)
<1>1. /\ DOMAIN laid \subseteq 1 .. 3
      /\ (1 \in DOMAIN laid <=> a > 0) /\ (2 \in DOMAIN laid <=> b > 0)
      /\ (3 \in DOMAIN laid <=> c > 0)
      /\ 1 \in DOMAIN laid => laid[1] = <<0, a>>
      /\ 2 \in DOMAIN laid => laid[2] = <<a, b>>
      /\ 3 \in DOMAIN laid => laid[3] = <<a + b, c>>
  BY BlocksOfPhotos DEF AlbumRight
<1>2. n \in Nat /\ gallery.index \in -1 .. n - 1  BY DEF AlbumRight
<1>3. a \in Nat /\ b \in Nat /\ c \in Nat /\ a + b + c = n  BY <1>2 DEF First, Second, Third
<1> HIDE DEF a, b, c, laid, n
<1>4. ASSUME NEW i \in 0 .. n - 1
      PROVE  \E d \in DOMAIN laid :
               /\ i \in laid[d][1] .. laid[d][1] + laid[d][2] - 1
               /\ \A e \in DOMAIN laid \ {d} : i \notin laid[e][1] .. laid[e][1] + laid[e][2] - 1
  <2>1. CASE i < a
    <3>1. 1 \in DOMAIN laid /\ i \in laid[1][1] .. laid[1][1] + laid[1][2] - 1
      BY <1>1, <1>2, <1>3, <1>4, <2>1
    <3>2. \A e \in DOMAIN laid \ {1} : i \notin laid[e][1] .. laid[e][1] + laid[e][2] - 1
      BY <1>1, <1>2, <1>3, <1>4, <2>1
    <3>3. QED  BY <3>1, <3>2
  <2>2. CASE a <= i /\ i < a + b
    <3>1. 2 \in DOMAIN laid /\ i \in laid[2][1] .. laid[2][1] + laid[2][2] - 1
      BY <1>1, <1>2, <1>3, <1>4, <2>2
    <3>2. \A e \in DOMAIN laid \ {2} : i \notin laid[e][1] .. laid[e][1] + laid[e][2] - 1
      BY <1>1, <1>2, <1>3, <1>4, <2>2
    <3>3. QED  BY <3>1, <3>2
  <2>3. CASE a + b <= i
    <3>1. 3 \in DOMAIN laid /\ i \in laid[3][1] .. laid[3][1] + laid[3][2] - 1
      BY <1>1, <1>2, <1>3, <1>4, <2>3
    <3>2. \A e \in DOMAIN laid \ {3} : i \notin laid[e][1] .. laid[e][1] + laid[e][2] - 1
      BY <1>1, <1>2, <1>3, <1>4, <2>3
    <3>3. QED  BY <3>1, <3>2
  <2>4. QED  BY <1>2, <1>3, <1>4, <2>1, <2>2, <2>3
<1>5. \A d \in DOMAIN laid : laid[d][1] + laid[d][2] <= n
  BY <1>1, <1>2, <1>3
<1>6. QED  BY <1>2, <1>4, <1>5 DEF Gallery!EveryPhotoHasItsCell, n, laid

LEMMA AlbumStays ==
  ASSUME MaxAlbum \in Nat, AlbumRight, Gallery!GalleryNext PROVE AlbumRight'
<1> DEFINE n == gallery.photos
<1>1. n \in Nat /\ gallery.index \in -1 .. n - 1 /\ gallery = [photos |-> n, index |-> gallery.index]
  BY DEF AlbumRight
<1>2. ASSUME NEW k \in 1 .. MaxAlbum, Gallery!ShowPhotos(k) PROVE AlbumRight'
  BY <1>1, <1>2 DEF AlbumRight, Gallery!ShowPhotos
<1>3. ASSUME NEW b \in 1 .. Len(Gallery!BLOCKS), NEW k \in 0 .. MaxAlbum, Gallery!OpenPhoto(b, k)
      PROVE  AlbumRight'
  <2> DEFINE laid == Gallery!Laid(n)
  <2>1. b \in DOMAIN laid /\ k < laid[b][2] /\ gallery' = [gallery EXCEPT !.index = laid[b][1] + k]
    BY <1>3 DEF Gallery!OpenPhoto
  <2>2. laid[b][1] \in Nat /\ laid[b][2] \in Nat /\ laid[b][1] + laid[b][2] <= n
    <3>1. /\ DOMAIN laid \subseteq 1 .. 3
          /\ 1 \in DOMAIN laid => laid[1] = <<0, First(n)>>
          /\ 2 \in DOMAIN laid => laid[2] = <<First(n), Second(n)>>
          /\ 3 \in DOMAIN laid => laid[3] = <<First(n) + Second(n), Third(n)>>
      BY <1>1, BlocksOfPhotos
    <3>2. /\ First(n) \in Nat /\ Second(n) \in Nat /\ Third(n) \in Nat
          /\ First(n) + Second(n) + Third(n) = n
      BY <1>1 DEF First, Second, Third
    <3> HIDE DEF laid, n
    <3>3. QED  BY <2>1, <3>1, <3>2
  <2> HIDE DEF laid
  <2>3. QED  BY <1>1, <2>1, <2>2 DEF AlbumRight
<1>4. ASSUME NEW step \in {-1, 1}, Gallery!Turn(step) PROVE AlbumRight'
  <2> DEFINE k == (gallery.index + n + step) % n
  <2>1. n > 0 /\ gallery.index + n + step \in Int  BY <1>1, <1>4 DEF Gallery!Turn
  <2>2. k \in 0 .. n - 1  BY <1>1, <2>1
  <2>3. gallery' = [gallery EXCEPT !.index = k]  BY <1>4 DEF Gallery!Turn
  <2> HIDE DEF k
  <2>4. QED  BY <1>1, <2>2, <2>3 DEF AlbumRight
<1>5. ASSUME Gallery!CloseViewer PROVE AlbumRight'
  BY <1>1, <1>5 DEF AlbumRight, Gallery!CloseViewer
<1>6. QED  BY <1>2, <1>3, <1>4, <1>5 DEF Gallery!GalleryNext

(***************************************************************************)
(* The answers: server, pages and saves on the wire.                       *)
(***************************************************************************)
TokenRows == [id : Nat, trusted : BOOLEAN]
Answers == [name : Names \cup {NoOne}, by : Invitees, rsvp : Choices \cup {NoOne}]
Timers == [name : Names, rsvp : Choices \cup {NoOne}]

(* One identity for each invitee is enough.                                      *)
Identities == 1 .. Cardinality(Invitees)

Servers == [token : [Invitees -> TokenRows \cup {NoOne}],
            answers : [Identities -> Answers \cup {NoOne}], next : Nat]
RsvpPages == [visits : Nat, phase : {"closed", "resolving", "ready", "error"},
              name : Names \cup {NoOne}, rsvp : Choices \cup {NoOne}, saved : Names \cup {NoOne},
              edited : BOOLEAN, timer : Timers \cup {NoOne}, sent : Nat]
Saves == [from : Invitees, visit : Nat, name : Names, rsvp : Choices \cup {NoOne},
          undo : Names \cup {NoOne}]

(* The guests whose token is trusted with an identity.                         *)
TrustedBy(d) == {g \in Invitees : d.token[g] # NoOne /\ d.token[g].trusted}

(* One identity was ever made for each trusted guest, and only that guest's      *)
(* answer stands under it.                                                    *)
ServerRight(d) ==
  /\ d \in Servers /\ d.next = Cardinality(TrustedBy(d)) + 1
  /\ \A g \in Invitees : d.token[g] # NoOne => d.token[g].id \in 1 .. d.next - 1
  /\ \A g, h \in TrustedBy(d) : d.token[g].id = d.token[h].id => g = h
  /\ \A i \in Identities : i >= d.next => d.answers[i] = NoOne
  /\ \A g \in TrustedBy(d) :
       d.answers[d.token[g].id] # NoOne => d.answers[d.token[g].id].by = g

LEMMA IdentitiesSuffice ==
  ASSUME NEW d, ServerRight(d)
  PROVE  /\ d.next \in Nat /\ d.next >= 1 /\ IsFiniteSet(TrustedBy(d))
         /\ \A g \in Invitees : d.token[g] # NoOne => d.token[g].id \in Identities
         /\ \A g \in Invitees \ TrustedBy(d) : d.next \in Identities
<1> DEFINE T == TrustedBy(d)
<1>1. IsFiniteSet(Invitees) /\ T \in SUBSET Invitees
  BY InvitationAssumption DEF InvitationConstants, TokenRows, Answers, TrustedBy
<1> HIDE DEF T
<1>2. /\ IsFiniteSet(T) /\ Cardinality(T) <= Cardinality(Invitees)
      /\ Cardinality(Invitees) = Cardinality(T) => Invitees = T
  BY <1>1, FS_Subset
<1>3. Cardinality(T) \in Nat /\ Cardinality(Invitees) \in Nat  BY <1>1, <1>2, FS_CardinalityType
<1>4. d.next = Cardinality(T) + 1  BY DEF ServerRight, T
<1>5. Identities = 1 .. Cardinality(Invitees)  BY DEF Identities
<1>6. \A g \in Invitees \ T : d.next \in Identities
  <2> TAKE g \in Invitees \ T
  <2>1. Cardinality(T) # Cardinality(Invitees)  BY <1>2
  <2>2. QED  BY <1>2, <1>3, <1>4, <1>5, <2>1
<1>7. \A g \in Invitees : d.token[g] # NoOne => d.token[g].id \in 1 .. d.next - 1
  BY DEF ServerRight
<1>8. \A i \in 1 .. d.next - 1 : i \in Identities  BY <1>2, <1>3, <1>4, <1>5
<1>9. QED  BY <1>2, <1>3, <1>4, <1>6, <1>7, <1>8 DEF T

(* A guest without a trusted token is given the next identity.                   *)
LEMMA NewIdentity ==
  ASSUME NEW d, ServerRight(d), NEW g \in Invitees, g \notin TrustedBy(d), NEW e \in Servers,
         e.token = [d.token EXCEPT ![g] = [id |-> d.next, trusted |-> TRUE]],
         e.answers = d.answers, e.next = d.next + 1
  PROVE  ServerRight(e) /\ TrustedBy(e) = TrustedBy(d) \cup {g}
<1> DEFINE row == [id |-> d.next, trusted |-> TRUE]
<1>1. /\ d.token \in [Invitees -> TokenRows \cup {NoOne}] /\ d.next \in Nat
      /\ d.answers \in [Identities -> Answers \cup {NoOne}]
  BY DEF ServerRight, Servers
<1>a. row \in TokenRows /\ row.trusted /\ row.id = d.next  BY <1>1 DEF TokenRows
<1>2. row \in TokenRows /\ row # NoOne /\ row.trusted /\ row.id = d.next
  BY <1>a, InvitationAssumption DEF InvitationConstants, TokenRows, Answers
<1> HIDE DEF row
<1>3. e.token[g] = row /\ \A h \in Invitees \ {g} : e.token[h] = d.token[h]  BY <1>1 DEF row
<1>4. TrustedBy(e) = TrustedBy(d) \cup {g}  BY <1>2, <1>3 DEF TrustedBy
<1>5. IsFiniteSet(TrustedBy(d)) /\ d.next >= 1  BY IdentitiesSuffice
<1>6. Cardinality(TrustedBy(e)) = Cardinality(TrustedBy(d)) + 1  BY <1>4, <1>5, FS_AddElement
<1>7. e.next = Cardinality(TrustedBy(e)) + 1  BY <1>6 DEF ServerRight
<1>8. \A h \in Invitees : e.token[h] # NoOne => e.token[h].id \in 1 .. e.next - 1
  BY <1>1, <1>2, <1>3, <1>5 DEF ServerRight
<1>9. \A h, k \in TrustedBy(e) : e.token[h].id = e.token[k].id => h = k
  <2>1. \A h \in TrustedBy(d) : h # g /\ h \in Invitees /\ d.token[h].id \in 1 .. d.next - 1
    BY DEF ServerRight, TrustedBy
  <2>2. \A h \in TrustedBy(d) : e.token[h].id # d.next  BY <1>1, <1>3, <2>1
  <2>3. \A h, k \in TrustedBy(d) : e.token[h].id = e.token[k].id => h = k
    BY <1>3, <2>1 DEF ServerRight
  <2>4. QED  BY <1>2, <1>3, <1>4, <2>2, <2>3
<1>10. \A i \in Identities : i >= e.next => e.answers[i] = NoOne
  <2> SUFFICES ASSUME NEW i \in Identities, i >= d.next + 1 PROVE d.answers[i] = NoOne
    OBVIOUS
  <2>1. i \in Int  BY DEF Identities
  <2>2. QED  BY <1>1, <2>1 DEF ServerRight
<1>11. \A h \in TrustedBy(e) :
         e.answers[e.token[h].id] # NoOne => e.answers[e.token[h].id].by = h
  <2>1. d.next \in Identities  BY IdentitiesSuffice
  <2>2. d.answers[d.next] = NoOne  BY <1>1, <2>1 DEF ServerRight
  <2>3. \A h \in TrustedBy(d) : h # g /\ h \in Invitees  BY DEF TrustedBy
  <2>4. \A h \in TrustedBy(d) : e.token[h] = d.token[h]  BY <1>3, <2>3
  <2>5. QED  BY <1>2, <1>3, <1>4, <2>2, <2>4 DEF ServerRight
<1>12. QED  BY <1>4, <1>7, <1>8, <1>9, <1>10, <1>11 DEF ServerRight

(* A guest without a token may be lent the only identity there is.               *)
LEMMA LentIdentity ==
  ASSUME NEW d, ServerRight(d), NEW g \in Invitees, d.token[g] = NoOne, d.next = 2,
         NEW e \in Servers, e.token = [d.token EXCEPT ![g] = [id |-> 1, trusted |-> FALSE]],
         e.answers = d.answers, e.next = d.next
  PROVE  ServerRight(e) /\ TrustedBy(e) = TrustedBy(d)
<1> DEFINE row == [id |-> 1, trusted |-> FALSE]
<1>1. d.token \in [Invitees -> TokenRows \cup {NoOne}]  BY DEF ServerRight, Servers
<1>2. ~row.trusted /\ row.id = 1  OBVIOUS
<1> HIDE DEF row
<1>3. e.token[g] = row /\ \A h \in Invitees \ {g} : e.token[h] = d.token[h]  BY <1>1 DEF row
<1>4. TrustedBy(e) = TrustedBy(d)  BY <1>2, <1>3 DEF TrustedBy
<1>5. \A h \in Invitees : e.token[h] # NoOne => e.token[h].id \in 1 .. e.next - 1
  BY <1>2, <1>3 DEF ServerRight
<1>6. \A h \in TrustedBy(d) : h # g /\ h \in Invitees  BY DEF TrustedBy
<1>7. \A h \in TrustedBy(d) : e.token[h] = d.token[h]  BY <1>3, <1>6
<1>8. QED  BY <1>4, <1>5, <1>7 DEF ServerRight

(* A trusted guest writes under the guest's own identity.                        *)
LEMMA OwnAnswer ==
  ASSUME NEW d, ServerRight(d), NEW g \in TrustedBy(d), NEW a \in Answers, a.by = g,
         NEW e \in Servers, e.token = d.token, e.next = d.next,
         e.answers[d.token[g].id] = a,
         \A i \in Identities \ {d.token[g].id} : e.answers[i] = d.answers[i]
  PROVE  /\ ServerRight(e) /\ TrustedBy(e) = TrustedBy(d) /\ e.answers[d.token[g].id] = a
         /\ \A h \in TrustedBy(d) \ {g} : e.answers[d.token[h].id] = d.answers[d.token[h].id]
<1> DEFINE k == d.token[g].id
<1>1. TrustedBy(e) = TrustedBy(d)  BY DEF TrustedBy
<1>2. g \in Invitees /\ d.token[g] # NoOne  BY DEF TrustedBy
<1>3. k \in Identities /\ k \in 1 .. d.next - 1  BY <1>2, IdentitiesSuffice DEF ServerRight
<1>4. d.answers \in [Identities -> Answers \cup {NoOne}] /\ d.next \in Nat
  BY DEF ServerRight, Servers
<1>5. e.answers[k] = a /\ \A i \in Identities \ {k} : e.answers[i] = d.answers[i]
  BY <1>3, <1>4
<1>6. \A h \in TrustedBy(d) \ {g} : d.token[h].id \in Identities \ {k}
  <2> TAKE h \in TrustedBy(d) \ {g}
  <2>1. h \in Invitees /\ d.token[h] # NoOne  BY DEF TrustedBy
  <2>2. d.token[h].id \in Identities  BY <2>1, IdentitiesSuffice
  <2>3. d.token[h].id # k  BY DEF ServerRight
  <2>4. QED  BY <2>2, <2>3
<1> HIDE DEF k
<1>7. \A i \in Identities : i >= e.next => e.answers[i] = NoOne
  <2> SUFFICES ASSUME NEW i \in Identities, i >= d.next PROVE e.answers[i] = NoOne
    OBVIOUS
  <2>1. i \in Int /\ i # k  BY <1>3, <1>4 DEF Identities
  <2>2. QED  BY <1>5, <2>1 DEF ServerRight
<1>8. \A h \in TrustedBy(d) :
        e.answers[d.token[h].id] # NoOne => e.answers[d.token[h].id].by = h
  BY <1>5, <1>6 DEF ServerRight, k
<1>9. ServerRight(e)  BY <1>1, <1>7, <1>8 DEF ServerRight
<1>10. QED  BY <1>1, <1>5, <1>6, <1>9 DEF k

-----------------------------------------------------------------------------
ChoseRight(g, d, c) ==
  /\ c # NoOne <=> g \in TrustedBy(d) /\ d.answers[d.token[g].id] # NoOne
  /\ c # NoOne /\ c # <<NoOne>> => d.answers[d.token[g].id].rsvp # NoOne

PageRight(g, d, u, c) ==
  /\ u.phase = "ready" => d.token[g] # NoOne
  /\ u.timer # NoOne => u.phase = "ready"
  /\ ~u.edited /\ (u.phase # "ready" \/ c = NoOne) => u.name = NoOne

Acknowledged == {<<v>> : v \in Choices \cup {NoOne}} \cup {NoOne}

RsvpRight ==
  /\ ServerRight(identity) /\ rsvp \in [Invitees -> RsvpPages] /\ saves \subseteq Saves
  /\ chose \in [Invitees -> Acknowledged]
  /\ \A g \in Invitees : ChoseRight(g, identity, chose[g])
  /\ \A g \in Invitees : PageRight(g, identity, rsvp[g], chose[g])
  /\ \A s \in saves : identity.token[s.from] # NoOne

LEMMA RsvpIsOnesOwn == RsvpRight => Rsvp!AnswersAreOnesOwn
<1> SUFFICES ASSUME RsvpRight, NEW g \in Invitees
             PROVE  /\ chose[g] # NoOne =>
                         LET row == identity.token[g]  answer == identity.answers[row.id] IN
                           /\ row.trusted /\ answer # NoOne /\ answer.by = g
                           /\ chose[g] # <<NoOne>> => answer.rsvp # NoOne
                    /\ chose[g] = NoOne /\ rsvp[g].phase = "ready" /\ ~rsvp[g].edited
                         => rsvp[g].name = NoOne
  BY DEF Rsvp!AnswersAreOnesOwn
<1>1. ChoseRight(g, identity, chose[g]) /\ PageRight(g, identity, rsvp[g], chose[g])
  BY DEF RsvpRight
<1>2. g \in TrustedBy(identity) =>
        /\ identity.token[g].trusted
        /\ identity.answers[identity.token[g].id] # NoOne =>
             identity.answers[identity.token[g].id].by = g
  BY DEF RsvpRight, ServerRight, TrustedBy
<1>3. QED  BY <1>1, <1>2 DEF ChoseRight, PageRight

LEMMA RsvpStarts == Rsvp!RsvpInit => RsvpRight
<1> SUFFICES ASSUME Rsvp!RsvpInit PROVE RsvpRight  OBVIOUS
<1>1. /\ identity = [token |-> [g \in Invitees |-> NoOne],
                     answers |-> [i \in Identities |-> NoOne], next |-> 1]
      /\ rsvp = [g \in Invitees |-> Rsvp!Page] /\ saves = {}
      /\ chose = [g \in Invitees |-> NoOne]
  BY DEF Rsvp!RsvpInit, Identities
<1>2. identity \in Servers  BY <1>1 DEF Servers
<1>3. TrustedBy(identity) = {} /\ identity.next = 1 /\ \A g \in Invitees : identity.token[g] = NoOne
  BY <1>1 DEF TrustedBy
<1>4. \A i \in Identities : identity.answers[i] = NoOne  BY <1>1
<1>5. ServerRight(identity)  BY <1>2, <1>3, <1>4, FS_EmptySet DEF ServerRight
<1>6. /\ Rsvp!Page \in RsvpPages /\ Rsvp!Page.phase = "closed" /\ Rsvp!Page.timer = NoOne
      /\ Rsvp!Page.name = NoOne
  BY DEF Rsvp!Page, RsvpPages
<1>7. /\ rsvp \in [Invitees -> RsvpPages] /\ chose \in [Invitees -> Acknowledged]
      /\ \A g \in Invitees : rsvp[g] = Rsvp!Page /\ chose[g] = NoOne
  BY <1>1, <1>6 DEF Acknowledged
<1>8. \A g \in Invitees : ChoseRight(g, identity, chose[g])
  BY <1>3, <1>7 DEF ChoseRight
<1>9. \A g \in Invitees : PageRight(g, identity, rsvp[g], chose[g])
  BY <1>6, <1>7 DEF PageRight
<1>10. QED  BY <1>1, <1>5, <1>7, <1>8, <1>9 DEF RsvpRight

(* Arming the timer touches nothing else of the page.                           *)
LEMMA RearmKeeps ==
  ASSUME NEW u \in RsvpPages
  PROVE  LET r == Rsvp!Rearm(u) IN
         /\ r \in RsvpPages /\ r.phase = u.phase /\ r.name = u.name /\ r.edited = u.edited
         /\ r.timer # NoOne => r.phase = "ready"
<1> DEFINE t == IF u.phase = "ready" /\ u.edited /\ u.name # NoOne /\ u.name # u.saved
                THEN [name |-> u.name, rsvp |-> u.rsvp] ELSE NoOne
           r == Rsvp!Rearm(u)
<1>1. t \in Timers \cup {NoOne} /\ (t # NoOne => u.phase = "ready")  BY DEF RsvpPages, Timers
<1>2. r = [u EXCEPT !.timer = t]  BY DEF Rsvp!Rearm
<1> HIDE DEF t, r
<1>3. r \in RsvpPages /\ r.timer = t /\ r.phase = u.phase /\ r.name = u.name /\ r.edited = u.edited
  BY <1>1, <1>2 DEF RsvpPages
<1>4. QED  BY <1>1, <1>3 DEF r

(* A step of one page that leaves the server alone.                             *)
LEMMA PageStep ==
  ASSUME RsvpRight, NEW g \in Invitees, NEW u \in RsvpPages,
         PageRight(g, identity, u, chose[g]), rsvp' = [rsvp EXCEPT ![g] = u],
         UNCHANGED <<identity, chose>>, saves' \subseteq Saves,
         \A s \in saves' : identity.token[s.from] # NoOne
  PROVE  RsvpRight'
<1>1. /\ rsvp' \in [Invitees -> RsvpPages]
      /\ rsvp'[g] = u /\ \A h \in Invitees \ {g} : rsvp'[h] = rsvp[h]
  BY DEF RsvpRight
<1>2. identity' = identity /\ chose' = chose  OBVIOUS
<1>3. \A h \in Invitees : PageRight(h, identity, rsvp'[h], chose[h])  BY <1>1 DEF RsvpRight
<1>4. ServerRight(identity') /\ chose' \in [Invitees -> Acknowledged]  BY <1>2 DEF RsvpRight
<1>5. \A h \in Invitees : ChoseRight(h, identity', chose'[h]) /\ PageRight(h, identity', rsvp'[h], chose'[h])
  BY <1>2, <1>3 DEF RsvpRight
<1>6. QED  BY <1>1, <1>2, <1>4, <1>5 DEF RsvpRight

LEMMA OpenInviteRight ==
  ASSUME RsvpRight, NEW g \in Invitees, Rsvp!OpenInvite(g) PROVE RsvpRight'
<1> DEFINE n == rsvp[g].visits + 1  k == rsvp[g].sent
           u == [Rsvp!Page EXCEPT !.visits = n, !.sent = k, !.phase = "resolving"]
<1>1. n \in Nat /\ k \in Nat  BY DEF RsvpRight, RsvpPages
<1>2. /\ Rsvp!Page \in RsvpPages /\ Rsvp!Page.timer = NoOne /\ Rsvp!Page.name = NoOne
  BY DEF Rsvp!Page, RsvpPages
<1> HIDE DEF n, k
<1>3. u \in RsvpPages /\ u.timer = NoOne /\ u.name = NoOne /\ u.phase = "resolving"
  BY <1>1, <1>2 DEF RsvpPages
<1>4. rsvp' = [rsvp EXCEPT ![g] = u] /\ UNCHANGED <<identity, saves, chose>>
  BY DEF Rsvp!OpenInvite, n, k
<1> HIDE DEF u
<1>5. PageRight(g, identity, u, chose[g])  BY <1>3 DEF PageRight
<1>6. QED  BY <1>3, <1>4, <1>5, PageStep DEF RsvpRight

LEMMA ResolveFailsRight ==
  ASSUME RsvpRight, NEW g \in Invitees, Rsvp!ResolveFails(g) PROVE RsvpRight'
<1> DEFINE u == [rsvp[g] EXCEPT !.phase = "error"]
<1>1. rsvp[g] \in RsvpPages /\ rsvp[g].phase = "resolving" /\ PageRight(g, identity, rsvp[g], chose[g])
  BY DEF RsvpRight, Rsvp!ResolveFails
<1>2. /\ u \in RsvpPages /\ u.timer = rsvp[g].timer /\ u.name = rsvp[g].name /\ u.phase = "error"
      /\ u.edited = rsvp[g].edited
  BY <1>1 DEF RsvpPages
<1>3. rsvp' = [rsvp EXCEPT ![g] = u] /\ UNCHANGED <<identity, saves, chose>>
  BY DEF Rsvp!ResolveFails
<1> HIDE DEF u
<1>4. PageRight(g, identity, u, chose[g])  BY <1>1, <1>2 DEF PageRight
<1>5. QED  BY <1>2, <1>3, <1>4, PageStep DEF RsvpRight

LEMMA RetryRight ==
  ASSUME RsvpRight, NEW g \in Invitees, Rsvp!RetryIdentity(g) PROVE RsvpRight'
<1> DEFINE u == [rsvp[g] EXCEPT !.phase = "resolving"]
<1>1. rsvp[g] \in RsvpPages /\ rsvp[g].phase = "error" /\ PageRight(g, identity, rsvp[g], chose[g])
  BY DEF RsvpRight, Rsvp!RetryIdentity
<1>2. /\ u \in RsvpPages /\ u.timer = rsvp[g].timer /\ u.name = rsvp[g].name /\ u.phase = "resolving"
      /\ u.edited = rsvp[g].edited
  BY <1>1 DEF RsvpPages
<1>3. rsvp' = [rsvp EXCEPT ![g] = u] /\ UNCHANGED <<identity, saves, chose>>
  BY DEF Rsvp!RetryIdentity
<1> HIDE DEF u
<1>4. PageRight(g, identity, u, chose[g])  BY <1>1, <1>2 DEF PageRight
<1>5. QED  BY <1>2, <1>3, <1>4, PageStep DEF RsvpRight

LEMMA TypeNameRight ==
  ASSUME RsvpRight, NEW g \in Invitees, NEW name \in Names \cup {NoOne}, Rsvp!TypeName(g, name)
  PROVE  RsvpRight'
<1> DEFINE v == [rsvp[g] EXCEPT !.name = name, !.edited = TRUE]  u == Rsvp!Rearm(v)
<1>1. rsvp[g] \in RsvpPages /\ PageRight(g, identity, rsvp[g], chose[g])  BY DEF RsvpRight
<1>2. v \in RsvpPages /\ v.phase = rsvp[g].phase /\ v.edited  BY <1>1 DEF RsvpPages
<1>3. rsvp' = [rsvp EXCEPT ![g] = u] /\ UNCHANGED <<identity, saves, chose>>
  BY DEF Rsvp!TypeName
<1> HIDE DEF v
<1>4. u \in RsvpPages /\ u.phase = v.phase /\ u.edited = v.edited /\ (u.timer # NoOne => u.phase = "ready")
  BY <1>2, RearmKeeps
<1> HIDE DEF u
<1>5. PageRight(g, identity, u, chose[g])  BY <1>1, <1>2, <1>4 DEF PageRight
<1>6. QED  BY <1>3, <1>4, <1>5, PageStep DEF RsvpRight

LEMMA DebounceRight ==
  ASSUME RsvpRight, NEW g \in Invitees, Rsvp!DebounceFires(g) PROVE RsvpRight'
<1> DEFINE due == rsvp[g].timer  k == rsvp[g].sent + 1
           u == [rsvp[g] EXCEPT !.timer = NoOne, !.saved = due.name, !.sent = k]
           s == [from |-> g, visit |-> rsvp[g].visits, name |-> due.name, rsvp |-> due.rsvp,
                 undo |-> rsvp[g].saved]
<1>1. rsvp[g] \in RsvpPages /\ PageRight(g, identity, rsvp[g], chose[g])  BY DEF RsvpRight
<1>2. due \in Timers /\ due # NoOne  BY <1>1 DEF RsvpPages, Rsvp!DebounceFires
<1>3. s \in Saves /\ k \in Nat /\ due.name \in Names  BY <1>1, <1>2 DEF RsvpPages, Saves, Timers
<1>4. saves' = saves \cup {s} /\ rsvp' = [rsvp EXCEPT ![g] = u] /\ UNCHANGED <<identity, chose>>
  BY DEF Rsvp!DebounceFires, Rsvp!Save
<1>5. s.from = g  OBVIOUS
<1>6. identity.token[g] # NoOne  BY <1>1, <1>2 DEF PageRight
<1> HIDE DEF due, k, s
<1>7. /\ u \in RsvpPages /\ u.timer = NoOne /\ u.name = rsvp[g].name /\ u.phase = rsvp[g].phase
      /\ u.edited = rsvp[g].edited
  BY <1>1, <1>3 DEF RsvpPages
<1> HIDE DEF u
<1>8. PageRight(g, identity, u, chose[g])  BY <1>1, <1>7 DEF PageRight
<1>9. saves' \subseteq Saves /\ \A q \in saves' : identity.token[q.from] # NoOne
  BY <1>3, <1>4, <1>5, <1>6 DEF RsvpRight
<1>10. QED  BY <1>4, <1>7, <1>8, <1>9, PageStep

LEMMA ChooseRight ==
  ASSUME RsvpRight, NEW g \in Invitees, NEW v \in Choices, Rsvp!Choose(g, v) PROVE RsvpRight'
<1> DEFINE p == rsvp[g]  k == rsvp[g].sent + 1
           u == [rsvp[g] EXCEPT !.saved = rsvp[g].name, !.rsvp = v, !.sent = k]
           w == IF v = rsvp[g].rsvp THEN u ELSE Rsvp!Rearm(u)
           s == [from |-> g, visit |-> rsvp[g].visits, name |-> rsvp[g].name, rsvp |-> v,
                 undo |-> NoOne]
<1>1. p \in RsvpPages /\ PageRight(g, identity, p, chose[g])  BY DEF RsvpRight
<1>2. p.phase = "ready" /\ p.name # NoOne  BY DEF Rsvp!Choose
<1>3. s \in Saves /\ k \in Nat /\ p.name \in Names /\ s.from = g
  BY <1>1, <1>2 DEF RsvpPages, Saves
<1>4. saves' = saves \cup {s} /\ rsvp' = [rsvp EXCEPT ![g] = w] /\ UNCHANGED <<identity, chose>>
  BY DEF Rsvp!Choose, Rsvp!Save
<1>5. identity.token[g] # NoOne  BY <1>1, <1>2 DEF PageRight
<1> HIDE DEF k, s
<1>6. /\ u \in RsvpPages /\ u.timer = p.timer /\ u.name = p.name /\ u.phase = p.phase
      /\ u.edited = p.edited
  BY <1>1, <1>3 DEF RsvpPages
<1> HIDE DEF u, p
<1>7. /\ w \in RsvpPages /\ (w.timer # NoOne => w.phase = "ready") /\ w.name = p.name
      /\ w.phase = p.phase /\ w.edited = p.edited
  BY <1>2, <1>6, RearmKeeps
<1> HIDE DEF w
<1>8. PageRight(g, identity, w, chose[g])  BY <1>1, <1>5, <1>7 DEF PageRight
<1>9. saves' \subseteq Saves /\ \A q \in saves' : identity.token[q.from] # NoOne
  BY <1>3, <1>4, <1>5 DEF RsvpRight
<1>10. QED  BY <1>4, <1>7, <1>8, <1>9, PageStep

LEMMA SaveLostRight ==
  ASSUME RsvpRight, NEW s \in saves, Rsvp!SaveLost(s) PROVE RsvpRight'
<1> DEFINE g == s.from  u == [rsvp[g] EXCEPT !.saved = s.undo]
<1>1. s \in Saves /\ g \in Invitees /\ s.undo \in Names \cup {NoOne}  BY DEF RsvpRight, Saves
<1>2. rsvp[g] \in RsvpPages /\ PageRight(g, identity, rsvp[g], chose[g])  BY <1>1 DEF RsvpRight
<1>3. /\ u \in RsvpPages /\ u.timer = rsvp[g].timer /\ u.name = rsvp[g].name
      /\ u.phase = rsvp[g].phase /\ u.edited = rsvp[g].edited
  BY <1>1, <1>2 DEF RsvpPages
<1>4. saves' \subseteq saves /\ UNCHANGED <<identity, chose>>  BY DEF Rsvp!SaveLost
<1>5. saves' \subseteq Saves /\ \A q \in saves' : identity.token[q.from] # NoOne
  BY <1>4 DEF RsvpRight
<1>6. CASE rsvp' = rsvp
  <2>1. rsvp' = [rsvp EXCEPT ![g] = rsvp[g]]  BY <1>1, <1>6 DEF RsvpRight
  <2>2. QED  BY <1>1, <1>2, <1>4, <1>5, <2>1, PageStep
<1>7. CASE rsvp' = [rsvp EXCEPT ![g].saved = s.undo]
  <2>1. rsvp' = [rsvp EXCEPT ![g] = u]  BY <1>7
  <2> HIDE DEF u, g
  <2>2. PageRight(g, identity, u, chose[g])  BY <1>2, <1>3 DEF PageRight
  <2>3. QED  BY <1>1, <1>3, <1>4, <1>5, <2>1, <2>2, PageStep
<1>8. QED  BY <1>6, <1>7 DEF Rsvp!SaveLost

-----------------------------------------------------------------------------
(* The server once g's token points at row.                                     *)
Given(d, g, row) ==
  [token |-> [d.token EXCEPT ![g] = row], answers |-> d.answers,
   next |-> IF row.id = d.next THEN d.next + 1 ELSE d.next]

Offered(d, g, row) ==
  \/ row = d.token[g] /\ row # NoOne
  \/ row = [id |-> 1, trusted |-> FALSE] /\ d.token[g] = NoOne /\ d.next = 2
  \/ row = [id |-> d.next, trusted |-> TRUE] /\ g \notin TrustedBy(d)

LEMMA TokenGiven ==
  ASSUME RsvpRight, NEW g \in Invitees, NEW row, Offered(identity, g, row), NEW e,
         e = Given(identity, g, row)
  PROVE  /\ ServerRight(e) /\ e.token[g] = row /\ row # NoOne /\ e.answers = identity.answers
         /\ \A h \in Invitees : identity.token[h] # NoOne => e.token[h] # NoOne
         /\ \A h \in Invitees : ChoseRight(h, e, chose[h])
         /\ row.trusted => g \in TrustedBy(e)
<1>1. /\ ServerRight(identity) /\ identity \in Servers
      /\ \A h \in Invitees : ChoseRight(h, identity, chose[h])
  BY DEF RsvpRight, ServerRight
<1>2. /\ identity.token \in [Invitees -> TokenRows \cup {NoOne}] /\ identity.next \in Nat
      /\ identity.answers \in [Identities -> Answers \cup {NoOne}]
      /\ identity = [token |-> identity.token, answers |-> identity.answers, next |-> identity.next]
  BY <1>1 DEF Servers
<1>3. row \in TokenRows
  <2>1. row = identity.token[g] /\ row # NoOne => row \in TokenRows  BY <1>2
  <2>2. [id |-> 1, trusted |-> FALSE] \in TokenRows  BY DEF TokenRows
  <2>3. [id |-> identity.next, trusted |-> TRUE] \in TokenRows  BY <1>2 DEF TokenRows
  <2>4. QED  BY <2>1, <2>2, <2>3 DEF Offered
<1>4. row # NoOne  BY <1>3, InvitationAssumption DEF InvitationConstants, TokenRows, Answers
<1>5. /\ e.token = [identity.token EXCEPT ![g] = row] /\ e.answers = identity.answers
      /\ e.next = IF row.id = identity.next THEN identity.next + 1 ELSE identity.next
      /\ e = [token |-> e.token, answers |-> e.answers, next |-> e.next]
  BY DEF Given
<1>6. e.token[g] = row /\ \A h \in Invitees \ {g} : e.token[h] = identity.token[h]
  BY <1>2, <1>5
<1>7. e \in Servers
  <2>1. e.token \in [Invitees -> TokenRows \cup {NoOne}]  BY <1>2, <1>3, <1>5
  <2>2. e.next \in Nat  BY <1>2, <1>5
  <2>3. QED  BY <1>2, <1>5, <2>1, <2>2 DEF Servers
<1>8. CASE row = identity.token[g]
  <2>1. row.id # identity.next  BY <1>1, <1>2, <1>4, <1>8 DEF ServerRight
  <2>2. e.token = identity.token /\ e.next = identity.next  BY <1>2, <1>5, <1>8, <2>1
  <2>3. e = identity  BY <1>2, <1>5, <2>2
  <2>4. row.trusted => g \in TrustedBy(e)  BY <1>4, <1>6 DEF TrustedBy
  <2>5. QED  BY <1>1, <1>4, <1>5, <1>6, <2>3, <2>4
<1>9. CASE row = [id |-> 1, trusted |-> FALSE] /\ identity.token[g] = NoOne /\ identity.next = 2
  <2>1. ~row.trusted /\ e.next = identity.next  BY <1>5, <1>9
  <2>2. e.token = [identity.token EXCEPT ![g] = [id |-> 1, trusted |-> FALSE]]  BY <1>5, <1>9
  <2>3. ServerRight(e) /\ TrustedBy(e) = TrustedBy(identity)
    BY <1>1, <1>5, <1>7, <1>9, <2>1, <2>2, LentIdentity
  <2>4. \A h \in TrustedBy(identity) : e.token[h] = identity.token[h]  BY <1>6, <1>9 DEF TrustedBy
  <2>5. \A h \in Invitees : ChoseRight(h, e, chose[h])
    BY <1>1, <1>5, <2>3, <2>4 DEF ChoseRight
  <2>6. QED  BY <1>4, <1>5, <1>6, <2>1, <2>3, <2>5
<1>10. CASE row = [id |-> identity.next, trusted |-> TRUE] /\ g \notin TrustedBy(identity)
  <2>1. row.id = identity.next /\ e.next = identity.next + 1  BY <1>5, <1>10
  <2>2. e.token = [identity.token EXCEPT ![g] = [id |-> identity.next, trusted |-> TRUE]]
    BY <1>5, <1>10
  <2>3. ServerRight(e) /\ TrustedBy(e) = TrustedBy(identity) \cup {g}
    BY <1>1, <1>5, <1>7, <1>10, <2>1, <2>2, NewIdentity
  <2>4. \A h \in TrustedBy(identity) : e.token[h] = identity.token[h]  BY <1>6, <1>10 DEF TrustedBy
  <2>5. identity.next \in Identities  BY <1>1, <1>10, IdentitiesSuffice
  <2>6. e.answers[e.token[g].id] = NoOne
    BY <1>1, <1>2, <1>5, <1>6, <2>1, <2>5 DEF ServerRight
  <2>7. chose[g] = NoOne  BY <1>1, <1>10 DEF ChoseRight
  <2>8. ChoseRight(g, e, chose[g])  BY <2>6, <2>7 DEF ChoseRight
  <2>9. \A h \in Invitees \ {g} : ChoseRight(h, e, chose[h])
    BY <1>1, <1>5, <2>3, <2>4 DEF ChoseRight
  <2>10. QED  BY <1>4, <1>5, <1>6, <2>3, <2>8, <2>9
<1>11. QED  BY <1>8, <1>9, <1>10 DEF Offered

LEMMA ResolvedRight ==
  ASSUME RsvpRight, NEW g \in Invitees, Rsvp!Resolved(g) PROVE RsvpRight'
<1>0. PICK row : row = Rsvp!TokenRow(g)  OBVIOUS
<1> DEFINE profile == Rsvp!ProfileFor(g)
           u == [rsvp[g] EXCEPT !.phase = "ready"]
           w == IF profile = NoOne THEN u ELSE [u EXCEPT !.name = profile.name, !.rsvp = profile.rsvp]
           z == Rsvp!Rearm(w)
<1>1. /\ ServerRight(identity) /\ identity \in Servers /\ ChoseRight(g, identity, chose[g])
      /\ rsvp[g] \in RsvpPages /\ PageRight(g, identity, rsvp[g], chose[g])
  BY DEF RsvpRight, ServerRight
<1>2. /\ identity.token \in [Invitees -> TokenRows \cup {NoOne}] /\ identity.next \in Nat
      /\ identity.answers \in [Identities -> Answers \cup {NoOne}]
  BY <1>1 DEF Servers
<1>3. rsvp[g].phase = "resolving"  BY DEF Rsvp!Resolved
<1>4. Offered(identity, g, row)  BY <1>0 DEF Rsvp!TokenRow, Offered, TrustedBy
<1>5. profile \in Answers \cup {NoOne} /\ (profile # NoOne => chose[g] # NoOne)
  <2>1. CASE ~(identity.token[g] # NoOne /\ identity.token[g].trusted)
    BY <2>1 DEF Rsvp!ProfileFor
  <2>2. CASE identity.token[g] # NoOne /\ identity.token[g].trusted
    <3>1. g \in TrustedBy(identity) /\ profile = identity.answers[identity.token[g].id]
      BY <2>2 DEF TrustedBy, Rsvp!ProfileFor
    <3>2. identity.token[g].id \in Identities  BY <1>1, <2>2, IdentitiesSuffice
    <3> HIDE DEF profile
    <3>3. QED  BY <1>1, <1>2, <3>1, <3>2 DEF ChoseRight
  <2>3. QED  BY <2>1, <2>2
<1>6. identity' = Given(identity, g, row)
  BY <1>0, <1>1 DEF Rsvp!Resolved, Given, Servers
<1>e. PICK e : e = identity'  OBVIOUS
<1>7. rsvp' = [rsvp EXCEPT ![g] = z] /\ UNCHANGED <<saves, chose>>  BY DEF Rsvp!Resolved
<1> HIDE DEF profile
<1>8. u \in RsvpPages /\ u.phase = "ready" /\ u.name = rsvp[g].name /\ u.edited = rsvp[g].edited
  BY <1>1 DEF RsvpPages
<1> HIDE DEF u
<1>9. /\ w \in RsvpPages /\ w.phase = "ready" /\ w.edited = rsvp[g].edited
      /\ chose[g] = NoOne => w.name = rsvp[g].name
  <2>1. CASE profile = NoOne  BY <1>8, <2>1
  <2>2. CASE profile # NoOne
    <3> DEFINE n == profile.name  r == profile.rsvp
    <3>1. n \in Names \cup {NoOne} /\ r \in Choices \cup {NoOne}  BY <1>5, <2>2 DEF Answers
    <3> HIDE DEF n, r
    <3>2. w = [u EXCEPT !.name = n, !.rsvp = r]  BY <2>2 DEF n, r
    <3> HIDE DEF w
    <3>3. w \in RsvpPages /\ w.phase = "ready" /\ w.edited = rsvp[g].edited
      BY <1>8, <3>1, <3>2 DEF RsvpPages
    <3>4. QED  BY <1>5, <2>2, <3>3
  <2>3. QED  BY <2>1, <2>2
<1> HIDE DEF w
<1>10. z \in RsvpPages /\ z.phase = w.phase /\ z.edited = w.edited /\ z.name = w.name
  BY <1>9, RearmKeeps
<1> HIDE DEF z
<1>11. /\ ServerRight(identity') /\ identity'.token[g] # NoOne
       /\ \A h \in Invitees : identity.token[h] # NoOne => identity'.token[h] # NoOne
       /\ \A h \in Invitees : ChoseRight(h, identity', chose[h])
  BY <1>4, <1>6, <1>e, TokenGiven
<1>12. PageRight(g, identity', z, chose[g])
  BY <1>1, <1>3, <1>9, <1>10, <1>11 DEF PageRight
<1>13. rsvp' \in [Invitees -> RsvpPages] /\ rsvp'[g] = z /\ \A h \in Invitees \ {g} : rsvp'[h] = rsvp[h]
  BY <1>7, <1>10 DEF RsvpRight
<1>14. \A h \in Invitees : PageRight(h, identity', rsvp'[h], chose[h])
  BY <1>11, <1>12, <1>13 DEF RsvpRight, PageRight
<1>15. saves \subseteq Saves /\ \A s \in saves : identity'.token[s.from] # NoOne
  BY <1>11 DEF RsvpRight, Saves
<1>16. QED  BY <1>7, <1>11, <1>13, <1>14, <1>15 DEF RsvpRight

LEMMA SaveArrivesRight ==
  ASSUME RsvpRight, NEW s \in saves, Rsvp!SaveArrives(s) PROVE RsvpRight'
<1>0. PICK g, row : g = s.from /\ row = Rsvp!RowFor(g)  OBVIOUS
<1>c. PICK old, a : old = identity.answers[row.id] /\ a = Rsvp!Stored(s, old)  OBVIOUS
<1> DEFINE c == IF s.rsvp = NoOne /\ chose[g] # NoOne THEN chose[g] ELSE <<s.rsvp>>
<1>1. /\ s \in Saves /\ g \in Invitees /\ s.name \in Names /\ s.rsvp \in Choices \cup {NoOne}
      /\ identity.token[g] # NoOne
  BY <1>0 DEF RsvpRight, Saves
<1>2. Offered(identity, g, row) /\ row.trusted  BY <1>0, <1>1 DEF Rsvp!RowFor, Offered, TrustedBy
<1>3. /\ identity' = [identity EXCEPT !.token[g] = row,
                        !.next = IF row.id = identity.next THEN identity.next + 1 ELSE identity.next,
                        !.answers[row.id] = a]
      /\ chose' = [chose EXCEPT ![g] = c] /\ rsvp' = rsvp /\ saves' = saves \ {s}
  BY <1>0, <1>c DEF Rsvp!SaveArrives
<1>4. identity \in Servers  BY DEF RsvpRight, ServerRight
<1> HIDE DEF c
<1>5. /\ identity'.token = [identity.token EXCEPT ![g] = row]
      /\ identity'.next = IF row.id = identity.next THEN identity.next + 1 ELSE identity.next
      /\ identity'.answers = [identity.answers EXCEPT ![row.id] = a]
      /\ identity' = [token |-> identity'.token, answers |-> identity'.answers, next |-> identity'.next]
  BY <1>3, <1>4 DEF Servers
<1>a. PICK e : e = Given(identity, g, row)  OBVIOUS
<1>6. /\ ServerRight(e) /\ e.token[g] = row /\ row # NoOne /\ e.answers = identity.answers
      /\ \A h \in Invitees : identity.token[h] # NoOne => e.token[h] # NoOne
      /\ \A h \in Invitees : ChoseRight(h, e, chose[h])
      /\ g \in TrustedBy(e)
  BY <1>1, <1>2, <1>a, TokenGiven
<1>7. e.token = identity'.token /\ e.next = identity'.next  BY <1>5, <1>a DEF Given
<1>8. row.id \in Identities /\ e \in Servers  BY <1>1, <1>6, IdentitiesSuffice DEF ServerRight
<1>9. identity.answers \in [Identities -> Answers \cup {NoOne}] /\ old \in Answers \cup {NoOne} /\ e.answers \in [Identities -> Answers \cup {NoOne}]
  BY <1>4, <1>6, <1>8, <1>c DEF Servers
<1>10. /\ a \in Answers /\ a.by = g
       /\ a.rsvp = IF s.rsvp = NoOne /\ old # NoOne THEN old.rsvp ELSE s.rsvp
  <2>1. a = [name |-> s.name, by |-> g,
             rsvp |-> IF s.rsvp = NoOne /\ old # NoOne THEN old.rsvp ELSE s.rsvp]
    BY <1>0, <1>c DEF Rsvp!Stored
  <2>2. old # NoOne => old.rsvp \in Choices \cup {NoOne}  BY <1>9 DEF Answers
  <2>3. QED  BY <1>1, <2>1, <2>2 DEF Answers
<1>11. identity' \in Servers
  <2>1. identity'.answers \in [Identities -> Answers \cup {NoOne}]  BY <1>5, <1>9, <1>10
  <2>2. identity'.token \in [Invitees -> TokenRows \cup {NoOne}] /\ identity'.next \in Nat
    BY <1>7, <1>8 DEF Servers
  <2>3. QED  BY <1>5, <2>1, <2>2 DEF Servers
<1>b. PICK f : f = identity'  OBVIOUS
<1>12. f \in Servers /\ f.token = e.token /\ f.next = e.next
       /\ f.answers[e.token[g].id] = a
       /\ \A i \in Identities \ {e.token[g].id} : f.answers[i] = e.answers[i]
  BY <1>5, <1>6, <1>7, <1>8, <1>9, <1>11, <1>b
<1>13. /\ ServerRight(f) /\ TrustedBy(f) = TrustedBy(e) /\ f.answers[e.token[g].id] = a
       /\ \A h \in TrustedBy(e) \ {g} : f.answers[e.token[h].id] = e.answers[e.token[h].id]
  BY <1>6, <1>10, <1>12, OwnAnswer
<1>14. a # NoOne /\ c # NoOne /\ c \in Acknowledged
  <2>1. a # NoOne  BY <1>10, InvitationAssumption DEF InvitationConstants, TokenRows, Answers
  <2>2. <<s.rsvp>> \in Acknowledged /\ <<s.rsvp>> # NoOne
    BY <1>1, InvitationAssumption DEF InvitationConstants, TokenRows, Answers, Acknowledged
  <2>3. chose[g] \in Acknowledged  BY <1>1 DEF RsvpRight
  <2>4. QED  BY <2>1, <2>2, <2>3 DEF c
<1>15. ChoseRight(g, f, c)
  <2>1. ChoseRight(g, e, chose[g]) /\ old = e.answers[e.token[g].id]  BY <1>1, <1>6, <1>c
  <2>2. c # <<NoOne>> => a.rsvp # NoOne
    BY <1>6, <1>10, <2>1 DEF c, ChoseRight
  <2>3. QED  BY <1>6, <1>12, <1>13, <1>14, <2>2 DEF ChoseRight
<1>16. \A h \in Invitees \ {g} : ChoseRight(h, f, chose[h])
  BY <1>6, <1>12, <1>13 DEF ChoseRight
<1>17. /\ chose' \in [Invitees -> Acknowledged] /\ chose'[g] = c
       /\ \A h \in Invitees \ {g} : chose'[h] = chose[h]
  BY <1>1, <1>3, <1>14 DEF RsvpRight
<1>18. \A h \in Invitees : ChoseRight(h, f, chose'[h])  BY <1>15, <1>16, <1>17
<1>19. \A h \in Invitees : PageRight(h, f, rsvp[h], chose'[h])
  <2> SUFFICES ASSUME NEW h \in Invitees PROVE PageRight(h, f, rsvp[h], chose'[h])  OBVIOUS
  <2>1. PageRight(h, identity, rsvp[h], chose[h])  BY DEF RsvpRight
  <2>2. identity.token[h] # NoOne => f.token[h] # NoOne  BY <1>6, <1>12
  <2>3. chose'[h] = NoOne => chose[h] = NoOne  BY <1>14, <1>17
  <2>4. QED  BY <2>1, <2>2, <2>3 DEF PageRight
<1>20. saves' \subseteq Saves /\ \A q \in saves' : f.token[q.from] # NoOne
  BY <1>3, <1>6, <1>12 DEF RsvpRight, Saves
<1>21. QED  BY <1>3, <1>b, <1>13, <1>17, <1>18, <1>19, <1>20 DEF RsvpRight

LEMMA RsvpStays ==
  ASSUME RsvpRight, Rsvp!RsvpNext PROVE RsvpRight'
BY OpenInviteRight, ResolvedRight, ResolveFailsRight, RetryRight, DebounceRight, TypeNameRight,
   ChooseRight, SaveArrivesRight, SaveLostRight DEF Rsvp!RsvpNext

(***************************************************************************)
(* The wall of wishes.                                                     *)
(***************************************************************************)
Texts == Lines \cup {NoOne}
WallRows == [id : Nat, text : Texts, guest : BOOLEAN, ident : BOOLEAN]
ListRows == [id : Nat, text : Texts]
Posts == [text : Texts, guest : BOOLEAN, ident : BOOLEAN]
Patches == [id : Nat, text : Texts, token : BOOLEAN, guest : BOOLEAN, ident : BOOLEAN]
Walls ==
  [open : BOOLEAN, opens : Nat, guest : BOOLEAN, ident : BOOLEAN, list : Seq(ListRows),
   sent : BOOLEAN, myTokens : SUBSET Nat, editable : SUBSET Nat, mine : {"none", "asked"},
   editing : Nat \cup {NoOne}, draft : Texts, saving : BOOLEAN, error : BOOLEAN,
   post : Posts \cup {NoOne}, patch : Patches \cup {NoOne}, edits : Nat, torn : BOOLEAN]

(* The server numbers its wishes as they come, and keeps the newest first.         *)
WallRight(w) == w \in Seq(WallRows) /\ \A i \in 1 .. Len(w) : w[i].id = Len(w) + 1 - i

TextOf(w, id) == w[Len(w) + 1 - id].text

(* A list of named wishes the wall has, each once and (unless an answer was lost)  *)
(* as the wall has it, and at most one the server has not named.                 *)
ListRight(w, l, torn) ==
  /\ l \in Seq(ListRows)
  /\ \A i \in 1 .. Len(l) : l[i].id \in 0 .. Len(w)
  /\ \A i, j \in 1 .. Len(l) : l[i].id = l[j].id => i = j
  /\ ~torn => \A i \in 1 .. Len(l) : l[i].id # 0 => l[i].text = TextOf(w, l[i].id)

ComponentRight(w, u) ==
  /\ u \in Walls /\ ListRight(w, u.list, u.torn)
  /\ ~u.sent => \A i \in 1 .. Len(u.list) : u.list[i].id # 0
  /\ u.post # NoOne =>
       u.sent /\ \A i \in 1 .. Len(u.list) : u.list[i].id = 0 => u.list[i].text = u.post.text
  /\ u.editable \subseteq 1 .. Len(w)
  /\ u.editing # NoOne => u.editing \in 1 .. Len(w)
  /\ u.patch # NoOne => u.patch.id \in 1 .. Len(w)

WishesRight == WallRight(wall) /\ tokens \subseteq 1 .. Len(wall) /\ ComponentRight(wall, wishes)

LEMMA StoredAt ==
  ASSUME WallRight(wall), NEW id \in 1 .. Len(wall)
  PROVE  Wishes!Stored(id) = wall[Len(wall) + 1 - id]
<1> DEFINE n == Len(wall)  at == CHOOSE i \in DOMAIN wall : wall[i].id = id
<1>1. n \in Nat /\ DOMAIN wall = 1 .. n /\ \A i \in 1 .. n : wall[i].id = n + 1 - i
  BY DEF WallRight
<1>2. n + 1 - id \in 1 .. n /\ wall[n + 1 - id].id = id  BY <1>1
<1>3. at \in 1 .. n /\ wall[at].id = id  BY <1>1, <1>2
<1>4. Wishes!Stored(id) = wall[at]  BY DEF Wishes!Stored
<1> HIDE DEF at, n
<1>5. at = n + 1 - id  BY <1>1, <1>3
<1>6. QED  BY <1>4, <1>5 DEF n

LEMMA WishesMatch == WishesRight => Wishes!WallMatchesServer
<1> SUFFICES ASSUME WishesRight PROVE Wishes!WallMatchesServer  OBVIOUS
<1> DEFINE l == wishes.list
<1>1. WallRight(wall) /\ ListRight(wall, l, wishes.torn)  BY DEF WishesRight, ComponentRight
<1> HIDE DEF l
<1>2. DOMAIN l = 1 .. Len(l) /\ Len(l) \in Nat /\ Len(wall) \in Nat
  BY <1>1 DEF ListRight, WallRight
<1>3. \A i, j \in DOMAIN l : l[i].id = l[j].id => i = j  BY <1>1, <1>2 DEF ListRight
<1>4. ASSUME ~wishes.torn, NEW i \in DOMAIN l, l[i].id # 0
      PROVE  l[i].text = Wishes!Stored(l[i].id).text
  <2>1. l[i].id \in 1 .. Len(wall)  BY <1>1, <1>2, <1>4 DEF ListRight
  <2>2. l[i].text = TextOf(wall, l[i].id)  BY <1>1, <1>2, <1>4 DEF ListRight
  <2>3. QED  BY <1>1, <2>1, <2>2, StoredAt DEF TextOf
<1>5. QED  BY <1>3, <1>4 DEF Wishes!WallMatchesServer, Wishes!Local, l

LEMMA WishesStart == Wishes!WishesInit => WishesRight
<1> SUFFICES ASSUME Wishes!WishesInit PROVE WishesRight  OBVIOUS
<1>1. wall = <<>> /\ tokens = {} /\ wishes = Wishes!Closed  BY DEF Wishes!WishesInit
<1>2. /\ Wishes!Closed \in Walls /\ Wishes!Closed.list = <<>> /\ Wishes!Closed.editable = {}
      /\ Wishes!Closed.editing = NoOne /\ Wishes!Closed.patch = NoOne /\ Wishes!Closed.post = NoOne
  BY EmptySeq DEF Wishes!Closed, Walls, Texts
<1>3. Len(<<>>) = 0 /\ <<>> \in Seq(WallRows) /\ <<>> \in Seq(ListRows)  OBVIOUS
<1>4. WallRight(<<>>) /\ ListRight(<<>>, <<>>, Wishes!Closed.torn)
  BY <1>3 DEF WallRight, ListRight
<1>5. QED  BY <1>1, <1>2, <1>3, <1>4 DEF WishesRight, ComponentRight

(* A step of the page that leaves its list, and what it has sent, alone.           *)
LEMMA QuietRight ==
  ASSUME WishesRight, NEW u \in Walls, wishes' = u, wall' = wall, tokens' = tokens,
         u.list = wishes.list, u.torn = wishes.torn, u.sent = wishes.sent,
         u.post = wishes.post \/ u.post = NoOne,
         u.editable \subseteq 1 .. Len(wall),
         u.editing # NoOne => u.editing \in 1 .. Len(wall),
         u.patch # NoOne => u.patch.id \in 1 .. Len(wall)
  PROVE  WishesRight'
<1>1. ComponentRight(wall, u)  BY DEF WishesRight, ComponentRight
<1>2. QED  BY <1>1 DEF WishesRight

LEMMA RowsOfWall ==
  ASSUME WallRight(wall)
  PROVE  /\ ListRight(wall, Wishes!Rows(wall), FALSE)
         /\ \A i \in 1 .. Len(Wishes!Rows(wall)) : Wishes!Rows(wall)[i].id # 0
<1> DEFINE n == Len(wall)  l == Wishes!Rows(wall)
<1>1. /\ n \in Nat /\ DOMAIN wall = 1 .. n /\ \A i \in 1 .. n : wall[i] \in WallRows
      /\ \A i \in 1 .. n : wall[i].id = n + 1 - i
  BY DEF WallRight
<1>2. l = [i \in 1 .. n |-> [id |-> wall[i].id, text |-> wall[i].text]]
  BY <1>1 DEF Wishes!Rows, Wishes!Row
<1>3. \A i \in 1 .. n : wall[i].id \in Nat /\ wall[i].text \in Texts  BY <1>1 DEF WallRows
<1> HIDE DEF l, n
<1>4. l \in Seq(ListRows) /\ Len(l) = n /\ DOMAIN l = 1 .. n
  <2>1. \A i \in 1 .. n : l[i] \in ListRows  BY <1>2, <1>3 DEF ListRows
  <2>2. QED  BY <1>1, <1>2, <2>1
<1>5. \A i \in 1 .. n : l[i].id = n + 1 - i /\ l[i].text = wall[i].text  BY <1>1, <1>2
<1>6. \A i \in 1 .. n : l[i].id \in 1 .. n /\ n + 1 - l[i].id = i  BY <1>1, <1>5
<1>7. \A i \in 1 .. n : l[i].text = TextOf(wall, l[i].id)  BY <1>5, <1>6 DEF TextOf, n
<1>8. \A i, j \in 1 .. n : l[i].id = l[j].id => i = j  BY <1>1, <1>5
<1>9. QED  BY <1>1, <1>4, <1>6, <1>7, <1>8 DEF ListRight, l, n

LEMMA OpenWallRight ==
  ASSUME WishesRight, NEW personal \in BOOLEAN, Wishes!OpenWall(personal) PROVE WishesRight'
<1> DEFINE l == Wishes!Rows(wall)  n == wishes.opens + 1  k == wishes.edits
           m == IF personal THEN "asked" ELSE "none"
           u == [Wishes!Closed EXCEPT !.open = TRUE, !.opens = n, !.guest = personal, !.list = l,
                                      !.myTokens = tokens, !.editable = tokens, !.mine = m,
                                      !.edits = k]
<1>1. WallRight(wall) /\ tokens \subseteq 1 .. Len(wall) /\ wishes \in Walls /\ Len(wall) \in Nat
  BY DEF WishesRight, ComponentRight, WallRight
<1>2. ListRight(wall, l, FALSE) /\ \A i \in 1 .. Len(l) : l[i].id # 0  BY <1>1, RowsOfWall
<1>3. /\ Wishes!Closed \in Walls /\ Wishes!Closed.editing = NoOne /\ Wishes!Closed.patch = NoOne
      /\ Wishes!Closed.post = NoOne /\ ~Wishes!Closed.torn
  BY EmptySeq DEF Wishes!Closed, Walls, Texts
<1>4. /\ n \in Nat /\ k \in Nat /\ m \in {"none", "asked"} /\ l \in Seq(ListRows)
      /\ tokens \subseteq Nat
  BY <1>1, <1>2 DEF Walls, ListRight
<1>5. wishes' = u /\ wall' = wall /\ tokens' = tokens  BY DEF Wishes!OpenWall
<1> HIDE DEF l, n, k, m
<1>6. u \in Walls /\ u.list = l /\ u.editable = tokens /\ u.editing = NoOne /\ u.patch = NoOne
      /\ u.post = NoOne /\ ~u.torn
  BY <1>3, <1>4 DEF Walls
<1> HIDE DEF u
<1>7. u.torn = FALSE  BY <1>6 DEF Walls
<1>8. ComponentRight(wall, u)  BY <1>1, <1>2, <1>6, <1>7 DEF ComponentRight
<1>9. QED  BY <1>1, <1>5, <1>8 DEF WishesRight

LEMMA IdentityReadyRight ==
  ASSUME WishesRight, Wishes!IdentityReady PROVE WishesRight'
<1> DEFINE u == [wishes EXCEPT !.ident = TRUE, !.mine = "asked", !.myTokens = tokens,
                               !.editable = tokens]
<1>1. wishes \in Walls /\ tokens \subseteq 1 .. Len(wall) /\ tokens \subseteq Nat
  BY DEF WishesRight, ComponentRight, WallRight
<1>2. /\ u \in Walls /\ u.list = wishes.list /\ u.torn = wishes.torn /\ u.sent = wishes.sent
      /\ u.post = wishes.post /\ u.editable = tokens /\ u.editing = wishes.editing
      /\ u.patch = wishes.patch
  BY <1>1 DEF Walls
<1>3. wishes' = u /\ wall' = wall /\ tokens' = tokens  BY DEF Wishes!IdentityReady
<1> HIDE DEF u
<1>4. QED  BY <1>1, <1>2, <1>3, QuietRight DEF WishesRight, ComponentRight

LEMMA MineRight ==
  ASSUME WishesRight, Wishes!MineAnswers PROVE WishesRight'
<1> DEFINE e == wishes.editable \cup Wishes!Mine(wishes)
<1>1. /\ wishes \in Walls /\ wishes.editable \subseteq 1 .. Len(wall) /\ WallRight(wall)
      /\ wishes.editing # NoOne => wishes.editing \in 1 .. Len(wall)
      /\ wishes.patch # NoOne => wishes.patch.id \in 1 .. Len(wall)
  BY DEF WishesRight, ComponentRight
<1>2. Wishes!Mine(wishes) \subseteq 1 .. Len(wall)
  <2>1. /\ Len(wall) \in Nat /\ DOMAIN wall = 1 .. Len(wall)
        /\ \A i \in 1 .. Len(wall) : wall[i].id = Len(wall) + 1 - i
    BY <1>1 DEF WallRight
  <2>2. \A i \in DOMAIN wall : wall[i].id \in 1 .. Len(wall)  BY <2>1
  <2>3. QED  BY <2>2 DEF Wishes!Mine
<1>3. e \subseteq 1 .. Len(wall) /\ e \subseteq Nat  BY <1>1, <1>2 DEF WallRight
<1>4. /\ \/ wishes' = [wishes EXCEPT !.mine = "none", !.editable = e]
         \/ wishes' = [wishes EXCEPT !.mine = "none"]
      /\ wall' = wall /\ tokens' = tokens
  BY DEF Wishes!MineAnswers
<1> HIDE DEF e
<1>5. CASE wishes' = [wishes EXCEPT !.mine = "none", !.editable = e]
  <2> DEFINE u == [wishes EXCEPT !.mine = "none", !.editable = e]
  <2>1. /\ u \in Walls /\ u.list = wishes.list /\ u.torn = wishes.torn /\ u.sent = wishes.sent
        /\ u.post = wishes.post /\ u.editable = e /\ u.editing = wishes.editing
        /\ u.patch = wishes.patch
    BY <1>1, <1>3 DEF Walls
  <2>2. wishes' = u /\ wall' = wall /\ tokens' = tokens  BY <1>4, <1>5
  <2> HIDE DEF u
  <2>3. QED  BY <1>1, <1>3, <2>1, <2>2, QuietRight
<1>6. CASE wishes' = [wishes EXCEPT !.mine = "none"]
  <2> DEFINE u == [wishes EXCEPT !.mine = "none"]
  <2>1. /\ u \in Walls /\ u.list = wishes.list /\ u.torn = wishes.torn /\ u.sent = wishes.sent
        /\ u.post = wishes.post /\ u.editable = wishes.editable /\ u.editing = wishes.editing
        /\ u.patch = wishes.patch
    BY <1>1 DEF Walls
  <2>2. wishes' = u /\ wall' = wall /\ tokens' = tokens  BY <1>4, <1>6
  <2> HIDE DEF u
  <2>3. QED  BY <1>1, <2>1, <2>2, QuietRight
<1>7. QED  BY <1>4, <1>5, <1>6

LEMMA PostLostRight ==
  ASSUME WishesRight, Wishes!PostLost PROVE WishesRight'
<1> DEFINE u == [wishes EXCEPT !.post = NoOne]
<1>1. wishes \in Walls  BY DEF WishesRight, ComponentRight
<1>2. /\ u \in Walls /\ u.list = wishes.list /\ u.torn = wishes.torn /\ u.sent = wishes.sent
      /\ u.post = NoOne /\ u.editable = wishes.editable /\ u.editing = wishes.editing
      /\ u.patch = wishes.patch
  BY <1>1 DEF Walls
<1>3. wishes' = u /\ wall' = wall /\ tokens' = tokens  BY DEF Wishes!PostLost
<1> HIDE DEF u
<1>4. QED  BY <1>2, <1>3, QuietRight DEF WishesRight, ComponentRight

LEMMA StartEditRight ==
  ASSUME WishesRight, NEW i, Wishes!StartEdit(i) PROVE WishesRight'
<1> DEFINE k == wishes.list[i].id  t == wishes.list[i].text
           u == [wishes EXCEPT !.editing = k, !.draft = t, !.error = FALSE]
<1>1. wishes \in Walls /\ wishes.editable \subseteq 1 .. Len(wall)
  BY DEF WishesRight, ComponentRight
<1>2. k \in 1 .. Len(wall) /\ wishes.list[i] \in ListRows
  BY <1>1 DEF Wishes!StartEdit, WishesRight, ComponentRight, ListRight
<1>3. k \in Nat /\ t \in Texts  BY <1>2 DEF ListRows
<1>4. wishes' = u /\ wall' = wall /\ tokens' = tokens  BY DEF Wishes!StartEdit
<1> HIDE DEF k, t
<1>5. /\ u \in Walls /\ u.list = wishes.list /\ u.torn = wishes.torn /\ u.sent = wishes.sent
      /\ u.post = wishes.post /\ u.editable = wishes.editable /\ u.editing = k
      /\ u.patch = wishes.patch
  BY <1>1, <1>3 DEF Walls
<1> HIDE DEF u
<1>6. QED  BY <1>2, <1>4, <1>5, QuietRight DEF WishesRight, ComponentRight

LEMMA TypeEditRight ==
  ASSUME WishesRight, NEW text \in Lines, Wishes!TypeEdit(text) PROVE WishesRight'
<1> DEFINE u == [wishes EXCEPT !.draft = text]
<1>1. wishes \in Walls /\ text \in Texts  BY DEF WishesRight, ComponentRight, Texts
<1>2. /\ u \in Walls /\ u.list = wishes.list /\ u.torn = wishes.torn /\ u.sent = wishes.sent
      /\ u.post = wishes.post /\ u.editable = wishes.editable /\ u.editing = wishes.editing
      /\ u.patch = wishes.patch
  BY <1>1 DEF Walls
<1>3. wishes' = u /\ wall' = wall /\ tokens' = tokens  BY DEF Wishes!TypeEdit
<1> HIDE DEF u
<1>4. QED  BY <1>2, <1>3, QuietRight DEF WishesRight, ComponentRight

LEMMA CancelEditRight ==
  ASSUME WishesRight, Wishes!CancelEdit PROVE WishesRight'
<1> DEFINE u == [wishes EXCEPT !.editing = NoOne]
<1>1. wishes \in Walls  BY DEF WishesRight, ComponentRight
<1>2. /\ u \in Walls /\ u.list = wishes.list /\ u.torn = wishes.torn /\ u.sent = wishes.sent
      /\ u.post = wishes.post /\ u.editable = wishes.editable /\ u.editing = NoOne
      /\ u.patch = wishes.patch
  BY <1>1 DEF Walls
<1>3. wishes' = u /\ wall' = wall /\ tokens' = tokens  BY DEF Wishes!CancelEdit
<1> HIDE DEF u
<1>4. QED  BY <1>2, <1>3, QuietRight DEF WishesRight, ComponentRight

LEMMA SaveEditRight ==
  ASSUME WishesRight, Wishes!SaveEdit PROVE WishesRight'
<1> DEFINE p == [id |-> wishes.editing, text |-> wishes.draft,
                 token |-> wishes.editing \in wishes.myTokens,
                 guest |-> wishes.guest, ident |-> wishes.ident]
           k == wishes.edits + 1
           u == [wishes EXCEPT !.saving = TRUE, !.error = FALSE, !.edits = k, !.patch = p]
<1>1. wishes \in Walls /\ wishes.editing \in 1 .. Len(wall)
  BY DEF WishesRight, ComponentRight, Wishes!SaveEdit
<1>2. p \in Patches /\ p.id = wishes.editing /\ k \in Nat
  <2>1. wishes.editing \in Nat  BY <1>1
  <2>2. QED  BY <1>1, <2>1 DEF Walls, Patches
<1>3. wishes' = u /\ wall' = wall /\ tokens' = tokens  BY DEF Wishes!SaveEdit
<1> HIDE DEF p, k
<1>4. /\ u \in Walls /\ u.list = wishes.list /\ u.torn = wishes.torn /\ u.sent = wishes.sent
      /\ u.post = wishes.post /\ u.editable = wishes.editable /\ u.editing = wishes.editing
      /\ u.patch = p
  BY <1>1, <1>2 DEF Walls
<1> HIDE DEF u
<1>5. QED  BY <1>1, <1>2, <1>3, <1>4, QuietRight DEF WishesRight, ComponentRight

LEMMA PatchFailsRight ==
  ASSUME WishesRight, Wishes!PatchFails PROVE WishesRight'
<1> DEFINE u == [wishes EXCEPT !.patch = NoOne, !.saving = FALSE, !.error = TRUE]
<1>1. wishes \in Walls  BY DEF WishesRight, ComponentRight
<1>2. /\ u \in Walls /\ u.list = wishes.list /\ u.torn = wishes.torn /\ u.sent = wishes.sent
      /\ u.post = wishes.post /\ u.editable = wishes.editable /\ u.editing = wishes.editing
      /\ u.patch = NoOne
  BY <1>1 DEF Walls
<1>3. wishes' = u /\ wall' = wall /\ tokens' = tokens  BY DEF Wishes!PatchFails
<1> HIDE DEF u
<1>4. QED  BY <1>2, <1>3, QuietRight DEF WishesRight, ComponentRight

LEMMA SendRight ==
  ASSUME WishesRight, NEW text \in Lines, Wishes!Send(text) PROVE WishesRight'
<1>a. PICK r, p : /\ r = [id |-> 0, text |-> text]
                  /\ p = [text |-> text, guest |-> wishes.guest, ident |-> wishes.ident]
  OBVIOUS
<1>0. PICK l, m : l = wishes.list /\ m = <<r>> \o l  OBVIOUS
<1> DEFINE u == [wishes EXCEPT !.sent = TRUE, !.list = m, !.post = p]
<1>1. wishes \in Walls /\ ~wishes.sent /\ ComponentRight(wall, wishes) /\ WallRight(wall)
  BY DEF WishesRight, ComponentRight, Wishes!Send
<1>2. r \in ListRows /\ r.id = 0 /\ r.text = text /\ p \in Posts /\ p.text = text
  BY <1>a, <1>1 DEF ListRows, Posts, Walls, Texts
<1>3. wishes' = u /\ wall' = wall /\ tokens' = tokens
  BY <1>0, <1>a DEF Wishes!Send, Wishes!Local
<1>4. l \in Seq(ListRows) /\ ListRight(wall, l, wishes.torn) /\ Len(wall) \in Nat
      /\ \A i \in 1 .. Len(l) : l[i].id # 0
  BY <1>0, <1>1 DEF ComponentRight, ListRight, WallRight
<1>5. /\ m \in Seq(ListRows) /\ Len(l) \in Nat /\ Len(m) = Len(l) + 1 /\ m[1] = r
      /\ \A i \in 2 .. Len(m) : i - 1 \in 1 .. Len(l) /\ m[i] = l[i - 1]
      /\ \A i \in 1 .. Len(m) : i = 1 \/ i \in 2 .. Len(m)
  BY <1>0, <1>2, <1>4
<1>6. /\ u \in Walls /\ u.list = m /\ u.torn = wishes.torn /\ u.sent = TRUE /\ u.post = p
      /\ u.editable = wishes.editable /\ u.editing = wishes.editing /\ u.patch = wishes.patch
  BY <1>1, <1>2, <1>5 DEF Walls
<1> HIDE DEF u
<1>7. ListRight(wall, m, wishes.torn)
  <2>0. \A i \in 1 .. Len(l) : l[i].id \in 0 .. Len(wall)  BY <1>4 DEF ListRight
  <2>1. \A i \in 1 .. Len(m) : m[i].id \in 0 .. Len(wall)
    <3>1. m[1].id \in 0 .. Len(wall)  BY <1>2, <1>4, <1>5
    <3>2. \A i \in 2 .. Len(m) : m[i].id \in 0 .. Len(wall)  BY <1>5, <2>0
    <3>3. QED  BY <1>5, <3>1, <3>2
  <2>2. \A i \in 2 .. Len(m) : m[i].id # 0  BY <1>4, <1>5
  <2>3. \A i, j \in 2 .. Len(m) : m[i].id = m[j].id => i = j
    <3> TAKE i, j \in 2 .. Len(m)
    <3>1. m[i] = l[i - 1] /\ m[j] = l[j - 1] /\ i - 1 \in 1 .. Len(l) /\ j - 1 \in 1 .. Len(l)
      BY <1>5
    <3>2. l[i - 1].id = l[j - 1].id => i - 1 = j - 1  BY <1>4, <3>1 DEF ListRight
    <3>3. QED  BY <3>1, <3>2
  <2>4. \A i, j \in 1 .. Len(m) : m[i].id = m[j].id => i = j  BY <1>2, <1>5, <2>2, <2>3
  <2>5. ASSUME ~wishes.torn, NEW i \in 1 .. Len(m), m[i].id # 0
        PROVE  m[i].text = TextOf(wall, m[i].id)
    <3>1. i \in 2 .. Len(m)  BY <1>2, <1>5, <2>5
    <3>2. m[i] = l[i - 1] /\ i - 1 \in 1 .. Len(l)  BY <1>5, <3>1
    <3>3. l[i - 1].text = TextOf(wall, l[i - 1].id)  BY <1>4, <2>5, <3>2 DEF ListRight
    <3>4. QED  BY <3>2, <3>3
  <2>6. QED  BY <1>5, <2>1, <2>4, <2>5 DEF ListRight
<1>8. \A i \in 1 .. Len(m) : m[i].id = 0 => m[i].text = p.text  BY <1>2, <1>4, <1>5
<1>9. ComponentRight(wall, u)  BY <1>1, <1>6, <1>7, <1>8 DEF ComponentRight
<1>10. QED  BY <1>3, <1>9 DEF WishesRight

(* A wall that got one more wish still says what it said.                        *)
LEMMA LongerWall ==
  ASSUME NEW w, WallRight(w), NEW x \in WallRows, x.id = Len(w) + 1,
         NEW v \in Seq(WallRows), Len(v) = Len(w) + 1, v[1] = x,
         \A i \in 2 .. Len(v) : v[i] = w[i - 1]
  PROVE  /\ WallRight(v)
         /\ TextOf(v, Len(w) + 1) = x.text
         /\ \A id \in 1 .. Len(w) : TextOf(v, id) = TextOf(w, id)
<1>1. Len(w) \in Nat  BY DEF WallRight
<1>2. /\ \A i \in 2 .. Len(v) : i - 1 \in 1 .. Len(w) /\ v[i] = w[i - 1]
      /\ \A i \in 1 .. Len(v) : i = 1 \/ i \in 2 .. Len(v)
  BY <1>1
<1>3. \A i \in 2 .. Len(v) : v[i].id = Len(v) + 1 - i
  <2> TAKE i \in 2 .. Len(v)
  <2>1. v[i] = w[i - 1] /\ i - 1 \in 1 .. Len(w)  BY <1>2
  <2>2. w[i - 1].id = Len(w) + 1 - (i - 1)  BY <2>1 DEF WallRight
  <2>3. QED  BY <1>1, <2>1, <2>2
<1>4. WallRight(v)  BY <1>1, <1>2, <1>3 DEF WallRight
<1>5. TextOf(v, Len(w) + 1) = x.text  BY <1>1 DEF TextOf
<1>6. ASSUME NEW id \in 1 .. Len(w) PROVE TextOf(v, id) = TextOf(w, id)
  <2>1. Len(v) + 1 - id \in 2 .. Len(v) /\ (Len(v) + 1 - id) - 1 = Len(w) + 1 - id
    BY <1>1
  <2>2. v[Len(v) + 1 - id] = w[Len(w) + 1 - id]  BY <1>2, <2>1
  <2>3. QED  BY <2>2 DEF TextOf
<1>7. QED  BY <1>4, <1>5, <1>6

LEMMA NamedList ==
  ASSUME NEW l \in Seq(ListRows), NEW id \in Nat, NEW m, m = Wishes!Renamed(l, id)
  PROVE  /\ m \in Seq(ListRows) /\ Len(m) = Len(l)
         /\ \A i \in 1 .. Len(l) : m[i].text = l[i].text
         /\ \A i \in 1 .. Len(l) : m[i].id = IF l[i].id = 0 THEN id ELSE l[i].id
<1>1. Len(l) \in Nat /\ DOMAIN l = 1 .. Len(l) /\ \A i \in 1 .. Len(l) : l[i] \in ListRows
  OBVIOUS
<1>2. m = [i \in 1 .. Len(l) |-> IF l[i].id = 0 THEN [l[i] EXCEPT !.id = id] ELSE l[i]]
  BY <1>1 DEF Wishes!Renamed, Wishes!Local
<1>3. \A x \in ListRows :
        LET y == IF x.id = 0 THEN [x EXCEPT !.id = id] ELSE x IN
        y \in ListRows /\ y.text = x.text /\ y.id = IF x.id = 0 THEN id ELSE x.id
  BY DEF ListRows
<1>4. \A i \in 1 .. Len(l) :
        m[i] \in ListRows /\ m[i].text = l[i].text /\ m[i].id = IF l[i].id = 0 THEN id ELSE l[i].id
  <2> TAKE i \in 1 .. Len(l)
  <2>1. m[i] = IF l[i].id = 0 THEN [l[i] EXCEPT !.id = id] ELSE l[i]  BY <1>2
  <2>2. QED  BY <1>1, <1>3, <2>1
<1>5. m \in Seq(ListRows) /\ Len(m) = Len(l)  BY <1>1, <1>2, <1>4
<1>6. QED  BY <1>4, <1>5

LEMMA PostArrivesRight ==
  ASSUME WishesRight, NEW answered \in BOOLEAN, Wishes!PostArrives(answered) PROVE WishesRight'
<1>0. PICK n, p, l, w : n = Len(wall) /\ p = wishes.post /\ l = wishes.list /\ w = wall
  OBVIOUS
<1>a. PICK x : x = [id |-> n + 1, text |-> p.text, guest |-> p.guest, ident |-> p.ident]  OBVIOUS
<1>1. PICK v : v = <<x>> \o w  OBVIOUS
<1>2. /\ wishes \in Walls /\ WallRight(w) /\ ComponentRight(w, wishes) /\ tokens \subseteq 1 .. n
      /\ n \in Nat /\ p \in Posts /\ wishes.sent /\ ListRight(w, l, wishes.torn) /\ l \in Seq(ListRows)
      /\ \A i \in 1 .. Len(l) : l[i].id = 0 => l[i].text = p.text
      /\ wishes.editable \subseteq 1 .. n
  BY <1>0 DEF WishesRight, ComponentRight, WallRight, ListRight, Walls, Wishes!PostArrives
<1>3. x \in WallRows /\ x.id = n + 1 /\ x.text = p.text  BY <1>2, <1>a DEF WallRows, Posts
<1>4. /\ wall' = v /\ tokens' = IF answered THEN tokens \cup {n + 1} ELSE tokens
  BY <1>0, <1>1, <1>a DEF Wishes!PostArrives
<1>b. w \in Seq(WallRows) /\ n = Len(w)  BY <1>0, <1>2 DEF WallRight
<1>c. /\ v \in Seq(WallRows) /\ Len(v) = n + 1 /\ v[1] = x
      /\ \A i \in 2 .. Len(v) : v[i] = w[i - 1]
  BY <1>1, <1>3, <1>b
<1>5. /\ WallRight(v) /\ Len(v) = n + 1 /\ TextOf(v, n + 1) = p.text
      /\ \A id \in 1 .. n : TextOf(v, id) = TextOf(w, id)
  BY <1>2, <1>3, <1>b, <1>c, LongerWall
<1>6. tokens' \subseteq 1 .. Len(v)  BY <1>2, <1>4, <1>5
<1>7. \A i \in 1 .. Len(l) : l[i].id \in 0 .. n  BY <1>0, <1>2 DEF ListRight
<1>8. CASE ~answered
  <2> DEFINE u == [wishes EXCEPT !.post = NoOne]
  <2>1. wishes' = u  BY <1>8 DEF Wishes!PostArrives
  <2>2. /\ u \in Walls /\ u.list = l /\ u.torn = wishes.torn /\ u.sent = wishes.sent
        /\ u.post = NoOne /\ u.editable = wishes.editable /\ u.editing = wishes.editing
        /\ u.patch = wishes.patch
    BY <1>0, <1>2 DEF Walls
  <2> HIDE DEF u
  <2>3. ListRight(v, l, wishes.torn)
    <3>1. \A i \in 1 .. Len(l) : l[i].id \in 0 .. Len(v)  BY <1>2, <1>5, <1>7
    <3>2. ~wishes.torn => \A i \in 1 .. Len(l) : l[i].id # 0 => l[i].text = TextOf(v, l[i].id)
      BY <1>2, <1>5, <1>7 DEF ListRight
    <3>3. QED  BY <1>2, <3>1, <3>2 DEF ListRight
  <2>4. ComponentRight(v, u)
    BY <1>0, <1>2, <1>5, <2>2, <2>3 DEF ComponentRight
  <2>5. QED  BY <1>4, <1>5, <1>6, <2>1, <2>4 DEF WishesRight
<1>9. CASE answered
  <2>0. PICK m, e : m = Wishes!Renamed(l, n + 1) /\ e = wishes.editable \cup {n + 1}  OBVIOUS
  <2> DEFINE u == [wishes EXCEPT !.post = NoOne, !.list = m, !.editable = e]
  <2>1. wishes' = u  BY <1>0, <1>9, <2>0 DEF Wishes!PostArrives
  <2>2. /\ m \in Seq(ListRows) /\ Len(m) = Len(l)
        /\ \A i \in 1 .. Len(l) : m[i].text = l[i].text
        /\ \A i \in 1 .. Len(l) : m[i].id = IF l[i].id = 0 THEN n + 1 ELSE l[i].id
    BY <1>2, <2>0, NamedList
  <2>3. e \subseteq 1 .. n + 1 /\ e \subseteq Nat  BY <1>2, <2>0
  <2>4. /\ u \in Walls /\ u.list = m /\ u.torn = wishes.torn /\ u.sent = wishes.sent
        /\ u.post = NoOne /\ u.editable = e /\ u.editing = wishes.editing
        /\ u.patch = wishes.patch
    BY <1>2, <2>2, <2>3 DEF Walls
  <2> HIDE DEF u
  <2>5. ListRight(v, m, wishes.torn)
    <3>1. \A i \in 1 .. Len(m) : m[i].id \in 1 .. Len(v)  BY <1>2, <1>5, <1>7, <2>2
    <3>2. \A i, j \in 1 .. Len(m) : m[i].id = m[j].id => i = j
      <4> SUFFICES ASSUME NEW i \in 1 .. Len(l), NEW j \in 1 .. Len(l), m[i].id = m[j].id
                   PROVE  i = j
        BY <2>2
      <4>1. l[i].id = l[j].id  BY <1>2, <1>7, <2>2
      <4>2. QED  BY <1>2, <4>1 DEF ListRight
    <3>3. ASSUME ~wishes.torn, NEW i \in 1 .. Len(l) PROVE m[i].text = TextOf(v, m[i].id)
      <4>1. CASE l[i].id = 0  BY <1>2, <1>5, <2>2, <4>1
      <4>2. CASE l[i].id # 0
        <5>1. l[i].text = TextOf(w, l[i].id) /\ l[i].id \in 1 .. n
          BY <1>2, <1>7, <3>3, <4>2 DEF ListRight
        <5>2. QED  BY <1>5, <2>2, <4>2, <5>1
      <4>3. QED  BY <4>1, <4>2
    <3>4. QED  BY <1>2, <1>5, <2>2, <3>1, <3>2, <3>3 DEF ListRight
  <2>6. ComponentRight(v, u)
    BY <1>0, <1>2, <1>5, <2>3, <2>4, <2>5 DEF ComponentRight
  <2>7. QED  BY <1>4, <1>5, <1>6, <2>1, <2>6 DEF WishesRight
<1>10. QED  BY <1>8, <1>9

(* A saved edit rewrites the text of one wish, on the wall and in the list alike.   *)
LEMMA PatchAnswersRight ==
  ASSUME WishesRight, NEW answered \in BOOLEAN, Wishes!PatchAnswers(answered) PROVE WishesRight'
<1>0. PICK n, p, l, w, v : /\ n = Len(wall) /\ p = wishes.patch /\ l = wishes.list /\ w = wall
                           /\ v = wall'
  OBVIOUS
<1>1. /\ wishes \in Walls /\ WallRight(w) /\ ComponentRight(w, wishes) /\ tokens \subseteq 1 .. n
      /\ n \in Nat /\ n = Len(w) /\ p \in Patches /\ ListRight(w, l, wishes.torn)
      /\ l \in Seq(ListRows) /\ p.id \in 1 .. n
  BY <1>0 DEF WishesRight, ComponentRight, WallRight, ListRight, Walls, Wishes!PatchAnswers
<1>2. /\ v = [i \in 1 .. n |-> IF w[i].id = p.id THEN [w[i] EXCEPT !.text = p.text] ELSE w[i]]
      /\ tokens' = tokens
  BY <1>0, <1>1 DEF Wishes!PatchAnswers, WallRight
<1>3. /\ \A i \in 1 .. n : w[i] \in WallRows
      /\ \A i \in 1 .. n : w[i].id = n + 1 - i
  BY <1>1 DEF WallRight
<1>4. \A x \in WallRows :
        LET y == IF x.id = p.id THEN [x EXCEPT !.text = p.text] ELSE x IN
        y \in WallRows /\ y.id = x.id /\ y.text = IF x.id = p.id THEN p.text ELSE x.text
  BY <1>1 DEF WallRows, Patches
<1>5. \A i \in 1 .. n :
        v[i] \in WallRows /\ v[i].id = w[i].id /\ v[i].text = IF w[i].id = p.id THEN p.text ELSE w[i].text
  <2> TAKE i \in 1 .. n
  <2>1. v[i] = IF w[i].id = p.id THEN [w[i] EXCEPT !.text = p.text] ELSE w[i]  BY <1>2
  <2>2. QED  BY <1>3, <1>4, <2>1
<1>6. v \in Seq(WallRows) /\ Len(v) = n  BY <1>1, <1>2, <1>5
<1>7. WallRight(v)  BY <1>3, <1>5, <1>6 DEF WallRight
<1>8. \A id \in 1 .. n : TextOf(v, id) = IF id = p.id THEN p.text ELSE TextOf(w, id)
  <2> TAKE id \in 1 .. n
  <2>1. n + 1 - id \in 1 .. n  BY <1>1
  <2>2. w[n + 1 - id].id = id  BY <1>1, <1>3, <2>1
  <2>3. QED  BY <1>1, <1>5, <1>6, <2>1, <2>2 DEF TextOf
<1>9. \A i \in 1 .. Len(l) : l[i].id \in 0 .. n  BY <1>1 DEF ListRight
<1>10. CASE answered
  <2>0. PICK m : m = [i \in DOMAIN l |-> IF l[i].id = p.id THEN Wishes!Row(p) ELSE l[i]]  OBVIOUS
  <2> DEFINE u == [wishes EXCEPT !.patch = NoOne, !.saving = FALSE, !.editing = NoOne, !.list = m]
  <2>1. wishes' = u  BY <1>0, <1>10, <2>0 DEF Wishes!PatchAnswers
  <2>2. Wishes!Row(p) \in ListRows /\ Wishes!Row(p).id = p.id /\ Wishes!Row(p).text = p.text
    BY <1>1 DEF Wishes!Row, ListRows, Patches
  <2>3. Len(l) \in Nat /\ DOMAIN l = 1 .. Len(l) /\ \A i \in 1 .. Len(l) : l[i] \in ListRows
    BY <1>1
  <2>4. \A i \in 1 .. Len(l) :
          m[i] \in ListRows /\ m[i].id = l[i].id /\ m[i].text = IF l[i].id = p.id THEN p.text ELSE l[i].text
    BY <2>0, <2>2, <2>3
  <2>5. m \in Seq(ListRows) /\ Len(m) = Len(l)  BY <2>0, <2>3, <2>4
  <2>6. /\ u \in Walls /\ u.list = m /\ u.torn = wishes.torn /\ u.sent = wishes.sent
        /\ u.post = wishes.post /\ u.editable = wishes.editable /\ u.editing = NoOne
        /\ u.patch = NoOne
    BY <1>1, <2>5 DEF Walls
  <2> HIDE DEF u
  <2>7. ListRight(v, m, wishes.torn)
    <3>1. \A i \in 1 .. Len(m) : m[i].id \in 0 .. Len(v)  BY <1>6, <1>9, <2>4, <2>5
    <3>2. \A i, j \in 1 .. Len(m) : m[i].id = m[j].id => i = j  BY <1>1, <2>4, <2>5 DEF ListRight
    <3>3. ASSUME ~wishes.torn, NEW i \in 1 .. Len(l), l[i].id # 0
          PROVE  m[i].text = TextOf(v, m[i].id)
      <4>1. l[i].text = TextOf(w, l[i].id) /\ l[i].id \in 1 .. n
        BY <1>1, <1>9, <3>3 DEF ListRight
      <4>2. QED  BY <1>8, <2>4, <4>1
    <3>4. QED  BY <2>4, <2>5, <3>1, <3>2, <3>3 DEF ListRight
  <2>8. \A i \in 1 .. Len(m) : m[i].id = l[i].id /\ (m[i].id = 0 => m[i].text = l[i].text)
    BY <1>1, <2>4, <2>5
  <2>9. ComponentRight(v, u)
    BY <1>0, <1>1, <1>6, <2>5, <2>6, <2>7, <2>8 DEF ComponentRight
  <2>10. QED  BY <1>0, <1>1, <1>2, <1>6, <1>7, <2>1, <2>9 DEF WishesRight
<1>11. CASE ~answered
  <2> DEFINE u == [wishes EXCEPT !.patch = NoOne, !.saving = FALSE, !.error = TRUE, !.torn = TRUE]
  <2>1. wishes' = u  BY <1>11 DEF Wishes!PatchAnswers
  <2>2. /\ u \in Walls /\ u.list = l /\ u.torn = TRUE /\ u.sent = wishes.sent
        /\ u.post = wishes.post /\ u.editable = wishes.editable /\ u.editing = wishes.editing
        /\ u.patch = NoOne
    BY <1>0, <1>1 DEF Walls
  <2> HIDE DEF u
  <2>3. ListRight(v, l, TRUE)  BY <1>1, <1>6, <1>9 DEF ListRight
  <2>4. ComponentRight(v, u)
    BY <1>0, <1>1, <1>6, <2>2, <2>3 DEF ComponentRight
  <2>5. QED  BY <1>0, <1>1, <1>2, <1>6, <1>7, <2>1, <2>4 DEF WishesRight
<1>12. QED  BY <1>10, <1>11

LEMMA WishesStay ==
  ASSUME WishesRight, Wishes!WishesNext PROVE WishesRight'
BY OpenWallRight, IdentityReadyRight, MineRight, SendRight, PostArrivesRight, PostLostRight,
   StartEditRight, TypeEditRight, CancelEditRight, SaveEditRight, PatchAnswersRight, PatchFailsRight
   DEF Wishes!WishesNext

(***************************************************************************)
(* The page as a whole.                                                      *)
(***************************************************************************)
InvitationRight == HookRight(music) /\ RsvpRight /\ WishesRight /\ AlbumRight

LEMMA InvitationStarts == InvitationInit => InvitationRight
<1> SUFFICES ASSUME InvitationInit PROVE InvitationRight  OBVIOUS
<1>1. HookRight(music)  BY FreshRight DEF InvitationInit, Music!MusicInit
<1>2. RsvpRight  BY RsvpStarts DEF InvitationInit
<1>3. WishesRight  BY WishesStart DEF InvitationInit
<1>4. AlbumRight
  <2>1. gallery = [photos |-> 0, index |-> -1]  BY DEF InvitationInit, Gallery!GalleryInit
  <2>2. QED  BY <2>1 DEF AlbumRight
<1>5. QED  BY <1>1, <1>2, <1>3, <1>4 DEF InvitationRight

LEMMA OthersRest ==
  /\ HookRight(music) /\ UNCHANGED music => HookRight(music)'
  /\ RsvpRight /\ UNCHANGED rsvpVars => RsvpRight'
  /\ WishesRight /\ UNCHANGED wishesVars => WishesRight'
  /\ AlbumRight /\ UNCHANGED gallery => AlbumRight'
<1>1. HookRight(music) /\ UNCHANGED music => HookRight(music)'  OBVIOUS
<1>2. RsvpRight /\ UNCHANGED rsvpVars => RsvpRight'  BY DEF RsvpRight, rsvpVars
<1>3. WishesRight /\ UNCHANGED wishesVars => WishesRight'  BY DEF WishesRight, wishesVars
<1>4. AlbumRight /\ UNCHANGED gallery => AlbumRight'  BY DEF AlbumRight
<1>5. QED  BY <1>1, <1>2, <1>3, <1>4

LEMMA InvitationStays ==
  ASSUME InvitationRight, [InvitationNext]_invitationVars PROVE InvitationRight'
<1>1. HookRight(music) /\ RsvpRight /\ WishesRight /\ AlbumRight  BY DEF InvitationRight
<1>2. CASE PlayMusic
  <2>1. HookRight(music)'  BY <1>1, <1>2, MusicStays DEF PlayMusic
  <2>2. QED  BY <1>1, <1>2, <2>1, OthersRest DEF PlayMusic, InvitationRight
<1>3. CASE AnswerInvitation
  <2>1. RsvpRight'  BY <1>1, <1>3, RsvpStays DEF AnswerInvitation
  <2>2. QED  BY <1>1, <1>3, <2>1, OthersRest DEF AnswerInvitation, InvitationRight
<1>4. CASE WriteWishes
  <2>1. WishesRight'  BY <1>1, <1>4, WishesStay DEF WriteWishes
  <2>2. QED  BY <1>1, <1>4, <2>1, OthersRest DEF WriteWishes, InvitationRight
<1>5. CASE LookAtAlbum
  <2>1. MaxAlbum \in Nat  BY InvitationAssumption DEF InvitationConstants
  <2>2. AlbumRight'  BY <1>1, <1>5, <2>1, AlbumStays DEF LookAtAlbum
  <2>3. QED  BY <1>1, <1>5, <2>2, OthersRest DEF LookAtAlbum, InvitationRight
<1>6. CASE UNCHANGED invitationVars
  BY <1>1, <1>6, OthersRest DEF invitationVars, InvitationRight
<1>7. QED  BY <1>2, <1>3, <1>4, <1>5, <1>6 DEF InvitationNext

(* In every interleaving of the guest's taps, the browser's late events and       *)
(* promises, and requests that arrive, fail or overtake each other: music that    *)
(* is off falls silent and music that is on ends at its own level; two phones     *)
(* nobody can tell apart keep an answer each; the wall reads as the server has    *)
(* it unless an edit's answer was lost; every photo stands in one cell.           *)
THEOREM InvitationIsSound == InvitationSpec => []InvitationSound
<1>1. InvitationInit => InvitationRight  BY InvitationStarts
<1>2. InvitationRight /\ [InvitationNext]_invitationVars => InvitationRight'  BY InvitationStays
<1>3. InvitationRight => InvitationSound
  BY HookIsSilent, RsvpIsOnesOwn, WishesMatch, AlbumShown DEF InvitationRight, InvitationSound
<1>4. QED  BY <1>1, <1>2, <1>3, PTL DEF InvitationSpec
=============================================================================
