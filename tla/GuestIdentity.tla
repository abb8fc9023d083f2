--------------------------- MODULE GuestIdentity ---------------------------
(***************************************************************************)
(* Who opened the invitation: the identities the wedding API keeps per       *)
(* device, statement by statement under READ COMMITTED (httpapi/             *)
(* guest_identity.go).  A visit finds its device by token or fingerprint; a   *)
(* device may be marked as the couple's own, which takes its visits back out  *)
(* of guests.opened_at; a saved answer may fork a device; expired devices are  *)
(* purged and leave a summary behind.                                        *)
(*                                                                         *)
(* A request is one transaction; its writes become visible with Commit.  All   *)
(* browsers share one fingerprint, as the phones of one household do, and the  *)
(* wedding has one event.                                                    *)
(***************************************************************************)
EXTENDS Naturals, FiniteSets

CONSTANTS
  Requests,    \* slots for concurrent requests
  Tokens,      \* browsers, by the token each was issued
  Guests,      \* guests with a link of their own
  MaxDevices, MaxVisits, MaxAnswers, MaxDesk, \* bounds: rows, visits, saves, the couple's requests and purges
  Null

(* The rows of the tables, and the transactions.                            *)
Devices == 1 .. MaxDevices
Row == [id : Devices, trusted : BOOLEAN, since : 1 .. MaxVisits]
Opening == [id : Devices, guest : Guests \cup {Null}, at : 1 .. MaxVisits, by : Tokens]
Reply == [by : Tokens, rsvp : {Null, "yes"}]

VisitTx ==
  [op : {"visit"}, pc : {"looked", "identified", "changed", "scanned", "rewritten", "written"},
   who : Tokens, guest : Guests \cup {Null}, session : BOOLEAN, id : Devices, new : BOOLEAN,
   trusted : BOOLEAN, at : 1 .. MaxVisits, isAdmin : BOOLEAN, plan : SUBSET Guests,
   missed : SUBSET (Guests \cup {Null})]
AnswerTx ==
  [op : {"answer"}, pc : {"begun", "checked", "copied", "written"}, who : Tokens,
   rsvp : {Null, "yes"}, id : Devices, trusted : BOOLEAN, since : 1 .. MaxVisits,
   fork : Devices \cup {Null}, from : Row \cup {Null}, moved : SUBSET Opening, stale : BOOLEAN,
   late : BOOLEAN, borrowed : BOOLEAN]
DeskTx ==
  [op : {"admin", "unadmin", "delete"}, pc : {"begun", "changed", "scanned", "rewritten"},
   ids : SUBSET Devices, plan : SUBSET Guests, missed : SUBSET (Guests \cup {Null})]
PurgeTx ==
  [op : {"purge"}, pc : {"begun", "summed", "written"}, ids : SUBSET Devices, sums : SUBSET Guests,
   summed : SUBSET Opening]

(* Null is no device, no guest, no row and no transaction.                   *)
ASSUME IdentityConstants ==
  /\ MaxDevices \in Nat /\ MaxVisits \in Nat
  /\ Null \notin Devices /\ Null \notin Guests
  /\ Null \notin Row /\ Null \notin Reply
  /\ Null \notin VisitTx /\ Null \notin AnswerTx /\ Null \notin DeskTx /\ Null \notin PurgeTx

VARIABLES
  store,       \* the committed tables
  tx,          \* [Requests -> transaction or Null]
  used,        \* bounds spent; tokens the browsers have been given, and those with a page by the shared link
  past         \* history: choices saved, and the races named at the ends of a transaction

identityVars == <<store, tx, used, past>>

IdentityInit ==
  /\ \E rolling \in BOOLEAN :
       store = [devices |-> {}, lapsed |-> {}, admins |-> {}, tokens |-> [t \in Tokens |-> Null],
                opens |-> {}, answers |-> [d \in Devices |-> Null], opened |-> {}, legacy |-> {},
                rolling |-> rolling, over |-> FALSE]
  /\ tx = [r \in Requests |-> Null]
  /\ used = [devices |-> 0, visits |-> 0, answers |-> 0, desk |-> 0, issued |-> {}, shared |-> {}]
  /\ past = [chose |-> {}, forkedLate |-> {}, displaced |-> {}, overtaken |-> {}]

Busy == {r \in Requests : tx[r] # Null}
Others(r) == Busy \ {r}

Begin(r, t) == tx[r] = Null /\ tx' = [tx EXCEPT ![r] = t]
Step(r, t) == tx' = [tx EXCEPT ![r] = t]

(***************************************************************************)
(* Locks.  A visit updates the row of its device; a claim or an answer hangs a  *)
(* row on it, and a fork takes its token and its visits away, which only its  *)
(* deletion has to wait for.                                                *)
(***************************************************************************)
DevicesUpdated(t) == IF t.op = "visit" /\ t.pc # "looked" /\ ~t.new THEN {t.id} ELSE {}
DevicesShared(t) ==
  CASE t.op = "answer" /\ t.pc = "written" ->
         IF t.trusted THEN {t.id} ELSE (IF t.from = Null THEN {} ELSE {t.from.id}) \cup {o.id : o \in t.moved}
    [] t.op \in {"admin", "unadmin"} /\ t.pc # "begun" -> t.ids
    [] OTHER -> {}
DevicesDeleted(t) ==
  IF (t.op = "delete" /\ t.pc # "begun") \/ (t.op = "purge" /\ t.pc = "written") THEN t.ids ELSE {}

GuestsUpdated(t) ==
  CASE t.op = "visit" /\ t.pc = "written" /\ t.guest # Null /\ ~t.isAdmin -> {t.guest}
    [] t.op \in {"visit", "admin", "unadmin", "delete"} /\ t.pc \in {"rewritten", "written"}
         /\ (t.op = "visit" => t.session) -> Guests
    [] t.op = "purge" /\ t.pc # "begun" -> t.sums
    [] OTHER -> {}

MayUpdate(r, d) == \A o \in Others(r) : d \notin DevicesUpdated(tx[o]) \cup DevicesDeleted(tx[o])
MayShare(r, d) == \A o \in Others(r) : d \notin DevicesDeleted(tx[o])
MayDelete(r, ids) ==
  \A o \in Others(r) :
    ids \cap (DevicesUpdated(tx[o]) \cup DevicesShared(tx[o]) \cup DevicesDeleted(tx[o])) = {}
MayTouch(r, guests) == \A o \in Others(r) : guests \cap GuestsUpdated(tx[o]) = {}

(***************************************************************************)
(* recomputeOpened: one UPDATE of every guest.  Its subquery reads the        *)
(* snapshot of its start; it waits for the rows another transaction updates    *)
(* and then still writes what that snapshot says (EvalPlanQual).             *)
(***************************************************************************)
OpenedBy(opens, admins) == {o.guest : o \in {v \in opens : v.id \notin admins}} \ {Null}

Without(s, ids) ==
  [s EXCEPT !.devices = @ \ ids, !.lapsed = @ \ ids, !.admins = @ \ ids,
            !.tokens = [t \in Tokens |-> IF @[t] # Null /\ @[t].id \in ids THEN Null ELSE @[t]],
            !.opens = {o \in @ : o.id \notin ids},
            !.answers = [d \in Devices |-> IF d \in ids THEN Null ELSE @[d]]]

Changed(t) ==
  CASE t.op = "visit" -> [store EXCEPT !.admins = @ \cup {t.id}]
    [] t.op = "admin" -> [store EXCEPT !.admins = @ \cup (t.ids \cap store.devices)]
    [] t.op = "unadmin" -> [store EXCEPT !.admins = @ \ t.ids]
    [] OTHER -> Without(store, t.ids)

Scan(r) ==
  LET t == tx[r] IN
  /\ t # Null /\ t.pc = "changed"
  /\ Step(r, [t EXCEPT !.pc = "scanned", !.plan = OpenedBy(Changed(t).opens, Changed(t).admins)])
  /\ UNCHANGED <<store, used, past>>

Rewrite(r) ==
  /\ tx[r] # Null /\ tx[r].pc = "scanned" /\ MayTouch(r, Guests)
  /\ Step(r, [tx[r] EXCEPT !.pc = "rewritten"])
  /\ UNCHANGED <<store, used, past>>

(***************************************************************************)
(* resolveIdentity with consent.                                            *)
(***************************************************************************)
Lookup(t) ==
  LET row == store.tokens[t]
      alike == store.devices \ (store.lapsed \cup store.admins)
  IN IF row # Null THEN [id |-> row.id, new |-> FALSE, trusted |-> row.trusted]
     ELSE IF Cardinality(alike) = 1 THEN [id |-> CHOOSE d \in alike : TRUE, new |-> FALSE, trusted |-> FALSE]
     ELSE [id |-> used.devices + 1, new |-> TRUE, trusted |-> TRUE]

\* A token that no page has yet is minted by this very request.
BeginVisit(r, t, g, session) ==
  LET found == Lookup(t) IN
  /\ used.visits < MaxVisits /\ (found.new => used.devices < MaxDevices)
  /\ t \in used.issued \/ \A o \in Busy : tx[o].op = "visit" => tx[o].who # t
  /\ Begin(r, [op |-> "visit", pc |-> "looked", who |-> t, guest |-> g, session |-> session,
               id |-> found.id, new |-> found.new, trusted |-> found.trusted, at |-> used.visits + 1,
               isAdmin |-> FALSE, plan |-> {}, missed |-> {}])
  /\ used' = [used EXCEPT !.visits = @ + 1, !.devices = IF found.new THEN @ + 1 ELSE @]
  /\ UNCHANGED <<store, past>>

(* The device's row, its token, and whether it is the couple's.  A device that *)
(* is gone by now fails the foreign key of its token.                        *)
Identify(r) ==
  LET t == tx[r] IN
  /\ t # Null /\ t.op = "visit" /\ t.pc = "looked"
  /\ t.new \/ (t.id \in store.devices /\ MayUpdate(r, t.id))
  /\ Step(r, [t EXCEPT !.pc = IF t.session THEN "changed" ELSE "identified",
                       !.isAdmin = t.session \/ t.id \in store.admins])
  /\ UNCHANGED <<store, used, past>>

Marks(t) == IF t.guest # Null /\ ~t.isAdmin THEN {t.guest} ELSE {}

Open(r) ==
  LET t == tx[r] IN
  /\ t # Null /\ t.op = "visit" /\ t.pc = IF t.session THEN "rewritten" ELSE "identified"
  /\ MayTouch(r, Marks(t))
  /\ Step(r, [t EXCEPT !.pc = "written"])
  /\ UNCHANGED <<store, used, past>>

\* identityExpiry: without a date the term starts again with every visit.
VisitStored(t) ==
  LET claimed == IF t.session THEN [store EXCEPT !.admins = @ \cup {t.id}, !.opened = t.plan \cup store.legacy]
                 ELSE [store EXCEPT !.opened = @ \cup Marks(t)]
  IN [claimed EXCEPT
        !.devices = @ \cup {t.id},
        !.lapsed = IF store.rolling THEN @ \ {t.id} ELSE IF t.new /\ store.over THEN @ \cup {t.id} ELSE @,
        !.tokens[t.who] = IF @ = Null THEN [id |-> t.id, trusted |-> t.trusted, since |-> t.at] ELSE @,
        !.opens = @ \cup {[id |-> t.id, guest |-> t.guest, at |-> t.at, by |-> t.who]}]

(***************************************************************************)
(* postSharedRSVP.                                                          *)
(***************************************************************************)
BeginAnswer(r, t, rsvp) ==
  /\ used.answers < MaxAnswers /\ t \in used.shared /\ store.tokens[t] # Null
  /\ Begin(r, [op |-> "answer", pc |-> "begun", who |-> t, rsvp |-> rsvp, id |-> store.tokens[t].id,
               trusted |-> store.tokens[t].trusted, since |-> store.tokens[t].since,
               fork |-> Null, from |-> Null, moved |-> {}, stale |-> FALSE, late |-> FALSE, borrowed |-> FALSE])
  /\ used' = [used EXCEPT !.answers = @ + 1]
  /\ UNCHANGED <<store, past>>

\* Without a visit by the shared link the session is refused.
CheckOpen(r) ==
  LET t == tx[r]  visits == {o \in store.opens : o.id = tx[r].id /\ o.guest = Null} IN
  /\ t # Null /\ t.op = "answer" /\ t.pc = "begun"
  /\ Step(r, IF visits = {} THEN Null
             ELSE [t EXCEPT !.pc = "checked",
                            !.borrowed = \A o \in visits : o.by # t.who \/ (~t.trusted /\ o.at < t.since)])
  /\ UNCHANGED <<store, used, past>>

\* A device that is gone by now fails the insert of its answer.
Write(r) ==
  LET t == tx[r] IN
  /\ t # Null /\ t.op = "answer" /\ t.pc = "checked" /\ t.trusted
  /\ t.id \in store.devices /\ MayShare(r, t.id)
  /\ Step(r, [t EXCEPT !.pc = "written"])
  /\ UNCHANGED <<store, used, past>>

(* An untrusted token first gets a device of its own, a copy of the one it is   *)
(* at, then is moved to it, with the visits by the shared link since it came. *)
Copy(r) ==
  LET t == tx[r] IN
  /\ t # Null /\ t.op = "answer" /\ t.pc = "checked" /\ ~t.trusted
  /\ t.id \in store.devices /\ used.devices < MaxDevices
  /\ Step(r, [t EXCEPT !.pc = "copied", !.fork = used.devices + 1, !.stale = t.id \in store.lapsed])
  /\ used' = [used EXCEPT !.devices = @ + 1]
  /\ UNCHANGED <<store, past>>

Takes(t, who, visits) ==
  t.op = "answer" /\ t.pc = "written" /\ ~t.trusted /\ (t.who = who \/ t.moved \cap visits # {})

Take(r) ==
  LET t == tx[r]
      row == store.tokens[t.who]
      visits == {o \in store.opens : o.id = t.id /\ o.guest = Null /\ o.at >= t.since}
      taken == [t EXCEPT !.pc = "written", !.from = row, !.moved = visits,
                         !.late = row # [id |-> t.id, trusted |-> FALSE, since |-> t.since]]
  IN
  /\ t # Null /\ t.op = "answer" /\ t.pc = "copied"
  /\ \A o \in Others(r) : ~Takes(tx[o], t.who, visits)
  /\ \A d \in DevicesShared(taken) : MayShare(r, d)
  /\ Step(r, taken)
  /\ UNCHANGED <<store, used, past>>

\* Mutant: no coalesce, a name saved alone takes the choice away.
SavedAsSent(t, old) == [by |-> t.who, rsvp |-> t.rsvp]

Saved(t, old) == [by |-> t.who, rsvp |-> IF t.rsvp = Null /\ old # Null THEN old.rsvp ELSE t.rsvp]

Answered(t) ==
  IF t.trusted THEN [store EXCEPT !.answers[t.id] = Saved(t, @)]
  ELSE [store EXCEPT !.devices = @ \cup {t.fork},
          !.lapsed = @ \cup IF t.stale \/ t.id \in @ \/ store.over THEN {t.fork} ELSE {},
          !.tokens[t.who] = IF t.from # Null THEN [id |-> t.fork, trusted |-> TRUE, since |-> t.from.since] ELSE @,
          !.opens = (@ \ t.moved) \cup {[o EXCEPT !.id = t.fork] : o \in t.moved},
          !.answers[t.fork] = Saved(t, Null)]

(***************************************************************************)
(* The couple's list: a device is theirs (setIdentityAdmin, or the link of     *)
(* consumeIdentityClaim), or not; a device is deleted, or all of them.  A guest *)
(* who withdraws consent deletes the device of the token.                     *)
(***************************************************************************)
BeginDesk(r, op, ids) ==
  /\ used.desk < MaxDesk
  /\ Begin(r, [op |-> op, pc |-> "begun", ids |-> ids, plan |-> {}, missed |-> {}])
  /\ used' = [used EXCEPT !.desk = @ + 1]
  /\ UNCHANGED <<store, past>>

Change(r) ==
  LET t == tx[r] IN
  /\ t # Null /\ t.op \in {"admin", "unadmin", "delete"} /\ t.pc = "begun"
  /\ IF t.op = "delete" THEN t.ids \cap store.devices # {} /\ MayDelete(r, t.ids)
     ELSE \A d \in t.ids : MayShare(r, d)
  /\ Step(r, [t EXCEPT !.pc = "changed"])
  /\ UNCHANGED <<store, used, past>>

(* purgeExpiredIdentities.  The term of the wedding ends for every device at    *)
(* once; without a date each device has a term of its own.                    *)
Lapse ==
  /\ store.devices # {} /\ store.lapsed = {} /\ ~store.over
  /\ \E ids \in IF store.rolling THEN {{d} : d \in store.devices} ELSE {store.devices} :
       store' = [store EXCEPT !.lapsed = ids, !.over = ~store.rolling]
  /\ UNCHANGED <<tx, used, past>>

BeginPurge(r) ==
  /\ used.desk < MaxDesk /\ store.lapsed # {} /\ \A o \in Busy : tx[o].op # "purge"
  /\ Begin(r, [op |-> "purge", pc |-> "begun", ids |-> store.lapsed, sums |-> {}, summed |-> {}])
  /\ used' = [used EXCEPT !.desk = @ + 1]
  /\ UNCHANGED <<store, past>>

\* With a date, a device whose term was over when it came is expired to any purge.
Expired(t) == IF store.rolling THEN t.ids \cap store.lapsed ELSE store.lapsed

SumUp(r) ==
  LET t == tx[r]
      visits == {o \in store.opens : o.id \in Expired(t) \ store.admins}
      sums == OpenedBy(visits, {})
  IN
  /\ t # Null /\ t.op = "purge" /\ t.pc = "begun" /\ MayTouch(r, sums)
  /\ Step(r, [t EXCEPT !.pc = "summed", !.sums = sums, !.summed = visits])
  /\ UNCHANGED <<store, used, past>>

DropExpired(r) ==
  LET t == tx[r] IN
  /\ t # Null /\ t.op = "purge" /\ t.pc = "summed" /\ MayDelete(r, Expired(t))
  /\ Step(r, [t EXCEPT !.pc = "written", !.ids = Expired(t)])
  /\ UNCHANGED <<store, used, past>>

(***************************************************************************)
(* The ends of a transaction.  History: what the code does not order.         *)
(***************************************************************************)
Purged(t) == [Without(store, t.ids) EXCEPT !.legacy = @ \cup t.sums]
Recomputed(t) == [Changed(t) EXCEPT !.opened = t.plan \cup store.legacy]

(* What commits between the snapshot of a recompute and its write; a visit whose *)
(* device changed hands after it was asked about; one the purge did not sum.  *)
Touches(t) ==
  LET visits(ids) == {o.guest : o \in {v \in store.opens : v.id \in ids}} IN
  IF t.op # "visit" THEN visits(t.ids)
  ELSE {t.guest} \cup IF t.session THEN visits({t.id}) ELSE {}

Overtaken(t) ==
  CASE t.op = "visit" ->
         (IF t.session THEN t.missed ELSE past.overtaken)
           \cup (IF t.isAdmin # (t.session \/ t.id \in store.admins) THEN {t.guest} ELSE {})
    [] t.op = "purge" ->
         past.overtaken \cup OpenedBy({v \in store.opens \ t.summed : v.id \in t.ids}, store.admins)
    [] t.op = "answer" -> past.overtaken
    [] OTHER -> t.missed

Commit(r) ==
  LET t == tx[r] IN
  /\ t # Null /\ t.pc = IF t.op \in {"visit", "answer", "purge"} THEN "written" ELSE "rewritten"
  /\ store' = CASE t.op = "visit" -> VisitStored(t)
                [] t.op = "answer" -> Answered(t)
                [] t.op = "purge" -> Purged(t)
                [] OTHER -> Recomputed(t)
  /\ tx' = [o \in Requests |->
              IF o # r /\ tx[o] # Null /\ tx[o].op \notin {"answer", "purge"} /\ t.op # "answer"
                   /\ tx[o].pc \in {"scanned", "rewritten", "written"}
              THEN [tx[o] EXCEPT !.missed = @ \cup Touches(t)]
              ELSE IF o = r THEN Null ELSE tx[o]]
  /\ used' = IF t.op # "visit" THEN used
             ELSE [used EXCEPT !.issued = @ \cup {t.who}, !.shared = IF t.guest = Null THEN @ \cup {t.who} ELSE @]
  /\ past' = [past EXCEPT
       !.overtaken = Overtaken(t),
       !.chose = (IF t.op = "answer" /\ t.rsvp # Null THEN @ \cup {t.who} ELSE @)
                   \cap {k \in Tokens : store'.tokens[k] # Null},
       !.forkedLate = IF t.op = "answer" /\ t.late THEN @ \cup {t.who} ELSE @,
       !.displaced = IF t.op = "answer"
                     THEN @ \cup ({o.by : o \in t.moved} \ {t.who}) \cup (IF t.borrowed THEN {t.who} ELSE {})
                     ELSE @]

\* An error, a timeout, a closed page, or the victim of a deadlock.
Abort(r) ==
  /\ tx[r] # Null
  /\ tx' = [tx EXCEPT ![r] = Null]
  /\ UNCHANGED <<store, used, past>>

IdentityNext ==
  \/ \E r \in Requests :
       \/ \E t \in Tokens, g \in Guests \cup {Null}, session \in BOOLEAN : BeginVisit(r, t, g, session)
       \/ \E t \in Tokens, rsvp \in {Null, "yes"} : BeginAnswer(r, t, rsvp)
       \/ \E op \in {"admin", "unadmin", "delete"}, d \in store.devices : BeginDesk(r, op, {d})
       \/ store.devices # {} /\ BeginDesk(r, "delete", store.devices)
       \/ Identify(r) \/ Open(r) \/ CheckOpen(r) \/ Write(r) \/ Copy(r) \/ Take(r) \/ Change(r) \/ Scan(r) \/ Rewrite(r)
       \/ BeginPurge(r) \/ SumUp(r) \/ DropExpired(r) \/ Commit(r) \/ Abort(r)
  \/ Lapse

IdentitySpec == IdentityInit /\ [][IdentityNext]_identityVars

-----------------------------------------------------------------------------
Known == {t \in Tokens : store.tokens[t] # Null}

IdentityTypeOK ==
  /\ store.lapsed \cup store.admins \subseteq store.devices /\ store.devices \subseteq 1 .. used.devices
  /\ {store.tokens[t].id : t \in Known} \cup {o.id : o \in store.opens} \subseteq store.devices
  /\ {d \in Devices : store.answers[d] # Null} \subseteq store.devices
  /\ store.opened \cup store.legacy \subseteq Guests

(* A guest counts as having opened the invitation exactly if a device that is   *)
(* not the couple's did, or one that has expired since, whatever was claimed,   *)
(* deleted or purged meanwhile; except after one of the races named above,    *)
(* until the next recompute.                                                *)
OpenedCounts ==
  \A g \in Guests \ past.overtaken :
    g \in store.opened <=> g \in store.legacy \cup OpenedBy(store.opens, store.admins)

(* The profile a browser is shown is its own: no two browsers are trusted with  *)
(* one device, and the answer on a trusted one is its browser's.              *)
ProfileIsOnesOwn ==
  \A t \in Known : store.tokens[t].trusted =>
    /\ \A u \in Known \ {t} : store.tokens[u].trusted => store.tokens[u].id # store.tokens[t].id
    /\ LET answer == store.answers[store.tokens[t].id] IN answer # Null => answer.by = t

(* A choice that was saved stays, under the token that saved it, through saves  *)
(* of the name alone; unless two saves each forked the device.                *)
ChoiceStays ==
  \A t \in past.chose \ past.forkedLate :
    store.answers[store.tokens[t].id] # Null /\ store.answers[store.tokens[t].id].rsvp # Null

(* Every answer is on the couple's list, which lists devices by their visits    *)
(* through the shared link; unless a fork took such a visit of another browser *)
(* along, the save was let in on a visit of another browser or older than its *)
(* token, or its token's row was another by the time of the fork.            *)
AnswersAreListed ==
  \A t \in Known \ (past.displaced \cup past.forkedLate) :
    store.tokens[t].trusted /\ store.answers[store.tokens[t].id] # Null =>
      \E o \in store.opens : o.id = store.tokens[t].id /\ o.guest = Null

IdentitiesSound == OpenedCounts /\ ProfileIsOnesOwn /\ ChoiceStays /\ AnswersAreListed
=============================================================================
