---------------------------- MODULE WeddingOffice ----------------------------
(***************************************************************************)
(* The owner's page of the couples and their invitation sites                *)
(* (weddings-view.tsx), the bridge it calls wedding-api through, the handlers *)
(* it reaches there with the master's scope (admin_weddings.go,              *)
(* admin_events.go) and a couple that asks for another address of its own     *)
(* site.  A page shows what it last read; the two lists are read apart.      *)
(*                                                                         *)
(* A handler that looks before it writes does so in two steps: the probes for *)
(* a free slug, the count before a delete, the couple's check of an address.    *)
(* typed, moved and behind of a page, and decided, are history.               *)
(***************************************************************************)
EXTENDS GuestDesk

CONSTANTS
  Pages,      \* the owner's browser tabs
  FirstCouples, \* slug -> name
  FirstEvents,  \* slug -> couple and live address
  Names,      \* names typed
  Passwords,  \* passwords typed: UTF-16 units and bytes
  Labels,     \* what is typed as an address
  Make(_),    \* slug.Make of a label
  MaxCalls, MaxAsks \* bounds: calls of the pages, requests of the couple

(* There is a couple from the start, and the unique index holds of the sites.   *)
ASSUME OfficeAssumption ==
  /\ IsFiniteSet(DOMAIN FirstCouples) /\ DOMAIN FirstCouples # {}
  /\ \A e, o \in DOMAIN FirstEvents :
       FirstEvents[e].sub # Nil /\ FirstEvents[e].sub = FirstEvents[o].sub => e = o

VARIABLES
  couples, events, office, decided,
  asking \* addresses a couple's request found free and has not stored yet

officeVars == <<couples, events, office, decided, asking>>

Without(f, ids) == [i \in DOMAIN f \ ids |-> f[i]]
Put(f, i, row) == [j \in DOMAIN f \cup {i} |-> IF j = i THEN row ELSE f[j]]

subLabel(host) == IF host = Nil THEN "" ELSE host
liveHost(label) == IF label = "" THEN Nil ELSE Make(label)

(* validateScope of a password: the form counts UTF-16 units, hashPassword bytes. *)
NoPassword == [units |-> 0, bytes |-> 0]
passwordFits(pw) == pw = NoPassword \/ pw.units \in 8 .. 72
hashPassword(pw) == pw = NoPassword \/ pw.bytes \in 8 .. 72

Rows(view) == {e \in DOMAIN view.events : view.events[e].of \in DOMAIN view.couples}
Server == [couples |-> couples, events |-> events]
Nothing == [couples |-> <<>>, events |-> <<>>]
CallOf(op, id, arg) == [op |-> op, id |-> id, arg |-> arg, shown |-> Nil, nth |-> 1, step |-> "sent"]
Idle == [CallOf("none", Nil, Nil) EXCEPT !.step = "none"]
Reading == [on |-> TRUE, couples |-> Nil, events |-> Nil]
NotReading == [Reading EXCEPT !.on = FALSE]
Loaded(view) ==
  [view |-> view, label |-> [e \in Rows(view) |-> subLabel(view.events[e].sub)], call |-> Idle,
   fetch |-> NotReading, up |-> TRUE, typed |-> {}, moved |-> {}, behind |-> FALSE]

OfficeInit ==
  /\ couples = [c \in DOMAIN FirstCouples |-> [name |-> FirstCouples[c], password |-> NoPassword]]
  /\ events = [e \in DOMAIN FirstEvents |-> [of |-> FirstEvents[e].of, sub |-> FirstEvents[e].sub, asked |-> Nil]]
  /\ office = [p \in Pages |-> Loaded(Server)]
  /\ decided = [calls |-> 0, asks |-> 0, overlap |-> FALSE, set |-> {<<e, FirstEvents[e].sub>> : e \in DOMAIN FirstEvents}, seen |-> {}, again |-> {}]
  /\ asking = {}

(***************************************************************************)
(* The page: one call at a time, every button waits for it.                  *)
(***************************************************************************)
act(p, call) ==
  /\ office[p].up /\ office[p].call = Idle /\ decided.calls < MaxCalls
  /\ office' = [office EXCEPT ![p].call = call]
  /\ decided' = [decided EXCEPT !.calls = @ + 1,
                          !.seen = IF call.op = "approve" THEN @ \cup {<<call.id, call.shown>>} ELSE @]
  /\ UNCHANGED <<couples, events, asking>>

createWedding(p) == \E name \in Names : act(p, CallOf("create", Nil, name))
rename(p) == \E c \in DOMAIN office[p].view.couples, name \in Names :
  name # office[p].view.couples[c].name /\ act(p, CallOf("rename", c, name))
setPassword(p) == \E c \in DOMAIN office[p].view.couples, pw \in Passwords :
  passwordFits(pw) /\ act(p, CallOf("password", c, pw))

(* The name must be typed as the page shows it.                             *)
deleteWedding(p) == \E c \in DOMAIN office[p].view.couples, typed \in Names :
  typed = office[p].view.couples[c].name /\ act(p, CallOf("delete", c, typed))
createWeddingEvent(p) == \E c \in DOMAIN office[p].view.couples, name \in Names : act(p, CallOf("event", c, name))
deleteWeddingEvent(p) == \E e \in Rows(office[p].view) : act(p, CallOf("eventDelete", e, Nil))

dirty(p, e) == office[p].label[e] # subLabel(office[p].view.events[e].sub)
setLabel(p) ==
  /\ office[p].up
  /\ \E e \in Rows(office[p].view), label \in Labels :
       /\ office[p].label[e] # label /\ e \notin office[p].typed
       /\ office' = [office EXCEPT ![p].label[e] = label, ![p].typed = @ \cup {e}]
  /\ UNCHANGED <<couples, events, decided, asking>>
setEventSubdomain(p) == \E e \in DOMAIN office[p].label :
  dirty(p, e) /\ act(p, CallOf("sub", e, office[p].label[e]))
reviewSubdomain(p) == \E e \in Rows(office[p].view), op \in {"approve", "reject"} :
  /\ office[p].view.events[e].asked # Nil
  /\ act(p, [CallOf(op, e, Nil) EXCEPT !.shown = office[p].view.events[e].asked])

(***************************************************************************)
(* wedding-api.                                                              *)
(***************************************************************************)
Busy(c) == c.step = "sent"
Answered(p, step) == [office EXCEPT ![p].call.step = step]
\* The other pages show less than there is.
Wrote(p, step) == [q \in Pages |-> IF q = p THEN Answered(p, step)[p] ELSE [office[q] EXCEPT !.behind = TRUE]]
Taken(e, host) == \E o \in DOMAIN events \ {e} : host # Nil /\ events[o].sub = host

(* slug.Unique: the name is tried with one number after another, a query each,  *)
(* until none has it; it is inserted later.                                   *)
slug(c) == <<c.arg, c.nth>>
probeSlug(p) ==
  LET k == office[p].call IN
  /\ Busy(k) /\ k.op \in {"create", "event"}
  /\ IF slug(k) \in DOMAIN (IF k.op = "create" THEN couples ELSE events)
     THEN office' = [office EXCEPT ![p].call.nth = @ + 1]
     ELSE office' = Answered(p, "probed")
  /\ UNCHANGED <<couples, events, decided, asking>>

insertWedding(p) ==
  LET k == office[p].call IN
  /\ k.op = "create" /\ k.step = "probed"
  /\ IF slug(k) \in DOMAIN couples THEN office' = Answered(p, "error") /\ UNCHANGED couples
     ELSE /\ couples' = Put(couples, slug(k), [name |-> k.arg, password |-> NoPassword])
          /\ office' = Wrote(p, "ok")
  /\ UNCHANGED <<events, decided, asking>>

patchWedding(p) ==
  LET k == office[p].call  fits == k.op = "password" => hashPassword(k.arg) IN
  /\ Busy(k) /\ k.op \in {"rename", "password"}
  /\ IF fits /\ k.id \in DOMAIN couples
     THEN /\ couples' = IF k.op = "rename" THEN [couples EXCEPT ![k.id].name = k.arg]
                        ELSE [couples EXCEPT ![k.id].password = k.arg]
          /\ office' = Wrote(p, "ok")
     ELSE office' = Answered(p, IF fits THEN "notFound" ELSE "validation") /\ UNCHANGED couples
  /\ UNCHANGED <<events, decided, asking>>

countWeddings(p) ==
  LET k == office[p].call IN
  /\ Busy(k) /\ k.op = "delete"
  /\ office' = Answered(p, IF Cardinality(DOMAIN couples) <= 1 THEN "conflict" ELSE "counted")
  /\ decided' = [decided EXCEPT !.overlap = @ \/ \E q \in Pages \ {p} : office[q].call.step = "counted"]
  /\ UNCHANGED <<couples, events, asking>>
deleteCounted(p) ==
  LET k == office[p].call IN
  /\ k.step = "counted"
  /\ IF k.id \in DOMAIN couples
     THEN /\ couples' = Without(couples, {k.id})
          /\ events' = Without(events, {e \in DOMAIN events : events[e].of = k.id})
          /\ office' = Wrote(p, "ok")
     ELSE office' = Answered(p, "notFound") /\ UNCHANGED <<couples, events>>
  /\ UNCHANGED <<decided, asking>>

insertEvent(p) ==
  LET k == office[p].call IN
  /\ k.op = "event" /\ k.step = "probed"
  /\ IF slug(k) \notin DOMAIN events /\ k.id \in DOMAIN couples
     THEN /\ events' = Put(events, slug(k), [of |-> k.id, sub |-> Nil, asked |-> Nil])
          /\ office' = Wrote(p, "ok")
     ELSE /\ office' = Answered(p, IF slug(k) \in DOMAIN events THEN "error" ELSE "notFound")
          /\ UNCHANGED events
  /\ UNCHANGED <<couples, decided, asking>>
removeEvent(p) ==
  LET k == office[p].call IN
  /\ Busy(k) /\ k.op = "eventDelete"
  /\ events' = Without(events, {k.id})
  /\ office' = IF k.id \in DOMAIN events THEN Wrote(p, "ok") ELSE Answered(p, "notFound")
  /\ UNCHANGED <<couples, decided, asking>>

(* patchEvent by the master: the address goes live.                          *)
patchEvent(p) ==
  LET k == office[p].call  host == liveHost(k.arg) IN
  /\ Busy(k) /\ k.op = "sub" /\ UNCHANGED <<couples, asking>>
  /\ IF k.id \notin DOMAIN events THEN office' = Answered(p, "notFound") /\ UNCHANGED <<events, decided>>
     ELSE IF Taken(k.id, host) THEN office' = Answered(p, "conflict") /\ UNCHANGED <<events, decided>>
     ELSE /\ events' = [events EXCEPT ![k.id].sub = host]
          /\ office' = Wrote(p, "ok")
          /\ decided' = [decided EXCEPT !.set = @ \cup {<<k.id, host>>}]

resolveRequest(p) ==
  LET k == office[p].call  pending == k.id \in DOMAIN events /\ events[k.id].asked # Nil IN
  /\ Busy(k) /\ k.op \in {"approve", "reject"} /\ UNCHANGED <<couples, decided, asking>>
  /\ IF ~pending THEN office' = Answered(p, "notFound") /\ UNCHANGED events
     ELSE IF k.op = "approve" /\ Taken(k.id, events[k.id].asked)
     THEN office' = Answered(p, "conflict") /\ UNCHANGED events
     ELSE /\ events' = [events EXCEPT ![k.id].asked = Nil,
                                      ![k.id].sub = IF k.op = "approve" THEN events[k.id].asked ELSE @]
          /\ office' = Wrote(p, "ok")

(* The addresses asked for a site that a page shows, has read or decides on. *)
AskedIn(rows, e) == IF e \in DOMAIN rows THEN {rows[e].asked} ELSE {}
AskedOn(page, e) ==
  (IF page.up THEN AskedIn(page.view.events, e) ELSE {})
    \cup (IF page.fetch.events = Nil THEN {} ELSE AskedIn(page.fetch.events, e))
    \cup (IF page.call.id = e THEN {page.call.shown} ELSE {})

(* patchEvent by the couple: an address that another site has or asks for is    *)
(* refused; one that was free, or none, is stored later, whatever came between.  *)
askSubdomain ==
  /\ decided.asks < MaxAsks
  /\ \E e \in DOMAIN events, label \in Labels \cup {""} :
       LET host == liveHost(label) IN
       /\ ~\E o \in DOMAIN events \ {e} : host # Nil /\ host \in {events[o].sub, events[o].asked}
       /\ asking' = asking \cup {<<e, host>>}
  /\ decided' = [decided EXCEPT !.asks = @ + 1]
  /\ UNCHANGED <<couples, events, office>>

(* again: a page still has another request of this site.                     *)
storeRequest ==
  /\ \E ask \in asking :
       LET e == ask[1]  host == ask[2] IN
       /\ asking' = asking \ {ask}
       /\ IF e \in DOMAIN events
          THEN /\ events' = [events EXCEPT ![e].asked = host]
               /\ decided' = [decided EXCEPT !.again =
                    IF \E p \in Pages : AskedOn(office[p], e) \ {Nil, host} # {} THEN @ \cup {ask} ELSE @]
               /\ office' = [p \in Pages |-> [office[p] EXCEPT !.behind = TRUE]]
          ELSE UNCHANGED <<events, decided, office>>
  /\ UNCHANGED couples

(***************************************************************************)
(* The answer, and the page that is read again.                             *)
(***************************************************************************)
answered(p) ==
  /\ office[p].call.step \notin {"none", "sent", "probed", "counted"}
  /\ LET ok == office[p].call.step = "ok" IN
     office' = [office EXCEPT ![p].call = Idle, ![p].fetch = IF ok THEN Reading ELSE @, ![p].behind = @ /\ ~ok]
  /\ UNCHANGED <<couples, events, decided, asking>>

(* A statement failed, the bridge was not reached, or its answer never came.   *)
unavailable(p) ==
  /\ office[p].call.step \in {"sent", "probed", "counted", "ok"}
  /\ office' = [office EXCEPT ![p].call = Idle, ![p].behind = @ \/ office[p].call.step = "ok"]
  /\ UNCHANGED <<couples, events, decided, asking>>

fetchWeddings(p) ==
  /\ office[p].fetch.on
  /\ \/ /\ office[p].fetch.couples = Nil
        /\ office' = [office EXCEPT ![p].fetch.couples = couples]
     \/ /\ office[p].fetch.events = Nil
        /\ office' = [office EXCEPT ![p].fetch.events = events]
  /\ UNCHANGED <<couples, events, decided, asking>>

Changed(page, view) ==
  {e \in Rows(view) \cap Rows(page.view) : view.events[e].sub # page.view.events[e].sub}
Showing(page, view) ==
  LET kept == Rows(view) \cap DOMAIN page.label IN
  [page EXCEPT
     !.view = view, !.fetch = NotReading, !.up = TRUE,
     !.label = [e \in Rows(view) |-> IF e \in kept THEN page.label[e] ELSE subLabel(view.events[e].sub)],
     !.typed = @ \cap kept, !.moved = (@ \cup Changed(page, view)) \cap kept]
shown(p) ==
  LET read == office[p].fetch IN
  /\ read.on /\ read.couples # Nil /\ read.events # Nil
  /\ office' = [office EXCEPT ![p] = Showing(@, [couples |-> read.couples, events |-> read.events])]
  /\ UNCHANGED <<couples, events, decided, asking>>

(* One of the two reads failed: a notice takes the place of the rows.         *)
notShown(p) ==
  /\ office[p].fetch.on
  /\ office' = [office EXCEPT ![p].up = FALSE, ![p].fetch = NotReading, ![p].label = [e \in {} |-> ""],
                              ![p].typed = {}, ![p].moved = {}]
  /\ UNCHANGED <<couples, events, decided, asking>>

(* The tab is loaded again: what was typed in it is gone.                     *)
reloadOffice(p) ==
  /\ office[p].call = Idle
  /\ office' = [office EXCEPT ![p] = [Loaded(Nothing) EXCEPT !.up = FALSE, !.fetch = Reading]]
  /\ UNCHANGED <<couples, events, decided, asking>>

CouplesNext ==
  \E p \in Pages :
    \/ createWedding(p) \/ rename(p) \/ setPassword(p) \/ deleteWedding(p)
    \/ probeSlug(p) \/ insertWedding(p) \/ patchWedding(p) \/ countWeddings(p) \/ deleteCounted(p)
SitesNext ==
  \/ askSubdomain \/ storeRequest
  \/ \E p \in Pages :
       \/ createWeddingEvent(p) \/ deleteWeddingEvent(p) \/ setLabel(p) \/ setEventSubdomain(p) \/ reviewSubdomain(p)
       \/ probeSlug(p) \/ insertEvent(p) \/ removeEvent(p) \/ patchEvent(p) \/ resolveRequest(p)
AnswersNext ==
  \E p \in Pages : answered(p) \/ unavailable(p) \/ fetchWeddings(p) \/ shown(p) \/ notShown(p) \/ reloadOffice(p)
OfficeNext == CouplesNext \/ SitesNext \/ AnswersNext

OfficeSpec == OfficeInit /\ [][OfficeNext]_officeVars

-----------------------------------------------------------------------------
OfficeTypeOK ==
  /\ \A e \in DOMAIN events : events[e].of \in DOMAIN couples
  /\ \A p \in Pages : office[p].up => DOMAIN office[p].label = Rows(office[p].view)
  /\ decided.calls \in 0 .. MaxCalls /\ decided.asks \in 0 .. MaxAsks

(* "There must always be at least one couple": so it is, unless two deletes     *)
(* both counted before either removed.                                      *)
OneCoupleLeft == DOMAIN couples # {} \/ decided.overlap

(* An address is live for one site only; it is one the owner typed for that     *)
(* site or one the owner saw asked for when approving, unless the couple asked *)
(* for it while a page still showed another request.                         *)
LiveWasDecided ==
  \A e \in DOMAIN events : events[e].sub # Nil =>
    /\ \A o \in DOMAIN events \ {e} : events[o].sub # events[e].sub
    /\ <<e, events[e].sub>> \in decided.set \cup decided.seen \cup decided.again

(* Of a password that is stored no byte is lost to bcrypt, and it has the       *)
(* length the form asks for.                                                *)
PasswordWhole ==
  \A c \in DOMAIN couples :
    couples[c].password # NoPassword => couples[c].password.bytes <= 72 /\ couples[c].password.units >= 8

(* A page at rest shows what the server has, unless another page or the couple  *)
(* changed it since it was read, or an answer was lost.                      *)
PageFollows ==
  \A p \in Pages : LET page == office[p] IN
    page.up /\ page.call = Idle /\ ~page.fetch.on /\ ~page.behind =>
      page.view.couples = couples /\ page.view.events = events

(* A site's address is offered for saving only if something was typed in its    *)
(* row, or its address changed on the screen after the row was put there.     *)
OffersWhatWasTyped ==
  \A p \in Pages : office[p].up =>
    \A e \in DOMAIN office[p].label : dirty(p, e) => e \in office[p].typed \cup office[p].moved

OfficeSound ==
  /\ OneCoupleLeft /\ LiveWasDecided /\ PasswordWhole /\ PageFollows /\ OffersWhatWasTyped

(* The couple's dashboard shows the selected event as the server stores it,   *)
(* deletes in bulk only what it shows (GuestDesk), and its drawer neither    *)
(* drops what was put in nor takes back another host's save (WeddingDrawer);  *)
(* the owner's page of the couples decides what goes live.                   *)
WeddingDeskSound == DeskSound /\ DrawerSound /\ OfficeSound
=============================================================================
