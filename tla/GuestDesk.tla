------------------------------ MODULE GuestDesk ------------------------------
(***************************************************************************)
(* The couple's dashboard of one wedding (wedding-web components/admin):    *)
(* event tabs, quick add and its groups, the guest table with its filters,  *)
(* pages and ticks, the wishes panel and the shared-link devices, on the    *)
(* guest, group and event handlers of wedding-api.                          *)
(*                                                                         *)
(* Every click starts a coroutine (tasks) of its own: a write if it is one,  *)
(* then the reload: the events, then the lists of one event.  Nothing       *)
(* orders two coroutines, and each keeps the selection it was started with. *)
(***************************************************************************)
EXTENDS WeddingDrawer

CONSTANTS
  HostOf(_),   \* the live subdomain of an event, or Nil
  Groups,      \* group names the couple uses
  FirstGuests, \* guest rows when the dashboard opens
  PageSize,    \* rows of a page
  MaxTasks     \* bound: coroutines started

VARIABLES
  hall,   \* server: events, guests (newest last), groups, wishes, admin devices
  desk,   \* the page
  tasks    \* coroutines under way

deskVars == <<hall, desk, tasks>>

fallbackGroup == "other"
AllFilters == [status |-> "all", group |-> "all", sort |-> "added", page |-> 1, sel |-> {}, moved |-> FALSE]

OpenedAt(host, started) ==
  [host |-> host, authed |-> "probing", events |-> <<>>, selected |-> Nil, guests |-> <<>>, groups |-> {},
   wishes |-> {}, admins |-> {}, table |-> AllFilters, ticked |-> {}, quick |-> "friends", editing |-> Nil,
   saving |-> FALSE, started |-> started, turn |-> 0, newest |-> 0, crossed |-> FALSE, lost |-> FALSE]

DeskInit ==
  /\ hall = [events |-> <<"e1", "e2">>, guests |-> FirstGuests, next |-> Len(FirstGuests) + 1,
             groups |-> [e \in {"e1", "e2", "e3"} |-> {"friends", fallbackGroup}],
             wishes |-> {1, 2}, admins |-> {}]
  /\ desk = OpenedAt("h1", 0)
  /\ tasks = {}

(***************************************************************************)
(* The server: admin_events.go, admin_guests.go, admin_groups.go.           *)
(***************************************************************************)
Within(s) == {s[i] : i \in DOMAIN s}
Rank(at, i) == Cardinality({k \in at : k <= i})

(* The rows of s at these places, in their order, and the newest first.        *)
Kept(s, at) == [n \in 1 .. Cardinality(at) |-> s[CHOOSE i \in at : Rank(at, i) = n]]
NewestFirst(s, at) == [n \in 1 .. Cardinality(at) |-> s[CHOOSE i \in at : Rank(at, i) = Cardinality(at) + 1 - n]]

GuestsOf(ev) == NewestFirst(hall.guests, {i \in DOMAIN hall.guests : hall.guests[i].ev = ev})
EditGuests(Test(_), Change(_)) ==
  [hall EXCEPT !.guests = [i \in DOMAIN @ |-> IF Test(@[i]) THEN Change(@[i]) ELSE @[i]]]

createGuest(w) ==
  [hall EXCEPT !.guests = Append(@, [id |-> hall.next, ev |-> w.ev, group |-> w.group, note |-> "",
                                       rsvp |-> Nil]),
               !.next = @ + 1]
patchGuest(w) ==
  EditGuests(LAMBDA g : g.id = w.id,
             LAMBDA g : [g EXCEPT !.group = IF w.group = Nil THEN @ ELSE w.group, !.note = w.note])
bulkDeleteGuests(ids) == [hall EXCEPT !.guests = Kept(@, {i \in DOMAIN @ : @[i].id \notin ids})]
createGroup(w) == [hall EXCEPT !.groups[w.ev] = @ \cup {w.group}]
renameGroup(w) ==
  [EditGuests(LAMBDA g : g.ev = w.ev /\ g.group = w.group, LAMBDA g : [g EXCEPT !.group = w.to])
     EXCEPT !.groups[w.ev] = (@ \ {w.group}) \cup {w.to}]
deleteGroup(w) == renameGroup([w EXCEPT !.to = fallbackGroup])
deleteEvent(w) ==
  [hall EXCEPT !.events = SelectSeq(@, LAMBDA e : e # w.ev),
               !.guests = Kept(@, {i \in DOMAIN @ : @[i].ev # w.ev}), !.groups[w.ev] = {}]

Exists(w) == w.ev \in Within(hall.events)
Has(id) == \E i \in DOMAIN hall.guests : hall.guests[i].id = id
Accepted(w) ==
  CASE w.do = "addGuests" -> Exists(w)
    [] w.do \in {"patch", "delete"} -> Has(w.id)
    [] w.do = "createGroup" -> Exists(w) /\ w.group \notin hall.groups[w.ev]
    [] w.do = "renameGroup" -> Exists(w) /\ w.group \in hall.groups[w.ev] /\ w.to \notin hall.groups[w.ev]
    [] w.do = "deleteGroup" -> Exists(w) /\ w.group \in hall.groups[w.ev] \ {fallbackGroup}
    [] w.do = "deleteEvent" -> Exists(w)
    [] OTHER -> TRUE

Effect(w) ==
  CASE w.do = "addGuests" -> createGuest(w)
    [] w.do = "patch" -> patchGuest(w)
    [] w.do = "delete" -> bulkDeleteGuests({w.id})
    [] w.do = "bulkDelete" -> bulkDeleteGuests(w.ids)
    [] w.do = "createGroup" -> createGroup(w)
    [] w.do = "renameGroup" -> renameGroup(w)
    [] w.do = "deleteGroup" -> deleteGroup(w)
    [] w.do = "createEvent" -> [hall EXCEPT !.events = Append(@, w.ev),
                                            !.groups[w.ev] = {"friends", fallbackGroup}]
    [] w.do = "deleteEvent" -> deleteEvent(w)
    [] w.do = "deleteWishes" -> [hall EXCEPT !.wishes = @ \ w.ids]
    [] w.do = "toggleAdmin" -> [hall EXCEPT !.admins = IF w.id \in @ THEN @ \ {w.id} ELSE @ \cup {w.id}]

(* A guest opens the invitation and answers. *)
GuestAnswers ==
  /\ \E i \in DOMAIN hall.guests :
       hall.guests[i].rsvp = Nil /\ hall' = [hall EXCEPT !.guests[i].rsvp = "yes"]
  /\ UNCHANGED <<desk, tasks>>

(***************************************************************************)
(* Coroutines: run and reload.                                             *)
(***************************************************************************)
StartTask(write, for) ==
  /\ desk.started < MaxTasks
  /\ tasks' = tasks \cup {[id |-> desk.started + 1, write |-> write, for |-> for, was |-> desk.selected,
                         quick |-> desk.quick, turn |-> 0, slug |-> Nil, got |-> Nil,
                         phase |-> IF write = Nil THEN "events" ELSE "write"]}

Run(write, now) ==
  /\ desk.authed = "yes"
  /\ StartTask(write, Nil)
  /\ desk' = [now EXCEPT !.started = @ + 1, !.saving = TRUE]
  /\ UNCHANGED hall

ProbeSession ==
  /\ desk.authed = "probing" /\ desk.started = 0
  /\ StartTask(Nil, Nil)
  /\ desk' = [desk EXCEPT !.started = @ + 1]
  /\ UNCHANGED hall

Login ==
  /\ desk.authed = "no"
  /\ StartTask(Nil, Nil)
  /\ desk' = [desk EXCEPT !.started = @ + 1]
  /\ UNCHANGED hall

Becomes(j, next) == tasks' = (tasks \ {j}) \cup {next}
Ends(j) == tasks' = tasks \ {j}

(* onDone, as the handler that started the write closed over it.             *)
Done(j) ==
  LET w == j.write IN
  CASE w.do = "patch" /\ w.group # Nil -> [desk EXCEPT !.editing = Nil]
    [] w.do = "createGroup" -> [desk EXCEPT !.quick = w.group]
    [] w.do = "renameGroup" /\ j.quick = w.group -> [desk EXCEPT !.quick = w.to]
    [] w.do = "deleteGroup" /\ j.quick = w.group -> [desk EXCEPT !.quick = fallbackGroup]
    [] w.do = "deleteEvent" /\ j.was = w.ev -> [desk EXCEPT !.selected = Nil]
    [] OTHER -> desk

(* A bulk add sends one call after the other and stops at the first failure.  *)
WriteServed(j) ==
  /\ j.phase = "write" /\ Accepted(j.write)
  /\ hall' = Effect(j.write)
  /\ IF j.write.do = "addGuests" /\ j.write.left > 1
     THEN Becomes(j, [j EXCEPT !.write.left = @ - 1]) /\ UNCHANGED desk
     ELSE Becomes(j, [j EXCEPT !.phase = "events"]) /\ desk' = Done(j)

(* Refused, unreachable, or the answer lost after the server stored it: an    *)
(* error toast and no reload.                                              *)
WriteFails(j, reached) ==
  /\ j.phase = "write" /\ (reached => Accepted(j.write))
  /\ hall' = IF reached THEN Effect(j.write) ELSE hall
  /\ desk' = [desk EXCEPT !.saving = FALSE, !.lost = TRUE]
  /\ Ends(j)

SessionExpired(j) ==
  /\ desk' = [desk EXCEPT !.authed = "no", !.saving = FALSE, !.lost = TRUE]
  /\ Ends(j)
  /\ UNCHANGED hall

(* reload, first half: the tab asked for, or the one still there, or the one  *)
(* of this host, or the first.                                             *)
slugFor(j, events) ==
  LET there == Within(events)  mine == {e \in there : HostOf(e) = desk.host} IN
  IF j.for # Nil THEN j.for
  ELSE IF j.was \in there THEN j.was
  ELSE IF mine # {} THEN CHOOSE e \in mine : TRUE
  ELSE IF events # <<>> THEN events[1] ELSE Nil

EventsAnswer(j) ==
  /\ j.phase = "events"
  /\ LET slug == slugFor(j, hall.events)
         next == [desk EXCEPT !.events = hall.events, !.selected = slug, !.turn = @ + 1] IN
     IF slug = Nil
     THEN /\ desk' = [next EXCEPT !.guests = <<>>, !.groups = {}, !.authed = "yes", !.saving = FALSE]
          /\ Ends(j)
     ELSE /\ desk' = next
          /\ Becomes(j, [j EXCEPT !.phase = "reads", !.slug = slug, !.turn = desk.turn + 1])
  /\ UNCHANGED hall

(* Second half: a deleted event answers 404, which keeps the old lists.       *)
ReadsServed(j) ==
  /\ j.phase = "reads" /\ j.got = Nil
  /\ IF j.slug \in Within(hall.events)
     THEN /\ Becomes(j, [j EXCEPT !.got = [guests |-> GuestsOf(j.slug), groups |-> hall.groups[j.slug],
                                           wishes |-> hall.wishes, admins |-> hall.admins]])
          /\ UNCHANGED desk
     ELSE desk' = [desk EXCEPT !.saving = FALSE, !.lost = TRUE] /\ Ends(j)
  /\ UNCHANGED hall

ReadsAnswer(j) ==
  /\ j.phase = "reads" /\ j.got # Nil
  /\ desk' = [desk EXCEPT !.guests = j.got.guests, !.groups = j.got.groups, !.wishes = j.got.wishes,
       !.admins = j.got.admins, !.authed = "yes", !.saving = IF j.write = Nil THEN @ ELSE FALSE,
       !.table.moved = @ \/ desk.table.sel # {},
       !.crossed = @ \/ j.turn < desk.newest, !.newest = IF j.turn > @ THEN j.turn ELSE @]
  /\ Ends(j)
  /\ UNCHANGED hall

(***************************************************************************)
(* The screen.                                                             *)
(***************************************************************************)
LoggedIn == desk.authed = "yes"
Write(do) == [do |-> do, ev |-> desk.selected, id |-> 0, ids |-> {}, group |-> Nil, note |-> "",
              to |-> Nil, left |-> 1]

(* An event of another host navigates there: a fresh dashboard.              *)
ShowEvent(ev) ==
  /\ LoggedIn /\ ev \in Within(desk.events) \ {desk.selected}
  /\ IF HostOf(ev) \notin {Nil, desk.host}
     THEN tasks' = {} /\ desk' = OpenedAt(HostOf(ev), 0)
     ELSE /\ StartTask(Nil, ev)
          /\ desk' = [desk EXCEPT !.selected = ev, !.started = @ + 1]
  /\ UNCHANGED hall

AddEvent == LoggedIn /\ "e3" \notin Within(hall.events) /\ Run([Write("createEvent") EXCEPT !.ev = "e3"], desk)
RemoveEvent(ev) ==
  /\ LoggedIn /\ Len(desk.events) > 1 /\ ev \in Within(desk.events) /\ ~desk.saving
  /\ Run([Write("deleteEvent") EXCEPT !.ev = ev], desk)

QuickAdd(lines) ==
  /\ LoggedIn /\ desk.selected # Nil
  /\ Run([Write("addGuests") EXCEPT !.group = desk.quick, !.left = lines], desk)
PickGroup(g) ==
  /\ LoggedIn /\ g \in desk.groups \ {desk.quick}
  /\ desk' = [desk EXCEPT !.quick = g] /\ UNCHANGED <<hall, tasks>>
ManageGroup(do, g, to) ==
  /\ LoggedIn /\ desk.selected # Nil /\ (do = "createGroup") = (g \notin desk.groups)
  /\ (do = "renameGroup") = (to # g)
  /\ Run([Write(do) EXCEPT !.group = g, !.to = to], desk)

(* The guest table: filter, sort, page.                                      *)
STATUS_TESTS(status, g) == status = "all" \/ (status = "yes") = (g.rsvp = "yes")
rsvpRank(g) == IF g.rsvp = "yes" THEN 2 ELSE 0
filtered(t) ==
  LET rows == SelectSeq(desk.guests, LAMBDA g : (t.group \in {"all", g.group}) /\ STATUS_TESTS(t.status, g))
  IN IF t.sort = "added" THEN rows ELSE SortSeq(rows, LAMBDA a, b : rsvpRank(a) > rsvpRank(b))
maxPage(t) == LET n == Len(filtered(t)) IN IF n = 0 THEN 1 ELSE (n + PageSize - 1) \div PageSize
safePage(t) == IF t.page < maxPage(t) THEN t.page ELSE maxPage(t)
Ids(rows) == {rows[i].id : i \in DOMAIN rows}
pageIds(t) ==
  LET rows == filtered(t)  start == (safePage(t) - 1) * PageSize
  IN Ids(SubSeq(rows, start + 1, IF start + PageSize < Len(rows) THEN start + PageSize ELSE Len(rows)))
selIds == desk.table.sel \cap Ids(desk.guests)

SetTable(t) == LoggedIn /\ t # desk.table /\ desk' = [desk EXCEPT !.table = t] /\ UNCHANGED <<hall, tasks>>
Unticked(t) == [t EXCEPT !.sel = {}, !.moved = FALSE]
Filter(status, group) == SetTable(Unticked([desk.table EXCEPT !.status = status, !.group = group, !.page = 1]))
sortBy(key) == SetTable([desk.table EXCEPT !.sort = key, !.moved = @ \/ desk.table.sel # {}])
\* Mutant: another page keeps the ticks of this one.
TurnTicked(to) == to \in 1 .. maxPage(desk.table) /\ SetTable([desk.table EXCEPT !.page = to])

Turn(to) == to \in 1 .. maxPage(desk.table) /\ SetTable(Unticked([desk.table EXCEPT !.page = to]))
Tick(id) ==
  /\ id \in pageIds(desk.table)
  /\ SetTable([desk.table EXCEPT !.sel = IF id \in @ THEN @ \ {id} ELSE @ \cup {id}])
TickPage ==
  LET t == desk.table  ids == pageIds(t) IN
  ids # {} /\ SetTable([t EXCEPT !.sel = IF ids \subseteq @ THEN @ \ ids ELSE @ \cup ids])

BulkDelete ==
  /\ LoggedIn /\ selIds # {}
  /\ Run([Write("bulkDelete") EXCEPT !.ids = selIds], [desk EXCEPT !.table = Unticked(@)])
DeleteGuest(id) == LoggedIn /\ id \in pageIds(desk.table) /\ Run([Write("delete") EXCEPT !.id = id], desk)

(* The edit panel holds a copy of its row and saves all of it; a note edited  *)
(* in its row is saved alone when the input loses the focus.                 *)
Copy(g) == [id |-> g.id, group |-> g.group, note |-> g.note]
OpenEdit(i) ==
  /\ LoggedIn /\ i \in DOMAIN desk.guests /\ desk.guests[i].id \in pageIds(desk.table)
  /\ desk.editing # Copy(desk.guests[i])
  /\ desk' = [desk EXCEPT !.editing = Copy(desk.guests[i])]
  /\ UNCHANGED <<hall, tasks>>
EditGroup(g) ==
  /\ LoggedIn /\ desk.editing # Nil /\ g \in desk.groups \ {desk.editing.group}
  /\ desk' = [desk EXCEPT !.editing.group = g] /\ UNCHANGED <<hall, tasks>>
SaveEdit ==
  /\ LoggedIn /\ desk.editing # Nil
  /\ Run([Write("patch") EXCEPT !.id = desk.editing.id, !.group = desk.editing.group,
                                !.note = desk.editing.note], desk)
commitNote(i) ==
  /\ LoggedIn /\ i \in DOMAIN desk.guests /\ desk.guests[i].id \in pageIds(desk.table)
  /\ Run([Write("patch") EXCEPT !.id = desk.guests[i].id, !.note = "late"], desk)
CancelEdit == LoggedIn /\ desk.editing # Nil /\ desk' = [desk EXCEPT !.editing = Nil] /\ UNCHANGED <<hall, tasks>>

(* The wishes panel ticks rows of its page; the devices table toggles one.    *)
TickWish(id) ==
  /\ LoggedIn /\ id \in desk.wishes \ desk.ticked
  /\ desk' = [desk EXCEPT !.ticked = @ \cup {id}] /\ UNCHANGED <<hall, tasks>>
DeleteWishes ==
  /\ LoggedIn /\ desk.ticked \cap desk.wishes # {}
  /\ Run([Write("deleteWishes") EXCEPT !.ids = desk.ticked \cap desk.wishes], [desk EXCEPT !.ticked = {}])
ToggleAdmin == LoggedIn /\ Run([Write("toggleAdmin") EXCEPT !.id = 1], desk)

Logout ==
  /\ LoggedIn /\ desk' = [desk EXCEPT !.authed = "no"] /\ UNCHANGED <<hall, tasks>>

Network ==
  \E j \in tasks :
    \/ WriteServed(j) \/ EventsAnswer(j) \/ ReadsServed(j) \/ ReadsAnswer(j) \/ SessionExpired(j)
    \/ \E reached \in BOOLEAN : WriteFails(j, reached)
Session == ProbeSession \/ Login \/ Logout
Tabs == AddEvent \/ \E ev \in {"e1", "e2", "e3"} : ShowEvent(ev) \/ RemoveEvent(ev)
Quick ==
  \/ \E lines \in 1 .. 2 : QuickAdd(lines)
  \/ \E g \in Groups : PickGroup(g)
  \/ \E g, to \in Groups, do \in {"createGroup", "renameGroup", "deleteGroup"} : ManageGroup(do, g, to)
Table ==
  \/ \E status \in {"all", "yes"}, g \in {"all", "friends"} : Filter(status, g)
  \/ sortBy("added") \/ sortBy("rsvp") \/ TickPage \/ BulkDelete
  \/ \E n \in 1 .. Len(desk.guests) : Turn(n)
  \/ \E id \in 1 .. hall.next : Tick(id) \/ DeleteGuest(id)
Panels ==
  \/ \E n \in 1 .. Len(desk.guests) : OpenEdit(n) \/ commitNote(n)
  \/ \E g \in Groups : EditGroup(g)
  \/ SaveEdit \/ CancelEdit \/ DeleteWishes \/ ToggleAdmin \/ \E id \in {1, 2} : TickWish(id)

DeskNext == Session \/ Network \/ Tabs \/ Quick \/ Table \/ Panels \/ GuestAnswers

DeskSpec == DeskInit /\ [][DeskNext]_deskVars

-----------------------------------------------------------------------------
DeskTypeOK ==
  /\ desk.authed \in {"probing", "yes", "no"} /\ desk.started \in 0 .. MaxTasks
  /\ \A j \in tasks : j.phase \in {"write", "events", "reads"}
  /\ \A i \in DOMAIN hall.guests : hall.guests[i].ev \in {"e1", "e2", "e3"}

Unanswered(rows) == [i \in DOMAIN rows |-> [rows[i] EXCEPT !.rsvp = Nil]]

(* With every coroutine over, and none that answered after a later one, the   *)
(* lists are those of the selected tab as the server stores them, whatever    *)
(* was added, renamed, deleted and switched meanwhile; no error was shown.    *)
SettledDeskIsStored ==
  tasks = {} /\ desk.authed = "yes" /\ ~desk.crossed /\ ~desk.lost =>
    /\ desk.events = hall.events
    /\ desk.selected # Nil =>
         /\ desk.selected \in Within(hall.events)
         /\ Unanswered(desk.guests) = Unanswered(GuestsOf(desk.selected))
         /\ desk.groups = hall.groups[desk.selected]
         /\ desk.wishes = hall.wishes /\ desk.admins = hall.admins

(* A bulk delete never reaches a guest of another event, and, unless the list *)
(* was sorted or refreshed under the ticks, none the couple does not see.     *)
BulkDeletesWhatIsSeen ==
  /\ selIds \subseteq Ids(desk.guests)
  /\ ~desk.table.moved => selIds \subseteq pageIds(desk.table)
  /\ \A j \in tasks : j.write # Nil /\ j.write.do = "bulkDelete" =>
       \A i \in DOMAIN hall.guests : hall.guests[i].id \in j.write.ids =>
         \A k \in DOMAIN hall.guests : hall.guests[k].id \in j.write.ids =>
           hall.guests[i].ev = hall.guests[k].ev

DeskSound == SettledDeskIsStored /\ BulkDeletesWhatIsSeen
=============================================================================
