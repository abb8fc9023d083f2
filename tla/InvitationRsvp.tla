--------------------------- MODULE InvitationRsvp ---------------------------
(***************************************************************************)
(* Answering a wedding invitation.  Guests who got the shared link are     *)
(* told apart by an identity: a token kept in the browser, or, when that   *)
(* is unknown, the fingerprint of the device, which two guests with the    *)
(* same phone on the same network share.  The page saves the typed name    *)
(* after a pause and the choice at once; every save is a request of its    *)
(* own, and requests overtake each other and get lost.                     *)
(***************************************************************************)
EXTENDS Naturals

CONSTANTS
  Guests,      \* phones; all of one make, on one network
  Names,       \* names a guest may type
  Choices,     \* answers a guest may give
  Identities,  \* 1 .. n: identities the server may make
  MaxVisits(_),\* bound: page loads of a phone
  MaxSaves,    \* bound: saves sent per phone
  None

VARIABLES
  identity,    \* server: [token : Guests -> token row or None, answers, next]
  rsvp,        \* [Guests -> state of the page]
  saves,       \* requests on the wire
  chose        \* [Guests -> names and choices the server has acknowledged storing]

rsvpVars == <<identity, rsvp, saves, chose>>

Page == [visits |-> 0, phase |-> "closed", name |-> None, rsvp |-> None, saved |-> None,
         edited |-> FALSE, timer |-> None, sent |-> 0]

RsvpInit ==
  /\ identity = [token |-> [g \in Guests |-> None], answers |-> [i \in Identities |-> None],
                 next |-> 1]
  /\ rsvp = [g \in Guests |-> Page]
  /\ saves = {}
  /\ chose = [g \in Guests |-> None]

(***************************************************************************)
(* The debounce effect: it re-arms whenever the name, the choice or the     *)
(* enabled flag changes, and only for a name the guest typed that is not    *)
(* the one already sent.                                                   *)
(***************************************************************************)
Rearm(u) ==
  [u EXCEPT !.timer = IF u.phase = "ready" /\ u.edited /\ u.name # None /\ u.name # u.saved
                      THEN [name |-> u.name, rsvp |-> u.rsvp] ELSE None]

Save(g, name, choice, undo) ==
  /\ rsvp[g].sent < MaxSaves
  /\ saves' = saves \cup {[from |-> g, visit |-> rsvp[g].visits, name |-> name, rsvp |-> choice,
                           undo |-> undo]}

(***************************************************************************)
(* resolveIdentity, and the answer the page restores from it.               *)
(***************************************************************************)
OpenInvite(g) ==
  /\ rsvp[g].phase \in {"closed", "ready", "error"} /\ rsvp[g].visits < MaxVisits(g)
  /\ rsvp' = [rsvp EXCEPT ![g] = [Page EXCEPT !.visits = rsvp[g].visits + 1,
                                              !.sent = rsvp[g].sent, !.phase = "resolving"]]
  /\ UNCHANGED <<identity, saves, chose>>

(* A known token keeps its identity.  An unknown one takes over the identity  *)
(* whose fingerprint matches, untrusted for the profile, when exactly one     *)
(* does; else it starts a new identity.                                     *)
TokenRow(g) ==
  IF identity.token[g] # None THEN identity.token[g]
  ELSE IF identity.next = 2 THEN [id |-> 1, trusted |-> FALSE]
  ELSE [id |-> identity.next, trusted |-> TRUE]

ProfileFor(g) ==
  IF identity.token[g] # None /\ identity.token[g].trusted
  THEN identity.answers[identity.token[g].id] ELSE None

Resolved(g) ==
  /\ rsvp[g].phase = "resolving"
  /\ LET row == TokenRow(g)  profile == ProfileFor(g)  u == [rsvp[g] EXCEPT !.phase = "ready"] IN
       /\ identity' = [identity EXCEPT !.token[g] = row, !.next = IF row.id = @ THEN @ + 1 ELSE @]
       /\ rsvp' = [rsvp EXCEPT ![g] =
            Rearm(IF profile = None THEN u
                  ELSE [u EXCEPT !.name = profile.name, !.rsvp = profile.rsvp])]
  /\ UNCHANGED <<saves, chose>>

ResolveFails(g) ==
  /\ rsvp[g].phase = "resolving"
  /\ rsvp' = [rsvp EXCEPT ![g].phase = "error"]
  /\ UNCHANGED <<identity, saves, chose>>

RetryIdentity(g) ==
  /\ rsvp[g].phase = "error"
  /\ rsvp' = [rsvp EXCEPT ![g].phase = "resolving"]
  /\ UNCHANGED <<identity, saves, chose>>

(***************************************************************************)
(* The guest.  The name field works before the identity is there.           *)
(***************************************************************************)
TypeName(g, name) ==
  /\ rsvp[g].phase # "closed" /\ name # rsvp[g].name
  /\ rsvp' = [rsvp EXCEPT ![g] = Rearm([rsvp[g] EXCEPT !.name = name, !.edited = TRUE])]
  /\ UNCHANGED <<identity, saves, chose>>

DebounceFires(g) ==
  /\ rsvp[g].timer # None
  /\ LET due == rsvp[g].timer IN
       /\ Save(g, due.name, due.rsvp, rsvp[g].saved)
       /\ rsvp' = [rsvp EXCEPT ![g] = [rsvp[g] EXCEPT !.timer = None, !.saved = due.name,
                                                  !.sent = @ + 1]]
  /\ UNCHANGED <<identity, chose>>

(* The effect only re-runs when the choice changed: a repeated one leaves a  *)
(* pending timer alone.                                                    *)
Choose(g, v) ==
  /\ rsvp[g].phase = "ready" /\ rsvp[g].name # None
  /\ Save(g, rsvp[g].name, v, None)
  /\ LET u == [rsvp[g] EXCEPT !.saved = rsvp[g].name, !.rsvp = v, !.sent = @ + 1]
     IN rsvp' = [rsvp EXCEPT ![g] = IF v = rsvp[g].rsvp THEN u ELSE Rearm(u)]
  /\ UNCHANGED <<identity, chose>>

\* Mutant: an untrusted token writes into the identity it points at.
RowOfToken(g) == identity.token[g]

(***************************************************************************)
(* postSharedRSVP.  An untrusted token forks an identity of its own before   *)
(* it writes; a save without a choice keeps the choice that is there.        *)
(***************************************************************************)
RowFor(g) ==
  IF identity.token[g].trusted THEN identity.token[g]
  ELSE [id |-> identity.next, trusted |-> TRUE]

Stored(s, old) ==
  [name |-> s.name, by |-> s.from,
   rsvp |-> IF s.rsvp = None /\ old # None THEN old.rsvp ELSE s.rsvp]

SaveArrives(s) ==
  /\ s \in saves /\ saves' = saves \ {s}
  /\ LET row == RowFor(s.from) IN
       identity' = [identity EXCEPT
         !.token[s.from] = row,
         !.next = IF row.id = @ THEN @ + 1 ELSE @,
         !.answers[row.id] = Stored(s, @)]
  /\ chose' = [chose EXCEPT ![s.from] = IF s.rsvp = None /\ @ # None THEN @ ELSE <<s.rsvp>>]
  /\ UNCHANGED rsvp

SaveLost(s) ==
  /\ s \in saves /\ saves' = saves \ {s}
  /\ rsvp' = IF rsvp[s.from].visits = s.visit THEN [rsvp EXCEPT ![s.from].saved = s.undo] ELSE rsvp
  /\ UNCHANGED <<identity, chose>>

RsvpNext ==
  \/ \E g \in Guests :
       \/ OpenInvite(g) \/ Resolved(g) \/ ResolveFails(g) \/ RetryIdentity(g) \/ DebounceFires(g)
       \/ \E name \in Names \cup {None} : TypeName(g, name)
       \/ \E v \in Choices : Choose(g, v)
  \/ \E s \in saves : SaveArrives(s) \/ SaveLost(s)

RsvpSpec == RsvpInit /\ [][RsvpNext]_rsvpVars

-----------------------------------------------------------------------------
RsvpTypeOK ==
  /\ identity.next - 1 \in Identities \cup {0}
  /\ \A g \in Guests : rsvp[g].phase \in {"closed", "resolving", "ready", "error"}

(* Two guests the fingerprint cannot tell apart never overwrite or see each   *)
(* other's answer, and a save of the name alone never erases a choice.       *)
AnswersAreOnesOwn ==
  \A g \in Guests :
    /\ chose[g] # None =>
         LET row == identity.token[g]  answer == identity.answers[row.id] IN
           /\ row.trusted /\ answer # None /\ answer.by = g
           /\ chose[g] # <<None>> => answer.rsvp # None
    /\ chose[g] = None /\ rsvp[g].phase = "ready" /\ ~rsvp[g].edited => rsvp[g].name = None
=============================================================================
