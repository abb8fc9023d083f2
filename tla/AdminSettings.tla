--------------------------- MODULE AdminSettings ----------------------------
(***************************************************************************)
(* The settings screens of the admin: the four sections of the shop's own  *)
(* settings (bank account, shipping table, refund policy, contact), each   *)
(* saved on its own and in full, and the team page (staff invitations and  *)
(* NFC-encode tokens).  The browser sends its server actions one after the *)
(* other: acts is that queue, and only its head is under way.              *)
(***************************************************************************)
EXTENDS Naturals, Sequences, FiniteSets, TLC

CONSTANTS
  Sections,   \* settings sections in use
  Provinces,  \* provinces the owner may type
  Fees,       \* fee fields: None (blank) or a number
  Emails,     \* addresses of invited staff
  MaxRows,    \* bound: rows of the shipping table
  MaxActs,    \* bound: server actions sent
  None

LOCAL S == INSTANCE SequencesExt

VARIABLES
  shop,   \* server: settings, staff accounts and tokens
  set,    \* the screen
  acts    \* server actions sent and not answered, oldest first

settingsVars == <<shop, set, acts>>

FormOf(draft) == [draft |-> draft, status |-> "idle", pending |-> FALSE, acked |-> draft]

SettingsInit ==
  /\ shop = [text |-> [s \in Sections \ {"shipping"} |-> "old"], rules |-> <<>>,
             staff |-> {}, tokens |-> <<>>]
  /\ set = [page |-> "settings", sent |-> 0, stale |-> FALSE,
            form |-> [s \in Sections |-> FormOf(IF s = "shipping" THEN <<>> ELSE "old")],
            invite |-> None, create |-> None, created |-> 0, device |-> 0, revoking |-> 0,
            revokePending |-> FALSE, listed |-> <<>>, members |-> {}]
  /\ acts = <<>>

Post(act) ==
  /\ set.sent < MaxActs
  /\ acts' = Append(acts, act @@ [answer |-> None])

(***************************************************************************)
(* The sections.  A section's state is seeded once, from the settings the  *)
(* page was opened with; its fields stay editable while it is saving.      *)
(***************************************************************************)
EditText(s, text) ==
  /\ set.page = "settings" /\ set.form[s].draft # text
  /\ set' = [set EXCEPT !.form[s].draft = text]
  /\ UNCHANGED <<shop, acts>>

EditRules(rows) ==
  /\ set.page = "settings"
  /\ set' = [set EXCEPT !.form["shipping"] = [@ EXCEPT !.draft = rows, !.status = "idle"]]
  /\ UNCHANGED <<shop, acts>>

Rows == set.form["shipping"].draft
setRow == \E i \in DOMAIN Rows, p \in Provinces, fee \in Fees :
            EditRules([Rows EXCEPT ![i] = [province |-> p, fee |-> fee]])
addRow == Len(Rows) < MaxRows /\ EditRules(Append(Rows, [province |-> None, fee |-> None]))
removeRow == \E i \in DOMAIN Rows : EditRules(S!RemoveAt(Rows, i))

(* allValid: every province named, every fee given. *)
allValid(rows) == \A i \in DOMAIN rows : rows[i].province # None /\ rows[i].fee # None

(* Number(''): a blank fee reads as 0. *)
parsed(rows) ==
  [i \in DOMAIN rows |-> [province |-> rows[i].province, typed |-> rows[i].fee,
                          fee |-> IF rows[i].fee = None THEN 0 ELSE rows[i].fee]]

CanSave(s) ==
  /\ ~set.form[s].pending
  /\ s = "shipping" => allValid(set.form[s].draft)
  /\ s = "bank" => set.form[s].draft # ""

SaveSection(s) ==
  /\ set.page = "settings" /\ CanSave(s)
  /\ Post([do |-> "save", section |-> s, draft |-> set.form[s].draft])
  /\ set' = [set EXCEPT !.sent = @ + 1, !.form[s].pending = TRUE, !.form[s].status = "idle"]
  /\ UNCHANGED shop

(* cleanShippingRules: no two rules for one province. *)
cleanShippingRules(rows) == \A i, j \in DOMAIN rows : rows[i].province = rows[j].province => i = j

StoreSection(s, draft) ==
  IF s # "shipping" THEN [shop EXCEPT !.text[s] = draft]
  ELSE [shop EXCEPT !.rules = parsed(draft)]

(***************************************************************************)
(* The team page.  Its dialogs close on Escape even while they wait.        *)
(***************************************************************************)
OpenTeam ==
  /\ set.page = "settings" /\ acts = <<>>
  /\ set' = [set EXCEPT !.page = "team", !.listed = shop.tokens, !.members = shop.staff]
  /\ UNCHANGED <<shop, acts>>

OnTeam == set.page = "team" /\ set.invite = None /\ set.create = None
                            /\ set.created = 0 /\ set.revoking = 0

OpenInvite ==
  /\ OnTeam
  /\ set' = [set EXCEPT !.invite = [pending |-> FALSE, error |-> None]]
  /\ UNCHANGED <<shop, acts>>

SubmitInvite(email) ==
  /\ set.invite # None /\ ~set.invite.pending
  /\ Post([do |-> "invite", email |-> email])
  /\ set' = [set EXCEPT !.sent = @ + 1, !.invite = [pending |-> TRUE, error |-> None]]
  /\ UNCHANGED shop

OpenCreate ==
  /\ OnTeam
  /\ set' = [set EXCEPT !.create = [pending |-> FALSE, error |-> None]]
  /\ UNCHANGED <<shop, acts>>

SubmitCreate ==
  /\ set.create # None /\ ~set.create.pending
  /\ Post([do |-> "create"])
  /\ set' = [set EXCEPT !.sent = @ + 1, !.create = [pending |-> TRUE, error |-> None]]
  /\ UNCHANGED shop

(* Revoke is offered on a row that was listed as active. *)
AskRevoke(i) ==
  /\ OnTeam /\ ~set.revokePending /\ i \in DOMAIN set.listed /\ ~set.listed[i].revoked
  /\ set' = [set EXCEPT !.revoking = i]
  /\ UNCHANGED <<shop, acts>>

ConfirmRevoke ==
  /\ set.revoking # 0 /\ ~set.revokePending
  /\ Post([do |-> "revoke", token |-> set.revoking])
  /\ set' = [set EXCEPT !.sent = @ + 1, !.revokePending = TRUE]
  /\ UNCHANGED shop

(* Escape, Cancel or Done: the native dialog's close event. *)
CloseTeamDialog ==
  /\ set.page = "team" /\ ~OnTeam
  /\ set' = [set EXCEPT !.invite = None, !.create = None, !.revoking = 0, !.created = 0]
  /\ UNCHANGED <<shop, acts>>

(***************************************************************************)
(* The head of the queue on the server, then its answer on the screen.     *)
(***************************************************************************)
HandleAct ==
  /\ acts # <<>> /\ Head(acts).answer = None
  /\ LET a == Head(acts)
         Done(next, answer) == /\ shop' = next
                               /\ acts' = [acts EXCEPT ![1].answer = answer]
     IN CASE a.do = "save" -> IF a.section = "shipping" /\ ~cleanShippingRules(a.draft)
                              THEN Done(shop, "validation")
                              ELSE Done(StoreSection(a.section, a.draft), "ok")
          [] a.do = "invite" -> IF a.email \in shop.staff THEN Done(shop, "conflict")
                                ELSE Done([shop EXCEPT !.staff = @ \cup {a.email}], "ok")
          [] a.do = "create" -> Done([shop EXCEPT !.tokens = Append(@, [revoked |-> FALSE])], "ok")
          [] a.do = "revoke" -> IF shop.tokens[a.token].revoked THEN Done(shop, "notFound")
                                ELSE Done([shop EXCEPT !.tokens[a.token].revoked = TRUE], "ok")
  /\ UNCHANGED set

SectionAnswered(a, res) ==
  [set EXCEPT !.form[a.section] =
     [@ EXCEPT !.pending = FALSE, !.status = IF res = "ok" THEN "saved" ELSE res,
               !.acked = IF res = "ok" THEN a.draft ELSE @]]

(* onClose of whatever dialog of the kind is open; an error only where it     *)
(* was asked.                                                              *)
InviteAnswered(res) ==
  IF res = "ok" THEN [set EXCEPT !.invite = None, !.stale = TRUE]
  ELSE [set EXCEPT !.invite = IF @ = None THEN None ELSE [pending |-> FALSE, error |-> res]]

(* The raw token is shown once and kept on this device for the encode sheet.  *)
CreateAnswered(res) ==
  IF res = "ok" THEN [set EXCEPT !.create = None, !.created = Len(shop.tokens),
                                 !.device = Len(shop.tokens), !.stale = TRUE]
  ELSE [set EXCEPT !.create = IF @ = None THEN None ELSE [pending |-> FALSE, error |-> res]]

RevokeAnswered == [set EXCEPT !.revoking = 0, !.revokePending = FALSE, !.stale = TRUE]

(* An answer may be lost after the server acted: it reads as an error. *)
ActAnswered ==
  /\ acts # <<>> /\ Head(acts).answer # None
  /\ \E res \in {Head(acts).answer, "error"} :
       set' = CASE Head(acts).do = "save" -> SectionAnswered(Head(acts), res)
                [] Head(acts).do = "invite" -> InviteAnswered(res)
                [] Head(acts).do = "create" -> CreateAnswered(res)
                [] Head(acts).do = "revoke" -> RevokeAnswered
  /\ acts' = Tail(acts)
  /\ UNCHANGED shop

RefreshTeam ==
  /\ set.stale
  /\ set' = [set EXCEPT !.stale = FALSE, !.listed = shop.tokens, !.members = shop.staff]
  /\ UNCHANGED <<shop, acts>>

SettingsNext ==
  \/ \E s \in Sections : SaveSection(s)
  \/ \E s \in Sections \ {"shipping"}, text \in {"", "new"} : EditText(s, text)
  \/ setRow \/ addRow \/ removeRow
  \/ OpenTeam \/ OpenInvite \/ OpenCreate \/ SubmitCreate \/ ConfirmRevoke \/ CloseTeamDialog
  \/ \E e \in Emails : SubmitInvite(e)
  \/ \E i \in 1 .. MaxActs : AskRevoke(i)
  \/ HandleAct \/ ActAnswered \/ RefreshTeam

SettingsSpec == SettingsInit /\ [][SettingsNext]_settingsVars

-----------------------------------------------------------------------------
SettingsTypeOK ==
  /\ set.page \in {"settings", "team"} /\ set.sent \in 0 .. MaxActs
  /\ \A s \in Sections : set.form[s].pending \in BOOLEAN
  /\ shop.staff \subseteq Emails

(* "Saved" beside a section means the server has what was sent; a fee left    *)
(* blank is never stored as free shipping; and each province has one rule.    *)
SavedIsStored ==
  /\ \A s \in Sections : set.form[s].status = "saved" =>
       IF s = "shipping" THEN shop.rules = parsed(set.form[s].acked)
       ELSE shop.text[s] = set.form[s].acked
  /\ \A i \in DOMAIN shop.rules : shop.rules[i].typed = shop.rules[i].fee
  /\ \A i, j \in DOMAIN shop.rules : shop.rules[i].province = shop.rules[j].province => i = j

(* The token on show is the one this device keeps, and it works, whatever     *)
(* dialogs were closed meanwhile; what the list says was revoked is.         *)
TokensAreHonest ==
  /\ set.created # 0 => set.device = set.created /\ ~shop.tokens[set.created].revoked
  /\ \A i \in DOMAIN set.listed : set.listed[i].revoked => shop.tokens[i].revoked

SettingsSound == SavedIsStored /\ TokensAreHonest
=============================================================================
