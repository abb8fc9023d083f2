-------------------------- MODULE InvitationWishes --------------------------
(***************************************************************************)
(* The wall of wishes of an invitation: sending a wish, which appears at    *)
(* once under the id "local" until the server answers, and editing one's    *)
(* own wishes, which the server allows on any one of three proofs: the edit *)
(* token kept in the browser, the guest of a personalised link, or the      *)
(* browser's identity.  One guest, who may come back; a wish is its id and  *)
(* text, the newest first.                                                 *)
(***************************************************************************)
EXTENDS Naturals, Sequences

CONSTANTS
  Lines,       \* texts a guest may write
  MaxOpens,    \* bound: page loads
  MaxEdits,    \* bound: edits saved
  None

VARIABLES
  wall,        \* server: stored wishes, the newest first: [id, text, guest, ident]
  tokens,      \* ids whose edit token localStorage keeps
  wishes       \* the mounted component, and its requests

wishesVars == <<wall, tokens, wishes>>

Local == 0   \* the id "local" of a wish the server has not named yet

Closed == [open |-> FALSE, opens |-> 0, guest |-> FALSE, ident |-> FALSE, list |-> <<>>,
           sent |-> FALSE, myTokens |-> {}, editable |-> {}, mine |-> "none",
           editing |-> None, draft |-> None, saving |-> FALSE, error |-> FALSE,
           post |-> None, patch |-> None, edits |-> 0, torn |-> FALSE]

WishesInit == wall = <<>> /\ tokens = {} /\ wishes = Closed

Row(w) == [id |-> w.id, text |-> w.text]
Rows(s) == [i \in DOMAIN s |-> Row(s[i])]
Stored(id) == wall[CHOOSE i \in DOMAIN wall : wall[i].id = id]

(* myWishes: the caller's wishes, by guest link or by identity. *)
Mine(u) ==
  {wall[i].id : i \in {j \in DOMAIN wall : (u.guest /\ wall[j].guest) \/ (u.ident /\ wall[j].ident)}}

(* patchWish: any one of the three proofs. *)
Authorized(p) ==
  LET w == Stored(p.id) IN p.token \/ (p.guest /\ w.guest) \/ (p.ident /\ w.ident)

(* The page is rendered on the server with the wall of that moment; the first *)
(* effect reads the tokens and asks for the guest's own wishes when there is  *)
(* a guest or an identity to ask with.                                     *)
OpenWall(personal) ==
  /\ wishes.opens < MaxOpens
  /\ wishes.post = None /\ wishes.patch = None
  /\ wishes' = [Closed EXCEPT !.open = TRUE, !.opens = wishes.opens + 1, !.guest = personal,
                              !.list = Rows(wall), !.myTokens = tokens, !.editable = tokens,
                              !.mine = IF personal THEN "asked" ELSE "none",
                              !.edits = wishes.edits]
  /\ UNCHANGED <<wall, tokens>>

(* The identity arrives after the page: the effect runs again with it.       *)
IdentityReady ==
  /\ wishes.open /\ ~wishes.ident
  /\ wishes' = [wishes EXCEPT !.ident = TRUE, !.mine = "asked", !.myTokens = tokens,
                              !.editable = tokens]
  /\ UNCHANGED <<wall, tokens>>

MineAnswers ==
  /\ wishes.mine = "asked"
  /\ \/ wishes' = [wishes EXCEPT !.mine = "none", !.editable = @ \cup Mine(wishes)]
     \/ wishes' = [wishes EXCEPT !.mine = "none"]
  /\ UNCHANGED <<wall, tokens>>

(* send: the form gives way to the thanks, so one wish per visit.             *)
Send(text) ==
  /\ wishes.open /\ ~wishes.sent
  /\ wishes' = [wishes EXCEPT !.sent = TRUE, !.list = <<[id |-> Local, text |-> text]>> \o wishes.list,
                  !.post = [text |-> text, guest |-> wishes.guest, ident |-> wishes.ident]]
  /\ UNCHANGED <<wall, tokens>>

Renamed(list, id) == [i \in DOMAIN list |-> IF list[i].id = Local THEN [list[i] EXCEPT !.id = id]
                                            ELSE list[i]]

(* The server stores the wish; its answer, if it arrives, names it and brings *)
(* its edit token.                                                         *)
PostArrives(answered) ==
  /\ wishes.post # None
  /\ LET id == Len(wall) + 1  p == wishes.post IN
       /\ wall' = <<[id |-> id, text |-> p.text, guest |-> p.guest, ident |-> p.ident]>> \o wall
       /\ tokens' = IF answered THEN tokens \cup {id} ELSE tokens
       /\ wishes' = IF answered
                    THEN [wishes EXCEPT !.post = None, !.list = Renamed(wishes.list, id),
                                        !.editable = @ \cup {id}]
                    ELSE [wishes EXCEPT !.post = None]

PostLost ==
  /\ wishes.post # None
  /\ wishes' = [wishes EXCEPT !.post = None]
  /\ UNCHANGED <<wall, tokens>>

(* An edit link stands by every row in editable, another edit open or not.    *)
StartEdit(i) ==
  /\ wishes.open /\ i \in DOMAIN wishes.list /\ wishes.list[i].id \in wishes.editable
  /\ wishes.editing # wishes.list[i].id
  /\ wishes' = [wishes EXCEPT !.editing = wishes.list[i].id, !.draft = wishes.list[i].text,
                              !.error = FALSE]
  /\ UNCHANGED <<wall, tokens>>

TypeEdit(text) ==
  /\ wishes.editing # None /\ text # wishes.draft
  /\ wishes' = [wishes EXCEPT !.draft = text]
  /\ UNCHANGED <<wall, tokens>>

CancelEdit ==
  /\ wishes.editing # None
  /\ wishes' = [wishes EXCEPT !.editing = None]
  /\ UNCHANGED <<wall, tokens>>

SaveEdit ==
  /\ wishes.editing # None /\ ~wishes.saving /\ wishes.edits < MaxEdits
  /\ wishes' = [wishes EXCEPT !.saving = TRUE, !.error = FALSE, !.edits = @ + 1,
                  !.patch = [id |-> wishes.editing, text |-> wishes.draft,
                             token |-> wishes.editing \in wishes.myTokens,
                             guest |-> wishes.guest, ident |-> wishes.ident]]
  /\ UNCHANGED <<wall, tokens>>

(* The answer updates its row and closes whichever editor is open by then.    *)
PatchAnswers(answered) ==
  /\ wishes.patch # None /\ Authorized(wishes.patch)
  /\ LET p == wishes.patch IN
       /\ wall' = [i \in DOMAIN wall |-> IF wall[i].id = p.id THEN [wall[i] EXCEPT !.text = p.text]
                                         ELSE wall[i]]
       /\ wishes' = IF answered
            THEN [wishes EXCEPT !.patch = None, !.saving = FALSE, !.editing = None,
                    !.list = [i \in DOMAIN wishes.list |->
                              IF wishes.list[i].id = p.id THEN Row(p) ELSE wishes.list[i]]]
            ELSE [wishes EXCEPT !.patch = None, !.saving = FALSE, !.error = TRUE, !.torn = TRUE]
  /\ UNCHANGED tokens

\* Mutant: a refused edit leaves the editor saving.
PatchHangs ==
  /\ wishes.patch # None
  /\ wishes' = [wishes EXCEPT !.patch = None, !.error = TRUE]
  /\ UNCHANGED <<wall, tokens>>

PatchFails ==
  /\ wishes.patch # None
  /\ wishes' = [wishes EXCEPT !.patch = None, !.saving = FALSE, !.error = TRUE]
  /\ UNCHANGED <<wall, tokens>>

WishesNext ==
  \/ \E personal \in BOOLEAN : OpenWall(personal)
  \/ IdentityReady \/ MineAnswers \/ PostLost \/ CancelEdit \/ SaveEdit \/ PatchFails
  \/ \E text \in Lines : Send(text) \/ TypeEdit(text)
  \/ \E answered \in BOOLEAN : PostArrives(answered) \/ PatchAnswers(answered)
  \/ \E i \in 1 .. MaxOpens : StartEdit(i)

WishesSpec == WishesInit /\ [][WishesNext]_wishesVars

-----------------------------------------------------------------------------
WishesTypeOK ==
  /\ tokens \subseteq 1 .. MaxOpens /\ wishes.editable \subseteq 1 .. MaxOpens
  /\ wishes.saving <=> wishes.patch # None

(* With no answer lost, every wish on the page reads as the server stores it, *)
(* each stored wish at most once, whatever was cancelled, reopened or saved   *)
(* while the requests were under way.                                       *)
WallMatchesServer ==
  wishes.open =>
    LET list == wishes.list  named == {i \in DOMAIN list : list[i].id # Local} IN
      /\ \A i, j \in named : list[i].id = list[j].id => i = j
      /\ ~wishes.torn => \A i \in named : list[i].text = Stored(list[i].id).text
=============================================================================
