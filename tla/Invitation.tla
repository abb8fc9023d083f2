----------------------------- MODULE Invitation -----------------------------
(***************************************************************************)
(* The page of a wedding invitation: its music, the guest's answer, the wall of  *)
(* wishes and the album, mounted side by side by invitation-card.tsx.  They    *)
(* share the page and the server, and no state.                              *)
(***************************************************************************)
EXTENDS Integers, Sequences, FiniteSets

CONSTANTS
  Supported,     \* audio.volume is writable (everywhere but iOS Safari)
  MaxTasks,      \* bound: play() promises and queued events outstanding
  Invitees,      \* phones, each of one guest; all of one make, on one network
  Names, Choices,\* names a guest may type, answers a guest may give
  Loads(_),      \* bound: page loads of a phone
  MaxSaves,      \* bound: saves sent per phone
  Lines,         \* texts a guest may write on the wall
  MaxOpens,      \* bound: page loads of the guest who writes
  MaxEdits,      \* bound: edits saved
  MaxAlbum,      \* bound: photos a couple uploads
  NoOne          \* no name, no answer, no request

(* There are finitely many phones, and NoOne is no token's row, no answer and no  *)
(* acknowledged choice.                                                      *)
InvitationConstants ==
  /\ IsFiniteSet(Invitees) /\ MaxAlbum \in Nat
  /\ NoOne \notin [id : Nat, trusted : BOOLEAN]
  /\ NoOne \notin [name : Names \cup {NoOne}, by : Invitees, rsvp : Choices \cup {NoOne}]
  /\ NoOne \notin {<<v>> : v \in Choices \cup {NoOne}}
ASSUME InvitationAssumption == InvitationConstants

VARIABLES
  music,                          \* the hook and its media element
  identity, rsvp, saves, chose,   \* the answers: server, pages, requests, history
  wall, tokens, wishes,           \* the wishes: server, kept edit tokens, component
  gallery                         \* the album and its viewer

Music == INSTANCE InvitationMusic WITH MaxCalls <- MaxTasks
Rsvp == INSTANCE InvitationRsvp WITH Guests <- Invitees, Identities <- 1 .. Cardinality(Invitees),
                                     MaxVisits <- Loads, None <- NoOne
Wishes == INSTANCE InvitationWishes WITH None <- NoOne
Gallery == INSTANCE InvitationGallery WITH MaxPhotos <- MaxAlbum

rsvpVars == <<identity, rsvp, saves, chose>>
wishesVars == <<wall, tokens, wishes>>
invitationVars == <<music, rsvpVars, wishesVars, gallery>>

InvitationInit == Music!MusicInit /\ Rsvp!RsvpInit /\ Wishes!WishesInit /\ Gallery!GalleryInit

PlayMusic == Music!MusicNext /\ UNCHANGED <<rsvpVars, wishesVars, gallery>>
AnswerInvitation == Rsvp!RsvpNext /\ UNCHANGED <<music, wishesVars, gallery>>
WriteWishes == Wishes!WishesNext /\ UNCHANGED <<music, rsvpVars, gallery>>
LookAtAlbum == Gallery!GalleryNext /\ UNCHANGED <<music, rsvpVars, wishesVars>>

InvitationNext == PlayMusic \/ AnswerInvitation \/ WriteWishes \/ LookAtAlbum

InvitationSpec == InvitationInit /\ [][InvitationNext]_invitationVars

-----------------------------------------------------------------------------
InvitationTypeOK == Music!MusicTypeOK /\ Rsvp!RsvpTypeOK /\ Wishes!WishesTypeOK

(* Music that is off is silent (InvitationMusic), a guest reads back the guest's  *)
(* own answer (InvitationRsvp), the wall is the server's (InvitationWishes),    *)
(* every photo has its cell (InvitationGallery).                             *)
InvitationSound ==
  Music!OffIsSilent /\ Rsvp!AnswersAreOnesOwn /\ Wishes!WallMatchesServer /\ Gallery!EveryPhotoHasItsCell
=============================================================================
