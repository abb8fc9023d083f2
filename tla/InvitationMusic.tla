--------------------------- MODULE InvitationMusic ---------------------------
(***************************************************************************)
(* Background music of a wedding invitation: the useMusic hook and its     *)
(* floating button.  The hook juggles five asynchronous parties: the media *)
(* element and the tasks its play and pause events wait in, the promises   *)
(* of play(), the fade interval, the one-time pointerdown retry, and the   *)
(* page's visibility.                                                      *)
(*                                                                         *)
(* A level is 0 (silent), 1 (somewhere inside a fade) or 2 (full); where   *)
(* audio.volume is read-only, level stands for muted and fades are skipped.*)
(***************************************************************************)
EXTENDS Naturals, Sequences

CONSTANTS
  Supported,   \* audio.volume is writable (everywhere but iOS Safari)
  MaxCalls     \* bound: play() promises and queued events outstanding

VARIABLE music

musicVars == <<music>>

NoFade == [to |-> 0, stops |-> FALSE, on |-> FALSE]

Fresh ==
  [mounted |-> FALSE, exists |-> FALSE, paused |-> TRUE, level |-> 2, volume |-> 2,
   playing |-> FALSE, want |-> FALSE, retry |-> FALSE, hiddenPause |-> FALSE,
   hidden |-> FALSE, pressed |-> FALSE, fade |-> NoFade,
   open |-> 0, refused |-> 0, events |-> <<>>]

MusicInit == music = Fresh

(***************************************************************************)
(* The element.  play() on a paused element unpauses it and queues a play  *)
(* event, or is refused by the autoplay policy; on one that is not paused  *)
(* it only adds a promise.  pause() rejects every promise still open.      *)
(***************************************************************************)
Play(m, allowed) ==
  IF ~m.paused THEN [m EXCEPT !.open = @ + 1]
  ELSE IF allowed THEN [m EXCEPT !.paused = FALSE, !.open = @ + 1, !.events = Append(@, "play")]
  ELSE [m EXCEPT !.refused = @ + 1]

Pause(m) ==
  IF m.paused THEN m
  ELSE [m EXCEPT !.paused = TRUE, !.refused = @ + m.open, !.open = 0,
                 !.events = Append(@, "pause")]

Room == Len(music.events) < MaxCalls /\ music.open + music.refused < MaxCalls

(***************************************************************************)
(* The hook's operations, as functions of its state.                       *)
(***************************************************************************)
applyVolume(m, v) == IF m.exists THEN [m EXCEPT !.level = v] ELSE m

FadeDone(m, stops) ==
  IF ~stops \/ m.want THEN m ELSE applyVolume(Pause(m), m.volume)

fadeTo(m, v, stops) ==
  IF ~m.exists THEN m
  ELSE IF Supported THEN [m EXCEPT !.fade = [to |-> v, stops |-> stops, on |-> TRUE]]
  ELSE FadeDone(applyVolume([m EXCEPT !.fade = NoFade], v), stops)

ensureAudio(m) == IF m.exists THEN m ELSE [m EXCEPT !.exists = TRUE, !.paused = TRUE]

tryPlay(m, allowed) ==
  LET ready == ensureAudio(m)
  IN Play(applyVolume(ready, IF Supported THEN 0 ELSE m.volume), allowed)

start(m, allowed) == IF m.want THEN m ELSE tryPlay([m EXCEPT !.want = TRUE], allowed)

stop(m) ==
  fadeTo([m EXCEPT !.want = FALSE, !.hiddenPause = FALSE, !.retry = FALSE, !.playing = FALSE],
         0, TRUE)

toggle(m, allowed) ==
  LET audible == m.exists /\ ~m.paused
  IN IF m.want /\ audible THEN stop(m)
     ELSE IF m.want THEN tryPlay([m EXCEPT !.hiddenPause = FALSE], allowed)
     ELSE start(m, allowed)

(***************************************************************************)
(* The guest and the system.                                               *)
(***************************************************************************)
Mounted == music.mounted /\ Room
Visible == Mounted /\ ~music.hidden

OpenInvitation(allowed) ==
  /\ music = Fresh
  /\ music' = start([music EXCEPT !.mounted = TRUE], allowed)

(* Every tap reaches the window's pointerdown first; a click on the button   *)
(* follows it.                                                             *)
PointerDown(allowed, onButton) ==
  /\ Visible /\ ~music.pressed
  /\ LET m == [music EXCEPT !.retry = FALSE, !.pressed = onButton]
     IN music' = IF music.retry /\ music.want /\ ~(music.exists /\ ~music.paused)
                 THEN tryPlay(m, allowed) ELSE m

Click(allowed) ==
  /\ Visible /\ music.pressed
  /\ music' = toggle([music EXCEPT !.pressed = FALSE], allowed)

SetVolume(v) ==
  /\ Visible /\ Supported /\ v # music.volume
  /\ LET m == [music EXCEPT !.volume = v]
     IN music' = IF m.want THEN applyVolume([m EXCEPT !.fade = NoFade], v) ELSE m

VisibilityChange(allowed) ==
  /\ Mounted
  /\ LET m == [music EXCEPT !.hidden = ~@, !.pressed = FALSE]
     IN music' = IF m.hidden
                 THEN IF m.want /\ m.exists /\ ~m.paused
                      THEN Pause([m EXCEPT !.hiddenPause = TRUE]) ELSE m
                 ELSE IF m.hiddenPause /\ m.want
                      THEN tryPlay([m EXCEPT !.hiddenPause = FALSE], allowed)
                      ELSE [m EXCEPT !.hiddenPause = FALSE]

(* A phone call, or another app taking the audio focus. *)
Interrupted ==
  /\ Mounted /\ music.exists /\ ~music.paused
  /\ music' = Pause(music)

(* The source turns out to be unplayable: the element is dropped.            *)
SourceFails ==
  /\ Mounted /\ music.exists
  /\ music' = [music EXCEPT !.exists = FALSE, !.paused = TRUE, !.want = FALSE, !.retry = FALSE,
                            !.playing = FALSE, !.refused = @ + music.open, !.open = 0,
                            !.events = <<>>]

Unmount ==
  /\ Mounted
  /\ music' = Pause([music EXCEPT !.mounted = FALSE, !.fade = NoFade, !.retry = FALSE,
                                  !.want = FALSE, !.pressed = FALSE])

(***************************************************************************)
(* What the browser delivers later.                                        *)
(***************************************************************************)
HearEvent ==
  /\ music.events # <<>>
  /\ music' = [music EXCEPT !.playing = Head(music.events) = "play", !.events = Tail(@)]

PlayResolves ==
  /\ music.open > 0
  /\ LET m == [music EXCEPT !.open = @ - 1]
     IN music' = IF ~m.want THEN Pause(m)
                 ELSE IF Supported THEN fadeTo(m, m.volume, FALSE) ELSE m

PlayRejected ==
  /\ music.refused > 0
  /\ music' = [music EXCEPT !.refused = @ - 1, !.retry = TRUE]

FadeTick ==
  /\ music.fade.on
  /\ \/ music' = [music EXCEPT !.level = 1]
     \/ music' = FadeDone([music EXCEPT !.level = music.fade.to, !.fade = NoFade],
                          music.fade.stops)

MusicNext ==
  \/ \E allowed \in BOOLEAN :
       \/ OpenInvitation(allowed) \/ Click(allowed) \/ VisibilityChange(allowed)
       \/ \E onButton \in BOOLEAN : PointerDown(allowed, onButton)
  \/ \E v \in {0, 2} : SetVolume(v)
  \/ Interrupted \/ SourceFails \/ Unmount
  \/ HearEvent \/ PlayResolves \/ PlayRejected \/ FadeTick

MusicSpec == MusicInit /\ [][MusicNext]_musicVars

-----------------------------------------------------------------------------
Resting == ~music.fade.on /\ music.open + music.refused = 0 /\ music.events = <<>>
Sounding == music.exists /\ ~music.paused

MusicTypeOK ==
  /\ music.level \in 0 .. 2 /\ music.volume \in {0, 2}
  /\ music.open \in 0 .. MaxCalls /\ music.refused \in 0 .. MaxCalls
  /\ music.fade.to \in 0 .. 2

(* Once everything asynchronous has settled, nothing sounds against an       *)
(* explicit off or after the page is gone, and what sounds is at the         *)
(* guest's own level: no fade, late promise or resume leaves it otherwise.   *)
OffIsSilent ==
  /\ Resting /\ Sounding => music.want /\ music.mounted /\ music.level = music.volume
  /\ Sounding /\ ~music.want => music.fade.on \/ music.open > 0
=============================================================================
