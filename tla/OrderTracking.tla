--------------------------- MODULE OrderTracking ---------------------------
(***************************************************************************)
(* The two screens that follow an order: the guest tracker (code + phone,  *)
(* order-lookup.tsx) and the wait screen behind the tracking link          *)
(* (wait-screen.tsx), both on the poll loop of use-order-poll.ts, and the  *)
(* timeline they draw (order-lookup-view.ts).  Orders move on the server   *)
(* meanwhile, a request is answered from what it read, and the answer of a *)
(* loop that was given up may still arrive.  A request that does not reach  *)
(* the storefront at all is answered by an exception, which the loop does    *)
(* not catch: "broken" records that the present run ended that way.         *)
(***************************************************************************)
EXTENDS OrderStatus, FiniteSets

CONSTANTS
  Codes,         \* order codes that exist
  MaxRestarts,   \* bound: loops started on one screen
  Moving,        \* bound: orders the shop works on while a screen is open
  None

ASSUME TrackingBounds == MaxRestarts \in Nat \ {0} /\ Moving \subseteq Codes

VARIABLES
  trail,   \* [Codes -> statuses the order went through, the last one current]
  track    \* the screen

trackVars == <<trail, track>>

(***************************************************************************)
(* order-lookup-view.ts.                                                   *)
(***************************************************************************)
Last(s) == s[Len(s)]
PROGRESS_STATUSES == <<"PENDING_CONFIRM", "PAID", "PRINTING", "SHIPPING", "COMPLETED">>

isPollableStatus(status) == status \notin TerminalStatuses

Reached(data) == {data[i] : i \in DOMAIN data}

(* buildTimeline: the state of every step. *)
buildTimeline(data) ==
  LET isClosed == Last(data) \in {"CANCELLED", "REFUNDED"}
      current == IF isClosed THEN 0
                 ELSE CHOOSE i \in DOMAIN PROGRESS_STATUSES : PROGRESS_STATUSES[i] = Last(data)
  IN [i \in DOMAIN PROGRESS_STATUSES |->
        IF isClosed
        THEN IF PROGRESS_STATUSES[i] \in Reached(data) THEN "done" ELSE "upcoming"
        ELSE IF i < current THEN "done" ELSE IF i = current THEN "current" ELSE "upcoming"]

(***************************************************************************)
(* The screen.  query is what is being followed; loop numbers the run of   *)
(* the effect, run is where that run stands, calls are the requests of any *)
(* run that have no answer yet, each with what the server read for it.     *)
(* seen is history: the longest trail this run has shown.                  *)
(***************************************************************************)
Away == [page |-> "closed", query |-> None, kind |-> "idle", order |-> None, live |-> FALSE,
         loop |-> 0, run |-> "off", shownOrder |-> FALSE, late |-> FALSE, broken |-> FALSE,
         hidden |-> FALSE, calls |-> {}, seen |-> 0]

TrackingInit ==
  /\ trail \in [Codes -> {<<InitialStatusForChannel(k)>> : k \in Channels}]
  /\ track = Away

(* The effect: a fresh run that asks at once, unless the tab is hidden.      *)
Restarted(s) ==
  LET n == s.loop + 1
      asks == ~s.hidden
  IN [s EXCEPT !.kind = "loading", !.order = None, !.live = FALSE, !.loop = n, !.seen = 0,
               !.shownOrder = FALSE, !.late = FALSE, !.broken = FALSE,
               !.run = IF asks THEN "fetching" ELSE "waiting",
               !.calls = @ \cup IF asks THEN {[loop |-> n, of |-> s.query, read |-> None]} ELSE {}]

OpenTracker ==
  /\ track.page = "closed"
  /\ track' = [Away EXCEPT !.page = "lookup"]
  /\ UNCHANGED trail

(* /o/{handle}: parseTrackHandle refuses a malformed one.                    *)
OpenLink ==
  /\ track.page = "closed"
  /\ \/ track' = [Away EXCEPT !.page = "invalid"]
     \/ \E c \in Codes, token \in BOOLEAN :
          track' = Restarted([Away EXCEPT !.page = "wait",
                                          !.query = [code |-> c, matches |-> token]])
  /\ UNCHANGED trail

(* submit: blank fields only raise the form error, and the loop goes on.     *)
SubmitLookup ==
  /\ track.page = "lookup" /\ track.loop < MaxRestarts
  /\ \E c \in Codes, phone \in BOOLEAN :
       track' = Restarted([track EXCEPT !.query = [code |-> c, matches |-> phone]])
  /\ UNCHANGED trail

(* The buttons of the error state and of the paused timeline.                *)
OffersRetry ==
  \/ track.kind = "error"
  \/ track.kind = "found" /\ ~track.live /\ isPollableStatus(Last(track.order))

RetryPoll ==
  /\ OffersRetry /\ track.loop < MaxRestarts
  /\ track' = Restarted(track)
  /\ UNCHANGED trail

(* The server reads the order, or refuses the request.                       *)
ServeTrack(call) ==
  /\ call.read = None
  /\ \E read \in {[kind |-> "rate_limited"], [kind |-> "error"],
                  IF call.of.matches THEN [kind |-> "found", order |-> trail[call.of.code]]
                                     ELSE [kind |-> "not_found"]} :
       track' = [track EXCEPT !.calls = (@ \ {call}) \cup {[call EXCEPT !.read = read]}]
  /\ UNCHANGED trail

GivesUp(s) == [s EXCEPT !.run = "off", !.live = FALSE]

Longest(s, order) == IF Len(order) > s.seen THEN Len(order) ELSE s.seen

(* run, after its await. *)
Arrives(s, read) ==
  IF read.kind = "found"
  THEN LET keepPolling == isPollableStatus(Last(read.order)) /\ ~s.late
       IN [s EXCEPT !.kind = "found", !.order = read.order, !.live = keepPolling,
                    !.seen = Longest(s, read.order),
                    !.shownOrder = TRUE, !.run = IF keepPolling THEN "waiting" ELSE "off"]
  ELSE IF ~s.shownOrder THEN [s EXCEPT !.kind = read.kind, !.run = "off"]
  ELSE IF s.late THEN GivesUp(s)
  ELSE [s EXCEPT !.run = "waiting"]

\* Mutant: an answer counts whichever run asked for it.
AnswerAnyRun(call) ==
  /\ call.read # None
  /\ track' = Arrives([track EXCEPT !.calls = @ \ {call}], call.read)
  /\ UNCHANGED trail

AnswerTrack(call) ==
  /\ call.read # None
  /\ LET rest == [track EXCEPT !.calls = @ \ {call}]
     IN track' = IF call.loop = track.loop THEN Arrives(rest, call.read) ELSE rest
  /\ UNCHANGED trail

(* The storefront is out of reach: the call throws, and run with it.         *)
Unreachable(call) ==
  /\ track' = IF call.loop = track.loop
              THEN [track EXCEPT !.calls = @ \ {call}, !.run = "off", !.broken = TRUE]
              ELSE [track EXCEPT !.calls = @ \ {call}]
  /\ UNCHANGED trail

(* The timer fires: ask again, unless the tab is hidden.                     *)
TimerFires ==
  /\ track.run = "waiting"
  /\ track' = IF track.hidden
              THEN IF track.late THEN GivesUp(track) ELSE track
              ELSE [track EXCEPT !.run = "fetching",
                                 !.calls = @ \cup {[loop |-> track.loop, of |-> track.query,
                                                    read |-> None]}]
  /\ UNCHANGED trail

(* Ten minutes pass; the tab is hidden or shown; the page is left.           *)
DeadlinePasses ==
  /\ track.run # "off" /\ ~track.late
  /\ track' = [track EXCEPT !.late = TRUE]
  /\ UNCHANGED trail

SwitchTab ==
  /\ track.page \in {"lookup", "wait"}
  /\ track' = [track EXCEPT !.hidden = ~@]
  /\ UNCHANGED trail

LeaveTracking ==
  /\ track.page # "closed"
  /\ track' = Away
  /\ UNCHANGED trail

OrderMoves(c) ==
  /\ \E to \in Successors(Last(trail[c])) : trail' = [trail EXCEPT ![c] = Append(@, to)]
  /\ UNCHANGED track

TrackingNext ==
  \/ OpenTracker \/ OpenLink \/ SubmitLookup \/ RetryPoll
  \/ \E call \in track.calls : ServeTrack(call) \/ AnswerTrack(call) \/ Unreachable(call)
  \/ TimerFires \/ DeadlinePasses \/ SwitchTab \/ LeaveTracking
  \/ \E c \in Moving : OrderMoves(c)

TrackingSpec == TrackingInit /\ [][TrackingNext]_trackVars

-----------------------------------------------------------------------------
TrackingTypeOK ==
  /\ trail \in [Codes -> Seq(Statuses)]
  /\ track.kind \in {"idle", "loading", "found", "not_found", "rate_limited", "error"}
  /\ track.run \in {"off", "waiting", "fetching"}
  /\ track.loop \in 0 .. MaxRestarts

(* The screen never claims to update by itself, or to be searching, when       *)
(* nothing would: unless the storefront was out of reach, or ten minutes went   *)
(* by before the first request, in a hidden tab.  No run has two requests out. *)
LiveMeansPolling ==
  /\ track.live => track.run # "off" \/ track.broken
  /\ track.kind = "loading" => track.run # "off" \/ track.broken \/ track.late
  /\ track.run = "fetching" => \E call \in track.calls : call.loop = track.loop
  /\ Cardinality({call \in track.calls : call.loop = track.loop}) <= 1

(* The order on screen is the one last asked for, as the server had it at    *)
(* some moment, and not behind what this run showed before.                 *)
ShowsTheOrderAskedFor ==
  track.kind = "found" =>
    /\ track.query.matches
    /\ Len(track.order) <= Len(trail[track.query.code])
    /\ track.order = SubSeq(trail[track.query.code], 1, Len(track.order))
    /\ Len(track.order) >= track.seen

(* The timeline shows as still to come exactly what the order has not been      *)
(* through, except that a running order born paid is drawn as confirmed; and   *)
(* the step it calls current is the order's status.                         *)
TimelineTellsTheTrail ==
  track.kind = "found" =>
    LET steps == buildTimeline(track.order)
        bornPaid == track.order[1] = "PAID" /\ Last(track.order) \notin {"CANCELLED", "REFUNDED"}
    IN \A i \in DOMAIN steps :
         /\ steps[i] # "upcoming" <=> \/ PROGRESS_STATUSES[i] \in Reached(track.order)
                                      \/ bornPaid /\ PROGRESS_STATUSES[i] = "PENDING_CONFIRM"
         /\ steps[i] = "current" <=> PROGRESS_STATUSES[i] = Last(track.order)

TrackingHonest == LiveMeansPolling /\ ShowsTheOrderAskedFor /\ TimelineTellsTheTrail

(* A failure during polling does not end it before its ten minutes are over      *)
(* (the comment in use-order-poll.ts where a failure is handled).             *)
FailuresKeepPolling == track.live /\ ~track.late => track.run # "off"
=============================================================================
