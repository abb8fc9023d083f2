------------------------ MODULE CustomerPagesProofs ------------------------
(***************************************************************************)
(* Proofs about four pages a customer opens.  OrderTracking: whatever the     *)
(* server moves, refuses or loses and whoever hides, restarts or leaves the     *)
(* screen, for any set of orders and any number of restarts, the screen is     *)
(* honest.  PetTag: whoever scans, sets up, edits or finds a pet, for any set of *)
(* phones, in whatever order the shop handles the calls and loses the answers, *)
(* the tag has one owner and its pages say what the shop stored.  Checkout:     *)
(* however many tabs edit one cart while one of them orders from it, for any    *)
(* set of configurations and any limits, a line is there once and an order is   *)
(* what its page showed.  Configurator: whatever is picked of whichever version  *)
(* of a product, for any catalogue whose rows have keys, the server prices what  *)
(* the button lets through, and an edit that changes nothing changes nothing.   *)
(***************************************************************************)
EXTENDS OrderTracking, PetTag, Checkout, Configurator,
        NaturalsInduction, FiniteSetTheorems, SequenceTheorems, FunctionTheorems, TLAPS

-----------------------------------------------------------------------------
(* The types of the screen, field by field.                                *)
Queries == [code : Codes, matches : BOOLEAN]
Refusals == [kind : {"rate_limited", "error", "not_found"}]
Findings == [kind : {"found"}, order : Seq(Statuses)]
Calls == [loop : Nat, of : Queries, read : Refusals \cup Findings \cup {None}]
Kinds == {"idle", "loading", "found", "not_found", "rate_limited", "error"}
Screens ==
  [page : {"closed", "invalid", "lookup", "wait"}, query : Queries \cup {None}, kind : Kinds,
   order : Seq(Statuses) \cup {None}, live : BOOLEAN, loop : 0 .. MaxRestarts,
   run : {"off", "waiting", "fetching"}, shownOrder : BOOLEAN, late : BOOLEAN, broken : BOOLEAN,
   hidden : BOOLEAN, calls : SUBSET Calls, seen : Nat]

TrackTyped ==
  /\ trail \in [Codes -> Seq(Statuses)]
  /\ track \in Screens
  /\ track.kind # "idle" => track.query \in Queries
  /\ track.kind = "idle" => track.run = "off" /\ track.calls = {} /\ ~track.live
  /\ track.kind = "found" => track.order \in Seq(Statuses)

(* A trail tells its own story: a running order has been through exactly the   *)
(* progress up to where it is, but for the confirmation if it was born paid.  *)
Told(s) ==
  /\ s \in Seq(Statuses) /\ s # <<>>
  /\ s[1] \in {"PENDING_CONFIRM", "PAID"}
  /\ "PENDING_CONFIRM" \in Reached(s) => s[1] = "PENDING_CONFIRM"
  /\ \A i \in 1 .. 5 :
       Last(s) = PROGRESS_STATUSES[i] =>
         \A j \in 1 .. 5 : PROGRESS_STATUSES[j] \in Reached(s) <=> j <= i /\ (j > 1 \/ s[1] = "PENDING_CONFIRM")

(* What was read is the trail as it once was.                               *)
Earlier(s, t) == Len(s) <= Len(t) /\ s = SubSeq(t, 1, Len(s))

TrailsTold == \A c \in Codes : Told(trail[c])

ReadHonest(call) ==
  call.read # None =>
    /\ call.read \in Refusals \cup Findings
    /\ call.read.kind = "found" =>
         /\ call.read \in Findings /\ call.of.matches
         /\ Told(call.read.order) /\ Earlier(call.read.order, trail[call.of.code])

CallsHonest ==
  \A call \in track.calls :
    /\ 1 <= call.loop /\ call.loop <= track.loop /\ ReadHonest(call)
    /\ call.loop = track.loop => call.of = track.query /\ track.run = "fetching"

OneRequest ==
  /\ \A c, d \in track.calls : c.loop = track.loop /\ d.loop = track.loop => c = d
  /\ track.run = "fetching" => \E call \in track.calls : call.loop = track.loop

LoopHonest ==
  /\ track.live => track.shownOrder /\ (track.run # "off" \/ track.broken)
  /\ track.shownOrder <=> track.kind = "found"
  /\ track.kind # "idle" => track.loop >= 1
  /\ track.run # "off" => track.kind \in {"loading", "found"}
  /\ track.kind = "loading" => track.run # "off" \/ track.broken \/ track.late

OrderHonest ==
  track.kind = "found" =>
    track.query.matches /\ Told(track.order) /\ Earlier(track.order, trail[track.query.code])

TrackInv == TrackTyped /\ TrailsTold /\ CallsHonest /\ OneRequest /\ LoopHonest /\ OrderHonest

-----------------------------------------------------------------------------
(* Trails, and what is drawn of them.                                       *)

LEMMA Progress ==
  /\ DOMAIN PROGRESS_STATUSES = 1 .. 5
  /\ PROGRESS_STATUSES[1] = "PENDING_CONFIRM" /\ PROGRESS_STATUSES[2] = "PAID"
  /\ PROGRESS_STATUSES[3] = "PRINTING" /\ PROGRESS_STATUSES[4] = "SHIPPING"
  /\ PROGRESS_STATUSES[5] = "COMPLETED"
  /\ \A i, j \in 1 .. 5 : PROGRESS_STATUSES[i] = PROGRESS_STATUSES[j] => i = j
  BY DEF PROGRESS_STATUSES

LEMMA GrowsByOne ==
  ASSUME NEW s \in Seq(Statuses), s # <<>>, NEW to \in Statuses
  PROVE  LET t == Append(s, to) IN
           /\ t \in Seq(Statuses) /\ t # <<>> /\ Len(t) = Len(s) + 1
           /\ t[1] = s[1] /\ Last(t) = to /\ Reached(t) = Reached(s) \cup {to}
           /\ \A i \in 1 .. Len(s) : t[i] = s[i]
<1> DEFINE t == Append(s, to)
<1>1. /\ t \in Seq(Statuses) /\ t # <<>> /\ Len(t) = Len(s) + 1
      /\ t[Len(s) + 1] = to /\ \A i \in 1 .. Len(s) : t[i] = s[i]
  BY AppendProperties
<1>2. Len(s) \in Nat \ {0} /\ DOMAIN s = 1 .. Len(s) /\ DOMAIN t = 1 .. Len(s) + 1
  BY <1>1, LenProperties, EmptySeq
<1>3. t[1] = s[1] /\ Last(t) = to
  BY <1>1, <1>2 DEF Last
<1>4. Reached(t) = Reached(s) \cup {to}
  <2>1. ASSUME NEW x \in Reached(t) PROVE x \in Reached(s) \cup {to}
    <3>1. PICK i \in 1 .. Len(s) + 1 : x = t[i]
      BY <1>2, <2>1 DEF Reached
    <3>2. CASE i = Len(s) + 1
      BY <3>1, <3>2, <1>1
    <3>3. CASE i \in 1 .. Len(s)
      BY <3>1, <3>3, <1>1, <1>2 DEF Reached
    <3> QED
      BY <3>2, <3>3, <1>2
  <2>2. ASSUME NEW x \in Reached(s) \cup {to} PROVE x \in Reached(t)
    <3>1. CASE x = to
      BY <3>1, <1>1, <1>2 DEF Reached
    <3>2. CASE x \in Reached(s)
      <4>1. PICK i \in 1 .. Len(s) : x = s[i]
        BY <3>2, <1>2 DEF Reached
      <4>2. i \in 1 .. Len(s) + 1 /\ x = t[i]
        BY <4>1, <1>1, <1>2
      <4> QED
        BY <4>2, <1>2 DEF Reached
    <3> QED
      BY <3>1, <3>2
  <2> QED
    BY <2>1, <2>2
<1> QED
  BY <1>1, <1>3, <1>4

LEMMA ToldStart ==
  ASSUME NEW k \in Channels
  PROVE  Told(<<InitialStatusForChannel(k)>>)
<1> DEFINE s == <<InitialStatusForChannel(k)>>
<1>1. InitialStatusForChannel(k) \in {"PENDING_CONFIRM", "PAID"}
  BY DEF InitialStatusForChannel
<1>2. s \in Seq(Statuses) /\ s # <<>> /\ s[1] = InitialStatusForChannel(k) /\ Len(s) = 1
  BY <1>1 DEF Statuses
<1>3. Last(s) = s[1] /\ Reached(s) = {s[1]}
  BY <1>2 DEF Last, Reached
<1> HIDE DEF s
<1> QED
  BY <1>1, <1>2, <1>3, Progress DEF Told

LEMMA ToldGrows ==
  ASSUME NEW s, Told(s), NEW to \in Successors(Last(s))
  PROVE  Told(Append(s, to))
<1> DEFINE t == Append(s, to)
<1>1. to \in Statuses /\ <<Last(s), to>> \in AllowedEdges
  BY DEF Successors
<1>2. /\ t \in Seq(Statuses) /\ t # <<>> /\ t[1] = s[1] /\ Last(t) = to
      /\ Reached(t) = Reached(s) \cup {to}
  BY <1>1, GrowsByOne DEF Told
<1>3. to # "PENDING_CONFIRM"
  BY <1>1 DEF AllowedEdges
<1>4. Last(s) \in Reached(s)
  <2>1. Len(s) \in Nat \ {0} /\ DOMAIN s = 1 .. Len(s)
    BY LenProperties, EmptySeq DEF Told
  <2> QED
    BY <2>1 DEF Last, Reached
<1> HIDE DEF t
<1>5. ASSUME NEW i \in 1 .. 5, to = PROGRESS_STATUSES[i], NEW j \in 1 .. 5
      PROVE  PROGRESS_STATUSES[j] \in Reached(t) <=> j <= i /\ (j > 1 \/ t[1] = "PENDING_CONFIRM")
  <2>1. i \in 2 .. 5 /\ Last(s) = PROGRESS_STATUSES[i - 1]
    BY <1>1, <1>5, Progress DEF AllowedEdges
  <2>2. PROGRESS_STATUSES[j] \in Reached(s) <=> j <= i - 1 /\ (j > 1 \/ s[1] = "PENDING_CONFIRM")
    <3>1. i - 1 \in 1 .. 5
      BY <2>1
    <3> QED
      BY <2>1, <3>1 DEF Told
  <2>3. PROGRESS_STATUSES[j] = to <=> j = i
    BY <1>5, Progress
  <2> QED
    BY <2>1, <2>2, <2>3, <1>2
<1>6. t[1] \in {"PENDING_CONFIRM", "PAID"} /\ ("PENDING_CONFIRM" \in Reached(t) => t[1] = "PENDING_CONFIRM")
  BY <1>2, <1>3 DEF Told
<1>7. \A i \in 1 .. 5 :
        Last(t) = PROGRESS_STATUSES[i] =>
          \A j \in 1 .. 5 : PROGRESS_STATUSES[j] \in Reached(t) <=> j <= i /\ (j > 1 \/ t[1] = "PENDING_CONFIRM")
  BY <1>2, <1>5
<1>8. Told(t)
  BY <1>2, <1>6, <1>7 DEF Told
<1> QED
  BY <1>8 DEF t

LEMMA EarlierOfItself ==
  ASSUME NEW t \in Seq(Statuses)
  PROVE  Earlier(t, t)
  BY DEF Earlier

LEMMA EarlierStays ==
  ASSUME NEW s \in Seq(Statuses), NEW t \in Seq(Statuses), t # <<>>, Earlier(s, t), NEW to \in Statuses
  PROVE  Earlier(s, Append(t, to))
<1> DEFINE u == Append(t, to)
<1>1. u \in Seq(Statuses) /\ Len(u) = Len(t) + 1 /\ \A i \in 1 .. Len(t) : u[i] = t[i]
  BY GrowsByOne
<1> HIDE DEF u
<1>2. Len(s) \in Nat /\ Len(t) \in Nat /\ Len(s) <= Len(t) /\ s = SubSeq(t, 1, Len(s))
  BY LenProperties DEF Earlier
<1>3. SubSeq(u, 1, Len(s)) = SubSeq(t, 1, Len(s))
  BY <1>1, <1>2
<1> QED
  BY <1>1, <1>2, <1>3 DEF Earlier, u

(* What is drawn of a trail that tells its own story is true.               *)
LEMMA DrawnTruly ==
  ASSUME NEW s, Told(s)
  PROVE  LET steps == buildTimeline(s)
             bornPaid == s[1] = "PAID" /\ Last(s) \notin {"CANCELLED", "REFUNDED"}
         IN \A i \in DOMAIN steps :
              /\ steps[i] # "upcoming" <=> \/ PROGRESS_STATUSES[i] \in Reached(s)
                                           \/ bornPaid /\ PROGRESS_STATUSES[i] = "PENDING_CONFIRM"
              /\ steps[i] = "current" <=> PROGRESS_STATUSES[i] = Last(s)
<1> DEFINE steps == buildTimeline(s)
           bornPaid == s[1] = "PAID" /\ Last(s) \notin {"CANCELLED", "REFUNDED"}
<1>1. DOMAIN steps = 1 .. 5
  BY Progress DEF buildTimeline
<1>2. CASE Last(s) \in {"CANCELLED", "REFUNDED"}
  <2>1. \A i \in 1 .. 5 : steps[i] = IF PROGRESS_STATUSES[i] \in Reached(s) THEN "done" ELSE "upcoming"
    BY <1>2, Progress DEF buildTimeline
  <2> QED
    BY <1>1, <1>2, <2>1, Progress
<1>3. CASE Last(s) \notin {"CANCELLED", "REFUNDED"}
  <2>1. Last(s) \in Statuses
    <3>1. Len(s) \in Nat \ {0} /\ s \in Seq(Statuses)
      BY LenProperties, EmptySeq DEF Told
    <3> QED
      BY <3>1, ElementOfSeq DEF Last
  <2>2. PICK c \in 1 .. 5 : PROGRESS_STATUSES[c] = Last(s)
    BY <1>3, <2>1, Progress DEF Statuses
  <2>3. (CHOOSE i \in DOMAIN PROGRESS_STATUSES : PROGRESS_STATUSES[i] = Last(s)) = c
    BY <2>2, Progress
  <2>4. \A i \in 1 .. 5 : steps[i] = IF i < c THEN "done" ELSE IF i = c THEN "current" ELSE "upcoming"
    BY <1>3, <2>3, Progress DEF buildTimeline
  <2> HIDE DEF steps
  <2>5. ASSUME NEW i \in 1 .. 5
        PROVE  steps[i] # "upcoming" <=> \/ PROGRESS_STATUSES[i] \in Reached(s)
                                         \/ bornPaid /\ PROGRESS_STATUSES[i] = "PENDING_CONFIRM"
    <3>1. steps[i] # "upcoming" <=> i <= c
      BY <2>4
    <3>2. PROGRESS_STATUSES[i] \in Reached(s) <=> i <= c /\ (i > 1 \/ s[1] = "PENDING_CONFIRM")
      BY <2>2 DEF Told
    <3>3. PROGRESS_STATUSES[i] = "PENDING_CONFIRM" <=> i = 1
      BY Progress
    <3>4. s[1] \in {"PENDING_CONFIRM", "PAID"}
      BY DEF Told
    <3> QED
      BY <1>3, <3>1, <3>2, <3>3, <3>4
  <2>6. ASSUME NEW i \in 1 .. 5
        PROVE  steps[i] = "current" <=> PROGRESS_STATUSES[i] = Last(s)
    BY <2>2, <2>4, Progress
  <2>7. \A i \in DOMAIN steps :
          /\ steps[i] # "upcoming" <=> \/ PROGRESS_STATUSES[i] \in Reached(s)
                                       \/ bornPaid /\ PROGRESS_STATUSES[i] = "PENDING_CONFIRM"
          /\ steps[i] = "current" <=> PROGRESS_STATUSES[i] = Last(s)
    BY <1>1, <2>5, <2>6
  <2> QED
    BY <2>7 DEF steps
<1> QED
  BY <1>2, <1>3


-----------------------------------------------------------------------------
(* The invariant holds at the start and is kept by every action.            *)

LEMMA ReadStays ==
  ASSUME NEW call, ReadHonest(call), UNCHANGED trail
  PROVE  ReadHonest(call)'
  BY DEF ReadHonest

LEMMA TrackInvInit ==
  ASSUME TrackingInit
  PROVE  TrackInv
<1>1. trail \in [Codes -> Seq(Statuses)] /\ TrailsTold
  <2>1. ASSUME NEW c \in Codes PROVE trail[c] \in Seq(Statuses) /\ Told(trail[c])
    <3>1. PICK k \in Channels : trail[c] = <<InitialStatusForChannel(k)>>
      BY DEF TrackingInit
    <3> QED
      BY <3>1, ToldStart DEF Told
  <2> QED
    BY <2>1 DEF TrackingInit, TrailsTold
<1>2. 0 \in 0 .. MaxRestarts
  BY TrackingBounds
<1>3. /\ track \in Screens /\ track.kind = "idle" /\ track.run = "off" /\ track.calls = {}
      /\ ~track.live /\ ~track.shownOrder
  BY <1>2 DEF TrackingInit, Away, Screens, Kinds
<1> QED
  BY <1>1, <1>3 DEF TrackInv, TrackTyped, CallsHonest, OneRequest, LoopHonest, OrderHonest

(* A fresh run: what OpenLink, SubmitLookup and RetryPoll end with.          *)
LEMMA RestartKeeps ==
  ASSUME TrackTyped, TrailsTold, NEW s \in Screens, s.query \in Queries, s.loop < MaxRestarts,
         \A call \in s.calls : 1 <= call.loop /\ call.loop <= s.loop /\ ReadHonest(call),
         track' = Restarted(s), UNCHANGED trail
  PROVE  TrackInv'
<1> DEFINE new == [loop |-> s.loop + 1, of |-> s.query, read |-> None]
           asked == IF s.hidden THEN {} ELSE {new}
<1>1. s.loop + 1 \in 0 .. MaxRestarts /\ s.loop \in Nat
  BY TrackingBounds DEF Screens
<1>2. /\ track'.page = s.page /\ track'.query = s.query /\ track'.kind = "loading"
      /\ track'.order = None /\ track'.live = FALSE /\ track'.loop = s.loop + 1
      /\ track'.run = (IF s.hidden THEN "waiting" ELSE "fetching")
      /\ track'.shownOrder = FALSE /\ track'.late = FALSE /\ track'.broken = FALSE
      /\ track'.hidden = s.hidden /\ track'.calls = s.calls \cup asked
  BY DEF Restarted, Screens
<1>3. asked \subseteq Calls
  BY <1>1 DEF Calls
<1>4. track' \in Screens
  <2> DEFINE asks == IF s.hidden THEN "waiting" ELSE "fetching"
             out == s.calls \cup asked
             n == s.loop + 1
  <2>1. track' = [s EXCEPT !.kind = "loading", !.order = None, !.live = FALSE, !.loop = n, !.seen = 0,
                           !.shownOrder = FALSE, !.late = FALSE, !.broken = FALSE,
                           !.run = asks, !.calls = out]
    <3>1. asks = IF ~s.hidden THEN "fetching" ELSE "waiting"
      OBVIOUS
    <3>2. out = s.calls \cup IF ~s.hidden THEN {[loop |-> n, of |-> s.query, read |-> None]} ELSE {}
      OBVIOUS
    <3> HIDE DEF asks, out
    <3> QED
      BY <3>1, <3>2 DEF Restarted
  <2>2. asks \in {"off", "waiting", "fetching"} /\ n \in 0 .. MaxRestarts
    BY <1>1
  <2>3. out \in SUBSET Calls
    BY <1>3 DEF Screens
  <2> DEFINE none == 0
  <2>4. /\ track' = [s EXCEPT !.kind = "loading", !.order = None, !.live = FALSE, !.loop = n, !.seen = none,
                              !.shownOrder = FALSE, !.late = FALSE, !.broken = FALSE,
                              !.run = asks, !.calls = out]
        /\ none \in Nat
    BY <2>1
  <2> HIDE DEF asks, out, n, asked, none
  <2> QED
    BY <2>2, <2>3, <2>4 DEF Screens, Kinds
<1>5. TrackTyped' /\ TrailsTold' /\ OrderHonest' /\ LoopHonest'
  BY <1>1, <1>2, <1>4 DEF TrackTyped, TrailsTold, OrderHonest, LoopHonest
<1>6. new.loop = s.loop + 1 /\ new.of = s.query /\ new.read = None
  OBVIOUS
<1> HIDE DEF new
<1>7. CallsHonest'
  <2>1. ASSUME NEW call \in track'.calls
        PROVE  /\ 1 <= call.loop /\ call.loop <= track'.loop /\ ReadHonest(call)'
               /\ call.loop = track'.loop => call.of = track'.query /\ track'.run = "fetching"
    <3>1. CASE call \in s.calls
      <4>1. call.loop \in Nat
        BY <3>1 DEF Screens, Calls
      <4>2. ReadHonest(call)'
        BY <3>1, ReadStays
      <4> QED
        BY <3>1, <4>1, <4>2, <1>1, <1>2
    <3>2. CASE call = new /\ ~s.hidden
      <4>1. ReadHonest(call)'
        BY <3>2, <1>6 DEF ReadHonest
      <4> QED
        BY <3>2, <4>1, <1>1, <1>2, <1>6
    <3> QED
      BY <3>1, <3>2, <1>2
  <2> QED
    BY <2>1 DEF CallsHonest
<1>8. OneRequest'
  <2>1. \A c \in s.calls : c.loop # s.loop + 1
    BY <1>1 DEF Screens, Calls
  <2> QED
    BY <2>1, <1>2, <1>6 DEF OneRequest
<1> QED
  BY <1>5, <1>7, <1>8 DEF TrackInv

(* An answer to the present run, whatever it says, leaves none other out.    *)
LEMMA AnswerFrees ==
  ASSUME TrackInv, UNCHANGED trail, NEW call \in track.calls, call.loop = track.loop,
         track'.loop = track.loop, track'.query = track.query,
         track'.calls = track.calls \ {call}, track'.run \in {"off", "waiting"}
  PROVE  CallsHonest' /\ OneRequest'
<1>1. \A c \in track'.calls : c \in track.calls /\ c.loop # track.loop
  BY DEF TrackInv, OneRequest
<1>2. CallsHonest'
  <2>1. ASSUME NEW c \in track'.calls
        PROVE  /\ 1 <= c.loop /\ c.loop <= track'.loop /\ ReadHonest(c)'
               /\ c.loop # track'.loop
    BY <1>1, ReadStays DEF TrackInv, CallsHonest
  <2> QED
    BY <2>1 DEF CallsHonest
<1>3. OneRequest'
  BY <1>1 DEF OneRequest
<1> QED
  BY <1>2, <1>3

(* Losing the request of a run given up changes nothing that shows.         *)
LEMMA StrayEnds ==
  ASSUME TrackInv, UNCHANGED trail, NEW call \in track.calls, call.loop # track.loop,
         track' = [track EXCEPT !.calls = @ \ {call}]
  PROVE  TrackInv'
<1>1. track \in Screens
  BY DEF TrackInv, TrackTyped
<1>2. /\ track' \in Screens /\ track'.calls = track.calls \ {call}
      /\ track'.page = track.page /\ track'.query = track.query /\ track'.kind = track.kind
      /\ track'.order = track.order /\ track'.live = track.live /\ track'.loop = track.loop
      /\ track'.run = track.run /\ track'.shownOrder = track.shownOrder
      /\ track'.late = track.late /\ track'.broken = track.broken
  BY <1>1 DEF Screens
<1>3. TrackTyped' /\ TrailsTold' /\ LoopHonest' /\ OrderHonest'
  BY <1>2 DEF TrackInv, TrackTyped, TrailsTold, LoopHonest, OrderHonest
<1>4. CallsHonest'
  BY <1>2, ReadStays DEF TrackInv, CallsHonest
<1>5. OneRequest'
  BY <1>2 DEF TrackInv, OneRequest
<1> QED
  BY <1>3, <1>4, <1>5 DEF TrackInv

LEMMA ServeKeeps ==
  ASSUME TrackInv, NEW call \in track.calls, ServeTrack(call)
  PROVE  TrackInv'
<1>1. track \in Screens /\ call \in Calls
  BY DEF TrackInv, TrackTyped, Screens
<1>2. PICK read \in {[kind |-> "rate_limited"], [kind |-> "error"],
                     IF call.of.matches THEN [kind |-> "found", order |-> trail[call.of.code]]
                                        ELSE [kind |-> "not_found"]} :
        track' = [track EXCEPT !.calls = (@ \ {call}) \cup {[call EXCEPT !.read = read]}]
  BY DEF ServeTrack
<1> DEFINE served == [call EXCEPT !.read = read]
<1>3. UNCHANGED trail /\ call.of \in Queries
  BY <1>1 DEF ServeTrack, Calls
<1>4. /\ read \in Refusals \cup Findings
      /\ read.kind = "found" =>
           /\ read \in Findings /\ call.of.matches
           /\ Told(read.order) /\ Earlier(read.order, trail[call.of.code])
  <2>1. CASE read \in {[kind |-> "rate_limited"], [kind |-> "error"], [kind |-> "not_found"]}
    BY <2>1 DEF Refusals
  <2>2. CASE call.of.matches /\ read = [kind |-> "found", order |-> trail[call.of.code]]
    <3>1. /\ trail[call.of.code] \in Seq(Statuses) /\ Told(trail[call.of.code])
          /\ Earlier(trail[call.of.code], trail[call.of.code])
      BY <1>3, EarlierOfItself DEF TrackInv, TrackTyped, TrailsTold, Queries
    <3> QED
      BY <2>2, <3>1 DEF Findings
  <2> QED
    BY <2>1, <2>2, <1>2
<1>5. /\ served \in Calls /\ served.loop = call.loop /\ served.of = call.of
      /\ served.read = read
  BY <1>1, <1>4 DEF Calls
<1>6. /\ track'.calls = (track.calls \ {call}) \cup {served}
      /\ track'.page = track.page /\ track'.query = track.query /\ track'.kind = track.kind
      /\ track'.order = track.order /\ track'.live = track.live /\ track'.loop = track.loop
      /\ track'.run = track.run /\ track'.shownOrder = track.shownOrder
      /\ track'.late = track.late /\ track'.broken = track.broken
  BY <1>1, <1>2 DEF Screens
<1>7. track' \in Screens
  <2> DEFINE out == (track.calls \ {call}) \cup {served}
  <2>1. track' = [track EXCEPT !.calls = out]
    BY <1>2
  <2>2. out \in SUBSET Calls
    BY <1>1, <1>5 DEF Screens
  <2> HIDE DEF out
  <2> QED
    BY <1>1, <2>1, <2>2 DEF Screens
<1> HIDE DEF served
<1>8. track.kind # "idle"
  BY DEF TrackInv, TrackTyped
<1>9. TrackTyped' /\ TrailsTold' /\ LoopHonest' /\ OrderHonest'
  BY <1>3, <1>6, <1>7, <1>8 DEF TrackInv, TrackTyped, TrailsTold, LoopHonest, OrderHonest
<1>10. CallsHonest'
  <2>1. ReadHonest(served)'
    BY <1>3, <1>4, <1>5 DEF ReadHonest
  <2>2. \A c \in track.calls : ReadHonest(c)'
    BY <1>3, ReadStays DEF TrackInv, CallsHonest
  <2> QED
    BY <1>5, <1>6, <2>1, <2>2 DEF TrackInv, CallsHonest
<1>11. OneRequest'
  BY <1>5, <1>6 DEF TrackInv, OneRequest
<1> QED
  BY <1>9, <1>10, <1>11 DEF TrackInv

(* The present run hears its answer: the order, a refusal, or a failure.    *)
LEMMA ArrivalKeeps ==
  ASSUME TrackInv, UNCHANGED trail, NEW call \in track.calls, call.loop = track.loop,
         call.read # None,
         track' = Arrives([track EXCEPT !.calls = @ \ {call}], call.read)
  PROVE  TrackInv'
<1> DEFINE rest == [track EXCEPT !.calls = @ \ {call}]
           read == call.read
<1>1. track \in Screens
  BY DEF TrackInv, TrackTyped
<1>2. /\ rest \in Screens /\ rest.calls = track.calls \ {call}
      /\ rest.page = track.page /\ rest.query = track.query /\ rest.kind = track.kind
      /\ rest.order = track.order /\ rest.live = track.live /\ rest.loop = track.loop
      /\ rest.run = track.run /\ rest.shownOrder = track.shownOrder
      /\ rest.late = track.late /\ rest.broken = track.broken
  BY <1>1 DEF Screens
<1>3. /\ call.of = track.query /\ track.run = "fetching" /\ ReadHonest(call)
      /\ read \in Refusals \cup Findings
  BY DEF TrackInv, CallsHonest, ReadHonest
<1>4. /\ track.kind \in {"loading", "found"} /\ track.query \in Queries
      /\ track.kind = "found" <=> track.shownOrder
      /\ track.live => track.shownOrder
  BY <1>3 DEF TrackInv, TrackTyped, LoopHonest
<1>5. track' = Arrives(rest, read)
  OBVIOUS
<1> HIDE DEF rest
<1>6. CASE read.kind = "found"
  <2> DEFINE keep == isPollableStatus(Last(read.order)) /\ ~rest.late
             stands == IF keep THEN "waiting" ELSE "off"
             far == Longest(rest, read.order)
  <2>1. /\ read \in Findings /\ track.query.matches /\ Told(read.order)
        /\ Earlier(read.order, trail[track.query.code])
    BY <1>3, <1>6 DEF ReadHonest
  <2>2. track' = [rest EXCEPT !.kind = "found", !.order = read.order, !.live = keep,
                              !.seen = far, !.shownOrder = TRUE, !.run = stands]
    BY <1>5, <1>6 DEF Arrives
  <2>3. keep \in BOOLEAN /\ stands \in {"off", "waiting"} /\ (keep => stands = "waiting")
    BY DEF isPollableStatus
  <2>4. read.order \in Seq(Statuses) /\ far \in Nat
    BY <1>2, <2>1, LenProperties DEF Findings, Longest, Screens
  <2> HIDE DEF keep, stands, read, far
  <2>5. /\ track' \in Screens /\ track'.calls = rest.calls /\ track'.query = rest.query
        /\ track'.kind = "found" /\ track'.order = read.order /\ track'.live = keep
        /\ track'.loop = rest.loop /\ track'.run = stands /\ track'.shownOrder = TRUE
    BY <1>2, <2>2, <2>3, <2>4 DEF Screens, Kinds
  <2>6. TrackTyped' /\ TrailsTold' /\ LoopHonest' /\ OrderHonest'
    BY <1>2, <1>4, <2>1, <2>3, <2>4, <2>5
       DEF TrackInv, TrackTyped, TrailsTold, LoopHonest, OrderHonest
  <2>7. CallsHonest' /\ OneRequest'
    BY <1>2, <2>3, <2>5, AnswerFrees
  <2> QED
    BY <2>6, <2>7 DEF TrackInv
<1>7. CASE read.kind # "found" /\ ~rest.shownOrder
  <2>1. read.kind \in {"rate_limited", "error", "not_found"}
    BY <1>3, <1>7 DEF Refusals, Findings
  <2>2. track' = [rest EXCEPT !.kind = read.kind, !.run = "off"]
    BY <1>5, <1>7 DEF Arrives
  <2> HIDE DEF read
  <2>3. /\ track' \in Screens /\ track'.calls = rest.calls /\ track'.query = rest.query
        /\ track'.kind = read.kind /\ track'.live = rest.live
        /\ track'.loop = rest.loop /\ track'.run = "off" /\ track'.shownOrder = rest.shownOrder
    BY <1>2, <2>1, <2>2 DEF Screens, Kinds
  <2>4. TrackTyped' /\ TrailsTold' /\ LoopHonest' /\ OrderHonest'
    BY <1>2, <1>4, <1>7, <2>1, <2>3 DEF TrackInv, TrackTyped, TrailsTold, LoopHonest, OrderHonest
  <2>5. CallsHonest' /\ OneRequest'
    BY <1>2, <2>3, AnswerFrees
  <2> QED
    BY <2>4, <2>5 DEF TrackInv
<1>8. CASE read.kind # "found" /\ rest.shownOrder
  <2> DEFINE stands == IF rest.late THEN "off" ELSE "waiting"
             live == rest.live /\ ~rest.late
  <2>1. track' = [rest EXCEPT !.run = stands, !.live = live]
    <3>1. CASE rest.late
      BY <1>5, <1>8, <3>1 DEF Arrives, GivesUp
    <3>2. CASE ~rest.late
      <4>1. track' = [rest EXCEPT !.run = "waiting"]
        BY <1>5, <1>8, <3>2 DEF Arrives
      <4>2. live = rest.live /\ stands = "waiting"
        BY <1>2, <3>2 DEF Screens
      <4> HIDE DEF live, stands
      <4> QED
        BY <1>2, <4>1, <4>2 DEF Screens
    <3> QED
      BY <3>1, <3>2
  <2>2. stands \in {"off", "waiting"} /\ live \in BOOLEAN /\ (live => stands = "waiting")
    OBVIOUS
  <2> HIDE DEF stands, live
  <2>3. /\ track' \in Screens /\ track'.calls = rest.calls /\ track'.query = rest.query
        /\ track'.kind = rest.kind /\ track'.live = live /\ track'.order = rest.order
        /\ track'.loop = rest.loop /\ track'.run = stands /\ track'.shownOrder = rest.shownOrder
    BY <1>2, <2>1, <2>2 DEF Screens
  <2>4. TrackTyped' /\ TrailsTold' /\ LoopHonest' /\ OrderHonest'
    BY <1>2, <1>4, <1>8, <2>2, <2>3 DEF TrackInv, TrackTyped, TrailsTold, LoopHonest, OrderHonest
  <2>5. CallsHonest' /\ OneRequest'
    BY <1>2, <2>2, <2>3, AnswerFrees
  <2> QED
    BY <2>4, <2>5 DEF TrackInv
<1> QED
  BY <1>6, <1>7, <1>8

LEMMA AnswerKeeps ==
  ASSUME TrackInv, NEW call \in track.calls, AnswerTrack(call)
  PROVE  TrackInv'
<1>1. CASE call.loop = track.loop
  BY <1>1, ArrivalKeeps DEF AnswerTrack
<1>2. CASE call.loop # track.loop
  BY <1>2, StrayEnds DEF AnswerTrack
<1> QED
  BY <1>1, <1>2

LEMMA UnreachableKeeps ==
  ASSUME TrackInv, NEW call \in track.calls, Unreachable(call)
  PROVE  TrackInv'
<1>1. CASE call.loop = track.loop
  <2>1. track \in Screens /\ track.kind # "idle"
    BY DEF TrackInv, TrackTyped
  <2>2. track' = [track EXCEPT !.calls = @ \ {call}, !.run = "off", !.broken = TRUE]
    BY <1>1 DEF Unreachable
  <2>3. /\ track' \in Screens /\ track'.calls = track.calls \ {call}
        /\ track'.query = track.query /\ track'.kind = track.kind /\ track'.order = track.order
        /\ track'.live = track.live /\ track'.loop = track.loop /\ track'.run = "off"
        /\ track'.shownOrder = track.shownOrder /\ track'.broken = TRUE
    BY <2>1, <2>2 DEF Screens
  <2>4. TrackTyped' /\ TrailsTold' /\ LoopHonest' /\ OrderHonest'
    BY <2>1, <2>3 DEF Unreachable, TrackInv, TrackTyped, TrailsTold, LoopHonest, OrderHonest
  <2>5. CallsHonest' /\ OneRequest'
    BY <1>1, <2>3, AnswerFrees DEF Unreachable
  <2> QED
    BY <2>4, <2>5 DEF TrackInv
<1>2. CASE call.loop # track.loop
  BY <1>2, StrayEnds DEF Unreachable
<1> QED
  BY <1>1, <1>2

(* The timer: a request of its own, or nothing in a hidden tab.             *)
LEMMA TimerKeeps ==
  ASSUME TrackInv, TimerFires
  PROVE  TrackInv'
<1>1. /\ track \in Screens /\ track.run = "waiting" /\ UNCHANGED trail
      /\ track.kind \in {"loading", "found"} /\ track.query \in Queries
      /\ \A c \in track.calls : c.loop # track.loop
  BY DEF TrackInv, TrackTyped, LoopHonest, CallsHonest, TimerFires
<1>2. CASE track.hidden
  <2> DEFINE stands == IF track.late THEN "off" ELSE "waiting"
             live == track.live /\ ~track.late
  <2>1. track' = [track EXCEPT !.run = stands, !.live = live]
    <3>1. CASE track.late
      BY <1>2, <3>1 DEF TimerFires, GivesUp
    <3>2. CASE ~track.late
      <4>1. track' = track
        BY <1>2, <3>2 DEF TimerFires
      <4>2. live = track.live /\ stands = "waiting"
        BY <1>1, <3>2 DEF Screens
      <4> HIDE DEF live, stands
      <4> QED
        BY <1>1, <4>1, <4>2 DEF Screens
    <3> QED
      BY <3>1, <3>2
  <2>2. stands \in {"off", "waiting"} /\ live \in BOOLEAN /\ (live => track.live /\ stands = "waiting")
    BY <1>1 DEF Screens
  <2>3. stands = "off" => track.late
    OBVIOUS
  <2> HIDE DEF stands, live
  <2>4. /\ track' \in Screens /\ track'.calls = track.calls /\ track'.query = track.query
        /\ track'.kind = track.kind /\ track'.live = live /\ track'.order = track.order
        /\ track'.loop = track.loop /\ track'.run = stands
        /\ track'.shownOrder = track.shownOrder /\ track'.late = track.late
    BY <1>1, <2>1, <2>2 DEF Screens
  <2>5. TrackTyped' /\ TrailsTold' /\ LoopHonest' /\ OrderHonest'
    BY <1>1, <2>2, <2>3, <2>4 DEF TrackInv, TrackTyped, TrailsTold, LoopHonest, OrderHonest
  <2>6. CallsHonest' /\ OneRequest'
    BY <1>1, <2>2, <2>4, ReadStays DEF TrackInv, CallsHonest, OneRequest
  <2> QED
    BY <2>5, <2>6 DEF TrackInv
<1>3. CASE ~track.hidden
  <2>0. PICK new : new = [loop |-> track.loop, of |-> track.query, read |-> None]
    OBVIOUS
  <2> DEFINE out == track.calls \cup {new}
  <2>1. new \in Calls /\ new.loop = track.loop /\ new.of = track.query /\ new.read = None
    BY <1>1, <2>0, TrackingBounds DEF Calls, Screens
  <2>2. out \in SUBSET Calls
    BY <1>1, <2>1 DEF Screens
  <2>3. track' = [track EXCEPT !.run = "fetching", !.calls = out]
    BY <1>3, <2>0 DEF TimerFires
  <2>4. out = track.calls \cup {new}
    OBVIOUS
  <2> HIDE DEF out
  <2>5. /\ track' \in Screens /\ track'.calls = out /\ track'.query = track.query
        /\ track'.kind = track.kind /\ track'.live = track.live /\ track'.order = track.order
        /\ track'.loop = track.loop /\ track'.run = "fetching"
        /\ track'.shownOrder = track.shownOrder
    BY <1>1, <2>2, <2>3 DEF Screens
  <2>6. TrackTyped' /\ TrailsTold' /\ LoopHonest' /\ OrderHonest'
    BY <1>1, <2>5 DEF TrackInv, TrackTyped, TrailsTold, LoopHonest, OrderHonest
  <2>7. CallsHonest'
    <3>1. 1 <= track.loop
      <4>1. track.loop # 0
        BY <1>1 DEF TrackInv, LoopHonest
      <4> QED
        BY <1>1, <4>1, TrackingBounds DEF Screens
    <3>2. ReadHonest(new)'
      BY <2>1 DEF ReadHonest
    <3>3. track.loop <= track.loop
      BY <1>1, TrackingBounds DEF Screens
    <3> QED
      BY <1>1, <2>1, <2>4, <2>5, <3>1, <3>2, <3>3, ReadStays DEF TrackInv, CallsHonest
  <2>8. OneRequest'
    BY <1>1, <2>1, <2>4, <2>5 DEF OneRequest
  <2> QED
    BY <2>6, <2>7, <2>8 DEF TrackInv
<1> QED
  BY <1>2, <1>3

(* A screen just opened, closed or refused keeps nothing of the one before. *)
LEMMA AwayKeeps ==
  ASSUME TrackInv, UNCHANGED trail, NEW p \in {"closed", "invalid", "lookup", "wait"},
         track' = Away \/ track' = [Away EXCEPT !.page = p]
  PROVE  TrackInv'
<1>1. 0 \in 0 .. MaxRestarts
  BY TrackingBounds
<1>2. /\ track' \in Screens /\ track'.kind = "idle" /\ track'.run = "off" /\ track'.calls = {}
      /\ ~track'.live /\ ~track'.shownOrder
  <2>1. CASE track' = Away
    BY <1>1, <2>1 DEF Away, Screens, Kinds
  <2>2. CASE track' = [Away EXCEPT !.page = p]
    BY <1>1, <2>2 DEF Away, Screens, Kinds
  <2> QED
    BY <2>1, <2>2
<1> QED
  BY <1>2 DEF TrackInv, TrackTyped, TrailsTold, CallsHonest, OneRequest, LoopHonest, OrderHonest

LEMMA OpenKeeps ==
  ASSUME TrackInv, OpenTracker \/ LeaveTracking
  PROVE  TrackInv'
<1>1. CASE OpenTracker
  BY <1>1, AwayKeeps DEF OpenTracker
<1>2. CASE LeaveTracking
  BY <1>2, AwayKeeps DEF LeaveTracking
<1> QED
  BY <1>1, <1>2

LEMMA LinkKeeps ==
  ASSUME TrackInv, OpenLink
  PROVE  TrackInv'
<1>1. CASE track' = [Away EXCEPT !.page = "invalid"]
  BY <1>1, AwayKeeps DEF OpenLink
<1>2. CASE \E c \in Codes, token \in BOOLEAN :
             track' = Restarted([Away EXCEPT !.page = "wait",
                                             !.query = [code |-> c, matches |-> token]])
  <2>1. PICK c \in Codes, token \in BOOLEAN :
          track' = Restarted([Away EXCEPT !.page = "wait",
                                          !.query = [code |-> c, matches |-> token]])
    BY <1>2
  <2>2. PICK s : s = [Away EXCEPT !.page = "wait", !.query = [code |-> c, matches |-> token]]
    OBVIOUS
  <2>3. [code |-> c, matches |-> token] \in Queries /\ 0 \in 0 .. MaxRestarts /\ 0 < MaxRestarts
    BY TrackingBounds DEF Queries
  <2>4. s \in Screens /\ s.query \in Queries /\ s.loop = 0 /\ s.calls = {}
    BY <2>2, <2>3 DEF Away, Screens, Kinds
  <2> QED
    BY <2>1, <2>2, <2>3, <2>4, RestartKeeps DEF OpenLink, TrackInv
<1> QED
  BY <1>1, <1>2 DEF OpenLink

LEMMA SubmitKeeps ==
  ASSUME TrackInv, SubmitLookup
  PROVE  TrackInv'
<1>1. PICK c \in Codes, typed \in BOOLEAN :
        track' = Restarted([track EXCEPT !.query = [code |-> c, matches |-> typed]])
  BY DEF SubmitLookup
<1>2. PICK s : s = [track EXCEPT !.query = [code |-> c, matches |-> typed]]
  OBVIOUS
<1>3. track \in Screens /\ [code |-> c, matches |-> typed] \in Queries
  BY DEF TrackInv, TrackTyped, Queries
<1>4. s \in Screens /\ s.query \in Queries /\ s.loop = track.loop /\ s.calls = track.calls
  BY <1>2, <1>3 DEF Screens
<1>5. \A call \in s.calls : 1 <= call.loop /\ call.loop <= s.loop /\ ReadHonest(call)
  BY <1>4 DEF TrackInv, CallsHonest
<1> QED
  BY <1>1, <1>2, <1>4, <1>5, RestartKeeps DEF SubmitLookup, TrackInv

LEMMA RetryKeeps ==
  ASSUME TrackInv, RetryPoll
  PROVE  TrackInv'
<1>1. PICK s : s = track
  OBVIOUS
<1>2. s \in Screens /\ s.query \in Queries
  BY <1>1 DEF RetryPoll, OffersRetry, TrackInv, TrackTyped
<1>3. \A call \in s.calls : 1 <= call.loop /\ call.loop <= s.loop /\ ReadHonest(call)
  BY <1>1 DEF TrackInv, CallsHonest
<1> QED
  BY <1>1, <1>2, <1>3, RestartKeeps DEF RetryPoll, TrackInv

(* Time and the tab touch nothing the screen says.                          *)
LEMMA ClockKeeps ==
  ASSUME TrackInv, DeadlinePasses \/ SwitchTab
  PROVE  TrackInv'
<1>1. track \in Screens /\ UNCHANGED trail
  BY DEF TrackInv, TrackTyped, DeadlinePasses, SwitchTab
<1>2. /\ track' \in Screens /\ track'.calls = track.calls /\ track'.query = track.query
      /\ track'.kind = track.kind /\ track'.live = track.live /\ track'.order = track.order
      /\ track'.loop = track.loop /\ track'.run = track.run /\ track'.broken = track.broken
      /\ track'.shownOrder = track.shownOrder /\ (track.late => track'.late)
  BY <1>1 DEF DeadlinePasses, SwitchTab, Screens
<1>3. TrackTyped' /\ TrailsTold' /\ LoopHonest' /\ OrderHonest'
  BY <1>1, <1>2 DEF TrackInv, TrackTyped, TrailsTold, LoopHonest, OrderHonest
<1>4. CallsHonest' /\ OneRequest'
  BY <1>1, <1>2, ReadStays DEF TrackInv, CallsHonest, OneRequest
<1> QED
  BY <1>3, <1>4 DEF TrackInv

(* An order moves while it is being followed: what was read stays true.     *)
LEMMA MoveKeeps ==
  ASSUME TrackInv, NEW c \in Codes, OrderMoves(c)
  PROVE  TrackInv'
<1>1. PICK to \in Successors(Last(trail[c])) : trail' = [trail EXCEPT ![c] = Append(@, to)]
  BY DEF OrderMoves
<1>2. /\ trail \in [Codes -> Seq(Statuses)] /\ to \in Statuses
      /\ \A k \in Codes : Told(trail[k]) /\ trail[k] \in Seq(Statuses) /\ trail[k] # <<>>
  BY <1>1 DEF TrackInv, TrackTyped, TrailsTold, Told, Successors
<1>3. \A k \in Codes : trail'[k] = trail[k] \/ trail'[k] = Append(trail[k], to)
  BY <1>1, <1>2
<1>4. Told(trail'[c]) /\ \A k \in Codes : k # c => trail'[k] = trail[k]
  <2>1. trail'[c] = Append(trail[c], to)
    BY <1>1, <1>2
  <2>2. PICK s : s = trail[c]
    OBVIOUS
  <2>3. Told(Append(s, to))
    BY <1>1, <1>2, <2>2, ToldGrows
  <2> QED
    BY <1>1, <1>2, <2>1, <2>2, <2>3
<1>5. ASSUME NEW k \in Codes, NEW s \in Seq(Statuses), Earlier(s, trail[k])
      PROVE  Earlier(s, trail'[k])
  <2>1. PICK t \in Seq(Statuses) : t = trail[k] /\ t # <<>>
    BY <1>2
  <2>2. Earlier(s, Append(t, to))
    BY <1>2, <1>5, <2>1, EarlierStays
  <2> QED
    BY <1>3, <1>5, <2>1, <2>2
<1>6. /\ track' = track /\ trail' \in [Codes -> Seq(Statuses)] /\ \A k \in Codes : Told(trail'[k])
  <2>1. \A k \in Codes : Told(trail'[k])
    BY <1>2, <1>4
  <2>2. trail' \in [Codes -> Seq(Statuses)]
    <3>1. DOMAIN trail' = Codes /\ trail' = [k \in Codes |-> trail'[k]]
      BY <1>1, <1>2
    <3>2. \A k \in Codes : trail'[k] \in Seq(Statuses)
      BY <2>1 DEF Told
    <3> QED
      BY <3>1, <3>2
  <2> QED
    BY <2>1, <2>2 DEF OrderMoves
<1>7. ASSUME NEW call \in track.calls
      PROVE  ReadHonest(call)'
  <2>1. ReadHonest(call) /\ call.of.code \in Codes
    BY DEF TrackInv, CallsHonest, TrackTyped, Screens, Calls, Queries
  <2>2. call.read # None /\ call.read.kind = "found" => call.read.order \in Seq(Statuses)
    BY <2>1 DEF ReadHonest, Told
  <2>3. call.read # None /\ call.read.kind = "found" => Earlier(call.read.order, trail'[call.of.code])
    BY <1>5, <2>1, <2>2 DEF ReadHonest
  <2> QED
    BY <2>1, <2>3 DEF ReadHonest
<1>8. track.kind = "found" => Earlier(track.order, trail'[track.query.code])
  <2>1. track.kind = "found" =>
          /\ track.query.code \in Codes /\ track.order \in Seq(Statuses)
          /\ Earlier(track.order, trail[track.query.code])
    BY DEF TrackInv, TrackTyped, OrderHonest, Queries
  <2>2. PICK o, k : o = track.order /\ k = track.query.code
    OBVIOUS
  <2>3. o \in Seq(Statuses) /\ k \in Codes /\ Earlier(o, trail[k]) => Earlier(o, trail'[k])
    BY <1>5
  <2> QED
    BY <2>1, <2>2, <2>3
<1>9. TrackTyped' /\ TrailsTold'
  BY <1>6 DEF TrackInv, TrackTyped, TrailsTold
<1>10. CallsHonest' /\ OneRequest' /\ LoopHonest'
  BY <1>6, <1>7 DEF TrackInv, CallsHonest, OneRequest, LoopHonest
<1>11. OrderHonest'
  BY <1>6, <1>8 DEF TrackInv, OrderHonest
<1> QED
  BY <1>9, <1>10, <1>11 DEF TrackInv

LEMMA TrackInvStep ==
  ASSUME TrackInv, [TrackingNext]_trackVars
  PROVE  TrackInv'
<1>1. CASE OpenTracker \/ LeaveTracking
  BY <1>1, OpenKeeps
<1>2. CASE OpenLink
  BY <1>2, LinkKeeps
<1>3. CASE SubmitLookup
  BY <1>3, SubmitKeeps
<1>4. CASE RetryPoll
  BY <1>4, RetryKeeps
<1>5. ASSUME NEW call \in track.calls, ServeTrack(call) \/ AnswerTrack(call) \/ Unreachable(call)
      PROVE  TrackInv'
  BY <1>5, ServeKeeps, AnswerKeeps, UnreachableKeeps
<1>6. CASE TimerFires
  BY <1>6, TimerKeeps
<1>7. CASE DeadlinePasses \/ SwitchTab
  BY <1>7, ClockKeeps
<1>8. ASSUME NEW c \in Moving, OrderMoves(c)
      PROVE  TrackInv'
  BY <1>8, MoveKeeps, TrackingBounds
<1>9. CASE UNCHANGED trackVars
  BY <1>9, ReadStays
     DEF trackVars, TrackInv, TrackTyped, TrailsTold, CallsHonest, OneRequest, LoopHonest, OrderHonest
<1> QED
  BY <1>1, <1>2, <1>3, <1>4, <1>5, <1>6, <1>7, <1>8, <1>9 DEF TrackingNext

THEOREM TrackInvariant == TrackingSpec => []TrackInv
<1>1. TrackingInit => TrackInv
  BY TrackInvInit
<1>2. TrackInv /\ [TrackingNext]_trackVars => TrackInv'
  BY TrackInvStep
<1> QED
  BY <1>1, <1>2, PTL DEF TrackingSpec

-----------------------------------------------------------------------------
(* The present run never goes back: what is shown, and what its request has    *)
(* read, is at least as long as all it has shown.                            *)
NeverBack ==
  /\ track.kind # "idle" => track.seen <= Len(trail[track.query.code])
  /\ track.kind = "found" => track.seen <= Len(track.order)
  /\ \A call \in track.calls :
       call.loop = track.loop /\ call.read # None /\ call.read.kind = "found" =>
         track.seen <= Len(call.read.order)

LEMMA StillNotBack ==
  ASSUME NeverBack, UNCHANGED trail, track'.seen = track.seen, track'.query = track.query,
         track'.loop = track.loop, track'.kind # "idle" => track.kind # "idle",
         track'.kind = "found" => track.kind = "found" /\ track'.order = track.order,
         \A call \in track'.calls : call \in track.calls \/ call.read = None
  PROVE  NeverBack'
  BY DEF NeverBack

LEMMA FreshNotBack ==
  ASSUME NEW s \in Screens, track' = Restarted(s), s.query \in Queries,
         trail' \in [Codes -> Seq(Statuses)], \A call \in s.calls : ReadHonest(call)'
  PROVE  NeverBack'
<1>1. /\ track'.seen = 0 /\ track'.kind = "loading" /\ track'.query = s.query
      /\ \A call \in track'.calls : call \in s.calls \/ call.read = None
  BY DEF Restarted, Screens
<1>2. 0 <= Len(trail'[s.query.code])
  BY LenProperties DEF Queries
<1>3. \A call \in s.calls : call.read # None /\ call.read.kind = "found" => 0 <= Len(call.read.order)
  BY LenProperties DEF ReadHonest, Told
<1> QED
  BY <1>1, <1>2, <1>3 DEF NeverBack

LEMMA NeverBackStep ==
  ASSUME TrackInv, NeverBack, [TrackingNext]_trackVars
  PROVE  NeverBack'
<1>1. track \in Screens /\ trail \in [Codes -> Seq(Statuses)] /\ TrackInv'
  BY TrackInvStep DEF TrackInv, TrackTyped
<1>2. ASSUME NEW s \in Screens, s.query \in Queries, s.calls \subseteq track.calls,
             track' = Restarted(s), UNCHANGED trail
      PROVE  NeverBack'
  <2>1. \A call \in s.calls : ReadHonest(call)'
    BY <1>2, ReadStays DEF TrackInv, CallsHonest
  <2> QED
    BY <1>1, <1>2, <2>1, FreshNotBack
<1>3. CASE track'.kind = "idle" /\ track'.calls = {}
  BY <1>3 DEF NeverBack
<1>4. CASE OpenTracker \/ LeaveTracking
  BY <1>3, <1>4 DEF OpenTracker, LeaveTracking, Away
<1>5. CASE OpenLink
  <2>1. CASE track' = [Away EXCEPT !.page = "invalid"]
    BY <1>3, <2>1 DEF Away
  <2>2. CASE \E c \in Codes, token \in BOOLEAN :
               track' = Restarted([Away EXCEPT !.page = "wait",
                                               !.query = [code |-> c, matches |-> token]])
    <3>1. PICK c \in Codes, token \in BOOLEAN :
            track' = Restarted([Away EXCEPT !.page = "wait",
                                            !.query = [code |-> c, matches |-> token]])
      BY <2>2
    <3>2. PICK s : s = [Away EXCEPT !.page = "wait", !.query = [code |-> c, matches |-> token]]
      OBVIOUS
    <3>3. [code |-> c, matches |-> token] \in Queries /\ 0 \in 0 .. MaxRestarts
      BY TrackingBounds DEF Queries
    <3>4. s \in Screens /\ s.query \in Queries /\ s.calls = {}
      BY <3>2, <3>3 DEF Away, Screens, Kinds
    <3> QED
      BY <1>2, <1>5, <3>1, <3>2, <3>4 DEF OpenLink
  <2> QED
    BY <1>5, <2>1, <2>2 DEF OpenLink
<1>6. CASE SubmitLookup
  <2>1. PICK c \in Codes, typed \in BOOLEAN :
          track' = Restarted([track EXCEPT !.query = [code |-> c, matches |-> typed]])
    BY <1>6 DEF SubmitLookup
  <2>2. PICK s : s = [track EXCEPT !.query = [code |-> c, matches |-> typed]]
    OBVIOUS
  <2>3. [code |-> c, matches |-> typed] \in Queries
    BY DEF Queries
  <2>4. s \in Screens /\ s.query \in Queries /\ s.calls = track.calls
    BY <1>1, <2>2, <2>3 DEF Screens
  <2> QED
    BY <1>2, <1>6, <2>1, <2>2, <2>4 DEF SubmitLookup
<1>7. CASE RetryPoll
  <2>1. track.query \in Queries
    BY <1>7 DEF RetryPoll, OffersRetry, TrackInv, TrackTyped
  <2> QED
    BY <1>1, <1>2, <1>7, <2>1 DEF RetryPoll
<1>8. ASSUME NEW call \in track.calls, ServeTrack(call)
      PROVE  NeverBack'
  <2>1. PICK read \in {[kind |-> "rate_limited"], [kind |-> "error"],
                       IF call.of.matches THEN [kind |-> "found", order |-> trail[call.of.code]]
                                          ELSE [kind |-> "not_found"]} :
          track' = [track EXCEPT !.calls = (@ \ {call}) \cup {[call EXCEPT !.read = read]}]
    BY <1>8 DEF ServeTrack
  <2>2. call \in Calls
    BY <1>1, <1>8 DEF Screens
  <2>3. PICK served : served = [call EXCEPT !.read = read]
    OBVIOUS
  <2>4. served.loop = call.loop /\ served.of = call.of /\ served.read = read
    BY <2>2, <2>3 DEF Calls
  <2>5. /\ track'.calls = (track.calls \ {call}) \cup {served} /\ track'.seen = track.seen
        /\ track'.query = track.query /\ track'.loop = track.loop /\ track'.kind = track.kind
        /\ track'.order = track.order /\ UNCHANGED trail
    BY <1>1, <1>8, <2>1, <2>3 DEF Screens, ServeTrack
  <2>6. served.loop = track.loop /\ served.read # None /\ served.read.kind = "found" =>
          track.seen <= Len(served.read.order)
    <3>1. read.kind = "found" => read.order = trail[call.of.code]
      BY <2>1
    <3>2. call.loop = track.loop => call.of = track.query /\ track.kind # "idle"
      BY <1>8 DEF TrackInv, TrackTyped, CallsHonest
    <3> QED
      BY <2>4, <3>1, <3>2 DEF NeverBack
  <2> QED
    BY <2>5, <2>6 DEF NeverBack
<1>9. ASSUME NEW call \in track.calls, AnswerTrack(call)
      PROVE  NeverBack'
  <2> DEFINE rest == [track EXCEPT !.calls = @ \ {call}]
             read == call.read
  <2>1. /\ rest.calls = track.calls \ {call} /\ rest.seen = track.seen /\ rest.query = track.query
        /\ rest.loop = track.loop /\ rest.kind = track.kind /\ rest.order = track.order
        /\ rest.shownOrder = track.shownOrder /\ rest \in Screens /\ UNCHANGED trail
    BY <1>1, <1>9 DEF Screens, AnswerTrack
  <2>2. track' = IF call.loop = track.loop THEN Arrives(rest, read) ELSE rest
    BY <1>9 DEF AnswerTrack
  <2>3. call.loop = track.loop => track.kind # "idle"
    BY <1>9 DEF TrackInv, TrackTyped
  <2> HIDE DEF rest, read
  <2>4. CASE call.loop = track.loop /\ read.kind = "found"
    <3>1. /\ track.seen <= Len(read.order) /\ read.order \in Seq(Statuses)
          /\ Len(read.order) <= Len(trail[track.query.code])
      BY <1>9, <2>4 DEF read, NeverBack, TrackInv, CallsHonest, ReadHonest, Earlier, AnswerTrack, Told
    <3>2. /\ track'.seen = Longest(rest, read.order) /\ track'.order = read.order
          /\ track'.query = track.query /\ track'.loop = track.loop /\ track'.calls = rest.calls
      BY <2>1, <2>2, <2>4 DEF Arrives, Screens
    <3>3. track'.seen = Len(read.order)
      BY <1>1, <2>1, <3>1, <3>2, LenProperties DEF Longest, Screens
    <3>4. \A c \in track'.calls : c.loop # track'.loop
      BY <1>9, <2>1, <2>4, <3>2 DEF TrackInv, OneRequest
    <3>5. Len(read.order) \in Nat
      BY <3>1, LenProperties
    <3> QED
      BY <2>1, <3>1, <3>2, <3>3, <3>4, <3>5 DEF NeverBack
  <2>5. CASE call.loop = track.loop /\ read.kind # "found"
    <3>1. /\ track'.seen = rest.seen /\ track'.query = rest.query /\ track'.loop = rest.loop
          /\ track'.calls = rest.calls /\ track'.order = rest.order
          /\ track'.kind = rest.kind \/ track'.kind = read.kind
      BY <2>1, <2>2, <2>5 DEF Arrives, GivesUp, Screens
    <3> QED
      BY <2>1, <2>3, <2>5, <3>1, StillNotBack
  <2>6. CASE call.loop # track.loop
    BY <2>1, <2>2, <2>6, StillNotBack
  <2> QED
    BY <2>4, <2>5, <2>6
<1>10. ASSUME NEW call \in track.calls, Unreachable(call)
       PROVE  NeverBack'
  <2>1. /\ track'.calls = track.calls \ {call} /\ track'.seen = track.seen /\ track'.query = track.query
        /\ track'.loop = track.loop /\ track'.kind = track.kind /\ track'.order = track.order /\ UNCHANGED trail
    BY <1>1, <1>10 DEF Unreachable, Screens
  <2> QED
    BY <2>1, StillNotBack
<1>11. CASE TimerFires \/ DeadlinePasses \/ SwitchTab
  <2>1. PICK new : new = [loop |-> track.loop, of |-> track.query, read |-> None]
    OBVIOUS
  <2>2. /\ UNCHANGED trail /\ new.read = None
        /\ \/ track' = track \/ track' = [track EXCEPT !.run = "off", !.live = FALSE]
           \/ track' = [track EXCEPT !.run = "fetching", !.calls = @ \cup {new}]
           \/ track' = [track EXCEPT !.late = TRUE] \/ track' = [track EXCEPT !.hidden = ~@]
    BY <1>11, <2>1 DEF TimerFires, GivesUp, DeadlinePasses, SwitchTab
  <2>3. /\ track'.seen = track.seen /\ track'.query = track.query /\ track'.loop = track.loop
        /\ track'.kind = track.kind /\ track'.order = track.order
        /\ track'.calls \subseteq track.calls \cup {new}
    BY <1>1, <2>2 DEF Screens
  <2> QED
    BY <2>2, <2>3, StillNotBack
<1>12. ASSUME NEW c \in Moving, OrderMoves(c)
       PROVE  NeverBack'
  <2>1. PICK to \in Successors(Last(trail[c])) : trail' = [trail EXCEPT ![c] = Append(@, to)]
    BY <1>12 DEF OrderMoves
  <2>2. to \in Statuses
    BY <2>1 DEF Successors
  <2>3. \A k \in Codes : Len(trail[k]) \in Nat /\ Len(trail'[k]) \in Nat /\ Len(trail[k]) <= Len(trail'[k])
    <3>1. ASSUME NEW k \in Codes
          PROVE  Len(trail[k]) \in Nat /\ Len(trail'[k]) \in Nat /\ Len(trail[k]) <= Len(trail'[k])
      <4>1. trail'[k] = trail[k] \/ trail'[k] = Append(trail[k], to)
        BY <1>1, <2>1
      <4>2. PICK t \in Seq(Statuses) : t = trail[k]
        BY <1>1
      <4>3. Len(t) \in Nat /\ Len(Append(t, to)) = Len(t) + 1
        BY <2>2, LenProperties, AppendProperties
      <4> QED
        BY <4>1, <4>2, <4>3
    <3> QED
      BY <3>1
  <2>4. track.kind # "idle" => track.query.code \in Codes
    BY DEF TrackInv, TrackTyped, Queries
  <2>5. track' = track /\ track.seen \in Nat
    BY <1>1, <1>12 DEF OrderMoves, Screens
  <2>6. track.kind # "idle" => track.seen <= Len(trail'[track.query.code])
    <3>1. track.kind # "idle" => track.seen <= Len(trail[track.query.code])
      BY DEF NeverBack
    <3> QED
      BY <2>3, <2>4, <2>5, <3>1
  <2> QED
    BY <2>5, <2>6 DEF NeverBack
<1>13. CASE UNCHANGED trackVars
  BY <1>13, StillNotBack DEF trackVars
<1> QED
  BY <1>4, <1>5, <1>6, <1>7, <1>8, <1>9, <1>10, <1>11, <1>12, <1>13 DEF TrackingNext

THEOREM NeverBackInvariant == TrackingSpec => []NeverBack
<1>1. TrackingInit => NeverBack
  BY DEF TrackingInit, Away, NeverBack
<1>2. TrackInv /\ NeverBack /\ [TrackingNext]_trackVars => NeverBack'
  BY NeverBackStep
<1> QED
  BY <1>1, <1>2, TrackInvariant, PTL DEF TrackingSpec

-----------------------------------------------------------------------------
(* What the invariant says of the screen.                                   *)

(* The screen, the runs of its poll loop and the orders keep their types,   *)
(* whatever the number of orders and of restarts.                           *)
THEOREM TrackingTypes == TrackingSpec => []TrackingTypeOK
<1>1. TrackInv => TrackingTypeOK
  BY DEF TrackInv, TrackTyped, Screens, Kinds, TrackingTypeOK
<1> QED
  BY <1>1, TrackInvariant, PTL

LEMMA OneRequestCounts ==
  ASSUME TrackInv
  PROVE  Cardinality({call \in track.calls : call.loop = track.loop}) <= 1
<1> DEFINE mine == {call \in track.calls : call.loop = track.loop}
<1>1. CASE mine = {}
  BY <1>1, FS_EmptySet
<1>2. ASSUME NEW c \in mine
      PROVE  Cardinality(mine) <= 1
  <2>1. mine = {c}
    BY <1>2 DEF TrackInv, OneRequest
  <2>2. Cardinality({c}) = 1
    BY FS_Singleton
  <2> QED
    BY <2>1, <2>2
<1> QED
  BY <1>1, <1>2

(* The tracker never claims to be updating or searching when nothing would   *)
(* (unless the storefront was out of reach, or the tab hidden for ten         *)
(* minutes), has one request out at most, shows the order last asked for as   *)
(* the server had it and never behind what the run showed before, and draws    *)
(* exactly the steps that order went through:                                *)
(* use-order-poll.ts, order-lookup-view.ts.                                  *)
THEOREM TrackingIsHonest == TrackingSpec => []TrackingHonest
<1>1. ASSUME TrackInv PROVE LiveMeansPolling
  BY <1>1, OneRequestCounts DEF TrackInv, OneRequest, LoopHonest, LiveMeansPolling
<1>2. ASSUME TrackInv, NeverBack PROVE ShowsTheOrderAskedFor
  <2>1. track.kind = "found" => track.seen <= Len(track.order) /\ track.order \in Seq(Statuses) /\ track.seen \in Nat
    BY <1>2 DEF TrackInv, TrackTyped, Screens, NeverBack
  <2>2. track.kind = "found" => Len(track.order) >= track.seen
    BY <2>1, LenProperties
  <2> QED
    BY <1>2, <2>2 DEF TrackInv, OrderHonest, Earlier, ShowsTheOrderAskedFor
<1>3. ASSUME TrackInv PROVE TimelineTellsTheTrail
  <2>1. PICK s : s = track.order
    OBVIOUS
  <2>2. CASE track.kind = "found"
    <3>1. Told(s)
      BY <1>3, <2>1, <2>2 DEF TrackInv, OrderHonest
    <3> QED
      BY <2>1, <2>2, <3>1, DrawnTruly DEF TimelineTellsTheTrail
  <2> QED
    BY <2>2 DEF TimelineTellsTheTrail
<1>4. TrackInv /\ NeverBack => TrackingHonest
  BY <1>1, <1>2, <1>3 DEF TrackingHonest
<1> QED
  BY <1>4, TrackInvariant, NeverBackInvariant, PTL

-----------------------------------------------------------------------------
(***************************************************************************)
(* A pet tag.  What the theorems take of the constants: finitely many phones, *)
(* and a Nil that is no profile.                                           *)
(***************************************************************************)
IsProfile(r) ==
  r = [owner |-> r.owner, lost |-> r.lost, name |-> r.name, gallery |-> r.gallery, theme |-> r.theme,
       blocks |-> r.blocks]
Results == {"ok", "conflict", "error", "forbidden", "validation", "notLost"}
TagConstants ==
  IsFiniteSet(Phones) /\ Nil \notin Results \cup BACKGROUND_IDS /\ \A r : IsProfile(r) => r # Nil

(* A layout as the pages keep it, a theme as the form and the wire have it, and *)
(* what the server stores of both: nothing yet, or what it accepted.         *)
IsContent(x, n) == x = [type |-> x.type, order |-> n, visible |-> x.visible] /\ x.visible \in BOOLEAN
IsLayout(b) ==
  /\ b = <<Photo, b[2], b[3]>> /\ IsContent(b[2], 1) /\ IsContent(b[3], 2)
  /\ {b[2].type, b[3].type} = {"bio", "medical"}
IsWire(t) ==
  /\ t = [background |-> t.background, image |-> t.image]
  /\ t.background \in BACKGROUND_IDS /\ t.image \in BOOLEAN
StoredTheme(t) == t.image \in BOOLEAN /\ (t.background = "image" => t.image = TRUE)
SoundProfile(r) == (r.blocks = <<>> \/ IsLayout(r.blocks)) /\ StoredTheme(r.theme)

(* Shapes: which fields a tag, a screen and a call have, whatever they hold.   *)
IsTag(t) ==
  t = [status |-> t.status, owner |-> t.owner, profile |-> t.profile, consents |-> t.consents,
       scans |-> t.scans, sent |-> t.sent]
IsScreen(s) ==
  s = [view |-> s.view, props |-> s.props, refreshing |-> s.refreshing, pending |-> s.pending,
       error |-> s.error, on |-> s.on, toggling |-> s.toggling, panel |-> s.panel, finder |-> s.finder,
       name |-> s.name, consent |-> s.consent, mount |-> s.mount]
IsCall(c) ==
  /\ c = [id |-> c.id, from |-> c.from, mount |-> c.mount, who |-> c.who, arg |-> c.arg, res |-> c.res]
  /\ c.from \in Phones /\ c.who = SignedIn[c.from]
  /\ c.arg[1] \in {"activate", "toggle", "content", "appearance", "locate"}
  /\ c.arg[1] = "appearance" => IsWire(c.arg[2].theme) /\ IsLayout(c.arg[2].blocks)
  /\ c.res \in Results \cup {Nil}

TagShaped ==
  /\ IsTag(pet) /\ pet.scans \in Nat /\ (pet.profile # Nil => IsProfile(pet.profile))
  /\ phone = [p \in Phones |-> phone[p]] /\ \A p \in Phones : IsScreen(phone[p])
  /\ IsFiniteSet(calls) /\ \A c \in calls : IsCall(c)

(* The tag is whose who consented to it, and whoever sees the owner's controls, *)
(* works with them or was told that the tag is theirs is that customer.        *)
Mine(s) == s.view = "done" \/ s.panel # Nil \/ s.toggling \/ (s.view = "page" /\ s.props.isOwner)
OwnedBy(who) == pet.profile # Nil /\ pet.owner = who
Activates(c) == c.arg[1] = "activate" /\ c.res = "ok"
OwnerInv ==
  /\ pet.status = "ACTIVATED" => pet.profile # Nil
  /\ pet.profile # Nil => pet.owner = pet.profile.owner /\ pet.consents = {pet.owner}
  /\ pet.profile = Nil => pet.consents = {}
  /\ \A p \in Phones : Mine(phone[p]) => OwnedBy(SignedIn[p])
  /\ \A c \in calls : Activates(c) => OwnedBy(c.who)

(* Every location a phone calls sent, or will on its answer, was recorded.     *)
SaySent == {p \in Phones : phone[p].finder = "sent"}
Noted == {c \in calls : c.arg[1] = "locate" /\ c.res = "ok"}
SharesInv == Cardinality(SaySent) + Cardinality(Noted) <= pet.scans

(* What a panel edits is a layout or a theme the server would store, and every  *)
(* page and panel was served a profile it did store.                         *)
IsPanel(x) ==
  /\ x = [kind |-> x.kind, form |-> x.form, saving |-> x.saving, busy |-> x.busy, uploads |-> x.uploads]
  /\ x.kind \in {"edit", "theme", "arrange"}
  /\ x.kind = "theme" => IsWire(x.form)
  /\ x.kind = "arrange" => IsLayout(x.form)
SoundScreen(s) ==
  /\ s.view = "page" => SoundProfile(s.props.profile)
  /\ s.panel # Nil => s.view \in {"page", "done"} /\ SoundProfile(s.props.profile) /\ IsPanel(s.panel)
LayoutInv ==
  /\ pet.profile # Nil => SoundProfile(pet.profile)
  /\ \A p \in Phones : SoundScreen(phone[p])

TagInv == TagShaped /\ OwnerInv /\ SharesInv /\ LayoutInv

LEMMA SharesFewer ==
  ASSUME NEW A, NEW B, IsFiniteSet(A), IsFiniteSet(B), NEW C, NEW D, C \subseteq A, D \subseteq B,
         NEW n \in Nat, NEW m \in Nat, m >= n, Cardinality(A) + Cardinality(B) <= n
  PROVE  Cardinality(C) + Cardinality(D) <= m
<1>1. IsFiniteSet(C) /\ Cardinality(C) <= Cardinality(A) /\ IsFiniteSet(D) /\ Cardinality(D) <= Cardinality(B)
  BY FS_Subset
<1>2. QED  BY <1>1, FS_CardinalityType

LEMMA OneMore ==
  ASSUME NEW A, IsFiniteSet(A), NEW x
  PROVE  IsFiniteSet(A \cup {x}) /\ Cardinality(A \cup {x}) <= Cardinality(A) + 1
BY FS_AddElement, FS_CardinalityType

LEMMA TagInvInit == TagConstants /\ PetTagInit => TagInv
<1> SUFFICES ASSUME TagConstants, PetTagInit PROVE TagInv  OBVIOUS
<1>1. IsScreen(Blank) /\ Blank.finder = "idle"  BY DEF IsScreen, Blank
<1>2. \A p \in Phones : phone[p] = Blank  BY DEF PetTagInit
<1>3. IsTag(pet)  BY DEF PetTagInit, IsTag
<1>4. TagShaped  BY <1>1, <1>2, <1>3, FS_EmptySet DEF PetTagInit, TagShaped
<1>5. ~Mine(Blank)  BY DEF Mine, Blank
<1>6. OwnerInv  BY <1>2, <1>5 DEF PetTagInit, OwnerInv
<1>7. SaySent = {} /\ Noted = {}  BY <1>1, <1>2 DEF PetTagInit, SaySent, Noted
<1>8. SharesInv  BY <1>7, FS_EmptySet DEF PetTagInit, SharesInv
<1>9. SoundScreen(Blank)  BY DEF SoundScreen, Blank
<1>10. LayoutInv  BY <1>2, <1>9 DEF PetTagInit, LayoutInv
<1>11. QED  BY <1>4, <1>6, <1>8, <1>10 DEF TagInv

-----------------------------------------------------------------------------
(* Layouts and themes: normalizing a layout changes nothing, moving and hiding  *)
(* a block leaves a layout, and the server accepts it.                       *)
LEMMA SmallTuples ==
  ASSUME NEW x, NEW y, NEW z
  PROVE  <<x>> \o <<y, z>> = <<x, y, z>> /\ Tail(<<x, y, z>>) = <<y, z>>
<1>1. <<x>> \o <<y, z>> = <<x, y, z>>
  <2> DEFINE T == {x, y, z}  s == <<x>>  t == <<y, z>>  u == <<x, y, z>>
  <2>1. s \in Seq(T) /\ t \in Seq(T) /\ u \in Seq(T)  OBVIOUS
  <2>2. Len(s) = 1 /\ Len(t) = 2 /\ Len(u) = 3 /\ s[1] = u[1] /\ t[1] = u[2] /\ t[2] = u[3]  OBVIOUS
  <2> HIDE DEF s, t, u, T
  <2>3. s \o t \in Seq(T) /\ Len(s \o t) = 3 /\ \A i \in 1 .. 3 : (s \o t)[i] = u[i]
    <3>1. /\ s \o t \in Seq(T) /\ Len(s \o t) = Len(s) + Len(t)
          /\ \A i \in 1 .. Len(s) + Len(t) : (s \o t)[i] = IF i <= Len(s) THEN s[i] ELSE t[i - Len(s)]
      BY <2>1, ConcatProperties
    <3>2. (s \o t)[1] = s[1] /\ (s \o t)[2] = t[1] /\ (s \o t)[3] = t[2]  BY <2>2, <3>1
    <3>3. \A i \in 1 .. 3 : i = 1 \/ i = 2 \/ i = 3  OBVIOUS
    <3>4. QED  BY <2>2, <3>1, <3>2, <3>3
  <2>4. s \o t = u  BY <2>1, <2>2, <2>3, SeqEqual
  <2>5. QED  BY <2>4 DEF s, t, u
<1>2. Tail(<<x, y, z>>) = <<y, z>>  OBVIOUS
<1>3. QED  BY <1>1, <1>2

LEMMA LayoutOfTwo ==
  ASSUME NEW x, NEW y
  PROVE  Layout(<<x, y>>) = <<Photo, [x EXCEPT !.order = 1], [y EXCEPT !.order = 2]>>
<1> DEFINE r == [i \in DOMAIN <<x, y>> |-> [<<x, y>>[i] EXCEPT !.order = i]]
<1>1. r = <<[x EXCEPT !.order = 1], [y EXCEPT !.order = 2]>>  OBVIOUS
<1> HIDE DEF r
<1>2. <<Photo>> \o r = <<Photo, [x EXCEPT !.order = 1], [y EXCEPT !.order = 2]>>  BY <1>1, SmallTuples
<1>3. QED  BY <1>2 DEF Layout, r

LEMMA NumberedLayout ==
  ASSUME NEW x, NEW y, x = [type |-> x.type, order |-> x.order, visible |-> x.visible], x.visible \in BOOLEAN,
         y = [type |-> y.type, order |-> y.order, visible |-> y.visible], y.visible \in BOOLEAN,
         {x.type, y.type} = {"bio", "medical"}
  PROVE  IsLayout(Layout(<<x, y>>))
<1> DEFINE u == [x EXCEPT !.order = 1]  v == [y EXCEPT !.order = 2]
<1>1. IsContent(u, 1) /\ u.type = x.type /\ IsContent(v, 2) /\ v.type = y.type  BY DEF IsContent
<1> HIDE DEF u, v
<1>2. IsLayout(<<Photo, u, v>>)  BY <1>1 DEF IsLayout
<1>3. QED  BY <1>2, LayoutOfTwo DEF u, v

LEMMA NormalOfNothing == IsLayout(normalizeBlocks(<<>>))
<1> DEFINE x == Block("bio", 0, TRUE)  y == Block("medical", 1, TRUE)
<1>1. StoredBlock(<<>>, 1) = x /\ StoredBlock(<<>>, 2) = y
  BY DEF StoredBlock, CONTENT_BLOCK_TYPES, Block
<1>2. /\ x.order = 0 /\ y.order = 1
      /\ x = [type |-> x.type, order |-> x.order, visible |-> x.visible] /\ x.visible \in BOOLEAN
      /\ y = [type |-> y.type, order |-> y.order, visible |-> y.visible] /\ y.visible \in BOOLEAN
      /\ {x.type, y.type} = {"bio", "medical"}
  BY DEF Block
<1> HIDE DEF x, y
<1>3. normalizeBlocks(<<>>) = Layout(<<x, y>>)  BY <1>1, <1>2 DEF normalizeBlocks
<1>4. QED  BY <1>2, <1>3, NumberedLayout

LEMMA OnlyStored ==
  ASSUME NEW b, NEW n, NEW k \in Nat, {i \in DOMAIN b : b[i].type = CONTENT_BLOCK_TYPES[n]} = {k}
  PROVE  StoredBlock(b, n) = b[k]
<1>1. (CHOOSE i \in {k} : \A j \in {k} : i <= j) = k  OBVIOUS
<1>2. QED  BY <1>1 DEF StoredBlock

LEMMA NormalOfLayout ==
  ASSUME NEW b, IsLayout(b)
  PROVE  normalizeBlocks(b) = b
<1> DEFINE of(type) == {i \in DOMAIN b : b[i].type = type}
<1>1. DOMAIN b = 1 .. 3 /\ b[1] = Photo  BY DEF IsLayout
<1>2. b[1].type = "photo_name"  BY <1>1 DEF Photo, Block, PHOTO_NAME
<1>3. /\ b[2].order = 1 /\ b[3].order = 2 /\ [b[2] EXCEPT !.order = 1] = b[2]
      /\ [b[3] EXCEPT !.order = 2] = b[3]
  BY DEF IsLayout, IsContent
<1>4. Layout(<<b[2], b[3]>>) = b  BY <1>3, LayoutOfTwo DEF IsLayout
<1>5. CASE b[2].type = "bio" /\ b[3].type = "medical"
  <2>1. of("bio") = {2} /\ of("medical") = {3}  BY <1>1, <1>2, <1>5
  <2>2. StoredBlock(b, 1) = b[2] /\ StoredBlock(b, 2) = b[3]
    BY <2>1, OnlyStored DEF CONTENT_BLOCK_TYPES
  <2>3. normalizeBlocks(b) = Layout(<<b[2], b[3]>>)  BY <1>3, <2>2 DEF normalizeBlocks
  <2>4. QED  BY <1>4, <2>3
<1>6. CASE b[2].type = "medical" /\ b[3].type = "bio"
  <2>1. of("bio") = {3} /\ of("medical") = {2}  BY <1>1, <1>2, <1>6
  <2>2. StoredBlock(b, 1) = b[3] /\ StoredBlock(b, 2) = b[2]
    BY <2>1, OnlyStored DEF CONTENT_BLOCK_TYPES
  <2>3. normalizeBlocks(b) = Layout(<<b[2], b[3]>>)  BY <1>3, <2>2 DEF normalizeBlocks
  <2>4. QED  BY <1>4, <2>3
<1>7. QED  BY <1>5, <1>6 DEF IsLayout

LEMMA MovedLayout ==
  ASSUME NEW b, IsLayout(b), NEW i, NEW dir
  PROVE  IsLayout(moveContentBlock(b, i, dir))
<1>1. ContentOf(b) = <<b[2], b[3]>>
  <2>1. PICK x, y : b = <<Photo, x, y>> /\ b[2] = x /\ b[3] = y  BY DEF IsLayout
  <2>2. QED  BY <2>1, SmallTuples DEF ContentOf
<1>2. IsLayout(Layout(<<b[2], b[3]>>)) /\ IsLayout(Layout(<<b[3], b[2]>>))
  <2> DEFINE x == b[2]  y == b[3]
  <2>1. /\ x = [type |-> x.type, order |-> x.order, visible |-> x.visible] /\ x.visible \in BOOLEAN
        /\ y = [type |-> y.type, order |-> y.order, visible |-> y.visible] /\ y.visible \in BOOLEAN
        /\ {x.type, y.type} = {"bio", "medical"} /\ {y.type, x.type} = {"bio", "medical"}
    BY DEF IsLayout, IsContent
  <2> HIDE DEF x, y
  <2>2. IsLayout(Layout(<<x, y>>)) /\ IsLayout(Layout(<<y, x>>))  BY <2>1, NumberedLayout
  <2>3. QED  BY <2>2 DEF x, y
<1>3. CASE {i, i + dir} \subseteq 1 .. 2
  <2> DEFINE c == <<b[2], b[3]>>
  <2>1. [c EXCEPT ![i] = c[i + dir], ![i + dir] = c[i]] \in {<<b[2], b[3]>>, <<b[3], b[2]>>}
    <3>1. i \in {1, 2} /\ i + dir \in {1, 2}  BY <1>3
    <3> DEFINE j == i + dir
    <3> HIDE DEF j
    <3>2. [c EXCEPT ![i] = c[j], ![j] = c[i]] \in {<<b[2], b[3]>>, <<b[3], b[2]>>}
      <4>1. CASE i = 1 /\ j = 1  BY <4>1
      <4>2. CASE i = 1 /\ j = 2  BY <4>2
      <4>3. CASE i = 2 /\ j = 1  BY <4>3
      <4>4. CASE i = 2 /\ j = 2  BY <4>4
      <4>5. QED  BY <3>1, <4>1, <4>2, <4>3, <4>4 DEF j
    <3>3. QED  BY <3>2 DEF j
  <2>2. QED  BY <1>1, <1>2, <1>3, <2>1 DEF moveContentBlock
<1>4. CASE ~({i, i + dir} \subseteq 1 .. 2)  BY <1>1, <1>4 DEF moveContentBlock
<1>5. QED  BY <1>3, <1>4

LEMMA ToggledLayout ==
  ASSUME NEW b, IsLayout(b), NEW type
  PROVE  IsLayout(toggleBlockVisible(b, type))
<1> DEFINE t == toggleBlockVisible(b, type)
           flip(x) == IF x.type = type /\ type # PHOTO_NAME THEN [x EXCEPT !.visible = ~@] ELSE x
<1>1. DOMAIN b = 1 .. 3 /\ b[1] = Photo  BY DEF IsLayout
<1>2. t = [i \in 1 .. 3 |-> flip(b[i])]  BY <1>1 DEF toggleBlockVisible
<1>3. flip(Photo) = Photo  BY DEF Photo, Block
<1>4. /\ IsContent(flip(b[2]), 1) /\ flip(b[2]).type = b[2].type
      /\ IsContent(flip(b[3]), 2) /\ flip(b[3]).type = b[3].type
  <2>1. ASSUME NEW x, NEW n, IsContent(x, n) PROVE IsContent(flip(x), n) /\ flip(x).type = x.type
    <3>1. ASSUME NEW v \in BOOLEAN
          PROVE  IsContent([x EXCEPT !.visible = v], n) /\ [x EXCEPT !.visible = v].type = x.type
      BY <2>1 DEF IsContent
    <3>2. flip(x) = x \/ flip(x) = [x EXCEPT !.visible = ~x.visible]  OBVIOUS
    <3>3. CASE x.visible = TRUE
      <4>1. (~x.visible) = FALSE  BY <3>3
      <4>2. QED  BY <2>1, <3>1, <3>2, <4>1
    <3>4. CASE x.visible = FALSE
      <4>1. (~x.visible) = TRUE  BY <3>4
      <4>2. QED  BY <2>1, <3>1, <3>2, <4>1
    <3>5. QED  BY <2>1, <3>3, <3>4 DEF IsContent
  <2>2. QED  BY <2>1 DEF IsLayout
<1> HIDE DEF flip
<1>5. t = <<Photo, flip(b[2]), flip(b[3])>>  BY <1>1, <1>2, <1>3
<1>6. QED  BY <1>4, <1>5 DEF IsLayout

LEMMA LayoutAccepted ==
  ASSUME NEW b, IsLayout(b)
  PROVE  /\ \A i \in DOMAIN b : b[i].type \in {PHOTO_NAME} \cup SeqExt!ToSet(CONTENT_BLOCK_TYPES)
         /\ \E i \in DOMAIN b : b[i].type = PHOTO_NAME
         /\ \A i \in DOMAIN b : b[i].type = PHOTO_NAME => b[i].visible
<1>1. DOMAIN b = 1 .. 3 /\ b[1] = Photo  BY DEF IsLayout
<1>2. Photo.type = PHOTO_NAME /\ Photo.visible  BY DEF Photo, Block
<1>3. SeqExt!ToSet(CONTENT_BLOCK_TYPES) = {"bio", "medical"}  BY DEF SeqExt!ToSet, CONTENT_BLOCK_TYPES
<1>4. b[2].type \in {"bio", "medical"} /\ b[3].type \in {"bio", "medical"}  BY DEF IsLayout
<1>5. QED  BY <1>1, <1>2, <1>3, <1>4 DEF PHOTO_NAME

LEMMA LayoutHasEachOnce ==
  ASSUME NEW b, IsLayout(b)
  PROVE  Len(b) = Cardinality({x.type : x \in SeqExt!ToSet(b)})
<1>1. DOMAIN b = 1 .. 3 /\ b[1] = Photo /\ Len(b) = 3  BY DEF IsLayout
<1>2. Photo.type = "photo_name"  BY DEF Photo, Block, PHOTO_NAME
<1>3. SeqExt!ToSet(b) = {b[1], b[2], b[3]}  BY <1>1 DEF SeqExt!ToSet
<1>4. {x.type : x \in SeqExt!ToSet(b)} = {"photo_name", "bio", "medical"}
  BY <1>1, <1>2, <1>3 DEF IsLayout
<1>5. Cardinality({"bio"}) = 1 /\ IsFiniteSet({"bio"})  BY FS_Singleton
<1>6. {"bio", "medical"} = {"bio"} \cup {"medical"} /\ "medical" \notin {"bio"}  OBVIOUS
<1>7. Cardinality({"bio", "medical"}) = 2 /\ IsFiniteSet({"bio", "medical"})
  BY <1>5, <1>6, FS_AddElement
<1>8. {"photo_name", "bio", "medical"} = {"bio", "medical"} \cup {"photo_name"}
      /\ "photo_name" \notin {"bio", "medical"}
  OBVIOUS
<1>9. Cardinality({"photo_name", "bio", "medical"}) = 3  BY <1>7, <1>8, FS_AddElement
<1>10. QED  BY <1>1, <1>4, <1>9

LEMMA LayoutShowsMedical ==
  ASSUME NEW r, r.lost, r.blocks = <<>> \/ IsLayout(r.blocks)
  PROVE  \E b \in orderedBlocks(r) : b.type = "medical"
<1> DEFINE n == normalizeBlocks(r.blocks)
<1>1. IsLayout(n)  BY NormalOfNothing, NormalOfLayout
<1>2. DOMAIN n = 1 .. 3 /\ SeqExt!ToSet(n) = {n[i] : i \in DOMAIN n}  BY <1>1 DEF IsLayout, SeqExt!ToSet
<1>3. PICK i \in {2, 3} : n[i].type = "medical"  BY <1>1 DEF IsLayout
<1>4. n[i] \in SeqExt!ToSet(n)  BY <1>2
<1> HIDE DEF n
<1>5. n[i] \in orderedBlocks(r)  BY <1>3, <1>4 DEF orderedBlocks, n, PHOTO_NAME
<1>6. QED  BY <1>3, <1>5

LEMMA WireOfForm ==
  ASSUME NEW f, IsWire(f)
  PROVE  /\ IsWire(themeToWire(f))
         /\ f.image = TRUE /\ themeToWire(f).background = "image" => themeToWire(f).image = TRUE
<1>1. themeToWire(f) = [f EXCEPT !.image = (f.background = "image" /\ f.image)]  BY DEF themeToWire
<1>2. (f.background = "image" /\ f.image) \in BOOLEAN  BY DEF IsWire
<1>3. \A v \in BOOLEAN : /\ IsWire([f EXCEPT !.image = v])
                         /\ [f EXCEPT !.image = v].background = f.background
                         /\ [f EXCEPT !.image = v].image = v
  BY DEF IsWire
<1>4. QED  BY <1>1, <1>2, <1>3

LEMMA FormOfStored ==
  ASSUME NEW t, StoredTheme(t)
  PROVE  /\ IsWire(themeFormFrom(t))
         /\ themeToWire(themeFormFrom(t)).background = "image" => themeToWire(themeFormFrom(t)).image = TRUE
<1> DEFINE f == themeFormFrom(t)
<1>1. IsWire(f) /\ f.image = t.image /\ (f.background = "image" => t.background = "image")
  BY DEF themeFormFrom, DEFAULT_THEME, BACKGROUND_IDS, IsWire, StoredTheme
<1>2. themeToWire(f).background = f.background  BY <1>1 DEF themeToWire, IsWire
<1> HIDE DEF f
<1>3. QED  BY <1>1, <1>2, WireOfForm DEF f, StoredTheme

-----------------------------------------------------------------------------
(* A step of a phone: its screen changes, and a call may be sent.             *)
Sends(p) ==
  \/ UNCHANGED <<pet, calls>>
  \/ /\ pet' = [pet EXCEPT !.sent = @ + 1]
     /\ \E c : calls' = calls \cup {c} /\ IsCall(c) /\ c.res = Nil

LEMMA SendSends ==
  ASSUME NEW p \in Phones, NEW body,
         NEW kind \in {"activate", "toggle", "content", "appearance", "locate"}, Send(p, kind, body),
         kind = "appearance" => IsWire(body.theme) /\ IsLayout(body.blocks)
  PROVE  Sends(p)
<1> DEFINE c == [id |-> pet.sent + 1, from |-> p, mount |-> phone[p].mount, who |-> SignedIn[p],
                 arg |-> <<kind, body>>, res |-> Nil]
<1>1. IsCall(c) /\ c.res = Nil  BY DEF IsCall
<1>2. calls' = calls \cup {c} /\ pet' = [pet EXCEPT !.sent = @ + 1]  BY DEF Send
<1> HIDE DEF c
<1>3. QED  BY <1>1, <1>2 DEF Sends

LEMMA ScreenChanges ==
  ASSUME TagConstants, TagInv, NEW p \in Phones, NEW s, IsScreen(s), SoundScreen(s),
         phone' = [phone EXCEPT ![p] = s], Sends(p), Mine(s) => OwnedBy(SignedIn[p]),
         s.finder = "sent" => phone[p].finder = "sent"
  PROVE  TagInv'
<1> USE DEF TagInv
<1>1. \A q \in Phones : phone'[q] = IF q = p THEN s ELSE phone[q]  BY DEF TagShaped
<1>2. phone' = [q \in Phones |-> phone'[q]] /\ \A q \in Phones : IsScreen(phone'[q])
  BY <1>1 DEF TagShaped
<1>3. /\ IsTag(pet') /\ pet'.status = pet.status /\ pet'.owner = pet.owner /\ pet'.profile = pet.profile
      /\ pet'.consents = pet.consents /\ pet'.scans = pet.scans
  <2>1. CASE pet' = pet  BY <2>1 DEF TagShaped
  <2>2. CASE pet' = [pet EXCEPT !.sent = @ + 1]  BY <2>2 DEF TagShaped, IsTag
  <2>3. QED  BY <2>1, <2>2 DEF Sends
<1>4. PICK d : /\ calls' \subseteq calls \cup {d} /\ IsFiniteSet(calls')
               /\ \A c \in calls' \ calls : IsCall(c) /\ c.res = Nil
  <2>1. CASE calls' = calls  BY <2>1 DEF TagShaped
  <2>2. ASSUME NEW c, calls' = calls \cup {c}, IsCall(c), c.res = Nil
        PROVE  /\ calls' \subseteq calls \cup {c} /\ IsFiniteSet(calls')
               /\ \A b \in calls' \ calls : IsCall(b) /\ b.res = Nil
    BY <2>2, FS_AddElement DEF TagShaped
  <2>3. QED  BY <2>1, <2>2 DEF Sends
<1>5. \A c \in calls' : IsCall(c)  BY <1>4 DEF TagShaped
<1>6. TagShaped'  BY <1>2, <1>3, <1>4, <1>5 DEF TagShaped
<1>7. OwnerInv'
  <2>1. \A who : OwnedBy(who)' <=> OwnedBy(who)  BY <1>3 DEF OwnedBy
  <2>2. \A q \in Phones : Mine(phone'[q]) => OwnedBy(SignedIn[q])  BY <1>1 DEF OwnerInv
  <2>3. \A c \in calls' : Activates(c) => OwnedBy(c.who)
    BY <1>4 DEF Activates, OwnerInv, TagConstants, Results
  <2>4. QED  BY <1>3, <2>1, <2>2, <2>3 DEF OwnerInv
<1>8. SharesInv'
  <2>1. SaySent' \subseteq SaySent /\ IsFiniteSet(SaySent)
    BY <1>1, FS_Subset DEF SaySent, TagConstants
  <2>2. Noted' \subseteq Noted /\ IsFiniteSet(Noted)
    BY <1>4, FS_Subset DEF Noted, TagConstants, Results, TagShaped
  <2>3. QED  BY <1>3, <2>1, <2>2, SharesFewer DEF SharesInv, TagShaped
<1>9. LayoutInv'  BY <1>1, <1>3 DEF LayoutInv
<1>10. QED  BY <1>6, <1>7, <1>8, <1>9
-----------------------------------------------------------------------------
(* What a handler makes of the tag: it stays whose it was, an activation that  *)
(* is answered with success made it the caller's, and a location was noted.   *)
RowKept(c, res, t) ==
  /\ IsTag(t) /\ t.scans \in Nat /\ t.scans >= pet.scans /\ res \in Results
  /\ t.status = "ACTIVATED" => t.profile # Nil
  /\ t.profile # Nil => IsProfile(t.profile) /\ t.owner = t.profile.owner /\ t.consents = {t.owner}
  /\ t.profile # Nil => SoundProfile(t.profile)
  /\ t.profile = Nil => t.consents = {}
  /\ pet.profile # Nil => t.profile # Nil /\ t.owner = pet.owner
  /\ c.arg[1] = "activate" /\ res = "ok" => t.profile # Nil /\ t.owner = c.who
  /\ c.arg[1] = "locate" /\ res = "ok" => t.scans = pet.scans + 1

LEMMA RefusedKeeps ==
  ASSUME TagInv, NEW c, NEW res \in Results \ {"ok"}
  PROVE  RowKept(c, res, pet)
BY DEF TagInv, TagShaped, OwnerInv, LayoutInv, RowKept

LEMMA EditKeeps ==
  ASSUME TagInv, NEW c, c.arg[1] \notin {"activate", "locate"}, NEW r, IsProfile(r), SoundProfile(r),
         r # Nil, pet.profile # Nil, r.owner = pet.profile.owner
  PROVE  RowKept(c, "ok", [pet EXCEPT !.profile = r])
<1>1. IsTag([pet EXCEPT !.profile = r])  BY DEF IsTag, TagInv, TagShaped
<1>2. QED  BY <1>1 DEF TagInv, TagShaped, IsTag, OwnerInv, RowKept, Results

(* Two fields of a profile, and the four an activation writes, set at once.   *)
WithContent(r, x, y) == [r EXCEPT !.name = x, !.gallery = y]
WithAppearance(r, x, y) == [r EXCEPT !.theme = x, !.blocks = y]
SetUp(a, b, d) == [pet EXCEPT !.status = a, !.owner = b, !.profile = d, !.consents = @ \cup {b}]

LEMMA TwoProfileFields ==
  ASSUME NEW r, IsProfile(r), NEW x, NEW y
  PROVE  /\ IsProfile(WithContent(r, x, y)) /\ WithContent(r, x, y).owner = r.owner
         /\ IsProfile(WithAppearance(r, x, y)) /\ WithAppearance(r, x, y).owner = r.owner
<1>1. /\ IsProfile([r EXCEPT !.name = x]) /\ [r EXCEPT !.name = x].owner = r.owner
      /\ IsProfile([r EXCEPT !.theme = x]) /\ [r EXCEPT !.theme = x].owner = r.owner
  BY DEF IsProfile
<1>2. \A q : IsProfile(q) =>
         /\ IsProfile([q EXCEPT !.gallery = y]) /\ [q EXCEPT !.gallery = y].owner = q.owner
         /\ IsProfile([q EXCEPT !.blocks = y]) /\ [q EXCEPT !.blocks = y].owner = q.owner
  BY DEF IsProfile
<1>3. /\ [r EXCEPT !.name = x, !.gallery = y] = [[r EXCEPT !.name = x] EXCEPT !.gallery = y]
      /\ [r EXCEPT !.theme = x, !.blocks = y] = [[r EXCEPT !.theme = x] EXCEPT !.blocks = y]
  OBVIOUS
<1>4. QED  BY <1>1, <1>2, <1>3 DEF WithContent, WithAppearance

LEMMA FourTagFields ==
  ASSUME NEW a, NEW b, NEW d, IsTag(pet)
  PROVE  /\ IsTag(SetUp(a, b, d)) /\ SetUp(a, b, d).profile = d /\ SetUp(a, b, d).owner = b
         /\ SetUp(a, b, d).consents = pet.consents \cup {b} /\ SetUp(a, b, d).scans = pet.scans
<1> DEFINE t1 == [pet EXCEPT !.status = a]
           t2 == [t1 EXCEPT !.owner = b]
           t3 == [t2 EXCEPT !.profile = d]
           t4 == [t3 EXCEPT !.consents = pet.consents \cup {b}]
<1>1. IsTag(t1) /\ t1.consents = pet.consents /\ t1.scans = pet.scans  BY DEF IsTag
<1> HIDE DEF t1
<1>2. IsTag(t2) /\ t2.owner = b /\ t2.scans = t1.scans  BY <1>1 DEF IsTag
<1> HIDE DEF t2
<1>3. IsTag(t3) /\ t3.owner = b /\ t3.profile = d /\ t3.scans = t2.scans  BY <1>2 DEF IsTag
<1> HIDE DEF t3
<1>4. /\ IsTag(t4) /\ t4.owner = b /\ t4.profile = d /\ t4.consents = pet.consents \cup {b}
      /\ t4.scans = t3.scans
  BY <1>3 DEF IsTag
<1>5. SetUp(a, b, d) = t4  BY DEF t1, t2, t3, SetUp
<1> HIDE DEF t4
<1>6. QED  BY <1>1, <1>2, <1>3, <1>4, <1>5

LEMMA KeptFields ==
  ASSUME NEW r, IsProfile(r), NEW x, NEW y
  PROVE  /\ WithContent(r, x, y).theme = r.theme /\ WithContent(r, x, y).blocks = r.blocks
         /\ WithAppearance(r, x, y).theme = x /\ WithAppearance(r, x, y).blocks = y
<1>1. WithContent(r, x, y).theme = r.theme  BY DEF IsProfile, WithContent
<1>2. WithContent(r, x, y).blocks = r.blocks  BY DEF IsProfile, WithContent
<1>3. WithAppearance(r, x, y).theme = x  BY DEF IsProfile, WithAppearance
<1>4. WithAppearance(r, x, y).blocks = y  BY DEF IsProfile, WithAppearance
<1>5. QED  BY <1>1, <1>2, <1>3, <1>4

LEMMA HandledKeeps ==
  ASSUME TagConstants, TagInv, NEW c, IsCall(c)
  PROVE  RowKept(c, Handled(c)[1], Handled(c)[2])
<1> USE DEF TagInv
<1>0. IsTag(pet) /\ pet.scans \in Nat /\ (pet.profile # Nil => IsProfile(pet.profile))
  BY DEF TagShaped
<1>1. CASE c.arg[1] = "activate"
  <2>1. CASE pet.status # "ENCODED" \/ pet.profile # Nil
    <3>1. Handled(c)[2] = pet /\ Handled(c)[1] \in {"conflict", "error"}
      BY <1>1, <2>1 DEF Handled, ActivatePetTag
    <3>2. QED  BY <3>1, RefusedKeeps DEF Results
  <2>2. CASE pet.status = "ENCODED" /\ pet.profile = Nil
    <3> DEFINE t == SetUp("ACTIVATED", c.who, Fresh(c.arg[2], c.who))
    <3>1. Handled(c) = <<"ok", t>>  BY <1>1, <2>2 DEF Handled, ActivatePetTag, SetUp
    <3>2. IsProfile(Fresh(c.arg[2], c.who)) /\ Fresh(c.arg[2], c.who).owner = c.who
      BY DEF IsProfile, Fresh
    <3>3. Fresh(c.arg[2], c.who) # Nil /\ SoundProfile(Fresh(c.arg[2], c.who))
      BY <3>2 DEF TagConstants, SoundProfile, StoredTheme, Fresh, NoTheme, BACKGROUND_IDS
    <3>4. /\ IsTag(t) /\ t.profile = Fresh(c.arg[2], c.who) /\ t.owner = c.who
          /\ t.consents = pet.consents \cup {c.who} /\ t.scans = pet.scans
      BY <1>0, FourTagFields
    <3>5. t.consents = {c.who}  BY <2>2, <3>4 DEF OwnerInv
    <3> HIDE DEF t
    <3>6. RowKept(c, "ok", t)  BY <1>0, <1>1, <2>2, <3>2, <3>3, <3>4, <3>5 DEF RowKept, Results
    <3>7. QED  BY <3>1, <3>6
  <2>3. QED  BY <2>1, <2>2
<1>2. CASE c.arg[1] \in {"toggle", "content", "appearance"}
  <2>1. CASE Handled(c)[2] = pet /\ Handled(c)[1] \in {"forbidden", "validation"}
    BY <2>1, RefusedKeeps DEF Results
  <2>2. CASE ~(Handled(c)[2] = pet /\ Handled(c)[1] \in {"forbidden", "validation"})
    <3>1. Owned(c.who)
      BY <1>2, <2>2 DEF Handled, ToggleLostMode, UpdatePetProfile, UpdatePetAppearance
    <3>2. PICK r : /\ Handled(c) = <<"ok", [pet EXCEPT !.profile = r]>>
                   /\ IsProfile(r) /\ r.owner = pet.profile.owner /\ SoundProfile(r)
      <4>1. pet.profile # Nil /\ IsProfile(pet.profile) /\ SoundProfile(pet.profile)
        BY <1>0, <3>1 DEF Owned, LayoutInv
      <4>2. CASE c.arg[1] = "toggle"
        <5> DEFINE r == [pet.profile EXCEPT !.lost = c.arg[2]]
        <5>0. /\ IsProfile(r) /\ r.owner = pet.profile.owner /\ r.theme = pet.profile.theme
              /\ r.blocks = pet.profile.blocks
          BY <4>1 DEF IsProfile
        <5>1. IsProfile(r) /\ r.owner = pet.profile.owner /\ SoundProfile(r)
          BY <4>1, <5>0 DEF SoundProfile
        <5>2. Handled(c) = <<"ok", [pet EXCEPT !.profile = r]>>
          BY <1>0, <3>1, <4>2 DEF Handled, ToggleLostMode, IsTag
        <5>3. QED  BY <5>1, <5>2
      <4>3. CASE c.arg[1] = "content"
        <5> DEFINE r == WithContent(pet.profile, c.arg[2].name, c.arg[2].gallery)
        <5>0. IsProfile(r) /\ r.owner = pet.profile.owner  BY <4>1, TwoProfileFields
        <5>1. IsProfile(r) /\ r.owner = pet.profile.owner /\ SoundProfile(r)
          BY <4>1, <5>0, KeptFields DEF SoundProfile
        <5>2. Handled(c) = <<"ok", [pet EXCEPT !.profile = r]>>
          BY <1>0, <3>1, <4>3 DEF Handled, UpdatePetProfile, IsTag, WithContent
        <5>3. QED  BY <5>1, <5>2
      <4>4. CASE c.arg[1] = "appearance"
        <5> DEFINE r == WithAppearance(pet.profile, c.arg[2].theme, c.arg[2].blocks)
        <5>1. IsProfile(r) /\ r.owner = pet.profile.owner  BY <4>1, TwoProfileFields
        <5>2. validateAppearance(c.arg[2])  BY <2>2, <4>4 DEF Handled, UpdatePetAppearance
        <5>3. StoredTheme(c.arg[2].theme) /\ IsLayout(c.arg[2].blocks)
          BY <4>4, <5>2 DEF IsCall, IsWire, StoredTheme, validateAppearance
        <5>4. SoundProfile(r)  BY <4>1, <5>3, KeptFields DEF SoundProfile
        <5>5. Handled(c) = <<"ok", [pet EXCEPT !.profile = r]>>
          BY <1>0, <3>1, <4>4, <5>2 DEF Handled, UpdatePetAppearance, IsTag, WithAppearance
        <5>6. QED  BY <5>1, <5>4, <5>5
      <4>5. QED  BY <1>2, <4>2, <4>3, <4>4
    <3>3. QED  BY <1>2, <3>1, <3>2, EditKeeps DEF Owned, TagConstants
  <2>3. QED  BY <2>1, <2>2
<1>3. CASE c.arg[1] = "locate"
  <2>1. CASE pet.profile = Nil \/ ~pet.profile.lost
    <3>1. Handled(c) = <<"notLost", pet>>  BY <1>3, <2>1 DEF Handled, SharePetLocation
    <3>2. QED  BY <3>1, RefusedKeeps DEF Results
  <2>2. CASE ~(pet.profile = Nil \/ ~pet.profile.lost)
    <3> DEFINE t == [pet EXCEPT !.scans = @ + 1]
    <3>1. Handled(c) = <<"ok", t>>  BY <1>3, <2>2 DEF Handled, SharePetLocation
    <3>2. /\ IsTag(t) /\ t.scans = pet.scans + 1 /\ t.status = pet.status /\ t.owner = pet.owner
          /\ t.profile = pet.profile /\ t.consents = pet.consents
      BY <1>0 DEF IsTag
    <3> HIDE DEF t
    <3>3. RowKept(c, "ok", t)  BY <1>0, <1>3, <3>2 DEF RowKept, OwnerInv, LayoutInv, Results
    <3>4. QED  BY <3>1, <3>3
  <2>3. QED  BY <2>1, <2>2
<1>4. QED  BY <1>1, <1>2, <1>3 DEF IsCall

(* Serve: the answer a call gets speaks of the row it left.                   *)
LEMMA ServeRow ==
  ASSUME TagConstants, TagInv, NEW c \in calls, Serve(c)
  PROVE  \E res : RowKept(c, res, pet') /\ calls' = (calls \ {c}) \cup {[c EXCEPT !.res = res]}
<1>1. IsCall(c)  BY DEF TagInv, TagShaped
<1>2. PICK outcome \in {Handled(c), <<"error", Handled(c)[2]>>, <<"error", pet>>} :
        pet' = outcome[2] /\ calls' = (calls \ {c}) \cup {[c EXCEPT !.res = outcome[1]]}
  BY DEF Serve
<1>3. RowKept(c, outcome[1], pet')
  <2>1. CASE outcome = Handled(c)  BY <1>1, <1>2, <2>1, HandledKeeps
  <2>2. CASE outcome = <<"error", Handled(c)[2]>>
    BY <1>1, <1>2, <2>2, HandledKeeps DEF RowKept, Results
  <2>3. CASE outcome = <<"error", pet>>  BY <1>2, <2>3, RefusedKeeps DEF Results
  <2>4. QED  BY <1>2, <2>1, <2>2, <2>3
<1>4. QED  BY <1>2, <1>3

LEMMA TagServeKeeps ==
  ASSUME TagConstants, TagInv, NEW c \in calls, Serve(c)
  PROVE  TagInv'
<1> USE DEF TagInv
<1>1. IsCall(c) /\ c.res = Nil /\ phone' = phone  BY DEF Serve, TagShaped
<1>2. PICK res : RowKept(c, res, pet') /\ calls' = (calls \ {c}) \cup {[c EXCEPT !.res = res]}
  BY ServeRow
<1> DEFINE d == [c EXCEPT !.res = res]
<1>3. RowKept(c, res, pet')  BY <1>2
<1>4. IsCall(d) /\ d.res = res /\ d.arg = c.arg /\ d.who = c.who
  BY <1>1, <1>3 DEF IsCall, RowKept
<1>5. calls' = (calls \ {c}) \cup {d}  BY <1>2
<1> HIDE DEF d
<1>6. IsFiniteSet(calls')  BY <1>5, FS_RemoveElement, FS_AddElement DEF TagShaped
<1>7. TagShaped'  BY <1>1, <1>3, <1>4, <1>5, <1>6 DEF TagShaped, RowKept
<1>8. OwnerInv'
  <2>1. \A who : OwnedBy(who) => OwnedBy(who)'  BY <1>3 DEF OwnedBy, RowKept
  <2>2. Activates(d) => OwnedBy(d.who)'  BY <1>3, <1>4 DEF Activates, OwnedBy, RowKept
  <2>3. \A b \in calls' : Activates(b) => OwnedBy(b.who)'  BY <1>5, <2>1, <2>2 DEF OwnerInv
  <2>4. \A q \in Phones : Mine(phone'[q]) => OwnedBy(SignedIn[q])'  BY <1>1, <2>1 DEF OwnerInv
  <2>5. QED  BY <1>3, <2>3, <2>4 DEF OwnerInv, RowKept
<1>9. SharesInv'
  <2>1. SaySent' = SaySent /\ IsFiniteSet(SaySent)  BY <1>1, FS_Subset DEF SaySent, TagConstants
  <2>2. IsFiniteSet(Noted)  BY FS_Subset DEF Noted, TagShaped
  <2>3. CASE c.arg[1] = "locate" /\ res = "ok"
    <3>1. Noted' \subseteq Noted \cup {d}  BY <1>5 DEF Noted
    <3>2. IsFiniteSet(Noted \cup {d}) /\ Cardinality(Noted \cup {d}) <= Cardinality(Noted) + 1
      BY <2>2, OneMore
    <3>3. IsFiniteSet(Noted') /\ Cardinality(Noted') <= Cardinality(Noted \cup {d})
      BY <3>1, <3>2, FS_Subset
    <3>4. pet'.scans = pet.scans + 1  BY <1>3, <2>3 DEF RowKept
    <3>5. QED  BY <2>1, <2>2, <3>2, <3>3, <3>4, FS_CardinalityType DEF SharesInv, TagShaped
  <2>4. CASE ~(c.arg[1] = "locate" /\ res = "ok")
    <3>1. Noted' \subseteq Noted  BY <1>4, <1>5, <2>4 DEF Noted
    <3>2. QED  BY <1>3, <2>1, <2>2, <3>1, SharesFewer DEF SharesInv, TagShaped, RowKept
  <2>5. QED  BY <2>3, <2>4
<1>10. LayoutInv'  BY <1>1, <1>3 DEF LayoutInv, RowKept
<1>11. QED  BY <1>7, <1>8, <1>9, <1>10
-----------------------------------------------------------------------------
(* What a phone does with its screen alone.  A step that leaves the owner's     *)
(* controls as they are shows them to whom they were shown before, and a step  *)
(* of whoever has them may change them.                                      *)
Looks(s, t) == IsScreen(t) /\ t.finder = s.finder
Same(s, t) == /\ Looks(s, t) /\ t.view = s.view /\ t.props = s.props /\ t.panel = s.panel
              /\ t.toggling = s.toggling
WithPanel(s, x) == [s EXCEPT !.panel = x]

LEMMA FieldsKept ==
  ASSUME NEW s, IsScreen(s), NEW x
  PROVE  /\ Same(s, [s EXCEPT !.name = x]) /\ Same(s, [s EXCEPT !.consent = x])
         /\ Same(s, [s EXCEPT !.error = x]) /\ Same(s, [s EXCEPT !.pending = x])
         /\ Same(s, [s EXCEPT !.on = x]) /\ Same(s, [s EXCEPT !.refreshing = x])
         /\ Looks(s, [s EXCEPT !.toggling = x]) /\ Looks(s, WithPanel(s, x))
<1> USE DEF IsScreen, Same, Looks
<1>1. Same(s, [s EXCEPT !.name = x]) /\ Same(s, [s EXCEPT !.consent = x])  OBVIOUS
<1>2. Same(s, [s EXCEPT !.error = x]) /\ Same(s, [s EXCEPT !.pending = x])  OBVIOUS
<1>3. Same(s, [s EXCEPT !.on = x]) /\ Same(s, [s EXCEPT !.refreshing = x])  OBVIOUS
<1>4. Looks(s, [s EXCEPT !.toggling = x]) /\ Looks(s, WithPanel(s, x))  BY DEF WithPanel
<1>5. QED  BY <1>1, <1>2, <1>3, <1>4

LEMMA SwitchKept ==
  ASSUME NEW s, IsScreen(s), NEW x
  PROVE  /\ [s EXCEPT !.toggling = x].view = s.view /\ [s EXCEPT !.toggling = x].props = s.props
         /\ [s EXCEPT !.toggling = x].panel = s.panel /\ [s EXCEPT !.toggling = x].toggling = x
BY DEF IsScreen

LEMMA PanelFields ==
  ASSUME NEW s, IsScreen(s), NEW x
  PROVE  WithPanel(s, x).view = s.view /\ WithPanel(s, x).props = s.props /\ WithPanel(s, x).panel = x
BY DEF IsScreen, WithPanel

LEMMA SameKeeps ==
  ASSUME TagConstants, TagInv, NEW p \in Phones, NEW s, Same(phone[p], s),
         phone' = [phone EXCEPT ![p] = s], Sends(p)
  PROVE  TagInv'
<1>1. Mine(s) => OwnedBy(SignedIn[p])  BY DEF TagInv, OwnerInv, Mine, Same
<1>2. SoundScreen(s)  BY DEF TagInv, LayoutInv, SoundScreen, Same
<1>3. QED  BY <1>1, <1>2, ScreenChanges DEF Same, Looks

LEMMA OwnersKeeps ==
  ASSUME TagConstants, TagInv, NEW p \in Phones, NEW s, Looks(phone[p], s), SoundScreen(s), Mine(phone[p]),
         phone' = [phone EXCEPT ![p] = s], Sends(p)
  PROVE  TagInv'
<1>1. OwnedBy(SignedIn[p])  BY DEF TagInv, OwnerInv
<1>2. QED  BY <1>1, ScreenChanges DEF Looks

(* FillOnboarding and SubmitOnboarding.                                      *)
LEMMA OnboardKeeps ==
  ASSUME TagConstants, TagInv, NEW p \in Phones, Onboard(p)
  PROVE  TagInv'
<1>0. IsScreen(phone[p])  BY DEF TagInv, TagShaped
<1>1. CASE FillOnboarding(p)
  <2>1. PICK s : Same(phone[p], s) /\ Set(p, s)  BY <1>0, <1>1, FieldsKept DEF FillOnboarding
  <2>2. QED  BY <2>1, SameKeeps DEF Set, Sends
<1>2. CASE SubmitOnboarding(p)
  <2>1. CASE Set(p, [phone[p] EXCEPT !.error = TRUE])
    <3>1. Same(phone[p], [phone[p] EXCEPT !.error = TRUE])  BY <1>0, FieldsKept
    <3>2. QED  BY <2>1, <3>1, SameKeeps DEF Set, Sends
  <2>2. CASE /\ Send(p, "activate", phone[p].name)
             /\ phone' = [phone EXCEPT ![p].pending = TRUE, ![p].error = FALSE]
    <3> DEFINE t == [phone[p] EXCEPT !.pending = TRUE]  s == [t EXCEPT !.error = FALSE]
    <3>1. Same(phone[p], t)  BY <1>0, FieldsKept
    <3>2. phone' = [phone EXCEPT ![p] = s]  BY <2>2 DEF TagInv, TagShaped
    <3> HIDE DEF t
    <3>3. IsScreen(t)  BY <3>1 DEF Same, Looks
    <3>4. Same(t, s)  BY <3>3, FieldsKept
    <3> HIDE DEF s
    <3>5. Same(phone[p], s)  BY <3>1, <3>4 DEF Same, Looks
    <3>6. Sends(p)  BY <2>2, SendSends
    <3>7. QED  BY <3>2, <3>5, <3>6, SameKeeps
  <2>3. QED  BY <1>2, <2>1, <2>2 DEF SubmitOnboarding
<1>3. QED  BY <1>1, <1>2 DEF Onboard

(* ToggleSwitch.                                                             *)
LEMMA LoseKeeps ==
  ASSUME TagConstants, TagInv, NEW p \in Phones, Lose(p)
  PROVE  TagInv'
<1> DEFINE q == [phone[p] EXCEPT !.on = ~@]  t == [q EXCEPT !.toggling = TRUE]
           s == [t EXCEPT !.error = FALSE]
<1>0. IsScreen(phone[p]) /\ Mine(phone[p])  BY DEF TagInv, TagShaped, Lose, ToggleSwitch, Mine
<1>1. Same(phone[p], q)  BY <1>0, FieldsKept
<1>2. phone' = [phone EXCEPT ![p] = s]  BY DEF TagInv, TagShaped, Lose, ToggleSwitch
<1>3. IsScreen(q)  BY <1>1 DEF Same, Looks
<1> HIDE DEF q
<1>4. Looks(q, t) /\ t.view = q.view /\ t.props = q.props /\ t.panel = q.panel
  BY <1>3, FieldsKept, SwitchKept
<1> HIDE DEF t
<1>5. IsScreen(t)  BY <1>4 DEF Looks
<1>6. Same(t, s)  BY <1>5, FieldsKept
<1> HIDE DEF s
<1>7. Looks(phone[p], s)  BY <1>1, <1>4, <1>6 DEF Looks, Same
<1>8. Sends(p)  BY SendSends DEF Lose, ToggleSwitch
<1>9. SoundScreen(s)  BY <1>1, <1>4, <1>6 DEF TagInv, LayoutInv, SoundScreen, Same
<1>10. QED  BY <1>0, <1>2, <1>7, <1>8, <1>9, OwnersKeeps

(* PressShare and Located: a share is said to be on its way, never sent.      *)
LEMMA FindKeeps ==
  ASSUME TagConstants, TagInv, NEW p \in Phones, Find(p)
  PROVE  TagInv'
<1>0. IsScreen(phone[p])  BY DEF TagInv, TagShaped
<1>1. PICK x \in {"locating", "unsupported", "sending", "denied", "error"} :
        phone' = [phone EXCEPT ![p] = [phone[p] EXCEPT !.finder = x]]
  BY DEF Find, PressShare, Located, Set, TagInv, TagShaped
<1>2. Sends(p)  BY SendSends DEF Find, PressShare, Located, Set, Sends
<1> DEFINE s == [phone[p] EXCEPT !.finder = x]
<1>3. /\ IsScreen(s) /\ s.finder = x /\ s.view = phone[p].view /\ s.props = phone[p].props
      /\ s.panel = phone[p].panel /\ s.toggling = phone[p].toggling
  BY <1>0 DEF IsScreen
<1>4. phone' = [phone EXCEPT ![p] = s]  BY <1>1
<1> HIDE DEF s
<1>5. Mine(s) => OwnedBy(SignedIn[p])  BY <1>3 DEF TagInv, OwnerInv, Mine
<1>6. s.finder # "sent"  BY <1>3
<1>7. SoundScreen(s)  BY <1>3 DEF TagInv, LayoutInv, SoundScreen
<1>8. QED  BY <1>2, <1>3, <1>4, <1>5, <1>6, <1>7, ScreenChanges
(* OpenTag and Refreshed: only its owner is served a page that says so.        *)
LEMMA ServedToOwner ==
  ASSUME TagInv, NEW who, GetPetPage(who).isOwner
  PROVE  OwnedBy(who)
BY DEF TagInv, OwnerInv, GetPetPage, OwnedBy

(* A page that mounts afresh shows no panel, no switch under way, no share.    *)
Afresh(s, view, props) ==
  IsScreen(s) /\ s.view = view /\ s.props = props /\ s.panel = Nil /\ ~s.toggling /\ s.finder = "idle"
Unavailable(n) == [Blank EXCEPT !.view = "unavailable", !.mount = n]
Remounted(view, props, n) == [Blank EXCEPT !.view = view, !.props = props, !.mount = n]
Scanned(view, props, n, on) == [Blank EXCEPT !.view = view, !.props = props, !.mount = n, !.on = on]

LEMMA MountsAfresh ==
  ASSUME NEW view, NEW props, NEW n, NEW on
  PROVE  /\ Afresh(Unavailable(n), "unavailable", Nil) /\ Afresh(Remounted(view, props, n), view, props)
         /\ Afresh(Scanned(view, props, n, on), view, props)
<1>1. ASSUME NEW s, NEW v, NEW x, NEW y, Afresh(s, v, x)
      PROVE  /\ Afresh([s EXCEPT !.view = y], y, x) /\ Afresh([s EXCEPT !.props = y], v, y)
             /\ Afresh([s EXCEPT !.mount = y], v, x) /\ Afresh([s EXCEPT !.on = y], v, x)
  BY <1>1 DEF Afresh, IsScreen
<1>2. Afresh(Blank, "away", Nil)  BY DEF Afresh, IsScreen, Blank
<1> DEFINE gone == [Blank EXCEPT !.view = "unavailable"]  met == [Blank EXCEPT !.view = view]
           told == [met EXCEPT !.props = props]  drawn == [told EXCEPT !.mount = n]
<1>3. /\ Unavailable(n) = [gone EXCEPT !.mount = n] /\ Remounted(view, props, n) = drawn
      /\ Scanned(view, props, n, on) = [drawn EXCEPT !.on = on]
  BY DEF Unavailable, Remounted, Scanned
<1>4. Afresh(gone, "unavailable", Nil) /\ Afresh(met, view, Nil)  BY <1>1, <1>2
<1> HIDE DEF gone, met
<1>5. Afresh([gone EXCEPT !.mount = n], "unavailable", Nil) /\ Afresh(told, view, props)  BY <1>1, <1>4
<1> HIDE DEF told
<1>6. Afresh(drawn, view, props)  BY <1>1, <1>5
<1> HIDE DEF drawn
<1>7. Afresh([drawn EXCEPT !.on = on], view, props)  BY <1>1, <1>6
<1>8. QED  BY <1>3, <1>5, <1>6, <1>7

LEMMA VisitKeeps ==
  ASSUME TagConstants, TagInv, NEW p \in Phones, Visit(p)
  PROVE  TagInv'
<1> DEFINE served == GetPetPage(SignedIn[p])
<1>0. IsScreen(phone[p]) /\ Sends(p)  BY DEF TagInv, TagShaped, Visit, OpenTag, Refreshed, Sends
<1>1. ViewOf(served, p) # "done"  BY DEF ViewOf
<1>2. /\ served.isOwner => OwnedBy(SignedIn[p])
      /\ ViewOf(served, p) = "page" => SoundProfile(served.profile)
  BY ServedToOwner DEF ViewOf, GetPetPage, TagInv, OwnerInv, LayoutInv
<1>3. ASSUME NEW view, NEW props, NEW s, Afresh(s, view, props), view # "done",
             view = "page" => (props.isOwner => OwnedBy(SignedIn[p])) /\ SoundProfile(props.profile),
             phone' = [phone EXCEPT ![p] = s]
      PROVE  TagInv'
  <2>1. Mine(s) => OwnedBy(SignedIn[p])  BY <1>3 DEF Mine, Afresh
  <2>2. SoundScreen(s)  BY <1>3 DEF SoundScreen, Afresh
  <2>3. QED  BY <1>0, <1>3, <2>1, <2>2, ScreenChanges DEF Afresh
<1>4. CASE OpenTag(p)
  <2> DEFINE n == phone[p].mount + 1  on == served.status = "ACTIVATED" /\ served.profile.lost
  <2>1. \/ phone' = [phone EXCEPT ![p] = Scanned(ViewOf(served, p), served, n, on)]
        \/ phone' = [phone EXCEPT ![p] = Unavailable(n)]
    BY <1>4 DEF OpenTag, Scanned, Unavailable
  <2> HIDE DEF served, n, on
  <2>2. CASE phone' = [phone EXCEPT ![p] = Scanned(ViewOf(served, p), served, n, on)]
    <3>1. Afresh(Scanned(ViewOf(served, p), served, n, on), ViewOf(served, p), served)  BY MountsAfresh
    <3>2. QED  BY <1>1, <1>2, <1>3, <2>2, <3>1
  <2>3. CASE phone' = [phone EXCEPT ![p] = Unavailable(n)]
    <3>1. Afresh(Unavailable(n), "unavailable", Nil)  BY MountsAfresh
    <3>2. QED  BY <1>3, <2>3, <3>1
  <2>4. QED  BY <2>1, <2>2, <2>3
<1>5. CASE Refreshed(p)
  <2>1. CASE /\ ViewOf(served, p) = phone[p].view
             /\ phone' = [phone EXCEPT ![p] = [phone[p] EXCEPT !.refreshing = FALSE, !.props = served]]
    <3> DEFINE t == [phone[p] EXCEPT !.refreshing = FALSE]  s == [t EXCEPT !.props = served]
    <3>1. Same(phone[p], t)  BY <1>0, FieldsKept
    <3>2. phone' = [phone EXCEPT ![p] = s]  BY <2>1
    <3> HIDE DEF t, served
    <3>3. /\ IsScreen(s) /\ s.view = t.view /\ s.props = served /\ s.panel = t.panel
          /\ s.toggling = t.toggling /\ s.finder = t.finder
      BY <3>1 DEF Same, Looks, IsScreen
    <3> HIDE DEF s
    <3>4. Mine(s) => OwnedBy(SignedIn[p])
      BY <1>2, <3>1, <3>3 DEF Same, Mine, TagInv, OwnerInv
    <3>5. SoundScreen(s)
      BY <1>1, <1>2, <2>1, <3>1, <3>3 DEF Same, TagInv, LayoutInv, SoundScreen
    <3>6. QED  BY <1>0, <3>1, <3>2, <3>3, <3>4, <3>5, ScreenChanges DEF Same, Looks
  <2>2. CASE phone' = [phone EXCEPT ![p] = Remounted(ViewOf(served, p), served, phone[p].mount + 1)]
    <3> HIDE DEF served
    <3>1. Afresh(Remounted(ViewOf(served, p), served, phone[p].mount + 1), ViewOf(served, p), served)
      BY MountsAfresh
    <3>2. QED  BY <1>1, <1>2, <1>3, <2>2, <3>1
  <2>3. QED  BY <1>5, <2>1, <2>2 DEF Refreshed, Remounted
<1>6. QED  BY <1>4, <1>5 DEF Visit

-----------------------------------------------------------------------------
(* The owner's panels.                                                       *)
MayPanel(s) == s.view \in {"page", "done"} /\ SoundProfile(s.props.profile)

LEMMA PanelEdits ==
  ASSUME NEW x, IsPanel(x), NEW v
  PROVE  /\ IsPanel([x EXCEPT !.busy = v]) /\ [x EXCEPT !.busy = v].kind = x.kind
         /\ IsPanel([x EXCEPT !.uploads = v]) /\ [x EXCEPT !.uploads = v].kind = x.kind
         /\ IsPanel([x EXCEPT !.saving = v])
         /\ (x.kind = "theme" => IsWire(v)) /\ (x.kind = "arrange" => IsLayout(v)) =>
              IsPanel([x EXCEPT !.form = v])
<1>1. IsPanel([x EXCEPT !.busy = v]) /\ [x EXCEPT !.busy = v].kind = x.kind  BY DEF IsPanel
<1>2. IsPanel([x EXCEPT !.uploads = v]) /\ [x EXCEPT !.uploads = v].kind = x.kind  BY DEF IsPanel
<1>3. IsPanel([x EXCEPT !.saving = v])  BY DEF IsPanel
<1>4. (x.kind = "theme" => IsWire(v)) /\ (x.kind = "arrange" => IsLayout(v)) =>
        IsPanel([x EXCEPT !.form = v])
  BY DEF IsPanel
<1>5. QED  BY <1>1, <1>2, <1>3, <1>4

LEMMA PanelKeeps ==
  ASSUME TagConstants, TagInv, NEW p \in Phones, Mine(phone[p]), NEW x, Set(p, WithPanel(phone[p], x)),
         x # Nil => IsPanel(x) /\ MayPanel(phone[p])
  PROVE  TagInv'
<1> DEFINE s == WithPanel(phone[p], x)
<1>1. IsScreen(phone[p])  BY DEF TagInv, TagShaped
<1>2. Looks(phone[p], s)  BY <1>1, FieldsKept
<1>3. s.view = phone[p].view /\ s.props = phone[p].props /\ s.panel = x  BY <1>1, PanelFields
<1>4. phone' = [phone EXCEPT ![p] = s] /\ Sends(p)  BY DEF Set, Sends
<1> HIDE DEF s
<1>5. SoundScreen(s)  BY <1>3 DEF TagInv, LayoutInv, SoundScreen, MayPanel
<1>6. QED  BY <1>2, <1>4, <1>5, OwnersKeeps

LEMMA PanelAgain ==
  ASSUME NEW s, IsScreen(s), NEW x, NEW y
  PROVE  WithPanel(WithPanel(s, x), y) = WithPanel(s, y)
BY DEF IsScreen, WithPanel

LEMMA OwnKeeps ==
  ASSUME TagConstants, TagInv, NEW p \in Phones, Own(p)
  PROVE  TagInv'
<1> DEFINE panel == phone[p].panel
<1>0. IsScreen(phone[p]) /\ SoundScreen(phone[p])  BY DEF TagInv, TagShaped, LayoutInv
<1>1. Mine(phone[p])
  BY DEF Own, OpenPanel, EditContent, PickPhoto, PhotoUploaded, EditTheme, Arrange, SavePanel, ClosePanel,
         InPanel, Mine
<1>2. panel # Nil => IsPanel(panel) /\ MayPanel(phone[p])  BY <1>0 DEF SoundScreen, MayPanel
<1>3. CASE OpenPanel(p)
  <2> DEFINE profile == phone[p].props.profile
  <2>1. SoundProfile(profile) /\ MayPanel(phone[p])  BY <1>0, <1>3 DEF OpenPanel, SoundScreen, MayPanel
  <2>2. IsLayout(normalizeBlocks(profile.blocks))
    BY <2>1, NormalOfNothing, NormalOfLayout DEF SoundProfile
  <2>3. IsWire(themeFormFrom(profile.theme))  BY <2>1, FormOfStored DEF SoundProfile
  <2>4. ASSUME NEW kind, NEW form, kind \in {"edit", "theme", "arrange"}, kind = "theme" => IsWire(form),
               kind = "arrange" => IsLayout(form)
        PROVE  IsPanel(Panel(kind, form))
    BY <2>4 DEF IsPanel, Panel
  <2>5. PICK x : Set(p, WithPanel(phone[p], x)) /\ IsPanel(x)
    <3>1. CASE Set(p, [phone[p] EXCEPT !.panel =
                         Panel("edit", [name |-> profile.name, gallery |-> profile.gallery])])
      BY <2>4, <3>1 DEF WithPanel
    <3>2. CASE Set(p, [phone[p] EXCEPT !.panel = Panel("theme", themeFormFrom(profile.theme))])
      BY <2>3, <2>4, <3>2 DEF WithPanel
    <3>3. CASE Set(p, [phone[p] EXCEPT !.panel = Panel("arrange", normalizeBlocks(profile.blocks))])
      BY <2>2, <2>4, <3>3 DEF WithPanel
    <3>4. QED  BY <1>3, <3>1, <3>2, <3>3 DEF OpenPanel
  <2>6. QED  BY <1>1, <2>1, <2>5, PanelKeeps
<1>4. CASE ClosePanel(p)
  <2>1. Set(p, WithPanel(phone[p], Nil))  BY <1>4 DEF ClosePanel, WithPanel
  <2>2. QED  BY <1>1, <2>1, PanelKeeps
<1>5. ASSUME NEW form, SetForm(p, form), panel # Nil, panel.kind = "theme" => IsWire(form),
             panel.kind = "arrange" => IsLayout(form)
      PROVE  TagInv'
  <2> DEFINE x == [panel EXCEPT !.form = form]
  <2>1. Set(p, WithPanel(phone[p], x))  BY <1>5 DEF SetForm, WithPanel
  <2>2. IsPanel(x)  BY <1>2, <1>5, PanelEdits
  <2> HIDE DEF x
  <2>3. QED  BY <1>1, <1>2, <1>5, <2>1, <2>2, PanelKeeps
<1>6. CASE EditContent(p)
  <2>1. panel # Nil /\ panel.kind = "edit"  BY <1>6 DEF EditContent, InPanel
  <2>2. PICK form : SetForm(p, form)  BY <1>6 DEF EditContent
  <2>3. QED  BY <1>5, <2>1, <2>2
<1>7. CASE EditTheme(p)
  <2>1. panel # Nil /\ panel.kind = "theme"  BY <1>7 DEF EditTheme, InPanel
  <2>2. IsWire(panel.form)  BY <1>2, <2>1 DEF IsPanel
  <2>3. PICK form : SetForm(p, form) /\ IsWire(form)
    <3>1. CASE \E bg \in BACKGROUND_IDS : SetForm(p, [panel.form EXCEPT !.background = bg])
      <4>1. PICK bg \in BACKGROUND_IDS : SetForm(p, [panel.form EXCEPT !.background = bg])  BY <3>1
      <4>2. IsWire([panel.form EXCEPT !.background = bg])  BY <2>2 DEF IsWire
      <4>3. QED  BY <4>1, <4>2
    <3>2. CASE SetForm(p, DEFAULT_THEME)
      <4>1. IsWire(DEFAULT_THEME)  BY DEF IsWire, DEFAULT_THEME, BACKGROUND_IDS
      <4>2. QED  BY <3>2, <4>1
    <3>3. CASE SetForm(p, [panel.form EXCEPT !.image = TRUE])
      <4>1. \A v \in BOOLEAN : IsWire([panel.form EXCEPT !.image = v])  BY <2>2 DEF IsWire
      <4>2. QED  BY <3>3, <4>1
    <3>4. QED  BY <1>7, <3>1, <3>2, <3>3 DEF EditTheme
  <2>4. QED  BY <1>5, <2>1, <2>3
<1>8. CASE Arrange(p)
  <2>1. panel # Nil /\ panel.kind = "arrange"  BY <1>8 DEF Arrange, InPanel
  <2>2. IsLayout(panel.form)  BY <1>2, <2>1 DEF IsPanel
  <2>3. PICK form : SetForm(p, form) /\ IsLayout(form)
    BY <1>8, <2>2, MovedLayout, ToggledLayout DEF Arrange
  <2>4. QED  BY <1>5, <2>1, <2>3
<1>9. CASE PickPhoto(p)
  <2>1. PICK photo \in Photos :
          Set(p, [phone[p] EXCEPT !.panel.busy = TRUE,
                    !.panel.uploads = @ \cup {[photo |-> photo, items |-> phone[p].panel.form.gallery]}])
    BY <1>9 DEF PickPhoto
  <2>2. panel # Nil  BY <1>9 DEF PickPhoto, InPanel
  <2> DEFINE x == [panel EXCEPT !.busy = TRUE]
             t == WithPanel(phone[p], x)
             y == [t.panel EXCEPT !.uploads =
                     @ \cup {[photo |-> photo, items |-> phone[p].panel.form.gallery]}]
  <2>3. Set(p, WithPanel(t, y))  BY <2>1 DEF WithPanel
  <2>4. IsPanel(x)  BY <1>2, <2>2, PanelEdits
  <2>5. t.panel = x  BY <1>0, PanelFields
  <2> HIDE DEF x, t
  <2>6. IsPanel(y)  BY <2>4, <2>5, PanelEdits
  <2> HIDE DEF y
  <2>7. Set(p, WithPanel(phone[p], y))  BY <1>0, <2>3, PanelAgain DEF t
  <2>8. QED  BY <1>1, <1>2, <2>2, <2>6, <2>7, PanelKeeps
<1>10. CASE PhotoUploaded(p)
  <2>1. PICK u \in phone[p].panel.uploads, ok \in BOOLEAN :
          Set(p, [phone[p] EXCEPT !.panel.busy = FALSE, !.panel.uploads = @ \ {u},
                    !.panel.form.gallery = IF ok THEN Append(u.items, u.photo) ELSE @])
    BY <1>10 DEF PhotoUploaded
  <2>2. panel # Nil /\ panel.kind = "edit"  BY <1>10 DEF PhotoUploaded, InPanel
  <2> DEFINE x == [panel EXCEPT !.busy = FALSE]
             r == WithPanel(phone[p], x)
             y == [r.panel EXCEPT !.uploads = @ \ {u}]
             t == WithPanel(r, y)
             z == [t.panel EXCEPT !.form =
                     [t.panel.form EXCEPT !.gallery = IF ok THEN Append(u.items, u.photo) ELSE @]]
  <2>3. Set(p, WithPanel(t, z))  BY <2>1 DEF WithPanel
  <2>4. IsPanel(x) /\ x.kind = "edit"  BY <1>2, <2>2, PanelEdits
  <2>5. IsScreen(r) /\ r.panel = x  BY <1>0, PanelFields, FieldsKept DEF Looks
  <2> HIDE DEF x
  <2>6. IsPanel(y) /\ y.kind = "edit"
    <3> HIDE DEF r
    <3>1. QED  BY <2>4, <2>5, PanelEdits
  <2>7. t.panel = y
    <3> HIDE DEF r, y
    <3>1. QED  BY <2>5, PanelFields
  <2>8. WithPanel(t, z) = WithPanel(phone[p], z)
    <3> HIDE DEF y, z
    <3>1. t = WithPanel(phone[p], y)  BY <1>0, PanelAgain
    <3>2. QED  BY <1>0, <3>1, PanelAgain
  <2> HIDE DEF t, y
  <2>9. IsPanel(z)  BY <2>6, <2>7, PanelEdits
  <2> HIDE DEF z
  <2>10. QED  BY <1>1, <1>2, <2>2, <2>3, <2>8, <2>9, PanelKeeps
<1>11. CASE SavePanel(p)
  <2>0. panel # Nil  BY <1>11 DEF SavePanel
  <2> DEFINE x == [panel EXCEPT !.saving = TRUE]  t == WithPanel(phone[p], x)  s == [t EXCEPT !.error = FALSE]
  <2>1. phone' = [phone EXCEPT ![p] = s]  BY <1>11 DEF SavePanel, WithPanel, TagInv, TagShaped
  <2>2. IsPanel(x)  BY <1>2, <2>0, PanelEdits
  <2> HIDE DEF x
  <2>3. /\ IsScreen(t) /\ t.finder = phone[p].finder /\ t.view = phone[p].view /\ t.props = phone[p].props
        /\ t.panel = x
    BY <1>0, FieldsKept, PanelFields DEF Looks
  <2> HIDE DEF t
  <2>4. Same(t, s)  BY <2>3, FieldsKept
  <2> HIDE DEF s
  <2>5. Looks(phone[p], s) /\ SoundScreen(s)
    BY <1>0, <1>2, <2>0, <2>2, <2>3, <2>4 DEF Looks, Same, SoundScreen, MayPanel
  <2>6. /\ Request(p).kind \in {"content", "appearance"}
        /\ Request(p).kind = "appearance" =>
             IsWire(Request(p).body.theme) /\ IsLayout(Request(p).body.blocks)
    <3> DEFINE profile == phone[p].props.profile
    <3>1. SoundProfile(profile) /\ IsPanel(panel)  BY <1>2, <2>0 DEF MayPanel
    <3>2. IsLayout(normalizeBlocks(profile.blocks))
      BY <3>1, NormalOfNothing, NormalOfLayout DEF SoundProfile
    <3>3. IsWire(themeToWire(themeFormFrom(profile.theme)))
      BY <3>1, FormOfStored, WireOfForm DEF SoundProfile
    <3>4. CASE panel.kind = "edit"  BY <3>4 DEF Request
    <3>5. CASE panel.kind = "theme"
      <4>1. IsWire(themeToWire(panel.form))  BY <3>1, <3>5, WireOfForm DEF IsPanel
      <4>2. QED  BY <3>2, <3>5, <4>1 DEF Request
    <3>6. CASE panel.kind = "arrange"
      <4>1. IsLayout(panel.form)  BY <3>1, <3>6 DEF IsPanel
      <4>2. QED  BY <3>3, <3>6, <4>1 DEF Request
    <3>7. QED  BY <3>1, <3>4, <3>5, <3>6 DEF IsPanel
  <2>7. Send(p, Request(p).kind, Request(p).body)  BY <1>11 DEF SavePanel
  <2>8. Sends(p)  BY <2>6, <2>7, SendSends
  <2>9. QED  BY <1>1, <2>1, <2>5, <2>8, OwnersKeeps
<1>12. QED  BY <1>3, <1>4, <1>6, <1>7, <1>8, <1>9, <1>10, <1>11 DEF Own

-----------------------------------------------------------------------------
(* Answer: an answer leaves the calls and changes the screen that asked.       *)
LEMMA AnswerChanges ==
  ASSUME TagConstants, TagInv, NEW c \in calls, calls' = calls \ {c}, pet' = pet, NEW s, IsScreen(s),
         SoundScreen(s), phone' = [phone EXCEPT ![c.from] = s], Mine(s) => Mine(phone[c.from]) \/ Activates(c),
         s.finder = "sent" => phone[c.from].finder = "sent" \/ c \in Noted
  PROVE  TagInv'
<1> USE DEF TagInv
<1> DEFINE p == c.from
<1>1. p \in Phones /\ c.who = SignedIn[p]  BY DEF TagShaped, IsCall
<1>2. \A q \in Phones : phone'[q] = IF q = p THEN s ELSE phone[q]  BY DEF TagShaped
<1>3. phone' = [q \in Phones |-> phone'[q]] /\ \A q \in Phones : IsScreen(phone'[q])
  BY <1>2 DEF TagShaped
<1>4. TagShaped'  BY <1>3, FS_RemoveElement DEF TagShaped
<1>5. OwnerInv'
  <2>1. \A who : OwnedBy(who)' <=> OwnedBy(who)  BY DEF OwnedBy
  <2>2. Mine(s) => OwnedBy(SignedIn[p])  BY <1>1 DEF OwnerInv
  <2>3. \A q \in Phones : Mine(phone'[q]) => OwnedBy(SignedIn[q])  BY <1>2, <2>2 DEF OwnerInv
  <2>4. QED  BY <2>1, <2>3 DEF OwnerInv
<1>6. IsFiniteSet(SaySent) /\ IsFiniteSet(Noted)
  BY FS_Subset DEF SaySent, Noted, TagConstants, TagShaped
<1>7. SharesInv'
  <2>1. CASE s.finder = "sent" /\ phone[p].finder # "sent"
    <3>1. c \in Noted  BY <2>1
    <3>2. SaySent' \subseteq SaySent \cup {p}  BY <1>2 DEF SaySent
    <3>3. Noted' = Noted \ {c}  BY DEF Noted
    <3>4. Cardinality(Noted') = Cardinality(Noted) - 1  BY <1>6, <3>1, <3>3, FS_RemoveElement
    <3>5. IsFiniteSet(SaySent \cup {p}) /\ Cardinality(SaySent \cup {p}) <= Cardinality(SaySent) + 1
      BY <1>6, OneMore
    <3>6. IsFiniteSet(SaySent') /\ Cardinality(SaySent') <= Cardinality(SaySent \cup {p})
      BY <3>2, <3>5, FS_Subset
    <3>7. QED  BY <1>6, <3>4, <3>5, <3>6, FS_CardinalityType DEF SharesInv, TagShaped
  <2>2. CASE ~(s.finder = "sent" /\ phone[p].finder # "sent")
    <3>1. SaySent' \subseteq SaySent /\ Noted' \subseteq Noted
      BY <1>2, <2>2 DEF SaySent, Noted
    <3>2. QED  BY <1>6, <3>1, SharesFewer DEF SharesInv, TagShaped
  <2>3. QED  BY <2>1, <2>2
<1>8. LayoutInv'  BY <1>2 DEF LayoutInv
<1>9. QED  BY <1>4, <1>5, <1>7, <1>8

LEMMA TagAnswerKeeps ==
  ASSUME TagConstants, TagInv, NEW c \in calls, Answer(c)
  PROVE  TagInv'
<1> DEFINE s == phone[c.from]
<1>1. /\ IsScreen(s) /\ SoundScreen(s) /\ IsCall(c) /\ c.from \in Phones /\ c.res \in Results
      /\ calls' = calls \ {c} /\ pet' = pet
  BY DEF Answer, TagInv, TagShaped, LayoutInv, IsCall
<1>2. CASE phone' = phone
  <2>1. phone' = [phone EXCEPT ![c.from] = s]  BY <1>2 DEF TagInv, TagShaped
  <2>2. QED  BY <1>1, <2>1, AnswerChanges
<1>3. ASSUME NEW x, Same(s, x), phone' = [phone EXCEPT ![c.from] = x]  PROVE TagInv'
  <2>1. (Mine(x) => Mine(s)) /\ SoundScreen(x)  BY <1>1, <1>3 DEF Same, Mine, SoundScreen
  <2>2. QED  BY <1>1, <1>3, <2>1, AnswerChanges DEF Same, Looks
<1>4. ASSUME NEW x, Looks(s, x), SoundScreen(x), Mine(s) \/ Activates(c),
             phone' = [phone EXCEPT ![c.from] = x]
      PROVE  TagInv'
  BY <1>1, <1>4, AnswerChanges DEF Looks
<1>6. CASE c.arg[1] = "activate" /\ phone' = [phone EXCEPT ![c.from] = AfterActivate(s, c.res)]
  <2> DEFINE t == [s EXCEPT !.pending = FALSE]
  <2>1. Same(s, t)  BY <1>1, FieldsKept
  <2>2. CASE c.res = "ok"
    <3>1. AfterActivate(s, c.res) = [t EXCEPT !.view = "done"]  BY <2>2 DEF AfterActivate
    <3> HIDE DEF t
    <3> DEFINE x == [t EXCEPT !.view = "done"]
    <3>2. Looks(t, x) /\ x.view = "done" /\ x.props = t.props /\ x.panel = t.panel
      BY <2>1 DEF Same, Looks, IsScreen
    <3>3. phone' = [phone EXCEPT ![c.from] = x]  BY <1>6, <3>1
    <3> HIDE DEF x
    <3>4. SoundScreen(x)  BY <1>1, <2>1, <3>2 DEF SoundScreen, Same
    <3>5. QED  BY <1>4, <1>6, <2>1, <2>2, <3>2, <3>3, <3>4 DEF Same, Looks, Activates
  <2>3. CASE c.res # "ok"
    <3>1. AfterActivate(s, c.res) = [t EXCEPT !.error = TRUE]  BY <2>3 DEF AfterActivate
    <3> HIDE DEF t
    <3>2. IsScreen(t)  BY <2>1 DEF Same, Looks
    <3>3. Same(t, [t EXCEPT !.error = TRUE])  BY <3>2, FieldsKept
    <3>4. QED  BY <1>3, <1>6, <2>1, <3>1, <3>3 DEF Same, Looks
  <2>4. QED  BY <2>2, <2>3
<1>7. CASE c.arg[1] = "toggle" /\ phone' = [phone EXCEPT ![c.from] = AfterToggle(s, c.res, c.arg[2])]
  <2> DEFINE t == [s EXCEPT !.toggling = FALSE]
  <2>1. Looks(s, t) /\ t.view = s.view /\ t.props = s.props /\ t.panel = s.panel /\ t.toggling = FALSE
    BY <1>1, FieldsKept, SwitchKept
  <2>2. PICK x : Same(t, x) /\ AfterToggle(s, c.res, c.arg[2]) = x
    <3>1. CASE c.res = "ok"
      <4>1. AfterToggle(s, c.res, c.arg[2]) = [t EXCEPT !.refreshing = TRUE]  BY <3>1 DEF AfterToggle
      <4> HIDE DEF t
      <4>2. QED  BY <2>1, <4>1, FieldsKept DEF Looks
    <3>2. CASE c.res # "ok"
      <4> DEFINE u == [t EXCEPT !.on = ~c.arg[2]]
      <4>1. AfterToggle(s, c.res, c.arg[2]) = [u EXCEPT !.error = TRUE]  BY <3>2 DEF AfterToggle
      <4> HIDE DEF t
      <4>2. Same(t, u)  BY <2>1, FieldsKept DEF Looks
      <4> HIDE DEF u
      <4>3. IsScreen(u)  BY <4>2 DEF Same, Looks
      <4>4. Same(u, [u EXCEPT !.error = TRUE])  BY <4>3, FieldsKept
      <4>5. QED  BY <4>1, <4>2, <4>4 DEF Same, Looks
    <3>3. QED  BY <3>1, <3>2
  <2> HIDE DEF t
  <2>3. Looks(s, x) /\ (Mine(x) => Mine(s)) /\ SoundScreen(x)
    BY <1>1, <2>1, <2>2 DEF Same, Looks, Mine, SoundScreen
  <2>4. QED  BY <1>1, <1>7, <2>2, <2>3, AnswerChanges DEF Looks
<1>8. CASE c.arg[1] = "locate" /\ phone' = [phone EXCEPT ![c.from] = AfterShare(s, c.res)]
  <2> DEFINE x == [s EXCEPT !.finder = IF c.res = "ok" THEN "sent" ELSE c.res]
  <2>1. /\ IsScreen(x) /\ x.view = s.view /\ x.props = s.props /\ x.panel = s.panel
        /\ x.toggling = s.toggling /\ x.finder = IF c.res = "ok" THEN "sent" ELSE c.res
    BY <1>1 DEF IsScreen
  <2>2. phone' = [phone EXCEPT ![c.from] = x]  BY <1>8 DEF AfterShare
  <2> HIDE DEF x
  <2>3. x.finder = "sent" => c \in Noted  BY <1>1, <1>8, <2>1 DEF Noted, Results
  <2>4. (Mine(x) => Mine(s)) /\ SoundScreen(x)  BY <1>1, <2>1 DEF Mine, SoundScreen
  <2>5. QED  BY <1>1, <2>1, <2>2, <2>3, <2>4, AnswerChanges
<1>9. CASE s.panel # Nil /\ phone' = [phone EXCEPT ![c.from] = AfterSave(s, c.res)]
  <2>1. Mine(s)  BY <1>9 DEF Mine
  <2>2. CASE c.res = "ok"
    <3> DEFINE t == WithPanel(s, Nil)
    <3>1. AfterSave(s, c.res) = [t EXCEPT !.refreshing = TRUE]  BY <2>2 DEF AfterSave, WithPanel
    <3>2. Looks(s, t) /\ t.view = s.view /\ t.props = s.props /\ t.panel = Nil
      BY <1>1, FieldsKept, PanelFields
    <3> DEFINE x == [t EXCEPT !.refreshing = TRUE]
    <3> HIDE DEF t
    <3>3. Same(t, x)  BY <3>2, FieldsKept DEF Looks
    <3>4. phone' = [phone EXCEPT ![c.from] = x]  BY <1>9, <3>1
    <3> HIDE DEF x
    <3>5. SoundScreen(x)  BY <1>1, <3>2, <3>3 DEF SoundScreen, Same
    <3>6. QED  BY <1>4, <2>1, <3>2, <3>3, <3>4, <3>5 DEF Same, Looks
  <2>3. CASE c.res # "ok"
    <3> DEFINE y == [s.panel EXCEPT !.saving = FALSE]  t == WithPanel(s, y)  x == [t EXCEPT !.error = TRUE]
    <3>1. AfterSave(s, c.res) = x  BY <2>3 DEF AfterSave, WithPanel
    <3>2. IsPanel(y)  BY <1>1, <1>9, PanelEdits DEF SoundScreen
    <3> HIDE DEF y
    <3>3. Looks(s, t) /\ t.view = s.view /\ t.props = s.props /\ t.panel = y
      BY <1>1, FieldsKept, PanelFields
    <3> HIDE DEF t
    <3>4. Same(t, x)  BY <3>3, FieldsKept DEF Looks
    <3> HIDE DEF x
    <3>5. SoundScreen(x)  BY <1>1, <1>9, <3>2, <3>3, <3>4 DEF SoundScreen, Same
    <3>6. QED  BY <1>4, <1>9, <2>1, <3>1, <3>3, <3>4, <3>5 DEF Same, Looks
  <2>4. QED  BY <2>2, <2>3
<1>10. CASE phone' = [phone EXCEPT ![c.from] = [s EXCEPT !.refreshing = TRUE]]
  <2>1. Same(s, [s EXCEPT !.refreshing = TRUE])  BY <1>1, FieldsKept
  <2>2. QED  BY <1>3, <1>10, <2>1
<1>11. CASE phone' = [phone EXCEPT ![c.from] = s]
  BY <1>1, <1>11, AnswerChanges
<1>12. QED
  <2>1. CASE s.mount # c.mount  BY <1>2, <2>1 DEF Answer
  <2>2. CASE s.mount = c.mount /\ c.arg[1] = "activate"  BY <1>6, <2>2 DEF Answer
  <2>3. CASE s.mount = c.mount /\ c.arg[1] = "toggle"  BY <1>7, <2>3 DEF Answer
  <2>4. CASE s.mount = c.mount /\ c.arg[1] = "locate"  BY <1>8, <2>4 DEF Answer
  <2>5. CASE s.mount = c.mount /\ c.arg[1] \in {"content", "appearance"}
    BY <1>9, <1>10, <1>11, <2>5 DEF Answer
  <2>6. QED  BY <1>1, <2>1, <2>2, <2>3, <2>4, <2>5 DEF IsCall

(* EncodeTag: a tag encoded once more keeps its profile and its owner.         *)
LEMMA EncodeKeeps ==
  ASSUME TagInv, EncodeTag
  PROVE  TagInv'
<1> USE DEF TagInv
<1>1. /\ IsTag(pet') /\ pet'.status = "ENCODED" /\ pet'.owner = pet.owner /\ pet'.profile = pet.profile
      /\ pet'.consents = pet.consents /\ pet'.scans = pet.scans /\ phone' = phone /\ calls' = calls
  BY DEF EncodeTag, IsTag, TagShaped
<1>2. TagShaped'  BY <1>1 DEF TagShaped
<1>3. OwnerInv'
  <2>1. \A who : OwnedBy(who)' <=> OwnedBy(who)  BY <1>1 DEF OwnedBy
  <2>2. QED  BY <1>1, <2>1 DEF OwnerInv
<1>4. SharesInv'  BY <1>1 DEF SharesInv, SaySent, Noted
<1>5. LayoutInv'  BY <1>1 DEF LayoutInv
<1>6. QED  BY <1>2, <1>3, <1>4, <1>5

LEMMA TagInvStep ==
  ASSUME TagConstants, TagInv, [PetTagNext]_petVars
  PROVE  TagInv'
<1>1. CASE EncodeTag  BY <1>1, EncodeKeeps
<1>2. CASE Network  BY <1>2, TagServeKeeps, TagAnswerKeeps DEF Network
<1>3. ASSUME NEW p \in Phones, Visit(p) \/ Onboard(p) \/ Own(p) \/ Lose(p) \/ Find(p)
      PROVE  TagInv'
  BY <1>3, VisitKeeps, OnboardKeeps, OwnKeeps, LoseKeeps, FindKeeps
<1>4. CASE UNCHANGED petVars
  BY <1>4 DEF petVars, TagInv, TagShaped, OwnerInv, OwnedBy, SharesInv, SaySent, Noted,
         LayoutInv
<1>5. QED  BY <1>1, <1>2, <1>3, <1>4 DEF PetTagNext

LEMMA TagInvHolds == TagConstants /\ PetTagSpec => []TagInv
<1> SUFFICES ASSUME TagConstants PROVE PetTagSpec => []TagInv  OBVIOUS
<1>1. PetTagInit => TagInv  BY TagInvInit
<1>2. TagInv /\ [PetTagNext]_petVars => TagInv'  BY TagInvStep
<1>3. QED  BY <1>1, <1>2, PTL DEF PetTagSpec

-----------------------------------------------------------------------------
(* A layout save is accepted, and what is stored is a layout.                *)
LEMMA SavesAccepted == TagInv => LayoutSaveAccepted
<1> SUFFICES ASSUME TagInv PROVE LayoutSaveAccepted  OBVIOUS
<1>1. ASSUME NEW p \in Phones, InPanel(p, "arrange") PROVE validateAppearance(Request(p).body)
  <2> DEFINE theme == themeToWire(themeFormFrom(phone[p].props.profile.theme))
  <2>1. phone[p].panel # Nil /\ phone[p].panel.kind = "arrange"  BY <1>1 DEF InPanel
  <2>2. SoundProfile(phone[p].props.profile) /\ IsLayout(phone[p].panel.form)
    BY <2>1 DEF TagInv, LayoutInv, SoundScreen, IsPanel
  <2>3. IsWire(theme) /\ (theme.background = "image" => theme.image = TRUE)
    BY <2>2, FormOfStored, WireOfForm DEF SoundProfile
  <2>4. Request(p).body = [theme |-> theme, blocks |-> phone[p].panel.form]  BY <2>1 DEF Request
  <2> HIDE DEF theme
  <2>5. QED  BY <2>2, <2>3, <2>4, LayoutAccepted DEF validateAppearance, IsWire
<1>2. ASSUME pet.profile # Nil, pet.profile.blocks # <<>>
      PROVE  /\ pet.profile.blocks = normalizeBlocks(pet.profile.blocks)
             /\ Len(pet.profile.blocks) = Cardinality({b.type : b \in SeqExt!ToSet(pet.profile.blocks)})
  <2>1. IsLayout(pet.profile.blocks)  BY <1>2 DEF TagInv, LayoutInv, SoundProfile
  <2>2. QED  BY <2>1, NormalOfLayout, LayoutHasEachOnce
<1>3. QED  BY <1>1, <1>2 DEF LayoutSaveAccepted

LEMMA MedicalShown == TagInv => LostShowsMedical
<1> SUFFICES ASSUME TagInv, NEW p \in Phones, phone[p].view = "page", phone[p].props.profile.lost
             PROVE  \E b \in orderedBlocks(phone[p].props.profile) : b.type = "medical"
  BY DEF LostShowsMedical
<1>1. SoundProfile(phone[p].props.profile)  BY DEF TagInv, LayoutInv, SoundScreen
<1>2. QED  BY <1>1, LayoutShowsMedical DEF SoundProfile

LEMMA SharesRecorded == TagConstants /\ TagInv => SentWasRecorded
<1> SUFFICES ASSUME TagConstants, TagInv PROVE SentWasRecorded  OBVIOUS
<1>1. IsFiniteSet(SaySent) /\ IsFiniteSet(Noted)
  BY FS_Subset DEF SaySent, Noted, TagConstants, TagInv, TagShaped
<1>2. Cardinality(SaySent) \in Nat /\ Cardinality(Noted) \in Nat  BY <1>1, FS_CardinalityType
<1>3. Cardinality(SaySent) <= pet.scans  BY <1>2 DEF TagInv, TagShaped, SharesInv
<1>4. QED  BY <1>3 DEF SaySent, SentWasRecorded

(* A tag has one owner, the customer who consented, and nobody else is told it  *)
(* is theirs or has its controls; every save of a layout is accepted and what  *)
(* is stored has each block once; a lost pet shows its allergies; and "sent"   *)
(* is said of no more locations than the shop recorded.                      *)
THEOREM PetTagIsSound == TagConstants /\ PetTagSpec => []PetTagSound
<1> SUFFICES ASSUME TagConstants PROVE PetTagSpec => []PetTagSound  OBVIOUS
<1>1. TagInv => OneOwner  BY DEF TagInv, OwnerInv, OwnedBy, Mine, OneOwner
<1>2. TagInv => PetTagSound
  BY <1>1, SavesAccepted, MedicalShown, SharesRecorded DEF PetTagSound
<1>3. QED  BY <1>2, TagInvHolds, PTL

(* Once a tag is somebody's it stays theirs: no activation that follows, no      *)
(* second encode and no edit takes its profile away or gives it to another.   *)
THEOREM TagStaysTheirs ==
  TagConstants /\ PetTagSpec =>
    [][pet.profile # Nil => pet'.profile # Nil /\ pet'.owner = pet.owner]_petVars
<1> SUFFICES ASSUME TagConstants
             PROVE  PetTagSpec =>
                      [][pet.profile # Nil => pet'.profile # Nil /\ pet'.owner = pet.owner]_petVars
  OBVIOUS
<1>1. ASSUME TagInv, PetTagNext, pet.profile # Nil
      PROVE  pet'.profile # Nil /\ pet'.owner = pet.owner
  <2>1. IsTag(pet)  BY <1>1 DEF TagInv, TagShaped
  <2>2. CASE EncodeTag  BY <1>1, <2>1, <2>2 DEF EncodeTag, IsTag
  <2>3. ASSUME NEW c \in calls, Serve(c) PROVE pet'.profile # Nil /\ pet'.owner = pet.owner
    BY <1>1, <2>3, ServeRow DEF RowKept
  <2>4. CASE pet' = pet  BY <1>1, <2>4
  <2>5. CASE pet' = [pet EXCEPT !.sent = @ + 1]  BY <1>1, <2>1, <2>5 DEF IsTag
  <2>6. ASSUME NEW c \in calls, Answer(c) PROVE pet' = pet  BY <2>6 DEF Answer
  <2>7. ASSUME NEW p \in Phones, Visit(p) \/ Onboard(p) \/ Own(p) \/ Lose(p) \/ Find(p)
        PROVE  pet' = pet \/ pet' = [pet EXCEPT !.sent = @ + 1]
    <3>1. CASE Visit(p)  BY <3>1 DEF Visit, OpenTag, Refreshed
    <3>2. CASE Onboard(p)  BY <3>2 DEF Onboard, FillOnboarding, SubmitOnboarding, Set, Send
    <3>3. CASE Own(p)
      BY <3>3 DEF Own, OpenPanel, EditContent, PickPhoto, PhotoUploaded, EditTheme, Arrange, SavePanel,
                  ClosePanel, SetForm, Set, Send
    <3>4. CASE Lose(p)  BY <3>4 DEF Lose, ToggleSwitch, Send
    <3>5. CASE Find(p)  BY <3>5 DEF Find, PressShare, Located, Set, Send
    <3>6. QED  BY <2>7, <3>1, <3>2, <3>3, <3>4, <3>5
  <2>8. QED  BY <1>1, <2>2, <2>3, <2>4, <2>5, <2>6, <2>7 DEF PetTagNext, Network
<1>2. QED  BY <1>1, TagInvHolds, PTL DEF PetTagSpec

-----------------------------------------------------------------------------
(* The lines of a cart that a filter keeps: the n-th is the one of rank n.      *)
Rank(at, i) == Cardinality({j \in at : j <= i})

LEMMA RankIsPlace ==
  ASSUME NEW N \in Nat, NEW at \in SUBSET (1 .. N)
  PROVE  /\ IsFiniteSet(at) /\ Cardinality(at) \in Nat /\ Cardinality(at) <= N
         /\ \A n \in 1 .. Cardinality(at) : \E i \in at : Rank(at, i) = n
<1> DEFINE upto(i) == {j \in at : j <= i}
           rank == [i \in at |-> Cardinality(upto(i))]
           C == Cardinality(at)
<1>1. IsFiniteSet(1 .. N) /\ Cardinality(1 .. N) = N  BY FS_Interval
<1>2. IsFiniteSet(at) /\ C \in Nat /\ C <= N  BY <1>1, FS_Subset, FS_CardinalityType
<1>3. ASSUME NEW i \in at
      PROVE  IsFiniteSet(upto(i)) /\ Cardinality(upto(i)) \in 1 .. C
  <2>1. upto(i) \subseteq at /\ i \in upto(i)  OBVIOUS
  <2>2. IsFiniteSet(upto(i)) /\ Cardinality(upto(i)) \in Nat /\ Cardinality(upto(i)) <= C
    BY <1>2, <2>1, FS_Subset, FS_CardinalityType
  <2>3. Cardinality(upto(i)) # 0  BY <2>1, <2>2, FS_EmptySet
  <2>4. QED  BY <1>2, <2>2, <2>3
<1>4. ASSUME NEW i \in at, NEW k \in at, i < k
      PROVE  Cardinality(upto(i)) # Cardinality(upto(k))
  <2>1. i \in Nat /\ k \in Nat /\ \A j \in at : j \in Nat  OBVIOUS
  <2>2. upto(i) \subseteq upto(k) /\ k \in upto(k) /\ k \notin upto(i)
    <3>1. \A j \in at : j <= i => j <= k  BY <1>4, <2>1
    <3>2. k <= k /\ ~(k <= i)  BY <1>4, <2>1
    <3>3. QED  BY <3>1, <3>2
  <2>3. QED  BY <1>3, <2>2, FS_Subset
<1>5. rank \in [at -> 1 .. C] /\ \A i, k \in at : rank[i] = rank[k] => i = k
  BY <1>3, <1>4
<1>6. rank \in Injection(at, 1 .. C)  BY <1>5 DEF Injection, IsInjective
<1>7. IsFiniteSet(1 .. C) /\ Cardinality(1 .. C) = C  BY <1>2, FS_Interval
<1>8. rank \in Surjection(at, 1 .. C)  BY <1>6, <1>7, FS_Injection
<1>9. \A n \in 1 .. C : \E i \in at : rank[i] = n  BY <1>8 DEF Surjection
<1>10. QED  BY <1>2, <1>9 DEF Rank

(* What is kept, and that no place is kept twice.                             *)
LEMMA KeptKeeps ==
  ASSUME NEW X, NEW items \in Seq(X), NEW at \in SUBSET DOMAIN items
  PROVE  /\ Kept(items, at) \in Seq(X) /\ Len(Kept(items, at)) <= Len(items)
         /\ Len(Kept(items, at)) = Cardinality(at) /\ IsFiniteSet(at)
         /\ \A n \in DOMAIN Kept(items, at) :
              \E i \in at : Rank(at, i) = n /\ Kept(items, at)[n] = items[i]
<1>1. DOMAIN items = 1 .. Len(items) /\ Len(items) \in Nat  OBVIOUS
<1> DEFINE C == Cardinality(at)  place(n) == CHOOSE i \in at : Rank(at, i) = n
<1>2. /\ IsFiniteSet(at) /\ C \in Nat /\ C <= Len(items)
      /\ \A n \in 1 .. C : \E i \in at : Rank(at, i) = n
  BY <1>1, RankIsPlace
<1>3. \A n \in 1 .. C : place(n) \in at /\ Rank(at, place(n)) = n  BY <1>2
<1>4. Kept(items, at) = [n \in 1 .. C |-> items[place(n)]]  BY DEF Kept, Rank
<1> HIDE DEF place
<1>5. \A n \in 1 .. C : items[place(n)] \in X  BY <1>1, <1>3
<1>6. [n \in 1 .. C |-> items[place(n)]] \in Seq(X)  BY <1>2, <1>5
<1>7. Len([n \in 1 .. C |-> items[place(n)]]) = C  BY <1>2, <1>6
<1>8. QED  BY <1>2, <1>3, <1>4, <1>6, <1>7

LEMMA KeptApart ==
  ASSUME NEW X, NEW items \in Seq(X), NEW at \in SUBSET DOMAIN items,
         \A i, j \in at : items[i].key = items[j].key => i = j,
         NEW n \in DOMAIN Kept(items, at), NEW m \in DOMAIN Kept(items, at),
         Kept(items, at)[n].key = Kept(items, at)[m].key
  PROVE  n = m
<1>1. PICK i \in at : Rank(at, i) = n /\ Kept(items, at)[n] = items[i]  BY KeptKeeps
<1>2. PICK j \in at : Rank(at, j) = m /\ Kept(items, at)[m] = items[j]  BY KeptKeeps
<1>3. QED  BY <1>1, <1>2

-----------------------------------------------------------------------------
(* A cart as the store keeps it.                                            *)
CartLines == [key : Keys, qty : 1 .. MAX_QUANTITY, on : BOOLEAN]
OneLineEach(items) == \A i, j \in DOMAIN items : items[i].key = items[j].key => i = j
GoodCart(items) == items \in Seq(CartLines) /\ Len(items) <= MAX_LINES /\ OneLineEach(items)

LEMMA Clamped ==
  ASSUME CartConstants, NEW q \in Int
  PROVE  clampQuantity(q) \in 1 .. MAX_QUANTITY
BY DEF CartConstants, clampQuantity

LEMMA KeptGood ==
  ASSUME CartConstants, NEW items, GoodCart(items), NEW at \in SUBSET DOMAIN items
  PROVE  GoodCart(Kept(items, at))
<1>1. items \in Seq(CartLines) /\ Len(items) <= MAX_LINES /\ Len(items) \in Nat /\ MAX_LINES \in Nat
  BY DEF GoodCart, CartConstants
<1>2. Kept(items, at) \in Seq(CartLines) /\ Len(Kept(items, at)) <= Len(items)
  BY <1>1, KeptKeeps
<1>3. Len(Kept(items, at)) <= MAX_LINES
  <2>1. Len(Kept(items, at)) \in Nat  BY <1>2
  <2>2. QED  BY <1>1, <1>2, <2>1
<1>4. OneLineEach(Kept(items, at))  BY <1>1, KeptApart DEF GoodCart, OneLineEach
<1>5. QED  BY <1>2, <1>3, <1>4 DEF GoodCart

(* Changing lines where they stand, each keeping its key.                      *)
LEMMA ChangedGood ==
  ASSUME NEW items, GoodCart(items), NEW s, s = [i \in DOMAIN items |-> s[i]],
         \A i \in DOMAIN items : s[i] \in CartLines /\ s[i].key = items[i].key
  PROVE  GoodCart(s)
<1>1. items \in Seq(CartLines) /\ DOMAIN items = 1 .. Len(items) /\ Len(items) \in Nat  BY DEF GoodCart
<1>2. s \in Seq(CartLines) /\ Len(s) = Len(items)  BY <1>1
<1>3. OneLineEach(s)  BY DEF OneLineEach, GoodCart
<1>4. QED  BY <1>2, <1>3 DEF GoodCart

LEMMA IndexFinds ==
  ASSUME NEW items, NEW key, key \in KeysIn(items)
  PROVE  IndexOf(items, key) \in DOMAIN items /\ items[IndexOf(items, key)].key = key
BY DEF IndexOf, KeysIn

LEMMA MergedGood ==
  ASSUME CartConstants, NEW items, GoodCart(items), NEW key \in KeysIn(items), NEW q \in Int
  PROVE  /\ GoodCart([items EXCEPT ![IndexOf(items, key)] = Merge(@, q)])
         /\ DOMAIN [items EXCEPT ![IndexOf(items, key)] = Merge(@, q)] = DOMAIN items
         /\ Len([items EXCEPT ![IndexOf(items, key)] = Merge(@, q)]) = Len(items)
<1>1. items \in Seq(CartLines) /\ DOMAIN items = 1 .. Len(items) /\ Len(items) \in Nat  BY DEF GoodCart
<1> DEFINE at == IndexOf(items, key)  new(i) == IF i = at THEN Merge(items[i], q) ELSE items[i]
           s == [items EXCEPT ![at] = Merge(@, q)]
<1>2. at \in DOMAIN items  BY IndexFinds
<1>3. ASSUME NEW i \in DOMAIN items PROVE new(i) \in CartLines /\ new(i).key = items[i].key
  <2>0. items[i] \in CartLines  BY <1>1, <1>3
  <2>1. items[i] \in CartLines /\ items[i].qty + q \in Int
    <3>1. items[i].qty \in Int  BY <2>0 DEF CartLines, CartConstants
    <3>2. QED  BY <2>0, <3>1
  <2>2. Merge(items[i], q) \in CartLines /\ Merge(items[i], q).key = items[i].key
    BY <2>1, Clamped DEF Merge, CartLines
  <2>3. QED  BY <2>1, <2>2
<1>4. s = [i \in DOMAIN items |-> new(i)]  BY <1>1
<1> HIDE DEF new, s
<1>6. DOMAIN s = DOMAIN items /\ s = [i \in DOMAIN items |-> s[i]] /\ \A i \in DOMAIN items : s[i] = new(i)
  BY <1>4
<1>5. GoodCart(s)  BY <1>3, <1>6, ChangedGood
<1>7. s \in Seq(CartLines)  BY <1>5 DEF GoodCart
<1>8. Len(s) = Len(items)  BY <1>1, <1>6, <1>7
<1>9. QED  BY <1>5, <1>6, <1>8 DEF s

LEMMA AddGood ==
  ASSUME CartConstants, NEW items, GoodCart(items), NEW key \in Keys, NEW q \in Int, NEW on \in BOOLEAN
  PROVE  GoodCart(addItem(items, [key |-> key, qty |-> q, on |-> on]))
<1> DEFINE line == [key |-> key, qty |-> q, on |-> on]  new == [line EXCEPT !.qty = clampQuantity(@)]
<1>1. items \in Seq(CartLines) /\ DOMAIN items = 1 .. Len(items) /\ Len(items) \in Nat /\ MAX_LINES \in Nat
  BY DEF GoodCart, CartConstants
<1>2. CASE key \in KeysIn(items)  BY <1>2, MergedGood DEF addItem
<1>3. CASE key \notin KeysIn(items) /\ Len(items) >= MAX_LINES  BY <1>3 DEF addItem
<1>4. CASE key \notin KeysIn(items) /\ ~(Len(items) >= MAX_LINES)
  <2>1. new \in CartLines /\ new.key = key  BY Clamped DEF CartLines
  <2>2. addItem(items, line) = Append(items, new)  BY <1>4 DEF addItem
  <2> HIDE DEF new
  <2>3. /\ Append(items, new) \in Seq(CartLines) /\ Len(Append(items, new)) = Len(items) + 1
        /\ DOMAIN Append(items, new) = 1 .. (Len(items) + 1)
        /\ Append(items, new)[Len(items) + 1] = new
        /\ \A i \in 1 .. Len(items) : Append(items, new)[i] = items[i]
    BY <1>1, <2>1
  <2>4. \A i \in 1 .. Len(items) : items[i].key # key  BY <1>1, <1>4 DEF KeysIn
  <2>5. OneLineEach(Append(items, new))
    <3> SUFFICES ASSUME NEW i \in 1 .. (Len(items) + 1), NEW j \in 1 .. (Len(items) + 1),
                        Append(items, new)[i].key = Append(items, new)[j].key
                 PROVE  i = j
      BY <2>3 DEF OneLineEach
    <3>1. CASE i = Len(items) + 1  BY <1>1, <2>1, <2>3, <2>4, <3>1
    <3>2. CASE j = Len(items) + 1  BY <1>1, <2>1, <2>3, <2>4, <3>2
    <3>3. CASE i \in 1 .. Len(items) /\ j \in 1 .. Len(items)  BY <1>1, <2>3, <3>3 DEF GoodCart, OneLineEach
    <3>4. QED  BY <1>1, <3>1, <3>2, <3>3
  <2>6. Len(Append(items, new)) <= MAX_LINES  BY <1>1, <1>4, <2>3
  <2>7. QED  BY <2>2, <2>3, <2>5, <2>6 DEF GoodCart
<1>5. QED  BY <1>2, <1>3, <1>4

LEMMA ReplaceGood ==
  ASSUME CartConstants, NEW items, GoodCart(items), NEW oldKey, NEW key \in Keys, NEW q \in Int, NEW on
  PROVE  /\ GoodCart(replaceItem(items, oldKey, [key |-> key, qty |-> q, on |-> on]))
         /\ Len(replaceItem(items, oldKey, [key |-> key, qty |-> q, on |-> on])) <= Len(items)
         /\ oldKey \notin KeysIn(items) =>
              replaceItem(items, oldKey, [key |-> key, qty |-> q, on |-> on]) = items
<1> DEFINE line == [key |-> key, qty |-> q, on |-> on]  at == IndexOf(items, oldKey)
           result == replaceItem(items, oldKey, line)
<1>1. items \in Seq(CartLines) /\ DOMAIN items = 1 .. Len(items) /\ Len(items) \in Nat  BY DEF GoodCart
<1>2. CASE oldKey \notin KeysIn(items)
  <2>1. result = items  BY <1>2 DEF replaceItem
  <2>2. QED  BY <1>1, <1>2, <2>1
<1>3. CASE oldKey \in KeysIn(items) /\ key # oldKey /\ key \in KeysIn(items)
  <2> DEFINE merged == [items EXCEPT ![IndexOf(items, key)] = Merge(@, q)]
  <2>1. GoodCart(merged) /\ DOMAIN merged = DOMAIN items /\ Len(merged) = Len(items)  BY <1>3, MergedGood
  <2>2. result = Kept(merged, DOMAIN items \ {at})  BY <1>3 DEF replaceItem
  <2> HIDE DEF merged
  <2>3. GoodCart(result)  BY <2>1, <2>2, KeptGood
  <2>4. merged \in Seq(CartLines)  BY <2>1 DEF GoodCart
  <2>5. Len(result) <= Len(items)  BY <2>1, <2>2, <2>4, KeptKeeps
  <2>6. QED  BY <1>3, <2>3, <2>5
<1>4. CASE oldKey \in KeysIn(items) /\ (key = oldKey \/ key \notin KeysIn(items))
  <2> DEFINE new == [line EXCEPT !.qty = clampQuantity(@), !.on = items[at].on]
             s == [items EXCEPT ![at] = new]
  <2>1. at \in DOMAIN items /\ items[at].key = oldKey /\ items[at] \in CartLines
    BY <1>1, <1>4, IndexFinds
  <2>2. new \in CartLines /\ new.key = key  BY <2>1, Clamped DEF CartLines
  <2>3. result = s  BY <1>4 DEF replaceItem
  <2> HIDE DEF new
  <2>4. s \in Seq(CartLines) /\ DOMAIN s = DOMAIN items /\ Len(s) = Len(items)  BY <1>1, <2>1, <2>2
  <2>5. s[at] = new /\ \A i \in DOMAIN items : i # at => s[i] = items[i]  BY <1>1, <2>1
  <2>6. \A i \in DOMAIN items : i # at => items[i].key # key
    BY <1>4, <2>1 DEF KeysIn, GoodCart, OneLineEach
  <2> HIDE DEF s, at
  <2>7. OneLineEach(s)
    <3> SUFFICES ASSUME NEW i \in DOMAIN items, NEW j \in DOMAIN items, s[i].key = s[j].key PROVE i = j
      BY <2>4 DEF OneLineEach
    <3>1. CASE i = at  BY <2>2, <2>5, <2>6, <3>1
    <3>2. CASE j = at  BY <2>2, <2>5, <2>6, <3>2
    <3>3. CASE i # at /\ j # at  BY <2>5, <3>3 DEF GoodCart, OneLineEach
    <3>4. QED  BY <3>1, <3>2, <3>3
  <2>8. GoodCart(s) /\ Len(s) <= Len(items)  BY <1>1, <2>4, <2>7 DEF GoodCart
  <2>9. QED  BY <1>4, <2>3, <2>8
<1>5. QED  BY <1>2, <1>3, <1>4

LEMMA RemoveGood ==
  ASSUME CartConstants, NEW items, GoodCart(items), NEW key
  PROVE  GoodCart(removeItem(items, key)) /\ GoodCart(clearSelected(items))
BY KeptGood DEF removeItem, clearSelected

LEMMA SelectGood ==
  ASSUME NEW items, GoodCart(items), NEW key, NEW on \in BOOLEAN
  PROVE  GoodCart(setItemSelected(items, key, on)) /\ GoodCart(setAllSelected(items, on))
<1>1. items \in Seq(CartLines) /\ DOMAIN items = 1 .. Len(items)  BY DEF GoodCart
<1> DEFINE one(i) == IF items[i].key = key THEN [items[i] EXCEPT !.on = on] ELSE items[i]
           all(i) == [items[i] EXCEPT !.on = on]
<1>2. ASSUME NEW i \in DOMAIN items
      PROVE  /\ all(i) \in CartLines /\ all(i).key = items[i].key
             /\ one(i) \in CartLines /\ one(i).key = items[i].key
  <2>1. items[i] \in CartLines  BY <1>1, <1>2
  <2>2. all(i) \in CartLines /\ all(i).key = items[i].key  BY <2>1 DEF CartLines
  <2>3. QED  BY <2>1, <2>2
<1>3. setItemSelected(items, key, on) = [i \in DOMAIN items |-> one(i)]  BY DEF setItemSelected
<1>4. setAllSelected(items, on) = [i \in DOMAIN items |-> all(i)]  BY DEF setAllSelected
<1> HIDE DEF one, all
<1>5. \A s : s = [i \in DOMAIN items |-> one(i)] => GoodCart(s)  BY <1>2, ChangedGood
<1>6. \A s : s = [i \in DOMAIN items |-> all(i)] => GoodCart(s)  BY <1>2, ChangedGood
<1>7. QED  BY <1>3, <1>4, <1>5, <1>6

LEMMA QuantityGood ==
  ASSUME CartConstants, NEW items, GoodCart(items), NEW key, NEW q \in Int
  PROVE  GoodCart(setItemQuantity(items, key, q))
<1>1. items \in Seq(CartLines) /\ DOMAIN items = 1 .. Len(items)  BY DEF GoodCart
<1>2. CASE q <= 0  BY <1>2, RemoveGood DEF setItemQuantity
<1>3. CASE ~(q <= 0)
  <2> DEFINE one(i) == IF items[i].key = key THEN [items[i] EXCEPT !.qty = clampQuantity(q)] ELSE items[i]
  <2>1. ASSUME NEW i \in DOMAIN items PROVE one(i) \in CartLines /\ one(i).key = items[i].key
    <3>1. items[i] \in CartLines  BY <1>1, <2>1
    <3>2. QED  BY <3>1, Clamped DEF CartLines
  <2>2. setItemQuantity(items, key, q) = [i \in DOMAIN items |-> one(i)]  BY <1>3 DEF setItemQuantity
  <2> HIDE DEF one
  <2>3. \A s : s = [i \in DOMAIN items |-> one(i)] => GoodCart(s)  BY <2>1, ChangedGood
  <2>4. QED  BY <2>2, <2>3
<1>4. QED  BY <1>2, <1>3

(* A cart of an earlier visit is read as one of today's.                      *)
LEMMA OldGood ==
  ASSUME CartConstants, NEW raw \in OldCarts
  PROVE  GoodCart(sanitizeCart(raw))
<1> DEFINE at == {i \in DOMAIN raw : raw[i].key # Unset}  good == Kept(raw, at)
           line(n) == [key |-> good[n].key, qty |-> clampQuantity(good[n].qty), on |-> good[n].on # FALSE]
           s == [n \in DOMAIN good |-> line(n)]
<1>1. /\ raw \in Seq(OldLines) /\ Cardinality(at) <= MAX_LINES /\ MAX_LINES \in Nat /\ Len(raw) \in Nat
      /\ DOMAIN raw = 1 .. Len(raw)
  BY DEF CartConstants
<1>0. at \in SUBSET DOMAIN raw /\ \A i \in at : raw[i].key # Unset  OBVIOUS
<1>3. \A i, j \in at : raw[i].key = raw[j].key => i = j  BY DEF CartConstants
<1>12. sanitizeCart(raw) = s  BY DEF sanitizeCart
<1> HIDE DEF at
<1>2. /\ good \in Seq(OldLines) /\ Len(good) = Cardinality(at)
      /\ \A n \in DOMAIN good : \E i \in at : Rank(at, i) = n /\ good[n] = raw[i]
  BY <1>0, <1>1, KeptKeeps
<1>4. \A n, m \in DOMAIN good : good[n].key = good[m].key => n = m  BY <1>0, <1>1, <1>3, KeptApart
<1>6. ASSUME NEW n \in DOMAIN good PROVE line(n) \in CartLines
  <2>1. PICK i \in at : good[n] = raw[i]  BY <1>2
  <2>2. raw[i] \in OldLines /\ raw[i].key # Unset  BY <1>0, <1>1
  <2>4. good[n] \in OldLines /\ good[n].key \in Keys  BY <2>1, <2>2 DEF OldLines
  <2> HIDE DEF good
  <2>3. QED  BY <2>4, Clamped DEF OldLines, CartLines
<1> HIDE DEF good
<1>7. DOMAIN good = 1 .. Len(good) /\ Len(good) \in Nat  BY <1>2
<1> HIDE DEF line
<1>8. s \in Seq(CartLines) /\ Len(s) = Len(good)  BY <1>6, <1>7
<1>9. OneLineEach(s)  BY <1>4 DEF OneLineEach, line
<1>10. Len(s) <= MAX_LINES  BY <1>1, <1>2, <1>7, <1>8
<1>11. QED  BY <1>12, <1>8, <1>9, <1>10 DEF GoodCart

(* What a quote prices: on the cart page the selected lines of the cart it was  *)
(* asked for, at the checkout the lines it was asked for.                    *)
IsQuote(q) == q = [status |-> q.status, of |-> q.of, lines |-> q.lines]
PricesItsOwn(q, at) ==
  q.status # "idle" =>
    /\ at = "cart" => q.lines = cartQuoteItems(selectedItems(q.of))
    /\ at = "checkout" => q.lines = cartQuoteItems(q.of.lines)

CartInv ==
  /\ GoodCart(cart)
  /\ seen \in [Tabs -> Seq(CartLines)]
  /\ page = [t \in Tabs |-> page[t]] /\ quote = [t \in Tabs |-> quote[t]]
  /\ \A t \in Tabs : IsQuote(quote[t]) /\ PricesItsOwn(quote[t], page[t])

(* A form as the checkout keeps it, its ward one of its province.               *)
IsForm(f) ==
  /\ f = [mounted |-> f.mounted, config |-> f.config, contact |-> f.contact, province |-> f.province,
          ward |-> f.ward, ack |-> f.ack, echo |-> f.echo, proof |-> f.proof, receipt |-> f.receipt,
          uploads |-> f.uploads, picked |-> f.picked, latch |-> f.latch, submitting |-> f.submitting,
          placed |-> f.placed]
  /\ f.uploads \subseteq Nat /\ f.picked \in Nat
  /\ f.ward # Unset => f.ward \in WardsOf(f.province)
  /\ f.proof = "done" => f.receipt \in Nat

(* Calls under way, oldest first, each as its page showed it.                   *)
IsQueue(q) == q \in Seq({q[i] : i \in DOMAIN q})
IsPost(p) == p = [input |-> p.input, live |-> p.live, shown |-> p.shown] /\ AsShown(p)
OneLive(q, f) ==
  \A i \in DOMAIN q : q[i].live => (\A j \in DOMAIN q : q[j].live => i = j) /\ f.latch /\ ~f.placed

CheckoutInv ==
  /\ co = [t \in Tabs |-> co[t]] /\ posts = [t \in Tabs |-> posts[t]]
  /\ \A t \in Tabs :
       /\ IsForm(co[t]) /\ IsQueue(posts[t]) /\ OneLive(posts[t], co[t])
       /\ \A i \in DOMAIN posts[t] : IsPost(posts[t][i])
  /\ OrderAsShown

ShopInv == CartInv /\ CheckoutInv

LEMMA ShopInvInit ==
  ASSUME CartConstants, CartInit, CheckoutInit
  PROVE  ShopInv
<1>1. GoodCart(cart)
  <2>1. cart = <<>> /\ MAX_LINES \in Nat  BY DEF CartInit, CartConstants
  <2>2. cart \in Seq(CartLines) /\ Len(cart) = 0 /\ DOMAIN cart = {}  BY <2>1
  <2>3. QED  BY <2>1, <2>2 DEF GoodCart, OneLineEach
<1>2. seen \in [Tabs -> Seq(CartLines)]  BY DEF CartInit
<1>3. CartInv  BY <1>1, <1>2 DEF CartInit, CartInv, Idle, IsQuote, PricesItsOwn
<1>4. IsForm(Unmounted)  BY DEF Unmounted, IsForm
<1>5. IsQueue(<<>>) /\ DOMAIN <<>> = {}  BY DEF IsQueue
<1>6. CheckoutInv  BY <1>4, <1>5 DEF CheckoutInit, CheckoutInv, OneLive, OrderAsShown
<1>7. QED  BY <1>3, <1>6 DEF ShopInv

-----------------------------------------------------------------------------
(* The cart and the quotes.                                                *)
LEMMA StoreKeeps ==
  ASSUME CartInv, NEW t \in Tabs, GoodCart(cart'), seen' = [seen EXCEPT ![t] = cart'],
         UNCHANGED <<page, quote>>
  PROVE  CartInv'
<1>1. cart' \in Seq(CartLines)  BY DEF GoodCart
<1>2. seen' \in [Tabs -> Seq(CartLines)]  BY <1>1 DEF CartInv
<1>3. QED  BY <1>2 DEF CartInv

LEMMA QuoteKeeps ==
  ASSUME CartInv, NEW t \in Tabs, NEW q, IsQuote(q), PricesItsOwn(q, page[t]),
         quote' = [quote EXCEPT ![t] = q], UNCHANGED <<cart, page, seen>>
  PROVE  CartInv'
<1>1. quote' = [u \in Tabs |-> quote'[u]] /\ \A u \in Tabs : quote'[u] = IF u = t THEN q ELSE quote[u]
  BY DEF CartInv
<1>2. QED  BY <1>1 DEF CartInv

LEMMA MoveKeepsCart ==
  ASSUME CartInv, NEW t \in Tabs, NEW to, GoTo(t, to)
  PROVE  CartInv'
<1>1. /\ quote' = [u \in Tabs |-> quote'[u]] /\ \A u \in Tabs : quote'[u] = IF u = t THEN Idle ELSE quote[u]
      /\ page' = [u \in Tabs |-> page'[u]] /\ \A u \in Tabs : page'[u] = IF u = t THEN to ELSE page[u]
  BY DEF CartInv, GoTo
<1>2. IsQuote(Idle) /\ PricesItsOwn(Idle, to)  BY DEF Idle, IsQuote, PricesItsOwn
<1>3. QED  BY <1>1, <1>2 DEF CartInv, GoTo

(* The three ways a quote changes, for whatever the page prices.                *)
LEMMA StartedRight ==
  ASSUME CartInv, NEW t \in Tabs, NEW shape, NEW items, StartQuote(t, shape, items),
         page[t] = "cart" => items = selectedItems(shape), page[t] = "checkout" => items = shape.lines,
         UNCHANGED <<cart, page, seen>>
  PROVE  CartInv'
<1>1. PICK q : q = [status |-> IF items = <<>> THEN "idle" ELSE "loading",
                    of |-> shape, lines |-> cartQuoteItems(items)]
  OBVIOUS
<1>2. IsQuote(q) /\ PricesItsOwn(q, page[t])  BY <1>1 DEF IsQuote, PricesItsOwn
<1>3. quote' = [quote EXCEPT ![t] = q]  BY <1>1 DEF StartQuote
<1>4. QED  BY <1>2, <1>3, QuoteKeeps

LEMMA RestatedRight ==
  ASSUME CartInv, NEW t \in Tabs, NEW status, quote' = [quote EXCEPT ![t].status = status],
         quote[t].status # "idle", UNCHANGED <<cart, page, seen>>
  PROVE  CartInv'
<1>1. PICK q : q = [quote[t] EXCEPT !.status = status]  OBVIOUS
<1>2. IsQuote(quote[t]) /\ PricesItsOwn(quote[t], page[t])  BY DEF CartInv
<1>3. q = [status |-> status, of |-> quote[t].of, lines |-> quote[t].lines]  BY <1>1, <1>2 DEF IsQuote
<1>4. IsQuote(q) /\ PricesItsOwn(q, page[t])  BY <1>2, <1>3 DEF IsQuote, PricesItsOwn
<1>5. quote' = [quote EXCEPT ![t] = q]  BY <1>1 DEF CartInv
<1>6. QED  BY <1>4, <1>5, QuoteKeeps

LEMMA CartStepKeeps ==
  ASSUME CartConstants, CartInv, NEW t \in Tabs, CartStep(t)
  PROVE  CartInv'
<1>1. GoodCart(cart) /\ seen[t] \in Seq(CartLines)  BY DEF CartInv
<1>2. CASE HearStorage(t)  BY <1>1, <1>2, StoreKeeps DEF HearStorage
<1>3. ASSUME NEW raw \in OldCarts, VisitShop(t, raw) PROVE CartInv'
  <2>1. GoodCart(cart')  BY <1>1, <1>3, OldGood DEF VisitShop
  <2>2. cart' \in Seq(CartLines)  BY <2>1 DEF GoodCart
  <2>3. seen' \in [Tabs -> Seq(CartLines)]  BY <1>3, <2>2 DEF VisitShop, CartInv
  <2>4. page' = [u \in Tabs |-> page'[u]] /\ \A u \in Tabs : page'[u] = IF u = t THEN "shop" ELSE page[u]
    BY <1>3 DEF VisitShop, CartInv
  <2>5. \A u \in Tabs : PricesItsOwn(quote[u], page'[u])  BY <2>4 DEF CartInv, PricesItsOwn
  <2>6. quote' = quote  BY <1>3 DEF VisitShop
  <2>7. QED  BY <2>1, <2>3, <2>4, <2>5, <2>6 DEF CartInv
<1>4. ASSUME NEW key \in Keys, NEW q \in 1 .. MAX_QUANTITY, AddFromProductPage(t, key, q) PROVE CartInv'
  <2>1. q \in Int  BY DEF CartConstants
  <2>2. GoodCart(cart')  BY <1>1, <1>4, <2>1, AddGood DEF AddFromProductPage, Store
  <2>3. QED  BY <1>4, <2>2, StoreKeeps DEF AddFromProductPage, Store
<1>5. ASSUME NEW key \in Keys, NEW q \in 1 .. MAX_QUANTITY, SaveDialog(t, key, q) PROVE CartInv'
  <2>1. q \in Int  BY DEF CartConstants
  <2>2. GoodCart(cart')  BY <1>1, <1>5, <2>1, ReplaceGood DEF SaveDialog, Store
  <2>3. QED  BY <1>5, <2>2, StoreKeeps DEF SaveDialog, Store
<1>6. ASSUME NEW i, NEW step \in {-1, 1}, ChangeQuantity(t, i, step) PROVE CartInv'
  <2>1. seen[t][i] \in CartLines  BY <1>1, <1>6 DEF ChangeQuantity, OnLine
  <2>2. seen[t][i].qty + step \in Int  BY <1>6 DEF ChangeQuantity
  <2>3. GoodCart(cart')  BY <1>1, <1>6, <2>2, QuantityGood DEF ChangeQuantity, Store
  <2>4. QED  BY <1>6, <2>3, StoreKeeps DEF ChangeQuantity, Store
<1>7. ASSUME NEW i, SelectLine(t, i) PROVE CartInv'
  <2>1. GoodCart(cart')  BY <1>1, <1>7, SelectGood DEF SelectLine, Store
  <2>2. QED  BY <1>7, <2>1, StoreKeeps DEF SelectLine, Store
<1>8. CASE SelectAll(t)
  <2>1. GoodCart(cart')  BY <1>1, <1>8, SelectGood DEF SelectAll, Store
  <2>2. QED  BY <1>8, <2>1, StoreKeeps DEF SelectAll, Store
<1>9. CASE RemoveGone(t)
  <2>1. GoodCart(cart')  BY <1>1, <1>9, RemoveGood DEF RemoveGone, Store
  <2>2. QED  BY <1>9, <2>1, StoreKeeps DEF RemoveGone, Store
<1>10. CASE QuoteCart(t)
  <2>1. page[t] = "cart" /\ UNCHANGED <<cart, page, seen>>  BY <1>10 DEF QuoteCart
  <2>2. CASE StartQuote(t, CartShape(t), selectedItems(seen[t]))
    BY <2>1, <2>2, StartedRight DEF CartShape, cartSignature
  <2>3. ASSUME NEW status, AnswerQuote(t, status) PROVE CartInv'
    BY <2>1, <2>3, RestatedRight DEF AnswerQuote
  <2>4. CASE RetryQuote(t, CartShape(t))  BY <2>1, <2>4, RestatedRight DEF RetryQuote
  <2>5. QED  BY <1>10, <2>2, <2>3, <2>4 DEF QuoteCart
<1>11. CASE UNCHANGED <<cart, page, seen, quote>>  BY <1>11 DEF CartInv
<1>12. ASSUME NEW i, OpenDialog(t, i) PROVE UNCHANGED <<cart, page, seen, quote>>  BY <1>12 DEF OpenDialog
<1>13. ASSUME NEW phase, ProductFetched(t, phase) PROVE UNCHANGED <<cart, page, seen, quote>>
  BY <1>13 DEF ProductFetched
<1>14. RetryFetch(t) \/ CloseDialog(t) => UNCHANGED <<cart, page, seen, quote>>  BY DEF RetryFetch, CloseDialog
<1>15. QED
  BY <1>2, <1>3, <1>4, <1>5, <1>6, <1>7, <1>8, <1>9, <1>10, <1>11, <1>12, <1>13, <1>14 DEF CartStep

(* The queue of calls.                                                      *)
LEMMA QueueAppends ==
  ASSUME NEW q, IsQueue(q), NEW x
  PROVE  /\ IsQueue(Append(q, x)) /\ DOMAIN Append(q, x) = 1 .. (Len(q) + 1) /\ Len(q) \in Nat
         /\ DOMAIN q = 1 .. Len(q)
         /\ Append(q, x)[Len(q) + 1] = x /\ \A i \in DOMAIN q : Append(q, x)[i] = q[i]
<1> DEFINE X == {q[i] : i \in DOMAIN q}  a == Append(q, x)
<1>1. q \in Seq(X \cup {x}) /\ Len(q) \in Nat /\ DOMAIN q = 1 .. Len(q)  BY DEF IsQueue
<1>2. /\ a \in Seq(X \cup {x}) /\ Len(a) = Len(q) + 1 /\ a[Len(q) + 1] = x
      /\ \A i \in 1 .. Len(q) : a[i] = q[i]
  BY <1>1
<1>3. DOMAIN a = 1 .. (Len(q) + 1)  BY <1>1, <1>2
<1> HIDE DEF a
<1>4. a \in Seq({a[i] : i \in DOMAIN a})  BY <1>2, <1>3
<1>5. QED  BY <1>1, <1>2, <1>3, <1>4 DEF a, IsQueue

LEMMA QueueServes ==
  ASSUME NEW q, IsQueue(q), q # <<>>
  PROVE  /\ IsQueue(Tail(q)) /\ Head(q) = q[1] /\ 1 \in DOMAIN q
         /\ \A i \in DOMAIN Tail(q) : i + 1 \in DOMAIN q /\ i + 1 # 1 /\ i \in Nat /\ Tail(q)[i] = q[i + 1]
<1> DEFINE X == {q[i] : i \in DOMAIN q}  a == Tail(q)
<1>1. q \in Seq(X) /\ Len(q) \in Nat /\ DOMAIN q = 1 .. Len(q) /\ Len(q) # 0  BY DEF IsQueue
<1>2. a \in Seq(X) /\ Len(a) = Len(q) - 1 /\ \A i \in 1 .. Len(a) : a[i] = q[i + 1]  BY <1>1
<1>3. DOMAIN a = 1 .. Len(a) /\ Len(a) \in Nat  BY <1>2
<1>6. Head(q) = q[1] /\ 1 \in DOMAIN q  BY <1>1
<1> HIDE DEF a, X
<1>4. a \in Seq({a[i] : i \in DOMAIN a})  BY <1>2, <1>3
<1>7. \A i \in DOMAIN a : i + 1 \in DOMAIN q /\ i + 1 # 1 /\ i \in Nat /\ a[i] = q[i + 1]
  BY <1>1, <1>2, <1>3
<1>5. QED  BY <1>4, <1>6, <1>7 DEF a, IsQueue

LEMMA QueueFades ==
  ASSUME NEW q, IsQueue(q), NEW r, r = [i \in DOMAIN q |-> [q[i] EXCEPT !.live = FALSE]]
  PROVE  IsQueue(r)
<1>1. Len(q) \in Nat /\ DOMAIN q = 1 .. Len(q)  BY DEF IsQueue
<1>2. DOMAIN r = 1 .. Len(q) /\ r = [i \in 1 .. Len(q) |-> r[i]]  BY <1>1
<1> DEFINE Y == {r[i] : i \in DOMAIN r}
<1>3. \A i \in 1 .. Len(q) : r[i] \in Y  BY <1>2
<1> HIDE DEF Y
<1>4. r \in Seq(Y)  BY <1>1, <1>2, <1>3
<1>5. QED  BY <1>4 DEF IsQueue, Y

(* A change of one tab's form and calls.                                     *)
LEMMA TabKeeps ==
  ASSUME CheckoutInv, NEW t \in Tabs, NEW f, NEW q, IsForm(f), IsQueue(q), OneLive(q, f),
         \A i \in DOMAIN q : IsPost(q[i]),
         co' = [co EXCEPT ![t] = f], posts' = [posts EXCEPT ![t] = q], OrderAsShown'
  PROVE  CheckoutInv'
<1>1. /\ co' = [u \in Tabs |-> co'[u]] /\ \A u \in Tabs : co'[u] = IF u = t THEN f ELSE co[u]
      /\ posts' = [u \in Tabs |-> posts'[u]] /\ \A u \in Tabs : posts'[u] = IF u = t THEN q ELSE posts[u]
  BY DEF CheckoutInv
<1>2. QED  BY <1>1 DEF CheckoutInv

LEMMA SameOrder ==
  ASSUME CheckoutInv, order' = order
  PROVE  OrderAsShown'
BY DEF CheckoutInv, OrderAsShown

(* The form alone changes, not the latch and not what was placed.              *)
LEMMA FormKeeps ==
  ASSUME CheckoutInv, NEW t \in Tabs, NEW f, IsForm(f), f.latch = co[t].latch, f.placed = co[t].placed,
         co' = [co EXCEPT ![t] = f], UNCHANGED <<posts, order>>
  PROVE  CheckoutInv'
<1>1. posts' = [posts EXCEPT ![t] = posts[t]]  BY DEF CheckoutInv
<1>2. OneLive(posts[t], f)  BY DEF CheckoutInv, OneLive
<1>3. OrderAsShown'  BY SameOrder
<1>4. QED  BY <1>1, <1>2, <1>3, TabKeeps DEF CheckoutInv

LEMMA FormStepKeeps ==
  ASSUME CartConstants, CheckoutInv, NEW t \in Tabs, UNCHANGED <<posts, order>>,
         \/ RefreshConfig(t) \/ FillContact(t) \/ TickAck(t) \/ PickFile(t) \/ Paint(t)
         \/ \E p \in Provinces : PickProvince(t, p)
         \/ \E w \in Wards : PickWard(t, w)
         \/ \E file \in 1 .. MaxUploads, stored \in BOOLEAN : UploadEnds(t, file, stored)
  PROVE  CheckoutInv'
<1> DEFINE c == co[t]
<1>1. IsForm(c) /\ co = [u \in Tabs |-> co[u]]  BY DEF CheckoutInv
<1>2. CASE RefreshConfig(t)
  <2>1. PICK f : f = [c EXCEPT !.config = "ok"]  OBVIOUS
  <2>2. IsForm(f) /\ f.latch = c.latch /\ f.placed = c.placed  BY <1>1, <2>1 DEF IsForm
  <2>3. co' = [co EXCEPT ![t] = f]  BY <1>1, <1>2, <2>1 DEF RefreshConfig
  <2>4. QED  BY <2>2, <2>3, FormKeeps
<1>3. CASE FillContact(t)
  <2>1. PICK f : f = [c EXCEPT !.contact = ~@]  OBVIOUS
  <2>2. IsForm(f) /\ f.latch = c.latch /\ f.placed = c.placed  BY <1>1, <2>1 DEF IsForm
  <2>3. QED  BY <1>3, <2>1, <2>2, FormKeeps DEF FillContact, SetCheckout
<1>4. CASE TickAck(t)
  <2>1. PICK f : f \in {[c EXCEPT !.ack = ~@], [c EXCEPT !.echo = ~@]} /\ co' = [co EXCEPT ![t] = f]
    BY <1>4 DEF TickAck, SetCheckout
  <2>2. IsForm(f) /\ f.latch = c.latch /\ f.placed = c.placed  BY <1>1, <2>1 DEF IsForm
  <2>3. QED  BY <2>1, <2>2, FormKeeps
<1>5. CASE PickFile(t)
  <2>1. PICK f : /\ f \in {[c EXCEPT !.proof = "error", !.picked = @ + 1],
                           [c EXCEPT !.proof = "uploading", !.picked = @ + 1, !.uploads = @ \cup {c.picked + 1}]}
                 /\ co' = [co EXCEPT ![t] = f]
    BY <1>1, <1>5 DEF PickFile
  <2>2. c.picked + 1 \in Nat /\ c.uploads \cup {c.picked + 1} \subseteq Nat  BY <1>1 DEF IsForm
  <2>3. IsForm(f) /\ f.latch = c.latch /\ f.placed = c.placed
    <3>1. CASE f = [c EXCEPT !.proof = "error", !.picked = @ + 1]  BY <1>1, <2>2, <3>1 DEF IsForm
    <3>2. CASE f = [c EXCEPT !.proof = "uploading", !.picked = @ + 1, !.uploads = @ \cup {c.picked + 1}]
      BY <1>1, <2>2, <3>2 DEF IsForm
    <3>3. QED  BY <2>1, <3>1, <3>2
  <2>4. QED  BY <2>1, <2>3, FormKeeps
<1>6. CASE Paint(t)
  <2>1. PICK f : f = [c EXCEPT !.submitting = TRUE]  OBVIOUS
  <2>2. IsForm(f) /\ f.latch = c.latch /\ f.placed = c.placed  BY <1>1, <2>1 DEF IsForm
  <2>3. co' = [co EXCEPT ![t] = f]  BY <1>1, <1>6, <2>1 DEF Paint
  <2>4. QED  BY <2>2, <2>3, FormKeeps
<1>7. ASSUME NEW p \in Provinces, PickProvince(t, p) PROVE CheckoutInv'
  <2>1. PICK f : f = [c EXCEPT !.province = p, !.ward = Unset]  OBVIOUS
  <2>2. IsForm(f) /\ f.latch = c.latch /\ f.placed = c.placed  BY <1>1, <2>1 DEF IsForm
  <2>3. QED  BY <1>7, <2>1, <2>2, FormKeeps DEF PickProvince, SetCheckout
<1>8. ASSUME NEW w \in Wards, PickWard(t, w) PROVE CheckoutInv'
  <2>1. PICK f : f = [c EXCEPT !.ward = w]  OBVIOUS
  <2>2. w \in WardsOf(c.province)  BY <1>8 DEF PickWard
  <2>3. IsForm(f) /\ f.latch = c.latch /\ f.placed = c.placed  BY <1>1, <2>1, <2>2 DEF IsForm
  <2>4. QED  BY <1>8, <2>1, <2>3, FormKeeps DEF PickWard, SetCheckout
<1>9. ASSUME NEW file \in 1 .. MaxUploads, NEW stored \in BOOLEAN, UploadEnds(t, file, stored)
      PROVE  CheckoutInv'
  <2>1. PICK f : f = [c EXCEPT !.uploads = @ \ {file}, !.proof = IF stored THEN "done" ELSE "error",
                               !.receipt = IF stored THEN file ELSE Unset]
    OBVIOUS
  <2>2. file \in Nat  BY <1>1, <1>9 DEF UploadEnds, IsForm
  <2>3. IsForm(f) /\ f.latch = c.latch /\ f.placed = c.placed  BY <1>1, <2>1, <2>2 DEF IsForm
  <2>4. co' = [co EXCEPT ![t] = f]  BY <1>1, <1>9, <2>1 DEF UploadEnds
  <2>5. QED  BY <2>3, <2>4, FormKeeps
<1>10. QED  BY <1>2, <1>3, <1>4, <1>5, <1>6, <1>7, <1>8, <1>9

(* A page left: its calls go on and reach nobody.                              *)
LEMMA NavigateKeeps ==
  ASSUME CheckoutInv, NEW t \in Tabs, NEW to, Navigate(t, to)
  PROVE  CheckoutInv'
<1>1. PICK config : co' = [co EXCEPT ![t] = [Unmounted EXCEPT !.mounted = to = "checkout", !.config = config]]
  BY DEF Navigate
<1>2. PICK f : f = [Unmounted EXCEPT !.mounted = to = "checkout", !.config = config]  OBVIOUS
<1>3. PICK r : r = [i \in DOMAIN posts[t] |-> [posts[t][i] EXCEPT !.live = FALSE]]  OBVIOUS
<1>4. posts' = [posts EXCEPT ![t] = r]  BY <1>3 DEF Navigate, Fade, CheckoutInv
<1>5. IsForm(f)  BY <1>2 DEF Unmounted, IsForm
<1>6. IsQueue(r)  BY <1>3, QueueFades DEF CheckoutInv
<1>7. ASSUME NEW i \in DOMAIN r PROVE IsPost(r[i]) /\ r[i].live = FALSE
  <2>1. IsPost(posts[t][i]) /\ r[i] = [posts[t][i] EXCEPT !.live = FALSE]  BY <1>3 DEF CheckoutInv
  <2>2. /\ r[i] = [input |-> posts[t][i].input, live |-> FALSE, shown |-> posts[t][i].shown]
        /\ AsShown(posts[t][i])
    BY <2>1 DEF IsPost
  <2>3. QED  BY <2>2 DEF IsPost, AsShown
<1>8. OneLive(r, f)  BY <1>7 DEF OneLive
<1>9. OrderAsShown'  BY SameOrder DEF Navigate
<1>10. QED  BY <1>1, <1>2, <1>4, <1>5, <1>6, <1>7, <1>8, <1>9, TabKeeps

(* Submitted is what is on the screen, and what is on the screen is priced.      *)
LEMMA SubmitShows ==
  ASSUME CartConstants, ShopInv, NEW t \in Tabs, Submit(t)
  PROVE  AsShown([input |-> buildWebOrderInput(t), live |-> TRUE, shown |-> quote[t]])
<1> DEFINE input == buildWebOrderInput(t)  shown == quote[t]
<1>1. /\ input.lines = cartQuoteItems(Items(t)) /\ input.province = co[t].province /\ input.ward = co[t].ward
      /\ input.proof = co[t].receipt
      /\ input.acks = (engravedLines(Items(t)) # {} /\ co[t].ack /\ co[t].echo)
  BY DEF buildWebOrderInput
<1> HIDE DEF input
<1>2. /\ page[t] = "checkout" /\ Items(t) # <<>> /\ shown.status = "ok"
      /\ shown.of = CheckoutShape(t)
      /\ personalizationAckMet(Items(t), co[t].ack, co[t].echo)
      /\ co[t].proof = "done" /\ validateCheckoutForm(co[t]) = {}
  BY DEF Submit, Screen, HasTotal, Settled
<1>3. shown.of.lines = Items(t) /\ shown.of.province = co[t].province /\ shown.of.ward = co[t].ward
  BY <1>2 DEF CheckoutShape, cartSignature
<1>4. shown.lines = cartQuoteItems(Items(t))
  BY <1>2, <1>3 DEF ShopInv, CartInv, PricesItsOwn
<1>5. input.ward \in WardsOf(input.province)
  <2>1. co[t].ward # Unset  BY <1>2 DEF validateCheckoutForm, Fields
  <2>2. QED  BY <1>1, <2>1 DEF ShopInv, CheckoutInv, IsForm
<1>6. input.proof # Unset  BY <1>1, <1>2 DEF ShopInv, CheckoutInv, IsForm, CartConstants
<1>7. input.lines # <<>>
  <2>1. DOMAIN Items(t) = 1 .. Cardinality({i \in DOMAIN seen[t] : seen[t][i].on})
    BY DEF Items, selectedItems, Kept
  <2>2. seen[t] \in Seq(CartLines)  BY DEF ShopInv, CartInv
  <2>3. Items(t) \in Seq(CartLines)  BY <2>2, KeptKeeps DEF Items, selectedItems
  <2>4. 1 \in DOMAIN Items(t)  BY <1>2, <2>3
  <2>5. 1 \in DOMAIN input.lines  BY <1>1, <2>4 DEF cartQuoteItems
  <2>6. QED  BY <2>5
<1>8. ASSUME NEW n \in DOMAIN input.lines, input.lines[n][1] \in Engraved PROVE input.acks
  <2>1. n \in DOMAIN Items(t) /\ input.lines[n] = <<Items(t)[n].key, Items(t)[n].qty>>
    BY <1>1 DEF cartQuoteItems
  <2>2. Items(t)[n].key \in engravedLines(Items(t))  BY <1>8, <2>1 DEF engravedLines
  <2>3. QED  BY <1>1, <1>2, <2>2 DEF personalizationAckMet
<1>9. QED  BY <1>1, <1>2, <1>3, <1>4, <1>5, <1>6, <1>7, <1>8 DEF AsShown, input

LEMMA SubmitKeepsShop ==
  ASSUME CartConstants, ShopInv, NEW t \in Tabs, Submit(t)
  PROVE  CheckoutInv'
<1>1. PICK p : p = [input |-> buildWebOrderInput(t), live |-> TRUE, shown |-> quote[t]]  OBVIOUS
<1>2. IsPost(p)  BY <1>1, SubmitShows DEF IsPost
<1>3. PICK f : f = [co[t] EXCEPT !.latch = TRUE]  OBVIOUS
<1>4. PICK q : q = Append(posts[t], p)  OBVIOUS
<1>5. /\ IsForm(co[t]) /\ IsQueue(posts[t]) /\ OneLive(posts[t], co[t])
      /\ \A i \in DOMAIN posts[t] : IsPost(posts[t][i])
  BY DEF ShopInv, CheckoutInv
<1>6. IsForm(f) /\ f.latch = TRUE /\ f.placed = co[t].placed  BY <1>3, <1>5 DEF IsForm
<1>7. ~co[t].latch /\ ~co[t].placed  BY DEF Submit, Screen
<1>8. \A i \in DOMAIN posts[t] : ~posts[t][i].live  BY <1>5, <1>7 DEF OneLive
<1>9. /\ IsQueue(q) /\ DOMAIN q = 1 .. (Len(posts[t]) + 1) /\ Len(posts[t]) \in Nat
      /\ DOMAIN posts[t] = 1 .. Len(posts[t])
      /\ q[Len(posts[t]) + 1] = p /\ \A i \in DOMAIN posts[t] : q[i] = posts[t][i]
  BY <1>4, <1>5, QueueAppends
<1>10. \A i \in DOMAIN q : IsPost(q[i]) /\ (i # Len(posts[t]) + 1 => ~q[i].live)
  BY <1>2, <1>5, <1>8, <1>9
<1>11. OneLive(q, f)  BY <1>6, <1>7, <1>10 DEF OneLive
<1>12. co' = [co EXCEPT ![t] = f] /\ posts' = [posts EXCEPT ![t] = q] /\ order' = order
  BY <1>1, <1>3, <1>4 DEF Submit, ShopInv, CheckoutInv
<1>13. OrderAsShown'  BY <1>12, SameOrder DEF ShopInv
<1>14. QED  BY <1>6, <1>9, <1>10, <1>11, <1>12, <1>13, TabKeeps DEF ShopInv

(* The oldest call ends: its page, if it is still there, stops waiting.         *)
LEMMA EndKeeps ==
  ASSUME CheckoutInv, NEW t \in Tabs, posts[t] # <<>>, NEW placed \in BOOLEAN,
         posts' = [posts EXCEPT ![t] = Tail(@)], order' = order \/ order' = Head(posts[t]),
         Heard(t, Head(posts[t]).live,
               IF placed THEN [co[t] EXCEPT !.placed = TRUE, !.submitting = FALSE]
               ELSE [co[t] EXCEPT !.latch = FALSE, !.submitting = FALSE])
  PROVE  CheckoutInv'
<1> DEFINE p == Head(posts[t])  q == Tail(posts[t])
           g == IF placed THEN [co[t] EXCEPT !.placed = TRUE, !.submitting = FALSE]
                ELSE [co[t] EXCEPT !.latch = FALSE, !.submitting = FALSE]
           f == IF p.live THEN g ELSE co[t]
<1>1. /\ IsForm(co[t]) /\ IsQueue(posts[t]) /\ OneLive(posts[t], co[t])
      /\ \A i \in DOMAIN posts[t] : IsPost(posts[t][i])
  BY DEF CheckoutInv
<1>2. /\ IsQueue(q) /\ p = posts[t][1] /\ 1 \in DOMAIN posts[t]
      /\ \A i \in DOMAIN q : i + 1 \in DOMAIN posts[t] /\ i + 1 # 1 /\ i \in Nat /\ q[i] = posts[t][i + 1]
  BY <1>1, QueueServes
<1>3. co' = [co EXCEPT ![t] = f]  BY DEF Heard, CheckoutInv
<1>4. IsForm(f)  BY <1>1 DEF IsForm
<1>5. OrderAsShown'
  <2>1. IsPost(p)  BY <1>1, <1>2
  <2>2. CASE order' = order  BY <2>2, SameOrder
  <2>3. CASE order' = p  BY <2>1, <2>3 DEF IsPost, OrderAsShown, AsShown
  <2>4. QED  BY <2>2, <2>3
<1> HIDE DEF p, q
<1>6. \A i \in DOMAIN q : IsPost(q[i])  BY <1>1, <1>2
<1>7. CASE p.live
  <2>1. \A i \in DOMAIN q : ~q[i].live  BY <1>1, <1>2, <1>7 DEF OneLive
  <2>2. OneLive(q, f)  BY <2>1 DEF OneLive
  <2>3. QED  BY <1>2, <1>3, <1>4, <1>5, <1>6, <2>2, TabKeeps DEF q
<1>8. CASE ~p.live
  <2>1. f = co[t]  BY <1>8
  <2> HIDE DEF f
  <2>2. OneLive(q, f)
    <3>1. SUFFICES ASSUME NEW i \in DOMAIN q, q[i].live
                   PROVE  (\A j \in DOMAIN q : q[j].live => i = j) /\ f.latch /\ ~f.placed
      BY DEF OneLive
    <3>2. i + 1 \in DOMAIN posts[t] /\ posts[t][i + 1].live /\ i \in Nat  BY <1>2, <3>1
    <3>3. f.latch /\ ~f.placed /\ \A j \in DOMAIN posts[t] : posts[t][j].live => i + 1 = j
      BY <1>1, <2>1, <3>2 DEF OneLive
    <3>4. ASSUME NEW j \in DOMAIN q, q[j].live PROVE i = j
      <4>1. i + 1 = j + 1 /\ j \in Nat  BY <1>2, <3>3, <3>4
      <4>2. QED  BY <3>2, <4>1
    <3>5. QED  BY <3>3, <3>4
  <2>3. QED  BY <1>2, <1>3, <1>4, <1>5, <1>6, <2>2, TabKeeps DEF q
<1>9. QED  BY <1>7, <1>8

(* The answer clears the selected lines, wherever the shopper is by then.        *)
LEMMA PlacedKeepsCart ==
  ASSUME CartConstants, CartInv, NEW t \in Tabs, OrderPlaced(t)
  PROVE  CartInv'
<1>1. GoodCart(cart')  BY RemoveGood DEF OrderPlaced, CartInv
<1>2. QED  BY <1>1, StoreKeeps DEF OrderPlaced

LEMMA CheckoutStepKeeps ==
  ASSUME CartConstants, ShopInv, NEW t \in Tabs, CheckoutStep(t)
  PROVE  ShopInv'
<1>0. CartInv /\ CheckoutInv  BY DEF ShopInv
<1>1. ASSUME NEW to, Navigate(t, to) PROVE ShopInv'
  BY <1>0, <1>1, NavigateKeeps, MoveKeepsCart DEF Navigate, ShopInv
<1>2. ASSUME \/ RefreshConfig(t) \/ FillContact(t) \/ TickAck(t) \/ PickFile(t) \/ Paint(t)
             \/ \E p \in Provinces : PickProvince(t, p)
             \/ \E w \in Wards : PickWard(t, w)
             \/ \E file \in 1 .. MaxUploads, stored \in BOOLEAN : UploadEnds(t, file, stored)
      PROVE  ShopInv'
  <2>1. UNCHANGED <<cartVars, posts, order>>
    BY <1>2 DEF RefreshConfig, FillContact, TickAck, PickFile, Paint, PickProvince, PickWard, UploadEnds,
                SetCheckout
  <2>2. CartInv'  BY <1>0, <2>1 DEF CartInv, cartVars
  <2>3. CheckoutInv'  BY <1>0, <1>2, <2>1, FormStepKeeps
  <2>4. QED  BY <2>2, <2>3 DEF ShopInv
<1>3. CASE QuoteCheckout(t)
  <2>1. page[t] = "checkout" /\ UNCHANGED <<cart, page, seen, checkoutVars>>  BY <1>3 DEF QuoteCheckout
  <2>2. CheckoutInv'  BY <1>0, <2>1 DEF CheckoutInv, OrderAsShown, checkoutVars
  <2>3. ASSUME StartQuote(t, CheckoutShape(t), Items(t)) PROVE CartInv'
    BY <1>0, <2>1, <2>3, StartedRight DEF CheckoutShape, cartSignature
  <2>4. ASSUME NEW status, AnswerQuote(t, status) PROVE CartInv'
    BY <1>0, <2>1, <2>4, RestatedRight DEF AnswerQuote
  <2>5. ASSUME RetryQuote(t, CheckoutShape(t)) PROVE CartInv'
    BY <1>0, <2>1, <2>5, RestatedRight DEF RetryQuote
  <2>6. QED  BY <1>3, <2>2, <2>3, <2>4, <2>5 DEF QuoteCheckout, ShopInv
<1>4. CASE Submit(t)
  <2>1. CartInv'  BY <1>0, <1>4 DEF Submit, CartInv, cartVars
  <2>2. QED  BY <1>4, <2>1, SubmitKeepsShop DEF ShopInv
<1>5. CASE OrderPlaced(t)
  <2>1. CheckoutInv'
    <3>1. TRUE \in BOOLEAN  OBVIOUS
    <3>2. QED  BY <1>0, <1>5, <3>1, EndKeeps DEF OrderPlaced
  <2>2. QED  BY <1>0, <1>5, <2>1, PlacedKeepsCart DEF ShopInv
<1>6. ASSUME NEW stored \in BOOLEAN, OrderFailed(t, stored) PROVE ShopInv'
  <2>1. CheckoutInv'
    <3>1. FALSE \in BOOLEAN  OBVIOUS
    <3>2. QED  BY <1>0, <1>6, <3>1, EndKeeps DEF OrderFailed
  <2>2. CartInv'  BY <1>0, <1>6 DEF OrderFailed, CartInv, cartVars
  <2>3. QED  BY <2>1, <2>2 DEF ShopInv
<1>7. QED  BY <1>1, <1>2, <1>3, <1>4, <1>5, <1>6 DEF CheckoutStep

LEMMA ShopInvHolds == ShopSpec => []ShopInv
<1> SUFFICES ASSUME CartConstants PROVE ShopSpec => []ShopInv  BY CartAssumption
<1>1. CartInit /\ CheckoutInit => ShopInv  BY ShopInvInit
<1>2. ShopInv /\ [ShopNext]_shopVars => ShopInv'
  <2> SUFFICES ASSUME ShopInv, [ShopNext]_shopVars PROVE ShopInv'  OBVIOUS
  <2>1. ASSUME NEW t \in Tabs, CartStep(t), UNCHANGED checkoutVars PROVE ShopInv'
    <3>1. CartInv'  BY <2>1, CartStepKeeps DEF ShopInv
    <3>2. QED  BY <2>1, <3>1 DEF ShopInv, CheckoutInv, OrderAsShown, checkoutVars
  <2>2. ASSUME NEW t \in Tabs, CheckoutStep(t) PROVE ShopInv'  BY <2>2, CheckoutStepKeeps
  <2>3. CASE UNCHANGED shopVars  BY <2>3 DEF shopVars, ShopInv, CartInv, CheckoutInv, OrderAsShown
  <2>4. QED  BY <2>1, <2>2, <2>3 DEF ShopNext
<1>3. QED  BY <1>1, <1>2, PTL DEF ShopSpec

(* Whatever two tabs add, edit, remove and order, and whichever answers are      *)
(* lost: the cart keeps one line per configuration within the shop's limits, a   *)
(* total stands next to its own line, an order is for what was on the screen when   *)
(* it was submitted, and one mount has one submission under way.                *)
THEOREM CheckoutIsSound == ShopSpec => []CheckoutSound
<1> SUFFICES ASSUME CartConstants PROVE ShopSpec => []CheckoutSound  BY CartAssumption
<1>1. ShopInv => CheckoutSound
  <2> SUFFICES ASSUME ShopInv PROVE CheckoutSound  OBVIOUS
  <2>1. CartWellFormed
    <3>1. GoodCart(cart)  BY DEF ShopInv, CartInv
    <3>2. \A i \in DOMAIN cart : cart[i] \in CartLines  BY <3>1 DEF GoodCart
    <3>3. QED  BY <3>1, <3>2 DEF CartWellFormed, GoodCart, OneLineEach, CartLines
  <2>2. LineTotalsAreTheirOwn
    BY DEF LineTotalsAreTheirOwn, Settled, CartShape, cartSignature, ShopInv, CartInv, PricesItsOwn
  <2>3. OrderAsShown /\ OneSubmissionAtATime  BY DEF ShopInv, CheckoutInv, OneLive, OneSubmissionAtATime
  <2>4. QED  BY <2>1, <2>2, <2>3 DEF CheckoutSound
<1>2. QED  BY <1>1, ShopInvHolds, PTL

(* Saving the edit of a line makes the cart no longer, and is nothing if the line *)
(* was removed in another tab while the dialog was open.                      *)
THEOREM EditsNeverResurrect == ShopSpec => EditNeverResurrects
<1> SUFFICES ASSUME CartConstants PROVE ShopSpec => EditNeverResurrects  BY CartAssumption
<1>1. ASSUME ShopInv PROVE SaveAddsNoLine
  <2> SUFFICES ASSUME NEW t \in Tabs, NEW key \in Keys, NEW q \in 1 .. MAX_QUANTITY, SaveDialog(t, key, q)
               PROVE  Len(cart') <= Len(cart) /\ (edit[t].key \notin KeysIn(cart) => cart' = cart)
    BY DEF SaveAddsNoLine
  <2>1. q \in Int /\ GoodCart(cart)  BY <1>1 DEF CartConstants, ShopInv, CartInv
  <2>2. cart' = replaceItem(cart, edit[t].key, [key |-> key, qty |-> q, on |-> TRUE])
    BY DEF SaveDialog, Store
  <2>3. QED  BY <2>1, <2>2, ReplaceGood
<1>2. ShopInv => [SaveAddsNoLine]_cartVars  BY <1>1
<1>3. QED  BY <1>2, ShopInvHolds, PTL DEF EditNeverResurrects

-----------------------------------------------------------------------------
(* A nonempty set of numbers has a least one.                               *)
LEMMA LeastIndex ==
  ASSUME NEW hits, hits \subseteq Nat, hits # {}
  PROVE  \E i \in hits : \A j \in hits : i <= j
<1>1. PICK i \in hits : \A j \in hits : ~(<<j, i>> \in OpToRel(<, Nat))
  BY NatLessThanWellFounded, WFMin, Zenon
<1>2. i \in Nat /\ \A j \in hits : j \in Nat  OBVIOUS
<1>3. \A j \in hits : ~(j < i)  BY <1>1, <1>2 DEF OpToRel
<1>4. \A j \in hits : i <= j  BY <1>2, <1>3
<1>5. QED  BY <1>4

(* Looking a key up finds the only row that has it.                         *)
LEMMA KeyFinds ==
  ASSUME NEW s, Keyed(s), NEW i \in DOMAIN s
  PROVE  ById(s, s[i].id) = s[i]
<1>1. s[i] \in Each(s) /\ \A x \in Each(s) : x.id = s[i].id => x = s[i]  BY DEF Each, Keyed
<1>2. QED  BY <1>1 DEF ById

(* A product with its keys.                                                  *)
ProductKeyed(p) ==
  /\ DOMAIN p.options \subseteq Nat
  /\ Keyed(p.colors) /\ Keyed(p.options)
  /\ \A i \in DOMAIN p.options : Missing \notin p.options[i].choices

(* The fields of the line a selection becomes.                                 *)
LineColor(p, c) == IF p.parts = <<>> /\ c \in Ids(p.colors) THEN c ELSE Missing
LineParts(p, picked) ==
  {<<q, picked[q]>> : q \in {r \in Ids(p.parts) \cap DOMAIN picked : picked[r] \in Ids(p.colors)}}
LineToggles(p, toggles) == {o.id : o \in {x \in Each(p.options) : Toggle(x) /\ x.id \in toggles}}
LineChoices(p, choices) ==
  {<<o.id, choices[o.id]>> :
     o \in {x \in Each(p.options) : Enumerated(x) /\ At(choices, x.id) \in x.choices}}
Written(p, texts) == {i \in DOMAIN p.options : p.options[i].type = "text" /\ ~TextOf(texts, p.options[i]).blank}
FirstWritten(p, texts) == CHOOSE i \in Written(p, texts) : \A j \in Written(p, texts) : i <= j
LineEngrave(p, texts) ==
  IF Written(p, texts) = {} \/ p.options[FirstWritten(p, texts)] = Missing THEN Missing
  ELSE [optionId |-> p.options[FirstWritten(p, texts)].id, text |-> texts[p.options[FirstWritten(p, texts)].id]]

Selection(c, parts, choices, toggles, texts) ==
  [colorId |-> c, partColors |-> parts, choices |-> choices, toggles |-> toggles, texts |-> texts]

(* buildCartItem, field by field.                                           *)
LEMMA LineOfSelection ==
  ASSUME NEW p, NEW c, NEW parts, NEW choices, NEW toggles, NEW texts
  PROVE  buildCartItem(p, Sent(p, Selection(c, parts, choices, toggles, texts))) =
           [colorId |-> LineColor(p, c), partColors |-> LineParts(p, parts),
            optionIds |-> LineToggles(p, toggles), optionChoices |-> LineChoices(p, choices),
            engrave |-> LineEngrave(p, texts)]
<1> DEFINE flat == IF p.parts # <<>> THEN Missing ELSE c
           s == Selection(flat, parts, choices, toggles, texts)
           text == First(p.options, LAMBDA o : o.type = "text" /\ ~TextOf(texts, o).blank)
<1>1. Sent(p, Selection(c, parts, choices, toggles, texts)) = s  BY DEF Sent, Selection
<1>2. /\ s.colorId = flat /\ s.partColors = parts /\ s.choices = choices /\ s.toggles = toggles
      /\ s.texts = texts
  BY DEF Selection
<1>3. text = IF Written(p, texts) = {} THEN Missing ELSE p.options[FirstWritten(p, texts)]
  BY DEF First, Written, FirstWritten
<1>4. (IF flat \in Ids(p.colors) THEN flat ELSE Missing) = LineColor(p, c)  BY DEF LineColor
<1> HIDE DEF s, flat
<1>5. buildCartItem(p, s) =
        [colorId |-> IF flat \in Ids(p.colors) THEN flat ELSE Missing, partColors |-> LineParts(p, parts),
         optionIds |-> LineToggles(p, toggles), optionChoices |-> LineChoices(p, choices),
         engrave |-> IF text = Missing THEN Missing ELSE [optionId |-> text.id, text |-> texts[text.id]]]
  <2>1. {<<q, s.partColors[q]>> : q \in {r \in Ids(p.parts) \cap DOMAIN s.partColors : s.partColors[r] \in Ids(p.colors)}}
          = LineParts(p, parts)
    BY <1>2 DEF LineParts
  <2>2. {o.id : o \in {x \in Each(p.options) : Toggle(x) /\ x.id \in s.toggles}} = LineToggles(p, toggles)
    BY <1>2 DEF LineToggles
  <2>3. {<<o.id, s.choices[o.id]>> : o \in {x \in Each(p.options) : Enumerated(x) /\ At(s.choices, x.id) \in x.choices}}
          = LineChoices(p, choices)
    BY <1>2 DEF LineChoices
  <2>4. First(p.options, LAMBDA o : o.type = "text" /\ ~TextOf(s.texts, o).blank) = text
    BY <1>2
  <2> HIDE DEF text
  <2>5. QED  BY <1>2, <2>1, <2>2, <2>3, <2>4 DEF buildCartItem
<1> HIDE DEF text
<1>6. (IF text = Missing THEN Missing ELSE [optionId |-> text.id, text |-> texts[text.id]]) = LineEngrave(p, texts)
  BY <1>3 DEF LineEngrave
<1>7. QED  BY <1>1, <1>4, <1>5, <1>6

(* find takes the first text field that is written.                         *)
LEMMA FirstWrittenIs ==
  ASSUME NEW p, ProductKeyed(p), NEW texts, Written(p, texts) # {}
  PROVE  FirstWritten(p, texts) \in Written(p, texts)
<1>1. Written(p, texts) \subseteq Nat  BY DEF Written, ProductKeyed
<1>2. \E i \in Written(p, texts) : \A j \in Written(p, texts) : i <= j  BY <1>1, LeastIndex
<1>3. QED  BY <1>2 DEF FirstWritten

(* A line that carries an engraving carries what that field says.           *)
LEMMA WrittenOn ==
  ASSUME NEW p, ProductKeyed(p), NEW texts, LineEngrave(p, texts) # Missing
  PROVE  \E i \in Written(p, texts) :
           /\ i \in DOMAIN p.options /\ p.options[i].type = "text" /\ p.options[i].id \in DOMAIN texts
           /\ p.options[i] # Missing
           /\ ~texts[p.options[i].id].blank /\ TextOf(texts, p.options[i]) = texts[p.options[i].id]
           /\ LineEngrave(p, texts) = [optionId |-> p.options[i].id, text |-> texts[p.options[i].id]]
<1> DEFINE i == FirstWritten(p, texts)
<1>1. /\ Written(p, texts) # {} /\ p.options[i] # Missing
      /\ LineEngrave(p, texts) = [optionId |-> p.options[i].id, text |-> texts[p.options[i].id]]
  BY DEF LineEngrave
<1>2. i \in Written(p, texts)  BY <1>1, FirstWrittenIs
<1> HIDE DEF i
<1>3. i \in DOMAIN p.options /\ p.options[i].type = "text" /\ ~TextOf(texts, p.options[i]).blank
  BY <1>2 DEF Written
<1>4. p.options[i].id \in DOMAIN texts /\ TextOf(texts, p.options[i]) = texts[p.options[i].id]
  BY <1>3 DEF TextOf, EmptyText
<1>5. QED  BY <1>1, <1>2, <1>3, <1>4

(* A line carries exactly the choices that its options offer.               *)
LEMMA ChosenOf ==
  ASSUME NEW p, ProductKeyed(p), NEW choices
  PROVE  /\ \A oc \in LineChoices(p, choices) : \E i \in DOMAIN p.options :
              /\ Enumerated(p.options[i]) /\ p.options[i].id \in DOMAIN choices
              /\ choices[p.options[i].id] \in p.options[i].choices
              /\ oc = <<p.options[i].id, choices[p.options[i].id]>>
         /\ \A i \in DOMAIN p.options :
              Enumerated(p.options[i]) /\ At(choices, p.options[i].id) \in p.options[i].choices =>
                /\ p.options[i].id \in DOMAIN choices
                /\ <<p.options[i].id, choices[p.options[i].id]>> \in LineChoices(p, choices)
<1>1. \A i \in DOMAIN p.options :
        At(choices, p.options[i].id) \in p.options[i].choices =>
          /\ p.options[i].id \in DOMAIN choices
          /\ choices[p.options[i].id] \in p.options[i].choices
  BY DEF At, ProductKeyed
<1>2. QED  BY <1>1 DEF LineChoices, Each

(* The gate, field by field.                                                *)
LEMMA GateOpens ==
  ASSUME NEW p, NEW c, NEW parts, NEW choices, NEW toggles, NEW texts
  PROVE  canAddConfiguredToCart(p, Selection(c, parts, choices, toggles, texts)) <=>
           /\ IF p.parts # <<>> THEN allPartsSelected(p, parts) ELSE canAddToCart(c, p.colors)
           /\ allChoicesSelected(p.options, choices)
           /\ \A i \in DOMAIN p.options :
                p.options[i].type = "text" =>
                  isEngraveWithinLimit(TextOf(texts, p.options[i]), p.options[i].maxChars)
<1>0. PICK s : s = Selection(c, parts, choices, toggles, texts)  OBVIOUS
<1>1. s.colorId = c /\ s.partColors = parts /\ s.choices = choices /\ s.texts = texts  BY <1>0 DEF Selection
<1>2. canAddConfiguredToCart(p, s) <=>
           /\ IF p.parts # <<>> THEN allPartsSelected(p, s.partColors) ELSE canAddToCart(s.colorId, p.colors)
           /\ allChoicesSelected(p.options, s.choices)
           /\ \A i \in DOMAIN p.options :
                p.options[i].type = "text" =>
                  isEngraveWithinLimit(TextOf(s.texts, p.options[i]), p.options[i].maxChars)
  BY DEF canAddConfiguredToCart, ColorOk
<1>3. QED  BY <1>0, <1>1, <1>2, Zenon

(* The server accepts the parts, the colour, the extras, the choices and the      *)
(* engraving of a line the gate let through.                                  *)
LEMMA PartsPriced ==
  ASSUME NEW p, ProductKeyed(p), NEW parts, allPartsSelected(p, parts)
  PROVE  pricePartColors(p, LineParts(p, parts))
<1> DEFINE pairs == LineParts(p, parts)
<1>1. \A q \in Ids(p.parts) : q \in DOMAIN parts /\ \E i \in DOMAIN p.colors :
        /\ p.colors[i].id = parts[q] /\ p.colors[i].part = q /\ p.colors[i].available
  BY DEF allPartsSelected
<1>2. \A q \in Ids(p.parts) : parts[q] \in Ids(p.colors)  BY <1>1 DEF Ids
<1>3. pairs = {<<q, parts[q]>> : q \in Ids(p.parts)}  BY <1>1, <1>2 DEF LineParts
<1>4. \A q \in Ids(p.parts) : Cardinality({pc \in pairs : pc[1] = q}) = 1
  <2> TAKE q \in Ids(p.parts)
  <2>1. {pc \in pairs : pc[1] = q} = {<<q, parts[q]>>}  BY <1>3
  <2>2. QED  BY <2>1, FS_Singleton
<1>5. \A pc \in pairs : /\ pc[1] \in Ids(p.parts) /\ pc[2] \in Ids(p.colors)
                        /\ ById(p.colors, pc[2]).part = pc[1] /\ ById(p.colors, pc[2]).available
  <2> TAKE pc \in pairs
  <2>1. PICK q \in Ids(p.parts) : pc = <<q, parts[q]>>  BY <1>3
  <2>2. PICK i \in DOMAIN p.colors : /\ p.colors[i].id = parts[q] /\ p.colors[i].part = q
                                     /\ p.colors[i].available
    BY <1>1
  <2>3. ById(p.colors, parts[q]) = p.colors[i]  BY <2>2, KeyFinds DEF ProductKeyed
  <2>4. QED  BY <1>2, <2>1, <2>2, <2>3
<1>6. QED  BY <1>4, <1>5 DEF pricePartColors

(* The same of the colour of a product without parts.                       *)
LEMMA ColorPriced ==
  ASSUME NEW p, ProductKeyed(p), p.parts = <<>>, NEW c, canAddToCart(c, p.colors),
         LineColor(p, c) # Missing
  PROVE  LineColor(p, c) \in Ids(p.colors) /\ ById(p.colors, LineColor(p, c)).available
<1>1. LineColor(p, c) = c /\ c \in Ids(p.colors)  BY DEF LineColor
<1>2. PICK i \in DOMAIN p.colors : p.colors[i].id = c  BY <1>1 DEF Ids
<1>3. p.colors # <<>>  BY <1>2
<1>4. PICK k \in DOMAIN p.colors : p.colors[k].id = c /\ p.colors[k].available  BY <1>3 DEF canAddToCart
<1>5. ById(p.colors, c) = p.colors[k]  BY <1>4, KeyFinds DEF ProductKeyed
<1>6. QED  BY <1>1, <1>4, <1>5

(* A product without parts sends none.                                      *)
LEMMA NoPartsNoPairs ==
  ASSUME NEW p, p.parts = <<>>, NEW parts PROVE LineParts(p, parts) = {}
<1>1. Ids(p.parts) = {}  BY DEF Ids
<1>2. QED  BY <1>1 DEF LineParts

(* The ids of toggles and of the engraving that go on the wire together.          *)
LEMMA WireOf ==
  ASSUME NEW p, ProductKeyed(p), NEW toggles, NEW texts,
         NEW id \in LineToggles(p, toggles) \cup
               IF LineEngrave(p, texts) = Missing THEN {} ELSE {LineEngrave(p, texts).optionId}
  PROVE  \E i \in DOMAIN p.options : p.options[i].id = id /\ ~Enumerated(p.options[i])
<1>1. CASE id \in LineToggles(p, toggles)
  <2>1. PICK i \in DOMAIN p.options : p.options[i].id = id /\ Toggle(p.options[i])
    BY <1>1 DEF LineToggles, Each
  <2>2. QED  BY <2>1 DEF Toggle, Enumerated
<1>2. CASE LineEngrave(p, texts) # Missing /\ id = LineEngrave(p, texts).optionId
  <2>1. PICK i \in DOMAIN p.options :
          /\ p.options[i].type = "text"
          /\ LineEngrave(p, texts) = [optionId |-> p.options[i].id, text |-> texts[p.options[i].id]]
    BY <1>2, WrittenOn
  <2>2. p.options[i].id = id  BY <1>2, <2>1
  <2>3. QED  BY <2>1, <2>2 DEF Enumerated
<1>3. QED  BY <1>1, <1>2

(* So the server accepts a line with these fields.                          *)
LEMMA ItemPriced ==
  ASSUME NEW p, ProductKeyed(p), NEW c, NEW parts, NEW choices, NEW toggles, NEW texts,
         IF p.parts # <<>> THEN allPartsSelected(p, parts) ELSE canAddToCart(c, p.colors),
         \A i \in DOMAIN p.options :
           p.options[i].type = "text" =>
             isEngraveWithinLimit(TextOf(texts, p.options[i]), p.options[i].maxChars),
         NEW item, item.colorId = LineColor(p, c), item.partColors = LineParts(p, parts),
         item.optionIds = LineToggles(p, toggles), item.optionChoices = LineChoices(p, choices),
         item.engrave = LineEngrave(p, texts)
  PROVE  PriceItemAccepts(p, item)
<1> DEFINE wire == item.optionIds \cup (IF item.engrave = Missing THEN {} ELSE {item.engrave.optionId})
<1>1. IF p.parts # <<>>
        THEN item.colorId = Missing /\ pricePartColors(p, item.partColors)
        ELSE /\ item.partColors = {}
             /\ item.colorId # Missing =>
                  /\ item.colorId \in Ids(p.colors)
                  /\ ById(p.colors, item.colorId).available
  <2>1. CASE p.parts # <<>>
    <3>1. item.colorId = Missing  BY <2>1 DEF LineColor
    <3>2. QED  BY <2>1, <3>1, PartsPriced
  <2>2. CASE p.parts = <<>>
    BY <2>2, ColorPriced, NoPartsNoPairs
  <2>3. QED  BY <2>1, <2>2
<1>2. \A id \in wire : \E i \in DOMAIN p.options : p.options[i].id = id /\ ~Enumerated(p.options[i])
  BY WireOf
<1> HIDE DEF wire
<1>3. \A id \in wire : id \in Ids(p.options) /\ ~Enumerated(ById(p.options, id))
  <2> TAKE id \in wire
  <2>1. PICK i \in DOMAIN p.options : p.options[i].id = id /\ ~Enumerated(p.options[i])  BY <1>2
  <2>2. ById(p.options, id) = p.options[i]  BY <2>1, KeyFinds DEF ProductKeyed
  <2>3. QED  BY <2>1, <2>2 DEF Ids
<1>4. \A oc \in item.optionChoices :
        /\ oc[1] \in Ids(p.options) \ wire
        /\ oc[2] \in ById(p.options, oc[1]).choices
  <2> TAKE oc \in item.optionChoices
  <2>1. PICK i \in DOMAIN p.options :
          /\ Enumerated(p.options[i]) /\ choices[p.options[i].id] \in p.options[i].choices
          /\ oc = <<p.options[i].id, choices[p.options[i].id]>>
    BY ChosenOf
  <2>2. ById(p.options, oc[1]) = p.options[i]  BY <2>1, KeyFinds DEF ProductKeyed
  <2>3. oc[1] \notin wire  BY <1>3, <2>1, <2>2
  <2>4. QED  BY <2>1, <2>2, <2>3 DEF Ids
<1>5. validateEngrave(p, item)
  <2> SUFFICES ASSUME item.engrave # Missing
               PROVE  LET o == ById(p.options, item.engrave.optionId)
                      IN o.maxChars # Missing => item.engrave.text.length <= o.maxChars
    BY DEF validateEngrave
  <2>1. PICK i \in DOMAIN p.options :
          /\ p.options[i].type = "text" /\ ~texts[p.options[i].id].blank
          /\ TextOf(texts, p.options[i]) = texts[p.options[i].id]
          /\ item.engrave = [optionId |-> p.options[i].id, text |-> texts[p.options[i].id]]
    BY WrittenOn
  <2>2. ById(p.options, item.engrave.optionId) = p.options[i]
    BY <2>1, KeyFinds DEF ProductKeyed
  <2>3. isEngraveWithinLimit(texts[p.options[i].id], p.options[i].maxChars)  BY <2>1
  <2>4. p.options[i].maxChars # Missing => texts[p.options[i].id].length <= p.options[i].maxChars
    BY <2>1, <2>3 DEF isEngraveWithinLimit
  <2>5. QED  BY <2>1, <2>2, <2>4
<1>6. QED  BY <1>1, <1>3, <1>4, <1>5 DEF PriceItemAccepts, wire

(* A line of a selection the gate lets through is one the server prices.          *)
LEMMA GateAccepts ==
  ASSUME NEW p, ProductKeyed(p), NEW c, NEW parts, NEW choices, NEW toggles, NEW texts,
         canAddConfiguredToCart(p, Selection(c, parts, choices, toggles, texts))
  PROVE  PriceItemAccepts(p, buildCartItem(p, Sent(p, Selection(c, parts, choices, toggles, texts))))
<1>1. PICK item : item = buildCartItem(p, Sent(p, Selection(c, parts, choices, toggles, texts)))  OBVIOUS
<1>2. /\ item.colorId = LineColor(p, c) /\ item.partColors = LineParts(p, parts)
      /\ item.optionIds = LineToggles(p, toggles) /\ item.optionChoices = LineChoices(p, choices)
      /\ item.engrave = LineEngrave(p, texts)
  BY <1>1, LineOfSelection
<1>3. /\ IF p.parts # <<>> THEN allPartsSelected(p, parts) ELSE canAddToCart(c, p.colors)
      /\ \A i \in DOMAIN p.options :
           p.options[i].type = "text" =>
             isEngraveWithinLimit(TextOf(texts, p.options[i]), p.options[i].maxChars)
  BY GateOpens
<1>4. PriceItemAccepts(p, item)  BY <1>2, <1>3, ItemPriced
<1>5. QED  BY <1>1, <1>4

(* The maps an edit reads back from the line.                               *)
SeedPairs(pairs) == [q \in {x[1] : x \in pairs} |-> (CHOOSE x \in pairs : x[1] = q)[2]]
SeedText(e) == IF e = Missing THEN << >> ELSE [o \in {e.optionId} |-> e.text]

(* The selection an edit starts from, field by field.                       *)
LEMMA SeedIs ==
  ASSUME NEW item, NEW c, NEW parts, NEW choices, NEW toggles, NEW e,
         item = [colorId |-> c, partColors |-> parts, optionIds |-> toggles, optionChoices |-> choices,
                 engrave |-> e]
  PROVE  seedFromCartItem(item) = Selection(c, SeedPairs(parts), SeedPairs(choices), toggles, SeedText(e))
<1>1. /\ item.colorId = c /\ item.partColors = parts /\ item.optionIds = toggles
      /\ item.optionChoices = choices /\ item.engrave = e
  OBVIOUS
<1>2. [p \in {pc[1] : pc \in item.partColors} |-> (CHOOSE pc \in item.partColors : pc[1] = p)[2]]
        = SeedPairs(parts)
  BY <1>1 DEF SeedPairs
<1>3. [o \in {oc[1] : oc \in item.optionChoices} |-> (CHOOSE oc \in item.optionChoices : oc[1] = o)[2]]
        = SeedPairs(choices)
  BY <1>1 DEF SeedPairs
<1>4. (IF item.engrave = Missing THEN << >> ELSE [o \in {item.engrave.optionId} |-> item.engrave.text]) = SeedText(e)
  BY <1>1 DEF SeedText
<1>5. QED  BY <1>1, <1>2, <1>3, <1>4 DEF seedFromCartItem, Selection

Pairs(D, f) == {<<q, f[q]>> : q \in D}

(* The pairs of a map read back as the map.                                 *)
LEMMA SeedPairsIs ==
  ASSUME NEW D, NEW f
  PROVE  DOMAIN SeedPairs(Pairs(D, f)) = D /\ \A q \in D : SeedPairs(Pairs(D, f))[q] = f[q]
<1>0. PICK pairs : pairs = Pairs(D, f)  OBVIOUS
<1>1. {x[1] : x \in pairs} = D
  <2>1. \A q \in D : <<q, f[q]>> \in pairs /\ <<q, f[q]>>[1] = q  BY <1>0 DEF Pairs
  <2>2. \A x \in pairs : x[1] \in D  BY <1>0 DEF Pairs
  <2>3. QED  BY <2>1, <2>2
<1>2. \A q \in D : (CHOOSE x \in pairs : x[1] = q) = <<q, f[q]>>  BY <1>0 DEF Pairs
<1>3. DOMAIN SeedPairs(pairs) = D /\ \A q \in D : SeedPairs(pairs)[q] = f[q]
  <2>1. PICK K : K = {x[1] : x \in pairs}  OBVIOUS
  <2> DEFINE v(q) == (CHOOSE x \in pairs : x[1] = q)[2]
  <2>2. SeedPairs(pairs) = [q \in K |-> v(q)]  BY <2>1, Zenon DEF SeedPairs
  <2>3. \A q \in D : v(q) = f[q]
    <3> TAKE q \in D
    <3>1. v(q) = <<q, f[q]>>[2]  BY <1>2, Zenon
    <3>2. QED  BY <3>1
  <2> HIDE DEF v
  <2>4. QED  BY <1>1, <2>1, <2>2, <2>3
<1>4. QED  BY <1>0, <1>3

(* What was picked of the parts, read back from the line, gives the line the same  *)
(* parts and passes the same gate.                                          *)
LEMMA PartsAgain ==
  ASSUME NEW p, NEW parts
  PROVE  /\ LineParts(p, SeedPairs(LineParts(p, parts))) = LineParts(p, parts)
         /\ allPartsSelected(p, parts) => allPartsSelected(p, SeedPairs(LineParts(p, parts)))
<1> DEFINE D == {r \in Ids(p.parts) \cap DOMAIN parts : parts[r] \in Ids(p.colors)}
           again == SeedPairs(LineParts(p, parts))
<1>1. LineParts(p, parts) = {<<q, parts[q]>> : q \in D}  BY DEF LineParts
<1> HIDE DEF D
<1>2. DOMAIN again = D /\ \A q \in D : again[q] = parts[q]
  <2>1. LineParts(p, parts) = Pairs(D, parts)  BY <1>1 DEF Pairs
  <2>2. QED  BY <2>1, SeedPairsIs
<1> HIDE DEF again
<1>3. D = {r \in Ids(p.parts) \cap DOMAIN again : again[r] \in Ids(p.colors)}  BY <1>2 DEF D
<1>4. LineParts(p, again) = {<<q, again[q]>> : q \in D}  BY <1>3 DEF LineParts
<1>5. LineParts(p, again) = LineParts(p, parts)  BY <1>1, <1>2, <1>4
<1>6. allPartsSelected(p, parts) => allPartsSelected(p, again)
  <2> SUFFICES ASSUME allPartsSelected(p, parts), NEW q \in Ids(p.parts)
               PROVE  /\ q \in DOMAIN again
                      /\ \E i \in DOMAIN p.colors :
                           p.colors[i].id = again[q] /\ p.colors[i].part = q /\ p.colors[i].available
    BY DEF allPartsSelected
  <2>1. PICK i \in DOMAIN p.colors :
          /\ q \in DOMAIN parts
          /\ p.colors[i].id = parts[q] /\ p.colors[i].part = q /\ p.colors[i].available
    BY DEF allPartsSelected
  <2>2. q \in D  BY <2>1 DEF D, Ids
  <2>3. QED  BY <1>2, <2>1, <2>2
<1>7. QED  BY <1>5, <1>6 DEF again

(* The same of the colour,                                                  *)
LEMMA ColorAgain ==
  ASSUME NEW p, NEW c
  PROVE  /\ LineColor(p, LineColor(p, c)) = LineColor(p, c)
         /\ p.parts = <<>> /\ canAddToCart(c, p.colors) => canAddToCart(LineColor(p, c), p.colors)
<1>1. LineColor(p, LineColor(p, c)) = LineColor(p, c)  BY DEF LineColor
<1>2. ASSUME p.parts = <<>>, canAddToCart(c, p.colors), p.colors # <<>>
      PROVE  LineColor(p, c) = c
  <2>1. c \in Ids(p.colors)  BY <1>2 DEF canAddToCart, Ids
  <2>2. QED  BY <1>2, <2>1 DEF LineColor
<1>3. QED  BY <1>1, <1>2 DEF canAddToCart

(* of the extras,                                                           *)
LEMMA TogglesAgain ==
  ASSUME NEW p, NEW toggles
  PROVE  LineToggles(p, LineToggles(p, toggles)) = LineToggles(p, toggles)
BY DEF LineToggles

(* of the choices,                                                          *)
LEMMA ChoicesAgain ==
  ASSUME NEW p, ProductKeyed(p), NEW choices
  PROVE  /\ LineChoices(p, SeedPairs(LineChoices(p, choices))) = LineChoices(p, choices)
         /\ allChoicesSelected(p.options, choices) =>
              allChoicesSelected(p.options, SeedPairs(LineChoices(p, choices)))
<1> DEFINE picked == {x \in Each(p.options) : Enumerated(x) /\ At(choices, x.id) \in x.choices}
           D == {x.id : x \in picked}
           again == SeedPairs(LineChoices(p, choices))
<1>1. LineChoices(p, choices) = {<<q, choices[q]>> : q \in D}  BY DEF LineChoices
<1> HIDE DEF D
<1>2. \A o \in Each(p.options) : At(choices, o.id) \in o.choices => o.id \in DOMAIN choices
  BY DEF At, ProductKeyed, Each
<1>3. DOMAIN again = D /\ \A q \in D : again[q] = choices[q]
  <2>1. LineChoices(p, choices) = Pairs(D, choices)  BY <1>1 DEF Pairs
  <2>2. QED  BY <2>1, SeedPairsIs
<1> HIDE DEF again
<1> USE DEF D
<1>4. \A o \in picked : At(again, o.id) = At(choices, o.id)  BY <1>2, <1>3 DEF At
<1>5. \A o \in Each(p.options) : At(again, o.id) \in o.choices => o.id \in D
  BY <1>3 DEF At, ProductKeyed, Each
<1>6. \A o, x \in Each(p.options) : o.id = x.id => o = x  BY DEF ProductKeyed, Keyed, Each
<1>7. {x \in Each(p.options) : Enumerated(x) /\ At(again, x.id) \in x.choices} = picked
  BY <1>4, <1>5, <1>6
<1>8. LineChoices(p, again) = {<<o.id, again[o.id]>> : o \in picked}  BY <1>7 DEF LineChoices
<1>9. LineChoices(p, again) = LineChoices(p, choices)  BY <1>1, <1>3, <1>8
<1>10. ASSUME allChoicesSelected(p.options, choices), NEW i \in DOMAIN p.options, Enumerated(p.options[i])
       PROVE  At(again, p.options[i].id) \in p.options[i].choices
  <2>1. p.options[i] \in picked  BY <1>10 DEF allChoicesSelected, Each
  <2>2. QED  BY <1>4, <2>1
<1>11. QED  BY <1>9, <1>10 DEF again, allChoicesSelected

(* and of the engraving, of which the line keeps the first only.            *)
LEMMA EngraveAgain ==
  ASSUME NEW p, ProductKeyed(p), NEW texts
  PROVE  /\ LineEngrave(p, SeedText(LineEngrave(p, texts))) = LineEngrave(p, texts)
         /\ (\A i \in DOMAIN p.options : p.options[i].type = "text" =>
                isEngraveWithinLimit(TextOf(texts, p.options[i]), p.options[i].maxChars)) =>
             (\A i \in DOMAIN p.options : p.options[i].type = "text" =>
                isEngraveWithinLimit(TextOf(SeedText(LineEngrave(p, texts)), p.options[i]), p.options[i].maxChars))
<1> DEFINE e == LineEngrave(p, texts)  again == SeedText(e)
<1>1. CASE e = Missing
  <2>1. again = << >>  BY <1>1 DEF SeedText
  <2>2. \A i \in DOMAIN p.options : TextOf(again, p.options[i]) = EmptyText  BY <2>1 DEF TextOf
  <2>3. EmptyText.blank  BY DEF EmptyText
  <2>4. Written(p, again) = {}  BY <2>2, <2>3 DEF Written
  <2>5. LineEngrave(p, again) = Missing  BY <2>4 DEF LineEngrave
  <2>6. QED  BY <1>1, <2>2, <2>3, <2>5 DEF isEngraveWithinLimit
<1>2. CASE e # Missing
  <2>1. PICK i \in Written(p, texts) :
           /\ i \in DOMAIN p.options /\ p.options[i].type = "text" /\ p.options[i].id \in DOMAIN texts
           /\ p.options[i] # Missing
           /\ ~texts[p.options[i].id].blank /\ TextOf(texts, p.options[i]) = texts[p.options[i].id]
           /\ e = [optionId |-> p.options[i].id, text |-> texts[p.options[i].id]]
    BY <1>2, WrittenOn
  <2> DEFINE id == p.options[i].id
  <2>2. again = [o \in {id} |-> texts[id]]  BY <1>2, <2>1 DEF SeedText
  <2>3. \A j \in DOMAIN p.options : p.options[j].id = id => j = i  BY <2>1 DEF ProductKeyed, Keyed
  <2>4. TextOf(again, p.options[i]) = texts[id]  BY <2>2 DEF TextOf
  <2>5. \A j \in DOMAIN p.options : j # i => TextOf(again, p.options[j]) = EmptyText
    BY <2>2, <2>3 DEF TextOf
  <2>6. EmptyText.blank  BY DEF EmptyText
  <2>7. Written(p, again) = {i}  BY <2>1, <2>4, <2>5, <2>6 DEF Written
  <2>8. i \in Nat  BY <2>1 DEF ProductKeyed
  <2>9. FirstWritten(p, again) = i  BY <2>7, <2>8 DEF FirstWritten
  <2>10. again[id] = texts[id]  BY <2>2
  <2>11. p.options[i] # Missing  BY <2>1
  <2> HIDE DEF again
  <2>12. LineEngrave(p, again) = e  BY <2>1, <2>7, <2>9, <2>10, <2>11 DEF LineEngrave
  <2>13. QED  BY <2>1, <2>4, <2>5, <2>6, <2>12 DEF isEngraveWithinLimit, again
<1>3. QED  BY <1>1, <1>2

IsSelection(s) ==
  \E c, parts, choices, toggles, texts : s = Selection(c, parts, choices, toggles, texts)

(* The edit of a line starts from a selection that gives the line back.           *)
LEMMA SeedGivesBack ==
  ASSUME NEW p, ProductKeyed(p), NEW s, IsSelection(s), canAddConfiguredToCart(p, s),
         NEW item, item = buildCartItem(p, Sent(p, s))
  PROVE  /\ IsSelection(seedFromCartItem(item)) /\ canAddConfiguredToCart(p, seedFromCartItem(item))
         /\ buildCartItem(p, Sent(p, seedFromCartItem(item))) = item
<1>1. PICK c, parts, choices, toggles, texts : s = Selection(c, parts, choices, toggles, texts)
  BY DEF IsSelection
<1> DEFINE c2 == LineColor(p, c)  parts2 == SeedPairs(LineParts(p, parts))
           choices2 == SeedPairs(LineChoices(p, choices))  toggles2 == LineToggles(p, toggles)
           texts2 == SeedText(LineEngrave(p, texts))
<1>2. item = [colorId |-> LineColor(p, c), partColors |-> LineParts(p, parts),
              optionIds |-> LineToggles(p, toggles), optionChoices |-> LineChoices(p, choices),
              engrave |-> LineEngrave(p, texts)]
  BY <1>1, LineOfSelection
<1>3. seedFromCartItem(item) = Selection(c2, parts2, choices2, toggles2, texts2)  BY <1>2, SeedIs
<1>4. /\ IF p.parts # <<>> THEN allPartsSelected(p, parts) ELSE canAddToCart(c, p.colors)
      /\ allChoicesSelected(p.options, choices)
      /\ \A i \in DOMAIN p.options :
           p.options[i].type = "text" =>
             isEngraveWithinLimit(TextOf(texts, p.options[i]), p.options[i].maxChars)
  BY <1>1, GateOpens
<1>5. /\ IF p.parts # <<>> THEN allPartsSelected(p, parts2) ELSE canAddToCart(c2, p.colors)
      /\ allChoicesSelected(p.options, choices2)
      /\ \A i \in DOMAIN p.options :
           p.options[i].type = "text" =>
             isEngraveWithinLimit(TextOf(texts2, p.options[i]), p.options[i].maxChars)
  BY <1>4, PartsAgain, ColorAgain, ChoicesAgain, EngraveAgain
<1>6. /\ LineColor(p, c2) = LineColor(p, c) /\ LineParts(p, parts2) = LineParts(p, parts)
      /\ LineToggles(p, toggles2) = LineToggles(p, toggles)
      /\ LineChoices(p, choices2) = LineChoices(p, choices)
      /\ LineEngrave(p, texts2) = LineEngrave(p, texts)
  BY PartsAgain, ColorAgain, ChoicesAgain, TogglesAgain, EngraveAgain
<1> HIDE DEF c2, parts2, choices2, toggles2, texts2
<1>7. canAddConfiguredToCart(p, Selection(c2, parts2, choices2, toggles2, texts2))  BY <1>5, GateOpens
<1>8. buildCartItem(p, Sent(p, Selection(c2, parts2, choices2, toggles2, texts2))) =
        [colorId |-> LineColor(p, c2), partColors |-> LineParts(p, parts2),
         optionIds |-> LineToggles(p, toggles2), optionChoices |-> LineChoices(p, choices2),
         engrave |-> LineEngrave(p, texts2)]
  BY LineOfSelection
<1>9. buildCartItem(p, Sent(p, Selection(c2, parts2, choices2, toggles2, texts2))) = item
  BY <1>2, <1>6, <1>8
<1>10. IsSelection(seedFromCartItem(item))  BY <1>3 DEF IsSelection
<1>11. QED  BY <1>3, <1>7, <1>9, <1>10

(* A line in the cart was built by a gate that stood open, of a product that exists. *)
BuiltRight(b) ==
  b # Missing =>
    /\ b.product \in Catalogue
    /\ \E s :
         /\ IsSelection(s) /\ canAddConfiguredToCart(b.product, s)
         /\ b.item = buildCartItem(b.product, Sent(b.product, s))

ConfiguratorInv ==
  /\ DOMAIN cfg = {"mode", "product", "sel", "qty", "touched", "built"}
  /\ cfg.mode # "closed" => cfg.product \in Catalogue /\ IsSelection(cfg.sel)
  /\ BuiltRight(cfg.built)
  /\ cfg.mode = "edit" =>
       cfg.built # Missing /\ (~cfg.touched => cfg.sel = seedFromCartItem(cfg.built.item))

(* What CatalogueAssumption says of one product.                            *)
LEMMA EachProductKeyed ==
  ASSUME NEW p \in Catalogue PROVE ProductKeyed(p)
<1>1. p.options \in Seq(Each(p.options))  BY CatalogueAssumption DEF CatalogueKeyed
<1>2. DOMAIN p.options \subseteq Nat  BY <1>1
<1>3. QED  BY <1>2, CatalogueAssumption DEF CatalogueKeyed, ProductKeyed, Each

(* What the invariant makes of the two promises.                            *)
LEMMA ConfiguratorRight ==
  ASSUME ConfiguratorInv PROVE ConfiguratorSound
<1>1. ASSUME IsOpen, CanAdd PROVE PriceItemAccepts(cfg.product, Line)
  <2>1. ProductKeyed(cfg.product) /\ IsSelection(cfg.sel)
    BY <1>1, EachProductKeyed DEF ConfiguratorInv, IsOpen
  <2>2. PICK c, parts, choices, toggles, texts : cfg.sel = Selection(c, parts, choices, toggles, texts)
    BY <2>1 DEF IsSelection
  <2>3. QED  BY <1>1, <2>1, <2>2, GateAccepts DEF CanAdd, Line
<1>2. ASSUME cfg.mode = "edit", ~cfg.touched, cfg.product = cfg.built.product
      PROVE  CanAdd /\ cartLineKey(Line) = cartLineKey(cfg.built.item)
  <2>1. PICK s : /\ IsSelection(s) /\ canAddConfiguredToCart(cfg.product, s)
                 /\ cfg.built.item = buildCartItem(cfg.product, Sent(cfg.product, s))
    BY <1>2 DEF ConfiguratorInv, BuiltRight
  <2>2. ProductKeyed(cfg.product)  BY <1>2, EachProductKeyed DEF ConfiguratorInv
  <2>3. cfg.sel = seedFromCartItem(cfg.built.item)  BY <1>2 DEF ConfiguratorInv
  <2>4. QED  BY <2>1, <2>2, <2>3, SeedGivesBack DEF CanAdd, Line, cartLineKey
<1>3. QED  BY <1>1, <1>2 DEF ConfiguratorSound, GateMatchesServer, UntouchedEditKeepsLine

(* A picker changes the selection and nothing else.                         *)
LEMMA TouchKeeps ==
  ASSUME ConfiguratorInv, IsOpen, NEW s, IsSelection(s), Touch(s) PROVE ConfiguratorInv'
<1>1. cfg' = [cfg EXCEPT !.sel = s, !.touched = TRUE]  BY DEF Touch
<1>2. /\ DOMAIN cfg' = DOMAIN cfg /\ cfg'.mode = cfg.mode /\ cfg'.product = cfg.product /\ cfg'.sel = s
      /\ cfg'.touched /\ cfg'.built = cfg.built
  BY <1>1 DEF ConfiguratorInv
<1>3. QED  BY <1>2 DEF ConfiguratorInv, IsOpen

(* A selection stays one whatever is picked.                                *)
LEMMA SelectionIs ==
  ASSUME NEW c, NEW parts, NEW choices, NEW toggles, NEW texts
  PROVE  IsSelection(Selection(c, parts, choices, toggles, texts))
BY Zenon DEF IsSelection

LEMMA SelectionTurns ==
  ASSUME NEW s, IsSelection(s), NEW v
  PROVE  /\ IsSelection([s EXCEPT !.colorId = v]) /\ IsSelection([s EXCEPT !.partColors = v])
         /\ IsSelection([s EXCEPT !.choices = v]) /\ IsSelection([s EXCEPT !.toggles = v])
         /\ IsSelection([s EXCEPT !.texts = v])
<1>1. PICK c, parts, choices, toggles, texts : s = Selection(c, parts, choices, toggles, texts)
  BY DEF IsSelection
<1>2. IsSelection([s EXCEPT !.colorId = v])
  <2>1. [s EXCEPT !.colorId = v] = Selection(v, parts, choices, toggles, texts)  BY <1>1 DEF Selection
  <2>2. QED  BY <2>1, SelectionIs
<1>3. IsSelection([s EXCEPT !.partColors = v])
  <2>1. [s EXCEPT !.partColors = v] = Selection(c, v, choices, toggles, texts)  BY <1>1 DEF Selection
  <2>2. QED  BY <2>1, SelectionIs
<1>4. IsSelection([s EXCEPT !.choices = v])
  <2>1. [s EXCEPT !.choices = v] = Selection(c, parts, v, toggles, texts)  BY <1>1 DEF Selection
  <2>2. QED  BY <2>1, SelectionIs
<1>5. IsSelection([s EXCEPT !.toggles = v])
  <2>1. [s EXCEPT !.toggles = v] = Selection(c, parts, choices, v, texts)  BY <1>1 DEF Selection
  <2>2. QED  BY <2>1, SelectionIs
<1>6. IsSelection([s EXCEPT !.texts = v])
  <2>1. [s EXCEPT !.texts = v] = Selection(c, parts, choices, toggles, v)  BY <1>1 DEF Selection
  <2>2. QED  BY <2>1, SelectionIs
<1>7. QED  BY <1>2, <1>3, <1>4, <1>5, <1>6

(* The page opens with a selection.                                         *)
LEMMA FreshIsSelection ==
  ASSUME NEW p PROVE IsSelection(freshSelection(p))
BY Zenon DEF freshSelection, IsSelection, Selection

LEMMA ConfiguratorStarts == ConfiguratorInit => ConfiguratorInv
<1> SUFFICES ASSUME ConfiguratorInit PROVE ConfiguratorInv  OBVIOUS
<1>1. /\ DOMAIN cfg = {"mode", "product", "sel", "qty", "touched", "built"}
      /\ cfg.mode = "closed" /\ cfg.built = Missing
  BY DEF ConfiguratorInit, Closed
<1>2. QED  BY <1>1 DEF ConfiguratorInv, BuiltRight

(* The page that is left keeps the line it built.                               *)
LEMMA ClosedKeeps ==
  ASSUME NEW b, BuiltRight(b), cfg' = [Closed EXCEPT !.built = b] PROVE ConfiguratorInv'
<1>1. /\ DOMAIN cfg' = {"mode", "product", "sel", "qty", "touched", "built"}
      /\ cfg'.mode = "closed" /\ cfg'.built = b
  BY DEF Closed
<1>2. QED  BY <1>1 DEF ConfiguratorInv, BuiltRight

(* The page or dialog that opens shows a product of the catalogue.          *)
LEMMA OpenedKeeps ==
  ASSUME NEW m \in {"page", "edit"}, NEW p \in Catalogue, NEW s, IsSelection(s), NEW q, NEW b, BuiltRight(b),
         m = "edit" => b # Missing /\ s = seedFromCartItem(b.item),
         cfg' = [mode |-> m, product |-> p, sel |-> s, qty |-> q, touched |-> FALSE, built |-> b]
  PROVE  ConfiguratorInv'
<1>1. /\ DOMAIN cfg' = {"mode", "product", "sel", "qty", "touched", "built"}
      /\ cfg'.mode = m /\ cfg'.product = p /\ cfg'.sel = s /\ cfg'.built = b
  OBVIOUS
<1>2. QED  BY <1>1 DEF ConfiguratorInv, BuiltRight

(* Every step keeps the invariant.                                          *)
LEMMA ConfiguratorKeeps ==
  ASSUME ConfiguratorInv, ConfiguratorNext PROVE ConfiguratorInv'
<1>1. ASSUME NEW p \in Catalogue, OpenProductPage(p) PROVE ConfiguratorInv'
  <2>1. cfg' = [mode |-> "page", product |-> p, sel |-> freshSelection(p), qty |-> 1, touched |-> FALSE,
                built |-> cfg.built]
    BY <1>1 DEF OpenProductPage, Closed
  <2>2. QED  BY <2>1, FreshIsSelection, OpenedKeeps DEF ConfiguratorInv
<1>2. ASSUME NEW p \in Catalogue, OpenEditDialog(p) PROVE ConfiguratorInv'
  <2>1. cfg' = [mode |-> "edit", product |-> p, sel |-> seedFromCartItem(cfg.built.item), qty |-> cfg.built.qty,
                touched |-> FALSE, built |-> cfg.built]
    BY <1>2 DEF OpenEditDialog, Closed
  <2>2. cfg.built # Missing /\ BuiltRight(cfg.built)  BY <1>2 DEF OpenEditDialog, ConfiguratorInv
  <2>3. IsSelection(seedFromCartItem(cfg.built.item))
    BY Zenon DEF seedFromCartItem, IsSelection, Selection
  <2>4. QED  BY <2>1, <2>2, <2>3, OpenedKeeps
<1>3. ASSUME IsOpen, NEW s, Touch(s), IsSelection(s) PROVE ConfiguratorInv'  BY <1>3, TouchKeeps
<1>4. IsOpen => IsSelection(cfg.sel)  BY DEF IsOpen, ConfiguratorInv
<1>5. CASE PickPartColor
  <2>1. PICK v : IsOpen /\ Touch([cfg.sel EXCEPT !.partColors = v])
    <3>1. PICK c \in Each(cfg.product.colors) :
            IsOpen /\ Touch([cfg.sel EXCEPT !.partColors = Put(@, c.part, c.id)])
      BY <1>5 DEF PickPartColor
    <3>2. QED  BY <3>1, Zenon
  <2>2. QED  BY <1>3, <1>4, <2>1, SelectionTurns
<1>6. CASE PickColor
  <2>1. PICK v : IsOpen /\ Touch([cfg.sel EXCEPT !.colorId = v])  BY <1>6 DEF PickColor
  <2>2. QED  BY <1>3, <1>4, <2>1, SelectionTurns
<1>7. CASE PickChoice
  <2>1. PICK v : IsOpen /\ Touch([cfg.sel EXCEPT !.choices = v])
    <3>1. PICK o \in Each(cfg.product.options) : \E ch \in o.choices :
            IsOpen /\ Touch([cfg.sel EXCEPT !.choices = Put(@, o.id, ch)])
      BY <1>7 DEF PickChoice
    <3>2. QED  BY <3>1, Zenon
  <2>2. QED  BY <1>3, <1>4, <2>1, SelectionTurns
<1>8. CASE EnterText
  <2>1. PICK v : IsOpen /\ Touch([cfg.sel EXCEPT !.texts = v])
    <3>1. PICK o \in Each(cfg.product.options), text \in Texts :
            IsOpen /\ Touch([cfg.sel EXCEPT !.texts = Put(@, o.id, text)])
      BY <1>8 DEF EnterText
    <3>2. QED  BY <3>1, Zenon
  <2>2. QED  BY <1>3, <1>4, <2>1, SelectionTurns
<1>9. CASE ToggleChoice
  <2>1. PICK v : IsOpen /\ Touch([cfg.sel EXCEPT !.toggles = v])
    <3>1. PICK o \in Each(cfg.product.options) :
            IsOpen /\ Touch([cfg.sel EXCEPT !.toggles = IF o.id \in @ THEN @ \ {o.id} ELSE @ \cup {o.id}])
      BY <1>9 DEF ToggleChoice
    <3>2. QED  BY <3>1, Zenon
  <2>2. QED  BY <1>3, <1>4, <2>1, SelectionTurns
<1>10. CASE StepQuantity
  <2>1. PICK q : cfg' = [cfg EXCEPT !.qty = q]  BY <1>10 DEF StepQuantity
  <2>2. /\ DOMAIN cfg' = DOMAIN cfg /\ cfg'.mode = cfg.mode /\ cfg'.product = cfg.product
        /\ cfg'.sel = cfg.sel /\ cfg'.touched = cfg.touched /\ cfg'.built = cfg.built
    BY <2>1 DEF ConfiguratorInv
  <2>3. QED  BY <2>2 DEF ConfiguratorInv
<1>11. CASE AddToCart \/ SaveEdit
  <2>1. /\ cfg' = [Closed EXCEPT !.built = Built] /\ CanAdd /\ cfg.mode # "closed"
    BY <1>11 DEF AddToCart, SaveEdit
  <2>2. cfg.product \in Catalogue /\ IsSelection(cfg.sel)  BY <2>1 DEF ConfiguratorInv
  <2>3. /\ Built.product = cfg.product
        /\ Built.item = buildCartItem(cfg.product, Sent(cfg.product, cfg.sel))
    BY DEF Built, Line
  <2>4. BuiltRight(Built)  BY <2>1, <2>2, <2>3 DEF BuiltRight, CanAdd
  <2>5. QED  BY <2>1, <2>4, ClosedKeeps
<1>12. CASE CloseConfigurator
  <2>1. cfg' = [Closed EXCEPT !.built = cfg.built] /\ BuiltRight(cfg.built)
    BY <1>12 DEF CloseConfigurator, ConfiguratorInv
  <2>2. QED  BY <2>1, ClosedKeeps
<1>13. QED
  BY <1>1, <1>2, <1>5, <1>6, <1>7, <1>8, <1>9, <1>10, <1>11, <1>12 DEF ConfiguratorNext

(* Whatever the owner changes between the page and the dialog, whatever the       *)
(* shopper picks: an enabled button builds a line that PriceItem accepts, and an  *)
(* edit that changes nothing gives the line its own key back.                    *)
THEOREM ConfiguratorIsSound == ConfiguratorSpec => []ConfiguratorSound
<1>1. ConfiguratorInv /\ [ConfiguratorNext]_cfgVars => ConfiguratorInv'
  <2>1. ASSUME ConfiguratorInv, UNCHANGED cfgVars PROVE ConfiguratorInv'
    BY <2>1 DEF cfgVars, ConfiguratorInv, BuiltRight
  <2>2. QED  BY <2>1, ConfiguratorKeeps
<1>2. ConfiguratorInv => ConfiguratorSound  BY ConfiguratorRight
<1>3. QED  BY <1>1, <1>2, ConfiguratorStarts, PTL DEF ConfiguratorSpec
=============================================================================
