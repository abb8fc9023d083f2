------------------------ MODULE AssetPipelineProofs ------------------------
(***************************************************************************)
(* Proofs about AssetPipeline for every set of models, any number of jobs,   *)
(* recolourings, deliveries and faults, and every size of the pull buffer.   *)
(*                                                                         *)
(* What a product shows is right because of an order kept across three      *)
(* components: jobs announced in order are first delivered in order, by the  *)
(* broker, and taken in order from the buffer, by the worker.  So while an    *)
(* older job still waits for its first delivery, or has it in hand, no newer  *)
(* job has been touched (InTurn).  The order is broken only for a job that    *)
(* the relay announced behind a newer one, that was worked on again, or whose *)
(* delivery or report was lost; those are in mishaps, and every statement     *)
(* about order excepts them.  Nothing is assumed of the relay's order.        *)
(***************************************************************************)
EXTENDS AssetPipeline, Integers, FiniteSetTheorems, WellFoundedInduction, SequenceTheorems, TLAPS

JobRow == [type : {"model_ingest", "sprite_render"}, version : Versions,
           status : {"queued", "ready", "failed"}, look : Nat \cup {None}]
Message == [job : Nat, delivered : Nat, state : {"waiting", "pending", "gone"}]
Delivery == [msg : Nat, delivered : Nat]
Hand == [msg : Nat, delivered : Nat, step : {"process", "structured", "report", "reporting", "settle"},
         status : {None, "ready", "failed"}, ack : {None, "ack", "nak", "term"}]

\* What the proofs take of the constants.
AssetConstants ==
  /\ Named \subseteq Versions /\ max_deliver \in Nat \ {0} /\ Prefetch \in Nat
  /\ None \notin Versions \cup Nat \cup {"ready", "failed", "ack", "nak", "term"} \cup Hand

-----------------------------------------------------------------------------
(* The inductive invariant.                                                 *)
Typed ==
  /\ product \in [model : Versions \cup {None}, structured : Named \cup {None},
                  sprite : Versions \cup {None}, look : Nat]
  /\ jobs \in Seq(JobRow) /\ stream \in Seq(Message)
  /\ worker \in [buffer : Seq(Delivery), hand : Hand \cup {None}]
  /\ objects \in [glb : SUBSET Versions, structured : SUBSET Versions, sprite : [Versions -> Nat \cup {None}]]
  /\ reports \subseteq [job : Nat, status : {"ready", "failed"}, step : {"sent", "served"}]
  /\ mishaps \in [count : Nat, lost : SUBSET Nat, behind : SUBSET Nat]

\* A delivery names a message of the stream, and a count that message has reached.
Points(d) == d.msg \in Messages /\ d.delivered \in 1 .. stream[d.msg].delivered
Linked ==
  /\ \A j \in Jobs : jobs[j].type = "sprite_render" => jobs[j].look \in Nat
  /\ \A m \in Messages : stream[m].job \in Jobs /\ stream[m].delivered <= max_deliver
  /\ \A i \in DOMAIN worker.buffer : Points(worker.buffer[i])
  /\ worker.hand # None => Points(worker.hand)
  /\ \A r \in reports : r.job \in Jobs
  /\ Len(worker.buffer) <= Prefetch

HandOf(j) == worker.hand # None /\ stream[worker.hand.msg].job = j

\* The objects a ready job stands for are stored.
Made(j) ==
  CASE jobs[j].type = "model_ingest" ->
         /\ jobs[j].version \in objects.glb
         /\ jobs[j].version \in Named => jobs[j].version \in objects.structured
    [] OTHER -> objects.sprite[jobs[j].version] # None

(* How far the delivery in hand has come: what it has decided, what it has      *)
(* stored for it, and that it acknowledges only what core-api has on record.   *)
Done(h, j) ==
  /\ h.step = "structured" => jobs[j].type = "model_ingest" /\ jobs[j].version \in Named \cap objects.glb
  /\ h.step \in {"report", "reporting"} => h.status \in {"ready", "failed"} /\ h.ack \in {"ack", "term"}
  /\ h.step \in {"report", "reporting"} /\ h.status = "ready" =>
       /\ Made(j)
       /\ jobs[j].type = "sprite_render" => objects.sprite[jobs[j].version] = jobs[j].look
  /\ h.step = "settle" /\ h.ack # "nak" => jobs[j].status # "queued"
  /\ h.step = "settle" /\ h.ack = "nak" => h.delivered < max_deliver \/ j \in mishaps.lost
HandSound == worker.hand # None => Done(worker.hand, stream[worker.hand.msg].job)

(* A report that is served is on record; one the worker gave up belongs to a   *)
(* lost job, the others are the one it is waiting for.                       *)
ReportsSound ==
  /\ \A r \in reports :
       /\ r.status = "ready" => Made(r.job)
       /\ r.step = "served" => jobs[r.job].status # "queued"
       /\ r.job \notin mishaps.lost =>
            HandOf(r.job) /\ worker.hand.step = "reporting" /\ worker.hand.status = r.status
  /\ \A r, s \in reports : r.job = s.job /\ r.job \notin mishaps.lost => r = s

(* A message is dropped only with its job on record; one out of deliveries has  *)
(* its last one still in the buffer or in hand, unless it was lost.          *)
LastDelivery(m) ==
  \/ stream[m].job \in mishaps.lost
  \/ \E i \in DOMAIN worker.buffer : worker.buffer[i] = [msg |-> m, delivered |-> max_deliver]
  \/ InHand(m) /\ worker.hand.delivered = max_deliver
Kept ==
  \A m \in Messages :
    jobs[stream[m].job].status = "queued" =>
      stream[m].state # "gone" /\ (stream[m].delivered = max_deliver => LastDelivery(m))

(* The stream: a job is announced before the newer ones, and once, unless it    *)
(* fell behind; messages are first delivered in order.                      *)
Streamed ==
  /\ \A m \in Messages : \A j \in Jobs \ mishaps.behind :
       j < stream[m].job => \E e \in Messages : e < m /\ stream[e].job = j
  /\ \A e, m \in Messages : stream[e].job = stream[m].job /\ stream[m].job \notin mishaps.behind => e = m
  /\ \A e, m \in Messages : e < m /\ stream[m].delivered > 0 => stream[e].delivered > 0

\* The first delivery of job j is still to be taken in hand.
Buffered1(j, i) == stream[worker.buffer[i].msg].job = j /\ worker.buffer[i].delivered = 1
Waits(j) ==
  \/ j \notin Announced
  \/ \E m \in Messages : stream[m].job = j /\ stream[m].delivered = 0
  \/ \E i \in DOMAIN worker.buffer : Buffered1(j, i)

Buffered ==
  /\ \A i, k \in DOMAIN worker.buffer : worker.buffer[i] = worker.buffer[k] => i = k
  /\ \A i \in DOMAIN worker.buffer : \A j \in Jobs \ Late :
       j < stream[worker.buffer[i].msg].job /\ Waits(j) => \E k \in 1 .. i - 1 : Buffered1(j, k)

Untouched(k) == jobs[k].status = "queued" /\ ~HandOf(k) /\ \A r \in reports : r.job # k
InTurn == \A j \in Jobs \ Late : \A k \in Jobs : j < k /\ (Waits(j) \/ HandOf(j)) => Untouched(k)

(* The last ready report wrote the columns, and it came in turn or late.       *)
Wins(j, type, versions) ==
  /\ j \in Ready(type, versions)
  /\ j \in Late \/ \A k \in Ready(type, versions) : k <= j
Shown ==
  /\ \A j \in Jobs : jobs[j].status = "ready" => Made(j)
  /\ product.model = None => Ready("model_ingest", Versions) = {}
  /\ product.model # None => \E j \in Jobs : Wins(j, "model_ingest", Versions) /\ product.model = jobs[j].version
  /\ product.structured = None => Ready("model_ingest", Named) = {}
  /\ product.structured # None =>
       \E j \in Jobs : Wins(j, "model_ingest", Named) /\ product.structured = jobs[j].version
  /\ product.sprite # None => Ready("sprite_render", {product.sprite}) # {}

\* A job that is ready, or has a ready report on its way.
Produced(j) == jobs[j].status = "ready" \/ \E r \in reports : r.job = j /\ r.status = "ready"
SpriteOf(j, v) == jobs[j].type = "sprite_render" /\ jobs[j].version = v
Painted ==
  \A v \in Versions : objects.sprite[v] # None =>
    \E w \in Jobs :
      /\ SpriteOf(w, v) /\ objects.sprite[v] = jobs[w].look
      /\ w \in Late \/ \A k \in Jobs : SpriteOf(k, v) /\ Produced(k) => k <= w

AssetInv ==
  /\ Typed /\ Linked /\ HandSound /\ ReportsSound /\ Kept /\ Streamed /\ Buffered /\ InTurn /\ Shown /\ Painted
-----------------------------------------------------------------------------
(* What every step keeps: rows, messages and objects are never taken back, and  *)
(* a status moves only away from queued and never away from ready.            *)
RowsGrow ==
  /\ Jobs \subseteq Jobs'
  /\ \A j \in Jobs :
       /\ jobs'[j].type = jobs[j].type /\ jobs'[j].version = jobs[j].version /\ jobs'[j].look = jobs[j].look
       /\ jobs[j].status \in {jobs'[j].status, "queued", "failed"}
       /\ jobs[j].status = "queued" \/ jobs'[j].status # "queued"
MessagesGrow ==
  /\ Messages \subseteq Messages'
  /\ \A m \in Messages : stream'[m].job = stream[m].job /\ stream[m].delivered <= stream'[m].delivered
ObjectsGrow ==
  /\ objects.glb \subseteq objects'.glb /\ objects.structured \subseteq objects'.structured
  /\ \A v \in Versions : objects.sprite[v] # None => objects'.sprite[v] # None
MishapsGrow == mishaps.lost \subseteq mishaps'.lost /\ mishaps.behind \subseteq mishaps'.behind
Grows == RowsGrow /\ MessagesGrow /\ ObjectsGrow /\ MishapsGrow

\* The steps of the worker on the delivery it keeps in hand.
Working ==
  \/ put_glb \/ put_structured \/ put_webp \/ Permanent \/ Transient
  \/ report \/ report_failed \/ \E r \in reports : reported(r)

LEMMA Rows ==
  ASSUME Typed
  PROVE  /\ Len(jobs) \in Nat /\ Jobs = 1 .. Len(jobs) /\ \A j \in Jobs : jobs[j] \in JobRow
         /\ Len(stream) \in Nat /\ Messages = 1 .. Len(stream) /\ \A m \in Messages : stream[m] \in Message
         /\ Len(worker.buffer) \in Nat /\ DOMAIN worker.buffer = 1 .. Len(worker.buffer)
         /\ \A i \in DOMAIN worker.buffer : worker.buffer[i] \in Delivery
<1>1. jobs \in Seq(JobRow) /\ stream \in Seq(Message) /\ worker.buffer \in Seq(Delivery)
  BY DEF Typed
<1> QED
  BY <1>1, LenProperties, ElementOfSeq DEF Jobs, Messages

\* Appending to a sequence adds one element behind the others.
LEMMA AppendFacts ==
  ASSUME NEW S, NEW s \in Seq(S), NEW x \in S, NEW t, t = Append(s, x)
  PROVE  /\ t \in Seq(S) /\ DOMAIN s = 1 .. Len(s) /\ DOMAIN t = 1 .. Len(s) + 1
         /\ Len(s) \in Nat /\ Len(t) = Len(s) + 1
         /\ t[Len(s) + 1] = x /\ \A i \in 1 .. Len(s) : t[i] = s[i]
<1>1. t \in Seq(S) /\ Len(t) = Len(s) + 1
  OBVIOUS
<1>2. t[Len(s) + 1] = x /\ \A i \in 1 .. Len(s) : t[i] = s[i]
  OBVIOUS
<1> QED
  BY <1>1, <1>2, LenProperties

\* Replacing an element leaves the others.
LEMMA ExceptFacts ==
  ASSUME NEW S, NEW s \in Seq(S), NEW i \in DOMAIN s, NEW x \in S, NEW t, t = [s EXCEPT ![i] = x]
  PROVE  /\ t \in Seq(S) /\ DOMAIN t = DOMAIN s /\ Len(t) = Len(s)
         /\ t[i] = x /\ \A k \in DOMAIN s : k # i => t[k] = s[k]
<1>1. DOMAIN s = 1 .. Len(s)
  BY LenProperties
<1>2. t \in Seq(S) /\ Len(t) = Len(s)
  BY <1>1, ExceptSeq
<1> QED
  BY <1>1, <1>2, LenProperties

\* Taking the head moves the others one place forward.
LEMMA TailFacts ==
  ASSUME NEW S, NEW s \in Seq(S), s # << >>, NEW t, t = Tail(s)
  PROVE  /\ t \in Seq(S) /\ DOMAIN s = 1 .. Len(s) /\ DOMAIN t = 1 .. Len(s) - 1
         /\ Len(s) \in Nat \ {0} /\ Len(t) = Len(s) - 1 /\ Head(s) = s[1] /\ 1 \in DOMAIN s
         /\ \A i \in DOMAIN t : i + 1 \in DOMAIN s /\ t[i] = s[i + 1]
<1>1. t \in Seq(S) /\ Len(t) = Len(s) - 1 /\ \A i \in 1 .. Len(t) : t[i] = s[i + 1]
  BY HeadTailProperties
<1>2. Len(s) \in Nat \ {0} /\ DOMAIN s = 1 .. Len(s) /\ DOMAIN t = 1 .. Len(t)
  BY <1>1, EmptySeq, LenProperties
<1>3. Head(s) = s[1]
  OBVIOUS
<1> QED
  BY <1>1, <1>2, <1>3

-----------------------------------------------------------------------------
(* One lemma per action: what it does to each variable, and that it keeps the   *)
(* types and the links between rows.                                        *)
WithHand(step, status, ack) ==
  [buffer |-> worker.buffer,
   hand |-> [msg |-> worker.hand.msg, delivered |-> worker.hand.delivered,
             step |-> step, status |-> status, ack |-> ack]]

LEMMA HandFacts ==
  ASSUME AssetConstants, Typed, Linked, worker.hand # None
  PROVE  /\ worker.hand \in Hand /\ worker.hand.msg \in Messages /\ stream[worker.hand.msg].job \in Jobs
         /\ Job(worker.hand) \in JobRow /\ Job(worker.hand).version \in Versions
         /\ Job(worker.hand).type = "sprite_render" => Job(worker.hand).look \in Nat
         /\ worker = [buffer |-> worker.buffer, hand |-> worker.hand] /\ worker.buffer \in Seq(Delivery)
         /\ worker.hand = [msg |-> worker.hand.msg, delivered |-> worker.hand.delivered,
                           step |-> worker.hand.step, status |-> worker.hand.status, ack |-> worker.hand.ack]
<1>1. worker.hand \in Hand /\ worker.buffer \in Seq(Delivery) /\ worker = [buffer |-> worker.buffer, hand |-> worker.hand]
  BY DEF Typed
<1>2. worker.hand.msg \in Messages /\ stream[worker.hand.msg].job \in Jobs
  BY DEF Linked, Points
<1>3. Job(worker.hand) \in JobRow
  BY <1>2, Rows DEF Job
<1>4. Job(worker.hand).type = "sprite_render" => Job(worker.hand).look \in Nat
  BY <1>2 DEF Linked, Job
<1>5. worker.hand = [msg |-> worker.hand.msg, delivered |-> worker.hand.delivered,
                     step |-> worker.hand.step, status |-> worker.hand.status, ack |-> worker.hand.ack]
  BY <1>1 DEF Hand
<1> QED
  BY <1>1, <1>2, <1>3, <1>4, <1>5 DEF JobRow

LEMMA Steps ==
  ASSUME AssetConstants, Typed, Linked, worker.hand # None, NEW step, NEW status, NEW ack
  PROVE  /\ [worker EXCEPT !.hand.step = step] = WithHand(step, worker.hand.status, worker.hand.ack)
         /\ Decided(status, ack) = WithHand(IF status = None THEN "settle" ELSE "report", status, ack)
<1>1. PICK h, b : h = worker.hand /\ b = worker.buffer
  OBVIOUS
<1>2. worker = [buffer |-> b, hand |-> h]
  BY <1>1, HandFacts
<1>3. h = [msg |-> h.msg, delivered |-> h.delivered, step |-> h.step, status |-> h.status, ack |-> h.ack]
  BY <1>1, HandFacts
<1>4. [worker EXCEPT !.hand.step = step] = WithHand(step, h.status, h.ack)
  BY <1>1, <1>2, <1>3 DEF WithHand
<1>5. Decided(status, ack) = WithHand(IF status = None THEN "settle" ELSE "report", status, ack)
  <2>1. PICK to : to = IF status = None THEN "settle" ELSE "report"
    OBVIOUS
  <2>2. PICK m, n, a, c, e : h = [msg |-> m, delivered |-> n, step |-> a, status |-> c, ack |-> e]
    BY <1>3
  <2>3. PICK g : g = [[[h EXCEPT !.step = to] EXCEPT !.status = status] EXCEPT !.ack = ack]
    OBVIOUS
  <2>4. g = [msg |-> m, delivered |-> n, step |-> to, status |-> status, ack |-> ack]
    BY <2>2, <2>3
  <2>5. [worker EXCEPT !.hand.step = to, !.hand.status = status, !.hand.ack = ack] = [buffer |-> b, hand |-> g]
    <3>1. PICK v : v = [worker EXCEPT !.hand.step = to]
      OBVIOUS
    <3>2. v = [buffer |-> b, hand |-> [h EXCEPT !.step = to]]
      BY <1>2, <3>1
    <3>3. PICK w : w = [v EXCEPT !.hand.status = status]
      OBVIOUS
    <3>4. w = [buffer |-> b, hand |-> [[h EXCEPT !.step = to] EXCEPT !.status = status]]
      BY <3>2, <3>3
    <3>5. [w EXCEPT !.hand.ack = ack] = [buffer |-> b, hand |-> g]
      BY <2>3, <3>4
    <3> QED
      BY <3>1, <3>3, <3>5
  <2>6. h.msg = m /\ h.delivered = n
    BY <2>2
  <2>7. Decided(status, ack) = [buffer |-> b, hand |-> g]
    BY <2>1, <2>5 DEF Decided
  <2> QED
    BY <1>1, <2>1, <2>4, <2>6, <2>7 DEF WithHand
<1> QED
  BY <1>1, <1>4, <1>5

\* What the steps of the worker have in common.
HandMoves ==
  /\ worker.hand # None
  /\ \E step \in {"structured", "report", "reporting", "settle"}, status \in {None, "ready", "failed"},
        ack \in {None, "ack", "nak", "term"} : worker' = WithHand(step, status, ack)
  /\ jobs' = jobs /\ stream' = stream /\ product' = product /\ mishaps'.behind = mishaps.behind

LEMMA WorkingMoves ==
  ASSUME AssetConstants, Typed, Linked, Working
  PROVE  HandMoves
<1> DEFINE h == worker.hand
<1>1. h # None
  BY DEF Working, put_glb, put_structured, put_webp, Permanent, Transient, report, report_failed, reported
<1>2. h.status \in {None, "ready", "failed"} /\ h.ack \in {None, "ack", "nak", "term"}
  BY <1>1, HandFacts DEF Hand
<1>3. "ready" # None /\ "failed" # None
  BY DEF AssetConstants
<1> HIDE DEF h
<1>4. \E step \in {"structured", "report", "reporting", "settle"}, status \in {None, "ready", "failed"},
        ack \in {None, "ack", "nak", "term"} : worker' = WithHand(step, status, ack)
  <2> DEFINE Moved == \E step \in {"structured", "report", "reporting", "settle"}, status \in {None, "ready", "failed"},
                         ack \in {None, "ack", "nak", "term"} : worker' = WithHand(step, status, ack)
  <2>1. /\ Decided("ready", "ack") = WithHand("report", "ready", "ack")
        /\ Decided("failed", "ack") = WithHand("report", "failed", "ack")
        /\ Decided("failed", "term") = WithHand("report", "failed", "term")
        /\ Decided(None, "nak") = WithHand("settle", None, "nak")
    BY <1>1, <1>3, Steps DEF h
  <2>2. \A step : [worker EXCEPT !.hand.step = step] = WithHand(step, h.status, h.ack)
    BY <1>1, Steps DEF h
  <2>3. \A step \in {"structured", "report", "reporting", "settle"}, status \in {None, "ready", "failed"},
           ack \in {None, "ack", "nak", "term"} : worker' = WithHand(step, status, ack) => Moved
    OBVIOUS
  <2> DEFINE Stepped == \E step \in {"structured", "reporting", "settle"} : worker' = [worker EXCEPT !.hand.step = step]
  <2>4. \/ worker' = Decided("ready", "ack") \/ worker' = Decided("failed", "ack")
        \/ worker' = Decided("failed", "term") \/ worker' = Decided(None, "nak")
        \/ Stepped
    BY DEF Working, put_glb, put_structured, put_webp, Permanent, Transient, report, report_failed, reported
  <2> HIDE DEF Moved
  <2>5. Stepped => Moved
    BY <1>2, <2>2, <2>3
  <2> HIDE DEF Stepped
  <2>6. worker' = Decided("ready", "ack") \/ worker' = Decided("failed", "ack") => Moved
    BY <2>1, <2>3
  <2>7. worker' = Decided("failed", "term") \/ worker' = Decided(None, "nak") => Moved
    BY <2>1, <2>3
  <2>8. Moved
    BY <2>4, <2>5, <2>6, <2>7
  <2> QED
    BY <2>8 DEF Moved
<1>5. jobs' = jobs /\ stream' = stream /\ product' = product
  BY DEF Working, put_glb, put_structured, put_webp, Permanent, Transient, report, report_failed, reported
<1>6. mishaps'.behind = mishaps.behind
  <2>1. CASE report_failed
    BY <2>1 DEF report_failed, Faulted, Typed
  <2>2. CASE ~report_failed
    BY <2>2 DEF Working, put_glb, put_structured, put_webp, Permanent, Transient, report, reported
  <2> QED
    BY <2>1, <2>2
<1> QED
  BY <1>1, <1>4, <1>5, <1>6 DEF HandMoves, h

\* The delivery in hand stays the same; what it has decided is of the right kind.
LEMMA HandAfter ==
  ASSUME AssetConstants, Typed, Linked, HandMoves
  PROVE  /\ worker' \in [buffer : Seq(Delivery), hand : Hand] /\ worker'.hand # None
         /\ worker'.buffer = worker.buffer
         /\ worker'.hand.msg = worker.hand.msg /\ worker'.hand.delivered = worker.hand.delivered
<1>1. PICK step \in {"structured", "report", "reporting", "settle"}, status \in {None, "ready", "failed"},
           ack \in {None, "ack", "nak", "term"} : worker' = WithHand(step, status, ack)
  BY DEF HandMoves
<1>2. worker.hand.msg \in Nat /\ worker.hand.delivered \in Nat /\ worker.buffer \in Seq(Delivery)
  BY HandFacts DEF HandMoves, Hand
<1>3. worker' \in [buffer : Seq(Delivery), hand : Hand]
  BY <1>1, <1>2 DEF WithHand, Hand
<1>4. worker'.hand # None
  BY <1>3 DEF AssetConstants
<1> QED
  BY <1>1, <1>3, <1>4 DEF WithHand

LEMMA WorkingObjects ==
  ASSUME AssetConstants, Typed, Linked, Working
  PROVE  /\ objects' \in [glb : SUBSET Versions, structured : SUBSET Versions, sprite : [Versions -> Nat \cup {None}]]
         /\ ObjectsGrow
<1>1. objects \in [glb : SUBSET Versions, structured : SUBSET Versions, sprite : [Versions -> Nat \cup {None}]]
  BY DEF Typed
<1>2. CASE put_glb
  <2>1. Job(worker.hand).version \in Versions
    BY <1>2, HandFacts DEF put_glb
  <2> QED
    BY <1>1, <1>2, <2>1 DEF put_glb, ObjectsGrow
<1>3. CASE put_structured
  <2>1. Job(worker.hand).version \in Versions
    BY <1>3, HandFacts DEF put_structured
  <2> QED
    BY <1>1, <1>3, <2>1 DEF put_structured, ObjectsGrow
<1>4. CASE put_webp
  <2>1. PICK v, l : v = Job(worker.hand).version /\ l = Job(worker.hand).look
    OBVIOUS
  <2>2. v \in Versions /\ l \in Nat
    BY <1>4, <2>1, HandFacts DEF put_webp
  <2>3. objects' = [objects EXCEPT !.sprite = [objects.sprite EXCEPT ![v] = l]]
    BY <1>1, <1>4, <2>1 DEF put_webp
  <2>4. l # None
    BY <2>2 DEF AssetConstants
  <2> QED
    BY <1>1, <2>2, <2>3, <2>4 DEF ObjectsGrow
<1>5. CASE objects' = objects
  BY <1>1, <1>5 DEF ObjectsGrow
<1> QED
  BY <1>2, <1>3, <1>4, <1>5 DEF Working, Permanent, Transient, report, report_failed, reported

LEMMA WorkingReports ==
  ASSUME AssetConstants, Typed, Linked, HandSound, Working
  PROVE  /\ reports' \subseteq [job : Nat, status : {"ready", "failed"}, step : {"sent", "served"}]
         /\ \A r \in reports' : r.job \in Jobs
<1>1. /\ reports \subseteq [job : Nat, status : {"ready", "failed"}, step : {"sent", "served"}]
      /\ \A r \in reports : r.job \in Jobs
  BY DEF Typed, Linked
<1>2. CASE report
  <2>1. PICK r : r = [job |-> stream[worker.hand.msg].job, status |-> worker.hand.status, step |-> "sent"]
    OBVIOUS
  <2>2. stream[worker.hand.msg].job \in Jobs /\ Jobs \subseteq Nat
    BY <1>2, HandFacts, Rows DEF report
  <2>3. worker.hand.status \in {"ready", "failed"}
    BY <1>2 DEF report, HandSound, Done
  <2>4. r \in [job : Nat, status : {"ready", "failed"}, step : {"sent", "served"}] /\ r.job \in Jobs
    BY <2>1, <2>2, <2>3
  <2> QED
    BY <1>1, <1>2, <2>1, <2>4 DEF report
<1>3. CASE reports' \subseteq reports
  BY <1>1, <1>3
<1> QED
  BY <1>2, <1>3
     DEF Working, put_glb, put_structured, put_webp, Permanent, Transient, report_failed, reported, Unserved

\* A fault loses the jobs it names; no job is forgotten to be late.
LEMMA FaultFacts ==
  ASSUME Typed, NEW lost \in SUBSET Nat
  PROVE  /\ Faulted(lost) \in [count : Nat, lost : SUBSET Nat, behind : SUBSET Nat]
         /\ Faulted(lost).lost = mishaps.lost \cup lost /\ Faulted(lost).behind = mishaps.behind
<1>1. PICK c \in Nat, l \in SUBSET Nat, a \in SUBSET Nat : mishaps = [count |-> c, lost |-> l, behind |-> a]
  BY DEF Typed
<1>2. Faulted(lost) = [count |-> c + 1, lost |-> l \cup lost, behind |-> a]
  <2>1. PICK v : v = [mishaps EXCEPT !.count = @ + 1]
    OBVIOUS
  <2>2. v = [count |-> c + 1, lost |-> l, behind |-> a]
    BY <1>1, <2>1
  <2>3. [v EXCEPT !.lost = @ \cup lost] = [count |-> c + 1, lost |-> l \cup lost, behind |-> a]
    <3>1. PICK u, n : u = l \cup lost /\ n = c + 1
      OBVIOUS
    <3>2. v = [count |-> n, lost |-> l, behind |-> a] /\ v.lost = l
      BY <2>2, <3>1
    <3>3. [v EXCEPT !.lost = u] = [count |-> n, lost |-> u, behind |-> a]
      BY <3>2
    <3> QED
      BY <3>1, <3>2, <3>3
  <2>4. Faulted(lost) = [v EXCEPT !.lost = @ \cup lost]
    BY <1>1, <2>1, <2>2 DEF Faulted
  <2> QED
    BY <2>3, <2>4
<1> QED
  BY <1>1, <1>2

LEMMA FaultOrNone ==
  ASSUME Typed, mishaps' = mishaps \/ mishaps' = Faulted({})
  PROVE  /\ mishaps' \in [count : Nat, lost : SUBSET Nat, behind : SUBSET Nat]
         /\ mishaps'.lost = mishaps.lost /\ mishaps'.behind = mishaps.behind
<1>1. PICK none \in SUBSET Nat : none = {}
  OBVIOUS
<1>2. CASE mishaps' = Faulted(none)
  <2>1. mishaps'.lost = mishaps.lost \cup none
    BY <1>2, FaultFacts
  <2> QED
    BY <1>1, <1>2, <2>1, FaultFacts
<1>3. CASE mishaps' = mishaps
  BY <1>3 DEF Typed
<1> QED
  BY <1>1, <1>2, <1>3

LEMMA WorkingMishaps ==
  ASSUME AssetConstants, Typed, Linked, Working
  PROVE  /\ mishaps' \in [count : Nat, lost : SUBSET Nat, behind : SUBSET Nat] /\ MishapsGrow
<1>1. mishaps \in [count : Nat, lost : SUBSET Nat, behind : SUBSET Nat]
  BY DEF Typed
<1>2. CASE report_failed
  <2>1. stream[worker.hand.msg].job \in Nat
    BY <1>2, HandFacts, Rows DEF report_failed
  <2> QED
    BY <1>2, <2>1, FaultFacts DEF report_failed, MishapsGrow
<1>3. CASE mishaps' = mishaps
  BY <1>1, <1>3 DEF MishapsGrow
<1> QED
  BY <1>2, <1>3 DEF Working, put_glb, put_structured, put_webp, Permanent, Transient, report, reported

LEMMA WorkingStep ==
  ASSUME AssetConstants, AssetInv, Working
  PROVE  Typed' /\ Linked' /\ Grows /\ HandMoves
<1> USE DEF AssetInv
<1>1. HandMoves
  BY WorkingMoves
<1>2. jobs' = jobs /\ stream' = stream /\ product' = product
  BY <1>1 DEF HandMoves
<1>3. Typed'
  BY <1>1, <1>2, HandAfter, WorkingObjects, WorkingReports, WorkingMishaps DEF Typed
<1>4. Linked'
  <2>1. /\ \A i \in DOMAIN worker'.buffer : worker'.buffer[i].msg \in Messages /\ worker'.buffer[i].delivered \in 1 .. stream[worker'.buffer[i].msg].delivered
        /\ Len(worker'.buffer) <= Prefetch
    BY <1>1, HandAfter DEF Linked, Points
  <2>2. worker'.hand.msg \in Messages /\ worker'.hand.delivered \in 1 .. stream[worker'.hand.msg].delivered
    BY <1>1, HandAfter DEF Linked, Points, HandMoves
  <2>3. \A r \in reports' : r.job \in Jobs
    BY WorkingReports
  <2> QED
    BY <1>2, <2>1, <2>2, <2>3 DEF Linked, Points, Jobs, Messages
<1>5. RowsGrow /\ MessagesGrow
  <2>1. \A m \in Messages : stream[m].delivered \in Nat
    BY Rows DEF Message
  <2> QED
    BY <1>2, <2>1 DEF RowsGrow, MessagesGrow, Jobs, Messages
<1> QED
  BY <1>1, <1>3, <1>4, <1>5, WorkingObjects, WorkingMishaps DEF Grows

-----------------------------------------------------------------------------
\* A delivery names its message whatever is added or moved on.
NowPoints(d) == d.msg \in Messages' /\ d.delivered \in 1 .. stream'[d.msg].delivered
LEMMA PointsStay ==
  ASSUME Typed, MessagesGrow, \A m \in Messages' : stream'[m].delivered \in 0 .. max_deliver, NEW d, Points(d)
  PROVE  NowPoints(d)
<1>1. \A m \in Messages' : stream'[m].delivered \in Int
  OBVIOUS
<1>2. d.msg \in Messages /\ stream[d.msg].delivered \in Nat /\ stream[d.msg].delivered <= stream'[d.msg].delivered
  BY Rows DEF Points, MessagesGrow, Message
<1> QED
  BY <1>1, <1>2 DEF Points, NowPoints, MessagesGrow

\* The links hold after a step when what it adds is linked.
LEMMA LinkedStays ==
  ASSUME Typed, Linked, RowsGrow, MessagesGrow, \A r \in reports' : r.job \in Jobs,
         \A m \in Messages' : stream'[m].delivered \in 0 .. max_deliver /\ (m \in Messages \/ stream'[m].job \in Jobs'),
         \A j \in Jobs' : j \in Jobs \/ (jobs'[j].type = "sprite_render" => jobs'[j].look \in Nat),
         \A i \in DOMAIN worker'.buffer : Points(worker'.buffer[i]) \/ NowPoints(worker'.buffer[i]),
         worker'.hand # None => Points(worker'.hand),
         Len(worker'.buffer) <= Prefetch
  PROVE  Linked'
<1>1. \A j \in Jobs' : jobs'[j].type = "sprite_render" => jobs'[j].look \in Nat
  BY DEF Linked, RowsGrow
<1>2. \A m \in Messages' : stream'[m].job \in Jobs' /\ stream'[m].delivered <= max_deliver
  BY DEF Linked, RowsGrow, MessagesGrow
<1>3. \A r \in reports' : r.job \in Jobs'
  BY DEF RowsGrow
<1>4. /\ \A i \in DOMAIN worker'.buffer : NowPoints(worker'.buffer[i])
      /\ worker'.hand # None => NowPoints(worker'.hand)
  BY PointsStay
<1> QED
  BY <1>1, <1>2, <1>3, <1>4 DEF Linked, Points, NowPoints, Jobs, Messages

LEMMA SameStays ==
  /\ Typed /\ jobs' = jobs => RowsGrow
  /\ Typed /\ stream' = stream => MessagesGrow
  /\ objects' = objects => ObjectsGrow
  /\ mishaps' = mishaps => MishapsGrow
<1>1. Typed => \A m \in Messages : stream[m].delivered \in Nat
  BY Rows DEF Message
<1> QED
  BY <1>1 DEF RowsGrow, MessagesGrow, ObjectsGrow, MishapsGrow, Jobs, Messages

LEMMA UpdateColorStep ==
  ASSUME AssetConstants, AssetInv, UpdateColor
  PROVE  Typed' /\ Linked' /\ Grows
<1>1. Grows
  BY SameStays DEF AssetInv, UpdateColor, Grows
<1>2. product' \in [model : Versions \cup {None}, structured : Named \cup {None},
                    sprite : Versions \cup {None}, look : Nat]
  <2>1. PICK n : n = product.look + 1
    OBVIOUS
  <2>2. n \in Nat /\ product' = [product EXCEPT !.look = n]
    BY <2>1 DEF AssetInv, UpdateColor, Typed
  <2> QED
    BY <2>2 DEF AssetInv, Typed
<1>3. Typed'
  BY <1>2 DEF AssetInv, UpdateColor, Typed
<1>4. Linked'
  BY DEF AssetInv, UpdateColor, Linked, Points, Jobs, Messages
<1> QED
  BY <1>1, <1>3, <1>4

\* A new job is queued behind the others.
CreateFacts ==
  /\ Jobs' = 1 .. Len(jobs) + 1 /\ \A i \in Jobs : jobs'[i] = jobs[i]
  /\ jobs'[Len(jobs) + 1].status = "queued"
  /\ UNCHANGED <<product, stream, worker, objects, reports, mishaps>>

LEMMA CreateStep ==
  ASSUME AssetConstants, AssetInv, NEW type \in {"model_ingest", "sprite_render"}, NEW version \in Versions,
         CreateAssetJob(type, version)
  PROVE  Typed' /\ Linked' /\ Grows /\ CreateFacts
<1>1. PICK look \in IF type = "sprite_render" THEN 1 .. product.look ELSE {None} :
        jobs' = Append(jobs, [type |-> type, version |-> version, status |-> "queued", look |-> look])
  BY DEF CreateAssetJob
<1>2. Typed /\ jobs \in Seq(JobRow) /\ product.look \in Nat
  BY DEF AssetInv, Typed
<1>0. PICK row : row = [type |-> type, version |-> version, status |-> "queued", look |-> look]
  OBVIOUS
<1>3. row \in JobRow /\ row.status = "queued" /\ (row.type = "sprite_render" => row.look \in Nat)
  BY <1>0, <1>1, <1>2 DEF JobRow
<1>4. jobs' = Append(jobs, row)
  BY <1>0, <1>1
<1>5. /\ jobs' \in Seq(JobRow) /\ Jobs = 1 .. Len(jobs) /\ Jobs' = 1 .. Len(jobs) + 1 /\ Len(jobs) \in Nat
      /\ jobs'[Len(jobs) + 1] = row /\ \A i \in 1 .. Len(jobs) : jobs'[i] = jobs[i]
  BY <1>2, <1>3, <1>4, AppendFacts DEF Jobs
<1>6. UNCHANGED <<product, stream, worker, objects, reports, mishaps>>
  BY DEF CreateAssetJob
<1>7. RowsGrow
  BY <1>5 DEF RowsGrow
<1>8. Grows
  BY <1>2, <1>6, <1>7, SameStays DEF Grows
<1>9. Typed'
  BY <1>5, <1>6 DEF AssetInv, Typed
<1>10. Linked'
  <2>1. Linked /\ \A m \in Messages' : m \in Messages /\ stream'[m].delivered \in 0 .. max_deliver
    BY <1>2, <1>6, Rows DEF AssetInv, Linked, Messages, Message, AssetConstants
  <2>2. \A j \in Jobs' : j \in Jobs \/ (jobs'[j].type = "sprite_render" => jobs'[j].look \in Nat)
    BY <1>3, <1>5
  <2> QED
    BY <1>2, <1>6, <1>7, <1>8, <2>1, <2>2, LinkedStays DEF Grows, Linked, Points
<1> QED
  BY <1>3, <1>5, <1>6, <1>8, <1>9, <1>10 DEF CreateFacts

\* A new message of job j comes behind the others, not yet delivered.
AnnounceFacts(j) ==
  /\ Messages' = 1 .. Len(stream) + 1 /\ \A m \in Messages : stream'[m] = stream[m]
  /\ stream'[Len(stream) + 1] = [job |-> j, delivered |-> 0, state |-> "waiting"]
  /\ UNCHANGED <<product, jobs, worker, objects, reports>> /\ mishaps'.lost = mishaps.lost

LEMMA AnnounceStep ==
  ASSUME AssetConstants, AssetInv, NEW j \in Jobs,
         stream' = Append(stream, [job |-> j, delivered |-> 0, state |-> "waiting"]),
         UNCHANGED <<product, jobs, worker, objects, reports>>,
         mishaps' \in [count : Nat, lost : SUBSET Nat, behind : SUBSET Nat],
         mishaps'.lost = mishaps.lost, MishapsGrow
  PROVE  Typed' /\ Linked' /\ Grows /\ AnnounceFacts(j)
<1>1. PICK row : row = [job |-> j, delivered |-> 0, state |-> "waiting"]
  OBVIOUS
<1>2. Typed /\ Linked /\ stream \in Seq(Message) /\ j \in Nat
  BY Rows DEF AssetInv, Typed
<1>3. row \in Message /\ row.job = j /\ row.delivered = 0
  BY <1>1, <1>2 DEF Message
<1>4. /\ stream' \in Seq(Message) /\ Messages = 1 .. Len(stream) /\ Messages' = 1 .. Len(stream) + 1
      /\ Len(stream) \in Nat /\ stream'[Len(stream) + 1] = row /\ \A i \in 1 .. Len(stream) : stream'[i] = stream[i]
  BY <1>1, <1>2, <1>3, AppendFacts DEF Messages
<1>5. \A m \in Messages : stream[m].delivered \in Nat
  BY <1>2, Rows DEF Message
<1>6. MessagesGrow
  BY <1>4, <1>5 DEF MessagesGrow
<1>7. Grows
  BY <1>2, <1>6, SameStays DEF Grows
<1>8. Typed'
  BY <1>2, <1>4 DEF Typed
<1>9. Linked'
  <2>1. \A m \in Messages' : stream'[m].delivered \in 0 .. max_deliver /\ (m \in Messages \/ stream'[m].job \in Jobs')
    BY <1>2, <1>3, <1>4, <1>5 DEF Linked, AssetConstants, Jobs
  <2>2. Jobs' = Jobs
    BY DEF Jobs
  <2> QED
    BY <1>2, <1>6, <1>7, <2>1, <2>2, LinkedStays DEF Grows, Linked, Points
<1> QED
  BY <1>1, <1>4, <1>7, <1>8, <1>9 DEF AnnounceFacts

\* The older jobs not announced by now have fallen behind.
PassedOver(j) == \A i \in Jobs \ Announced : i < j => i \in mishaps'.behind

LEMMA PublishStep ==
  ASSUME AssetConstants, AssetInv, Publish
  PROVE  /\ Typed' /\ Linked' /\ Grows
         /\ \E j \in Jobs \ Announced : AnnounceFacts(j) /\ PassedOver(j)
<1>1. PICK j \in Jobs \ Announced :
        /\ stream' = Append(stream, [job |-> j, delivered |-> 0, state |-> "waiting"])
        /\ mishaps' = [mishaps EXCEPT !.behind = @ \cup {i \in Jobs \ Announced : i < j}]
  BY DEF Publish
<1>2. PICK u : u = mishaps.behind \cup {i \in Jobs \ Announced : i < j}
  OBVIOUS
<1>3. mishaps \in [count : Nat, lost : SUBSET Nat, behind : SUBSET Nat] /\ u \in SUBSET Nat
  BY <1>2, Rows DEF AssetInv, Typed
<1>4. mishaps' = [mishaps EXCEPT !.behind = u]
  BY <1>1, <1>2
<1>5. mishaps' \in [count : Nat, lost : SUBSET Nat, behind : SUBSET Nat] /\ mishaps'.lost = mishaps.lost /\ mishaps'.behind = u
  BY <1>3, <1>4
<1>6. MishapsGrow /\ PassedOver(j)
  BY <1>2, <1>5 DEF MishapsGrow, PassedOver
<1>7. Typed' /\ Linked' /\ Grows /\ AnnounceFacts(j)
  BY <1>1, <1>5, <1>6, AnnounceStep DEF Publish
<1> QED
  BY <1>1, <1>6, <1>7

LEMMA PublishAgainStep ==
  ASSUME AssetConstants, AssetInv, NEW j \in Jobs, PublishAgain(j)
  PROVE  /\ Typed' /\ Linked' /\ Grows /\ AnnounceFacts(j)
         /\ j \in Announced /\ mishaps'.behind = mishaps.behind \cup {j}
<1>1. PICK f : f = Faulted({})
  OBVIOUS
<1>2. f \in [count : Nat, lost : SUBSET Nat, behind : SUBSET Nat] /\ f.lost = mishaps.lost /\ f.behind = mishaps.behind
  BY <1>1, FaultFacts DEF AssetInv
<1>3. mishaps' = [f EXCEPT !.behind = @ \cup {j}] /\ j \in Nat
  BY <1>1, Rows DEF PublishAgain, AssetInv
<1>4. PICK u : u = f.behind \cup {j}
  OBVIOUS
<1>5. mishaps' = [f EXCEPT !.behind = u] /\ u \in SUBSET Nat
  BY <1>2, <1>3, <1>4
<1>6. mishaps' \in [count : Nat, lost : SUBSET Nat, behind : SUBSET Nat] /\ mishaps'.lost = f.lost /\ mishaps'.behind = u
  BY <1>2, <1>5
<1>7. MishapsGrow
  BY <1>2, <1>4, <1>6 DEF MishapsGrow
<1>8. Typed' /\ Linked' /\ Grows /\ AnnounceFacts(j)
  BY <1>2, <1>6, <1>7, AnnounceStep DEF PublishAgain
<1> QED
  BY <1>2, <1>4, <1>6, <1>8 DEF PublishAgain

\* Only message m changes, and not its job.
MovedTo(m, delivered, state) ==
  /\ stream' \in Seq(Message) /\ Messages' = Messages
  /\ stream'[m] = [job |-> stream[m].job, delivered |-> delivered, state |-> state]
  /\ \A e \in Messages : e # m => stream'[e] = stream[e]

LEMMA MessageMoves ==
  ASSUME Typed, NEW m \in Messages, NEW state \in {"waiting", "pending", "gone"}
  PROVE  /\ stream' = [stream EXCEPT ![m].state = state] => MovedTo(m, stream[m].delivered, state)
         /\ stream' = [stream EXCEPT ![m].state = state, ![m].delivered = @ + 1]
              => MovedTo(m, stream[m].delivered + 1, state)
<1>1. PICK j \in Nat, n \in Nat, s \in {"waiting", "pending", "gone"} :
        stream[m] = [job |-> j, delivered |-> n, state |-> s]
  BY Rows DEF Message
<1>2. stream \in Seq(Message)
  BY DEF Typed
<1>3. ASSUME NEW k \in Nat, NEW row, row = [job |-> j, delivered |-> k, state |-> state], stream' = [stream EXCEPT ![m] = row]
      PROVE  MovedTo(m, k, state)
  <2>1. row \in Message
    BY <1>3 DEF Message
  <2>2. m \in DOMAIN stream
    BY DEF Messages
  <2> QED
    BY <1>1, <1>2, <1>3, <2>1, <2>2, ExceptFacts DEF MovedTo, Messages
<1>4. ASSUME stream' = [stream EXCEPT ![m].state = state] PROVE MovedTo(m, n, state)
  <2>1. [stream[m] EXCEPT !.state = state] = [job |-> j, delivered |-> n, state |-> state]
    BY <1>1
  <2>2. stream' = [stream EXCEPT ![m] = [stream[m] EXCEPT !.state = state]]
    BY <1>4
  <2> QED
    BY <1>3, <2>1, <2>2
<1>5. ASSUME stream' = [stream EXCEPT ![m].state = state, ![m].delivered = @ + 1] PROVE MovedTo(m, n + 1, state)
  <2>1. PICK v : v = [stream EXCEPT ![m].state = state]
    OBVIOUS
  <2>2. v[m] = [job |-> j, delivered |-> n, state |-> state] /\ v = [stream EXCEPT ![m] = v[m]]
    BY <1>1, <1>2, <2>1 DEF Messages
  <2>3. stream' = [v EXCEPT ![m].delivered = @ + 1]
    BY <1>2, <1>5, <2>1 DEF Messages
  <2>4. stream' = [v EXCEPT ![m] = [v[m] EXCEPT !.delivered = v[m].delivered + 1]]
    BY <2>3
  <2>5. [v[m] EXCEPT !.delivered = v[m].delivered + 1] = [job |-> j, delivered |-> n + 1, state |-> state]
    BY <2>2
  <2>6. stream' = [stream EXCEPT ![m] = [job |-> j, delivered |-> n + 1, state |-> state]]
    BY <2>2, <2>4, <2>5
  <2>7. PICK k, row : k = n + 1 /\ row = [job |-> j, delivered |-> k, state |-> state]
    OBVIOUS
  <2>8. k \in Nat /\ stream' = [stream EXCEPT ![m] = row]
    BY <2>6, <2>7
  <2> QED
    BY <1>3, <2>7, <2>8
<1> QED
  BY <1>1, <1>4, <1>5

\* A message that moves keeps the links of everything that names it.
LEMMA MovedGrows ==
  ASSUME AssetConstants, Typed, Linked, NEW m \in Messages, NEW n, n \in {stream[m].delivered, stream[m].delivered + 1},
         n <= max_deliver, NEW state, MovedTo(m, n, state)
  PROVE  /\ MessagesGrow
         /\ \A e \in Messages' : stream'[e].delivered \in 0 .. max_deliver /\ e \in Messages /\ stream'[e].job = stream[e].job
<1>1. \A e \in Messages : stream[e].delivered \in Nat /\ stream[e].delivered <= max_deliver
  BY Rows DEF Message, Linked
<1>2. stream'[m].delivered = n /\ stream'[m].job = stream[m].job
  BY DEF MovedTo
<1>3. ASSUME NEW e \in Messages
      PROVE  /\ stream'[e].job = stream[e].job /\ stream[e].delivered <= stream'[e].delivered
             /\ stream'[e].delivered \in 0 .. max_deliver
  <2>1. stream[e].delivered \in Nat /\ stream[e].delivered <= max_deliver /\ max_deliver \in Nat
    BY <1>1 DEF AssetConstants
  <2>2. CASE e = m
    BY <1>2, <2>1, <2>2
  <2>3. CASE e # m
    BY <2>1, <2>3 DEF MovedTo
  <2> QED
    BY <2>2, <2>3
<1> QED
  BY <1>3 DEF MovedTo, MessagesGrow

DeliverFacts(m) ==
  /\ MovedTo(m, stream[m].delivered + 1, "pending")
  /\ DOMAIN worker'.buffer = 1 .. Len(worker.buffer) + 1
  /\ \A i \in DOMAIN worker.buffer : worker'.buffer[i] = worker.buffer[i]
  /\ worker'.buffer[Len(worker.buffer) + 1] = [msg |-> m, delivered |-> stream[m].delivered + 1]
  /\ worker'.hand = worker.hand
  /\ UNCHANGED <<product, jobs, objects, reports, mishaps>>

LEMMA DeliverStep ==
  ASSUME AssetConstants, AssetInv, NEW m \in Messages, Deliver(m)
  PROVE  Typed' /\ Linked' /\ Grows /\ DeliverFacts(m)
<1>1. Typed /\ Linked /\ stream[m].delivered \in Nat /\ stream[m].delivered < max_deliver /\ m \in Nat
  BY Rows DEF AssetInv, Message, Deliver
<1>2. PICK d : d = [msg |-> m, delivered |-> stream[m].delivered + 1]
  OBVIOUS
<1>3. d \in Delivery /\ d.msg = m /\ d.delivered = stream[m].delivered + 1
  BY <1>1, <1>2 DEF Delivery
<1>4. PICK b, h : worker = [buffer |-> b, hand |-> h] /\ b \in Seq(Delivery) /\ h \in Hand \cup {None}
  BY <1>1 DEF Typed
<1>5. worker' = [buffer |-> Append(b, d), hand |-> h]
  BY <1>2, <1>4 DEF Deliver
<1>6. PICK c : c = Append(b, d)
  OBVIOUS
<1>7. /\ c \in Seq(Delivery) /\ DOMAIN c = 1 .. Len(b) + 1 /\ DOMAIN b = 1 .. Len(b) /\ Len(c) = Len(b) + 1
      /\ c[Len(b) + 1] = d /\ \A i \in 1 .. Len(b) : c[i] = b[i]
  BY <1>3, <1>4, <1>6, AppendFacts
<1>8. MovedTo(m, stream[m].delivered + 1, "pending")
  BY <1>1, MessageMoves DEF Deliver
<1>9. MessagesGrow /\ \A e \in Messages' : stream'[e].delivered \in 0 .. max_deliver /\ e \in Messages /\ stream'[e].job = stream[e].job
  BY <1>1, <1>8, MovedGrows DEF AssetConstants
<1>10. Grows
  BY <1>1, <1>9, SameStays DEF Grows, Deliver
<1>11. Typed'
  <2>1. worker' \in [buffer : Seq(Delivery), hand : Hand \cup {None}]
    BY <1>4, <1>5, <1>6, <1>7
  <2> QED
    BY <1>1, <1>8, <2>1 DEF Typed, MovedTo, Deliver
<1>12. DeliverFacts(m)
  BY <1>2, <1>4, <1>5, <1>6, <1>7, <1>8 DEF DeliverFacts, Deliver
<1>13. Linked'
  <2>1. \A i \in DOMAIN c : Points(c[i]) \/ NowPoints(c[i])
    <3>1. NowPoints(d)
      BY <1>1, <1>3, <1>8 DEF NowPoints, MovedTo
    <3> QED
      BY <1>1, <1>4, <1>7, <3>1 DEF Linked
  <2>2. RowsGrow /\ jobs' = jobs /\ reports' = reports
    BY <1>1, SameStays DEF Deliver
  <2>3. Len(b) < Prefetch /\ Len(b) \in Nat /\ Prefetch \in Nat
    BY <1>4 DEF Deliver, AssetConstants
  <2> QED
    BY <1>1, <1>4, <1>5, <1>6, <1>7, <1>9, <2>1, <2>2, <2>3, LinkedStays DEF Linked, Jobs
<1> QED
  BY <1>10, <1>11, <1>12, <1>13

\* Nothing is announced or delivered.
SameCounts ==
  /\ Messages' = Messages
  /\ \A m \in Messages : stream'[m].job = stream[m].job /\ stream'[m].delivered = stream[m].delivered

LEMMA MovedCounts ==
  ASSUME NEW m \in Messages, NEW state, MovedTo(m, stream[m].delivered, state)
  PROVE  SameCounts
<1>1. stream'[m].job = stream[m].job /\ stream'[m].delivered = stream[m].delivered
  BY DEF MovedTo
<1> QED
  BY <1>1 DEF MovedTo, SameCounts

\* A step that delivers nothing and adds no job, on a worker whose buffer does not grow.
LEMMA QuietStep ==
  ASSUME AssetConstants, AssetInv, stream' \in Seq(Message), SameCounts, jobs' = jobs, objects' = objects,
         product' = product, worker'.hand \in {None, worker.hand},
         worker' \in [buffer : Seq(Delivery), hand : Hand \cup {None}],
         worker'.buffer = worker.buffer \/ worker'.buffer = << >>,
         reports' \subseteq reports, mishaps' \in [count : Nat, lost : SUBSET Nat, behind : SUBSET Nat], MishapsGrow
  PROVE  Typed' /\ Linked' /\ Grows
<1>1. Typed /\ Linked
  BY DEF AssetInv
<1>2. \A m \in Messages : stream[m].delivered \in 0 .. max_deliver
  BY <1>1, Rows DEF Message, Linked, AssetConstants
<1>3. MessagesGrow
  BY <1>2 DEF SameCounts, MessagesGrow
<1>4. Grows
  BY <1>1, <1>3, SameStays DEF Grows
<1>5. Typed'
  BY <1>1 DEF Typed
<1>6. Linked'
  <2>1. Len(worker'.buffer) <= Prefetch /\ \A i \in DOMAIN worker'.buffer : Points(worker'.buffer[i])
    <3>1. CASE worker'.buffer = << >>
      BY <3>1 DEF AssetConstants
    <3>2. CASE worker'.buffer = worker.buffer
      BY <1>1, <3>2 DEF Linked
    <3> QED
      BY <3>1, <3>2
  <2>2. worker'.hand # None => Points(worker'.hand)
    BY <1>1 DEF Linked
  <2>3. \A r \in reports' : r.job \in Jobs
    BY <1>1 DEF Linked
  <2>4. \A m \in Messages' : stream'[m].delivered \in 0 .. max_deliver /\ m \in Messages
    BY <1>2 DEF SameCounts
  <2> QED
    BY <1>1, <1>4, <2>1, <2>2, <2>3, <2>4, LinkedStays DEF Grows, Jobs
<1> QED
  BY <1>4, <1>5, <1>6

LEMMA AckWaitStep ==
  ASSUME AssetConstants, AssetInv, NEW m \in Messages, AckWaitOver(m)
  PROVE  /\ Typed' /\ Linked' /\ Grows /\ SameCounts /\ MovedTo(m, stream[m].delivered, "waiting")
         /\ UNCHANGED <<product, jobs, worker, objects, reports>> /\ Late' = Late
<1>1. Typed /\ worker \in [buffer : Seq(Delivery), hand : Hand \cup {None}]
  BY DEF AssetInv, Typed
<1>2. MovedTo(m, stream[m].delivered, "waiting")
  BY <1>1, MessageMoves DEF AckWaitOver
<1>3. SameCounts /\ stream' \in Seq(Message)
  BY <1>2, MovedCounts DEF MovedTo
<1>4. /\ mishaps' \in [count : Nat, lost : SUBSET Nat, behind : SUBSET Nat]
      /\ mishaps'.lost = mishaps.lost /\ mishaps'.behind = mishaps.behind
  BY <1>1, FaultOrNone DEF AckWaitOver
<1>5. Typed' /\ Linked' /\ Grows
  BY <1>1, <1>3, <1>4, QuietStep DEF AckWaitOver, MishapsGrow
<1> QED
  BY <1>2, <1>3, <1>4, <1>5 DEF AckWaitOver, Late

SettleFacts ==
  /\ SameCounts /\ UNCHANGED <<product, jobs, objects, reports>>
  /\ worker.hand # None /\ worker.hand.step = "settle" /\ worker'.hand = None /\ worker'.buffer = worker.buffer
  /\ Late' = Late /\ mishaps'.lost = mishaps.lost
  /\ \A m \in Messages :
       stream'[m].state # stream[m].state => m = worker.hand.msg /\ (worker.hand.ack = "nak" => stream'[m].state = "waiting")

LEMMA SettleStep ==
  ASSUME AssetConstants, AssetInv, settle
  PROVE  Typed' /\ Linked' /\ Grows /\ SettleFacts
<1>1. Typed /\ Linked /\ stream \in Seq(Message) /\ worker.hand # None /\ worker.hand.step = "settle"
  BY DEF AssetInv, Typed, settle
<1>2. PICK m \in Messages : m = worker.hand.msg
  BY <1>1, HandFacts
<1>3. worker' = [buffer |-> worker.buffer, hand |-> None] /\ worker.buffer \in Seq(Delivery)
  BY <1>1 DEF Typed, settle
<1>4. /\ mishaps' \in [count : Nat, lost : SUBSET Nat, behind : SUBSET Nat]
      /\ mishaps'.lost = mishaps.lost /\ mishaps'.behind = mishaps.behind
  BY <1>1, FaultOrNone DEF settle
<1>5. /\ stream' \in Seq(Message) /\ SameCounts
      /\ \A e \in Messages :
           stream'[e].state # stream[e].state => e = m /\ (worker.hand.ack = "nak" => stream'[e].state = "waiting")
  <2>1. CASE stream' = stream
    BY <1>1, <2>1 DEF SameCounts, Messages
  <2>2. CASE stream' # stream
    <3>1. PICK state \in {"waiting", "gone"} : /\ stream' = [stream EXCEPT ![m].state = state]
                                               /\ worker.hand.ack = "nak" => state = "waiting"
      BY <1>2, <2>2 DEF settle, Settled
    <3>2. MovedTo(m, stream[m].delivered, state)
      BY <1>1, <3>1, MessageMoves
    <3>3. stream'[m].state = state
      BY <3>2 DEF MovedTo
    <3> QED
      BY <3>1, <3>2, <3>3, MovedCounts DEF MovedTo
  <2> QED
    BY <2>1, <2>2
<1>6. Typed' /\ Linked' /\ Grows
  BY <1>3, <1>4, <1>5, QuietStep DEF settle, MishapsGrow
<1> QED
  BY <1>1, <1>2, <1>3, <1>4, <1>5, <1>6 DEF SettleFacts, settle, Late

CrashFacts ==
  /\ UNCHANGED <<product, jobs, stream, objects>> /\ reports' \subseteq reports
  /\ worker'.hand = None /\ worker'.buffer = << >> /\ mishaps'.behind = mishaps.behind
  /\ \A m \in Messages : InHand(m) \/ (\E i \in DOMAIN worker.buffer : worker.buffer[i].msg = m) =>
       stream[m].job \in mishaps'.lost

LEMMA CrashStep ==
  ASSUME AssetConstants, AssetInv, Crash
  PROVE  Typed' /\ Linked' /\ Grows /\ CrashFacts
<1>1. Typed /\ stream \in Seq(Message)
  BY DEF AssetInv, Typed
<1>2. PICK gone : gone = {stream[m].job : m \in {n \in Messages : InHand(n) \/ \E i \in DOMAIN worker.buffer :
                                                                 worker.buffer[i].msg = n}}
  OBVIOUS
<1>3. gone \in SUBSET Nat
  <2>1. \A m \in Messages : stream[m].job \in Nat
    BY <1>1, Rows DEF Message
  <2> QED
    BY <1>2, <2>1
<1>4. mishaps' = Faulted(gone)
  BY <1>2 DEF Crash
<1>5. /\ mishaps' \in [count : Nat, lost : SUBSET Nat, behind : SUBSET Nat]
      /\ mishaps'.lost = mishaps.lost \cup gone /\ mishaps'.behind = mishaps.behind
  BY <1>1, <1>3, <1>4, FaultFacts
<1>6. worker' = [buffer |-> << >>, hand |-> None]
  BY DEF Crash
<1>7. worker' \in [buffer : Seq(Delivery), hand : Hand \cup {None}] /\ worker'.hand = None /\ worker'.buffer = << >>
  BY <1>6, EmptySeq
<1>8. Typed' /\ Linked' /\ Grows
  BY <1>1, <1>5, <1>7, QuietStep DEF Crash, Unserved, MishapsGrow, SameCounts, Messages
<1>9. \A m \in Messages : InHand(m) \/ (\E i \in DOMAIN worker.buffer : worker.buffer[i].msg = m) =>
        stream[m].job \in gone
  BY <1>2
<1> QED
  BY <1>5, <1>7, <1>8, <1>9 DEF CrashFacts, Crash, Unserved

HandleFacts ==
  /\ UNCHANGED <<product, jobs, stream, objects, reports>> /\ worker.hand = None
  /\ 1 \in DOMAIN worker.buffer /\ worker'.hand # None /\ worker'.hand.step = "process"
  /\ worker'.hand.msg = worker.buffer[1].msg /\ worker'.hand.delivered = worker.buffer[1].delivered
  /\ DOMAIN worker'.buffer = 1 .. Len(worker.buffer) - 1
  /\ \A i \in DOMAIN worker'.buffer : i + 1 \in DOMAIN worker.buffer /\ worker'.buffer[i] = worker.buffer[i + 1]
  /\ mishaps'.lost = mishaps.lost /\ mishaps.behind \subseteq mishaps'.behind
  /\ worker.buffer[1].delivered > 1 => stream[worker.buffer[1].msg].job \in mishaps'.behind

LEMMA HandleStep ==
  ASSUME AssetConstants, AssetInv, handle_message
  PROVE  Typed' /\ Linked' /\ Grows /\ HandleFacts
<1>1. Typed /\ Linked /\ worker.buffer \in Seq(Delivery) /\ worker.buffer # << >> /\ worker.hand = None
  BY DEF AssetInv, Typed, handle_message
<1>2. PICK b, d : b = Tail(worker.buffer) /\ d = Head(worker.buffer)
  OBVIOUS
<1>3. /\ b \in Seq(Delivery) /\ DOMAIN b = 1 .. Len(worker.buffer) - 1 /\ d = worker.buffer[1] /\ 1 \in DOMAIN worker.buffer
      /\ Len(worker.buffer) \in Nat \ {0} /\ Len(b) = Len(worker.buffer) - 1
      /\ \A i \in DOMAIN b : i + 1 \in DOMAIN worker.buffer /\ b[i] = worker.buffer[i + 1]
  BY <1>1, <1>2, TailFacts
<1>4. d \in Delivery /\ Points(d) /\ \A i \in DOMAIN b : Points(b[i])
  BY <1>1, <1>3, Rows DEF Linked
<1>5. PICK h : h = [msg |-> d.msg, delivered |-> d.delivered, step |-> "process", status |-> None, ack |-> None]
  OBVIOUS
<1>6. h \in Hand /\ h.msg = d.msg /\ h.delivered = d.delivered /\ h.step = "process" /\ h # None /\ Points(h)
  <2>1. h \in Hand
    BY <1>4, <1>5 DEF Delivery, Hand
  <2> QED
    BY <1>4, <1>5, <2>1 DEF AssetConstants, Points
<1>7. worker' = [buffer |-> b, hand |-> h]
  BY <1>2, <1>5 DEF handle_message
<1>8. /\ mishaps' \in [count : Nat, lost : SUBSET Nat, behind : SUBSET Nat]
      /\ mishaps'.lost = mishaps.lost /\ mishaps.behind \subseteq mishaps'.behind
      /\ d.delivered > 1 => stream[d.msg].job \in mishaps'.behind
  <2>1. stream[d.msg].job \in Nat
    BY <1>1, <1>4, Rows DEF Points, Message
  <2>2. CASE d.delivered > 1
    <3>1. PICK u : u = mishaps.behind \cup {stream[d.msg].job}
      OBVIOUS
    <3>2. u \in SUBSET Nat /\ mishaps' = [mishaps EXCEPT !.behind = u]
      BY <1>1, <1>2, <2>1, <2>2, <3>1 DEF Typed, handle_message
    <3> QED
      BY <1>1, <3>1, <3>2 DEF Typed
  <2>3. CASE ~ (d.delivered > 1)
    BY <1>1, <1>2, <2>3 DEF Typed, handle_message
  <2> QED
    BY <2>2, <2>3
<1>9. Grows
  BY <1>1, <1>8, SameStays DEF Grows, MishapsGrow, handle_message
<1>10. Typed'
  <2>1. worker' \in [buffer : Seq(Delivery), hand : Hand \cup {None}]
    BY <1>3, <1>6, <1>7
  <2>2. UNCHANGED <<product, jobs, stream, objects, reports>>
    BY DEF handle_message
  <2> QED
    BY <1>1, <1>8, <2>1, <2>2 DEF Typed
<1>11. Linked'
  <2>1. \A m \in Messages' : stream'[m].delivered \in 0 .. max_deliver /\ m \in Messages
    BY <1>1, Rows DEF Message, Linked, AssetConstants, handle_message, Messages
  <2>2. Len(b) <= Prefetch
    BY <1>1, <1>3 DEF Linked, AssetConstants
  <2> QED
    BY <1>1, <1>4, <1>6, <1>7, <1>9, <2>1, <2>2, LinkedStays DEF Grows, Jobs, Linked, handle_message
<1>12. HandleFacts
  BY <1>1, <1>3, <1>6, <1>7, <1>8 DEF HandleFacts, handle_message
<1> QED
  BY <1>9, <1>10, <1>11, <1>12

ResultFacts(r) ==
  /\ UNCHANGED <<stream, worker, objects, mishaps>> /\ Jobs' = Jobs
  /\ \A j \in Jobs : /\ jobs'[j].type = jobs[j].type /\ jobs'[j].version = jobs[j].version /\ jobs'[j].look = jobs[j].look
                     /\ j # r.job => jobs'[j].status = jobs[j].status
  /\ jobs'[r.job].status = IF jobs[r.job].status = "ready" THEN "ready" ELSE r.status
  /\ product' = IF r.status = "ready" /\ jobs[r.job].status # "ready" THEN Published(r.job) ELSE product
  /\ r.step = "sent"
  /\ \E q : /\ reports' = (reports \ {r}) \cup {q}
            /\ q.job = r.job /\ q.status = r.status /\ q.step = "served"

LEMMA ResultStep ==
  ASSUME AssetConstants, AssetInv, NEW r \in reports, ReportAssetJobResult(r)
  PROVE  Typed' /\ Linked' /\ Grows /\ ResultFacts(r)
<1>1. Typed /\ Linked /\ r.job \in Jobs /\ jobs \in Seq(JobRow) /\ \A j \in Jobs : jobs[j] \in JobRow
  BY Rows DEF AssetInv, Typed, Linked
<1>2. r \in [job : Nat, status : {"ready", "failed"}, step : {"sent", "served"}] /\ r.step = "sent"
  BY <1>1 DEF Typed, ReportAssetJobResult
<1>3. PICK q : q = [r EXCEPT !.step = "served"]
  OBVIOUS
<1>4. /\ q \in [job : Nat, status : {"ready", "failed"}, step : {"sent", "served"}]
      /\ q.job = r.job /\ q.status = r.status /\ q.step = "served"
  BY <1>2, <1>3
<1>5. /\ UNCHANGED <<stream, worker, objects, mishaps>> /\ reports' = (reports \ {r}) \cup {q}
  BY <1>3 DEF ReportAssetJobResult
<1>6. /\ jobs' \in Seq(JobRow) /\ Jobs' = Jobs
      /\ jobs'[r.job].status = IF jobs[r.job].status = "ready" THEN "ready" ELSE r.status
      /\ \A j \in Jobs : /\ jobs'[j].type = jobs[j].type /\ jobs'[j].version = jobs[j].version /\ jobs'[j].look = jobs[j].look
                         /\ j # r.job => jobs'[j].status = jobs[j].status
  <2>1. CASE jobs[r.job].status = "ready"
    BY <1>1, <2>1 DEF ReportAssetJobResult, Jobs
  <2>2. CASE jobs[r.job].status # "ready"
    <3>1. jobs' = [jobs EXCEPT ![r.job].status = r.status]
      BY <2>2 DEF ReportAssetJobResult
    <3>2. PICK row : row = [jobs[r.job] EXCEPT !.status = r.status]
      OBVIOUS
    <3>3. jobs' = [jobs EXCEPT ![r.job] = row]
      BY <3>1, <3>2
    <3>4. /\ row \in JobRow /\ row.status = r.status
          /\ row.type = jobs[r.job].type /\ row.version = jobs[r.job].version /\ row.look = jobs[r.job].look
      BY <1>1, <1>2, <3>2 DEF JobRow
    <3>5. /\ jobs' \in Seq(JobRow) /\ DOMAIN jobs' = DOMAIN jobs
          /\ jobs'[r.job] = row /\ \A j \in DOMAIN jobs : j # r.job => jobs'[j] = jobs[j]
      BY <1>1, <3>3, <3>4, ExceptFacts DEF Jobs
    <3> QED
      BY <1>1, <2>2, <3>4, <3>5 DEF Jobs
  <2> QED
    BY <2>1, <2>2
<1>7. product' = IF r.status = "ready" /\ jobs[r.job].status # "ready" THEN Published(r.job) ELSE product
  BY DEF ReportAssetJobResult
<1>8. product' \in [model : Versions \cup {None}, structured : Named \cup {None}, sprite : Versions \cup {None}, look : Nat]
  <2>1. product \in [model : Versions \cup {None}, structured : Named \cup {None}, sprite : Versions \cup {None}, look : Nat]
    BY <1>1 DEF Typed
  <2>2. PICK v \in Versions : v = jobs[r.job].version
    BY <1>1 DEF JobRow
  <2>3. PICK s \in Named \cup {None} : s = IF v \in Named THEN v ELSE product.structured
    BY <2>1
  <2>4. Published(r.job) = [product EXCEPT !.model = v, !.structured = s] \/ Published(r.job) = [product EXCEPT !.sprite = v]
    BY <2>1, <2>2, <2>3 DEF Published
  <2>5. /\ [product EXCEPT !.model = v, !.structured = s] \in [model : Versions \cup {None}, structured : Named \cup {None}, sprite : Versions \cup {None}, look : Nat]
        /\ [product EXCEPT !.sprite = v] \in [model : Versions \cup {None}, structured : Named \cup {None}, sprite : Versions \cup {None}, look : Nat]
    BY <2>1
  <2> QED
    BY <1>7, <2>1, <2>4, <2>5
<1>9. Typed'
  BY <1>1, <1>4, <1>5, <1>6, <1>8 DEF Typed
<1>10. RowsGrow
  <2>1. jobs[r.job].status \in {"queued", "ready", "failed"} /\ r.status \in {"ready", "failed"}
    BY <1>1, <1>2 DEF JobRow
  <2> QED
    BY <1>6, <2>1 DEF RowsGrow
<1>11. Grows
  BY <1>1, <1>5, <1>10, SameStays DEF Grows
<1>12. Linked'
  <2>1. \A m \in Messages' : stream'[m].delivered \in 0 .. max_deliver /\ m \in Messages
    BY <1>1, <1>5, Rows DEF Message, Linked, AssetConstants, Messages
  <2>2. \A s \in reports' : s.job \in Jobs
    BY <1>1, <1>4, <1>5 DEF Linked
  <2> QED
    BY <1>1, <1>5, <1>6, <1>11, <2>1, <2>2, LinkedStays DEF Grows, Linked
<1> QED
  BY <1>2, <1>4, <1>5, <1>6, <1>7, <1>9, <1>11, <1>12 DEF ResultFacts

-----------------------------------------------------------------------------
(* Every step is one of these, keeps the types and links, and only adds.      *)
StepCases ==
  \/ UpdateColor
  \/ CreateFacts
  \/ \E j \in Jobs \ Announced : AnnounceFacts(j) /\ PassedOver(j)
  \/ \E j \in Announced : AnnounceFacts(j) /\ mishaps'.behind = mishaps.behind \cup {j}
  \/ \E m \in Messages : Deliver(m) /\ DeliverFacts(m)
  \/ \E m \in Messages : SameCounts /\ stream[m].state = "pending" /\ MovedTo(m, stream[m].delivered, "waiting")
                         /\ UNCHANGED <<product, jobs, worker, objects, reports>> /\ Late' = Late
  \/ HandleFacts
  \/ Working /\ HandMoves
  \/ SettleFacts
  \/ CrashFacts
  \/ \E r \in reports : ResultFacts(r)

LEMMA EveryStep ==
  ASSUME AssetConstants, AssetInv, AssetNext
  PROVE  Typed' /\ Linked' /\ Grows /\ StepCases
<1>1. CASE UpdateColor
  BY <1>1, UpdateColorStep DEF StepCases
<1>2. CASE \E type \in {"model_ingest", "sprite_render"}, v \in Versions : CreateAssetJob(type, v)
  BY <1>2, CreateStep DEF StepCases
<1>3. CASE Publish
  BY <1>3, PublishStep DEF StepCases
<1>4. CASE \E j \in Jobs : PublishAgain(j)
  BY <1>4, PublishAgainStep DEF StepCases
<1>5. CASE \E m \in Messages : Deliver(m)
  BY <1>5, DeliverStep DEF StepCases
<1>6. CASE \E m \in Messages : AckWaitOver(m)
  <2>1. PICK m \in Messages : AckWaitOver(m)
    BY <1>6
  <2>2. stream[m].state = "pending"
    BY <2>1 DEF AckWaitOver
  <2> QED
    BY <2>1, <2>2, AckWaitStep DEF StepCases
<1>7. CASE handle_message
  BY <1>7, HandleStep DEF StepCases
<1>8. CASE Working
  BY <1>8, WorkingStep DEF StepCases
<1>9. CASE settle
  BY <1>9, SettleStep DEF StepCases
<1>10. CASE Crash
  BY <1>10, CrashStep DEF StepCases
<1>11. CASE \E r \in reports : ReportAssetJobResult(r)
  BY <1>11, ResultStep DEF StepCases
<1> QED
  BY <1>1, <1>2, <1>3, <1>4, <1>5, <1>6, <1>7, <1>8, <1>9, <1>10, <1>11 DEF AssetNext, Working

-----------------------------------------------------------------------------
\* What is made stays made.
LEMMA MadeStays ==
  ASSUME Typed, Grows, NEW j \in Jobs, Made(j)
  PROVE  Made(j)'
<1>1. jobs[j].version \in Versions
  BY Rows DEF JobRow
<1> QED
  BY <1>1 DEF Made, Grows, RowsGrow, ObjectsGrow

\* The stream keeps its order when job j is announced, or announced again.
LEMMA AnnounceStreamed ==
  ASSUME Typed, Linked, Streamed, NEW j \in Jobs, AnnounceFacts(j), MishapsGrow,
         \/ j \in Announced /\ j \in mishaps'.behind
         \/ j \notin Announced /\ PassedOver(j)
  PROVE  Streamed'
<1>1. /\ Messages = 1 .. Len(stream) /\ Len(stream) \in Nat /\ Jobs' = Jobs
  BY Rows DEF AnnounceFacts, Jobs
<1>2. PICK l \in Nat : l = Len(stream) + 1
  BY <1>1
<1>3. /\ Messages' = Messages \cup {l} /\ l \notin Messages /\ \A m \in Messages : m < l
      /\ stream'[l].job = j /\ stream'[l].delivered = 0
      /\ \A m \in Messages : stream'[m] = stream[m]
  BY <1>1, <1>2 DEF AnnounceFacts
<1>4. \A k \in Jobs : k \notin mishaps'.behind => k \notin mishaps.behind
  BY DEF MishapsGrow
<1>5. ASSUME NEW k \in Jobs, k \notin mishaps'.behind, k < j PROVE k \in Announced
  <2>1. CASE j \in Announced
    BY <1>4, <1>5, <2>1 DEF Streamed, Announced
  <2>2. CASE j \notin Announced
    BY <1>5, <2>2 DEF PassedOver
  <2> QED
    BY <2>1, <2>2
<1>6. ASSUME NEW m \in Messages', NEW k \in Jobs', k \notin mishaps'.behind, k < stream'[m].job
      PROVE  \E e \in Messages' : e < m /\ stream'[e].job = k
  <2>1. CASE m \in Messages
    <3>1. stream'[m].job = stream[m].job /\ k \in Jobs \ mishaps.behind
      BY <1>1, <1>3, <1>4, <1>6, <2>1
    <3>2. PICK e \in Messages : e < m /\ stream[e].job = k
      BY <1>6, <2>1, <3>1 DEF Streamed
    <3> QED
      BY <1>3, <3>2
  <2>2. CASE m = l
    <3>1. k \in Announced
      BY <1>1, <1>3, <1>5, <1>6, <2>2
    <3> QED
      BY <1>3, <2>2, <3>1 DEF Announced
  <2> QED
    BY <1>3, <2>1, <2>2
<1>7. ASSUME NEW e \in Messages', NEW m \in Messages', stream'[e].job = stream'[m].job, stream'[m].job \notin mishaps'.behind
      PROVE  e = m
  <2>1. CASE e \in Messages /\ m \in Messages
    BY <1>3, <1>7, <2>1 DEF Streamed, MishapsGrow
  <2>2. CASE e = l \/ m = l
    BY <1>3, <1>7, <2>2 DEF Announced
  <2> QED
    BY <1>3, <2>1, <2>2
<1>8. ASSUME NEW e \in Messages', NEW m \in Messages', e < m, stream'[m].delivered > 0
      PROVE  stream'[e].delivered > 0
  <2>1. m \in Messages /\ e \in Messages
    BY <1>1, <1>2, <1>3, <1>8
  <2> QED
    BY <1>3, <1>8, <2>1 DEF Streamed
<1> QED
  BY <1>6, <1>7, <1>8 DEF Streamed

\* It keeps it when jobs are added and faults happen.
LEMMA CountsStreamed ==
  ASSUME AssetConstants, AssetInv, Typed', Grows, SameCounts
  PROVE  Streamed'
<1>1. /\ Typed /\ Linked /\ Streamed
      /\ Jobs = 1 .. Len(jobs) /\ Len(jobs) \in Nat /\ Messages = 1 .. Len(stream) /\ Len(stream) \in Nat
  BY Rows DEF AssetInv
<1>2. /\ Jobs' = 1 .. Len(jobs') /\ Len(jobs') \in Nat
      /\ \A m \in Messages : stream[m].delivered \in Nat /\ stream[m].job \in Jobs
  BY <1>1, Rows, LenProperties DEF Typed, Linked, Message, Jobs
<1>3. Len(jobs) <= Len(jobs') /\ \A j \in Jobs' \ Jobs : j > Len(jobs)
  BY <1>1, <1>2 DEF Grows, RowsGrow
<1>6. ASSUME NEW m \in Messages, NEW j \in Jobs', j \notin mishaps'.behind, j < stream[m].job
      PROVE  \E e \in Messages : e < m /\ stream[e].job = j
  <2>1. j \in Jobs \ mishaps.behind
    BY <1>1, <1>2, <1>3, <1>6 DEF Grows, MishapsGrow
  <2> QED
    BY <1>1, <1>6, <2>1 DEF Streamed
<1>7. \A e, m \in Messages : stream[e].job = stream[m].job /\ stream[m].job \notin mishaps'.behind => e = m
  BY <1>1 DEF Streamed, Grows, MishapsGrow
<1>8. \A e, m \in Messages : e < m /\ stream[m].delivered > 0 => stream[e].delivered > 0
  BY <1>1 DEF Streamed
<1> QED
  BY <1>6, <1>7, <1>8 DEF Streamed, SameCounts

\* A first delivery comes after those of all earlier messages.
LEMMA DeliverStreamed ==
  ASSUME AssetConstants, AssetInv, NEW m \in Messages, Deliver(m), DeliverFacts(m)
  PROVE  Streamed'
<1>1. /\ Typed /\ Streamed /\ Messages = 1 .. Len(stream) /\ Len(stream) \in Nat
      /\ \A e \in Messages : stream[e].delivered \in Nat
  BY Rows DEF AssetInv, Message
<1>2. /\ Messages' = Messages /\ \A e \in Messages : stream'[e].job = stream[e].job
      /\ stream'[m].delivered = stream[m].delivered + 1
      /\ \A e \in Messages : e # m => stream'[e].delivered = stream[e].delivered
      /\ jobs' = jobs /\ mishaps' = mishaps
  BY DEF DeliverFacts, MovedTo
<1>4. ASSUME NEW e \in Messages, e < m PROVE stream[e].delivered > 0
  BY <1>1, <1>4 DEF Deliver, Streamed
<1>5. ASSUME NEW e \in Messages, NEW f \in Messages, e < f, stream'[f].delivered > 0 PROVE stream'[e].delivered > 0
  <2>1. stream[e].delivered > 0
    BY <1>1, <1>2, <1>4, <1>5 DEF Streamed
  <2> QED
    BY <1>1, <1>2, <2>1
<1> QED
  <2>1. /\ \A e \in Messages : \A j \in Jobs \ mishaps.behind :
             j < stream[e].job => \E f \in Messages : f < e /\ stream[f].job = j
        /\ \A e, f \in Messages : stream[e].job = stream[f].job /\ stream[f].job \notin mishaps.behind => e = f
    BY <1>1 DEF Streamed
  <2>2. Jobs' = Jobs
    BY <1>2 DEF Jobs
  <2>4. \A e \in Messages : \A j \in Jobs \ mishaps'.behind :
          j < stream'[e].job => \E f \in Messages : f < e /\ stream'[f].job = j
    BY <1>2, <2>1
  <2>5. \A e, f \in Messages : stream'[e].job = stream'[f].job /\ stream'[f].job \notin mishaps'.behind => e = f
    BY <1>2, <2>1
  <2> QED
    BY <1>2, <1>5, <2>2, <2>4, <2>5 DEF Streamed

LEMMA StreamedNext ==
  ASSUME AssetConstants, AssetInv, AssetNext
  PROVE  Streamed'
<1>1. Typed /\ Linked /\ Streamed /\ Typed' /\ Grows /\ StepCases
  BY EveryStep DEF AssetInv
<1>2. Announced \subseteq Jobs
  BY <1>1 DEF Announced, Linked
<1>4. CASE \E j \in Jobs \ Announced : AnnounceFacts(j) /\ PassedOver(j)
  BY <1>1, <1>4, AnnounceStreamed DEF Grows
<1>5. CASE \E j \in Announced : AnnounceFacts(j) /\ mishaps'.behind = mishaps.behind \cup {j}
  BY <1>1, <1>2, <1>5, AnnounceStreamed DEF Grows
<1>6. CASE \E m \in Messages : Deliver(m) /\ DeliverFacts(m)
  BY <1>6, DeliverStreamed
<1>7. CASE SameCounts
  BY <1>1, <1>7, CountsStreamed
<1> QED
  BY <1>1, <1>4, <1>5, <1>6, <1>7
     DEF StepCases, UpdateColor, CreateFacts, HandleFacts, HandMoves, SettleFacts, CrashFacts, ResultFacts, SameCounts, Messages

-----------------------------------------------------------------------------
\* No job is forgotten when its messages keep their state and their last delivery.
LEMMA KeptStays ==
  ASSUME Kept, Linked, Grows,
         \A m \in Messages' \ Messages : stream'[m].state # "gone" /\ stream'[m].delivered # max_deliver,
         \A m \in Messages : jobs[stream[m].job].status = "queued" /\ stream[m].state # "gone" =>
           stream'[m].state # "gone",
         \A m \in Messages :
           /\ jobs[stream[m].job].status = "queued" /\ stream'[m].delivered = max_deliver
           /\ stream[m].delivered = max_deliver => LastDelivery(m)
           => LastDelivery(m)'
  PROVE  Kept'
<1> SUFFICES ASSUME NEW m \in Messages', jobs'[stream'[m].job].status = "queued"
             PROVE  stream'[m].state # "gone" /\ (stream'[m].delivered = max_deliver => LastDelivery(m)')
  BY DEF Kept
<1>1. CASE m \notin Messages
  BY <1>1
<1>2. CASE m \in Messages
  <2>1. stream'[m].job = stream[m].job /\ stream[m].job \in Jobs
    BY <1>2 DEF Grows, MessagesGrow, Linked
  <2>2. jobs[stream[m].job].status = "queued"
    BY <2>1 DEF Grows, RowsGrow
  <2>3. stream[m].state # "gone" /\ (stream[m].delivered = max_deliver => LastDelivery(m))
    BY <1>2, <2>2 DEF Kept
  <2> QED
    BY <1>2, <2>2, <2>3
<1> QED
  BY <1>1, <1>2

\* The last delivery of a message stays where it is while the worker keeps what it has.
LEMMA LastDeliveryStays ==
  ASSUME Grows, NEW m \in Messages, LastDelivery(m),
         \A i \in DOMAIN worker.buffer : i \in DOMAIN worker'.buffer /\ worker'.buffer[i] = worker.buffer[i],
         worker.hand # None => /\ worker'.hand # None
                               /\ worker'.hand.msg = worker.hand.msg /\ worker'.hand.delivered = worker.hand.delivered
  PROVE  LastDelivery(m)'
<1>1. stream'[m].job = stream[m].job /\ mishaps.lost \subseteq mishaps'.lost
  BY DEF Grows, MessagesGrow, MishapsGrow
<1>2. CASE stream[m].job \in mishaps.lost
  BY <1>1, <1>2 DEF LastDelivery
<1>3. CASE \E i \in DOMAIN worker.buffer : worker.buffer[i] = [msg |-> m, delivered |-> max_deliver]
  BY <1>3 DEF LastDelivery
<1>4. CASE InHand(m) /\ worker.hand.delivered = max_deliver
  BY <1>4 DEF LastDelivery, InHand
<1> QED
  BY <1>2, <1>3, <1>4 DEF LastDelivery

LEMMA DeliverKept ==
  ASSUME AssetConstants, AssetInv, Grows, NEW m \in Messages, Deliver(m), DeliverFacts(m)
  PROVE  Kept'
<1>1. /\ Typed /\ Linked /\ Kept /\ Len(worker.buffer) \in Nat /\ DOMAIN worker.buffer = 1 .. Len(worker.buffer)
  BY Rows DEF AssetInv
<1>2. /\ Messages' = Messages /\ stream'[m].state = "pending" /\ stream'[m].delivered = stream[m].delivered + 1
      /\ \A e \in Messages : e # m => stream'[e] = stream[e]
  BY DEF DeliverFacts, MovedTo
<1>3. \A e \in Messages : LastDelivery(e) => LastDelivery(e)'
  BY <1>1, LastDeliveryStays DEF DeliverFacts
<1>4. stream'[m].delivered = max_deliver => LastDelivery(m)'
  <2>1. Len(worker.buffer) + 1 \in DOMAIN worker'.buffer
    BY <1>1 DEF DeliverFacts
  <2> QED
    BY <1>2, <2>1 DEF DeliverFacts, LastDelivery
<1> QED
  BY <1>1, <1>2, <1>3, <1>4, KeptStays

LEMMA HandleKept ==
  ASSUME AssetConstants, AssetInv, Grows, HandleFacts
  PROVE  Kept'
<1>1. /\ Typed /\ Linked /\ Kept /\ Len(worker.buffer) \in Nat /\ DOMAIN worker.buffer = 1 .. Len(worker.buffer)
      /\ \A i \in DOMAIN worker.buffer : worker.buffer[i] \in Delivery
  BY Rows DEF AssetInv
<1>2. ASSUME NEW m \in Messages, LastDelivery(m) PROVE LastDelivery(m)'
  <2>1. ~InHand(m) /\ stream' = stream
    BY DEF HandleFacts, InHand
  <2>2. CASE stream[m].job \in mishaps.lost
    BY <2>1, <2>2 DEF HandleFacts, LastDelivery
  <2>3. ASSUME NEW i \in DOMAIN worker.buffer, worker.buffer[i] = [msg |-> m, delivered |-> max_deliver]
        PROVE  LastDelivery(m)'
    <3>1. CASE i = 1
      BY <2>3, <3>1 DEF HandleFacts, LastDelivery, InHand
    <3>2. CASE i # 1
      <4>1. i - 1 \in DOMAIN worker'.buffer /\ (i - 1) + 1 = i
        BY <1>1, <3>2 DEF HandleFacts
      <4>2. worker'.buffer[i - 1] = worker.buffer[i]
        BY <4>1 DEF HandleFacts
      <4> QED
        BY <2>3, <4>1, <4>2 DEF LastDelivery
    <3> QED
      BY <3>1, <3>2
  <2> QED
    BY <1>2, <2>1, <2>2, <2>3 DEF LastDelivery
<1> QED
  BY <1>1, <1>2, KeptStays DEF HandleFacts, Messages

LEMMA SettleKept ==
  ASSUME AssetConstants, AssetInv, Grows, SettleFacts
  PROVE  Kept'
<1>1. Typed /\ Linked /\ Kept /\ HandSound /\ worker.hand # None /\ worker.hand.step = "settle"
  BY DEF AssetInv, SettleFacts
<1>2. /\ worker.hand.ack # "nak" => Job(worker.hand).status # "queued"
      /\ worker.hand.ack = "nak" => worker.hand.delivered < max_deliver \/ stream[worker.hand.msg].job \in mishaps.lost
  BY <1>1 DEF HandSound, Done, Job
<1>3. worker.hand.delivered \in Nat /\ max_deliver \in Nat
  BY <1>1, HandFacts DEF Hand, AssetConstants
<1>4. ASSUME NEW m \in Messages, jobs[stream[m].job].status = "queued", stream[m].state # "gone"
      PROVE  stream'[m].state # "gone"
  BY <1>1, <1>2, <1>4 DEF SettleFacts, Job
<1>5. ASSUME NEW m \in Messages, jobs[stream[m].job].status = "queued", LastDelivery(m) PROVE LastDelivery(m)'
  <2>1. stream'[m].job = stream[m].job /\ mishaps'.lost = mishaps.lost /\ worker'.buffer = worker.buffer
    BY DEF SettleFacts, SameCounts
  <2>2. CASE InHand(m) /\ worker.hand.delivered = max_deliver
    BY <1>2, <1>3, <1>5, <2>1, <2>2 DEF InHand, LastDelivery, Job
  <2> QED
    BY <1>5, <2>1, <2>2 DEF LastDelivery
<1>6. Messages' = Messages /\ \A m \in Messages : stream'[m].delivered = stream[m].delivered
  BY DEF SettleFacts, SameCounts
<1> QED
  BY <1>1, <1>4, <1>5, <1>6, KeptStays

LEMMA KeptNext ==
  ASSUME AssetConstants, AssetInv, AssetNext
  PROVE  Kept'
<1>1. Typed /\ Linked /\ Kept /\ Grows /\ StepCases /\ Typed' /\ Linked'
  BY EveryStep DEF AssetInv
<1>2. CASE \E m \in Messages : Deliver(m) /\ DeliverFacts(m)
  BY <1>1, <1>2, DeliverKept
<1>3. CASE HandleFacts
  BY <1>1, <1>3, HandleKept
<1>4. CASE SettleFacts
  BY <1>1, <1>4, SettleKept
<1>5. CASE CrashFacts
  <2>1. ASSUME NEW m \in Messages, LastDelivery(m) PROVE LastDelivery(m)'
    <3>1. stream' = stream /\ mishaps.lost \subseteq mishaps'.lost
      BY <1>1, <1>5 DEF CrashFacts, Grows, MishapsGrow
    <3>2. stream[m].job \in mishaps'.lost
      BY <1>5, <2>1, <3>1 DEF CrashFacts, LastDelivery
    <3> QED
      BY <3>1, <3>2 DEF LastDelivery
  <2> QED
    BY <1>1, <1>5, <2>1, KeptStays DEF CrashFacts, Messages
<1>6. ASSUME \/ worker' = worker
             \/ HandMoves
      PROVE  \A m \in Messages : LastDelivery(m) => LastDelivery(m)'
  BY <1>1, <1>6, LastDeliveryStays, HandAfter
<1>7. CASE \E j \in Jobs : AnnounceFacts(j)
  <2>1. /\ \A m \in Messages' \ Messages : stream'[m].state # "gone" /\ stream'[m].delivered = 0
        /\ \A m \in Messages : stream'[m] = stream[m] /\ worker' = worker
    <3>1. Messages = 1 .. Len(stream) /\ Len(stream) \in Nat
      BY <1>1, Rows
    <3> QED
      BY <1>7, <3>1 DEF AnnounceFacts
  <2>2. max_deliver # 0
    BY DEF AssetConstants
  <2> QED
    BY <1>1, <1>6, <1>7, <2>1, <2>2, KeptStays DEF AnnounceFacts
<1>8. CASE \E m \in Messages : MovedTo(m, stream[m].delivered, "waiting") /\ worker' = worker
  <2>1. PICK m \in Messages : MovedTo(m, stream[m].delivered, "waiting") /\ worker' = worker
    BY <1>8
  <2>2. /\ Messages' = Messages /\ stream'[m].state = "waiting" /\ stream'[m].delivered = stream[m].delivered
        /\ \A e \in Messages : e # m => stream'[e] = stream[e]
    BY <2>1 DEF MovedTo
  <2> QED
    BY <1>1, <1>6, <2>1, <2>2, KeptStays
<1>9. CASE stream' = stream /\ (worker' = worker \/ HandMoves)
  BY <1>1, <1>6, <1>9, KeptStays DEF Messages
<1>10. Announced \subseteq Jobs
  BY <1>1 DEF Announced, Linked
<1> QED
  BY <1>1, <1>2, <1>3, <1>4, <1>5, <1>7, <1>8, <1>9, <1>10 DEF StepCases, UpdateColor, CreateFacts, HandMoves, ResultFacts

-----------------------------------------------------------------------------
\* What the delivery in hand has done stays done while other components move.
LEMMA HandSoundStays ==
  ASSUME AssetConstants, AssetInv, Grows, worker'.hand = worker.hand, objects' = objects
  PROVE  HandSound'
<1> SUFFICES ASSUME worker.hand # None PROVE HandSound'
  BY DEF HandSound
<1>1. PICK h, j : h = worker.hand /\ j = stream[h.msg].job
  OBVIOUS
<1>2. Typed /\ h.msg \in Messages /\ j \in Jobs /\ Done(h, j)
  BY <1>1, HandFacts DEF AssetInv, HandSound
<1>3. /\ stream'[h.msg].job = j /\ jobs'[j].type = jobs[j].type /\ jobs'[j].version = jobs[j].version
      /\ jobs'[j].look = jobs[j].look
      /\ jobs[j].status # "queued" => jobs'[j].status # "queued"
      /\ mishaps.lost \subseteq mishaps'.lost
  BY <1>1, <1>2 DEF Grows, RowsGrow, MessagesGrow, MishapsGrow
<1>4. Made(j) => Made(j)'
  BY <1>2, MadeStays
<1>5. Done(h, j)'
  BY <1>2, <1>3, <1>4 DEF Done
<1> QED
  BY <1>1, <1>3, <1>5 DEF HandSound

\* The worker's own steps, each from what the code has done when it decides.
LEMMA WorkingHandSound ==
  ASSUME AssetConstants, AssetInv, Grows, Working, HandMoves
  PROVE  HandSound'
<1>1. PICK h, j, w : h = worker.hand /\ j = stream[h.msg].job /\ w = worker'.hand
  OBVIOUS
<1>2. /\ Typed /\ Linked /\ ReportsSound /\ h # None /\ h.msg \in Messages /\ j \in Jobs /\ h \in Hand
      /\ jobs[j] \in JobRow /\ Job(h) = jobs[j] /\ Done(h, j)
  BY <1>1, HandFacts DEF AssetInv, HandMoves, Job, HandSound
<1>3. /\ jobs' = jobs /\ stream' = stream /\ w.msg = h.msg /\ w.delivered = h.delivered /\ stream'[w.msg].job = j
      /\ mishaps.lost \subseteq mishaps'.lost
  BY <1>1, <1>2, HandAfter DEF HandMoves, Grows, MishapsGrow
<1>4. Made(j) => Made(j)'
  BY <1>2, MadeStays
<1>5. SUFFICES Done(w, j)'
  BY <1>1, <1>3 DEF HandSound
<1>6. \A step, status, ack : worker' = WithHand(step, status, ack) => w.step = step /\ w.status = status /\ w.ack = ack
  BY <1>1 DEF WithHand
<1>7. \A status, ack : worker' = Decided(status, ack) =>
        w.step = (IF status = None THEN "settle" ELSE "report") /\ w.status = status /\ w.ack = ack
  <2> SUFFICES ASSUME NEW status, NEW ack, worker' = Decided(status, ack)
               PROVE  w.step = (IF status = None THEN "settle" ELSE "report") /\ w.status = status /\ w.ack = ack
    OBVIOUS
  <2>1. PICK step : step = IF status = None THEN "settle" ELSE "report"
    OBVIOUS
  <2>2. worker' = WithHand(step, status, ack)
    BY <1>1, <1>2, <2>1, Steps
  <2> QED
    BY <1>6, <2>1, <2>2
<1>8. \A step : worker' = [worker EXCEPT !.hand.step = step] => w.step = step /\ w.status = h.status /\ w.ack = h.ack
  BY <1>1, <1>2, <1>6, Steps
<1>9. "ready" # None /\ "failed" # None
  BY DEF AssetConstants
<1>10. CASE put_glb
  <2>1. /\ jobs[j].type = "model_ingest" /\ jobs[j].version \in objects'.glb
    BY <1>1, <1>2, <1>10 DEF put_glb, Typed
  <2>2. CASE jobs[j].version \in Named
    <3>1. w.step = "structured"
      BY <1>1, <1>2, <1>8, <1>10, <2>2 DEF put_glb
    <3> QED
      BY <1>3, <2>1, <2>2, <3>1 DEF Done
  <2>3. CASE jobs[j].version \notin Named
    <3>1. w.step = "report" /\ w.status = "ready" /\ w.ack = "ack"
      BY <1>1, <1>2, <1>7, <1>9, <1>10, <2>3 DEF put_glb
    <3>2. Made(j)'
      BY <1>3, <2>1, <2>3 DEF Made
    <3> QED
      BY <1>3, <2>1, <3>1, <3>2 DEF Done
  <2> QED
    BY <2>2, <2>3
<1>11. CASE put_structured
  <2>1. /\ jobs[j].type = "model_ingest" /\ jobs[j].version \in objects'.glb /\ jobs[j].version \in objects'.structured
    BY <1>1, <1>2, <1>11 DEF put_structured, Typed, Done
  <2>2. w.step = "report" /\ w.status = "ready" /\ w.ack = "ack"
    BY <1>7, <1>9, <1>11 DEF put_structured
  <2>3. Made(j)'
    BY <1>3, <2>1 DEF Made
  <2> QED
    BY <1>3, <2>1, <2>2, <2>3 DEF Done
<1>12. CASE put_webp
  <2>1. PICK v, l : v = jobs[j].version /\ l = jobs[j].look
    OBVIOUS
  <2>2. /\ jobs[j].type = "sprite_render" /\ v \in Versions /\ l # None
    BY <1>1, <1>2, <1>12, <2>1 DEF put_webp, JobRow, Linked, AssetConstants
  <2>3. objects' = [objects EXCEPT !.sprite[v] = l]
    BY <1>1, <1>2, <1>12, <2>1 DEF put_webp
  <2>4. objects'.sprite[v] = l
    BY <1>2, <2>2, <2>3 DEF Typed
  <2>5. w.step = "report" /\ w.status = "ready" /\ w.ack = "ack"
    BY <1>7, <1>9, <1>12 DEF put_webp
  <2>6. Made(j)'
    BY <1>3, <2>1, <2>2, <2>4 DEF Made
  <2> QED
    BY <1>3, <2>1, <2>2, <2>4, <2>5, <2>6 DEF Done
<1>13. CASE Permanent
  <2>1. w.step = "report" /\ w.status = "failed" /\ w.ack = "ack"
    BY <1>7, <1>9, <1>13 DEF Permanent
  <2> QED
    BY <2>1 DEF Done
<1>14. CASE Transient
  <2>1. CASE h.delivered >= max_deliver
    <3>1. w.step = "report" /\ w.status = "failed" /\ w.ack = "term"
      BY <1>1, <1>7, <1>9, <1>14, <2>1 DEF Transient
    <3> QED
      BY <3>1 DEF Done
  <2>2. CASE ~(h.delivered >= max_deliver)
    <3>1. w.step = "settle" /\ w.ack = "nak"
      BY <1>1, <1>7, <1>14, <2>2 DEF Transient
    <3>2. h.delivered < max_deliver
      BY <1>2, <2>2 DEF Hand, AssetConstants
    <3> QED
      BY <1>3, <3>1, <3>2 DEF Done
  <2> QED
    BY <2>1, <2>2
<1>15. CASE report
  <2>1. w.step = "reporting" /\ w.status = h.status /\ w.ack = h.ack /\ h.step = "report" /\ objects' = objects
    BY <1>1, <1>8, <1>15 DEF report
  <2> QED
    BY <1>2, <1>3, <1>4, <2>1 DEF Done
<1>16. CASE report_failed
  <2>1. w.step = "settle" /\ w.ack = "nak"
    BY <1>7, <1>16 DEF report_failed
  <2>2. j \in mishaps'.lost
    <3>1. PICK gone : gone = {j}
      OBVIOUS
    <3>2. gone \in SUBSET Nat
      BY <1>2, <3>1, Rows
    <3>3. mishaps' = Faulted(gone)
      BY <1>1, <1>16, <3>1 DEF report_failed
    <3> QED
      BY <1>2, <3>1, <3>2, <3>3, FaultFacts
  <2> QED
    BY <2>1, <2>2 DEF Done
<1>17. CASE \E r \in reports : reported(r)
  <2>1. PICK r \in reports : reported(r)
    BY <1>17
  <2>2. w.step = "settle" /\ w.ack = h.ack /\ h.step = "reporting"
    BY <1>1, <1>8, <2>1 DEF reported
  <2>3. jobs[j].status # "queued"
    BY <1>1, <1>2, <2>1 DEF reported, ReportsSound
  <2>4. h.ack \in {"ack", "term"}
    BY <1>2, <2>2 DEF Done
  <2> QED
    BY <1>3, <2>2, <2>3, <2>4 DEF Done
<1> QED
  BY <1>10, <1>11, <1>12, <1>13, <1>14, <1>15, <1>16, <1>17 DEF Working

LEMMA HandSoundNext ==
  ASSUME AssetConstants, AssetInv, AssetNext
  PROVE  HandSound'
<1>1. Grows /\ StepCases
  BY EveryStep
<1>2. CASE Working /\ HandMoves
  BY <1>1, <1>2, WorkingHandSound
<1>3. CASE HandleFacts
  BY <1>3 DEF HandleFacts, HandSound, Done
<1>4. CASE worker'.hand = None
  BY <1>4 DEF HandSound
<1>5. CASE worker'.hand = worker.hand /\ objects' = objects
  BY <1>1, <1>5, HandSoundStays
<1> QED
  BY <1>1, <1>2, <1>3, <1>4, <1>5
     DEF StepCases, UpdateColor, CreateFacts, AnnounceFacts, DeliverFacts, SettleFacts, CrashFacts, ResultFacts

-----------------------------------------------------------------------------
\* While the worker is not waiting for an answer, every report under way is a lost job's.
LEMMA OnlyLostReports ==
  ASSUME AssetInv, worker.hand = None \/ worker.hand.step # "reporting"
  PROVE  \A r \in reports : r.job \in mishaps.lost
BY DEF AssetInv, ReportsSound, HandOf

LEMMA LostReportsStay ==
  ASSUME AssetConstants, AssetInv, Grows, Linked', reports' \subseteq reports, \A r \in reports' : r.job \in mishaps'.lost
  PROVE  ReportsSound'
<1>1. Typed /\ Linked /\ ReportsSound
  BY DEF AssetInv
<1>2. ASSUME NEW r \in reports', r.status = "ready" PROVE Made(r.job)'
  <2>1. PICK j \in Jobs : j = r.job
    BY <1>1 DEF Linked
  <2>2. Made(j)
    BY <1>1, <1>2, <2>1 DEF ReportsSound
  <2> QED
    BY <1>1, <2>1, <2>2, MadeStays
<1>3. ASSUME NEW r \in reports', r.step = "served" PROVE jobs'[r.job].status # "queued"
  BY <1>1, <1>3 DEF ReportsSound, Linked, Grows, RowsGrow
<1> QED
  BY <1>2, <1>3 DEF ReportsSound

LEMMA ReportsStay ==
  ASSUME AssetConstants, AssetInv, Grows, Linked', reports' = reports, worker'.hand = worker.hand
  PROVE  ReportsSound'
<1>1. Typed /\ Linked /\ ReportsSound /\ mishaps.lost \subseteq mishaps'.lost
  BY DEF AssetInv, Grows, MishapsGrow
<1>2. ASSUME NEW r \in reports
      PROVE  /\ r.status = "ready" => Made(r.job)'
             /\ r.step = "served" => jobs'[r.job].status # "queued"
             /\ r.job \notin mishaps'.lost =>
                  HandOf(r.job)' /\ worker'.hand.step = "reporting" /\ worker'.hand.status = r.status
  <2>1. PICK j \in Jobs : j = r.job
    BY <1>1 DEF Linked
  <2>2. /\ r.status = "ready" => Made(j)
        /\ r.step = "served" => jobs[j].status # "queued"
        /\ j \notin mishaps.lost => HandOf(j) /\ worker.hand.step = "reporting" /\ worker.hand.status = r.status
    BY <1>1, <2>1 DEF ReportsSound
  <2>3. Made(j) => Made(j)'
    BY <1>1, MadeStays
  <2>4. jobs[j].status # "queued" => jobs'[j].status # "queued"
    BY DEF Grows, RowsGrow
  <2>5. HandOf(j) => HandOf(j)'
    <3>1. worker.hand # None => worker.hand.msg \in Messages
      BY <1>1, HandFacts
    <3> QED
      BY <3>1 DEF HandOf, Grows, MessagesGrow
  <2> QED
    BY <1>1, <2>1, <2>2, <2>3, <2>4, <2>5
<1>3. \A r, s \in reports : r.job = s.job /\ r.job \notin mishaps'.lost => r = s
  BY <1>1 DEF ReportsSound
<1> QED
  BY <1>2, <1>3 DEF ReportsSound

\* The report in hand is made, and is the only one not given up.
LEMMA ReportReports ==
  ASSUME AssetConstants, AssetInv, Grows, Linked', HandMoves, report
  PROVE  ReportsSound'
<1>1. PICK h, j, q : /\ h = worker.hand /\ j = stream[h.msg].job
                     /\ q = [job |-> j, status |-> h.status, step |-> "sent"]
  OBVIOUS
<1>2. /\ Typed /\ Linked /\ ReportsSound /\ h # None /\ h.step = "report" /\ j \in Jobs /\ Done(h, j)
      /\ mishaps' = mishaps /\ stream' = stream /\ jobs' = jobs /\ reports' = reports \cup {q}
  BY <1>1, HandFacts DEF AssetInv, HandSound, HandMoves, report
<1>3. worker' = WithHand("reporting", h.status, h.ack)
  BY <1>1, <1>2, Steps DEF report
<1>4. worker'.hand.step = "reporting" /\ worker'.hand.status = h.status /\ worker'.hand.msg = h.msg /\ worker'.hand # None
  <2>1. worker'.hand # None
    BY <1>2, HandAfter
  <2> QED
    BY <1>1, <1>3, <2>1 DEF WithHand
<1>5. \A r \in reports : r.job \in mishaps.lost
  BY <1>1, <1>2, OnlyLostReports
<1>6. ASSUME NEW r \in reports', r.status = "ready" PROVE Made(r.job)'
  <2>1. PICK k \in Jobs : k = r.job
    BY <1>1, <1>2 DEF Linked
  <2>2. Made(k)
    BY <1>1, <1>2, <1>6, <2>1 DEF ReportsSound, Done
  <2> QED
    BY <1>2, <2>1, <2>2, MadeStays
<1>7. ASSUME NEW r \in reports', r.step = "served" PROVE jobs'[r.job].status # "queued"
  BY <1>1, <1>2, <1>7 DEF ReportsSound
<1>8. ASSUME NEW r \in reports', r.job \notin mishaps'.lost
      PROVE  HandOf(r.job)' /\ worker'.hand.step = "reporting" /\ worker'.hand.status = r.status
  <2>1. r = q
    BY <1>2, <1>5, <1>8
  <2> QED
    BY <1>1, <1>2, <1>4, <2>1 DEF HandOf
<1>9. \A r, s \in reports' : r.job = s.job /\ r.job \notin mishaps'.lost => r = s
  BY <1>2, <1>5
<1> QED
  BY <1>6, <1>7, <1>8, <1>9 DEF ReportsSound

\* An answered or given-up report leaves only those of lost jobs.
LEMMA WorkingReportsSound ==
  ASSUME AssetConstants, AssetInv, Grows, Linked', Working, HandMoves
  PROVE  ReportsSound'
<1>1. /\ Typed /\ Linked /\ ReportsSound /\ worker.hand # None /\ mishaps.lost \subseteq mishaps'.lost
  BY DEF AssetInv, Grows, MishapsGrow, HandMoves
<1>2. CASE report
  BY <1>2, ReportReports
<1>3. CASE report_failed
  <2>1. PICK gone : gone = {stream[worker.hand.msg].job}
    OBVIOUS
  <2>2. gone \in SUBSET Nat
    BY <1>1, <2>1, HandFacts, Rows
  <2>3. mishaps'.lost = mishaps.lost \cup gone
    BY <1>1, <1>3, <2>1, <2>2, FaultFacts DEF report_failed
  <2>4. reports' \subseteq reports /\ \A r \in reports' : r.job \in mishaps'.lost
    BY <1>1, <1>3, <2>1, <2>3 DEF report_failed, Unserved, ReportsSound, HandOf
  <2> QED
    BY <2>4, LostReportsStay
<1>4. CASE \E r \in reports : reported(r)
  <2>1. PICK r \in reports : reported(r)
    BY <1>4
  <2>2. reports' = reports \ {r} /\ r.job = stream[worker.hand.msg].job
    BY <2>1 DEF reported
  <2>3. \A s \in reports' : s.job \in mishaps.lost
    BY <1>1, <2>2 DEF ReportsSound, HandOf
  <2> QED
    BY <1>1, <2>2, <2>3, LostReportsStay
<1>5. CASE reports' = reports /\ worker.hand.step \in {"process", "structured"}
  BY <1>1, <1>5, OnlyLostReports, LostReportsStay
<1> QED
  BY <1>2, <1>3, <1>4, <1>5 DEF Working, put_glb, put_structured, put_webp, Permanent, Transient

\* The callback puts the result on record before it answers.
LEMMA ResultReports ==
  ASSUME AssetConstants, AssetInv, Grows, Linked', NEW r \in reports, ResultFacts(r)
  PROVE  ReportsSound'
<1>1. Typed /\ Linked /\ ReportsSound /\ r.job \in Jobs /\ r.status \in {"ready", "failed"}
  BY DEF AssetInv, Linked, Typed
<1>2. PICK q : reports' = (reports \ {r}) \cup {q} /\ q.job = r.job /\ q.status = r.status /\ q.step = "served"
  BY DEF ResultFacts
<1>3. worker' = worker /\ stream' = stream /\ mishaps' = mishaps
  BY DEF ResultFacts
<1>4. jobs'[r.job].status # "queued"
  BY <1>1 DEF ResultFacts
<1>5. ASSUME NEW s \in reports'
      PROVE  \E o \in reports : /\ s.job = o.job /\ s.status = o.status
                                /\ s.step = "served" => o.step = "served" \/ o.job = r.job
  BY <1>2
<1>6. ASSUME NEW s \in reports'
      PROVE  /\ s.status = "ready" => Made(s.job)'
             /\ s.step = "served" => jobs'[s.job].status # "queued"
             /\ s.job \notin mishaps'.lost =>
                  HandOf(s.job)' /\ worker'.hand.step = "reporting" /\ worker'.hand.status = s.status
  <2>1. PICK o \in reports : /\ s.job = o.job /\ s.status = o.status
                             /\ s.step = "served" => o.step = "served" \/ o.job = r.job
    BY <1>5
  <2>2. PICK j \in Jobs : j = o.job
    BY <1>1 DEF Linked
  <2>3. /\ o.status = "ready" => Made(j)
        /\ o.step = "served" => jobs[j].status # "queued"
        /\ j \notin mishaps.lost => HandOf(j) /\ worker.hand.step = "reporting" /\ worker.hand.status = o.status
    BY <1>1, <2>2 DEF ReportsSound
  <2>4. Made(j) => Made(j)'
    BY <1>1, MadeStays
  <2>5. jobs[j].status # "queued" => jobs'[j].status # "queued"
    BY DEF Grows, RowsGrow
  <2>6. HandOf(j) => HandOf(j)'
    BY <1>3 DEF HandOf
  <2> QED
    BY <1>3, <1>4, <2>1, <2>2, <2>3, <2>4, <2>5, <2>6
<1>7. ASSUME NEW s \in reports', NEW o \in reports', s.job = o.job, s.job \notin mishaps'.lost PROVE s = o
  BY <1>1, <1>2, <1>3, <1>7 DEF ReportsSound
<1> QED
  BY <1>6, <1>7 DEF ReportsSound

LEMMA ReportsNext ==
  ASSUME AssetConstants, AssetInv, AssetNext
  PROVE  ReportsSound'
<1>1. /\ Typed /\ Linked /\ ReportsSound /\ Grows /\ StepCases /\ Linked' /\ mishaps.lost \subseteq mishaps'.lost
  BY EveryStep DEF AssetInv, Grows, MishapsGrow
<1>2. CASE Working /\ HandMoves
  BY <1>1, <1>2, WorkingReportsSound
<1>3. CASE reports' = reports /\ (worker.hand = None \/ worker.hand.step = "settle")
  BY <1>1, <1>3, OnlyLostReports, LostReportsStay
<1>4. CASE CrashFacts
  <2>1. ASSUME NEW r \in reports PROVE r.job \in mishaps'.lost
    <3>1. r.job \in mishaps.lost \/ HandOf(r.job)
      BY <1>1 DEF ReportsSound
    <3>2. worker.hand # None => worker.hand.msg \in Messages /\ InHand(worker.hand.msg)
      BY <1>1, HandFacts DEF InHand
    <3> QED
      BY <1>1, <1>4, <3>1, <3>2 DEF CrashFacts, HandOf
  <2> QED
    BY <1>1, <1>4, <2>1, LostReportsStay DEF CrashFacts
<1>5. CASE \E r \in reports : ResultFacts(r)
  BY <1>1, <1>5, ResultReports
<1>6. CASE reports' = reports /\ worker'.hand = worker.hand
  BY <1>1, <1>6, ReportsStay
<1> QED
  BY <1>1, <1>2, <1>3, <1>4, <1>5, <1>6
     DEF StepCases, UpdateColor, CreateFacts, AnnounceFacts, DeliverFacts, SettleFacts, HandleFacts

-----------------------------------------------------------------------------
\* A job that waits now, and is not late, waited before.
LEMMA WaitsBefore ==
  ASSUME AssetConstants, AssetInv, AssetNext, NEW j \in Jobs, j \notin Late', Waits(j)'
  PROVE  Waits(j) /\ j \notin Late
<1>1. /\ Typed /\ Linked /\ Grows /\ StepCases /\ \A m \in Messages : stream[m].delivered \in Nat
      /\ Messages = 1 .. Len(stream) /\ Len(stream) \in Nat
      /\ DOMAIN worker.buffer = 1 .. Len(worker.buffer) /\ Len(worker.buffer) \in Nat
      /\ \A m \in Messages' : stream'[m].delivered \in Nat
  <2>1. Typed' /\ Typed /\ Linked /\ Grows /\ StepCases
    BY EveryStep DEF AssetInv
  <2>2. \A m \in Messages' : stream'[m] \in Message
    BY <2>1, LenProperties, ElementOfSeq DEF Typed, Messages
  <2> QED
    BY <2>1, <2>2, Rows DEF Message
<1>2. j \notin Late
  BY <1>1 DEF Late, Grows, MishapsGrow
<1> SUFFICES Waits(j)
  BY <1>2
<1>3. CASE j \notin Announced'
  BY <1>1, <1>3 DEF Waits, Announced, Grows, MessagesGrow
<1>4. ASSUME NEW m \in Messages' \ Messages, stream'[m].job = j PROVE j \notin Announced
  <2>1. ASSUME NEW k, AnnounceFacts(k) PROVE j = k
    BY <1>1, <1>4, <2>1 DEF AnnounceFacts
  <2>2. CASE \E k \in Jobs \ Announced : AnnounceFacts(k)
    BY <2>1, <2>2
  <2>3. CASE \E k \in Announced : AnnounceFacts(k) /\ mishaps'.behind = mishaps.behind \cup {k}
    BY <2>1, <2>3 DEF Late
  <2>4. CASE Messages' = Messages
    BY <1>4, <2>4
  <2> QED
    BY <1>1, <2>2, <2>3, <2>4
       DEF StepCases, UpdateColor, CreateFacts, DeliverFacts, MovedTo, HandleFacts, HandMoves, SettleFacts, CrashFacts,
           ResultFacts, SameCounts, Messages
<1>5. CASE \E m \in Messages' : stream'[m].job = j /\ stream'[m].delivered = 0
  <2>1. PICK m \in Messages' : stream'[m].job = j /\ stream'[m].delivered = 0
    BY <1>5
  <2>2. CASE m \notin Messages
    BY <1>4, <2>1, <2>2 DEF Waits
  <2>3. CASE m \in Messages
    <3>1. stream[m].job = j /\ stream[m].delivered = 0
      BY <1>1, <2>1, <2>3 DEF Grows, MessagesGrow
    <3> QED
      BY <2>3, <3>1 DEF Waits
  <2> QED
    BY <2>2, <2>3
<1>6. CASE \E i \in DOMAIN worker'.buffer : Buffered1(j, i)'
  <2>1. PICK i \in DOMAIN worker'.buffer : stream'[worker'.buffer[i].msg].job = j /\ worker'.buffer[i].delivered = 1
    BY <1>6 DEF Buffered1
  <2>2. ASSUME NEW k \in DOMAIN worker.buffer, worker'.buffer[i] = worker.buffer[k] PROVE Waits(j)
    <3>1. worker.buffer[k].msg \in Messages
      BY <1>1 DEF Linked, Points
    <3> QED
      BY <1>1, <2>1, <2>2, <3>1 DEF Waits, Buffered1, Grows, MessagesGrow
  <2>3. CASE \E m \in Messages : DeliverFacts(m)
    <3>1. PICK m \in Messages : DeliverFacts(m)
      BY <2>3
    <3>2. CASE i = Len(worker.buffer) + 1
      <4>1. PICK n \in Nat : n = stream[m].delivered
        BY <1>1
      <4>2. worker'.buffer[i] = [msg |-> m, delivered |-> n + 1]
        BY <3>1, <3>2, <4>1 DEF DeliverFacts
      <4>3. worker'.buffer[i].msg = m /\ worker'.buffer[i].delivered = n + 1
        BY <4>2
      <4>4. n = 0
        BY <2>1, <4>3
      <4>5. stream'[m].job = stream[m].job
        BY <3>1 DEF DeliverFacts, MovedTo
      <4>6. stream[m].job = j /\ stream[m].delivered = 0
        BY <2>1, <4>1, <4>3, <4>4, <4>5
      <4> QED
        BY <4>6 DEF Waits
    <3>3. CASE i # Len(worker.buffer) + 1
      BY <1>1, <2>2, <3>1, <3>3 DEF DeliverFacts
    <3> QED
      BY <3>2, <3>3
  <2>4. CASE HandleFacts
    BY <2>2, <2>4 DEF HandleFacts
  <2>5. CASE CrashFacts
    BY <2>5 DEF CrashFacts
  <2>6. CASE worker'.buffer = worker.buffer
    BY <2>2, <2>6
  <2> QED
    BY <1>1, <2>3, <2>4, <2>5, <2>6, HandAfter
       DEF StepCases, UpdateColor, CreateFacts, AnnounceFacts, SettleFacts, ResultFacts
<1> QED
  BY <1>3, <1>5, <1>6 DEF Waits

\* The one message of a job that is not late.
LEMMA OneMessage ==
  ASSUME AssetInv, NEW j \in Jobs, j \notin Late, NEW e \in Messages, NEW m \in Messages,
         stream[e].job = j, stream[m].job = j
  PROVE  e = m
BY DEF AssetInv, Streamed, Late

\* A delivery put in the buffer comes after the first ones of the older jobs that wait.
LEMMA DeliverBuffered ==
  ASSUME AssetConstants, AssetInv, AssetNext, NEW m \in Messages, Deliver(m), DeliverFacts(m)
  PROVE  Buffered'
<1> DEFINE l == Len(worker.buffer)
<1>1. /\ Typed /\ Linked /\ Streamed /\ Buffered /\ l \in Nat /\ DOMAIN worker.buffer = 1 .. l
      /\ \A i \in 1 .. l : worker.buffer[i] \in Delivery /\ worker.buffer[i].msg \in Messages
      /\ \A i \in 1 .. l : worker.buffer[i].delivered <= stream[worker.buffer[i].msg].delivered
      /\ \A e \in Messages : stream[e].delivered \in Nat /\ stream[e].job \in Jobs
      /\ Messages = 1 .. Len(stream) /\ Len(stream) \in Nat
  BY Rows DEF AssetInv, Linked, Points, Message
<1>2. /\ Messages' = Messages /\ jobs' = jobs /\ mishaps' = mishaps /\ \A e \in Messages : stream'[e].job = stream[e].job
  BY DEF DeliverFacts, MovedTo
<1>3. /\ DOMAIN worker'.buffer = 1 .. l + 1 /\ \A i \in 1 .. l : worker'.buffer[i] = worker.buffer[i]
      /\ worker'.buffer[l + 1].msg = m /\ worker'.buffer[l + 1].delivered = stream[m].delivered + 1
  BY <1>1 DEF DeliverFacts
<1> HIDE DEF l
<1>4. ASSUME NEW i \in 1 .. l PROVE worker'.buffer[i] # worker'.buffer[l + 1]
  <2>1. worker.buffer[i].msg = m => worker.buffer[i].delivered <= stream[m].delivered /\ stream[m].delivered \in Nat
    BY <1>1
  <2>2. worker.buffer[i].delivered \in Nat
    BY <1>1 DEF Delivery
  <2> QED
    BY <1>3, <2>1, <2>2
<1>5. ASSUME NEW i \in 1 .. l + 1, NEW k \in 1 .. l + 1, worker'.buffer[i] = worker'.buffer[k] PROVE i = k
  <2>1. CASE i = l + 1 \/ k = l + 1
    <3>1. i \in 1 .. l => i # k /\ worker'.buffer[i] # worker'.buffer[l + 1]
      BY <1>1, <1>4, <2>1
    <3>2. k \in 1 .. l => i # k /\ worker'.buffer[k] # worker'.buffer[l + 1]
      BY <1>1, <1>4, <2>1
    <3>3. \/ i = l + 1 /\ k = l + 1
          \/ i \in 1 .. l /\ k = l + 1
          \/ k \in 1 .. l /\ i = l + 1
      BY <1>1, <2>1
    <3> QED
      BY <1>5, <3>1, <3>2, <3>3
  <2>2. CASE i \in 1 .. l /\ k \in 1 .. l
    BY <1>1, <1>3, <1>5, <2>2 DEF Buffered
  <2> QED
    BY <1>1, <2>1, <2>2
<1>6. ASSUME NEW i \in 1 .. l + 1, NEW j \in Jobs, j \notin Late, j < stream'[worker'.buffer[i].msg].job, Waits(j)
      PROVE  \E k \in 1 .. i - 1 : stream[worker.buffer[k].msg].job = j /\ worker.buffer[k].delivered = 1 /\ k \in 1 .. l
  <2>1. CASE i \in 1 .. l
    <3>1. j < stream[worker.buffer[i].msg].job
      BY <1>1, <1>2, <1>3, <1>6, <2>1
    <3>2. PICK k \in 1 .. i - 1 : Buffered1(j, k)
      BY <1>1, <1>6, <2>1, <3>1 DEF Buffered
    <3> QED
      BY <1>1, <2>1, <3>2 DEF Buffered1
  <2>2. CASE i = l + 1
    <3>1. j < stream[m].job
      BY <1>2, <1>3, <1>6, <2>2
    <3>2. PICK e \in Messages : e < m /\ stream[e].job = j
      BY <1>1, <1>6, <3>1 DEF Streamed, Late
    <3>3. stream[e].delivered > 0
      BY <1>1, <3>2 DEF Deliver, Streamed
    <3>4. j \in Announced /\ ~ \E f \in Messages : stream[f].job = j /\ stream[f].delivered = 0
      BY <1>6, <3>2, <3>3, OneMessage DEF Announced
    <3>5. PICK k \in DOMAIN worker.buffer : Buffered1(j, k)
      BY <1>6, <3>4 DEF Waits
    <3> QED
      BY <1>1, <2>2, <3>5 DEF Buffered1
  <2> QED
    BY <1>1, <2>1, <2>2
<1>7. ASSUME NEW i \in 1 .. l + 1, NEW j \in Jobs', j \notin Late', j < stream'[worker'.buffer[i].msg].job, Waits(j)'
      PROVE  \E k \in 1 .. i - 1 : Buffered1(j, k)'
  <2>1. j \in Jobs /\ Waits(j) /\ j \notin Late
    BY <1>2, <1>7, WaitsBefore DEF Jobs
  <2>2. PICK k \in 1 .. i - 1 : stream[worker.buffer[k].msg].job = j /\ worker.buffer[k].delivered = 1 /\ k \in 1 .. l
    BY <1>6, <1>7, <2>1
  <2> QED
    BY <1>1, <1>2, <1>3, <2>2 DEF Buffered1
<1> QED
  BY <1>3, <1>5, <1>7 DEF Buffered

\* Taking the first delivery in hand leaves no older job waiting behind another.
LEMMA HandleBuffered ==
  ASSUME AssetConstants, AssetInv, AssetNext, HandleFacts
  PROVE  Buffered'
<1> DEFINE l == Len(worker.buffer)
<1>1. /\ Typed /\ Linked /\ Buffered /\ l \in Nat /\ DOMAIN worker.buffer = 1 .. l
      /\ \A i \in 1 .. l : worker.buffer[i] \in Delivery /\ Points(worker.buffer[i])
      /\ \A e \in Messages : stream[e].delivered \in Nat
  BY Rows DEF AssetInv, Linked, Message
<1>2. /\ stream' = stream /\ jobs' = jobs /\ Messages' = Messages /\ Jobs' = Jobs /\ 1 \in 1 .. l
      /\ DOMAIN worker'.buffer = 1 .. l - 1
      /\ \A i \in 1 .. l - 1 : i + 1 \in 1 .. l /\ worker'.buffer[i] = worker.buffer[i + 1]
  BY <1>1 DEF HandleFacts, Messages, Jobs
<1> HIDE DEF l
<1>3. ASSUME NEW i \in 1 .. l - 1, NEW k \in 1 .. l - 1, worker'.buffer[i] = worker'.buffer[k] PROVE i = k
  <2>1. i + 1 = k + 1
    BY <1>1, <1>2, <1>3 DEF Buffered
  <2> QED
    BY <1>1, <2>1
<1>4. ASSUME NEW j \in Jobs, j \notin Late, Buffered1(j, 1), Waits(j)' PROVE FALSE
  <2>1. PICK d : d = worker.buffer[1]
    OBVIOUS
  <2>2. d \in Delivery /\ d.msg \in Messages /\ stream[d.msg].job = j /\ d.delivered = 1 /\ stream[d.msg].delivered # 0
    BY <1>1, <1>2, <1>4, <2>1 DEF Points, Buffered1
  <2>3. j \in Announced'
    BY <1>2, <2>2 DEF Announced
  <2>4. ~ \E m \in Messages : stream[m].job = j /\ stream[m].delivered = 0
    BY <1>4, <2>2, OneMessage
  <2>5. PICK p \in 1 .. l - 1 : stream[worker.buffer[p + 1].msg].job = j /\ worker.buffer[p + 1].delivered = 1
    BY <1>2, <1>4, <2>3, <2>4 DEF Waits, Buffered1
  <2>6. p + 1 \in 1 .. l
    BY <1>2
  <2>7. PICK c \in Delivery : c = worker.buffer[p + 1] /\ c.msg \in Messages
    BY <1>1, <2>6 DEF Points
  <2>8. c.msg = d.msg
    BY <1>4, <2>2, <2>5, <2>7, OneMessage
  <2>9. c = d
    BY <2>2, <2>5, <2>7, <2>8 DEF Delivery
  <2>10. p + 1 = 1
    BY <1>1, <1>2, <2>1, <2>6, <2>7, <2>9 DEF Buffered
  <2> QED
    BY <1>1, <2>10
<1>5. ASSUME NEW i \in 1 .. l - 1, NEW j \in Jobs', j \notin Late', j < stream'[worker'.buffer[i].msg].job, Waits(j)'
      PROVE  \E k \in 1 .. i - 1 : Buffered1(j, k)'
  <2>1. j \in Jobs /\ Waits(j) /\ j \notin Late
    BY <1>2, <1>5, WaitsBefore
  <2>2. i + 1 \in 1 .. l /\ j < stream[worker.buffer[i + 1].msg].job
    BY <1>2, <1>5
  <2>3. PICK k \in 1 .. (i + 1) - 1 : Buffered1(j, k)
    BY <1>1, <2>1, <2>2 DEF Buffered
  <2>4. k # 1
    BY <1>4, <1>5, <2>1, <2>3
  <2>5. PICK p \in 1 .. i - 1 : k = p + 1
    <3>1. k - 1 \in 1 .. i - 1 /\ k = (k - 1) + 1
      BY <1>1, <2>3, <2>4
    <3> QED
      BY <3>1
  <2>6. p \in 1 .. l - 1
    BY <1>1
  <2> QED
    BY <1>2, <2>3, <2>5, <2>6 DEF Buffered1
<1> QED
  BY <1>2, <1>3, <1>5 DEF Buffered

LEMMA BufferedNext ==
  ASSUME AssetConstants, AssetInv, AssetNext
  PROVE  Buffered'
<1>1. /\ Typed /\ Linked /\ Buffered /\ Grows /\ StepCases
      /\ \A i \in DOMAIN worker.buffer : worker.buffer[i].msg \in Messages /\ stream[worker.buffer[i].msg].job \in Jobs
      /\ Jobs = 1 .. Len(jobs) /\ Len(jobs) \in Nat
  BY EveryStep, Rows DEF AssetInv, Linked, Points
<1>2. CASE \E m \in Messages : Deliver(m) /\ DeliverFacts(m)
  BY <1>2, DeliverBuffered
<1>3. CASE HandleFacts
  BY <1>3, HandleBuffered
<1>4. CASE CrashFacts
  BY <1>4 DEF CrashFacts, Buffered
<1>5. CASE worker'.buffer = worker.buffer
  <2>1. \A i \in DOMAIN worker.buffer : stream'[worker.buffer[i].msg].job = stream[worker.buffer[i].msg].job
    BY <1>1 DEF Grows, MessagesGrow
  <2>2. ASSUME NEW i \in DOMAIN worker.buffer, NEW j \in Jobs', j \notin Late', j < stream[worker.buffer[i].msg].job,
               Waits(j)'
        PROVE  \E k \in 1 .. i - 1 : Buffered1(j, k) /\ k \in DOMAIN worker.buffer
    <3>1. j \in Jobs
      <4>1. Typed'
        BY EveryStep
      <4>2. j \in Nat \ {0}
        BY <4>1, LenProperties DEF Typed, Jobs
      <4> QED
        BY <1>1, <2>2, <4>2
    <3>2. Waits(j) /\ j \notin Late
      BY <2>2, <3>1, WaitsBefore
    <3>3. PICK k \in 1 .. i - 1 : Buffered1(j, k)
      BY <1>1, <2>2, <3>1, <3>2 DEF Buffered
    <3>4. k \in DOMAIN worker.buffer
      BY <1>1, <2>2, Rows
    <3> QED
      BY <3>3, <3>4
  <2>3. \A i, k \in DOMAIN worker'.buffer : worker'.buffer[i] = worker'.buffer[k] => i = k
    BY <1>1, <1>5 DEF Buffered
  <2>4. ASSUME NEW i \in DOMAIN worker'.buffer, NEW j \in Jobs', j \notin Late', j < stream'[worker'.buffer[i].msg].job,
               Waits(j)'
        PROVE  \E k \in 1 .. i - 1 : Buffered1(j, k)'
    <3>1. PICK k \in 1 .. i - 1 : Buffered1(j, k) /\ k \in DOMAIN worker.buffer
      BY <1>5, <2>1, <2>2, <2>4
    <3> QED
      BY <1>5, <2>1, <3>1 DEF Buffered1
  <2> QED
    BY <2>3, <2>4 DEF Buffered
<1> QED
  BY <1>1, <1>2, <1>3, <1>4, <1>5, HandAfter
     DEF StepCases, UpdateColor, CreateFacts, AnnounceFacts, SettleFacts, ResultFacts

-----------------------------------------------------------------------------
\* A job in hand now, and not late, was in hand or waited before.
LEMMA HandBefore ==
  ASSUME AssetConstants, AssetInv, AssetNext, NEW j \in Jobs, j \notin Late', HandOf(j)'
  PROVE  Waits(j) \/ HandOf(j)
<1>1. Typed /\ Linked /\ Grows /\ StepCases
  BY EveryStep DEF AssetInv
<1>2. CASE HandleFacts
  <2>1. PICK d : d = worker.buffer[1]
    OBVIOUS
  <2>2. /\ 1 \in DOMAIN worker.buffer /\ d \in Delivery /\ stream[d.msg].job = j
        /\ d.delivered \in 1 .. stream[d.msg].delivered /\ stream[d.msg].delivered \in Nat
        /\ ~(d.delivered > 1)
    BY <1>1, <1>2, <2>1, Rows DEF HandleFacts, HandOf, Linked, Points, Message, Late
  <2>3. d.delivered = 1
    BY <2>2
  <2> QED
    BY <2>1, <2>2, <2>3 DEF Waits, Buffered1
<1>3. CASE worker'.hand # None /\ worker.hand # None /\ worker'.hand.msg = worker.hand.msg
  <2>1. worker.hand.msg \in Messages
    BY <1>1, <1>3 DEF Linked, Points
  <2> QED
    BY <1>1, <1>3, <2>1 DEF HandOf, Grows, MessagesGrow
<1>4. worker'.hand # None
  BY DEF HandOf
<1> QED
  BY <1>1, <1>2, <1>3, <1>4, HandAfter
     DEF StepCases, UpdateColor, CreateFacts, AnnounceFacts, DeliverFacts, SettleFacts, CrashFacts, ResultFacts, HandMoves

\* A job is touched only by the delivery in hand and by its reports.
LEMMA UntouchedStays ==
  ASSUME AssetConstants, AssetInv, AssetNext, NEW k \in Jobs, Untouched(k), HandleFacts => ~HandOf(k)'
  PROVE  Untouched(k)'
<1>1. /\ Typed /\ Linked /\ Grows /\ StepCases /\ jobs[k].status = "queued" /\ ~HandOf(k)
      /\ \A r \in reports : r.job # k
  BY EveryStep DEF AssetInv, Untouched
<1>2. ~HandOf(k)'
  <2>1. CASE worker'.hand # None /\ worker.hand # None /\ worker'.hand.msg = worker.hand.msg
    <3>1. worker.hand.msg \in Messages
      BY <1>1, <2>1 DEF Linked, Points
    <3> QED
      BY <1>1, <2>1, <3>1 DEF HandOf, Grows, MessagesGrow
  <2>2. CASE worker'.hand = None
    BY <2>2 DEF HandOf
  <2> QED
    BY <1>1, <2>1, <2>2, HandAfter
       DEF StepCases, UpdateColor, CreateFacts, AnnounceFacts, DeliverFacts, SettleFacts, CrashFacts, ResultFacts, HandMoves
<1>3. CASE Working /\ HandMoves
  <2>1. jobs' = jobs
    BY <1>3 DEF HandMoves
  <2>2. \A r \in reports' : r.job # k
    <3>1. CASE report
      <4>1. stream[worker.hand.msg].job # k
        BY <1>1, <3>1 DEF report, HandOf
      <4> QED
        BY <1>1, <3>1, <4>1 DEF report
    <3>2. CASE reports' \subseteq reports
      BY <1>1, <3>2
    <3> QED
      BY <1>3, <3>1, <3>2
         DEF Working, put_glb, put_structured, put_webp, Permanent, Transient, report_failed, reported, Unserved
  <2> QED
    BY <1>1, <1>2, <2>1, <2>2 DEF Untouched
<1>4. CASE \E r \in reports : ResultFacts(r)
  <2>1. PICK r \in reports : ResultFacts(r)
    BY <1>4
  <2>2. jobs'[k].status = "queued"
    BY <1>1, <2>1 DEF ResultFacts
  <2>3. \A s \in reports' : s.job # k
    BY <1>1, <2>1 DEF ResultFacts
  <2> QED
    BY <1>2, <2>2, <2>3 DEF Untouched
<1>5. CASE jobs'[k] = jobs[k] /\ reports' \subseteq reports
  BY <1>1, <1>2, <1>5 DEF Untouched
<1> QED
  BY <1>1, <1>3, <1>4, <1>5
     DEF StepCases, UpdateColor, CreateFacts, AnnounceFacts, DeliverFacts, HandleFacts, SettleFacts, CrashFacts

LEMMA InTurnNext ==
  ASSUME AssetConstants, AssetInv, AssetNext
  PROVE  InTurn'
<1>1. /\ Typed /\ Linked /\ Buffered /\ InTurn /\ Grows /\ StepCases /\ Jobs = 1 .. Len(jobs) /\ Len(jobs) \in Nat
      /\ Typed' /\ Linked'
  BY EveryStep, Rows DEF AssetInv
<1> SUFFICES ASSUME NEW j \in Jobs', j \notin Late', NEW k \in Jobs', j < k, (Waits(j) \/ HandOf(j))'
             PROVE  Untouched(k)'
  BY DEF InTurn
<1>2. CASE k \notin Jobs
  <2>1. CreateFacts
    BY <1>1, <1>2
       DEF StepCases, UpdateColor, AnnounceFacts, DeliverFacts, HandleFacts, SettleFacts, CrashFacts, HandMoves, ResultFacts, Jobs
  <2>2. jobs'[k].status = "queued"
    BY <1>1, <1>2, <2>1 DEF CreateFacts
  <2>3. ~HandOf(k)'
    BY <1>1, <1>2, <2>1 DEF CreateFacts, HandOf, Linked, Points
  <2>4. \A r \in reports' : r.job # k
    BY <1>1, <1>2, <2>1 DEF CreateFacts, Linked
  <2> QED
    BY <2>2, <2>3, <2>4 DEF Untouched
<1>3. CASE k \in Jobs
  <2>1. j \in Jobs
    <3>1. j \in Nat \ {0}
      BY <1>1, LenProperties DEF Typed, Jobs
    <3> QED
      BY <1>1, <1>3, <3>1
  <2>2. j \notin Late /\ (Waits(j) \/ HandOf(j))
    <3>1. j \notin Late
      BY <1>1 DEF Late, Grows, MishapsGrow
    <3>2. CASE Waits(j)'
      BY <2>1, <3>2, WaitsBefore
    <3>3. CASE HandOf(j)'
      BY <2>1, <3>1, <3>3, HandBefore
    <3> QED
      BY <3>1, <3>2, <3>3
  <2>3. Untouched(k)
    BY <1>1, <1>3, <2>1, <2>2 DEF InTurn
  <2>4. ASSUME HandleFacts, HandOf(k)' PROVE FALSE
    <3>1. Waits(j) /\ 1 \in DOMAIN worker.buffer /\ stream[worker.buffer[1].msg].job = k
      BY <2>2, <2>4 DEF HandleFacts, HandOf
    <3>2. \E i \in 1 .. 1 - 1 : Buffered1(j, i)
      BY <1>1, <2>1, <2>2, <3>1 DEF Buffered
    <3> QED
      BY <3>2
  <2> QED
    BY <1>3, <2>3, <2>4, UntouchedStays
<1> QED
  BY <1>2, <1>3

-----------------------------------------------------------------------------
\* What a product shows is unchanged when its columns and the ready jobs are.
LEMMA ShownStays ==
  ASSUME Typed, Shown, Grows, product'.model = product.model, product'.structured = product.structured,
         product'.sprite = product.sprite,
         \A j \in Jobs' : jobs'[j].status = "ready" => j \in Jobs /\ jobs[j].status = "ready",
         \A j \in Jobs : jobs[j].status = "ready" => jobs'[j].status = "ready"
  PROVE  Shown'
<1>1. ASSUME NEW type, NEW versions PROVE Ready(type, versions)' = Ready(type, versions)
  BY DEF Ready, Grows, RowsGrow
<1>2. ASSUME NEW type, NEW versions, NEW j \in Jobs, Wins(j, type, versions) PROVE Wins(j, type, versions)'
  BY <1>1, <1>2 DEF Wins, Late, Grows, MishapsGrow
<1>3. ASSUME NEW j \in Jobs', jobs'[j].status = "ready" PROVE Made(j)'
  <2>1. j \in Jobs /\ Made(j)
    BY <1>3 DEF Shown
  <2> QED
    BY <2>1, MadeStays
<1>4. \A j \in Jobs : j \in Jobs' /\ jobs'[j].version = jobs[j].version
  BY DEF Grows, RowsGrow
<1>5. PICK m, s, p : m = product.model /\ s = product.structured /\ p = product.sprite
  OBVIOUS
<1>6. m = None => Ready("model_ingest", Versions)' = {}
  BY <1>1, <1>5 DEF Shown
<1>7. m # None => \E j \in Jobs' : Wins(j, "model_ingest", Versions)' /\ m = jobs'[j].version
  BY <1>2, <1>4, <1>5 DEF Shown
<1>8. s = None => Ready("model_ingest", Named)' = {}
  BY <1>1, <1>5 DEF Shown
<1>9. s # None => \E j \in Jobs' : Wins(j, "model_ingest", Named)' /\ s = jobs'[j].version
  BY <1>2, <1>4, <1>5 DEF Shown
<1>10. p # None => Ready("sprite_render", {p})' # {}
  BY <1>1, <1>5 DEF Shown
<1> QED
  BY <1>3, <1>5, <1>6, <1>7, <1>8, <1>9, <1>10 DEF Shown, Ready

\* A job that becomes ready in its turn is newer than every ready one.
LEMMA ResultWins ==
  ASSUME AssetConstants, AssetInv, Grows, NEW r \in reports, ResultFacts(r), r.status = "ready",
         NEW type, NEW versions, jobs[r.job].type = type, jobs[r.job].version \in versions
  PROVE  Wins(r.job, type, versions)'
<1>1. PICK j \in Jobs : j = r.job
  BY DEF AssetInv, Linked
<1>2. j \in Ready(type, versions)'
  BY <1>1 DEF ResultFacts, Ready
<1>3. CASE j \in Late
  <2>1. j \in Late'
    BY <1>3 DEF Late, Grows, MishapsGrow
  <2> QED
    BY <1>1, <1>2, <2>1 DEF Wins
<1>4. CASE j \notin Late
  <2>1. HandOf(j)
    BY <1>1, <1>4 DEF AssetInv, ReportsSound, Late
  <2>2. \A k \in Jobs : j < k => jobs[k].status = "queued" /\ k # j
    <3>1. Jobs \subseteq Nat
      BY Rows DEF AssetInv
    <3> QED
      BY <1>4, <2>1, <3>1 DEF AssetInv, InTurn, Untouched
  <2>3. \A k \in Jobs : j < k => jobs'[k].status = "queued"
    BY <1>1, <2>2 DEF ResultFacts
  <2>4. \A k \in Ready(type, versions)' : k <= j
    <3>1. Jobs' = Jobs /\ Jobs \subseteq Nat
      BY Rows DEF AssetInv, ResultFacts
    <3> QED
      BY <1>1, <2>3, <3>1 DEF Ready
  <2> QED
    BY <1>1, <1>2, <2>4 DEF Wins
<1> QED
  BY <1>3, <1>4

\* A ready report sets its own columns and leaves those of the other jobs.
LEMMA ResultShown ==
  ASSUME AssetConstants, AssetInv, Grows, NEW r \in reports, ResultFacts(r), r.status = "ready",
         jobs[r.job].status # "ready"
  PROVE  Shown'
<1>1. /\ Typed /\ Shown /\ Jobs' = Jobs /\ r.job \in Jobs /\ jobs[r.job] \in JobRow /\ product' = Published(r.job)
      /\ product \in [model : Versions \cup {None}, structured : Named \cup {None}, sprite : Versions \cup {None}, look : Nat]
      /\ Named \subseteq Versions /\ None \notin Versions
  BY Rows DEF AssetInv, Linked, ResultFacts, Typed, AssetConstants
<1>2. PICK q, v, t : q = r.job /\ v = jobs[q].version /\ t = jobs[q].type
  OBVIOUS
<1>3. /\ q \in Jobs /\ v \in Versions /\ v # None /\ t \in {"model_ingest", "sprite_render"}
      /\ jobs'[q].version = v /\ jobs'[q].type = t
  BY <1>1, <1>2 DEF JobRow, ResultFacts
<1>4. \A type, versions : t = type /\ v \in versions => Wins(q, type, versions)'
  BY <1>2, ResultWins
<1>5. ASSUME NEW j \in Jobs', jobs'[j].status = "ready" PROVE Made(j)'
  <2>1. CASE j = q
    <3>1. Made(q)
      BY <1>2 DEF AssetInv, ReportsSound
    <3> QED
      BY <1>1, <1>3, <2>1, <3>1, MadeStays
  <2>2. CASE j # q
    <3>1. jobs[j].status = "ready" /\ j \in Jobs
      BY <1>1, <1>2, <1>5, <2>2 DEF ResultFacts
    <3>2. Made(j)
      BY <1>1, <3>1 DEF Shown
    <3> QED
      BY <1>1, <3>1, <3>2, MadeStays
  <2> QED
    BY <2>1, <2>2
<1>6. ASSUME NEW type, NEW versions, t # type \/ v \notin versions PROVE Ready(type, versions)' = Ready(type, versions)
  BY <1>1, <1>2, <1>6 DEF Ready, ResultFacts
<1>7. ASSUME NEW type, NEW versions, t # type \/ v \notin versions, NEW j \in Jobs, Wins(j, type, versions)
      PROVE  Wins(j, type, versions)' /\ jobs'[j].version = jobs[j].version
  <2>1. Ready(type, versions)' = Ready(type, versions)
    BY <1>6, <1>7
  <2> QED
    BY <1>1, <1>7, <2>1 DEF Wins, Late, Grows, MishapsGrow, ResultFacts
<1>8. \A type, versions : Ready(type, versions) \subseteq Ready(type, versions)'
  BY <1>1, <1>2 DEF Ready, ResultFacts
<1>9. CASE t = "model_ingest"
  <2>1. PICK s : s = IF v \in Named THEN v ELSE product.structured
    OBVIOUS
  <2>2. product' = [product EXCEPT !.model = v, !.structured = s]
    BY <1>1, <1>2, <1>9, <2>1 DEF Published
  <2>3. product'.model = v /\ product'.structured = s /\ product'.sprite = product.sprite
    BY <1>1, <2>2
  <2>4. \E j \in Jobs' : Wins(j, "model_ingest", Versions)' /\ v = jobs'[j].version
    BY <1>1, <1>3, <1>4, <1>9
  <2>5. s = None => Ready("model_ingest", Named)' = {}
    BY <1>1, <1>3, <1>6, <2>1 DEF Shown
  <2>6. s # None => \E j \in Jobs' : Wins(j, "model_ingest", Named)' /\ s = jobs'[j].version
    <3>1. CASE v \in Named
      BY <1>1, <1>3, <1>4, <1>9, <2>1, <3>1
    <3>2. CASE v \notin Named
      BY <1>1, <1>7, <2>1, <3>2 DEF Shown
    <3> QED
      BY <3>1, <3>2
  <2>7. PICK p : p = product.sprite
    OBVIOUS
  <2>8. p # None => Ready("sprite_render", {p})' # {}
    BY <1>1, <1>8, <2>7 DEF Shown
  <2> QED
    BY <1>3, <1>5, <2>3, <2>4, <2>5, <2>6, <2>7, <2>8 DEF Shown, Ready
<1>10. CASE t = "sprite_render"
  <2>1. product' = [product EXCEPT !.sprite = v]
    BY <1>1, <1>2, <1>10 DEF Published
  <2>2. product'.model = product.model /\ product'.structured = product.structured /\ product'.sprite = v
    BY <1>1, <2>1
  <2>3. \A versions : Ready("model_ingest", versions)' = Ready("model_ingest", versions)
    BY <1>6, <1>10
  <2>4. \A versions : \A j \in Jobs : Wins(j, "model_ingest", versions) =>
          j \in Jobs' /\ Wins(j, "model_ingest", versions)' /\ jobs'[j].version = jobs[j].version
    BY <1>1, <1>7, <1>10
  <2>5. q \in Ready("sprite_render", {v})'
    BY <1>4, <1>10 DEF Wins
  <2>6. PICK m, s : m = product.model /\ s = product.structured
    OBVIOUS
  <2>7. m = None => Ready("model_ingest", Versions)' = {}
    BY <1>1, <2>3, <2>6 DEF Shown
  <2>8. m # None => \E j \in Jobs' : Wins(j, "model_ingest", Versions)' /\ m = jobs'[j].version
    BY <1>1, <2>4, <2>6 DEF Shown
  <2>9. s = None => Ready("model_ingest", Named)' = {}
    BY <1>1, <2>3, <2>6 DEF Shown
  <2>10. s # None => \E j \in Jobs' : Wins(j, "model_ingest", Named)' /\ s = jobs'[j].version
    BY <1>1, <2>4, <2>6 DEF Shown
  <2> QED
    BY <1>5, <2>2, <2>5, <2>6, <2>7, <2>8, <2>9, <2>10 DEF Shown, Ready
<1> QED
  BY <1>3, <1>9, <1>10

LEMMA ShownNext ==
  ASSUME AssetConstants, AssetInv, AssetNext
  PROVE  Shown'
<1>1. Typed /\ Linked /\ Shown /\ Grows /\ StepCases /\ Jobs = 1 .. Len(jobs) /\ Len(jobs) \in Nat
  BY EveryStep, Rows DEF AssetInv
<1>2. CASE \E r \in reports : ResultFacts(r)
  <2>1. PICK r \in reports : ResultFacts(r)
    BY <1>2
  <2>2. CASE r.status = "ready" /\ jobs[r.job].status # "ready"
    BY <1>1, <2>1, <2>2, ResultShown
  <2>3. CASE ~(r.status = "ready" /\ jobs[r.job].status # "ready")
    BY <1>1, <2>1, <2>3, ShownStays DEF ResultFacts
  <2> QED
    BY <2>2, <2>3
<1>3. CASE UpdateColor
  <2>1. product'.model = product.model /\ product'.structured = product.structured /\ product'.sprite = product.sprite
    <3>1. PICK n : n = product.look + 1
      OBVIOUS
    <3>2. product' = [product EXCEPT !.look = n]
      BY <1>3, <3>1 DEF UpdateColor
    <3> QED
      BY <1>1, <3>2 DEF Typed
  <2> QED
    BY <1>1, <1>3, <2>1, ShownStays DEF UpdateColor, Jobs
<1>4. CASE CreateFacts
  <2>1. \A j \in Jobs' : jobs'[j].status = "ready" => j \in Jobs /\ jobs'[j] = jobs[j]
    BY <1>1, <1>4 DEF CreateFacts
  <2> QED
    BY <1>1, <1>4, <2>1, ShownStays DEF CreateFacts
<1>5. CASE jobs' = jobs /\ product' = product
  BY <1>1, <1>5, ShownStays DEF Jobs
<1> QED
  BY <1>1, <1>2, <1>3, <1>4, <1>5
     DEF StepCases, AnnounceFacts, DeliverFacts, HandleFacts, SettleFacts, CrashFacts, HandMoves

-----------------------------------------------------------------------------
\* A stored sprite keeps its painter while it is not overwritten and no job is newly produced.
LEMMA PaintedStays ==
  ASSUME Typed, Painted, Grows, objects'.sprite = objects.sprite,
         \A k \in Jobs' : Produced(k)' => k \in Jobs /\ Produced(k)
  PROVE  Painted'
<1> SUFFICES ASSUME NEW v \in Versions, objects.sprite[v] # None
             PROVE  \E w \in Jobs' :
                      /\ SpriteOf(w, v)' /\ objects.sprite[v] = jobs'[w].look
                      /\ w \in Late' \/ \A k \in Jobs' : SpriteOf(k, v)' /\ Produced(k)' => k <= w
  BY DEF Painted
<1>1. PICK w \in Jobs :
        /\ SpriteOf(w, v) /\ objects.sprite[v] = jobs[w].look
        /\ w \in Late \/ \A k \in Jobs : SpriteOf(k, v) /\ Produced(k) => k <= w
  BY DEF Painted
<1>2. w \in Jobs' /\ SpriteOf(w, v)' /\ objects.sprite[v] = jobs'[w].look
  BY <1>1 DEF Grows, RowsGrow, SpriteOf
<1>3. w \in Late => w \in Late'
  BY DEF Late, Grows, MishapsGrow
<1>4. \A k \in Jobs' : SpriteOf(k, v)' /\ Produced(k)' => SpriteOf(k, v) /\ Produced(k) /\ k \in Jobs
  BY DEF Grows, RowsGrow, SpriteOf
<1> QED
  BY <1>1, <1>2, <1>3, <1>4

\* While a job that is not late is in hand, no newer one is produced.
LEMMA NothingNewer ==
  ASSUME AssetInv, NEW j \in Jobs, HandOf(j), j \notin Late, NEW k \in Jobs, Produced(k)
  PROVE  k <= j
<1>1. j \in Nat /\ k \in Nat
  BY Rows DEF AssetInv
<1>2. ~ Untouched(k)
  BY DEF Untouched, Produced
<1> QED
  BY <1>1, <1>2 DEF AssetInv, InTurn

\* A render overwrites the sprite of its model with the colours of its own job.
LEMMA WebpPainted ==
  ASSUME AssetConstants, AssetInv, Grows, HandMoves, put_webp
  PROVE  Painted'
<1>1. /\ Typed /\ Linked /\ Painted /\ worker.hand # None /\ jobs' = jobs /\ reports' = reports /\ mishaps' = mishaps
      /\ objects \in [glb : SUBSET Versions, structured : SUBSET Versions, sprite : [Versions -> Nat \cup {None}]]
  BY DEF AssetInv, Typed, put_webp
<1>2. PICK j \in Jobs : j = stream[worker.hand.msg].job
  BY <1>1, HandFacts
<1>3. PICK x, l : x = jobs[j].version /\ l = jobs[j].look
  OBVIOUS
<1>4. SpriteOf(j, x) /\ x \in Versions /\ HandOf(j)
  BY <1>1, <1>2, <1>3, HandFacts DEF put_webp, SpriteOf, Job, HandOf
<1>5. objects' = [objects EXCEPT !.sprite[x] = l]
  BY <1>2, <1>3 DEF put_webp, Job
<1>6. objects'.sprite = [objects.sprite EXCEPT ![x] = l]
  BY <1>1, <1>5
<1>7. objects'.sprite[x] = l /\ \A v \in Versions : v # x => objects'.sprite[v] = objects.sprite[v]
  BY <1>1, <1>4, <1>6
<1>8. j \in Late \/ \A k \in Jobs : Produced(k) => k <= j
  BY <1>4, NothingNewer DEF AssetInv
<1>9. /\ Jobs' = Jobs /\ Late' = Late /\ \A k \in Jobs : Produced(k)' <=> Produced(k)
      /\ \A k \in Jobs, v \in Versions : SpriteOf(k, v)' <=> SpriteOf(k, v)
  BY <1>1 DEF Jobs, Late, Produced, SpriteOf
<1>10. ASSUME NEW v \in Versions, objects'.sprite[v] # None
       PROVE  \E w \in Jobs :
                /\ SpriteOf(w, v) /\ objects'.sprite[v] = jobs[w].look
                /\ w \in Late \/ \A k \in Jobs : SpriteOf(k, v) /\ Produced(k) => k <= w
  <2>1. CASE v = x
    BY <1>3, <1>4, <1>7, <1>8, <2>1
  <2>2. CASE v # x
    BY <1>1, <1>7, <1>10, <2>2 DEF Painted
  <2> QED
    BY <2>1, <2>2
<1> QED
  BY <1>1, <1>9, <1>10 DEF Painted

\* A report of a render is of the sprite that is stored.
LEMMA ReportPainted ==
  ASSUME AssetConstants, AssetInv, Grows, HandMoves, report
  PROVE  Painted'
<1>1. /\ Typed /\ Linked /\ Painted /\ HandSound /\ worker.hand # None /\ jobs' = jobs /\ mishaps' = mishaps
      /\ objects' = objects /\ worker.hand.step = "report"
  BY DEF AssetInv, HandMoves, report
<1>2. PICK j \in Jobs : j = stream[worker.hand.msg].job
  BY <1>1, HandFacts
<1>3. PICK q : q = [job |-> j, status |-> worker.hand.status, step |-> "sent"] /\ reports' = reports \cup {q}
  BY <1>2 DEF report
<1>4. HandOf(j)
  BY <1>1, <1>2 DEF HandOf
<1>5. j \in Late \/ \A k \in Jobs : Produced(k) => k <= j
  BY <1>4, NothingNewer DEF AssetInv
<1>6. \A k \in Jobs : Produced(k)' => Produced(k) \/ (k = j /\ worker.hand.status = "ready")
  BY <1>1, <1>3 DEF Produced
<1>7. worker.hand.status = "ready" /\ jobs[j].type = "sprite_render" => objects.sprite[jobs[j].version] = jobs[j].look
  BY <1>1, <1>2 DEF HandSound, Done
<1>8. Jobs' = Jobs /\ Late' = Late /\ \A k \in Jobs, v \in Versions : SpriteOf(k, v)' <=> SpriteOf(k, v)
  BY <1>1 DEF Jobs, Late, SpriteOf
<1>9. j \in Nat
  BY <1>1, Rows
<1>10. ASSUME NEW v \in Versions, objects.sprite[v] # None
       PROVE  \E w \in Jobs :
                /\ SpriteOf(w, v) /\ objects.sprite[v] = jobs[w].look
                /\ w \in Late \/ \A k \in Jobs : SpriteOf(k, v) /\ Produced(k)' => k <= w
  <2>1. CASE SpriteOf(j, v) /\ worker.hand.status = "ready"
    <3>1. objects.sprite[v] = jobs[j].look
      BY <1>7, <2>1 DEF SpriteOf
    <3>2. j \in Late \/ \A k \in Jobs : Produced(k)' => k <= j
      BY <1>5, <1>6, <1>9
    <3> QED
      BY <2>1, <3>1, <3>2
  <2>2. CASE ~(SpriteOf(j, v) /\ worker.hand.status = "ready")
    <3>1. \A k \in Jobs : SpriteOf(k, v) /\ Produced(k)' => Produced(k)
      BY <1>6, <2>2
    <3> QED
      BY <1>1, <1>10, <3>1 DEF Painted
  <2> QED
    BY <2>1, <2>2
<1> QED
  BY <1>1, <1>8, <1>10 DEF Painted

LEMMA PaintedNext ==
  ASSUME AssetConstants, AssetInv, AssetNext
  PROVE  Painted'
<1>1. Typed /\ Linked /\ Painted /\ Grows /\ StepCases /\ Jobs = 1 .. Len(jobs) /\ Len(jobs) \in Nat
  BY EveryStep, Rows DEF AssetInv
<1>2. CASE put_webp /\ HandMoves
  BY <1>1, <1>2, WebpPainted
<1>3. CASE report /\ HandMoves
  BY <1>1, <1>3, ReportPainted
<1>4. CASE HandMoves /\ objects'.sprite = objects.sprite /\ reports' \subseteq reports
  <2>1. jobs' = jobs
    BY <1>4 DEF HandMoves
  <2> QED
    BY <1>1, <1>4, <2>1, PaintedStays DEF Produced, Jobs
<1>5. CASE \E r \in reports : ResultFacts(r)
  <2>1. PICK r \in reports : ResultFacts(r)
    BY <1>5
  <2>2. ASSUME NEW k \in Jobs', Produced(k)' PROVE k \in Jobs /\ Produced(k)
    <3>1. k \in Jobs
      BY <2>1 DEF ResultFacts
    <3>2. CASE jobs'[k].status = "ready"
      BY <2>1, <3>1, <3>2 DEF ResultFacts, Produced
    <3>3. CASE \E s \in reports' : s.job = k /\ s.status = "ready"
      BY <2>1, <3>1, <3>3 DEF ResultFacts, Produced
    <3> QED
      BY <2>2, <3>1, <3>2, <3>3 DEF Produced
  <2>3. objects' = objects
    BY <2>1 DEF ResultFacts
  <2> QED
    BY <1>1, <2>2, <2>3, PaintedStays
<1>6. CASE CreateFacts
  <2>1. ASSUME NEW k \in Jobs', Produced(k)' PROVE k \in Jobs /\ Produced(k)
    <3>1. k \in Jobs
      BY <1>1, <1>6, <2>1 DEF CreateFacts, Produced, Linked
    <3> QED
      BY <1>1, <1>6, <2>1, <3>1 DEF CreateFacts, Produced
  <2>2. objects' = objects
    BY <1>6 DEF CreateFacts
  <2> QED
    BY <1>1, <2>1, <2>2, PaintedStays
<1>7. CASE jobs' = jobs /\ objects' = objects /\ reports' \subseteq reports
  BY <1>1, <1>7, PaintedStays DEF Produced, Jobs
<1>8. Working => put_webp \/ report \/ (objects'.sprite = objects.sprite /\ reports' \subseteq reports)
  <2>1. objects \in [glb : SUBSET Versions, structured : SUBSET Versions, sprite : [Versions -> Nat \cup {None}]]
    BY <1>1 DEF Typed
  <2> QED
    BY <2>1 DEF Working, put_glb, put_structured, Permanent, Transient, report_failed, reported, Unserved
<1> QED
  BY <1>1, <1>2, <1>3, <1>4, <1>5, <1>6, <1>7, <1>8
     DEF StepCases, UpdateColor, AnnounceFacts, DeliverFacts, HandleFacts, SettleFacts, CrashFacts

-----------------------------------------------------------------------------
LEMMA InvInit ==
  ASSUME AssetConstants, AssetInit
  PROVE  AssetInv
<1>1. /\ Jobs = {} /\ Messages = {} /\ reports = {} /\ worker.hand = None /\ worker.buffer = << >>
      /\ DOMAIN worker.buffer = {} /\ Len(worker.buffer) = 0 /\ Len(jobs) = 0
  BY DEF AssetInit, Jobs, Messages
<1>2. Typed
  BY EmptySeq DEF AssetInit, Typed
<1>3. Linked /\ HandSound /\ ReportsSound /\ Kept /\ Buffered /\ InTurn
  BY <1>1 DEF Linked, HandSound, ReportsSound, Kept, Buffered, InTurn, AssetConstants
<1>4. Streamed
  BY <1>1 DEF Streamed
<1>5. Shown /\ Painted
  <2>1. product.model = None /\ product.structured = None /\ product.sprite = None
    BY DEF AssetInit
  <2>2. \A v \in Versions : objects.sprite[v] = None
    BY DEF AssetInit
  <2> QED
    BY <1>1, <2>1, <2>2 DEF Shown, Painted, Ready
<1> QED
  BY <1>2, <1>3, <1>4, <1>5 DEF AssetInv

LEMMA InvNext ==
  ASSUME AssetConstants, AssetInv, [AssetNext]_assetVars
  PROVE  AssetInv'
<1>1. CASE AssetNext
  BY <1>1, EveryStep, HandSoundNext, ReportsNext, KeptNext, StreamedNext, BufferedNext, InTurnNext, ShownNext, PaintedNext
     DEF AssetInv
<1>2. CASE UNCHANGED assetVars
  <2>1. UNCHANGED <<product, jobs, stream, worker, objects, reports, mishaps>>
    BY <1>2 DEF assetVars
  <2>2. Jobs' = Jobs /\ Messages' = Messages /\ Announced' = Announced /\ Late' = Late
    BY <2>1 DEF Jobs, Messages, Announced, Late
  <2>3. Typed' /\ Linked' /\ HandSound' /\ ReportsSound'
    BY <2>1, <2>2 DEF AssetInv, Typed, Linked, HandSound, ReportsSound, Points, Done, Made, HandOf
  <2>4. Kept' /\ Streamed' /\ Buffered'
    BY <2>1, <2>2 DEF AssetInv, Kept, LastDelivery, InHand, Streamed, Buffered, Buffered1, Waits
  <2>5. InTurn' /\ Shown' /\ Painted'
    BY <2>1, <2>2
       DEF AssetInv, InTurn, Waits, Buffered1, HandOf, Untouched, Shown, Wins, Ready, Made, Painted, SpriteOf, Produced
  <2> QED
    BY <2>3, <2>4, <2>5 DEF AssetInv
<1> QED
  BY <1>1, <1>2

-----------------------------------------------------------------------------
\* A finite set of numbers that is not empty has a greatest one.
LEMMA GreatestExists ==
  ASSUME NEW n \in Nat, NEW S \in SUBSET (1 .. n), S # {}
  PROVE  \E j \in S : \A k \in S : k <= j
<1> DEFINE From(j) == {k \in S : k >= j}
           Family == {From(j) : j \in S}
<1>1. IsFiniteSet(S)
  <2>1. IsFiniteSet(1 .. n)
    BY FS_Interval
  <2> QED
    BY <2>1, FS_Subset
<1>2. Family \in SUBSET SUBSET S /\ Family # {}
  OBVIOUS
<1>3. PICK T \in Family : \A U \in SUBSET T : U # T => U \notin Family
  <2> HIDE DEF Family
  <2>1. Family \subseteq FiniteSubsetsOf(S)
    BY <1>1, <1>2, FS_FiniteSubsetsOfFinite
  <2>2. PICK T \in Family : \A U \in Family : <<U, T>> \notin StrictSubsetOrdering(S)
    BY <1>1, <1>2, <2>1, WFMin, FS_StrictSubsetOrderingWellFounded
  <2>3. T \in SUBSET S
    BY <1>2, <2>2
  <2>4. ASSUME NEW U \in SUBSET T, U # T, U \in Family PROVE FALSE
    BY <2>2, <2>3, <2>4 DEF StrictSubsetOrdering
  <2> QED
    BY <2>2, <2>4
<1>4. PICK j \in S : T = From(j)
  BY <1>3
<1>5. ASSUME NEW k \in S, ~ (k <= j) PROVE FALSE
  <2>1. k \in Int /\ j \in Int /\ \A i \in S : i \in Int
    OBVIOUS
  <2>2. j < k
    BY <1>5, <2>1
  <2>3. \A i \in S : i >= k => i >= j
    BY <2>1, <2>2
  <2>4. From(k) \in SUBSET T /\ j \in T /\ j \notin From(k)
    <3>1. T = {i \in S : i >= j}
      BY <1>4
    <3>2. j >= j /\ ~ (j >= k)
      BY <2>1, <2>2
    <3> QED
      BY <2>3, <3>1, <3>2, Zenon
  <2>5. From(k) \in Family
    OBVIOUS
  <2> QED
    BY <1>3, <2>4, <2>5
<1> QED
  BY <1>5

LEMMA NewestIsGreatest ==
  ASSUME NEW n \in Nat, NEW S \in SUBSET (1 .. n), S # {}
  PROVE  /\ Newest(S) \in S /\ \A k \in S : k <= Newest(S)
         /\ \A j \in S : (\A k \in S : k <= j) => j = Newest(S)
<1>1. PICK j \in S : \A k \in S : k <= j
  BY GreatestExists
<1>2. Newest(S) \in S /\ \A k \in S : k <= Newest(S)
  BY <1>1 DEF Newest
<1>3. \A x, y \in 1 .. n : x <= y /\ y <= x => x = y
  OBVIOUS
<1> QED
  BY <1>2, <1>3

\* A job that wins is one of those the storefront may show.
LEMMA WinnersOvertake ==
  ASSUME AssetInv, NEW type, NEW versions, NEW j, Wins(j, type, versions)
  PROVE  j \in Overtakers(Ready(type, versions))
<1>1. Len(jobs) \in Nat /\ Ready(type, versions) \in SUBSET (1 .. Len(jobs))
  BY Rows DEF AssetInv, Ready
<1>2. j \in Ready(type, versions) /\ (j \in Late \/ j = Newest(Ready(type, versions)))
  BY <1>1, NewestIsGreatest DEF Wins
<1> QED
  BY <1>2 DEF Overtakers

LEMMA InvMadeShown ==
  ASSUME AssetConstants, AssetInv
  PROVE  ShowsWhatWasMade
<1>1. PICK m, s, p : m = product.model /\ s = product.structured /\ p = product.sprite
  OBVIOUS
<1>2. m # None => m \in objects.glb /\ Ready("model_ingest", {m}) # {}
  BY <1>1 DEF AssetInv, Shown, Wins, Ready, Made
<1>3. s # None => s \in objects.structured /\ Ready("model_ingest", {s}) # {}
  BY <1>1 DEF AssetInv, Shown, Wins, Ready, Made
<1>4. p # None => objects.sprite[p] # None /\ Ready("sprite_render", {p}) # {}
  BY <1>1 DEF AssetInv, Shown, Ready, Made
<1>5. Ready("model_ingest", Versions) # {} => m # None
  BY <1>1 DEF AssetInv, Shown
<1> QED
  BY <1>1, <1>2, <1>3, <1>4, <1>5 DEF ShowsWhatWasMade

LEMMA InvNewestModel ==
  ASSUME AssetConstants, AssetInv
  PROVE  ShowsNewestModel
<1>1. ASSUME Ready("model_ingest", Versions) # {}
      PROVE  product.model \in {jobs[j].version : j \in Overtakers(Ready("model_ingest", Versions))}
  <2>1. PICK j \in Jobs : Wins(j, "model_ingest", Versions) /\ product.model = jobs[j].version
    BY <1>1 DEF AssetInv, Shown
  <2> QED
    BY <2>1, WinnersOvertake
<1>2. ASSUME Ready("model_ingest", Named) # {}
      PROVE  product.structured \in {jobs[j].version : j \in Overtakers(Ready("model_ingest", Named))}
  <2>1. PICK j \in Jobs : Wins(j, "model_ingest", Named) /\ product.structured = jobs[j].version
    BY <1>2 DEF AssetInv, Shown
  <2> QED
    BY <2>1, WinnersOvertake
<1> QED
  BY <1>1, <1>2 DEF ShowsNewestModel

LEMMA InvNewestLook ==
  ASSUME AssetConstants, AssetInv
  PROVE  ShowsNewestLook
<1>1. PICK v, made : v = product.sprite /\ made = Ready("sprite_render", {v})
  OBVIOUS
<1>2. SUFFICES ASSUME v # None
               PROVE  \E w \in Jobs : /\ jobs[w].type = "sprite_render" /\ jobs[w].version = v
                                      /\ w >= Newest(made) \/ w \in Late
                                      /\ objects.sprite[v] = jobs[w].look
  BY <1>1 DEF ShowsNewestLook
<1>3. /\ Typed /\ Shown /\ Painted /\ v \in Versions /\ made # {} /\ Len(jobs) \in Nat
      /\ Jobs = 1 .. Len(jobs) /\ made \in SUBSET (1 .. Len(jobs))
  BY <1>1, <1>2, Rows DEF AssetInv, Typed, Shown, Ready
<1>4. objects.sprite[v] # None
  BY <1>1, <1>3 DEF Shown, Ready, Made
<1>5. PICK w \in Jobs :
        /\ SpriteOf(w, v) /\ objects.sprite[v] = jobs[w].look
        /\ w \in Late \/ \A k \in Jobs : SpriteOf(k, v) /\ Produced(k) => k <= w
  BY <1>3, <1>4 DEF Painted
<1>6. Newest(made) \in made
  BY <1>3, NewestIsGreatest
<1>7. \A k \in made : k \in Jobs /\ SpriteOf(k, v) /\ Produced(k)
  BY <1>1 DEF Ready, SpriteOf, Produced
<1>8. w \in Late \/ Newest(made) <= w
  BY <1>5, <1>6, <1>7
<1> QED
  BY <1>5, <1>8 DEF SpriteOf

LEMMA InvSound ==
  ASSUME AssetConstants, AssetInv
  PROVE  AssetTypeOK /\ AssetsSound
<1>1. NoJobForgotten
  <2> SUFFICES ASSUME NEW m \in Messages, jobs[stream[m].job].status = "queued"
               PROVE  /\ stream[m].state # "gone"
                      /\ stream[m].delivered = max_deliver /\ ~InHand(m) /\ Copies(m) = {} => stream[m].job \in mishaps.lost
    BY DEF NoJobForgotten
  <2>1. stream[m].state # "gone" /\ (stream[m].delivered = max_deliver => LastDelivery(m))
    BY DEF AssetInv, Kept
  <2>2. Copies(m) = {} => ~ \E i \in DOMAIN worker.buffer : worker.buffer[i] = [msg |-> m, delivered |-> max_deliver]
    BY DEF Copies
  <2> QED
    BY <2>1, <2>2 DEF LastDelivery
<1>2. AssetTypeOK
  <2>1. /\ \A j \in Jobs : jobs[j].status \in {"queued", "ready", "failed"}
        /\ \A m \in Messages : stream[m].delivered \in 0 .. max_deliver /\ stream[m].state \in {"waiting", "pending", "gone"}
    BY Rows DEF AssetInv, Linked, JobRow, Message, AssetConstants
  <2>2. /\ product.model \in Versions \cup {None} /\ product.structured \in Named \cup {None}
        /\ product.sprite \in Versions \cup {None}
    BY DEF AssetInv, Typed
  <2> QED
    BY <2>1, <2>2 DEF AssetInv, Linked, AssetTypeOK
<1> QED
  BY <1>1, <1>2, InvMadeShown, InvNewestModel, InvNewestLook DEF AssetsSound

(* Every state of the pipeline satisfies the invariant the two theorems below  *)
(* are read from.                                                           *)
LEMMA AlwaysInv ==
  ASSUME AssetConstants
  PROVE  AssetSpec => []AssetInv
<1>1. AssetInit => AssetInv
  BY InvInit
<1>2. AssetInv /\ [AssetNext]_assetVars => AssetInv'
  BY InvNext
<1> QED
  BY <1>1, <1>2, PTL DEF AssetSpec

-----------------------------------------------------------------------------
(* A job is queued, ready or failed whatever the worker reports, a message is   *)
(* never delivered more often than the consumer allows, the worker holds no    *)
(* more than its pull buffer, and the columns of a product name models that    *)
(* were uploaded (internal/db/jobs.go, worker.rs, internal_asset_jobs.go).    *)
THEOREM AssetTypes ==
  ASSUME AssetConstants
  PROVE  AssetSpec => []AssetTypeOK
<1>1. AssetInv => AssetTypeOK
  BY InvSound
<1> QED
  BY <1>1, AlwaysInv, PTL

(* Whatever is crashed, lost, delivered or announced again, a product shows     *)
(* only derivatives that are stored and whose job is ready, the newest model   *)
(* and the newest look unless an older job fell behind or lost its answer, and  *)
(* no announced job is forgotten while its deliveries and its report get       *)
(* through.                                                                *)
THEOREM AssetsAreSound ==
  ASSUME AssetConstants
  PROVE  AssetSpec => []AssetsSound
<1>1. AssetInv => AssetsSound
  BY InvSound
<1> QED
  BY <1>1, AlwaysInv, PTL

=============================================================================
