--------------------------- MODULE AssetPipeline ---------------------------
(***************************************************************************)
(* From an uploaded 3D model to what the storefront shows: the job and its    *)
(* announcement (internal/db/jobs.go), the work queue, the one GPU worker      *)
(* (services/asset-worker) and its report (internal_asset_jobs.go).          *)
(*                                                                         *)
(* The worker's pull buffer may hold several deliveries while one job runs;   *)
(* only the job in hand sends heartbeats, so a buffered delivery can expire    *)
(* and be delivered again behind itself.  A derivative is stored under the    *)
(* hash of its source model, and the jobs of one model share that key.        *)
(*                                                                         *)
(* No worker reports 'processing', the only status the reconcile sweep         *)
(* (FailStuckAssetJobs) looks for: the sweep never finds a job, and there is  *)
(* no action for it.                                                        *)
(***************************************************************************)
EXTENDS Naturals, Sequences, FiniteSets

CONSTANTS
  Versions,    \* source models of one product, by content hash
  Named,       \* those whose objects have names: they yield a structured glb
  max_deliver, \* deliveries of one message (5 in the code)
  Prefetch,    \* deliveries the pull buffer holds
  MaxJobs, MaxLooks, MaxFaults, \* bounds: jobs, recolourings; crashes and lost calls
  None

VARIABLES
  product,  \* the columns a ready job writes, and the colours in force
  jobs,     \* asset_jobs, oldest first
  stream,   \* ASSET_JOBS: one message per announcement
  worker,   \* deliveries in its buffer, and the one in hand
  objects,  \* derivatives stored
  reports,  \* callbacks under way
  mishaps   \* history: faults, jobs with a delivery or report lost, jobs fallen behind

assetVars == <<product, jobs, stream, worker, objects, reports, mishaps>>

Jobs == DOMAIN jobs
Messages == DOMAIN stream
Job(d) == jobs[stream[d.msg].job]

AssetInit ==
  /\ product = [model |-> None, structured |-> None, sprite |-> None, look |-> 1]
  /\ jobs = <<>> /\ stream = <<>> /\ reports = {}
  /\ worker = [buffer |-> <<>>, hand |-> None]
  /\ objects = [glb |-> {}, structured |-> {}, sprite |-> [v \in Versions |-> None]]
  /\ mishaps = [count |-> 0, lost |-> {}, behind |-> {}]

Fault == mishaps.count < MaxFaults
Faulted(lost) == [mishaps EXCEPT !.count = @ + 1, !.lost = @ \cup lost]

(***************************************************************************)
(* core-api: the editor and the relay.                                      *)
(***************************************************************************)
UpdateColor ==
  /\ product.look < MaxLooks
  /\ product' = [product EXCEPT !.look = @ + 1]
  /\ UNCHANGED <<jobs, stream, worker, objects, reports, mishaps>>

(* A render freezes the colours into its payload.  They are read before the     *)
(* transaction that inserts the job, and may have changed since.            *)
CreateAssetJob(type, version) ==
  /\ Len(jobs) < MaxJobs
  /\ \E look \in IF type = "sprite_render" THEN 1 .. product.look ELSE {None} :
       jobs' = Append(jobs, [type |-> type, version |-> version, status |-> "queued", look |-> look])
  /\ UNCHANGED <<product, stream, worker, objects, reports, mishaps>>

(* The relay announces in no certain order: a row's number is drawn at its      *)
(* insert, not at the commit, and a rejected row is passed over until it is    *)
(* queued again.  An older job not announced by now has fallen behind.       *)
Announced == {stream[m].job : m \in Messages}
Publish ==
  /\ \E j \in Jobs \ Announced :
       /\ stream' = Append(stream, [job |-> j, delivered |-> 0, state |-> "waiting"])
       /\ mishaps' = [mishaps EXCEPT !.behind = @ \cup {i \in Jobs \ Announced : i < j}]
  /\ UNCHANGED <<product, jobs, worker, objects, reports>>

(* Its mark was lost, and the duplicate window has passed. *)
PublishAgain(j) ==
  /\ Fault /\ j \in Announced
  /\ stream' = Append(stream, [job |-> j, delivered |-> 0, state |-> "waiting"])
  /\ mishaps' = [Faulted({}) EXCEPT !.behind = @ \cup {j}]
  /\ UNCHANGED <<product, jobs, worker, objects, reports>>

(***************************************************************************)
(* The broker: first deliveries in stream order, an unacknowledged delivery    *)
(* again after ack_wait, max_deliver times in all.                            *)
(***************************************************************************)
Deliver(m) ==
  /\ stream[m].state = "waiting" /\ stream[m].delivered < max_deliver
  /\ stream[m].delivered = 0 => \A e \in 1 .. m - 1 : stream[e].delivered > 0
  /\ Len(worker.buffer) < Prefetch
  /\ stream' = [stream EXCEPT ![m].state = "pending", ![m].delivered = @ + 1]
  /\ worker' = [worker EXCEPT !.buffer = Append(@, [msg |-> m, delivered |-> stream[m].delivered + 1])]
  /\ UNCHANGED <<product, jobs, objects, reports, mishaps>>

InHand(m) == worker.hand # None /\ worker.hand.msg = m
AckWaitOver(m) ==
  /\ stream[m].state = "pending"
  /\ IF InHand(m) THEN Fault /\ mishaps' = Faulted({}) ELSE UNCHANGED mishaps  \* its heartbeats were lost
  /\ stream' = [stream EXCEPT ![m].state = "waiting"]
  /\ UNCHANGED <<product, jobs, worker, objects, reports>>

(***************************************************************************)
(* The worker: one delivery in hand, from its pull to its settlement.         *)
(***************************************************************************)
handle_message ==
  /\ worker.hand = None /\ worker.buffer # <<>>
  /\ LET d == Head(worker.buffer) IN
       /\ worker' = [buffer |-> Tail(worker.buffer),
                     hand |-> [msg |-> d.msg, delivered |-> d.delivered, step |-> "process", status |-> None, ack |-> None]]
       /\ mishaps' = IF d.delivered > 1 THEN [mishaps EXCEPT !.behind = @ \cup {stream[d.msg].job}] ELSE mishaps
  /\ UNCHANGED <<product, jobs, stream, objects, reports>>

\* Mutant: the message is settled without a report.
DecidedUnreported(status, ack) == [worker EXCEPT !.hand.step = "settle", !.hand.status = status, !.hand.ack = ack]

Decided(status, ack) ==
  [worker EXCEPT !.hand.step = IF status = None THEN "settle" ELSE "report", !.hand.status = status, !.hand.ack = ack]

put_glb ==
  /\ worker.hand # None /\ worker.hand.step = "process" /\ Job(worker.hand).type = "model_ingest"
  /\ objects' = [objects EXCEPT !.glb = @ \cup {Job(worker.hand).version}]
  /\ worker' = IF Job(worker.hand).version \in Named THEN [worker EXCEPT !.hand.step = "structured"] ELSE Decided("ready", "ack")
  /\ UNCHANGED <<product, jobs, stream, reports, mishaps>>

put_structured ==
  /\ worker.hand # None /\ worker.hand.step = "structured"
  /\ objects' = [objects EXCEPT !.structured = @ \cup {Job(worker.hand).version}]
  /\ worker' = Decided("ready", "ack")
  /\ UNCHANGED <<product, jobs, stream, reports, mishaps>>

put_webp ==
  /\ worker.hand # None /\ worker.hand.step = "process" /\ Job(worker.hand).type = "sprite_render"
  /\ objects' = [objects EXCEPT !.sprite[Job(worker.hand).version] = Job(worker.hand).look]
  /\ worker' = Decided("ready", "ack")
  /\ UNCHANGED <<product, jobs, stream, reports, mishaps>>

(* A tool that exits with an error or a signal is the model's fault; a store   *)
(* that does not answer, a tool that hangs or cannot start is not.            *)
Permanent ==
  /\ worker.hand # None /\ worker.hand.step = "process"
  /\ worker' = Decided("failed", "ack")
  /\ UNCHANGED <<product, jobs, stream, objects, reports, mishaps>>

Transient ==
  /\ worker.hand # None /\ worker.hand.step \in {"process", "structured"}
  /\ worker' = IF worker.hand.delivered >= max_deliver THEN Decided("failed", "term") ELSE Decided(None, "nak")
  /\ UNCHANGED <<product, jobs, stream, objects, reports, mishaps>>

report ==
  /\ worker.hand # None /\ worker.hand.step = "report"
  /\ reports' = reports \cup {[job |-> stream[worker.hand.msg].job, status |-> worker.hand.status, step |-> "sent"]}
  /\ worker' = [worker EXCEPT !.hand.step = "reporting"]
  /\ UNCHANGED <<product, jobs, stream, objects, mishaps>>

reported(r) ==
  /\ worker.hand # None /\ worker.hand.step = "reporting"
  /\ r.job = stream[worker.hand.msg].job /\ r.status = worker.hand.status /\ r.step = "served"
  /\ reports' = reports \ {r}
  /\ worker' = [worker EXCEPT !.hand.step = "settle"]
  /\ UNCHANGED <<product, jobs, stream, objects, mishaps>>

(* The request or its answer is lost: deliver again.  It may still be served.  *)
Unserved == {r \in reports : r.step = "sent"}
report_failed ==
  /\ Fault
  /\ worker.hand # None /\ worker.hand.step = "reporting"
  /\ worker' = Decided(None, "nak")
  /\ reports' = Unserved
  /\ mishaps' = Faulted({stream[worker.hand.msg].job})
  /\ UNCHANGED <<product, jobs, stream, objects>>

(* Settling what another delivery has settled changes nothing.               *)
Settled(m, ack) ==
  IF stream[m].state = "gone" THEN stream
  ELSE [stream EXCEPT ![m].state = IF ack = "nak" THEN "waiting" ELSE "gone"]
settle ==
  /\ worker.hand # None /\ worker.hand.step = "settle"
  /\ worker' = [worker EXCEPT !.hand = None]
  /\ \/ stream' = Settled(worker.hand.msg, worker.hand.ack) /\ UNCHANGED mishaps
     \/ Fault /\ mishaps' = Faulted({}) /\ UNCHANGED stream
  /\ UNCHANGED <<product, jobs, objects, reports>>

Crash ==
  /\ Fault
  /\ worker' = [buffer |-> <<>>, hand |-> None]
  /\ mishaps' = Faulted({stream[m].job : m \in {n \in Messages : InHand(n) \/ \E i \in DOMAIN worker.buffer :
                                                                 worker.buffer[i].msg = n}})
  /\ reports' = Unserved
  /\ UNCHANGED <<product, jobs, stream, objects>>

(***************************************************************************)
(* The callback: one transaction on the locked job.  ready is final.           *)
(***************************************************************************)
Published(j) ==
  CASE jobs[j].type = "model_ingest" ->
         [product EXCEPT !.model = jobs[j].version,
                         !.structured = IF jobs[j].version \in Named THEN jobs[j].version ELSE @]
    [] OTHER -> [product EXCEPT !.sprite = jobs[j].version]

ReportAssetJobResult(r) ==
  /\ r.step = "sent"
  /\ reports' = (reports \ {r}) \cup {[r EXCEPT !.step = "served"]}
  /\ IF jobs[r.job].status = "ready" THEN UNCHANGED <<jobs, product>>
     ELSE /\ jobs' = [jobs EXCEPT ![r.job].status = r.status]
          /\ product' = IF r.status = "ready" THEN Published(r.job) ELSE product
  /\ UNCHANGED <<stream, worker, objects, mishaps>>

AssetNext ==
  \/ UpdateColor \/ Publish \/ Crash
  \/ \E type \in {"model_ingest", "sprite_render"}, v \in Versions : CreateAssetJob(type, v)
  \/ \E j \in Jobs : PublishAgain(j)
  \/ \E m \in Messages : Deliver(m) \/ AckWaitOver(m)
  \/ handle_message \/ put_glb \/ put_structured \/ put_webp \/ Permanent \/ Transient
  \/ report \/ report_failed \/ settle
  \/ \E r \in reports : ReportAssetJobResult(r) \/ reported(r)

AssetSpec == AssetInit /\ [][AssetNext]_assetVars

-----------------------------------------------------------------------------
AssetTypeOK ==
  /\ \A j \in Jobs : jobs[j].status \in {"queued", "ready", "failed"}
  /\ \A m \in Messages : stream[m].delivered \in 0 .. max_deliver /\ stream[m].state \in {"waiting", "pending", "gone"}
  /\ Len(worker.buffer) <= Prefetch
  /\ product.model \in Versions \cup {None} /\ product.structured \in Named \cup {None}
  /\ product.sprite \in Versions \cup {None}

Ready(type, versions) == {j \in Jobs : jobs[j].type = type /\ jobs[j].version \in versions /\ jobs[j].status = "ready"}
Newest(set) == CHOOSE j \in set : \A k \in set : k <= j
Late == mishaps.behind \cup mishaps.lost
Overtakers(set) == {j \in set : j = Newest(set) \/ j \in Late}

(* What a product shows was made, by a job that is still reported ready: no     *)
(* column outlives a ready status taken back by a late report, and none is     *)
(* set before the object is stored.                                         *)
ShowsWhatWasMade ==
  /\ product.model # None =>
       product.model \in objects.glb /\ Ready("model_ingest", {product.model}) # {}
  /\ product.structured # None =>
       product.structured \in objects.structured /\ Ready("model_ingest", {product.structured}) # {}
  /\ product.sprite # None =>
       objects.sprite[product.sprite] # None /\ Ready("sprite_render", {product.sprite}) # {}
  /\ Ready("model_ingest", Versions) # {} => product.model # None

(* A product shows its newest finished model, unless an older job fell behind:  *)
(* it was worked on again, announced after a newer one, or lost its answer.    *)
(* The structured glb is that of the newest model with names, likewise.       *)
ShowsNewestModel ==
  /\ LET made == Ready("model_ingest", Versions) IN
       made # {} => product.model \in {jobs[j].version : j \in Overtakers(made)}
  /\ LET made == Ready("model_ingest", Named) IN
       made # {} => product.structured \in {jobs[j].version : j \in Overtakers(made)}

(* The sprite a product shows has the colours of its newest finished render, of *)
(* a newer one on its way, or of one that fell behind.                        *)
ShowsNewestLook ==
  LET made == Ready("sprite_render", {product.sprite})
      later(j) == jobs[j].type = "sprite_render" /\ jobs[j].version = product.sprite /\ (j >= Newest(made) \/ j \in Late)
  IN product.sprite # None => objects.sprite[product.sprite] \in {jobs[j].look : j \in {k \in Jobs : later(k)}}

(* A message leaves the queue only with its job's result on record.  One that   *)
(* is delivered no more leaves its job queued only if a delivery died with the  *)
(* worker or a report was lost.                                             *)
Copies(m) == {i \in DOMAIN worker.buffer : worker.buffer[i].msg = m}
NoJobForgotten ==
  \A m \in Messages :
    jobs[stream[m].job].status = "queued" =>
      /\ stream[m].state # "gone"
      /\ stream[m].delivered = max_deliver /\ ~InHand(m) /\ Copies(m) = {} => stream[m].job \in mishaps.lost

AssetsSound == ShowsWhatWasMade /\ ShowsNewestModel /\ ShowsNewestLook /\ NoJobForgotten
=============================================================================
