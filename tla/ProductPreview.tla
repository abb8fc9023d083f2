--------------------------- MODULE ProductPreview ---------------------------
(***************************************************************************)
(* A product's 3D model in the editor: the upload and its jobs               *)
(* (product-model.tsx), the saved camera pose and the turntable rendered      *)
(* again for it, and the spots a text is engraved at                        *)
(* (product-model-view.tsx).  The worker that runs the jobs is the           *)
(* environment: a queued job settles, ready or failed.                      *)
(*                                                                         *)
(* byHand, overlap and during are history: jobs that settled outside the      *)
(* panel's own polling, saves that overlapped a poll or a newer job, options  *)
(* whose spots changed while they were being saved.                         *)
(***************************************************************************)
EXTENDS Integers, Sequences, FiniteSets

CONSTANTS
  PollCap,     \* polls before the panel asks to be refreshed (75 in the code)
  Options,     \* text options of the product
  Spots,       \* places on the surface
  MaxUploads, MaxSaves, MaxEdits, \* bounds: models uploaded, poses or spots saved, spots touched
  MaxLost,     \* bound: job lists that could not be read
  None

VARIABLES
  queue,   \* asset_jobs of the product, newest first
  model,   \* the panel of the model and its jobs
  pose,    \* the camera pose's card
  anchors, \* the spots: the server's and the picker's
  fetches, \* requests of the three under way
  lost     \* lists that could not be read

previewVars == <<queue, model, pose, anchors, fetches, lost>>

isPending(status) == status = "queued"
ofType(jobs, type) == {i \in DOMAIN jobs : jobs[i].type = type}
firstOf(jobs, type) == CHOOSE i \in ofType(jobs, type) : \A j \in ofType(jobs, type) : i <= j
latestJobsByType(jobs) == {jobs[firstOf(jobs, type)] : type \in {t \in {"ingest", "sprite"} : ofType(jobs, t) # {}}}
Ids(jobs) == {jobs[i].id : i \in DOMAIN jobs}
WithId(jobs, id) == CHOOSE j \in {jobs[i] : i \in DOMAIN jobs} : j.id = id
Enqueued(jobs, type) == <<[id |-> Len(jobs) + 1, type |-> type, status |-> "queued"]>> \o jobs

PreviewInit ==
  /\ \E jobs \in {<<>>, Enqueued(<<>>, "sprite")} : queue = jobs
  /\ model = [jobs |-> <<>>, polls |-> 0, uploading |-> "idle", uploads |-> 0, error |-> FALSE, timer |-> FALSE,
              seen |-> {}, refreshed |-> {}, byHand |-> {}]
  /\ pose = [saving |-> FALSE, rerender |-> FALSE, job |-> None, timer |-> FALSE, saves |-> 0, mine |-> None,
             overlap |-> FALSE]
  /\ anchors = [stored |-> [o \in Options |-> <<>>], spots |-> [o \in Options |-> <<>>], active |-> CHOOSE o \in Options : TRUE,
                dirty |-> {}, saved |-> {}, saving |-> None, saves |-> 0, edits |-> 0, during |-> {}]
  /\ fetches = {[kind |-> "mount", step |-> "sent", prev |-> <<>>, jobs |-> <<>>]}
  /\ lost = 0

(***************************************************************************)
(* Lists of jobs: asked, read by the server, answered; a failure reads as an  *)
(* empty list (getAssetJobs).                                               *)
(***************************************************************************)
Ask(kind, prev) == [kind |-> kind, step |-> "sent", prev |-> prev, jobs |-> <<>>]
ListAssetJobs(k) ==
  /\ k.step = "sent"
  /\ \/ fetches' = (fetches \ {k}) \cup {[k EXCEPT !.step = "read", !.jobs = queue]} /\ UNCHANGED lost
     \/ /\ lost < MaxLost
        /\ fetches' = (fetches \ {k}) \cup {[k EXCEPT !.step = "read"]} /\ lost' = lost + 1
  /\ UNCHANGED <<queue, model, pose, anchors>>

Work == \E i \in DOMAIN queue :
  /\ queue[i].status = "queued"
  /\ queue' = [queue EXCEPT ![i].status = "settled"]
  /\ UNCHANGED <<model, pose, anchors, fetches, lost>>

(***************************************************************************)
(* The model's panel.  Its effect re-arms a timer after every answer.        *)
(***************************************************************************)
anyPending(jobs) == \E j \in latestJobsByType(jobs) : isPending(j.status)

Arms(jobs, polls) == anyPending(jobs) /\ polls < PollCap
OffersRefresh == anyPending(model.jobs) /\ model.polls >= PollCap
Shown(jobs, polls) ==
  [model EXCEPT !.jobs = jobs, !.polls = polls, !.timer = Arms(jobs, polls),
                !.seen = @ \cup {i \in Ids(jobs) : isPending(WithId(jobs, i).status)}]
Settled(jobs) == {j.id : j \in {l \in latestJobsByType(jobs) : ~isPending(l.status)}}
ByHand(jobs, polls) == [Shown(jobs, polls) EXCEPT !.byHand = @ \cup Settled(jobs)]

pollJobs ==
  /\ model.timer
  /\ model' = [model EXCEPT !.timer = FALSE]
  /\ fetches' = fetches \cup {Ask("poll", model.jobs)}
  /\ UNCHANGED <<queue, pose, anchors, lost>>

(* settledSincePoll compares with the list the timer was set for.            *)
settledSincePoll(k) ==
  {j.id : j \in {n \in latestJobsByType(k.jobs) :
     ~isPending(n.status) /\ (n.id \notin Ids(k.prev) \/ isPending(WithId(k.prev, n.id).status))}}

jobsRead(k) ==
  /\ k.step = "read" /\ k.kind \in {"mount", "poll", "uploaded", "manual"}
  /\ model' = CASE k.kind = "poll" -> [Shown(k.jobs, model.polls + 1) EXCEPT !.refreshed = @ \cup settledSincePoll(k)]
                [] k.kind \in {"mount", "manual"} -> ByHand(k.jobs, model.polls)
                [] OTHER -> [ByHand(k.jobs, 0) EXCEPT !.uploading = "idle"]
  /\ fetches' = fetches \ {k}
  /\ UNCHANGED <<queue, pose, anchors, lost>>

refreshByHand ==
  /\ OffersRefresh /\ Ask("manual", <<>>) \notin fetches
  /\ model' = [model EXCEPT !.polls = 0, !.timer = Arms(model.jobs, 0)]
  /\ fetches' = fetches \cup {Ask("manual", <<>>)}
  /\ UNCHANGED <<queue, pose, anchors, lost>>

(* Wrong extension, too many bytes, or the store refuses: nothing is queued.  *)
onPick ==
  /\ model.uploading = "idle" /\ model.uploads < MaxUploads
  /\ \E ok \in BOOLEAN :
       model' = [model EXCEPT !.uploads = @ + 1, !.error = ~ok, !.uploading = IF ok THEN "stored" ELSE "idle"]
  /\ UNCHANGED <<queue, pose, anchors, fetches, lost>>

(* Both jobs are asked for at once; either may fail.                         *)
createAssetJobs ==
  /\ model.uploading = "stored"
  /\ \E made \in SUBSET {"ingest", "sprite"} :
       /\ queue' = IF made = {} THEN queue
                   ELSE IF made = {"ingest", "sprite"} THEN Enqueued(Enqueued(queue, "ingest"), "sprite")
                   ELSE Enqueued(queue, CHOOSE t \in made : TRUE)
       /\ model' = [model EXCEPT !.uploading = "queued", !.error = made # {"ingest", "sprite"}]
  /\ fetches' = fetches \cup {Ask("uploaded", <<>>)}
  /\ UNCHANGED <<pose, anchors, lost>>

(***************************************************************************)
(* The camera pose.                                                        *)
(***************************************************************************)
Rem(n, d) == IF n < 0 THEN -((-n) % d) ELSE n % d
normalizeTheta(deg) == Rem(Rem(deg, 360) + 540, 360) - 180
clamp(n, lo, hi) == IF n < lo THEN lo ELSE IF n > hi THEN hi ELSE n
orbitToModel3dView(theta, phi, radius, ideal) ==
  [theta |-> normalizeTheta(theta), phi |-> clamp(phi, 0, 180),
   radius |-> clamp(IF ideal > 0 THEN (radius * 100) \div ideal ELSE 105, 1, 1000)]
cleanModelView(view) ==
  view.theta \in -360 .. 360 /\ view.phi \in 0 .. 180 /\ view.radius > 0 /\ view.radius <= 1000

spritePolling(p) == p.rerender /\ (p.job = None \/ isPending(p.job.status))

onSaveView ==
  /\ ~pose.saving /\ pose.saves < MaxSaves
  /\ pose' = [pose EXCEPT !.saving = TRUE, !.saves = @ + 1, !.rerender = FALSE, !.job = None, !.timer = FALSE,
                          !.overlap = @ \/ \E k \in fetches : k.kind = "sprite"]
  /\ fetches' = fetches \cup {Ask("save", <<>>)}
  /\ UNCHANGED <<queue, model, anchors, lost>>

(* The pose is stored; a render is queued for the newest source there is, if  *)
(* that works out; the answer may be lost.                                   *)
enqueueSpriteRerender(k) ==
  /\ k.kind = "save" /\ k.step = "sent"
  /\ \/ /\ queue # <<>>
        /\ queue' = Enqueued(queue, "sprite")
        /\ fetches' = (fetches \ {k}) \cup {[k EXCEPT !.step = "queued"]}
        /\ pose' = [pose EXCEPT !.mine = Len(queue) + 1]
     \/ fetches' = (fetches \ {k}) \cup {[k EXCEPT !.step = "stored"]} /\ UNCHANGED <<queue, pose>>
     \/ fetches' = (fetches \ {k}) \cup {[k EXCEPT !.step = "refused"]} /\ UNCHANGED <<queue, pose>>
  /\ UNCHANGED <<model, anchors, lost>>

viewSaved(k) ==
  /\ k.kind = "save" /\ k.step \in {"queued", "stored", "refused"}
  /\ pose' = LET now == [pose EXCEPT !.saving = FALSE, !.rerender = (k.step = "queued")]
             IN [now EXCEPT !.timer = spritePolling(now)]
  /\ fetches' = fetches \ {k}
  /\ UNCHANGED <<queue, model, anchors, lost>>

pollSprite ==
  /\ pose.timer
  /\ pose' = [pose EXCEPT !.timer = FALSE]
  /\ fetches' = fetches \cup {Ask("sprite", <<>>)}
  /\ UNCHANGED <<queue, model, anchors, lost>>

(* The effect runs again only when the badge's state has changed: a list that  *)
(* could not be read while there is no badge yet ends the polling.           *)
spriteRead(k) ==
  /\ k.kind = "sprite" /\ k.step = "read"
  /\ LET found == IF ofType(k.jobs, "sprite") = {} THEN None ELSE k.jobs[firstOf(k.jobs, "sprite")]
         now == [pose EXCEPT !.job = found]
     IN pose' = [now EXCEPT !.timer = IF found = None /\ pose.job = None THEN @ ELSE spritePolling(now)]
  /\ fetches' = fetches \ {k}
  /\ UNCHANGED <<queue, model, anchors, lost>>

(***************************************************************************)
(* The spots of an engraving.  A click adds one to the option that is active; *)
(* a save replaces the option's list.                                        *)
(***************************************************************************)
Touched(option, list) ==
  [anchors EXCEPT !.spots[option] = list, !.dirty = @ \cup {option}, !.saved = @ \ {option}, !.edits = @ + 1,
                  !.during = @ \cup (IF anchors.saving # None /\ anchors.saving.option = option THEN {option} ELSE {})]
Edit(option, list) ==
  /\ anchors.edits < MaxEdits
  /\ anchors' = Touched(option, list)
  /\ UNCHANGED <<queue, model, pose, fetches, lost>>

onClick(spot) == Edit(anchors.active, Append(anchors.spots[anchors.active], spot))
Without(list, i) == SubSeq(list, 1, i - 1) \o SubSeq(list, i + 1, Len(list))
removePosition == \E i \in DOMAIN anchors.spots[anchors.active] :
  Edit(anchors.active, Without(anchors.spots[anchors.active], i))

setActiveOptionId(option) ==
  /\ option # anchors.active
  /\ anchors' = [anchors EXCEPT !.active = option]
  /\ UNCHANGED <<queue, model, pose, fetches, lost>>

onSave ==
  /\ anchors.saving = None /\ anchors.active \in anchors.dirty /\ anchors.saves < MaxSaves
  /\ anchors' = [anchors EXCEPT !.saves = @ + 1, !.during = @ \ {anchors.active},
                   !.saving = [option |-> anchors.active, list |-> anchors.spots[anchors.active], stored |-> FALSE]]
  /\ UNCHANGED <<queue, model, pose, fetches, lost>>

saveEngraveAnchor ==
  /\ anchors.saving # None /\ ~anchors.saving.stored
  /\ anchors' = [anchors EXCEPT !.stored[anchors.saving.option] = anchors.saving.list, !.saving.stored = TRUE]
  /\ UNCHANGED <<queue, model, pose, fetches, lost>>

(* Stored, or refused or lost: then the option stays dirty.                  *)
anchorsSaved(ok) ==
  /\ anchors.saving # None /\ (ok => anchors.saving.stored)
  /\ anchors' = IF ok THEN [anchors EXCEPT !.saved = @ \cup {anchors.saving.option},
                                           !.dirty = @ \ {anchors.saving.option}, !.saving = None]
                ELSE [anchors EXCEPT !.saving = None]
  /\ UNCHANGED <<queue, model, pose, fetches, lost>>

ModelNext ==
  pollJobs \/ refreshByHand \/ onPick \/ createAssetJobs \/ \E k \in fetches : jobsRead(k)
PoseNext ==
  onSaveView \/ pollSprite \/ \E k \in fetches : enqueueSpriteRerender(k) \/ viewSaved(k) \/ spriteRead(k)
JobsNext == Work \/ \E k \in fetches : k.kind # "save" /\ ListAssetJobs(k)
AnchorsNext ==
  \/ onSave \/ saveEngraveAnchor \/ removePosition \/ \E spot \in Spots : onClick(spot)
  \/ \E option \in Options : setActiveOptionId(option)
  \/ \E ok \in BOOLEAN : anchorsSaved(ok)
PreviewNext == ModelNext \/ PoseNext \/ JobsNext \/ AnchorsNext

PreviewSpec == PreviewInit /\ [][PreviewNext]_previewVars

-----------------------------------------------------------------------------
PreviewTypeOK ==
  /\ \A i \in DOMAIN queue : queue[i].id = Len(queue) + 1 - i
  /\ model.polls \in Nat /\ (model.timer => Arms(model.jobs, model.polls))
  /\ anchors.dirty \cup anchors.saved \subseteq Options /\ anchors.active \in Options

(* A panel that shows a job at work does something about it: a timer is set,    *)
(* a list is on its way, or the button to ask again is offered.              *)
NeverWaitsInSilence ==
  anyPending(model.jobs) =>
    model.timer \/ OffersRefresh \/ \E k \in fetches : k.kind \in {"poll", "manual", "uploaded"}

(* A job the panel showed at work and now shows settled had the page read       *)
(* again, unless the first list, one asked for by hand or one after an upload  *)
(* told of it.                                                              *)
SettledRefreshes ==
  Settled(model.jobs) \cap model.seen \subseteq model.refreshed \cup model.byHand

(* Once the badge of the turntable tells an outcome, it is the outcome of the   *)
(* render queued by the last save or of a newer one, unless a poll of an       *)
(* earlier save was still on its way when that save was made.                *)
BadgeIsTheLastSaves ==
  pose.rerender /\ pose.job # None /\ ~pose.overlap => pose.job.id >= pose.mine

(* Whatever the viewer reports, the pose that is sent is one the server accepts  *)
(* and shows the same angle.                                                *)
PoseAccepted ==
  pose.saving =>
    /\ \A theta \in {-720, -541, -540, -361, -181, -180, -1, 0, 1, 179, 180, 181, 359, 360, 541} :
         LET view == orbitToModel3dView(theta, 90, 1, 1)
         IN cleanModelView(view) /\ (view.theta - theta) % 360 = 0 /\ view.theta \in -180 .. 179
    /\ \A phi \in {-1, 0, 90, 180, 181} : cleanModelView(orbitToModel3dView(0, phi, 1, 1))
    /\ \A radius \in {0, 1, 50, 5000}, ideal \in {0, 1, 100} :
         cleanModelView(orbitToModel3dView(0, 90, radius, ideal))

(* An option that is not marked as changed has its spots stored, unless one     *)
(* was added or taken away while the list was being saved.                    *)
UnmarkedIsStored ==
  \A o \in Options \ (anchors.dirty \cup anchors.during) :
    anchors.spots[o] = anchors.stored[o]

PreviewSound ==
  NeverWaitsInSilence /\ SettledRefreshes /\ BadgeIsTheLastSaves /\ PoseAccepted /\ UnmarkedIsStored
=============================================================================
