--------------------------- MODULE MediaPipeline ---------------------------
(***************************************************************************)
(* The media pipeline: an upload is completed, moderated, transcoded, and  *)
(* the content that links it is published or failed.                       *)
(*                                                                         *)
(* Every handler is a thread that awaits the database, the queue or a      *)
(* service between its steps, so one action here is the code between two   *)
(* awaits that change or read shared state. The threads are the concurrent *)
(* completeUpload requests, the moderation worker, the transcode worker    *)
(* and the reconciler; authors create content beside them. The media rows, *)
(* the content rows and the BullMQ jobs are shared and survive a crash.    *)
(***************************************************************************)
EXTENDS Naturals, FiniteSets, MediaDelivery

CONSTANTS
  Uploads,      \* media ids whose row createUpload inserts (provider S3)
  Sounds,       \* media ids whose row createPost or createAd inserts
  S3Sounds,     \* the sounds whose provider is S3; the others are Cloudinary
  Moderatable,  \* uploads whose type and folder the moderation policy covers
  Passthrough,  \* uploads (audio) that transcoding leaves without variants
  Content,      \* posts, ads and statuses
  Statuses,     \* the statuses; the others are posts and ads
  Uploader,     \* concurrent completeUpload requests
  NoMedia, NoContent,
  MaxStalled,   \* MaxStalled[q]: maxStalledCount of the worker of queue q
  BatchSize,    \* BATCH_SIZE of the missed-publish sweep
  MaxFaults     \* bound: crashes and failing awaits in one behaviour

Media == Uploads \cup Sounds
Queue == {"moderate", "transcode"}
Worker == {"moderator", "transcoder"}
Thread == Uploader \cup Worker \cup {"reconciler"}

ASSUME MediaAssumption ==
  /\ S3Sounds \subseteq Sounds /\ Uploads \cap Sounds = {} /\ Statuses \subseteq Content
  /\ Moderatable \subseteq Uploads /\ Passthrough \subseteq Uploads
  /\ Uploader \cap (Worker \cup {"reconciler"}) = {}
  /\ NoMedia \notin Media /\ NoContent \notin Content
  /\ MaxStalled \in [Queue -> Nat] /\ BatchSize \in Nat /\ MaxFaults \in Nat

VARIABLES
  row,            \* row[m]: the media row
  job,            \* job[q][m]: the BullMQ job of media m on queue q
  publishStatus,  \* publishStatus[c]: the content row, "none" until committed
  linked,         \* linked[c]: the media that content c links
  draft,          \* draft[c]: the media as the open transaction of c knows them
  th,             \* th[p]: where thread p is, and its local variables
  policyOn,       \* awsConfig.rekognition.enabled of the running process
  faults,         \* faults injected so far
  everCleared, everBlocked  \* history: media cleared, blocked at some time

dbVars == <<row, everCleared, everBlocked>>
contentVars == <<publishStatus, linked, draft>>
envVars == <<policyOn, faults>>
vars == <<row, job, publishStatus, linked, draft, th, policyOn, faults,
          everCleared, everBlocked>>

-----------------------------------------------------------------------------
(* Types                                                                   *)

JobState == {"none", "waiting", "active", "failed"}
Job == [state : JobState, stalls : Nat]
NoJob == [state |-> "none", stalls |-> 0]

\* The label of the next step of a thread.
Label == {"idle", "markUploaded", "route", "enqueueModeration",
          "find", "evaluate", "settle", "markProcessing", "enqueueTranscode",
          "moderate", "encode", "ready", "recover", "keepOriginal",
          "completeJob", "failJob",
          "requeueModeration", "requeueTranscode", "reevaluate"}

\* What follows onMediaTerminalUpdate in the handlers that call it.
Continuation == {"idle", "markProcessing", "completeJob", "failJob", "reevaluate"}

ThreadState ==
  [pc   : Label,
   m    : Media \cup {NoMedia},      \* the media the handler works on
   then : Continuation,              \* where onMediaTerminalUpdate returns to
   todo : SUBSET Content,            \* content still to evaluate
   c    : Content \cup {NoContent},  \* content whose outcome is decided
   out  : Outcome,                   \* the outcome read for c
   work : SUBSET Media]              \* media the reconciler found

Idle == [pc |-> "idle", m |-> NoMedia, then |-> "idle", todo |-> {},
         c |-> NoContent, out |-> "pending", work |-> {}]

NoRow == [status |-> "none", moderation |-> "null",
          transcoded |-> FALSE, stale |-> FALSE]

\* What a transaction that is not open knows of the media.
NoDraft == [m \in Media |-> NoRow]

TypeOK ==
  /\ row \in [Media -> Row]
  /\ job \in [Queue -> [Media -> Job]]
  /\ publishStatus \in [Content -> Outcome \cup {"none"}]
  /\ linked \in [Content -> SUBSET Media]
  /\ draft \in [Content -> [Media -> Row]]
  /\ th \in [Thread -> ThreadState]
  /\ policyOn \in BOOLEAN
  /\ faults \in 0 .. MaxFaults
  /\ everCleared \subseteq Media
  /\ everBlocked \subseteq Media

Init ==
  /\ row = [m \in Media |-> NoRow]
  /\ job = [q \in Queue |-> [m \in Media |-> NoJob]]
  /\ publishStatus = [c \in Content |-> "none"]
  /\ linked = [c \in Content |-> {}]
  /\ draft = [c \in Content |-> NoDraft]
  /\ th = [p \in Thread |-> Idle]
  /\ policyOn \in BOOLEAN
  /\ faults = 0
  /\ everCleared = {}
  /\ everBlocked = {}

-----------------------------------------------------------------------------
(* The shared steps: a row update, an enqueue, a thread's move             *)

\* What the history variables remember of the rows of a set of media.
Remember(media) ==
  /\ everCleared' = everCleared \cup {m \in media : IsModerationCleared(row'[m])}
  /\ everBlocked' = everBlocked \cup {m \in media : IsBlocked(row'[m])}

\* mediaRepo.update: TypeORM sets the given columns and refreshes updated_at.
UpdateMedia(m, new) ==
  /\ row' = [row EXCEPT ![m] = [new EXCEPT !.stale = FALSE]]
  /\ Remember({m})

\* What BullMQ keeps of the job of media m on queue q.
SetJob(q, m, new) == job' = [job EXCEPT ![q][m] = new]

\* Faulty variant: a failed job is not removed and blocks its id.
EnqueueOnce(q, m) ==
  IF job[q][m].state # "none" THEN job' = job
  ELSE SetJob(q, m, [state |-> "waiting", stalls |-> 0])

\* A job id is taken while its job waits or runs; a failed job is replaced.
Enqueue(q, m) ==
  IF job[q][m].state \in {"waiting", "active"} THEN job' = job
  ELSE SetJob(q, m, [state |-> "waiting", stalls |-> 0])

\* Thread p moves on to the local state t.
Move(p, t) == th' = [th EXCEPT ![p] = t]

Goto(p, label) == Move(p, [th[p] EXCEPT !.pc = label])

\* The reconciler is in one of its sweeps, with work left.
SweepAt(label, work) == [Idle EXCEPT !.pc = label, !.work = work]

\* A request ends, a worker finishes its job, the reconciler goes on.
AfterEnqueueTranscode(p) ==
  CASE p \in Uploader     -> Idle
    [] p = "reconciler"   -> SweepAt("requeueTranscode", th[p].work)
    [] OTHER              -> [th[p] EXCEPT !.pc = "completeJob"]

\* Thread p enters onMediaTerminalUpdate(th[p].m) and will go on at label.
CallTerminalUpdate(p, label) ==
  Move(p, [th[p] EXCEPT !.pc = "find", !.then = label])

\* ModerationPolicyService.shouldModerate
ShouldModerate(m) == policyOn /\ m \in Moderatable

\* MediaTranscodeProcessor.isTranscodeComplete
IsTranscodeComplete(m) ==
  IF m \in Passthrough THEN row[m].status = "ready" ELSE row[m].transcoded

-----------------------------------------------------------------------------
(* Uploads: MediaService and MediaPipelineService.routeAfterUpload         *)

CreateUpload(m) ==
  /\ row[m].status = "none"
  /\ UpdateMedia(m, [NoRow EXCEPT !.status = "uploading"])
  /\ UNCHANGED <<job, contentVars, th, envVars>>

\* The status check is a read: nothing holds the row until the update below.
CompleteUpload(p, m) ==
  /\ th[p].pc = "idle"
  /\ row[m].status = "uploading"
  /\ Move(p, [th[p] EXCEPT !.pc = "markUploaded", !.m = m])
  /\ UNCHANGED <<dbVars, job, contentVars, envVars>>

MarkUploaded(p) ==
  /\ th[p].pc = "markUploaded"
  /\ UpdateMedia(th[p].m, [row[th[p].m] EXCEPT !.status = "uploaded"])
  /\ Goto(p, "route")
  /\ UNCHANGED <<job, contentVars, envVars>>

RouteToModeration(p) ==
  /\ th[p].pc = "route"
  /\ ShouldModerate(th[p].m)
  /\ UpdateMedia(th[p].m, [row[th[p].m] EXCEPT !.status = "moderating",
                                               !.moderation = "pending"])
  /\ Goto(p, "enqueueModeration")
  /\ UNCHANGED <<job, contentVars, envVars>>

\* Faulty variants of RouteSkipped: the verdict in the wrong column, and no
\* enqueueTranscode after the publication.
RouteSkippedWrongColumn(p) ==
  /\ th[p].pc = "route"
  /\ ~ShouldModerate(th[p].m)
  /\ UpdateMedia(th[p].m, [row[th[p].m] EXCEPT !.status = "skipped"])
  /\ CallTerminalUpdate(p, "markProcessing")
  /\ UNCHANGED <<job, contentVars, envVars>>

RouteSkippedNoTranscode(p) ==
  /\ th[p].pc = "route"
  /\ ~ShouldModerate(th[p].m)
  /\ UpdateMedia(th[p].m, [row[th[p].m] EXCEPT !.moderation = "skipped"])
  /\ CallTerminalUpdate(p, "idle")
  /\ UNCHANGED <<job, contentVars, envVars>>

RouteSkipped(p) ==
  /\ th[p].pc = "route"
  /\ ~ShouldModerate(th[p].m)
  /\ UpdateMedia(th[p].m, [row[th[p].m] EXCEPT !.moderation = "skipped"])
  /\ CallTerminalUpdate(p, "markProcessing")
  /\ UNCHANGED <<job, contentVars, envVars>>

EnqueueModeration(p) ==
  /\ th[p].pc = "enqueueModeration"
  /\ Enqueue("moderate", th[p].m)
  /\ Move(p, Idle)
  /\ UNCHANGED <<dbVars, contentVars, envVars>>

\* enqueueTranscode writes the status first, then talks to the queue.
MarkProcessing(p) ==
  /\ th[p].pc = "markProcessing"
  /\ UpdateMedia(th[p].m, [row[th[p].m] EXCEPT !.status = "processing"])
  /\ Goto(p, "enqueueTranscode")
  /\ UNCHANGED <<job, contentVars, envVars>>

EnqueueTranscode(p) ==
  /\ th[p].pc = "enqueueTranscode"
  /\ Enqueue("transcode", th[p].m)
  /\ Move(p, AfterEnqueueTranscode(p))
  /\ UNCHANGED <<dbVars, contentVars, envVars>>

-----------------------------------------------------------------------------
(* Publication: ContentPublishService.onMediaTerminalUpdate                *)

\* Where the loop over the pending content goes once todo is left.
NextContent(p, todo) ==
  [th[p] EXCEPT !.pc = IF todo = {} THEN th[p].then ELSE "evaluate",
                !.todo = todo, !.c = NoContent, !.out = "pending"]

FindPending(p) ==
  /\ th[p].pc = "find"
  /\ Move(p, NextContent(p,
              {c \in Content : publishStatus[c] = "pending" /\ th[p].m \in linked[c]}))
  /\ UNCHANGED <<dbVars, job, contentVars, envVars>>

\* evaluatePost, evaluateAd, evaluateStatus: one read of the content with its
\* media; the outcome is then carried to an unconditional update.
Evaluate(p) ==
  /\ th[p].pc = "evaluate"
  /\ \E c \in th[p].todo :
       LET outcome == ResolveOutcome({row[m] : m \in linked[c]})
           rest == th[p].todo \ {c}
       IN Move(p, IF publishStatus[c] # "pending" \/ outcome = "pending"
                  THEN NextContent(p, rest)
                  ELSE [th[p] EXCEPT !.pc = "settle", !.todo = rest,
                                     !.c = c, !.out = outcome])
  /\ UNCHANGED <<dbVars, job, contentVars, envVars>>

Settle(p) ==
  /\ th[p].pc = "settle"
  /\ publishStatus' = [publishStatus EXCEPT ![th[p].c] = th[p].out]
  /\ Move(p, NextContent(p, th[p].todo))
  /\ UNCHANGED <<dbVars, job, linked, draft, envVars>>

-----------------------------------------------------------------------------
(* Authors: createPost, createAd, createStatus                             *)

\* The row that createPost inserts for a sound (resolveLegacyStatus).
SoundRow(m) ==
  [NoRow EXCEPT !.status = IF m \in S3Sounds THEN "processing" ELSE "ready"]

\* The transaction of content c is open.
IsOpen(c) == publishStatus[c] = "none" /\ linked[c] # {}

\* A status links one media, a post or an ad any number and a sound.
Attachable(c, media, sounds) ==
  /\ media # {} /\ Cardinality(sounds) <= 1
  /\ c \in Statuses => Cardinality(media) = 1 /\ sounds = {}

\* The media are read and validated before the transaction inserts anything.
\* A sound is a row of its own, inserted by the same transaction.
DraftContent(c, media, sounds) ==
  /\ publishStatus[c] = "none" /\ linked[c] = {}
  /\ \A m \in media : row[m].status \in PendingAttachStatuses
  /\ \A m \in sounds : row[m].status = "none" /\ \A d \in Content : m \notin linked[d]
  /\ linked' = [linked EXCEPT ![c] = media \cup sounds]
  /\ draft' = [draft EXCEPT ![c] = [m \in Media |-> IF m \in media THEN row[m]
                                                   ELSE IF m \in sounds THEN SoundRow(m)
                                                   ELSE NoRow]]
  /\ UNCHANGED <<dbVars, job, publishStatus, th, envVars>>

\* Saving the links of a post or an ad saves the media they link as well: the
\* relation cascades, so every column that differs from the media as it was read
\* is written back. A status only stores the id.
CommitContent(c) ==
  /\ IsOpen(c)
  /\ publishStatus' = [publishStatus EXCEPT ![c] =
                         ResolveInitialPublishStatus({draft[c][m] : m \in linked[c]})]
  /\ draft' = [draft EXCEPT ![c] = NoDraft]
  /\ row' = [m \in Media |-> IF m \in linked[c] /\ c \notin Statuses THEN draft[c][m]
                            ELSE row[m]]
  /\ Remember(linked[c])
  /\ UNCHANGED <<job, linked, th, envVars>>

\* Text moderation, a bad tag or a database error rolls the transaction back.
RollbackContent(c) ==
  /\ IsOpen(c)
  /\ draft' = [draft EXCEPT ![c] = NoDraft]
  /\ linked' = [linked EXCEPT ![c] = {}]
  /\ UNCHANGED <<dbVars, job, publishStatus, th, envVars>>

-----------------------------------------------------------------------------
(* The moderation worker: MediaModerationProcessor                         *)

TakeModeration(m) ==
  /\ th["moderator"].pc = "idle"
  /\ job["moderate"][m].state = "waiting"
  /\ SetJob("moderate", m, [job["moderate"][m] EXCEPT !.state = "active"])
  /\ Move("moderator", [th["moderator"] EXCEPT !.pc = "moderate", !.m = m])
  /\ UNCHANGED <<dbVars, contentVars, envVars>>

\* The verdict lands on whatever the row says by then.
ModerationVerdict(status, moderation, then) ==
  LET m == th["moderator"].m
  IN /\ th["moderator"].pc = "moderate"
     /\ UpdateMedia(m, [row[m] EXCEPT !.status = status, !.moderation = moderation])
     /\ CallTerminalUpdate("moderator", then)
     /\ UNCHANGED <<job, contentVars, envVars>>

ModerationSkipped ==
  /\ ~ShouldModerate(th["moderator"].m)
  /\ ModerationVerdict(row[th["moderator"].m].status, "skipped", "markProcessing")

ModerationPassed ==
  /\ ShouldModerate(th["moderator"].m)
  /\ ModerationVerdict(row[th["moderator"].m].status, "passed", "markProcessing")

\* Faulty variants: no return after the rejection, none after the failure.
ModerationRejectedGoesOn ==
  /\ ShouldModerate(th["moderator"].m)
  /\ ModerationVerdict("rejected", "rejected", "markProcessing")

ModerationFailedGoesOn ==
  /\ ShouldModerate(th["moderator"].m)
  /\ ModerationVerdict("failed", "pending", "markProcessing")

ModerationRejected ==
  /\ ShouldModerate(th["moderator"].m)
  /\ ModerationVerdict("rejected", "rejected", "completeJob")

\* Rekognition throws or times out; the job fails after the update.
ModerationFailed ==
  /\ ShouldModerate(th["moderator"].m)
  /\ ModerationVerdict("failed", "pending", "failJob")

\* The queue a worker serves.
QueueOf(p) == IF p = "moderator" THEN "moderate" ELSE "transcode"

\* BullMQ: removeOnComplete drops the job, removeOnFail keeps it as failed.
FinishJob(p) ==
  /\ th[p].pc \in {"completeJob", "failJob"}
  /\ SetJob(QueueOf(p), th[p].m,
            IF th[p].pc = "completeJob" THEN NoJob
            ELSE [job[QueueOf(p)][th[p].m] EXCEPT !.state = "failed"])
  /\ Move(p, Idle)
  /\ UNCHANGED <<dbVars, contentVars, envVars>>

-----------------------------------------------------------------------------
(* The transcode worker: MediaTranscodeProcessor                           *)

\* Already complete: set READY if it is not, and do nothing else. This update
\* is outside the try block that "ready" is in.
AfterComplete(m) == IF row[m].status = "ready" THEN "completeJob" ELSE "recover"

TakeTranscode(m) ==
  /\ th["transcoder"].pc = "idle"
  /\ job["transcode"][m].state = "waiting"
  /\ SetJob("transcode", m, [job["transcode"][m] EXCEPT !.state = "active"])
  /\ Move("transcoder", [th["transcoder"] EXCEPT !.m = m,
          !.pc = IF IsTranscodeComplete(m) THEN AfterComplete(m) ELSE "encode"])
  /\ UNCHANGED <<dbVars, contentVars, envVars>>

\* processImage, processVideo, processPassthrough: the outputs, then the row.
Encode ==
  LET m == th["transcoder"].m
  IN /\ th["transcoder"].pc = "encode"
     /\ UpdateMedia(m, [row[m] EXCEPT !.transcoded = m \notin Passthrough])
     /\ Goto("transcoder", "ready")
     /\ UNCHANGED <<job, contentVars, envVars>>

MarkReady ==
  /\ th["transcoder"].pc \in {"ready", "recover"}
  /\ UpdateMedia(th["transcoder"].m,
                 [row[th["transcoder"].m] EXCEPT !.status = "ready"])
  /\ Goto("transcoder", "completeJob")
  /\ UNCHANGED <<job, contentVars, envVars>>

\* Faulty variant: the catch block recovers without reading the row again.
TranscodeThrowsRecovers ==
  /\ faults < MaxFaults
  /\ th["transcoder"].pc \in {"encode", "ready"}
  /\ faults' = faults + 1
  /\ Goto("transcoder", AfterComplete(th["transcoder"].m))
  /\ UNCHANGED <<dbVars, job, contentVars, policyOn>>

\* The catch block: read the row again; complete means recover, otherwise the
\* original stays deliverable. The job completes either way.
TranscodeThrows ==
  LET m == th["transcoder"].m
  IN /\ faults < MaxFaults
     /\ th["transcoder"].pc \in {"encode", "ready"}
     /\ faults' = faults + 1
     /\ Goto("transcoder", IF IsTranscodeComplete(m) THEN AfterComplete(m)
                           ELSE "keepOriginal")
     /\ UNCHANGED <<dbVars, job, contentVars, policyOn>>

KeepOriginal ==
  /\ th["transcoder"].pc = "keepOriginal"
  /\ UpdateMedia(th["transcoder"].m,
                 [row[th["transcoder"].m] EXCEPT !.status = "processing"])
  /\ Goto("transcoder", "completeJob")
  /\ UNCHANGED <<job, contentVars, envVars>>

-----------------------------------------------------------------------------
(* The reconciler: three sweeps, one after the other                       *)

\* Faulty variant: media cleared by a skip are forgotten.
PassedWithPendingContent ==
  {m \in Media : /\ row[m].moderation = "passed"
                 /\ \E c \in Content : publishStatus[c] = "pending" /\ m \in linked[c]}

StuckModeration ==
  {m \in Media : /\ row[m].status = "moderating"
                 /\ row[m].moderation = "pending"
                 /\ row[m].stale}

StuckTranscode ==
  {m \in Media : /\ row[m].status = "processing"
                 /\ row[m].moderation \in ClearedStatuses
                 /\ row[m].stale}

ClearedWithPendingContent ==
  {m \in Media : /\ row[m].moderation \in ClearedStatuses
                 /\ \E c \in Content : publishStatus[c] = "pending" /\ m \in linked[c]}

\* A query with a LIMIT and no ORDER BY: any rows, as many as the limit lets.
Limited(found) ==
  {S \in SUBSET found :
     Cardinality(S) = IF Cardinality(found) < BatchSize THEN Cardinality(found)
                      ELSE BatchSize}

Sweep(from, to, found) ==
  /\ th["reconciler"].pc = from
  /\ th["reconciler"].work = {}
  /\ Move("reconciler", [th["reconciler"] EXCEPT !.pc = to, !.work = found])
  /\ UNCHANGED <<dbVars, job, contentVars, envVars>>

SweepModeration == Sweep("idle", "requeueModeration", StuckModeration)
SweepTranscode == Sweep("requeueModeration", "requeueTranscode", StuckTranscode)
SweepPublish ==
  \E found \in Limited(ClearedWithPendingContent) :
    Sweep("requeueTranscode", "reevaluate", found)
SweepEnd == Sweep("reevaluate", "idle", {})

RequeueModeration(m) ==
  /\ th["reconciler"].pc = "requeueModeration"
  /\ m \in th["reconciler"].work
  /\ Enqueue("moderate", m)
  /\ Move("reconciler", [th["reconciler"] EXCEPT !.work = @ \ {m}])
  /\ UNCHANGED <<dbVars, contentVars, envVars>>

RequeueTranscode(m) ==
  /\ th["reconciler"].pc = "requeueTranscode"
  /\ m \in th["reconciler"].work
  /\ Move("reconciler", [th["reconciler"] EXCEPT !.pc = "markProcessing", !.m = m,
                                                !.work = @ \ {m}])
  /\ UNCHANGED <<dbVars, job, contentVars, envVars>>

Reevaluate(m) ==
  /\ th["reconciler"].pc = "reevaluate"
  /\ m \in th["reconciler"].work
  /\ Move("reconciler", [th["reconciler"] EXCEPT !.pc = "find", !.then = "reevaluate",
                                                !.m = m, !.work = @ \ {m}])
  /\ UNCHANGED <<dbVars, job, contentVars, envVars>>

\* STUCK_AFTER_MS pass without an update of the row.
Age(m) ==
  /\ row[m].status \in {"moderating", "processing"}
  /\ ~row[m].stale
  /\ row' = [row EXCEPT ![m].stale = TRUE]
  /\ UNCHANGED <<everCleared, everBlocked, job, contentVars, th, envVars>>

-----------------------------------------------------------------------------
(* Faults: an await that throws, a crash, a stalled job                    *)

Fault == faults < MaxFaults /\ faults' = faults + 1

\* An HTTP request that throws answers an error and is gone.
UploaderThrows(p) ==
  /\ Fault
  /\ th[p].pc # "idle"
  /\ Move(p, Idle)
  /\ UNCHANGED <<dbVars, job, contentVars, policyOn>>

\* An exception out of process() fails the job: attempts is 1.
WorkerThrows(p) ==
  /\ Fault
  /\ th[p].pc \in {"moderate", "find", "evaluate", "settle", "markProcessing",
                   "enqueueTranscode", "recover", "keepOriginal"}
  /\ Goto(p, "failJob")
  /\ UNCHANGED <<dbVars, job, contentVars, policyOn>>

\* The sweeps catch per item, so the next item follows; a query that throws
\* ends the round.
ReconcilerThrows ==
  LET t == th["reconciler"]
  IN /\ Fault
     /\ \/ /\ t.pc \in {"markProcessing", "enqueueTranscode"}
           /\ Move("reconciler", SweepAt("requeueTranscode", t.work))
        \/ /\ t.pc \in {"find", "evaluate", "settle"}
           /\ Move("reconciler", SweepAt("reevaluate", t.work))
        \/ /\ t.pc = "requeueModeration"
           /\ \E m \in t.work :
                Move("reconciler", SweepAt(t.pc, t.work \ {m}))
        \/ /\ t.pc \in {"requeueModeration", "requeueTranscode"} /\ t.work = {}
           /\ Move("reconciler", Idle)
     /\ UNCHANGED <<dbVars, job, contentVars, policyOn>>

\* The process dies and restarts, perhaps with another configuration: every
\* handler is lost, open transactions roll back, rows and jobs stay.
Crash ==
  /\ Fault
  /\ th' = [p \in Thread |-> Idle]
  /\ draft' = [c \in Content |-> NoDraft]
  /\ linked' = [c \in Content |-> IF publishStatus[c] = "none" THEN {} ELSE linked[c]]
  /\ policyOn' \in BOOLEAN
  /\ UNCHANGED <<dbVars, job, publishStatus>>

\* BullMQ finds an active job whose worker is gone: it runs again, unless it
\* has stalled more than maxStalledCount times.
StalledJob(p, m) ==
  LET q == QueueOf(p)
      stalled == job[q][m]
  IN /\ stalled.state = "active"
     /\ th[p].m # m
     /\ SetJob(q, m, IF stalled.stalls < MaxStalled[q]
                     THEN [state |-> "waiting", stalls |-> stalled.stalls + 1]
                     ELSE [stalled EXCEPT !.state = "failed"])
     /\ UNCHANGED <<dbVars, contentVars, th, envVars>>

-----------------------------------------------------------------------------
(* The specification                                                       *)

TerminalUpdate(p) == FindPending(p) \/ Evaluate(p) \/ Settle(p)
TranscodeEnqueue(p) == MarkProcessing(p) \/ EnqueueTranscode(p)

UploaderStep(p) ==
  \/ MarkUploaded(p)
  \/ RouteToModeration(p)
  \/ RouteSkipped(p)
  \/ EnqueueModeration(p)
  \/ TerminalUpdate(p)
  \/ TranscodeEnqueue(p)

ModeratorStep ==
  \/ \E m \in Media : TakeModeration(m)
  \/ ModerationSkipped
  \/ ModerationPassed
  \/ ModerationRejected
  \/ ModerationFailed
  \/ TerminalUpdate("moderator")
  \/ TranscodeEnqueue("moderator")
  \/ FinishJob("moderator")

TranscoderStep ==
  \/ \E m \in Media : TakeTranscode(m)
  \/ Encode
  \/ MarkReady
  \/ KeepOriginal
  \/ FinishJob("transcoder")

ReconcilerStep ==
  \/ SweepModeration
  \/ SweepTranscode
  \/ SweepPublish
  \/ SweepEnd
  \/ \E m \in Media : RequeueModeration(m) \/ RequeueTranscode(m) \/ Reevaluate(m)
  \/ TerminalUpdate("reconciler")
  \/ TranscodeEnqueue("reconciler")

AuthorStep(c) ==
  \/ \E media \in SUBSET Uploads, sounds \in SUBSET Sounds :
       Attachable(c, media, sounds) /\ DraftContent(c, media, sounds)
  \/ CommitContent(c)
  \/ RollbackContent(c)

FaultStep ==
  \/ \E p \in Uploader : UploaderThrows(p)
  \/ \E p \in Worker : WorkerThrows(p)
  \/ ReconcilerThrows
  \/ TranscodeThrows
  \/ Crash

Next ==
  \/ \E m \in Uploads : CreateUpload(m)
  \/ \E p \in Uploader, m \in Uploads : CompleteUpload(p, m)
  \/ \E p \in Uploader : UploaderStep(p)
  \/ ModeratorStep
  \/ TranscoderStep
  \/ ReconcilerStep
  \/ \E c \in Content : AuthorStep(c)
  \/ \E p \in Worker, m \in Media : StalledJob(p, m)
  \/ \E m \in Media : Age(m)
  \/ FaultStep

Spec == Init /\ [][Next]_vars

\* The process keeps running its handlers, the worker loops, the reconciler's
\* interval, BullMQ's stall check and the clock; a queue is served first in,
\* first out, so a job that waits is taken. Users and faults owe nothing.
Fairness ==
  /\ \A p \in Uploader : WF_vars(UploaderStep(p))
  /\ WF_vars(ModeratorStep)
  /\ WF_vars(TranscoderStep)
  /\ WF_vars(ReconcilerStep)
  /\ \A m \in Media : SF_vars(TakeModeration(m)) /\ SF_vars(TakeTranscode(m))
  /\ \A p \in Worker, m \in Media : WF_vars(StalledJob(p, m))
  /\ \A m \in Media : WF_vars(Age(m))

FairSpec == Spec /\ Fairness

-----------------------------------------------------------------------------
(* Safety                                                                  *)

\* The links a reader of the content tables can see.
CommittedLinks ==
  [c \in Content |-> IF publishStatus[c] = "none" THEN {} ELSE linked[c]]

Gate == INSTANCE PublishGate WITH linked <- CommittedLinks

\* The pipeline implements the publish gate: whatever the interleaving of
\* workers, requests, sweeps and crashes, content is published only when every
\* linked media was cleared at some time, and failed only when one was blocked.
ImplementsGate == Gate!GateSpec

\* The history remembers what row r says of media m.
Remembered(m, r) ==
  /\ IsModerationCleared(r) => m \in everCleared
  /\ IsBlocked(r) => m \in everBlocked

\* The history is complete: a row that says cleared or blocked is remembered.
HistoryComplete == \A m \in Media : Remembered(m, row[m])

\* An upload that is processing or ready was cleared at some time.
ProcessingCleared(m, r) ==
  m \in Uploads /\ r.status \in {"processing", "ready"} => m \in everCleared

\* The outcome a thread carries from its read to its unconditional update is one
\* the history justifies, however old the read is.
OutcomeJustified ==
  \A p \in Thread :
    th[p].pc = "settle" =>
      /\ th[p].c \in Content /\ publishStatus[th[p].c] # "none"
      /\ \/ th[p].out = "published" /\ linked[th[p].c] \subseteq everCleared
         \/ th[p].out = "failed" /\ linked[th[p].c] \cap everBlocked # {}

\* What the transaction of c knows of media m: an upload was once so, and a
\* sound, which no status has, is as the transaction inserts it.
Known(c, m) ==
  IF m \in Sounds THEN c \notin Statuses /\ draft[c][m] = SoundRow(m)
  ELSE /\ draft[c][m].status # "none"
       /\ Remembered(m, draft[c][m]) /\ ProcessingCleared(m, draft[c][m])

\* Open transactions know their media, however old the read is.
DraftJustified ==
  \A c \in Content : IsOpen(c) => \A m \in linked[c] : Known(c, m)

\* What is committed is what can be evaluated.
TodoCommitted ==
  \A p \in Thread : \A c \in th[p].todo : publishStatus[c] # "none"

\* Published content links no media that moderation never cleared, and failed
\* content links one that moderation blocked (ContentPublishService).
PublishedWasCleared ==
  \A c \in Content :
    /\ publishStatus[c] = "published" => linked[c] \subseteq everCleared
    /\ publishStatus[c] = "failed" => linked[c] \cap everBlocked # {}

\* Nothing unmoderated reaches the transcoder: an upload that is processing,
\* ready or queued for transcoding was cleared at some time.
TranscodeOnlyCleared ==
  \A m \in Uploads :
    /\ ProcessingCleared(m, row[m])
    /\ job["transcode"][m].state # "none" => m \in everCleared

\* A post or an ad has been committed that wrote media m back as it was read.
WrittenBack(m) ==
  \E c \in Content \ Statuses : publishStatus[c] # "none" /\ m \in linked[c]

\* READY is never claimed before the outputs exist, whatever the catch block,
\* the recovery path or a second run of the job did in between; only a media
\* that a committed post or ad wrote back can lose its variants.
ReadyHasVariants ==
  \A m \in Uploads \ Passthrough :
    row[m].status = "ready" => row[m].transcoded \/ WrittenBack(m)

-----------------------------------------------------------------------------
(* The inductive invariant                                                 *)

Between == {"idle", "requeueModeration", "requeueTranscode", "reevaluate"}

\* A thread that is inside a handler works on a media.
AtWork == \A p \in Thread : th[p].pc \notin Between => th[p].m \in Media

Exists(m) == row[m].status # "none"

\* Handlers, queues and sweeps only name media whose row exists; a media
\* without a row has no verdict and no outputs.
RowsExist ==
  /\ \A m \in Media : ~Exists(m) => row[m] = NoRow
  /\ \A p \in Thread : th[p].m \in Media => Exists(th[p].m)
  /\ \A p \in Thread : \A m \in th[p].work : Exists(m)
  /\ \A q \in Queue, m \in Media : job[q][m].state # "none" => Exists(m)

\* Thread p has enqueueTranscode ahead of it, now or after the publication.
WillTranscode(p) ==
  \/ th[p].pc \in {"markProcessing", "enqueueTranscode"}
  \/ th[p].pc \in {"find", "evaluate", "settle"} /\ th[p].then = "markProcessing"

\* Whoever hands a media to the transcoder has seen it cleared.
HandOverCleared ==
  /\ \A p \in Thread : WillTranscode(p) => th[p].m \in everCleared
  /\ th["reconciler"].pc = "requeueTranscode" \/ WillTranscode("reconciler")
       => th["reconciler"].work \subseteq everCleared
  /\ th["transcoder"].pc # "idle" => th["transcoder"].m \in everCleared
  /\ \A m \in Media : job["transcode"][m].state # "none" => m \in everCleared

\* The transcoder marks a media ready only once its outputs are there.
OutputsFirst ==
  th["transcoder"].pc \in {"ready", "recover"}
    => \/ th["transcoder"].m \notin Uploads \ Passthrough
       \/ row[th["transcoder"].m].transcoded
       \/ WrittenBack(th["transcoder"].m)

\* What makes the safety properties above survive every step.
PipelineInv ==
  /\ TypeOK /\ AtWork /\ RowsExist
  /\ HistoryComplete /\ TodoCommitted
  /\ OutcomeJustified /\ DraftJustified /\ PublishedWasCleared
  /\ HandOverCleared /\ TranscodeOnlyCleared
  /\ OutputsFirst /\ ReadyHasVariants

-----------------------------------------------------------------------------
(* Claims of the code that its interleavings break                         *)

\* media-delivery.util.ts: a moderation infrastructure failure blocks
\* publication. No step publishes content while a linked media is failed.
FailureBlocksPublication ==
  [][\A c \in Content :
       publishStatus[c] # "published" /\ publishStatus'[c] = "published"
         => \A m \in linked'[c] : ~IsModerationFailed(row[m])]_vars

\* MediaAttachValidator refuses media that was rejected by moderation: creating
\* content never takes a media out of REJECTED.
AttachKeepsRejection ==
  [][\A c \in Content : publishStatus[c] = "none" /\ publishStatus'[c] # "none" =>
       \A m \in linked[c] : row[m].status = "rejected" => row'[m].status = "rejected"]_vars

-----------------------------------------------------------------------------
(* Liveness                                                                *)

AllCleared(c) == \A m \in linked[c] : IsModerationCleared(row[m])

\* The reconciler's third sweep: pending content whose media are all cleared
\* does not stay pending, even when onMediaTerminalUpdate was missed.
ReevaluatesMissed ==
  \A c \in Content :
    publishStatus[c] = "pending" /\ AllCleared(c)
      ~> publishStatus[c] # "pending" \/ ~AllCleared(c)

AwaitsModeration(m) ==
  row[m].status = "moderating" /\ row[m].moderation = "pending"

AwaitsTranscode(m) ==
  row[m].status = "processing" /\ row[m].moderation \in ClearedStatuses

\* The reconciler's first two sweeps: a media that awaits its verdict gets one,
\* and a cleared media does not stay in processing, though enqueues fail,
\* workers die and jobs exhaust their stalls.
StuckSettles ==
  \A m \in Media :
    /\ AwaitsModeration(m) ~> ~AwaitsModeration(m)
    /\ AwaitsTranscode(m) ~> ~AwaitsTranscode(m)

\* While no fault has happened and completeUpload runs once per media, every
\* completed upload ends ready, rejected or failed: no hand-over between the
\* request, the two queues and the reconciler loses it.
UploadSettles ==
  \A m \in Uploads :
    row[m].status = "uploaded" /\ faults = 0
      ~> row[m].status \in {"ready", "rejected", "failed"} \/ faults > 0
=============================================================================
