------------------------ MODULE MediaPipelineProofs ------------------------
(***************************************************************************)
(* Theorems about MediaPipeline, for every value of its constants: the     *)
(* inductive invariant PipelineInv, the safety properties that follow from *)
(* it, and the refinement of the publish gate.                             *)
(***************************************************************************)
EXTENDS MediaPipelineSteps

-----------------------------------------------------------------------------
(* The history and the publication                                         *)

\* Moderation's verdicts only accumulate, and no row has one that is forgotten.
LEMMA HistoryStep ==
  ASSUME TypeOK, AtWork, RowsExist, HistoryComplete, HandOverCleared, OutputsFirst, [Next]_vars
  PROVE  /\ HistoryComplete'
         /\ everCleared \subseteq everCleared'
         /\ everBlocked \subseteq everBlocked'
<1> DEFINE Goal == HistoryComplete' /\ everCleared \subseteq everCleared'
      /\ everBlocked \subseteq everBlocked'
<1> USE DEF TypeOK, HistoryComplete, Remembered, IsBlocked, IsModerationFailed,
            IsModerationRejected, IsModerationCleared
<1>1. CASE UNCHANGED dbVars
  BY <1>1 DEF dbVars
<1>2. ASSUME NEW m \in Media, NEW new, UpdateMedia(m, new) PROVE Goal
  BY <1>2 DEF UpdateMedia, Remember
<1>3. ASSUME NEW c \in Content, CommitContent(c) PROVE Goal
  BY <1>3 DEF CommitContent, Remember
<1>4. ASSUME NEW m \in Media, Age(m) PROVE Goal
  <2>1. \A n \in Media : row'[n].status = row[n].status
          /\ row'[n].moderation = row[n].moderation
    BY <1>4 DEF Age, Row
  <2> QED
    BY <1>4, <2>1 DEF Age
<1> QED
  BY <1>1, <1>2, <1>3, <1>4, RowSteps DEF RowStep

\* The outcome of an evaluation is the one the history justifies.
LEMMA OutcomeOfRows ==
  ASSUME TypeOK, HistoryComplete, NEW c \in Content
  PROVE  LET outcome == ResolveOutcome({row[m] : m \in linked[c]})
         IN  /\ outcome = "published" => linked[c] \subseteq everCleared
             /\ outcome = "failed" => linked[c] \cap everBlocked # {}
<1>1. linked[c] \subseteq Media
  BY DEF TypeOK
<1> QED
  BY <1>1 DEF ResolveOutcome, HistoryComplete, Remembered

\* Content keeps its links and stays committed; what has a status keeps one.
LEMMA CommittedStays ==
  ASSUME TypeOK, AtWork, OutcomeJustified, [Next]_vars
  PROVE  \A c \in Content :
           publishStatus[c] # "none" => publishStatus'[c] # "none" /\ linked'[c] = linked[c]
<1> SUFFICES ASSUME NEW c \in Content, publishStatus[c] # "none"
             PROVE  publishStatus'[c] # "none" /\ linked'[c] = linked[c]
  OBVIOUS
<1> USE DEF TypeOK
<1>1. CASE UNCHANGED contentVars
  BY <1>1 DEF contentVars
<1>2. ASSUME NEW p \in Thread, Settle(p)
      PROVE  publishStatus'[c] # "none" /\ linked'[c] = linked[c]
  BY <1>2 DEF Settle, OutcomeJustified
<1>3. ASSUME NEW d \in Content, NEW media \in SUBSET Uploads, NEW sounds \in SUBSET Sounds, DraftContent(d, media, sounds)
      PROVE  publishStatus'[c] # "none" /\ linked'[c] = linked[c]
  BY <1>3 DEF DraftContent
<1>4. ASSUME NEW d \in Content, CommitContent(d)
      PROVE  publishStatus'[c] # "none" /\ linked'[c] = linked[c]
  BY <1>4 DEF CommitContent, IsOpen
<1>5. ASSUME NEW d \in Content, RollbackContent(d)
      PROVE  publishStatus'[c] # "none" /\ linked'[c] = linked[c]
  BY <1>5 DEF RollbackContent, IsOpen
<1>6. CASE Crash
  BY <1>6 DEF Crash
<1> QED
  BY <1>1, <1>2, <1>3, <1>4, <1>5, <1>6, ContentSteps DEF ContentStep

\* The rows that a transaction reads are as the history and the order of the
\* pipeline have them; what it knows of a sound is the row it inserts.
LEMMA DraftOfRows ==
  ASSUME TypeOK, HistoryComplete, TranscodeOnlyCleared, NEW c \in Content,
         NEW media \in SUBSET Uploads, NEW sounds \in SUBSET Sounds,
         Attachable(c, media, sounds), DraftContent(c, media, sounds), NEW m \in linked'[c]
  PROVE  Known(c, m)'
<1>0. everCleared' = everCleared /\ everBlocked' = everBlocked
  BY DEF DraftContent, dbVars
<1>1. m \in media \cup sounds
  BY DEF DraftContent, TypeOK
<1>2. draft'[c][m] = IF m \in media THEN row[m] ELSE SoundRow(m)
  BY <1>1, Threads DEF DraftContent, TypeOK
<1>3. CASE m \in sounds
  <2>1. m \in Sounds /\ m \notin media /\ c \notin Statuses
    BY <1>3, MediaAssumption DEF Attachable
  <2> QED
    BY <1>2, <2>1 DEF Known
<1>4. CASE m \in media
  <2>1. m \in Uploads /\ m \notin Sounds /\ m \in Media
    BY <1>4, MediaAssumption, Threads
  <2>2. row[m].status # "none"
    BY <1>4 DEF DraftContent, PendingAttachStatuses
  <2>3. draft'[c][m] = row[m]
    BY <1>2, <1>4
  <2>4. Remembered(m, row[m]) /\ ProcessingCleared(m, row[m])
    BY <2>1 DEF HistoryComplete, TranscodeOnlyCleared
  <2> QED
    BY <1>0, <2>1, <2>2, <2>3, <2>4 DEF Known, Remembered, ProcessingCleared
<1> QED
  BY <1>1, <1>3, <1>4

\* A transaction stays justified while it is open, as verdicts only accumulate.
LEMMA DraftStays ==
  ASSUME TypeOK, DraftJustified, NEW c \in Content, IsOpen(c),
         linked'[c] = linked[c], draft'[c] = draft[c],
         everCleared \subseteq everCleared', everBlocked \subseteq everBlocked',
         NEW m \in linked'[c]
  PROVE  Known(c, m)'
  BY DEF DraftJustified, Known, Remembered, ProcessingCleared

\* What a transaction starts its content with is what the history justifies.
LEMMA CommitJustified ==
  ASSUME TypeOK, DraftJustified, NEW c \in Content, CommitContent(c),
         publishStatus'[c] = "published"
  PROVE  linked[c] \subseteq everCleared'
<1> SUFFICES ASSUME NEW m \in linked[c] PROVE m \in everCleared'
  OBVIOUS
<1>1. IsOpen(c) /\ m \in Media
  BY DEF CommitContent, TypeOK
<1>2. IsModerationCleared(draft[c][m])
  <2>1. ResolveInitialPublishStatus({draft[c][n] : n \in linked[c]}) = "published"
    BY DEF CommitContent, TypeOK
  <2> QED
    BY <2>1 DEF ResolveInitialPublishStatus
<1>3. CASE m \notin Sounds
  BY <1>1, <1>2, <1>3 DEF DraftJustified, Known, Remembered, CommitContent, Remember
<1>4. CASE m \in Sounds
  <2>1. row'[m] = draft[c][m]
    BY <1>1, <1>4 DEF DraftJustified, Known, CommitContent
  <2> QED
    BY <1>1, <1>2, <2>1 DEF CommitContent, Remember
<1> QED
  BY <1>3, <1>4

\* Transactions and settlements keep the publication justified.
LEMMA ContentInvStep ==
  ASSUME PipelineInv, [Next]_vars
  PROVE  DraftJustified' /\ PublishedWasCleared'
<1> DEFINE Goal == DraftJustified' /\ PublishedWasCleared'
<1>0. everCleared \subseteq everCleared' /\ everBlocked \subseteq everBlocked'
  BY HistoryStep DEF PipelineInv
<1> USE DEF TypeOK, PipelineInv
<1>1. CASE UNCHANGED contentVars
  <2>1. DraftJustified'
    BY <1>0, <1>1 DEF contentVars, DraftJustified, IsOpen, Known, Remembered,
       ProcessingCleared
  <2> QED
    BY <1>0, <1>1, <2>1 DEF contentVars, PublishedWasCleared
<1>2. ASSUME NEW p \in Thread, Settle(p) PROVE Goal
  <2>1. \A d \in Content : IsOpen(d)' => IsOpen(d)
    BY <1>2 DEF Settle, OutcomeJustified, IsOpen
  <2>2. DraftJustified'
    BY <1>0, <1>2, <2>1, DraftStays DEF Settle, DraftJustified
  <2>3. PublishedWasCleared'
    BY <1>0, <1>2 DEF Settle, OutcomeJustified, PublishedWasCleared
  <2> QED
    BY <2>2, <2>3
<1>3. ASSUME NEW c \in Content, NEW media \in SUBSET Uploads, NEW sounds \in SUBSET Sounds,
             Attachable(c, media, sounds), DraftContent(c, media, sounds)
      PROVE  Goal
  <2>1. \A d \in Content \ {c} : /\ linked'[d] = linked[d] /\ draft'[d] = draft[d]
                                 /\ IsOpen(d)' => IsOpen(d)
    BY <1>3 DEF DraftContent, IsOpen
  <2>2. everCleared' = everCleared /\ everBlocked' = everBlocked
          /\ publishStatus' = publishStatus /\ publishStatus[c] = "none"
    BY <1>3 DEF DraftContent, dbVars
  <2>3. ASSUME NEW m \in linked'[c]
        PROVE  Known(c, m)'
    BY <1>3, <2>3, DraftOfRows
  <2>4. ASSUME NEW d \in Content \ {c}, IsOpen(d)', NEW m \in linked'[d]
        PROVE  Known(d, m)'
    BY <1>0, <2>1, <2>4, DraftStays
  <2>5. DraftJustified'
    BY <2>3, <2>4 DEF DraftJustified
  <2>6. PublishedWasCleared'
    BY <2>1, <2>2 DEF PublishedWasCleared
  <2> QED
    BY <2>5, <2>6
<1>4. ASSUME NEW c \in Content, CommitContent(c) PROVE Goal
  <2>1. publishStatus'[c] \in {"pending", "published"} /\ linked' = linked
    BY <1>4 DEF CommitContent, ResolveInitialPublishStatus
  <2>2. \A d \in Content \ {c} : publishStatus'[d] = publishStatus[d] /\ draft'[d] = draft[d]
    BY <1>4 DEF CommitContent
  <2>3. \A d \in Content : IsOpen(d)' => d # c /\ IsOpen(d)
    BY <2>1, <2>2 DEF IsOpen
  <2>4. DraftJustified'
    BY <1>0, <2>1, <2>2, <2>3, DraftStays DEF DraftJustified
  <2>5. publishStatus'[c] = "published" => linked[c] \subseteq everCleared'
    BY <1>4, CommitJustified
  <2>6. PublishedWasCleared'
    BY <1>0, <2>1, <2>2, <2>5 DEF PublishedWasCleared
  <2> QED
    BY <2>4, <2>6
<1>5. ASSUME NEW c \in Content, RollbackContent(c) PROVE Goal
  <2>1. \A d \in Content : IsOpen(d)' => d # c /\ IsOpen(d)
    BY <1>5 DEF RollbackContent, IsOpen
  <2>2. DraftJustified'
    BY <1>0, <1>5, <2>1, DraftStays DEF RollbackContent, DraftJustified
  <2>3. PublishedWasCleared'
    BY <1>0, <1>5 DEF RollbackContent, IsOpen, PublishedWasCleared
  <2> QED
    BY <2>2, <2>3
<1>6. CASE Crash
  <2>1. \A d \in Content : ~IsOpen(d)'
    BY <1>6 DEF Crash, IsOpen
  <2>2. DraftJustified'
    BY <2>1 DEF DraftJustified
  <2>3. PublishedWasCleared'
    BY <1>0, <1>6 DEF Crash, PublishedWasCleared
  <2> QED
    BY <2>2, <2>3
<1> QED
  BY <1>1, <1>2, <1>3, <1>4, <1>5, <1>6, ContentSteps DEF ContentStep

\* What was written back once stays so.
LEMMA WrittenBackStays ==
  ASSUME PipelineInv, [Next]_vars, NEW m \in Media, WrittenBack(m)
  PROVE  WrittenBack(m)'
  BY CommittedStays DEF PipelineInv, WrittenBack

\* Every step hands only cleared media on to the transcoder.
LEMMA HandOverStep ==
  ASSUME TypeOK, AtWork, RowsExist, HistoryComplete, HandOverCleared, OutputsFirst, [Next]_vars
  PROVE  HandOverCleared'
<1> USE Threads DEF dbVars, contentVars, envVars
<1>0. HistoryComplete' /\ everCleared \subseteq everCleared'
  BY HistoryStep
<1>1. ASSUME NEW m \in Uploads, CreateUpload(m) PROVE HandOverCleared'
  BY <1>1, ThreadIn, Labels, <1>0 DEF CreateUpload, HandOverCleared, WillTranscode,
     UpdateMedia, ThreadState, TypeOK
<1>2. ASSUME NEW p \in Uploader, NEW m \in Uploads, CompleteUpload(p, m)
      PROVE  HandOverCleared'
  <2>1. th[p] \in ThreadState /\ p # "reconciler" /\ p # "transcoder"
    BY ThreadIn, MediaAssumption DEF Worker
  <2>2. \A q \in Thread : q # p => th'[q] = th[q]
    BY <1>2 DEF CompleteUpload, Move, TypeOK
  <2>3. th'[p].pc = "markUploaded"
    BY <1>2, <2>1 DEF CompleteUpload, Move, TypeOK, ThreadState
  <2> QED
    BY <1>0, <1>2, <2>1, <2>2, <2>3 DEF CompleteUpload, HandOverCleared, WillTranscode
<1>3. ASSUME NEW p \in Uploader, MarkUploaded(p) PROVE HandOverCleared'
  BY <1>3, ThreadIn, Labels, <1>0 DEF MarkUploaded, HandOverCleared, WillTranscode,
     UpdateMedia, Move, Goto, ThreadState, TypeOK, AtWork
<1>4. ASSUME NEW p \in Uploader, RouteToModeration(p) PROVE HandOverCleared'
  BY <1>4, ThreadIn, Labels, <1>0 DEF RouteToModeration, HandOverCleared, WillTranscode,
     UpdateMedia, Move, Goto, ThreadState, TypeOK, AtWork
<1>5. ASSUME NEW p \in Uploader, RouteSkipped(p) PROVE HandOverCleared'
  <2> DEFINE m == th[p].m
             t == [th[p] EXCEPT !.pc = "find", !.then = "markProcessing"]
  <2>1. th[p] \in ThreadState /\ m \in Media /\ p # "reconciler" /\ p # "transcoder"
    BY <1>5, ThreadIn, Labels, MediaAssumption DEF RouteSkipped, AtWork, Worker
  <2>2. \A q \in Thread : th'[q] = IF q = p THEN t ELSE th[q]
    BY <1>5 DEF RouteSkipped, CallTerminalUpdate, Move, TypeOK
  <2>3. row'[m].moderation = "skipped"
    BY <1>5, <2>1 DEF RouteSkipped, UpdateMedia, TypeOK, Row
  <2>4. m \in everCleared'
    BY <1>0, <2>1, <2>3 DEF HistoryComplete, Remembered, IsModerationCleared, ClearedStatuses
  <2>5. t.m = m
    BY <2>1 DEF ThreadState
  <2>6. job' = job
    BY <1>5 DEF RouteSkipped
  <2> QED
    BY <1>0, <2>1, <2>2, <2>4, <2>5, <2>6 DEF HandOverCleared, WillTranscode
<1>6. ASSUME NEW p \in Uploader, EnqueueModeration(p) PROVE HandOverCleared'
  <2>1. p # "reconciler" /\ p # "transcoder" /\ Idle.pc = "idle"
    BY MediaAssumption DEF Worker, Idle
  <2>2. \A q \in Thread : th'[q] = IF q = p THEN Idle ELSE th[q]
    BY <1>6 DEF EnqueueModeration, Move, TypeOK
  <2>3. th[p].m \in Media
    BY <1>6, Labels DEF EnqueueModeration, AtWork
  <2>4. job'["transcode"] = job["transcode"]
    BY <1>6, <2>3, EnqueueEffect DEF EnqueueModeration, TypeOK, Queue
  <2> QED
    BY <1>0, <2>1, <2>2, <2>4 DEF HandOverCleared, WillTranscode
<1>7. ASSUME NEW p \in Thread, FindPending(p) PROVE HandOverCleared'
  <2>1. th[p] \in ThreadState /\ th[p].then \in Continuation
    BY ThreadIn, ThreadFields
  <2>2. \A q \in Thread : WillTranscode(q)' => WillTranscode(q) /\ th'[q].m = th[q].m
    BY <1>7, <2>1, PublicationMove DEF WillTranscode, Continuation
  <2> QED
    BY <1>0, <1>7, <2>1, <2>2, PublicationMove DEF HandOverCleared, Continuation
<1>8. ASSUME NEW p \in Thread, Evaluate(p) PROVE HandOverCleared'
  <2>1. th[p] \in ThreadState /\ th[p].then \in Continuation
    BY ThreadIn, ThreadFields
  <2>2. \A q \in Thread : WillTranscode(q)' => WillTranscode(q) /\ th'[q].m = th[q].m
    BY <1>8, <2>1, PublicationMove DEF WillTranscode, Continuation
  <2> QED
    BY <1>0, <1>8, <2>1, <2>2, PublicationMove DEF HandOverCleared, Continuation
<1>9. ASSUME NEW p \in Thread, Settle(p) PROVE HandOverCleared'
  <2>1. th[p] \in ThreadState /\ th[p].then \in Continuation
    BY ThreadIn, ThreadFields
  <2>2. \A q \in Thread : WillTranscode(q)' => WillTranscode(q) /\ th'[q].m = th[q].m
    BY <1>9, <2>1, PublicationMove DEF WillTranscode, Continuation
  <2> QED
    BY <1>0, <1>9, <2>1, <2>2, PublicationMove DEF HandOverCleared, Continuation
<1>10. ASSUME NEW p \in Thread, MarkProcessing(p) PROVE HandOverCleared'
  BY <1>10, ThreadIn, Labels, <1>0 DEF MarkProcessing, HandOverCleared, WillTranscode,
     UpdateMedia, Move, Goto, ThreadState, TypeOK, AtWork
<1>11. ASSUME NEW p \in Thread, EnqueueTranscode(p) PROVE HandOverCleared'
  <2>0. th[p].m \in Media
    BY <1>11, Labels DEF EnqueueTranscode, AtWork
  <2>1. th[p] \in ThreadState
    BY ThreadIn
  <2> DEFINE t == AfterEnqueueTranscode(p)
  <2>2. /\ t.pc \in {"idle", "requeueTranscode", "completeJob"}
        /\ p \in Worker => t.m = th[p].m
        /\ p = "reconciler" => t.work = th[p].work
    BY <2>1, MediaAssumption DEF AfterEnqueueTranscode, SweepAt, Idle, ThreadState,
       Worker
  <2>3. \A q \in Thread : th'[q] = IF q = p THEN t ELSE th[q]
    BY <1>11 DEF EnqueueTranscode, Move, TypeOK
  <2>4. \A q \in Queue, m \in Media :
          job'[q][m].state # "none" => job[q][m].state # "none" \/ m = th[p].m
    BY <1>11, <2>0, EnqueueEffect DEF EnqueueTranscode, TypeOK
  <2>5. WillTranscode(p) /\ th[p].m \in everCleared
    BY <1>11 DEF EnqueueTranscode, WillTranscode, HandOverCleared
  <2>6. \A q \in Thread : WillTranscode(q)' => q # p /\ WillTranscode(q)
          /\ th'[q] = th[q]
    BY <2>2, <2>3 DEF WillTranscode
  <2>7. th'["transcoder"].pc # "idle" => th'["transcoder"].m \in everCleared
    BY <2>2, <2>3, <2>5 DEF HandOverCleared
  <2>8. th'["reconciler"].pc = "requeueTranscode" \/ WillTranscode("reconciler")'
          => th'["reconciler"].work \subseteq everCleared
    BY <2>2, <2>3, <2>5, <2>6 DEF HandOverCleared
  <2> QED
    BY <1>0, <2>4, <2>5, <2>6, <2>7, <2>8 DEF HandOverCleared
<1>12. ASSUME NEW m \in Media, TakeModeration(m) PROVE HandOverCleared'
  BY <1>12, ThreadIn, Labels, <1>0 DEF TakeModeration, HandOverCleared, WillTranscode,
     SetJob, Move, ThreadState, TypeOK, AtWork
<1>13. ASSUME ModerationSkipped PROVE HandOverCleared'
  BY <1>13, ThreadIn, Labels, <1>0 DEF ModerationSkipped, HandOverCleared,
     WillTranscode, UpdateMedia, ModerationVerdict, CallTerminalUpdate, Move,
     ThreadState, TypeOK, HistoryComplete, Remembered, IsModerationCleared,
     ClearedStatuses, AtWork
<1>14. ASSUME ModerationPassed PROVE HandOverCleared'
  BY <1>14, ThreadIn, Labels, <1>0 DEF ModerationPassed, HandOverCleared, WillTranscode,
     UpdateMedia, ModerationVerdict, CallTerminalUpdate, Move, ThreadState, TypeOK,
     HistoryComplete, Remembered, IsModerationCleared, ClearedStatuses, AtWork
<1>15. ASSUME ModerationRejected PROVE HandOverCleared'
  BY <1>15, ThreadIn, Labels, <1>0 DEF ModerationRejected, HandOverCleared,
     WillTranscode, UpdateMedia, ModerationVerdict, CallTerminalUpdate, Move,
     ThreadState, TypeOK, HistoryComplete, Remembered, IsModerationCleared,
     ClearedStatuses, AtWork
<1>16. ASSUME ModerationFailed PROVE HandOverCleared'
  BY <1>16, ThreadIn, Labels, <1>0 DEF ModerationFailed, HandOverCleared, WillTranscode,
     UpdateMedia, ModerationVerdict, CallTerminalUpdate, Move, ThreadState, TypeOK,
     HistoryComplete, Remembered, IsModerationCleared, ClearedStatuses, AtWork
<1>17. ASSUME NEW p \in Worker, FinishJob(p) PROVE HandOverCleared'
  <2>1. th[p].m \in Media /\ (p = "transcoder" \/ p = "moderator")
    BY <1>17, Labels DEF FinishJob, AtWork, Worker
  <2>2. \A q \in Thread : th'[q] = IF q = p THEN Idle ELSE th[q]
    BY <1>17 DEF FinishJob, Move, TypeOK
  <2>3. p = "transcoder" => th[p].m \in everCleared
    BY <1>17 DEF FinishJob, HandOverCleared
  <2>4. \A m \in Media :
          job'["transcode"][m].state # "none" =>
            job["transcode"][m].state # "none" \/ (p = "transcoder" /\ m = th[p].m)
    BY <1>17, <2>1 DEF FinishJob, SetJob, TypeOK, QueueOf, Queue
  <2> QED
    BY <1>0, <1>17, <2>2, <2>3, <2>4 DEF FinishJob, HandOverCleared, WillTranscode, Idle
<1>18. ASSUME NEW m \in Media, TakeTranscode(m) PROVE HandOverCleared'
  BY <1>18, ThreadIn, Labels, <1>0 DEF TakeTranscode, HandOverCleared, WillTranscode,
     SetJob, Move, ThreadState, TypeOK, AfterComplete, AtWork
<1>19. ASSUME Encode PROVE HandOverCleared'
  BY <1>19, ThreadIn, Labels, <1>0 DEF Encode, HandOverCleared, WillTranscode,
     UpdateMedia, Move, Goto, ThreadState, TypeOK
<1>20. ASSUME MarkReady PROVE HandOverCleared'
  BY <1>20, ThreadIn, Labels, <1>0 DEF MarkReady, HandOverCleared, WillTranscode,
     UpdateMedia, Move, Goto, ThreadState, TypeOK
<1>21. ASSUME KeepOriginal PROVE HandOverCleared'
  BY <1>21, ThreadIn, Labels, <1>0 DEF KeepOriginal, HandOverCleared, WillTranscode,
     UpdateMedia, Move, Goto, ThreadState, TypeOK
<1>22. ASSUME SweepModeration PROVE HandOverCleared'
  BY <1>22, ThreadIn, Labels, <1>0 DEF SweepModeration, HandOverCleared, WillTranscode,
     Move, Sweep, ThreadState, TypeOK, AtWork
<1>23. ASSUME SweepTranscode PROVE HandOverCleared'
  BY <1>23, ThreadIn, Labels, <1>0 DEF SweepTranscode, HandOverCleared, WillTranscode,
     StuckTranscode, Move, Sweep, ThreadState, TypeOK, AtWork, HistoryComplete,
     Remembered, IsModerationCleared, ClearedStatuses
<1>24. ASSUME SweepPublish PROVE HandOverCleared'
  BY <1>24, ThreadIn, Labels, <1>0 DEF SweepPublish, HandOverCleared, WillTranscode,
     Move, Sweep, ThreadState, TypeOK, AtWork
<1>25. ASSUME SweepEnd PROVE HandOverCleared'
  BY <1>25, ThreadIn, Labels, <1>0 DEF SweepEnd, HandOverCleared, WillTranscode, Move,
     Sweep, ThreadState, TypeOK
<1>26. ASSUME NEW m \in Media, RequeueModeration(m) PROVE HandOverCleared'
  <2> DEFINE r == th["reconciler"]
             t == [r EXCEPT !.work = @ \ {m}]
  <2>1. r \in ThreadState
    BY ThreadIn
  <2>2. t.pc = "requeueModeration"
    BY <1>26, <2>1 DEF RequeueModeration, ThreadState
  <2>3. \A q \in Thread : th'[q] = IF q = "reconciler" THEN t ELSE th[q]
    BY <1>26 DEF RequeueModeration, Move, TypeOK
  <2>4. job'["transcode"] = job["transcode"]
    BY <1>26, EnqueueEffect DEF RequeueModeration, TypeOK, Queue
  <2> QED
    BY <1>0, <2>2, <2>3, <2>4 DEF HandOverCleared, WillTranscode
<1>27. ASSUME NEW m \in Media, RequeueTranscode(m) PROVE HandOverCleared'
  BY <1>27, ThreadIn, Labels, <1>0 DEF RequeueTranscode, HandOverCleared, WillTranscode,
     Move, ThreadState, TypeOK, AtWork, HistoryComplete, IsModerationCleared,
     ClearedStatuses
<1>28. ASSUME NEW m \in Media, Reevaluate(m) PROVE HandOverCleared'
  BY <1>28, ThreadIn, Labels, <1>0 DEF Reevaluate, HandOverCleared, WillTranscode, Move,
     ThreadState, TypeOK, AtWork
<1>29. ASSUME NEW c \in Content, NEW media \in SUBSET Uploads, NEW sounds \in SUBSET
              Sounds, DraftContent(c, media, sounds)
       PROVE  HandOverCleared'
  BY <1>29, ThreadIn, Labels, <1>0 DEF DraftContent, HandOverCleared, WillTranscode,
     ThreadState, TypeOK
<1>30. ASSUME NEW c \in Content, CommitContent(c) PROVE HandOverCleared'
  BY <1>30, ThreadIn, Labels, <1>0 DEF CommitContent, HandOverCleared, WillTranscode,
     ThreadState, TypeOK
<1>31. ASSUME NEW c \in Content, RollbackContent(c) PROVE HandOverCleared'
  BY <1>31, ThreadIn, Labels, <1>0 DEF RollbackContent, HandOverCleared, WillTranscode,
     ThreadState, TypeOK
<1>32. ASSUME NEW p \in Worker, NEW m \in Media, StalledJob(p, m) PROVE HandOverCleared'
  BY <1>32, ThreadIn, Labels, <1>0 DEF StalledJob, HandOverCleared, WillTranscode,
     SetJob, ThreadState, TypeOK, AtWork
<1>33. ASSUME NEW m \in Media, Age(m) PROVE HandOverCleared'
  BY <1>33, ThreadIn, Labels, <1>0 DEF Age, HandOverCleared, WillTranscode, ThreadState,
     TypeOK
<1>34. ASSUME NEW p \in Uploader, UploaderThrows(p) PROVE HandOverCleared'
  BY <1>34, ThreadIn, Labels, <1>0 DEF UploaderThrows, HandOverCleared, WillTranscode,
     Move, Idle, ThreadState, TypeOK
<1>35. ASSUME NEW p \in Worker, WorkerThrows(p) PROVE HandOverCleared'
  BY <1>35, ThreadIn, Labels, <1>0 DEF WorkerThrows, HandOverCleared, WillTranscode,
     Move, Goto, ThreadState, TypeOK
<1>36. ASSUME ReconcilerThrows PROVE HandOverCleared'
  <2>1. PICK t \in ThreadState :
           /\ Move("reconciler", t)
           /\ t.work \subseteq th["reconciler"].work /\ t.pc \in Between
           /\ t.pc = "requeueTranscode" =>
                th["reconciler"].pc \in {"markProcessing", "enqueueTranscode"}
    BY <1>36, ReconcilerMove
  <2>2. \A q \in Thread : th'[q] = IF q = "reconciler" THEN t ELSE th[q]
    BY <2>1 DEF Move, TypeOK
  <2>3. job' = job
    BY <1>36 DEF ReconcilerThrows
  <2> QED
    BY <1>0, <2>1, <2>2, <2>3 DEF HandOverCleared, WillTranscode, Between
<1>37. ASSUME TranscodeThrows PROVE HandOverCleared'
  BY <1>37, ThreadIn, Labels, <1>0 DEF TranscodeThrows, HandOverCleared, WillTranscode,
     Move, Goto, ThreadState, TypeOK, AfterComplete
<1>38. ASSUME Crash PROVE HandOverCleared'
  BY <1>38, ThreadIn, Labels, <1>0 DEF Crash, HandOverCleared, WillTranscode, Idle,
     ThreadState, TypeOK
<1>39. CASE UNCHANGED vars
  BY <1>39, ThreadIn, Labels, <1>0 DEF vars, HandOverCleared, WillTranscode,
     ThreadState, TypeOK
<1> QED
  BY <1>1, <1>2, <1>3, <1>4, <1>5, <1>6, <1>7, <1>8, <1>9, <1>10, <1>11, <1>12, <1>13,
     <1>14, <1>15, <1>16, <1>17, <1>18, <1>19, <1>20, <1>21, <1>22, <1>23, <1>24, <1>25,
     <1>26, <1>27, <1>28, <1>29, <1>30, <1>31, <1>32, <1>33, <1>34, <1>35, <1>36, <1>37,
     <1>38, <1>39 DEF Next, UploaderStep, ModeratorStep, TranscoderStep, ReconcilerStep,
     AuthorStep, FaultStep, TerminalUpdate, TranscodeEnqueue

\* Every step keeps the carried outcomes justified and the lists committed.
LEMMA OutcomeStep ==
  ASSUME PipelineInv, [Next]_vars
  PROVE  TodoCommitted' /\ OutcomeJustified'
<1> USE DEF PipelineInv
<1>0. everCleared \subseteq everCleared' /\ everBlocked \subseteq everBlocked'
  BY HistoryStep
<1>1. \A c \in Content :
        publishStatus[c] # "none" => publishStatus'[c] # "none" /\ linked'[c] = linked[c]
  BY CommittedStays
<1>2. \A q \in Thread : /\ th[q] \in ThreadState /\ th[q].todo \subseteq Content
                        /\ th[q].then # "settle"
  BY ThreadIn, ThreadFields DEF Continuation
<1>9. th \in [Thread -> ThreadState]
  BY DEF TypeOK
<1>3. CASE QuietStep
  <2>1. TodoCommitted'
    BY <1>1, <1>2, <1>3 DEF QuietStep, TodoCommitted
  <2>2. OutcomeJustified'
    BY <1>0, <1>1, <1>3 DEF QuietStep, OutcomeJustified
  <2> QED
    BY <2>1, <2>2
<1>4. ASSUME NEW p \in Thread, FindPending(p) PROVE TodoCommitted' /\ OutcomeJustified'
  <2> DEFINE found == {c \in Content : publishStatus[c] = "pending"
        /\ th[p].m \in linked[c]}
  <2>1. th'[p] = NextContent(p, found) /\ \A q \in Thread \ {p} : th'[q] = th[q]
    BY <1>4 DEF FindPending, Move, TypeOK
  <2>2. th'[p].todo = found /\ th'[p].pc # "settle"
    <3>1. found \in SUBSET Content
      OBVIOUS
    <3> HIDE DEF found
    <3> QED
      BY <1>2, <1>9, <2>1, <3>1, NextContentType
  <2>3. publishStatus' = publishStatus
    BY <1>4 DEF FindPending, contentVars
  <2>4. TodoCommitted'
    BY <2>1, <2>2, <2>3 DEF TodoCommitted
  <2>5. OutcomeJustified'
    BY <1>0, <1>1, <2>1, <2>2 DEF OutcomeJustified
  <2> QED
    BY <2>4, <2>5
<1>5. ASSUME NEW p \in Thread, Evaluate(p) PROVE TodoCommitted' /\ OutcomeJustified'
  <2> DEFINE outcome(c) == ResolveOutcome({row[m] : m \in linked[c]})
             settling(c) == [th[p] EXCEPT !.pc = "settle", !.todo = th[p].todo \ {c},
                                          !.c = c, !.out = outcome(c)]
  <2>1. PICK c \in th[p].todo :
           Move(p, IF publishStatus[c] # "pending" \/ outcome(c) = "pending"
                   THEN NextContent(p, th[p].todo \ {c}) ELSE settling(c))
    BY <1>5 DEF Evaluate
  <2>2. c \in Content /\ publishStatus[c] # "none"
    BY <1>2 DEF TodoCommitted
  <2>3. /\ outcome(c) \in Outcome
        /\ outcome(c) = "published" => linked[c] \subseteq everCleared
        /\ outcome(c) = "failed" => linked[c] \cap everBlocked # {}
    BY <2>2, OutcomeOfRows DEF ResolveOutcome, Outcome
  <2> HIDE DEF outcome
  <2>4. \A q \in Thread \ {p} : th'[q] = th[q]
    BY <2>1 DEF Move, TypeOK
  <2>5. CASE th'[p] = NextContent(p, th[p].todo \ {c})
    <3>1. th'[p].todo \subseteq th[p].todo /\ th'[p].pc # "settle"
      <4>1. th[p].todo \ {c} \in SUBSET Content
        BY <1>2
      <4> QED
        BY <1>2, <1>9, <2>5, <4>1, NextContentType
    <3>2. TodoCommitted'
      BY <1>1, <1>2, <2>4, <3>1 DEF TodoCommitted
    <3>3. OutcomeJustified'
      BY <1>0, <1>1, <2>4, <3>1 DEF OutcomeJustified
    <3> QED
      BY <3>2, <3>3
  <2>6. CASE th'[p] = settling(c) /\ outcome(c) # "pending"
    <3>1. th'[p].todo \subseteq th[p].todo /\ th'[p].c = c /\ th'[p].out = outcome(c)
      BY <1>2, <2>6 DEF ThreadState
    <3>2. outcome(c) = "published" \/ outcome(c) = "failed"
      BY <2>3, <2>6 DEF Outcome
    <3>3. TodoCommitted'
      BY <1>1, <1>2, <2>4, <3>1 DEF TodoCommitted
    <3>4. OutcomeJustified'
      BY <1>0, <1>1, <2>2, <2>3, <2>4, <3>1, <3>2 DEF OutcomeJustified
    <3> QED
      BY <3>3, <3>4
  <2> QED
    BY <2>1, <2>5, <2>6 DEF Move, TypeOK
<1> QED
  BY <1>3, <1>4, <1>5, ThreadSteps DEF ThreadStep

-----------------------------------------------------------------------------
(* Rows, outputs and the hand-over to the transcoder                       *)

\* Rows stay, outputs stay, and only cleared media become processing or ready.
LEMMA RowsStay ==
  ASSUME PipelineInv, [Next]_vars
  PROVE  \A m \in Media :
           /\ Exists(m) => Exists(m)'
           /\ ~Exists(m)' => row'[m] = NoRow
           /\ m \in Uploads \ Passthrough /\ row[m].transcoded
                => row'[m].transcoded \/ WrittenBack(m)'
           /\ m \in Uploads /\ row'[m].status \in {"processing", "ready"}
                => row'[m].status = row[m].status \/ m \in everCleared
           /\ m \in Uploads \ Passthrough /\ row'[m].status = "ready"
                => row[m].status = "ready" \/ row'[m].transcoded \/ WrittenBack(m)'
<1> DEFINE Goal == \A m \in Media :
           /\ row[m].status # "none" => row'[m].status # "none"
           /\ row'[m].status = "none" => row'[m] = NoRow
           /\ m \in Uploads \ Passthrough /\ row[m].transcoded
                => row'[m].transcoded \/ WrittenBack(m)'
           /\ m \in Uploads /\ row'[m].status \in {"processing", "ready"}
                => row'[m].status = row[m].status \/ m \in everCleared
           /\ m \in Uploads \ Passthrough /\ row'[m].status = "ready"
                => row[m].status = "ready" \/ row'[m].transcoded \/ WrittenBack(m)'
<1>0. /\ row \in [Media -> Row]
      /\ \A m \in Media : row[m].status = "none" => row[m] = NoRow
  BY DEF PipelineInv, TypeOK, RowsExist, Exists
<1>1. CASE UNCHANGED dbVars
  <2>1. row' = row
    BY <1>1 DEF dbVars
  <2> QED
    BY <1>0, <2>1 DEF Exists
<1>2. ASSUME NEW n \in Media, NEW new \in Row, LegalUpdate(n, new), UpdateMedia(n, new)
      PROVE  Goal
  <2> DEFINE stored == [new EXCEPT !.stale = FALSE]
  <2>1. stored.status = new.status /\ stored.transcoded = new.transcoded
    BY DEF Row
  <2>2. \A m \in Media : row'[m] = IF m = n THEN stored ELSE row[m]
    BY <1>0, <1>2 DEF UpdateMedia
  <2> HIDE DEF stored
  <2> QED
    BY <1>0, <1>2, <2>1, <2>2, WrittenBackStays DEF LegalUpdate
<1>3. ASSUME NEW c \in Content, CommitContent(c) PROVE Goal
  <2>1. \A m \in Sounds : SoundRow(m).status # "none"
    BY DEF SoundRow, NoRow
  <2>2. IsOpen(c) /\ linked[c] \subseteq Media
    BY <1>3 DEF CommitContent, PipelineInv, TypeOK
  <2>3. \A m \in Media :
          row'[m] = row[m] \/ (m \in linked[c] /\ c \notin Statuses /\ row'[m] = draft[c][m])
    BY <1>3 DEF CommitContent
  <2>4. \A m \in linked[c] \ Sounds :
          draft[c][m].status # "none" /\ ProcessingCleared(m, draft[c][m])
    BY <2>2, Threads DEF PipelineInv, DraftJustified, Known
  <2>5. \A m \in linked[c] \cap Sounds : draft[c][m] = SoundRow(m)
    BY <2>2, Threads DEF PipelineInv, DraftJustified, Known
  <2>6. \A m \in linked[c] : c \notin Statuses => WrittenBack(m)'
    <3>1. publishStatus'[c] # "none" /\ linked' = linked
      BY <1>3 DEF CommitContent, ResolveInitialPublishStatus, PipelineInv, TypeOK
    <3> QED
      BY <3>1 DEF WrittenBack
  <2>7. \A m \in Uploads : m \notin Sounds
    BY MediaAssumption
  <2> QED
    BY <1>0, <2>1, <2>3, <2>4, <2>5, <2>6, <2>7 DEF ProcessingCleared
<1>4. ASSUME NEW n \in Media, Age(n) PROVE Goal
  <2> DEFINE aged == [row[n] EXCEPT !.stale = TRUE]
  <2>1. aged.status = row[n].status /\ aged.transcoded = row[n].transcoded
          /\ row[n].status # "none"
    BY <1>0, <1>4 DEF Age, Row
  <2>2. \A m \in Media : row'[m] = IF m = n THEN aged ELSE row[m]
    BY <1>0, <1>4 DEF Age
  <2> HIDE DEF aged
  <2> QED
    BY <1>0, <2>1, <2>2
<1> QED
  BY <1>1, <1>2, <1>3, <1>4, RowSteps DEF PipelineInv, RowStep, Exists

\* Every step names only media that have a row.
LEMMA RowsExistStep ==
  ASSUME PipelineInv, [Next]_vars
  PROVE  RowsExist'
<1> USE DEF PipelineInv
<1>1. CarryStep
  BY ThreadSteps DEF ThreadStep
<1>2. \A m \in Media : row[m].status # "none" => row'[m].status # "none"
  BY RowsStay DEF Exists
<1>3. \A m \in Media : row'[m].status = "none" => row'[m] = NoRow
  BY RowsStay DEF Exists
<1>4. \A q \in Thread : th[q].work \subseteq Media /\ (th'[q] \in ThreadState
        /\ th'[q].work \subseteq Media)
  <2>1. TypeOK'
    BY TypeStep
  <2> QED
    BY <2>1, ThreadFields DEF TypeOK
<1>5. NoMedia \notin Media
  BY MediaAssumption
<1>6. \A q \in Thread : th'[q].m \in Media => row'[th'[q].m].status # "none"
  BY <1>1, <1>2, <1>5 DEF CarryStep, RowsExist, Exists
<1>7. \A q \in Thread : \A m \in th'[q].work : row'[m].status # "none"
  BY <1>1, <1>2, <1>4 DEF CarryStep, RowsExist, Exists
<1>8. \A q \in Queue, m \in Media : job'[q][m].state # "none" => row'[m].status # "none"
  BY <1>1, <1>2 DEF CarryStep, RowsExist, Exists
<1> QED
  BY <1>3, <1>6, <1>7, <1>8 DEF RowsExist, Exists

\* Every step keeps the outputs ahead of READY and moderation ahead of both.
LEMMA OutputsStep ==
  ASSUME PipelineInv, [Next]_vars
  PROVE  OutputsFirst' /\ ReadyHasVariants' /\ TranscodeOnlyCleared'
<1> USE Threads DEF PipelineInv
<1>1. CarryStep
  BY ThreadSteps DEF ThreadStep
<1>2. everCleared \subseteq everCleared'
  BY HistoryStep
<1>3. OutputsFirst'
  BY <1>1, RowsStay, WrittenBackStays DEF CarryStep, OutputsFirst
<1>4. ReadyHasVariants'
  BY RowsStay, WrittenBackStays DEF ReadyHasVariants
<1>5. HandOverCleared'
  BY HandOverStep
<1>6. TranscodeOnlyCleared'
  BY <1>2, <1>5, RowsStay DEF TranscodeOnlyCleared, ProcessingCleared, HandOverCleared
<1> QED
  BY <1>3, <1>4, <1>6

-----------------------------------------------------------------------------
(* The inductive invariant and the theorems                                *)

\* The initial states satisfy the inductive invariant.
LEMMA InvInit == Init => PipelineInv
<1> SUFFICES ASSUME Init PROVE PipelineInv
  OBVIOUS
<1> USE DEF Init
<1>1. TypeOK
  BY NewRowType, NoDraftType, JobType, IdleType, MediaAssumption DEF TypeOK, Outcome
<1>2. \A p \in Thread : th[p].pc = "idle" /\ th[p].m = NoMedia /\ th[p].todo = {}
        /\ th[p].work = {}
  BY DEF Idle
<1>3. \A m \in Media : row[m] = NoRow /\ row[m].status = "none"
        /\ row[m].moderation = "null"
  BY DEF NoRow
<1>4. \A q \in Queue, m \in Media : job[q][m].state = "none"
  BY DEF NoJob
<1>5. AtWork /\ TodoCommitted /\ OutcomeJustified
  BY <1>2 DEF AtWork, TodoCommitted, OutcomeJustified, Between
<1>6. RowsExist
  BY <1>2, <1>3, <1>4, MediaAssumption DEF RowsExist
<1>7. HistoryComplete /\ ReadyHasVariants
  BY <1>3, Threads DEF HistoryComplete, Remembered, ReadyHasVariants, IsModerationCleared,
     ClearedStatuses, IsBlocked, IsModerationRejected, IsModerationFailed
<1>8. DraftJustified /\ PublishedWasCleared
  BY DEF DraftJustified, IsOpen, PublishedWasCleared
<1>9. HandOverCleared /\ OutputsFirst /\ TranscodeOnlyCleared
  BY <1>2, <1>3, <1>4, Threads DEF HandOverCleared, WillTranscode, OutputsFirst,
     TranscodeOnlyCleared, ProcessingCleared
<1> QED
  BY <1>1, <1>5, <1>6, <1>7, <1>8, <1>9 DEF PipelineInv

\* Every step preserves the inductive invariant.
LEMMA InvStep == PipelineInv /\ [Next]_vars => PipelineInv'
<1> SUFFICES ASSUME PipelineInv, [Next]_vars PROVE PipelineInv'
  OBVIOUS
<1>1. TypeOK' /\ AtWork'
  BY TypeStep DEF PipelineInv
<1>2. HistoryComplete'
  BY HistoryStep DEF PipelineInv
<1>3. HandOverCleared'
  BY HandOverStep DEF PipelineInv
<1> QED
  BY <1>1, <1>2, <1>3, RowsExistStep, ContentInvStep, OutcomeStep, OutputsStep DEF
     PipelineInv

\* Every state of every behaviour has well-typed rows, jobs, content and threads.
THEOREM TypeCorrect == Spec => []TypeOK
<1>1. PipelineInv => TypeOK
  BY DEF PipelineInv
<1> QED
  BY <1>1, InvInit, InvStep, PTL DEF Spec

\* The inductive invariant holds in every state of every behaviour.
THEOREM PipelineInvariant == Spec => []PipelineInv
  BY InvInit, InvStep, PTL DEF Spec

\* ContentPublishService and the authors' transactions: published content links
\* only media that moderation has cleared, failed content one that it blocked.
THEOREM PublicationSafe == Spec => []PublishedWasCleared
<1>1. PipelineInv => PublishedWasCleared
  BY DEF PipelineInv
<1> QED
  BY <1>1, PipelineInvariant, PTL

\* MediaTranscodeProcessor and its queue: no upload is transcoded, processing or
\* ready that moderation never cleared.
THEOREM TranscodeSafe == Spec => []TranscodeOnlyCleared
<1>1. PipelineInv => TranscodeOnlyCleared
  BY DEF PipelineInv
<1> QED
  BY <1>1, PipelineInvariant, PTL

\* READY is never claimed before the outputs of the transcode are stored.
THEOREM ReadySafe == Spec => []ReadyHasVariants
<1>1. PipelineInv => ReadyHasVariants
  BY DEF PipelineInv
<1> QED
  BY <1>1, PipelineInvariant, PTL

-----------------------------------------------------------------------------
(* The pipeline implements the publish gate                                *)

\* The initial states are initial states of the gate.
LEMMA GateInitial == Init => Gate!GateInit
  BY DEF Init, Gate!GateInit, CommittedLinks

\* Every step is a step of the gate or leaves the gate alone.
LEMMA GateStep ==
  ASSUME PipelineInv, [Next]_vars
  PROVE  [Gate!GateNext]_Gate!gateVars
<1> USE DEF PipelineInv
<1>1. everCleared \subseteq everCleared' /\ everBlocked \subseteq everBlocked'
  BY HistoryStep
<1>2. ASSUME publishStatus' = publishStatus, CommittedLinks' = CommittedLinks
      PROVE  Gate!Verdict
  BY <1>1, <1>2 DEF Gate!Verdict
<1>3. CASE UNCHANGED contentVars
  BY <1>2, <1>3 DEF contentVars, CommittedLinks, Gate!GateNext
<1>4. ASSUME NEW c \in Content, NEW media \in SUBSET Uploads, NEW sounds \in SUBSET Sounds,
             DraftContent(c, media, sounds)
      PROVE  Gate!Verdict
  <2>1. publishStatus' = publishStatus /\ CommittedLinks' = CommittedLinks
    BY <1>4 DEF DraftContent, CommittedLinks, TypeOK
  <2> QED
    BY <1>2, <2>1
<1>5. ASSUME NEW c \in Content, RollbackContent(c) PROVE Gate!Verdict
  <2>1. publishStatus' = publishStatus /\ CommittedLinks' = CommittedLinks
    BY <1>5 DEF RollbackContent, IsOpen, CommittedLinks, TypeOK
  <2> QED
    BY <1>2, <2>1
<1>6. CASE Crash
  <2>1. publishStatus' = publishStatus /\ CommittedLinks' = CommittedLinks
    BY <1>6 DEF Crash, CommittedLinks, TypeOK
  <2> QED
    BY <1>2, <2>1 DEF Gate!GateNext
<1>7. ASSUME NEW p \in Thread, Settle(p)
      PROVE  \E c \in Content : Gate!Publish(c) \/ Gate!TakeDown(c)
  <2> DEFINE c == th[p].c
  <2>1. /\ c \in Content /\ publishStatus[c] # "none"
        /\ publishStatus' = [publishStatus EXCEPT ![c] = th[p].out]
        /\ linked' = linked /\ everCleared' = everCleared /\ everBlocked' = everBlocked
        /\ \/ th[p].out = "published" /\ linked[c] \subseteq everCleared
           \/ th[p].out = "failed" /\ linked[c] \cap everBlocked # {}
    BY <1>7 DEF Settle, OutcomeJustified, dbVars
  <2>2. CommittedLinks' = CommittedLinks /\ CommittedLinks[c] = linked[c]
    BY <2>1 DEF CommittedLinks, TypeOK
  <2> QED
    BY <2>1, <2>2 DEF Gate!Publish, Gate!TakeDown
<1>8. ASSUME NEW c \in Content, CommitContent(c) PROVE Gate!Create(c)
  <2> DEFINE s == ResolveInitialPublishStatus({draft[c][m] : m \in linked[c]})
  <2>1. IsOpen(c) /\ publishStatus[c] = "none" /\ linked' = linked
          /\ publishStatus' = [publishStatus EXCEPT ![c] = s]
    BY <1>8 DEF CommitContent, IsOpen
  <2>2. s \in {"pending", "published"}
    BY DEF ResolveInitialPublishStatus
  <2> HIDE DEF s
  <2>3. publishStatus'[c] = s
    BY <2>1 DEF TypeOK
  <2>4. CommittedLinks' = [CommittedLinks EXCEPT ![c] = linked[c]]
          /\ linked[c] \in SUBSET Media
    BY <2>1, <2>2 DEF CommittedLinks, TypeOK
  <2>5. s = "published" => linked[c] \subseteq everCleared'
    BY <1>8, <2>3, CommitJustified
  <2>6. everBlocked' = everBlocked
    <3>1. \A m \in Sounds : ~IsBlocked(SoundRow(m))
      BY DEF IsBlocked, IsModerationRejected, IsModerationFailed, SoundRow, NoRow
    <3>2. \A m \in linked[c] : row'[m] = row[m] \/ row'[m] = draft[c][m]
      BY <1>8 DEF CommitContent, TypeOK
    <3>3. \A m \in linked[c] : IsBlocked(draft[c][m]) => m \in everBlocked
      BY <2>1, <3>1 DEF DraftJustified, Known, Remembered
    <3>4. \A m \in linked[c] : IsBlocked(row'[m]) => m \in everBlocked
      BY <2>4, <3>2, <3>3 DEF HistoryComplete, Remembered
    <3> QED
      BY <1>8, <3>4 DEF CommitContent, Remember
  <2> QED
    BY <1>1, <2>1, <2>2, <2>4, <2>5, <2>6 DEF Gate!Create
<1> QED
  BY <1>3, <1>4, <1>5, <1>6, <1>7, <1>8, ContentSteps DEF ContentStep, Gate!GateNext

\* Whatever the workers, requests, sweeps and crashes do, the content tables
\* follow the publish gate.
THEOREM Implements == Spec => ImplementsGate
<1>1. PipelineInv /\ [Next]_vars => [Gate!GateNext]_Gate!gateVars
  BY GateStep
<1> QED
  BY <1>1, GateInitial, PipelineInvariant, PTL DEF Spec, ImplementsGate, Gate!GateSpec
=============================================================================
