------------------------- MODULE MediaPipelineSteps -------------------------
(***************************************************************************)
(* What one step of MediaPipeline can do, for every value of its           *)
(* constants: it keeps the types, and it changes the rows, the content and *)
(* the threads only in the few ways that MediaPipelineProofs argues from.  *)
(* Each of the three big lemmas has one step per action.                   *)
(***************************************************************************)
EXTENDS MediaPipeline, TLAPS

-----------------------------------------------------------------------------
(* Facts about the constants and the small data types                      *)

\* The threads, queues and media that the actions name.
LEMMA Threads ==
  /\ Uploader \subseteq Thread /\ Worker \subseteq Thread
  /\ "moderator" \in Worker /\ "transcoder" \in Worker /\ "reconciler" \in Thread
  /\ "moderator" \in Thread /\ "transcoder" \in Thread
  /\ "moderate" \in Queue /\ "transcode" \in Queue
  /\ Uploads \subseteq Media /\ Sounds \subseteq Media
  BY DEF Thread, Worker, Queue, Media

\* Every label is of a handler or between two items of a sweep.
LEMMA Labels ==
  /\ {"markUploaded", "route", "enqueueModeration", "find", "evaluate", "settle",
      "markProcessing", "enqueueTranscode", "moderate", "encode", "ready", "recover",
      "keepOriginal", "completeJob", "failJob"} = Label \ Between
  /\ {"idle", "requeueModeration", "requeueTranscode", "reevaluate"} = Label \cap Between
  BY DEF Label, Between

\* Writing a column of a row gives a row.
LEMMA RowType ==
  ASSUME NEW r \in Row
  PROVE  /\ \A s \in MediaStatus : [r EXCEPT !.status = s] \in Row
         /\ \A d \in ModerationStatus : [r EXCEPT !.moderation = d] \in Row
         /\ \A b \in BOOLEAN : [r EXCEPT !.stale = b] \in Row
         /\ \A b \in BOOLEAN : [r EXCEPT !.transcoded = b] \in Row
         /\ \A s \in MediaStatus, d \in ModerationStatus :
              [r EXCEPT !.status = s, !.moderation = d] \in Row
  BY DEF Row

\* The rows that are inserted are rows.
LEMMA NewRowType == NoRow \in Row /\ \A m \in Media : SoundRow(m) \in Row
<1>1. NoRow \in Row
  BY DEF NoRow, Row, MediaStatus, ModerationStatus
<1> QED
  BY <1>1, RowType DEF SoundRow, MediaStatus

\* What a transaction that is not open knows are rows.
LEMMA NoDraftType == NoDraft \in [Media -> Row]
  BY NewRowType DEF NoDraft

\* The local states that a thread starts an item or ends a handler with.
LEMMA IdleType ==
  /\ Idle \in ThreadState /\ Idle.pc = "idle"
  /\ \A label \in Label, work \in SUBSET Media :
       SweepAt(label, work) \in ThreadState /\ SweepAt(label, work).pc = label
<1>1. Idle \in ThreadState /\ Idle.pc = "idle"
  BY DEF Idle, ThreadState, Label, Continuation, Outcome
<1>2. ASSUME NEW label \in Label, NEW work \in SUBSET Media
      PROVE  SweepAt(label, work) \in ThreadState /\ SweepAt(label, work).pc = label
  BY <1>1, <1>2 DEF SweepAt, ThreadState
<1> QED
  BY <1>1, <1>2

\* The fields of a local state.
LEMMA ThreadFields ==
  ASSUME NEW t \in ThreadState
  PROVE  /\ t.pc \in Label /\ t.then \in Continuation /\ t.m \in Media \cup {NoMedia}
         /\ t.todo \subseteq Content /\ t.work \subseteq Media
         /\ t.c \in Content \cup {NoContent} /\ t.out \in Outcome
  BY DEF ThreadState

\* What the loop over the pending content leaves a thread with.
LEMMA NextContentType ==
  ASSUME th \in [Thread -> ThreadState], NEW p \in Thread, NEW todo \in SUBSET Content
  PROVE  LET t == NextContent(p, todo)
         IN  /\ t \in ThreadState /\ t.m = th[p].m /\ t.then = th[p].then
             /\ t.work = th[p].work /\ t.todo = todo
             /\ t.pc \in {th[p].then, "evaluate"}
<1>1. th[p] \in ThreadState
  OBVIOUS
<1>2. (IF todo = {} THEN th[p].then ELSE "evaluate") \in Label
  BY <1>1 DEF ThreadState, Continuation, Label
<1>3. "pending" \in Outcome
  BY DEF Outcome
<1> QED
  BY <1>1, <1>2, <1>3 DEF NextContent, ThreadState

-----------------------------------------------------------------------------
(* Types                                                                   *)

DataTyped ==
  /\ row \in [Media -> Row]
  /\ everCleared \subseteq Media
  /\ everBlocked \subseteq Media

ThreadsTyped == th \in [Thread -> ThreadState] /\ AtWork

\* The update of a row keeps the table typed, and what is remembered of it.
LEMMA UpdateMediaType ==
  ASSUME DataTyped, NEW m \in Media, NEW new \in Row, UpdateMedia(m, new)
  PROVE  DataTyped'
  BY RowType DEF UpdateMedia, Remember, DataTyped

\* The jobs the queue stores.
LEMMA JobType ==
  /\ NoJob \in Job /\ \A n \in Nat : [state |-> "waiting", stalls |-> n] \in Job
  /\ \A j \in Job, s \in JobState : [j EXCEPT !.state = s] \in Job /\ j.stalls + 1 \in Nat
  BY DEF NoJob, Job, JobState

\* Storing a job keeps the queues typed.
LEMMA SetJobType ==
  ASSUME job \in [Queue -> [Media -> Job]], NEW q \in Queue, NEW m \in Media,
         NEW new \in Job, SetJob(q, m, new)
  PROVE  job' \in [Queue -> [Media -> Job]]
  BY DEF SetJob

\* An enqueue keeps the queues typed.
LEMMA EnqueueType ==
  ASSUME job \in [Queue -> [Media -> Job]], NEW q \in Queue, NEW m \in Media, Enqueue(q, m)
  PROVE  job' \in [Queue -> [Media -> Job]]
  BY JobType, SetJobType DEF Enqueue

\* A thread that moves to a local state keeps the threads typed and at work.
LEMMA MoveType ==
  ASSUME ThreadsTyped, NEW p \in Thread,
         NEW t \in ThreadState, t.pc \notin Between => t.m \in Media, Move(p, t)
  PROVE  ThreadsTyped'
  BY DEF Move, AtWork, ThreadsTyped

\* The same when only the label changes.
LEMMA GotoType ==
  ASSUME ThreadsTyped, NEW p \in Thread,
         NEW label \in Label, label \notin Between => th[p].m \in Media, Goto(p, label)
  PROVE  ThreadsTyped'
<1> DEFINE t == [th[p] EXCEPT !.pc = label]
<1>1. t \in ThreadState /\ t.pc = label /\ t.m = th[p].m
  BY DEF ThreadState, ThreadsTyped
<1> QED
  BY <1>1, MoveType DEF Goto

\* The same for a call of onMediaTerminalUpdate.
LEMMA CallType ==
  ASSUME ThreadsTyped, NEW p \in Thread,
         NEW label \in Continuation, th[p].m \in Media, CallTerminalUpdate(p, label)
  PROVE  ThreadsTyped'
<1> DEFINE t == [th[p] EXCEPT !.pc = "find", !.then = label]
<1>a. th[p] \in ThreadState /\ "find" \in Label
  BY Labels DEF ThreadsTyped
<1>1. t \in ThreadState /\ t.m = th[p].m
  BY <1>a DEF ThreadState
<1> QED
  BY <1>1, MoveType DEF CallTerminalUpdate

\* The same for the reconciler between two sweeps.
LEMMA SweepType ==
  ASSUME ThreadsTyped, NEW from, NEW to \in Label \cap Between,
         NEW found \in SUBSET Media, Sweep(from, to, found)
  PROVE  ThreadsTyped'
<1> DEFINE t == [th["reconciler"] EXCEPT !.pc = to, !.work = found]
<1>1. t \in ThreadState /\ t.pc = to
  BY Threads DEF ThreadState, ThreadsTyped
<1> QED
  BY <1>1, Threads, MoveType DEF Sweep

\* Every step keeps the state well typed, and every busy thread at a media.
LEMMA TypeStep ==
  ASSUME TypeOK, AtWork, [Next]_vars
  PROVE  TypeOK' /\ AtWork'
<1>0. DataTyped /\ ThreadsTyped
  BY DEF TypeOK, DataTyped, ThreadsTyped
<1> USE Threads DEF dbVars, contentVars, envVars
<1>1. ASSUME NEW m \in Uploads, CreateUpload(m) PROVE TypeOK' /\ AtWork'
  <2>1. [NoRow EXCEPT !.status = "uploading"] \in Row
    BY NewRowType, RowType DEF MediaStatus
  <2>2. DataTyped'
    BY <1>1, <1>0, <2>1, UpdateMediaType DEF CreateUpload
  <2>3. AtWork'
    BY <1>1 DEF CreateUpload, AtWork
  <2> QED
    BY <1>1, <1>0, <2>1, <2>2, <2>3 DEF CreateUpload, TypeOK, DataTyped, ThreadsTyped
<1>2. ASSUME NEW p \in Uploader, NEW m \in Uploads, CompleteUpload(p, m)
      PROVE  TypeOK' /\ AtWork'
  <2> DEFINE t == [th[p] EXCEPT !.pc = "markUploaded", !.m = m]
  <2>1. th[p] \in ThreadState /\ "markUploaded" \in Label /\ m \in Media
    BY <1>0, Labels DEF ThreadsTyped, Media
  <2>2. t \in ThreadState /\ t.m = m
    BY <2>1 DEF ThreadState
  <2>3. ThreadsTyped'
    BY <1>2, <1>0, <2>2, MoveType DEF CompleteUpload
  <2> QED
    BY <1>2, <1>0, <2>2, <2>3 DEF CompleteUpload, TypeOK, DataTyped, ThreadsTyped
<1>3. ASSUME NEW p \in Uploader, MarkUploaded(p) PROVE TypeOK' /\ AtWork'
  <2>1. th[p].m \in Media
    BY <1>3, <1>0, Labels DEF MarkUploaded, AtWork
  <2>2. [row[th[p].m] EXCEPT !.status = "uploaded"] \in Row
    BY <1>0, <2>1, RowType DEF DataTyped, MediaStatus
  <2>3. DataTyped'
    BY <1>3, <1>0, <2>1, <2>2, UpdateMediaType DEF MarkUploaded
  <2>4. ThreadsTyped'
    BY <1>3, <1>0, <2>1, Labels, GotoType DEF MarkUploaded
  <2> QED
    BY <1>3, <1>0, <2>1, <2>2, <2>3, <2>4 DEF MarkUploaded, TypeOK, DataTyped,
       ThreadsTyped
<1>4. ASSUME NEW p \in Uploader, RouteToModeration(p) PROVE TypeOK' /\ AtWork'
  <2>1. th[p].m \in Media
    BY <1>4, <1>0, Labels DEF RouteToModeration, AtWork
  <2>2. [row[th[p].m] EXCEPT !.status = "moderating", !.moderation = "pending"] \in Row
    BY <1>0, <2>1, RowType DEF DataTyped, MediaStatus, ModerationStatus
  <2>3. DataTyped'
    BY <1>4, <1>0, <2>1, <2>2, UpdateMediaType DEF RouteToModeration
  <2>4. ThreadsTyped'
    BY <1>4, <1>0, <2>1, Labels, GotoType DEF RouteToModeration
  <2> QED
    BY <1>4, <1>0, <2>1, <2>2, <2>3, <2>4 DEF RouteToModeration, TypeOK, DataTyped,
       ThreadsTyped
<1>5. ASSUME NEW p \in Uploader, RouteSkipped(p) PROVE TypeOK' /\ AtWork'
  <2>1. th[p].m \in Media
    BY <1>5, <1>0, Labels DEF RouteSkipped, AtWork
  <2>2. [row[th[p].m] EXCEPT !.moderation = "skipped"] \in Row
    BY <1>0, <2>1, RowType DEF DataTyped, ModerationStatus
  <2>3. DataTyped'
    BY <1>5, <1>0, <2>1, <2>2, UpdateMediaType DEF RouteSkipped
  <2>4. ThreadsTyped'
    BY <1>5, <1>0, <2>1, Labels, CallType DEF RouteSkipped, Continuation
  <2> QED
    BY <1>5, <1>0, <2>1, <2>2, <2>3, <2>4 DEF RouteSkipped, TypeOK, DataTyped,
       ThreadsTyped
<1>6. ASSUME NEW p \in Uploader, EnqueueModeration(p) PROVE TypeOK' /\ AtWork'
  <2>1. th[p].m \in Media
    BY <1>6, <1>0, Labels DEF EnqueueModeration, AtWork
  <2>2. job' \in [Queue -> [Media -> Job]]
    BY <1>6, <2>1, EnqueueType DEF EnqueueModeration, TypeOK
  <2>3. ThreadsTyped'
    BY <1>6, <1>0, IdleType, Labels, MoveType DEF EnqueueModeration
  <2> QED
    BY <1>6, <1>0, <2>1, <2>2, <2>3 DEF EnqueueModeration, TypeOK, DataTyped,
       ThreadsTyped
<1>7. ASSUME NEW p \in Thread, MarkProcessing(p) PROVE TypeOK' /\ AtWork'
  <2>1. th[p].m \in Media
    BY <1>7, <1>0, Labels DEF MarkProcessing, AtWork
  <2>2. [row[th[p].m] EXCEPT !.status = "processing"] \in Row
    BY <1>0, <2>1, RowType DEF DataTyped, MediaStatus
  <2>3. DataTyped'
    BY <1>7, <1>0, <2>1, <2>2, UpdateMediaType DEF MarkProcessing
  <2>4. ThreadsTyped'
    BY <1>7, <1>0, <2>1, Labels, GotoType DEF MarkProcessing
  <2> QED
    BY <1>7, <1>0, <2>1, <2>2, <2>3, <2>4 DEF MarkProcessing, TypeOK, DataTyped,
       ThreadsTyped
<1>8. ASSUME NEW p \in Thread, EnqueueTranscode(p) PROVE TypeOK' /\ AtWork'
  <2>1. th[p].m \in Media
    BY <1>8, <1>0, Labels DEF EnqueueTranscode, AtWork
  <2>2. job' \in [Queue -> [Media -> Job]]
    BY <1>8, <2>1, EnqueueType DEF EnqueueTranscode, TypeOK
  <2>3. th[p] \in ThreadState
    BY <1>0 DEF ThreadsTyped
  <2>4. [th[p] EXCEPT !.pc = "completeJob"] \in ThreadState
          /\ [th[p] EXCEPT !.pc = "completeJob"].m = th[p].m
    BY <2>3, Labels DEF ThreadState
  <2>5. SweepAt("requeueTranscode", th[p].work) \in ThreadState
          /\ SweepAt("requeueTranscode", th[p].work).pc = "requeueTranscode"
    BY <2>3, Labels, IdleType, ThreadFields
  <2>6. AfterEnqueueTranscode(p) \in ThreadState
          /\ (AfterEnqueueTranscode(p).pc \notin Between
          => AfterEnqueueTranscode(p).m \in Media)
    BY <2>1, <2>4, <2>5, IdleType, Labels DEF AfterEnqueueTranscode
  <2>7. ThreadsTyped'
    BY <1>8, <1>0, <2>6, MoveType DEF EnqueueTranscode
  <2> QED
    BY <1>8, <1>0, <2>1, <2>2, <2>3, <2>4, <2>5, <2>6, <2>7 DEF EnqueueTranscode,
       TypeOK, DataTyped, ThreadsTyped
<1>9. ASSUME NEW p \in Thread, FindPending(p) PROVE TypeOK' /\ AtWork'
  <2>1. th[p].m \in Media
    BY <1>9, <1>0, Labels DEF FindPending, AtWork
  <2> DEFINE found == {c \in Content : publishStatus[c] = "pending"
        /\ th[p].m \in linked[c]}
  <2>3. NextContent(p, found) \in ThreadState /\ NextContent(p, found).m = th[p].m
    BY <1>0, NextContentType DEF ThreadsTyped
  <2>4. ThreadsTyped'
    BY <1>9, <1>0, <2>1, <2>3, MoveType DEF FindPending
  <2> QED
    BY <1>9, <1>0, <2>1, <2>3, <2>4 DEF FindPending, TypeOK, DataTyped, ThreadsTyped
<1>10. ASSUME NEW p \in Thread, Evaluate(p) PROVE TypeOK' /\ AtWork'
  <2>1. th[p].m \in Media
    BY <1>10, <1>0, Labels DEF Evaluate, AtWork
  <2> DEFINE outcome(c) == ResolveOutcome({row[m] : m \in linked[c]})
  <2> DEFINE rest(c) == th[p].todo \ {c}
  <2>4. th[p] \in ThreadState /\ \A c \in th[p].todo : rest(c) \in SUBSET Content
          /\ c \in Content
    BY <1>0, ThreadFields DEF ThreadsTyped
  <2>5. \A c \in th[p].todo : outcome(c) \in Outcome
    BY DEF ResolveOutcome, Outcome
  <2> DEFINE t(c) == IF publishStatus[c] # "pending" \/ outcome(c) = "pending"
        THEN NextContent(p, rest(c))
        ELSE [th[p] EXCEPT !.pc = "settle", !.todo = rest(c), !.c = c, !.out = outcome(c)]
  <2>7. ASSUME NEW c \in th[p].todo PROVE t(c) \in ThreadState /\ t(c).m = th[p].m
    <3> HIDE DEF outcome
    <3>1. NextContent(p, rest(c)) \in ThreadState /\ NextContent(p, rest(c)).m = th[p].m
      BY <1>0, <2>4, NextContentType DEF ThreadsTyped
    <3>2. [th[p] EXCEPT !.pc = "settle", !.todo = rest(c), !.c = c, !.out = outcome(c)] \in ThreadState
      BY <2>4, <2>5, Labels DEF ThreadState
    <3>3. [th[p] EXCEPT !.pc = "settle", !.todo = rest(c), !.c = c, !.out = outcome(c)].m = th[p].m
      BY <2>4 DEF ThreadState
    <3> QED
      BY <3>1, <3>2, <3>3
  <2>8. PICK c \in th[p].todo : Move(p, t(c))
    BY <1>10 DEF Evaluate
  <2>9. ThreadsTyped'
    BY <1>0, <2>1, <2>7, <2>8, MoveType
  <2> QED
    BY <1>10, <1>0, <2>1, <2>4, <2>5, <2>7, <2>8, <2>9 DEF Evaluate, TypeOK, DataTyped,
       ThreadsTyped
<1>11. ASSUME NEW p \in Thread, Settle(p) PROVE TypeOK' /\ AtWork'
  <2>1. th[p].m \in Media
    BY <1>11, <1>0, Labels DEF Settle, AtWork
  <2>2. th[p] \in ThreadState /\ th[p].todo \in SUBSET Content /\ th[p].out \in Outcome
    BY <1>0, ThreadFields DEF ThreadsTyped
  <2>3. ThreadsTyped'
    BY <1>11, <1>0, <2>1, <2>2, NextContentType, MoveType DEF Settle, ThreadsTyped
  <2>4. publishStatus' \in [Content -> Outcome \cup {"none"}]
    BY <1>11, <2>2 DEF Settle, TypeOK
  <2> QED
    BY <1>11, <1>0, <2>1, <2>2, <2>3, <2>4 DEF Settle, TypeOK, DataTyped, ThreadsTyped
<1>12. ASSUME NEW c \in Content, NEW media \in SUBSET Uploads, NEW sounds \in SUBSET
              Sounds, DraftContent(c, media, sounds)
       PROVE  TypeOK' /\ AtWork'
  <2>1. linked' \in [Content -> SUBSET Media]
    BY <1>12 DEF DraftContent, TypeOK
  <2> DEFINE rows == [m \in Media |-> IF m \in media THEN row[m]
                                     ELSE IF m \in sounds THEN SoundRow(m) ELSE NoRow]
  <2>2. rows \in [Media -> Row]
    BY NewRowType DEF TypeOK
  <2>3. draft' \in [Content -> [Media -> Row]]
    <3>1. draft' = [draft EXCEPT ![c] = rows]
      BY <1>12 DEF DraftContent
    <3> HIDE DEF rows
    <3> QED
      BY <2>2, <3>1 DEF TypeOK
  <2>4. AtWork'
    BY <1>12 DEF DraftContent, AtWork
  <2> QED
    BY <1>12, <1>0, <2>1, <2>2, <2>3, <2>4 DEF DraftContent, TypeOK, DataTyped,
       ThreadsTyped
<1>13. ASSUME NEW c \in Content, CommitContent(c) PROVE TypeOK' /\ AtWork'
  <2>1. row' \in [Media -> Row]
    BY <1>13 DEF CommitContent, TypeOK
  <2>2. everCleared' \subseteq Media /\ everBlocked' \subseteq Media
    BY <1>13 DEF CommitContent, TypeOK, Remember
  <2>3. \A rows : ResolveInitialPublishStatus(rows) \in Outcome
    BY DEF ResolveInitialPublishStatus, Outcome
  <2>5. publishStatus' \in [Content -> Outcome \cup {"none"}]
    BY <1>13, <2>3 DEF CommitContent, TypeOK
  <2>6. draft' \in [Content -> [Media -> Row]]
    BY <1>13, NoDraftType DEF CommitContent, TypeOK
  <2>4. AtWork'
    BY <1>13 DEF CommitContent, AtWork
  <2> QED
    BY <1>13, <1>0, <2>1, <2>2, <2>4, <2>5, <2>6 DEF CommitContent, TypeOK, DataTyped,
       ThreadsTyped
<1>14. ASSUME NEW c \in Content, RollbackContent(c) PROVE TypeOK' /\ AtWork'
  <2>1. linked' \in [Content -> SUBSET Media]
          /\ draft' \in [Content -> [Media -> Row]]
    BY <1>14, NoDraftType DEF RollbackContent, TypeOK
  <2>2. AtWork'
    BY <1>14 DEF RollbackContent, AtWork
  <2> QED
    BY <1>14, <1>0, <2>1, <2>2 DEF RollbackContent, TypeOK, DataTyped, ThreadsTyped
<1>15. ASSUME NEW m \in Media, TakeModeration(m) PROVE TypeOK' /\ AtWork'
  <2>1. job["moderate"][m] \in Job
    BY DEF TypeOK
  <2> DEFINE t == [th["moderator"] EXCEPT !.pc = "moderate", !.m = m]
  <2>3. th["moderator"] \in ThreadState
    BY <1>0 DEF ThreadsTyped
  <2>4. t \in ThreadState /\ t.m = m
    BY <2>3, Labels DEF ThreadState
  <2>5. ThreadsTyped'
    BY <1>15, <1>0, <2>4, MoveType DEF TakeModeration
  <2>6. job' \in [Queue -> [Media -> Job]]
    BY <1>15, <2>1, JobType, SetJobType DEF TakeModeration, TypeOK, JobState
  <2> QED
    BY <1>15, <1>0, <2>1, <2>3, <2>4, <2>5, <2>6 DEF TakeModeration, TypeOK, DataTyped,
       ThreadsTyped
<1>16. ASSUME ModerationSkipped PROVE TypeOK' /\ AtWork'
  <2>1. th["moderator"].m \in Media
    BY <1>16, <1>0, Labels DEF ModerationSkipped, ModerationVerdict, AtWork
  <2>2. row[th["moderator"].m] \in Row /\ row[th["moderator"].m].status \in MediaStatus
    BY <1>0, <2>1 DEF DataTyped, Row
  <2>3. [row[th["moderator"].m] EXCEPT !.status = row[th["moderator"].m].status, !.moderation = "skipped"] \in Row
    BY <2>2, RowType DEF MediaStatus, ModerationStatus
  <2>4. DataTyped'
    BY <1>16, <1>0, <2>1, <2>3, UpdateMediaType DEF ModerationSkipped, ModerationVerdict
  <2>5. ThreadsTyped'
    BY <1>16, <1>0, <2>1, Labels, CallType DEF ModerationSkipped, Continuation,
       ModerationVerdict
  <2> QED
    BY <1>16, <1>0, <2>1, <2>2, <2>3, <2>4, <2>5 DEF ModerationSkipped, TypeOK,
       DataTyped, ThreadsTyped, ModerationVerdict
<1>17. ASSUME ModerationPassed PROVE TypeOK' /\ AtWork'
  <2>1. th["moderator"].m \in Media
    BY <1>17, <1>0, Labels DEF ModerationPassed, ModerationVerdict, AtWork
  <2>2. row[th["moderator"].m] \in Row /\ row[th["moderator"].m].status \in MediaStatus
    BY <1>0, <2>1 DEF DataTyped, Row
  <2>3. [row[th["moderator"].m] EXCEPT !.status = row[th["moderator"].m].status, !.moderation = "passed"] \in Row
    BY <2>2, RowType DEF MediaStatus, ModerationStatus
  <2>4. DataTyped'
    BY <1>17, <1>0, <2>1, <2>3, UpdateMediaType DEF ModerationPassed, ModerationVerdict
  <2>5. ThreadsTyped'
    BY <1>17, <1>0, <2>1, Labels, CallType DEF ModerationPassed, Continuation,
       ModerationVerdict
  <2> QED
    BY <1>17, <1>0, <2>1, <2>2, <2>3, <2>4, <2>5 DEF ModerationPassed, TypeOK,
       DataTyped, ThreadsTyped, ModerationVerdict
<1>18. ASSUME ModerationRejected PROVE TypeOK' /\ AtWork'
  <2>1. th["moderator"].m \in Media
    BY <1>18, <1>0, Labels DEF ModerationRejected, ModerationVerdict, AtWork
  <2>2. row[th["moderator"].m] \in Row /\ row[th["moderator"].m].status \in MediaStatus
    BY <1>0, <2>1 DEF DataTyped, Row
  <2>3. [row[th["moderator"].m] EXCEPT !.status = "rejected", !.moderation = "rejected"] \in Row
    BY <2>2, RowType DEF MediaStatus, ModerationStatus
  <2>4. DataTyped'
    BY <1>18, <1>0, <2>1, <2>3, UpdateMediaType DEF ModerationRejected,
       ModerationVerdict
  <2>5. ThreadsTyped'
    BY <1>18, <1>0, <2>1, Labels, CallType DEF ModerationRejected, Continuation,
       ModerationVerdict
  <2> QED
    BY <1>18, <1>0, <2>1, <2>2, <2>3, <2>4, <2>5 DEF ModerationRejected, TypeOK,
       DataTyped, ThreadsTyped, ModerationVerdict
<1>19. ASSUME ModerationFailed PROVE TypeOK' /\ AtWork'
  <2>1. th["moderator"].m \in Media
    BY <1>19, <1>0, Labels DEF ModerationFailed, ModerationVerdict, AtWork
  <2>2. row[th["moderator"].m] \in Row /\ row[th["moderator"].m].status \in MediaStatus
    BY <1>0, <2>1 DEF DataTyped, Row
  <2>3. [row[th["moderator"].m] EXCEPT !.status = "failed", !.moderation = "pending"] \in Row
    BY <2>2, RowType DEF MediaStatus, ModerationStatus
  <2>4. DataTyped'
    BY <1>19, <1>0, <2>1, <2>3, UpdateMediaType DEF ModerationFailed, ModerationVerdict
  <2>5. ThreadsTyped'
    BY <1>19, <1>0, <2>1, Labels, CallType DEF ModerationFailed, Continuation,
       ModerationVerdict
  <2> QED
    BY <1>19, <1>0, <2>1, <2>2, <2>3, <2>4, <2>5 DEF ModerationFailed, TypeOK,
       DataTyped, ThreadsTyped, ModerationVerdict
<1>20. ASSUME NEW p \in Worker, FinishJob(p) PROVE TypeOK' /\ AtWork'
  <2>1. th[p].m \in Media
    BY <1>20, <1>0, Labels DEF FinishJob, AtWork
  <2>2. QueueOf(p) \in Queue
    BY DEF QueueOf, Queue
  <2>3. job[QueueOf(p)][th[p].m] \in Job
    BY <2>1, <2>2 DEF TypeOK
  <2>4. job' \in [Queue -> [Media -> Job]]
    BY <1>20, <2>1, <2>2, <2>3, JobType, SetJobType DEF FinishJob, TypeOK, JobState
  <2>5. ThreadsTyped'
    BY <1>20, <1>0, IdleType, Labels, MoveType DEF FinishJob
  <2> QED
    BY <1>20, <1>0, <2>1, <2>2, <2>3, <2>4, <2>5 DEF FinishJob, TypeOK, DataTyped,
       ThreadsTyped
<1>21. ASSUME NEW m \in Media, TakeTranscode(m) PROVE TypeOK' /\ AtWork'
  <2>1. job["transcode"][m] \in Job
    BY DEF TypeOK
  <2> DEFINE label == IF IsTranscodeComplete(m) THEN AfterComplete(m) ELSE "encode"
  <2>3. label \in Label
    BY Labels DEF AfterComplete
  <2>4. [th["transcoder"] EXCEPT !.m = m, !.pc = label] \in ThreadState
          /\ [th["transcoder"] EXCEPT !.m = m, !.pc = label].m = m
    BY <1>0, <2>3 DEF ThreadsTyped, ThreadState
  <2>5. ThreadsTyped'
    BY <1>21, <1>0, <2>4, MoveType DEF TakeTranscode
  <2>6. job' \in [Queue -> [Media -> Job]]
    BY <1>21, <2>1, JobType, SetJobType DEF TakeTranscode, TypeOK, JobState
  <2> QED
    BY <1>21, <1>0, <2>1, <2>3, <2>4, <2>5, <2>6 DEF TakeTranscode, TypeOK, DataTyped,
       ThreadsTyped
<1>22. ASSUME Encode PROVE TypeOK' /\ AtWork'
  <2>1. th["transcoder"].m \in Media
    BY <1>22, <1>0, Labels DEF Encode, AtWork
  <2>2. [row[th["transcoder"].m] EXCEPT !.transcoded = th["transcoder"].m \notin Passthrough] \in Row
    BY <1>0, <2>1, RowType DEF DataTyped, MediaStatus
  <2>3. DataTyped'
    BY <1>22, <1>0, <2>1, <2>2, UpdateMediaType DEF Encode
  <2>4. ThreadsTyped'
    BY <1>22, <1>0, <2>1, Labels, GotoType DEF Encode
  <2> QED
    BY <1>22, <1>0, <2>1, <2>2, <2>3, <2>4 DEF Encode, TypeOK, DataTyped, ThreadsTyped
<1>23. ASSUME MarkReady PROVE TypeOK' /\ AtWork'
  <2>1. th["transcoder"].m \in Media
    BY <1>23, <1>0, Labels DEF MarkReady, AtWork
  <2>2. [row[th["transcoder"].m] EXCEPT !.status = "ready"] \in Row
    BY <1>0, <2>1, RowType DEF DataTyped, MediaStatus
  <2>3. DataTyped'
    BY <1>23, <1>0, <2>1, <2>2, UpdateMediaType DEF MarkReady
  <2>4. ThreadsTyped'
    BY <1>23, <1>0, <2>1, Labels, GotoType DEF MarkReady
  <2> QED
    BY <1>23, <1>0, <2>1, <2>2, <2>3, <2>4 DEF MarkReady, TypeOK, DataTyped,
       ThreadsTyped
<1>24. ASSUME KeepOriginal PROVE TypeOK' /\ AtWork'
  <2>1. th["transcoder"].m \in Media
    BY <1>24, <1>0, Labels DEF KeepOriginal, AtWork
  <2>2. [row[th["transcoder"].m] EXCEPT !.status = "processing"] \in Row
    BY <1>0, <2>1, RowType DEF DataTyped, MediaStatus
  <2>3. DataTyped'
    BY <1>24, <1>0, <2>1, <2>2, UpdateMediaType DEF KeepOriginal
  <2>4. ThreadsTyped'
    BY <1>24, <1>0, <2>1, Labels, GotoType DEF KeepOriginal
  <2> QED
    BY <1>24, <1>0, <2>1, <2>2, <2>3, <2>4 DEF KeepOriginal, TypeOK, DataTyped,
       ThreadsTyped
<1>25. ASSUME SweepModeration PROVE TypeOK' /\ AtWork'
  <2>1. StuckModeration \subseteq Media
    BY DEF StuckModeration
  <2>2. ThreadsTyped'
    BY <1>25, <1>0, <2>1, Labels, SweepType DEF SweepModeration
  <2> QED
    BY <1>25, <1>0, <2>1, <2>2 DEF SweepModeration, TypeOK, DataTyped, ThreadsTyped,
       Sweep
<1>26. ASSUME SweepTranscode PROVE TypeOK' /\ AtWork'
  <2>1. StuckTranscode \subseteq Media
    BY DEF StuckTranscode
  <2>2. ThreadsTyped'
    BY <1>26, <1>0, <2>1, Labels, SweepType DEF SweepTranscode
  <2> QED
    BY <1>26, <1>0, <2>1, <2>2 DEF SweepTranscode, TypeOK, DataTyped, ThreadsTyped,
       Sweep
<1>27. ASSUME SweepPublish PROVE TypeOK' /\ AtWork'
  <2>1. \A S \in Limited(ClearedWithPendingContent) : S \subseteq Media
    BY DEF Limited, ClearedWithPendingContent
  <2>2. ThreadsTyped'
    BY <1>27, <1>0, <2>1, Labels, SweepType DEF SweepPublish
  <2> QED
    BY <1>27, <1>0, <2>1, <2>2 DEF SweepPublish, TypeOK, DataTyped, ThreadsTyped, Sweep
<1>28. ASSUME SweepEnd PROVE TypeOK' /\ AtWork'
  <2>1. ThreadsTyped'
    BY <1>28, <1>0, Labels, SweepType DEF SweepEnd
  <2> QED
    BY <1>28, <1>0, <2>1 DEF SweepEnd, TypeOK, DataTyped, ThreadsTyped, Sweep
<1>29. ASSUME NEW m \in Media, RequeueModeration(m) PROVE TypeOK' /\ AtWork'
  <2>1. th["reconciler"] \in ThreadState /\ th["reconciler"].work \ {m} \in SUBSET Media
    BY <1>0, ThreadFields DEF ThreadsTyped
  <2>2. [th["reconciler"] EXCEPT !.work = @ \ {m}] \in ThreadState
          /\ [th["reconciler"] EXCEPT !.work = @ \ {m}].pc = th["reconciler"].pc
    BY <2>1 DEF ThreadState
  <2>3. ThreadsTyped'
    BY <1>29, <1>0, <2>2, Labels, MoveType DEF RequeueModeration
  <2>4. job' \in [Queue -> [Media -> Job]]
    BY <1>29, EnqueueType DEF RequeueModeration, TypeOK
  <2> QED
    BY <1>29, <1>0, <2>1, <2>2, <2>3, <2>4 DEF RequeueModeration, TypeOK, DataTyped,
       ThreadsTyped
<1>30. ASSUME NEW m \in Media, RequeueTranscode(m) PROVE TypeOK' /\ AtWork'
  <2>1. th["reconciler"] \in ThreadState /\ th["reconciler"].work \ {m} \in SUBSET Media
    BY <1>0, ThreadFields DEF ThreadsTyped
  <2> DEFINE t == [th["reconciler"] EXCEPT !.pc = "markProcessing", !.m = m, !.work = @ \ {m}]
  <2>3. t \in ThreadState /\ t.m = m
    BY <2>1, Labels DEF ThreadState, Continuation
  <2>4. ThreadsTyped'
    BY <1>30, <1>0, <2>3, MoveType DEF RequeueTranscode
  <2> QED
    BY <1>30, <1>0, <2>1, <2>3, <2>4 DEF RequeueTranscode, TypeOK, DataTyped,
       ThreadsTyped
<1>31. ASSUME NEW m \in Media, Reevaluate(m) PROVE TypeOK' /\ AtWork'
  <2>1. th["reconciler"] \in ThreadState /\ th["reconciler"].work \ {m} \in SUBSET Media
    BY <1>0, ThreadFields DEF ThreadsTyped
  <2> DEFINE t == [th["reconciler"] EXCEPT !.pc = "find", !.then = "reevaluate", !.m = m, !.work = @ \ {m}]
  <2>3. t \in ThreadState /\ t.m = m
    BY <2>1, Labels DEF ThreadState, Continuation
  <2>4. ThreadsTyped'
    BY <1>31, <1>0, <2>3, MoveType DEF Reevaluate
  <2> QED
    BY <1>31, <1>0, <2>1, <2>3, <2>4 DEF Reevaluate, TypeOK, DataTyped, ThreadsTyped
<1>32. ASSUME NEW p \in Worker, NEW m \in Media, StalledJob(p, m)
       PROVE  TypeOK' /\ AtWork'
  <2>1. QueueOf(p) \in Queue
    BY DEF QueueOf, Queue
  <2>2. job[QueueOf(p)][m] \in Job
    BY <2>1 DEF TypeOK
  <2>3. job' \in [Queue -> [Media -> Job]]
    BY <1>32, <2>1, <2>2, JobType, SetJobType DEF StalledJob, TypeOK, JobState
  <2>4. AtWork'
    BY <1>32 DEF StalledJob, AtWork
  <2> QED
    BY <1>32, <1>0, <2>1, <2>2, <2>3, <2>4 DEF StalledJob, TypeOK, DataTyped,
       ThreadsTyped
<1>33. ASSUME NEW m \in Media, Age(m) PROVE TypeOK' /\ AtWork'
  <2>1. row' \in [Media -> Row]
    BY <1>33, <1>0, RowType DEF Age, DataTyped
  <2>2. AtWork'
    BY <1>33 DEF Age, AtWork
  <2> QED
    BY <1>33, <1>0, <2>1, <2>2 DEF Age, TypeOK, DataTyped, ThreadsTyped
<1>34. ASSUME NEW p \in Uploader, UploaderThrows(p) PROVE TypeOK' /\ AtWork'
  <2>1. faults' \in 0 .. MaxFaults
    BY <1>34, MediaAssumption DEF UploaderThrows, Fault, TypeOK
  <2>2. ThreadsTyped'
    BY <1>34, <1>0, IdleType, Labels, MoveType DEF UploaderThrows
  <2> QED
    BY <1>34, <1>0, <2>1, <2>2 DEF UploaderThrows, TypeOK, DataTyped, ThreadsTyped,
       Fault
<1>35. ASSUME NEW p \in Worker, WorkerThrows(p) PROVE TypeOK' /\ AtWork'
  <2>1. faults' \in 0 .. MaxFaults
    BY <1>35, MediaAssumption DEF WorkerThrows, Fault, TypeOK
  <2>2. th[p].m \in Media
    BY <1>35, <1>0, Labels DEF WorkerThrows, AtWork
  <2>3. ThreadsTyped'
    BY <1>35, <1>0, <2>2, Labels, GotoType DEF WorkerThrows
  <2> QED
    BY <1>35, <1>0, <2>1, <2>2, <2>3 DEF WorkerThrows, TypeOK, DataTyped, ThreadsTyped,
       Fault
<1>36. ASSUME ReconcilerThrows PROVE TypeOK' /\ AtWork'
  <2>1. faults' \in 0 .. MaxFaults
    BY <1>36, MediaAssumption DEF ReconcilerThrows, Fault, TypeOK
  <2>2. th["reconciler"] \in ThreadState /\ th["reconciler"].pc \in Label
          /\ \A m : th["reconciler"].work \ {m} \in SUBSET Media
          /\ th["reconciler"].work \in SUBSET Media
    BY <1>0, ThreadFields DEF ThreadsTyped
  <2>3. \E t \in ThreadState : t.pc \in Between /\ Move("reconciler", t)
    <3> DEFINE r == th["reconciler"]
    <3>1. CASE Move("reconciler", SweepAt("requeueTranscode", r.work))
      BY <3>1, <2>2, IdleType, Labels
    <3>2. CASE Move("reconciler", SweepAt("reevaluate", r.work))
      BY <3>2, <2>2, IdleType, Labels
    <3>3. CASE r.pc = "requeueModeration"
            /\ \E m \in r.work : Move("reconciler", SweepAt(r.pc, r.work \ {m}))
      BY <3>3, <2>2, IdleType, Labels
    <3>4. CASE Move("reconciler", Idle)
      BY <3>4, IdleType, Labels
    <3> QED
      BY <1>36, <3>1, <3>2, <3>3, <3>4 DEF ReconcilerThrows
  <2>4. PICK t \in ThreadState : t.pc \in Between /\ Move("reconciler", t)
    BY <2>3
  <2>5. ThreadsTyped'
    BY <1>0, <2>4, MoveType
  <2> QED
    BY <1>36, <1>0, <2>1, <2>2, <2>3, <2>4, <2>5 DEF ReconcilerThrows, TypeOK,
       DataTyped, ThreadsTyped, Fault
<1>37. ASSUME TranscodeThrows PROVE TypeOK' /\ AtWork'
  <2>1. faults' \in 0 .. MaxFaults
    BY <1>37, MediaAssumption DEF TranscodeThrows, TypeOK
  <2>2. th["transcoder"].m \in Media
    BY <1>37, <1>0, Labels DEF TranscodeThrows, AtWork
  <2>3. AfterComplete(th["transcoder"].m) \in Label
    BY Labels DEF AfterComplete
  <2>4. ThreadsTyped'
    BY <1>37, <1>0, <2>2, <2>3, Labels, GotoType DEF TranscodeThrows
  <2> QED
    BY <1>37, <1>0, <2>1, <2>2, <2>3, <2>4 DEF TranscodeThrows, TypeOK, DataTyped,
       ThreadsTyped
<1>38. ASSUME Crash PROVE TypeOK' /\ AtWork'
  <2>1. faults' \in 0 .. MaxFaults
    BY <1>38, MediaAssumption DEF Crash, Fault, TypeOK
  <2>2. ThreadsTyped'
    BY <1>38, IdleType, Labels DEF Crash, ThreadsTyped, AtWork
  <2>3. linked' \in [Content -> SUBSET Media]
          /\ draft' \in [Content -> [Media -> Row]]
    BY <1>38, NoDraftType DEF Crash, TypeOK
  <2> QED
    BY <1>38, <1>0, <2>1, <2>2, <2>3 DEF Crash, TypeOK, DataTyped, ThreadsTyped, Fault
<1>39. CASE UNCHANGED vars
  BY <1>39 DEF vars, TypeOK, AtWork
<1> QED
  BY <1>1, <1>2, <1>3, <1>4, <1>5, <1>6, <1>7, <1>8, <1>9, <1>10, <1>11, <1>12, <1>13,
     <1>14, <1>15, <1>16, <1>17, <1>18, <1>19, <1>20, <1>21, <1>22, <1>23, <1>24, <1>25,
     <1>26, <1>27, <1>28, <1>29, <1>30, <1>31, <1>32, <1>33, <1>34, <1>35, <1>36, <1>37,
     <1>38, <1>39 DEF Next, UploaderStep, ModeratorStep, TranscoderStep, ReconcilerStep,
     AuthorStep, FaultStep, TerminalUpdate, TranscodeEnqueue
-----------------------------------------------------------------------------
(* What one step of any kind does to the rows, the content and the threads *)

\* An update never takes a row or its outputs away, and only what was cleared
\* or already was processing or ready becomes so.
LegalUpdate(m, new) ==
  /\ new \in Row /\ new.status # "none"
  /\ row[m].transcoded /\ m \notin Passthrough => new.transcoded
  /\ new.status \in {"processing", "ready"} => new.status = row[m].status \/ m \in everCleared
  /\ new.status = "ready" /\ m \in Uploads \ Passthrough
       => row[m].status = "ready" \/ new.transcoded \/ WrittenBack(m)

RowStep ==
  \/ UNCHANGED dbVars
  \/ \E m \in Media, new \in Row : LegalUpdate(m, new) /\ UpdateMedia(m, new)
  \/ \E c \in Content : CommitContent(c)
  \/ \E m \in Media : Age(m)

ContentStep ==
  \/ UNCHANGED contentVars
  \/ \E p \in Thread : Settle(p)
  \/ \E c \in Content, media \in SUBSET Uploads, sounds \in SUBSET Sounds :
       Attachable(c, media, sounds) /\ DraftContent(c, media, sounds)
  \/ \E c \in Content : CommitContent(c) \/ RollbackContent(c)
  \/ Crash

\* Thread q carries no content list and no outcome that it did not carry before.
QuietStep ==
  \A q \in Thread : /\ th'[q].todo \subseteq th[q].todo
                    /\ th'[q].pc = "settle" => th'[q] = th[q]

\* What threads and queues name after a step has a row, if they did not name it
\* before; the transcoder only reaches MarkReady with the outputs written.
CarryStep ==
  /\ \A q \in Thread :
       /\ th'[q].m = th[q].m \/ th'[q].m = NoMedia \/ Exists(th'[q].m)
       /\ \A m \in th'[q].work : m \in th[q].work \/ Exists(m)
  /\ \A q \in Queue, m \in Media :
       job'[q][m].state # "none" => job[q][m].state # "none" \/ Exists(m)
  /\ th'["transcoder"].pc \in {"ready", "recover"} =>
       \/ th'["transcoder"] = th["transcoder"]
       \/ th'["transcoder"].m \notin Uploads \ Passthrough
       \/ row'[th'["transcoder"].m].transcoded \/ WrittenBack(th'["transcoder"].m)

ThreadStep == CarryStep /\ (QuietStep \/ \E p \in Thread : FindPending(p) \/ Evaluate(p))

\* Threads have well-typed local states.
LEMMA ThreadIn == TypeOK => \A q \in Thread : th[q] \in ThreadState
  BY DEF TypeOK

\* An enqueue puts a job for its media on its queue, and nothing else.
LEMMA EnqueueEffect ==
  ASSUME job \in [Queue -> [Media -> Job]], NEW q \in Queue, NEW m \in Media, Enqueue(q, m)
  PROVE  \A r \in Queue :
           /\ r # q => job'[r] = job[r]
           /\ \A n \in Media :
                job'[r][n].state # "none" => job[r][n].state # "none" \/ n = m
  BY DEF Enqueue, SetJob

\* The publication steps leave a thread its media and its work.
LEMMA PublicationMove ==
  ASSUME TypeOK, NEW p \in Thread, FindPending(p) \/ Evaluate(p) \/ Settle(p)
  PROVE  /\ \A q \in Thread \ {p} : th'[q] = th[q]
         /\ th'[p].m = th[p].m /\ th'[p].then = th[p].then /\ th'[p].work = th[p].work
         /\ th'[p].pc \in {th[p].then, "evaluate", "settle"}
         /\ th[p].pc \in {"find", "evaluate", "settle"}
         /\ UNCHANGED <<dbVars, job, linked, draft, envVars>>
<1> DEFINE Moved == /\ \A q \in Thread \ {p} : th'[q] = th[q]
                    /\ th'[p].m = th[p].m /\ th'[p].then = th[p].then /\ th'[p].work = th[p].work
                    /\ th'[p].pc \in {th[p].then, "evaluate", "settle"}
<1>1. th[p] \in ThreadState /\ th[p].todo \subseteq Content
  BY ThreadIn, ThreadFields
<1>2. ASSUME NEW todo \in SUBSET Content, Move(p, NextContent(p, todo)) PROVE Moved
  BY <1>2, NextContentType DEF Move, TypeOK
<1>3. CASE FindPending(p)
  BY <1>2, <1>3 DEF FindPending, contentVars
<1>4. CASE Settle(p)
  BY <1>1, <1>2, <1>4 DEF Settle, contentVars
<1>5. CASE Evaluate(p)
  <2> DEFINE outcome(c) == ResolveOutcome({row[m] : m \in linked[c]})
             settling(c) == [th[p] EXCEPT !.pc = "settle", !.todo = th[p].todo \ {c},
                                          !.c = c, !.out = outcome(c)]
  <2>1. PICK c \in th[p].todo :
           Move(p, NextContent(p, th[p].todo \ {c})) \/ Move(p, settling(c))
    BY <1>5 DEF Evaluate
  <2>2. CASE Move(p, NextContent(p, th[p].todo \ {c}))
    BY <1>1, <1>2, <1>5, <2>2 DEF Evaluate, contentVars
  <2>3. CASE Move(p, settling(c))
    <3> HIDE DEF outcome
    <3>1. /\ settling(c).m = th[p].m /\ settling(c).then = th[p].then
          /\ settling(c).work = th[p].work /\ settling(c).pc = "settle"
      BY <1>1 DEF ThreadState
    <3>2. Moved
      BY <1>1, <2>3, <3>1 DEF Move, TypeOK
    <3> QED
      BY <1>5, <3>2 DEF Evaluate, contentVars
  <2> QED
    BY <2>1, <2>2, <2>3
<1> QED
  BY <1>3, <1>4, <1>5

\* A sweep of the reconciler that fails keeps what is left of its work.
LEMMA ReconcilerMove ==
  ASSUME TypeOK, ReconcilerThrows
  PROVE  \E t \in ThreadState :
           /\ Move("reconciler", t)
           /\ t.m = NoMedia /\ t.todo = {} /\ t.work \subseteq th["reconciler"].work
           /\ t.pc \in Between
           /\ t.pc = "requeueTranscode" =>
                th["reconciler"].pc \in {"markProcessing", "enqueueTranscode"}
<1> DEFINE r == th["reconciler"]
           Goal == \E t \in ThreadState :
                     /\ Move("reconciler", t)
                     /\ t.m = NoMedia /\ t.todo = {} /\ t.work \subseteq r.work
                     /\ t.pc \in Between
                     /\ t.pc = "requeueTranscode" => r.pc \in {"markProcessing", "enqueueTranscode"}
<1>1. r \in ThreadState /\ r.work \subseteq Media
  BY Threads, ThreadIn, ThreadFields
<1>2. \A label \in Label, work \in SUBSET Media :
        LET t == SweepAt(label, work)
        IN  t \in ThreadState /\ t.pc = label /\ t.m = NoMedia /\ t.todo = {} /\ t.work = work
  BY IdleType DEF SweepAt, Idle
<1>3. Idle \in ThreadState /\ Idle.pc = "idle" /\ Idle.m = NoMedia /\ Idle.todo = {}
        /\ Idle.work = {}
  BY IdleType DEF Idle
<1>4. CASE r.pc \in {"markProcessing", "enqueueTranscode"}
        /\ Move("reconciler", SweepAt("requeueTranscode", r.work))
  BY <1>1, <1>2, <1>4, Labels
<1>5. CASE Move("reconciler", SweepAt("reevaluate", r.work))
  BY <1>1, <1>2, <1>5, Labels
<1>6. CASE r.pc = "requeueModeration"
        /\ \E m \in r.work : Move("reconciler", SweepAt(r.pc, r.work \ {m}))
  <2>1. PICK m \in r.work : Move("reconciler", SweepAt("requeueModeration", r.work \ {m}))
    BY <1>6
  <2> QED
    BY <1>1, <1>2, <2>1, Labels
<1>7. CASE Move("reconciler", Idle)
  BY <1>3, <1>7, Labels
<1> QED
  BY <1>4, <1>5, <1>6, <1>7 DEF ReconcilerThrows

\* Columns of a row update, one by one.
LEMMA RowColumns ==
  ASSUME NEW r \in Row
  PROVE  /\ \A s \in MediaStatus : LET n == [r EXCEPT !.status = s] IN
              n \in Row /\ n.status = s /\ n.transcoded = r.transcoded
         /\ \A d \in ModerationStatus : LET n == [r EXCEPT !.moderation = d] IN
              n \in Row /\ n.status = r.status /\ n.transcoded = r.transcoded
         /\ \A b \in BOOLEAN : LET n == [r EXCEPT !.transcoded = b] IN
              n \in Row /\ n.status = r.status /\ n.transcoded = b
         /\ \A s \in MediaStatus, d \in ModerationStatus :
              LET n == [r EXCEPT !.status = s, !.moderation = d] IN
              n \in Row /\ n.status = s /\ n.transcoded = r.transcoded
         /\ r.status \in MediaStatus
  BY DEF Row

\* Every step is one of the row steps: inserts and updates are legal ones.
LEMMA RowSteps ==
  ASSUME TypeOK, AtWork, RowsExist, HandOverCleared, OutputsFirst, [Next]_vars
  PROVE  RowStep
<1> USE Threads DEF dbVars, contentVars, envVars
<1>0. \A m \in Media : row[m] \in Row
  BY DEF TypeOK
<1>1. ASSUME NEW m \in Uploads, CreateUpload(m) PROVE RowStep
  <2> DEFINE new == [NoRow EXCEPT !.status = "uploading"]
  <2>2. new \in Row /\ new.status = "uploading" /\ new.transcoded = FALSE
    <3>1. NoRow \in Row /\ NoRow.transcoded = FALSE /\ "uploading" \in MediaStatus
      BY NewRowType DEF NoRow, MediaStatus
    <3> QED
      BY <3>1 DEF Row
  <2>3. row[m] = NoRow /\ NoRow.transcoded = FALSE
    BY <1>1 DEF CreateUpload, RowsExist, Exists, NoRow
  <2>4. LegalUpdate(m, new)
    BY <2>2, <2>3 DEF LegalUpdate
  <2> QED
    BY <1>1, <2>2, <2>4 DEF CreateUpload, RowStep
<1>2. ASSUME NEW p \in Uploader, MarkUploaded(p) PROVE RowStep
  <2> DEFINE m == th[p].m
  <2> DEFINE new == [row[m] EXCEPT !.status = "uploaded"]
  <2>3. m \in Media /\ row[m] \in Row /\ row[m].status # "none"
    BY <1>2, <1>0, Labels DEF MarkUploaded, AtWork, RowsExist, Exists
  <2>4. new \in Row /\ new.status = "uploaded" /\ new.transcoded = row[m].transcoded
    BY <2>3 DEF Row, MediaStatus, ModerationStatus
  <2>5. LegalUpdate(m, new)
    BY <2>3, <2>4 DEF LegalUpdate
  <2> QED
    BY <1>2, <2>3, <2>4, <2>5 DEF MarkUploaded, RowStep
<1>3. ASSUME NEW p \in Uploader, RouteToModeration(p) PROVE RowStep
  <2> DEFINE m == th[p].m
  <2> DEFINE new == [row[m] EXCEPT !.status = "moderating", !.moderation = "pending"]
  <2>3. m \in Media /\ row[m] \in Row /\ row[m].status # "none"
    BY <1>3, <1>0, Labels DEF RouteToModeration, AtWork, RowsExist, Exists
  <2>4. new \in Row /\ new.status = "moderating" /\ new.transcoded = row[m].transcoded
    BY <2>3 DEF Row, MediaStatus, ModerationStatus
  <2>5. LegalUpdate(m, new)
    BY <2>3, <2>4 DEF LegalUpdate
  <2> QED
    BY <1>3, <2>3, <2>4, <2>5 DEF RouteToModeration, RowStep
<1>4. ASSUME NEW p \in Uploader, RouteSkipped(p) PROVE RowStep
  <2> DEFINE m == th[p].m
  <2> DEFINE new == [row[m] EXCEPT !.moderation = "skipped"]
  <2>3. m \in Media /\ row[m] \in Row /\ row[m].status # "none"
    BY <1>4, <1>0, Labels DEF RouteSkipped, AtWork, RowsExist, Exists
  <2>4. new \in Row /\ new.status = row[m].status /\ new.transcoded = row[m].transcoded
    BY <2>3 DEF Row, MediaStatus, ModerationStatus
  <2>5. LegalUpdate(m, new)
    BY <2>3, <2>4 DEF LegalUpdate
  <2> QED
    BY <1>4, <2>3, <2>4, <2>5 DEF RouteSkipped, RowStep
<1>5. ASSUME NEW p \in Thread, MarkProcessing(p) PROVE RowStep
  <2> DEFINE m == th[p].m
  <2> DEFINE new == [row[m] EXCEPT !.status = "processing"]
  <2>3. m \in Media /\ row[m] \in Row /\ row[m].status # "none"
    BY <1>5, <1>0, Labels DEF MarkProcessing, AtWork, RowsExist, Exists
  <2>4. new \in Row /\ new.status = "processing" /\ new.transcoded = row[m].transcoded
    BY <2>3 DEF Row, MediaStatus, ModerationStatus
  <2>5. m \in everCleared
    BY <1>5 DEF MarkProcessing, HandOverCleared, WillTranscode
  <2>6. LegalUpdate(m, new)
    BY <2>3, <2>4, <2>5 DEF LegalUpdate
  <2> QED
    BY <1>5, <2>3, <2>4, <2>6 DEF MarkProcessing, RowStep
<1>6. ASSUME ModerationSkipped PROVE RowStep
  <2> DEFINE m == th["moderator"].m
  <2> DEFINE new == [row[m] EXCEPT !.status = row[m].status, !.moderation = "skipped"]
  <2>3. m \in Media /\ row[m] \in Row /\ row[m].status # "none"
    BY <1>6, <1>0, Labels DEF ModerationSkipped, ModerationVerdict, AtWork, RowsExist,
       Exists
  <2>4. new \in Row /\ new.status = row[m].status /\ new.transcoded = row[m].transcoded
    BY <2>3 DEF Row, MediaStatus, ModerationStatus
  <2>5. LegalUpdate(m, new)
    BY <2>3, <2>4 DEF LegalUpdate
  <2> QED
    BY <1>6, <2>3, <2>4, <2>5 DEF ModerationSkipped, ModerationVerdict, RowStep
<1>7. ASSUME ModerationPassed PROVE RowStep
  <2> DEFINE m == th["moderator"].m
  <2> DEFINE new == [row[m] EXCEPT !.status = row[m].status, !.moderation = "passed"]
  <2>3. m \in Media /\ row[m] \in Row /\ row[m].status # "none"
    BY <1>7, <1>0, Labels DEF ModerationPassed, ModerationVerdict, AtWork, RowsExist,
       Exists
  <2>4. new \in Row /\ new.status = row[m].status /\ new.transcoded = row[m].transcoded
    BY <2>3 DEF Row, MediaStatus, ModerationStatus
  <2>5. LegalUpdate(m, new)
    BY <2>3, <2>4 DEF LegalUpdate
  <2> QED
    BY <1>7, <2>3, <2>4, <2>5 DEF ModerationPassed, ModerationVerdict, RowStep
<1>8. ASSUME ModerationRejected PROVE RowStep
  <2> DEFINE m == th["moderator"].m
  <2> DEFINE new == [row[m] EXCEPT !.status = "rejected", !.moderation = "rejected"]
  <2>3. m \in Media /\ row[m] \in Row /\ row[m].status # "none"
    BY <1>8, <1>0, Labels DEF ModerationRejected, ModerationVerdict, AtWork, RowsExist,
       Exists
  <2>4. new \in Row /\ new.status = "rejected" /\ new.transcoded = row[m].transcoded
    BY <2>3 DEF Row, MediaStatus, ModerationStatus
  <2>5. LegalUpdate(m, new)
    BY <2>3, <2>4 DEF LegalUpdate
  <2> QED
    BY <1>8, <2>3, <2>4, <2>5 DEF ModerationRejected, ModerationVerdict, RowStep
<1>9. ASSUME ModerationFailed PROVE RowStep
  <2> DEFINE m == th["moderator"].m
  <2> DEFINE new == [row[m] EXCEPT !.status = "failed", !.moderation = "pending"]
  <2>3. m \in Media /\ row[m] \in Row /\ row[m].status # "none"
    BY <1>9, <1>0, Labels DEF ModerationFailed, ModerationVerdict, AtWork, RowsExist,
       Exists
  <2>4. new \in Row /\ new.status = "failed" /\ new.transcoded = row[m].transcoded
    BY <2>3 DEF Row, MediaStatus, ModerationStatus
  <2>5. LegalUpdate(m, new)
    BY <2>3, <2>4 DEF LegalUpdate
  <2> QED
    BY <1>9, <2>3, <2>4, <2>5 DEF ModerationFailed, ModerationVerdict, RowStep
<1>10. ASSUME Encode PROVE RowStep
  <2> DEFINE m == th["transcoder"].m
  <2> DEFINE new == [row[m] EXCEPT !.transcoded = m \notin Passthrough]
  <2>3. m \in Media /\ row[m] \in Row /\ row[m].status # "none"
    BY <1>10, <1>0, Labels DEF Encode, AtWork, RowsExist, Exists
  <2>4. new \in Row /\ new.status = row[m].status
          /\ new.transcoded = (m \notin Passthrough)
    BY <2>3 DEF Row, MediaStatus, ModerationStatus
  <2>5. LegalUpdate(m, new)
    BY <2>3, <2>4 DEF LegalUpdate
  <2> QED
    BY <1>10, <2>3, <2>4, <2>5 DEF Encode, RowStep
<1>11. ASSUME MarkReady PROVE RowStep
  <2> DEFINE m == th["transcoder"].m
  <2> DEFINE new == [row[m] EXCEPT !.status = "ready"]
  <2>3. m \in Media /\ row[m] \in Row /\ row[m].status # "none"
    BY <1>11, <1>0, Labels DEF MarkReady, AtWork, RowsExist, Exists
  <2>4. new \in Row /\ new.status = "ready" /\ new.transcoded = row[m].transcoded
    BY <2>3 DEF Row, MediaStatus, ModerationStatus
  <2>5. m \in everCleared /\ (m \in Uploads \ Passthrough => row[m].transcoded \/ WrittenBack(m))
    BY <1>11 DEF MarkReady, HandOverCleared, OutputsFirst
  <2>6. LegalUpdate(m, new)
    BY <2>3, <2>4, <2>5 DEF LegalUpdate
  <2> QED
    BY <1>11, <2>3, <2>4, <2>6 DEF MarkReady, RowStep
<1>12. ASSUME KeepOriginal PROVE RowStep
  <2> DEFINE m == th["transcoder"].m
  <2> DEFINE new == [row[m] EXCEPT !.status = "processing"]
  <2>3. m \in Media /\ row[m] \in Row /\ row[m].status # "none"
    BY <1>12, <1>0, Labels DEF KeepOriginal, AtWork, RowsExist, Exists
  <2>4. new \in Row /\ new.status = "processing" /\ new.transcoded = row[m].transcoded
    BY <2>3 DEF Row, MediaStatus, ModerationStatus
  <2>5. m \in everCleared
    BY <1>12 DEF KeepOriginal, HandOverCleared
  <2>6. LegalUpdate(m, new)
    BY <2>3, <2>4, <2>5 DEF LegalUpdate
  <2> QED
    BY <1>12, <2>3, <2>4, <2>6 DEF KeepOriginal, RowStep
<1>13. ASSUME NEW c \in Content, CommitContent(c) PROVE RowStep
  BY <1>13 DEF RowStep, CommitContent
<1>14. ASSUME NEW m \in Media, Age(m) PROVE RowStep
  BY <1>14 DEF RowStep, Age
<1>15. ASSUME NEW p \in Uploader, NEW m \in Uploads, CompleteUpload(p, m) PROVE RowStep
  BY <1>15 DEF RowStep, CompleteUpload
<1>16. ASSUME NEW p \in Uploader, EnqueueModeration(p) PROVE RowStep
  BY <1>16 DEF RowStep, EnqueueModeration
<1>17. ASSUME NEW p \in Thread, TerminalUpdate(p) \/ EnqueueTranscode(p) PROVE RowStep
  BY <1>17 DEF RowStep, TerminalUpdate, FindPending, Evaluate, Settle, EnqueueTranscode
<1>18. ASSUME NEW p \in Worker, FinishJob(p) PROVE RowStep
  BY <1>18 DEF RowStep, FinishJob
<1>19. ASSUME NEW m \in Media, TakeModeration(m) \/ TakeTranscode(m) PROVE RowStep
  BY <1>19 DEF RowStep, TakeModeration, TakeTranscode
<1>20. ASSUME SweepModeration \/ SweepTranscode \/ SweepPublish \/ SweepEnd
       PROVE  RowStep
  BY <1>20 DEF RowStep, SweepModeration, SweepTranscode, SweepPublish, SweepEnd, Sweep
<1>21. ASSUME NEW m \in Media, RequeueModeration(m) \/ RequeueTranscode(m) \/
              Reevaluate(m)
       PROVE  RowStep
  BY <1>21 DEF RowStep, RequeueModeration, RequeueTranscode, Reevaluate
<1>22. ASSUME NEW c \in Content, NEW media \in SUBSET Uploads, NEW sounds \in SUBSET
              Sounds, DraftContent(c, media, sounds)
       PROVE  RowStep
  BY <1>22 DEF RowStep, DraftContent
<1>23. ASSUME NEW c \in Content, RollbackContent(c) PROVE RowStep
  BY <1>23 DEF RowStep, RollbackContent
<1>24. ASSUME NEW p \in Worker, NEW m \in Media, StalledJob(p, m) PROVE RowStep
  BY <1>24 DEF RowStep, StalledJob
<1>25. ASSUME FaultStep PROVE RowStep
  BY <1>25 DEF RowStep, FaultStep, UploaderThrows, WorkerThrows, ReconcilerThrows,
     TranscodeThrows, Crash
<1>26. ASSUME UNCHANGED vars PROVE RowStep
  BY <1>26 DEF RowStep, vars
<1> QED
  BY <1>1, <1>2, <1>3, <1>4, <1>5, <1>6, <1>7, <1>8, <1>9, <1>10, <1>11, <1>12, <1>13,
     <1>14, <1>15, <1>16, <1>17, <1>18, <1>19, <1>20, <1>21, <1>22, <1>23, <1>24, <1>25,
     <1>26 DEF Next, UploaderStep, ModeratorStep, TranscoderStep, ReconcilerStep,
     AuthorStep, TerminalUpdate, TranscodeEnqueue

\* Every step is one of the content steps.
LEMMA ContentSteps ==
  ASSUME TypeOK, AtWork, [Next]_vars
  PROVE  ContentStep
<1> USE Threads DEF dbVars, contentVars, envVars
<1>1. ASSUME NEW p \in Uploader, UploaderStep(p) PROVE ContentStep
  BY <1>1 DEF UploaderStep, MarkUploaded, RouteToModeration, RouteSkipped,
     EnqueueModeration, TerminalUpdate, FindPending, Evaluate, Settle, TranscodeEnqueue,
     MarkProcessing, EnqueueTranscode, ContentStep
<1>2. ASSUME ModeratorStep PROVE ContentStep
  BY <1>2 DEF ModeratorStep, TakeModeration, ModerationSkipped, ModerationPassed,
     ModerationRejected, ModerationFailed, ModerationVerdict, FinishJob, TerminalUpdate,
     FindPending, Evaluate, Settle, TranscodeEnqueue, MarkProcessing, EnqueueTranscode,
     ContentStep
<1>3. ASSUME TranscoderStep PROVE ContentStep
  BY <1>3 DEF TranscoderStep, TakeTranscode, Encode, MarkReady, KeepOriginal, FinishJob,
     ContentStep
<1>4. ASSUME ReconcilerStep PROVE ContentStep
  BY <1>4 DEF ReconcilerStep, SweepModeration, SweepTranscode, SweepPublish, SweepEnd,
     Sweep, RequeueModeration, RequeueTranscode, Reevaluate, TerminalUpdate,
     FindPending, Evaluate, Settle, TranscodeEnqueue, MarkProcessing, EnqueueTranscode,
     ContentStep
<1>5. ASSUME NEW c \in Content, AuthorStep(c) PROVE ContentStep
  BY <1>5 DEF AuthorStep, ContentStep
<1>6. ASSUME FaultStep PROVE ContentStep
  BY <1>6 DEF FaultStep, UploaderThrows, WorkerThrows, ReconcilerThrows,
     TranscodeThrows, Crash, Fault, ContentStep
<1>7. ASSUME NEW m \in Uploads, CreateUpload(m) PROVE ContentStep
  BY <1>7 DEF CreateUpload, ContentStep
<1>8. ASSUME NEW p \in Uploader, NEW m \in Uploads, CompleteUpload(p, m)
      PROVE  ContentStep
  BY <1>8 DEF CompleteUpload, ContentStep
<1>9. ASSUME NEW p \in Worker, NEW m \in Media, StalledJob(p, m) PROVE ContentStep
  BY <1>9 DEF StalledJob, ContentStep
<1>10. ASSUME NEW m \in Media, Age(m) PROVE ContentStep
  BY <1>10 DEF Age, ContentStep
<1>11. ASSUME UNCHANGED vars PROVE ContentStep
  BY <1>11 DEF vars, ContentStep
<1> QED
  BY <1>1, <1>2, <1>3, <1>4, <1>5, <1>6, <1>7, <1>8, <1>9, <1>10, <1>11 DEF Next

\* Every step is one of the thread steps.
LEMMA ThreadSteps ==
  ASSUME TypeOK, AtWork, RowsExist, [Next]_vars
  PROVE  ThreadStep
<1> USE Threads DEF dbVars, contentVars, envVars
<1>1. ASSUME NEW m \in Uploads, CreateUpload(m) PROVE ThreadStep
  BY <1>1, ThreadIn, Labels DEF CreateUpload, ThreadStep, QuietStep, CarryStep, Exists,
     UpdateMedia, ThreadState, TypeOK
<1>2. ASSUME NEW p \in Uploader, NEW m \in Uploads, CompleteUpload(p, m)
      PROVE  ThreadStep
  BY <1>2, ThreadIn, Labels DEF CompleteUpload, ThreadStep, QuietStep, CarryStep,
     Exists, Move, ThreadState, TypeOK
<1>3. ASSUME NEW p \in Uploader, MarkUploaded(p) PROVE ThreadStep
  BY <1>3, ThreadIn, Labels DEF MarkUploaded, ThreadStep, QuietStep, CarryStep, Exists,
     UpdateMedia, Move, Goto, ThreadState, TypeOK, AtWork, RowsExist
<1>4. ASSUME NEW p \in Uploader, RouteToModeration(p) PROVE ThreadStep
  BY <1>4, ThreadIn, Labels DEF RouteToModeration, ThreadStep, QuietStep, CarryStep,
     Exists, UpdateMedia, Move, Goto, ThreadState, TypeOK, AtWork, RowsExist
<1>5. ASSUME NEW p \in Uploader, RouteSkipped(p) PROVE ThreadStep
  BY <1>5, ThreadIn, Labels DEF RouteSkipped, ThreadStep, QuietStep, CarryStep, Exists,
     UpdateMedia, CallTerminalUpdate, Move, ThreadState, TypeOK, AtWork, RowsExist
<1>6. ASSUME NEW p \in Uploader, EnqueueModeration(p) PROVE ThreadStep
  <2>1. th[p].m \in Media /\ Exists(th[p].m) /\ p # "transcoder"
    BY <1>6, Labels, MediaAssumption DEF EnqueueModeration, AtWork, RowsExist, Worker
  <2>2. \A q \in Thread : th'[q] = IF q = p THEN Idle ELSE th[q]
    BY <1>6 DEF EnqueueModeration, Move, TypeOK
  <2>3. \A q \in Queue, m \in Media :
          job'[q][m].state # "none" => job[q][m].state # "none" \/ m = th[p].m
    BY <1>6, <2>1, EnqueueEffect DEF EnqueueModeration, TypeOK
  <2> QED
    BY <2>1, <2>2, <2>3 DEF ThreadStep, CarryStep, QuietStep, Idle
<1>7. ASSUME NEW p \in Thread, FindPending(p) PROVE ThreadStep
  <2>1. th[p] \in ThreadState /\ th[p].then \in Continuation
    BY ThreadIn, ThreadFields
  <2>2. CarryStep
    BY <1>7, <2>1, PublicationMove DEF CarryStep, Continuation
  <2> QED
    BY <1>7, <2>2 DEF ThreadStep
<1>8. ASSUME NEW p \in Thread, Evaluate(p) PROVE ThreadStep
  <2>1. th[p] \in ThreadState /\ th[p].then \in Continuation
    BY ThreadIn, ThreadFields
  <2>2. CarryStep
    BY <1>8, <2>1, PublicationMove DEF CarryStep, Continuation
  <2> QED
    BY <1>8, <2>2 DEF ThreadStep
<1>9. ASSUME NEW p \in Thread, Settle(p) PROVE ThreadStep
  <2>1. th[p] \in ThreadState /\ th[p].then \in Continuation
          /\ th[p].todo \subseteq Content
    BY ThreadIn, ThreadFields
  <2>2. CarryStep
    BY <1>9, <2>1, PublicationMove DEF CarryStep, Continuation
  <2>3. th'[p] = NextContent(p, th[p].todo)
    BY <1>9 DEF Settle, Move, TypeOK
  <2>4. th'[p].todo = th[p].todo /\ th'[p].pc # "settle"
    <3>1. th \in [Thread -> ThreadState] /\ th[p].todo \in SUBSET Content
      BY <2>1 DEF TypeOK
    <3> QED
      BY <2>1, <2>3, <3>1, NextContentType DEF Continuation
  <2>5. QuietStep
    BY <1>9, <2>4, PublicationMove DEF QuietStep
  <2> QED
    BY <2>2, <2>5 DEF ThreadStep
<1>10. ASSUME NEW p \in Thread, MarkProcessing(p) PROVE ThreadStep
  BY <1>10, ThreadIn, Labels DEF MarkProcessing, ThreadStep, QuietStep, CarryStep,
     Exists, UpdateMedia, Move, Goto, ThreadState, TypeOK, AtWork, RowsExist
<1>11. ASSUME NEW p \in Thread, EnqueueTranscode(p) PROVE ThreadStep
  <2>1. th[p] \in ThreadState
    BY ThreadIn
  <2>2. th[p].m \in Media /\ Exists(th[p].m)
    BY <1>11, Labels DEF EnqueueTranscode, AtWork, RowsExist
  <2> DEFINE t == AfterEnqueueTranscode(p)
  <2>3. /\ t.m \in {th[p].m, NoMedia} /\ t.work \subseteq th[p].work
        /\ t.todo \subseteq th[p].todo
        /\ t.pc \in {"idle", "requeueTranscode", "completeJob"}
    BY <2>1 DEF AfterEnqueueTranscode, SweepAt, Idle, ThreadState
  <2>4. \A q \in Thread : th'[q] = IF q = p THEN t ELSE th[q]
    BY <1>11 DEF EnqueueTranscode, Move, TypeOK
  <2>5. \A q \in Queue, m \in Media :
          job'[q][m].state # "none" => job[q][m].state # "none" \/ m = th[p].m
    BY <1>11, <2>2, EnqueueEffect DEF EnqueueTranscode, TypeOK
  <2> QED
    BY <2>2, <2>3, <2>4, <2>5 DEF ThreadStep, CarryStep, QuietStep
<1>12. ASSUME NEW m \in Media, TakeModeration(m) PROVE ThreadStep
  BY <1>12, ThreadIn, Labels DEF TakeModeration, ThreadStep, QuietStep, CarryStep,
     Exists, SetJob, Move, ThreadState, TypeOK, AtWork, RowsExist
<1>13. ASSUME ModerationSkipped PROVE ThreadStep
  BY <1>13, ThreadIn, Labels DEF ModerationSkipped, ThreadStep, QuietStep, CarryStep,
     Exists, UpdateMedia, ModerationVerdict, CallTerminalUpdate, Move, ThreadState,
     TypeOK
<1>14. ASSUME ModerationPassed PROVE ThreadStep
  BY <1>14, ThreadIn, Labels DEF ModerationPassed, ThreadStep, QuietStep, CarryStep,
     Exists, UpdateMedia, ModerationVerdict, CallTerminalUpdate, Move, ThreadState,
     TypeOK
<1>15. ASSUME ModerationRejected PROVE ThreadStep
  BY <1>15, ThreadIn, Labels DEF ModerationRejected, ThreadStep, QuietStep, CarryStep,
     Exists, UpdateMedia, ModerationVerdict, CallTerminalUpdate, Move, ThreadState,
     TypeOK
<1>16. ASSUME ModerationFailed PROVE ThreadStep
  BY <1>16, ThreadIn, Labels DEF ModerationFailed, ThreadStep, QuietStep, CarryStep,
     Exists, UpdateMedia, ModerationVerdict, CallTerminalUpdate, Move, ThreadState,
     TypeOK
<1>17. ASSUME NEW p \in Worker, FinishJob(p) PROVE ThreadStep
  BY <1>17, ThreadIn, Labels DEF FinishJob, ThreadStep, QuietStep, CarryStep, Exists,
     SetJob, NoJob, Move, Idle, ThreadState, TypeOK, AtWork, RowsExist
<1>18. ASSUME NEW m \in Media, TakeTranscode(m) PROVE ThreadStep
  BY <1>18, ThreadIn, Labels DEF TakeTranscode, ThreadStep, QuietStep, CarryStep,
     Exists, SetJob, IsTranscodeComplete, Move, ThreadState, TypeOK, AfterComplete,
     AtWork, RowsExist
<1>19. ASSUME Encode PROVE ThreadStep
  <2> DEFINE m == th["transcoder"].m
             t == [th["transcoder"] EXCEPT !.pc = "ready"]
  <2>1. th["transcoder"] \in ThreadState /\ m \in Media /\ row[m] \in Row
    BY <1>19, ThreadIn, Labels DEF Encode, AtWork, TypeOK
  <2>2. t.m = m /\ t.work = th["transcoder"].work /\ t.todo = th["transcoder"].todo
          /\ t.pc = "ready"
    BY <2>1 DEF ThreadState
  <2>3. \A q \in Thread : th'[q] = IF q = "transcoder" THEN t ELSE th[q]
    BY <1>19 DEF Encode, Goto, Move, TypeOK
  <2>4. m \in Uploads \ Passthrough => row'[m].transcoded
    BY <1>19, <2>1 DEF Encode, UpdateMedia, TypeOK, Row
  <2>5. job' = job
    BY <1>19 DEF Encode
  <2> QED
    BY <2>2, <2>3, <2>4, <2>5 DEF ThreadStep, CarryStep, QuietStep
<1>20. ASSUME MarkReady PROVE ThreadStep
  BY <1>20, ThreadIn, Labels DEF MarkReady, ThreadStep, QuietStep, CarryStep, Exists,
     UpdateMedia, Move, Goto, ThreadState, TypeOK
<1>21. ASSUME KeepOriginal PROVE ThreadStep
  BY <1>21, ThreadIn, Labels DEF KeepOriginal, ThreadStep, QuietStep, CarryStep, Exists,
     UpdateMedia, Move, Goto, ThreadState, TypeOK
<1>22. ASSUME SweepModeration PROVE ThreadStep
  BY <1>22, ThreadIn, Labels DEF SweepModeration, ThreadStep, QuietStep, CarryStep,
     Exists, StuckModeration, Move, Sweep, ThreadState, TypeOK, AtWork, RowsExist
<1>23. ASSUME SweepTranscode PROVE ThreadStep
  BY <1>23, ThreadIn, Labels DEF SweepTranscode, ThreadStep, QuietStep, CarryStep,
     Exists, StuckTranscode, Move, Sweep, ThreadState, TypeOK, AtWork, RowsExist
<1>24. ASSUME SweepPublish PROVE ThreadStep
  <2> DEFINE r == th["reconciler"]
  <2>1. PICK found \in Limited(ClearedWithPendingContent) : Sweep("requeueTranscode", "reevaluate", found)
    BY <1>24 DEF SweepPublish
  <2>2. \A m \in found : m \in Media /\ Exists(m)
    BY <2>1 DEF Limited, ClearedWithPendingContent, RowsExist, NoRow, ClearedStatuses
  <2> DEFINE t == [r EXCEPT !.pc = "reevaluate", !.work = found]
  <2>3. r \in ThreadState
    BY ThreadIn
  <2>4. t.m = r.m /\ t.work = found /\ t.todo = r.todo /\ t.pc = "reevaluate"
    BY <2>3 DEF ThreadState
  <2>5. \A q \in Thread : th'[q] = IF q = "reconciler" THEN t ELSE th[q]
    BY <2>1 DEF Sweep, Move, TypeOK
  <2>6. job' = job
    BY <2>1 DEF Sweep
  <2> QED
    BY <2>2, <2>4, <2>5, <2>6, Threads DEF ThreadStep, CarryStep, QuietStep, Thread,
       Worker
<1>25. ASSUME SweepEnd PROVE ThreadStep
  BY <1>25, ThreadIn, Labels DEF SweepEnd, ThreadStep, QuietStep, CarryStep, Exists,
     Move, Sweep, ThreadState, TypeOK
<1>26. ASSUME NEW m \in Media, RequeueModeration(m) PROVE ThreadStep
  <2> DEFINE r == th["reconciler"]
             t == [r EXCEPT !.work = @ \ {m}]
  <2>1. r \in ThreadState
    BY ThreadIn
  <2>2. t.m = r.m /\ t.work \subseteq r.work /\ t.todo = r.todo
          /\ t.pc = "requeueModeration" /\ Exists(m)
    BY <1>26, <2>1 DEF RequeueModeration, ThreadState, RowsExist
  <2>3. \A q \in Thread : th'[q] = IF q = "reconciler" THEN t ELSE th[q]
    BY <1>26 DEF RequeueModeration, Move, TypeOK
  <2>4. \A q \in Queue, n \in Media :
          job'[q][n].state # "none" => job[q][n].state # "none" \/ n = m
    BY <1>26, EnqueueEffect DEF RequeueModeration, TypeOK
  <2>5. "reconciler" # "transcoder"
    OBVIOUS
  <2> QED
    BY <2>2, <2>3, <2>4, <2>5 DEF ThreadStep, CarryStep, QuietStep
<1>27. ASSUME NEW m \in Media, RequeueTranscode(m) PROVE ThreadStep
  BY <1>27, ThreadIn, Labels DEF RequeueTranscode, ThreadStep, QuietStep, CarryStep,
     Exists, Move, ThreadState, TypeOK, AtWork, RowsExist
<1>28. ASSUME NEW m \in Media, Reevaluate(m) PROVE ThreadStep
  BY <1>28, ThreadIn, Labels DEF Reevaluate, ThreadStep, QuietStep, CarryStep, Exists,
     Move, ThreadState, TypeOK, AtWork, RowsExist
<1>29. ASSUME NEW c \in Content, NEW media \in SUBSET Uploads, NEW sounds \in SUBSET
              Sounds, DraftContent(c, media, sounds)
       PROVE  ThreadStep
  BY <1>29, ThreadIn, Labels DEF DraftContent, ThreadStep, QuietStep, CarryStep, Exists,
     ThreadState, TypeOK
<1>30. ASSUME NEW c \in Content, CommitContent(c) PROVE ThreadStep
  BY <1>30, ThreadIn, Labels DEF CommitContent, ThreadStep, QuietStep, CarryStep,
     Exists, ThreadState, TypeOK
<1>31. ASSUME NEW c \in Content, RollbackContent(c) PROVE ThreadStep
  BY <1>31, ThreadIn, Labels DEF RollbackContent, ThreadStep, QuietStep, CarryStep,
     Exists, ThreadState, TypeOK
<1>32. ASSUME NEW p \in Worker, NEW m \in Media, StalledJob(p, m) PROVE ThreadStep
  BY <1>32, ThreadIn, Labels DEF StalledJob, ThreadStep, QuietStep, CarryStep, Exists,
     SetJob, ThreadState, TypeOK, AtWork, RowsExist
<1>33. ASSUME NEW m \in Media, Age(m) PROVE ThreadStep
  BY <1>33, ThreadIn, Labels DEF Age, ThreadStep, QuietStep, CarryStep, Exists,
     ThreadState, TypeOK
<1>34. ASSUME NEW p \in Uploader, UploaderThrows(p) PROVE ThreadStep
  BY <1>34, ThreadIn, Labels DEF UploaderThrows, ThreadStep, QuietStep, CarryStep,
     Exists, Move, Idle, ThreadState, TypeOK
<1>35. ASSUME NEW p \in Worker, WorkerThrows(p) PROVE ThreadStep
  BY <1>35, ThreadIn, Labels DEF WorkerThrows, ThreadStep, QuietStep, CarryStep, Exists,
     Move, Goto, ThreadState, TypeOK
<1>36. ASSUME ReconcilerThrows PROVE ThreadStep
  <2>1. PICK t \in ThreadState :
           /\ Move("reconciler", t)
           /\ t.m = NoMedia /\ t.todo = {} /\ t.work \subseteq th["reconciler"].work
           /\ t.pc \in Between
    BY <1>36, ReconcilerMove
  <2>2. \A q \in Thread : th'[q] = IF q = "reconciler" THEN t ELSE th[q]
    BY <2>1 DEF Move, TypeOK
  <2>3. job' = job
    BY <1>36 DEF ReconcilerThrows
  <2> QED
    BY <2>1, <2>2, <2>3 DEF ThreadStep, CarryStep, QuietStep, Between
<1>37. ASSUME TranscodeThrows PROVE ThreadStep
  BY <1>37, ThreadIn, Labels DEF TranscodeThrows, ThreadStep, QuietStep, CarryStep,
     Exists, IsTranscodeComplete, Move, Goto, ThreadState, TypeOK, AfterComplete
<1>38. ASSUME Crash PROVE ThreadStep
  BY <1>38, ThreadIn, Labels DEF Crash, ThreadStep, QuietStep, CarryStep, Exists, Idle,
     ThreadState, TypeOK
<1>39. CASE UNCHANGED vars
  BY <1>39, ThreadIn, Labels DEF vars, ThreadStep, QuietStep, CarryStep, Exists,
     ThreadState, TypeOK
<1> QED
  BY <1>1, <1>2, <1>3, <1>4, <1>5, <1>6, <1>7, <1>8, <1>9, <1>10, <1>11, <1>12, <1>13,
     <1>14, <1>15, <1>16, <1>17, <1>18, <1>19, <1>20, <1>21, <1>22, <1>23, <1>24, <1>25,
     <1>26, <1>27, <1>28, <1>29, <1>30, <1>31, <1>32, <1>33, <1>34, <1>35, <1>36, <1>37,
     <1>38, <1>39 DEF Next, UploaderStep, ModeratorStep, TranscoderStep, ReconcilerStep,
     AuthorStep, FaultStep, TerminalUpdate, TranscodeEnqueue
=============================================================================
