---------------------------- MODULE MediaRemoval ----------------------------
(***************************************************************************)
(* Taking media away: MediaDeletionService with MediaUsageService and      *)
(* MediaQueueService, its callers (deletePost, deleteMessageForEveryone,   *)
(* StatusService.delete, StatusCleanupService) and the cancel worker.      *)
(*                                                                         *)
(* A task is a request, the hourly clean-up or the cancel job; tasks       *)
(* interleave at every await.  A purge looks whether the media is in use,  *)
(* removes its waiting jobs, deletes its objects from the store and then   *)
(* its row, while contents attach it and a transcode may be running.       *)
(*                                                                         *)
(* Left out: who owns what (a request that is refused changes nothing),    *)
(* the moderation of the media (module MediaPipeline), tags and feeds.     *)
(***************************************************************************)
EXTENDS Naturals, FiniteSets

CONSTANTS
  Medium, Item, Task,   \* media, contents, tasks under way at a time
  Kind,                 \* [Item -> {"post", "message", "status"}]
  MaxBreaks             \* bound: tasks that fail on the way

ASSUME RemovalAssumption ==
  /\ Kind \in [Item -> {"post", "message", "status"}]
  /\ MaxBreaks \in Nat

VARIABLES
  media,     \* media[m]: the row of medias exists, and its variants are known
  files,     \* files[m]: the objects in the store
  item,      \* item[c]: a content and the media it links
  job,       \* job[m]: the transcode job
  asked,     \* media with a cancel job in the queue
  task,
  breaks,
  overran,   \* media purged while a transcode was running
  attachedLate   \* contents that attached a media that was being purged

removalVars == <<media, files, item, job, asked, task, breaks, overran, attachedLate>>

NoTask == [pc |-> "idle", of |-> {}, ids |-> {}, m |-> {}, variants |-> FALSE]

RemovalInit ==
  /\ media = [m \in Medium |-> [there |-> TRUE, variants |-> FALSE]]
  /\ files = [m \in Medium |-> {"source"}]
  /\ item = [c \in Item |-> [state |-> "new", uses |-> {}]]
  /\ job = [m \in Medium |-> "waiting"]
  /\ asked = {} /\ breaks = 0 /\ overran = {} /\ attachedLate = {}
  /\ task = [t \in Task |-> NoTask]

There(m) == media[m].there
Live == {c \in Item : item[c].state = "live"}
Used == UNION {item[c].uses : c \in Live}

On(t, pc) == task[t].pc = pc
Goes(t, pc) == task' = [task EXCEPT ![t].pc = pc]
Ends(t) == task' = [task EXCEPT ![t] = NoTask]
\* A purge that has seen that m is not in use.
Purging(m) == \E t \in Task : task[t].m = {m} /\ task[t].pc \in {"jobs", "objects", "row"}

(***************************************************************************)
(* Attaching                                                               *)
(***************************************************************************)
\* validateMediaIds: all rows are found.
Validate(t, c, ids) ==
  /\ On(t, "idle") /\ item[c].state = "new"
  /\ ids # {} /\ \A m \in ids : There(m)
  /\ Kind[c] = "status" => Cardinality(ids) = 1
  /\ task' = [task EXCEPT ![t] = [NoTask EXCEPT !.pc = "link", !.of = {c}, !.ids = ids]]
  /\ UNCHANGED <<media, files, item, job, asked, breaks, overran, attachedLate>>

\* The content and its links are saved; the foreign keys refuse a media that is gone.
Link(t) ==
  /\ On(t, "link")
  /\ \E c \in task[t].of :
       IF item[c].state = "new" /\ \A m \in task[t].ids : There(m)
       THEN /\ item' = [item EXCEPT ![c] = [state |-> "live", uses |-> task[t].ids]]
            /\ attachedLate' = IF \E m \in task[t].ids : Purging(m) \/ "source" \notin files[m]
                       THEN attachedLate \cup {c} ELSE attachedLate
       ELSE UNCHANGED <<item, attachedLate>>
  /\ Ends(t)
  /\ UNCHANGED <<media, files, job, asked, breaks, overran>>

(***************************************************************************)
(* Deleting contents                                                       *)
(***************************************************************************)
\* The transaction of deletePost and of deleteMessageForEveryone: the ids are read, the
\* links and the content go.
DeleteContent(t, c) ==
  /\ On(t, "idle") /\ c \in Live /\ Kind[c] # "status"
  /\ item' = [item EXCEPT ![c].state = "gone"]
  /\ task' = [task EXCEPT ![t] = [NoTask EXCEPT !.pc = "filter", !.ids = item[c].uses]]
  /\ UNCHANGED <<media, files, job, asked, breaks, overran, attachedLate>>

\* StatusService.delete finds one status, purgeExpired all that have expired (any live
\* ones, for the clock); the status and its views are deleted outside a transaction.
FindStatuses(t, S) ==
  /\ On(t, "idle") /\ S # {}
  /\ S \subseteq {c \in Live : Kind[c] = "status"}
  /\ task' = [task EXCEPT ![t] = [NoTask EXCEPT !.pc = "statuses", !.of = S,
                !.ids = UNION {item[c].uses : c \in S}]]
  /\ UNCHANGED <<media, files, item, job, asked, breaks, overran, attachedLate>>

DeleteStatuses(t) ==
  /\ On(t, "statuses")
  /\ item' = [c \in Item |-> IF c \in task[t].of THEN [item[c] EXCEPT !.state = "gone"]
                             ELSE item[c]]
  /\ Goes(t, "filter")
  /\ UNCHANGED <<media, files, job, asked, breaks, overran, attachedLate>>

(***************************************************************************)
(* MediaDeletionService                                                    *)
(***************************************************************************)
\* Mutant: the uses are read before the deletion of the content is committed.
FilterInTransaction(t) ==
  /\ On(t, "filter")
  /\ task' = [task EXCEPT ![t].ids = @ \ UNION {item[c].uses : c \in Item}, ![t].pc = "next"]
  /\ UNCHANGED <<media, files, item, job, asked, breaks, overran, attachedLate>>

FilterOrphanMediaIds(t) ==
  /\ On(t, "filter")
  /\ task' = [task EXCEPT ![t].ids = @ \ Used, ![t].pc = "next"]
  /\ UNCHANGED <<media, files, item, job, asked, breaks, overran, attachedLate>>

\* The loop of deleteOrphanMedias: the next row is read, if it is still there.
NextOrphan(t) ==
  /\ On(t, "next")
  /\ \/ task[t].ids = {} /\ Ends(t)
     \/ \E m \in task[t].ids :
          task' = [task EXCEPT ![t].ids = @ \ {m}, ![t].m = {m},
                     ![t].variants = media[m].variants,
                     ![t].pc = IF There(m) THEN "check" ELSE "next"]
  /\ UNCHANGED <<media, files, item, job, asked, breaks, overran, attachedLate>>

\* Mutant: the purge trusts the list of orphans.
NobodyLooks(t) ==
  /\ On(t, "check")
  /\ Goes(t, "jobs")
  /\ UNCHANGED <<media, files, item, job, asked, breaks, overran, attachedLate>>

\* isMediaInUse, of purgeMedia and of the cancel job.
IsMediaInUse(t) ==
  /\ On(t, "check")
  /\ Goes(t, IF task[t].m \subseteq Used THEN "next" ELSE "jobs")
  /\ UNCHANGED <<media, files, item, job, asked, breaks, overran, attachedLate>>

RemovePendingJobs(t) ==
  /\ On(t, "jobs")
  /\ job' = [m \in Medium |-> IF m \in task[t].m /\ job[m] = "waiting" THEN "none" ELSE job[m]]
  /\ Goes(t, "objects")
  /\ UNCHANGED <<media, files, item, asked, breaks, overran, attachedLate>>

\* deleteMediaSnapshot: the source, and every variant, whose keys are derived from it;
\* those its row named when it was read are the same.
DeleteMediaSnapshot(t) ==
  /\ On(t, "objects")
  /\ files' = [m \in Medium |-> IF m \in task[t].m THEN {} ELSE files[m]]
  /\ Goes(t, "row")
  /\ UNCHANGED <<media, item, job, asked, breaks, overran, attachedLate>>

\* The foreign keys of posts and messages refuse the delete, which is logged; that of a
\* status is set to null.
DeleteRow(t) ==
  /\ On(t, "row")
  /\ \E m \in task[t].m :
       IF \E c \in Live : Kind[c] # "status" /\ m \in item[c].uses
       THEN UNCHANGED <<media, item, overran>>
       ELSE /\ media' = [media EXCEPT ![m] = [there |-> FALSE, variants |-> FALSE]]
            /\ item' = [c \in Item |-> IF c \in Live THEN [item[c] EXCEPT !.uses = @ \ {m}]
                                       ELSE item[c]]
            /\ overran' = IF job[m] \in {"active", "written"} \/ media[m].variants # task[t].variants
                          THEN overran \cup {m} ELSE overran
  /\ Goes(t, "next")
  /\ UNCHANGED <<files, job, asked, breaks, attachedLate>>

(***************************************************************************)
(* Cancelling an upload, and the transcode beside it                       *)
(***************************************************************************)
RequestCancelUpload(m) ==
  /\ m \notin asked
  /\ asked' = asked \cup {m}
  /\ UNCHANGED <<media, files, item, job, task, breaks, overran, attachedLate>>

\* The cancel worker takes the job, reads the row and purges it with force, so that
\* only its own look for a use comes first.
CancelUpload(t, m) ==
  /\ On(t, "idle") /\ m \in asked
  /\ asked' = asked \ {m}
  /\ task' = [task EXCEPT ![t] = [NoTask EXCEPT !.pc = IF There(m) THEN "check" ELSE "idle",
                !.m = {m}, !.variants = media[m].variants]]
  /\ UNCHANGED <<media, files, item, job, breaks, overran, attachedLate>>

StartTranscode(m) ==
  /\ job[m] = "waiting"
  /\ job' = [job EXCEPT ![m] = IF There(m) /\ "source" \in files[m] THEN "active" ELSE "none"]
  /\ UNCHANGED <<media, files, item, asked, task, breaks, overran, attachedLate>>

PutVariants(m) ==
  /\ job[m] = "active"
  /\ files' = [files EXCEPT ![m] = @ \cup {"variants"}]
  /\ job' = [job EXCEPT ![m] = "written"]
  /\ UNCHANGED <<media, item, asked, task, breaks, overran, attachedLate>>

\* The update of the media's variants, which changes nothing when the row is gone.
NameVariants(m) ==
  /\ job[m] = "written"
  /\ media' = [media EXCEPT ![m].variants = There(m)]
  /\ job' = [job EXCEPT ![m] = "none"]
  /\ UNCHANGED <<files, item, asked, task, breaks, overran, attachedLate>>

\* A statement, the store or the process fails: a purge in deleteOrphanMedias is logged
\* and the next media tried, anything else ends the task.
TaskBreaks(t) ==
  /\ ~On(t, "idle") /\ breaks < MaxBreaks
  /\ breaks' = breaks + 1
  /\ \/ Ends(t)
     \/ task[t].pc \in {"check", "jobs", "objects", "row"} /\ Goes(t, "next")
  /\ UNCHANGED <<media, files, item, job, asked, overran, attachedLate>>

RemovalNext ==
  \/ \E t \in Task :
       \/ \E c \in Item : \/ \E ids \in SUBSET Medium : Validate(t, c, ids)
                          \/ DeleteContent(t, c)
       \/ \E S \in SUBSET Item : FindStatuses(t, S)
       \/ \E m \in Medium : CancelUpload(t, m)
       \/ Link(t) \/ DeleteStatuses(t) \/ FilterOrphanMediaIds(t) \/ NextOrphan(t)
       \/ IsMediaInUse(t) \/ RemovePendingJobs(t) \/ DeleteMediaSnapshot(t)
       \/ DeleteRow(t) \/ TaskBreaks(t)
  \/ \E m \in Medium :
       RequestCancelUpload(m) \/ StartTranscode(m) \/ PutVariants(m) \/ NameVariants(m)

RemovalSpec == RemovalInit /\ [][RemovalNext]_removalVars

(***************************************************************************)
(* Properties                                                              *)
(***************************************************************************)
\* Once every task has ended and none broke, a media whose last content was deleted is
\* gone, though two contents that share it were deleted at the same time.
OrphansAreCollected ==
  breaks = 0 /\ (\A t \in Task : On(t, "idle")) =>
    \A c \in Item, m \in Medium :
      item[c].state = "gone" /\ m \in item[c].uses /\ There(m) => m \in Used

\* No purge takes the objects of a media in use, unless the content attached it after the
\* purge had looked; and a purge that breaks on the way can be tried again: objects are
\* left without a row only by a transcode that ran during the purge.
PurgeIsSafe ==
  /\ \A c \in Live : (\E m \in item[c].uses : "source" \notin files[m]) => c \in attachedLate
  /\ \A m \in Medium : ~There(m) /\ files[m] # {} => m \in overran
=============================================================================
