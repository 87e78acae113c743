# Verification of the bluebeep backend

TLA+ models of the bluebeep backend (NestJS, TypeORM on Postgres, Redis,
BullMQ), the TLC runs that check them and the theorems TLAPS proves about them.
Sources are named relative to `src/src/modules/` unless said otherwise;
`PROJECT.json` maps every definition to the lines it stands for.

## The system

The process is one Node server. A handler (HTTP request, socket event, queue
job, interval) runs alone between two `await`s and interleaves with every other
handler at each of them. Rows live in Postgres, jobs and keys in Redis; both
survive a restart, in-memory timers and handlers do not. Almost no read takes a
lock and most updates are unconditional, so the hard behaviour is everywhere
the same: what was read is stale when it is written.

| component | state | operations | talks to |
|---|---|---|---|
| upload and routing (`media/media.service.ts`, `media-pipeline.service.ts`) | `medias` rows: `status`, `moderation_status`, `variants` | createUpload, completeUpload, routeAfterUpload, enqueueModeration, enqueueTranscode | both queues, publication |
| moderation worker (`media/processors/media-moderation.processor.ts`) | jobs of `media.moderation` | process: skip, pass, reject, fail | Rekognition, publication, transcode queue |
| transcode worker (`media-transcode.processor.ts`) | jobs of `media.transcode` | process: already complete, encode, ready, recover, keep original | storage providers |
| reconciler (`media-pipeline-reconciler.service.ts`) | a running flag | three sweeps: stuck moderation, stuck transcode, missed publication | both queues, publication |
| publication (`content-publish.service.ts`, `media-attach.validator.ts`, `media-delivery.util.ts`) | `publish_status` of posts, ads, statuses | onMediaTerminalUpdate, evaluatePost/Ad/Status, resolveInitialPublishStatus | feeds, notifications, sockets |
| content creation (`posts`, `ads`, `status`) | content rows and their media links | createPost, createAd, createStatus; edit, delete, view | publication, media deletion |
| media deletion (`media-deletion.service.ts`, `media-usage.service.ts`, cancel queue) | media rows, provider objects | deleteOrphanMedias, purgeMedia, cancel | the two queues, providers |
| calls (`calls/services`) | `call_sessions` rows, Redis marks with a TTL, ring timers in memory | initiate, accept, reject, end, ring timeout, webhook, log finalisation | chats, sockets, LiveKit |
| realtime and presence (`src/src/realtime`) | sockets, presence keys | connect, disconnect, away, active, heartbeat | calls, chats |
| chats (`chats`) | chats, members, messages, receipts | send, deliver, read, edit, delete, group membership | presence, media |
| admin access (`admin/access`) | memberships, invitations, grants, `users.role` | invite, accept, update, revoke, grants | users, mail |
| engagements (`engagements/services`) | likes, bookmarks, reposts, follows, comments and counters | toggles, follow, comment, delete, moderate | notifications |
| accounts (`auth/auth.service.ts`, `user/user.service.ts`) | `users` rows: verification, codes, passwords, status | sign-up, verify, resend, login, social sign-in, reset, change, suspend, delete, restore | mail |
| text review (`text-moderation`, `admin/admin.service.ts`) | text columns of posts, ads, thoughts, bios, with a pending copy and a status | create, edit, approve, reject | moderation API |
| trust queue, risk, dashboards (`reports`, `admin`) | `abuse_reports`; scores and charts computed from other rows | file, reassign, resolve, suspend; score, list, count | users |
| feed and stories (`feeds`, `status`) | cache entries and pages in Redis; status rows and views | rank a page, walk pages, hydrate, invalidate; tray, view, expire | posts, ads, follows |
| notifications (`notification`) | inbox rows, push jobs, duplicate keys | notify, push, broadcast | callers' transactions |
| search, trends, sounds, call history | - | queries | - |

What makes each correct:

- *Upload, workers, reconciler*: no media is transcoded or shown that moderation
  did not clear; READY means that the outputs exist; no hand-over loses a media.
- *Publication*: content is public only when every linked media was cleared, and
  taken down only when one was blocked; a missed evaluation is repaired.
- *Media deletion*: nothing that content links is deleted; what only deleted
  content linked is; a deleted row leaves no objects behind.
- *Calls*: a call rings for one stretch, ends, and leaves its entry in the chat;
  nobody stays busy for ever.
- *Chats and presence*: a receipt only advances and belongs to a member; what
  was missed while offline is delivered on connect; a member is shown what was
  sent to her and nothing from before she joined; presence follows the sockets.
- *Admin access*: `users.role` and the super role come from an invitation and a
  super admin; the audit trail tells what was done.
- *Engagements*: a counter says no more than there is.
- *Accounts*: a code verifies only the row it was mailed for; a verified account
  is not replaced.
- *Text review*: nobody else sees a text that was neither let through nor shown to an
  administrator who approved it.
- *Trust queue and risk*: a report's row holds one decision, every report is
  counted somewhere and once, a bad score comes with its reason, and the screens
  agree about the same account.
- *Feed and stories*: nothing twice, the unseen first, nothing lost between pages,
  no entry stale without a reason; a tray that does not contradict itself.
- *Notifications*: what happened is in the inbox.

`PROJECT.json` lists the hazards, each at its line.

## Modules

| module | what it is |
|---|---|
| `MediaDelivery` | the predicates on a media row and the two functions from linked rows to a publish status (`media-delivery.util.ts`, `resolveOutcome`, `resolveInitialPublishStatus`) |
| `PublishGate` | abstract specification: verdicts accumulate, content is published only when all its media have one that clears, failed only when one blocks |
| `MediaPipeline` | the pipeline: requests, two workers, reconciler, authors, BullMQ, faults |
| `MCMediaPipeline` | instances for TLC |
| `MediaPipelineSteps`, `MediaPipelineProofs` | lemmas on each step, and the theorems |
| `ReceiptLife` | abstract specification: a receipt only advances, only past or present members other than the sender have one, only leaving takes receipts back |
| `ChatDelivery` | sends, delivery sweeps and reads as handlers, presence keys with their refreshes, membership, faults |
| `MCChatDelivery` | instances for TLC |
| `ChatDeliveryProofs` | lemmas on each step, and the theorems |
| `ChatHistory` | who is shown which message: members who leave and return, sends in flight, edits and deletions, unread counts |
| `CallLife` | abstract specification: a call rings once and for one stretch, its entries are written after it and never taken back |
| `CallSignaling`, `MCCallSignaling`, `CallSignalingProofs` | calls await by await, with Redis marks, ring timers, webhooks and restarts; the instance; the theorems |
| `AdminAccess` | guards, invitations, memberships, roles, permissions, settings, audit |
| `Accounts` | sign-up, codes, sign-ins, passwords |
| `TextReview` | edits and verdicts on moderated text |
| `TrustQueue` | reports and decisions on them, and the conditions of every screen that counts them |
| `RiskScore` | risk formulas, and the queries that pick who is shown |
| `ActivityWindow` | the window and the buckets of the activity chart |
| `MCBackOffice` | one instance that takes the six modules from `AdminAccess` to here in turn |
| `AccountsProofs` | theorems about `Accounts`, `AdminAccess` and `RiskScore` |
| `ModerationProofs` | theorems about `TrustQueue`, `ActivityWindow` and `TextReview` |
| `Engagements` | toggles, comments, their moderation, and the counters |
| `FeedRanking`, `FeedPages`, `FeedCache` | one ranked page; the walk down the chronological pages; the caches |
| `Stories` | statuses, their views, and the tray |
| `Notifications` | dispatcher, inbox, push jobs, broadcasts |
| `MediaRemoval` | orphans, purges, cancellation and expiry |
| `MCFeedServices` | one instance that takes the seven modules from `Engagements` to here and `ChatHistory` in turn |
| `FeedProofs` | theorems about `Stories`, `FeedCache`, `FeedPages` and `FeedRanking` |
| `SocialProofs` | theorems about `Notifications`, `ChatHistory`, `Engagements` and `MediaRemoval` |

### MediaPipeline

State: `row[m]` is the media row reduced to the columns anyone branches on, with
`stale` for "updated_at is older than the reconciler's cutoff"; `job[q][m]` is
the BullMQ job of media `m` (the job id contains the media id, so there is one
per queue); `publishStatus`, `linked` and `draft` are the content row, its
links, and the media entities an open transaction has read; `th[p]` is the
program counter and the local variables of handler `p`. `everCleared` and
`everBlocked` are history.

A handler is a thread, and an action is the code from one `await` to the next
that touches shared state. Reads whose value is used after the next `await`
(`Evaluate` then `Settle`, `DraftContent` then `CommitContent`, `CompleteUpload`
then `MarkUploaded`) are therefore separate steps. `onMediaTerminalUpdate` is
one piece of code (`FindPending`, `Evaluate`, `Settle`) that requests, moderation
worker and reconciler enter and leave by `th[p].then`.

Decisions a reader should know:

- The post-media and ad-media relations are `cascade: true`, so `save` of the
  links saves the media entities as they were read. `CommitContent` writes the
  draft back over the rows of a post or ad. A status stores only the id.
- `getJob`, `getState`, `remove` and `add` of one enqueue are one step. So is
  TypeORM's select-compare-update inside one `save`.
- The two stuck sweeps take every stuck row: they are ordered by age, so their
  limit only delays. The missed-publish sweep has no order, so `Limited` takes
  any subset of the limit's size.
- Rows are never deleted here; the branches for a missing media are left to
  `MediaRemoval`. Content without media is published at once and is not modelled.
- Sounds are inserted by the transaction that uses them, PROCESSING when the
  provider is S3 and READY otherwise, with no moderation status.
- Notifications, socket events and cache invalidation after a publication read
  nothing back and are left out.
- Faults are counted by `MaxFaults`: a crash (handlers vanish, open transactions
  roll back, rows and jobs stay, configuration may change), an `await` that
  throws in a request, a worker or the reconciler. An active job whose worker is
  gone stalls and runs again up to `maxStalledCount` times. The workers' locks
  last longer than their jobs (ten and thirty minutes), so a live worker keeps
  its job.

### ChatDelivery

State: `receipt[m][u]` is the `message_receipts` row of user `u` for message
`m`; `kind`, `members`, `admins` are the chat and participant rows; `created`
the message rows; `presence[u]` the Redis key, where a missing key and the
offline marker are both "offline"; `refreshing` the calls of `refreshPresence`
between GET and SET; `th[p]` a handler with its local variables. `everMember` is
history.

| code | actions |
|---|---|
| `handleSendMessage` | `SendMessage` (the event), `ResolveChat`, `ReadParticipants`, `CreateMessage` or `RefuseMessage`, `ReadPresence`, `SaveReceipts` |
| `handleUserConnected`, `markDelivered` | `Connect` or `SetPresenceActive`, then `SweepFind`, `SweepUpdate` |
| `handleReadChat`, `markRead` | `ReadChat`, `ReadFind`, `ReadSave` |
| `refreshPresence` | `Touch` inside every socket event that refreshes, then `RefreshPresence` |
| `ChatsService` membership | `CreateGroupChat`, `AddChatMember`, `ExitGroupChat` |

Decisions a reader should know:

- The Redis client sends commands in order, so the SET of a connect or a
  disconnect is part of the event. A refresh is not: its SET waits for its GET.
- `markDelivered` updates two columns by id, so a row that is gone is skipped.
  `markRead` saves entities: TypeORM writes the columns that differ, and inserts
  a row that is gone. Only the flags are modelled, not their timestamps.
- Leaving is one step although it is two statements: a receipt that is saved
  between them survives as one that is saved after both does.
- A chat of the model becomes a group or the chat of a pair, whichever comes
  first. Participants are a set: adding someone twice is outside the inputs.
- After the receipts are saved a send only notifies, so it ends there. `Touch`
  also stands for the other events that refresh presence (`Heartbeat`).
- Editing, deleting and listing messages are in `ChatHistory`.

### ChatHistory

`seats[u]` are the rows of `chat_participants` of user `u` (nothing keeps one user
from having several), `note[m]` the message row, `copy[m][u]` the receipt as far
as the history reads it. `sending[m]`, `editing[m]` and `marking[u]` are the handlers of
`handleSendMessage` (`ReadsMembers`, `CreatesNote`, `SavesReceipts`, `SendFails`),
`handleEditMessage` (`ReadsNote`, `SavesNote`) and `markRead` (`FindsReceipts`,
`MarkRead`), which save later what they read; the other actions are methods
of `ChatsService` of the same names. `erased` is history: the deletions that came while
no handler had read the state before them. `ChatMessages(u)` and `Unread(u)` are the
two queries. Time is one clock, which each change moves on.

### CallSignaling

State: `session[c]` is the row of `call_sessions`, reduced to its status,
`durationFinal` and its log message; `logs[c]` the messages about it in the chat;
`mark[u]` and `keys` the Redis keys of users and calls; `timers` the entries of
`ringTimeouts`; `hooks[c]` the webhook events taken; `th[p]` a handler with the
row it read.

| code | actions |
|---|---|
| `CallService.initiate` | `Initiate`, `CheckCallerBusy`, `CheckCalleeBusy`, `InsertSession`, `SetActiveCall`, `ScheduleRingTimeout` |
| `accept` | `Accept`, `AcceptSave`, `StatusGet`, `StatusSet` (`updateStatus`), `SendTokens` |
| `reject`, `end`, `handleMissedCall` | `Reject`, `EndCall` or `RingTimeout`, then `FinalSave`, `ClearActiveCall`, `LogRead`, `LogCommit`; `EndAgain` for `end` of a call that has ended |
| `LiveKitWebhookService` | `Webhook`, then `HookSave` (a participant joined or left) or `PatchSave`, `PatchLog` (the room is finished) |
| Redis | `ExpireMarks`, `ExpireKey` |
| failures | `Crash` (memory and handlers are gone), `HandlerFails` |

Decisions a reader should know:

- `save` writes each column that differs from the stored row, so it puts back the
  whole row its handler read. That is one step.
- A rejected promise of a `call.*` event is caught by nobody, which ends the
  process; the errors of the ring timer and of the webhook are caught.
- The marks' TTL (120 s) is longer than the ringing (60 s), so an expiry finds the
  call past ringing or its timer lost.
- Each call has a fresh uuid. Another call may have left its marks (`EarlierCall`).
- More than one entry per call can be written, and two callers may ring one
  callee at once: the code does both, and no property denies it.

### The services behind accounts and the console

Every module has its requests as threads (`req`, `call`, `desk`, `analyst`) that
hold what they read; their actions are the code up to the next `await`.

- `AdminAccess` goes statement by statement: `Find`, `AssignAnyRole`,
  `AssertCanAssignRole`, `CountSupers`, `CheckEmail`, `SaveMember`, `SyncUserRole`,
  `RecordAudit` and the rest are shared by the methods, as in the source, and any
  statement may fail (`StatementFails`). `granted`, `joined` and `done` are
  history. The guards read membership and grants before the method starts
  (`Arrive`, `Permit`).
- `Accounts` has one row per address (the index is unique and covers deleted
  rows). The first write of a transaction locks the row to the commit, so the
  writes are one action, and `Updates(e, id, ..)` skips a row that was replaced.
  `issued[c]` says which row a code was made for. Mails go out before the commit,
  so a rollback keeps them.
- `TextReview` models the columns of a row as `content`, an edit as `Edit` and
  `EditWrites`, the queue an administrator looks at as `List`, a verdict as `Review`
  and `VerdictSaves`. The verdict carries the id only, so `cleared` gets what the desk
  had listed (`seen`), and what an approval publishes of an edit that was held after
  the listing (`late`) goes to `unread`. What the moderation API says is a choice.
  `undefined` leaves a column alone.
- `TrustQueue` takes a save apart: `SelectsRow` computes the columns that differ,
  `UpdatesRow` writes those. `mixed` remembers the reports that were updated in
  between. All other modules take the two statements as one step. The operators
  after `TrustSpec` are the conditions of the console's queries.
- `RiskScore` has the counts (`signals`, `reports`, `account`) as state and the
  formulas and queries as operators; its actions are what moderation, reports and
  administrators do to the rows behind them. A media keeps its rejection reason until
  another one is written, so a failed moderation (`FailModeration`) and a second routing
  (`RouteUpload`, `RouteAgain`) leave pending media with a reason (`reasons`), which the
  score reads like that of a rejected one.
- `ActivityWindow` builds the window of a preset, a custom range or all time, and
  then runs the loop of `buildSeriesBuckets`, a bucket per step. The calendar is a
  constant.

### The services around the feed

- `Engagements`: a transaction reads (`ToggleLike`, `CreateComment`, `DeleteComment`,
  `ModerateComment`, ..) and then writes, with its row locked (`LikeWrites`,
  `DeleteWrites`, ..). Counters move by SQL increments; comments are saved whole.
  `counted` is history: the comments that have been added to the counters.
- `FeedRanking` is `mergeBySlots`, a slot per step, over every choice of the four
  pools; the cursor is a score and an id, and two posts of the run score the same.
  `FeedPages` is a reader who follows cursors while rows appear and
  disappear (`Create`, `Publish`, `Withdraw`), with the page cache. `FeedCache`
  follows one post through the cached entries: readers miss, fetch and put in
  steps, writers write and invalidate in steps. An entry put after the deletion
  it raced with is `excused`, which the code accepts by its TTLs.
- `Stories`: the tray is `TrayOwners`, `TrayUnseen`, `TrayList`, `TrayViews`, one
  query each; statuses are published, reviewed, viewed, expire and go meanwhile.
- `Notifications`: `notify` runs inside its caller's transaction (`Commit`,
  `NotifyThrows`), its row, job and key beside it. Broadcasts go chunk by chunk.
- `MediaRemoval`: a task attaches (`Validate`, `Link`), deletes content, or purges:
  `FilterOrphanMediaIds`, `NextOrphan`, `IsMediaInUse`, `RemovePendingJobs`,
  `DeleteMediaSnapshot` (the known objects and those whose keys follow from the type),
  `DeleteRow`. A transcode runs beside it (`StartTranscode`,
  `PutVariants`, `NameVariants`), and a task may break off anywhere.

## Runs

The media and chat runs check deadlock. In `calls`, `back_office` and
`feed_services` requests are bounded or optional, and the system may come to rest.

| run | instance | checks |
|---|---|---|
| `media_safety` | one photo, one sound, one post, one request, one fault | types; `PipelineInv`, the invariant of the proofs; `PublishedWasCleared`; `TranscodeOnlyCleared`; `ReadyHasVariants`; refinement of `PublishGate` |
| `media_recovery` | one photo, no content, two faults | `StuckSettles`: what awaits moderation or transcoding does not for ever. `UploadSettles`: without a fault a completed upload ends ready, rejected or failed |
| `media_reevaluation` | one photo, one status, one fault, the first stall fails a job | `ReevaluatesMissed`: cleared media do not leave content pending, though the evaluation was missed |
| `media_stale_failure` | one photo, one status | violation: `FailureBlocksPublication` |
| `media_rejected_attach` | one photo, one post | violation: `AttachKeepsRejection` |
| `media_full_batch` | two media, an S3 sound, a post and a status, batch of one, from a later state | violation: `ReevaluatesMissed` |
| `chat_receipts` | two users with one socket each, one chat, a message each way, two handlers, one fault, no refresh in flight | types; `ReadImpliesDelivered`; `DeliveryInv`, the invariant of the proofs; refinement of `ReceiptLife` |
| `chat_liveness` | two users, one chat, one message, two handlers, a refresh in flight, no fault | `SweepCatchesUp`: a sweep delivers what was undelivered when it started. `OfflineInTheEnd`: without a socket the key says offline in the end |
| `chat_race` | as `chat_liveness` | violation: `RaceDecidesOnline` |
| `calls` | one call and a bystander, two handlers at a time, one restart or failure | types; `RingCovered`: a ringing call has a timer or a handler that sees to it; `RingingEnds`; `EndedCallIsLogged`; `BusyEnds`; refinement of `CallLife` |
| `back_office` | two users with three memberships, two requests and a failing statement; one address, two rows, two codes; two texts and desks; one report, two analysts, three decisions; up to three items and six reports of an account; two sizes of buckets on an uneven calendar | `AccessIsAccountable`, `CodesFitTheirRow`, `VerifiedAccountsStay`, `PublicTextWasCleared`, `ResolutionIsWhole`, `EveryReportIsCounted`, `RiskIsShown`, `SeriesCoversWindow` |
| `feed_services` | one user on two servers, two comments; three posts and an ad on a page of three; one reader and two writers of one post; three rows, one per page, two to a millisecond; two stories of one owner; two events, two recipients; one medium, two contents, two tasks, one failure; two members, one message | `CountersNeverOvershoot`, `UnseenComeFirst`, `PageIsFilled`, `StaleIsExplained`, `WalkShowsAll`, `TrayAgrees`, `InboxIsComplete`, `OrphansAreCollected`, `PurgeIsSafe`, `HistoryIsTheirs`, `DeletionsLast` |

Why the bounds are enough for what is asked. One photo already meets two
workers, the reconciler, a request and an author at once; a second upload only
shares the workers' loops. One post with a sound gives content with two media
in different states. One fault is what separates the sweeps from the normal
path, two let the repair itself be hit. `MaxStalled` is the processors' own
value (2 and 1); in `media_reevaluation` the first stall fails the job, which
keeps the run short and leaves the repair to the reconciler. `media_full_batch`
starts from a state the pipeline reaches with both
uploads done (`MissedInit`), with `BATCH_SIZE` 1 in place of 50.

Handlers race for one receipt in pairs: two of sweeps and reads, or one of them
against leaving; a send has its message to itself (`SendsAlone`). A message each
way makes either user sender and recipient. A refresh only changes a presence
key, which connecting, going away, disconnecting and the expiry do in
`chat_receipts` already; its own races are the subject of `chat_liveness`.
Handlers are symmetric in `chat_receipts`. One fault separates a message from its
receipts, or a find from its write.
Repair does not depend on faults, so `chat_liveness` has none; its properties
excuse them. A second socket per user adds only that a disconnect of one makes
the other's user offline, a state that the expiry reaches with a socket open as
well.

A call is a row, a log and marks of its own; what calls share are the users' marks,
and `EarlierCall` stands for whoever else has set them. Two handlers make every
stale save: the one that read and the one that wrote meanwhile. A third would
overwrite what is overwritten already.

`back_office` and `feed_services` put services side by side that share no state,
so a joint behaviour is one behaviour of each; `part` says which service runs, and
the others rest in their initial state. Each race in them is of two requests about
one row. `MaxItems` and `MaxReports` are the counts at which the risk formulas
saturate or change label. The calendar has months of different lengths, and the
window may start and end anywhere in them. Two rows in a millisecond and one row
per page make a page end inside a millisecond. `MaxClock` lets a member leave and
come back around a message on its way.

### Fairness

`Fairness` is weak fairness of each handler's next step, the workers' loops, the
reconciler's interval, BullMQ's stall check and the clock (`Age`): the event
loop and the interval keep running, and every restart starts them again. Taking
the job of one media is strongly fair because a queue is first in, first out: a
waiting job is taken though the worker is busy again and again. Users create,
attach and commit as they like, and no fault ever has to happen.

In `ChatDelivery` it is weak fairness of each handler's next step, as every
query is answered, and for a user without a socket of the refreshes in flight
and the expiry of the key: nothing can refresh it any more, so its TTL runs out.
While a socket is open nothing is assumed of the key.

In `CallSignaling` a handler that has started goes on, a pending ring timer fires
and a Redis key with a TTL expires. Nobody has to call, answer or hang up, and no
webhook has to come. The liveness properties of `calls` excuse a restart, which
loses timers for good; `BusyEnds` does not, as the marks expire all the same.
`back_office` and `feed_services` check safety only and assume no fairness.

### What the violations show

- `FailureBlocksPublication`. `media-delivery.util.ts:34` says a moderation
  failure blocks publication. The reconciler queues the stuck rows it read
  earlier; a moderation that passed meanwhile runs again, fails, and writes
  FAILED/PENDING after an author has read the media as cleared. The content is
  published with its media in the state that should block it.
- `AttachKeepsRejection`. The validator refuses rejected media, but a rejection
  between validation and save is overwritten by the cascade, and the media goes
  back to awaiting a verdict it already had. The same write-back can put
  UPLOADED with no moderation status over a cleared row, which no sweep looks
  for, or take the variants from a READY row; that is why `ReadyHasVariants`
  excepts media a post or ad wrote back, and why `ReevaluatesMissed` is checked
  on a status.
- `ReevaluatesMissed` with a full batch. The reconciler finds the same hopeless
  content in every round.
- `RaceDecidesOnline`. The comment on the connect event (`ws.gateway.ts:68`) says
  that a race with an inbound message is decided online. A send that read its
  recipient's presence before the connect and saves the receipt after the sweep
  has looked leaves it undelivered, and `SweepCatchesUp` does not help: it
  speaks of receipts that exist when a sweep starts. The next connect or
  presence.active repairs it.

### What the exceptions in the properties say

Some properties hold with an exception that the code is responsible for; and some
claims do not hold and are not stated. A reader of the code should know them.

- *Admin access.* Revoke and demote count the other super admins and save later
  (`admin-access.service.ts:372`): two of them at once can leave nobody, which
  the tests of the service (one at a time) do not see.
- *Accounts.* A login that finds the address unverified queues a new code and
  throws, which rolls the code back (`auth.service.ts:896`): the mailed code does
  not verify. `CodesFitTheirRow` speaks of the codes in rows.
- *Text review.* An approval publishes an edit that was held after the administrator
  had listed the row, unread (`admin.service.ts:75`, `unread`). A rejection saved over an edit of an ad or a thought brings the
  rejected part back, and an edit of the other part publishes it (`undone`).
  `approveComment` sets the status before `finalizePendingComment` asks whether
  the comment is pending.
- *Trust queue.* An update between the two statements of a save mixes two
  decisions (`mixed`). The badge
  counts critical reports only, not the users and items the list shows as well.
- *Risk.* The order of the lists (`riskProxy`) is not that of the score: three pending
  items, one of them a media whose old reason reads like nudity, may have a high label
  and a proxy of 15, below an account with two plain reports (16). Resolving
  a serious report as upheld can lower the score; deleted accounts stay in the
  tiles of the command center.
- *Feed.* Rows of the millisecond a page ended in may be skipped. With ads a page
  may be short of posts already seen. Approving a held text invalidates no
  cache, and follow and unfollow invalidate before they commit: a cached page may
  show what was, until it expires.
- *Stories.* A status whose text is held is listed for followers who cannot view it.
- *Notifications.* The row of a transaction that rolls back stays. The duplicate
  key does not name the actor, so a second like within a minute is silent.
- *Media.* Content that attaches a medium while it is being purged loses it
  (`attachedLate`); a transcode beside a purge leaves objects without a row (`overran`).
- *Engagements.* Two un-likes at once decrement twice, so counters may be too low;
  deleting a comment that is not public decrements too.
- *Chats.* An edit undoes a deletion for everyone that came in between; `markRead` on
  another device, or the sending itself, one for oneself. An edit after a deletion
  writes its text into the deleted message. Members
  can be added twice, and count unread messages twice. A group can be left
  without an admin. Deleted messages count as unread.

## Proofs

`MediaPipelineProofs` proves, for every set of media, content and concurrent
requests, every stall count, batch size and number of faults, from
`MediaAssumption` (the sets are disjoint where the code keeps separate tables
or ids, the numbers are naturals):

- `TypeCorrect`, `PipelineInvariant`, `PublicationSafe`, `TranscodeSafe`,
  `ReadySafe`: `Spec => []Inv` for the invariants of `media_safety`;
- `Implements`: `Spec => Gate!GateSpec`.

None of the safety properties is inductive alone. `PublishedWasCleared` is
broken by a `Settle` that carries an outcome nobody justified, so
`OutcomeJustified` says that what a thread carries was true of the history when
it was read; the history only grows, so an old read stays justified although
the rows have changed. `DraftJustified` says the same of what an open
transaction read, which is needed once it writes rows back. `TodoCommitted`
keeps evaluations to committed content. `TranscodeOnlyCleared` needs
`HandOverCleared`: every thread with `enqueueTranscode` ahead of it, and every
job and sweep, has a media that was cleared. `ReadyHasVariants` needs
`OutputsFirst`, which covers the catch block's second read. `AtWork` and
`RowsExist` say that threads, jobs and sweeps name media with a row. The
conjunction is `PipelineInv`; `MediaPipelineSteps` shows each action preserves
it, action by action.

`ChatDeliveryProofs` proves, for every set of users, chats, messages and
handlers, from `ChatAssumption` (messages have a sender and a chat, the bounds
are naturals, the null values are none of the others):

- `Invariance`: the inductive invariant `DeliveryInv`;
- `TypeCorrect` and `ReadsAreDelivered`: the invariants of `chat_receipts`;
- `Refinement`: `Spec => ImplementsReceiptLife`.

That receipts only advance is not inductive: a send overwrites whatever receipt
its message has, and a read inserts what it found. `SendsAlone` says that a
message being sent is in no other handler's hands, neither sent nor found, and
`HandlerSound` that it has no receipt yet, that its recipients are past or
present members other than the sender, and that what a sweep or a read has found
was a receipt once. Past membership only grows, so an old read stays justified
when the user has left. `WritingAdvances` is then the refinement's one real
step.

`CallSignalingProofs` proves `TypeCorrect`, `RingsAreCovered` and `Refinement` (of
`CallLife`) for any calls between different users and any number of handlers and faults. A
stale row is saved over a newer one at any time, so no property of statuses is
inductive alone. What helps is that a handler writes settled rows only, and that
once a call has stopped ringing every row in a handler's hands that will be saved
is settled too (`HandlersSound`). `StartsAlone` is needed for the insert: nobody
can act on a call whose row does not exist, so nobody has settled it before.

`AccountsProofs` proves `CodesFit` and `VerifiedStay` for any addresses, servers,
rows and codes, from `AccountsAssumption`. The invariant (`AccountsInv`) says of
each row and of each request that the codes in it were made for its own id, and
that a code, once made, is never made again for another row. An update then needs
only that the id in hand is the id in the table.

`AccountsProofs` goes on with the administrators: `AccessAccounted`, for any users,
rows of memberships and concurrent requests, from the assumptions on the tables the
service may start with. A request reads a row, does other things, and writes the
whole row back, so what is in the table says nothing of what it will be:
`ErrandHolds` says of every row in a request's hands that its user has joined and
that a super role in it was granted, or is about to be by a super admin. Joining
and granting are history and only grow, so a stale row may be written at any time.

It ends with the risk of an account: `RiskShown`, for any number of items and
reports. `RiskInv` has what the counts owe each other: a category score comes with
a text that carries it, a reason that names nudity with a media that is rejected or
pending with a reason, severe reports are among the open ones. The rest is arithmetic. A
score of 50 needs
`65 * content + 35 * enforcement >= 4950`, where both are at most 100; so reports
alone reach 35, and every way to get there with items makes `riskProxy` exceed 16 but
one: three pending items, two texts at the top score and a media with an old reason.
The proof showed a bound the runs had hidden: the profile lists fifty entries of
an account's history before the reports are added and the feed cuts after, so the
two numbers agree only when the sum is cut as well, which no run has the items to
reach.

`ModerationProofs` proves `ResolvedWhole` and `ReportsAreCounted` of the trust queue for
any number of reports, analysts and decisions. `Holds` says that what a request read was
one decision whole, and that between select and update it knows every column in
which its entity and the row differ, unless it was overtaken; so the update
leaves the whole entity in the row. It proves `ChartCovers` for every calendar whose
buckets follow each other (`CalendarAssumption`) and every window: the cursor is always
the start of a bucket, and none between the first bucket and the cursor was passed over.
And it proves `PublicTextsCleared` for any texts and desks. That public text was cleared is
not inductive: a verdict is reached on what was listed, read anew by id, and written to a
row that may have changed again. `ListingHolds` says that all an approval of the row would
publish is in the listing, unless the desk is known to be late; it rests on `Stands`, that
a body is never lost, and `HeadingsHold`, that a heading an approval leaves alone was
cleared. `HandHolds` says that what a desk is about to publish was cleared or is among
the unread, `PartsHold` that the part of an ad or a thought an edit leaves alone
was too, as long as no rejection was saved over an edit.

`SocialProofs` has four components.
- `InboxComplete`: dedupe keys, pushes and what notify skipped for them stand for rows
  (`RowsComeFirst`), and between its chunks a broadcast has pushed to whom it has saved
  rows for (`ChunksGoTogether`).
- `HistoriesAreTheirs`: a seat is younger than its user's last departure, an author is no
  recipient of their own message, and a receipt that is missing went when its user left.
- `DeletionsAreKept`: besides the row or receipt that says deleted, no handler holds an
  older one (`DeletionsHold`), and once a deletion is known to all of them no later read
  can bring another.
- `NoOvershoot`: counters are compared with cardinalities, so the proof is about finite
  sets. A row read before is of the same comment and has no more replies than were counted
  since, because `counted` only grows; the deletion of a thread subtracts the number of
  comments it removes, and these are disjoint from those still counted.
- `PurgesAreSafe` and `OrphansCollected`, for any media, contents, tasks and failures.
  `LateUsesKnown` says that whoever uses a medium in the middle of a purge came after the
  look; `VariantsKnown` and `VisitsKnown` that objects are in the store only as long as a
  row, a job or a purge knows of them; `OrphansAreKnown` that an orphan with a row has a
  task that will come to it, as long as nothing broke.

`FeedProofs` has four as well.
- `TraysAgree`: what each query of the tray found still holds of
  every status that did not change since (`moved`), so the last one can be compared with
  the first.
- `StaleExplained`: `RequestHolds` says of a reader at each of its steps what
  the property says of the entry it will put; a deletion that overtakes it marks it as
  late, and what it puts then is excused. A writer's step needs only that whatever it
  makes stale is among the keys it still has to delete.
- `WalksShowAll`, for any finite set of rows and page size: a page, cached or not, is
  sound for the cursor it was asked with (`PageSound`), and a walk has shown what is not
  below its cursor or shares a millisecond with the end of a page. The last row of a
  page is a minimal element, which the library's theorem on well-founded subsets gives.
- `UnseenFirst` and `PagesFill`, for any pools, page size, offset and cursor. `RoundsHold`
  says that the idle rounds are the slots of the template searched last, without success;
  twenty of them are the whole template, so no pool has anything left, and a phase ends
  only then or with a full page. `PhasesHold` keeps what the first phase has established.
  `RankPool` is the set of the ways to rank a pool, of which `FeedInit` picks one per
  pool: that one exists for every pool is an induction over data.

Assumptions are named in the modules, and TLC evaluates them in the runs: sets that are
tables in one database are finite (`FeedRow`, `Piece`, `Advert`), slots and times are
numbers, null is no value, and the rows a table starts with have the types of their columns.

Every invariant that a run checks is stated by a theorem, and so are the action
properties and both kinds of refinement. Only model-checked: the eight
liveness properties (`StuckSettles`, `UploadSettles`, `ReevaluatesMissed`, `RingingEnds`,
`EndedCallIsLogged`, `BusyEnds`, `SweepCatchesUp`, `OfflineInTheEnd` with their fairness),
and the violations. Liveness and `ENABLED` are beyond the prover, and so is what a
recursive definition computes for every input.

## Plan

Modelled and checked: the components of the table above, as `PROJECT.json` states.
What would come next, in this order:

1. Theorems about the safety half of the liveness properties: what is stuck is always
   known to a job, a sweep or the reconciler.
2. Rooms, typing and the presence scans of the gateway; details of a group; blocks.
3. Ring timers over a restart, if the code comes to store them.

## Not modelled

- Call history, trends, search and sounds: queries that change nothing.
- LiveKit tokens, sessions' tokens, the protocols of Google, Apple and TikTok: what
  they hand to the code in `src` is a choice of the model.
- Storage providers: their objects are sets of files in `MediaRemoval`; the status
  they give a new sound is `SoundRow` of `MediaPipeline`.
- Mails, templates, texts of events, the IP allowlist and the session timeout.
- Live streams (an entity without a service), legacy workers that no module
  registers, migrations, seeds, configuration and wiring.
- Within modelled components: tags, post views, chat attachments and search, blocks,
  group details, profile columns, listings and filters. `PROJECT.json` says so at
  each component.
