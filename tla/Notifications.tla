---------------------------- MODULE Notifications ----------------------------
(***************************************************************************)
(* Notifications of one user: NotificationDispatcher.notify inside the     *)
(* transaction of the like, follow, comment or repost it is about,         *)
(* NotificationService with its push queue, NotificationProcessor, and the *)
(* broadcasts of sendNotificationToUsers.                                  *)
(*                                                                         *)
(* The inbox row, the push job and the dedupe key are written beside the   *)
(* caller's transaction: they stay when it rolls back.  The key names the  *)
(* recipient, the event and the entity, not the actor, and lasts a minute. *)
(*                                                                         *)
(* Left out: templates, metadata, the read flag, and chat messages, whose  *)
(* events have no transaction around them.                                 *)
(***************************************************************************)
EXTENDS Naturals, FiniteSets

CONSTANTS
  Event,        \* things that happen to the user
  Keyed,        \* those about one entity, which share a dedupe key
  Recipient,    \* users a broadcast goes to
  ChunkSize,    \* recipients per batch
  Attempts      \* attempts of a push job

ASSUME NotificationsAssumption ==
  /\ Keyed \subseteq Event
  /\ ChunkSize \in Nat \ {0} /\ Attempts \in Nat \ {0}

VARIABLES
  enabled,     \* notificationEnabled
  teller,      \* teller[e]: where notify is for event e, and the preference it read
  inbox,       \* events with a row in notifications
  dedupe,      \* at most one event, the one that put the key into Redis
  push,        \* push[e]: the job, with the attempts made
  happened,    \* events whose transaction committed
  skipped,     \* skipped[e]: the event that e was taken for
  broadcast    \* the broadcast under way

notifyVars == <<enabled, teller, inbox, dedupe, push, happened, skipped, broadcast>>

NoJob == [state |-> "none", tries |-> 0]
NoBroadcast == [pc |-> "idle", todo |-> {}, chunk |-> {}, rows |-> {}, pushed |-> {}]

NotifyInit ==
  /\ enabled \in BOOLEAN
  /\ teller = [e \in Event |-> [pc |-> "new", sends |-> FALSE]]
  /\ inbox = {} /\ dedupe = {} /\ happened = {}
  /\ push = [e \in Event |-> NoJob]
  /\ skipped = [e \in Event |-> {}]
  /\ broadcast = NoBroadcast

AtT(e, pc) == teller[e].pc = pc
GoT(e, pc) == teller' = [teller EXCEPT ![e].pc = pc]

(***************************************************************************)
(* notify                                                                  *)
(***************************************************************************)
\* The caller's transaction has written its row; the recipient is read.
Notify(e) ==
  /\ AtT(e, "new")
  /\ teller' = [teller EXCEPT ![e] = [pc |-> IF e \in Keyed THEN "check" ELSE "save",
                                      sends |-> enabled]]
  /\ UNCHANGED <<enabled, inbox, dedupe, push, happened, skipped, broadcast>>

\* Mutant: the key is set as it is looked for.
ClaimsKey(e) ==
  /\ AtT(e, "check")
  /\ IF dedupe # {}
     THEN GoT(e, "commit") /\ skipped' = [skipped EXCEPT ![e] = dedupe] /\ UNCHANGED dedupe
     ELSE GoT(e, "save") /\ dedupe' = {e} /\ UNCHANGED skipped
  /\ UNCHANGED <<enabled, inbox, push, happened, broadcast>>

\* isDuplicate; a failing Redis says no.
IsDuplicate(e) ==
  /\ AtT(e, "check")
  /\ \/ /\ dedupe # {}
        /\ GoT(e, "commit")
        /\ skipped' = [skipped EXCEPT ![e] = dedupe]
     \/ GoT(e, "save") /\ UNCHANGED skipped
  /\ UNCHANGED <<enabled, inbox, dedupe, push, happened, broadcast>>

NotifyUser(e) ==
  /\ AtT(e, "save")
  /\ inbox' = inbox \cup {e}
  /\ GoT(e, IF teller[e].sends THEN "push" ELSE IF e \in Keyed THEN "mark" ELSE "commit")
  /\ UNCHANGED <<enabled, dedupe, push, happened, skipped, broadcast>>

EnqueuePush(e) ==
  /\ AtT(e, "push")
  /\ push' = [push EXCEPT ![e].state = "waiting"]
  /\ GoT(e, IF e \in Keyed THEN "mark" ELSE "commit")
  /\ UNCHANGED <<enabled, inbox, dedupe, happened, skipped, broadcast>>

SetDedupeKey(e) ==
  /\ AtT(e, "mark")
  /\ dedupe' = {e}
  /\ GoT(e, "commit")
  /\ UNCHANGED <<enabled, inbox, push, happened, skipped, broadcast>>

Commit(e) ==
  /\ AtT(e, "commit")
  /\ happened' = happened \cup {e}
  /\ GoT(e, "done")
  /\ UNCHANGED <<enabled, inbox, dedupe, push, skipped, broadcast>>

\* Postgres, Redis or the queue throws, or the commit is refused: the caller's
\* transaction rolls back, and the event did not happen.
NotifyThrows(e) ==
  /\ teller[e].pc \notin {"new", "check", "done", "failed"}
  /\ GoT(e, "failed")
  /\ UNCHANGED <<enabled, inbox, dedupe, push, happened, skipped, broadcast>>

DedupeKeyExpires ==
  /\ dedupe # {} /\ dedupe' = {}
  /\ UNCHANGED <<enabled, teller, inbox, push, happened, skipped, broadcast>>

UpdatePreference ==
  /\ enabled' = ~enabled
  /\ UNCHANGED <<teller, inbox, dedupe, push, happened, skipped, broadcast>>

(***************************************************************************)
(* The push worker                                                         *)
(***************************************************************************)
\* A failed attempt is tried again; OneSignal may have taken it all the same.
SendPush(e) ==
  /\ push[e].state = "waiting"
  /\ push' = [push EXCEPT ![e].tries = @ + 1,
                ![e].state = IF push[e].tries + 1 < Attempts THEN "waiting" ELSE "failed"]
     \/ push' = [push EXCEPT ![e].tries = @ + 1, ![e].state = "sent"]
  /\ UNCHANGED <<enabled, teller, inbox, dedupe, happened, skipped, broadcast>>

(***************************************************************************)
(* sendNotificationToUsers                                                 *)
(***************************************************************************)
Broadcast(to) ==
  /\ broadcast.pc = "idle" /\ to # {}
  /\ broadcast' = [broadcast EXCEPT !.pc = "save", !.todo = to]
  /\ UNCHANGED <<enabled, teller, inbox, dedupe, push, happened, skipped>>

\* The rows of a chunk, in one statement; then one batch job for it.
SaveChunk ==
  /\ broadcast.pc = "save"
  /\ \E chunk \in SUBSET broadcast.todo :
       /\ Cardinality(chunk) = ChunkSize \/ chunk = broadcast.todo
       /\ Cardinality(chunk) \in 1 .. ChunkSize
       /\ broadcast' = [broadcast EXCEPT !.pc = "push", !.chunk = chunk, !.rows = @ \cup chunk]
  /\ UNCHANGED <<enabled, teller, inbox, dedupe, push, happened, skipped>>

PushChunk ==
  /\ broadcast.pc = "push"
  /\ LET rest == broadcast.todo \ broadcast.chunk
     IN broadcast' = [broadcast EXCEPT !.pc = IF rest = {} THEN "done" ELSE "save",
                        !.todo = rest, !.chunk = {}, !.pushed = @ \cup broadcast.chunk]
  /\ UNCHANGED <<enabled, teller, inbox, dedupe, push, happened, skipped>>

BroadcastThrows ==
  /\ broadcast.pc \in {"save", "push"}
  /\ broadcast' = [broadcast EXCEPT !.pc = "failed"]
  /\ UNCHANGED <<enabled, teller, inbox, dedupe, push, happened, skipped>>

NotifyNext ==
  \/ \E e \in Event :
       \/ Notify(e) \/ IsDuplicate(e) \/ NotifyUser(e) \/ EnqueuePush(e)
       \/ SetDedupeKey(e) \/ Commit(e) \/ NotifyThrows(e) \/ SendPush(e)
  \/ DedupeKeyExpires \/ UpdatePreference
  \/ \E to \in SUBSET Recipient : Broadcast(to)
  \/ SaveChunk \/ PushChunk \/ BroadcastThrows

NotifySpec == NotifyInit /\ [][NotifyNext]_notifyVars

(***************************************************************************)
(* Properties                                                              *)
(***************************************************************************)
\* What happened to the user is in the inbox, or was taken for something about the same
\* entity that is there, even when that one's transaction was rolled back afterwards.  A
\* push always has its row in the inbox, and a whole broadcast ends with one push per
\* recipient; broken off, it has pushed to nobody without a row.
InboxIsComplete ==
  /\ \A e \in happened : e \in inbox \/ (skipped[e] # {} /\ skipped[e] \subseteq inbox)
  /\ \A e \in Event : push[e].state # "none" => e \in inbox
  /\ broadcast.pushed \subseteq broadcast.rows
  /\ broadcast.pc = "done" => broadcast.pushed = broadcast.rows
=============================================================================
