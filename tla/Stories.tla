------------------------------- MODULE Stories -------------------------------
(***************************************************************************)
(* Statuses and the tray that shows them to a follower: StatusService,     *)
(* StatusCleanupService, ContentPublishService.evaluateStatus and          *)
(* FollowsService.                                                         *)
(*                                                                         *)
(* The tray is put together by four queries, one after the other, while    *)
(* statuses are published, reviewed, seen, expire and are deleted.  The    *)
(* model follows one viewer.  A status's text may be held for review; its  *)
(* media decides when it is published.                                     *)
(*                                                                         *)
(* Left out: paging of the tray, the owner's own lists, the media itself   *)
(* (modules MediaPipeline and MediaRemoval) and a review that overlaps     *)
(* another write of the row (module TextReview).                           *)
(***************************************************************************)
EXTENDS Naturals, FiniteSets

CONSTANTS
  Story,        \* statuses, numbered in the order they are created
  Owner,        \* accounts other than the viewer
  OwnerOf       \* [Story -> Owner]

ASSUME StoriesAssumption == OwnerOf \in [Story -> Owner]

VARIABLES
  follows,   \* the owners the viewer follows
  story,     \* story[s]: the row of statuses
  viewed,    \* statuses with a row in status_views
  viewing,   \* statuses the viewer may see, between the check and the upsert
  tray,      \* the request for the tray
  moved,     \* statuses that changed since the tray was asked for
  purge      \* statuses the clean-up has found

storyVars == <<follows, story, viewed, viewing, tray, moved, purge>>

NoStory == [state |-> "none", text |-> "clear", expired |-> FALSE]
NoTray == [pc |-> "idle", owners |-> {}, unseen |-> {}, list |-> {}, seen |-> {}]

StoriesInit ==
  /\ follows \in SUBSET Owner
  /\ story = [s \in Story |-> NoStory]
  /\ viewed = {} /\ viewing = {} /\ moved = {} /\ purge = {}
  /\ tray = NoTray

(***************************************************************************)
(* What may be seen                                                        *)
(***************************************************************************)
Shows(s) == story[s].state = "published" /\ ~story[s].expired

\* canViewStatus with isVisibleToViewer
CanView(s) == Shows(s) /\ story[s].text = "clear" /\ OwnerOf[s] \in follows

\* getUnseenOwnerIds
UnseenOwners(ids) == {OwnerOf[s] : s \in {t \in Story \ viewed : Shows(t) /\ OwnerOf[t] \in ids}}

(***************************************************************************)
(* Statuses                                                                *)
(***************************************************************************)
\* createStatus: without media, or with media already cleared, it is published at once.
CreateStatus(s, state, text) ==
  /\ story[s].state = "none" /\ \A r \in Story : r < s => story[r].state # "none"
  /\ story' = [story EXCEPT ![s] = [state |-> state, text |-> text, expired |-> FALSE]]
  /\ moved' = moved \cup {s}
  /\ UNCHANGED <<follows, viewed, viewing, tray, purge>>

\* evaluateStatus: publishing gives it a day from now.
EvaluateStatus(s, outcome) ==
  /\ story[s].state = "pending"
  /\ story' = [story EXCEPT ![s].state = outcome, ![s].expired = @ /\ outcome = "failed"]
  /\ moved' = moved \cup {s}
  /\ UNCHANGED <<follows, viewed, viewing, tray, purge>>

\* AdminService on a status whose text is held.
ModerateText(s, text) ==
  /\ story[s].text = "held" /\ story[s].state \notin {"none", "gone"}
  /\ story' = [story EXCEPT ![s].text = text]
  /\ UNCHANGED <<follows, viewed, viewing, tray, moved, purge>>

Expire(s) ==
  /\ story[s].state \in {"pending", "failed", "published"} /\ ~story[s].expired
  /\ story' = [story EXCEPT ![s].expired = TRUE]
  /\ moved' = moved \cup {s}
  /\ UNCHANGED <<follows, viewed, viewing, tray, purge>>

\* The views are deleted and then the statuses; a view put in between goes with its status.
Removes(S) ==
  /\ story' = [s \in Story |-> IF s \in S THEN [NoStory EXCEPT !.state = "gone"] ELSE story[s]]
  /\ viewed' = viewed \ S
  /\ moved' = moved \cup S

DeleteStatus(s) ==
  /\ story[s].state \notin {"none", "gone"}
  /\ Removes({s})
  /\ UNCHANGED <<follows, viewing, tray, purge>>

\* purgeExpired, which runs once at a time; the statuses it found are deleted by id.
PurgeFinds ==
  /\ purge = {}
  /\ purge' = {s \in Story : story[s].expired}
  /\ purge' # {}
  /\ UNCHANGED <<follows, story, viewed, viewing, tray, moved>>

PurgeDeletes ==
  /\ purge # {} /\ purge' = {}
  /\ Removes(purge)
  /\ UNCHANGED <<follows, viewing, tray>>

(***************************************************************************)
(* The viewer                                                              *)
(***************************************************************************)
FollowUser(o) ==
  /\ o \notin follows /\ follows' = follows \cup {o}
  /\ UNCHANGED <<story, viewed, viewing, tray, moved, purge>>

UnfollowUser(o) ==
  /\ o \in follows /\ follows' = follows \ {o}
  /\ UNCHANGED <<story, viewed, viewing, tray, moved, purge>>

MarkView(s) ==
  /\ CanView(s) /\ viewing' = viewing \cup {s}
  /\ UNCHANGED <<follows, story, viewed, tray, moved, purge>>

\* The upsert; the foreign key refuses a status that is gone.
UpsertView(s) ==
  /\ s \in viewing /\ viewing' = viewing \ {s}
  /\ viewed' = IF story[s].state = "gone" THEN viewed ELSE viewed \cup {s}
  /\ moved' = moved \cup {s}
  /\ UNCHANGED <<follows, story, tray, purge>>

(***************************************************************************)
(* getFeed                                                                 *)
(***************************************************************************)
\* getFeedOwnerIds and the owners that have something to show.
TrayOwners ==
  /\ tray.pc = "idle"
  /\ tray' = [NoTray EXCEPT !.pc = "unseen",
                !.owners = {OwnerOf[s] : s \in {t \in Story : Shows(t) /\ OwnerOf[t] \in follows}}]
  /\ moved' = {}
  /\ UNCHANGED <<follows, story, viewed, viewing, purge>>

TrayUnseen ==
  /\ tray.pc = "unseen"
  /\ tray' = [tray EXCEPT !.pc = "list", !.unseen = UnseenOwners(tray.owners)]
  /\ UNCHANGED <<follows, story, viewed, viewing, moved, purge>>

\* Mutant: the expired ones are listed.
TrayListAll ==
  /\ tray.pc = "list"
  /\ tray' = [tray EXCEPT !.pc = "views", !.list =
       {s \in Story : story[s].state = "published" /\ OwnerOf[s] \in tray.owners}]
  /\ UNCHANGED <<follows, story, viewed, viewing, moved, purge>>

TrayList ==
  /\ tray.pc = "list"
  /\ tray' = [tray EXCEPT !.pc = "views",
                !.list = {s \in Story : Shows(s) /\ OwnerOf[s] \in tray.owners}]
  /\ UNCHANGED <<follows, story, viewed, viewing, moved, purge>>

\* getViewedStatusIds; the answer goes out.
TrayViews ==
  /\ tray.pc = "views"
  /\ tray' = [tray EXCEPT !.pc = "sent", !.seen = tray.list \cap viewed]
  /\ UNCHANGED <<follows, story, viewed, viewing, moved, purge>>

TrayCloses ==
  /\ tray.pc = "sent" /\ tray' = NoTray
  /\ UNCHANGED <<follows, story, viewed, viewing, moved, purge>>

StoriesNext ==
  \/ \E s \in Story :
       \/ \E text \in {"clear", "held"}, state \in {"pending", "published"} :
            CreateStatus(s, state, text)
       \/ \E outcome \in {"failed", "published"} : EvaluateStatus(s, outcome)
       \/ \E text \in {"clear", "rejected"} : ModerateText(s, text)
       \/ Expire(s) \/ DeleteStatus(s) \/ MarkView(s) \/ UpsertView(s)
  \/ \E o \in Owner : FollowUser(o) \/ UnfollowUser(o)
  \/ PurgeFinds \/ PurgeDeletes
  \/ TrayOwners \/ TrayUnseen \/ TrayList \/ TrayViews \/ TrayCloses

StoriesSpec == StoriesInit /\ [][StoriesNext]_storyVars

(***************************************************************************)
(* Properties                                                              *)
(***************************************************************************)
\* The four queries of a tray agree, but for what changed while they ran: who is unseen has
\* an unseen status in the list, who is not has none, and nobody else's is listed.
TrayAgrees ==
  tray.pc = "sent" =>
    /\ \A o \in tray.unseen :
         \/ \E s \in tray.list \ tray.seen : OwnerOf[s] = o
         \/ \E s \in moved : OwnerOf[s] = o
    /\ \A s \in tray.list \ tray.seen : OwnerOf[s] \in tray.unseen \/ s \in moved
    /\ \A o \in tray.owners : (\E s \in tray.list : OwnerOf[s] = o)
                              \/ \E s \in moved : OwnerOf[s] = o
=============================================================================
