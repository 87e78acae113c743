----------------------------- MODULE Engagements -----------------------------
(***************************************************************************)
(* The counters of a published post: likes, bookmarks and reposts,         *)
(* comments and replies, with the moderation of comments by AdminService.  *)
(*                                                                         *)
(* Every method is a transaction that reads, awaits and writes.  Its first *)
(* write locks the row it is about until the commit, so the writes are one *)
(* action; what it read may be stale by then.  Counters move by SQL        *)
(* increments, rows of comments are saved whole.                           *)
(*                                                                         *)
(* Left out: notifications, tags, the text itself, and ads, whose code is  *)
(* the posts'.                                                             *)
(***************************************************************************)
EXTENDS Integers, FiniteSets, Sequences

CONSTANTS
  User, Server,    \* accounts; requests under way at a time
  MaxComments,     \* bound: comments and replies written
  MaxWrites        \* bound: transactions that commit

ASSUME EngagementsAssumption == MaxComments \in Nat /\ MaxWrites \in Nat

VARIABLES
  marks,         \* marks[k]: who has a row in likes, bookmarks or reposts
  markCount,     \* posts.like_count, bookmark_count and repost_count
  comments,      \* the rows of comments, in the order they were saved
  commentCount,  \* posts.comment_count
  counted,       \* the comments whose deferred effects have run
  work,          \* work[s]: the transaction server s runs
  writes         \* transactions committed so far

engageVars == <<marks, markCount, comments, commentCount, counted, work, writes>>

Id == 1 .. MaxComments
Mark == {"like", "bookmark", "repost"}
Comment == [parent : 0 .. MaxComments, replyTo : 0 .. MaxComments,
            status : {"passed", "pending", "rejected"}, deleted : BOOLEAN, replies : Int]
Nothing == [parent |-> 0, replyTo |-> 0, status |-> "passed", deleted |-> FALSE, replies |-> 0]
Resting == [pc |-> "idle", u |-> "none", id |-> 0, row |-> Nothing, had |-> FALSE]

EngageInit ==
  /\ marks = [k \in Mark |-> {}] /\ markCount = [k \in Mark |-> 0]
  /\ comments = <<>> /\ commentCount = 0
  /\ counted = {}
  /\ work = [s \in Server |-> Resting]
  /\ writes = 0

Opens(s, label, fields) ==
  /\ work[s].pc = "idle" /\ writes < MaxWrites
  /\ work' = [work EXCEPT ![s] = [fields EXCEPT !.pc = label]]
  /\ UNCHANGED <<marks, markCount, comments, commentCount, counted, writes>>

Commits(s, label) ==
  /\ work[s].pc = label
  /\ work' = [work EXCEPT ![s] = Resting]
  /\ writes' = writes + 1

(***************************************************************************)
(* Toggles                                                                 *)
(***************************************************************************)
FindsMark(s, k, u) == Opens(s, k, [Resting EXCEPT !.u = u, !.had = u \in marks[k]])

ToggleLike(s, u) == FindsMark(s, "like", u)
ToggleBookmark(s, u) == FindsMark(s, "bookmark", u)
ToggleRepost(s, u) == FindsMark(s, "repost", u)

SetsMark(k, has, by) ==
  /\ marks' = [marks EXCEPT ![k] = has]
  /\ markCount' = [markCount EXCEPT ![k] = @ + by]

\* Mutant: a second row is refused after the count went up.
ToggleCountsFirst(s, k) ==
  /\ Commits(s, k)
  /\ LET u == work[s].u
     IN IF work[s].had THEN SetsMark(k, marks[k] \ {u}, -1) ELSE SetsMark(k, marks[k] \cup {u}, 1)
  /\ UNCHANGED <<comments, commentCount, counted>>

\* remove deletes by id and counts down, whether a row was still there or not; the unique
\* index refuses a second row, and the transaction with it.
ToggleWrites(s, k) ==
  /\ Commits(s, k)
  /\ LET u == work[s].u
     IN IF work[s].had
        THEN SetsMark(k, marks[k] \ {u}, -1)
        ELSE SetsMark(k, marks[k] \cup {u}, IF u \in marks[k] THEN 0 ELSE 1)
  /\ UNCHANGED <<comments, commentCount, counted>>

LikeWrites(s) == ToggleWrites(s, "like")
BookmarkWrites(s) == ToggleWrites(s, "bookmark")
RepostWrites(s) == ToggleWrites(s, "repost")

(***************************************************************************)
(* Comments                                                                *)
(***************************************************************************)
\* The counters of replies that move with a comment: its parent's and, where it answers
\* another reply, that one's.
Moves(c, by) ==
  LET touched == {c.parent, c.replyTo} \ {0}
  IN [i \in DOMAIN comments |->
        IF i \in touched THEN [comments[i] EXCEPT !.replies = @ + by] ELSE comments[i]]

\* A comment the text moderation holds is saved without its effects.
Adds(s, row) ==
  /\ Len(comments) < MaxComments
  /\ comments' = Append(IF row.status = "pending" THEN comments ELSE Moves(row, 1), row)
  /\ IF row.status = "pending"
     THEN UNCHANGED <<commentCount, counted>>
     ELSE commentCount' = commentCount + 1 /\ counted' = counted \cup {Len(comments) + 1}

CreateComment(s, status) ==
  /\ work[s].pc = "idle" /\ writes < MaxWrites
  /\ Adds(s, [Nothing EXCEPT !.status = status])
  /\ writes' = writes + 1
  /\ UNCHANGED <<marks, markCount, work>>

ReplyToComment(s, i) ==
  /\ i \in DOMAIN comments
  /\ Opens(s, "reply", [Resting EXCEPT !.id = i, !.row = comments[i]])

ReplyWrites(s, status) ==
  /\ Commits(s, "reply")
  /\ LET to == work[s].id
         parent == IF work[s].row.parent # 0 THEN work[s].row.parent ELSE to
     IN Adds(s, [Nothing EXCEPT !.parent = parent, !.replyTo = to, !.status = status])
  /\ UNCHANGED <<marks, markCount>>

DeleteComment(s, i) ==
  /\ i \in DOMAIN comments /\ ~comments[i].deleted
  /\ Opens(s, "delete", [Resting EXCEPT !.id = i, !.row = comments[i]])

\* Saves the whole row as it was read, marked deleted: replyCount too, which another
\* transaction may have moved.  A comment that was never counted is counted down as well.
DeleteWrites(s) ==
  /\ Commits(s, "delete")
  /\ LET i == work[s].id
         row == [work[s].row EXCEPT !.deleted = TRUE]
     IN comments' = [Moves(row, -1) EXCEPT ![i] = row]
  /\ commentCount' = commentCount - 1
  /\ UNCHANGED <<marks, markCount, counted>>

(***************************************************************************)
(* AdminService                                                            *)
(***************************************************************************)
ModerateComment(s, i, verdict) ==
  /\ i \in DOMAIN comments
  /\ verdict = "approve" => comments[i].status = "pending"
  /\ Opens(s, verdict, [Resting EXCEPT !.id = i, !.row = comments[i]])

\* finalizePendingComment runs the deferred effects of a comment that is still pending.
FinalizePendingComment(row, i) ==
  IF row.status # "pending"
  THEN comments' = [comments EXCEPT ![i] = row] /\ UNCHANGED <<commentCount, counted>>
  ELSE /\ comments' = [Moves(row, 1) EXCEPT ![i] = row]
       /\ commentCount' = commentCount + 1
       /\ counted' = counted \cup {i}

\* approveComment sets the status, saves, and hands the same entity on.
ApproveWrites(s) ==
  /\ Commits(s, "approve")
  /\ FinalizePendingComment([work[s].row EXCEPT !.status = "passed"], work[s].id)
  /\ UNCHANGED <<marks, markCount>>

RejectWrites(s) ==
  /\ Commits(s, "reject")
  /\ comments' = [comments EXCEPT ![work[s].id] = [work[s].row EXCEPT !.status = "rejected"]]
  /\ UNCHANGED <<marks, markCount, commentCount, counted>>

EngageNext ==
  \E s \in Server :
    \/ \E u \in User : ToggleLike(s, u) \/ ToggleBookmark(s, u) \/ ToggleRepost(s, u)
    \/ LikeWrites(s) \/ BookmarkWrites(s) \/ RepostWrites(s)
    \/ \E status \in {"passed", "pending"} : CreateComment(s, status) \/ ReplyWrites(s, status)
    \/ \E i \in Id : ReplyToComment(s, i) \/ DeleteComment(s, i)
    \/ \E i \in Id, verdict \in {"approve", "reject"} : ModerateComment(s, i, verdict)
    \/ DeleteWrites(s) \/ ApproveWrites(s) \/ RejectWrites(s)

EngageSpec == EngageInit /\ [][EngageNext]_engageVars

(***************************************************************************)
(* Properties                                                              *)
(***************************************************************************)
\* However toggles, deletions and moderation overlap, no counter says more than there is:
\* likes, bookmarks and reposts no more than their rows, comments no more than are there
\* and were counted, and replies no more than were counted (a stale row may bring a deleted
\* one back).
CountersNeverOvershoot ==
  /\ \A k \in Mark : markCount[k] <= Cardinality(marks[k])
  /\ commentCount <= Cardinality({i \in counted : ~comments[i].deleted})
  /\ \A i \in DOMAIN comments : comments[i].replies <=
       Cardinality({j \in counted : i \in {comments[j].parent, comments[j].replyTo}})
=============================================================================
