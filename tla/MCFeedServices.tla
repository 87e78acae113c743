---------------------------- MODULE MCFeedServices ----------------------------
(* Instances for TLC of the services around posts, the feed and chats.  They *)
(* share no state: one run takes each in turn, chosen by part, while the     *)
(* others rest in an initial state of theirs.                                *)
EXTENDS Engagements, FeedRanking, FeedCache, FeedPages, Stories, Notifications, MediaRemoval,
        ChatHistory

CONSTANT Parts

VARIABLE part

Rest(p, state) == part = p \/ state

OnlyDiscovery ==
  /\ supply["discovery"] \in RankPool({Candidate(p, "discovery", TRUE) : p \in Piece})
  /\ \A pool \in Pool \ {"discovery"} : supply[pool] = << >>

Init ==
  /\ part \in Parts
  /\ EngageInit
  /\ FeedInit
  /\ Rest("ranking", OnlyDiscovery /\ cutoff = {} /\ offset = 0)
  /\ FeedCacheInit /\ FeedPagesInit
  /\ StoriesInit /\ Rest("stories", follows = {})
  /\ NotifyInit /\ Rest("notify", enabled = TRUE)
  /\ RemovalInit /\ HistoryInit

Next ==
  /\ UNCHANGED part
  /\ \/ /\ part = "engage" /\ EngageNext
        /\ UNCHANGED <<feedVars, feedCacheVars, feedPageVars, storyVars, notifyVars, removalVars, historyVars>>
     \/ /\ part = "ranking" /\ FeedNext
        /\ UNCHANGED <<engageVars, feedCacheVars, feedPageVars, storyVars, notifyVars, removalVars, historyVars>>
     \/ /\ part = "cache" /\ FeedCacheNext
        /\ UNCHANGED <<engageVars, feedVars, feedPageVars, storyVars, notifyVars, removalVars, historyVars>>
     \/ /\ part = "pages" /\ FeedPagesNext
        /\ UNCHANGED <<engageVars, feedVars, feedCacheVars, storyVars, notifyVars, removalVars, historyVars>>
     \/ /\ part = "stories" /\ StoriesNext
        /\ UNCHANGED <<engageVars, feedVars, feedCacheVars, feedPageVars, notifyVars, removalVars, historyVars>>
     \/ /\ part = "notify" /\ NotifyNext
        /\ UNCHANGED <<engageVars, feedVars, feedCacheVars, feedPageVars, storyVars, removalVars, historyVars>>
     \/ /\ part = "removal" /\ RemovalNext
        /\ UNCHANGED <<engageVars, feedVars, feedCacheVars, feedPageVars, storyVars, notifyVars, historyVars>>
     \/ /\ part = "history" /\ HistoryNext
        /\ UNCHANGED <<engageVars, feedVars, feedCacheVars, feedPageVars, storyVars, notifyVars, removalVars>>

allVars == <<part, engageVars, feedVars, feedCacheVars, feedPageVars, storyVars, notifyVars, removalVars, historyVars>>

Spec == Init /\ [][Next]_allVars

(***************************************************************************)
(* Values of the constants                                                 *)
(***************************************************************************)
\* Reposts score above posts of their age; two posts score the same, and the cursor is at one.
ScoreOf(id, pool) ==
  CASE pool = "repost" -> 2 * id + 1 [] pool = "ad" -> 3 [] OTHER -> IF id = 1 THEN 2 ELSE 5
Cursors == {{}, {[score |-> 5, id |-> 3]}}

RowKind == [i \in FeedRow |-> IF i = 2 THEN "ad" ELSE "post"]

\* Both stories are of one owner; a post and a status link the same media.
OneOwner == [s \in Story |-> CHOOSE o \in Owner : TRUE]
ItemKind == [c \in Item |-> IF c = 1 THEN "post" ELSE "status"]

\* The message is of one of the two who may be in the chat.
Writes == [m \in Note |-> CHOOSE u \in Person : TRUE]
=============================================================================
