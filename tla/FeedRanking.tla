---------------------------- MODULE FeedRanking ----------------------------
(***************************************************************************)
(* One page of the ranked feed: FeedService.getRankedFeed fetches four     *)
(* pools of candidates, FeedRankingService ranks each and mergeBySlots     *)
(* fills the page from them, one slot of the template at a time.           *)
(*                                                                         *)
(* Scores and the hash of the seed are arithmetic on times and counters;   *)
(* here a candidate has the score Score gives it and the seed gives the    *)
(* offset into the template.                                               *)
(***************************************************************************)
EXTENDS Naturals, Sequences, FiniteSets, SequencesExt

CONSTANTS
  Piece,           \* posts, as numbers: ids are compared
  Advert,          \* ads
  Score(_, _),     \* finalScore of an id in a pool
  Offset,          \* where the hash of a seed may start in the template
  Cutoff,          \* sets of at most one cursor, the score and id a page has to stay below
  PageLimit        \* limit of the page

ASSUME RankingAssumption ==
  /\ IsFiniteSet(Piece) /\ IsFiniteSet(Advert) /\ Piece \cap Advert = {}
  /\ Offset \subseteq Nat /\ PageLimit \in Nat

VARIABLES
  supply,    \* pools, each in rank order
  cutoff,    \* the cursor of the request, if it has one
  offset,    \* slotOffset
  phase,     \* "fresh", "any" (the two calls of fillPhase) or "done"
  slotIdx,   \* slotIdx and safety, which run together
  idle,      \* idleRounds
  page       \* result

feedVars == <<supply, cutoff, offset, phase, slotIdx, idle, page>>

Pool == {"discovery", "following", "repost", "ad"}

\* FEED_SLOT_TEMPLATE
Template == <<"discovery", "following", "discovery", "repost", "discovery", "following",
  "ad", "discovery", "following", "discovery", "repost", "discovery", "following", "ad",
  "discovery", "repost", "discovery", "following", "discovery", "discovery">>

\* What the queries know of a post: whether its owner is followed, who reposted it, and
\* whether the viewer has seen it, before the latest repost (renewed) or after.
Standing == {s \in [followed : BOOLEAN, reposted : BOOLEAN, seen : BOOLEAN, renewed : BOOLEAN] :
               s.renewed => s.reposted /\ s.seen}

\* isFreshForViewer
IsFresh(s, pool) == ~s.seen \/ (pool = "repost" /\ s.renewed)

Candidate(id, pool, fresh) ==
  [id |-> id, pool |-> pool, score |-> Score(id, pool), fresh |-> fresh]

\* fetchDiscoveryPostCandidates, fetchFollowingPostCandidates, fetchFollowedRepost-
\* Candidates, fetchAdCandidates: discovery takes what following does not.
Fetched(standing, adverts) ==
  [pool \in Pool |->
     IF pool = "ad" THEN {Candidate(a, pool, TRUE) : a \in adverts}
     ELSE {Candidate(p, pool, IsFresh(standing[p], pool)) :
             p \in {q \in Piece : CASE pool = "discovery" -> ~standing[q].followed
                                    [] pool = "following" -> standing[q].followed
                                    [] pool = "repost" -> standing[q].reposted}}]

RanksAbove(a, b) ==
  \/ a.fresh /\ ~b.fresh
  \/ a.fresh = b.fresh /\ a.score > b.score
  \/ a.fresh = b.fresh /\ a.score = b.score /\ a.id > b.id

\* What rankPool makes of a pool: fresh first, then the score, then the id.  There is one
\* such sequence, as a pool has a post once.
RankPool(S) ==
  {s \in SetToSeqs(S) : \A i, j \in 1..Cardinality(S) : i < j => RanksAbove(s[i], s[j])}

FeedInit ==
  /\ \E standing \in [Piece -> Standing], adverts \in SUBSET Advert :
       LET fetched == Fetched(standing, adverts)
       IN \E d \in RankPool(fetched["discovery"]), f \in RankPool(fetched["following"]),
             r \in RankPool(fetched["repost"]), a \in RankPool(fetched["ad"]) :
            supply = [pool \in Pool |-> CASE pool = "discovery" -> d [] pool = "following" -> f
                                          [] pool = "repost" -> r [] pool = "ad" -> a]
  /\ cutoff \in Cutoff
  /\ offset \in Offset
  /\ phase = "fresh" /\ slotIdx = 0 /\ idle = 0 /\ page = << >>

PostLike(c) == c.pool # "ad"
OnPage == {page[i].id : i \in DOMAIN page}

\* isBeforeCursor
BeforeCursor(c) ==
  \A cursor \in cutoff : c.score < cursor.score \/ (c.score = cursor.score /\ c.id < cursor.id)

\* Mutant: a post may come again from another pool.
TakeableAgain(c, onlyFresh) == BeforeCursor(c) /\ (onlyFresh => c.fresh)

\* takeFromPool: the first that fits; a post is taken once.
Takeable(c, onlyFresh) ==
  /\ BeforeCursor(c)
  /\ PostLike(c) => c.id \notin OnPage
  /\ onlyFresh => c.fresh
TakeFromPool(pool, onlyFresh) ==
  SelectInSeq(supply[pool], LAMBDA c : Takeable(c, onlyFresh))

\* The pools a slot is filled from, in order: its own and its substitutes.
Sources(slot, onlyFresh) ==
  <<slot>> \o (IF slot # "discovery" THEN <<"discovery">> ELSE << >>)
           \o (IF slot # "following" /\ onlyFresh THEN <<"following">> ELSE << >>)
           \o (IF slot # "repost" /\ onlyFresh THEN <<"repost">> ELSE << >>)

\* The candidate for a slot, in a sequence of length zero or one.
Choice(slot, onlyFresh) ==
  LET tried == Sources(slot, onlyFresh)
      at == SelectInSeq(tried, LAMBDA pool : TakeFromPool(pool, onlyFresh) # 0)
  IN IF at = 0 THEN << >>
     ELSE <<supply[tried[at]][TakeFromPool(tried[at], onlyFresh)]>>

\* One round of fillPhase's loop; resolveDedup has nothing to replace, as a post that is
\* on the page is not takeable.
FillSlot ==
  /\ phase # "done"
  /\ Len(page) < PageLimit /\ slotIdx < PageLimit * Len(Template) * 3
  /\ idle < Len(Template)
  /\ LET slot == Template[((offset + slotIdx) % Len(Template)) + 1]
         choice == Choice(slot, phase = "fresh")
     IN /\ page' = page \o choice
        /\ idle' = IF choice = << >> THEN idle + 1 ELSE 0
  /\ slotIdx' = slotIdx + 1
  /\ UNCHANGED <<supply, cutoff, offset, phase>>

\* Mutant: the second call is left out.
EndsAtOnce ==
  /\ phase # "done"
  /\ \/ Len(page) >= PageLimit
     \/ slotIdx >= PageLimit * Len(Template) * 3
     \/ idle >= Len(Template)
  /\ phase' = "done"
  /\ slotIdx' = 0 /\ idle' = 0
  /\ UNCHANGED <<supply, cutoff, offset, page>>

\* fillPhase(true) ends; fillPhase(false) follows unless the page is full.
EndPhase ==
  /\ phase # "done"
  /\ \/ Len(page) >= PageLimit
     \/ slotIdx >= PageLimit * Len(Template) * 3
     \/ idle >= Len(Template)
  /\ phase' = IF phase = "fresh" /\ Len(page) < PageLimit THEN "any" ELSE "done"
  /\ slotIdx' = 0 /\ idle' = 0
  /\ UNCHANGED <<supply, cutoff, offset, page>>

FeedNext == FillSlot \/ EndPhase
FeedSpec == FeedInit /\ [][FeedNext]_feedVars

(***************************************************************************)
(* Properties                                                              *)
(***************************************************************************)
Eligible == {c \in UNION {ToSet(supply[pool]) : pool \in Pool} : BeforeCursor(c)}

\* mergeBySlots shows a post once, though it may be in two pools and fill slots of either,
\* and recycles what the viewer has seen only when every fresh post is on the page.
UnseenComeFirst ==
  /\ \A i, j \in DOMAIN page :
       PostLike(page[i]) /\ page[i].id = page[j].id => i = j
  /\ \A i \in DOMAIN page : ~page[i].fresh =>
       \A c \in Eligible : c.fresh => \E j \in 1..(i - 1) : page[j].id = c.id

\* Without ads a page is short only when the pools have nothing more to show.
PageIsFilled ==
  phase = "done" /\ supply["ad"] = << >> =>
    \/ Len(page) = PageLimit
    \/ {c.id : c \in Eligible} = OnPage
=============================================================================
