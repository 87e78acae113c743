------------------------------ MODULE FeedPages ------------------------------
(***************************************************************************)
(* The chronological feed page by page (FeedService.getChronologicalFeed). *)
(*                                                                         *)
(* A page is the newest rows below a cursor, which names the last row of   *)
(* the page before: its time, cut to milliseconds by the Date it went     *)
(* through, and its id.  Pages are cached for ten seconds by cursor.  Rows *)
(* appear and disappear while somebody walks the pages; created_at is the  *)
(* time a row's transaction began, so a row may appear below newer ones.   *)
(*                                                                         *)
(* Left out: what a row looks like (module FeedCache), the reader's flags. *)
(***************************************************************************)
EXTENDS Integers, FiniteSets

CONSTANTS
  FeedRow,     \* posts and ads, as their ids
  KindOf,      \* [FeedRow -> {"post", "ad"}]: the table of a row
  MaxTime,     \* times of creation, in units smaller than a millisecond
  PerMs,       \* units in a millisecond
  Limit        \* rows per page

ASSUME FeedPagesAssumption ==
  /\ FeedRow \subseteq Nat /\ IsFiniteSet(FeedRow) /\ KindOf \in [FeedRow -> {"post", "ad"}]
  /\ MaxTime \in Nat /\ PerMs \in Nat \ {0} /\ Limit \in Nat \ {0}

VARIABLES
  feedRow, \* feedRow[i]: when i was created, and whether it is published
  pages,   \* the cache: at most one page per cursor
  walk     \* the reader on the way down

feedPageVars == <<feedRow, pages, walk>>

NoCursor == [t |-> MaxTime + PerMs, id |-> 0]     \* the top
Ended == [t |-> -1, id |-> 0]                  \* no next page
AtTheTop == [cursor |-> NoCursor, shown |-> {}, twice |-> FALSE, there |-> FeedRow, lasts |-> {}]

FeedPagesInit ==
  /\ feedRow = [i \in FeedRow |-> [t |-> 0, state |-> "new"]]
  /\ pages = {}
  /\ walk = AtTheTop

Published == {i \in FeedRow : feedRow[i].state = "shown"}

\* Mutant: the row of the cursor is not left out.
UpTo(i, c) == feedRow[i].t < c.t \/ (feedRow[i].t = c.t /\ i <= c.id)

\* (created_at, id) < (cursor)
Below(i, c) == feedRow[i].t < c.t \/ (feedRow[i].t = c.t /\ i < c.id)
Newer(i, j) == feedRow[i].t > feedRow[j].t \/ (feedRow[i].t = feedRow[j].t /\ i > j)
\* ORDER BY created_at DESC, id DESC LIMIT n
Newest(S, n) == {i \in S : Cardinality({j \in S : Newer(j, i)}) < n}

\* The two limited queries and the limited UNION ALL of them.
Rows(c) ==
  LET of(kind) == Newest({i \in Published : KindOf[i] = kind /\ Below(i, c)}, Limit)
  IN Newest(of("post") \cup of("ad"), Limit)

Millisecond(t) == t - (t % PerMs)

\* nextCursor; without one, or on a short page, the reader stops.
NextCursor(rows) ==
  IF Cardinality(rows) < Limit THEN Ended
  ELSE LET last == CHOOSE i \in rows : \A j \in rows \ {i} : Newer(j, i)
       IN [t |-> Millisecond(feedRow[last].t), id |-> last]

\* A page that is not in the cache is read and put there.  It remembers what was published
\* then, for the property.
GetChronologicalFeed(c) ==
  LET hit == {p \in pages : p.cursor = c}
      made == [cursor |-> c, rows |-> Rows(c), next |-> NextCursor(Rows(c)), there |-> Published,
               last |-> {Millisecond(feedRow[i].t) : i \in Rows(c)}]
      got == IF hit = {} THEN made ELSE CHOOSE p \in hit : TRUE
  IN /\ walk' = [cursor |-> got.next, shown |-> walk.shown \cup got.rows,
                 twice |-> walk.twice \/ walk.shown \cap got.rows # {},
                 there |-> walk.there \cap got.there,
                 lasts |-> walk.lasts \cup {got.next.t}]
     /\ pages' = pages \cup {got}

ReadPage ==
  /\ walk.cursor # Ended
  /\ GetChronologicalFeed(walk.cursor)
  /\ UNCHANGED feedRow

StartAgain ==
  /\ walk.cursor = Ended
  /\ walk' = AtTheTop
  /\ UNCHANGED <<feedRow, pages>>

PageExpires ==
  /\ \E p \in pages : pages' = pages \ {p}
  /\ UNCHANGED <<feedRow, walk>>

Create(i, t) ==
  /\ feedRow[i].state = "new"
  /\ feedRow' = [feedRow EXCEPT ![i] = [t |-> t, state |-> "hidden"]]
  /\ UNCHANGED <<pages, walk>>

Publish(i) ==
  /\ feedRow[i].state = "hidden"
  /\ feedRow' = [feedRow EXCEPT ![i].state = "shown"]
  /\ UNCHANGED <<pages, walk>>

\* Deleted, or taken back by a review: what was there all along no longer counts it.
Withdraw(i) ==
  /\ feedRow[i].state = "shown"
  /\ feedRow' = [feedRow EXCEPT ![i].state = "gone"]
  /\ pages' = {[p EXCEPT !.there = @ \ {i}] : p \in pages}
  /\ walk' = [walk EXCEPT !.there = @ \ {i}]

FeedPagesNext ==
  \/ ReadPage \/ StartAgain \/ PageExpires
  \/ \E i \in FeedRow : Publish(i) \/ Withdraw(i) \/ \E t \in 0 .. MaxTime : Create(i, t)

FeedPagesSpec == FeedPagesInit /\ [][FeedPagesNext]_feedPageVars

(***************************************************************************)
(* Properties                                                              *)
(***************************************************************************)
\* Whoever walks down the feed sees no row twice and every row that was published all the
\* while, whatever appears and disappears and whichever pages come from the cache, but for
\* rows of the millisecond a page ended in, which the next page may skip.
WalkShowsAll ==
  /\ ~walk.twice
  /\ walk.cursor = Ended =>
       \A i \in walk.there : i \in walk.shown \/ Millisecond(feedRow[i].t) \in walk.lasts
=============================================================================
