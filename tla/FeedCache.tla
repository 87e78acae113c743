------------------------------ MODULE FeedCache ------------------------------
(***************************************************************************)
(* The caches in front of the feed: FeedService.hydrateFeed and its page   *)
(* caches, FeedCacheInvalidationService and UserDisplayService, with the   *)
(* writers that invalidate them.                                           *)
(*                                                                         *)
(* Entries are put beside the database: a reader that misses reads the     *)
(* row and sets the entry some awaits later, a writer writes and deletes   *)
(* the entry some awaits later.  The model follows one post: its text, its *)
(* tags and its owner's name carry the number of their last edit.          *)
(*                                                                         *)
(* Left out: ads (the same code with another key), the viewer's own flags  *)
(* (read from the database each time), the counters, which no invalidation *)
(* follows, and the order of the page (module FeedRanking).                *)
(***************************************************************************)
EXTENDS Naturals, FiniteSets

CONSTANTS
  Reader, Writer,   \* feed requests, and requests that change the post or its owner
  MaxPostEdits      \* bound: edits

ASSUME FeedCacheAssumption == MaxPostEdits \in Nat

Key == {"tags", "base", "display"}

VARIABLES
  data,      \* data[k]: the edit in the database
  shown,     \* the post: "hidden", "visible" or "gone"
  cache,     \* cache[k]: at most one entry
  cachedPage, \* at most one cached page
  reader, writer

feedCacheVars == <<data, shown, cache, cachedPage, reader, writer>>

\* An entry: the edit it holds, the tags a base entry was built with, and whether it may
\* be stale for a reason named below.
Entry(v, t, excused) == [v |-> v, t |-> t, excused |-> excused]
IdleReader == [pc |-> "idle", shows |-> "none", has |-> [k \in Key |-> {}], late |-> {}]
IdleWriter == [pc |-> "idle", keys |-> {}]

FeedCacheInit ==
  /\ data = [k \in Key |-> 0]
  /\ shown = "visible"
  /\ cache = [k \in Key |-> {}]
  /\ cachedPage = {}
  /\ reader = [r \in Reader |-> IdleReader]
  /\ writer = [w \in Writer |-> IdleWriter]

(***************************************************************************)
(* A request for the feed                                                  *)
(***************************************************************************)
AtR(r, pc) == reader[r].pc = pc
GoR(r, pc) == reader' = [reader EXCEPT ![r].pc = pc]
After(k) == CASE k = "tags" -> "getBase" [] k = "base" -> "getDisplay" [] k = "display" -> "page"
GetPc(k) == CASE k = "tags" -> "getTags" [] k = "base" -> "getBase" [] k = "display" -> "getDisplay"
FetchPc(k) == CASE k = "tags" -> "fetchTags" [] k = "base" -> "fetchBase" [] k = "display" -> "fetchDisplay"
PutPc(k) == CASE k = "tags" -> "putTags" [] k = "base" -> "putBase" [] k = "display" -> "putDisplay"

GetPage(r) ==
  /\ AtR(r, "idle") /\ cachedPage = {}
  /\ GoR(r, "rows")
  /\ UNCHANGED <<data, shown, cache, cachedPage, writer>>

QueryRows(r) ==
  /\ AtR(r, "rows")
  /\ reader' = [reader EXCEPT ![r].shows = IF shown = "visible" THEN "post" ELSE "none",
                  ![r].pc = IF shown = "visible" THEN "getTags" ELSE "page"]
  /\ UNCHANGED <<data, shown, cache, cachedPage, writer>>

Get(r, k) ==
  /\ AtR(r, GetPc(k))
  /\ reader' = IF cache[k] = {} THEN [reader EXCEPT ![r].pc = FetchPc(k)]
       ELSE [reader EXCEPT ![r].has[k] = cache[k], ![r].pc = After(k),
               ![r].late = @ \cup {j \in {k, "page"} : \E x \in cache[k] : x.excused}]
  /\ UNCHANGED <<data, shown, cache, cachedPage, writer>>

\* The row is read; a base entry takes the tags the request already has.
Fetch(r, k) ==
  /\ AtR(r, FetchPc(k))
  /\ LET t == IF k = "base" THEN (CHOOSE x \in reader[r].has["tags"] : TRUE).v ELSE 0
         found == k # "base" \/ shown # "gone"
     IN reader' = [reader EXCEPT ![r].pc = IF found THEN PutPc(k) ELSE After(k),
                     ![r].has[k] = IF found THEN {Entry(data[k], t, FALSE)} ELSE {}]
  /\ UNCHANGED <<data, shown, cache, cachedPage, writer>>

\* An entry is excused if it was deleted, or built on one that was, while it was fetched.
Put(r, k) ==
  /\ AtR(r, PutPc(k))
  /\ LET late == k \in reader[r].late \/ (k = "base" /\ "tags" \in reader[r].late)
     IN /\ cache' = [cache EXCEPT ![k] = {Entry(x.v, x.t, late) : x \in reader[r].has[k]}]
        /\ reader' = [reader EXCEPT ![r].pc = After(k),
                        ![r].late = IF late THEN @ \cup {"page"} ELSE @]
  /\ UNCHANGED <<data, shown, cachedPage, writer>>

GetDisplay(r) == Get(r, "display")
FetchDisplay(r) == Fetch(r, "display")
PutDisplay(r) == Put(r, "display")

\* The page holds what the post's base entry held, if there was one.
PageOf(r) == [shows |-> reader[r].shows, base |-> reader[r].has["base"],
              excused |-> "page" \in reader[r].late]

PutPage(r) ==
  /\ AtR(r, "page")
  /\ cachedPage' = {PageOf(r)}
  /\ reader' = [reader EXCEPT ![r] = IdleReader]
  /\ UNCHANGED <<data, shown, cache, writer>>

(***************************************************************************)
(* Writers                                                                 *)
(***************************************************************************)
AtW(w, pc) == writer[w].pc = pc
GoW(w, pc) == writer' = [writer EXCEPT ![w].pc = pc]
Edits(k) == data[k] < MaxPostEdits /\ data' = [data EXCEPT ![k] = @ + 1]

\* updatePost writes the row, whose text may now be held or let through and which may
\* become private, then the new tags, then invalidates.
UpdatePost(w) ==
  /\ AtW(w, "idle") /\ shown # "gone"
  /\ Edits("base") /\ shown' \in {"hidden", "visible"}
  /\ writer' = [writer EXCEPT ![w] = [pc |-> "tags", keys |-> {"tags", "base"}]]
  /\ UNCHANGED <<cache, cachedPage, reader>>

SaveTags(w) ==
  /\ AtW(w, "tags")
  /\ Edits("tags") \/ UNCHANGED data
  /\ GoW(w, "delete")
  /\ UNCHANGED <<shown, cache, cachedPage, reader>>

\* deletePost, and a publish decision.
ChangeShown(w, s) ==
  /\ AtW(w, "idle") /\ shown \notin {"gone", s}
  /\ shown' = s
  /\ writer' = [writer EXCEPT ![w] = [pc |-> "delete", keys |-> {"tags", "base"}]]
  /\ UNCHANGED <<data, cache, cachedPage, reader>>

\* The transcoder writes the variants and the status of a medium of the post.  Only a post
\* that onMediaEnriched finds published is invalidated.
EnrichMedia(w) ==
  /\ AtW(w, "idle") /\ shown # "gone"
  /\ Edits("base")
  /\ writer' = [writer EXCEPT ![w] = [pc |-> "find", keys |-> {"tags", "base"}]]
  /\ UNCHANGED <<shown, cache, cachedPage, reader>>

FindPublished(w) ==
  /\ AtW(w, "find")
  /\ GoW(w, IF shown = "visible" THEN "delete" ELSE "idle")
  /\ UNCHANGED <<data, shown, cache, cachedPage, reader>>

\* A change of the user's name, which leaves the pages alone.
UpdateUser(w) ==
  /\ AtW(w, "idle")
  /\ Edits("display")
  /\ writer' = [writer EXCEPT ![w] = [pc |-> "delete", keys |-> {"display"}]]
  /\ UNCHANGED <<shown, cache, cachedPage, reader>>

\* Requests under way are overtaken by the deletion of keys.
Overtake(keys) ==
  reader' = [r \in Reader |-> IF AtR(r, "idle") THEN reader[r]
                              ELSE [reader[r] EXCEPT !.late = @ \cup keys]]

\* Mutant: the base entry is forgotten.
InvalidateTags(w) ==
  /\ AtW(w, "delete")
  /\ cache' = [k \in Key |-> IF k \in writer[w].keys \ {"base"} THEN {} ELSE cache[k]]
  /\ Overtake(writer[w].keys)
  /\ writer' = [writer EXCEPT ![w].pc = IF "base" \in writer[w].keys THEN "lists" ELSE "idle"]
  /\ UNCHANGED <<data, shown, cachedPage>>

\* invalidatePostEntity and UserDisplayService.invalidate: one DEL.
InvalidateEntity(w) ==
  /\ AtW(w, "delete")
  /\ cache' = [k \in Key |-> IF k \in writer[w].keys THEN {} ELSE cache[k]]
  /\ Overtake(writer[w].keys)
  /\ writer' = [writer EXCEPT ![w].pc = IF "base" \in writer[w].keys THEN "lists" ELSE "idle"]
  /\ UNCHANGED <<data, shown, cachedPage>>

InvalidatePublicFeedListCaches(w) ==
  /\ AtW(w, "lists")
  /\ cachedPage' = {}
  /\ Overtake({"page"})
  /\ GoW(w, "idle")
  /\ UNCHANGED <<data, shown, cache>>

\* What is stored and what is under way may be stale from here on.
Excuse(keys) ==
  /\ cache' = [k \in Key |-> IF k \in keys THEN {[x EXCEPT !.excused = TRUE] : x \in cache[k]}
                             ELSE cache[k]]
  /\ cachedPage' = {[x EXCEPT !.excused = TRUE] : x \in cachedPage}
  /\ Overtake(keys \cup {"page"})

\* safeInvalidate logs the failure of Redis and goes on; a statement before it that fails
\* ends the request without invalidating.
InvalidationFails(w) ==
  /\ writer[w].pc \in {"tags", "find", "delete", "lists"}
  /\ Excuse(writer[w].keys)
  /\ GoW(w, "idle")
  /\ UNCHANGED <<data, shown>>

\* A moderator's approval publishes a held text, which may bring the post back, and
\* invalidates nothing.
ApproveText ==
  /\ shown # "gone" /\ shown' \in {shown, "visible"}
  /\ Edits("base")
  /\ Excuse({"base"})
  /\ UNCHANGED writer

Expires ==
  /\ \/ \E k \in Key : cache[k] # {} /\ cache' = [cache EXCEPT ![k] = {}] /\ UNCHANGED cachedPage
     \/ cachedPage # {} /\ cachedPage' = {} /\ UNCHANGED cache
  /\ UNCHANGED <<data, shown, reader, writer>>

FeedCacheNext ==
  \/ \E r \in Reader :
       \/ GetPage(r) \/ QueryRows(r) \/ PutPage(r)
       \/ \E k \in {"tags", "base"} : Get(r, k) \/ Fetch(r, k) \/ Put(r, k)
       \/ GetDisplay(r) \/ FetchDisplay(r) \/ PutDisplay(r)
  \/ \E w \in Writer :
       \/ UpdatePost(w) \/ SaveTags(w) \/ UpdateUser(w)
       \/ EnrichMedia(w) \/ FindPublished(w)
       \/ \E s \in {"hidden", "visible", "gone"} : ChangeShown(w, s)
       \/ InvalidateEntity(w) \/ InvalidatePublicFeedListCaches(w) \/ InvalidationFails(w)
  \/ ApproveText
  \/ Expires

FeedCacheSpec == FeedCacheInit /\ [][FeedCacheNext]_feedCacheVars

(***************************************************************************)
(* Properties                                                              *)
(***************************************************************************)
Fresh(k, x) == x.v = data[k] /\ (k = "base" => x.t = data["tags"])
PageFits(x) ==
  IF x.shows = "none" THEN shown # "visible"
  ELSE shown = "visible" /\ \E b \in x.base : Fresh("base", b)
Pending(k) == \E w \in Writer : k \in writer[w].keys /\ writer[w].pc \in {"tags", "find", "delete"}
PagePending == Pending("base") \/ \E w \in Writer : AtW(w, "lists")

\* An entry or a page is stale only while the writer that made it so has not come to its
\* deletion, unless it was put by a request the deletion overtook, the deletion failed, or
\* a moderator's approval did not ask for one.
StaleIsExplained ==
  /\ \A k \in Key : \A x \in cache[k] : x.excused \/ Fresh(k, x) \/ Pending(k)
  /\ \A x \in cachedPage : x.excused \/ PageFits(x) \/ PagePending
=============================================================================
