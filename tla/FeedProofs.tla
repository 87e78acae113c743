----------------------------- MODULE FeedProofs -----------------------------
(***************************************************************************)
(* Theorems about what a reader is shown, for any number of rows, readers  *)
(* and writers: the tray of statuses, the caches of pages and display      *)
(* data, the walk down the chronological pages and one page of the ranked  *)
(* feed.                                                                   *)
(***************************************************************************)
EXTENDS Stories, FeedCache, FeedPages, FeedRanking, FiniteSetTheorems,
        WellFoundedInduction, TLAPS

-----------------------------------------------------------------------------
(* The tray of statuses                                                    *)

Tray == [pc : {"idle", "unseen", "list", "views", "sent"}, owners : SUBSET Owner,
         unseen : SUBSET Owner, list : SUBSET Story, seen : SUBSET Story]

StoryTypes ==
  /\ story \in [Story -> [state : {"none", "pending", "failed", "published", "gone"},
                          text : {"clear", "held", "rejected"}, expired : BOOLEAN]]
  /\ tray \in Tray

\* The statuses of an owner that a query would find now, or that changed since.
ShownStill(s) == Shows(s) \/ s \in moved
UnseenStill(s) == (Shows(s) /\ s \notin viewed) \/ s \in moved

\* What each query of the tray found still holds of every status that did not change since.
OwnersHold ==
  tray.pc # "idle" => \A o \in tray.owners : \E s \in Story : OwnerOf[s] = o /\ ShownStill(s)

UnseenHolds ==
  tray.pc \in {"list", "views", "sent"} =>
    /\ \A o \in tray.unseen : o \in tray.owners /\ \E s \in Story : OwnerOf[s] = o /\ UnseenStill(s)
    /\ \A s \in Story : Shows(s) /\ s \notin viewed /\ OwnerOf[s] \in tray.owners =>
         OwnerOf[s] \in tray.unseen \/ s \in moved

ListHolds ==
  tray.pc \in {"views", "sent"} =>
    /\ \A s \in tray.list : OwnerOf[s] \in tray.owners /\ ShownStill(s)
    /\ \A s \in Story : Shows(s) /\ OwnerOf[s] \in tray.owners => s \in tray.list \/ s \in moved

SeenHolds ==
  tray.pc = "sent" => \A s \in tray.list : s \in moved \/ (s \in tray.seen <=> s \in viewed)

TrayInv == StoryTypes /\ OwnersHold /\ UnseenHolds /\ ListHolds /\ SeenHolds

LEMMA StoriesInitial == StoriesInit => TrayInv
  BY DEF StoriesInit, TrayInv, StoryTypes, Tray, NoTray, NoStory, OwnersHold, UnseenHolds, ListHolds,
         SeenHolds

\* Nothing that happens to the statuses disturbs what the tray read of those that did not
\* change.
LEMMA TrayWaits ==
  ASSUME TrayInv, UNCHANGED tray, StoryTypes', moved \subseteq moved',
         \A s \in Story \ moved' : (Shows(s)' <=> Shows(s)) /\ (s \in viewed' <=> s \in viewed)
  PROVE  TrayInv'
<1>1. tray.list \subseteq Story
  BY DEF TrayInv, StoryTypes, Tray
<1>2. OwnersHold'
  BY DEF TrayInv, OwnersHold, ShownStill
<1>3. UnseenHolds'
  BY DEF TrayInv, UnseenHolds, UnseenStill
<1>4. ListHolds'
  BY <1>1 DEF TrayInv, ListHolds, ShownStill
<1>5. SeenHolds'
  BY <1>1 DEF TrayInv, SeenHolds
<1> QED
  BY <1>2, <1>3, <1>4, <1>5 DEF TrayInv

StatusSteps(s) ==
  \/ \E text \in {"clear", "held"}, state \in {"pending", "published"} : CreateStatus(s, state, text)
  \/ \E outcome \in {"failed", "published"} : EvaluateStatus(s, outcome)
  \/ \E text \in {"clear", "rejected"} : ModerateText(s, text)
  \/ Expire(s) \/ DeleteStatus(s) \/ MarkView(s) \/ UpsertView(s)

LEMMA StatusStep ==
  ASSUME TrayInv, NEW s \in Story, StatusSteps(s)
  PROVE  TrayInv'
<1> DEFINE Row == [state : {"none", "pending", "failed", "published", "gone"},
                   text : {"clear", "held", "rejected"}, expired : BOOLEAN]
<1>1. story \in [Story -> Row] /\ story[s] \in Row
  BY DEF TrayInv, StoryTypes
<1>2. ASSUME NEW row \in Row, story' = [story EXCEPT ![s] = row], moved' = moved \cup {s},
             UNCHANGED <<viewed, tray>>
      PROVE  TrayInv'
  <2>1. story' \in [Story -> Row] /\ \A r \in Story \ moved' : story'[r] = story[r]
    BY <1>1, <1>2
  <2>2. \A r \in Story \ moved' : Shows(r)' <=> Shows(r)
    BY <2>1 DEF Shows
  <2> QED
    BY <2>1, <2>2, <1>2, TrayWaits DEF TrayInv, StoryTypes
<1>3. CASE \E text \in {"clear", "held"}, state \in {"pending", "published"} : CreateStatus(s, state, text)
  BY <1>2, <1>3 DEF CreateStatus
<1>4. ASSUME NEW outcome \in {"failed", "published"}, EvaluateStatus(s, outcome) PROVE TrayInv'
  <2> DEFINE row == [story[s] EXCEPT !.state = outcome, !.expired = @ /\ outcome = "failed"]
  <2>1. row \in Row /\ story' = [story EXCEPT ![s] = row]
    BY <1>1, <1>4 DEF EvaluateStatus
  <2> QED
    BY <2>1, <1>2, <1>4 DEF EvaluateStatus
<1>5. CASE Expire(s)
  <2> DEFINE row == [story[s] EXCEPT !.expired = TRUE]
  <2>1. row \in Row /\ story' = [story EXCEPT ![s] = row]
    BY <1>1, <1>5 DEF Expire
  <2> QED
    BY <2>1, <1>2, <1>5 DEF Expire
<1>6. ASSUME NEW text \in {"clear", "rejected"}, ModerateText(s, text) PROVE TrayInv'
  <2> DEFINE row == [story[s] EXCEPT !.text = text]
  <2>1. row \in Row /\ row.state = story[s].state /\ row.expired = story[s].expired
    BY <1>1
  <2>2. story' = [story EXCEPT ![s] = row]
    BY <1>6 DEF ModerateText
  <2> HIDE DEF row
  <2>3. story' \in [Story -> Row] /\ \A r \in Story : Shows(r)' <=> Shows(r)
    BY <1>1, <2>1, <2>2 DEF Shows
  <2> QED
    BY <2>3, <1>6, TrayWaits DEF ModerateText, TrayInv, StoryTypes
<1>7. CASE MarkView(s) \/ UpsertView(s)
  BY <1>7, TrayWaits DEF MarkView, UpsertView, TrayInv, StoryTypes, Shows
<1>8. CASE DeleteStatus(s)
  BY <1>8, TrayWaits DEF DeleteStatus, Removes, TrayInv, StoryTypes, Shows, NoStory
<1> QED
  BY <1>3, <1>4, <1>5, <1>6, <1>7, <1>8 DEF StatusSteps

\* The queries of the tray read what holds.
LEMMA TrayStep ==
  ASSUME TrayInv, TrayOwners \/ TrayUnseen \/ TrayList \/ TrayViews \/ TrayCloses
  PROVE  TrayInv'
<1> USE DEF TrayInv, ShownStill, UnseenStill, Shows
<1>0. tray \in Tray /\ OwnerOf \in [Story -> Owner]
  BY StoriesAssumption DEF StoryTypes
<1>1. CASE TrayOwners
  <2> DEFINE showing == {OwnerOf[s] : s \in {t \in Story : Shows(t) /\ OwnerOf[t] \in follows}}
  <2>0. showing \subseteq Owner
    BY <1>0
  <2>1. tray'.pc = "unseen" /\ tray'.owners = showing /\ tray' \in Tray
    BY <1>1, <2>0 DEF TrayOwners, NoTray, Tray
  <2>2. StoryTypes' /\ UnseenHolds' /\ ListHolds' /\ SeenHolds'
    BY <1>1, <2>1 DEF TrayOwners, UnseenHolds, ListHolds, SeenHolds, StoryTypes
  <2>3. OwnersHold'
    BY <1>1, <2>1 DEF TrayOwners, OwnersHold
  <2> QED
    BY <2>2, <2>3
<1>2. CASE TrayUnseen
  <2>0. UnseenOwners(tray.owners) \subseteq Owner
    BY <1>0 DEF UnseenOwners
  <2>1. /\ tray'.pc = "list" /\ tray'.owners = tray.owners
        /\ tray'.unseen = UnseenOwners(tray.owners) /\ tray' \in Tray
    BY <1>0, <1>2, <2>0 DEF TrayUnseen, Tray
  <2>2. StoryTypes' /\ ListHolds' /\ SeenHolds'
    BY <1>2, <2>1 DEF TrayUnseen, ListHolds, SeenHolds, StoryTypes
  <2>4. OwnersHold'
    BY <1>2, <2>1 DEF TrayUnseen, OwnersHold
  <2>3. UnseenHolds'
    BY <1>2, <2>1 DEF TrayUnseen, UnseenHolds, UnseenOwners
  <2> QED
    BY <2>2, <2>3, <2>4
<1>3. CASE TrayList
  <2>1. /\ tray'.pc = "views" /\ tray'.owners = tray.owners /\ tray'.unseen = tray.unseen
        /\ tray'.list = {s \in Story : Shows(s) /\ OwnerOf[s] \in tray.owners} /\ tray' \in Tray
    BY <1>0, <1>3 DEF TrayList, Tray
  <2>2. StoryTypes' /\ SeenHolds'
    BY <1>3, <2>1 DEF TrayList, SeenHolds, StoryTypes
  <2>4. OwnersHold' /\ UnseenHolds'
    BY <1>3, <2>1 DEF TrayList, OwnersHold, UnseenHolds
  <2>3. ListHolds'
    BY <1>3, <2>1 DEF TrayList, ListHolds
  <2> QED
    BY <2>2, <2>3, <2>4
<1>4. CASE TrayViews
  <2>1. /\ tray'.pc = "sent" /\ tray'.owners = tray.owners /\ tray'.unseen = tray.unseen
        /\ tray'.list = tray.list /\ tray'.seen = tray.list \cap viewed /\ tray' \in Tray
    BY <1>0, <1>4 DEF TrayViews, Tray
  <2> QED
    BY <1>4, <2>1 DEF TrayViews, OwnersHold, UnseenHolds, ListHolds, SeenHolds, StoryTypes
<1>5. CASE TrayCloses
  BY <1>0, <1>5 DEF TrayCloses, NoTray, Tray, OwnersHold, UnseenHolds, ListHolds, SeenHolds, StoryTypes
<1> QED
  BY <1>1, <1>2, <1>3, <1>4, <1>5

\* Whatever is posted, viewed, removed or expires between the queries of a tray (listTray):
\* what each of them found still holds of every status that did not change since.
THEOREM StoriesInvariant == StoriesSpec => []TrayInv
<1>1. TrayInv /\ [StoriesNext]_storyVars => TrayInv'
  <2> SUFFICES ASSUME TrayInv, [StoriesNext]_storyVars PROVE TrayInv'
    OBVIOUS
  <2>1. CASE \E s \in Story : StatusSteps(s)
    BY <2>1, StatusStep
  <2>2. CASE TrayOwners \/ TrayUnseen \/ TrayList \/ TrayViews \/ TrayCloses
    BY <2>2, TrayStep
  <2>3. CASE \/ \E o \in Owner : FollowUser(o) \/ UnfollowUser(o)
             \/ PurgeFinds \/ UNCHANGED storyVars
    BY <2>3, TrayWaits DEF FollowUser, UnfollowUser, PurgeFinds, storyVars, TrayInv, StoryTypes, Shows
  <2>4. CASE PurgeDeletes
    BY <2>4, TrayWaits DEF PurgeDeletes, Removes, TrayInv, StoryTypes, Shows, NoStory
  <2> QED
    BY <2>1, <2>2, <2>3, <2>4 DEF StoriesNext, StatusSteps
<1> QED
  BY <1>1, StoriesInitial, PTL DEF StoriesSpec

\* The four queries of a tray agree about every status that did not change while they ran:
\* owners, unseen marks and list fit together, for any number of owners and statuses.
THEOREM TraysAgree == StoriesSpec => []TrayAgrees
<1>1. TrayInv => TrayAgrees
  <2> SUFFICES ASSUME TrayInv, tray.pc = "sent" PROVE TrayAgrees
    BY DEF TrayAgrees
  <2>1. ASSUME NEW o \in tray.unseen
        PROVE  (\E s \in tray.list \ tray.seen : OwnerOf[s] = o) \/ \E s \in moved : OwnerOf[s] = o
    <3>1. PICK s \in Story : OwnerOf[s] = o /\ UnseenStill(s) /\ o \in tray.owners
      BY <2>1 DEF TrayInv, UnseenHolds
    <3> QED
      BY <3>1 DEF TrayInv, ListHolds, SeenHolds, UnseenStill
  <2>2. ASSUME NEW s \in tray.list \ tray.seen PROVE OwnerOf[s] \in tray.unseen \/ s \in moved
    BY DEF TrayInv, UnseenHolds, ListHolds, SeenHolds, ShownStill, StoryTypes, Tray
  <2>3. ASSUME NEW o \in tray.owners
        PROVE  (\E s \in tray.list : OwnerOf[s] = o) \/ \E s \in moved : OwnerOf[s] = o
    <3>1. PICK s \in Story : OwnerOf[s] = o /\ ShownStill(s)
      BY <2>3 DEF TrayInv, OwnersHold
    <3> QED
      BY <3>1 DEF TrayInv, ListHolds, ShownStill
  <2> QED
    BY <2>1, <2>2, <2>3 DEF TrayAgrees
<1> QED
  BY <1>1, StoriesInvariant, PTL

-----------------------------------------------------------------------------
(* The caches in front of the feed                                         *)

CacheEntry == [v : Nat, t : Nat, excused : BOOLEAN]
CachedPage == [shows : {"none", "post"}, base : SUBSET CacheEntry, excused : BOOLEAN]
InPost == {"getTags", "fetchTags", "putTags", "getBase", "fetchBase", "putBase"}
PastPost == {"getDisplay", "fetchDisplay", "putDisplay", "page"}
Request == [pc : {"idle", "rows"} \cup InPost \cup PastPost, shows : {"none", "post"},
            has : [Key -> SUBSET CacheEntry], late : SUBSET (Key \cup {"page"})]
Change == [pc : {"idle"}, keys : SUBSET Key]
          \cup [pc : {"tags", "find", "delete", "lists"}, keys : {{"tags", "base"}}]
          \cup [pc : {"delete"}, keys : {{"display"}}]

FeedCacheTypes ==
  /\ data \in [Key -> Nat] /\ shown \in {"hidden", "visible", "gone"}
  /\ cache \in [Key -> SUBSET CacheEntry] /\ cachedPage \subseteq CachedPage
  /\ reader \in [Reader -> Request] /\ writer \in [Writer -> Change]

\* Writers that are about to delete the entries of k, or the pages.
Deleting(k) == \E w \in Writer : writer[w].pc \in {"tags", "delete"} /\ k \in writer[w].keys
Listing == \E w \in Writer : AtW(w, "lists")

\* A post that is not shown is on its way out of the caches.
PostHolds == shown = "visible" \/ Deleting("base")
ShownHolds == PostHolds \/ Listing

\* An entry, and what a page says of the post, are as they were read or on their way out.
EntryHolds(k, x) ==
  \/ Deleting(k)
  \/ k # "base" /\ Fresh(k, x)
  \/ k = "base" /\ shown = "visible" /\ (Fresh(k, x) \/ Pending(k))

PageHolds(shows, base) ==
  \/ Deleting("base") \/ Listing
  \/ shows = "none" /\ shown # "visible"
  \/ shows = "post" /\ shown = "visible" /\ (Pending("base") \/ \E x \in base : Fresh("base", x))

\* A request that has not been overtaken holds what an entry may hold.
RequestHolds(q) ==
  /\ q.pc \in InPost => /\ q.shows = "post"
                        /\ "base" \in q.late \/ PostHolds
                        /\ "page" \in q.late \/ ShownHolds
  /\ q.pc \in PastPost => "page" \in q.late \/ PageHolds(q.shows, q.has["base"])
  /\ q.pc \in {"putTags", "getBase", "fetchBase"} =>
       q.has["tags"] # {} /\ \A x \in q.has["tags"] : "tags" \in q.late \/ EntryHolds("tags", x)
  /\ q.pc = "putBase" =>
       /\ q.has["base"] # {}
       /\ \A x \in q.has["base"] : \/ "tags" \in q.late \/ "base" \in q.late
                                   \/ EntryHolds("base", x)
  /\ q.pc = "putDisplay" =>
       \A x \in q.has["display"] : "display" \in q.late \/ EntryHolds("display", x)

CachesHold == \A k \in Key : \A x \in cache[k] : x.excused \/ EntryHolds(k, x)
PagesHold == \A x \in cachedPage : x.excused \/ PageHolds(x.shows, x.base)
RequestsHold == \A r \in Reader : RequestHolds(reader[r])

FeedCacheInv == FeedCacheTypes /\ CachesHold /\ PagesHold /\ RequestsHold

LEMMA FeedCacheInitial == FeedCacheInit => FeedCacheInv
  BY DEF FeedCacheInit, FeedCacheInv, FeedCacheTypes, CachesHold, PagesHold, RequestsHold, RequestHolds,
         IdleReader, IdleWriter, Request, Change, Key, InPost, PastPost

\* What a step keeps, but for the keys it deletes or excuses.
Kept(keys) ==
  /\ \A k \in Key \ keys : \A x \in CacheEntry : EntryHolds(k, x) => EntryHolds(k, x)'
  /\ "base" \notin keys => (PostHolds => PostHolds')
  /\ "page" \notin keys => /\ ShownHolds => ShownHolds'
                           /\ \A shows \in {"none", "post"}, base \in SUBSET CacheEntry :
                                PageHolds(shows, base) => PageHolds(shows, base)'

\* A step that keeps what it does not delete or excuse.
LEMMA KeptHolds ==
  ASSUME FeedCacheInv, FeedCacheTypes', NEW keys \in SUBSET (Key \cup {"page"}), Kept(keys),
         \A k \in Key : \A x \in cache'[k] : x.excused \/ (k \notin keys /\ x \in cache[k]),
         \A x \in cachedPage' : x.excused \/ ("page" \notin keys /\ x \in cachedPage),
         \A r \in Reader : /\ reader'[r].pc = reader[r].pc /\ reader'[r].shows = reader[r].shows
                           /\ reader'[r].has = reader[r].has
                           /\ reader[r].pc # "idle" => reader'[r].late = reader[r].late \cup keys
  PROVE  FeedCacheInv'
<1>1. CachesHold'
  BY DEF FeedCacheInv, CachesHold, Kept, FeedCacheTypes
<1>2. PagesHold'
  BY DEF FeedCacheInv, PagesHold, Kept, FeedCacheTypes, CachedPage
<1>3. ASSUME NEW r \in Reader PROVE RequestHolds(reader[r])'
  <2>1. PICK q \in Request, n \in Request : q = reader[r] /\ n = reader'[r]
    BY DEF FeedCacheInv, FeedCacheTypes
  <2>2. RequestHolds(q)
    BY <2>1 DEF FeedCacheInv, RequestsHold
  <2>3. /\ n.pc = q.pc /\ n.shows = q.shows /\ n.has = q.has
        /\ q.pc # "idle" => n.late = q.late \cup keys
    BY <2>1
  <2>4. /\ q.shows \in {"none", "post"} /\ q.has["base"] \subseteq CacheEntry
        /\ q.has["tags"] \subseteq CacheEntry /\ q.has["display"] \subseteq CacheEntry
    BY DEF Request, Key
  <2>5. n.pc \in InPost => /\ n.shows = "post"
                           /\ "base" \in n.late \/ PostHolds'
                           /\ "page" \in n.late \/ ShownHolds'
    BY <2>2, <2>3 DEF RequestHolds, Kept, InPost
  <2>6. n.pc \in PastPost => "page" \in n.late \/ PageHolds(n.shows, n.has["base"])'
    BY <2>2, <2>3, <2>4 DEF RequestHolds, Kept, PastPost
  <2>7. n.pc \in {"putTags", "getBase", "fetchBase"} =>
          /\ n.has["tags"] # {}
          /\ \A x \in n.has["tags"] : "tags" \in n.late \/ EntryHolds("tags", x)'
    BY <2>2, <2>3, <2>4 DEF RequestHolds, Kept, Key
  <2>8. n.pc = "putBase" =>
          /\ n.has["base"] # {}
          /\ \A x \in n.has["base"] : "tags" \in n.late \/ "base" \in n.late \/ EntryHolds("base", x)'
    BY <2>2, <2>3, <2>4 DEF RequestHolds, Kept, Key
  <2>9. n.pc = "putDisplay" =>
          \A x \in n.has["display"] : "display" \in n.late \/ EntryHolds("display", x)'
    BY <2>2, <2>3, <2>4 DEF RequestHolds, Kept, Key
  <2>10. RequestHolds(n)'
    BY <2>5, <2>6, <2>7, <2>8, <2>9 DEF RequestHolds
  <2> QED
    BY <2>1, <2>10
<1> QED
  BY <1>1, <1>2, <1>3 DEF FeedCacheInv, RequestsHold

\* Writer w goes on as c.
Becomes(w, c) == writer' = [writer EXCEPT ![w] = c]

\* A writer that only goes on keeps its keys.
LEMMA WriterGoes ==
  ASSUME FeedCacheTypes, NEW w \in Writer, NEW pc, GoW(w, pc)
  PROVE  Becomes(w, [pc |-> pc, keys |-> writer[w].keys])
<1>1. writer[w] \in Change
  BY DEF FeedCacheTypes
<1>2. [writer[w] EXCEPT !.pc = pc] = [pc |-> pc, keys |-> writer[w].keys]
  BY <1>1 DEF Change
<1> QED
  BY <1>2 DEF GoW, Becomes

\* What a writer that goes on leaves pending.
LEMMA WriterTurns ==
  ASSUME FeedCacheTypes, NEW w \in Writer, NEW c \in Change, Becomes(w, c)
  PROVE  /\ writer' \in [Writer -> Change]
         /\ \A k \in Key : Deleting(k) =>
              Deleting(k)' \/ (writer[w].pc \in {"tags", "delete"} /\ k \in writer[w].keys)
         /\ \A k \in Key : Pending(k) =>
              Pending(k)' \/ (writer[w].pc \in {"tags", "find", "delete"} /\ k \in writer[w].keys)
         /\ Listing => Listing' \/ AtW(w, "lists")
         /\ \A k \in Key : c.pc \in {"tags", "delete"} /\ k \in c.keys => Deleting(k)'
         /\ \A k \in Key : c.pc \in {"tags", "find", "delete"} /\ k \in c.keys => Pending(k)'
         /\ c.pc = "lists" => Listing'
<1>1. writer'[w] = c /\ \A v \in Writer \ {w} : writer'[v] = writer[v]
  BY DEF FeedCacheTypes, Becomes
<1>2. writer' \in [Writer -> Change]
  BY DEF FeedCacheTypes, Becomes
<1> QED
  BY <1>1, <1>2 DEF Deleting, Pending, Listing, AtW

\* An edit is kept if its writer comes to a deletion.
LEMMA EditsAreKept ==
  ASSUME \A k \in Key : Deleting(k) => Deleting(k)',
         Listing => Listing',
         \A k \in {"tags", "display"} : data'[k] = data[k] \/ Deleting(k)',
         shown' = shown \/ Deleting("base")',
         shown = "visible" => \/ Pending("base")'
                              \/ /\ data'["base"] = data["base"] /\ data'["tags"] = data["tags"]
                                 /\ Pending("base") => Pending("base")'
  PROVE  Kept({})
<1>1. ASSUME NEW k \in Key, NEW x \in CacheEntry, EntryHolds(k, x) PROVE EntryHolds(k, x)'
  <2>1. CASE k = "base"
    BY <1>1, <2>1 DEF EntryHolds, Fresh
  <2>2. CASE k # "base"
    BY <1>1, <2>2 DEF EntryHolds, Fresh, Key
  <2> QED
    BY <2>1, <2>2
<1>2. (PostHolds => PostHolds') /\ (ShownHolds => ShownHolds')
  BY DEF PostHolds, ShownHolds, Key
<1>3. ASSUME NEW shows \in {"none", "post"}, NEW base \in SUBSET CacheEntry, PageHolds(shows, base)
      PROVE  PageHolds(shows, base)'
  BY <1>3 DEF PageHolds, Fresh, Key
<1> QED
  BY <1>1, <1>2, <1>3 DEF Kept

\* A writer that changes the post or its owner's name and goes on.
WriterSteps(w) ==
  \/ UpdatePost(w) \/ SaveTags(w) \/ UpdateUser(w) \/ EnrichMedia(w) \/ FindPublished(w)
  \/ \E s \in {"hidden", "visible", "gone"} : ChangeShown(w, s)

LEMMA WriterStep ==
  ASSUME FeedCacheInv, NEW w \in Writer, WriterSteps(w)
  PROVE  FeedCacheInv'
<1>1. FeedCacheTypes /\ writer[w] \in Change
  BY DEF FeedCacheInv, FeedCacheTypes
<1>2. SUFFICES ASSUME UNCHANGED <<cache, cachedPage, reader>>
               PROVE  FeedCacheTypes' /\ Kept({})
  <2>1. UNCHANGED <<cache, cachedPage, reader>>
    BY DEF WriterSteps, UpdatePost, SaveTags, UpdateUser, EnrichMedia, FindPublished, ChangeShown
  <2> QED
    BY <1>2, <2>1, KeptHolds
<1>3. ASSUME NEW c \in Change, Becomes(w, c), data' \in [Key -> Nat],
             shown' \in {"hidden", "visible", "gone"}
      PROVE  FeedCacheTypes'
  BY <1>1, <1>2, <1>3, WriterTurns DEF FeedCacheTypes
<1>4. CASE UpdatePost(w)
  <2> DEFINE c == [pc |-> "tags", keys |-> {"tags", "base"}]
  <2>1. /\ c \in Change /\ Becomes(w, c) /\ AtW(w, "idle")
        /\ data' \in [Key -> Nat] /\ shown' \in {"hidden", "visible"}
        /\ data'["tags"] = data["tags"] /\ data'["display"] = data["display"]
    BY <1>1, <1>4 DEF UpdatePost, Becomes, Edits, FeedCacheTypes, Change, Key
  <2>2. Kept({})
    BY <1>1, <2>1, WriterTurns, EditsAreKept DEF AtW, Key
  <2> QED
    BY <1>1, <1>3, <2>1, <2>2 DEF FeedCacheTypes
<1>5. CASE EnrichMedia(w)
  <2> DEFINE c == [pc |-> "find", keys |-> {"tags", "base"}]
  <2>1. /\ c \in Change /\ Becomes(w, c) /\ AtW(w, "idle")
        /\ data' \in [Key -> Nat] /\ UNCHANGED shown
        /\ data'["tags"] = data["tags"] /\ data'["display"] = data["display"]
    BY <1>1, <1>5 DEF EnrichMedia, Becomes, Edits, FeedCacheTypes, Change, Key
  <2>2. Kept({})
    BY <1>1, <2>1, WriterTurns, EditsAreKept DEF AtW, Key
  <2> QED
    BY <1>1, <1>3, <2>1, <2>2 DEF FeedCacheTypes
<1>6. CASE SaveTags(w)
  <2> DEFINE c == [pc |-> "delete", keys |-> {"tags", "base"}]
  <2>0. /\ AtW(w, "tags") /\ writer[w].keys = {"tags", "base"} /\ UNCHANGED shown
        /\ data' \in [Key -> Nat] /\ data'["display"] = data["display"]
    BY <1>1, <1>6 DEF SaveTags, AtW, Edits, FeedCacheTypes, Change, Key
  <2>1. c \in Change /\ Becomes(w, c)
    BY <1>1, <1>6, <2>0, WriterGoes DEF SaveTags, Change
  <2>2. Kept({})
    BY <1>1, <2>0, <2>1, WriterTurns, EditsAreKept DEF AtW, Key
  <2> QED
    BY <1>1, <1>3, <2>0, <2>1, <2>2 DEF FeedCacheTypes
<1>7. CASE UpdateUser(w)
  <2> DEFINE c == [pc |-> "delete", keys |-> {"display"}]
  <2>1. /\ c \in Change /\ Becomes(w, c) /\ AtW(w, "idle")
        /\ data' \in [Key -> Nat] /\ UNCHANGED shown
        /\ data'["tags"] = data["tags"] /\ data'["base"] = data["base"]
    BY <1>1, <1>7 DEF UpdateUser, Becomes, Edits, FeedCacheTypes, Change, Key
  <2>2. Kept({})
    BY <1>1, <2>1, WriterTurns, EditsAreKept DEF AtW, Key
  <2> QED
    BY <1>1, <1>3, <2>1, <2>2 DEF FeedCacheTypes
<1>8. ASSUME NEW s \in {"hidden", "visible", "gone"}, ChangeShown(w, s)
      PROVE  FeedCacheTypes' /\ Kept({})
  <2> DEFINE c == [pc |-> "delete", keys |-> {"tags", "base"}]
  <2>1. /\ c \in Change /\ Becomes(w, c) /\ AtW(w, "idle") /\ UNCHANGED data
    BY <1>1, <1>8 DEF ChangeShown, Becomes, Change
  <2>2. Kept({})
    BY <1>1, <2>1, WriterTurns, EditsAreKept DEF AtW, Key
  <2> QED
    BY <1>1, <1>3, <1>8, <2>1, <2>2 DEF FeedCacheTypes, ChangeShown
<1>9. CASE FindPublished(w)
  <2>1. /\ AtW(w, "find") /\ writer[w].keys = {"tags", "base"} /\ UNCHANGED <<data, shown>>
        /\ GoW(w, IF shown = "visible" THEN "delete" ELSE "idle")
    BY <1>1, <1>9 DEF FindPublished, AtW, Change
  <2> DEFINE c == [pc |-> IF shown = "visible" THEN "delete" ELSE "idle", keys |-> {"tags", "base"}]
  <2>2. c \in Change /\ Becomes(w, c)
    BY <1>1, <2>1, WriterGoes DEF Change, Key
  <2>3. Kept({})
    BY <1>1, <2>1, <2>2, WriterTurns, EditsAreKept DEF AtW, Key
  <2> QED
    BY <1>1, <1>3, <2>1, <2>2, <2>3 DEF FeedCacheTypes
<1> QED
  BY <1>4, <1>5, <1>6, <1>7, <1>8, <1>9 DEF WriterSteps

\* Requests under way learn which keys they were overtaken by.
LEMMA Overtakes ==
  ASSUME FeedCacheTypes, NEW keys \in SUBSET (Key \cup {"page"}), Overtake(keys)
  PROVE  /\ reader' \in [Reader -> Request]
         /\ \A r \in Reader : /\ reader'[r].pc = reader[r].pc /\ reader'[r].shows = reader[r].shows
                              /\ reader'[r].has = reader[r].has
                              /\ reader[r].pc # "idle" => reader'[r].late = reader[r].late \cup keys
<1> DEFINE late(q) == [q EXCEPT !.late = @ \cup keys]
<1>1. ASSUME NEW q \in Request
      PROVE  /\ late(q) \in Request /\ late(q).pc = q.pc /\ late(q).shows = q.shows
             /\ late(q).has = q.has /\ late(q).late = q.late \cup keys
  BY DEF Request
<1>2. reader' = [r \in Reader |-> IF AtR(r, "idle") THEN reader[r] ELSE late(reader[r])]
  BY DEF Overtake
<1> HIDE DEF late
<1>3. ASSUME NEW r \in Reader
      PROVE  /\ reader'[r] \in Request
             /\ reader'[r].pc = reader[r].pc /\ reader'[r].shows = reader[r].shows
             /\ reader'[r].has = reader[r].has
             /\ reader[r].pc # "idle" => reader'[r].late = reader[r].late \cup keys
  BY <1>1, <1>2 DEF FeedCacheTypes, AtR
<1> QED
  BY <1>2, <1>3

\* What is excused stays an entry or a page.
LEMMA Excused ==
  ASSUME FeedCacheTypes, NEW keys, Excuse(keys)
  PROVE  /\ cache' \in [Key -> SUBSET CacheEntry] /\ cachedPage' \subseteq CachedPage
         /\ \A k \in Key : \A x \in cache'[k] : x.excused \/ (k \notin keys \cup {"page"} /\ x \in cache[k])
         /\ \A x \in cachedPage' : x.excused
<1> DEFINE late(x) == [x EXCEPT !.excused = TRUE]
<1>1. \A x \in CacheEntry : late(x) \in CacheEntry /\ late(x).excused
  BY DEF CacheEntry
<1>2. \A x \in CachedPage : late(x) \in CachedPage /\ late(x).excused
  BY DEF CachedPage
<1>3. /\ cache' = [k \in Key |-> IF k \in keys THEN {late(x) : x \in cache[k]} ELSE cache[k]]
      /\ cachedPage' = {late(x) : x \in cachedPage}
  BY DEF Excuse
<1> HIDE DEF late
<1>4. ASSUME NEW k \in Key
      PROVE  /\ cache'[k] \subseteq CacheEntry
             /\ \A x \in cache'[k] : x.excused \/ (k \notin keys \cup {"page"} /\ x \in cache[k])
  BY <1>1, <1>3 DEF FeedCacheTypes, Key
<1>5. cachedPage' \subseteq CachedPage /\ \A x \in cachedPage' : x.excused
  BY <1>2, <1>3 DEF FeedCacheTypes
<1> QED
  BY <1>3, <1>4, <1>5

\* A deletion, done or failed, and an approval that asks for none.
DeletionSteps(w) == InvalidateEntity(w) \/ InvalidatePublicFeedListCaches(w) \/ InvalidationFails(w)

LEMMA DeletionStep ==
  ASSUME FeedCacheInv, NEW w \in Writer, DeletionSteps(w)
  PROVE  FeedCacheInv'
<1>1. FeedCacheTypes /\ writer[w] \in Change
  BY DEF FeedCacheInv, FeedCacheTypes
<1>2. CASE InvalidateEntity(w)
  <2> DEFINE keys == writer[w].keys
             pc == IF "base" \in keys THEN "lists" ELSE "idle"
             c == [pc |-> pc, keys |-> keys]
  <2>1. /\ AtW(w, "delete") /\ keys \in SUBSET (Key \cup {"page"}) /\ "page" \notin keys
        /\ c \in Change /\ GoW(w, pc) /\ UNCHANGED <<data, shown, cachedPage>> /\ Overtake(keys)
    BY <1>1, <1>2 DEF InvalidateEntity, GoW, AtW, Change, Key
  <2>2. Becomes(w, c)
    BY <1>1, <2>1, WriterGoes
  <2>3. Kept(keys)
    <3> HIDE DEF c
    <3>1. \A k \in Key \ keys : (Deleting(k) => Deleting(k)') /\ (Pending(k) => Pending(k)')
      BY <1>1, <2>1, <2>2, WriterTurns
    <3>2. IF "base" \in keys THEN Listing' ELSE Listing => Listing'
      BY <1>1, <2>1, <2>2, WriterTurns DEF c, AtW
    <3>3. CASE "base" \in keys
      BY <2>1, <3>1, <3>2, <3>3 DEF Kept, EntryHolds, Fresh, ShownHolds, PageHolds
    <3>4. CASE "base" \notin keys
      <4>1. "base" \in Key \ keys
        BY <3>4 DEF Key
      <4> QED
        BY <2>1, <3>1, <3>2, <3>4, <4>1 DEF Kept, EntryHolds, Fresh, PostHolds, ShownHolds, PageHolds
    <3> QED
      BY <3>3, <3>4
  <2>4. /\ cache' \in [Key -> SUBSET CacheEntry]
        /\ \A k \in Key : \A x \in cache'[k] : k \notin keys /\ x \in cache[k]
    BY <1>1, <1>2 DEF InvalidateEntity, FeedCacheTypes
  <2>5. FeedCacheTypes'
    BY <1>1, <2>1, <2>2, <2>4, WriterTurns, Overtakes DEF FeedCacheTypes
  <2> HIDE DEF keys
  <2> QED
    BY <1>1, <2>1, <2>3, <2>4, <2>5, Overtakes, KeptHolds
<1>3. CASE InvalidatePublicFeedListCaches(w)
  <2> DEFINE c == [pc |-> "idle", keys |-> writer[w].keys]
  <2>1. /\ AtW(w, "lists") /\ c \in Change /\ GoW(w, "idle")
        /\ UNCHANGED <<data, shown, cache>> /\ cachedPage' = {} /\ Overtake({"page"})
    BY <1>1, <1>3 DEF InvalidatePublicFeedListCaches, Change, Key
  <2>2. Becomes(w, c)
    BY <1>1, <2>1, WriterGoes
  <2>3. Kept({"page"})
    <3>1. \A k \in Key : (Deleting(k) => Deleting(k)') /\ (Pending(k) => Pending(k)')
      BY <1>1, <2>1, <2>2, WriterTurns DEF AtW
    <3> QED
      BY <2>1, <3>1 DEF Kept, EntryHolds, Fresh, PostHolds, Key
  <2>4. FeedCacheTypes'
    BY <1>1, <2>1, <2>2, WriterTurns, Overtakes DEF FeedCacheTypes
  <2> QED
    BY <1>1, <2>1, <2>3, <2>4, Overtakes, KeptHolds DEF Key
<1>4. CASE InvalidationFails(w)
  <2> DEFINE keys == writer[w].keys
             c == [pc |-> "idle", keys |-> keys]
  <2>1. /\ keys \in SUBSET Key /\ c \in Change /\ GoW(w, "idle")
        /\ UNCHANGED <<data, shown>> /\ Excuse(keys) /\ Overtake(keys \cup {"page"})
    BY <1>1, <1>4 DEF InvalidationFails, Excuse, Change, Key
  <2>2. Becomes(w, c)
    BY <1>1, <2>1, WriterGoes
  <2>3. Kept(keys \cup {"page"})
    <3> HIDE DEF c
    <3>1. \A k \in Key \ keys : (Deleting(k) => Deleting(k)') /\ (Pending(k) => Pending(k)')
      BY <1>1, <2>1, <2>2, WriterTurns
    <3> HIDE DEF keys
    <3> QED
      BY <2>1, <3>1 DEF Kept, EntryHolds, Fresh, PostHolds, Key
  <2>4. FeedCacheTypes'
    BY <1>1, <2>1, <2>2, WriterTurns, Overtakes, Excused DEF FeedCacheTypes
  <2> HIDE DEF keys
  <2> QED
    BY <1>1, <2>1, <2>3, <2>4, Overtakes, Excused, KeptHolds
<1> QED
  BY <1>2, <1>3, <1>4 DEF DeletionSteps

LEMMA ApprovalStep ==
  ASSUME FeedCacheInv, ApproveText
  PROVE  FeedCacheInv'
<1> DEFINE keys == {"base", "page"}
<1>1. FeedCacheTypes /\ keys \in SUBSET (Key \cup {"page"})
  BY DEF FeedCacheInv, Key
<1>2. /\ Excuse({"base"}) /\ Overtake(keys) /\ UNCHANGED writer
      /\ shown \in {"hidden", "visible"} /\ shown' \in {shown, "visible"}
      /\ data' \in [Key -> Nat] /\ data'["tags"] = data["tags"] /\ data'["display"] = data["display"]
  BY <1>1 DEF ApproveText, Edits, Excuse, FeedCacheTypes, Key
<1>3. Kept(keys)
  <2>1. \A k \in Key : Deleting(k)' = Deleting(k)
    BY <1>2 DEF Deleting, AtW
  <2> QED
    BY <1>2, <2>1 DEF Kept, EntryHolds, Fresh, Key
<1>4. FeedCacheTypes'
  BY <1>1, <1>2, Overtakes, Excused DEF FeedCacheTypes
<1>5. keys = {"base"} \cup {"page"}
  OBVIOUS
<1> HIDE DEF keys
<1> QED
  BY <1>1, <1>2, <1>3, <1>4, <1>5, Overtakes, Excused, KeptHolds

LEMMA ExpiryStep ==
  ASSUME FeedCacheInv, Expires \/ UNCHANGED feedCacheVars
  PROVE  FeedCacheInv'
<1>1. FeedCacheTypes /\ UNCHANGED <<data, shown, reader, writer>>
  BY DEF FeedCacheInv, Expires, feedCacheVars
<1>2. /\ cache' \in [Key -> SUBSET CacheEntry] /\ \A k \in Key : cache'[k] \subseteq cache[k]
      /\ cachedPage' \subseteq cachedPage
  BY <1>1 DEF Expires, feedCacheVars, FeedCacheTypes
<1>3. Kept({})
  BY <1>1 DEF Kept, EntryHolds, PostHolds, ShownHolds, PageHolds, Fresh, Pending, Deleting, Listing, AtW
<1>4. FeedCacheTypes'
  BY <1>1, <1>2 DEF FeedCacheTypes
<1> QED
  BY <1>1, <1>2, <1>3, <1>4, KeptHolds

\* A request that goes on as q, with the caches as they may be.
LEMMA RequestTurns ==
  ASSUME FeedCacheInv, NEW r \in Reader, NEW q \in Request, RequestHolds(q),
         reader' = [reader EXCEPT ![r] = q], UNCHANGED <<data, shown, writer>>,
         cache' \in [Key -> SUBSET CacheEntry],
         \A k \in Key : \A x \in cache'[k] : x.excused \/ EntryHolds(k, x),
         cachedPage' \subseteq CachedPage,
         \A x \in cachedPage' : x.excused \/ PageHolds(x.shows, x.base)
  PROVE  FeedCacheInv'
<1>1. FeedCacheTypes'
  BY DEF FeedCacheInv, FeedCacheTypes
<1>2. \A k, x : EntryHolds(k, x)' = EntryHolds(k, x)
  BY DEF EntryHolds, Fresh, Deleting, Pending, AtW
<1>3. \A shows, base : PageHolds(shows, base)' = PageHolds(shows, base)
  BY DEF PageHolds, Fresh, Deleting, Pending, Listing, AtW
<1>4. PostHolds' = PostHolds /\ ShownHolds' = ShownHolds
  BY DEF PostHolds, ShownHolds, Deleting, Listing, AtW
<1>5. CachesHold' /\ PagesHold'
  BY <1>1, <1>2, <1>3 DEF CachesHold, PagesHold, FeedCacheTypes
<1>6. ASSUME NEW i \in Reader PROVE RequestHolds(reader[i])'
  <2>1. PICK n : n = reader'[i] /\ RequestHolds(n)
    BY DEF FeedCacheInv, FeedCacheTypes, RequestsHold
  <2>2. RequestHolds(n)'
    BY <1>2, <1>3, <1>4, <2>1 DEF RequestHolds
  <2> QED
    BY <2>1, <2>2
<1> QED
  BY <1>1, <1>5, <1>6 DEF FeedCacheInv, RequestsHold

\* What a request finds when it looks.
LEMMA RequestOf ==
  ASSUME FeedCacheInv, NEW r \in Reader
  PROVE  /\ reader[r] \in Request /\ RequestHolds(reader[r])
         /\ cache \in [Key -> SUBSET CacheEntry] /\ cachedPage \subseteq CachedPage
         /\ data \in [Key -> Nat]
         /\ \A k \in Key : \A x \in cache[k] : x.excused \/ EntryHolds(k, x)
         /\ \A x \in cachedPage : x.excused \/ PageHolds(x.shows, x.base)
  BY DEF FeedCacheInv, FeedCacheTypes, RequestsHold, CachesHold, PagesHold

\* An entry of the post that is not stale makes a page that is not stale.
LEMMA EntryMakesPage ==
  ASSUME NEW base, NEW x \in base, EntryHolds("base", x)
  PROVE  PageHolds("post", base)
  BY DEF EntryHolds, PageHolds

LEMMA PageSteps ==
  ASSUME FeedCacheInv, NEW r \in Reader, GetPage(r) \/ QueryRows(r) \/ PutPage(r)
  PROVE  FeedCacheInv'
<1> DEFINE q == reader[r]
<1>1. q \in Request /\ RequestHolds(q)
  BY RequestOf
<1>2. CASE GetPage(r)
  <2> DEFINE n == [q EXCEPT !.pc = "rows"]
  <2>1. n \in Request /\ n.pc = "rows" /\ reader' = [reader EXCEPT ![r] = n]
    BY <1>1, <1>2 DEF GetPage, GoR, Request
  <2> HIDE DEF n
  <2>2. RequestHolds(n)
    BY <2>1 DEF RequestHolds, InPost, PastPost
  <2> QED
    BY <1>2, <2>1, <2>2, RequestOf, RequestTurns DEF GetPage
<1>3. CASE QueryRows(r)
  <2> DEFINE pc == IF shown = "visible" THEN "getTags" ELSE "page"
             shows == IF shown = "visible" THEN "post" ELSE "none"
             n == [q EXCEPT !.shows = shows, !.pc = pc]
  <2>1. /\ n \in Request /\ n.pc = pc /\ n.shows = shows
        /\ reader' = [reader EXCEPT ![r] = n]
    BY <1>1, <1>3 DEF QueryRows, Request, InPost, PastPost
  <2> HIDE DEF n
  <2>2. RequestHolds(n)
    BY <2>1 DEF RequestHolds, InPost, PastPost, PostHolds, ShownHolds, PageHolds
  <2> QED
    BY <1>3, <2>1, <2>2, RequestOf, RequestTurns DEF QueryRows
<1>4. CASE PutPage(r)
  <2>1. IdleReader \in Request /\ RequestHolds(IdleReader)
    BY DEF IdleReader, Request, RequestHolds, InPost, PastPost
  <2>2. PageOf(r) \in CachedPage /\ (PageOf(r).excused \/ PageHolds(PageOf(r).shows, PageOf(r).base))
    <3>1. q.pc = "page" /\ PageOf(r) = [shows |-> q.shows, base |-> q.has["base"], excused |-> "page" \in q.late]
      BY <1>4 DEF PutPage, PageOf, AtR
    <3>2. q.shows \in {"none", "post"} /\ q.has["base"] \in SUBSET CacheEntry
      BY <1>1 DEF Request, Key
    <3>3. "page" \in q.late \/ PageHolds(q.shows, q.has["base"])
      BY <1>1, <3>1 DEF RequestHolds, PastPost
    <3> HIDE DEF q
    <3>4. PageOf(r) \in CachedPage
      BY <3>1, <3>2 DEF CachedPage
    <3>5. /\ PageOf(r).shows = q.shows /\ PageOf(r).base = q.has["base"]
          /\ PageOf(r).excused = ("page" \in q.late)
      BY <3>1
    <3> QED
      BY <3>3, <3>4, <3>5
  <2>3. cachedPage' = {PageOf(r)} /\ reader' = [reader EXCEPT ![r] = IdleReader]
    BY <1>4 DEF PutPage
  <2> QED
    BY <1>4, <2>1, <2>2, <2>3, RequestOf, RequestTurns DEF PutPage
<1> QED
  BY <1>2, <1>3, <1>4

\* A request that takes an entry from the cache.
LEMMA GetStep ==
  ASSUME FeedCacheInv, NEW r \in Reader, NEW k \in Key, Get(r, k)
  PROVE  FeedCacheInv'
<1> DEFINE q == reader[r]
<1>1. q \in Request /\ RequestHolds(q) /\ q.pc = GetPc(k)
  BY RequestOf DEF Get, AtR
<1>2. \E n \in Request : RequestHolds(n) /\ reader' = [reader EXCEPT ![r] = n]
  <2>1. CASE cache[k] = {}
    <3> DEFINE n == [q EXCEPT !.pc = FetchPc(k)]
    <3>1. /\ n \in Request /\ n.pc = FetchPc(k) /\ n.shows = q.shows /\ n.has = q.has
          /\ n.late = q.late /\ reader' = [reader EXCEPT ![r] = n]
      BY <1>1, <2>1 DEF Get, Request, FetchPc, Key, InPost, PastPost
    <3> HIDE DEF n, q
    <3>2. RequestHolds(n)
      BY <1>1, <3>1 DEF RequestHolds, GetPc, FetchPc, Key, InPost, PastPost
    <3> QED
      BY <3>1, <3>2
  <2>2. CASE cache[k] # {}
    <3> DEFINE found == {j \in {k, "page"} : \E x \in cache[k] : x.excused}
               n == [q EXCEPT !.has[k] = cache[k], !.pc = After(k), !.late = @ \cup found]
    <3>1. cache[k] \subseteq CacheEntry /\ \A x \in cache[k] : x.excused \/ EntryHolds(k, x)
      BY RequestOf
    <3>2. reader' = [reader EXCEPT ![r] = n]
      BY <2>2 DEF Get
    <3>3. /\ n.pc = After(k) /\ n.shows = q.shows /\ n.has = [q.has EXCEPT ![k] = cache[k]]
          /\ n.late = q.late \cup found
      BY <1>1 DEF Request
    <3>4. n \in Request
      BY <1>1, <3>1 DEF Request, After, Key, InPost, PastPost
    <3>5. /\ n.has[k] = cache[k] /\ \A j \in Key \ {k} : n.has[j] = q.has[j]
          /\ q.late \subseteq n.late
          /\ (\E x \in cache[k] : x.excused) => k \in n.late /\ "page" \in n.late
      BY <1>1, <3>3 DEF Request
    <3> HIDE DEF n, q, found
    <3>6. RequestHolds(n)
      <4>1. CASE k = "tags"
        BY <1>1, <2>2, <3>1, <3>3, <3>5, <4>1 DEF RequestHolds, GetPc, After, InPost, PastPost
      <4>2. CASE k = "base"
        <5>1. "page" \in n.late \/ PageHolds("post", n.has["base"])
          BY <2>2, <3>1, <3>5, <4>2, EntryMakesPage
        <5> QED
          BY <1>1, <3>3, <4>2, <5>1 DEF RequestHolds, GetPc, After, InPost, PastPost
      <4>3. CASE k = "display"
        BY <1>1, <3>3, <3>5, <4>3 DEF RequestHolds, GetPc, After, Key, InPost, PastPost
      <4> QED
        BY <4>1, <4>2, <4>3 DEF Key
    <3> QED
      BY <3>2, <3>4, <3>6
  <2> QED
    BY <2>1, <2>2
<1> QED
  BY <1>2, RequestOf, RequestTurns DEF Get

\* A request that reads the row.
LEMMA FetchStep ==
  ASSUME FeedCacheInv, NEW r \in Reader, NEW k \in Key, Fetch(r, k)
  PROVE  FeedCacheInv'
<1> DEFINE q == reader[r]
           t == IF k = "base" THEN (CHOOSE x \in q.has["tags"] : TRUE).v ELSE 0
           found == k # "base" \/ shown # "gone"
           e == Entry(data[k], t, FALSE)
           pc == IF found THEN PutPc(k) ELSE After(k)
           read == IF found THEN {e} ELSE {}
           n == [q EXCEPT !.pc = pc, !.has[k] = read]
<1>1. q \in Request /\ RequestHolds(q) /\ q.pc = FetchPc(k) /\ data \in [Key -> Nat]
  BY RequestOf DEF Fetch, AtR
<1>2. reader' = [reader EXCEPT ![r] = n]
  <2>1. reader' = [reader EXCEPT ![r].pc = pc, ![r].has[k] = read]
    BY DEF Fetch
  <2>2. reader[r] = q
    OBVIOUS
  <2> HIDE DEF pc, read, q
  <2> QED
    BY <2>1, <2>2
<1>3. k = "base" => \E x \in q.has["tags"] : t = x.v /\ ("tags" \in q.late \/ EntryHolds("tags", x))
  BY <1>1 DEF RequestHolds, FetchPc
<1>4. t \in Nat
  BY <1>1, <1>3 DEF Request, CacheEntry, Key
<1>5. e \in CacheEntry /\ e.v = data[k] /\ e.t = t
  BY <1>1, <1>4 DEF Entry, CacheEntry
<1> HIDE DEF t, e
<1>6. n \in Request
  BY <1>1, <1>5 DEF Request, PutPc, After, Key, InPost, PastPost
<1>7. /\ n.pc = pc /\ n.shows = q.shows /\ n.late = q.late
      /\ n.has = [q.has EXCEPT ![k] = read]
  BY <1>1 DEF Request
<1> HIDE DEF n
<1>8. /\ n.pc = pc /\ n.shows = q.shows /\ n.late = q.late
      /\ n.has[k] = read /\ \A j \in Key \ {k} : n.has[j] = q.has[j]
  BY <1>1, <1>7 DEF Request
<1> HIDE DEF n, q
<1>9. RequestHolds(n)
  <2>1. CASE k \in {"tags", "display"}
    <3>1. EntryHolds(k, e)
      BY <1>5, <2>1 DEF EntryHolds, Fresh
    <3> QED
      BY <1>1, <1>8, <2>1, <3>1 DEF RequestHolds, FetchPc, PutPc, Key, InPost, PastPost
  <2>2. CASE k = "base" /\ found
    <3>1. Deleting("tags") => Pending("base")
      <4>1. ASSUME NEW w \in Writer, writer[w].pc \in {"tags", "delete"}, "tags" \in writer[w].keys
            PROVE  Pending("base")
        <5>1. writer[w] \in Change
          BY DEF FeedCacheInv, FeedCacheTypes
        <5>2. "base" \in writer[w].keys
          BY <4>1, <5>1 DEF Change, AtW
        <5> QED
          BY <4>1, <5>2 DEF Pending, AtW
      <4> QED
        BY <4>1 DEF Deleting
    <3>2. PostHolds /\ "tags" \notin q.late => EntryHolds("base", e)
      BY <1>3, <1>5, <2>2, <3>1 DEF PostHolds, EntryHolds, Fresh
    <3>3. "base" \in q.late \/ PostHolds
      BY <1>1, <2>2 DEF RequestHolds, FetchPc, InPost
    <3> QED
      BY <1>1, <1>8, <2>2, <3>2, <3>3 DEF RequestHolds, FetchPc, PutPc, Key, InPost, PastPost
  <2>3. CASE k = "base" /\ ~found
    BY <1>1, <1>8, <2>3 DEF RequestHolds, FetchPc, After, InPost, PastPost, ShownHolds, PostHolds, PageHolds
  <2> QED
    BY <2>1, <2>2, <2>3 DEF Key
<1> QED
  BY <1>2, <1>6, <1>9, RequestOf, RequestTurns DEF Fetch

\* A request that sets the entry it read.
LEMMA PutStep ==
  ASSUME FeedCacheInv, NEW r \in Reader, NEW k \in Key, Put(r, k)
  PROVE  FeedCacheInv'
<1> DEFINE q == reader[r]
           late == k \in q.late \/ (k = "base" /\ "tags" \in q.late)
           entries == {Entry(x.v, x.t, late) : x \in q.has[k]}
           n == [q EXCEPT !.pc = After(k), !.late = IF late THEN @ \cup {"page"} ELSE @]
<1>1. q \in Request /\ RequestHolds(q) /\ q.pc = PutPc(k)
  BY RequestOf DEF Put, AtR
<1>2. reader' = [reader EXCEPT ![r] = n] /\ cache' = [cache EXCEPT ![k] = entries]
  BY DEF Put
<1>3. \A x \in q.has[k] : late \/ EntryHolds(k, x)
  BY <1>1 DEF RequestHolds, PutPc, Key
<1>4. entries \subseteq CacheEntry /\ \A y \in entries : y.excused \/ EntryHolds(k, y)
  <2>1. ASSUME NEW y \in entries PROVE y \in CacheEntry /\ (y.excused \/ EntryHolds(k, y))
    <3>1. PICK x \in q.has[k] : y = Entry(x.v, x.t, late)
      OBVIOUS
    <3>2. x \in CacheEntry /\ late \in BOOLEAN
      BY <1>1 DEF Request
    <3> HIDE DEF late
    <3>3. y \in CacheEntry /\ y.v = x.v /\ y.t = x.t /\ y.excused = late
      BY <3>1, <3>2 DEF Entry, CacheEntry
    <3> QED
      BY <1>3, <3>3 DEF EntryHolds, Fresh
  <2> QED
    BY <2>1
<1>5. /\ n \in Request /\ n.pc = After(k) /\ n.shows = q.shows /\ n.has = q.has
      /\ n.late = IF late THEN q.late \cup {"page"} ELSE q.late
  BY <1>1 DEF Request, After, Key, InPost, PastPost
<1> HIDE DEF n, q, entries
<1>6. RequestHolds(n)
  <2>1. CASE k = "tags"
    BY <1>1, <1>5, <2>1 DEF RequestHolds, PutPc, After, InPost, PastPost
  <2>2. CASE k = "base"
    <3>1. "page" \in n.late \/ PageHolds("post", q.has["base"])
      BY <1>1, <1>3, <1>5, <2>2, EntryMakesPage DEF RequestHolds, PutPc
    <3> QED
      BY <1>1, <1>5, <2>2, <3>1 DEF RequestHolds, PutPc, After, InPost, PastPost
  <2>3. CASE k = "display"
    BY <1>1, <1>5, <2>3 DEF RequestHolds, PutPc, After, InPost, PastPost
  <2> QED
    BY <2>1, <2>2, <2>3 DEF Key
<1>7. /\ cache' \in [Key -> SUBSET CacheEntry]
      /\ \A j \in Key : \A x \in cache'[j] : x.excused \/ EntryHolds(j, x)
  BY <1>2, <1>4, RequestOf
<1> QED
  BY <1>2, <1>5, <1>6, <1>7, RequestOf, RequestTurns DEF Put

\* In every interleaving of reads, fills and invalidations: a cached entry is as its row is
\* now, or someone is about to drop it, or an invalidation overtook its read or failed.
THEOREM FeedCacheInvariant == FeedCacheSpec => []FeedCacheInv
<1>1. FeedCacheInv /\ [FeedCacheNext]_feedCacheVars => FeedCacheInv'
  <2> SUFFICES ASSUME FeedCacheInv, [FeedCacheNext]_feedCacheVars PROVE FeedCacheInv'
    OBVIOUS
  <2>1. CASE \E r \in Reader : GetPage(r) \/ QueryRows(r) \/ PutPage(r)
    BY <2>1, PageSteps
  <2>2. CASE \E r \in Reader, k \in Key : Get(r, k) \/ Fetch(r, k) \/ Put(r, k)
    BY <2>2, GetStep, FetchStep, PutStep
  <2>3. CASE \E w \in Writer : WriterSteps(w)
    BY <2>3, WriterStep
  <2>4. CASE \E w \in Writer : DeletionSteps(w)
    BY <2>4, DeletionStep
  <2>5. CASE ApproveText
    BY <2>5, ApprovalStep
  <2>6. CASE Expires \/ UNCHANGED feedCacheVars
    BY <2>6, ExpiryStep
  <2> QED
    BY <2>1, <2>2, <2>3, <2>4, <2>5, <2>6
       DEF FeedCacheNext, GetDisplay, FetchDisplay, PutDisplay, WriterSteps, DeletionSteps, Key
<1> QED
  BY <1>1, FeedCacheInitial, PTL DEF FeedCacheSpec

\* An entry or a page of the feed is stale only while its writer has not come to the
\* deletion, unless it was overtaken, the deletion failed or an approval asked for none,
\* for any number of requests, writers and edits.
THEOREM StaleExplained == FeedCacheSpec => []StaleIsExplained
<1>1. FeedCacheInv => StaleIsExplained
  <2> SUFFICES ASSUME FeedCacheInv PROVE StaleIsExplained
    OBVIOUS
  <2>1. \A k \in Key : Deleting(k) => Pending(k)
    BY DEF Deleting, Pending, AtW
  <2>2. \A k \in Key : \A x \in cache[k] : x.excused \/ Fresh(k, x) \/ Pending(k)
    BY <2>1 DEF FeedCacheInv, CachesHold, EntryHolds
  <2>3. \A x \in cachedPage : x.excused \/ PageFits(x) \/ PagePending
    BY <2>1 DEF FeedCacheInv, PagesHold, PageHolds, PageFits, PagePending, Listing, Key
  <2> QED
    BY <2>2, <2>3 DEF StaleIsExplained
<1> QED
  BY <1>1, FeedCacheInvariant, PTL

-----------------------------------------------------------------------------
(* The pages of the feed                                                   *)

Cursor == [t : Int, id : Nat]
FeedPage == [cursor : Cursor, rows : SUBSET FeedRow, next : Cursor, there : SUBSET FeedRow,
             last : SUBSET Int]

FeedPageTypes ==
  /\ feedRow \in [FeedRow -> [t : 0 .. MaxTime, state : {"new", "hidden", "shown", "gone"}]]
  /\ pages \subseteq FeedPage
  /\ walk \in [cursor : Cursor, shown : SUBSET FeedRow, twice : BOOLEAN, there : SUBSET FeedRow,
               lasts : SUBSET Int]

\* Rows that were published once: their time stays.
Dated == {i \in FeedRow : feedRow[i].state \in {"shown", "gone"}}

\* Every row of the page is below its cursor, and what is below and was there is on the page
\* or older than its last row, which the next cursor names.
PageSound(p) ==
  /\ p.rows \subseteq Dated /\ p.there \subseteq Published
  /\ \A i \in p.rows : Below(i, p.cursor)
  /\ \/ p.next = Ended /\ \A i \in p.there : Below(i, p.cursor) => i \in p.rows
     \/ \E l \in p.rows :
          /\ p.next = [t |-> Millisecond(feedRow[l].t), id |-> l]
          /\ \A j \in p.rows \ {l} : Newer(j, l)
          /\ \A i \in p.there : Below(i, p.cursor) => i \in p.rows \/ Newer(l, i)

WalkSound ==
  /\ ~walk.twice
  /\ walk.shown \subseteq Dated /\ \A i \in walk.shown : ~Below(i, walk.cursor)
  /\ walk.there \subseteq Published \/ (walk.cursor = NoCursor /\ walk.shown = {})
  /\ \A i \in walk.there : \/ i \in walk.shown \/ Below(i, walk.cursor)
                           \/ Millisecond(feedRow[i].t) \in walk.lasts

FeedPagesInv == FeedPageTypes /\ WalkSound /\ \A p \in pages : PageSound(p)

\* A time is cut to a millisecond that is not above it, and between the two all times are
\* cut to the same.
LEMMA MillisecondBelow ==
  ASSUME NEW t \in Nat
  PROVE  Millisecond(t) \in Nat /\ Millisecond(t) <= t
  BY FeedPagesAssumption DEF Millisecond

LEMMA MillisecondSame ==
  ASSUME NEW t \in Nat, NEW u \in Nat, t <= u, Millisecond(u) <= t
  PROVE  Millisecond(t) = Millisecond(u)
<1> DEFINE a == t \div PerMs
           b == u \div PerMs
           p == PerMs
<1>1. a \in Nat /\ b \in Nat /\ p \in Nat /\ p > 0
  BY FeedPagesAssumption
<1>2. /\ t = p * a + (t % p) /\ t % p \in 0 .. p - 1
      /\ u = p * b + (u % p) /\ u % p \in 0 .. p - 1
  BY FeedPagesAssumption
<1>3. /\ p * b <= t /\ t < p * b + p
      /\ p * a <= t /\ t < p * a + p
  BY <1>1, <1>2 DEF Millisecond
<1> HIDE DEF a, b, p
<1>4. \A i, j \in Nat : i < j => p * i + p <= p * j
  <2> SUFFICES ASSUME NEW i \in Nat, NEW j \in Nat, i + 1 <= j PROVE p * i + p <= p * j
    OBVIOUS
  <2>1. p * (i + 1) <= p * j
    BY <1>1
  <2>2. p * (i + 1) = p * i + p
    BY <1>1
  <2> QED
    BY <2>1, <2>2
<1>5. p * a \in Nat /\ p * b \in Nat
  BY <1>1
<1>6. a = b
  BY <1>1, <1>3, <1>4, <1>5
<1> QED
  BY <1>6, <1>2, <1>1 DEF Millisecond, p

\* Newer is a strict total order.
LEMMA NewerOrders ==
  ASSUME FeedPageTypes
  PROVE  /\ \A i \in FeedRow : ~Newer(i, i)
         /\ \A i, j \in FeedRow : i # j => Newer(i, j) \/ Newer(j, i)
         /\ \A i, j, k \in FeedRow : Newer(i, j) /\ Newer(j, k) => Newer(i, k)
         /\ \A i, j \in FeedRow : ~(Newer(i, j) /\ Newer(j, i))
<1>1. \A i \in FeedRow : i \in Nat /\ feedRow[i].t \in Nat
  BY FeedPagesAssumption DEF FeedPageTypes
<1> QED
  BY <1>1 DEF Newer

LEMMA RowsCount ==
  ASSUME NEW S \in SUBSET FeedRow
  PROVE  /\ IsFiniteSet(S) /\ Cardinality(S) \in Nat
         /\ \A T \in SUBSET S : Cardinality(T) <= Cardinality(S)
  BY FeedPagesAssumption, FS_Subset, FS_CardinalityType

\* Among rows there is a newest and an oldest one.
LEMMA MinimalRow ==
  ASSUME NEW X \in SUBSET FeedRow, X # {}, NEW f \in [X -> SUBSET FeedRow]
  PROVE  \E i \in X : \A j \in X : ~(f[j] \subseteq f[i] /\ f[j] # f[i])
<1> DEFINE T == {f[i] : i \in X}
<1>1. T \subseteq FiniteSubsetsOf(FeedRow) /\ T # {}
  BY RowsCount DEF FiniteSubsetsOf
<1>2. IsWellFoundedOn(StrictSubsetOrdering(FeedRow), FiniteSubsetsOf(FeedRow))
  BY FS_StrictSubsetOrderingWellFounded
<1>3. PICK x \in T : \A y \in T : <<y, x>> \notin StrictSubsetOrdering(FeedRow)
  BY <1>1, <1>2, WFMin
<1>4. PICK i \in X : x = f[i]
  OBVIOUS
<1>5. ASSUME NEW j \in X, f[j] \subseteq f[i], f[j] # f[i] PROVE FALSE
  <2>1. <<f[j], x>> \in StrictSubsetOrdering(FeedRow)
    BY <1>4, <1>5 DEF StrictSubsetOrdering
  <2> QED
    BY <1>3, <2>1
<1> QED
  BY <1>5

LEMMA NewestRow ==
  ASSUME FeedPageTypes, NEW X \in SUBSET FeedRow, X # {}
  PROVE  \E i \in X : \A j \in X \ {i} : Newer(i, j)
<1> DEFINE f == [i \in X |-> {k \in FeedRow : Newer(k, i)}]
<1>3. f \in [X -> SUBSET FeedRow]
  OBVIOUS
<1> HIDE DEF f
<1>1. PICK i \in X : \A j \in X : ~(f[j] \subseteq f[i] /\ f[j] # f[i])
  BY <1>3, MinimalRow
<1> USE DEF f
<1>2. ASSUME NEW j \in X \ {i}, Newer(j, i) PROVE FALSE
  <2>1. f[j] \subseteq f[i] /\ j \in f[i] /\ j \notin f[j]
    BY <1>2, NewerOrders
  <2> QED
    BY <1>1, <2>1
<1> QED
  BY <1>2, NewerOrders

LEMMA OldestRow ==
  ASSUME FeedPageTypes, NEW X \in SUBSET FeedRow, X # {}
  PROVE  \E i \in X : \A j \in X \ {i} : Newer(j, i)
<1> DEFINE f == [i \in X |-> {k \in FeedRow : Newer(i, k)}]
<1>3. f \in [X -> SUBSET FeedRow]
  OBVIOUS
<1> HIDE DEF f
<1>1. PICK i \in X : \A j \in X : ~(f[j] \subseteq f[i] /\ f[j] # f[i])
  BY <1>3, MinimalRow
<1> USE DEF f
<1>2. ASSUME NEW j \in X \ {i}, Newer(i, j) PROVE FALSE
  <2>1. f[j] \subseteq f[i] /\ j \in f[i] /\ j \notin f[j]
    BY <1>2, NewerOrders
  <2> QED
    BY <1>1, <2>1
<1> QED
  BY <1>2, NewerOrders

\* The newest n of S are all of S, or at least n.
LEMMA NewestFill ==
  ASSUME FeedPageTypes, NEW S \in SUBSET FeedRow, NEW n \in Nat, Newest(S, n) # S
  PROVE  Cardinality(Newest(S, n)) >= n
<1> DEFINE N == Newest(S, n)
<1>1. N \subseteq S /\ S \ N # {}
  BY DEF Newest
<1>2. PICK i \in S \ N : \A j \in (S \ N) \ {i} : Newer(i, j)
  <2> DEFINE X == S \ N
  <2>1. X \in SUBSET FeedRow /\ X # {}
    BY <1>1
  <2> HIDE DEF X
  <2>2. \E i \in X : \A j \in X \ {i} : Newer(i, j)
    BY <2>1, NewestRow
  <2> QED
    BY <2>2 DEF X
<1>3. {j \in S : Newer(j, i)} \subseteq N
  <2> HIDE DEF N
  <2>1. ASSUME NEW j \in S, Newer(j, i), j \notin N PROVE FALSE
    <3>1. i \in FeedRow /\ j \in FeedRow /\ j \in (S \ N)
      BY <1>2, <2>1
    <3>2. j = i \/ Newer(i, j)
      BY <1>2, <3>1
    <3> QED
      BY <2>1, <3>1, <3>2, NewerOrders
  <2> QED
    BY <2>1
<1>4. ~(Cardinality({j \in S : Newer(j, i)}) < n)
  BY <1>2 DEF Newest
<1> HIDE DEF N
<1>5. N \in SUBSET FeedRow /\ {j \in S : Newer(j, i)} \in SUBSET N
  BY <1>1, <1>3
<1>6. Cardinality({j \in S : Newer(j, i)}) <= Cardinality(N)
  BY <1>5, RowsCount
<1> QED
  BY <1>4, <1>5, <1>6, RowsCount DEF N

\* Whatever the newest n of S leave out is older than all of them.
LEMMA NewestAreNewer ==
  ASSUME FeedPageTypes, NEW S \in SUBSET FeedRow, NEW n \in Nat,
         NEW i \in S \ Newest(S, n), NEW j \in Newest(S, n)
  PROVE  Newer(j, i)
<1> SUFFICES ASSUME Newer(i, j) PROVE FALSE
  BY NewerOrders DEF Newest
<1> DEFINE above(k) == {l \in S : Newer(l, k)}
<1>1. above(i) \subseteq above(j) /\ above(j) \in SUBSET FeedRow /\ above(i) \in SUBSET FeedRow
  BY NewerOrders DEF Newest
<1>2. ~(Cardinality(above(i)) < n) /\ Cardinality(above(j)) < n
  BY DEF Newest
<1> HIDE DEF above
<1> QED
  BY <1>1, <1>2, RowsCount

\* The newest n of two limited lists are the newest n of both.
LEMMA NewestMerge ==
  ASSUME FeedPageTypes, NEW A \in SUBSET FeedRow, NEW B \in SUBSET FeedRow, NEW n \in Nat
  PROVE  Newest(Newest(A, n) \cup Newest(B, n), n) = Newest(A \cup B, n)
<1> DEFINE S == A \cup B
           U == Newest(A, n) \cup Newest(B, n)
           above(X, k) == {l \in X : Newer(l, k)}
<1>1. U \subseteq S
  BY DEF Newest
<1>2. \A X, Y, k : X \subseteq Y => above(X, k) \subseteq above(Y, k)
  OBVIOUS
<1>3. \A X \in SUBSET FeedRow : \A k \in X : k \in Newest(X, n) <=> Cardinality(above(X, k)) < n
  BY DEF Newest
<1>4. \A X \in SUBSET FeedRow : \A k : above(X, k) \in SUBSET FeedRow
  OBVIOUS
<1> HIDE DEF above, S, U
<1>5. ASSUME NEW X \in SUBSET FeedRow, NEW Y \in SUBSET FeedRow, X \subseteq Y, NEW k,
             Cardinality(above(Y, k)) < n
      PROVE  Cardinality(above(X, k)) < n
  BY <1>2, <1>4, <1>5, RowsCount
<1>6. S \in SUBSET FeedRow /\ U \in SUBSET FeedRow /\ A \subseteq S /\ B \subseteq S
  BY <1>1 DEF S
<1>7. ASSUME NEW k \in S, Cardinality(above(S, k)) < n PROVE k \in U
  BY <1>3, <1>5, <1>6, <1>7 DEF S, U
<1>8. Newest(S, n) \subseteq Newest(U, n)
  <2>1. ASSUME NEW k \in Newest(S, n) PROVE k \in Newest(U, n)
    <3>1. k \in S /\ Cardinality(above(S, k)) < n
      BY <1>3, <1>6 DEF Newest
    <3> QED
      BY <3>1, <1>1, <1>3, <1>5, <1>6, <1>7
  <2> QED
    BY <2>1
<1>9. ASSUME NEW i \in Newest(U, n), ~(Cardinality(above(S, i)) < n) PROVE FALSE
  <2> DEFINE D == above(S, i)
             T == Newest(D, n)
  <2>1. i \in U /\ i \in FeedRow /\ Cardinality(above(U, i)) < n
    BY <1>3, <1>6 DEF Newest
  <2>2. D \in SUBSET FeedRow /\ T \subseteq D
    BY <1>4, <1>6 DEF Newest
  <2>3. Cardinality(T) >= n
    BY <1>9, <2>2, NewestFill, RowsCount
  <2>4. ASSUME NEW k \in T PROVE k \in above(U, i)
    <3>1. k \in S /\ Newer(k, i) /\ Cardinality(above(D, k)) < n
      BY <1>3, <2>2 DEF above
    <3>2. above(S, k) \subseteq above(D, k)
      BY <1>6, <2>1, <3>1, NewerOrders DEF above
    <3>3. Cardinality(above(S, k)) < n
      BY <1>4, <1>6, <2>2, <3>1, <3>2, RowsCount
    <3> QED
      BY <1>7, <3>1, <3>3 DEF above
  <2> QED
    BY <1>4, <1>6, <2>1, <2>2, <2>3, <2>4, RowsCount
<1>10. Newest(U, n) \subseteq Newest(S, n)
  BY <1>1, <1>3, <1>6, <1>9 DEF Newest
<1> QED
  BY <1>8, <1>10 DEF S, U

\* A page is the newest rows below its cursor, of posts and ads together.
LEMMA RowsAreNewest ==
  ASSUME FeedPageTypes, NEW c \in Cursor
  PROVE  Rows(c) = Newest({i \in Published : Below(i, c)}, Limit)
<1> DEFINE of(kind) == {i \in Published : KindOf[i] = kind /\ Below(i, c)}
<1>1. of("post") \cup of("ad") = {i \in Published : Below(i, c)}
  BY FeedPagesAssumption DEF Published
<1>2. of("post") \in SUBSET FeedRow /\ of("ad") \in SUBSET FeedRow
  BY DEF Published
<1>3. Rows(c) = Newest(Newest(of("post"), Limit) \cup Newest(of("ad"), Limit), Limit)
  BY DEF Rows
<1> HIDE DEF of
<1>4. Rows(c) = Newest(of("post") \cup of("ad"), Limit)
  BY <1>2, <1>3, NewestMerge, FeedPagesAssumption
<1> QED
  BY <1>1, <1>4

\* A page that was just read leaves out nothing below its cursor, and its next cursor names
\* its last row.
LEMMA FreshPage ==
  ASSUME FeedPageTypes, NEW c \in Cursor, NEW p,
         p = [cursor |-> c, rows |-> Rows(c), next |-> NextCursor(Rows(c)), there |-> Published,
              last |-> {Millisecond(feedRow[i].t) : i \in Rows(c)}]
  PROVE  p \in FeedPage /\ PageSound(p)
<1> DEFINE B == {i \in Published : Below(i, c)}
           R == Rows(c)
<1>1. R = Newest(B, Limit) /\ R \subseteq B /\ B \in SUBSET FeedRow
  BY RowsAreNewest DEF Newest, Published
<1>2. R \in SUBSET FeedRow /\ Published \subseteq Dated /\ B \subseteq Published
  BY <1>1 DEF Published, Dated
<1>3. \A i \in FeedRow : Millisecond(feedRow[i].t) \in Nat
  BY MillisecondBelow DEF FeedPageTypes
<1>4. /\ p.cursor = c /\ p.rows = R /\ p.next = NextCursor(R) /\ p.there = Published
      /\ p.last = {Millisecond(feedRow[i].t) : i \in R}
      /\ p = [cursor |-> p.cursor, rows |-> p.rows, next |-> p.next, there |-> p.there,
              last |-> p.last]
  OBVIOUS
<1>5. \A i \in R : Below(i, c)
  BY <1>1
<1>8. p.last \in SUBSET Int
  BY <1>2, <1>3, <1>4
<1> HIDE DEF R
<1>9. ASSUME NextCursor(R) \in Cursor PROVE p \in FeedPage
  <2>1. /\ p.cursor \in Cursor /\ p.rows \in SUBSET FeedRow /\ p.next \in Cursor
        /\ p.there \in SUBSET FeedRow
    BY <1>2, <1>4, <1>9 DEF Published
  <2> QED
    BY <1>4, <1>8, <2>1 DEF FeedPage
<1>6. CASE Cardinality(R) < Limit
  <2>1. R = B
    BY <1>1, <1>6, NewestFill, FeedPagesAssumption, RowsCount
  <2>2. NextCursor(R) = Ended /\ Ended \in Cursor
    BY <1>6 DEF NextCursor, Ended, Cursor
  <2>3. \A i \in p.there : Below(i, p.cursor) => i \in p.rows
    BY <1>4, <2>1
  <2> HIDE DEF B
  <2>4. PageSound(p)
    BY <1>1, <1>2, <1>4, <1>5, <2>2, <2>3 DEF PageSound
  <2> QED
    BY <1>9, <2>2, <2>4
<1>7. CASE ~(Cardinality(R) < Limit)
  <2>1. R # {}
    BY <1>7, FS_EmptySet, FeedPagesAssumption
  <2> DEFINE l == CHOOSE i \in R : \A j \in R \ {i} : Newer(j, i)
  <2>2. l \in R /\ \A j \in R \ {l} : Newer(j, l)
    BY <1>2, <2>1, OldestRow
  <2>3. NextCursor(R) = [t |-> Millisecond(feedRow[l].t), id |-> l]
    BY <1>7 DEF NextCursor
  <2> HIDE DEF l
  <2>4. NextCursor(R) \in Cursor
    BY <1>2, <1>3, <2>2, <2>3, FeedPagesAssumption DEF Cursor
  <2>5. \A i \in B \ R : Newer(l, i)
    BY <1>1, <2>2, NewestAreNewer, FeedPagesAssumption
  <2>6. \A i \in p.there : Below(i, p.cursor) => i \in p.rows \/ Newer(l, i)
    BY <1>4, <2>5
  <2> HIDE DEF B
  <2>7. PageSound(p)
    BY <1>1, <1>2, <1>4, <1>5, <2>2, <2>3, <2>6 DEF PageSound
  <2> QED
    BY <1>9, <2>4, <2>7
<1> QED
  BY <1>6, <1>7

\* Rows that were published keep their time, and never come back to a state before.
Settled == \A i \in Dated : i \in Dated' /\ feedRow'[i] \in [t : {feedRow[i].t}, state : {"shown", "gone"}]

\* So a page stays sound, whatever it forgets of what was there.
LEMMA PageStays ==
  ASSUME FeedPageTypes, FeedPageTypes', Settled, NEW p \in FeedPage, NEW q \in FeedPage,
         PageSound(p), q.cursor = p.cursor, q.rows = p.rows, q.next = p.next,
         q.there \subseteq p.there, q.there \subseteq Published'
  PROVE  PageSound(q)'
<1>1. p.rows \subseteq Dated /\ p.there \subseteq Dated
  BY DEF PageSound, Published, Dated
<1>2. \A i \in Dated : i \in Dated' /\ feedRow'[i].t = feedRow[i].t
  BY DEF Settled
<1>3. \A i \in Dated : \A c : Below(i, c)' <=> Below(i, c)
  BY <1>2 DEF Below
<1>4. \A i, j \in Dated : Newer(i, j)' <=> Newer(i, j)
  BY <1>2 DEF Newer
<1>5. \A i \in q.rows : i \in Dated' /\ Below(i, q.cursor)'
  BY <1>1, <1>2, <1>3 DEF PageSound
<1>6. CASE p.next = Ended /\ \A i \in p.there : Below(i, p.cursor) => i \in p.rows
  BY <1>1, <1>3, <1>5, <1>6 DEF PageSound
<1>7. ASSUME NEW l \in p.rows, p.next = [t |-> Millisecond(feedRow[l].t), id |-> l],
             \A j \in p.rows \ {l} : Newer(j, l),
             \A i \in p.there : Below(i, p.cursor) => i \in p.rows \/ Newer(l, i)
      PROVE  PageSound(q)'
  <2>1. q.next = [t |-> Millisecond(feedRow[l].t)', id |-> l]
    BY <1>1, <1>2, <1>7 DEF Millisecond
  <2>2. \A j \in q.rows \ {l} : Newer(j, l)'
    BY <1>1, <1>4, <1>7
  <2>3. \A i \in q.there : Below(i, q.cursor)' => i \in q.rows \/ Newer(l, i)'
    BY <1>1, <1>3, <1>4, <1>7
  <2> QED
    BY <1>5, <1>7, <2>1, <2>2, <2>3 DEF PageSound
<1> QED
  BY <1>6, <1>7 DEF PageSound

\* And so does what the reader has seen.
LEMMA WalkStays ==
  ASSUME FeedPagesInv, FeedPageTypes', Settled,
         walk'.cursor = walk.cursor, walk'.shown = walk.shown, walk'.twice = walk.twice,
         walk'.lasts = walk.lasts, walk'.there \subseteq walk.there,
         walk.there \subseteq Published => walk'.there \subseteq Published'
  PROVE  WalkSound'
<1>1. PICK c \in Cursor : c = walk.cursor
  BY DEF FeedPagesInv, FeedPageTypes
<1>2. /\ ~walk.twice /\ walk.shown \subseteq Dated /\ walk.there \subseteq FeedRow
      /\ \A i \in walk.shown : ~Below(i, c)
      /\ \A i \in walk.there : \/ i \in walk.shown \/ Below(i, c)
                               \/ Millisecond(feedRow[i].t) \in walk.lasts
      /\ walk.there \subseteq Published \/ (c = NoCursor /\ walk.shown = {})
  BY <1>1 DEF FeedPagesInv, WalkSound, FeedPageTypes
<1>3. \A i \in Dated : i \in Dated' /\ feedRow'[i].t = feedRow[i].t
  BY DEF Settled
<1>4. \A i \in Dated : /\ Below(i, c)' <=> Below(i, c)
                       /\ Millisecond(feedRow[i].t)' = Millisecond(feedRow[i].t)
  BY <1>3 DEF Below, Millisecond
<1>5. walk'.shown \subseteq Dated' /\ \A i \in walk'.shown : ~Below(i, c)'
  BY <1>2, <1>3, <1>4
<1>6. /\ \A i \in walk'.there : \/ i \in walk'.shown \/ Below(i, c)'
                                \/ Millisecond(feedRow[i].t)' \in walk'.lasts
      /\ walk'.there \subseteq Published' \/ (c = NoCursor /\ walk'.shown = {})
  <2>1. CASE walk.there \subseteq Published
    <3>1. walk.there \subseteq Dated
      BY <2>1 DEF Published, Dated
    <3> QED
      BY <1>2, <1>4, <2>1, <3>1
  <2>2. CASE c = NoCursor /\ walk.shown = {}
    <3>1. \A i \in FeedRow : Below(i, c)'
      BY <2>2, FeedPagesAssumption DEF FeedPageTypes, Below, NoCursor
    <3> QED
      BY <1>2, <2>2, <3>1
  <2> QED
    BY <1>2, <2>1, <2>2
<1>7. \A i : Below(i, walk.cursor)' <=> Below(i, c)'
  BY <1>1 DEF Below
<1> QED
  BY <1>1, <1>2, <1>5, <1>6, <1>7 DEF WalkSound

\* Rows that appear, and rows that disappear.
LEMMA RowStep ==
  ASSUME FeedPagesInv, NEW i \in FeedRow,
         Publish(i) \/ Withdraw(i) \/ \E t \in 0 .. MaxTime : Create(i, t)
  PROVE  FeedPagesInv'
<1> DEFINE Row == [t : 0 .. MaxTime, state : {"new", "hidden", "shown", "gone"}]
<1>1. /\ feedRow \in [FeedRow -> Row] /\ pages \subseteq FeedPage
      /\ walk \in [cursor : Cursor, shown : SUBSET FeedRow, twice : BOOLEAN,
                   there : SUBSET FeedRow, lasts : SUBSET Int]
      /\ FeedPageTypes
  BY DEF FeedPagesInv, FeedPageTypes
<1>2. PICK x \in Row : /\ feedRow' = [feedRow EXCEPT ![i] = x]
                       /\ i \in Dated => x.t = feedRow[i].t /\ x.state = "gone"
                       /\ feedRow[i].state = "shown" => Withdraw(i)
  <2> DEFINE Turns(x) == /\ feedRow' = [feedRow EXCEPT ![i] = x]
                         /\ i \in Dated => x.t = feedRow[i].t /\ x.state = "gone"
                         /\ feedRow[i].state = "shown" => Withdraw(i)
  <2>1. CASE Publish(i)
    <3> DEFINE y == [feedRow[i] EXCEPT !.state = "shown"]
    <3>1. y \in Row /\ Turns(y)
      BY <1>1, <2>1 DEF Publish, Dated
    <3> QED
      BY <3>1
  <2>2. CASE Withdraw(i)
    <3> DEFINE y == [feedRow[i] EXCEPT !.state = "gone"]
    <3>1. y \in Row /\ Turns(y)
      BY <1>1, <2>2 DEF Withdraw, Dated
    <3> QED
      BY <3>1
  <2>3. ASSUME NEW t \in 0 .. MaxTime, Create(i, t) PROVE \E x \in Row : Turns(x)
    <3> DEFINE y == [t |-> t, state |-> "hidden"]
    <3>1. y \in Row /\ Turns(y)
      BY <1>1, <2>3 DEF Create, Dated
    <3> QED
      BY <3>1
  <2> QED
    BY <2>1, <2>2, <2>3
<1> HIDE DEF Row
<1>3. feedRow' \in [FeedRow -> Row] /\ feedRow'[i] = x /\ \A j \in FeedRow \ {i} : feedRow'[j] = feedRow[j]
  BY <1>1, <1>2
<1>4. Settled
  BY <1>1, <1>2, <1>3 DEF Settled, Dated, Row
<1>5. \A j \in FeedRow \ {i} : j \in Published => j \in Published'
  BY <1>3 DEF Published
<1>6. CASE Withdraw(i)
  <2>1. /\ walk' = [walk EXCEPT !.there = walk.there \ {i}]
        /\ pages' = {[p EXCEPT !.there = p.there \ {i}] : p \in pages}
    BY <1>6 DEF Withdraw
  <2>2. \A p \in FeedPage : /\ [p EXCEPT !.there = p.there \ {i}] \in FeedPage
                            /\ [p EXCEPT !.there = p.there \ {i}].cursor = p.cursor
                            /\ [p EXCEPT !.there = p.there \ {i}].rows = p.rows
                            /\ [p EXCEPT !.there = p.there \ {i}].next = p.next
                            /\ [p EXCEPT !.there = p.there \ {i}].there = p.there \ {i}
    BY DEF FeedPage
  <2>3. FeedPageTypes'
    <3>1. pages' \subseteq FeedPage
      BY <1>1, <2>1, <2>2
    <3>2. walk' \in [cursor : Cursor, shown : SUBSET FeedRow, twice : BOOLEAN,
                     there : SUBSET FeedRow, lasts : SUBSET Int]
      BY <1>1, <2>1
    <3> QED
      BY <1>3, <3>1, <3>2 DEF FeedPageTypes, Row
  <2>4. \A p \in pages' : PageSound(p)'
    <3>1. ASSUME NEW q \in pages' PROVE PageSound(q)'
      <4>1. PICK p \in pages : q = [p EXCEPT !.there = p.there \ {i}]
        BY <2>1
      <4>2. p \in FeedPage /\ PageSound(p)
        BY <1>1 DEF FeedPagesInv
      <4>3. /\ q \in FeedPage /\ q.cursor = p.cursor /\ q.rows = p.rows /\ q.next = p.next
            /\ q.there = p.there \ {i}
        BY <4>1, <4>2, <2>2
      <4>4. q.there \subseteq p.there /\ q.there \subseteq Published'
        BY <1>5, <4>2, <4>3 DEF PageSound, Published
      <4> QED
        BY <1>1, <1>4, <2>3, <4>2, <4>3, <4>4, PageStays
    <3> QED
      BY <3>1
  <2>5. /\ walk'.cursor = walk.cursor /\ walk'.shown = walk.shown /\ walk'.twice = walk.twice
        /\ walk'.lasts = walk.lasts /\ walk'.there = walk.there \ {i}
    BY <1>1, <2>1
  <2>6. walk.there \subseteq Published => walk'.there \subseteq Published'
    BY <1>5, <2>5 DEF Published
  <2>7. WalkSound'
    BY <1>4, <2>3, <2>5, <2>6, WalkStays
  <2> QED
    BY <2>3, <2>4, <2>7 DEF FeedPagesInv
<1>7. CASE ~Withdraw(i)
  <2>1. pages' = pages /\ walk' = walk
    BY <1>7 DEF Publish, Create
  <2>2. Published \subseteq Published'
    BY <1>2, <1>5, <1>7 DEF Published
  <2>3. FeedPageTypes'
    BY <1>1, <1>3, <2>1 DEF FeedPageTypes, Row
  <2>4. \A p \in pages' : PageSound(p)'
    <3>1. ASSUME NEW p \in pages PROVE PageSound(p)'
      <4>1. p \in FeedPage /\ PageSound(p)
        BY <1>1 DEF FeedPagesInv
      <4>2. p.there \subseteq Published'
        BY <2>2, <4>1 DEF PageSound
      <4> QED
        BY <1>1, <1>4, <2>3, <4>1, <4>2, PageStays
    <3> QED
      BY <2>1, <3>1
  <2>5. WalkSound'
    BY <1>4, <2>1, <2>2, <2>3, WalkStays
  <2> QED
    BY <2>3, <2>4, <2>5 DEF FeedPagesInv
<1> QED
  BY <1>6, <1>7

\* A reader that starts again, a page that expires, a step of others.
LEMMA WalkStep ==
  ASSUME FeedPagesInv, StartAgain \/ PageExpires \/ UNCHANGED feedPageVars
  PROVE  FeedPagesInv'
<1>1. feedRow' = feedRow /\ pages' \subseteq pages /\ (walk' = walk \/ walk' = AtTheTop)
  BY DEF StartAgain, PageExpires, feedPageVars
<1>2. FeedPageTypes /\ WalkSound /\ \A p \in pages : PageSound(p)
  BY DEF FeedPagesInv
<1>3. \A p : PageSound(p)' <=> PageSound(p)
  BY <1>1 DEF PageSound, Dated, Published, Below, Newer, Millisecond
<1>4. AtTheTop \in [cursor : Cursor, shown : SUBSET FeedRow, twice : BOOLEAN,
                    there : SUBSET FeedRow, lasts : SUBSET Int]
  BY FeedPagesAssumption DEF AtTheTop, NoCursor, Cursor
<1>5. FeedPageTypes'
  BY <1>1, <1>2, <1>4 DEF FeedPageTypes
<1>6. WalkSound'
  <2>1. CASE walk' = walk
    BY <1>1, <1>2, <2>1 DEF WalkSound, Dated, Published, Below, Millisecond
  <2>2. CASE walk' = AtTheTop
    <3>1. \A j \in FeedRow : Below(j, NoCursor)'
      BY <1>5, FeedPagesAssumption DEF FeedPageTypes, Below, NoCursor
    <3>2. /\ walk'.cursor = NoCursor /\ walk'.shown = {} /\ walk'.twice = FALSE
          /\ walk'.there = FeedRow
      BY <2>2 DEF AtTheTop
    <3> QED
      BY <3>1, <3>2 DEF WalkSound, Below
  <2> QED
    BY <1>1, <2>1, <2>2
<1> QED
  BY <1>1, <1>2, <1>3, <1>5, <1>6 DEF FeedPagesInv

\* The page a reader gets, from the cache or not, is sound.
LEMMA PageGotten ==
  ASSUME FeedPagesInv, ReadPage
  PROVE  \E g \in FeedPage :
           /\ PageSound(g) /\ g.cursor = walk.cursor
           /\ pages' = pages \cup {g}
           /\ walk' = [cursor |-> g.next, shown |-> walk.shown \cup g.rows,
                       twice |-> walk.twice \/ walk.shown \cap g.rows # {},
                       there |-> walk.there \cap g.there, lasts |-> walk.lasts \cup {g.next.t}]
<1> DEFINE c == walk.cursor
           hit == {p \in pages : p.cursor = c}
           made == [cursor |-> c, rows |-> Rows(c), next |-> NextCursor(Rows(c)),
                    there |-> Published, last |-> {Millisecond(feedRow[i].t) : i \in Rows(c)}]
           got == IF hit = {} THEN made ELSE CHOOSE p \in hit : TRUE
<1>1. c \in Cursor /\ pages \subseteq FeedPage /\ FeedPageTypes
  BY DEF FeedPagesInv, FeedPageTypes
<1>2. made \in FeedPage /\ PageSound(made) /\ made.cursor = c
  <2> HIDE DEF c
  <2>1. \A m : m = made => m \in FeedPage /\ PageSound(m) /\ m.cursor = c
    BY <1>1, FreshPage
  <2> HIDE DEF made
  <2> QED
    BY <2>1
<1>3. /\ pages' = pages \cup {got}
      /\ walk' = [cursor |-> got.next, shown |-> walk.shown \cup got.rows,
                  twice |-> walk.twice \/ walk.shown \cap got.rows # {},
                  there |-> walk.there \cap got.there, lasts |-> walk.lasts \cup {got.next.t}]
  BY DEF ReadPage, GetChronologicalFeed
<1> HIDE DEF made
<1>4. got \in FeedPage /\ PageSound(got) /\ got.cursor = c
  <2>1. CASE hit = {}
    BY <1>2, <2>1
  <2>2. CASE hit # {}
    <3>1. got \in hit
      BY <2>2
    <3> HIDE DEF got
    <3> QED
      BY <1>1, <3>1 DEF FeedPagesInv
  <2> QED
    BY <2>1, <2>2
<1> HIDE DEF got
<1> QED
  BY <1>3, <1>4

\* A row that is not below the next cursor, but is not newer than the row it names either, is
\* of that row's millisecond.
LEMMA Skipped ==
  ASSUME FeedPageTypes, NEW l \in FeedRow, NEW i \in FeedRow, Newer(l, i),
         ~Below(i, [t |-> Millisecond(feedRow[l].t), id |-> l])
  PROVE  Millisecond(feedRow[i].t) = Millisecond(feedRow[l].t)
<1>1. /\ feedRow[i].t \in Nat /\ feedRow[l].t \in Nat /\ i \in Nat /\ l \in Nat
      /\ Millisecond(feedRow[l].t) \in Nat
  BY MillisecondBelow, FeedPagesAssumption DEF FeedPageTypes
<1>2. feedRow[i].t <= feedRow[l].t
  BY <1>1 DEF Newer
<1>3. Millisecond(feedRow[l].t) <= feedRow[i].t
  BY <1>1 DEF Below
<1> QED
  BY <1>1, <1>2, <1>3, MillisecondSame

\* The cursor that names a row is above nothing but rows older than it.
LEMMA CursorBelow ==
  ASSUME FeedPageTypes, NEW l \in FeedRow, NEW i \in FeedRow,
         Below(i, [t |-> Millisecond(feedRow[l].t), id |-> l])
  PROVE  Newer(l, i)
<1>1. /\ feedRow[i].t \in Nat /\ feedRow[l].t \in Nat /\ i \in Nat /\ l \in Nat
      /\ Millisecond(feedRow[l].t) \in Nat /\ Millisecond(feedRow[l].t) <= feedRow[l].t
  BY MillisecondBelow, FeedPagesAssumption DEF FeedPageTypes
<1> QED
  BY <1>1 DEF Below, Newer

\* A reader that turns a page.
LEMMA ReadStep ==
  ASSUME FeedPagesInv, ReadPage
  PROVE  FeedPagesInv'
<1>1. PICK g \in FeedPage :
        /\ PageSound(g) /\ g.cursor = walk.cursor
        /\ pages' = pages \cup {g}
        /\ walk' = [cursor |-> g.next, shown |-> walk.shown \cup g.rows,
                    twice |-> walk.twice \/ walk.shown \cap g.rows # {},
                    there |-> walk.there \cap g.there, lasts |-> walk.lasts \cup {g.next.t}]
  BY PageGotten
<1>2. PICK c \in Cursor : c = walk.cursor
  BY DEF FeedPagesInv, FeedPageTypes
<1>3. /\ FeedPageTypes /\ ~walk.twice /\ walk.shown \subseteq Dated
      /\ \A i \in walk.shown : ~Below(i, c)
      /\ \A i \in walk.there : \/ i \in walk.shown \/ Below(i, c)
                               \/ Millisecond(feedRow[i].t) \in walk.lasts
  BY <1>2 DEF FeedPagesInv, WalkSound
<1>4. /\ g.cursor = c /\ g.rows \subseteq Dated /\ g.there \subseteq Published
      /\ Dated \subseteq FeedRow /\ Published \subseteq FeedRow
      /\ \A i \in g.rows : Below(i, c)
  BY <1>1, <1>2 DEF PageSound, Dated, Published
<1>5. feedRow' = feedRow
  BY DEF ReadPage
<1>6. /\ walk'.cursor = g.next /\ walk'.shown = walk.shown \cup g.rows
      /\ walk'.twice = (walk.twice \/ walk.shown \cap g.rows # {})
      /\ walk'.there = walk.there \cap g.there /\ walk'.lasts = walk.lasts \cup {g.next.t}
  BY <1>1
<1>7. FeedPageTypes'
  <2>1. walk' \in [cursor : Cursor, shown : SUBSET FeedRow, twice : BOOLEAN,
                   there : SUBSET FeedRow, lasts : SUBSET Int]
    <3>1. /\ g.next \in Cursor /\ g.next.t \in Int /\ g.rows \in SUBSET FeedRow
          /\ walk.shown \in SUBSET FeedRow /\ walk.there \in SUBSET FeedRow
          /\ walk.lasts \in SUBSET Int
      BY <1>3 DEF FeedPageTypes, FeedPage, Cursor
    <3>2. walk'.twice = FALSE
      BY <1>3, <1>4, <1>6
    <3>3. walk' = [cursor |-> g.next, shown |-> walk.shown \cup g.rows, twice |-> FALSE,
                   there |-> walk.there \cap g.there, lasts |-> walk.lasts \cup {g.next.t}]
      BY <1>1, <1>6, <3>2
    <3> QED
      BY <3>1, <3>3
  <2>2. pages' \subseteq FeedPage
    BY <1>1, <1>3 DEF FeedPageTypes
  <2> QED
    BY <1>3, <1>5, <2>1, <2>2 DEF FeedPageTypes
<1>8. \A p : PageSound(p)' <=> PageSound(p)
  BY <1>5 DEF PageSound, Dated, Published, Below, Newer, Millisecond
<1> DEFINE GoesOn == /\ \A i \in walk.shown \cup g.rows : ~Below(i, g.next)
                     /\ \A i \in walk.there \cap g.there :
                          \/ i \in walk.shown \cup g.rows \/ Below(i, g.next)
                          \/ Millisecond(feedRow[i].t) \in walk.lasts \cup {g.next.t}
<1>9. GoesOn
  <2>1. CASE g.next = Ended /\ \A i \in g.there : Below(i, c) => i \in g.rows
    <3>1. \A i \in FeedRow : ~Below(i, Ended)
      BY <1>3, FeedPagesAssumption DEF FeedPageTypes, Below, Ended
    <3> QED
      BY <1>3, <1>4, <2>1, <3>1
  <2>2. ASSUME NEW l \in g.rows, g.next = [t |-> Millisecond(feedRow[l].t), id |-> l],
               \A j \in g.rows \ {l} : Newer(j, l),
               \A i \in g.there : Below(i, c) => i \in g.rows \/ Newer(l, i)
        PROVE  GoesOn
    <3>1. l \in FeedRow /\ Below(l, c)
      BY <1>4
    <3>2. ASSUME NEW i \in walk.shown \cup g.rows, Below(i, g.next) PROVE FALSE
      <4>1. i \in FeedRow
        BY <1>3, <1>4
      <4>2. Newer(l, i)
        BY <1>3, <2>2, <3>1, <3>2, <4>1, CursorBelow
      <4>3. i \notin g.rows
        BY <1>3, <2>2, <3>1, <4>1, <4>2, NewerOrders
      <4>4. Below(i, c)
        <5>1. /\ feedRow[i].t \in Nat /\ feedRow[l].t \in Nat /\ i \in Nat /\ l \in Nat
              /\ c.t \in Int /\ c.id \in Nat
          BY <1>3, <3>1, <4>1, FeedPagesAssumption DEF FeedPageTypes, Cursor
        <5> QED
          BY <3>1, <4>2, <5>1 DEF Newer, Below
      <4> QED
        BY <1>3, <3>2, <4>3, <4>4
    <3>3. ASSUME NEW i \in walk.there \cap g.there
          PROVE  \/ i \in walk.shown \cup g.rows \/ Below(i, g.next)
                 \/ Millisecond(feedRow[i].t) \in walk.lasts \cup {g.next.t}
      <4>1. CASE Below(i, c) /\ Newer(l, i)
        <5>1. i \in FeedRow
          BY <1>4
        <5>2. Below(i, g.next) \/ Millisecond(feedRow[i].t) = g.next.t
          BY <1>3, <2>2, <3>1, <4>1, <5>1, Skipped
        <5> QED
          BY <5>2
      <4> QED
        BY <1>3, <2>2, <4>1
    <3> QED
      BY <3>2, <3>3
  <2> QED
    BY <1>1, <1>4, <2>1, <2>2 DEF PageSound
<1>10. WalkSound'
  <2>1. Dated' = Dated /\ Published' = Published
    BY <1>5 DEF Dated, Published
  <2>2. /\ \A i : Below(i, walk.cursor)' <=> Below(i, g.next)
        /\ \A i : Millisecond(feedRow[i].t)' = Millisecond(feedRow[i].t)
    BY <1>5, <1>6 DEF Below, Millisecond
  <2>3. ~walk'.twice /\ walk'.shown \subseteq Dated' /\ walk'.there \subseteq Published'
    BY <1>3, <1>4, <1>6, <2>1
  <2> QED
    BY <1>6, <1>9, <2>2, <2>3 DEF WalkSound
<1> QED
  BY <1>1, <1>7, <1>8, <1>10 DEF FeedPagesInv

\* The pages of the feed keep the inductive invariant, for any finite set of rows.
THEOREM FeedPagesInvariant == FeedPagesSpec => []FeedPagesInv
<1>1. FeedPagesInit => FeedPagesInv
  <2> SUFFICES ASSUME FeedPagesInit PROVE FeedPagesInv
    OBVIOUS
  <2>1. FeedPageTypes
    BY FeedPagesAssumption DEF FeedPagesInit, FeedPageTypes, AtTheTop, NoCursor, Cursor
  <2>2. \A i \in FeedRow : Below(i, NoCursor)
    BY <2>1, FeedPagesAssumption DEF FeedPageTypes, Below, NoCursor
  <2> QED
    BY <2>1, <2>2 DEF FeedPagesInit, FeedPagesInv, WalkSound, AtTheTop
<1>2. FeedPagesInv /\ [FeedPagesNext]_feedPageVars => FeedPagesInv'
  BY RowStep, WalkStep, ReadStep DEF FeedPagesNext
<1> QED
  BY <1>1, <1>2, PTL DEF FeedPagesSpec

\* Whoever walks down the feed sees no row twice and misses none that was published all the
\* while but rows of a page's last millisecond, for any finite set of rows, any times and any
\* page size.
THEOREM WalksShowAll == FeedPagesSpec => []WalkShowsAll
<1>1. FeedPagesInv => WalkShowsAll
  <2> SUFFICES ASSUME FeedPagesInv PROVE WalkShowsAll
    OBVIOUS
  <2>1. FeedPageTypes /\ WalkSound
    BY DEF FeedPagesInv
  <2>2. \A i \in FeedRow : ~Below(i, Ended)
    BY <2>1, FeedPagesAssumption DEF FeedPageTypes, Below, Ended
  <2>3. walk.there \subseteq FeedRow
    BY <2>1 DEF FeedPageTypes
  <2> QED
    BY <2>1, <2>2, <2>3 DEF WalkSound, WalkShowsAll
<1> QED
  BY <1>1, FeedPagesInvariant, PTL

-----------------------------------------------------------------------------
(* The ranked page                                                         *)

RankedIn(pool) ==
  {Candidate(i, pool, f) : i \in IF pool = "ad" THEN Advert ELSE Piece, f \in BOOLEAN}
Ranked == UNION {RankedIn(pool) : pool \in Pool}

SlotAt(n) == Template[((offset + n) % 20) + 1]
NothingIn(pool, onlyFresh) ==
  \A i \in DOMAIN supply[pool] : ~Takeable(supply[pool][i], onlyFresh)

RankTypes ==
  /\ \A pool \in Pool : supply[pool] \in Seq(RankedIn(pool))
  /\ offset \in Nat /\ phase \in {"fresh", "any", "done"} /\ slotIdx \in Nat /\ idle \in 0 .. 20
  /\ page \in Seq(Ranked)

\* What stands on the page came from a pool, posts once; what is fresh comes first.
ShownFits ==
  /\ Len(page) <= PageLimit
  /\ \A i \in DOMAIN page : page[i] \in Eligible
  /\ \A i, j \in DOMAIN page : PostLike(page[i]) /\ page[i].id = page[j].id => i = j
  /\ \A i \in DOMAIN page : ~page[i].fresh =>
       \A c \in Eligible : c.fresh => \E j \in 1..(i - 1) : page[j].id = c.id

\* A round without a candidate found nothing in the slot's own pool, and nothing was taken
\* since; twenty of them in a row tried every pool.  So a call ends with the page full or
\* the pools exhausted, and never for the number of its rounds.
RoundsHold ==
  phase # "done" =>
    /\ idle <= slotIdx /\ slotIdx <= 20 * Len(page) + idle
    /\ \A k \in 1 .. idle : NothingIn(SlotAt(slotIdx - k), phase = "fresh")

PhasesHold ==
  /\ phase = "fresh" => \A i \in DOMAIN page : page[i].fresh
  /\ phase = "any" => \A c \in Eligible : c.fresh => c.id \in OnPage
  /\ phase = "done" => Len(page) = PageLimit \/ \A c \in Eligible : c.id \in OnPage

RankInv == RankTypes /\ ShownFits /\ RoundsHold /\ PhasesHold

LEMMA LeastIndex == ASSUME NEW I \in SUBSET Nat, I # {} PROVE Min(I) \in I
<1> DEFINE T == {1 .. i : i \in I}
<1>1. T \subseteq FiniteSubsetsOf(Nat) /\ T # {}
  <2>1. \A i \in I : 1 .. i \in SUBSET Nat /\ IsFiniteSet(1 .. i)
    BY FS_Interval
  <2> QED
    BY <2>1 DEF FiniteSubsetsOf
<1>2. IsWellFoundedOn(StrictSubsetOrdering(Nat), FiniteSubsetsOf(Nat))
  BY FS_StrictSubsetOrderingWellFounded
<1>3. PICK t \in T : \A y \in T : <<y, t>> \notin StrictSubsetOrdering(Nat)
  BY <1>1, <1>2, WFMin
<1>4. PICK x \in I : t = 1 .. x
  OBVIOUS
<1>5. ASSUME NEW y \in I, y < x PROVE FALSE
  <2>1. 1 .. y \subseteq 1 .. x /\ 1 .. y # 1 .. x
    <3>1. x \in 1 .. x /\ x \notin 1 .. y
      BY <1>5
    <3> QED
      BY <1>5, <3>1
  <2>2. <<1 .. y, t>> \in StrictSubsetOrdering(Nat)
    BY <1>4, <2>1 DEF StrictSubsetOrdering
  <2> QED
    BY <1>3, <2>2
<1>6. \A y \in I : x <= y
  BY <1>5
<1> QED
  BY <1>6 DEF Min

\* takeFromPool finds a candidate, or there is none.
LEMMA Lookup ==
  ASSUME RankTypes, NEW pool \in Pool, NEW f \in BOOLEAN
  PROVE  \/ TakeFromPool(pool, f) = 0 /\ NothingIn(pool, f)
         \/ /\ TakeFromPool(pool, f) \in DOMAIN supply[pool] /\ TakeFromPool(pool, f) # 0
            /\ Takeable(supply[pool][TakeFromPool(pool, f)], f)
<1> DEFINE I == {i \in 1 .. Len(supply[pool]) : Takeable(supply[pool][i], f)}
<1>1. TakeFromPool(pool, f) = IF I # {} THEN Min(I) ELSE 0
  BY DEF TakeFromPool, SelectInSeq
<1>2. supply[pool] \in Seq(RankedIn(pool)) /\ DOMAIN supply[pool] = 1 .. Len(supply[pool])
  BY DEF RankTypes
<1>3. I # {} => Min(I) \in I
  <2>1. I \in SUBSET Nat
    OBVIOUS
  <2> HIDE DEF I
  <2> QED
    BY <2>1, LeastIndex
<1>4. CASE I = {}
  BY <1>1, <1>2, <1>4 DEF NothingIn
<1>5. CASE I # {}
  <2>1. TakeFromPool(pool, f) \in I
    BY <1>1, <1>3, <1>5
  <2> QED
    BY <1>2, <2>1
<1> QED
  BY <1>4, <1>5

\* A slot is filled from one of its pools, or there is nothing in its own.
LEMMA ChoiceMade ==
  ASSUME RankTypes, NEW slot \in Pool, NEW f \in BOOLEAN
  PROVE  \/ Choice(slot, f) = << >> /\ NothingIn(slot, f)
         \/ \E pool \in Pool : \E i \in DOMAIN supply[pool] :
              Choice(slot, f) = <<supply[pool][i]>> /\ Takeable(supply[pool][i], f)
<1> DEFINE tried == Sources(slot, f)
           J == {j \in 1 .. Len(tried) : TakeFromPool(tried[j], f) # 0}
           at == IF J # {} THEN Min(J) ELSE 0
<1>1. tried \in Seq(Pool) /\ Len(tried) >= 1 /\ tried[1] = slot
  <2> DEFINE a == IF slot # "discovery" THEN <<"discovery">> ELSE << >>
             b == IF slot # "following" /\ f THEN <<"following">> ELSE << >>
             c == IF slot # "repost" /\ f THEN <<"repost">> ELSE << >>
             ab == <<slot>> \o a
             abc == ab \o b
  <2>1. /\ <<slot>> \in Seq(Pool) /\ <<"discovery">> \in Seq(Pool) /\ << >> \in Seq(Pool)
        /\ <<"following">> \in Seq(Pool) /\ <<"repost">> \in Seq(Pool)
    BY DEF Pool
  <2>2. a \in Seq(Pool) /\ b \in Seq(Pool) /\ c \in Seq(Pool)
    BY <2>1
  <2>3. tried = abc \o c
    BY DEF Sources
  <2>4. ASSUME NEW s \in Seq(Pool), NEW t \in Seq(Pool), Len(s) >= 1, s[1] = slot
        PROVE  s \o t \in Seq(Pool) /\ Len(s \o t) >= 1 /\ (s \o t)[1] = slot
    BY <2>4
  <2> HIDE DEF tried, a, b, c
  <2>5. ab \in Seq(Pool) /\ Len(ab) >= 1 /\ ab[1] = slot
    BY <2>1, <2>2, <2>4
  <2> HIDE DEF ab
  <2>6. abc \in Seq(Pool) /\ Len(abc) >= 1 /\ abc[1] = slot
    BY <2>2, <2>4, <2>5
  <2> HIDE DEF abc
  <2> QED
    BY <2>2, <2>3, <2>4, <2>6
<1>2. Choice(slot, f) = IF at = 0 THEN << >>
                        ELSE <<supply[tried[at]][TakeFromPool(tried[at], f)]>>
  BY DEF Choice, SelectInSeq
<1> HIDE DEF tried
<1>3. J # {} => at \in J
  <2>1. J \in SUBSET Nat
    BY <1>1
  <2> HIDE DEF J
  <2> QED
    BY <2>1, LeastIndex
<1>4. CASE J = {}
  <2>1. TakeFromPool(slot, f) = 0
    BY <1>1, <1>4
  <2> QED
    BY <1>2, <1>4, <2>1, Lookup
<1>5. CASE J # {}
  <2>1. at \in 1 .. Len(tried) /\ TakeFromPool(tried[at], f) # 0
    BY <1>3, <1>5
  <2> HIDE DEF at
  <2>2. PICK pool \in Pool : pool = tried[at]
    BY <1>1, <2>1
  <2>3. Choice(slot, f) = <<supply[pool][TakeFromPool(pool, f)]>>
    BY <1>2, <2>1, <2>2
  <2> QED
    BY <2>1, <2>2, <2>3, Lookup
<1> QED
  BY <1>4, <1>5

LEMMA TemplateSlots ==
  ASSUME offset \in Nat
  PROVE  /\ Len(Template) = 20
         /\ \A n \in Nat : SlotAt(n) \in Pool /\ SlotAt(n) = Template[((offset + n) % 20) + 1]
  BY DEF Template, SlotAt, Pool

\* Twenty rounds in a row come by every pool.
LEMMA EveryPoolComes ==
  ASSUME offset \in Nat, NEW n \in Nat, n >= 20, NEW pool \in Pool
  PROVE  \E k \in 1 .. 20 : SlotAt(n - k) = pool
<1>1. PICK t \in 1 .. 20 : Template[t] = pool
  <2>1. /\ Template[1] = "discovery" /\ Template[2] = "following" /\ Template[4] = "repost"
        /\ Template[7] = "ad"
    BY DEF Template
  <2> QED
    BY <2>1 DEF Pool
<1>2. PICK m \in Nat : m = offset + n /\ m >= 20
  OBVIOUS
<1>3. PICK k \in 1 .. 20 : (m - k) % 20 = t - 1
  <2>1. PICK d \in Nat : d = m - t
    BY <1>2
  <2>2. PICK q \in Nat, r \in 0 .. 19 : d = 20 * q + r
    <3>1. d \div 20 \in Nat /\ (d % 20) \in 0 .. 19 /\ d = 20 * (d \div 20) + (d % 20)
      OBVIOUS
    <3> QED
      BY <3>1
  <2>3. r + 1 \in 1 .. 20 /\ m - (r + 1) = 20 * q + (t - 1)
    BY <1>2, <2>1, <2>2
  <2>4. (20 * q + (t - 1)) % 20 = t - 1
    OBVIOUS
  <2> QED
    BY <2>3, <2>4
<1>4. offset + (n - k) = m - k
  BY <1>2
<1>5. ((offset + (n - k)) % 20) + 1 = t
  BY <1>3, <1>4
<1> QED
  BY <1>1, <1>5 DEF SlotAt

\* When no pool has a candidate to take, every post that may be shown is on the page.
LEMMA NothingLeft ==
  ASSUME RankTypes, NEW f \in BOOLEAN, \A pool \in Pool : NothingIn(pool, f),
         NEW c \in Eligible, f => c.fresh
  PROVE  c.id \in OnPage
<1>1. PICK pool \in Pool : \E i \in DOMAIN supply[pool] : c = supply[pool][i] /\ BeforeCursor(c)
  BY DEF Eligible, ToSet
<1>2. ~Takeable(c, f)
  BY <1>1 DEF NothingIn
<1> QED
  BY <1>1, <1>2 DEF Takeable

LEMMA WhatIsRanked ==
  /\ \A pool \in Pool : \A c \in RankedIn(pool) :
       /\ c.pool = pool /\ c.fresh \in BOOLEAN
       /\ c.id \in IF pool = "ad" THEN Advert ELSE Piece
  /\ \A c \in Ranked : c.fresh \in BOOLEAN /\ c.id \in IF PostLike(c) THEN Piece ELSE Advert
<1>1. ASSUME NEW pool \in Pool, NEW c \in RankedIn(pool)
      PROVE  /\ c.pool = pool /\ c.fresh \in BOOLEAN
             /\ c.id \in IF pool = "ad" THEN Advert ELSE Piece
  BY DEF RankedIn, Candidate
<1> QED
  BY <1>1 DEF Ranked, PostLike

\* The candidates of a round, whether one is taken or not.
LEMMA EligibleSame == ASSUME UNCHANGED <<supply, cutoff>> PROVE Eligible' = Eligible
  BY DEF Eligible, BeforeCursor, ToSet

\* A round that finds nothing.
LEMMA EmptyRound ==
  ASSUME RankInv, phase # "done", idle < 20, NothingIn(SlotAt(slotIdx), phase = "fresh"),
         page' = page, idle' = idle + 1, slotIdx' = slotIdx + 1,
         UNCHANGED <<supply, cutoff, offset, phase>>
  PROVE  RankInv'
<1>1. RankTypes /\ ShownFits /\ RoundsHold /\ PhasesHold
  BY DEF RankInv
<1>2. Eligible' = Eligible /\ OnPage' = OnPage
  BY EligibleSame DEF OnPage
<1>3. RankTypes' /\ ShownFits' /\ PhasesHold'
  BY <1>1, <1>2 DEF RankTypes, ShownFits, PhasesHold, PostLike
<1>4. \A n \in Nat : SlotAt(n)' = SlotAt(n)
  BY DEF SlotAt
<1>5. \A pool \in Pool, f \in BOOLEAN : NothingIn(pool, f) => NothingIn(pool, f)'
  BY DEF NothingIn, Takeable, BeforeCursor, PostLike, OnPage
<1>6. PICK f \in BOOLEAN : f = (phase = "fresh")
  OBVIOUS
<1>7. ASSUME NEW k \in 1 .. idle' PROVE NothingIn(SlotAt(slotIdx - k), phase = "fresh")'
  <2>1. PICK n \in Nat : n = slotIdx' - k
    BY <1>1, <1>7 DEF RankTypes, RoundsHold
  <2>2. NothingIn(SlotAt(n), f)
    <3>1. CASE k = 1
      BY <1>1, <1>6, <2>1, <3>1 DEF RankTypes
    <3>2. CASE k # 1
      <4>1. k - 1 \in 1 .. idle /\ n = slotIdx - (k - 1)
        BY <1>1, <1>7, <2>1, <3>2 DEF RankTypes
      <4> QED
        BY <1>1, <1>6, <4>1 DEF RoundsHold
    <3> QED
      BY <3>1, <3>2
  <2>3. SlotAt(n) \in Pool
    BY <1>1, TemplateSlots DEF RankTypes
  <2>4. PICK pool \in Pool : pool = SlotAt(n) /\ NothingIn(pool, f)'
    BY <1>5, <2>2, <2>3
  <2>5. NothingIn(SlotAt(n), f)'
    BY <1>4, <2>4
  <2> QED
    BY <1>6, <2>1, <2>5
<1>8. RoundsHold'
  BY <1>1, <1>7 DEF RoundsHold, RankTypes
<1> QED
  BY <1>3, <1>8 DEF RankInv

\* A round that takes a candidate: no post that is on the page, and one that was seen only
\* when the fresh ones are.
LEMMA FullRound ==
  ASSUME RankInv, phase # "done", idle < 20, Len(page) < PageLimit, NEW pool \in Pool,
         NEW c \in RankedIn(pool), c \in Eligible, Takeable(c, phase = "fresh"),
         page' = Append(page, c), idle' = 0, slotIdx' = slotIdx + 1,
         UNCHANGED <<supply, cutoff, offset, phase>>
  PROVE  RankInv'
<1>1. RankTypes /\ ShownFits /\ RoundsHold /\ PhasesHold
  BY DEF RankInv
<1>2. PICK L \in Nat : L = Len(page)
  BY <1>1 DEF RankTypes
<1>3. /\ c \in Ranked /\ c.fresh \in BOOLEAN /\ page \in Seq(Ranked) /\ DOMAIN page = 1 .. L
  BY <1>1, <1>2, WhatIsRanked DEF Ranked, RankTypes
<1>4. /\ page' \in Seq(Ranked) /\ Len(page') = L + 1 /\ DOMAIN page' = 1 .. (L + 1)
      /\ page'[L + 1] = c /\ \A i \in 1 .. L : page'[i] = page[i]
  BY <1>2, <1>3
<1>5. \A i \in 1 .. (L + 1) : i = L + 1 \/ i \in 1 .. L
  OBVIOUS
<1>6. Eligible' = Eligible
  BY EligibleSame
<1>7. RankTypes'
  BY <1>1, <1>4 DEF RankTypes
<1>8. \A i \in 1 .. L : PostLike(c) \/ PostLike(page[i]) => page[i].id # c.id
  <2>1. ASSUME NEW i \in 1 .. L, page[i].id = c.id PROVE ~PostLike(c) /\ ~PostLike(page[i])
    <3>1. c.id \in OnPage
      BY <1>3, <2>1 DEF OnPage
    <3>2. ~PostLike(c)
      BY <3>1 DEF Takeable
    <3>3. page[i] \in Ranked
      BY <1>3
    <3> QED
      BY <1>3, <2>1, <3>2, <3>3, WhatIsRanked, RankingAssumption
  <2> QED
    BY <2>1
<1>9. phase = "fresh" => c.fresh
  BY DEF Takeable
<1>10. ~c.fresh => \A e \in Eligible : e.fresh => \E j \in 1 .. L : page[j].id = e.id
  BY <1>1, <1>3, <1>9 DEF RankTypes, PhasesHold, OnPage
<1>11. ShownFits'
  <2>1. Len(page') <= PageLimit
    BY <1>2, <1>4, RankingAssumption
  <2>2. ASSUME NEW i \in 1 .. (L + 1) PROVE page'[i] \in Eligible
    BY <1>1, <1>3, <1>4, <1>5 DEF ShownFits
  <2>3. ASSUME NEW i \in 1 .. (L + 1), NEW j \in 1 .. (L + 1),
               PostLike(page'[i]), page'[i].id = page'[j].id
        PROVE  i = j
    BY <1>1, <1>3, <1>4, <1>5, <1>8, <2>3 DEF ShownFits
  <2>4. ASSUME NEW i \in 1 .. (L + 1), ~page'[i].fresh, NEW e \in Eligible, e.fresh
        PROVE  \E j \in 1 .. (i - 1) : page'[j].id = e.id
    <3>1. CASE i = L + 1
      <4>1. PICK j \in 1 .. L : page[j].id = e.id
        BY <1>4, <1>10, <2>4, <3>1
      <4>2. j \in 1 .. (i - 1) /\ page'[j].id = e.id
        BY <1>4, <3>1, <4>1
      <4> QED
        BY <4>2
    <3>2. CASE i \in 1 .. L
      <4>1. PICK j \in 1 .. (i - 1) : page[j].id = e.id
        BY <1>1, <1>3, <1>4, <2>4, <3>2 DEF ShownFits
      <4>2. j \in 1 .. L
        BY <3>2
      <4>3. page'[j].id = e.id
        BY <1>4, <4>1, <4>2
      <4> QED
        BY <4>3
    <3> QED
      BY <1>5, <3>1, <3>2
  <2> QED
    BY <1>4, <1>6, <2>1, <2>2, <2>3, <2>4 DEF ShownFits, PostLike
<1>12. RoundsHold'
  <2>1. slotIdx \in Nat /\ idle \in 0 .. 19 /\ slotIdx <= 20 * L + idle
    BY <1>1, <1>2 DEF RankTypes, RoundsHold
  <2>2. slotIdx' \in Nat /\ slotIdx' <= 20 * (L + 1)
    BY <2>1
  <2> QED
    BY <1>4, <2>2 DEF RoundsHold
<1>13. PhasesHold'
  <2>1. OnPage \subseteq OnPage'
    BY <1>3, <1>4 DEF OnPage
  <2>2. phase = "fresh" => \A i \in 1 .. (L + 1) : page'[i].fresh
    BY <1>1, <1>3, <1>4, <1>5, <1>9 DEF PhasesHold
  <2> QED
    BY <1>1, <1>4, <1>6, <2>1, <2>2 DEF PhasesHold
<1> QED
  BY <1>7, <1>11, <1>12, <1>13 DEF RankInv

LEMMA FillStep == ASSUME RankInv, FillSlot PROVE RankInv'
<1>1. RankTypes
  BY DEF RankInv
<1>2. PICK f \in BOOLEAN : f = (phase = "fresh")
  OBVIOUS
<1>3. PICK slot \in Pool : slot = SlotAt(slotIdx)
  BY <1>1, TemplateSlots DEF RankTypes
<1>4. /\ phase # "done" /\ Len(page) < PageLimit /\ idle < 20
      /\ page' = page \o Choice(slot, f)
      /\ idle' = IF Choice(slot, f) = << >> THEN idle + 1 ELSE 0
      /\ slotIdx' = slotIdx + 1 /\ UNCHANGED <<supply, cutoff, offset, phase>>
  BY <1>1, <1>2, <1>3, TemplateSlots DEF FillSlot, RankTypes, SlotAt
<1>5. CASE Choice(slot, f) = << >> /\ NothingIn(slot, f)
  <2>1. page' = page /\ idle' = idle + 1
    BY <1>1, <1>4, <1>5 DEF RankTypes
  <2> QED
    BY <1>2, <1>3, <1>4, <1>5, <2>1, EmptyRound
<1>6. ASSUME NEW pool \in Pool, NEW i \in DOMAIN supply[pool],
             Choice(slot, f) = <<supply[pool][i]>>, Takeable(supply[pool][i], f)
      PROVE  RankInv'
  <2>1. PICK c \in RankedIn(pool) : c = supply[pool][i]
    BY <1>1, <1>6 DEF RankTypes
  <2>2. c \in Eligible
    BY <1>6, <2>1 DEF Eligible, ToSet, Takeable
  <2>3. Choice(slot, f) = <<c>> /\ Choice(slot, f) # << >>
    BY <1>6, <2>1
  <2>4. c \in Ranked
    BY <2>1 DEF Ranked
  <2>5. page' = Append(page, c) /\ idle' = 0
    BY <1>1, <1>4, <2>3, <2>4 DEF RankTypes
  <2>6. Takeable(c, phase = "fresh")
    BY <1>2, <1>6, <2>1
  <2> QED
    BY <1>4, <2>1, <2>2, <2>5, <2>6, FullRound
<1> QED
  BY <1>1, <1>5, <1>6, ChoiceMade

\* A call ends with the page full, or with every pool searched in vain.
LEMMA EndStep == ASSUME RankInv, EndPhase PROVE RankInv'
<1>1. RankTypes /\ ShownFits /\ RoundsHold /\ PhasesHold
  BY DEF RankInv
<1>2. /\ phase \in {"fresh", "any"} /\ slotIdx' = 0 /\ idle' = 0
      /\ UNCHANGED <<supply, cutoff, offset, page>>
      /\ phase' = IF phase = "fresh" /\ Len(page) < PageLimit THEN "any" ELSE "done"
      /\ Len(page) >= PageLimit \/ slotIdx >= PageLimit * 20 * 3 \/ idle >= 20
  BY <1>1, TemplateSlots DEF EndPhase, RankTypes
<1>3. PICK f \in BOOLEAN : f = (phase = "fresh")
  OBVIOUS
<1>4. PICK L \in Nat : L = Len(page) /\ L <= PageLimit
  BY <1>1 DEF RankTypes, ShownFits
<1>5. L < PageLimit => idle = 20 /\ slotIdx >= 20
  <2>1. /\ slotIdx \in Nat /\ idle \in 0 .. 20 /\ slotIdx <= 20 * L + idle /\ idle <= slotIdx
        /\ PageLimit \in Nat
    BY <1>1, <1>2, <1>4, RankingAssumption DEF RankTypes, RoundsHold
  <2> QED
    BY <1>2, <1>4, <2>1
<1>6. ASSUME L < PageLimit, NEW c \in Eligible, f => c.fresh PROVE c.id \in OnPage
  <2>1. ASSUME NEW pool \in Pool PROVE NothingIn(pool, f)
    <3>1. PICK k \in 1 .. 20 : SlotAt(slotIdx - k) = pool
      BY <1>1, <1>5, <1>6, EveryPoolComes DEF RankTypes
    <3> QED
      BY <1>1, <1>2, <1>3, <1>5, <1>6, <3>1 DEF RoundsHold
  <2> QED
    BY <1>1, <1>6, <2>1, NothingLeft
<1>7. Eligible' = Eligible /\ OnPage' = OnPage
  BY <1>2, EligibleSame DEF OnPage
<1>8. RankTypes' /\ ShownFits'
  BY <1>1, <1>2, <1>7 DEF RankTypes, ShownFits, PostLike
<1>9. RoundsHold'
  BY <1>1, <1>2 DEF RoundsHold, RankTypes
<1>10. PhasesHold'
  <2>1. CASE phase = "fresh" /\ L < PageLimit
    <3>1. \A c \in Eligible : c.fresh => c.id \in OnPage
      BY <1>6, <2>1
    <3> QED
      BY <1>2, <1>4, <1>7, <2>1, <3>1 DEF PhasesHold
  <2>2. CASE ~(phase = "fresh" /\ L < PageLimit)
    <3>1. L = PageLimit \/ \A c \in Eligible : c.id \in OnPage
      <4>1. CASE L < PageLimit
        <5>1. f = FALSE
          BY <1>3, <2>2, <4>1
        <5>2. \A c \in Eligible : c.id \in OnPage
          BY <1>6, <4>1, <5>1
        <5> QED
          BY <5>2
      <4>2. CASE L = PageLimit
        BY <4>2
      <4> QED
        BY <1>4, <4>1, <4>2, RankingAssumption
    <3> QED
      BY <1>2, <1>4, <1>7, <2>2, <3>1 DEF PhasesHold
  <2> QED
    BY <2>1, <2>2
<1> QED
  BY <1>8, <1>9, <1>10 DEF RankInv

\* Each query gives candidates of its own pool.
LEMMA FetchedHolds ==
  ASSUME NEW standing \in [Piece -> Standing], NEW adverts \in SUBSET Advert, NEW pool \in Pool,
         NEW s \in RankPool(Fetched(standing, adverts)[pool])
  PROVE  s \in Seq(RankedIn(pool))
<1> DEFINE S == Fetched(standing, adverts)[pool]
           X == IF pool = "ad" THEN Advert ELSE Piece
           fresh == [p \in Piece |-> IsFresh(standing[p], pool)]
           entry == [i \in X |-> Candidate(i, pool, IF pool = "ad" THEN TRUE ELSE fresh[i])]
<1>1. \A c \in S : \E i \in X : c = entry[i]
  <2>1. CASE pool = "ad"
    BY <2>1 DEF Fetched
  <2>2. CASE pool # "ad"
    BY <2>2 DEF Fetched
  <2> QED
    BY <2>1, <2>2
<1>2. fresh \in [Piece -> BOOLEAN]
  <2>1. \A p \in Piece : IsFresh(standing[p], pool) \in BOOLEAN
    BY DEF Standing, IsFresh
  <2> QED
    BY <2>1, Zenon
<1> HIDE DEF S, fresh
<1>3. \A i \in X : entry[i] \in RankedIn(pool)
  <2>1. ASSUME NEW i \in X PROVE entry[i] \in RankedIn(pool)
    <3>1. PICK f \in BOOLEAN : f = IF pool = "ad" THEN TRUE ELSE fresh[i]
      BY <1>2
    <3>2. entry[i] = Candidate(i, pool, f)
      BY <3>1
    <3> HIDE DEF entry
    <3>3. Candidate(i, pool, f) \in RankedIn(pool)
      BY DEF RankedIn
    <3> QED
      BY <3>2, <3>3
  <2> QED
    BY <2>1
<1> HIDE DEF entry
<1>6. S \subseteq RankedIn(pool)
  BY <1>1, <1>3
<1>7. IsFiniteSet(S)
  <2> DEFINE T == {entry[i] : i \in X}
             f == [i \in X |-> entry[i]]
  <2>2. IsFiniteSet(X)
    BY RankingAssumption
  <2> HIDE DEF X
  <2>1. f \in Surjection(X, T)
    <3>1. f \in [X -> T]
      OBVIOUS
    <3>2. \A t \in T : \E i \in X : f[i] = t
      OBVIOUS
    <3> QED
      BY <3>1, <3>2 DEF Surjection
  <2>3. IsFiniteSet(T)
    BY <2>1, <2>2, FS_Surjection
  <2> QED
    BY <1>1, <2>3, FS_Subset
<1>4. s \in [1 .. Cardinality(S) -> S]
  BY DEF RankPool, SetToSeqs, S
<1>5. Cardinality(S) \in Nat
  BY <1>7, FS_CardinalityType
<1> QED
  BY <1>4, <1>5, <1>6

LEMMA RankInitial == FeedInit => RankInv
<1> SUFFICES ASSUME FeedInit PROVE RankInv
  OBVIOUS
<1>1. PICK standing \in [Piece -> Standing], adverts \in SUBSET Advert :
        \A pool \in Pool : supply[pool] \in RankPool(Fetched(standing, adverts)[pool])
  BY DEF FeedInit, Pool
<1>2. \A pool \in Pool : supply[pool] \in Seq(RankedIn(pool))
  BY <1>1, FetchedHolds
<1>3. page = << >> /\ phase = "fresh" /\ slotIdx = 0 /\ idle = 0 /\ offset \in Nat
  BY RankingAssumption DEF FeedInit
<1>4. RankTypes
  BY <1>2, <1>3 DEF RankTypes
<1>5. ShownFits
  BY <1>3, RankingAssumption DEF ShownFits
<1>6. RoundsHold /\ PhasesHold
  BY <1>3 DEF RoundsHold, PhasesHold
<1> QED
  BY <1>4, <1>5, <1>6 DEF RankInv

\* Whatever the pools hold, wherever the template starts and whatever the cursor: the
\* rounds of mergeBySlots end with the page full or every pool exhausted, and fresh posts
\* are taken before any other (fillPhase).
THEOREM RankingInvariant == FeedSpec => []RankInv
<1>1. RankInv /\ [FeedNext]_feedVars => RankInv'
  <2>1. ASSUME RankInv, UNCHANGED feedVars PROVE RankInv'
    <3>1. RankTypes /\ ShownFits /\ RoundsHold /\ PhasesHold
      BY <2>1 DEF RankInv
    <3>2. UNCHANGED <<supply, cutoff, offset, page, phase, slotIdx, idle>>
      BY <2>1 DEF feedVars
    <3>3. Eligible' = Eligible /\ OnPage' = OnPage
      BY <3>2, EligibleSame DEF OnPage
    <3>4. RankTypes' /\ ShownFits' /\ PhasesHold'
      BY <3>1, <3>2, <3>3 DEF RankTypes, ShownFits, PhasesHold, PostLike
    <3>5. \A k \in 1 .. idle :
            NothingIn(SlotAt(slotIdx - k), phase = "fresh")'
              <=> NothingIn(SlotAt(slotIdx - k), phase = "fresh")
      BY <3>2 DEF NothingIn, Takeable, BeforeCursor, OnPage, PostLike, SlotAt
    <3>6. RoundsHold'
      BY <3>1, <3>2, <3>5 DEF RoundsHold
    <3> QED
      BY <3>4, <3>6 DEF RankInv
  <2> QED
    BY <2>1, FillStep, EndStep DEF FeedNext
<1> QED
  BY <1>1, RankInitial, PTL DEF FeedSpec

\* A post is shown once, and what the viewer has seen only after all that is fresh
\* (resolveDedup, isFreshForViewer).
THEOREM UnseenFirst == FeedSpec => []UnseenComeFirst
<1>1. RankInv => UnseenComeFirst
  BY DEF RankInv, ShownFits, UnseenComeFirst
<1> QED
  BY <1>1, RankingInvariant, PTL

\* A page is short only when the pools have nothing more to show (fillPhase).
THEOREM PagesFill == FeedSpec => []PageIsFilled
<1>1. ASSUME RankInv PROVE PageIsFilled
  <2>1. OnPage \subseteq {c.id : c \in Eligible}
    BY <1>1 DEF RankInv, ShownFits, OnPage
  <2>2. phase = "done" => Len(page) = PageLimit \/ \A c \in Eligible : c.id \in OnPage
    BY <1>1 DEF RankInv, PhasesHold
  <2> QED
    BY <2>1, <2>2 DEF PageIsFilled
<1> QED
  BY <1>1, RankingInvariant, PTL
=============================================================================
