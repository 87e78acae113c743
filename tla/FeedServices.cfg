\* Eight services, one after the other.
SPECIFICATION Spec
CONSTANTS
  Parts = {"engage", "ranking", "cache", "pages", "stories", "notify", "removal", "history"}
  User = {a}
  Server = {s1, s2}
  MaxComments = 2
  MaxWrites = 4
  Piece = {1, 2, 3}
  Advert = {9}
  Score <- ScoreOf
  Offset = {0, 5}
  Cutoff <- Cursors
  PageLimit = 3
  Reader = {r1}
  Writer = {w1, w2}
  MaxPostEdits = 1
  FeedRow = {1, 2, 3}
  KindOf <- RowKind
  MaxTime = 1
  PerMs = 2
  Limit = 1
  Story = {1, 2}
  Owner = {o1}
  OwnerOf <- OneOwner
  Event = {n1, n2}
  Keyed = {n1, n2}
  Recipient = {v1, v2}
  ChunkSize = 1
  Attempts = 1
  Medium = {m1}
  Item = {1, 3}
  Kind <- ItemKind
  Task = {t1, t2}
  MaxBreaks = 1
  Person = {v1, v2}
  Note = {1}
  AuthorOf <- Writes
  MaxClock = 6
CHECK_DEADLOCK FALSE
INVARIANTS
  CountersNeverOvershoot
  UnseenComeFirst
  PageIsFilled
  StaleIsExplained
  
  DeletionsLast
  TrayAgrees
  InboxIsComplete
  OrphansAreCollected
  PurgeIsSafe
  HistoryIsTheirs
