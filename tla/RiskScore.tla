------------------------------ MODULE RiskScore ------------------------------
(***************************************************************************)
(* A user's risk: AdminRiskService.scoreUser with its triggers, and the    *)
(* queries that pick the accounts an administrator is shown: the list of   *)
(* AdminRiskEngineService, the tabs and counts of UserIntelligenceService  *)
(* and the attention list of CommandCenterService.                         *)
(*                                                                         *)
(* The score is a function of counts that moderation, reports and admins   *)
(* move: texts and media pending or rejected, the bio, abuse reports open, *)
(* open with a high severity or upheld, and the account's status.  Scores  *)
(* are whole percents (Math.round), category scores tenths.  Those come    *)
(* with texts alone, as the labels of a media are a list without scores;   *)
(* a media has a reason instead, which it keeps until the next one: after  *)
(* a failure, and when it is routed again, a pending media has one.        *)
(*                                                                         *)
(* Each query is the condition it puts on the account.  Left out: the      *)
(* columns and joins that read it, sorting by date, searching, names, and  *)
(* the badges for a verified address or phone.                             *)
(***************************************************************************)
EXTENDS Naturals, FiniteSets

CONSTANTS
  MaxItems,     \* bound: texts and media under moderation
  MaxReports    \* bound: reports on the user

ASSUME RiskAssumption == MaxItems \in Nat /\ MaxReports \in Nat

VARIABLES
  signals,   \* ModerationSignals: the highest category score in tenths, of the pending
             \* media those with a reason, and whether a reason of a media names nudity
  reports,   \* ReportSignals
  account    \* the user's status, the status of the bio, and whether it is deleted

riskVars == <<signals, reports, account>>

RiskInit ==
  /\ signals = [pendingText |-> 0, rejectedText |-> 0, pendingMedia |-> 0,
                rejectedMedia |-> 0, reasons |-> 0, category |-> 0, nsfw |-> FALSE]
  /\ reports = [open |-> 0, high |-> 0, upheld |-> 0]
  /\ account = [status |-> "active", bio |-> "clear", deleted |-> FALSE]

Suspended == account.status = "suspended"

\* getModerationSignals counts the bio among the texts.
PendingText == signals.pendingText + (IF account.bio = "pending" THEN 1 ELSE 0)
RejectedText == signals.rejectedText + (IF account.bio = "rejected" THEN 1 ELSE 0)
PendingItems == PendingText + signals.pendingMedia
RejectedItems == RejectedText + signals.rejectedMedia
HeldItems == PendingItems + RejectedItems

(***************************************************************************)
(* scoreUser                                                               *)
(***************************************************************************)
ClampScore(n) == IF n > 100 THEN 100 ELSE n
Round(n, d) == (2 * n + d) \div (2 * d)

ContentTrust ==
  ClampScore(PendingItems * 5 + RejectedText * 12 + signals.rejectedMedia * 18
             + signals.category * 4 + (IF signals.nsfw THEN 15 ELSE 0))

AccountEnforcement ==
  LET standing == CASE Suspended -> 85
                    [] ~Suspended /\ RejectedItems >= 3 -> 65
                    [] ~Suspended /\ RejectedItems \in 1 .. 2 -> 40
                    [] ~Suspended /\ RejectedItems = 0 /\ PendingItems >= 1 -> 20
                    [] OTHER -> 0
  IN ClampScore(standing + reports.open * 8 + reports.high * 10 + reports.upheld * 12)

\* Mutant: the two weights swapped.
ScoreSwapped ==
  LET overall == ClampScore(Round(ContentTrust * 35 + AccountEnforcement * 65, 100))
  IN IF Suspended /\ overall < 80 THEN 80 ELSE overall

ScoreUser ==
  LET overall == ClampScore(Round(ContentTrust * 65 + AccountEnforcement * 35, 100))
  IN IF Suspended /\ overall < 80 THEN 80 ELSE overall

RiskLabelFromScore(score) ==
  CASE score >= 75 -> "critical"
    [] score \in 50 .. 74 -> "high"
    [] score \in 25 .. 49 -> "medium"
    [] OTHER -> "low"

BuildTriggers ==
  {t \in {"suspended"} : Suspended}
  \cup {t \in {"repeat_offender"} : RejectedItems >= 3 \/ reports.upheld >= 2}
  \cup {t \in {"open_abuse_reports"} : reports.open >= 1}
  \cup {t \in {"media_nsfw"} : signals.rejectedMedia > 0 \/ signals.reasons > 0}
  \cup {t \in {"bio_flagged"} : account.bio # "clear"}
  \cup {t \in {"rejected_content"} : RejectedText > 0}
  \cup {t \in {"pending_moderation"} : PendingItems > 0}
  \cup {t \in {"content_flagged"} : signals.category >= 5 /\ RejectedText = 0}

\* riskProxySqlExpression, which the lists are sorted by.
RiskProxy ==
  ClampScore((IF Suspended THEN 40 ELSE 0) + RejectedItems * 12 + PendingItems * 5
             + (IF signals.rejectedMedia > 0 THEN 18 ELSE 0)
             + (IF RejectedItems >= 3 THEN 20 ELSE 0)
             + reports.open * 8 + reports.high * 10 + reports.upheld * 12)

(***************************************************************************)
(* Who is shown                                                            *)
(***************************************************************************)
\* loadHighestRiskAccounts
IsCandidate ==
  ~account.deleted /\ (Suspended \/ PendingItems > 0 \/ RejectedItems > 0 \/ reports.open > 0)

\* listUsers: the tabs an account is in.
Tabs ==
  IF account.deleted THEN {}
  ELSE {"all"} \cup {t \in {"suspended"} : Suspended}
       \cup {t \in {"under_review"} : PendingItems > 0}
       \cup {t \in {"flagged"} : Suspended \/ PendingItems > 0 \/ RejectedItems > 0}

\* countFlaggedAccounts of the risk service and of the user list: a union of one query
\* per table, each with its own condition on the owner.
Flagged(text, media) ==
  \/ ~account.deleted /\ Suspended
  \/ ~account.deleted /\ text > 0
  \/ ~account.deleted /\ media > 0
  \/ ~account.deleted /\ account.bio # "clear"
IsFlagged == Flagged(signals.pendingText + signals.rejectedText,
                     signals.pendingMedia + signals.rejectedMedia)

\* countDistinctOwners(PENDING)
IsUnderReview ==
  ~account.deleted /\ (signals.pendingText + signals.pendingMedia > 0 \/ account.bio = "pending")

\* getAttentionUsers: the reasons an account is listed for, and those it is counted for,
\* by a query that does not look at the owner of a text or a media.
AttentionReasons ==
  IF account.deleted THEN {}
  ELSE {r \in {"suspended"} : Suspended}
       \cup {r \in {"pending_moderation"} : account.bio = "pending"}
       \cup {r \in {"pending_moderation"} : signals.pendingText + signals.pendingMedia > 0}
       \cup {r \in {"rejected_content"} :
               signals.rejectedText + signals.rejectedMedia > 0 \/ account.bio = "rejected"}
AttentionCounted ==
  {r \in {"suspended"} : ~account.deleted /\ Suspended}
  \cup {r \in {"pending_moderation"} : ~account.deleted /\ account.bio = "pending"}
  \cup {r \in {"pending_moderation"} : signals.pendingText + signals.pendingMedia > 0}
  \cup {r \in {"rejected_content"} : \/ signals.rejectedText + signals.rejectedMedia > 0
                                     \/ ~account.deleted /\ account.bio = "rejected"}

\* countNewFlaggedAlerts: the flagged owners of fresh items, recent of them in the last day.
IsNewAlert(recentText, recentMedia, recentBio) ==
  ~account.deleted /\ (recentText + recentMedia > 0 \/ (recentBio /\ account.bio # "clear"))

\* countAlertsByCategory: items count for a deleted owner too, a bio does not.
TrustIntegrity ==
  \/ signals.pendingText + signals.rejectedText + signals.pendingMedia + signals.rejectedMedia > 0
  \/ ~account.deleted /\ account.bio # "clear"

(***************************************************************************)
(* What is counted of it                                                   *)
(***************************************************************************)
BioIs(status) == IF ~account.deleted /\ account.bio = status THEN 1 ELSE 0

\* countPendingModeration, and countRejectedModerationBetween of the whole time.
PendingTile == signals.pendingText + signals.pendingMedia + BioIs("pending")
RejectedTile == signals.rejectedText + signals.rejectedMedia + BioIs("rejected")

\* As many of n entries as were asked for.
Cut(n, limit) == IF n > limit THEN limit ELSE n

\* getModerationFeed of the items and the reports.
FeedItems ==
  signals.pendingText + signals.rejectedText + signals.pendingMedia + signals.rejectedMedia
  + (IF ~account.deleted /\ account.bio # "clear" THEN 1 ELSE 0) + reports.open
ModerationFeed(limit) == Cut(FeedItems, limit)

\* getUserIntelligence, of an account that is found, with 50 entries of its history.
ModerationHistory == Cut(HeldItems, 50)
Profile == [pending |-> PendingItems, rejected |-> RejectedItems, strikes |-> reports.upheld,
            history |-> ModerationHistory]

\* countPlatformModeration, and countAllModerationItems with the items that passed.
PlatformPending == IF account.deleted THEN 0 ELSE PendingItems
PlatformRejected == IF account.deleted THEN 0 ELSE RejectedItems
AllItems(passed) == IF account.deleted THEN 0 ELSE PendingItems + RejectedItems + passed

\* percentageOf, in tenths; null counts as 0.
PercentageOf(count, total) == IF total = 0 THEN 0 ELSE Round(count * 1000, total)

\* getOverview's index of a platform with this account alone.
PlatformIndex(passed) ==
  LET users == IF account.deleted THEN 0 ELSE 1
      one(b) == IF b THEN 1 ELSE 0
      worst == IF IsCandidate THEN ScoreUser ELSE 0
  IN ClampScore(Round(worst * 550
       + PercentageOf(one(IsFlagged), users) * 20
       + PercentageOf(one(~account.deleted /\ Suspended), users) * 15
       + (PercentageOf(PlatformPending, AllItems(passed))
          + PercentageOf(PlatformRejected, AllItems(passed))) * 5, 1000))

\* loadRecentModerationSignals of a window with all of it: rejected media, nude ones among
\* them or not, and posts, of all the texts; held ones are filtered out before they are
\* asked for.
ModerationSignals(posts, nude) ==
  {s \in {"rejected_item"} : posts + signals.rejectedMedia > 0}
  \cup {s \in {"media_nsfw"} : nude}
  \cup {s \in {"repeat_offender"} : posts + signals.rejectedMedia >= 3}

\* buildSignals of the active ones: a suspension counts while it lasts.
ActiveSignals(posts, nude) ==
  ModerationSignals(posts, nude) \cup {s \in {"suspended"} : ~account.deleted /\ Suspended}

(***************************************************************************)
(* What moves the counts                                                   *)
(***************************************************************************)
AtLeast(score) == IF score > signals.category THEN score ELSE signals.category

TextsBecome(pending, rejected, category) ==
  /\ signals' = [signals EXCEPT !.pendingText = pending, !.rejectedText = rejected,
                   !.category = category]
  /\ UNCHANGED <<reports, account>>

\* The highest score there may be without a text that is held, when rest of them are left.
Drops(rest) == {x \in {0, 7, 10} : x <= signals.category /\ (rest = 0 => x = 0)}

\* A text waits for review, with the score it was held for.
HoldText(score) ==
  /\ HeldItems < MaxItems
  /\ TextsBecome(signals.pendingText + 1, signals.rejectedText, AtLeast(score))

RejectText ==
  /\ signals.pendingText > 0
  /\ TextsBecome(signals.pendingText - 1, signals.rejectedText + 1, signals.category)

\* An approval, an edit or a deletion.
ReleaseText ==
  \E c \in Drops(PendingText + RejectedText - 1) :
    \/ /\ signals.pendingText > 0
       /\ TextsBecome(signals.pendingText - 1, signals.rejectedText, c)
    \/ /\ signals.rejectedText > 0
       /\ TextsBecome(signals.pendingText, signals.rejectedText - 1, c)

MediaBecome(pending, rejected, reasons, nsfw) ==
  /\ signals' = [signals EXCEPT !.pendingMedia = pending, !.rejectedMedia = rejected,
                   !.reasons = reasons, !.nsfw = nsfw]
  /\ UNCHANGED <<reports, account>>

\* A pending media, with old reasons: none or one.
IsPending(old) == IF old = 1 THEN signals.reasons > 0 ELSE signals.reasons < signals.pendingMedia

\* Whether some reason still names nudity, when old of them are gone.
Kept(old) ==
  LET rest == signals.rejectedMedia + signals.reasons - old
  IN {b \in BOOLEAN : (b => signals.nsfw /\ rest > 0) /\ (old = 0 => b = signals.nsfw)}

\* A media is routed after its upload, which leaves its reason: a new one has none, one
\* that passed may have that of an earlier failure or rejection.
RouteUpload(old, nude) ==
  /\ HeldItems < MaxItems /\ (nude => old = 1)
  /\ MediaBecome(signals.pendingMedia + 1, signals.rejectedMedia, signals.reasons + old,
                 signals.nsfw \/ nude)

\* Its upload is completed again.
RouteAgain ==
  /\ signals.rejectedMedia > 0
  /\ MediaBecome(signals.pendingMedia + 1, signals.rejectedMedia - 1, signals.reasons + 1,
                 signals.nsfw)

RejectMedia(old, nude) ==
  /\ IsPending(old)
  /\ \E kept \in Kept(old) :
       MediaBecome(signals.pendingMedia - 1, signals.rejectedMedia + 1, signals.reasons - old,
                   kept \/ nude)

\* It stays pending with the message of the error, whatever that says.
FailModeration(old, nude) ==
  /\ IsPending(old)
  /\ \E kept \in Kept(old) :
       MediaBecome(signals.pendingMedia, signals.rejectedMedia, signals.reasons - old + 1,
                   kept \/ nude)

\* It passes or is deleted, or a rejected one is deleted.
ReleaseMedia(old) ==
  \/ /\ IsPending(old)
     /\ \E kept \in Kept(old) :
          MediaBecome(signals.pendingMedia - 1, signals.rejectedMedia, signals.reasons - old, kept)
  \/ /\ signals.rejectedMedia > 0
     /\ \E kept \in Kept(1) :
          MediaBecome(signals.pendingMedia, signals.rejectedMedia - 1, signals.reasons, kept)

BioBecomes(bio, category) ==
  /\ account.bio = "clear" /\ bio # "clear" => HeldItems < MaxItems
  /\ account' = [account EXCEPT !.bio = bio]
  /\ signals' = [signals EXCEPT !.category = category]
  /\ UNCHANGED reports

\* A bio that is held replaces the labels of the one before.
HoldBio(score) ==
  \E c \in Drops(signals.pendingText + signals.rejectedText) :
    BioBecomes("pending", IF score > c THEN score ELSE c)

\* rejectBio does not ask for a pending bio; one that passed counts with its labels.
RejectBio(score) ==
  /\ account.bio # "clear" => score = 0
  /\ BioBecomes("rejected", AtLeast(score))

\* An approval, or a bio that needs none.
ClearBio ==
  /\ account.bio # "clear"
  /\ \E c \in Drops(signals.pendingText + signals.rejectedText) : BioBecomes("clear", c)

FileReport(high) ==
  /\ reports.open + reports.upheld < MaxReports
  /\ reports' = [reports EXCEPT !.open = @ + 1, !.high = IF high THEN @ + 1 ELSE @]
  /\ UNCHANGED <<signals, account>>

CloseReport(high, upheld) ==
  /\ IF high THEN reports.high > 0 ELSE reports.open > reports.high
  /\ reports' = [reports EXCEPT !.open = @ - 1, !.high = IF high THEN @ - 1 ELSE @,
                   !.upheld = IF upheld THEN @ + 1 ELSE @]
  /\ UNCHANGED <<signals, account>>

SetStatus(status) ==
  /\ account.status # status /\ account' = [account EXCEPT !.status = status]
  /\ UNCHANGED <<signals, reports>>

DeleteUser ==
  /\ account' = [account EXCEPT !.deleted = ~@]
  /\ UNCHANGED <<signals, reports>>

RiskNext ==
  \/ \E score \in {0, 7, 10} : HoldText(score) \/ HoldBio(score) \/ RejectBio(score)
  \/ RejectText \/ ReleaseText \/ ClearBio
  \/ \E old \in {0, 1} : \/ ReleaseMedia(old)
                         \/ \E nude \in BOOLEAN : \/ RouteUpload(old, nude)
                                                  \/ RejectMedia(old, nude)
                                                  \/ FailModeration(old, nude)
  \/ RouteAgain
  \/ \E high \in BOOLEAN :
       \/ FileReport(high)
       \/ \E upheld \in BOOLEAN : CloseReport(high, upheld)
  \/ \E status \in {"active", "suspended"} : SetStatus(status)
  \/ DeleteUser

RiskSpec == RiskInit /\ [][RiskNext]_riskVars

(***************************************************************************)
(* Properties                                                              *)
(***************************************************************************)
\* A reason that names nudity may be that of a rejected media, if there is one.
NudeAmongRejected == {b \in BOOLEAN : b => signals.nsfw /\ signals.rejectedMedia > 0}

\* The screens agree on the book and on what it means.  Of an account that is not deleted
\* they count the same items, which are those its profile and the feed list; a deleted one
\* stays in the command center's tiles alone.  An active signal is about an account the
\* engine lists and has the trigger of that name; an account flagged today is flagged; and
\* a critical account makes the index of a platform of its own high, whatever passed.
ScreensAgree ==
  /\ PlatformPending <= PendingTile /\ PlatformRejected <= RejectedTile
  /\ ~account.deleted =>
       /\ PendingTile = PlatformPending /\ RejectedTile = PlatformRejected
       /\ Profile.pending + Profile.rejected = PendingTile + RejectedTile
       /\ ModerationFeed(50) = Cut(Profile.history + reports.open, 50)
       /\ TrustIntegrity = (PendingTile + RejectedTile > 0)
       /\ IsFlagged = (Suspended \/ TrustIntegrity)
       /\ Profile.strikes >= 2 => "repeat_offender" \in BuildTriggers
  /\ \A posts \in 0 .. signals.rejectedText, nude \in NudeAmongRejected :
       \A s \in ActiveSignals(posts, nude) :
         /\ ~account.deleted => IsCandidate
         /\ IF s = "rejected_item" THEN BuildTriggers \cap {"rejected_content", "media_nsfw"} # {}
            ELSE s \in BuildTriggers
  /\ \A text \in 0 .. signals.pendingText + signals.rejectedText,
        media \in 0 .. signals.pendingMedia + signals.rejectedMedia, bio \in BOOLEAN :
       IsNewAlert(text, media, bio) => IsFlagged
  /\ \A passed \in {0, 100} :
       /\ IsFlagged => PlatformIndex(passed) > 0
       /\ IsCandidate /\ RiskLabelFromScore(ScoreUser) = "critical" =>
            RiskLabelFromScore(PlatformIndex(passed)) \in {"high", "critical"}

\* A label above low always comes with a trigger that explains it.  An account whose label
\* is high or critical is in every list: the engine's candidates, the flagged tab and
\* count and the attention list; reports alone, which three of those queries do not ask
\* for, never make a label high.  The proxy the lists are cut by, which sees neither
\* category scores nor reasons, puts it above every account with nothing but two plain open
\* reports (16), save for one kind: three pending items, a media with a reason among them,
\* come to 15.  The queries agree on every account that is not deleted.
RiskIsShown ==
  LET label == RiskLabelFromScore(ScoreUser)
  IN /\ label # "low" => BuildTriggers # {}
     /\ Suspended => label = "critical"
     /\ label \in {"high", "critical"} =>
          RiskProxy > 16 \/ (RiskProxy = 15 /\ PendingItems = 3 /\ signals.reasons > 0)
     /\ label \in {"high", "critical"} /\ ~account.deleted =>
          IsCandidate /\ IsFlagged /\ AttentionReasons # {}
     /\ IsFlagged = ("flagged" \in Tabs) /\ IsUnderReview = ("under_review" \in Tabs)
     /\ IsFlagged = (AttentionReasons # {})
     /\ ~account.deleted => AttentionReasons = AttentionCounted
     /\ ScreensAgree
=============================================================================
