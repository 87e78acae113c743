--------------------------- MODULE MediaDelivery ---------------------------
(***************************************************************************)
(* The predicates every component asks of a media row: was its upload      *)
(* completed, did moderation clear, reject or fail it, and what does that  *)
(* say about the content (post, ad or status) that links it.               *)
(* A row is reduced to the columns these predicates and the workers read:  *)
(*   status       the lifecycle column, "none" while the row does not exist*)
(*   moderation   the moderation_status column, "null" while unset         *)
(*   transcoded   the variants column holds the outputs of a transcode     *)
(*   stale        updated_at is older than the reconciler's cutoff         *)
(***************************************************************************)

\* media-status.enum.ts, plus "none" for an absent row
MediaStatus == {"none", "uploading", "uploaded", "moderating", "processing",
                "ready", "rejected", "failed"}

\* moderation-status.enum.ts, plus "null" for the nullable column
ModerationStatus == {"null", "pending", "skipped", "passed", "rejected"}

Row == [status : MediaStatus, moderation : ModerationStatus,
        transcoded : BOOLEAN, stale : BOOLEAN]

\* content-publish-status.enum.ts
Outcome == {"pending", "published", "failed"}

ClearedStatuses == {"passed", "skipped"}

IsModerationCleared(media) ==
  \/ media.moderation \in ClearedStatuses
  \/ media.status = "ready" /\ media.moderation = "null"

IsModerationRejected(media) ==
  media.status = "rejected" \/ media.moderation = "rejected"

IsModerationFailed(media) ==
  media.status = "failed" /\ ~IsModerationCleared(media)

\* The two verdicts that take content down.
IsBlocked(media) == IsModerationRejected(media) \/ IsModerationFailed(media)

\* Faulty variant: whatever does not await moderation counts as cleared.
ResolveOutcomeNotPending(rows) ==
  IF \E media \in rows : IsBlocked(media) THEN "failed"
  ELSE IF \A media \in rows : media.moderation # "pending" THEN "published"
  ELSE "pending"

\* ContentPublishService.resolveOutcome over the rows of the linked media: a
\* blocked row decides at once, and what is neither blocked nor cleared (still
\* uploading, or awaiting moderation) keeps the content pending.
ResolveOutcome(rows) ==
  IF \E media \in rows : IsBlocked(media) THEN "failed"
  ELSE IF \A media \in rows : IsModerationCleared(media) THEN "published"
  ELSE "pending"

\* Faulty variant: one cleared media publishes the content.
ResolveInitialSome(rows) ==
  IF \E media \in rows : IsModerationCleared(media) THEN "published" ELSE "pending"

\* MediaAttachValidator.resolveInitialPublishStatus
ResolveInitialPublishStatus(rows) ==
  IF \A media \in rows : IsModerationCleared(media) THEN "published" ELSE "pending"

\* MediaAttachValidator, mode 'pending'
PendingAttachStatuses == {"uploaded", "moderating", "processing", "ready"}
=============================================================================
