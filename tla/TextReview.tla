----------------------------- MODULE TextReview -----------------------------
(***************************************************************************)
(* The review of text that owners edit: posts, ads, thoughts and bios,     *)
(* TextModerationPolicyService, the builders of text-moderation.helper and *)
(* AdminService's approve and reject.                                      *)
(*                                                                         *)
(* An owner's edit reads the row, awaits the moderation API and updates    *)
(* columns; an undefined value leaves its column as it is, so              *)
(* contentPending is never cleared.  An administrator judges what the      *)
(* queue listed; the verdict carries the id only, reads the row again and  *)
(* saves the entity.  The two statements of a save are one step here       *)
(* (module TrustQueue takes them apart).  Edits and verdicts overlap.      *)
(*                                                                         *)
(* A text is a number.  Ads and thoughts have a heading (topic, title) and *)
(* a body that are moderated together; posts and bios have a body only.    *)
(***************************************************************************)
EXTENDS Naturals, FiniteSets

CONSTANTS
  Text,       \* texts an owner may enter; 0 is no text
  Desk,       \* owners and administrators at work at a time
  MaxEdits    \* bound: edits

ASSUME ReviewAssumption == Text \subseteq Nat \ {0} /\ MaxEdits \in Nat

VARIABLES
  kind,      \* "post", "bio", or "pair": ad, thought
  content,   \* the columns of the row
  cleared,   \* history: texts the policy let through, or an administrator who approved
             \* had in the listing
  unread,    \* history: texts approved by a request whose listing an edit had replaced
  desk,      \* desk[d]: the edit, the listing or the verdict of desk d
  edits,     \* edits so far
  undone     \* history: a rejection was saved over a later edit

reviewVars == <<kind, content, cleared, unread, desk, edits, undone>>

\* heading, body and what waits for review: contentPending, and the payload a pending
\* edit of a pair puts into textModerationLabels (pays: whether there is one).
Row == [heading : Text \cup {0}, body : Text \cup {0}, waits : Text \cup {0},
        pays : BOOLEAN, payHeading : Text \cup {0}, payBody : Text \cup {0},
        status : {"passed", "skipped", "pending", "rejected"}]

\* evaluateText: a flag, or a failing API with failClosed, holds the text; a failing API
\* without it, disabled moderation and empty text skip the review.
Verdict == {"passed", "skipped", "pending"}

\* isPublicTextVisible, textModerationVisibleSql; a status never set is visible like a skipped one.
Public(status) == status \in {"passed", "skipped"}

\* combineText; a text of its own when there is only one part.
Combined(heading, body) == IF heading = 0 THEN body ELSE heading

NoText == [heading |-> 0, body |-> 0, waits |-> 0, pays |-> FALSE, payHeading |-> 0,
           payBody |-> 0, status |-> "skipped"]
\* seen and late: what an administrator has listed, unless an edit was held since.
Vacant == [pc |-> "idle", row |-> NoText, heading |-> 0, body |-> 0, status |-> "skipped",
           seen |-> {}, late |-> FALSE]

\* createPost: buildCreateTextFields.  A held text stands in the row.
CreatedSingle(b, v) == [NoText EXCEPT !.body = b, !.status = v]

\* createThought, createAd: heading and body are held together.
CreatedPair(h, b, v) == [NoText EXCEPT !.heading = h, !.body = b, !.status = v]

ReviewInit ==
  /\ \/ kind = "bio" /\ content = NoText /\ cleared = {}
     \/ \E h \in Text \cup {0}, b \in Text, v \in Verdict :
          /\ \/ kind = "post" /\ h = 0 /\ content = CreatedSingle(b, v)
             \/ kind = "pair" /\ content = CreatedPair(h, b, v)
          /\ cleared = IF v = "pending" THEN {} ELSE {h, b} \ {0}
  /\ unread = {}
  /\ desk = [d \in Desk |-> Vacant]
  /\ edits = 0
  /\ undone = FALSE

(***************************************************************************)
(* The owner                                                               *)
(***************************************************************************)
\* updatePost, updateAd, updateThought, UserService.update: the row is read and the next
\* texts are evaluated, those of the row standing in for a part that is not edited.
Edit(d, heading, body, verdict) ==
  /\ desk[d].pc = "idle" /\ edits < MaxEdits
  /\ heading # 0 \/ body # 0
  /\ heading # 0 => kind = "pair"
  /\ desk' = [desk EXCEPT ![d] =
       [Vacant EXCEPT !.pc = "edit", !.row = content, !.heading = heading, !.body = body,
                      !.status = verdict]]
  /\ cleared' = IF verdict = "pending" THEN cleared
                ELSE cleared \cup ({heading, body,
                       IF heading = 0 THEN content.heading ELSE heading,
                       IF body = 0 THEN content.body ELSE body} \ {0})
  /\ edits' = edits + 1
  /\ UNCHANGED <<kind, content, unread, undone>>

Or(new, old) == IF new = 0 THEN old ELSE new

\* Mutant: a held text takes the place of the public one, with the status it had.
UpdateInPlace(e) ==
  [content EXCEPT !.body = e.body, !.status = IF e.status = "pending" THEN @ ELSE e.status]

\* buildUpdateTextFields, buildBioUpdateFields: a held text waits beside the old one,
\* which is written back as it was read, if there was one.
UpdateSingle(e) ==
  IF e.status = "pending"
  THEN [content EXCEPT !.body = Or(e.row.body, @), !.waits = e.body, !.status = e.status]
  ELSE [content EXCEPT !.body = e.body, !.status = e.status]

\* updateAd, updateThought: a held edit waits as a payload, the others write the parts
\* that were edited.  The labels are replaced, and a former payload with them.
UpdatePair(e) ==
  LET heading == Or(e.heading, e.row.heading)
      body == Or(e.body, e.row.body)
  IN IF e.status = "pending"
     THEN [content EXCEPT !.waits = Combined(heading, body), !.pays = TRUE,
             !.payHeading = heading, !.payBody = body, !.status = e.status]
     ELSE [content EXCEPT !.heading = Or(e.heading, @), !.body = Or(e.body, @),
             !.pays = FALSE, !.payHeading = 0, !.payBody = 0, !.status = e.status]

\* What an administrator has listed of the row is not what a held edit puts there.
Replaced(t) == IF t.pc = "listed" THEN [t EXCEPT !.seen = {}, !.late = TRUE] ELSE t

EditWrites(d) ==
  /\ desk[d].pc = "edit"
  /\ content' = IF kind = "pair" THEN UpdatePair(desk[d]) ELSE UpdateSingle(desk[d])
  /\ desk' = [c \in Desk |-> IF c = d THEN Vacant
                            ELSE IF desk[d].status = "pending" THEN Replaced(desk[c])
                            ELSE desk[c]]
  /\ UNCHANGED <<kind, cleared, unread, edits, undone>>

(***************************************************************************)
(* The administrator                                                       *)
(***************************************************************************)
\* fetchQueueBucket: contentPending ?? content, and the labels.  Those of a pair hold its
\* pending payload, or the moderated text when the creation was held; a row that became
\* pending otherwise has a payload.
Listed(r) ==
  ({Or(r.waits, r.body)}
   \cup IF r.pays THEN {r.payHeading, r.payBody}
        ELSE IF kind = "pair" THEN {r.heading, r.body} ELSE {}) \ {0}

\* getTextModerationQueue; a row that is not pending cannot be approved until a held edit
\* replaces what was listed of it.
List(d) ==
  /\ desk[d].pc = "idle" /\ content.status = "pending"
  /\ desk' = [desk EXCEPT ![d] = [Vacant EXCEPT !.pc = "listed", !.seen = Listed(content)]]
  /\ UNCHANGED <<kind, content, cleared, unread, edits, undone>>

\* What an approval makes of the entity it read.
Approved(r) ==
  [r EXCEPT !.heading = IF r.pays THEN Or(r.payHeading, @) ELSE @,
            !.body = IF r.pays /\ r.payBody # 0 THEN r.payBody ELSE Or(r.waits, @),
            !.status = "passed"]

\* approveContentEntity and approveBio read the row and want it pending, which rejectBio
\* does not ask.
Review(d, verdict) ==
  /\ desk[d].pc = "listed"
  /\ content.status = "pending" \/ (verdict = "reject" /\ kind = "bio")
  /\ desk' = [desk EXCEPT ![d] = [Vacant EXCEPT !.pc = verdict, !.row = content]]
  /\ cleared' = IF verdict = "approve" THEN cleared \cup desk[d].seen ELSE cleared
  /\ unread' = IF verdict = "approve" /\ desk[d].late
               THEN unread \cup ({Approved(content).heading, Approved(content).body} \ {0})
               ELSE unread
  /\ UNCHANGED <<kind, content, edits, undone>>

\* save puts the entity back; contentPending was set to undefined and stays.
VerdictSaves(d) ==
  /\ desk[d].pc \in {"approve", "reject"}
  /\ content' = [(IF desk[d].pc = "approve" THEN Approved(desk[d].row)
              ELSE [desk[d].row EXCEPT !.status = "rejected"]) EXCEPT !.waits = content.waits]
  /\ desk' = [desk EXCEPT ![d] = Vacant]
  /\ undone' = (undone \/ (desk[d].pc = "reject" /\ content # desk[d].row))
  /\ UNCHANGED <<kind, cleared, unread, edits>>

ReviewNext ==
  \E d \in Desk :
    \/ \E h, b \in Text \cup {0}, v \in Verdict : Edit(d, h, b, v)
    \/ \E v \in {"approve", "reject"} : Review(d, v)
    \/ EditWrites(d) \/ List(d) \/ VerdictSaves(d)

ReviewSpec == ReviewInit /\ [][ReviewNext]_reviewVars

\* resolveDisplayText, for a viewer who is neither the owner nor an administrator: no text
\* at all until the review is over, not even the one that was public before.
ShownToOthers ==
  IF Public(content.status) THEN {content.heading, content.body} \ {0} ELSE {}

(***************************************************************************)
(* Properties                                                              *)
(***************************************************************************)
\* Whatever edits and verdicts overlap, a text everybody sees was let through by the
\* policy or listed to an administrator who approved it: the listing shows all that an
\* approval of the row makes public.  Two races are excepted.  A text that was held after
\* an administrator listed the row and before the approval, which names the row only, is
\* published unread.  And once the rejection of an ad or a thought was saved over an edit
\* made meanwhile, the rejected part is back, and an edit of the other part that was
\* evaluated without it makes it public.
PublicTextWasCleared ==
  (kind = "pair" => ~undone) => ShownToOthers \subseteq cleared \cup unread
=============================================================================
