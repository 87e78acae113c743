----------------------------- MODULE MCBackOffice -----------------------------
(* Instances for TLC of the services behind accounts, moderation and the     *)
(* admin console.  They share no state: one run takes each in turn, chosen   *)
(* by part, while the others rest in an initial state of theirs.             *)
EXTENDS AdminAccess, Accounts, TextReview, TrustQueue, RiskScore, ActivityWindow

CONSTANTS a, b, Parts

VARIABLE part

Rest(p, state) == part = p \/ state

PassedText == [NoText EXCEPT !.body = CHOOSE t \in Text : TRUE, !.status = "passed"]

Init ==
  /\ part \in Parts
  /\ AdminInit /\ Rest("access", member = CHOOSE t \in FirstTables : TRUE)
  /\ Rest("access", grant = [r \in Role |-> r = "super"])
  /\ AccountsInit
  /\ ReviewInit /\ Rest("review", kind = "post" /\ content = PassedText)
  /\ TrustInit /\ RiskInit
  /\ WindowInit /\ Rest("window", now = Earliest)

Next ==
  /\ UNCHANGED part
  /\ \/ /\ part = "access" /\ AdminNext
        /\ UNCHANGED <<accountVars, reviewVars, trustVars, riskVars, windowVars>>
     \/ /\ part = "accounts" /\ AccountsNext
        /\ UNCHANGED <<adminAll, reviewVars, trustVars, riskVars, windowVars>>
     \/ /\ part = "review" /\ ReviewNext
        /\ UNCHANGED <<adminAll, accountVars, trustVars, riskVars, windowVars>>
     \/ /\ part = "trust" /\ TrustNext
        /\ UNCHANGED <<adminAll, accountVars, reviewVars, riskVars, windowVars>>
     \/ /\ part = "risk" /\ RiskNext
        /\ UNCHANGED <<adminAll, accountVars, reviewVars, trustVars, windowVars>>
     \/ /\ part = "window" /\ WindowNext
        /\ UNCHANGED <<adminAll, accountVars, reviewVars, trustVars, riskVars>>

Spec == Init /\ [][Next]_<<part, adminAll, accountVars, reviewVars, trustVars, riskVars, windowVars>>

(***************************************************************************)
(* Values of the constants                                                 *)
(***************************************************************************)
\* Memberships a team may have: two super admins and a free row, or one and an invite.
Seat(email, user, role, status) == [email |-> email, user |-> user, role |-> role, status |-> status]
FreeSeat == Seat(NoUser, NoUser, "readOnly", "none")
Teams == {<<Seat(a, a, "super", "active"), Seat(b, b, "super", "active"), FreeSeat>>,
          <<Seat(a, a, "super", "active"), Seat(b, NoUser, "senior", "pending"), FreeSeat>>}

\* Days are four hours, months end where these numbers say.
BucketStarts == [size \in {"hour", "month"} |->
                   IF size = "hour" THEN {2 * i : i \in -2 .. 12} ELSE {-3, 0, 6, 11, 17, 25}]
SizeFor(length) == IF length <= 8 THEN "hour" ELSE "month"
=============================================================================
