----------------------------- MODULE TrustQueue -----------------------------
(***************************************************************************)
(* Abuse reports: ReportsService files them, TrustQueueService hands them  *)
(* to admins and closes them, AdminRiskEngineService shows them as signals.*)
(*                                                                         *)
(* reassign and resolve read the report, change the entity and save it.    *)
(* Repository.save selects the row again and updates the columns in which  *)
(* the entity differs from it.  Nothing locks the row: a request that read *)
(* the report before another one saved puts back all it read, and an       *)
(* update that comes between the two statements of a save is mixed with it.*)
(*                                                                         *)
(* Left out: names, texts, evidence, notes and the SLA of a report, the    *)
(* listing's filters, and who may call (a refused request changes nothing).*)
(***************************************************************************)
EXTENDS Naturals, FiniteSets

CONSTANTS
  Report,          \* reports, all about one user
  Analyst,         \* requests under way at a time
  MaxDecisions     \* bound: requests

ASSUME TrustAssumption == MaxDecisions \in Nat

Severity == {"medium", "high", "critical"}    \* low is treated as medium
Type == {"abuse", "scam", "impersonation"}    \* the other two are treated as abuse
Outcome == {"violation_action_taken", "violation_warning", "dismissed", "escalated_further"}
OpenStatuses == {"open", "in_review", "escalated"}

VARIABLES
  report,      \* report[k]: the row of abuse_reports
  suspended,   \* the reported user's status
  analyst,     \* analyst[a]: the request a runs, its entity, the columns it will write
  decisions,   \* requests so far
  mixed        \* history: reports updated between the two statements of a save

trustVars == <<report, suspended, analyst, decisions, mixed>>

NotFiled == [severity |-> "medium", type |-> "abuse", status |-> "none",
             outcome |-> "none", resolvedAt |-> FALSE, assignee |-> FALSE]
Waits == [pc |-> "idle", op |-> "none", k |-> {}, row |-> NotFiled, cols |-> {},
          overtaken |-> FALSE]

TrustInit ==
  /\ report = [k \in Report |-> NotFiled]
  /\ suspended = FALSE
  /\ analyst = [a \in Analyst |-> Waits]
  /\ decisions = 0
  /\ mixed = {}

Filed == {k \in Report : report[k].status # "none"}
IsOpen(k) == report[k].status \in OpenStatuses

\* resolveContentTarget: the content reported, if any, is found and is the reported user's.
ResolveContentTarget(owner) == owner \notin {"not_found", "other"}

\* One transaction.
CreateReport(k, severity, type, owner) ==
  /\ report[k].status = "none"
  /\ ResolveContentTarget(owner)
  /\ report' = [report EXCEPT ![k] = [NotFiled EXCEPT !.severity = severity, !.type = type,
                                        !.status = "open"]]
  /\ UNCHANGED <<suspended, analyst, decisions, mixed>>

\* findReportOrFail, for resolve also the check that it is not resolved.
FindReport(a, k, op) ==
  /\ analyst[a].pc = "idle" /\ k \in Filed
  /\ decisions < MaxDecisions
  /\ op \in Outcome => report[k].status # "resolved"
  /\ decisions' = decisions + 1
  /\ analyst' = [analyst EXCEPT ![a] =
       [Waits EXCEPT !.pc = "found", !.op = op, !.k = {k}, !.row = report[k]]]
  /\ UNCHANGED <<report, suspended, mixed>>

Reassigned(row) ==
  [row EXCEPT !.assignee = TRUE, !.status = IF @ = "open" THEN "in_review" ELSE @]

\* Mutant: an escalation keeps the time of the former resolution.
ResolvedForGood(row, outcome) ==
  [row EXCEPT !.outcome = outcome,
              !.status = IF outcome = "escalated_further" THEN "escalated" ELSE "resolved",
              !.resolvedAt = TRUE]

Resolved(row, outcome) ==
  [row EXCEPT !.outcome = outcome,
              !.status = IF outcome = "escalated_further" THEN "escalated" ELSE "resolved",
              !.resolvedAt = outcome # "escalated_further"]

\* reportRepo.save(report): the select.  A time that is set is a new one.
SelectsRow(a) ==
  /\ analyst[a].pc = "found" /\ analyst[a].op \in Outcome \cup {"reassign"}
  /\ \E k \in analyst[a].k :
       LET op == analyst[a].op
           entity == IF op = "reassign" THEN Reassigned(analyst[a].row)
                     ELSE Resolved(analyst[a].row, op)
           times == IF op \in Outcome /\ entity.resolvedAt THEN {"resolvedAt"} ELSE {}
       IN analyst' = [analyst EXCEPT ![a].pc = "selected", ![a].row = entity,
            ![a].cols = times \cup {c \in DOMAIN entity : entity[c] # report[k][c]}]
  /\ UNCHANGED <<report, suspended, decisions, mixed>>

\* The update, and a note.
UpdatesRow(a) ==
  /\ analyst[a].pc = "selected"
  /\ \E k \in analyst[a].k :
       /\ report' = [report EXCEPT ![k] = [c \in DOMAIN @ |->
            IF c \in analyst[a].cols THEN analyst[a].row[c] ELSE @[c]]]
       /\ mixed' = IF analyst[a].overtaken THEN mixed \cup {k} ELSE mixed
       /\ analyst' = [b \in Analyst |-> IF b = a THEN Waits ELSE
            [analyst[b] EXCEPT !.overtaken = @ \/ (analyst[b].pc = "selected" /\ k \in analyst[b].k)]]
  /\ UNCHANGED <<suspended, decisions>>

SuspendReportedUser(a) ==
  /\ analyst[a].pc = "found" /\ analyst[a].op = "suspend"
  /\ suspended' = TRUE
  /\ analyst' = [analyst EXCEPT ![a] = Waits]
  /\ UNCHANGED <<report, decisions, mixed>>

RequestFails(a) ==
  /\ analyst[a].pc # "idle"
  /\ analyst' = [analyst EXCEPT ![a] = Waits]
  /\ UNCHANGED <<report, suspended, decisions, mixed>>

TrustNext ==
  \/ \E k \in Report, s \in Severity, t \in Type,
         owner \in {"no_content", "reported", "other", "not_found"} : CreateReport(k, s, t, owner)
  \/ \E a \in Analyst :
       \/ \E k \in Report, op \in Outcome \cup {"reassign", "suspend"} : FindReport(a, k, op)
       \/ SelectsRow(a) \/ UpdatesRow(a) \/ SuspendReportedUser(a) \/ RequestFails(a)

TrustSpec == TrustInit /\ [][TrustNext]_trustVars

(***************************************************************************)
(* What the queue and the risk engine show of them                         *)
(***************************************************************************)
SeverityFromReport(row) ==
  IF row.severity = "critical" \/ row.status = "escalated" THEN "critical"
  ELSE IF row.severity = "high" THEN "warning" ELSE "info"

\* mapReportToSignals: the severities of a report's signals.
Signals(row) ==
  LET special ==
        {s \in {"critical"} : row.status = "escalated" \/ row.type = "scam"}
        \cup {s \in {"critical"} : row.severity = "critical"}
        \cup {s \in {"warning"} : row.severity = "high" \/ row.type = "impersonation"}
  IN IF special = {} THEN {SeverityFromReport(row)} ELSE special

\* getSummary: the reports in the queue and the escalated ones.
InQueue == {k \in Filed : IsOpen(k)}
EscalatedTile == {k \in Filed : report[k].status = "escalated"}

\* getInvestigationsSummary: a closed case is resolved and has a time.
CasesClosed == {k \in Filed : report[k].status = "resolved" /\ report[k].resolvedAt}

\* Mutant: escalated reports, which are closed to reassignment, are not looked for.
CriticalOfSeverity ==
  {k \in Filed : IsOpen(k) /\ \/ report[k].severity = "critical"
                              \/ report[k].type \in {"scam", "impersonation"}}

\* countCriticalSignals, countActiveAlerts, and the upheld reports of getReportSignals
CriticalSignals ==
  {k \in Filed : IsOpen(k) /\ \/ report[k].severity = "critical"
                              \/ report[k].status = "escalated"
                              \/ report[k].type \in {"scam", "impersonation"}}
ActiveAlerts ==
  {k \in Filed : IsOpen(k) /\ \/ report[k].severity \in {"high", "critical"}
                              \/ report[k].status = "escalated"}
Upheld == {k \in Filed : /\ report[k].status = "resolved"
                         /\ report[k].outcome \in {"violation_action_taken", "violation_warning"}}

\* mapReportSignalStatus, and the same report in the list of investigations.
SignalStatus(row) ==
  CASE row.status = "escalated" -> "escalated"
    [] row.status = "in_review" -> "under_review"
    [] row.status = "resolved" -> "resolved"
    [] OTHER -> "open"

\* buildSignals without a window's bounds.
SignalList(activeOnly) == {k \in Filed : activeOnly => IsOpen(k)}

\* getReport: the other open reports on the user, all of them, and those upheld.
ReportPage(k) ==
  [corroborating |-> {j \in Filed \ {k} : IsOpen(j)},
   openAgainst |-> {j \in Filed : IsOpen(j)},
   priorViolations |-> {j \in Filed : /\ report[j].status = "resolved"
     /\ report[j].outcome \in {"violation_action_taken", "violation_warning"}}]

\* countAutomatedActions24h of a day with all of it.
AutomatedActions ==
  {k \in Filed : report[k].status = "escalated"}
  \cup {k \in Filed : report[k].status = "resolved" /\ report[k].resolvedAt}

(***************************************************************************)
(* Properties                                                              *)
(***************************************************************************)
\* A report's row never mixes two decisions, though requests that read it earlier write
\* all of it back: it is resolved exactly when it has a time and a closing outcome, and
\* escalated exactly when that was the outcome.  The exception: a report updated between
\* the select and the update of somebody's save.
ResolutionIsWhole ==
  \A k \in Filed \ mixed :
    /\ (report[k].status = "resolved") = report[k].resolvedAt
    /\ (report[k].status = "resolved") =
         (report[k].outcome \in Outcome \ {"escalated_further"})
    /\ (report[k].status = "escalated") = (report[k].outcome = "escalated_further")

\* A report is in the queue or among the closed cases and never in both; every report with
\* a critical signal in the list is in the badge's count; an active alert has more than an
\* info signal; and one that counts as upheld is closed.
EveryReportIsCounted ==
  /\ \A k \in Filed \ mixed : k \in InQueue \cup CasesClosed
  /\ InQueue \cap CasesClosed = {} /\ EscalatedTile \subseteq InQueue
  /\ \A k \in InQueue : "critical" \in Signals(report[k]) => k \in CriticalSignals
  /\ \A k \in ActiveAlerts : Signals(report[k]) # {"info"}
  /\ (Upheld \ mixed) \subseteq CasesClosed
  /\ \A k \in InQueue :
       /\ ReportPage(k).corroborating = ReportPage(k).openAgainst \ {k}
       /\ k \notin ReportPage(k).priorViolations
  /\ SignalList(TRUE) = {k \in SignalList(FALSE) : SignalStatus(report[k]) # "resolved"}
  /\ \A k \in AutomatedActions : SignalStatus(report[k]) \in {"escalated", "resolved"}
=============================================================================
