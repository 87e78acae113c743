-------------------------- MODULE ModerationProofs --------------------------
(***************************************************************************)
(* Theorems about the moderation console, for any number of requests, rows *)
(* and administrators: the trust queue, the buckets of the activity window *)
(* and the review of texts.                                                *)
(***************************************************************************)
EXTENDS TrustQueue, ActivityWindow, TextReview, TLAPS

-----------------------------------------------------------------------------
(* The trust queue                                                         *)

Column == {"severity", "type", "status", "outcome", "resolvedAt", "assignee"}
QueueRow == [severity : Severity, type : Type, status : {"none", "resolved"} \cup OpenStatuses,
        outcome : Outcome \cup {"none"}, resolvedAt : BOOLEAN, assignee : BOOLEAN]
Work == [pc : {"idle", "found", "selected"}, op : Outcome \cup {"none", "reassign", "suspend"},
         k : SUBSET Report, row : QueueRow, cols : SUBSET Column, overtaken : BOOLEAN]

TrustTypes ==
  /\ report \in [Report -> QueueRow] /\ analyst \in [Analyst -> Work]
  /\ mixed \subseteq Report

\* One decision, or none, and all of it.
Whole(row) ==
  /\ (row.status = "resolved") = row.resolvedAt
  /\ (row.status = "resolved") = (row.outcome \in Outcome \ {"escalated_further"})
  /\ (row.status = "escalated") = (row.outcome = "escalated_further")

\* What a request holds of report k was whole when it was read; between its two statements
\* it knows where its entity differs from the row, unless the row was updated meanwhile.
Holds(t, k) ==
  /\ t.k = {k}
  /\ t.row.status # "none" /\ report[k].status # "none"
  /\ k \notin mixed => Whole(t.row)
  /\ t.pc = "selected" /\ ~t.overtaken =>
       \A c \in Column : c \in t.cols \/ t.row[c] = report[k][c]

TrustInv ==
  /\ TrustTypes
  /\ \A k \in Filed \ mixed : Whole(report[k])
  /\ \A a \in Analyst : analyst[a].pc # "idle" => \A k \in analyst[a].k : Holds(analyst[a], k)

-----------------------------------------------------------------------------
(* Rows                                                                    *)

\* The row after an update of some columns.
Merged(old, new, cols) == [c \in DOMAIN old |-> IF c \in cols THEN new[c] ELSE old[c]]

\* An update of all columns that differ puts the whole entity into the row.
LEMMA MergedRows ==
  ASSUME NEW old \in QueueRow, NEW new \in QueueRow, NEW cols
  PROVE  /\ Merged(old, new, cols) \in QueueRow
         /\ old.status # "none" /\ new.status # "none" => Merged(old, new, cols).status # "none"
         /\ (\A c \in Column : c \in cols \/ new[c] = old[c]) => Merged(old, new, cols) = new
<1>1. DOMAIN old = Column /\ DOMAIN new = Column
  BY DEF QueueRow, Column
<1> DEFINE m == Merged(old, new, cols)
<1>2. m = [c \in Column |-> IF c \in cols THEN new[c] ELSE old[c]]
  BY <1>1 DEF Merged
<1>3. m.status # "none" \/ old.status = "none" \/ new.status = "none"
  BY <1>2 DEF Column
<1>4. m \in QueueRow
  <2>1. /\ m["severity"] \in Severity /\ m["type"] \in Type
        /\ m["status"] \in {"none", "resolved"} \cup OpenStatuses
        /\ m["outcome"] \in Outcome \cup {"none"}
        /\ m["resolvedAt"] \in BOOLEAN /\ m["assignee"] \in BOOLEAN
    BY <1>2 DEF QueueRow, Column
  <2>2. m = [severity |-> m["severity"], type |-> m["type"], status |-> m["status"],
             outcome |-> m["outcome"], resolvedAt |-> m["resolvedAt"], assignee |-> m["assignee"]]
    BY <1>2 DEF Column
  <2> QED
    BY <2>1, <2>2 DEF QueueRow
<1>5. ASSUME \A c \in Column : c \in cols \/ new[c] = old[c] PROVE m = new
  <2>1. \A c \in Column : m[c] = new[c]
    BY <1>2, <1>5
  <2>2. new = [c \in Column |-> new[c]] /\ m = [c \in Column |-> m[c]]
    BY <1>1, <1>2 DEF QueueRow
  <2> QED
    BY <2>1, <2>2
<1> QED
  BY <1>3, <1>4, <1>5

\* Handing a report on keeps it whole, and resolving makes it whole.
LEMMA DecidedRows ==
  ASSUME NEW row \in QueueRow, row.status # "none"
  PROVE  /\ Reassigned(row) \in QueueRow /\ Reassigned(row).status # "none"
         /\ Whole(row) => Whole(Reassigned(row))
         /\ \A o \in Outcome : /\ Resolved(row, o) \in QueueRow /\ Resolved(row, o).status # "none"
                               /\ Whole(Resolved(row, o))
<1>1. /\ Reassigned(row) \in QueueRow
      /\ Reassigned(row).status = IF row.status = "open" THEN "in_review" ELSE row.status
      /\ Reassigned(row).outcome = row.outcome /\ Reassigned(row).resolvedAt = row.resolvedAt
  BY DEF Reassigned, QueueRow, OpenStatuses
<1>2. ASSUME NEW o \in Outcome
      PROVE  /\ Resolved(row, o) \in QueueRow
             /\ Resolved(row, o).status = IF o = "escalated_further" THEN "escalated" ELSE "resolved"
             /\ Resolved(row, o).outcome = o
             /\ Resolved(row, o).resolvedAt = (o # "escalated_further")
  BY DEF Resolved, QueueRow, OpenStatuses
<1>3. Whole(row) => Whole(Reassigned(row))
  BY <1>1 DEF Whole
<1>4. \A o \in Outcome : Whole(Resolved(row, o))
  BY <1>2 DEF Whole, Outcome
<1> QED
  BY <1>1, <1>2, <1>3, <1>4

\* The rows and requests there are at first.
LEMMA FirstRows == NotFiled \in QueueRow /\ NotFiled.status = "none" /\ Waits \in Work /\ Waits.pc = "idle"
  BY DEF NotFiled, QueueRow, Waits, Work, Severity, Type, OpenStatuses

-----------------------------------------------------------------------------
(* Invariance                                                              *)

\* At first no report is filed and nobody holds one.
LEMMA TrustInitial == TrustInit => TrustInv
  BY FirstRows DEF TrustInit, TrustInv, TrustTypes, Filed

\* What an analyst holds survives what leaves her, the report and the history alone.
LEMMA CreateStep ==
  ASSUME TrustInv, NEW k \in Report, NEW severity \in Severity, NEW type \in Type, NEW owner,
         CreateReport(k, severity, type, owner)
  PROVE  TrustInv'
<1> DEFINE row == [NotFiled EXCEPT !.severity = severity, !.type = type, !.status = "open"]
<1>1. /\ report[k].status = "none" /\ report' = [report EXCEPT ![k] = row]
      /\ analyst' = analyst /\ mixed' = mixed /\ TrustTypes
  BY DEF CreateReport, TrustInv
<1>2. row \in QueueRow /\ Whole(row)
  <2>1. row \in QueueRow
    BY FirstRows DEF QueueRow, OpenStatuses
  <2>2. row.status = "open" /\ row.resolvedAt = FALSE /\ row.outcome = "none"
    BY DEF NotFiled
  <2> HIDE DEF row
  <2>3. (row.status = "resolved") = row.resolvedAt
    BY <2>2
  <2>4. (row.status = "resolved") = (row.outcome \in Outcome \ {"escalated_further"})
    BY <2>2 DEF Outcome
  <2>5. (row.status = "escalated") = (row.outcome = "escalated_further")
    BY <2>2
  <2> QED
    BY <2>1, <2>3, <2>4, <2>5 DEF Whole
<1> HIDE DEF row
<1>3. TrustTypes'
  BY <1>1, <1>2 DEF TrustTypes
<1>4. \A j \in (Filed \ mixed)' : Whole(report'[j])
  BY <1>1, <1>2 DEF TrustTypes, TrustInv, Filed
<1>5. ASSUME NEW a \in Analyst, analyst'[a].pc # "idle", NEW j \in analyst'[a].k
      PROVE  Holds(analyst[a], j)'
  <2>1. Holds(analyst[a], j) /\ j \in Report
    BY <1>1, <1>5 DEF TrustInv, TrustTypes, Work
  <2>2. j # k
    BY <1>1, <2>1 DEF Holds
  <2>3. report'[j] = report[j]
    BY <1>1, <2>1, <2>2 DEF TrustTypes
  <2> QED
    BY <1>1, <2>1, <2>3 DEF Holds
<1> QED
  BY <1>1, <1>3, <1>4, <1>5 DEF TrustInv

\* A step of one analyst that writes nothing to the reports.
LEMMA AnalystStep ==
  ASSUME TrustInv, NEW a \in Analyst, NEW t \in Work, analyst' = [analyst EXCEPT ![a] = t],
         report' = report, mixed' = mixed,
         t.pc # "idle" => \A k \in t.k : Holds(t, k)
  PROVE  TrustInv'
<1>1. TrustTypes /\ TrustTypes'
  BY DEF TrustInv, TrustTypes
<1>2. \A k \in (Filed \ mixed)' : Whole(report'[k])
  BY DEF TrustInv, Filed
<1>3. ASSUME NEW b \in Analyst, analyst'[b].pc # "idle", NEW k \in analyst'[b].k
      PROVE  Holds(analyst[b], k)'
  <2>1. Holds(analyst'[b], k)
    <3>1. CASE b = a
      BY <1>1, <1>3, <3>1 DEF TrustTypes
    <3>2. CASE b # a
      BY <1>1, <1>3, <3>2 DEF TrustTypes, TrustInv
    <3> QED
      BY <3>1, <3>2
  <2> QED
    BY <2>1 DEF Holds
<1> QED
  BY <1>1, <1>2, <1>3 DEF TrustInv

\* A request holds the row it found, which is whole as it stands.
LEMMA FindStep ==
  ASSUME TrustInv, NEW a \in Analyst, NEW k \in Report, NEW op \in Outcome \cup {"reassign", "suspend"},
         FindReport(a, k, op)
  PROVE  TrustInv'
<1> DEFINE t == [Waits EXCEPT !.pc = "found", !.op = op, !.k = {k}, !.row = report[k]]
<1>1. /\ k \in Filed /\ analyst' = [analyst EXCEPT ![a] = t] /\ report' = report /\ mixed' = mixed
  BY DEF FindReport
<1>2. report[k] \in QueueRow
  BY DEF TrustInv, TrustTypes
<1>3. t \in Work /\ t.pc = "found" /\ t.k = {k} /\ t.row = report[k]
  BY <1>2, FirstRows DEF Work, Waits
<1> HIDE DEF t
<1>4. Holds(t, k)
  BY <1>1, <1>3 DEF Holds, TrustInv, Filed
<1> QED
  BY <1>1, <1>3, <1>4, AnalystStep

\* The select of a save compares the entity with the row as it is now.
LEMMA SelectStep == ASSUME TrustInv, NEW a \in Analyst, SelectsRow(a) PROVE TrustInv'
<1> DEFINE op == analyst[a].op
           entity == IF op = "reassign" THEN Reassigned(analyst[a].row)
                     ELSE Resolved(analyst[a].row, op)
           times == IF op \in Outcome /\ entity.resolvedAt THEN {"resolvedAt"} ELSE {}
<1>1. /\ analyst[a].pc = "found" /\ op \in Outcome \cup {"reassign"}
      /\ report' = report /\ mixed' = mixed /\ TrustTypes /\ analyst[a] \in Work
  BY DEF SelectsRow, TrustInv, TrustTypes
<1>2. PICK k \in analyst[a].k :
        analyst' = [analyst EXCEPT ![a].pc = "selected", ![a].row = entity,
                      ![a].cols = times \cup {c \in DOMAIN entity : entity[c] # report[k][c]}]
  BY DEF SelectsRow
<1> DEFINE cols == times \cup {c \in DOMAIN entity : entity[c] # report[k][c]}
           t == [analyst[a] EXCEPT !.pc = "selected", !.row = entity, !.cols = cols]
<1>3. k \in Report /\ analyst[a].row \in QueueRow /\ Holds(analyst[a], k)
  BY <1>1 DEF TrustInv, Work
<1>4. /\ entity \in QueueRow /\ entity.status # "none"
      /\ \A j \in analyst[a].k : j \notin mixed => Whole(entity)
  <2>1. \A j \in analyst[a].k : Holds(analyst[a], j)
    BY <1>1 DEF TrustInv
  <2>2. analyst[a].row.status # "none"
    BY <1>3 DEF Holds
  <2>3. CASE op = "reassign"
    BY <1>3, <2>1, <2>2, <2>3, DecidedRows DEF Holds
  <2>4. CASE op # "reassign"
    BY <1>1, <1>3, <2>1, <2>2, <2>4, DecidedRows
  <2> QED
    BY <2>3, <2>4
<1>5. DOMAIN entity = Column
  BY <1>4 DEF QueueRow, Column
<1>6. cols \in SUBSET Column /\ \A c \in Column : c \in cols \/ entity[c] = report[k][c]
  BY <1>5 DEF Column
<1> HIDE DEF entity, cols
<1>7. t \in Work /\ t.pc = "selected" /\ t.row = entity /\ t.cols = cols /\ t.k = analyst[a].k
  BY <1>1, <1>4, <1>6 DEF Work
<1>8. analyst' = [analyst EXCEPT ![a] = t]
  BY <1>1, <1>2 DEF cols, TrustTypes
<1> HIDE DEF t
<1>9. ASSUME NEW j \in t.k PROVE Holds(t, j)
  BY <1>1, <1>3, <1>4, <1>6, <1>7 DEF Holds, TrustInv
<1> QED
  BY <1>1, <1>7, <1>8, <1>9, AnalystStep

\* An update that nobody overtook leaves the entity in the row, as it was decided; one that
\* was overtaken is in the history, and so is whoever it overtakes.
LEMMA UpdateStep == ASSUME TrustInv, NEW a \in Analyst, UpdatesRow(a) PROVE TrustInv'
<1> DEFINE t == analyst[a]
<1>1. /\ t.pc = "selected" /\ TrustTypes /\ t \in Work /\ t.row \in QueueRow /\ t.k \subseteq Report
  BY DEF UpdatesRow, TrustInv, TrustTypes, Work
<1>2. PICK k \in t.k :
        /\ report' = [report EXCEPT ![k] = Merged(report[k], t.row, t.cols)]
        /\ mixed' = IF t.overtaken THEN mixed \cup {k} ELSE mixed
        /\ analyst' = [b \in Analyst |-> IF b = a THEN Waits ELSE
             [analyst[b] EXCEPT !.overtaken = @ \/ (analyst[b].pc = "selected" /\ k \in analyst[b].k)]]
  BY <1>1 DEF UpdatesRow, Merged, TrustTypes
<1> DEFINE m == Merged(report[k], t.row, t.cols)
<1>3. k \in Report /\ Holds(t, k) /\ report[k] \in QueueRow
  BY <1>1 DEF TrustInv, TrustTypes
<1>4. /\ m \in QueueRow /\ m.status # "none"
      /\ ~t.overtaken => m = t.row
  BY <1>1, <1>3, MergedRows DEF Holds
<1> HIDE DEF m
<1>5. report' = [report EXCEPT ![k] = m] /\ mixed \subseteq mixed'
  BY <1>2 DEF m
<1>6. ASSUME NEW b \in Analyst, b # a
      PROVE  /\ analyst'[b] \in Work
             /\ analyst'[b].pc = analyst[b].pc /\ analyst'[b].k = analyst[b].k
             /\ analyst'[b].row = analyst[b].row /\ analyst'[b].cols = analyst[b].cols
             /\ ~analyst'[b].overtaken =>
                  ~analyst[b].overtaken /\ ~(analyst[b].pc = "selected" /\ k \in analyst[b].k)
  <2>1. analyst[b] \in Work
    BY <1>1 DEF TrustTypes
  <2>2. analyst'[b] = [analyst[b] EXCEPT !.overtaken =
                         @ \/ (analyst[b].pc = "selected" /\ k \in analyst[b].k)]
    BY <1>2, <1>6
  <2> QED
    BY <2>1, <2>2 DEF Work
<1>7. analyst'[a] = Waits
  BY <1>2
<1>8. TrustTypes'
  <2>1. report' \in [Report -> QueueRow]
    BY <1>1, <1>4, <1>5 DEF TrustTypes
  <2>2. analyst' \in [Analyst -> Work]
    <3>1. \A b \in Analyst : analyst'[b] \in Work
      BY <1>6, <1>7, FirstRows
    <3> QED
      BY <1>2, <3>1
  <2>3. mixed' \subseteq Report
    BY <1>1, <1>2, <1>3 DEF TrustTypes
  <2> QED
    BY <2>1, <2>2, <2>3 DEF TrustTypes
<1>9. ASSUME NEW j \in (Filed \ mixed)' PROVE Whole(report'[j])
  <2>1. j \in Report /\ j \notin mixed /\ j \notin mixed' /\ report'[j].status # "none"
    BY <1>5 DEF Filed
  <2>2. CASE j = k
    <3>1. ~t.overtaken
      BY <1>2, <2>1, <2>2
    <3>2. report'[k] = t.row
      BY <1>1, <1>3, <1>4, <1>5, <3>1 DEF TrustTypes
    <3> QED
      BY <1>3, <2>1, <2>2, <3>2 DEF Holds
  <2>3. CASE j # k
    <3>1. report'[j] = report[j]
      BY <1>1, <1>5, <2>1, <2>3 DEF TrustTypes
    <3> QED
      BY <2>1, <3>1 DEF TrustInv, Filed
  <2> QED
    BY <2>2, <2>3
<1>10. ASSUME NEW b \in Analyst, analyst'[b].pc # "idle", NEW j \in analyst'[b].k
       PROVE  Holds(analyst[b], j)'
  <2>1. b # a
    BY <1>7, <1>10, FirstRows
  <2>2. Holds(analyst[b], j) /\ j \in Report
    BY <1>1, <1>6, <1>10, <2>1 DEF TrustInv, TrustTypes, Work
  <2>3. report'[j].status # "none"
    BY <1>1, <1>4, <1>5, <2>2 DEF Holds, TrustTypes
  <2>4. j # k => report'[j] = report[j]
    BY <1>1, <1>5, <2>2 DEF TrustTypes
  <2>5. analyst'[b].pc = "selected" /\ ~analyst'[b].overtaken => j # k /\ ~analyst[b].overtaken
    BY <1>6, <1>10, <2>1
  <2> QED
    BY <1>5, <1>6, <2>1, <2>2, <2>3, <2>4, <2>5 DEF Holds
<1> QED
  BY <1>8, <1>9, <1>10 DEF TrustInv

\* A request that ends without writing the row: a suspension, or a failure.
LEMMA EndStep ==
  ASSUME TrustInv, NEW a \in Analyst, SuspendReportedUser(a) \/ RequestFails(a)
  PROVE  TrustInv'
  BY FirstRows, AnalystStep DEF SuspendReportedUser, RequestFails

\* Filing, finding, selecting, updating and failing keep the invariant.
LEMMA TrustStep == TrustInv /\ [TrustNext]_trustVars => TrustInv'
<1> SUFFICES ASSUME TrustInv, [TrustNext]_trustVars PROVE TrustInv'
  OBVIOUS
<1>1. ASSUME NEW k \in Report, NEW s \in Severity, NEW t \in Type, NEW owner, CreateReport(k, s, t, owner)
      PROVE  TrustInv'
  BY <1>1, CreateStep
<1>2. ASSUME NEW a \in Analyst, NEW k \in Report, NEW op \in Outcome \cup {"reassign", "suspend"},
             FindReport(a, k, op)
      PROVE  TrustInv'
  BY <1>2, FindStep
<1>3. ASSUME NEW a \in Analyst,
             SelectsRow(a) \/ UpdatesRow(a) \/ SuspendReportedUser(a) \/ RequestFails(a)
      PROVE  TrustInv'
  BY <1>3, SelectStep, UpdateStep, EndStep
<1>4. CASE UNCHANGED trustVars
  BY <1>4 DEF trustVars, TrustInv, TrustTypes, Filed, Holds
<1> QED
  BY <1>1, <1>2, <1>3, <1>4 DEF TrustNext

\* The invariant of the trust queue: what a request read, and what it will write, is one
\* decision whole, for every report that was not updated inside a save.
THEOREM TrustInvariant == TrustSpec => []TrustInv
<1>1. TrustInv /\ [TrustNext]_trustVars => TrustInv'
  BY TrustStep
<1> QED
  BY <1>1, TrustInitial, PTL DEF TrustSpec

-----------------------------------------------------------------------------
(* The properties                                                          *)

\* A report's row never mixes two decisions, though reassign and resolve write back all
\* they read: the exception is an update between the two statements of a save.
THEOREM ResolvedWhole == TrustSpec => []ResolutionIsWhole
<1>1. TrustInv => ResolutionIsWhole
  BY DEF TrustInv, Whole, ResolutionIsWhole
<1> QED
  BY <1>1, TrustInvariant, PTL

\* Of whole rows, the lists and the counts agree.
LEMMA WholeIsCounted == TrustInv => EveryReportIsCounted
<1> SUFFICES ASSUME TrustInv PROVE EveryReportIsCounted
  OBVIOUS
<1>1. \A k \in Filed : k \in Report /\ report[k].status \in {"resolved"} \cup OpenStatuses
  BY DEF TrustInv, TrustTypes, Filed, QueueRow
<1>2. \A k \in Filed \ mixed : k \in InQueue \cup CasesClosed
  BY <1>1 DEF InQueue, CasesClosed, IsOpen, TrustInv, Whole
<1>3. InQueue \cap CasesClosed = {} /\ EscalatedTile \subseteq InQueue
  BY DEF InQueue, CasesClosed, EscalatedTile, IsOpen, OpenStatuses
<1>4. ASSUME NEW k \in InQueue, "critical" \in Signals(report[k]) PROVE k \in CriticalSignals
  BY <1>4 DEF InQueue, Signals, SeverityFromReport, CriticalSignals
<1>5. ASSUME NEW k \in ActiveAlerts PROVE Signals(report[k]) # {"info"}
  <2>1. report[k].severity \in {"high", "critical"} \/ report[k].status = "escalated"
    BY DEF ActiveAlerts
  <2>2. "critical" \in Signals(report[k]) \/ "warning" \in Signals(report[k])
    BY <2>1 DEF Signals
  <2> QED
    BY <2>2
<1>6. (Upheld \ mixed) \subseteq CasesClosed
  BY DEF Upheld, CasesClosed, TrustInv, Whole
<1>7. ASSUME NEW k \in InQueue
      PROVE  /\ ReportPage(k).corroborating = ReportPage(k).openAgainst \ {k}
             /\ k \notin ReportPage(k).priorViolations
  BY DEF ReportPage, InQueue, IsOpen, OpenStatuses
<1>8. SignalList(TRUE) = {k \in SignalList(FALSE) : SignalStatus(report[k]) # "resolved"}
  BY <1>1 DEF SignalList, SignalStatus, IsOpen, OpenStatuses
<1>9. \A k \in AutomatedActions : SignalStatus(report[k]) \in {"escalated", "resolved"}
  BY DEF AutomatedActions, SignalStatus
<1> QED
  BY <1>2, <1>3, <1>4, <1>5, <1>6, <1>7, <1>8, <1>9 DEF EveryReportIsCounted

\* A report is in the queue or closed and never both; what the list shows as critical, the
\* badge counts; and the alerts, the page of a report and the tile of automated actions
\* use conditions that agree, for any number of reports.
THEOREM ReportsAreCounted == TrustSpec => []EveryReportIsCounted
  BY TrustInvariant, WholeIsCounted, PTL

-----------------------------------------------------------------------------
(* The activity window                                                     *)

FirstBucket == StartOfTruncUtc(window.from, window.size)
LastBucket == StartOfTruncUtc(window.to - 1, window.size)

\* A window that was built is not empty and lies between the bounds.
WindowBuilt ==
  /\ window.from \in Moment /\ window.to \in Moment /\ window.from < window.to
  /\ window.size \in Size

\* Before the cursor, no bucket of the window has been passed over.
NothingSkipped ==
  /\ cursor \in Starts[window.size]
  /\ \A b \in Starts[window.size] : FirstBucket <= b /\ b < cursor => b \in buckets
  /\ \A b \in buckets : b \in Starts[window.size] /\ b <= LastBucket

WindowInv ==
  /\ chart \in {"range", "loop", "done", "refused"}
  /\ now \in Moment
  /\ chart = "range" => buckets = {}
  /\ chart \in {"loop", "done"} => WindowBuilt /\ NothingSkipped
  /\ chart = "done" => ~GoesOn(cursor)

-----------------------------------------------------------------------------
(* The calendar                                                            *)

\* startOfTruncUtc returns the last start at or before a moment.
LEMMA StartOfTruncUtcIsLast ==
  ASSUME NEW size \in Size, NEW t \in Moment
  PROVE  /\ StartOfTruncUtc(t, size) \in Starts[size]
         /\ StartOfTruncUtc(t, size) \in Int
         /\ StartOfTruncUtc(t, size) <= t
         /\ \A r \in Starts[size] : r <= t => r <= StartOfTruncUtc(t, size)
<1>1. \E s \in Starts[size] : s <= t /\ \A r \in Starts[size] : r <= t => r <= s
  BY CalendarAssumption
<1>2. /\ StartOfTruncUtc(t, size) \in Starts[size]
      /\ StartOfTruncUtc(t, size) <= t
      /\ \A r \in Starts[size] : r <= t => r <= StartOfTruncUtc(t, size)
  BY <1>1 DEF StartOfTruncUtc
<1>3. Starts[size] \subseteq Int
  BY CalendarAssumption
<1> QED
  BY <1>2, <1>3

\* addTruncUtc returns the next start: there is none between.
LEMMA AddTruncUtcIsNext ==
  ASSUME NEW size \in Size, NEW c \in Starts[size], NEW t \in Moment, c <= t
  PROVE  /\ AddTruncUtc(c, size) \in Starts[size]
         /\ AddTruncUtc(c, size) > c
         /\ \A r \in Starts[size] : r > c => r >= AddTruncUtc(c, size)
<1>1. \E s \in Starts[size] : s > c /\ \A r \in Starts[size] : r > c => r >= s
  BY CalendarAssumption
<1> QED
  BY <1>1 DEF AddTruncUtc

\* The last moment of a window is a moment, and so its last bucket is a start.
LEMMA LastBucketOfWindow ==
  ASSUME WindowBuilt
  PROVE  /\ window.to - 1 \in Moment
         /\ LastBucket \in Starts[window.size] /\ LastBucket \in Int
         /\ LastBucket < window.to
<1>1. window.to - 1 \in Moment
  BY CalendarAssumption DEF WindowBuilt, Moment
<1>2. window.to \in Int /\ window.size \in Size
  BY CalendarAssumption DEF WindowBuilt, Moment
<1> QED
  BY <1>1, <1>2, StartOfTruncUtcIsLast DEF LastBucket

-----------------------------------------------------------------------------
(* Invariance                                                              *)

\* Before a window is built, nothing is listed.
LEMMA WindowInitial == WindowInit => WindowInv
  BY DEF WindowInit, WindowInv

\* A window is built with the cursor on its first bucket, so nothing lies before it.
LEMMA BuildsWindow ==
  ASSUME WindowInv, NEW from \in Moment, NEW to \in Moment, BuildWindow(from, to)
  PROVE  WindowInv'
<1>1. CASE from >= to
  BY <1>1 DEF BuildWindow, WindowInv
<1>2. CASE ~(from >= to)
  <2> DEFINE size == TruncOf(to - from)
  <2>1. /\ window' = [from |-> from, to |-> to, size |-> size]
        /\ cursor' = StartOfTruncUtc(from, size)
        /\ chart' = "loop" /\ now' = now /\ buckets' = {}
    BY <1>2 DEF BuildWindow, WindowInv
  <2>2. window'.from = from /\ window'.to = to /\ window'.size = size
    BY <2>1
  <2>3. size \in Size
    BY CalendarAssumption
  <2>4. from \in Int /\ to \in Int /\ from < to
    BY <1>2, CalendarAssumption DEF Moment
  <2>5. WindowBuilt'
    BY <2>2, <2>3, <2>4 DEF WindowBuilt
  <2>6. cursor' = FirstBucket' /\ FirstBucket' \in Starts[size]
    BY <2>1, <2>2, <2>3, StartOfTruncUtcIsLast DEF FirstBucket
  <2>7. Starts[size] \subseteq Int
    BY <2>3, CalendarAssumption
  <2>8. NothingSkipped'
    BY <2>1, <2>2, <2>6, <2>7 DEF NothingSkipped
  <2> QED
    BY <2>1, <2>5, <2>8 DEF WindowInv
<1> QED
  BY <1>1, <1>2

\* A round takes the bucket under the cursor and goes to the next: none lies between.
LEMMA Round == ASSUME WindowInv, BuildSeriesBuckets PROVE WindowInv'
<1> DEFINE size == window.size
<1>1. /\ chart = "loop" /\ window' = window /\ now' = now
      /\ WindowBuilt /\ NothingSkipped /\ now \in Moment
  BY DEF BuildSeriesBuckets, WindowInv
<1>2. FirstBucket' = FirstBucket /\ LastBucket' = LastBucket /\ WindowBuilt'
  BY <1>1 DEF FirstBucket, LastBucket, WindowBuilt
<1>3. size \in Size /\ Starts[size] \subseteq Int /\ cursor \in Starts[size]
  BY <1>1, CalendarAssumption DEF WindowBuilt, NothingSkipped
<1>4. CASE GoesOn(cursor)
  <2>1. buckets' = buckets \cup {cursor} /\ cursor' = AddTruncUtc(cursor, size) /\ chart' = "loop"
    BY <1>1, <1>4 DEF BuildSeriesBuckets
  <2>2. cursor <= LastBucket
    BY <1>4 DEF GoesOn, LastBucket
  <2>3. cursor <= window.to - 1 /\ window.to - 1 \in Moment
    <3>1. window.to \in Int /\ window.to - 1 \in Moment /\ LastBucket \in Int /\ LastBucket < window.to
      BY <1>1, LastBucketOfWindow, CalendarAssumption DEF WindowBuilt, Moment
    <3> QED
      BY <1>3, <2>2, <3>1
  <2>4. /\ AddTruncUtc(cursor, size) \in Starts[size]
        /\ \A r \in Starts[size] : r > cursor => r >= AddTruncUtc(cursor, size)
    BY <1>3, <2>3, AddTruncUtcIsNext
  <2>5. \A b \in Starts[size] : FirstBucket <= b /\ b < cursor' => b \in buckets'
    <3>1. ASSUME NEW b \in Starts[size], FirstBucket <= b, b < cursor' PROVE b \in buckets'
      <4>1. b <= cursor
        BY <1>3, <2>1, <2>4, <3>1
      <4> QED
        BY <1>1, <1>3, <2>1, <3>1, <4>1 DEF NothingSkipped
    <3> QED
      BY <3>1
  <2>6. NothingSkipped'
    BY <1>1, <1>2, <1>3, <2>1, <2>2, <2>4, <2>5 DEF NothingSkipped
  <2> QED
    BY <1>1, <1>2, <2>1, <2>6 DEF WindowInv
<1>5. CASE ~GoesOn(cursor)
  <2>1. chart' = "done" /\ buckets' = buckets /\ cursor' = cursor
    BY <1>1, <1>5 DEF BuildSeriesBuckets
  <2>2. NothingSkipped' /\ ~GoesOn(cursor)'
    BY <1>1, <1>2, <1>5, <2>1 DEF NothingSkipped, GoesOn
  <2> QED
    BY <1>1, <1>2, <2>1, <2>2 DEF WindowInv
<1> QED
  BY <1>4, <1>5

\* Building a window and every round of the loop keep the invariant.
LEMMA WindowStep == WindowInv /\ [WindowNext]_windowVars => WindowInv'
<1> SUFFICES ASSUME WindowInv, [WindowNext]_windowVars PROVE WindowInv'
  OBVIOUS
<1>1. CASE Preset
  BY <1>1, BuildsWindow DEF Preset, WindowInv
<1>2. CASE BuildSeriesBuckets
  BY <1>2, Round
<1>3. ASSUME NEW from \in Moment, NEW to \in Moment, BuildCustomWindow(from, to) PROVE WindowInv'
  BY <1>3, BuildsWindow DEF BuildCustomWindow
<1>4. ASSUME NEW earliest \in Moment, BuildAllTimeWindow(earliest) PROVE WindowInv'
  BY <1>4, BuildsWindow DEF BuildAllTimeWindow, WindowInv
<1>5. CASE UNCHANGED windowVars
  BY <1>5 DEF windowVars, WindowInv, WindowBuilt, NothingSkipped, FirstBucket, LastBucket, GoesOn
<1> QED
  BY <1>1, <1>2, <1>3, <1>4, <1>5 DEF WindowNext

\* The loop is over when the cursor is past the last bucket, and every moment of the window
\* is in a bucket from the first to the last.
LEMMA CoversWhenDone == WindowInv => SeriesCoversWindow
<1> SUFFICES ASSUME WindowInv, chart = "done"
             PROVE  /\ \A t \in Moment : window.from <= t /\ t < window.to =>
                         StartOfTruncUtc(t, window.size) \in buckets
                    /\ \A b \in buckets : b < window.to
  BY DEF SeriesCoversWindow
<1>1. WindowBuilt /\ NothingSkipped /\ ~(cursor <= LastBucket)
  BY DEF WindowInv, GoesOn, LastBucket
<1>2. /\ window.size \in Size /\ Starts[window.size] \subseteq Int
      /\ cursor \in Int /\ window.from \in Int /\ window.to \in Int /\ window.from \in Moment
  BY <1>1, CalendarAssumption DEF WindowBuilt, NothingSkipped, Moment
<1>3. /\ window.to - 1 \in Moment /\ LastBucket \in Int /\ LastBucket < window.to
  BY <1>1, LastBucketOfWindow
<1>4. ASSUME NEW t \in Moment, window.from <= t, t < window.to
      PROVE  StartOfTruncUtc(t, window.size) \in buckets
  <2> DEFINE b == StartOfTruncUtc(t, window.size)
  <2>1. b \in Starts[window.size] /\ b \in Int /\ b <= t /\ t \in Int
    BY <1>2, StartOfTruncUtcIsLast, CalendarAssumption DEF Moment
  <2>2. FirstBucket <= b
    <3>1. FirstBucket \in Starts[window.size] /\ FirstBucket <= window.from
      BY <1>2, StartOfTruncUtcIsLast DEF FirstBucket
    <3>2. FirstBucket \in Int /\ FirstBucket <= t
      BY <1>2, <1>4, <2>1, <3>1
    <3> QED
      BY <1>2, <3>1, <3>2, StartOfTruncUtcIsLast
  <2>3. b <= LastBucket
    <3>1. b <= window.to - 1
      BY <1>2, <1>4, <2>1
    <3> QED
      BY <1>2, <1>3, <2>1, <3>1, StartOfTruncUtcIsLast DEF LastBucket
  <2>4. b < cursor
    BY <1>1, <1>2, <1>3, <2>1, <2>3
  <2> QED
    BY <1>1, <2>1, <2>2, <2>4 DEF NothingSkipped
<1>5. \A b \in buckets : b < window.to
  BY <1>1, <1>2, <1>3 DEF NothingSkipped
<1> QED
  BY <1>4, <1>5

-----------------------------------------------------------------------------
\* The chart covers its window: whatever the distances between bucket starts and however
\* long the window, what the database counts in it has its point on the chart, and no
\* point lies at or behind the end.
THEOREM ChartCovers == WindowSpec => []SeriesCoversWindow
<1>1. WindowInv /\ [WindowNext]_windowVars => WindowInv'
  BY WindowStep
<1> QED
  BY <1>1, WindowInitial, CoversWhenDone, PTL DEF WindowSpec

-----------------------------------------------------------------------------
(* The review of texts                                                     *)

Hand == [pc : {"idle", "edit", "listed", "approve", "reject"}, row : Row, heading : Text \cup {0},
         body : Text \cup {0}, status : Verdict, seen : SUBSET Text, late : BOOLEAN]

ReviewTypes ==
  /\ kind \in {"post", "bio", "pair"} /\ content \in Row
  /\ cleared \subseteq Text /\ unread \subseteq Text
  /\ desk \in [Desk -> Hand] /\ undone \in BOOLEAN

\* Let through, approved, or published unread.
Cleared(t) == t \in cleared \cup unread \cup {0}

\* A post or a bio has a body only.
SinglesHold ==
  kind # "pair" => /\ content.heading = 0 /\ ~content.pays
                   /\ \A d \in Desk : /\ desk[d].heading = 0 /\ desk[d].row.heading = 0
                                      /\ ~desk[d].row.pays

\* The row, and what requests have read of it.
Reading == {"edit", "approve", "reject"}
RowsRead == {content} \cup {desk[d].row : d \in {c \in Desk : desk[c].pc \in Reading}}

\* The body of an ad or a thought is there, and in its payload too.
Stands(r) == kind = "pair" => r.body # 0 /\ (r.pays => r.payBody # 0)

\* An approval may leave the heading as it is only when a request read a row without one:
\* the headings of today were put there by an edit, and cleared.
Blank(r) == r.heading = 0 \/ (r.pays /\ r.payHeading = 0)
HeadingsHold ==
  (\E r \in RowsRead : Blank(r)) => \A r \in RowsRead : Cleared(r.heading)

\* What a desk is about to publish was cleared.
HandHolds(e) ==
  /\ e.pc = "edit" /\ e.status # "pending" => Cleared(e.heading) /\ Cleared(e.body)
  /\ e.pc = "approve" => Cleared(Approved(e.row).heading) /\ Cleared(Approved(e.row).body)

\* So was the part of an ad or a thought that an edit leaves as it is.
PartsHold(e) ==
  kind = "pair" /\ ~undone /\ e.pc = "edit" /\ e.status # "pending" =>
    /\ e.heading = 0 => Cleared(content.heading)
    /\ e.body = 0 => Cleared(content.body)

\* A row that is still pending is as it was listed, or the listing is known to be late.
ListingHolds(e) ==
  e.pc = "listed" /\ ~e.late /\ content.status = "pending" => Listed(content) \subseteq e.seen

PublicHolds ==
  (kind = "pair" => ~undone) /\ Public(content.status) =>
    Cleared(content.heading) /\ Cleared(content.body)

DeskHolds(e) == HandHolds(e) /\ PartsHold(e) /\ ListingHolds(e)

ReviewInv ==
  /\ ReviewTypes /\ SinglesHold /\ PublicHolds /\ HeadingsHold
  /\ \A r \in RowsRead : Stands(r)
  /\ \A d \in Desk : DeskHolds(desk[d])

LEMMA VacantHand ==
  /\ Vacant \in Hand /\ Vacant.pc = "idle" /\ Vacant.heading = 0 /\ Vacant.body = 0
  /\ Vacant.status = "skipped" /\ Vacant.row = NoText /\ Vacant.late = FALSE
  /\ NoText \in Row /\ NoText.heading = 0 /\ NoText.body = 0 /\ NoText.pays = FALSE
  /\ NoText.status = "skipped"
  BY DEF Vacant, NoText, Hand, Row, Verdict

\* The entity an approval saves.
LEMMA ApprovedRow ==
  ASSUME NEW r \in Row
  PROVE  /\ Approved(r) \in Row /\ Approved(r).status = "passed"
         /\ Approved(r).pays = r.pays /\ Approved(r).payHeading = r.payHeading
         /\ Approved(r).payBody = r.payBody
         /\ Approved(r).heading = IF r.pays /\ r.payHeading # 0 THEN r.payHeading ELSE r.heading
         /\ Approved(r).body = IF r.pays /\ r.payBody # 0 THEN r.payBody
                               ELSE IF r.waits # 0 THEN r.waits ELSE r.body
<1> DEFINE h == IF r.pays THEN Or(r.payHeading, r.heading) ELSE r.heading
           b == IF r.pays /\ r.payBody # 0 THEN r.payBody ELSE Or(r.waits, r.body)
<1>1. h \in Text \cup {0} /\ b \in Text \cup {0}
  BY DEF Row, Or
<1>2. Approved(r) = [r EXCEPT !.heading = h, !.body = b, !.status = "passed"]
  BY DEF Approved
<1>3. /\ h = IF r.pays /\ r.payHeading # 0 THEN r.payHeading ELSE r.heading
      /\ b = IF r.pays /\ r.payBody # 0 THEN r.payBody
             ELSE IF r.waits # 0 THEN r.waits ELSE r.body
  BY DEF Or, Row
<1> HIDE DEF h, b
<1>4. /\ Approved(r) \in Row /\ Approved(r).status = "passed"
      /\ Approved(r).pays = r.pays /\ Approved(r).payHeading = r.payHeading
      /\ Approved(r).payBody = r.payBody
      /\ Approved(r).heading = h /\ Approved(r).body = b
  BY <1>1, <1>2 DEF Row
<1> QED
  BY <1>3, <1>4

\* Whatever an approval of the row would publish is listed, or was cleared before.
LEMMA ApprovalIsListed ==
  ASSUME ReviewInv
  PROVE  \A t \in {Approved(content).heading, Approved(content).body} :
           t \in Listed(content) \/ Cleared(t)
<1>1. ReviewTypes /\ SinglesHold /\ HeadingsHold /\ content \in RowsRead
  BY DEF ReviewInv, RowsRead
<1>2. PICK r \in Row : r = content
  BY <1>1 DEF ReviewTypes
<1>3. Stands(r)
  BY <1>1, <1>2 DEF ReviewInv
<1>4. Blank(r) => Cleared(r.heading)
  BY <1>1, <1>2 DEF HeadingsHold
<1>5. \A t \in Text : t \in Listed(r) <=>
        \/ t = (IF r.waits = 0 THEN r.body ELSE r.waits)
        \/ r.pays /\ t \in {r.payHeading, r.payBody}
        \/ ~r.pays /\ kind = "pair" /\ t \in {r.heading, r.body}
  BY ReviewAssumption DEF Listed, Or
<1>6. r.heading \in Text \cup {0} /\ r.body \in Text \cup {0} /\ r.waits \in Text \cup {0}
      /\ r.payHeading \in Text \cup {0} /\ r.payBody \in Text \cup {0} /\ r.pays \in BOOLEAN
  BY DEF Row
<1>7. Cleared(0)
  BY DEF Cleared
<1>8. kind # "pair" => r.heading = 0 /\ ~r.pays
  BY <1>1, <1>2 DEF SinglesHold
<1> DEFINE h == IF r.pays /\ r.payHeading # 0 THEN r.payHeading ELSE r.heading
           b == IF r.pays /\ r.payBody # 0 THEN r.payBody
                ELSE IF r.waits # 0 THEN r.waits ELSE r.body
<1>9. h \in Listed(r) \/ Cleared(h)
  <2>1. CASE r.pays /\ r.payHeading # 0
    BY <1>5, <1>6, <2>1
  <2>2. CASE r.pays /\ r.payHeading = 0
    BY <1>4, <2>2 DEF Blank
  <2>3. CASE ~r.pays /\ kind = "pair"
    BY <1>5, <1>6, <1>7, <2>3
  <2>4. CASE ~r.pays /\ kind # "pair"
    BY <1>7, <1>8, <2>4
  <2> QED
    BY <1>6, <2>1, <2>2, <2>3, <2>4
<1>10. b \in Listed(r) \/ Cleared(b)
  <2>1. CASE r.pays /\ r.payBody # 0
    BY <1>5, <1>6, <2>1
  <2>2. CASE ~(r.pays /\ r.payBody # 0)
    <3>1. b = 0 \/ (b \in Text /\ b = IF r.waits = 0 THEN r.body ELSE r.waits)
      BY <1>6, <2>2
    <3> HIDE DEF b
    <3> QED
      BY <1>5, <1>7, <3>1
  <2> QED
    BY <2>1, <2>2
<1> QED
  BY <1>2, <1>9, <1>10, ApprovedRow

\* The row a creation writes.
LEMMA CreatedRow ==
  ASSUME NEW h \in Text \cup {0}, NEW b \in Text, NEW v \in Verdict
  PROVE  /\ \E x \in Row : /\ x = CreatedPair(h, b, v) /\ x.heading = h /\ x.body = b
                           /\ x.status = v /\ ~x.pays
         /\ \E x \in Row : /\ x = CreatedSingle(b, v) /\ x.heading = 0 /\ x.body = b
                           /\ x.status = v /\ ~x.pays
<1> DEFINE p == [NoText EXCEPT !.heading = h, !.body = b, !.status = v]
           s == [NoText EXCEPT !.body = b, !.status = v]
<1>1. p \in Row /\ p.heading = h /\ p.body = b /\ p.status = v /\ ~p.pays
  BY VacantHand DEF Row, Verdict
<1>2. s \in Row /\ s.heading = 0 /\ s.body = b /\ s.status = v /\ ~s.pays
  BY VacantHand DEF Row, Verdict
<1>3. CreatedPair(h, b, v) = p /\ CreatedSingle(b, v) = s
  BY DEF CreatedPair, CreatedSingle
<1> HIDE DEF p, s
<1> QED
  BY <1>1, <1>2, <1>3

LEMMA ReviewInitial == ReviewInit => ReviewInv
<1> SUFFICES ASSUME ReviewInit PROVE ReviewInv
  OBVIOUS
<1>1. /\ kind \in {"post", "bio", "pair"} /\ content \in Row /\ cleared \subseteq Text
      /\ ~content.pays
      /\ kind # "pair" => content.heading = 0
      /\ kind = "pair" => content.body # 0
      /\ Public(content.status) =>
           content.heading \in cleared \cup {0} /\ content.body \in cleared \cup {0}
  <2>1. CASE kind = "bio" /\ content = NoText /\ cleared = {}
    BY <2>1, VacantHand
  <2>2. CASE ~(kind = "bio" /\ content = NoText /\ cleared = {})
    <3>1. PICK h \in Text \cup {0}, b \in Text, v \in Verdict :
            /\ \/ kind = "post" /\ h = 0 /\ content = CreatedSingle(b, v)
               \/ kind = "pair" /\ content = CreatedPair(h, b, v)
            /\ cleared = IF v = "pending" THEN {} ELSE {h, b} \ {0}
      BY <2>2 DEF ReviewInit
    <3>2. PICK p \in Row : /\ p = CreatedPair(h, b, v) /\ p.heading = h /\ p.body = b
                           /\ p.status = v /\ ~p.pays
      BY CreatedRow
    <3>3. PICK x \in Row : /\ x = CreatedSingle(b, v) /\ x.heading = 0 /\ x.body = b
                           /\ x.status = v /\ ~x.pays
      BY CreatedRow
    <3>4. /\ content \in Row /\ content.heading = h /\ content.body = b /\ content.status = v
          /\ ~content.pays
      BY <3>1, <3>2, <3>3
    <3> QED
      BY <3>1, <3>4, ReviewAssumption DEF Public
  <2> QED
    BY <2>1, <2>2
<1>2. desk = [d \in Desk |-> Vacant] /\ undone = FALSE /\ unread = {}
  BY DEF ReviewInit
<1>3. ReviewTypes
  BY <1>1, <1>2, VacantHand DEF ReviewTypes
<1>4. SinglesHold
  BY <1>1, <1>2, VacantHand DEF SinglesHold
<1>5. PublicHolds
  BY <1>1, <1>2 DEF PublicHolds, Cleared
<1>6. RowsRead = {content}
  BY <1>2, VacantHand DEF RowsRead, Reading
<1>7. HeadingsHold
  BY <1>1, <1>6 DEF HeadingsHold, Blank, Cleared
<1>8. \A r \in RowsRead : Stands(r)
  BY <1>1, <1>6 DEF Stands
<1>9. \A d \in Desk : DeskHolds(desk[d])
  BY <1>2, VacantHand DEF DeskHolds, HandHolds, PartsHold, ListingHolds
<1> QED
  BY <1>3, <1>4, <1>5, <1>7, <1>8, <1>9 DEF ReviewInv

\* An owner who reads the row and has the next texts evaluated, and an administrator who
\* lists it or reads it for a verdict.
LEMMA TakeStep ==
  ASSUME ReviewInv, NEW d \in Desk, NEW n \in Hand, desk' = [desk EXCEPT ![d] = n],
         UNCHANGED <<kind, content, undone>>,
         cleared \subseteq cleared', cleared' \subseteq Text,
         unread \subseteq unread', unread' \subseteq Text,
         n.pc \in Reading => n.row = content,
         kind # "pair" => n.heading = 0 /\ n.row.heading = 0 /\ ~n.row.pays,
         DeskHolds(n)'
  PROVE  ReviewInv'
<1>1. ReviewTypes /\ SinglesHold /\ PublicHolds /\ HeadingsHold
  BY DEF ReviewInv
<1>2. \A c \in Desk : desk'[c] = IF c = d THEN n ELSE desk[c]
  BY <1>1 DEF ReviewTypes
<1>3. \A t : Cleared(t) => Cleared(t)'
  BY DEF Cleared
<1>4. \A e : DeskHolds(e) => DeskHolds(e)'
  <2>1. \A e : HandHolds(e) => HandHolds(e)'
    BY <1>3 DEF HandHolds
  <2>2. \A e : PartsHold(e) => PartsHold(e)'
    BY <1>3 DEF PartsHold
  <2>3. \A e : ListingHolds(e) => ListingHolds(e)'
    BY DEF ListingHolds, Listed
  <2> QED
    BY <2>1, <2>2, <2>3 DEF DeskHolds
<1>5. ReviewTypes'
  BY <1>1, <1>2 DEF ReviewTypes
<1>6. SinglesHold'
  BY <1>1, <1>2 DEF SinglesHold
<1>7. PublicHolds'
  BY <1>1, <1>3 DEF PublicHolds
<1>8. RowsRead' \subseteq RowsRead /\ content \in RowsRead
  BY <1>2 DEF RowsRead
<1>9. HeadingsHold'
  <2>1. \A r : Blank(r) <=> Blank(r)'
    BY DEF Blank
  <2> QED
    BY <1>1, <1>3, <1>8, <2>1 DEF HeadingsHold
<1>10. \A r \in RowsRead' : Stands(r)'
  BY <1>8 DEF ReviewInv, Stands
<1>11. ASSUME NEW c \in Desk PROVE DeskHolds(desk[c])'
  <2>1. PICK e \in Hand : e = desk'[c]
    BY <1>5 DEF ReviewTypes
  <2>2. DeskHolds(e)'
    BY <1>2, <1>4, <2>1 DEF ReviewInv
  <2> QED
    BY <2>1, <2>2 DEF DeskHolds, HandHolds, PartsHold, ListingHolds
<1> QED
  BY <1>5, <1>6, <1>7, <1>9, <1>10, <1>11 DEF ReviewInv

LEMMA EditStep ==
  ASSUME ReviewInv, NEW d \in Desk, NEW h \in Text \cup {0}, NEW b \in Text \cup {0},
         NEW v \in Verdict, Edit(d, h, b, v)
  PROVE  ReviewInv'
<1> DEFINE more == {h, b, IF h = 0 THEN content.heading ELSE h,
                    IF b = 0 THEN content.body ELSE b} \ {0}
<1>1. ReviewTypes /\ SinglesHold
  BY DEF ReviewInv
<1>2. PICK r \in Row : r = content
  BY <1>1 DEF ReviewTypes
<1>3. PICK n \in Hand :
        /\ n = [Vacant EXCEPT !.pc = "edit", !.row = content, !.heading = h, !.body = b,
                              !.status = v]
        /\ n.pc = "edit" /\ n.row = r /\ n.heading = h /\ n.body = b /\ n.status = v
  <2> DEFINE n == [Vacant EXCEPT !.pc = "edit", !.row = r, !.heading = h, !.body = b,
                                 !.status = v]
  <2>1. /\ n \in Hand /\ n.pc = "edit" /\ n.row = r /\ n.heading = h /\ n.body = b
        /\ n.status = v
    BY VacantHand DEF Hand
  <2> QED
    BY <1>2, <2>1
<1>4. /\ desk' = [desk EXCEPT ![d] = n] /\ UNCHANGED <<kind, content, unread, undone>>
      /\ cleared' = IF v = "pending" THEN cleared ELSE cleared \cup more
      /\ kind # "pair" => h = 0
  BY <1>3 DEF Edit
<1>5. v # "pending" => /\ Cleared(h)' /\ Cleared(b)'
                       /\ h = 0 => Cleared(content.heading)'
                       /\ b = 0 => Cleared(content.body)'
  BY <1>4 DEF Cleared
<1>6. cleared \subseteq cleared' /\ cleared' \subseteq Text
  BY <1>1, <1>2, <1>4 DEF ReviewTypes, Row
<1>7. kind # "pair" => n.heading = 0 /\ n.row.heading = 0 /\ ~n.row.pays
  BY <1>1, <1>2, <1>3, <1>4 DEF SinglesHold
<1>8. DeskHolds(n)'
  <2>1. HandHolds(n)'
    BY <1>3, <1>5 DEF HandHolds
  <2>2. PartsHold(n)'
    BY <1>3, <1>5 DEF PartsHold
  <2>3. ListingHolds(n)'
    BY <1>3 DEF ListingHolds
  <2> QED
    BY <2>1, <2>2, <2>3 DEF DeskHolds
<1> HIDE DEF more
<1> QED
  BY <1>1, <1>2, <1>3, <1>4, <1>6, <1>7, <1>8, TakeStep DEF ReviewTypes

LEMMA ListStep ==
  ASSUME ReviewInv, NEW d \in Desk, List(d)
  PROVE  ReviewInv'
<1>1. ReviewTypes /\ SinglesHold
  BY DEF ReviewInv
<1>2. PICK m \in SUBSET Text : m = Listed(content)
  BY <1>1 DEF ReviewTypes, Listed, Or, Row
<1>3. PICK n \in Hand :
        /\ n = [Vacant EXCEPT !.pc = "listed", !.seen = m]
        /\ n.pc = "listed" /\ n.seen = m /\ n.heading = 0 /\ n.row = NoText
  <2> DEFINE n == [Vacant EXCEPT !.pc = "listed", !.seen = m]
  <2>1. n \in Hand /\ n.pc = "listed" /\ n.seen = m /\ n.heading = 0 /\ n.row = NoText
    BY VacantHand DEF Hand
  <2> QED
    BY <2>1
<1>4. desk' = [desk EXCEPT ![d] = n] /\ UNCHANGED <<kind, content, cleared, unread, undone>>
  BY <1>2, <1>3 DEF List
<1>5. DeskHolds(n)'
  <2>1. ListingHolds(n)'
    BY <1>2, <1>3, <1>4 DEF ListingHolds, Listed
  <2> QED
    BY <1>3, <2>1 DEF DeskHolds, HandHolds, PartsHold
<1>6. n.pc \notin Reading
  BY <1>3 DEF Reading
<1> QED
  BY <1>1, <1>3, <1>4, <1>5, <1>6, VacantHand, TakeStep DEF ReviewTypes

\* What the approval is about to publish is in a listing that still stands, or goes down
\* as unread.
LEMMA ReviewStep ==
  ASSUME ReviewInv, NEW d \in Desk, NEW v \in {"approve", "reject"}, Review(d, v)
  PROVE  ReviewInv'
<1>1. ReviewTypes /\ SinglesHold /\ DeskHolds(desk[d])
  BY DEF ReviewInv
<1>2. PICK r \in Row : r = content
  BY <1>1 DEF ReviewTypes
<1>3. PICK n \in Hand :
        /\ n = [Vacant EXCEPT !.pc = v, !.row = content]
        /\ n.pc = v /\ n.row = r /\ n.heading = 0
  <2> DEFINE n == [Vacant EXCEPT !.pc = v, !.row = r]
  <2>1. n \in Hand /\ n.pc = v /\ n.row = r /\ n.heading = 0
    BY VacantHand DEF Hand
  <2> QED
    BY <1>2, <2>1
<1>4. /\ desk[d].pc = "listed"
      /\ v = "approve" => content.status = "pending"
      /\ desk' = [desk EXCEPT ![d] = n] /\ UNCHANGED <<kind, content, undone>>
      /\ cleared' = IF v = "approve" THEN cleared \cup desk[d].seen ELSE cleared
      /\ unread' = IF v = "approve" /\ desk[d].late
                   THEN unread \cup ({Approved(content).heading, Approved(content).body} \ {0})
                   ELSE unread
  BY <1>3 DEF Review
<1>5. /\ Approved(r).heading \in Text \cup {0} /\ Approved(r).body \in Text \cup {0}
      /\ desk[d].seen \subseteq Text /\ desk[d].late \in BOOLEAN
  <2>1. Approved(r) \in Row
    BY ApprovedRow
  <2>2. \A q \in Row : q.heading \in Text \cup {0} /\ q.body \in Text \cup {0}
    BY DEF Row
  <2>3. desk[d] \in Hand
    BY <1>1 DEF ReviewTypes
  <2>4. \A e \in Hand : e.seen \subseteq Text /\ e.late \in BOOLEAN
    BY DEF Hand
  <2> QED
    BY <2>1, <2>2, <2>3, <2>4
<1>6. /\ cleared \subseteq cleared' /\ cleared' \subseteq Text
      /\ unread \subseteq unread' /\ unread' \subseteq Text
  BY <1>1, <1>2, <1>4, <1>5 DEF ReviewTypes
<1>7. kind # "pair" => n.heading = 0 /\ n.row.heading = 0 /\ ~n.row.pays
  BY <1>1, <1>2, <1>3 DEF SinglesHold
<1>8. ASSUME v = "approve" PROVE Cleared(Approved(r).heading)' /\ Cleared(Approved(r).body)'
  <2>1. CASE desk[d].late
    BY <1>2, <1>4, <1>8, <2>1 DEF Cleared
  <2>2. CASE ~desk[d].late
    <3>1. Listed(content) \subseteq cleared'
      BY <1>1, <1>4, <1>8, <2>2 DEF DeskHolds, ListingHolds
    <3>2. \A t : t \in Listed(content) \/ Cleared(t) => Cleared(t)'
      BY <1>6, <3>1 DEF Cleared
    <3> QED
      BY <1>2, <3>2, ApprovalIsListed
  <2> QED
    BY <1>5, <2>1, <2>2
<1>9. DeskHolds(n)'
  <2>1. HandHolds(n)'
    BY <1>3, <1>8 DEF HandHolds, Cleared
  <2>2. PartsHold(n)' /\ ListingHolds(n)'
    BY <1>3 DEF PartsHold, ListingHolds
  <2> QED
    BY <2>1, <2>2 DEF DeskHolds
<1> QED
  BY <1>2, <1>3, <1>4, <1>6, <1>7, <1>9, TakeStep

\* A desk that writes the row c: what it makes public was cleared, and a part that is not
\* was neither before, unless a rejection was saved over an edit.
LEMMA PutsStep ==
  ASSUME ReviewInv, NEW d \in Desk, NEW c \in Row, content' = c, NEW held \in BOOLEAN,
         desk' = [t \in Desk |-> IF t = d THEN Vacant
                                 ELSE IF held THEN Replaced(desk[t]) ELSE desk[t]],
         c.status = "pending" => held,
         UNCHANGED <<kind, cleared, unread>>, undone' \in BOOLEAN, undone => undone',
         kind # "pair" => c.heading = 0 /\ ~c.pays,
         Stands(c), Blank(c) => \E r \in RowsRead : Blank(r),
         (\E r \in RowsRead : Blank(r)) => Cleared(c.heading),
         kind = "pair" /\ ~undone' => /\ Cleared(content.heading) => Cleared(c.heading)
                                      /\ Cleared(content.body) => Cleared(c.body),
         (kind = "pair" => ~undone') /\ Public(c.status) => Cleared(c.heading) /\ Cleared(c.body)
  PROVE  ReviewInv'
<1>1. ReviewTypes /\ SinglesHold /\ HeadingsHold
  BY DEF ReviewInv
<1>2. \A e \in Hand : /\ Replaced(e) \in Hand
                      /\ Replaced(e).pc = e.pc /\ Replaced(e).row = e.row
                      /\ Replaced(e).heading = e.heading /\ Replaced(e).body = e.body
                      /\ Replaced(e).status = e.status
                      /\ e.pc = "listed" => Replaced(e).late
  <2> TAKE e \in Hand
  <2> DEFINE l == [e EXCEPT !.seen = {}, !.late = TRUE]
  <2>1. /\ l \in Hand /\ l.pc = e.pc /\ l.row = e.row /\ l.heading = e.heading
        /\ l.body = e.body /\ l.status = e.status /\ l.late
    BY DEF Hand
  <2>2. Replaced(e) = IF e.pc = "listed" THEN l ELSE e
    BY DEF Replaced
  <2> HIDE DEF l
  <2> QED
    BY <2>1, <2>2
<1>3. \A t \in Desk : /\ desk'[t] \in Hand
                      /\ t = d => desk'[t] = Vacant
                      /\ t # d => /\ desk'[t].pc = desk[t].pc /\ desk'[t].row = desk[t].row
                                  /\ desk'[t].heading = desk[t].heading
                                  /\ desk'[t].body = desk[t].body
                                  /\ desk'[t].status = desk[t].status
                                  /\ held /\ desk[t].pc = "listed" => desk'[t].late
  <2> SUFFICES ASSUME NEW t \in Desk
               PROVE  /\ desk'[t] \in Hand
                      /\ t = d => desk'[t] = Vacant
                      /\ t # d => /\ desk'[t].pc = desk[t].pc /\ desk'[t].row = desk[t].row
                                  /\ desk'[t].heading = desk[t].heading
                                  /\ desk'[t].body = desk[t].body
                                  /\ desk'[t].status = desk[t].status
                                  /\ held /\ desk[t].pc = "listed" => desk'[t].late
    OBVIOUS
  <2>1. desk[t] \in Hand
    BY <1>1 DEF ReviewTypes
  <2>2. desk'[t] = IF t = d THEN Vacant ELSE IF held THEN Replaced(desk[t]) ELSE desk[t]
    OBVIOUS
  <2>3. t = d => desk'[t] = Vacant
    BY <2>2
  <2>4. t # d /\ held => desk'[t] = Replaced(desk[t])
    BY <2>2
  <2>5. t # d /\ ~held => desk'[t] = desk[t]
    BY <2>2
  <2> QED
    BY <1>2, <2>1, <2>3, <2>4, <2>5, VacantHand
<1>4. \A t : Cleared(t)' <=> Cleared(t)
  BY DEF Cleared
<1>5. ReviewTypes'
  BY <1>1, <1>3 DEF ReviewTypes
<1>6. SinglesHold'
  BY <1>1, <1>3, VacantHand DEF SinglesHold
<1>7. PublicHolds'
  BY <1>4 DEF PublicHolds, Public
<1>8. RowsRead' \subseteq RowsRead \cup {c}
  <2>1. \A t \in Desk : desk'[t].pc \in Reading => t # d
    BY <1>3, VacantHand DEF Reading
  <2> QED
    BY <1>3, <2>1 DEF RowsRead
<1>9. HeadingsHold'
  <2>1. \A r : Blank(r) <=> Blank(r)'
    BY DEF Blank
  <2> QED
    BY <1>1, <1>4, <1>8, <2>1 DEF HeadingsHold
<1>10. \A r \in RowsRead' : Stands(r)'
  BY <1>8 DEF ReviewInv, Stands
<1>11. ASSUME NEW t \in Desk PROVE DeskHolds(desk[t])'
  <2>1. PICK e \in Hand : e = desk'[t]
    BY <1>3
  <2>2. HandHolds(e) /\ PartsHold(e)
    <3>1. CASE t = d
      BY <1>3, <2>1, <3>1, VacantHand DEF HandHolds, PartsHold
    <3>2. CASE t # d
      <4>1. HandHolds(desk[t]) /\ PartsHold(desk[t])
        BY DEF ReviewInv, DeskHolds
      <4> QED
        BY <1>3, <2>1, <3>2, <4>1 DEF HandHolds, PartsHold
    <3> QED
      BY <3>1, <3>2
  <2>3. HandHolds(e)'
    BY <1>4, <2>2 DEF HandHolds
  <2>4. PartsHold(e)'
    BY <1>4, <2>2 DEF PartsHold
  <2>5. ListingHolds(e)'
    <3>1. SUFFICES ASSUME e.pc = "listed", ~e.late, c.status = "pending" PROVE FALSE
      BY DEF ListingHolds
    <3>2. t # d
      BY <1>3, <2>1, <3>1, VacantHand
    <3> QED
      BY <1>3, <2>1, <3>1, <3>2
  <2> QED
    BY <2>1, <2>3, <2>4, <2>5 DEF DeskHolds, HandHolds, PartsHold, ListingHolds
<1> QED
  BY <1>5, <1>6, <1>7, <1>9, <1>10, <1>11 DEF ReviewInv

\* An edit is written: its own texts, and what the row has now of the other.
LEMMA EditWritesStep ==
  ASSUME ReviewInv, NEW d \in Desk, EditWrites(d)
  PROVE  ReviewInv'
<1>1. ReviewTypes /\ SinglesHold /\ HeadingsHold /\ HandHolds(desk[d]) /\ PartsHold(desk[d])
  BY DEF ReviewInv, DeskHolds
<1>2. PICK e \in Hand : e = desk[d]
  BY <1>1 DEF ReviewTypes
<1>3. PICK r \in Row : r = content
  BY <1>1 DEF ReviewTypes
<1>4. /\ e.pc = "edit" /\ e.row \in Row /\ e.status \in Verdict
      /\ e.heading \in Text \cup {0} /\ e.body \in Text \cup {0}
      /\ kind # "pair" => e.heading = 0 /\ e.row.heading = 0 /\ r.heading = 0 /\ ~r.pays
  BY <1>1, <1>2, <1>3 DEF EditWrites, Hand, SinglesHold
<1>5. PICK q \in Row : q = e.row
  BY <1>4
<1>6. /\ r \in RowsRead /\ q \in RowsRead /\ Stands(r) /\ Stands(q)
  <2>1. r \in RowsRead /\ q \in RowsRead
    BY <1>2, <1>3, <1>4, <1>5 DEF RowsRead, Reading
  <2> QED
    BY <2>1 DEF ReviewInv
<1> DEFINE h == IF e.heading = 0 THEN q.heading ELSE e.heading
           b == IF e.body = 0 THEN q.body ELSE e.body
           k == IF e.heading = 0 THEN r.heading ELSE e.heading
           l == IF e.body = 0 THEN r.body ELSE e.body
           w == Combined(h, b)
           f == IF q.body = 0 THEN r.body ELSE q.body
<1>7. PICK c \in Row :
        /\ c = IF kind = "pair" THEN UpdatePair(e) ELSE UpdateSingle(e)
        /\ c.status = e.status
        /\ kind # "pair" => c.heading = r.heading /\ c.pays = r.pays
                            /\ (e.status # "pending" => c.body = e.body)
        /\ kind = "pair" /\ e.status = "pending" =>
             /\ c.heading = r.heading /\ c.body = r.body
             /\ c.pays = TRUE /\ c.payHeading = h /\ c.payBody = b
        /\ kind = "pair" /\ e.status # "pending" =>
             c.heading = k /\ c.body = l /\ c.pays = FALSE
  <2>1. /\ h \in Text \cup {0} /\ b \in Text \cup {0} /\ w \in Text \cup {0}
        /\ k \in Text \cup {0} /\ l \in Text \cup {0} /\ f \in Text \cup {0}
        /\ e.status \in {"passed", "skipped", "pending", "rejected"}
    BY <1>4 DEF Row, Combined, Verdict
  <2>2. UpdatePair(e) =
          IF e.status = "pending"
          THEN [r EXCEPT !.waits = w, !.pays = TRUE, !.payHeading = h, !.payBody = b,
                         !.status = e.status]
          ELSE [r EXCEPT !.heading = k, !.body = l, !.pays = FALSE, !.payHeading = 0,
                         !.payBody = 0, !.status = e.status]
    BY <1>3, <1>5 DEF UpdatePair, Or
  <2>3. UpdateSingle(e) =
          IF e.status = "pending"
          THEN [r EXCEPT !.body = f, !.waits = e.body, !.status = e.status]
          ELSE [r EXCEPT !.body = e.body, !.status = e.status]
    BY <1>3, <1>5 DEF UpdateSingle, Or
  <2> HIDE DEF h, b, k, l, w, f
  <2> DEFINE c1 == [r EXCEPT !.waits = w, !.pays = TRUE, !.payHeading = h, !.payBody = b,
                             !.status = e.status]
             c2 == [r EXCEPT !.heading = k, !.body = l, !.pays = FALSE, !.payHeading = 0,
                             !.payBody = 0, !.status = e.status]
             c3 == [r EXCEPT !.body = f, !.waits = e.body, !.status = e.status]
             c4 == [r EXCEPT !.body = e.body, !.status = e.status]
  <2>4. CASE kind = "pair" /\ e.status = "pending"
    <3>1. /\ c1 \in Row /\ c1.status = e.status /\ c1.heading = r.heading /\ c1.body = r.body
          /\ c1.pays = TRUE /\ c1.payHeading = h /\ c1.payBody = b
      BY <2>1 DEF Row
    <3> QED
      BY <2>2, <2>4, <3>1
  <2>5. CASE kind = "pair" /\ e.status # "pending"
    <3>1. /\ c2 \in Row /\ c2.status = e.status /\ c2.heading = k /\ c2.body = l
          /\ c2.pays = FALSE
      BY <2>1 DEF Row
    <3> QED
      BY <2>2, <2>5, <3>1
  <2>6. CASE kind # "pair"
    <3>1. /\ c3 \in Row /\ c3.status = e.status /\ c3.heading = r.heading /\ c3.pays = r.pays
      BY <1>4, <2>1 DEF Row
    <3>2. /\ c4 \in Row /\ c4.status = e.status /\ c4.heading = r.heading /\ c4.pays = r.pays
          /\ c4.body = e.body
      BY <1>4, <2>1 DEF Row
    <3> QED
      BY <2>3, <2>6, <3>1, <3>2
  <2> QED
    BY <2>4, <2>5, <2>6
<1>8. Stands(c)
  BY <1>6, <1>7 DEF Stands
<1>9. Blank(c) => Blank(r) \/ Blank(q)
  BY <1>4, <1>5, <1>7 DEF Blank
<1>10. e.status # "pending" => Cleared(e.heading) /\ Cleared(e.body)
  BY <1>1, <1>2, <1>4 DEF HandHolds
<1>11. (\E s \in RowsRead : Blank(s)) => Cleared(c.heading)
  BY <1>1, <1>6, <1>7, <1>10 DEF HeadingsHold
<1>12. kind = "pair" /\ ~undone /\ e.status # "pending" => Cleared(k) /\ Cleared(l)
  BY <1>1, <1>2, <1>3, <1>4, <1>10 DEF PartsHold
<1>13. /\ content' = c /\ UNCHANGED <<kind, cleared, unread>> /\ undone' = undone
       /\ undone \in BOOLEAN
       /\ desk' = [t \in Desk |-> IF t = d THEN Vacant
                                  ELSE IF e.status = "pending" THEN Replaced(desk[t])
                                  ELSE desk[t]]
  BY <1>1, <1>2, <1>7 DEF EditWrites, ReviewTypes
<1>14. PICK held \in BOOLEAN : held <=> e.status = "pending"
  OBVIOUS
<1>15. desk' = [t \in Desk |-> IF t = d THEN Vacant
                               ELSE IF held THEN Replaced(desk[t]) ELSE desk[t]]
  BY <1>13, <1>14
<1> HIDE DEF h, b, k, l, w, f
<1>16. kind = "pair" /\ ~undone' => /\ Cleared(content.heading) => Cleared(c.heading)
                                    /\ Cleared(content.body) => Cleared(c.body)
  BY <1>3, <1>7, <1>12, <1>13
<1>17. (kind = "pair" => ~undone') /\ Public(c.status) => Cleared(c.heading) /\ Cleared(c.body)
  <2>1. SUFFICES ASSUME kind = "pair" => ~undone, Public(c.status)
                 PROVE  Cleared(c.heading) /\ Cleared(c.body)
    BY <1>13
  <2>2. e.status # "pending"
    BY <1>7, <2>1 DEF Public
  <2>3. CASE kind # "pair"
    BY <1>4, <1>7, <1>10, <2>2, <2>3 DEF Cleared
  <2>4. CASE kind = "pair"
    BY <1>7, <1>12, <2>1, <2>2, <2>4
  <2> QED
    BY <2>3, <2>4
<1> QED
  BY <1>4, <1>6, <1>7, <1>8, <1>9, <1>11, <1>13, <1>14, <1>15, <1>16, <1>17, PutsStep

\* A verdict is saved over whatever was written since the row was read.
LEMMA VerdictSavesStep ==
  ASSUME ReviewInv, NEW d \in Desk, VerdictSaves(d)
  PROVE  ReviewInv'
<1>1. ReviewTypes /\ SinglesHold /\ HeadingsHold /\ HandHolds(desk[d])
  BY DEF ReviewInv, DeskHolds
<1>2. PICK e \in Hand : e = desk[d]
  BY <1>1 DEF ReviewTypes
<1>3. PICK w \in Text \cup {0} : w = content.waits
  BY <1>1 DEF ReviewTypes, Row
<1>4. PICK q \in Row : q = e.row
  BY DEF Hand
<1>5. /\ e.pc \in {"approve", "reject"}
      /\ kind # "pair" => q.heading = 0 /\ ~q.pays
      /\ e.pc = "approve" => Cleared(Approved(q).heading) /\ Cleared(Approved(q).body)
  BY <1>1, <1>2, <1>4 DEF VerdictSaves, SinglesHold, HandHolds
<1>6. q \in RowsRead /\ Stands(q)
  <2>1. q \in RowsRead
    BY <1>2, <1>4, <1>5 DEF RowsRead, Reading
  <2> QED
    BY <2>1 DEF ReviewInv
<1>7. PICK n \in Row :
        /\ n = IF e.pc = "approve" THEN Approved(q) ELSE [q EXCEPT !.status = "rejected"]
        /\ n.pays = q.pays /\ n.payHeading = q.payHeading /\ n.payBody = q.payBody
        /\ n.status = IF e.pc = "approve" THEN "passed" ELSE "rejected"
        /\ e.pc = "reject" => n.heading = q.heading /\ n.body = q.body
        /\ e.pc = "approve" =>
             /\ n.heading = IF q.pays /\ q.payHeading # 0 THEN q.payHeading ELSE q.heading
             /\ n.body = IF q.pays /\ q.payBody # 0 THEN q.payBody
                         ELSE IF q.waits # 0 THEN q.waits ELSE q.body
             /\ Cleared(n.heading) /\ Cleared(n.body)
  <2>1. CASE e.pc = "approve"
    BY <1>5, <2>1, ApprovedRow
  <2>2. CASE e.pc = "reject"
    <3> DEFINE n == [q EXCEPT !.status = "rejected"]
    <3>1. /\ n \in Row /\ n.pays = q.pays /\ n.payHeading = q.payHeading
          /\ n.payBody = q.payBody /\ n.status = "rejected"
          /\ n.heading = q.heading /\ n.body = q.body
      BY DEF Row
    <3> QED
      BY <2>2, <3>1
  <2> QED
    BY <1>5, <2>1, <2>2
<1>8. PICK c \in Row : /\ c = [n EXCEPT !.waits = w] /\ c.heading = n.heading
                       /\ c.body = n.body /\ c.status = n.status /\ c.pays = n.pays
                       /\ c.payHeading = n.payHeading /\ c.payBody = n.payBody
  <2> DEFINE c == [n EXCEPT !.waits = w]
  <2>1. /\ c \in Row /\ c.heading = n.heading /\ c.body = n.body /\ c.status = n.status
        /\ c.pays = n.pays /\ c.payHeading = n.payHeading /\ c.payBody = n.payBody
    BY DEF Row
  <2> QED
    BY <2>1
<1>9. /\ content' = c /\ desk' = [desk EXCEPT ![d] = Vacant]
      /\ UNCHANGED <<kind, cleared, unread>>
      /\ undone' = (undone \/ (e.pc = "reject" /\ content # q))
  BY <1>2, <1>3, <1>4, <1>7, <1>8 DEF VerdictSaves
<1>10. desk' = [t \in Desk |-> IF t = d THEN Vacant
                               ELSE IF FALSE THEN Replaced(desk[t]) ELSE desk[t]]
  BY <1>1, <1>9 DEF ReviewTypes
<1>11. kind # "pair" => c.heading = 0 /\ ~c.pays
  BY <1>5, <1>7, <1>8
<1>12. Stands(c) /\ (Blank(c) => Blank(q)) /\ c.status # "pending"
  BY <1>5, <1>6, <1>7, <1>8 DEF Stands, Blank
<1>13. (\E r \in RowsRead : Blank(r)) => Cleared(c.heading)
  BY <1>1, <1>5, <1>6, <1>7, <1>8 DEF HeadingsHold
<1>14. kind = "pair" /\ ~undone' => /\ Cleared(content.heading) => Cleared(c.heading)
                                    /\ Cleared(content.body) => Cleared(c.body)
  BY <1>5, <1>7, <1>8, <1>9
<1>15. Public(c.status) => Cleared(c.heading) /\ Cleared(c.body)
  BY <1>5, <1>7, <1>8 DEF Public
<1>16. undone' \in BOOLEAN /\ (undone => undone')
  BY <1>1, <1>9 DEF ReviewTypes
<1> QED
  BY <1>6, <1>9, <1>10, <1>11, <1>12, <1>13, <1>14, <1>15, <1>16, PutsStep

\* However edits, listings and verdicts of one row overlap, what a request is about to
\* publish was cleared (updateAd, approveContentEntity), and what is public was (ReviewInv).
THEOREM ReviewInvariant == ReviewSpec => []ReviewInv
<1>1. ReviewInit => ReviewInv
  BY ReviewInitial
<1>2. ReviewInv /\ [ReviewNext]_reviewVars => ReviewInv'
  <2> SUFFICES ASSUME ReviewInv, [ReviewNext]_reviewVars PROVE ReviewInv'
    OBVIOUS
  <2>1. ASSUME NEW d \in Desk, NEW h \in Text \cup {0}, NEW b \in Text \cup {0},
               NEW v \in Verdict, Edit(d, h, b, v)
        PROVE  ReviewInv'
    BY <2>1, EditStep
  <2>2. ASSUME NEW d \in Desk, NEW v \in {"approve", "reject"}, Review(d, v) PROVE ReviewInv'
    BY <2>2, ReviewStep
  <2>3. ASSUME NEW d \in Desk, EditWrites(d) PROVE ReviewInv'
    BY <2>3, EditWritesStep
  <2>4. ASSUME NEW d \in Desk, VerdictSaves(d) PROVE ReviewInv'
    BY <2>4, VerdictSavesStep
  <2>5. ASSUME NEW d \in Desk, List(d) PROVE ReviewInv'
    BY <2>5, ListStep
  <2>6. CASE UNCHANGED reviewVars
    BY <2>6 DEF reviewVars, ReviewInv, ReviewTypes, SinglesHold, PublicHolds, HeadingsHold,
                RowsRead, Stands, DeskHolds, HandHolds, PartsHold, ListingHolds, Listed, Cleared
  <2> QED
    BY <2>1, <2>2, <2>3, <2>4, <2>5, <2>6 DEF ReviewNext
<1> QED
  BY <1>1, <1>2, PTL DEF ReviewSpec

\* No viewer who is neither the owner nor an administrator is shown a text that the policy
\* held (resolveDisplayText), whatever edits, listings and verdicts overlap, unless an
\* administrator who had it in the listing approved it (approveContentEntity) or an edit
\* put it there between the listing and the approval.
THEOREM PublicTextsCleared == ReviewSpec => []PublicTextWasCleared
<1>1. ReviewInv => PublicTextWasCleared
  BY DEF ReviewInv, PublicHolds, PublicTextWasCleared, ShownToOthers, Cleared
<1> QED
  BY <1>1, ReviewInvariant, PTL
=============================================================================
