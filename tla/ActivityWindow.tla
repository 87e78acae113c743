---------------------------- MODULE ActivityWindow ----------------------------
(***************************************************************************)
(* The activity chart of the command center: CommandCenterService resolves *)
(* a range into a window, picks the size of its buckets and lists their    *)
(* starts; a count of the database lands on the chart only if the start of *)
(* its bucket is in that list.                                             *)
(*                                                                         *)
(* The calendar is a parameter: Starts[size] are the moments a bucket of   *)
(* that size starts at, at any distance from each other, as months and     *)
(* years are.  Moments are whole numbers.  The database is taken to        *)
(* truncate in UTC, as the code does.                                      *)
(*                                                                         *)
(* Left out: the other tiles of the summary and the counts themselves.     *)
(***************************************************************************)
EXTENDS Integers

CONSTANTS
  Size,          \* bucket sizes
  Starts,        \* [Size -> SUBSET Int]
  TruncOf(_),    \* the size of the buckets of a window that long
  Earliest,      \* bounds of the moments a window may start, end, or hold
  Latest,        \*   something at
  Day            \* length of the window when no start is given

Moment == Earliest .. Latest

\* Every moment is in a bucket of each size, and every bucket is followed by one.
ASSUME CalendarAssumption ==
  /\ Earliest \in Int /\ Latest \in Int /\ Earliest <= Latest /\ Day \in Nat \ {0}
  /\ Starts \in [Size -> SUBSET Int]
  /\ \A t, u \in Moment : TruncOf(u - t) \in Size
  /\ \A size \in Size, t \in Moment :
       \E s \in Starts[size] : s <= t /\ \A r \in Starts[size] : r <= t => r <= s
  /\ \A size \in Size : \A c \in Starts[size] : (\E t \in Moment : c <= t) =>
       \E s \in Starts[size] : s > c /\ \A r \in Starts[size] : r > c => r >= s

VARIABLES
  now,       \* the clock when the request arrives
  window,    \* from, to and the size of the buckets
  cursor,    \* cursor of buildSeriesBuckets
  buckets,   \* the starts pushed so far
  chart      \* "range", "loop", "done", or "refused"

windowVars == <<now, window, cursor, buckets, chart>>

\* startOfTruncUtc, addTruncUtc
StartOfTruncUtc(t, size) ==
  CHOOSE s \in Starts[size] : s <= t /\ \A r \in Starts[size] : r <= t => r <= s
AddTruncUtc(c, size) ==
  CHOOSE s \in Starts[size] : s > c /\ \A r \in Starts[size] : r > c => r >= s

WindowInit ==
  /\ now \in Moment
  /\ window = [from |-> 0, to |-> 0, size |-> TruncOf(0)]
  /\ cursor = 0 /\ buckets = {}
  /\ chart = "range"

\* buildWindow, and the first lines of buildSeriesBuckets.
BuildWindow(from, to) ==
  /\ chart = "range"
  /\ IF from >= to
     THEN chart' = "refused" /\ UNCHANGED <<window, cursor>>
     ELSE LET size == TruncOf(to - from)
          IN /\ window' = [from |-> from, to |-> to, size |-> size]
             /\ cursor' = StartOfTruncUtc(from, size)
             /\ chart' = "loop"
  /\ UNCHANGED <<now, buckets>>

\* A preset goes back from now; so does a custom range without a start.
Preset == now - Day \in Moment /\ BuildWindow(now - Day, now)

BuildCustomWindow(from, to) == BuildWindow(from, to)

\* From the earliest row, unless the clocks are odd.
BuildAllTimeWindow(earliest) ==
  IF earliest < now THEN BuildWindow(earliest, now)
  ELSE now - Day \in Moment /\ BuildWindow(now - Day, now)

\* Mutant: it stops short of that bucket.
StopsShort(c) == c < StartOfTruncUtc(window.to - 1, window.size)

\* The loop goes on up to the bucket of the last moment before the end.
GoesOn(c) == c <= StartOfTruncUtc(window.to - 1, window.size)

\* One round of buildSeriesBuckets' loop.
BuildSeriesBuckets ==
  /\ chart = "loop"
  /\ IF GoesOn(cursor)
     THEN /\ buckets' = buckets \cup {cursor}
          /\ cursor' = AddTruncUtc(cursor, window.size)
          /\ UNCHANGED chart
     ELSE chart' = "done" /\ UNCHANGED <<buckets, cursor>>
  /\ UNCHANGED <<now, window>>

WindowNext ==
  \/ Preset \/ BuildSeriesBuckets
  \/ \E from, to \in Moment : BuildCustomWindow(from, to)
  \/ \E earliest \in Moment : BuildAllTimeWindow(earliest)

WindowSpec == WindowInit /\ [][WindowNext]_windowVars

(***************************************************************************)
(* Properties                                                              *)
(***************************************************************************)
\* Whatever the calendar and however long the window, everything that happened in it is on
\* the chart: its bucket is among the points, and no point lies at or behind the end.
SeriesCoversWindow ==
  chart = "done" =>
    /\ \A t \in Moment : window.from <= t /\ t < window.to =>
         StartOfTruncUtc(t, window.size) \in buckets
    /\ \A b \in buckets : b < window.to
=============================================================================
